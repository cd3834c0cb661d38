--------------------------- MODULE ConsoleProofs ---------------------------
(***************************************************************************)
(* Proofs about Console, for every number of readers and every size of the *)
(* ring.                                                                   *)
(***************************************************************************)
EXTENDS Console, SequenceTheorems, TLAPS

(* What a place of the ring holds: its first contents, or a character typed. *)
Cell == Chars \cup {CHOOSE c \in Letters : TRUE}

Types ==
  /\ lock \in Readers \cup {None}
  /\ killed \subseteq Readers
  /\ pc \in [Readers -> {"out", "acquire", "loop", "sleep", "asleep"}]
  /\ n \in [Readers -> Nat] /\ target \in [Readers -> Nat]

(* cons.lock is held in the loop and on the way to sleep, n counts down     *)
(* from target, and who sleeps or is about to has nothing to read.          *)
Reading ==
  \A p \in Readers :
    /\ pc[p] \in {"loop", "sleep"} <=> lock = p
    /\ n[p] <= target[p]
    /\ pc[p] \in {"sleep", "asleep"} => r = w

(* The indices are uints and in order, and the line being edited has no     *)
(* newline.                                                                 *)
Indices ==
  /\ buf \in [0..(INPUT_BUF - 1) -> Cell]
  /\ r \in 0..(UINT - 1) /\ w \in 0..(UINT - 1) /\ e \in 0..(UINT - 1)
  /\ NeverStuck
OneLine == \A k \in 0..(INPUT_BUF - 1) : k < Minus(e, w) => buf[(w + k) % INPUT_BUF] # NL

IInv == Types /\ Reading /\ Indices /\ OneLine

USE SMTT(60), ZenonT(60) DEF vars, input, local, Goto

-----------------------------------------------------------------------------
(* Arithmetic of the ring. *)

(* The size of the ring and the range of a uint. *)
LEMMA Sizes ==
  /\ INPUT_BUF \in Nat /\ INPUT_BUF > 0
  /\ UINT \in Nat /\ UINT > INPUT_BUF /\ UINT % INPUT_BUF = 0
BY ConsoleAssumption

(* The other constants. *)
LEMMA Consts == None \notin Readers /\ Lens \subseteq Nat
BY ConsoleAssumption

(* Quotient and remainder. *)
LEMMA DivMod ==
  ASSUME NEW m \in Nat, m > 0, NEW a \in Int
  PROVE  a \div m \in Int /\ a % m \in 0..(m - 1) /\ a = m * (a \div m) + (a % m)
OBVIOUS

(* The remainder is determined by its equation. *)
LEMMA Remainder ==
  ASSUME NEW m \in Nat, m > 0, NEW a \in Int, NEW k \in Int, NEW x \in 0..(m - 1), a = m * k + x
  PROVE  a % m = x
OBVIOUS

(* The wrap of a uint does not move its place in the ring. *)
LEMMA Wrap ==
  ASSUME NEW a \in Int
  PROVE  (UINT + a) % INPUT_BUF = a % INPUT_BUF
<1> DEFINE m == UINT \div INPUT_BUF
           k == a \div INPUT_BUF
           x == a % INPUT_BUF
<1>1. UINT = INPUT_BUF * m /\ m \in Int
  BY Sizes, DivMod
<1>2. a = INPUT_BUF * k + x /\ k \in Int /\ x \in 0..(INPUT_BUF - 1)
  BY Sizes, DivMod
<1> HIDE DEF m, k, x
<1>3. UINT + a = INPUT_BUF * (m + k) + x
  BY <1>1, <1>2, Sizes
<1>4. (UINT + a) % INPUT_BUF = x
  BY <1>1, <1>2, <1>3, Remainder, Sizes
<1> QED
  BY <1>4 DEF x

(* Counts less than the ring's size apart have different places. *)
LEMMA Apart ==
  ASSUME NEW a \in Int, NEW d \in 1..(INPUT_BUF - 1)
  PROVE  (a + d) % INPUT_BUF # a % INPUT_BUF
<1> SUFFICES ASSUME (a + d) % INPUT_BUF = a % INPUT_BUF PROVE FALSE
  OBVIOUS
<1> DEFINE m == (a + d) \div INPUT_BUF
           k == a \div INPUT_BUF
           x == a % INPUT_BUF
<1>1. a + d = INPUT_BUF * m + x /\ m \in Int
  BY Sizes, DivMod
<1>2. a = INPUT_BUF * k + x /\ k \in Int /\ x \in Int
  BY Sizes, DivMod
<1> HIDE DEF m, k, x
<1>3. d = INPUT_BUF * (m - k)
  BY <1>1, <1>2, Sizes
<1>4. CASE m - k >= 1
  <2>1. INPUT_BUF * (m - k) >= INPUT_BUF
    BY <1>1, <1>2, <1>4, Sizes
  <2> QED
    BY <1>3, <2>1, Sizes
<1>5. CASE m - k <= 0
  <2>1. INPUT_BUF * (m - k) <= 0
    BY <1>1, <1>2, <1>5, Sizes
  <2> QED
    BY <1>3, <2>1, Sizes
<1> QED
  BY <1>1, <1>2, <1>4, <1>5

(* Differences of uints. *)
LEMMA MinusIs ==
  ASSUME NEW x \in 0..(UINT - 1), NEW y \in 0..(UINT - 1)
  PROVE  /\ Minus(x, y) = IF y <= x THEN x - y ELSE x - y + UINT
         /\ Minus(x, y) \in 0..(UINT - 1)
         /\ x % INPUT_BUF = (y + Minus(x, y)) % INPUT_BUF
<1>1. Minus(x, y) = IF y <= x THEN x - y ELSE x - y + UINT
  BY Sizes DEF Minus
<1>2. y + Minus(x, y) = x \/ y + Minus(x, y) = UINT + x
  BY <1>1, Sizes
<1> QED
  BY <1>1, <1>2, Wrap, Sizes

(* Steps of uints, forth and back. *)
LEMMA IncIs ==
  ASSUME NEW x \in 0..(UINT - 1)
  PROVE  /\ Inc(x) = IF x + 1 < UINT THEN x + 1 ELSE 0
         /\ Inc(x) \in 0..(UINT - 1)
         /\ Minus(x, 1) = IF x > 0 THEN x - 1 ELSE UINT - 1
         /\ Minus(x, 1) \in 0..(UINT - 1)
<1>1. 1 \in 0..(UINT - 1)
  BY Sizes
<1>2. Minus(x, 1) = IF 1 <= x THEN x - 1 ELSE x - 1 + UINT
  BY <1>1, MinusIs
<1>3. Inc(x) = IF x + 1 < UINT THEN x + 1 ELSE 0
  BY Sizes DEF Inc
<1> QED
  BY <1>2, <1>3, Sizes

(* Where At looks in the ring. *)
LEMMA AtIs ==
  ASSUME NEW x \in 0..(UINT - 1), NEW i \in 0..INPUT_BUF
  PROVE  At((x + i) % UINT) = buf[(x + i) % INPUT_BUF]
<1>1. (x + i) % UINT = IF x + i < UINT THEN x + i ELSE x + i - UINT
  BY Sizes
<1>2. (x + i) % UINT \in Int /\ ((x + i) % UINT = x + i \/ UINT + ((x + i) % UINT) = x + i)
  BY <1>1, Sizes
<1>3. ((x + i) % UINT) % INPUT_BUF = (x + i) % INPUT_BUF
  BY <1>2, Wrap
<1> QED
  BY <1>3 DEF At

(* How far apart the three indices are. *)
LEMMA Distances ==
  ASSUME Indices
  PROVE  /\ Minus(w, r) \in 0..INPUT_BUF /\ Minus(e, r) \in 0..INPUT_BUF
         /\ Minus(e, w) = Minus(e, r) - Minus(w, r)
         /\ Minus(e, w) \in 0..INPUT_BUF
         /\ Minus(w, r) <= Minus(e, r)
         /\ Minus(e, r) = INPUT_BUF => w = e
         /\ (r = w <=> Minus(w, r) = 0) /\ (e = w <=> Minus(e, w) = 0)
<1>1. r \in 0..(UINT - 1) /\ w \in 0..(UINT - 1) /\ e \in 0..(UINT - 1) /\ NeverStuck
  BY DEF Indices
<1>2. /\ Minus(w, r) = IF r <= w THEN w - r ELSE w - r + UINT
      /\ Minus(e, r) = IF r <= e THEN e - r ELSE e - r + UINT
      /\ Minus(e, w) = IF w <= e THEN e - w ELSE e - w + UINT
  BY <1>1, MinusIs
<1> QED
  BY <1>1, <1>2, Sizes DEF NeverStuck

-----------------------------------------------------------------------------
(* The complete input, and the line being edited, as sequences. *)

(* Text(r, w) is what readers can have, Text(w, e) can still be edited. *)
LEMMA TextIs ==
  ASSUME buf \in [0..(INPUT_BUF - 1) -> Cell],
         NEW x \in 0..(UINT - 1), NEW y \in 0..(UINT - 1), Minus(y, x) <= INPUT_BUF
  PROVE  /\ Text(x, y) \in Seq(Cell) /\ Len(Text(x, y)) = Minus(y, x)
         /\ \A k \in 1..Minus(y, x) : Text(x, y)[k] = buf[(x + k - 1) % INPUT_BUF]
<1>1. Minus(y, x) \in 0..INPUT_BUF
  BY MinusIs, Sizes
<1>2. ASSUME NEW k \in 1..Minus(y, x)
      PROVE  /\ At((x + k - 1) % UINT) = buf[(x + k - 1) % INPUT_BUF]
             /\ buf[(x + k - 1) % INPUT_BUF] \in Cell
  <2>1. k - 1 \in 0..INPUT_BUF /\ x + k - 1 = x + (k - 1) /\ x + k - 1 \in Int
    BY <1>1, Sizes
  <2>2. At((x + k - 1) % UINT) = buf[(x + k - 1) % INPUT_BUF]
    BY <2>1, AtIs
  <2>3. (x + k - 1) % INPUT_BUF \in 0..(INPUT_BUF - 1)
    BY <2>1, DivMod, Sizes
  <2> QED
    BY <2>2, <2>3
<1>3. Text(x, y) \in [1..Minus(y, x) -> Cell]
  BY <1>2 DEF Text
<1> QED
  BY <1>1, <1>2, <1>3 DEF Text

(* The two texts of the ring, now ... *)
TextsAre ==
  /\ Text(r, w) \in Seq(Cell) /\ Len(Text(r, w)) = Minus(w, r)
  /\ \A k \in 1..Minus(w, r) : Text(r, w)[k] = buf[(r + k - 1) % INPUT_BUF]
  /\ Text(w, e) \in Seq(Cell) /\ Len(Text(w, e)) = Minus(e, w)
  /\ \A k \in 1..Minus(e, w) : Text(w, e)[k] = buf[(w + k - 1) % INPUT_BUF]

(* ... and, as it is an implication, after a step. *)
LEMMA Texts == Indices => TextsAre
<1> SUFFICES ASSUME Indices PROVE TextsAre
  OBVIOUS
<1>1. /\ buf \in [0..(INPUT_BUF - 1) -> Cell]
      /\ r \in 0..(UINT - 1) /\ w \in 0..(UINT - 1) /\ e \in 0..(UINT - 1)
  BY DEF Indices
<1>2. Minus(w, r) <= INPUT_BUF /\ Minus(e, w) <= INPUT_BUF
  BY Distances, Sizes
<1> QED
  BY <1>1, <1>2, TextIs DEF TextsAre

(* A reader takes the oldest character. *)
LEMMA GetMaps ==
  ASSUME Indices, OneLine, r # w, r' = Inc(r), UNCHANGED <<buf, w, e>>
  PROVE  /\ Indices' /\ OneLine'
         /\ Text(r, w) # <<>> /\ Text(r, w)' = Tail(Text(r, w))
         /\ Text(w, e)' = Text(w, e)
<1>1. /\ r \in 0..(UINT - 1) /\ w \in 0..(UINT - 1) /\ e \in 0..(UINT - 1)
      /\ Minus(w, r) \in 1..INPUT_BUF /\ Minus(e, r) \in 1..INPUT_BUF
      /\ Minus(w, r) <= Minus(e, r)
  BY Distances, Sizes DEF Indices
<1>2. r' = (IF r + 1 < UINT THEN r + 1 ELSE 0) /\ r' \in 0..(UINT - 1)
  BY <1>1, IncIs
<1>3. Minus(w, r') = Minus(w, r) - 1 /\ Minus(e, r') = Minus(e, r) - 1
  <2>1. /\ Minus(w, r) = IF r <= w THEN w - r ELSE w - r + UINT
        /\ Minus(e, r) = IF r <= e THEN e - r ELSE e - r + UINT
        /\ Minus(w, r') = IF r' <= w THEN w - r' ELSE w - r' + UINT
        /\ Minus(e, r') = IF r' <= e THEN e - r' ELSE e - r' + UINT
    BY <1>1, <1>2, MinusIs, ZenonT(60)
  <2> QED
    BY <1>1, <1>2, <2>1, Sizes
<1>4. Minus(w, r)' = Minus(w, r') /\ Minus(e, r)' = Minus(e, r') /\ Minus(e, w)' = Minus(e, w)
  BY DEF Minus
<1>5. Indices'
  <2>1. NeverStuck'
    BY <1>1, <1>3, <1>4, Sizes DEF NeverStuck
  <2> QED
    BY <1>2, <2>1 DEF Indices
<1>6. OneLine'
  BY <1>4 DEF OneLine
<1>7. TextsAre /\ TextsAre'
  BY <1>5, Texts, PTL
<1>8. Text(w, e)' = Text(w, e)
  BY DEF Text, At, Minus
<1>9. ASSUME NEW k \in 1..(Minus(w, r) - 1) PROVE Text(r, w)'[k] = Text(r, w)[k + 1]
  <2>1. Text(r, w)'[k] = buf[(r' + k - 1) % INPUT_BUF]
    BY <1>3, <1>4, <1>7 DEF TextsAre
  <2>2. Text(r, w)[k + 1] = buf[(r + k) % INPUT_BUF]
    BY <1>1, <1>7 DEF TextsAre
  <2>3. /\ r' + k - 1 \in Int
        /\ r' + k - 1 = r + k \/ UINT + (r' + k - 1) = r + k
    BY <1>1, <1>2, Sizes
  <2>4. (r' + k - 1) % INPUT_BUF = (r + k) % INPUT_BUF
    BY <2>3, Wrap
  <2> QED
    BY <2>1, <2>2, <2>4
<1>10. Text(r, w)' = Tail(Text(r, w))
  <2>1. Text(r, w) \in Seq(Cell) /\ Len(Text(r, w)) = Minus(w, r)
    BY <1>7 DEF TextsAre
  <2>2. Text(r, w)' \in Seq(Cell) /\ Len(Text(r, w)') = Minus(w, r) - 1
    BY <1>3, <1>4, <1>7 DEF TextsAre
  <2> QED
    BY <1>1, <1>9, <2>1, <2>2
<1>11. Text(r, w) # <<>>
  BY <1>1, <1>7 DEF TextsAre
<1> QED
  BY <1>5, <1>6, <1>8, <1>10, <1>11

(* Backspace takes back the last character of the line. *)
LEMMA BackspaceMaps ==
  ASSUME Indices, OneLine, e # w, e' = Minus(e, 1), UNCHANGED <<buf, r, w>>
  PROVE  /\ Indices' /\ OneLine'
         /\ Text(w, e) # <<>> /\ Text(w, e)' = SubSeq(Text(w, e), 1, Len(Text(w, e)) - 1)
         /\ Text(r, w)' = Text(r, w)
<1>1. /\ r \in 0..(UINT - 1) /\ w \in 0..(UINT - 1) /\ e \in 0..(UINT - 1)
      /\ Minus(e, w) \in 1..INPUT_BUF /\ Minus(e, r) \in 1..INPUT_BUF
      /\ Minus(w, r) \in 0..INPUT_BUF /\ Minus(w, r) < Minus(e, r)
  BY Distances, Sizes DEF Indices
<1>2. e' = (IF e > 0 THEN e - 1 ELSE UINT - 1) /\ e' \in 0..(UINT - 1)
  BY <1>1, IncIs
<1>3. Minus(e', w) = Minus(e, w) - 1 /\ Minus(e', r) = Minus(e, r) - 1
  <2>1. /\ Minus(e, w) = IF w <= e THEN e - w ELSE e - w + UINT
        /\ Minus(e, r) = IF r <= e THEN e - r ELSE e - r + UINT
        /\ Minus(e', w) = IF w <= e' THEN e' - w ELSE e' - w + UINT
        /\ Minus(e', r) = IF r <= e' THEN e' - r ELSE e' - r + UINT
    BY <1>1, <1>2, MinusIs, ZenonT(60)
  <2> QED
    BY <1>1, <1>2, <2>1, Sizes
<1>4. Minus(w, r)' = Minus(w, r) /\ Minus(e, r)' = Minus(e', r) /\ Minus(e, w)' = Minus(e', w)
  BY DEF Minus
<1>5. Indices'
  <2>1. NeverStuck'
    BY <1>1, <1>3, <1>4, Sizes DEF NeverStuck
  <2> QED
    BY <1>2, <2>1 DEF Indices
<1>6. OneLine'
  <2> SUFFICES ASSUME NEW k \in 0..(INPUT_BUF - 1), k < Minus(e, w) - 1
               PROVE  buf[(w + k) % INPUT_BUF] # NL
    BY <1>3, <1>4 DEF OneLine
  <2>1. k < Minus(e, w)
    BY <1>1, Sizes
  <2> QED
    BY <2>1 DEF OneLine
<1>7. TextsAre /\ TextsAre'
  BY <1>5, Texts, PTL
<1>8. Text(r, w)' = Text(r, w)
  BY DEF Text, At, Minus
<1>9. Text(w, e)' = SubSeq(Text(w, e), 1, Len(Text(w, e)) - 1)
  <2>1. Text(w, e) \in Seq(Cell) /\ Len(Text(w, e)) = Minus(e, w)
    BY <1>7 DEF TextsAre
  <2>2. Text(w, e)' \in Seq(Cell) /\ Len(Text(w, e)') = Minus(e, w) - 1
    BY <1>3, <1>4, <1>7 DEF TextsAre
  <2>3. ASSUME NEW k \in 1..(Minus(e, w) - 1) PROVE Text(w, e)'[k] = Text(w, e)[k]
    <3>1. k \in 1..Minus(e, w)
      BY <1>1
    <3>2. Text(w, e)'[k] = buf[(w + k - 1) % INPUT_BUF]
      BY <1>3, <1>4, <1>7 DEF TextsAre
    <3> QED
      BY <1>7, <3>1, <3>2 DEF TextsAre
  <2> QED
    BY <1>1, <2>1, <2>2, <2>3
<1>10. Text(w, e) # <<>>
  BY <1>1, <1>7 DEF TextsAre
<1> QED
  BY <1>5, <1>6, <1>8, <1>9, <1>10

(* ^U finds no newline, and takes back the whole line. *)
LEMMA ErasedIs ==
  ASSUME Indices, OneLine
  PROVE  Erased = Minus(e, w)
<1> DEFINE len == Minus(e, w)
           Stop(k) == /\ \A j \in 1..k : At(Minus(e, j)) # NL
                      /\ k = len \/ At(Minus(e, k + 1)) = NL
<1>1. /\ w \in 0..(UINT - 1) /\ e \in 0..(UINT - 1) /\ len \in 0..INPUT_BUF
  BY Distances DEF Indices
<1>2. ASSUME NEW j \in 1..len PROVE At(Minus(e, j)) # NL
  <2>1. len - j \in 0..(INPUT_BUF - 1) /\ len - j < len /\ j \in 0..(UINT - 1) /\ len - j \in 0..INPUT_BUF
    BY <1>1, Sizes
  <2>2. Minus(e, j) = (w + (len - j)) % UINT
    <3>1. len = IF w <= e THEN e - w ELSE e - w + UINT
      BY <1>1, MinusIs
    <3>2. Minus(e, j) = IF j <= e THEN e - j ELSE e - j + UINT
      BY <1>1, <2>1, MinusIs
    <3>3. (w + (len - j)) % UINT =
            IF w + (len - j) < UINT THEN w + (len - j) ELSE w + (len - j) - UINT
      BY <1>1, <2>1, Sizes
    <3> QED
      BY <1>1, <1>2, <2>1, <3>1, <3>2, <3>3, Sizes
  <2>3. At(Minus(e, j)) = buf[(w + (len - j)) % INPUT_BUF]
    BY <1>1, <2>1, <2>2, AtIs
  <2> QED
    BY <2>1, <2>3 DEF OneLine
<1> HIDE DEF len
<1>3. len \in 0..len /\ Stop(len)
  BY <1>1, <1>2
<1>4. \A k \in 0..len : Stop(k) => k = len
  BY <1>1, <1>2
<1> HIDE DEF Stop
<1>5. (CHOOSE k \in 0..len : Stop(k)) = len
  BY <1>3, <1>4
<1> QED
  BY <1>5 DEF Erased, Stop, len

(* ^U empties the line. *)
LEMMA KillLineMaps ==
  ASSUME Indices, OneLine, e' = Minus(e, Erased), UNCHANGED <<buf, r, w>>
  PROVE  /\ Indices' /\ OneLine'
         /\ Text(w, e)' = <<>> /\ Text(r, w)' = Text(r, w)
<1>1. /\ r \in 0..(UINT - 1) /\ w \in 0..(UINT - 1) /\ e \in 0..(UINT - 1)
      /\ Minus(w, r) \in 0..INPUT_BUF /\ Minus(e, w) \in 0..INPUT_BUF
  BY Distances DEF Indices
<1>2. e' = w
  <2>1. e' = Minus(e, Minus(e, w))
    BY ErasedIs
  <2>2. Minus(e, w) = (IF w <= e THEN e - w ELSE e - w + UINT) /\ Minus(e, w) \in 0..(UINT - 1)
    BY <1>1, MinusIs
  <2>3. Minus(e, Minus(e, w)) =
          IF Minus(e, w) <= e THEN e - Minus(e, w) ELSE e - Minus(e, w) + UINT
    BY <1>1, <2>2, MinusIs, ZenonT(60)
  <2> QED
    BY <1>1, <2>1, <2>2, <2>3, Sizes
<1>3. Minus(w, r)' = Minus(w, r) /\ Minus(e, r)' = Minus(w, r) /\ Minus(e, w)' = 0
  <2>1. Minus(w, w) = 0
    BY <1>1, MinusIs
  <2> QED
    BY <1>2, <2>1 DEF Minus
<1>4. Indices'
  <2>1. NeverStuck'
    BY <1>1, <1>2, <1>3, Sizes DEF NeverStuck
  <2> QED
    BY <1>1, <1>2, <2>1 DEF Indices
<1>5. OneLine'
  BY <1>3 DEF OneLine
<1>6. TextsAre'
  BY <1>4, Texts, PTL
<1>7. Text(w, e)' = <<>>
  BY <1>3, <1>6 DEF TextsAre
<1>8. Text(r, w)' = Text(r, w)
  BY DEF Text, At, Minus
<1> QED
  BY <1>4, <1>5, <1>7, <1>8

(* A character typed goes behind the others, and overwrites none. *)
LEMMA TypeStores ==
  ASSUME Indices, Room, NEW c \in Chars,
         buf' = [buf EXCEPT ![e % INPUT_BUF] = c], e' = Inc(e), r' = r
  PROVE  /\ e' \in 0..(UINT - 1) /\ buf' \in [0..(INPUT_BUF - 1) -> Cell]
         /\ Minus(e', r) = Minus(e, r) + 1 /\ Minus(e', w) = Minus(e, w) + 1
         /\ Minus(e, r) \in 0..(INPUT_BUF - 1)
         /\ e' = (r + INPUT_BUF) % UINT <=> Minus(e, r) + 1 = INPUT_BUF
         /\ buf'[(r + Minus(e, r)) % INPUT_BUF] = c
         /\ \A k \in 1..Minus(e, r) :
              buf'[(r + k - 1) % INPUT_BUF] = buf[(r + k - 1) % INPUT_BUF]
<1>1. /\ r \in 0..(UINT - 1) /\ w \in 0..(UINT - 1) /\ e \in 0..(UINT - 1)
      /\ Minus(e, r) \in 0..(INPUT_BUF - 1) /\ Minus(w, r) \in 0..INPUT_BUF
      /\ Minus(w, r) <= Minus(e, r) /\ Minus(e, w) = Minus(e, r) - Minus(w, r)
  BY Distances, Sizes DEF Indices, Room
<1>2. e' = (IF e + 1 < UINT THEN e + 1 ELSE 0) /\ e' \in 0..(UINT - 1)
  BY <1>1, IncIs
<1>3. Minus(e', r) = Minus(e, r) + 1 /\ Minus(e', w) = Minus(e, w) + 1
  <2>1. /\ Minus(e, w) = IF w <= e THEN e - w ELSE e - w + UINT
        /\ Minus(e, r) = IF r <= e THEN e - r ELSE e - r + UINT
        /\ Minus(e', w) = IF w <= e' THEN e' - w ELSE e' - w + UINT
        /\ Minus(e', r) = IF r <= e' THEN e' - r ELSE e' - r + UINT
    BY <1>1, <1>2, MinusIs, ZenonT(60)
  <2>2. Minus(e', r) = Minus(e, r) + 1
    BY <1>1, <1>2, <2>1, Sizes
  <2>3. Minus(e, w) \in 0..(INPUT_BUF - 1)
    BY <1>1, Sizes
  <2>4. Minus(e', w) = Minus(e, w) + 1
    BY <1>1, <1>2, <2>1, <2>3, Sizes
  <2> QED
    BY <2>2, <2>4
<1>4. e' = (r + INPUT_BUF) % UINT <=> Minus(e, r) + 1 = INPUT_BUF
  <2>1. (r + INPUT_BUF) % UINT =
          IF r + INPUT_BUF < UINT THEN r + INPUT_BUF ELSE r + INPUT_BUF - UINT
    BY <1>1, Sizes
  <2>2. Minus(e', r) = IF r <= e' THEN e' - r ELSE e' - r + UINT
    BY <1>1, <1>2, MinusIs, ZenonT(60)
  <2> QED
    BY <1>1, <1>2, <1>3, <2>1, <2>2, Sizes
<1>5. e % INPUT_BUF = (r + Minus(e, r)) % INPUT_BUF /\ e % INPUT_BUF \in 0..(INPUT_BUF - 1)
  BY <1>1, MinusIs, DivMod, Sizes
<1>6. buf' \in [0..(INPUT_BUF - 1) -> Cell] /\ buf'[(r + Minus(e, r)) % INPUT_BUF] = c
  BY <1>5 DEF Indices, Cell
<1>7. ASSUME NEW k \in 1..Minus(e, r)
      PROVE  buf'[(r + k - 1) % INPUT_BUF] = buf[(r + k - 1) % INPUT_BUF]
  <2> DEFINE a == r + k - 1
             d == Minus(e, r) + 1 - k
  <2>1. a \in Int /\ d \in 1..(INPUT_BUF - 1) /\ r + Minus(e, r) = a + d
    BY <1>1, Sizes
  <2> HIDE DEF a, d
  <2>2. a % INPUT_BUF # e % INPUT_BUF
    BY <1>5, <2>1, Apart
  <2>3. a % INPUT_BUF \in 0..(INPUT_BUF - 1)
    BY <2>1, DivMod, Sizes
  <2>4. buf'[a % INPUT_BUF] = buf[a % INPUT_BUF]
    BY <2>2, <2>3 DEF Indices
  <2> QED
    BY <2>4 DEF a
<1> QED
  BY <1>1, <1>2, <1>3, <1>4, <1>6, <1>7

(* The line being edited is behind the complete input. *)
LEMMA Behind ==
  ASSUME Indices, NEW k \in Int
  PROVE  (w + k) % INPUT_BUF = (r + Minus(w, r) + k) % INPUT_BUF
<1>1. r \in 0..(UINT - 1) /\ w \in 0..(UINT - 1)
  BY DEF Indices
<1>2. Minus(w, r) = IF r <= w THEN w - r ELSE w - r + UINT
  BY <1>1, MinusIs
<1>3. r + Minus(w, r) + k = w + k \/ r + Minus(w, r) + k = UINT + (w + k)
  BY <1>1, <1>2, Sizes
<1>4. w + k \in Int
  BY <1>1
<1> QED
  BY <1>3, <1>4, Wrap

(* A character that does not complete the input extends the line. *)
LEMMA TypeExtends ==
  ASSUME Indices, OneLine, Room, NEW c \in Chars, ~Complete(c, e'),
         buf' = [buf EXCEPT ![e % INPUT_BUF] = c], e' = Inc(e), r' = r, w' = w
  PROVE  /\ Indices' /\ OneLine'
         /\ Text(w, e)' = Append(Text(w, e), c) /\ Text(r, w)' = Text(r, w)
<1> DEFINE a == Minus(w, r)
           b == Minus(e, r)
<1>1. /\ a \in 0..INPUT_BUF /\ b \in 0..(INPUT_BUF - 1) /\ a <= b
      /\ Minus(e, w) = b - a /\ Minus(e', w) = b - a + 1 /\ Minus(e', r) = b + 1
      /\ r \in 0..(UINT - 1) /\ w \in 0..(UINT - 1)
  BY TypeStores, Distances, Sizes, ZenonT(60) DEF Indices
<1>2. b + 1 # INPUT_BUF /\ c \notin {NL, EOF}
  BY TypeStores, ZenonT(60) DEF Complete
<1>3. buf'[(r + b) % INPUT_BUF] = c
      /\ \A k \in 1..b : buf'[(r + k - 1) % INPUT_BUF] = buf[(r + k - 1) % INPUT_BUF]
  BY TypeStores, ZenonT(60)
<1>4. Minus(w, r)' = a /\ Minus(e, r)' = b + 1 /\ Minus(e, w)' = b - a + 1
  BY <1>1 DEF Minus
<1>5. Indices'
  <2>1. NeverStuck'
    BY <1>1, <1>2, <1>4, Sizes DEF NeverStuck
  <2>2. e' \in 0..(UINT - 1) /\ buf' \in [0..(INPUT_BUF - 1) -> Cell]
    BY TypeStores, ZenonT(60)
  <2> QED
    BY <2>1, <2>2 DEF Indices
<1> HIDE DEF a, b
<1>6. ASSUME NEW k \in 1..(b - a)
      PROVE  buf'[(w + k - 1) % INPUT_BUF] = buf[(w + k - 1) % INPUT_BUF]
  <2>1. a + k \in 1..b /\ k - 1 \in Int /\ w + k - 1 = w + (k - 1)
        /\ r + a + (k - 1) = r + (a + k) - 1
    BY <1>1
  <2>2. (w + k - 1) % INPUT_BUF = (r + (a + k) - 1) % INPUT_BUF
    BY <2>1, Behind DEF a
  <2> QED
    BY <1>3, <2>1, <2>2
<1>7. buf'[(w + (b - a)) % INPUT_BUF] = c
  <2>1. b - a \in Int /\ r + a + (b - a) = r + b
    BY <1>1
  <2> QED
    BY <1>3, <2>1, Behind DEF a
<1>8. OneLine'
  <2> SUFFICES ASSUME NEW k \in 0..(INPUT_BUF - 1), k < b - a + 1
               PROVE  buf'[(w + k) % INPUT_BUF] # NL
    BY <1>4 DEF OneLine
  <2>1. CASE k = b - a
    BY <1>2, <1>7, <2>1
  <2>2. CASE k < b - a
    <3>1. k + 1 \in 1..(b - a) /\ w + (k + 1) - 1 = w + k
      BY <1>1, <2>2
    <3>2. buf'[(w + k) % INPUT_BUF] = buf[(w + k) % INPUT_BUF]
      BY <1>6, <3>1
    <3> QED
      BY <1>1, <2>2, <3>2 DEF OneLine
  <2> QED
    BY <1>1, <2>1, <2>2
<1>9. TextsAre /\ TextsAre'
  BY <1>5, Texts, PTL
<1>10. Text(r, w)' = Text(r, w)
  <2>1. /\ Text(r, w) \in Seq(Cell) /\ Len(Text(r, w)) = a
        /\ Text(r, w)' \in Seq(Cell) /\ Len(Text(r, w)') = a
    BY <1>4, <1>9 DEF TextsAre, a
  <2>2. ASSUME NEW k \in 1..a PROVE Text(r, w)'[k] = Text(r, w)[k]
    <3>1. Text(r, w)'[k] = buf'[(r + k - 1) % INPUT_BUF]
      BY <1>4, <1>9 DEF TextsAre
    <3>2. Text(r, w)[k] = buf[(r + k - 1) % INPUT_BUF]
      BY <1>9 DEF TextsAre, a
    <3>3. k \in 1..b
      BY <1>1
    <3> QED
      BY <1>3, <3>1, <3>2, <3>3
  <2> QED
    BY <1>1, <2>1, <2>2
<1>11. Text(w, e)' = Append(Text(w, e), c)
  <2>1. /\ Text(w, e) \in Seq(Cell) /\ Len(Text(w, e)) = b - a
        /\ Text(w, e)' \in Seq(Cell) /\ Len(Text(w, e)') = b - a + 1
    BY <1>1, <1>4, <1>9 DEF TextsAre
  <2>2. ASSUME NEW k \in 1..(b - a) PROVE Text(w, e)'[k] = Text(w, e)[k]
    <3>1. Text(w, e)'[k] = buf'[(w + k - 1) % INPUT_BUF]
      BY <1>1, <1>4, <1>9 DEF TextsAre
    <3>2. Text(w, e)[k] = buf[(w + k - 1) % INPUT_BUF]
      BY <1>1, <1>9, ZenonT(60) DEF TextsAre
    <3> QED
      BY <1>6, <3>1, <3>2
  <2>3. Text(w, e)'[b - a + 1] = c
    <3>1. Text(w, e)'[b - a + 1] = buf'[(w + (b - a + 1) - 1) % INPUT_BUF]
      BY <1>1, <1>4, <1>9 DEF TextsAre
    <3>2. w + (b - a + 1) - 1 = w + (b - a)
      BY <1>1
    <3> QED
      BY <1>7, <3>1, <3>2
  <2>4. c \in Cell
    BY DEF Cell
  <2> QED
    BY <1>1, <2>1, <2>2, <2>3, <2>4
<1> QED
  BY <1>5, <1>8, <1>10, <1>11

(* A sequence that starts as s and goes on as v. *)
LEMMA Concat ==
  ASSUME NEW S, NEW s \in Seq(S), NEW v \in Seq(S), NEW u \in Seq(S), Len(u) = Len(s) + Len(v),
         \A k \in 1..Len(s) : u[k] = s[k], \A k \in 1..Len(v) : u[Len(s) + k] = v[k]
  PROVE  u = s \o v
<1> DEFINE q == s \o v
<1>1. /\ q \in Seq(S) /\ Len(q) = Len(s) + Len(v)
      /\ \A i \in 1..(Len(s) + Len(v)) : q[i] = IF i <= Len(s) THEN s[i] ELSE v[i - Len(s)]
  BY ConcatProperties
<1>2. Len(s) \in Nat /\ Len(v) \in Nat
  OBVIOUS
<1> HIDE DEF q
<1>3. ASSUME NEW i \in 1..Len(u) PROVE u[i] = q[i]
  <2>1. CASE i <= Len(s)
    BY <1>1, <1>2, <2>1
  <2>2. CASE i > Len(s)
    <3>1. i - Len(s) \in 1..Len(v) /\ Len(s) + (i - Len(s)) = i
      BY <1>2, <2>2
    <3> QED
      BY <1>1, <1>2, <2>2, <3>1
  <2> QED
    BY <1>2, <2>1, <2>2
<1>4. u = q
  BY <1>1, <1>3, SeqEqual
<1> QED
  BY <1>4 DEF q

(* A sequence with one more element. *)
LEMMA OneMore ==
  ASSUME NEW S, NEW v \in Seq(S), NEW x \in S
  PROVE  /\ Append(v, x) \in Seq(S) /\ Len(Append(v, x)) = Len(v) + 1
         /\ Append(v, x)[Len(v) + 1] = x /\ \A k \in 1..Len(v) : Append(v, x)[k] = v[k]
OBVIOUS

(* A character that completes the input hands the line over. *)
LEMMA TypeCompletes ==
  ASSUME Indices, Room, NEW c \in Chars,
         buf' = [buf EXCEPT ![e % INPUT_BUF] = c], e' = Inc(e), r' = r, w' = e'
  PROVE  /\ Indices' /\ OneLine'
         /\ Text(w, e)' = <<>> /\ Text(r, w)' = Text(r, w) \o Append(Text(w, e), c)
<1> DEFINE a == Minus(w, r)
           b == Minus(e, r)
<1>1. /\ a \in 0..INPUT_BUF /\ b \in 0..(INPUT_BUF - 1) /\ a <= b
      /\ Minus(e, w) = b - a /\ Minus(e', r) = b + 1 /\ e' \in 0..(UINT - 1)
      /\ r \in 0..(UINT - 1)
  BY TypeStores, Distances, Sizes, ZenonT(60) DEF Indices
<1>2. buf'[(r + b) % INPUT_BUF] = c
      /\ \A k \in 1..b : buf'[(r + k - 1) % INPUT_BUF] = buf[(r + k - 1) % INPUT_BUF]
  BY TypeStores, ZenonT(60)
<1>3. Minus(w, r)' = b + 1 /\ Minus(e, r)' = b + 1 /\ Minus(e, w)' = 0
  <2>1. Minus(e', e') = 0
    BY <1>1, MinusIs
  <2> QED
    BY <1>1, <2>1 DEF Minus
<1>4. Indices'
  <2>1. NeverStuck'
    BY <1>1, <1>3, Sizes DEF NeverStuck
  <2>2. e' \in 0..(UINT - 1) /\ buf' \in [0..(INPUT_BUF - 1) -> Cell]
    BY TypeStores, ZenonT(60)
  <2> QED
    BY <2>1, <2>2 DEF Indices
<1>5. OneLine'
  BY <1>3 DEF OneLine
<1>6. TextsAre /\ TextsAre'
  BY <1>4, Texts, PTL
<1>7. Text(w, e)' = <<>>
  BY <1>3, <1>6 DEF TextsAre
<1> DEFINE s == Text(r, w)
           t == Text(w, e)
           u == Text(r, w)'
<1>8. /\ s \in Seq(Cell) /\ Len(s) = a /\ t \in Seq(Cell) /\ Len(t) = b - a
      /\ u \in Seq(Cell) /\ Len(u) = b + 1
  BY <1>1, <1>3, <1>6 DEF TextsAre
<1>9. /\ \A k \in 1..a : s[k] = buf[(r + k - 1) % INPUT_BUF]
      /\ \A k \in 1..(b - a) : t[k] = buf[(w + k - 1) % INPUT_BUF]
      /\ \A k \in 1..(b + 1) : u[k] = buf'[(r + k - 1) % INPUT_BUF]
  BY <1>1, <1>3, <1>6 DEF TextsAre
<1> HIDE DEF a, b, s, t, u
<1>10. \A k \in 1..a : u[k] = s[k]
  <2> SUFFICES ASSUME NEW k \in 1..a PROVE u[k] = s[k]
    OBVIOUS
  <2>1. k \in 1..b /\ k \in 1..(b + 1)
    BY <1>1
  <2> QED
    BY <1>2, <1>9, <2>1
<1>11. \A k \in 1..(b - a) : u[a + k] = t[k]
  <2> SUFFICES ASSUME NEW k \in 1..(b - a) PROVE u[a + k] = t[k]
    OBVIOUS
  <2>1. /\ a + k \in 1..b /\ a + k \in 1..(b + 1) /\ k - 1 \in Int
        /\ w + k - 1 = w + (k - 1) /\ r + a + (k - 1) = r + (a + k) - 1
    BY <1>1 DEF Indices
  <2>2. (w + k - 1) % INPUT_BUF = (r + (a + k) - 1) % INPUT_BUF
    BY <2>1, Behind DEF a
  <2> QED
    BY <1>2, <1>9, <2>1, <2>2
<1>12. u[b + 1] = c
  <2>1. b + 1 \in 1..(b + 1) /\ r + (b + 1) - 1 = r + b
    BY <1>1
  <2> QED
    BY <1>2, <1>9, <2>1
<1>13. u = s \o Append(t, c)
  <2>1. c \in Cell
    BY DEF Cell
  <2> DEFINE v == Append(t, c)
  <2>2. v \in Seq(Cell) /\ Len(v) = b - a + 1
    <3>1. v \in Seq(Cell) /\ Len(v) = Len(t) + 1
      BY <1>8, <2>1, OneMore
    <3> QED
      BY <1>8, <3>1
  <2>3. ASSUME NEW k \in 1..Len(v) PROVE u[Len(s) + k] = v[k]
    <3>1. CASE k = b - a + 1
      <4>1. v[k] = c /\ Len(s) + k = b + 1
        <5>1. v[Len(t) + 1] = c
          BY <1>8, <2>1, OneMore
        <5>2. k = Len(t) + 1 /\ Len(s) + k = b + 1
          BY <1>1, <1>8, <3>1
        <5> QED
          BY <5>1, <5>2
      <4> QED
        BY <1>12, <4>1
    <3>2. CASE k # b - a + 1
      <4>1. k \in 1..(b - a)
        BY <1>1, <2>2, <3>2
      <4>2. v[k] = t[k]
        BY <1>8, <2>1, <4>1, OneMore
      <4> QED
        BY <1>8, <1>11, <4>1, <4>2
    <3> QED
      BY <3>1, <3>2
  <2>4. Len(u) = Len(s) + Len(v)
    BY <1>1, <1>8, <2>2
  <2> HIDE DEF v
  <2>5. u = s \o v
    BY <1>8, <1>10, <2>2, <2>3, <2>4, Concat, ZenonT(60)
  <2> QED
    BY <2>5 DEF v
<1> QED
  BY <1>4, <1>5, <1>7, <1>13 DEF s, t, u

-----------------------------------------------------------------------------
(* The readers and the lock. *)

(* A step of one reader, or a character, leaves the others where they are   *)
(* or wakes them.                                                           *)
LEMMA ReadingStep == Types /\ Reading /\ [Next]_vars => Types' /\ Reading'
<1> SUFFICES ASSUME Types, Reading, [Next]_vars PROVE Types' /\ Reading'
  OBVIOUS
<1>1. ASSUME NEW c, Type(c) PROVE Types' /\ Reading'
  BY <1>1, Consts DEF Type, Wakeup, Types, Reading
<1>2. CASE Backspace \/ KillLine
  BY <1>2 DEF Backspace, KillLine, Types, Reading
<1>3. ASSUME NEW p \in Readers, NEW k \in Lens, Call(p, k) PROVE Types' /\ Reading'
  BY <1>3, Consts DEF Call, Types, Reading
<1>4. ASSUME NEW p \in Readers, acquire(p) PROVE Types' /\ Reading'
  BY <1>4, Consts DEF acquire, Types, Reading
<1>5. ASSUME NEW p \in Readers, Wait(p) PROVE Types' /\ Reading'
  BY <1>5, Consts DEF Wait, Return, Types, Reading
<1>6. ASSUME NEW p \in Readers, sleep(p) PROVE Types' /\ Reading'
  BY <1>6, Consts DEF sleep, Types, Reading
<1>7. ASSUME NEW p \in Readers, Take(p) PROVE Types' /\ Reading'
  BY <1>7, Consts DEF Take, Return, Types, Reading
<1>8. ASSUME NEW p \in Readers, Done(p) PROVE Types' /\ Reading'
  BY <1>8, Consts DEF Done, Return, Types, Reading
<1>9. ASSUME NEW p \in Readers, kill(p) PROVE Types' /\ Reading'
  BY <1>9, Consts DEF kill, Types, Reading
<1>10. CASE UNCHANGED vars
  BY <1>10 DEF Types, Reading
<1> QED
  BY <1>1, <1>2, <1>3, <1>4, <1>5, <1>6, <1>7, <1>8, <1>9, <1>10 DEF Next, Inside

(* The steps that leave the ring alone. *)
LEMMA SameTexts ==
  ASSUME Indices, OneLine, UNCHANGED input
  PROVE  /\ Indices' /\ OneLine'
         /\ Text(r, w)' = Text(r, w) /\ Text(w, e)' = Text(w, e)
BY DEF Indices, OneLine, NeverStuck, Text, At, Minus

(* Every step keeps the indices in order and is one of the line input, or   *)
(* leaves it as it is.                                                      *)
LEMMA RingStep ==
  ASSUME Indices, OneLine, [Next]_vars
  PROVE  Indices' /\ OneLine' /\ [Abs!Next]_<<Text(r, w), Text(w, e)>>
<1>1. ASSUME NEW k \in Chars \cup {CR}, Type(k)
      PROVE  Indices' /\ OneLine' /\ [Abs!Next]_<<Text(r, w), Text(w, e)>>
  <2> DEFINE c == IF k = CR THEN NL ELSE k
  <2>1. /\ c \in Chars /\ Room /\ r' = r
        /\ buf' = [buf EXCEPT ![e % INPUT_BUF] = c] /\ e' = Inc(e)
        /\ IF Complete(c, e') THEN w' = e' ELSE w' = w
    BY <1>1 DEF Type, Chars
  <2> HIDE DEF c
  <2>2. /\ Len(Text(r, w)) + Len(Text(w, e)) = Minus(e, r)
        /\ Minus(e, r) \in 0..(INPUT_BUF - 1)
    <3>1. Len(Text(r, w)) = Minus(w, r) /\ Len(Text(w, e)) = Minus(e, w)
      BY Texts DEF TextsAre
    <3>2. Minus(e, w) = Minus(e, r) - Minus(w, r) /\ Minus(w, r) \in Int
      BY Distances
    <3>3. Minus(e, r) \in 0..(INPUT_BUF - 1)
      BY <2>1, Distances, Sizes DEF Room
    <3> QED
      BY <3>1, <3>2, <3>3
  <2>3. Complete(c, e') <=> c \in {NL, EOF} \/ Len(Text(r, w)) + Len(Text(w, e)) + 1 = INPUT_BUF
    BY <2>1, <2>2, TypeStores, ZenonT(60) DEF Complete
  <2>4. CASE Complete(c, e')
    <3>1. /\ Indices' /\ OneLine'
          /\ Text(w, e)' = <<>> /\ Text(r, w)' = Text(r, w) \o Append(Text(w, e), c)
      BY <2>1, <2>4, TypeCompletes, ZenonT(60)
    <3>2. Abs!Type(c)
      BY <2>2, <2>3, <2>4, <3>1, Sizes DEF Abs!Type
    <3> QED
      BY <2>1, <3>1, <3>2 DEF Abs!Next
  <2>5. CASE ~Complete(c, e')
    <3>1. /\ Indices' /\ OneLine'
          /\ Text(w, e)' = Append(Text(w, e), c) /\ Text(r, w)' = Text(r, w)
      BY <2>1, <2>5, TypeExtends, ZenonT(60)
    <3>2. Abs!Type(c)
      BY <2>2, <2>3, <2>5, <3>1, Sizes DEF Abs!Type
    <3> QED
      BY <2>1, <3>1, <3>2 DEF Abs!Next
  <2> QED
    BY <2>4, <2>5
<1>2. CASE Backspace
  BY <1>2, BackspaceMaps DEF Backspace, Abs!Next, Abs!Erase
<1>3. CASE KillLine
  BY <1>3, KillLineMaps DEF KillLine, Abs!Next, Abs!KillLine
<1>4. ASSUME NEW p \in Readers, Take(p)
      PROVE  Indices' /\ OneLine' /\ [Abs!Next]_<<Text(r, w), Text(w, e)>>
  <2>1. r # w /\ UNCHANGED <<buf, w, e>> /\ (r' = r \/ r' = Inc(r))
    BY <1>4 DEF Take
  <2>2. CASE r' = r
    BY <2>1, <2>2, SameTexts
  <2>3. CASE r' = Inc(r)
    BY <2>1, <2>3, GetMaps DEF Abs!Next, Abs!Get
  <2> QED
    BY <2>1, <2>2, <2>3
<1>5. CASE UNCHANGED input
  BY <1>5, SameTexts
<1>6. \/ \E k \in Chars \cup {CR} : Type(k)
      \/ Backspace \/ KillLine
      \/ \E p \in Readers : Take(p)
      \/ UNCHANGED input
  BY DEF Next, Inside, Call, acquire, Wait, sleep, Done, kill
<1> QED
  BY <1>1, <1>2, <1>3, <1>4, <1>5, <1>6

(* An empty ring and nobody reading. *)
LEMMA InitIInv == Init => IInv /\ Abs!Init
<1> SUFFICES ASSUME Init PROVE IInv /\ Abs!Init
  OBVIOUS
<1>1. Minus(w, r) = 0 /\ Minus(e, r) = 0 /\ Minus(e, w) = 0
  BY Sizes DEF Init, Minus
<1>2. Indices
  BY <1>1, Sizes DEF Init, Indices, NeverStuck, Cell
<1>3. OneLine
  BY <1>1 DEF OneLine
<1>4. Types /\ Reading
  BY Consts DEF Init, Types, Reading
<1>5. Abs!Init
  BY <1>1, <1>2, Texts DEF TextsAre, Abs!Init
<1> QED
  BY <1>2, <1>3, <1>4, <1>5 DEF IInv

(* The inductive invariant holds. *)
LEMMA ConsoleInvariant == Spec => []IInv
<1>1. IInv /\ [Next]_vars => IInv'
  BY ReadingStep, RingStep DEF IInv
<1> QED
  BY InitIInv, <1>1, PTL DEF Spec

(* Whatever the size of the ring and however often the indices wrap: they   *)
(* keep their order, and a full ring can be read.                           *)
THEOREM ConsoleNeverStuck == Spec => []NeverStuck
<1>1. IInv => NeverStuck
  BY DEF IInv, Indices
<1> QED
  BY <1>1, ConsoleInvariant, PTL

(* However many readers share the console: none sleeps while there is       *)
(* something to read.                                                       *)
THEOREM ConsoleNoLostWakeup == Spec => []NoLostWakeup
<1>1. IInv => NoLostWakeup
  BY DEF IInv, Reading, NoLostWakeup
<1> QED
  BY <1>1, ConsoleInvariant, PTL

(* Readers get what was typed, as edited, once and in order, and a ^D is    *)
(* used up only by a read that returns nothing.                             *)
THEOREM ConsoleIsLineInput == Spec => RefinesLineInput
<1>1. IInv /\ [Next]_vars => [Abs!Next]_<<Text(r, w), Text(w, e)>>
  BY RingStep DEF IInv
<1>2. IInv /\ [Next]_vars =>
        [\A p \in Readers :
           (pc[p] = "loop" /\ r # w /\ At(r) = EOF /\ r' # r)
             => pc'[p] = "out" /\ target[p] - n'[p] = 0]_vars
  <2> SUFFICES ASSUME IInv, Next, NEW p \in Readers,
                      pc[p] = "loop", r # w, At(r) = EOF, r' # r
               PROVE  pc'[p] = "out" /\ target[p] - n'[p] = 0
    OBVIOUS
  <2>1. PICK q \in Readers : Take(q)
    BY DEF Next, Type, Backspace, KillLine, Call, acquire, Inside, Wait, sleep, Done, kill
  <2>2. q = p
    BY <2>1, ZenonT(60) DEF Take, IInv, Reading
  <2>3. Return(p) /\ UNCHANGED n /\ ~SaveEOF(p)
    BY <2>1, <2>2 DEF Take
  <2> QED
    BY <2>3 DEF Return, SaveEOF, IInv, Types, Reading
<1> QED
  BY <1>1, <1>2, InitIInv, ConsoleInvariant, PTL
  DEF Spec, RefinesLineInput, EofIsZero, Abs!Spec
=============================================================================
