--------------------------- MODULE DevicesProofs ---------------------------
(***************************************************************************)
(* What module Devices guarantees for every machine and every size of the  *)
(* buffer and the screen: the screen shows the end of the text, a port     *)
(* hears it from as far back as the buffer reaches, and the walk finds     *)
(* every function, once where the buses are a tree.                        *)
(***************************************************************************)
EXTENDS Devices, CommonFacts, FiniteSetTheorems

-----------------------------------------------------------------------------
(***************************************************************************)
(* The text on endless paper.                                              *)
(***************************************************************************)
EmptyPaper == [row |-> 0, col |-> 0, cells |-> {}]

\* h tells what the paper looks like after each of the first k characters of t.
IsLayout(h, t, k) ==
  h = [n \in 0 .. k |-> IF n = 0 THEN EmptyPaper ELSE Typed(h[n - 1], t[n])]

\* There is such an h for every number of characters: without one there would
\* be a least number, but one character more can always be typed.
LEMMA LayoutExists ==
  ASSUME NEW t, NEW k \in Nat
  PROVE  \E h : IsLayout(h, t, k)
<1> DEFINE Bad == {j \in Nat : ~ \E h : IsLayout(h, t, j)}
<1> SUFFICES ASSUME Bad # {} PROVE FALSE
  OBVIOUS
<1>1. PICK j \in Bad : \A i \in Bad : j <= i
  <2>1. Bad \subseteq Nat
    OBVIOUS
  <2> QED
    BY <2>1, LeastNatural
<1>2. CASE j = 0
  <2> DEFINE h == [n \in 0 .. 0 |-> EmptyPaper]
  <2>1. h = [n \in 0 .. 0 |-> IF n = 0 THEN EmptyPaper ELSE Typed(h[n - 1], t[n])]
    OBVIOUS
  <2> HIDE DEF h
  <2> QED
    BY <1>1, <1>2, <2>1, Zenon DEF IsLayout
<1>3. CASE j # 0
  <2>1. j \in Nat /\ j - 1 \in Nat /\ j - 1 \notin Bad
    BY <1>1, <1>3
  <2>2. PICK g : IsLayout(g, t, j - 1)
    BY <2>1
  <2>3. g = [n \in 0 .. j - 1 |-> IF n = 0 THEN EmptyPaper ELSE Typed(g[n - 1], t[n])]
    BY <2>2, Zenon DEF IsLayout
  <2> DEFINE h == [n \in 0 .. j |-> IF n = 0 THEN EmptyPaper ELSE Typed(g[n - 1], t[n])]
  <2>4. \A n \in 0 .. j - 1 : h[n] = g[n]
    <3> TAKE n \in 0 .. j - 1
    <3>1. n \in 0 .. j
      BY <2>1
    <3>2. h[n] = IF n = 0 THEN EmptyPaper ELSE Typed(g[n - 1], t[n])
      BY <3>1, Zenon
    <3>3. g[n] = IF n = 0 THEN EmptyPaper ELSE Typed(g[n - 1], t[n])
      BY <2>3, Zenon
    <3> QED
      BY <3>2, <3>3, Zenon
  <2>5. h = [n \in 0 .. j |-> IF n = 0 THEN EmptyPaper ELSE Typed(h[n - 1], t[n])]
    <3>1. \A n \in 0 .. j : n # 0 => h[n - 1] = g[n - 1]
      <4> TAKE n \in 0 .. j
      <4>1. n # 0 => n - 1 \in 0 .. j - 1
        BY <2>1
      <4> HIDE DEF h
      <4> QED
        BY <2>4, <4>1
    <3>2. h = [n \in 0 .. j |-> IF n = 0 THEN EmptyPaper ELSE Typed(g[n - 1], t[n])]
      OBVIOUS
    <3> HIDE DEF h
    <3>3. \A n \in 0 .. j : (IF n = 0 THEN EmptyPaper ELSE Typed(g[n - 1], t[n]))
                          = (IF n = 0 THEN EmptyPaper ELSE Typed(h[n - 1], t[n]))
      BY <3>1, Zenon
    <3> QED
      BY <3>2, <3>3, Zenon
  <2> HIDE DEF h
  <2> QED
    BY <1>1, <2>5, Zenon DEF IsLayout
<1> QED
  BY <1>2, <1>3

LEMMA LayoutAt ==
  ASSUME NEW h, NEW t, NEW k, IsLayout(h, t, k), NEW n \in 0 .. k
  PROVE  h[n] = IF n = 0 THEN EmptyPaper ELSE Typed(h[n - 1], t[n])
BY Zenon DEF IsLayout

\* Layouts of texts that agree on their first k characters agree as far.
LEMMA LayoutsAgree ==
  ASSUME NEW t, NEW u, NEW k \in Nat, NEW m \in Nat, k <= m,
         \A n \in 1 .. k : t[n] = u[n],
         NEW g, IsLayout(g, t, k), NEW h, IsLayout(h, u, m)
  PROVE  \A n \in 0 .. k : g[n] = h[n]
<1> DEFINE Bad == {n \in 0 .. k : g[n] # h[n]}
<1> SUFFICES ASSUME Bad # {} PROVE FALSE
  BY Zenon
<1>1. PICK n \in Bad : \A i \in Bad : n <= i
  <2>1. Bad \subseteq Nat
    OBVIOUS
  <2> QED
    BY <2>1, LeastNatural
<1>2. n \in 0 .. k /\ n \in 0 .. m /\ g[n] # h[n]
  BY <1>1
<1>3. g[n] = IF n = 0 THEN EmptyPaper ELSE Typed(g[n - 1], t[n])
  BY <1>2, Zenon DEF IsLayout
<1>4. h[n] = IF n = 0 THEN EmptyPaper ELSE Typed(h[n - 1], u[n])
  BY <1>2, Zenon DEF IsLayout
<1>5. n # 0
  BY <1>2, <1>3, <1>4, Zenon
<1>6. n \in 1 .. k /\ n - 1 \in 0 .. k /\ ~(n <= n - 1)
  BY <1>2, <1>5
<1>7. g[n - 1] = h[n - 1]
  BY <1>1, <1>6, Zenon
<1> QED
  BY <1>2, <1>3, <1>4, <1>6, <1>7, Zenon

LEMMA PaperLayout ==
  ASSUME NEW t, Len(t) \in Nat
  PROVE  \E h : IsLayout(h, t, Len(t)) /\ Paper(t) = h[Len(t)]
<1> DEFINE h == CHOOSE h : IsLayout(h, t, Len(t))
<1>1. Paper(t) = h[Len(t)]
  BY Zenon DEF Paper, IsLayout, EmptyPaper
<1>2. IsLayout(h, t, Len(t))
  BY LayoutExists, Zenon
<1> QED
  BY <1>1, <1>2, Zenon

\* Paper is what its definition says: empty at first, and one more character
\* is typed onto what was there.
LEMMA PaperFacts ==
  ASSUME NEW S, NEW t \in Seq(S), NEW c \in S
  PROVE  /\ Paper(<<>>) = EmptyPaper
         /\ Paper(Append(t, c)) = Typed(Paper(t), c)
<1>1. Paper(<<>>) = EmptyPaper
  <2>1. Len(<<>>) = 0 /\ 0 \in Nat /\ 0 \in 0 .. 0
    OBVIOUS
  <2>2. PICK h : IsLayout(h, <<>>, 0) /\ Paper(<<>>) = h[0]
    BY <2>1, PaperLayout, Zenon
  <2>3. h[0] = IF 0 = 0 THEN EmptyPaper ELSE Typed(h[0 - 1], <<>>[0])
    BY <2>1, <2>2, Zenon DEF IsLayout
  <2> QED
    BY <2>2, <2>3
<1>2. Paper(Append(t, c)) = Typed(Paper(t), c)
  <2> DEFINE u == Append(t, c)
             k == Len(t)
  <2>1. /\ k \in Nat /\ Len(u) = k + 1 /\ k + 1 \in Nat /\ u[k + 1] = c
        /\ \A n \in 1 .. k : t[n] = u[n]
    OBVIOUS
  <2> HIDE DEF u, k
  <2>2. PICK g : IsLayout(g, t, k) /\ Paper(t) = g[k]
    BY <2>1, PaperLayout, Zenon DEF k
  <2>3. PICK h : IsLayout(h, u, k + 1) /\ Paper(u) = h[k + 1]
    BY <2>1, PaperLayout, Zenon
  <2>4. k <= k + 1 /\ k \in 0 .. k /\ k + 1 \in 0 .. k + 1 /\ k + 1 # 0 /\ k + 1 - 1 = k
    BY <2>1
  <2>5. h[k + 1] = IF k + 1 = 0 THEN EmptyPaper ELSE Typed(h[k + 1 - 1], u[k + 1])
    BY <2>3, <2>4, LayoutAt
  <2>6. \A n \in 0 .. k : g[n] = h[n]
    <3> DEFINE m == k + 1
    <3>1. m \in Nat /\ k <= m /\ IsLayout(g, t, k) /\ IsLayout(h, u, m)
      BY <2>1, <2>2, <2>3, <2>4
    <3>2. \A n \in 1 .. k : t[n] = u[n]
      BY <2>1
    <3> HIDE DEF m
    <3> QED
      BY <2>1, <3>1, <3>2, LayoutsAgree, SMTT(60)
  <2>7. h[k + 1] = Typed(h[k], c)
    BY <2>1, <2>4, <2>5, Zenon
  <2>8. Paper(u) = Typed(Paper(t), c)
    BY <2>2, <2>3, <2>4, <2>6, <2>7, Zenon
  <2> QED
    BY <2>8, Zenon DEF u
<1> QED
  BY <1>1, <1>2

\* Row r, column c comes before row y, column x.
InFront(r, c, y, x) == r < y \/ (r = y /\ c < x)

\* The paper is written on in front of the cursor only.
PaperSound(s) ==
  /\ s = [row |-> s.row, col |-> s.col, cells |-> s.cells]
  /\ s.row \in Nat /\ s.col \in 0 .. Width - 1
  /\ \A x \in s.cells : /\ x[1] \in Nat /\ x[2] \in Nat
                       /\ InFront(x[1], x[2], s.row, s.col)

\* Behind the cursor the paper is blank.
LEMMA BlankBehind ==
  ASSUME NEW s, PaperSound(s), NEW r \in Nat, NEW c \in Nat,
         ~InFront(r, c, s.row, s.col)
  PROVE  Shown(s, r, c) = Blank
<1>1. \A x \in s.cells : ~(x[1] = r /\ x[2] = c)
  BY DEF PaperSound, InFront
<1>2. {x \in s.cells : x[1] = r /\ x[2] = c} = {}
  BY <1>1
<1> QED
  BY <1>2 DEF Shown, CharOf

\* A character appears at the cursor and nowhere else, and moves the cursor to
\* the next place, or to the next line if it is the last one of its line or a
\* line break.
LEMMA TypedFacts ==
  ASSUME Width \in Nat \ {0}, NEW s, PaperSound(s), NEW c
  PROVE  LET n == Typed(s, c)
             wraps == c = NewLine \/ s.col + 1 = Width
         IN  /\ PaperSound(n)
             /\ n.row = (IF wraps THEN s.row + 1 ELSE s.row)
             /\ n.col = (IF wraps THEN 0 ELSE s.col + 1)
             /\ \A y \in Nat, x \in Nat :
                  Shown(n, y, x) = IF c # NewLine /\ y = s.row /\ x = s.col THEN c
                                   ELSE Shown(s, y, x)
<1> DEFINE n == Typed(s, c)
<1>1. CASE c = NewLine
  <2>1. n = [row |-> s.row + 1, col |-> 0, cells |-> s.cells]
    <3>1. n = [s EXCEPT !.row = s.row + 1, !.col = 0]
      BY <1>1 DEF Typed
    <3>2. PICK a, b, d : s = [row |-> a, col |-> b, cells |-> d]
      BY Zenon DEF PaperSound
    <3> QED
      BY <3>1, <3>2
  <2> HIDE DEF n
  <2>2. n.row = s.row + 1 /\ n.col = 0 /\ n.cells = s.cells
    BY <2>1
  <2>3. PaperSound(n)
    <3>1. n = [row |-> n.row, col |-> n.col, cells |-> n.cells]
      BY <2>1, <2>2, Zenon
    <3>2. \A x \in n.cells : /\ x[1] \in Nat /\ x[2] \in Nat
                             /\ InFront(x[1], x[2], n.row, n.col)
      <4> TAKE x \in n.cells
      <4>1. /\ x[1] \in Nat /\ x[2] \in Nat /\ s.row \in Nat
            /\ InFront(x[1], x[2], s.row, s.col)
        BY <2>2 DEF PaperSound
      <4> QED
        BY <2>2, <4>1 DEF InFront
    <3>3. n.row \in Nat /\ n.col \in 0 .. Width - 1
      BY <2>2 DEF PaperSound
    <3> QED
      BY <3>1, <3>2, <3>3, Zenon DEF PaperSound
  <2>4. \A y \in Nat, x \in Nat : Shown(n, y, x) = Shown(s, y, x)
    <3> TAKE y \in Nat, x \in Nat
    <3>1. {z \in n.cells : z[1] = y /\ z[2] = x} = {z \in s.cells : z[1] = y /\ z[2] = x}
      BY <2>2, Zenon
    <3> QED
      BY <3>1, Zenon DEF Shown
  <2> QED
    BY <1>1, <2>2, <2>3, <2>4 DEF n
<1>2. CASE c # NewLine
  <2> DEFINE wraps == s.col + 1 = Width
             new == <<s.row, s.col, c>>
  <2>1. n = [row |-> IF wraps THEN s.row + 1 ELSE s.row,
             col |-> IF wraps THEN 0 ELSE s.col + 1, cells |-> s.cells \cup {new}]
    BY <1>2 DEF Typed
  <2> HIDE DEF n
  <2>2. /\ n.row = (IF wraps THEN s.row + 1 ELSE s.row)
        /\ n.col = (IF wraps THEN 0 ELSE s.col + 1)
        /\ n.cells = s.cells \cup {new}
    BY <2>1
  <2>3. new[1] = s.row /\ new[2] = s.col /\ new[3] = c
    OBVIOUS
  <2> HIDE DEF new
  <2>4. n = [row |-> n.row, col |-> n.col, cells |-> n.cells]
    BY <2>1, <2>2, Zenon
  <2>5. PaperSound(n)
    <3>1. n.row \in Nat /\ n.col \in 0 .. Width - 1
      BY <2>2 DEF PaperSound
    <3>2. ASSUME NEW x \in n.cells
          PROVE  /\ x[1] \in Nat /\ x[2] \in Nat
                 /\ InFront(x[1], x[2], n.row, n.col)
      <4>1. CASE x \in s.cells
        <5> DEFINE a == x[1]
                   b == x[2]
        <5> HIDE DEF a, b
        <5>2. /\ s.row \in Nat /\ s.col \in 0 .. Width - 1
              /\ a \in Nat /\ b \in Nat /\ InFront(a, b, s.row, s.col)
          BY <4>1 DEF PaperSound, a, b
        <5>3. CASE wraps
          <6>1. n.row = s.row + 1 /\ n.col = 0
            BY <2>2, <5>3
          <6>2. a < n.row
            BY <5>2, <6>1 DEF InFront
          <6> QED
            BY <5>2, <6>2 DEF a, b, InFront
        <5>4. CASE ~wraps
          <6>1. n.row = s.row /\ n.col = s.col + 1
            BY <2>2, <5>4
          <6>2. a < n.row \/ (a = n.row /\ b < n.col)
            BY <5>2, <6>1 DEF InFront
          <6> QED
            BY <5>2, <6>1, <6>2 DEF a, b, InFront
        <5> QED
          BY <5>3, <5>4
      <4>2. CASE x = new
        <5>1. x[1] = s.row /\ x[2] = s.col
          BY <2>3, <4>2
        <5>2. s.row \in Nat /\ s.col \in 0 .. Width - 1
          BY DEF PaperSound
        <5>3. CASE wraps
          BY <2>2, <5>1, <5>2, <5>3 DEF InFront
        <5>4. CASE ~wraps
          BY <2>2, <5>1, <5>2, <5>4 DEF InFront
        <5> QED
          BY <5>3, <5>4
      <4> QED
        BY <2>2, <4>1, <4>2
    <3> QED
      BY <2>4, <3>1, <3>2 DEF PaperSound
  <2>6. ASSUME NEW y \in Nat, NEW x \in Nat
        PROVE  Shown(n, y, x) = IF y = s.row /\ x = s.col THEN c ELSE Shown(s, y, x)
    <3> DEFINE was == {z \in s.cells : z[1] = y /\ z[2] = x}
               is == {z \in n.cells : z[1] = y /\ z[2] = x}
    <3>1. CASE y = s.row /\ x = s.col
      <4>1. \A z \in s.cells : ~(z[1] = y /\ z[2] = x)
        <5> SUFFICES ASSUME NEW z \in s.cells, z[1] = s.row, z[2] = s.col PROVE FALSE
          BY <3>1
        <5> QED
          BY DEF PaperSound, InFront
      <4>2. is = {new}
        BY <2>2, <2>3, <3>1, <4>1
      <4>3. (CHOOSE z \in {new} : TRUE) = new
        OBVIOUS
      <4> QED
        BY <2>3, <3>1, <4>2, <4>3 DEF Shown, CharOf
    <3>2. CASE ~(y = s.row /\ x = s.col)
      <4>1. is = was
        BY <2>2, <2>3, <3>2
      <4> QED
        BY <3>2, <4>1, Zenon DEF Shown
    <3> QED
      BY <3>1, <3>2
  <2> QED
    BY <1>2, <2>2, <2>5, <2>6 DEF n
<1> QED
  BY <1>1, <1>2

-----------------------------------------------------------------------------
(***************************************************************************)
(* The screen.                                                             *)
(***************************************************************************)
Printed == Chars \cup {"heading", "row", "serial", NewLine}

\* The output with the serial ports P.
Outs(P) ==
  [ring : [0 .. RingSize - 1 -> Printed \cup {Nul}], start : 0 .. RingSize - 1,
   end : 0 .. RingSize - 1, size : 0 .. RingSize,
   screen : [0 .. Width * Height - 1 -> Printed \cup {Blank}],
   index : 0 .. Width * Height - 1, sent : [P -> Seq(Printed \cup {Nul})]]

\* Row y, column x of the screen.
Place(y, x) == y * Width + x

\* Places are numbered row by row.
LEMMA PlaceFacts ==
  ASSUME NEW y \in 0 .. Height, NEW x \in 0 .. Width - 1
  PROVE  /\ Place(y, x) \in Nat /\ Place(y, x) \div Width = y
         /\ y < Height => Place(y, x) \in 0 .. Width * Height - 1
         /\ y < Height - 1 <=> Place(y, x) < (Height - 1) * Width
         /\ Place(y + 1, x) = Place(y, x) + Width
<1>0. Width \in Nat \ {0} /\ Height \in Nat \ {0}
  BY DevicesAssumption
<1> USE <1>0
<1>1. Composed(Place(y, x), y, Width, x)
  BY DEF Composed, Place
<1>2. x \div Width = 0
  <2>1. x \in Nat /\ Width \in Nat \ {0} /\ ~(1 * Width <= x)
    OBVIOUS
  <2>2. x \div Width \in Nat
    BY <2>1, DivFacts
  <2>3. 1 * Width <= x <=> 1 <= x \div Width
    BY <2>1, QuotientAtLeast
  <2> QED
    BY <2>1, <2>2, <2>3
<1>3. Place(y, x) \in Nat /\ Place(y, x) \div Width = y
  <2>1. /\ Place(y, x) \in Nat
        /\ Place(y, x) \div Width = y + x \div Width
    BY <1>1, DivAdd, SMTT(60)
  <2> QED
    BY <1>2, <2>1
<1>4. Place(y + 1, x) = Place(y, x) + Width
  <2>1. (y + 1) * Width = y * Width + Width
    OBVIOUS
  <2> QED
    BY <2>1 DEF Place
<1>5. /\ Height \in Nat \ {0} /\ Width \in Nat \ {0} /\ Height * Width = Width * Height
      /\ (Height - 1) * Width + Width = Height * Width
  OBVIOUS
<1>6. CASE y < Height - 1
  <2>1. y * Width + Width <= (Height - 1) * Width
    BY <1>6, <1>5, MultiplesApart
  <2>2. Place(y, x) < (Height - 1) * Width
    BY <2>1, <1>5 DEF Place
  <2> QED
    BY <1>3, <1>4, <1>5, <1>6, <2>2
<1>7. CASE y = Height - 1
  <2>1. Place(y, x) = (Height - 1) * Width + x
    BY <1>7 DEF Place
  <2> QED
    BY <1>3, <1>4, <1>5, <1>7, <2>1
<1>8. CASE y = Height
  <2>1. Place(y, x) = Height * Width + x
    BY <1>8 DEF Place
  <2> QED
    BY <1>3, <1>4, <1>5, <1>8, <2>1
<1> QED
  BY <1>6, <1>7, <1>8

\* Two places with the same number are the same.
LEMMA PlaceUnique ==
  ASSUME NEW y \in 0 .. Height - 1, NEW x \in 0 .. Width - 1,
         NEW r \in 0 .. Height - 1, NEW q \in 0 .. Width - 1
  PROVE  Place(y, x) = Place(r, q) <=> y = r /\ x = q
<1>1. /\ Height \in Nat /\ Width \in Nat
      /\ y \in 0 .. Height /\ r \in 0 .. Height
  BY DevicesAssumption
<1>2. Place(y, x) \div Width = y /\ Place(r, q) \div Width = r
  BY <1>1, PlaceFacts
<1>3. ASSUME y = r, Place(y, x) = Place(r, q) PROVE x = q
  <2>1. y * Width \in Int /\ y * Width + x = y * Width + q
    BY <1>1, <1>3 DEF Place
  <2> QED
    BY <2>1
<1> QED
  BY <1>2, <1>3

\* What is on the screen once c has been written at row y, column x.
Written(screen, c, y, x, r, q) ==
  IF c # NewLine /\ r = y /\ q = x THEN c ELSE screen[Place(r, q)]

\* o has become n, with c written at row y, column x: the cursor is behind it,
\* and the screen has moved up a line if it left the last one.
VgaPrinted(n, o, c, y, x) ==
  LET wraps == c = NewLine \/ x + 1 = Width
      scrolls == wraps /\ y + 1 = Height
  IN  /\ n.index = (IF scrolls THEN Place(Height - 1, 0)
                    ELSE IF wraps THEN Place(y + 1, 0) ELSE Place(y, x + 1))
      /\ \A r \in 0 .. Height - 1, q \in 0 .. Width - 1 :
           n.screen[Place(r, q)] =
             IF scrolls THEN IF r = Height - 1 THEN Blank
                             ELSE Written(o.screen, c, y, x, r + 1, q)
             ELSE Written(o.screen, c, y, x, r, q)

\* Only screen and cursor have changed.
OnScreen(n, o) == n = [o EXCEPT !.screen = n.screen, !.index = n.index]

LEMMA VgaFacts ==
  ASSUME NEW P, NEW o \in Outs(P), NEW c \in Printed,
         NEW y \in 0 .. Height - 1, NEW x \in 0 .. Width - 1, o.index = Place(y, x)
  PROVE  LET n == VgaPrint(o, c)
         IN  /\ n \in Outs(P) /\ OnScreen(n, o)
             /\ VgaPrinted(n, o, c, y, x)
<1> DEFINE n == VgaPrint(o, c)
           wraps == c = NewLine \/ x + 1 = Width
           scrolls == wraps /\ y + 1 = Height
           places == 0 .. Width * Height - 1
           index == IF c = NewLine THEN (o.index \div Width + 1) * Width ELSE o.index + 1
           screen == IF c = NewLine THEN o.screen ELSE [o.screen EXCEPT ![o.index] = c]
<1>1. /\ Height \in Nat \ {0} /\ Width \in Nat \ {0} /\ y \in 0 .. Height
      /\ y + 1 \in 0 .. Height /\ 0 \in 0 .. Width - 1
  BY DevicesAssumption
<1>2. o.index \in places /\ o.screen \in [places -> Printed \cup {Blank}]
  BY DEF Outs
<1>3. index = IF wraps THEN Place(y + 1, 0) ELSE Place(y, x + 1)
  <2>1. o.index \div Width = y
    BY <1>1, PlaceFacts
  <2>2. CASE c = NewLine
    BY <1>1, <2>1, <2>2 DEF Place
  <2>3. CASE c # NewLine /\ x + 1 = Width
    <3>1. Place(y + 1, 0) = Place(y, 0) + Width
      BY <1>1, PlaceFacts
    <3>2. y * Width \in Int
      BY <1>1
    <3> QED
      BY <1>1, <2>3, <3>1, <3>2 DEF Place
  <2>4. CASE c # NewLine /\ x + 1 # Width
    <3>1. y * Width \in Int
      BY <1>1
    <3> QED
      BY <1>1, <2>4, <3>1 DEF Place
  <2> QED
    BY <2>2, <2>3, <2>4
<1>4. index \div Width = IF wraps THEN y + 1 ELSE y
  <2>1. Place(y + 1, 0) \div Width = y + 1
    BY <1>1, PlaceFacts
  <2>2. ~wraps => x + 1 \in 0 .. Width - 1
    BY <1>1
  <2>3. ~wraps => Place(y, x + 1) \div Width = y
    BY <1>1, <2>2, PlaceFacts
  <2> QED
    BY <1>3, <2>1, <2>3
<1>5. index \div Width = Height <=> scrolls
  BY <1>1, <1>4
<1>6. screen \in [places -> Printed \cup {Blank}]
  BY <1>2
<1>7. \A r \in 0 .. Height - 1, q \in 0 .. Width - 1 :
        screen[Place(r, q)] = Written(o.screen, c, y, x, r, q)
  <2> TAKE r \in 0 .. Height - 1, q \in 0 .. Width - 1
  <2>1. Place(r, q) \in places
    BY <1>1, PlaceFacts
  <2>2. o.index = Place(r, q) <=> y = r /\ x = q
    BY PlaceUnique
  <2> QED
    BY <1>2, <2>1, <2>2 DEF Written
<1>8. n = IF scrolls THEN [o EXCEPT !.screen = Scrolled(screen),
                                     !.index = (Height - 1) * Width]
          ELSE [o EXCEPT !.screen = screen, !.index = index]
  BY <1>5, Zenon DEF VgaPrint
<1> HIDE DEF n, index, screen, wraps, scrolls, places
<1>9. CASE scrolls
  <2> DEFINE next == Scrolled(screen)
  <2>1. next = [i \in places |-> IF i < (Height - 1) * Width THEN screen[i + Width]
                                 ELSE Blank]
    BY <1>6 DEF Scrolled
  <2>2. n = [o EXCEPT !.screen = next, !.index = (Height - 1) * Width]
    BY <1>8, <1>9, Zenon
  <2> HIDE DEF next
  <2>3. (Height - 1) * Width = Place(Height - 1, 0) /\ Place(Height - 1, 0) \in places
    <3>1. Height - 1 \in 0 .. Height /\ Height - 1 < Height
      BY <1>1
    <3>2. Place(Height - 1, 0) \in places
      BY <1>1, <3>1, PlaceFacts DEF places
    <3> QED
      BY <1>1, <3>2 DEF Place
  <2>4. \A r \in 0 .. Height - 1, q \in 0 .. Width - 1 :
          next[Place(r, q)] = IF r = Height - 1 THEN Blank
                              ELSE Written(o.screen, c, y, x, r + 1, q)
    <3> TAKE r \in 0 .. Height - 1, q \in 0 .. Width - 1
    <3>1. /\ r \in 0 .. Height /\ r < Height
          /\ r # Height - 1 => r + 1 \in 0 .. Height - 1 /\ r < Height - 1
      BY <1>1
    <3>2. /\ Place(r, q) \in places /\ Place(r + 1, q) = Place(r, q) + Width
          /\ r < Height - 1 <=> Place(r, q) < (Height - 1) * Width
      BY <3>1, PlaceFacts DEF places
    <3>3. next[Place(r, q)] = IF r < Height - 1 THEN screen[Place(r + 1, q)] ELSE Blank
      BY <2>1, <3>2
    <3>4. r # Height - 1 => screen[Place(r + 1, q)] = Written(o.screen, c, y, x, r + 1, q)
      BY <1>7, <3>1
    <3> QED
      BY <3>1, <3>3, <3>4
  <2>5. next \in [places -> Printed \cup {Blank}]
    <3>1. ASSUME NEW i \in places, i < (Height - 1) * Width
          PROVE  i + Width \in places
      <4>1. (Height - 1) * Width = Height * Width - Width /\ Height * Width = Width * Height
        BY <1>1
      <4> QED
        BY <1>1, <3>1, <4>1 DEF places
    <3> QED
      BY <1>6, <2>1, <3>1
  <2>6. n.screen = next /\ n.index = Place(Height - 1, 0)
    BY <2>2, <2>3 DEF Outs
  <2>7. n \in Outs(P)
    BY <2>2, <2>3, <2>5 DEF Outs, places
  <2>8. n = [o EXCEPT !.screen = n.screen, !.index = n.index]
    BY <2>2, <2>3, <2>6
  <2> QED
    BY <1>9, <2>4, <2>6, <2>7, <2>8 DEF n, scrolls, wraps, VgaPrinted, OnScreen
<1>10. CASE ~scrolls
  <2>1. n = [o EXCEPT !.screen = screen, !.index = index]
    BY <1>8, <1>10, Zenon
  <2>2. index \in places
    <3>1. CASE wraps
      <4>1. y + 1 < Height
        BY <1>1, <1>10, <3>1 DEF scrolls
      <4> QED
        BY <1>1, <1>3, <3>1, <4>1, PlaceFacts DEF places
    <3>2. CASE ~wraps
      <4>1. x + 1 \in 0 .. Width - 1 /\ y < Height
        BY <1>1, <3>2 DEF wraps
      <4> QED
        BY <1>1, <1>3, <3>2, <4>1, PlaceFacts DEF places
    <3> QED
      BY <3>1, <3>2
  <2>3. n.screen = screen /\ n.index = index
    BY <2>1 DEF Outs
  <2>4. n \in Outs(P)
    BY <1>6, <2>1, <2>2 DEF Outs, places
  <2>5. n = [o EXCEPT !.screen = n.screen, !.index = n.index]
    BY <2>1, <2>3
  <2> QED
    BY <1>3, <1>7, <1>10, <2>3, <2>4, <2>5 DEF n, scrolls, wraps, VgaPrinted, OnScreen
<1> QED
  BY <1>9, <1>10

\* ScreenShowsTail for any output and any paper.
Top(paper) == IF paper.row >= Height THEN paper.row - Height + 1 ELSE 0

Shows(o, paper) ==
  /\ o.index = Place(paper.row - Top(paper), paper.col)
  /\ \A r \in 0 .. Height - 1, q \in 0 .. Width - 1 :
       o.screen[Place(r, q)] = Shown(paper, Top(paper) + r, q)

\* What is typed on the paper is printed on the screen: if the cursor leaves the
\* last row, paper and screen move up together, and what comes up is blank.
LEMMA ScreenFollows ==
  ASSUME NEW P, NEW o \in Outs(P), NEW c \in Printed,
         NEW s, PaperSound(s), Shows(o, s)
  PROVE  LET n == VgaPrint(o, c)
         IN  /\ Shows(n, Typed(s, c))
             /\ n \in Outs(P) /\ OnScreen(n, o)
<1> DEFINE n == VgaPrint(o, c)
           t == Typed(s, c)
           wraps == c = NewLine \/ s.col + 1 = Width
           y == s.row - Top(s)
           scrolls == wraps /\ y + 1 = Height
<1>1. /\ Height \in Nat \ {0} /\ Width \in Nat \ {0}
      /\ s.row \in Nat /\ s.col \in 0 .. Width - 1
  BY DevicesAssumption DEF PaperSound
<1>2. y \in 0 .. Height - 1 /\ Top(s) \in Nat
  BY <1>1 DEF Top
<1>3. /\ PaperSound(t)
      /\ t.row = (IF wraps THEN s.row + 1 ELSE s.row)
      /\ t.col = (IF wraps THEN 0 ELSE s.col + 1)
      /\ \A r \in Nat, q \in Nat :
           Shown(t, r, q) = IF c # NewLine /\ r = s.row /\ q = s.col THEN c
                            ELSE Shown(s, r, q)
  BY <1>1, TypedFacts
<1>4. o.index = Place(y, s.col)
  BY DEF Shows
<1>10. n \in Outs(P) /\ OnScreen(n, o)
  <2>1. y \in 0 .. Height - 1 /\ s.col \in 0 .. Width - 1
    BY <1>1, <1>2
  <2> HIDE DEF y
  <2> QED
    BY <1>4, <2>1, VgaFacts
<1>5. /\ n.index = (IF scrolls THEN Place(Height - 1, 0)
                    ELSE IF wraps THEN Place(y + 1, 0) ELSE Place(y, s.col + 1))
      /\ \A r \in 0 .. Height - 1, q \in 0 .. Width - 1 :
           n.screen[Place(r, q)] =
             IF scrolls THEN IF r = Height - 1 THEN Blank
                             ELSE Written(o.screen, c, y, s.col, r + 1, q)
             ELSE Written(o.screen, c, y, s.col, r, q)
  <2>1. y \in 0 .. Height - 1 /\ s.col \in 0 .. Width - 1
    BY <1>1, <1>2
  <2> HIDE DEF y
  <2>2. VgaPrinted(n, o, c, y, s.col)
    BY <1>4, <2>1, VgaFacts
  <2> QED
    BY <1>4, <2>1, <2>2 DEF VgaPrinted
<1> HIDE DEF n, t
<1>6. Top(t) = IF scrolls THEN Top(s) + 1 ELSE Top(s)
  BY <1>1, <1>3 DEF Top
<1>7. \A r \in 0 .. Height - 1, q \in 0 .. Width - 1 :
        Written(o.screen, c, y, s.col, r, q) = Shown(t, Top(s) + r, q)
  <2> TAKE r \in 0 .. Height - 1, q \in 0 .. Width - 1
  <2>1. Top(s) + r \in Nat /\ q \in Nat /\ (r = y <=> Top(s) + r = s.row)
    BY <1>1, <1>2
  <2>2. o.screen[Place(r, q)] = Shown(s, Top(s) + r, q)
    BY DEF Shows
  <2>3. Shown(t, Top(s) + r, q)
          = IF c # NewLine /\ Top(s) + r = s.row /\ q = s.col THEN c
            ELSE Shown(s, Top(s) + r, q)
    BY <1>3, <2>1
  <2> QED
    BY <2>1, <2>2, <2>3 DEF Written
<1>8. n.index = Place(t.row - Top(t), t.col)
  <2>1. t.row - Top(t) = IF scrolls THEN Height - 1 ELSE IF wraps THEN y + 1 ELSE y
    BY <1>1, <1>2, <1>3, <1>6
  <2> QED
    BY <1>3, <1>5, <2>1
<1>9. \A r \in 0 .. Height - 1, q \in 0 .. Width - 1 :
        n.screen[Place(r, q)] = Shown(t, Top(t) + r, q)
  <2> TAKE r \in 0 .. Height - 1, q \in 0 .. Width - 1
  <2>1. CASE scrolls /\ r = Height - 1
    <3>1. /\ Top(t) + r \in Nat /\ q \in Nat /\ t.row = s.row + 1 /\ t.col = 0
          /\ Top(t) + r = t.row
      BY <1>1, <1>2, <1>3, <1>6, <2>1
    <3>2. ~InFront(Top(t) + r, q, t.row, t.col)
      BY <1>1, <3>1 DEF InFront
    <3>3. Shown(t, Top(t) + r, q) = Blank
      BY <1>3, <3>1, <3>2, BlankBehind
    <3> QED
      BY <1>5, <2>1, <3>3
  <2>2. CASE scrolls /\ r # Height - 1
    <3>1. r + 1 \in 0 .. Height - 1 /\ Top(t) + r = Top(s) + (r + 1)
      BY <1>1, <1>2, <1>6, <2>2
    <3> QED
      BY <1>5, <1>7, <2>2, <3>1
  <2>3. CASE ~scrolls
    BY <1>5, <1>6, <1>7, <2>3
  <2> QED
    BY <2>1, <2>2, <2>3
<1> QED
  BY <1>8, <1>9, <1>10 DEF Shows, n, t

-----------------------------------------------------------------------------
(***************************************************************************)
(* The ring buffer.                                                        *)
(***************************************************************************)
\* Remainders can be taken before adding, and of numbers less than P apart they
\* differ.
LEMMA Remainders ==
  ASSUME NEW P \in Nat \ {0}, NEW a \in Nat
  PROVE  /\ \A k \in Nat : ((a % P) + k) % P = (a + k) % P
         /\ (a + P) % P = a % P
         /\ \A b \in Nat : a < b /\ b < a + P => a % P # b % P
<1> DEFINE q == a \div P
           r == a % P
<1>1. q \in Nat /\ r \in 0 .. P - 1
  BY DivFacts
<1>2. a = q * P + r
  BY <1>1, DivModFacts
<1> HIDE DEF q, r
<1>3. ASSUME NEW k \in Nat
      PROVE  (r + k) % P = (a + k) % P
  <2>1. q * P \in Nat
    BY <1>1
  <2>2. Composed(a + k, q, P, r + k)
    BY <1>1, <1>2, <2>1 DEF Composed
  <2>3. r + k \in Nat
    BY <1>1
  <2> HIDE DEF q, r
  <2> QED
    BY <1>1, <2>2, <2>3, DivAdd
<1>4. (a + P) % P = a % P
  <2>1. Composed(a + P, 1, P, a)
    BY DEF Composed
  <2> QED
    BY <2>1, DivAdd, ZenonT(60)
<1>5. ASSUME NEW b \in Nat, a < b, b < a + P, r = b % P
      PROVE  FALSE
  <2> DEFINE z == b \div P
             m == b % P
  <2>1. z \in Nat /\ m \in Nat
    BY DivFacts
  <2>2. b = z * P + m
    BY <2>1, DivModFacts
  <2>3. m = r
    BY <1>5
  <2> HIDE DEF z, m
  <2>4. CASE q < z
    <3>1. q * P + P <= z * P
      BY <1>1, <2>1, <2>4, MultiplesApart
    <3>2. q * P \in Nat /\ z * P \in Nat
      BY <1>1, <2>1
    <3> QED
      BY <1>1, <1>2, <1>5, <2>2, <2>3, <3>1, <3>2
  <2>5. CASE z < q
    <3>1. z * P + P <= q * P
      BY <1>1, <2>1, <2>5, MultiplesApart
    <3>2. q * P \in Nat /\ z * P \in Nat
      BY <1>1, <2>1
    <3> QED
      BY <1>1, <1>2, <1>5, <2>2, <2>3, <3>1, <3>2
  <2>6. CASE z = q
    BY <1>1, <1>2, <1>5, <2>2, <2>3, <2>6
  <2> QED
    BY <1>1, <2>1, <2>4, <2>5, <2>6
<1> QED
  BY <1>3, <1>4, <1>5 DEF r

\* The buffer holds the last RingSize characters of t, each at its position, but
\* begins behind the oldest of them.
RingHolds(o, t) ==
  /\ o.end = Len(t) % RingSize
  /\ o.size = IF Len(t) = 0 THEN 0 ELSE RingSize
  /\ Len(t) # 0 => o.start = (Len(t) + 1) % RingSize
  /\ \A n \in 1 .. Len(t) : n > Len(t) - RingSize => o.ring[(n - 1) % RingSize] = t[n]

\* A character displaces the oldest one.
LEMMA RingFollows ==
  ASSUME NEW P, NEW o \in Outs(P), NEW t \in Seq(Printed), NEW c \in Printed,
         RingHolds(o, t)
  PROVE  LET n == AddToBuffer(o, c)
         IN  /\ n \in Outs(P) /\ RingHolds(n, Append(t, c))
             /\ n.screen = o.screen /\ n.index = o.index /\ n.sent = o.sent
<1> DEFINE n == AddToBuffer(o, c)
           u == Append(t, c)
           L == Len(t)
<1>0. \A k \in Nat : k % RingSize \in 0 .. RingSize - 1
  BY DevicesAssumption
<1>1. RingSize \in Nat \ {0} /\ L \in Nat
  BY DevicesAssumption
<1>2. o.end = L % RingSize /\ o.end \in 0 .. RingSize - 1
  BY DEF RingHolds, Outs
<1>3. /\ Advance(o.end) = (L + 1) % RingSize
      /\ StartAfter(Advance(o.end)) = (L + 2) % RingSize
  <2>1. ((L % RingSize) + 1) % RingSize = (L + 1) % RingSize
    BY <1>1, Remainders
  <2>2. (((L + 1) % RingSize) + 1) % RingSize = (L + 1 + 1) % RingSize
    <3> DEFINE e == L + 1
    <3>1. e \in Nat
      BY <1>1
    <3> HIDE DEF e
    <3>2. ((e % RingSize) + 1) % RingSize = (e + 1) % RingSize
      BY <1>1, <3>1, Remainders
    <3> QED
      BY <3>2 DEF e
  <2>3. L + 1 + 1 = L + 2
    BY <1>1
  <2> QED
    BY <1>2, <2>1, <2>2, <2>3 DEF Advance, StartAfter
<1>4. n = [o EXCEPT !.ring = [o.ring EXCEPT ![o.end] = c], !.end = (L + 1) % RingSize,
                    !.start = (L + 2) % RingSize, !.size = RingSize]
  BY <1>3 DEF AddToBuffer
<1> HIDE DEF n
<1>5. /\ n.ring = [o.ring EXCEPT ![o.end] = c] /\ n.end = (L + 1) % RingSize
      /\ n.start = (L + 2) % RingSize /\ n.size = RingSize
      /\ n.screen = o.screen /\ n.index = o.index /\ n.sent = o.sent
  BY <1>4 DEF Outs
<1>6. n \in Outs(P)
  <2>1. [o.ring EXCEPT ![o.end] = c] \in [0 .. RingSize - 1 -> Printed \cup {Nul}]
    BY DEF Outs
  <2>2. (L + 1) % RingSize \in 0 .. RingSize - 1 /\ (L + 2) % RingSize \in 0 .. RingSize - 1
    <3>1. L + 1 \in Nat /\ L + 2 \in Nat
      BY <1>1
    <3> QED
      BY <1>0, <3>1, Zenon
  <2>3. RingSize \in 0 .. RingSize
    BY <1>1
  <2> QED
    BY <1>4, <2>1, <2>2, <2>3 DEF Outs
<1>7. Len(u) = L + 1 /\ u[L + 1] = c /\ \A k \in 1 .. L : u[k] = t[k]
  OBVIOUS
<1> HIDE DEF u, L
<1>8. \A k \in 1 .. L + 1 : k > L + 1 - RingSize => n.ring[(k - 1) % RingSize] = u[k]
  <2> SUFFICES ASSUME NEW k \in 1 .. L + 1, k > L + 1 - RingSize
               PROVE  n.ring[(k - 1) % RingSize] = u[k]
    OBVIOUS
  <2>1. o.ring \in [0 .. RingSize - 1 -> Printed \cup {Nul}]
    BY DEF Outs
  <2>2. CASE k = L + 1
    <3>1. k - 1 = L
      BY <1>1, <2>2
    <3>2. n.ring[o.end] = c
      BY <1>2, <1>5, <2>1
    <3> QED
      BY <1>2, <1>7, <2>2, <3>1, <3>2
  <2>3. CASE k # L + 1
    <3> DEFINE j == k - 1
    <3>1. /\ k \in 1 .. L /\ k > L - RingSize /\ j \in Nat /\ j < L /\ L < j + RingSize
      BY <1>1, <2>3
    <3>2. j % RingSize # L % RingSize
      BY <1>1, <3>1, Remainders
    <3>3. j % RingSize \in 0 .. RingSize - 1
      BY <1>0, <3>1, Zenon
    <3>4. o.ring[j % RingSize] = t[k]
      BY <3>1 DEF RingHolds, L
    <3> HIDE DEF j
    <3>5. n.ring[j % RingSize] = t[k]
      BY <1>2, <1>5, <2>1, <3>2, <3>3, <3>4
    <3> QED
      BY <1>7, <3>1, <3>5 DEF j
  <2> QED
    BY <2>2, <2>3
<1>9. RingHolds(n, u)
  <2>1. L + 1 # 0 /\ L + 1 + 1 = L + 2
    BY <1>1
  <2>2. /\ n.end = Len(u) % RingSize /\ n.size = IF Len(u) = 0 THEN 0 ELSE RingSize
        /\ n.start = (Len(u) + 1) % RingSize
    BY <1>5, <1>7, <2>1
  <2>3. \A k \in 1 .. Len(u) : k > Len(u) - RingSize => n.ring[(k - 1) % RingSize] = u[k]
    <3> TAKE k \in 1 .. Len(u)
    <3>1. k \in 1 .. L + 1 /\ Len(u) - RingSize = L + 1 - RingSize
      BY <1>1, <1>7
    <3> QED
      BY <1>8, <3>1, Zenon
  <2> QED
    BY <2>2, <2>3, Zenon DEF RingHolds
<1> QED
  BY <1>5, <1>6, <1>9 DEF n, u

\* How many of the last n characters printed there are in the buffer, if it was
\* full once: all but one.
Known(n) == IF n < RingSize - 1 THEN n ELSE RingSize - 1

\* What a port is sent ends with the last characters printed.
LEMMA ReplayFacts ==
  ASSUME NEW P, NEW o \in Outs(P), NEW t \in Seq(Printed), RingHolds(o, t)
  PROVE  LET r == ReadBuffer(o)
         IN  /\ r \in Seq(Printed \cup {Nul}) /\ Len(r) = o.size
             /\ \E k \in 0 .. o.size - Known(Len(t)) :
                  \A j \in 1 .. Known(Len(t)) : r[k + j] = t[Len(t) - Known(Len(t)) + j]
<1> DEFINE r == ReadBuffer(o)
           L == Len(t)
           m == Known(L)
<1>0. \A k \in Nat : k % RingSize \in 0 .. RingSize - 1
  BY DevicesAssumption
<1>1. RingSize \in Nat \ {0} /\ L \in Nat
  BY DevicesAssumption
<1>2. o.size \in Nat /\ o.start \in 0 .. RingSize - 1
  BY DEF Outs
<1>3. r = [i \in 1 .. o.size |-> o.ring[(o.start + i - 1) % RingSize]]
  BY DEF ReadBuffer
<1>4. r \in Seq(Printed \cup {Nul}) /\ Len(r) = o.size
  <2>1. ASSUME NEW i \in 1 .. o.size
        PROVE  o.ring[(o.start + i - 1) % RingSize] \in Printed \cup {Nul}
    <3>1. o.start + i - 1 \in Nat
      BY <1>2
    <3>2. (o.start + i - 1) % RingSize \in 0 .. RingSize - 1
      BY <1>0, <3>1, Zenon
    <3> QED
      BY <3>2 DEF Outs
  <2> HIDE DEF r
  <2>2. r \in [1 .. o.size -> Printed \cup {Nul}]
    BY <1>3, <2>1
  <2> QED
    BY <1>2, <2>2
<1> HIDE DEF r
<1>5. m \in 0 .. L /\ m \in 0 .. RingSize - 1 /\ (L = 0 => m = 0)
  BY <1>1 DEF Known
<1> HIDE DEF m, L
<1>6. CASE L = 0
  <2>1. m = 0 /\ o.size = 0 /\ 0 \in 0 .. o.size - m
    BY <1>5, <1>6 DEF RingHolds, L
  <2>2. \A j \in 1 .. m : r[0 + j] = t[L - m + j]
    BY <2>1
  <2> QED
    BY <1>4, <2>1, <2>2, Zenon DEF r, m, L
<1>7. CASE L # 0
  <2> DEFINE k == RingSize - 1 - m
  <2>1. o.size = RingSize /\ o.start = (L + 1) % RingSize
    BY <1>7 DEF RingHolds, L
  <2>2. k \in 0 .. o.size - m
    BY <1>1, <1>5, <2>1
  <2>3. ASSUME NEW j \in 1 .. m
        PROVE  r[k + j] = t[L - m + j]
    <3> DEFINE a == L - m + j - 1
               s == o.start
    <3>1. /\ a \in Nat /\ k + j \in 1 .. o.size /\ k + j - 1 \in Nat
          /\ L + 1 + (k + j - 1) = a + RingSize
          /\ a + 1 \in 1 .. L /\ a + 1 > L - RingSize /\ a + 1 = L - m + j
      BY <1>1, <1>5, <2>1
    <3>2. s + (k + j) - 1 = s + (k + j - 1)
      <4>1. s \in Int /\ k \in Int /\ j \in Int
        BY <1>1, <1>2, <1>5
      <4> HIDE DEF s, k
      <4> QED
        BY <4>1
    <3>3. r[k + j] = o.ring[(s + (k + j) - 1) % RingSize]
      BY <1>3, <3>1
    <3>4. (((L + 1) % RingSize) + (k + j - 1)) % RingSize = (a + RingSize) % RingSize
      <4>1. L + 1 \in Nat
        BY <1>1
      <4> DEFINE e == L + 1
                 d == k + j - 1
      <4> HIDE DEF k, a, e, d
      <4>2. e \in Nat /\ d \in Nat /\ e + d = a + RingSize
        BY <3>1, <4>1 DEF e, d
      <4>3. ((e % RingSize) + d) % RingSize = (e + d) % RingSize
        BY <1>1, <4>2, Remainders
      <4> QED
        BY <4>2, <4>3 DEF e, d
    <3>5. (a + RingSize) % RingSize = a % RingSize
      BY <1>1, <3>1, Remainders
    <3>6. a + 1 - 1 = a
      BY <3>1
    <3>7. o.ring[a % RingSize] = t[a + 1]
      BY <3>1, <3>6, SMTT(60) DEF RingHolds, L
    <3> HIDE DEF a, k, s
    <3> QED
      BY <2>1, <3>1, <3>2, <3>3, <3>4, <3>5, <3>7 DEF s
  <2> HIDE DEF k
  <2> QED
    BY <1>4, <2>2, <2>3, Zenon DEF r, m, L
<1> QED
  BY <1>6, <1>7

-----------------------------------------------------------------------------
(***************************************************************************)
(* A character printed reaches buffer, screen and ports.                   *)
(***************************************************************************)
\* The places where p is in ports: once for every time the port was found.
Turns(ports, p) == {k \in DOMAIN ports : ports[k] = p}

LEMMA TurnsFinite ==
  ASSUME NEW P, NEW ports \in Seq(P), NEW p
  PROVE  IsFiniteSet(Turns(ports, p)) /\ Cardinality(Turns(ports, p)) \in Nat
<1>1. IsFiniteSet(1 .. Len(ports))
  BY FS_Interval
<1>2. Turns(ports, p) \subseteq 1 .. Len(ports)
  BY DEF Turns
<1> QED
  BY <1>1, <1>2, FS_Subset, FS_CardinalityType

\* What o shows and keeps of the text t.
Follows(o, t) ==
  /\ RingHolds(o, t)
  /\ PaperSound(Paper(t)) /\ Shows(o, Paper(t))

\* Every port gets c once for every time it was found.
SentMore(P, sent, c, ports) ==
  [p \in P |-> sent[p] \o [i \in 1 .. Cardinality(Turns(ports, p)) |-> c]]

LEMMA PutCharFacts ==
  ASSUME NEW P, NEW o \in Outs(P), NEW t \in Seq(Printed), NEW c \in Printed,
         NEW ports \in Seq(P), Follows(o, t)
  PROVE  LET n == PutChar(o, c, ports)
         IN  /\ n \in Outs(P) /\ Follows(n, Append(t, c))
             /\ n.sent = SentMore(P, o.sent, c, ports)
<1> DEFINE a == AddToBuffer(o, c)
           s == Paper(t)
           u == Append(t, c)
           v == VgaPrint(a, c)
           y == s.row - Top(s)
           more(p) == [i \in 1 .. Cardinality(Turns(ports, p)) |-> c]
           sent == [p \in P |-> v.sent[p] \o more(p)]
           n == PutChar(o, c, ports)
<1>1. /\ a \in Outs(P) /\ RingHolds(a, u)
      /\ a.screen = o.screen /\ a.index = o.index /\ a.sent = o.sent
  BY RingFollows DEF Follows
<1>2. PaperSound(s) /\ Shows(a, s)
  BY <1>1 DEF Follows, Shows
<1>3. PaperSound(Typed(s, c)) /\ Paper(u) = Typed(s, c)
  BY <1>2, TypedFacts, PaperFacts, DevicesAssumption
<1>4. /\ Shows(v, Typed(s, c))
      /\ v \in Outs(P) /\ OnScreen(v, a)
  <2> HIDE DEF a, s
  <2> QED
    BY <1>1, <1>2, ScreenFollows
<1>5. /\ v.ring = a.ring /\ v.start = a.start /\ v.end = a.end /\ v.size = a.size
      /\ v.sent = a.sent
  <2> HIDE DEF a, v
  <2> QED
    BY <1>1, <1>4 DEF Outs, OnScreen
<1>6. n = [v EXCEPT !.sent = sent]
  <2>1. DOMAIN v.sent = P
    BY <1>4 DEF Outs
  <2>2. n = [v EXCEPT !.sent = [p \in DOMAIN v.sent |-> v.sent[p] \o more(p)]]
    BY DEF PutChar, ToPorts, Turns
  <2> QED
    BY <2>1, <2>2, Zenon
<1> HIDE DEF a, v
<1>7. sent \in [P -> Seq(Printed \cup {Nul})]
  <2> SUFFICES ASSUME NEW p \in P PROVE v.sent[p] \o more(p) \in Seq(Printed \cup {Nul})
    OBVIOUS
  <2>1. v.sent[p] \in Seq(Printed \cup {Nul})
    BY <1>4 DEF Outs
  <2>2. more(p) \in Seq(Printed \cup {Nul})
    BY TurnsFinite
  <2> HIDE DEF more
  <2> QED
    BY <2>1, <2>2, ConcatProperties
<1> HIDE DEF sent, n
<1>8. /\ n \in Outs(P) /\ n.sent = sent
      /\ n.ring = v.ring /\ n.start = v.start /\ n.end = v.end /\ n.size = v.size
      /\ n.screen = v.screen /\ n.index = v.index
  BY <1>4, <1>6, <1>7 DEF Outs
<1>9. Follows(n, u)
  <2>1. RingHolds(n, u)
    <3> HIDE DEF u
    <3> QED
      BY <1>1, <1>5, <1>8, ZenonT(60) DEF RingHolds
  <2>2. Shows(n, Paper(u))
    <3> HIDE DEF u
    <3> QED
      BY <1>3, <1>4, <1>8, Zenon DEF Shows
  <2> QED
    BY <1>3, <2>1, <2>2, Zenon DEF Follows
<1>10. n.sent = SentMore(P, o.sent, c, ports)
  BY <1>1, <1>5, <1>8, ZenonT(60) DEF sent, SentMore
<1> QED
  BY <1>8, <1>9, <1>10, Zenon DEF n, u

-----------------------------------------------------------------------------
(***************************************************************************)
(* What a port that was found once has heard: s is what it was sent, r     *)
(* says how much of it was the buffer and how long the text was then, and  *)
(* t is the text by now.                                                   *)
(***************************************************************************)
Heard(s, r, t) ==
  /\ r[1] \in Nat /\ r[2] \in 0 .. Len(t)
  /\ Len(s) = r[1] + (Len(t) - r[2])
  /\ \A j \in 1 .. Len(t) - r[2] : s[r[1] + j] = t[r[2] + j]
  /\ \E k \in 0 .. r[1] - Known(r[2]) :
       \A j \in 1 .. Known(r[2]) : s[k + j] = t[r[2] - Known(r[2]) + j]

Sent == Seq(Printed \cup {Nul})

LEMMA KnownFacts ==
  ASSUME NEW n \in Nat
  PROVE  Known(n) \in 0 .. n /\ Known(n) <= RingSize - 1
BY DevicesAssumption DEF Known

\* It goes on hearing what is printed.
LEMMA HeardOn ==
  ASSUME NEW s \in Sent, NEW r, NEW t \in Seq(Printed), NEW c \in Printed, Heard(s, r, t)
  PROVE  Heard(s \o <<c>>, r, Append(t, c))
<1> DEFINE n == s \o <<c>>
           u == Append(t, c)
           a == r[1]
           b == r[2]
           m == Known(b)
           L == Len(t)
<1>1. /\ L \in Nat /\ Len(u) = L + 1 /\ u[L + 1] = c
      /\ \A k \in 1 .. L : u[k] = t[k]
  OBVIOUS
<1>2. /\ Len(n) = Len(s) + 1 /\ n[Len(s) + 1] = c /\ \A k \in 1 .. Len(s) : n[k] = s[k]
  BY DEF Sent
<1>3. /\ a \in Nat /\ b \in 0 .. L /\ Len(s) = a + (L - b)
      /\ \A j \in 1 .. L - b : s[a + j] = t[b + j]
  BY DEF Heard
<1>4. m \in 0 .. b
  <2>1. b \in Nat
    BY <1>1, <1>3
  <2> HIDE DEF b
  <2> QED
    BY <2>1, KnownFacts
<1>5. PICK k \in 0 .. a - m : \A j \in 1 .. m : s[k + j] = t[b - m + j]
  BY DEF Heard
<1> HIDE DEF n, u, a, b, m, L
<1>6. b \in 0 .. Len(u) /\ Len(n) = a + (Len(u) - b)
  BY <1>1, <1>2, <1>3
<1>7. \A j \in 1 .. Len(u) - b : n[a + j] = u[b + j]
  <2> TAKE j \in 1 .. Len(u) - b
  <2>1. CASE j = L + 1 - b
    <3>1. a + j = Len(s) + 1 /\ b + j = L + 1
      BY <1>1, <1>3, <2>1
    <3> QED
      BY <1>1, <1>2, <3>1
  <2>2. CASE j # L + 1 - b
    <3>1. j \in 1 .. L - b
      BY <1>1, <1>3, <2>2
    <3>2. a + j \in 1 .. Len(s) /\ b + j \in 1 .. L
      BY <1>1, <1>3, <3>1
    <3> QED
      BY <1>1, <1>2, <1>3, <3>1, <3>2
  <2> QED
    BY <2>1, <2>2
<1>8. \A j \in 1 .. m : n[k + j] = u[b - m + j]
  <2> TAKE j \in 1 .. m
  <2>1. k + j \in 1 .. Len(s) /\ b - m + j \in 1 .. L
    BY <1>1, <1>3, <1>4, <1>5
  <2> QED
    BY <1>1, <1>2, <1>5, <2>1
<1> QED
  BY <1>3, <1>5, <1>6, <1>7, <1>8, Zenon DEF Heard, n, u, a, b, m

\* When it joins it hears the buffer.
LEMMA HeardFirst ==
  ASSUME NEW P, NEW o \in Outs(P), NEW t \in Seq(Printed), RingHolds(o, t), NEW s \in Sent
  PROVE  /\ s \o ReadBuffer(o) \in Sent
         /\ Heard(s \o ReadBuffer(o), <<Len(s) + o.size, Len(t)>>, t)
<1> DEFINE r == ReadBuffer(o)
           n == s \o r
           L == Len(t)
           m == Known(L)
<1>1. r \in Sent /\ Len(r) = o.size /\ L \in Nat /\ Len(s) \in Nat /\ o.size \in Nat
  <2>1. r \in Sent /\ Len(r) = o.size
    BY ReplayFacts DEF Sent
  <2> QED
    BY <2>1 DEF Sent, Outs
<1>2. PICK k \in 0 .. o.size - m : \A j \in 1 .. m : r[k + j] = t[L - m + j]
  BY ReplayFacts
<1>3. m \in 0 .. L
  BY <1>1, KnownFacts
<1> HIDE DEF r, L, m
<1>4. /\ n \in Sent /\ Len(n) = Len(s) + Len(r)
      /\ \A i \in 1 .. Len(s) + Len(r) : n[i] = IF i <= Len(s) THEN s[i] ELSE r[i - Len(s)]
  BY <1>1, ConcatProperties DEF Sent
<1> HIDE DEF n
<1> DEFINE a == Len(s) + o.size
<1>5. a \in Nat /\ L \in 0 .. L /\ Len(n) = a + (L - L) /\ Len(s) + k \in 0 .. a - m
  BY <1>1, <1>2, <1>3, <1>4, SMTT(60)
<1>6. \A j \in 1 .. m : n[Len(s) + k + j] = t[L - m + j]
  <2> TAKE j \in 1 .. m
  <2>1. /\ Len(s) + k + j \in 1 .. Len(s) + Len(r) /\ ~(Len(s) + k + j <= Len(s))
        /\ Len(s) + k + j - Len(s) = k + j
    BY <1>1, <1>2, <1>3, SMTT(60)
  <2> QED
    BY <1>2, <1>4, <2>1
<1>7. \A j \in 1 .. L - L : n[a + j] = t[L + j]
  BY <1>1
<1> DEFINE q == <<a, L>>
<1>8. q[1] = a /\ q[2] = L
  OBVIOUS
<1> HIDE DEF a, q
<1>9. Heard(n, q, t)
  <2>1. /\ q[1] \in Nat /\ q[2] \in 0 .. Len(t) /\ Len(n) = q[1] + (Len(t) - q[2])
        /\ \A j \in 1 .. Len(t) - q[2] : n[q[1] + j] = t[q[2] + j]
    BY <1>5, <1>7, <1>8, Zenon DEF L
  <2>2. /\ Len(s) + k \in 0 .. q[1] - Known(q[2])
        /\ \A j \in 1 .. Known(q[2]) : n[Len(s) + k + j] = t[q[2] - Known(q[2]) + j]
    BY <1>5, <1>6, <1>8, Zenon DEF m
  <2> QED
    BY <2>1, <2>2, Zenon DEF Heard
<1> QED
  BY <1>4, <1>9, Zenon DEF n, r, q, a, L

\* In the words of PortTranscript.
LEMMA HeardMeans ==
  ASSUME NEW s \in Sent, NEW r, NEW t \in Seq(Printed), Heard(s, r, t)
  PROVE  LET replay == SubSeq(s, 1, r[1])
             known == LastOf(RingSize - 1, SubSeq(t, 1, r[2]))
         IN  /\ \E k \in 0 .. Len(replay) - Len(known) :
                  SubSeq(replay, k + 1, k + Len(known)) = known
             /\ SubSeq(s, Len(replay) + 1, Len(s)) = SubSeq(t, r[2] + 1, Len(t))
<1> DEFINE a == r[1]
           b == r[2]
           m == Known(b)
           L == Len(t)
           replay == SubSeq(s, 1, a)
           known == LastOf(RingSize - 1, SubSeq(t, 1, b))
<1>1. /\ L \in Nat /\ a \in Nat /\ b \in 0 .. L /\ Len(s) = a + (L - b) /\ Len(s) \in Nat
      /\ \A j \in 1 .. L - b : s[a + j] = t[b + j]
  BY DEF Heard, Sent
<1>2. PICK k \in 0 .. a - m : \A j \in 1 .. m : s[k + j] = t[b - m + j]
  BY DEF Heard
<1>3. m \in 0 .. b /\ RingSize \in Nat \ {0} /\ m = (IF b > RingSize - 1 THEN RingSize - 1 ELSE b)
  <2>1. RingSize \in Nat \ {0} /\ b \in Nat
    BY <1>1, DevicesAssumption
  <2> HIDE DEF b
  <2> QED
    BY <2>1 DEF Known
<1> HIDE DEF a, b, m, L
<1>4. replay \in Sent /\ Len(replay) = a /\ \A i \in 1 .. a : replay[i] = s[i]
  BY <1>1 DEF Sent
<1>5. known \in Seq(Printed) /\ Len(known) = m /\ \A j \in 1 .. m : known[j] = t[b - m + j]
  <2> DEFINE all == SubSeq(t, 1, b)
             first == IF b > RingSize - 1 THEN b - (RingSize - 1) + 1 ELSE 1
  <2>1. /\ all \in Seq(Printed) /\ Len(all) = b /\ \A i \in 1 .. b : all[i] = t[i]
    BY <1>1 DEF L
  <2>2. known = SubSeq(all, first, b)
    BY <2>1, Zenon DEF LastOf
  <2>3. first = b - m + 1 /\ first \in Nat \ {0}
    BY <1>1, <1>3
  <2> HIDE DEF first, all, known
  <2>4. /\ SubSeq(all, first, b) \in Seq(Printed) /\ Len(SubSeq(all, first, b)) = m
        /\ \A j \in 1 .. m : SubSeq(all, first, b)[j] = all[first + j - 1]
    <3>1. first \in 1 .. b + 1 /\ b \in first - 1 .. Len(all) /\ b - first + 1 = m
      BY <1>1, <1>3, <2>1, <2>3
    <3>2. first <= b => b - first + 1 \in Nat
      BY <3>1
    <3> QED
      BY <1>1, <1>3, <2>1, <3>1, SMTT(30)
  <2>5. \A j \in 1 .. m : first + j - 1 = b - m + j /\ b - m + j \in 1 .. b
    BY <1>1, <1>3, <2>3
  <2> QED
    BY <2>1, <2>2, <2>4, <2>5, SMTT(60)
<1> HIDE DEF known, replay
<1>6. SubSeq(replay, k + 1, k + m) = known
  <2> DEFINE w == SubSeq(replay, k + 1, k + m)
  <2>1. /\ w \in Sent /\ Len(w) = m /\ \A j \in 1 .. m : w[j] = replay[k + 1 + j - 1]
    BY <1>1, <1>2, <1>3, <1>4 DEF Sent
  <2> HIDE DEF w
  <2>2. \A j \in 1 .. m : w[j] = known[j]
    <3> TAKE j \in 1 .. m
    <3>1. k + 1 + j - 1 = k + j /\ k + j \in 1 .. a
      BY <1>1, <1>2, <1>3
    <3> QED
      BY <1>2, <1>4, <1>5, <2>1, <3>1, SMTT(60)
  <2>3. w = known
    BY <1>5, <2>1, <2>2 DEF Sent
  <2> QED
    BY <2>3 DEF w
<1>7. SubSeq(s, a + 1, Len(s)) = SubSeq(t, b + 1, L)
  <2> DEFINE w == SubSeq(s, a + 1, Len(s))
             z == SubSeq(t, b + 1, L)
  <2>1. /\ w \in Sent /\ Len(w) = L - b /\ \A j \in 1 .. L - b : w[j] = s[a + 1 + j - 1]
    BY <1>1 DEF Sent
  <2>2. /\ z \in Seq(Printed) /\ Len(z) = L - b
        /\ \A j \in 1 .. L - b : z[j] = t[b + 1 + j - 1]
    BY <1>1 DEF L
  <2> HIDE DEF w, z
  <2>3. \A j \in 1 .. L - b : a + 1 + j - 1 = a + j /\ b + 1 + j - 1 = b + j
    BY <1>1
  <2>4. \A j \in 1 .. L - b : w[j] = z[j]
    BY <1>1, <2>1, <2>2, <2>3
  <2>5. w = z
    BY <2>1, <2>2, <2>4, SMTT(60) DEF Sent
  <2> QED
    BY <2>5 DEF w, z
<1>8. k \in 0 .. Len(replay) - Len(known)
  BY <1>2, <1>4, <1>5
<1> QED
  BY <1>4, <1>5, <1>6, <1>7, <1>8, Zenon DEF replay, known, a, b, L

-----------------------------------------------------------------------------
(***************************************************************************)
(* Types.                                                                  *)
(***************************************************************************)
Places == Nat \X Nat \X Nat
Depths == 0 .. MaxDepth
WalkKinds == {"region", "device", "function", "serial", "sata"}

\* What can be on the stack on machine m: only a port that passed its test joins.
Items(m) ==
  [kind : {"print"}, f : Printed, depth : Depths]
    \cup [kind : WalkKinds, f : Places, depth : Depths]
    \cup [kind : {"join"}, f : m.serial, depth : Depths]

LEMMA ItemFacts ==
  ASSUME NEW m
  PROVE  /\ \A c \in Printed : Item("print", c, 0) \in Items(m)
         /\ \A k \in WalkKinds, f \in Places, d \in Depths : Item(k, f, d) \in Items(m)
         /\ \A f \in m.serial : Item("join", f, 0) \in Items(m)
<1>1. 0 \in Depths
  BY DevicesAssumption DEF Depths
<1> HIDE DEF Printed, WalkKinds, Places, Depths
<1> QED
  BY <1>1 DEF Items, Item

LEMMA ItemMeans ==
  ASSUME NEW m, NEW i \in Items(m)
  PROVE  /\ i.depth \in Depths
         /\ i.kind = "print" => i.f \in Printed
         /\ i.kind = "join" => i.f \in m.serial
         /\ i.kind \in WalkKinds => i.f \in Places
<1>1. CASE i \in [kind : {"print"}, f : Printed, depth : Depths]
  BY <1>1 DEF WalkKinds
<1>2. CASE i \in [kind : WalkKinds, f : Places, depth : Depths]
  BY <1>2 DEF WalkKinds
<1>3. CASE i \in [kind : {"join"}, f : m.serial, depth : Depths]
  BY <1>3 DEF WalkKinds
<1> QED
  BY <1>1, <1>2, <1>3 DEF Items

\* A sequence given by its entries.
LEMMA SeqByEntries ==
  ASSUME NEW n \in Nat, NEW s, NEW S, s \in [1 .. n -> S]
  PROVE  s \in Seq(S) /\ Len(s) = n
OBVIOUS

WalkTypes ==
  /\ machine \in Machines /\ pc \in {"boot", "scan", "done"} /\ stopped \in BOOLEAN
  /\ stack \in Seq(Items(machine))
  /\ found \in Seq(Places) /\ controllers \in Seq(Places)

OutputTypes ==
  /\ machine \in Machines
  /\ outputs \in Seq(machine.serial) /\ text \in Seq(Printed)
  /\ out \in Outs(DOMAIN machine.functions)
  /\ replayed \in [DOMAIN machine.functions -> Seq(Nat)]

LEMMA MachineFacts ==
  ASSUME NEW m \in Machines
  PROVE  /\ m.regions \in Seq([start : Nat, end : Nat])
         /\ m.serial \subseteq DOMAIN m.functions
         /\ DOMAIN m.functions \subseteq Places
         /\ \A f \in DOMAIN m.functions :
              /\ f[2] \in 0 .. DevicesPerBus - 1 /\ f[3] \in 0 .. FunctionsPerDevice - 1
              /\ m.functions[f] # <<>>
              /\ m.functions[f].multi \in BOOLEAN
              /\ m.functions[f].secondary \in Nat
<1>1. /\ m.regions \in Seq([start : Nat, end : Nat])
      /\ m.serial \subseteq DOMAIN m.functions
      /\ \A f \in DOMAIN m.functions :
           /\ m.functions[f] # <<>>
           /\ f \in Nat \X (0 .. DevicesPerBus - 1) \X (0 .. FunctionsPerDevice - 1)
           /\ m.functions[f].multi \in BOOLEAN
           /\ m.functions[f].secondary \in Nat
  BY DevicesAssumption
<1>2. DevicesPerBus \in Nat /\ FunctionsPerDevice \in Nat
  BY DevicesAssumption
<1>3. ASSUME NEW f \in DOMAIN m.functions
      PROVE  /\ f \in Places /\ f[2] \in 0 .. DevicesPerBus - 1
             /\ f[3] \in 0 .. FunctionsPerDevice - 1
  <2>1. f \in Nat \X (0 .. DevicesPerBus - 1) \X (0 .. FunctionsPerDevice - 1)
    BY <1>1
  <2>2. PICK a \in Nat, b \in 0 .. DevicesPerBus - 1, c \in 0 .. FunctionsPerDevice - 1 :
          f = <<a, b, c>>
    BY <2>1
  <2> QED
    BY <1>2, <2>2 DEF Places
<1> QED
  BY <1>1, <1>3

\* What the visits push.
LEMMA PushedItems ==
  ASSUME NEW m
  PROVE  /\ \A c1 \in Printed, c2 \in Printed : Text(<<c1, c2>>) \in Seq(Items(m))
         /\ \A b \in Nat, d \in Depths : BusItems(b, d) \in Seq(Items(m))
         /\ \A n \in Nat : 1 \in Depths => HostItems(n) \in Seq(Items(m))
         /\ \A f \in Places, multi \in BOOLEAN, d \in Depths :
              DeviceItems(f, multi, d) \in Seq(Items(m))
<1>0. DevicesPerBus \in Nat /\ FunctionsPerDevice \in Nat \ {0}
  BY DevicesAssumption
<1>1. ASSUME NEW c1 \in Printed, NEW c2 \in Printed
      PROVE  Text(<<c1, c2>>) \in Seq(Items(m))
  <2>1. Text(<<c1, c2>>) = [i \in 1 .. 2 |-> Item("print", <<c1, c2>>[i], 0)]
    BY DEF Text
  <2>2. \A i \in 1 .. 2 : <<c1, c2>>[i] \in Printed
    OBVIOUS
  <2>3. \A i \in 1 .. 2 : Item("print", <<c1, c2>>[i], 0) \in Items(m)
    BY <2>2, ItemFacts, Zenon
  <2> HIDE DEF Items, Item
  <2>4. Text(<<c1, c2>>) \in [1 .. 2 -> Items(m)]
    BY <2>1, <2>3
  <2> QED
    BY <2>4, SeqByEntries
<1>2. ASSUME NEW b \in Nat, NEW d \in Depths
      PROVE  BusItems(b, d) \in Seq(Items(m))
  <2>1. \A k \in 1 .. DevicesPerBus : <<b, k - 1, 0>> \in Places /\ "device" \in WalkKinds
    BY DEF Places, WalkKinds
  <2>2. \A k \in 1 .. DevicesPerBus : Item("device", <<b, k - 1, 0>>, d) \in Items(m)
    BY <2>1, ItemFacts, Zenon
  <2>3. BusItems(b, d) \in [1 .. DevicesPerBus -> Items(m)]
    BY <2>2 DEF BusItems
  <2> QED
    BY <1>0, <2>3, SeqByEntries
<1>3. ASSUME NEW n \in Nat, 1 \in Depths
      PROVE  HostItems(n) \in Seq(Items(m))
  <2>1. DevicesPerBus \in Nat /\ n * DevicesPerBus \in Nat
    BY <1>0
  <2>2. ASSUME NEW k \in 1 .. n * DevicesPerBus
        PROVE  Item("device", <<(k - 1) \div DevicesPerBus, (k - 1) % DevicesPerBus, 0>>, 1)
                 \in Items(m)
    <3>1. k - 1 \in Nat /\ DevicesPerBus \in Nat \ {0}
      <4>1. CASE DevicesPerBus = 0
        <5>1. n * DevicesPerBus = 0
          BY <4>1
        <5> QED
          BY <5>1
      <4>2. CASE DevicesPerBus # 0
        BY <2>1, <4>2
      <4> QED
        BY <4>1, <4>2
    <3>2. (k - 1) \div DevicesPerBus \in Nat /\ (k - 1) % DevicesPerBus \in Nat
      <4> DEFINE a == k - 1
      <4> HIDE DEF a
      <4>1. a \in Nat /\ DevicesPerBus \in Nat \ {0}
        BY <3>1 DEF a
      <4>2. a \div DevicesPerBus \in Nat /\ a % DevicesPerBus \in Nat
        BY <4>1, DivFacts
      <4> QED
        BY <4>2 DEF a
    <3>3. <<(k - 1) \div DevicesPerBus, (k - 1) % DevicesPerBus, 0>> \in Places
      BY <3>2 DEF Places
    <3>4. "device" \in WalkKinds
      BY DEF WalkKinds
    <3> QED
      BY <1>3, <3>3, <3>4, ItemFacts, Zenon
  <2>3. HostItems(n) \in [1 .. n * DevicesPerBus -> Items(m)]
    BY <2>2 DEF HostItems
  <2> QED
    BY <2>1, <2>3, SeqByEntries
<1>4. ASSUME NEW f \in Places, NEW multi \in BOOLEAN, NEW d \in Depths
      PROVE  DeviceItems(f, multi, d) \in Seq(Items(m))
  <2> DEFINE n == IF multi THEN FunctionsPerDevice ELSE 1
  <2>1. n \in Nat
    BY <1>0
  <2> HIDE DEF n
  <2>2. f[1] \in Nat /\ f[2] \in Nat
    BY DEF Places
  <2>3. \A k \in 1 .. n : <<f[1], f[2], k - 1>> \in Places /\ "function" \in WalkKinds
    BY <2>1, <2>2 DEF Places, WalkKinds
  <2>4. \A k \in 1 .. n : Item("function", <<f[1], f[2], k - 1>>, d) \in Items(m)
    BY <2>3, ItemFacts, Zenon
  <2>5. DeviceItems(f, multi, d) \in [1 .. n -> Items(m)]
    BY <2>4 DEF DeviceItems, n
  <2> QED
    BY <2>1, <2>5, SeqByEntries
<1> QED
  BY <1>1, <1>2, <1>3, <1>4

-----------------------------------------------------------------------------
(***************************************************************************)
(* The output.                                                             *)
(***************************************************************************)
\* Screen and buffer hold the end of the text, ports that failed their test hear
\* nothing, and the others what Heard says if they were found once.
OutputInv ==
  /\ OutputTypes
  /\ Follows(out, text)
  /\ \A p \in DOMAIN machine.functions \ machine.serial : out.sent[p] = <<>>
  /\ \A p \in machine.serial :
       Cardinality(Turns(outputs, p)) = 1 => Heard(out.sent[p], replayed[p], text)

LEMMA PrintKeeps ==
  ASSUME OutputInv, NEW c \in Printed, out' = PutChar(out, c, outputs),
         text' = Append(text, c), UNCHANGED <<machine, outputs, replayed>>
  PROVE  OutputInv'
<1> DEFINE P == DOMAIN machine.functions
           more(p) == [i \in 1 .. Cardinality(Turns(outputs, p)) |-> c]
<1>1. /\ machine \in Machines /\ outputs \in Seq(machine.serial) /\ text \in Seq(Printed)
      /\ out \in Outs(P) /\ Follows(out, text)
  BY DEF OutputInv, OutputTypes
<1>2. machine.serial \subseteq P
  BY <1>1, MachineFacts
<1>3. outputs \in Seq(P)
  BY <1>1, <1>2, SeqMonotonic
<1>4. /\ out' \in Outs(P) /\ Follows(out', text')
      /\ out'.sent = [p \in P |-> out.sent[p] \o more(p)]
  <2> DEFINE n == PutChar(out, c, outputs)
  <2>1. /\ n \in Outs(P) /\ Follows(n, Append(text, c))
        /\ n.sent = SentMore(P, out.sent, c, outputs)
    <3> HIDE DEF P
    <3> QED
      BY <1>1, <1>3, PutCharFacts
  <2>2. n.sent = [p \in P |-> out.sent[p] \o more(p)]
    BY <2>1, Zenon DEF SentMore
  <2> HIDE DEF n, P, more
  <2> QED
    BY <2>1, <2>2, Zenon DEF n
<1>5. text' \in Seq(Printed)
  BY <1>1
<1>6. \A p \in P : out.sent[p] \in Sent
  <2> HIDE DEF P
  <2> QED
    BY <1>1 DEF Outs, Sent
<1> HIDE DEF P
<1>7. ASSUME NEW p \in P, p \notin machine.serial
      PROVE  out'.sent[p] = <<>>
  <2>1. out.sent[p] = <<>>
    BY <1>7 DEF OutputInv, P
  <2>2. Turns(outputs, p) = {}
    BY <1>1, <1>7 DEF Turns
  <2>3. more(p) = <<>>
    <3>1. Cardinality(Turns(outputs, p)) = 0
      BY <2>2, FS_EmptySet
    <3> QED
      BY <3>1
  <2> HIDE DEF more
  <2> QED
    BY <1>4, <2>1, <2>3
<1>8. ASSUME NEW p \in machine.serial, Cardinality(Turns(outputs, p)) = 1
      PROVE  Heard(out'.sent[p], replayed[p], text')
  <2>1. p \in P /\ out.sent[p] \in Sent
    BY <1>2, <1>6
  <2>2. more(p) = <<c>>
    BY <1>8
  <2>3. Heard(out.sent[p], replayed[p], text)
    BY <1>8 DEF OutputInv
  <2> HIDE DEF more
  <2>4. out'.sent[p] = out.sent[p] \o <<c>>
    BY <1>4, <2>1, <2>2
  <2>5. Heard(out.sent[p] \o <<c>>, replayed[p], Append(text, c))
    BY <1>1, <2>1, <2>3, HeardOn
  <2> QED
    BY <2>4, <2>5, Zenon
<1> QED
  BY <1>1, <1>4, <1>5, <1>7, <1>8 DEF OutputInv, OutputTypes, P

\* A port that joins again is not found once any more; the others are found as
\* often as before.
LEMMA JoinKeeps ==
  ASSUME OutputInv, NEW f \in machine.serial,
         out' = [out EXCEPT !.sent[f] = @ \o ReadBuffer(out)],
         outputs' = Append(outputs, f),
         replayed' = [replayed EXCEPT ![f] = <<Len(out.sent[f]) + out.size, Len(text)>>],
         UNCHANGED <<machine, text>>
  PROVE  OutputInv'
<1> DEFINE P == DOMAIN machine.functions
           first == <<Len(out.sent[f]) + out.size, Len(text)>>
           all == out.sent[f] \o ReadBuffer(out)
           sent == [out.sent EXCEPT ![f] = all]
<1>1. /\ machine \in Machines /\ outputs \in Seq(machine.serial) /\ text \in Seq(Printed)
      /\ out \in Outs(P) /\ Follows(out, text) /\ replayed \in [P -> Seq(Nat)]
  BY DEF OutputInv, OutputTypes
<1>2. machine.serial \subseteq P
  BY <1>1, MachineFacts
<1>3. out.sent \in [P -> Sent] /\ out.size \in Nat
  <2> HIDE DEF P
  <2> QED
    BY <1>1 DEF Outs, Sent
<1>4. all \in Sent /\ Heard(all, first, text)
  <2>1. out.sent[f] \in Sent /\ RingHolds(out, text)
    BY <1>1, <1>2, <1>3 DEF Follows
  <2> HIDE DEF P
  <2> QED
    BY <1>1, <2>1, HeardFirst
<1>5. first \in Seq(Nat)
  <2>1. Len(out.sent[f]) \in Nat /\ Len(text) \in Nat
    BY <1>1, <1>2, <1>3 DEF Sent
  <2> QED
    BY <1>3, <2>1, SMTT(60)
<1> HIDE DEF P, first, all
<1>6. out' = [out EXCEPT !.sent = sent] /\ sent \in [P -> Sent]
  BY <1>1, <1>2, <1>3, <1>4 DEF all
<1> HIDE DEF sent
<1>7. /\ out' \in Outs(P) /\ out'.sent = sent
      /\ out'.ring = out.ring /\ out'.start = out.start /\ out'.end = out.end
      /\ out'.size = out.size /\ out'.screen = out.screen /\ out'.index = out.index
  BY <1>1, <1>6 DEF Outs, Sent
<1>8. Follows(out', text)
  BY <1>1, <1>7 DEF Follows, RingHolds, Shows
<1>9. outputs' \in Seq(machine.serial) /\ replayed' = [replayed EXCEPT ![f] = first]
  BY <1>1 DEF first
<1>10. ASSUME NEW p \in P, p \notin machine.serial
       PROVE  out'.sent[p] = <<>>
  <2>1. out.sent[p] = <<>> /\ p # f
    BY <1>10 DEF OutputInv, P
  <2> QED
    BY <1>3, <1>7, <1>10, <2>1 DEF sent
<1>11. ASSUME NEW p \in machine.serial, Cardinality(Turns(outputs', p)) = 1
       PROVE  Heard(out'.sent[p], replayed'[p], text)
  <2>1. p \in P
    BY <1>2
  <2>2. CASE p = f
    <3>1. out'.sent[p] = all /\ replayed'[p] = first
      BY <1>1, <1>3, <1>7, <1>9, <2>1, <2>2, SMTT(60) DEF sent
    <3> QED
      BY <1>4, <3>1, Zenon
  <2>3. CASE p # f
    <3>1. out'.sent[p] = out.sent[p] /\ replayed'[p] = replayed[p]
      BY <1>1, <1>3, <1>7, <1>9, <2>1, <2>3 DEF sent
    <3>2. Turns(outputs', p) = Turns(outputs, p)
      BY <1>1, <2>3 DEF Turns
    <3>3. Heard(out.sent[p], replayed[p], text)
      BY <1>11, <3>2 DEF OutputInv
    <3> QED
      BY <3>1, <3>3, Zenon
  <2> QED
    BY <2>2, <2>3
<1>12. replayed' \in [P -> Seq(Nat)]
  BY <1>1, <1>5, <1>9
<1> QED
  BY <1>1, <1>7, <1>8, <1>9, <1>10, <1>11, <1>12, ZenonT(60) DEF OutputInv, OutputTypes, P

\* The item visited, and what is below it.
LEMMA VisitFacts ==
  ASSUME WalkTypes, stack # <<>>
  PROVE  /\ Head(stack) \in Items(machine) /\ Tail(stack) \in Seq(Items(machine))
         /\ \A items \in Seq(Items(machine)) : items \o Tail(stack) \in Seq(Items(machine))
<1>1. stack \in Seq(Items(machine))
  BY DEF WalkTypes
<1>2. Head(stack) \in Items(machine) /\ Tail(stack) \in Seq(Items(machine))
  <2> HIDE DEF Items
  <2> QED
    BY <1>1
<1>3. ASSUME NEW items \in Seq(Items(machine))
      PROVE  items \o Tail(stack) \in Seq(Items(machine))
  <2> DEFINE tail == Tail(stack)
  <2>1. tail \in Seq(Items(machine))
    BY <1>2
  <2> HIDE DEF tail, Items
  <2>2. items \o tail \in Seq(Items(machine))
    BY <2>1, ConcatProperties
  <2> QED
    BY <2>2 DEF tail
<1> QED
  BY <1>2, <1>3

LEMMA HeaderFacts ==
  ASSUME machine \in Machines, NEW f
  PROVE  Header(machine, f) # <<>> => /\ Header(machine, f).multi \in BOOLEAN
                             /\ Header(machine, f).secondary \in Nat
<1>1. PageZero.multi \in BOOLEAN /\ PageZero.secondary \in Nat
  BY DevicesAssumption
<1>2. CASE ~Configured(machine, f[1])
  BY <1>1, <1>2, Zenon DEF Header
<1>3. CASE Configured(machine, f[1]) /\ f \in DOMAIN machine.functions
  <2>1. Header(machine, f) = machine.functions[f]
    BY <1>3, Zenon DEF Header
  <2>2. machine.functions[f].multi \in BOOLEAN /\ machine.functions[f].secondary \in Nat
    BY <1>3, MachineFacts
  <2> QED
    BY <2>1, <2>2, Zenon
<1>4. CASE Configured(machine, f[1]) /\ f \notin DOMAIN machine.functions
  BY <1>4, Zenon DEF Header
<1> QED
  BY <1>2, <1>3, <1>4

LEMMA OutputKept ==
  ASSUME OutputInv, UNCHANGED <<machine, outputs, out, text, replayed>>
  PROVE  OutputInv'
BY DEF OutputInv, OutputTypes

\* A visit that only pushes items leaves the types in order.
LEMMA ContinueTypes ==
  ASSUME WalkTypes, OutputInv, stack # <<>>, NEW items \in Seq(Items(machine)),
         Continue(items)
  PROVE  WalkTypes' /\ OutputInv'
<1>1. stack' = items \o Tail(stack) /\ UNCHANGED <<machine, pc, found, controllers, stopped>>
  BY DEF Continue
<1>2. items \o Tail(stack) \in Seq(Items(machine))
  BY VisitFacts
<1>3. WalkTypes'
  BY <1>1, <1>2 DEF WalkTypes
<1>4. OutputInv'
  BY OutputKept DEF Continue
<1> QED
  BY <1>3, <1>4

LEMMA TypesStep ==
  ASSUME WalkTypes, OutputInv, [Next]_vars
  PROVE  WalkTypes' /\ OutputInv'
<1>0. /\ machine \in Machines /\ stack \in Seq(Items(machine))
      /\ "region" \in WalkKinds /\ "serial" \in WalkKinds /\ "sata" \in WalkKinds
      /\ "function" \in WalkKinds /\ "device" \in WalkKinds /\ <<>> \in Seq(Items(machine))
      /\ 0 \in Depths /\ 1 \in Depths
  BY DevicesAssumption DEF WalkTypes, WalkKinds, Depths
<1>1. ASSUME NEW c \in Chars, KernelPrints(c)
      PROVE  WalkTypes' /\ OutputInv'
  <2>1. OutputInv'
    BY <1>1, PrintKeeps DEF KernelPrints, Printed
  <2>2. WalkTypes'
    BY <1>1 DEF KernelPrints, WalkTypes
  <2> QED
    BY <2>1, <2>2
<1>2. ASSUME StartScan
      PROVE  WalkTypes' /\ OutputInv'
  <2> DEFINE rs == machine.regions
             top == [i \in 1 .. Len(rs) |-> Item("region", <<rs[i].start, 0, 0>>, 0)]
             heading == Text(<<"heading", NewLine>>)
  <2>1. rs \in Seq([start : Nat, end : Nat])
    BY <1>0, MachineFacts
  <2>2. Len(rs) \in Nat /\ \A i \in 1 .. Len(rs) : <<rs[i].start, 0, 0>> \in Places
    <3> HIDE DEF rs
    <3>1. Len(rs) \in Nat /\ \A i \in 1 .. Len(rs) : rs[i] \in [start : Nat, end : Nat]
      <4> DEFINE S == [start : Nat, end : Nat]
      <4>1. rs \in Seq(S)
        BY <2>1
      <4> HIDE DEF S
      <4>2. Len(rs) \in Nat /\ \A i \in 1 .. Len(rs) : rs[i] \in S
        BY <4>1
      <4> QED
        BY <4>2 DEF S
    <3>2. \A i \in 1 .. Len(rs) : rs[i].start \in Nat
      BY <3>1
    <3> QED
      BY <3>1, <3>2 DEF Places
  <2>3. \A i \in 1 .. Len(rs) : Item("region", <<rs[i].start, 0, 0>>, 0) \in Items(machine)
    BY <1>0, <2>2, ItemFacts, Zenon
  <2>4. top \in [1 .. Len(rs) -> Items(machine)]
    BY <2>3
  <2>5. top \in Seq(Items(machine))
    BY <2>2, <2>4, SeqByEntries
  <2>6. heading \in Seq(Items(machine))
    <3>1. "heading" \in Printed /\ NewLine \in Printed
      BY DEF Printed
    <3> QED
      BY <3>1, PushedItems
  <2>7. stack' = heading \o top
    BY <1>2 DEF StartScan
  <2> HIDE DEF heading, top
  <2>8. stack' \in Seq(Items(machine))
    BY <2>5, <2>6, <2>7, ConcatProperties
  <2>9. OutputInv'
    BY <1>2, OutputKept DEF StartScan
  <2> QED
    BY <1>2, <2>8, <2>9 DEF StartScan, WalkTypes
<1>3. ASSUME PrintNext
      PROVE  WalkTypes' /\ OutputInv'
  <2>1. Head(stack) \in Items(machine) /\ Tail(stack) \in Seq(Items(machine))
    BY <1>3, VisitFacts DEF PrintNext, Visit
  <2>2. Head(stack).f \in Printed
    BY <1>3, <2>1, ItemMeans DEF PrintNext, Visit
  <2>3. OutputInv'
    BY <1>3, <2>2, PrintKeeps DEF PrintNext
  <2> QED
    BY <1>3, <2>1, <2>3 DEF PrintNext, WalkTypes
<1>4. ASSUME VisitRegion
      PROVE  WalkTypes' /\ OutputInv'
  <2> DEFINE h == Header(machine, Head(stack).f)
             items == IF h = <<>> THEN <<>> ELSE HostItems(IF h.multi THEN HostBuses ELSE 1)
  <2>1. stack # <<>> /\ Continue(items)
    BY <1>4 DEF VisitRegion, Visit
  <2>2. items \in Seq(Items(machine))
    <3> DEFINE n == IF h.multi THEN HostBuses ELSE 1
    <3>1. n \in Nat
      BY DevicesAssumption
    <3> HIDE DEF n
    <3>2. HostItems(n) \in Seq(Items(machine))
      BY <1>0, <3>1, PushedItems
    <3> QED
      BY <1>0, <3>2 DEF n
  <2> HIDE DEF items
  <2> QED
    BY <2>1, <2>2, ContinueTypes
<1>5. ASSUME VisitDevice
      PROVE  WalkTypes' /\ OutputInv'
  <2> DEFINE i == Head(stack)
             h == Header(machine, i.f)
             items == IF h = <<>> THEN <<>> ELSE DeviceItems(i.f, h.multi, i.depth)
  <2>1. stack # <<>> /\ i.kind = "device" /\ Continue(items)
    BY <1>5 DEF VisitDevice, Visit
  <2>2. i \in Items(machine)
    BY <2>1, VisitFacts
  <2> HIDE DEF i
  <2>3. i.f \in Places /\ i.depth \in Depths
    BY <1>0, <2>1, <2>2, ItemMeans
  <2>4. h # <<>> => h.multi \in BOOLEAN
    BY <1>0, HeaderFacts
  <2> HIDE DEF h
  <2>5. items \in Seq(Items(machine))
    BY <1>0, <2>3, <2>4, PushedItems
  <2> HIDE DEF items
  <2> QED
    BY <2>1, <2>5, ContinueTypes
<1>6. ASSUME VisitAbsent
      PROVE  WalkTypes' /\ OutputInv'
  BY <1>0, <1>6, ContinueTypes DEF VisitAbsent, Visit
<1>7. ASSUME VisitBridge
      PROVE  WalkTypes' /\ OutputInv'
  <2> DEFINE i == Head(stack)
             items == BusItems(BehindBridge(machine, i.f), i.depth + 1)
  <2>1. stack # <<>> /\ i.kind = "function" /\ IsBridge(machine, i.f)
    BY <1>7 DEF VisitBridge, Visit
  <2>2. i \in Items(machine)
    BY <2>1, VisitFacts
  <2>3. CASE i.depth = MaxDepth
    <3>1. stopped' = TRUE /\ UNCHANGED <<machine, pc, stack, found, controllers, outputs,
                                         out, text, replayed>>
      BY <1>7, <2>3 DEF VisitBridge
    <3> QED
      BY <3>1, OutputKept DEF WalkTypes
  <2>4. CASE i.depth # MaxDepth
    <3>1. Continue(items)
      BY <1>7, <2>4 DEF VisitBridge
    <3> HIDE DEF i
    <3>2. i.depth \in Depths
      BY <2>2, ItemMeans
    <3>3. i.depth + 1 \in Depths
      BY <2>4, <3>2, DevicesAssumption DEF Depths
    <3>4. BehindBridge(machine, i.f) \in Nat
      BY <1>0, <2>1, HeaderFacts DEF BehindBridge, IsBridge
    <3>5. items \in Seq(Items(machine))
      BY <3>3, <3>4, PushedItems
    <3> HIDE DEF items
    <3> QED
      BY <2>1, <3>1, <3>5, ContinueTypes
  <2> QED
    BY <2>3, <2>4
<1>8. ASSUME VisitFunction
      PROVE  WalkTypes' /\ OutputInv'
  <2> DEFINE f == Head(stack).f
             h == Header(machine, f)
             row == Text(<<"row", NewLine>>)
             offer == IF h.class \in {"serial", "sata"} THEN <<Item(h.class, f, 0)>> ELSE <<>>
  <2>1. /\ stack # <<>> /\ Head(stack).kind = "function"
        /\ found' = Append(found, f) /\ stack' = row \o offer \o Tail(stack)
        /\ UNCHANGED <<machine, pc, controllers, outputs, out, text, replayed, stopped>>
    BY <1>8, SMTT(60) DEF VisitFunction, Visit
  <2>2. f \in Places
    <3>1. Head(stack) \in Items(machine)
      BY <2>1, VisitFacts
    <3> QED
      BY <1>0, <2>1, <3>1, ItemMeans, SMTT(60)
  <2> HIDE DEF f
  <2>3. row \in Seq(Items(machine))
    <3>1. "row" \in Printed /\ NewLine \in Printed
      BY DEF Printed
    <3> QED
      BY <3>1, PushedItems
  <2>4. offer \in Seq(Items(machine))
    <3>1. ASSUME h.class \in {"serial", "sata"}
          PROVE  Item(h.class, f, 0) \in Items(machine)
      BY <1>0, <2>2, <3>1, ItemFacts
    <3> HIDE DEF h
    <3> QED
      BY <1>0, <3>1
  <2> HIDE DEF row, offer
  <2>5. row \o offer \in Seq(Items(machine))
    BY <2>3, <2>4, ConcatProperties
  <2>6. stack' \in Seq(Items(machine))
    BY <2>1, <2>5, VisitFacts
  <2>7. found' \in Seq(Places)
    BY <2>1, <2>2 DEF WalkTypes
  <2>8. OutputInv'
    BY <2>1, OutputKept
  <2> QED
    BY <2>1, <2>6, <2>7, <2>8, SMTT(60) DEF WalkTypes
<1>9. ASSUME NewSerial
      PROVE  WalkTypes' /\ OutputInv'
  <2> DEFINE f == Head(stack).f
             row == Text(<<"serial", NewLine>>)
             join == IF SerialValid(f) THEN <<Item("join", f, 0)>> ELSE <<>>
  <2>1. stack # <<>> /\ Continue(row \o join)
    BY <1>9 DEF NewSerial, Visit
  <2>2. row \in Seq(Items(machine))
    <3>1. "serial" \in Printed /\ NewLine \in Printed
      BY DEF Printed
    <3> QED
      BY <3>1, PushedItems
  <2>3. join \in Seq(Items(machine))
    <3>1. SerialValid(f) => Item("join", f, 0) \in Items(machine)
      BY ItemFacts, SMTT(60) DEF SerialValid
    <3> HIDE DEF f
    <3> QED
      BY <1>0, <3>1
  <2> HIDE DEF row, join
  <2>4. row \o join \in Seq(Items(machine))
    BY <2>2, <2>3, ConcatProperties
  <2> QED
    BY <2>1, <2>4, ContinueTypes
<1>10. ASSUME Join
       PROVE  WalkTypes' /\ OutputInv'
  <2>1. Head(stack) \in Items(machine) /\ Tail(stack) \in Seq(Items(machine))
    BY <1>10, VisitFacts, SMTT(60) DEF Join, Visit
  <2>2. Head(stack).f \in machine.serial
    BY <1>10, <2>1, ItemMeans, SMTT(60) DEF Join, Visit
  <2>3. OutputInv'
    BY <1>10, <2>2, JoinKeeps DEF Join
  <2> QED
    BY <1>10, <2>1, <2>3, SMTT(60) DEF Join, WalkTypes
<1>11. ASSUME NewController
       PROVE  WalkTypes' /\ OutputInv'
  <2>1. Head(stack) \in Items(machine) /\ Tail(stack) \in Seq(Items(machine))
    BY <1>11, VisitFacts DEF NewController, Visit
  <2>2. Head(stack).f \in Places
    BY <1>0, <1>11, <2>1, ItemMeans DEF NewController, Visit
  <2>3. controllers' \in Seq(Places)
    BY <1>11, <2>2 DEF NewController, WalkTypes
  <2>4. OutputInv'
    BY <1>11, OutputKept DEF NewController
  <2> QED
    BY <1>11, <2>1, <2>3, <2>4 DEF NewController, WalkTypes
<1>12. ASSUME EndScan
       PROVE  WalkTypes' /\ OutputInv'
  <2>1. OutputInv'
    BY <1>12, OutputKept DEF EndScan
  <2> QED
    BY <1>12, <2>1 DEF EndScan, WalkTypes
<1>13. ASSUME UNCHANGED vars
       PROVE  WalkTypes' /\ OutputInv'
  <2>1. OutputInv'
    BY <1>13, OutputKept DEF vars
  <2> QED
    BY <1>13, <2>1 DEF vars, WalkTypes
<1> QED
  BY <1>1, <1>2, <1>3, <1>4, <1>5, <1>6, <1>7, <1>8, <1>9, <1>10, <1>11, <1>12, <1>13
  DEF Next, Walk, Finished

LEMMA TypesInit == Init => WalkTypes /\ OutputInv
<1> SUFFICES ASSUME Init PROVE WalkTypes /\ OutputInv
  OBVIOUS
<1> DEFINE P == DOMAIN machine.functions
<1>1. /\ machine \in Machines /\ RingSize \in Nat \ {0} /\ Width \in Nat \ {0}
      /\ Height \in Nat \ {0}
  BY DevicesAssumption DEF Init
<1>2. WalkTypes
  <2>1. /\ pc = "boot" /\ stopped = FALSE /\ stack = <<>> /\ found = <<>>
        /\ controllers = <<>>
    BY DEF Init
  <2>2. \A S : <<>> \in Seq(S)
    OBVIOUS
  <2> QED
    BY <1>1, <2>1, <2>2, Zenon DEF WalkTypes
<1>3. /\ out.ring \in [0 .. RingSize - 1 -> Printed \cup {Nul}] /\ out.start = 0 /\ out.end = 0
      /\ out.size = 0 /\ out.screen = [i \in 0 .. Width * Height - 1 |-> Blank]
      /\ out.index = 0 /\ out.sent = [p \in P |-> <<>>]
  BY DEF Init
<1>4. out = [ring |-> out.ring, start |-> out.start, end |-> out.end, size |-> out.size,
             screen |-> out.screen, index |-> out.index, sent |-> out.sent]
  BY DEF Init
<1>5. 0 \in 0 .. Width * Height - 1
  <2>1. 0 \in 0 .. Height /\ 0 < Height /\ 0 \in 0 .. Width - 1 /\ Place(0, 0) = 0
    BY <1>1 DEF Place
  <2> QED
    BY <2>1, PlaceFacts
<1>6. out \in Outs(P)
  <2>1. out.sent \in [P -> Seq(Printed \cup {Nul})]
    BY <1>3
  <2>2. out.screen \in [0 .. Width * Height - 1 -> Printed \cup {Blank}]
    BY <1>3
  <2>3. 0 \in 0 .. RingSize - 1 /\ 0 \in 0 .. RingSize
    BY <1>1
  <2> HIDE DEF P
  <2> QED
    BY <1>3, <1>4, <1>5, <2>1, <2>2, <2>3 DEF Outs
<1>7. text = <<>> /\ outputs = <<>> /\ replayed = [p \in P |-> <<>>]
  BY DEF Init
<1>8. Follows(out, text)
  <2>1. Len(text) = 0 /\ 0 % RingSize = 0
    BY <1>1, <1>7
  <2>2. RingHolds(out, text)
    BY <1>3, <2>1 DEF RingHolds
  <2> DEFINE paper == Paper(text)
  <2>3. paper = EmptyPaper
    <3>1. NewLine \in Printed /\ <<>> \in Seq(Printed)
      BY DEF Printed
    <3>2. Paper(<<>>) = EmptyPaper
      BY <3>1, PaperFacts
    <3> QED
      BY <1>7, <3>2
  <2> HIDE DEF paper
  <2>4. PaperSound(paper)
    BY <1>1, <2>3 DEF PaperSound, EmptyPaper
  <2>5. paper.row = 0 /\ paper.col = 0 /\ Top(paper) = 0
    BY <1>1, <2>3 DEF EmptyPaper, Top
  <2>6. Shows(out, paper)
    <3>1. out.index = Place(0, 0)
      BY <1>1, <1>3 DEF Place
    <3>2. ASSUME NEW r \in 0 .. Height - 1, NEW q \in 0 .. Width - 1
          PROVE  out.screen[Place(r, q)] = Shown(paper, 0 + r, q)
      <4>1. Place(r, q) \in 0 .. Width * Height - 1
        BY <1>1, PlaceFacts
      <4>2. 0 + r \in Nat /\ q \in Nat /\ ~InFront(0 + r, q, paper.row, paper.col)
        BY <1>1, <2>5 DEF InFront
      <4>3. Shown(paper, 0 + r, q) = Blank
        BY <2>4, <4>2, BlankBehind
      <4> QED
        BY <1>3, <4>1, <4>3
    <3> QED
      BY <2>5, <3>1, <3>2 DEF Shows
  <2> QED
    BY <2>2, <2>4, <2>6 DEF Follows, paper
<1>9. \A p \in machine.serial : Cardinality(Turns(outputs, p)) # 1
  <2> TAKE p \in machine.serial
  <2>1. Turns(outputs, p) = {}
    BY <1>7 DEF Turns
  <2> QED
    BY <2>1, FS_EmptySet
<1>10. OutputTypes
  BY <1>1, <1>6, <1>7 DEF OutputTypes
<1> QED
  BY <1>2, <1>3, <1>8, <1>9, <1>10 DEF OutputInv

LEMMA TypesAlways == Spec => [](WalkTypes /\ OutputInv)
<1>1. Init => WalkTypes /\ OutputInv
  BY TypesInit
<1>2. WalkTypes /\ OutputInv /\ [Next]_vars => (WalkTypes /\ OutputInv)'
  BY TypesStep
<1> QED
  BY <1>1, <1>2, PTL DEF Spec

\* The screen shows the last lines of what was printed, for every text and every
\* size of the screen: cursor and scrolling agree with the paper
\* (VGATextOut.cpp:10-34).
THEOREM ScreenFollowsText == Spec => []ScreenShowsTail
<1>1. OutputInv => ScreenShowsTail
  BY DEF OutputInv, Follows, Shows, ScreenShowsTail, Place, Top
<1> QED
  BY <1>1, TypesAlways, PTL

\* A port that was found once hears the end of what was printed before, in order
\* and without a gap, and every character since; a port that failed its test
\* hears nothing (Output.cpp:30-56, serial.cpp:13-25).
THEOREM PortsHearTheText == Spec => []PortTranscript
<1>1. ASSUME OutputInv
      PROVE  PortTranscript
  <2>1. /\ machine \in Machines /\ outputs \in Seq(machine.serial)
        /\ text \in Seq(Printed) /\ out \in Outs(DOMAIN machine.functions)
    BY <1>1 DEF OutputInv, OutputTypes
  <2>2. DOMAIN out.sent = DOMAIN machine.functions
    BY <2>1 DEF Outs
  <2>3. \A p \in DOMAIN out.sent \ machine.serial : out.sent[p] = <<>>
    BY <1>1, <2>2, SMTT(60) DEF OutputInv
  <2>4. ASSUME NEW p \in Range(outputs),
               Cardinality({i \in DOMAIN outputs : outputs[i] = p}) = 1
        PROVE  LET replay == SubSeq(out.sent[p], 1, replayed[p][1])
                   known == LastOf(RingSize - 1, SubSeq(text, 1, replayed[p][2]))
               IN  /\ \E k \in 0 .. Len(replay) - Len(known) :
                        SubSeq(replay, k + 1, k + Len(known)) = known
                   /\ SubSeq(out.sent[p], Len(replay) + 1, Len(out.sent[p]))
                        = SubSeq(text, replayed[p][2] + 1, Len(text))
    <3>1. p \in machine.serial
      BY <2>1 DEF Range
    <3>2. Heard(out.sent[p], replayed[p], text)
      BY <1>1, <2>4, <3>1 DEF OutputInv, Turns
    <3>3. out.sent[p] \in Sent
      BY <2>1, <3>1, MachineFacts DEF Outs, Sent
    <3> DEFINE s == out.sent[p]
               r == replayed[p]
    <3>4. Heard(s, r, text) /\ s \in Sent
      BY <3>2, <3>3
    <3> HIDE DEF s, r
    <3>5. LET replay == SubSeq(s, 1, r[1])
              known == LastOf(RingSize - 1, SubSeq(text, 1, r[2]))
          IN  /\ \E k \in 0 .. Len(replay) - Len(known) :
                   SubSeq(replay, k + 1, k + Len(known)) = known
              /\ SubSeq(s, Len(replay) + 1, Len(s)) = SubSeq(text, r[2] + 1, Len(text))
      BY <2>1, <3>4, HeardMeans
    <3> QED
      BY <3>5 DEF s, r
  <2> QED
    BY <2>3, <2>4, Zenon DEF PortTranscript
<1> QED
  BY <1>1, TypesAlways, PTL

-----------------------------------------------------------------------------
(***************************************************************************)
(* The buses below a set of buses.                                         *)
(***************************************************************************)
Closed(m, S) == \A f \in Bridges(m) : f[1] \in S => m.functions[f].secondary \in S

Below(m, B) == {x \in Nat : \A S \in SUBSET Nat : B \subseteq S /\ Closed(m, S) => x \in S}

LEMMA BridgeFacts ==
  ASSUME NEW m \in Machines, NEW f \in Bridges(m)
  PROVE  /\ f \in DOMAIN m.functions /\ f[1] \in Nat /\ m.functions[f].secondary \in Nat
         /\ Answers(m, f) /\ m.functions[f].class = "bridge"
<1>1. /\ f \in DOMAIN m.functions /\ Answers(m, f)
      /\ m.functions[f].class = "bridge"
  BY Zenon DEF Bridges
<1>2. f \in Places /\ m.functions[f].secondary \in Nat
  BY <1>1, MachineFacts
<1>3. f[1] \in Nat
  BY <1>2 DEF Places
<1> QED
  BY <1>1, <1>2, <1>3

\* They are the least closed set that has B.
LEMMA BelowLeast ==
  ASSUME NEW m \in Machines, NEW B \in SUBSET Nat
  PROVE  /\ Below(m, B) \in SUBSET Nat /\ B \subseteq Below(m, B) /\ Closed(m, Below(m, B))
         /\ \A S \in SUBSET Nat : B \subseteq S /\ Closed(m, S) => Below(m, B) \subseteq S
<1>1. Below(m, B) \in SUBSET Nat
  BY DEF Below
<1>2. B \subseteq Below(m, B)
  BY DEF Below
<1>3. \A S \in SUBSET Nat : B \subseteq S /\ Closed(m, S) => Below(m, B) \subseteq S
  BY DEF Below
<1>4. ASSUME NEW f \in Bridges(m), f[1] \in Below(m, B)
      PROVE  m.functions[f].secondary \in Below(m, B)
  <2>1. m.functions[f].secondary \in Nat
    BY BridgeFacts
  <2>2. ASSUME NEW S \in SUBSET Nat, B \subseteq S, Closed(m, S)
        PROVE  m.functions[f].secondary \in S
    BY <1>3, <1>4, <2>2 DEF Closed
  <2> QED
    BY <2>1, <2>2, Zenon DEF Below
<1> QED
  BY <1>1, <1>2, <1>3, <1>4 DEF Closed

\* Below B there are its own buses and those below a bridge on one of them.
LEMMA BelowSplit ==
  ASSUME NEW m \in Machines, NEW B \in SUBSET Nat, NEW x
  PROVE  x \in Below(m, B) <=>
           \/ x \in B
           \/ \E f \in Bridges(m) : /\ f[1] \in B
                                    /\ x \in Below(m, {m.functions[f].secondary})
<1> DEFINE sec(f) == m.functions[f].secondary
           S == B \cup {y \in Nat : \E f \in Bridges(m) : f[1] \in B /\ y \in Below(m, {sec(f)})}
<1>1. \A f \in Bridges(m) : /\ sec(f) \in Nat /\ Below(m, {sec(f)}) \in SUBSET Nat
                            /\ sec(f) \in Below(m, {sec(f)}) /\ Closed(m, Below(m, {sec(f)}))
  <2> TAKE f \in Bridges(m)
  <2>1. sec(f) \in Nat
    BY BridgeFacts
  <2> HIDE DEF sec
  <2>2. {sec(f)} \in SUBSET Nat
    BY <2>1
  <2> QED
    BY <2>1, <2>2, BelowLeast
<1>2. S \in SUBSET Nat /\ B \subseteq S
  OBVIOUS
<1>3. Closed(m, S)
  <2> SUFFICES ASSUME NEW f \in Bridges(m), f[1] \in S PROVE sec(f) \in S
    BY DEF Closed
  <2>1. CASE f[1] \in B
    BY <1>1, <2>1
  <2>2. CASE f[1] \notin B
    <3>1. PICK g \in Bridges(m) : g[1] \in B /\ f[1] \in Below(m, {sec(g)})
      BY <2>2
    <3>2. sec(f) \in Below(m, {sec(g)})
      BY <1>1, <3>1 DEF Closed
    <3> QED
      BY <1>1, <3>1, <3>2
  <2> QED
    BY <2>1, <2>2
<1>4. Below(m, B) \subseteq S
  <2> HIDE DEF S
  <2> QED
    BY <1>2, <1>3, BelowLeast
<1>5. ASSUME NEW f \in Bridges(m), f[1] \in B, x \in Below(m, {sec(f)})
      PROVE  x \in Below(m, B)
  <2> DEFINE s == sec(f)
  <2>1. s \in Below(m, B) /\ Closed(m, Below(m, B)) /\ Below(m, B) \in SUBSET Nat
    BY <1>5, BelowLeast DEF Closed
  <2> HIDE DEF s
  <2>2. {s} \subseteq Below(m, B) /\ {s} \in SUBSET Nat
    BY <2>1
  <2>3. Below(m, {s}) \subseteq Below(m, B)
    BY <2>1, <2>2, BelowLeast
  <2> QED
    BY <1>5, <2>3 DEF s
<1>6. x \in B => x \in Below(m, B)
  BY BelowLeast
<1> QED
  BY <1>4, <1>5, <1>6

\* The reachable buses are those below the first ones: it makes no difference
\* that Reachable looks at fewer sets.
LEMMA ReachableBelow ==
  ASSUME NEW m \in Machines
  PROVE  Reachable(m) = Below(m, FirstBuses(m))
<1> DEFINE all == Buses(m) \cup FirstBuses(m) \cup {m.functions[f].secondary : f \in Bridges(m)}
           B == FirstBuses(m)
<1>1. B \in SUBSET Nat
  BY DevicesAssumption DEF FirstBuses
<1>2. all \in SUBSET Nat
  <2>1. \A f \in DOMAIN m.functions : f \in Places
    BY MachineFacts
  <2>2. \A f \in DOMAIN m.functions : f[1] \in Nat
    BY <2>1 DEF Places
  <2>3. Buses(m) \in SUBSET Nat
    BY <2>2 DEF Buses
  <2>4. {m.functions[f].secondary : f \in Bridges(m)} \in SUBSET Nat
    BY BridgeFacts
  <2> QED
    BY <1>1, <2>3, <2>4
<1>3. \A f \in Bridges(m) : m.functions[f].secondary \in all
  OBVIOUS
<1>4. B \subseteq all
  OBVIOUS
<1>5. Reachable(m) = {b \in all : \A S \in SUBSET all : B \subseteq S /\ Closed(m, S) => b \in S}
  BY Zenon DEF Reachable, Closed
<1> HIDE DEF all, B
<1>6. ASSUME NEW b \in Reachable(m)
      PROVE  b \in Below(m, B)
  <2>1. b \in all /\ \A S \in SUBSET all : B \subseteq S /\ Closed(m, S) => b \in S
    BY <1>5
  <2>2. ASSUME NEW S \in SUBSET Nat, B \subseteq S, Closed(m, S)
        PROVE  b \in S
    <3>1. S \cap all \in SUBSET all /\ B \subseteq S \cap all
      BY <1>4, <2>2
    <3>2. Closed(m, S \cap all)
      BY <1>3, <2>2 DEF Closed
    <3> QED
      BY <2>1, <3>1, <3>2
  <2> QED
    BY <1>2, <2>1, <2>2, Zenon DEF Below
<1>7. ASSUME NEW b \in Below(m, B)
      PROVE  b \in Reachable(m)
  <2>1. Closed(m, all)
    BY <1>3 DEF Closed
  <2>2. b \in all
    BY <1>1, <1>2, <1>4, <1>7, <2>1, BelowLeast
  <2>3. ASSUME NEW S \in SUBSET all, B \subseteq S, Closed(m, S)
        PROVE  b \in S
    <3>1. S \in SUBSET Nat
      BY <1>2
    <3> QED
      BY <1>1, <1>7, <2>3, <3>1, BelowLeast
  <2> QED
    BY <1>5, <2>2, <2>3
<1> QED
  BY <1>6, <1>7 DEF B

\* In a tree the buses below a bridge are behind its own bus, and no bus is
\* below two bridges on one bus.
LEMMA BelowInTree ==
  ASSUME NEW m \in Machines, Tree(m), NEW f \in Bridges(m)
  PROVE  /\ \A x \in Below(m, {m.functions[f].secondary}) : f[1] < x
         /\ \A g \in Bridges(m) : f # g /\ f[1] = g[1] =>
              Below(m, {m.functions[f].secondary}) \cap Below(m, {m.functions[g].secondary}) = {}
<1> DEFINE sec(h) == m.functions[h].secondary
<1>1. \A h \in Bridges(m) : h[1] \in Nat /\ sec(h) \in Nat /\ h[1] < sec(h)
  BY BridgeFacts DEF Tree
<1>2. \A g, h \in Bridges(m) : sec(g) = sec(h) => g = h
  BY DEF Tree
<1> HIDE DEF sec
<1>3. ASSUME NEW h \in Bridges(m)
      PROVE  \A x \in Below(m, {sec(h)}) : h[1] < x
  <2> DEFINE S == {x \in Nat : h[1] < x}
  <2>1. {sec(h)} \in SUBSET Nat /\ {sec(h)} \subseteq S /\ S \in SUBSET Nat
    BY <1>1
  <2>2. Closed(m, S)
    <3> SUFFICES ASSUME NEW g \in Bridges(m), g[1] \in S PROVE sec(g) \in S
      BY DEF Closed, sec
    <3> QED
      BY <1>1
  <2>3. Below(m, {sec(h)}) \subseteq S
    <3> HIDE DEF S
    <3> QED
      BY <2>1, <2>2, BelowLeast
  <2> QED
    BY <2>3
<1>4. ASSUME NEW g \in Bridges(m), f # g, f[1] = g[1]
      PROVE  Below(m, {sec(f)}) \cap Below(m, {sec(g)}) = {}
  <2> DEFINE T == Below(m, {sec(g)})
             S == {x \in Nat : g[1] < x /\ x \notin T}
  <2>1. {sec(g)} \in SUBSET Nat /\ {sec(f)} \in SUBSET Nat
    BY <1>1
  <2>2. \A x \in T : g[1] < x
    BY <1>3
  <2>3. ASSUME NEW x \in T, x # sec(g)
        PROVE  \E h \in Bridges(m) : h[1] \in T /\ sec(h) = x
    <3> DEFINE U == {y \in T : y = sec(g) \/ \E h \in Bridges(m) : h[1] \in T /\ sec(h) = y}
    <3>1. sec(g) \in T /\ Closed(m, T) /\ T \in SUBSET Nat
      BY <2>1, BelowLeast
    <3>2. {sec(g)} \subseteq U /\ U \in SUBSET Nat
      BY <3>1
    <3>3. Closed(m, U)
      <4> SUFFICES ASSUME NEW h \in Bridges(m), h[1] \in U PROVE sec(h) \in U
        BY DEF Closed, sec
      <4>1. h[1] \in T
        OBVIOUS
      <4>2. sec(h) \in T
        BY <3>1, <4>1 DEF Closed, sec
      <4> HIDE DEF T
      <4> QED
        BY <4>1, <4>2, SMTT(60)
    <3>4. T \subseteq U
      <4> HIDE DEF U
      <4> QED
        BY <2>1, <3>2, <3>3, BelowLeast
    <3> QED
      BY <2>3, <3>4
  <2> HIDE DEF T
  <2>4. ASSUME NEW h \in Bridges(m), sec(h) \in T
        PROVE  h = g \/ h[1] \in T
    <3>1. CASE sec(h) = sec(g)
      BY <1>2, <3>1
    <3>2. CASE sec(h) # sec(g)
      <4>1. PICK k \in Bridges(m) : k[1] \in T /\ sec(k) = sec(h)
        BY <2>3, <2>4, <3>2
      <4> QED
        BY <1>2, <4>1
    <3> QED
      BY <3>1, <3>2
  <2>5. sec(f) \in S
    <3>1. g[1] < sec(f) /\ sec(f) \in Nat
      BY <1>1, <1>4
    <3>2. sec(f) \notin T
      <4> SUFFICES ASSUME sec(f) \in T PROVE FALSE
        OBVIOUS
      <4>1. f[1] \in T
        BY <1>4, <2>4
      <4>2. g[1] < g[1]
        BY <1>4, <2>2, <4>1
      <4> QED
        BY <1>1, <4>2
    <3> QED
      BY <3>1, <3>2
  <2>6. Closed(m, S)
    <3> SUFFICES ASSUME NEW h \in Bridges(m), h[1] \in S PROVE sec(h) \in S
      BY DEF Closed, sec
    <3>1. sec(h) \in Nat /\ g[1] < sec(h)
      BY <1>1
    <3>2. sec(h) \notin T
      <4> SUFFICES ASSUME sec(h) \in T PROVE FALSE
        OBVIOUS
      <4>1. h = g
        BY <2>4
      <4> QED
        BY <1>1, <4>1
    <3> QED
      BY <3>1, <3>2
  <2>7. {sec(f)} \subseteq S /\ S \in SUBSET Nat
    BY <2>5
  <2>8. Below(m, {sec(f)}) \subseteq S
    <3> HIDE DEF S
    <3> QED
      BY <2>1, <2>6, <2>7, BelowLeast
  <2> QED
    BY <2>8 DEF T
<1> QED
  BY <1>3, <1>4 DEF sec

-----------------------------------------------------------------------------
(***************************************************************************)
(* Where a sequence has an element of A.                                   *)
(***************************************************************************)
Hits(s, A) == {k \in 1 .. Len(s) : s[k] \in A}
Single(s, A) == \A j, k \in Hits(s, A) : j = k

LEMMA HitsJoined ==
  ASSUME NEW S, NEW a \in Seq(S), NEW b \in Seq(S), NEW A
  PROVE  /\ Hits(a \o b, A) # {} <=> Hits(a, A) # {} \/ Hits(b, A) # {}
         /\ Single(a, A) /\ Hits(b, A) = {} => Single(a \o b, A)
         /\ Hits(a, A) = {} /\ Single(b, A) => Single(a \o b, A)
<1> DEFINE u == a \o b
           n == Len(a)
<1>1. /\ n \in Nat /\ Len(b) \in Nat /\ Len(u) = n + Len(b)
      /\ \A k \in 1 .. n : u[k] = a[k]
      /\ \A k \in 1 .. Len(b) : u[n + k] = b[k]
  OBVIOUS
<1> HIDE DEF u, n
<1>2. \A k \in Hits(a, A) : k \in Hits(u, A)
  BY <1>1 DEF Hits, n
<1>3. \A k \in Hits(b, A) : n + k \in Hits(u, A)
  BY <1>1 DEF Hits
<1>4. \A k \in Hits(u, A) : k \in Hits(a, A) \/ (k - n \in Hits(b, A) /\ k \in Nat)
  <2> SUFFICES ASSUME NEW k \in Hits(u, A), k \notin Hits(a, A)
               PROVE  k - n \in Hits(b, A) /\ k \in Nat
    OBVIOUS
  <2>1. k \in 1 .. Len(u) /\ u[k] \in A
    BY DEF Hits
  <2>2. k > n
    BY <1>1, <2>1 DEF Hits, n
  <2>3. k - n \in 1 .. Len(b) /\ n + (k - n) = k
    BY <1>1, <2>1, <2>2
  <2>4. b[k - n] = u[n + (k - n)]
    BY <1>1, <2>3
  <2>5. b[k - n] \in A
    BY <2>1, <2>3, <2>4
  <2> QED
    BY <2>1, <2>3, <2>5 DEF Hits
<1>5. Hits(u, A) # {} <=> Hits(a, A) # {} \/ Hits(b, A) # {}
  BY <1>2, <1>3, <1>4
<1>6. ASSUME Single(a, A), Hits(b, A) = {}
      PROVE  Single(u, A)
  BY <1>4, <1>6 DEF Single
<1>7. ASSUME Hits(a, A) = {}, Single(b, A)
      PROVE  Single(u, A)
  <2> SUFFICES ASSUME NEW j \in Hits(u, A), NEW k \in Hits(u, A) PROVE j = k
    BY DEF Single
  <2>1. j - n \in Hits(b, A) /\ k - n \in Hits(b, A) /\ j \in Nat /\ k \in Nat
    BY <1>4, <1>7
  <2>2. j - n = k - n
    BY <1>7, <2>1 DEF Single
  <2> QED
    BY <1>1, <2>1, <2>2
<1> QED
  BY <1>5, <1>6, <1>7 DEF u

LEMMA HitsSplit ==
  ASSUME NEW S, NEW s \in Seq(S), s # <<>>, NEW A
  PROVE  /\ Hits(s, A) # {} <=> Head(s) \in A \/ Hits(Tail(s), A) # {}
         /\ Single(s, A) => Single(Tail(s), A) /\ (Head(s) \in A => Hits(Tail(s), A) = {})
<1> DEFINE u == Tail(s)
<1>1. /\ Len(s) \in Nat \ {0} /\ Len(u) = Len(s) - 1 /\ Head(s) = s[1]
      /\ \A k \in 1 .. Len(u) : u[k] = s[k + 1]
  OBVIOUS
<1> HIDE DEF u
<1>2. \A k \in Hits(u, A) : k + 1 \in Hits(s, A) /\ k \in Nat \ {0}
  BY <1>1 DEF Hits
<1>3. 1 \in Hits(s, A) <=> Head(s) \in A
  BY <1>1 DEF Hits
<1>4. \A k \in Hits(s, A) : k # 1 => k - 1 \in Hits(u, A)
  <2> SUFFICES ASSUME NEW k \in Hits(s, A), k # 1 PROVE k - 1 \in Hits(u, A)
    OBVIOUS
  <2>1. k - 1 \in 1 .. Len(u) /\ k - 1 + 1 = k /\ s[k] \in A
    BY <1>1 DEF Hits
  <2>2. u[k - 1] = s[k]
    BY <1>1, <2>1
  <2> QED
    BY <2>1, <2>2 DEF Hits
<1>5. Hits(s, A) # {} <=> Head(s) \in A \/ Hits(u, A) # {}
  BY <1>2, <1>3, <1>4
<1>6. ASSUME Single(s, A)
      PROVE  Single(u, A) /\ (Head(s) \in A => Hits(u, A) = {})
  <2>1. Single(u, A)
    <3> SUFFICES ASSUME NEW j \in Hits(u, A), NEW k \in Hits(u, A) PROVE j = k
      BY DEF Single
    <3>1. j + 1 = k + 1 /\ j \in Nat /\ k \in Nat
      BY <1>2, <1>6 DEF Single
    <3> QED
      BY <3>1
  <2>2. ASSUME Head(s) \in A, NEW k \in Hits(u, A)
        PROVE  FALSE
    <3>1. k + 1 = 1 /\ k \in Nat \ {0}
      BY <1>2, <1>3, <1>6, <2>2 DEF Single
    <3> QED
      BY <3>1
  <2> QED
    BY <2>1, <2>2
<1> QED
  BY <1>5, <1>6 DEF u

\* The first element replaced by a sequence.
LEMMA HitsReplaced ==
  ASSUME NEW S, NEW s \in Seq(S), s # <<>>, NEW items \in Seq(S), NEW A
  PROVE  LET u == items \o Tail(s)
         IN  /\ Hits(u, A) # {} <=> Hits(items, A) # {} \/ Hits(Tail(s), A) # {}
             /\ Hits(s, A) # {} <=> Head(s) \in A \/ Hits(Tail(s), A) # {}
             /\ Single(s, A) /\ Head(s) \in A => Hits(Tail(s), A) = {}
             /\ Single(s, A) /\ Single(items, A) /\ (Hits(items, A) # {} => Head(s) \in A)
                  => Single(u, A)
<1> DEFINE w == Tail(s)
           u == items \o w
<1>1. w \in Seq(S)
  OBVIOUS
<1> HIDE DEF w
<1>2. /\ Hits(u, A) # {} <=> Hits(items, A) # {} \/ Hits(w, A) # {}
      /\ Single(items, A) /\ Hits(w, A) = {} => Single(u, A)
      /\ Hits(items, A) = {} /\ Single(w, A) => Single(u, A)
  BY <1>1, HitsJoined
<1> HIDE DEF u
<1>3. /\ Hits(s, A) # {} <=> Head(s) \in A \/ Hits(w, A) # {}
      /\ Single(s, A) => Single(w, A) /\ (Head(s) \in A => Hits(w, A) = {})
  BY HitsSplit DEF w
<1>4. /\ Hits(u, A) # {} <=> Hits(items, A) # {} \/ Hits(w, A) # {}
      /\ Hits(s, A) # {} <=> Head(s) \in A \/ Hits(w, A) # {}
      /\ Single(s, A) /\ Head(s) \in A => Hits(w, A) = {}
      /\ Single(s, A) /\ Single(items, A) /\ (Hits(items, A) # {} => Head(s) \in A)
           => Single(u, A)
  BY <1>2, <1>3, Zenon
<1> QED
  BY <1>4 DEF u, w

-----------------------------------------------------------------------------
(***************************************************************************)
(* What an item of the walk still has to find on machine m.                *)
(***************************************************************************)
\* The functions to be reported, and those a set of functions leads to.
Fns(m) == {f \in DOMAIN m.functions : Answers(m, f) /\ f \notin Bridges(m)}

Owes(m, F) ==
  {g \in Fns(m) : g \in F \/ \E f \in Bridges(m) :
                               f \in F /\ g[1] \in Below(m, {m.functions[f].secondary})}

\* The functions that answer when an item is visited.
Asked(m, i) ==
  {f \in DOMAIN m.functions :
     /\ Answers(m, f)
     /\ \/ i.kind = "region" /\ f[1] \in FirstBuses(m)
        \/ i.kind = "device" /\ f[1] = i.f[1] /\ f[2] = i.f[2]
        \/ i.kind = "function" /\ f = i.f}

Owed(m, i) == Owes(m, Asked(m, i))

\* The items that lead to f being found, joined to the output or initialised as
\* a controller.
Claims(m, task, f) ==
  {i \in Items(m) : \/ f \in Owed(m, i)
                    \/ task = "join" /\ i.kind \in {"serial", "join"} /\ i.f = f
                    \/ task = "control" /\ i.kind = "sata" /\ i.f = f}

OnBuses(m, B) == {f \in DOMAIN m.functions : Answers(m, f) /\ f[1] \in B}

\* The functions on a set of buses lead to all that is below.
LEMMA OwesBuses ==
  ASSUME NEW m \in Machines, NEW B \in SUBSET Nat
  PROVE  Owes(m, OnBuses(m, B)) = {g \in Fns(m) : g[1] \in Below(m, B)}
<1> DEFINE F == OnBuses(m, B)
<1>1. ASSUME NEW g \in Fns(m)
      PROVE  g \in Owes(m, F) <=> g[1] \in Below(m, B)
  <2>1. g \in F <=> g[1] \in B
    BY DEF Fns, OnBuses
  <2>2. \A f \in Bridges(m) : f \in F <=> f[1] \in B
    BY DEF Bridges, OnBuses
  <2>3. g[1] \in Below(m, B) <=>
          \/ g[1] \in B
          \/ \E f \in Bridges(m) : /\ f[1] \in B
                                   /\ g[1] \in Below(m, {m.functions[f].secondary})
    BY BelowSplit
  <2> HIDE DEF F
  <2> QED
    BY <2>1, <2>2, <2>3 DEF Owes
<1> QED
  BY <1>1 DEF Owes

\* In a tree, functions on one bus lead to different functions.
LEMMA OwesApart ==
  ASSUME NEW m \in Machines, Tree(m), NEW b, NEW F, NEW G, F \cap G = {},
         F \subseteq OnBuses(m, {b}), G \subseteq OnBuses(m, {b})
  PROVE  Owes(m, F) \cap Owes(m, G) = {}
<1> DEFINE sec(f) == m.functions[f].secondary
<1> SUFFICES ASSUME NEW g \in Owes(m, F), g \in Owes(m, G) PROVE FALSE
  OBVIOUS
<1>1. \A f \in F \cup G : f[1] = b
  BY DEF OnBuses
<1>2. g \in Fns(m) /\ (g \in F \/ \E f \in Bridges(m) : f \in F /\ g[1] \in Below(m, {sec(f)}))
  BY DEF Owes
<1>3. g \in G \/ \E f \in Bridges(m) : f \in G /\ g[1] \in Below(m, {sec(f)})
  BY DEF Owes
<1>4. \A f \in Bridges(m) : f[1] \in Nat /\ \A x \in Below(m, {sec(f)}) : f[1] < x
  BY BelowInTree, BridgeFacts
<1> HIDE DEF sec
<1>5. ASSUME NEW f \in Bridges(m), f \in F \cup G, g \in F \cup G
      PROVE  g[1] \notin Below(m, {sec(f)})
  <2>1. f[1] = b /\ g[1] = b /\ b \in Nat
    BY <1>1, <1>4, <1>5
  <2>2. \A x \in Below(m, {sec(f)}) : b < x
    BY <1>4, <2>1
  <2>3. ~(b < b)
    BY <2>1
  <2> QED
    BY <2>1, <2>2, <2>3
<1>6. PICK f \in Bridges(m) : f \in F /\ g[1] \in Below(m, {sec(f)})
  BY <1>2, <1>3, <1>5
<1>7. PICK h \in Bridges(m) : h \in G /\ g[1] \in Below(m, {sec(h)})
  BY <1>2, <1>3, <1>5
<1>8. f # h /\ f[1] = h[1]
  BY <1>1, <1>6, <1>7
<1>9. Below(m, {sec(f)}) \cap Below(m, {sec(h)}) = {}
  BY <1>8, BelowInTree DEF sec
<1> QED
  BY <1>6, <1>7, <1>9

\* Items that together ask the functions another item asks.
LEMMA OwedTogether ==
  ASSUME NEW m, NEW F, NEW items,
         \A f : f \in F <=> \E k \in 1 .. Len(items) : f \in Asked(m, items[k])
  PROVE  \A g : g \in Owes(m, F) <=> \E k \in 1 .. Len(items) : g \in Owed(m, items[k])
<1> TAKE g
<1>1. ASSUME g \in Owes(m, F)
      PROVE  \E k \in 1 .. Len(items) : g \in Owed(m, items[k])
  BY <1>1, Zenon DEF Owes, Owed
<1>2. ASSUME NEW k \in 1 .. Len(items), g \in Owed(m, items[k])
      PROVE  g \in Owes(m, F)
  BY <1>2, Zenon DEF Owes, Owed
<1> QED
  BY <1>1, <1>2

-----------------------------------------------------------------------------
(***************************************************************************)
(* What the visits leave to do.                                            *)
(***************************************************************************)
Printing(s) == \A k \in 1 .. Len(s) : s[k].kind = "print"

\* items are owed what i was owed.
Replaces(m, items, i) ==
  \A g : g \in Owed(m, i) <=> \E k \in 1 .. Len(items) : g \in Owed(m, items[k])

\* No function is owed to two of them.
Apart(m, items) ==
  \A j, k \in 1 .. Len(items) : j # k => Owed(m, items[j]) \cap Owed(m, items[k]) = {}

\* Where the items of a walk over a regular machine are.
ItemSound(m, i) ==
  /\ i.kind = "region" => i.f = Host(m)
  /\ i.kind = "device" => i.f[1] \in Reachable(m) /\ i.f[3] = 0
  /\ i.kind = "function" =>
       /\ i.f[1] \in Reachable(m) /\ <<i.f[1], i.f[2], 0>> \in DOMAIN m.functions
       /\ i.f[3] > 0 => m.functions[<<i.f[1], i.f[2], 0>>].multi

\* On the buses the walk reaches it sees the functions the machine has.
LEMMA RegularFacts ==
  ASSUME NEW m \in Machines, Regular(m)
  PROVE  /\ FirstBuses(m) \in SUBSET Nat /\ FirstBuses(m) \subseteq Reachable(m)
         /\ Reachable(m) \in SUBSET Nat /\ Closed(m, Reachable(m))
         /\ \A g : g \in Owes(m, OnBuses(m, FirstBuses(m))) <=>
                     g \in Fns(m) /\ g[1] \in Reachable(m)
         /\ \A f : f[1] \in Reachable(m) =>
                     Header(m, f) = IF f \in DOMAIN m.functions THEN m.functions[f] ELSE <<>>
         /\ Host(m) \in DOMAIN m.functions /\ Host(m) = <<0, 0, 0>>
<1>1. FirstBuses(m) \in SUBSET Nat
  BY DevicesAssumption DEF FirstBuses
<1>2. Reachable(m) = Below(m, FirstBuses(m))
  BY ReachableBelow
<1>3. /\ FirstBuses(m) \subseteq Reachable(m)
      /\ Reachable(m) \in SUBSET Nat /\ Closed(m, Reachable(m))
  BY <1>1, <1>2, BelowLeast
<1>4. \A g : g \in Owes(m, OnBuses(m, FirstBuses(m))) <=>
               g \in Fns(m) /\ g[1] \in Reachable(m)
  BY <1>1, <1>2, OwesBuses
<1>5. ASSUME NEW f, f[1] \in Reachable(m)
      PROVE  Header(m, f) = IF f \in DOMAIN m.functions THEN m.functions[f] ELSE <<>>
  BY <1>5 DEF Regular, Header
<1>6. Host(m) \in DOMAIN m.functions /\ Host(m) = <<0, 0, 0>>
  BY DEF Regular, Host
<1> QED
  BY <1>1, <1>3, <1>4, <1>5, <1>6

\* A function that answers is on the device its function 0 is on.
LEMMA AnswersFacts ==
  ASSUME NEW m \in Machines, NEW f \in DOMAIN m.functions, Answers(m, f)
  PROVE  /\ f = <<f[1], f[2], f[3]>> /\ f[1] \in Nat
         /\ f[2] \in 0 .. DevicesPerBus - 1 /\ f[3] \in 0 .. FunctionsPerDevice - 1
         /\ <<f[1], f[2], 0>> \in DOMAIN m.functions
         /\ f[3] > 0 => m.functions[<<f[1], f[2], 0>>].multi
<1>1. f \in Places /\ f[2] \in 0 .. DevicesPerBus - 1 /\ f[3] \in 0 .. FunctionsPerDevice - 1
  BY MachineFacts
<1>2. f = <<f[1], f[2], f[3]>> /\ f[1] \in Nat
  BY <1>1 DEF Places
<1>3. /\ <<f[1], f[2], 0>> \in DOMAIN m.functions
      /\ f[3] > 0 => m.functions[<<f[1], f[2], 0>>].multi
  BY DEF Answers
<1> QED
  BY <1>1, <1>2, <1>3

\* Items on one bus that ask different functions.
LEMMA ApartOnOneBus ==
  ASSUME NEW m \in Machines, Tree(m), NEW items, NEW b,
         \A k \in 1 .. Len(items) : Asked(m, items[k]) \subseteq OnBuses(m, {b}),
         \A j, k \in 1 .. Len(items) :
           j # k => Asked(m, items[j]) \cap Asked(m, items[k]) = {}
  PROVE  Apart(m, items)
<1> SUFFICES ASSUME NEW j \in 1 .. Len(items), NEW k \in 1 .. Len(items), j # k
             PROVE  Owed(m, items[j]) \cap Owed(m, items[k]) = {}
  BY Zenon DEF Apart
<1> DEFINE F == Asked(m, items[j])
           G == Asked(m, items[k])
<1>1. F \cap G = {} /\ F \subseteq OnBuses(m, {b}) /\ G \subseteq OnBuses(m, {b})
  OBVIOUS
<1> HIDE DEF F, G
<1>2. Owes(m, F) \cap Owes(m, G) = {}
  BY <1>1, OwesApart
<1> QED
  BY <1>2 DEF F, G, Owed


\* Only regions, devices and functions are owed functions.
LEMMA NothingOwed ==
  ASSUME NEW m, NEW i, Asked(m, i) = {}
  PROVE  Owed(m, i) = {}
BY Zenon DEF Owed, Owes

\* Devices are numbered bus by bus.
LEMMA Numbering ==
  ASSUME NEW D \in Nat \ {0}, NEW n \in Nat
  PROVE  /\ \A k \in 1 .. n * D : (k - 1) \div D \in 0 .. n - 1 /\ (k - 1) % D \in 0 .. D - 1
         /\ \A q \in 0 .. n - 1, r \in 0 .. D - 1 :
              \E k \in 1 .. n * D : (k - 1) \div D = q /\ (k - 1) % D = r
         /\ \A j, k \in 1 .. n * D :
              (j - 1) \div D = (k - 1) \div D /\ (j - 1) % D = (k - 1) % D => j = k
<1>0. n * D \in Nat
  OBVIOUS
<1>1. ASSUME NEW k \in 1 .. n * D
      PROVE  /\ (k - 1) \div D \in 0 .. n - 1 /\ (k - 1) % D \in 0 .. D - 1
             /\ k - 1 = ((k - 1) \div D) * D + ((k - 1) % D)
  <2> DEFINE a == k - 1
             q == a \div D
             r == a % D
  <2>1. a \in Nat /\ a < n * D
    BY <1>0
  <2> HIDE DEF a
  <2>2. q \in Nat /\ q * D \in Nat /\ q * D <= a
    BY <2>1, DivFacts
  <2>3. r \in 0 .. D - 1
    BY <2>1
  <2> HIDE DEF q, r
  <2>4. a = q * D + r
    BY <2>1, <2>2, <2>3, DivModFacts DEF q, r
  <2>5. q < n
    <3> SUFFICES ASSUME n <= q PROVE FALSE
      BY <2>2
    <3>1. (q - n) \in Nat /\ (q - n) * D \in Nat
      BY <2>2
    <3>2. q * D = n * D + (q - n) * D
      BY <2>2
    <3> QED
      BY <1>0, <2>1, <2>2, <3>1, <3>2
  <2> QED
    BY <2>2, <2>3, <2>4, <2>5 DEF a, q, r
<1>2. ASSUME NEW q \in 0 .. n - 1, NEW r \in 0 .. D - 1
      PROVE  \E k \in 1 .. n * D : (k - 1) \div D = q /\ (k - 1) % D = r
  <2> DEFINE b == q * D + r
  <2>1. q * D + D <= n * D /\ q * D \in Nat
    BY MultiplesApart
  <2>2. b \in Nat /\ b + 1 \in 1 .. n * D /\ (b + 1) - 1 = b
    BY <1>0, <2>1
  <2>3. Composed(b, q, D, r) /\ q \in Nat /\ r \in Nat
    BY DEF Composed
  <2> HIDE DEF b
  <2>4. b \div D = q + r \div D /\ b % D = r % D
    BY <2>3, DivAdd
  <2>5. r \div D = 0 /\ r % D = r
    <3>1. r \div D \in Nat
      BY <2>3, DivFacts
    <3>2. 1 * D <= r <=> 1 <= r \div D
      BY <2>3, QuotientAtLeast
    <3>3. ~(1 * D <= r)
      OBVIOUS
    <3>4. r % D = r
      OBVIOUS
    <3> QED
      BY <3>1, <3>2, <3>3, <3>4
  <2>6. b \div D = q /\ b % D = r
    BY <2>4, <2>5
  <2>7. PICK k \in 1 .. n * D : k - 1 = b
    BY <2>2
  <2> QED
    BY <2>6, <2>7, Zenon
<1>3. ASSUME NEW j \in 1 .. n * D, NEW k \in 1 .. n * D,
             (j - 1) \div D = (k - 1) \div D, (j - 1) % D = (k - 1) % D
      PROVE  j = k
  <2>1. j - 1 = k - 1
    BY <1>1, <1>3
  <2> QED
    BY <2>1
<1> QED
  BY <1>1, <1>2, <1>3

\* The host bridge of the one region.
LEMMA RegionVisit ==
  ASSUME NEW m \in Machines, Regular(m), NEW i, i.kind = "region", ItemSound(m, i)
  PROVE  LET h == Header(m, i.f)
             items == HostItems(IF h.multi THEN HostBuses ELSE 1)
         IN  /\ h # <<>>
             /\ Replaces(m, items, i)
             /\ \A k \in 1 .. Len(items) : items[k].kind = "device" /\ ItemSound(m, items[k])
             /\ Tree(m) /\ ~m.functions[Host(m)].multi => Apart(m, items)
<1> DEFINE n == IF m.functions[Host(m)].multi THEN HostBuses ELSE 1
           D == DevicesPerBus
           items == HostItems(n)
           bus(k) == (k - 1) \div D
           dev(k) == (k - 1) % D
<1>1. i.f = Host(m) /\ Host(m) \in DOMAIN m.functions
  BY RegularFacts DEF ItemSound
<1>2. Host(m) = <<0, 0, 0>> /\ 0 \in FirstBuses(m)
  BY RegularFacts, DevicesAssumption DEF FirstBuses
<1>3. Header(m, i.f) = m.functions[Host(m)] /\ m.functions[Host(m)] # <<>>
  <2>1. Host(m)[1] = 0
    BY <1>2
  <2>2. i.f[1] \in Reachable(m)
    BY <1>1, <1>2, <2>1, RegularFacts
  <2> QED
    BY <1>1, <2>2, RegularFacts, MachineFacts
<1>4. D \in Nat \ {0} /\ n \in Nat
  <2>1. Host(m)[2] \in 0 .. D - 1
    BY <1>1, MachineFacts
  <2>2. D \in Nat /\ HostBuses \in Nat
    BY DevicesAssumption
  <2> QED
    BY <1>2, <2>1, <2>2
<1>5. FirstBuses(m) = 0 .. n - 1
  BY DEF FirstBuses
<1> HIDE DEF D, n
<1>6. n * D \in Nat
  BY <1>4
<1>7. /\ Len(items) = n * D
      /\ \A k \in 1 .. n * D : items[k] = Item("device", <<bus(k), dev(k), 0>>, 1)
  BY <1>6 DEF HostItems, D
<1>8. /\ \A k \in 1 .. n * D : bus(k) \in 0 .. n - 1
      /\ \A q \in 0 .. n - 1, r \in 0 .. D - 1 :
           \E k \in 1 .. n * D : bus(k) = q /\ dev(k) = r
      /\ \A j, k \in 1 .. n * D : bus(j) = bus(k) /\ dev(j) = dev(k) => j = k
  BY <1>4, Numbering
<1> HIDE DEF items, bus, dev
<1>9. \A k \in 1 .. Len(items) :
        /\ items[k].kind = "device" /\ items[k].f = <<bus(k), dev(k), 0>>
        /\ items[k].f[1] = bus(k) /\ items[k].f[2] = dev(k) /\ items[k].f[3] = 0
  BY <1>7 DEF Item
<1>10. ASSUME NEW k \in 1 .. Len(items)
       PROVE  Asked(m, items[k]) =
                {f \in DOMAIN m.functions :
                   Answers(m, f) /\ f[1] = bus(k) /\ f[2] = dev(k)}
  BY <1>9, Zenon DEF Asked
<1>11. \A f : f \in OnBuses(m, FirstBuses(m)) <=>
                 \E k \in 1 .. Len(items) : f \in Asked(m, items[k])
  <2> TAKE f
  <2>1. ASSUME f \in OnBuses(m, FirstBuses(m))
        PROVE  \E k \in 1 .. Len(items) : f \in Asked(m, items[k])
    <3>1. f \in DOMAIN m.functions /\ Answers(m, f) /\ f[1] \in 0 .. n - 1
      BY <1>5, <2>1 DEF OnBuses
    <3>2. f[2] \in 0 .. D - 1
      BY <3>1, AnswersFacts DEF D
    <3>3. PICK k \in 1 .. n * D : bus(k) = f[1] /\ dev(k) = f[2]
      BY <1>8, <3>1, <3>2
    <3> QED
      BY <1>7, <1>10, <3>1, <3>3
  <2>2. ASSUME NEW k \in 1 .. Len(items), f \in Asked(m, items[k])
        PROVE  f \in OnBuses(m, FirstBuses(m))
    BY <1>5, <1>7, <1>8, <1>10, <2>2 DEF OnBuses
  <2> QED
    BY <2>1, <2>2
<1>12. Asked(m, i) = OnBuses(m, FirstBuses(m))
  BY DEF Asked, OnBuses
<1>13. Replaces(m, items, i)
  BY <1>11, <1>12, OwedTogether DEF Replaces, Owed
<1>14. \A k \in 1 .. Len(items) : items[k].kind = "device" /\ ItemSound(m, items[k])
  <2> TAKE k \in 1 .. Len(items)
  <2>1. bus(k) \in Reachable(m)
    BY <1>5, <1>7, <1>8, RegularFacts
  <2> QED
    BY <1>9, <2>1, Zenon DEF ItemSound
<1>15. ASSUME Tree(m), ~m.functions[Host(m)].multi
       PROVE  Apart(m, items)
  <2>1. n = 1
    BY <1>15 DEF n
  <2>2. \A k \in 1 .. Len(items) : Asked(m, items[k]) \subseteq OnBuses(m, {0})
    <3>1. \A k \in 1 .. Len(items) : bus(k) = 0
      BY <1>7, <1>8, <2>1
    <3> QED
      BY <1>10, <3>1 DEF OnBuses
  <2>3. \A j, k \in 1 .. Len(items) :
          j # k => Asked(m, items[j]) \cap Asked(m, items[k]) = {}
    BY <1>7, <1>8, <1>10
  <2> QED
    BY <1>15, <2>2, <2>3, ApartOnOneBus
<1>16. HostItems(IF Header(m, i.f).multi THEN HostBuses ELSE 1) = items
  BY <1>3 DEF items, n
<1> QED
  BY <1>3, <1>13, <1>14, <1>15, <1>16, Zenon


LEMMA NothingReplaces ==
  ASSUME NEW m, NEW i, Asked(m, i) = {}
  PROVE  Replaces(m, <<>>, i) /\ Apart(m, <<>>)
<1>1. Len(<<>>) = 0 /\ 1 .. 0 = {}
  OBVIOUS
<1>2. Owed(m, i) = {}
  BY NothingOwed
<1> QED
  BY <1>1, <1>2, Zenon DEF Replaces, Apart

\* A device, if its function 0 is there.
LEMMA DeviceVisit ==
  ASSUME NEW m \in Machines, Regular(m), NEW i \in Items(m), i.kind = "device",
         ItemSound(m, i)
  PROVE  LET h == Header(m, i.f)
             items == IF h = <<>> THEN <<>> ELSE DeviceItems(i.f, h.multi, i.depth)
         IN  /\ Replaces(m, items, i)
             /\ \A k \in 1 .. Len(items) : items[k].kind = "function" /\ ItemSound(m, items[k])
             /\ Tree(m) => Apart(m, items)
<1> DEFINE h == Header(m, i.f)
           a == i.f[1]
           b == i.f[2]
           n == IF h.multi THEN FunctionsPerDevice ELSE 1
           items == DeviceItems(i.f, h.multi, i.depth)
<1>1. i.f \in Places /\ i.f[3] = 0 /\ a \in Reachable(m)
  BY ItemMeans DEF ItemSound, WalkKinds
<1>2. i.f = <<a, b, 0>>
  BY <1>1 DEF Places
<1>3. h = IF i.f \in DOMAIN m.functions THEN m.functions[i.f] ELSE <<>>
  BY <1>1, RegularFacts
<1>4. Asked(m, i) = {f \in DOMAIN m.functions : Answers(m, f) /\ f[1] = a /\ f[2] = b}
  BY Zenon DEF Asked
<1> HIDE DEF h, a, b, items
<1>5. CASE h = <<>>
  <2>1. i.f \notin DOMAIN m.functions
    BY <1>3, <1>5, MachineFacts
  <2>2. Asked(m, i) = {}
    <3> SUFFICES ASSUME NEW f \in Asked(m, i) PROVE FALSE
      OBVIOUS
    <3>1. f \in DOMAIN m.functions /\ Answers(m, f) /\ f[1] = a /\ f[2] = b
      BY <1>4
    <3>2. <<a, b, 0>> \in DOMAIN m.functions
      BY <3>1, AnswersFacts
    <3> QED
      BY <1>2, <2>1, <3>2
  <2>3. Replaces(m, <<>>, i) /\ Apart(m, <<>>) /\ Len(<<>>) = 0
    BY <2>2, NothingReplaces
  <2>4. \A k \in 1 .. Len(<<>>) : FALSE
    BY <2>3
  <2> QED
    BY <1>5, <2>3, <2>4, Zenon DEF h
<1>6. CASE h # <<>>
  <2>1. /\ <<a, b, 0>> \in DOMAIN m.functions /\ h = m.functions[<<a, b, 0>>]
        /\ h.multi \in BOOLEAN
    <3>1. i.f \in DOMAIN m.functions /\ h = m.functions[i.f]
      BY <1>3, <1>6
    <3> QED
      BY <1>2, <3>1, MachineFacts
  <2>2. n \in Nat /\ n > 0
    BY DevicesAssumption
  <2> HIDE DEF n
  <2>3. /\ Len(items) = n
        /\ \A k \in 1 .. n : items[k] = Item("function", <<a, b, k - 1>>, i.depth)
    BY <2>2 DEF items, DeviceItems, a, b, n
  <2>4. \A k \in 1 .. n : /\ items[k].kind = "function" /\ items[k].f = <<a, b, k - 1>>
                          /\ items[k].f[1] = a /\ items[k].f[2] = b /\ items[k].f[3] = k - 1
    BY <2>3 DEF Item
  <2>5. ASSUME NEW k \in 1 .. n
        PROVE  Asked(m, items[k]) =
                 {f \in DOMAIN m.functions : Answers(m, f) /\ f = <<a, b, k - 1>>}
    BY <2>4, Zenon DEF Asked
  <2>6. \A f : f \in Asked(m, i) <=> \E k \in 1 .. Len(items) : f \in Asked(m, items[k])
    <3> TAKE f
    <3>1. ASSUME f \in Asked(m, i)
          PROVE  \E k \in 1 .. Len(items) : f \in Asked(m, items[k])
      <4>1. f \in DOMAIN m.functions /\ Answers(m, f) /\ f[1] = a /\ f[2] = b
        BY <1>4, <3>1
      <4>2. /\ f = <<a, b, f[3]>> /\ f[3] \in 0 .. FunctionsPerDevice - 1
            /\ f[3] > 0 => h.multi
        BY <2>1, <4>1, AnswersFacts
      <4>3. f[3] \in 0 .. n - 1
        BY <2>2, <4>2 DEF n
      <4>4. PICK k \in 1 .. n : k - 1 = f[3]
        BY <2>2, <4>3
      <4>5. f = <<a, b, k - 1>>
        BY <4>2, <4>4
      <4>6. f \in Asked(m, items[k])
        BY <2>5, <4>1, <4>5
      <4> QED
        BY <2>3, <4>6
    <3>2. ASSUME NEW k \in 1 .. Len(items), f \in Asked(m, items[k])
          PROVE  f \in Asked(m, i)
      <4>1. f \in DOMAIN m.functions /\ Answers(m, f) /\ f = <<a, b, k - 1>>
        BY <2>3, <2>5, <3>2
      <4>2. f[1] = a /\ f[2] = b
        BY <4>1
      <4> QED
        BY <1>4, <4>1, <4>2
    <3> QED
      BY <3>1, <3>2
  <2>7. Replaces(m, items, i)
    BY <2>6, OwedTogether DEF Replaces, Owed
  <2>8. \A k \in 1 .. Len(items) : items[k].kind = "function" /\ ItemSound(m, items[k])
    <3> SUFFICES ASSUME NEW k \in 1 .. n
                 PROVE  items[k].kind = "function" /\ ItemSound(m, items[k])
      BY <2>3
    <3>1. k - 1 > 0 => h.multi
      BY <2>2 DEF n
    <3>2. m.functions[<<items[k].f[1], items[k].f[2], 0>>] = h
      BY <2>1, <2>4
    <3> QED
      BY <1>1, <2>1, <2>4, <3>1, <3>2 DEF ItemSound
  <2>9. ASSUME Tree(m)
        PROVE  Apart(m, items)
    <3>1. \A k \in 1 .. Len(items) : Asked(m, items[k]) \subseteq OnBuses(m, {a})
      BY <2>3, <2>5 DEF OnBuses
    <3>2. ASSUME NEW j \in 1 .. Len(items), NEW k \in 1 .. Len(items), j # k
          PROVE  Asked(m, items[j]) \cap Asked(m, items[k]) = {}
      <4>1. <<a, b, j - 1>> # <<a, b, k - 1>>
        BY <2>2, <2>3, <3>2
      <4> QED
        BY <2>3, <2>5, <4>1
    <3> QED
      BY <2>9, <3>1, <3>2, ApartOnOneBus
  <2> QED
    BY <1>6, <2>7, <2>8, <2>9, Zenon DEF h, items
<1> QED
  BY <1>5, <1>6

\* A function: it is not there, leads to another bus, or is reported.
LEMMA FunctionVisit ==
  ASSUME NEW m \in Machines, Regular(m), NEW i \in Items(m), i.kind = "function",
         ItemSound(m, i)
  PROVE  /\ Header(m, i.f) = <<>> => Replaces(m, <<>>, i)
         /\ IsBridge(m, i.f) => i.f \in Bridges(m)
         /\ Header(m, i.f) # <<>> /\ ~IsBridge(m, i.f) => Owed(m, i) = {i.f} /\ i.f \in Fns(m)
<1>1. i.f \in Places /\ i.f[1] \in Reachable(m)
  BY ItemMeans DEF ItemSound, WalkKinds
<1>2. Asked(m, i) = {f \in DOMAIN m.functions : Answers(m, f) /\ f = i.f}
  BY Zenon DEF Asked
<1>3. Header(m, i.f) = IF i.f \in DOMAIN m.functions THEN m.functions[i.f] ELSE <<>>
  BY <1>1, RegularFacts
<1>4. CASE i.f \notin DOMAIN m.functions
  <2>1. Asked(m, i) = {}
    BY <1>2, <1>4
  <2> QED
    BY <1>3, <1>4, <2>1, NothingReplaces DEF IsBridge
<1>5. CASE i.f \in DOMAIN m.functions
  <2>1. Header(m, i.f) = m.functions[i.f] /\ m.functions[i.f] # <<>>
    BY <1>3, <1>5, MachineFacts
  <2>2. Answers(m, i.f)
    BY <1>1, <1>5 DEF Answers, ItemSound, Regular
  <2>3. Asked(m, i) = {i.f}
    BY <1>2, <1>5, <2>2
  <2>4. IsBridge(m, i.f) <=> i.f \in Bridges(m)
    BY <1>5, <2>1, <2>2 DEF IsBridge, Bridges
  <2>5. ASSUME ~IsBridge(m, i.f)
        PROVE  Owed(m, i) = {i.f} /\ i.f \in Fns(m)
    <3>1. i.f \in Fns(m) /\ i.f \notin Bridges(m)
      BY <1>5, <2>2, <2>4, <2>5 DEF Fns
    <3>2. Owed(m, i) = Owes(m, {i.f})
      BY <2>3 DEF Owed
    <3>3. Owes(m, {i.f}) = {i.f}
      BY <3>1 DEF Owes
    <3> QED
      BY <3>1, <3>2, <3>3
  <2> QED
    BY <2>1, <2>4, <2>5
<1> QED
  BY <1>4, <1>5

\* A bridge.
LEMMA BridgeVisit ==
  ASSUME NEW m \in Machines, Regular(m), NEW i \in Items(m), i.kind = "function",
         ItemSound(m, i), IsBridge(m, i.f), NEW depth
  PROVE  LET items == BusItems(BehindBridge(m, i.f), depth)
         IN  /\ Replaces(m, items, i)
             /\ \A k \in 1 .. Len(items) : items[k].kind = "device" /\ ItemSound(m, items[k])
             /\ Tree(m) => Apart(m, items)
<1> DEFINE D == DevicesPerBus
           sec == BehindBridge(m, i.f)
           items == BusItems(sec, depth)
<1>1. i.f \in Bridges(m) /\ i.f[1] \in Reachable(m)
  BY FunctionVisit DEF ItemSound
<1>2. i.f \in DOMAIN m.functions /\ Answers(m, i.f) /\ sec = m.functions[i.f].secondary
  BY <1>1, BridgeFacts, RegularFacts DEF BehindBridge
<1>3. sec \in Nat /\ sec \in Reachable(m)
  BY <1>1, <1>2, BridgeFacts, RegularFacts DEF Closed
<1>4. D \in Nat
  BY DevicesAssumption
<1> HIDE DEF sec
<1>5. /\ Len(items) = D
      /\ \A k \in 1 .. D : items[k] = Item("device", <<sec, k - 1, 0>>, depth)
  BY <1>4 DEF BusItems
<1> HIDE DEF items, D
<1>6. \A k \in 1 .. D : /\ items[k].kind = "device" /\ items[k].f = <<sec, k - 1, 0>>
                        /\ items[k].f[1] = sec /\ items[k].f[2] = k - 1 /\ items[k].f[3] = 0
  BY <1>5 DEF Item
<1>7. ASSUME NEW k \in 1 .. D
      PROVE  Asked(m, items[k]) =
               {f \in DOMAIN m.functions : Answers(m, f) /\ f[1] = sec /\ f[2] = k - 1}
  BY <1>6, Zenon DEF Asked
<1>8. \A f : f \in OnBuses(m, {sec}) <=> \E k \in 1 .. Len(items) : f \in Asked(m, items[k])
  <2> TAKE f
  <2>1. ASSUME f \in OnBuses(m, {sec})
        PROVE  \E k \in 1 .. Len(items) : f \in Asked(m, items[k])
    <3>1. f \in DOMAIN m.functions /\ Answers(m, f) /\ f[1] = sec
      BY <2>1 DEF OnBuses
    <3>2. f[2] \in 0 .. D - 1
      BY <3>1, AnswersFacts DEF D
    <3>3. PICK k \in 1 .. D : k - 1 = f[2]
      BY <1>4, <3>2 DEF D
    <3> QED
      BY <1>5, <1>7, <3>1, <3>3
  <2>2. ASSUME NEW k \in 1 .. Len(items), f \in Asked(m, items[k])
        PROVE  f \in OnBuses(m, {sec})
    BY <1>5, <1>7, <2>2 DEF OnBuses
  <2> QED
    BY <2>1, <2>2
<1>9. Owed(m, i) = Owes(m, OnBuses(m, {sec}))
  <2>1. Asked(m, i) = {i.f}
    BY <1>2 DEF Asked
  <2>2. {sec} \in SUBSET Nat
    BY <1>3
  <2>3. Owes(m, OnBuses(m, {sec})) = {g \in Fns(m) : g[1] \in Below(m, {sec})}
    BY <2>2, OwesBuses
  <2>4. i.f \notin Fns(m)
    BY <1>1 DEF Fns
  <2>5. Owes(m, {i.f}) = {g \in Fns(m) : g[1] \in Below(m, {sec})}
    BY <1>1, <1>2, <2>4 DEF Owes
  <2> QED
    BY <2>1, <2>3, <2>5 DEF Owed
<1>10. Replaces(m, items, i)
  <2>1. \A g : g \in Owes(m, OnBuses(m, {sec})) <=>
                 \E k \in 1 .. Len(items) : g \in Owed(m, items[k])
    BY <1>8, OwedTogether, Zenon
  <2> QED
    BY <1>9, <2>1, Zenon DEF Replaces
<1>11. \A k \in 1 .. Len(items) : items[k].kind = "device" /\ ItemSound(m, items[k])
  BY <1>3, <1>5, <1>6 DEF ItemSound
<1>12. ASSUME Tree(m)
       PROVE  Apart(m, items)
  <2>1. \A k \in 1 .. Len(items) : Asked(m, items[k]) \subseteq OnBuses(m, {sec})
    BY <1>5, <1>7 DEF OnBuses
  <2>2. ASSUME NEW j \in 1 .. Len(items), NEW k \in 1 .. Len(items), j # k
        PROVE  Asked(m, items[j]) \cap Asked(m, items[k]) = {}
    <3>1. j - 1 # k - 1 /\ j \in 1 .. D /\ k \in 1 .. D
      BY <1>4, <1>5, <2>2 DEF D
    <3> QED
      BY <1>7, <3>1
  <2> QED
    BY <1>12, <2>1, <2>2, ApartOnOneBus
<1> QED
  BY <1>10, <1>11, <1>12 DEF items, sec


-----------------------------------------------------------------------------
(***************************************************************************)
(* The walk: s is the stack, D what is done of a task.                     *)
(***************************************************************************)
Tasks == {"find", "join", "control"}
Walkers == {"region", "device", "function"}

AllSound(m, s) == \A k \in 1 .. Len(s) : ItemSound(m, s[k])

\* What has to be found is found or owed to an item of the stack.
Covers(m, s, D) ==
  \A g : g \in Fns(m) /\ g[1] \in Reachable(m) <=>
           g \in Range(D) \/ Hits(s, Claims(m, "find", g)) # {}

\* No function is done twice, on the stack twice, or on the stack when done.
Once(m, task, s, D) ==
  /\ IsInjective(D)
  /\ \A f \in Places : /\ Single(s, Claims(m, task, f))
                       /\ f \in Range(D) => Hits(s, Claims(m, task, f)) = {}

LEMMA CoversKept ==
  ASSUME NEW m, NEW s \in Seq(Items(m)), s # <<>>, NEW items \in Seq(Items(m)), NEW D,
         Covers(m, s, D),
         \A g : Head(s) \in Claims(m, "find", g) <=> Hits(items, Claims(m, "find", g)) # {}
  PROVE  Covers(m, items \o Tail(s), D)
<1> DEFINE u == items \o Tail(s)
           A(g) == Claims(m, "find", g)
<1> SUFFICES ASSUME NEW g
             PROVE  Hits(u, A(g)) # {} <=> Hits(s, A(g)) # {}
  BY Zenon DEF Covers
<1> DEFINE B == A(g)
<1>1. /\ Hits(u, B) # {} <=> Hits(items, B) # {} \/ Hits(Tail(s), B) # {}
      /\ Hits(s, B) # {} <=> Head(s) \in B \/ Hits(Tail(s), B) # {}
  <2> HIDE DEF B, Items
  <2> QED
    BY HitsReplaced
<1>2. Head(s) \in B <=> Hits(items, B) # {}
  OBVIOUS
<1> QED
  BY <1>1, <1>2, Zenon

LEMMA AppendFacts ==
  ASSUME NEW S, NEW D \in Seq(S), NEW f \in S
  PROVE  /\ Range(Append(D, f)) = Range(D) \cup {f}
         /\ IsInjective(D) /\ f \notin Range(D) => IsInjective(Append(D, f))
<1> DEFINE u == Append(D, f)
           n == Len(D)
<1>1. /\ n \in Nat /\ DOMAIN D = 1 .. n /\ DOMAIN u = 1 .. n + 1
      /\ u[n + 1] = f /\ \A k \in 1 .. n : u[k] = D[k]
  OBVIOUS
<1> HIDE DEF u, n
<1>2. Range(u) = Range(D) \cup {f}
  <2>1. \A k \in DOMAIN u : u[k] \in Range(D) \cup {f}
    <3> TAKE k \in DOMAIN u
    <3>1. k \in 1 .. n \/ k = n + 1
      BY <1>1
    <3> QED
      BY <1>1, <3>1 DEF Range
  <2>2. \A k \in DOMAIN D : D[k] \in Range(u)
    BY <1>1 DEF Range
  <2>3. f \in Range(u)
    <3>1. n + 1 \in DOMAIN u
      BY <1>1
    <3> QED
      BY <1>1, <3>1 DEF Range
  <2> QED
    BY <2>1, <2>2, <2>3 DEF Range
<1>3. ASSUME IsInjective(D), f \notin Range(D)
      PROVE  IsInjective(u)
  <2> SUFFICES ASSUME NEW j \in DOMAIN u, NEW k \in DOMAIN u, u[j] = u[k] PROVE j = k
    BY DEF IsInjective
  <2>1. (j \in 1 .. n \/ j = n + 1) /\ (k \in 1 .. n \/ k = n + 1)
    BY <1>1
  <2>2. \A x \in 1 .. n : u[x] # f
    BY <1>1, <1>3 DEF Range
  <2> QED
    BY <1>1, <1>3, <2>1, <2>2 DEF IsInjective
<1> QED
  BY <1>2, <1>3 DEF u

LEMMA CoversDone ==
  ASSUME NEW m, NEW s \in Seq(Items(m)), s # <<>>, NEW items \in Seq(Items(m)),
         NEW D \in Seq(Places), NEW f \in Places, Covers(m, s, D),
         \A g : Head(s) \in Claims(m, "find", g) <=> g = f,
         \A g : Hits(items, Claims(m, "find", g)) = {}
  PROVE  Covers(m, items \o Tail(s), Append(D, f))
<1> DEFINE u == items \o Tail(s)
           A(g) == Claims(m, "find", g)
<1>1. Range(Append(D, f)) = Range(D) \cup {f}
  <2> HIDE DEF Places
  <2> QED
    BY AppendFacts
<1> SUFFICES ASSUME NEW g
             PROVE  g \in Range(Append(D, f)) \/ Hits(u, A(g)) # {}
                      <=> g \in Range(D) \/ Hits(s, A(g)) # {}
  BY Zenon DEF Covers
<1> DEFINE B == A(g)
<1>2. /\ Hits(u, B) # {} <=> Hits(items, B) # {} \/ Hits(Tail(s), B) # {}
      /\ Hits(s, B) # {} <=> Head(s) \in B \/ Hits(Tail(s), B) # {}
  <2> HIDE DEF B, Items
  <2> QED
    BY HitsReplaced, SMTT(60)
<1>3. (Head(s) \in B <=> g = f) /\ Hits(items, B) = {}
  OBVIOUS
<1> HIDE DEF B, u
<1>4. g \in Range(Append(D, f)) \/ Hits(u, B) # {} <=> g \in Range(D) \/ Hits(s, B) # {}
  BY <1>1, <1>2, <1>3
<1> QED
  BY <1>4 DEF B

LEMMA OnceKept ==
  ASSUME NEW m, NEW task, NEW s \in Seq(Items(m)), s # <<>>, NEW items \in Seq(Items(m)),
         NEW D, Once(m, task, s, D),
         \A f \in Places : /\ Single(items, Claims(m, task, f))
                           /\ Hits(items, Claims(m, task, f)) # {}
                                => Head(s) \in Claims(m, task, f)
  PROVE  Once(m, task, items \o Tail(s), D)
<1> DEFINE u == items \o Tail(s)
           A(f) == Claims(m, task, f)
<1> SUFFICES ASSUME NEW f \in Places
             PROVE  /\ Single(u, A(f))
                    /\ f \in Range(D) => Hits(u, A(f)) = {}
  BY Zenon DEF Once
<1> DEFINE B == A(f)
<1>1. /\ Single(s, B) /\ (f \in Range(D) => Hits(s, B) = {})
      /\ Single(items, B) /\ (Hits(items, B) # {} => Head(s) \in B)
  BY Zenon DEF Once
<1>2. /\ Hits(u, B) # {} <=> Hits(items, B) # {} \/ Hits(Tail(s), B) # {}
      /\ Hits(s, B) # {} <=> Head(s) \in B \/ Hits(Tail(s), B) # {}
      /\ Single(s, B) /\ Single(items, B) /\ (Hits(items, B) # {} => Head(s) \in B)
           => Single(u, B)
  <2> HIDE DEF B, Items
  <2> QED
    BY HitsReplaced
<1> HIDE DEF B, u
<1>3. Single(u, B) /\ (f \in Range(D) => Hits(u, B) = {})
  BY <1>1, <1>2
<1> QED
  BY <1>3 DEF B

LEMMA OnceDone ==
  ASSUME NEW m, NEW task, NEW s \in Seq(Items(m)), s # <<>>, NEW items \in Seq(Items(m)),
         NEW D \in Seq(Places), Once(m, task, s, D),
         \A f \in Places : /\ Single(items, Claims(m, task, f))
                           /\ Hits(items, Claims(m, task, f)) # {}
                                => Head(s) \in Claims(m, task, f),
         NEW g \in Places, Head(s) \in Claims(m, task, g),
         Hits(items, Claims(m, task, g)) = {}
  PROVE  Once(m, task, items \o Tail(s), Append(D, g))
<1> DEFINE u == items \o Tail(s)
           B == Claims(m, task, g)
<1>1. /\ Hits(u, B) # {} <=> Hits(items, B) # {} \/ Hits(Tail(s), B) # {}
      /\ Hits(s, B) # {} <=> Head(s) \in B \/ Hits(Tail(s), B) # {}
      /\ Single(s, B) /\ Head(s) \in B => Hits(Tail(s), B) = {}
  <2> HIDE DEF B, Items
  <2> QED
    BY HitsReplaced
<1>2. Single(s, B) /\ (g \in Range(D) => Hits(s, B) = {})
  BY Zenon DEF Once
<1>3. g \notin Range(D) /\ Hits(u, B) = {}
  BY <1>1, <1>2
<1>4. Once(m, task, u, D)
  BY OnceKept
<1>5. Range(Append(D, g)) = Range(D) \cup {g} /\ IsInjective(Append(D, g))
  <2>1. IsInjective(D)
    BY DEF Once
  <2> HIDE DEF Places
  <2> QED
    BY <1>3, <2>1, AppendFacts
<1> HIDE DEF u
<1>6. ASSUME NEW f \in Places
      PROVE  /\ Single(u, Claims(m, task, f))
             /\ f \in Range(Append(D, g)) => Hits(u, Claims(m, task, f)) = {}
  <2>1. /\ Single(u, Claims(m, task, f))
        /\ f \in Range(D) => Hits(u, Claims(m, task, f)) = {}
    BY <1>4, Zenon DEF Once
  <2>2. CASE f = g
    BY <1>3, <2>1, <2>2, Zenon
  <2>3. CASE f # g
    <3>1. f \in Range(Append(D, g)) => f \in Range(D)
      BY <1>5, <2>3
    <3> QED
      BY <2>1, <3>1, Zenon
  <2> QED
    BY <2>2, <2>3
<1> QED
  BY <1>5, <1>6, Zenon DEF Once, u


\* Who claims a function.
LEMMA ClaimFacts ==
  ASSUME NEW m, NEW i \in Items(m), NEW task \in Tasks, NEW f
  PROVE  /\ i.kind \in Walkers => (i \in Claims(m, task, f) <=> f \in Owed(m, i))
         /\ i.kind = "print" => i \notin Claims(m, task, f)
         /\ i.kind \in {"serial", "join"} =>
              (i \in Claims(m, task, f) <=> task = "join" /\ i.f = f)
         /\ i.kind = "sata" => (i \in Claims(m, task, f) <=> task = "control" /\ i.f = f)
<1>1. i \in Claims(m, task, f) <=>
        \/ f \in Owed(m, i)
        \/ task = "join" /\ i.kind \in {"serial", "join"} /\ i.f = f
        \/ task = "control" /\ i.kind = "sata" /\ i.f = f
  BY Zenon DEF Claims
<1>2. i.kind \notin Walkers => Owed(m, i) = {}
  <2> SUFFICES ASSUME i.kind \notin Walkers PROVE Owed(m, i) = {}
    OBVIOUS
  <2>1. Asked(m, i) = {}
    BY DEF Asked, Walkers
  <2> QED
    BY <2>1, NothingOwed
<1> QED
  BY <1>1, <1>2 DEF Walkers

LEMMA SoundReplaced ==
  ASSUME NEW m, NEW s \in Seq(Items(m)), s # <<>>, NEW items \in Seq(Items(m)),
         AllSound(m, s), AllSound(m, items)
  PROVE  AllSound(m, items \o Tail(s))
<1> DEFINE w == Tail(s)
<1>1. /\ w \in Seq(Items(m)) /\ Len(w) = Len(s) - 1 /\ Len(s) \in Nat
      /\ \A k \in 1 .. Len(w) : w[k] = s[k + 1]
  <2> DEFINE S == Items(m)
  <2> HIDE DEF S
  <2> QED
    BY DEF S
<1> HIDE DEF w
<1>2. \A k \in 1 .. Len(w) : ItemSound(m, w[k])
  <2> TAKE k \in 1 .. Len(w)
  <2>1. k + 1 \in 1 .. Len(s)
    BY <1>1
  <2> QED
    BY <1>1, <2>1, Zenon DEF AllSound
<1> DEFINE u == items \o w
           n == Len(items)
<1>3. /\ n \in Nat /\ Len(w) \in Nat /\ Len(u) = n + Len(w)
      /\ \A k \in 1 .. n : u[k] = items[k]
      /\ \A k \in 1 .. Len(w) : u[n + k] = w[k]
  <2> DEFINE S == Items(m)
  <2>1. items \in Seq(S) /\ w \in Seq(S)
    BY <1>1
  <2> HIDE DEF S
  <2> QED
    BY <2>1
<1> HIDE DEF u, n
<1>4. ASSUME NEW k \in 1 .. Len(u)
      PROVE  ItemSound(m, u[k])
  <2>1. CASE k <= n
    <3>1. k \in 1 .. n
      BY <1>3, <2>1
    <3>2. u[k] = items[k] /\ ItemSound(m, items[k])
      BY <1>3, <3>1, Zenon DEF AllSound, n
    <3> QED
      BY <3>2, Zenon
  <2>2. CASE ~(k <= n)
    <3>1. PICK j \in 1 .. Len(w) : k = n + j
      <4>1. k - n \in 1 .. Len(w) /\ k = n + (k - n)
        BY <1>3, <2>2
      <4> QED
        BY <4>1
    <3> QED
      BY <1>2, <1>3, <3>1, Zenon
  <2> QED
    BY <2>1, <2>2
<1> QED
  BY <1>4, Zenon DEF AllSound, u, w

\* An offer behind a row of text.
LEMMA RowFacts ==
  ASSUME NEW m, NEW row \in Seq(Items(m)), Printing(row),
         NEW offer \in Seq(Items(m)), Len(offer) <= 1
  PROVE  /\ row \o offer \in Seq(Items(m))
         /\ \A task \in Tasks : \A f :
              /\ Single(row \o offer, Claims(m, task, f))
              /\ Hits(row \o offer, Claims(m, task, f)) # {}
                   => Len(offer) = 1 /\ offer[1] \in Claims(m, task, f)
         /\ (\A k \in 1 .. Len(offer) : ItemSound(m, offer[k])) => AllSound(m, row \o offer)
<1> DEFINE S == Items(m)
           u == row \o offer
<1>1. row \in Seq(S) /\ offer \in Seq(S)
  OBVIOUS
<1>2. \A k \in 1 .. Len(row) : row[k] \in S /\ row[k].kind = "print"
  <2>1. \A k \in 1 .. Len(row) : row[k] \in S
    <3> HIDE DEF S
    <3> QED
      BY <1>1
  <2> QED
    BY <2>1, Zenon DEF Printing
<1>3. \A task \in Tasks : \A f : Hits(row, Claims(m, task, f)) = {}
  <2> TAKE task \in Tasks
  <2> TAKE f
  <2>1. \A k \in 1 .. Len(row) : row[k] \notin Claims(m, task, f)
    BY <1>2, ClaimFacts, Zenon
  <2> QED
    BY <2>1, Zenon DEF Hits
<1>4. \A k \in 1 .. Len(row) : ItemSound(m, row[k])
  BY <1>2 DEF ItemSound
<1> HIDE DEF S
<1>5. u \in Seq(S) /\ Len(offer) \in Nat
  BY <1>1, ConcatProperties
<1>6. ASSUME NEW task \in Tasks, NEW f
      PROVE  /\ Single(u, Claims(m, task, f))
             /\ Hits(u, Claims(m, task, f)) # {}
                  => Len(offer) = 1 /\ offer[1] \in Claims(m, task, f)
  <2> DEFINE A == Claims(m, task, f)
  <2>1. Hits(row, A) = {}
    BY <1>3
  <2> HIDE DEF A
  <2>2. \A k \in Hits(offer, A) : k = 1 /\ Len(offer) = 1 /\ offer[k] \in A
    <3> TAKE k \in Hits(offer, A)
    <3>1. k \in 1 .. Len(offer) /\ offer[k] \in A
      BY DEF Hits
    <3>2. \A l \in Nat : l <= 1 /\ k \in 1 .. l => k = 1 /\ l = 1
      OBVIOUS
    <3>3. k = 1 /\ Len(offer) = 1
      BY <1>5, <3>1, <3>2, Zenon
    <3> QED
      BY <3>1, <3>3, Zenon
  <2>3. Single(offer, A)
    BY <2>2 DEF Single
  <2>4. /\ Hits(u, A) # {} <=> Hits(row, A) # {} \/ Hits(offer, A) # {}
        /\ Hits(row, A) = {} /\ Single(offer, A) => Single(u, A)
    BY <1>1, HitsJoined
  <2> HIDE DEF u
  <2>5. Single(u, A) /\ (Hits(u, A) # {} => Len(offer) = 1 /\ offer[1] \in A)
    BY <2>1, <2>2, <2>3, <2>4
  <2> QED
    BY <2>5 DEF A
<1>7. ASSUME \A k \in 1 .. Len(offer) : ItemSound(m, offer[k])
      PROVE  AllSound(m, u)
  <2> DEFINE n == Len(row)
  <2>1. /\ n \in Nat /\ Len(u) = n + Len(offer)
        /\ \A k \in 1 .. n : u[k] = row[k]
        /\ \A k \in 1 .. Len(offer) : u[n + k] = offer[k]
    BY <1>1
  <2> HIDE DEF u, n
  <2>2. ASSUME NEW k \in 1 .. Len(u)
        PROVE  ItemSound(m, u[k])
    <3>1. CASE k <= n
      <4>1. k \in 1 .. n
        BY <2>1, <3>1
      <4> QED
        BY <1>4, <2>1, <4>1, Zenon DEF n
    <3>2. CASE ~(k <= n)
      <4>1. PICK j \in 1 .. Len(offer) : k = n + j
        <5>1. k - n \in 1 .. Len(offer) /\ k = n + (k - n)
          BY <1>5, <2>1, <3>2
        <5> QED
          BY <5>1
      <4> QED
        BY <1>7, <2>1, <4>1, Zenon
    <3> QED
      BY <3>1, <3>2
  <2> QED
    BY <2>2, Zenon DEF AllSound
<1> QED
  BY <1>5, <1>6, <1>7 DEF u, S

\* Printed text asks for nothing.
LEMMA TextPrints ==
  ASSUME NEW c1, NEW c2
  PROVE  Printing(Text(<<c1, c2>>))
<1>1. Len(<<c1, c2>>) = 2
  OBVIOUS
<1>2. Text(<<c1, c2>>) = [i \in 1 .. 2 |-> Item("print", <<c1, c2>>[i], 0)]
  BY <1>1, Zenon DEF Text
<1> QED
  BY <1>2 DEF Printing, Item


\* What the walk over a regular machine keeps: found, outputs and controllers
\* are D, J and C.
WalkHolds(m, s, D, J, C) ==
  Regular(m) =>
    /\ AllSound(m, s) /\ Covers(m, s, D)
    /\ Tree(m) /\ ~m.functions[Host(m)].multi =>
         Once(m, "find", s, D) /\ Once(m, "join", s, J) /\ Once(m, "control", s, C)

\* The visit of i may leave items to do.
Allowed(m, i, items) ==
  Regular(m) =>
    /\ Replaces(m, items, i)
    /\ \A k \in 1 .. Len(items) : items[k].kind \in Walkers /\ ItemSound(m, items[k])
    /\ Tree(m) /\ ~m.functions[Host(m)].multi => Apart(m, items)

\* A region, a device or a bridge is replaced by what is below it.
LEMMA WalkOn ==
  ASSUME NEW m, NEW s \in Seq(Items(m)), s # <<>>, NEW items \in Seq(Items(m)),
         NEW D, NEW J, NEW C, WalkHolds(m, s, D, J, C),
         Head(s).kind \in Walkers, ItemSound(m, Head(s)) => Allowed(m, Head(s), items)
  PROVE  WalkHolds(m, items \o Tail(s), D, J, C)
<1> SUFFICES ASSUME Regular(m)
             PROVE  /\ AllSound(m, items \o Tail(s)) /\ Covers(m, items \o Tail(s), D)
                    /\ Tree(m) /\ ~m.functions[Host(m)].multi =>
                         /\ Once(m, "find", items \o Tail(s), D)
                         /\ Once(m, "join", items \o Tail(s), J)
                         /\ Once(m, "control", items \o Tail(s), C)
  BY Zenon DEF WalkHolds
<1> DEFINE i == Head(s)
<1>1. AllSound(m, s) /\ Covers(m, s, D)
  BY DEF WalkHolds
<1>2. /\ 1 \in 1 .. Len(s) /\ i = s[1] /\ i \in Items(m)
      /\ \A k \in 1 .. Len(items) : items[k] \in Items(m)
  <2> DEFINE S == Items(m)
  <2>1. s \in Seq(S) /\ items \in Seq(S)
    OBVIOUS
  <2> HIDE DEF S
  <2>2. /\ 1 \in 1 .. Len(s) /\ Head(s) = s[1] /\ Head(s) \in S
        /\ \A k \in 1 .. Len(items) : items[k] \in S
    BY <2>1
  <2> QED
    BY <2>2 DEF S
<1> HIDE DEF i
<1>3. ItemSound(m, i)
  BY <1>1, <1>2, Zenon DEF AllSound
<1>4. /\ Replaces(m, items, i)
      /\ \A k \in 1 .. Len(items) : items[k].kind \in Walkers /\ ItemSound(m, items[k])
      /\ Tree(m) /\ ~m.functions[Host(m)].multi => Apart(m, items)
  BY <1>3, Zenon DEF Allowed, i
<1>5. AllSound(m, items \o Tail(s))
  BY <1>1, <1>4, SoundReplaced, Zenon DEF AllSound
<1>6. ASSUME NEW task \in Tasks, NEW f
      PROVE  /\ i \in Claims(m, task, f) <=> Hits(items, Claims(m, task, f)) # {}
             /\ Apart(m, items) => Single(items, Claims(m, task, f))
  <2>1. i \in Claims(m, task, f) <=> f \in Owed(m, i)
    BY <1>2, ClaimFacts, Zenon DEF i
  <2>2. \A k \in 1 .. Len(items) :
          items[k] \in Claims(m, task, f) <=> f \in Owed(m, items[k])
    BY <1>2, <1>4, ClaimFacts, Zenon
  <2>3. f \in Owed(m, i) <=> \E k \in 1 .. Len(items) : f \in Owed(m, items[k])
    BY <1>4, Zenon DEF Replaces
  <2>4. Apart(m, items) => Single(items, Claims(m, task, f))
    <3> SUFFICES ASSUME Apart(m, items), NEW j \in Hits(items, Claims(m, task, f)),
                        NEW k \in Hits(items, Claims(m, task, f)), j # k
                 PROVE  FALSE
      BY Zenon DEF Single
    <3>1. j \in 1 .. Len(items) /\ k \in 1 .. Len(items)
      BY Zenon DEF Hits
    <3>2. f \in Owed(m, items[j]) /\ f \in Owed(m, items[k])
      BY <2>2, <3>1, Zenon DEF Hits
    <3>3. Owed(m, items[j]) \cap Owed(m, items[k]) = {}
      BY <3>1, Zenon DEF Apart
    <3> QED
      BY <3>2, <3>3, Zenon
  <2>5. Hits(items, Claims(m, task, f)) # {} <=>
          \E k \in 1 .. Len(items) : items[k] \in Claims(m, task, f)
    BY Zenon DEF Hits
  <2> QED
    BY <2>1, <2>2, <2>3, <2>4, <2>5, Zenon
<1>7. Covers(m, items \o Tail(s), D)
  <2>1. "find" \in Tasks
    BY DEF Tasks
  <2>2. \A g : Head(s) \in Claims(m, "find", g) <=> Hits(items, Claims(m, "find", g)) # {}
    BY <1>6, <2>1, Zenon DEF i
  <2> QED
    BY <1>1, <2>2, CoversKept, Zenon
<1>8. ASSUME Tree(m), ~m.functions[Host(m)].multi
      PROVE  \A task \in Tasks : \A E : Once(m, task, s, E) => Once(m, task, items \o Tail(s), E)
  <2> TAKE task \in Tasks
  <2> TAKE E
  <2> SUFFICES ASSUME Once(m, task, s, E) PROVE Once(m, task, items \o Tail(s), E)
    OBVIOUS
  <2>1. \A f \in Places : /\ Single(items, Claims(m, task, f))
                          /\ Hits(items, Claims(m, task, f)) # {}
                               => Head(s) \in Claims(m, task, f)
    BY <1>4, <1>6, <1>8, Zenon DEF i
  <2> QED
    BY <2>1, OnceKept, Zenon
<1>9. "find" \in Tasks /\ "join" \in Tasks /\ "control" \in Tasks
  BY DEF Tasks
<1> QED
  BY <1>5, <1>7, <1>8, <1>9, Zenon DEF WalkHolds

\* An item that no function is owed to is replaced by text and an offer.
LEMMA OfferOn ==
  ASSUME NEW m, NEW s \in Seq(Items(m)), s # <<>>, NEW items \in Seq(Items(m)),
         NEW D, NEW J, NEW C, WalkHolds(m, s, D, J, C), AllSound(m, items),
         \A g : Head(s) \in Claims(m, "find", g) <=> Hits(items, Claims(m, "find", g)) # {},
         \A task \in Tasks : \A f :
           /\ Single(items, Claims(m, task, f))
           /\ Hits(items, Claims(m, task, f)) # {} => Head(s) \in Claims(m, task, f)
  PROVE  WalkHolds(m, items \o Tail(s), D, J, C)
<1> SUFFICES ASSUME Regular(m)
             PROVE  /\ AllSound(m, items \o Tail(s)) /\ Covers(m, items \o Tail(s), D)
                    /\ Tree(m) /\ ~m.functions[Host(m)].multi =>
                         /\ Once(m, "find", items \o Tail(s), D)
                         /\ Once(m, "join", items \o Tail(s), J)
                         /\ Once(m, "control", items \o Tail(s), C)
  BY Zenon DEF WalkHolds
<1>1. AllSound(m, s) /\ Covers(m, s, D)
  BY Zenon DEF WalkHolds
<1>2. AllSound(m, items \o Tail(s))
  BY <1>1, SoundReplaced, Zenon
<1>3. Covers(m, items \o Tail(s), D)
  BY <1>1, CoversKept, Zenon
<1>4. \A task \in Tasks : \A E : Once(m, task, s, E) => Once(m, task, items \o Tail(s), E)
  <2> TAKE task \in Tasks
  <2> TAKE E
  <2> SUFFICES ASSUME Once(m, task, s, E) PROVE Once(m, task, items \o Tail(s), E)
    OBVIOUS
  <2>1. \A f \in Places : /\ Single(items, Claims(m, task, f))
                          /\ Hits(items, Claims(m, task, f)) # {}
                               => Head(s) \in Claims(m, task, f)
    BY Zenon
  <2> QED
    BY <2>1, OnceKept, Zenon
<1>5. "find" \in Tasks /\ "join" \in Tasks /\ "control" \in Tasks
  BY DEF Tasks
<1> QED
  BY <1>2, <1>3, <1>4, <1>5, Zenon DEF WalkHolds


\* A function that is reported.
LEMMA ReportOn ==
  ASSUME NEW m \in Machines, NEW s \in Seq(Items(m)), s # <<>>, NEW items \in Seq(Items(m)),
         NEW D \in Seq(Places), NEW J, NEW C, WalkHolds(m, s, D, J, C),
         NEW f \in Places, Head(s).kind = "function", f = Head(s).f,
         Header(m, f) # <<>>, ~IsBridge(m, f), AllSound(m, items),
         \A g : Hits(items, Claims(m, "find", g)) = {},
         \A task \in Tasks : \A g :
           /\ Single(items, Claims(m, task, g))
           /\ Hits(items, Claims(m, task, g)) # {} => g = f
  PROVE  WalkHolds(m, items \o Tail(s), Append(D, f), J, C)
<1> SUFFICES ASSUME Regular(m)
             PROVE  /\ AllSound(m, items \o Tail(s)) /\ Covers(m, items \o Tail(s), Append(D, f))
                    /\ Tree(m) /\ ~m.functions[Host(m)].multi =>
                         /\ Once(m, "find", items \o Tail(s), Append(D, f))
                         /\ Once(m, "join", items \o Tail(s), J)
                         /\ Once(m, "control", items \o Tail(s), C)
  BY Zenon DEF WalkHolds
<1> DEFINE i == Head(s)
<1>1. AllSound(m, s) /\ Covers(m, s, D)
  BY Zenon DEF WalkHolds
<1>2. 1 \in 1 .. Len(s) /\ i = s[1] /\ i \in Items(m)
  <2> DEFINE S == Items(m)
  <2>1. s \in Seq(S)
    OBVIOUS
  <2> HIDE DEF S
  <2>2. 1 \in 1 .. Len(s) /\ Head(s) = s[1] /\ Head(s) \in S
    BY <2>1
  <2> QED
    BY <2>2 DEF S
<1>3. ItemSound(m, i)
  BY <1>1, <1>2, Zenon DEF AllSound
<1>4. i.kind = "function" /\ f = i.f
  OBVIOUS
<1> HIDE DEF i
<1>5. Owed(m, i) = {f} /\ f \in Fns(m)
  BY <1>2, <1>3, <1>4, FunctionVisit, Zenon
<1>6. \A task \in Tasks : \A g : i \in Claims(m, task, g) <=> g = f
  <2>1. i.kind \in Walkers
    BY <1>4 DEF Walkers
  <2>2. \A task \in Tasks : \A g : i \in Claims(m, task, g) <=> g \in Owed(m, i)
    BY <1>2, <2>1, ClaimFacts, Zenon
  <2> QED
    BY <1>5, <2>2
<1>7. "find" \in Tasks /\ "join" \in Tasks /\ "control" \in Tasks
  BY DEF Tasks
<1>8. AllSound(m, items \o Tail(s))
  BY <1>1, SoundReplaced, Zenon
<1>9. Covers(m, items \o Tail(s), Append(D, f))
  <2>1. \A g : Head(s) \in Claims(m, "find", g) <=> g = f
    BY <1>6, <1>7, Zenon DEF i
  <2> QED
    BY <1>1, <2>1, CoversDone, Zenon
<1>10. \A task \in Tasks : \A g \in Places :
         /\ Single(items, Claims(m, task, g))
         /\ Hits(items, Claims(m, task, g)) # {} => Head(s) \in Claims(m, task, g)
  BY <1>6, Zenon DEF i
<1>11. Once(m, "find", s, D) => Once(m, "find", items \o Tail(s), Append(D, f))
  <2> SUFFICES ASSUME Once(m, "find", s, D)
               PROVE  Once(m, "find", items \o Tail(s), Append(D, f))
    OBVIOUS
  <2>1. Head(s) \in Claims(m, "find", f) /\ Hits(items, Claims(m, "find", f)) = {}
    BY <1>6, <1>7, Zenon DEF i
  <2>2. \A g \in Places :
          /\ Single(items, Claims(m, "find", g))
          /\ Hits(items, Claims(m, "find", g)) # {} => Head(s) \in Claims(m, "find", g)
    BY <1>7, <1>10, Zenon
  <2> QED
    BY <2>1, <2>2, OnceDone, Zenon
<1>12. ASSUME NEW task \in Tasks, NEW E, Once(m, task, s, E)
       PROVE  Once(m, task, items \o Tail(s), E)
  <2>1. \A g \in Places :
          /\ Single(items, Claims(m, task, g))
          /\ Hits(items, Claims(m, task, g)) # {} => Head(s) \in Claims(m, task, g)
    BY <1>10, Zenon
  <2> QED
    BY <1>12, <2>1, OnceKept, Zenon
<1> QED
  BY <1>7, <1>8, <1>9, <1>11, <1>12, Zenon DEF WalkHolds

\* A port joins, or a controller is initialised.
LEMMA DoneOn ==
  ASSUME NEW m, NEW s \in Seq(Items(m)), s # <<>>,
         NEW D, NEW J \in Seq(Places), NEW C \in Seq(Places), WalkHolds(m, s, D, J, C),
         NEW f \in Places, f = Head(s).f
  PROVE  /\ Head(s).kind = "join" => WalkHolds(m, Tail(s), D, Append(J, f), C)
         /\ Head(s).kind = "sata" => WalkHolds(m, Tail(s), D, J, Append(C, f))
<1> DEFINE i == Head(s)
<1>1. i \in Items(m) /\ <<>> \in Seq(Items(m)) /\ <<>> \o Tail(s) = Tail(s)
  <2> DEFINE S == Items(m)
  <2>1. s \in Seq(S)
    OBVIOUS
  <2> HIDE DEF S
  <2>2. Head(s) \in S /\ <<>> \in Seq(S) /\ <<>> \o Tail(s) = Tail(s)
    BY <2>1
  <2> QED
    BY <2>2 DEF S
<1>2. f = i.f
  OBVIOUS
<1> HIDE DEF i
<1>3. \A A : Hits(<<>>, A) = {} /\ Single(<<>>, A)
  BY DEF Hits, Single
<1>4. AllSound(m, <<>>)
  BY DEF AllSound
<1>5. "find" \in Tasks /\ "join" \in Tasks /\ "control" \in Tasks
  BY DEF Tasks
<1>6. /\ \A task \in Tasks : \A g : i.kind = "join" =>
           (i \in Claims(m, task, g) <=> task = "join" /\ i.f = g)
      /\ \A task \in Tasks : \A g : i.kind = "sata" =>
           (i \in Claims(m, task, g) <=> task = "control" /\ i.f = g)
  <2>1. \A task \in Tasks : \A g : i.kind \in {"serial", "join"} =>
          (i \in Claims(m, task, g) <=> task = "join" /\ i.f = g)
    BY <1>1, ClaimFacts, Zenon
  <2>2. \A task \in Tasks : \A g : i.kind = "sata" =>
           (i \in Claims(m, task, g) <=> task = "control" /\ i.f = g)
    BY <1>1, ClaimFacts, Zenon
  <2>3. i.kind = "join" => i.kind \in {"serial", "join"}
    OBVIOUS
  <2>4. ASSUME i.kind = "join", NEW task \in Tasks, NEW g
        PROVE  i \in Claims(m, task, g) <=> task = "join" /\ i.f = g
    <3>1. i.kind \in {"serial", "join"}
      BY <2>3, <2>4
    <3> QED
      BY <2>1, <3>1
  <2> QED
    BY <2>2, <2>4, Zenon
<1>7. ASSUME i.kind = "join" \/ i.kind = "sata"
      PROVE  WalkHolds(m, Tail(s), D, J, C)
  <2>1. \A g : i \notin Claims(m, "find", g)
    <3>1. \A g : i.kind = "join" => i \notin Claims(m, "find", g)
      BY <1>5, <1>6
    <3>2. \A g : i.kind = "sata" => i \notin Claims(m, "find", g)
      BY <1>5, <1>6
    <3> QED
      BY <1>7, <3>1, <3>2, Zenon
  <2>2. \A g : Head(s) \in Claims(m, "find", g) <=> Hits(<<>>, Claims(m, "find", g)) # {}
    BY <1>3, <2>1, Zenon DEF i
  <2>3. WalkHolds(m, <<>> \o Tail(s), D, J, C)
    BY <1>1, <1>3, <1>4, <2>2, OfferOn, Zenon
  <2> QED
    BY <1>1, <2>3, Zenon
<1>8. ASSUME NEW task \in Tasks, NEW E \in Seq(Places), Once(m, task, s, E),
             i \in Claims(m, task, f)
      PROVE  Once(m, task, Tail(s), Append(E, f))
  <2>1. \A g \in Places : /\ Single(<<>>, Claims(m, task, g))
                          /\ Hits(<<>>, Claims(m, task, g)) # {}
                               => Head(s) \in Claims(m, task, g)
    BY <1>3, Zenon
  <2>2. Head(s) \in Claims(m, task, f) /\ Hits(<<>>, Claims(m, task, f)) = {}
    BY <1>3, <1>8, Zenon DEF i
  <2>3. Once(m, task, <<>> \o Tail(s), Append(E, f))
    BY <1>1, <1>8, <2>1, <2>2, OnceDone, Zenon
  <2> QED
    BY <1>1, <2>3, Zenon
<1>9. ASSUME i.kind = "join"
      PROVE  WalkHolds(m, Tail(s), D, Append(J, f), C)
  <2>1. WalkHolds(m, Tail(s), D, J, C)
    BY <1>7, <1>9, Zenon
  <2>2. i \in Claims(m, "join", f)
    BY <1>2, <1>5, <1>6, <1>9, Zenon
  <2>3. Once(m, "join", s, J) => Once(m, "join", Tail(s), Append(J, f))
    BY <1>5, <1>8, <2>2, Zenon
  <2> QED
    BY <2>1, <2>3, Zenon DEF WalkHolds
<1>10. ASSUME i.kind = "sata"
       PROVE  WalkHolds(m, Tail(s), D, J, Append(C, f))
  <2>1. WalkHolds(m, Tail(s), D, J, C)
    BY <1>7, <1>10, Zenon
  <2>2. i \in Claims(m, "control", f)
    BY <1>2, <1>5, <1>6, <1>10, Zenon
  <2>3. Once(m, "control", s, C) => Once(m, "control", Tail(s), Append(C, f))
    BY <1>5, <1>8, <2>2, Zenon
  <2> QED
    BY <2>1, <2>3, Zenon DEF WalkHolds
<1> QED
  BY <1>9, <1>10, Zenon DEF i

\* The one region of a regular machine, behind the heading.
LEMMA WalkStarts ==
  ASSUME NEW m \in Machines, NEW heading \in Seq(Items(m)), Printing(heading),
         NEW top \in Seq(Items(m)), Len(top) = Len(m.regions),
         \A k \in 1 .. Len(top) : top[k] = Item("region", <<m.regions[k].start, 0, 0>>, 0)
  PROVE  WalkHolds(m, heading \o top, <<>>, <<>>, <<>>)
<1> SUFFICES ASSUME Regular(m)
             PROVE  /\ AllSound(m, heading \o top) /\ Covers(m, heading \o top, <<>>)
                    /\ \A task \in Tasks : Once(m, task, heading \o top, <<>>)
  BY DEF WalkHolds, Tasks
<1>1. Len(top) = 1 /\ top[1] = Item("region", Host(m), 0)
  BY SMTT(60) DEF Regular, Host
<1>2. /\ top[1].kind = "region" /\ top[1].f = Host(m) /\ ItemSound(m, top[1])
      /\ top[1] \in Items(m)
  <2>1. top[1] \in Items(m)
    <3> DEFINE S == Items(m)
    <3>1. top \in Seq(S) /\ 1 \in 1 .. Len(top)
      BY <1>1
    <3> HIDE DEF S
    <3>2. top[1] \in S
      BY <3>1
    <3> QED
      BY <3>2 DEF S
  <2> QED
    BY <1>1, <2>1 DEF Item, ItemSound
<1>3. /\ \A task \in Tasks : \A f :
           /\ Single(heading \o top, Claims(m, task, f))
           /\ Hits(heading \o top, Claims(m, task, f)) # {} => top[1] \in Claims(m, task, f)
      /\ AllSound(m, heading \o top)
  <2>1. Len(top) <= 1 /\ \A k \in 1 .. Len(top) : ItemSound(m, top[k])
    BY <1>1, <1>2
  <2> QED
    BY <2>1, RowFacts, Zenon
<1>4. Range(<<>>) = {} /\ IsInjective(<<>>)
  BY DEF Range, IsInjective
<1>5. ASSUME NEW g
      PROVE  g \in Fns(m) /\ g[1] \in Reachable(m) <=>
               Hits(heading \o top, Claims(m, "find", g)) # {}
  <2> DEFINE A == Claims(m, "find", g)
  <2>1. "find" \in Tasks /\ top[1].kind \in Walkers
    BY <1>2 DEF Tasks, Walkers
  <2>2. top[1] \in A <=> g \in Owed(m, top[1])
    BY <1>2, <2>1, ClaimFacts, Zenon
  <2>3. Asked(m, top[1]) = OnBuses(m, FirstBuses(m))
    BY <1>2 DEF Asked, OnBuses
  <2>4. g \in Owed(m, top[1]) <=> g \in Fns(m) /\ g[1] \in Reachable(m)
    BY <2>3, RegularFacts, Zenon DEF Owed
  <2> HIDE DEF A
  <2>5. Hits(top, A) # {} <=> top[1] \in A
    <3>1. 1 .. Len(top) = {1}
      BY <1>1
    <3> QED
      BY <3>1 DEF Hits
  <2>6. Hits(heading \o top, A) # {} <=> Hits(heading, A) # {} \/ Hits(top, A) # {}
    <3> DEFINE S == Items(m)
    <3>1. heading \in Seq(S) /\ top \in Seq(S)
      OBVIOUS
    <3> HIDE DEF S
    <3> QED
      BY <3>1, HitsJoined
  <2>7. Hits(heading \o top, A) # {} => top[1] \in A
    BY <1>3, <2>1, Zenon DEF A
  <2> QED
    BY <2>2, <2>4, <2>5, <2>6, <2>7, Zenon DEF A
<1>6. Covers(m, heading \o top, <<>>)
  BY <1>4, <1>5 DEF Covers
<1>7. \A task \in Tasks : Once(m, task, heading \o top, <<>>)
  BY <1>3, <1>4 DEF Once
<1> QED
  BY <1>3, <1>6, <1>7


WalkInv ==
  /\ pc = "boot" => stack = <<>> /\ found = <<>> /\ controllers = <<>> /\ outputs = <<>>
  /\ pc = "done" => stack = <<>>
  /\ pc # "boot" => WalkHolds(machine, stack, found, outputs, controllers)

\* What the types say of a visit.
LEMMA VisitTypes ==
  ASSUME WalkTypes, OutputInv
  PROVE  /\ machine \in Machines /\ stack \in Seq(Items(machine)) /\ found \in Seq(Places)
         /\ controllers \in Seq(Places) /\ outputs \in Seq(Places)
         /\ stack # <<>> =>
              /\ Head(stack) \in Items(machine)
              /\ Head(stack).kind \in Walkers \cup {"serial", "sata", "join"}
                   => Head(stack).f \in Places
              /\ Head(stack).kind = "join" => Head(stack).f \in machine.serial
              /\ Head(stack).depth \in Depths
<1>1. /\ machine \in Machines /\ stack \in Seq(Items(machine)) /\ found \in Seq(Places)
      /\ controllers \in Seq(Places)
  BY DEF WalkTypes
<1>2. machine.serial \subseteq Places
  BY <1>1, MachineFacts
<1>3. outputs \in Seq(Places)
  <2>1. outputs \in Seq(machine.serial)
    BY DEF OutputInv, OutputTypes
  <2> QED
    BY <1>2, <2>1, SeqMonotonic
<1>4. ASSUME stack # <<>>
      PROVE  /\ Head(stack) \in Items(machine)
             /\ Head(stack).kind \in Walkers \cup {"serial", "sata", "join"}
                  => Head(stack).f \in Places
             /\ Head(stack).kind = "join" => Head(stack).f \in machine.serial
             /\ Head(stack).depth \in Depths
  <2>1. Head(stack) \in Items(machine)
    BY <1>4, VisitFacts
  <2>2. /\ Head(stack).depth \in Depths
        /\ Head(stack).kind = "join" => Head(stack).f \in machine.serial
        /\ Head(stack).kind \in WalkKinds => Head(stack).f \in Places
    BY <2>1, ItemMeans
  <2> QED
    BY <1>2, <2>1, <2>2 DEF Walkers, WalkKinds
<1> QED
  BY <1>1, <1>3, <1>4

LEMMA WalkKept ==
  ASSUME WalkInv, WalkTypes, OutputInv, stack # <<>>, pc = "scan",
         NEW items \in Seq(Items(machine)), Continue(items),
         Head(stack).kind \in Walkers,
         ItemSound(machine, Head(stack)) => Allowed(machine, Head(stack), items)
  PROVE  WalkInv'
<1>1. /\ stack' = items \o Tail(stack)
      /\ UNCHANGED <<machine, pc, found, controllers, outputs>>
  BY DEF Continue
<1>2. WalkHolds(machine, stack, found, outputs, controllers)
  BY DEF WalkInv
<1>3. stack \in Seq(Items(machine))
  BY DEF WalkTypes
<1>4. WalkHolds(machine, items \o Tail(stack), found, outputs, controllers)
  BY <1>2, <1>3, WalkOn, Zenon
<1>5. WalkHolds(machine', stack', found', outputs', controllers')
  BY <1>1, <1>4, Zenon
<1> QED
  BY <1>1, <1>5 DEF WalkInv

LEMMA WalkStep ==
  ASSUME WalkInv, WalkTypes, OutputInv, [Next]_vars
  PROVE  WalkInv'
<1> DEFINE m == machine
           i == Head(stack)
<1>0. /\ m \in Machines /\ stack \in Seq(Items(m)) /\ found \in Seq(Places)
      /\ controllers \in Seq(Places) /\ outputs \in Seq(Places)
      /\ stack # <<>> =>
           /\ i \in Items(m) /\ i.depth \in Depths
           /\ i.kind \in Walkers \cup {"serial", "sata", "join"} => i.f \in Places
           /\ i.kind = "join" => i.f \in m.serial
  BY VisitTypes
<1>14. /\ "find" \in Tasks /\ "join" \in Tasks /\ "control" \in Tasks
      /\ "region" \in Walkers /\ "device" \in Walkers /\ "function" \in Walkers
      /\ 0 \in Depths /\ 1 \in Depths /\ <<>> \in Seq(Items(m))
  BY DevicesAssumption DEF Tasks, Walkers, Depths
<1>1. ASSUME NEW c \in Chars, KernelPrints(c)
      PROVE  WalkInv'
  BY <1>1 DEF KernelPrints, WalkInv
<1>2. ASSUME StartScan
      PROVE  WalkInv'
  <2> DEFINE heading == Text(<<"heading", NewLine>>)
             top == [k \in 1 .. Len(m.regions) |->
                       Item("region", <<m.regions[k].start, 0, 0>>, 0)]
  <2>1. /\ pc = "boot" /\ pc' = "scan" /\ stack' = heading \o top
        /\ UNCHANGED <<machine, found, controllers, outputs>>
    BY <1>2 DEF StartScan
  <2>2. heading \in Seq(Items(m)) /\ Printing(heading)
    <3>1. "heading" \in Printed /\ NewLine \in Printed
      BY DEF Printed
    <3> QED
      BY <3>1, PushedItems, TextPrints
  <2>3. Len(m.regions) \in Nat /\ \A k \in 1 .. Len(m.regions) : m.regions[k].start \in Nat
    <3> DEFINE rs == m.regions
               S == [start : Nat, end : Nat]
    <3>1. rs \in Seq(S)
      BY <1>0, MachineFacts
    <3> HIDE DEF S, rs
    <3>2. Len(rs) \in Nat /\ \A k \in 1 .. Len(rs) : rs[k] \in S
      BY <3>1
    <3> QED
      BY <3>2 DEF S, rs
  <2>4. top \in Seq(Items(m)) /\ Len(top) = Len(m.regions)
    <3>1. \A k \in 1 .. Len(m.regions) : <<m.regions[k].start, 0, 0>> \in Places
      BY <2>3 DEF Places
    <3>2. "region" \in WalkKinds
      BY DEF WalkKinds
    <3>3. \A k \in 1 .. Len(m.regions) :
            Item("region", <<m.regions[k].start, 0, 0>>, 0) \in Items(m)
      BY <1>14, <3>1, <3>2, ItemFacts, Zenon
    <3>4. top \in [1 .. Len(m.regions) -> Items(m)]
      BY <3>3
    <3> HIDE DEF top
    <3> QED
      BY <2>3, <3>4, SeqByEntries
  <2>5. \A k \in 1 .. Len(top) : top[k] = Item("region", <<m.regions[k].start, 0, 0>>, 0)
    BY <2>4
  <2> HIDE DEF heading, top
  <2>6. WalkHolds(m, heading \o top, <<>>, <<>>, <<>>)
    BY <1>0, <2>2, <2>4, <2>5, WalkStarts
  <2>7. found' = <<>> /\ outputs' = <<>> /\ controllers' = <<>>
    BY <2>1 DEF WalkInv
  <2>8. WalkHolds(machine', stack', found', outputs', controllers')
    BY <2>1, <2>6, <2>7, Zenon
  <2> QED
    BY <2>1, <2>8 DEF WalkInv
<1>3. ASSUME PrintNext
      PROVE  WalkInv'
  <2>1. /\ pc = "scan" /\ stack # <<>> /\ i.kind = "print" /\ stack' = Tail(stack)
        /\ UNCHANGED <<machine, pc, found, controllers, outputs>>
    BY <1>3 DEF PrintNext, Visit
  <2>2. \A A : Hits(<<>>, A) = {} /\ Single(<<>>, A)
    BY DEF Hits, Single
  <2>3. AllSound(m, <<>>)
    BY DEF AllSound
  <2>4. \A g : i \notin Claims(m, "find", g)
    BY <1>0, <1>14, <2>1, ClaimFacts
  <2>5. <<>> \o Tail(stack) = Tail(stack)
    <3> DEFINE S == Items(m)
    <3>1. stack \in Seq(S)
      BY <1>0
    <3> HIDE DEF S
    <3> QED
      BY <2>1, <3>1
  <2>6. WalkHolds(m, stack, found, outputs, controllers)
    BY <2>1 DEF WalkInv
  <2>7. WalkHolds(m, <<>> \o Tail(stack), found, outputs, controllers)
    BY <1>0, <1>14, <2>1, <2>2, <2>3, <2>4, <2>6, OfferOn, Zenon
  <2>8. WalkHolds(machine', stack', found', outputs', controllers')
    BY <2>1, <2>5, <2>7, Zenon
  <2> QED
    BY <2>1, <2>8 DEF WalkInv
<1>4. ASSUME VisitRegion
      PROVE  WalkInv'
  <2> DEFINE h == Header(m, i.f)
             items == IF h = <<>> THEN <<>> ELSE HostItems(IF h.multi THEN HostBuses ELSE 1)
  <2>1. pc = "scan" /\ stack # <<>> /\ i.kind = "region" /\ Continue(items)
    BY <1>4 DEF VisitRegion, Visit
  <2>2. items \in Seq(Items(m))
    <3> DEFINE n == IF h.multi THEN HostBuses ELSE 1
    <3>1. n \in Nat
      BY DevicesAssumption
    <3> HIDE DEF n
    <3>2. HostItems(n) \in Seq(Items(m))
      BY <1>14, <3>1, PushedItems
    <3> QED
      BY <1>14, <3>2 DEF n
  <2>3. ItemSound(m, i) => Allowed(m, i, items)
    <3> SUFFICES ASSUME ItemSound(m, i), Regular(m) PROVE Allowed(m, i, items)
      BY DEF Allowed
    <3>1. /\ h # <<>>
          /\ Replaces(m, HostItems(IF h.multi THEN HostBuses ELSE 1), i)
          /\ \A k \in 1 .. Len(HostItems(IF h.multi THEN HostBuses ELSE 1)) :
               /\ HostItems(IF h.multi THEN HostBuses ELSE 1)[k].kind = "device"
               /\ ItemSound(m, HostItems(IF h.multi THEN HostBuses ELSE 1)[k])
          /\ Tree(m) /\ ~m.functions[Host(m)].multi =>
               Apart(m, HostItems(IF h.multi THEN HostBuses ELSE 1))
      BY <1>0, <2>1, RegionVisit, SMTT(60)
    <3>2. items = HostItems(IF h.multi THEN HostBuses ELSE 1)
      BY <3>1
    <3>3. /\ Replaces(m, items, i)
          /\ \A k \in 1 .. Len(items) : items[k].kind = "device" /\ ItemSound(m, items[k])
          /\ Tree(m) /\ ~m.functions[Host(m)].multi => Apart(m, items)
      BY <3>1, <3>2, Zenon
    <3> HIDE DEF items
    <3> QED
      BY <1>14, <3>3, Zenon DEF Allowed
  <2> HIDE DEF items
  <2> QED
    BY <1>14, <2>1, <2>2, <2>3, WalkKept, Zenon
<1>5. ASSUME VisitDevice
      PROVE  WalkInv'
  <2> DEFINE h == Header(m, i.f)
             items == IF h = <<>> THEN <<>> ELSE DeviceItems(i.f, h.multi, i.depth)
  <2>1. pc = "scan" /\ stack # <<>> /\ i.kind = "device" /\ Continue(items)
    BY <1>5 DEF VisitDevice, Visit
  <2>2. items \in Seq(Items(m))
    <3> DEFINE f == i.f
               d == i.depth
    <3>1. f \in Places /\ d \in Depths
      BY <1>0, <1>14, <2>1
    <3>2. h # <<>> => h.multi \in BOOLEAN
      BY <1>0, HeaderFacts
    <3> HIDE DEF h, f, d
    <3>3. h # <<>> => DeviceItems(f, h.multi, d) \in Seq(Items(m))
      BY <3>1, <3>2, PushedItems
    <3> QED
      BY <1>14, <3>3 DEF f, d
  <2>3. ItemSound(m, i) => Allowed(m, i, items)
    <3> SUFFICES ASSUME ItemSound(m, i), Regular(m) PROVE Allowed(m, i, items)
      BY DEF Allowed
    <3>1. i \in Items(m)
      BY <1>0, <2>1, SMTT(60)
    <3>2. /\ Replaces(m, items, i)
          /\ \A k \in 1 .. Len(items) : items[k].kind = "function" /\ ItemSound(m, items[k])
          /\ Tree(m) => Apart(m, items)
      BY <1>0, <2>1, <3>1, DeviceVisit
    <3> HIDE DEF items
    <3> QED
      BY <1>14, <3>2, ZenonT(60) DEF Allowed
  <2> HIDE DEF items
  <2> QED
    BY <1>14, <2>1, <2>2, <2>3, WalkKept, Zenon
<1>6. ASSUME VisitAbsent
      PROVE  WalkInv'
  <2>1. /\ pc = "scan" /\ stack # <<>> /\ i.kind = "function" /\ Header(m, i.f) = <<>>
        /\ Continue(<<>>) /\ i \in Items(m)
    BY <1>0, <1>6 DEF VisitAbsent, Visit
  <2>2. ItemSound(m, i) => Allowed(m, i, <<>>)
    <3> SUFFICES ASSUME ItemSound(m, i), Regular(m) PROVE Allowed(m, i, <<>>)
      BY DEF Allowed
    <3>1. Replaces(m, <<>>, i)
      BY <1>0, <2>1, FunctionVisit
    <3>2. 1 .. Len(<<>>) = {}
      OBVIOUS
    <3> QED
      BY <3>1, <3>2 DEF Allowed, Apart
  <2> QED
    BY <1>14, <2>1, <2>2, WalkKept, Zenon
<1>7. ASSUME VisitBridge
      PROVE  WalkInv'
  <2> DEFINE items == BusItems(BehindBridge(m, i.f), i.depth + 1)
  <2>1. pc = "scan" /\ stack # <<>> /\ i.kind = "function" /\ IsBridge(m, i.f)
    BY <1>7 DEF VisitBridge, Visit
  <2>2. CASE i.depth = MaxDepth
    BY <1>7, <2>2 DEF VisitBridge, WalkInv
  <2>3. CASE i.depth # MaxDepth
    <3>1. Continue(items) /\ i \in Items(m) /\ i.depth \in Depths
      BY <1>0, <1>7, <2>1, <2>3 DEF VisitBridge
    <3>2. items \in Seq(Items(m))
      <4>1. i.depth + 1 \in Depths
        BY <2>3, <3>1, DevicesAssumption DEF Depths
      <4>2. BehindBridge(m, i.f) \in Nat
        BY <1>0, <2>1, HeaderFacts DEF BehindBridge, IsBridge
      <4> QED
        BY <4>1, <4>2, PushedItems
    <3>3. ItemSound(m, i) => Allowed(m, i, items)
      <4> SUFFICES ASSUME ItemSound(m, i), Regular(m) PROVE Allowed(m, i, items)
        BY DEF Allowed
      <4>1. /\ Replaces(m, items, i)
            /\ \A k \in 1 .. Len(items) : items[k].kind = "device" /\ ItemSound(m, items[k])
            /\ Tree(m) => Apart(m, items)
        BY <1>0, <2>1, <3>1, BridgeVisit
      <4> HIDE DEF items
      <4> QED
        BY <1>14, <4>1, Zenon DEF Allowed
    <3> HIDE DEF items
    <3> QED
      BY <1>14, <2>1, <3>1, <3>2, <3>3, WalkKept, Zenon
  <2> QED
    BY <2>2, <2>3
<1>8. ASSUME VisitFunction
      PROVE  WalkInv'
  <2> DEFINE f == i.f
             h == Header(m, f)
             row == Text(<<"row", NewLine>>)
             offer == IF h.class \in {"serial", "sata"} THEN <<Item(h.class, f, 0)>> ELSE <<>>
             items == row \o offer
  <2>1. /\ pc = "scan" /\ stack # <<>> /\ i.kind = "function" /\ h # <<>> /\ ~IsBridge(m, f)
        /\ found' = Append(found, f) /\ stack' = items \o Tail(stack)
        /\ UNCHANGED <<machine, pc, controllers, outputs>>
    BY <1>8, SMTT(60) DEF VisitFunction, Visit
  <2>2. f \in Places /\ i \in Items(m)
    BY <1>0, <1>14, <2>1
  <2>3. row \in Seq(Items(m)) /\ Printing(row)
    <3>1. "row" \in Printed /\ NewLine \in Printed
      BY DEF Printed
    <3> QED
      BY <3>1, PushedItems, TextPrints
  <2> HIDE DEF f
  <2>4. /\ offer \in Seq(Items(m)) /\ Len(offer) <= 1
        /\ Len(offer) = 1 => /\ offer[1] \in Items(m) /\ offer[1].f = f
                             /\ offer[1].kind = "serial" \/ offer[1].kind = "sata"
    <3>1. CASE h.class \in {"serial", "sata"}
      <4> DEFINE x == Item(h.class, f, 0)
      <4>1. x \in Items(m)
        <5>1. h.class \in WalkKinds
          BY <3>1 DEF WalkKinds
        <5> HIDE DEF h
        <5> QED
          BY <1>14, <2>2, <5>1, ItemFacts, Zenon
      <4>2. x.f = f /\ (x.kind = "serial" \/ x.kind = "sata")
        BY <3>1 DEF Item
      <4>3. offer = <<x>>
        BY <3>1
      <4> HIDE DEF x, offer
      <4>4. <<x>> \in Seq(Items(m)) /\ Len(<<x>>) = 1 /\ <<x>>[1] = x
        BY <4>1
      <4> QED
        BY <4>1, <4>2, <4>3, <4>4
    <3>2. CASE h.class \notin {"serial", "sata"}
      <4>1. offer = <<>>
        BY <3>2
      <4> QED
        BY <1>14, <4>1
    <3> QED
      BY <3>1, <3>2
  <2> HIDE DEF row, offer
  <2>5. \A k \in 1 .. Len(offer) : ItemSound(m, offer[k])
    <3> SUFFICES ASSUME NEW k \in 1 .. Len(offer) PROVE ItemSound(m, offer[k])
      OBVIOUS
    <3>1. Len(offer) \in Nat /\ Len(offer) <= 1
      BY <2>4
    <3>2. \A l \in Nat : l <= 1 /\ k \in 1 .. l => k = 1 /\ l = 1
      OBVIOUS
    <3>3. k = 1 /\ Len(offer) = 1
      BY <3>1, <3>2, Zenon
    <3> QED
      BY <2>4, <3>3 DEF ItemSound
  <2>6. /\ items \in Seq(Items(m)) /\ AllSound(m, items)
        /\ \A task \in Tasks : \A g :
             /\ Single(items, Claims(m, task, g))
             /\ Hits(items, Claims(m, task, g)) # {}
                  => Len(offer) = 1 /\ offer[1] \in Claims(m, task, g)
    BY <2>3, <2>4, <2>5, RowFacts, Zenon
  <2>7. ASSUME Len(offer) = 1, NEW task \in Tasks, NEW g, offer[1] \in Claims(m, task, g)
        PROVE  task # "find" /\ g = f
    <3> DEFINE x == offer[1]
    <3>1. x \in Items(m) /\ x.f = f /\ (x.kind = "serial" \/ x.kind = "sata")
      BY <2>4, <2>7
    <3> HIDE DEF x
    <3>2. /\ x.kind \in {"serial", "join"} =>
               (x \in Claims(m, task, g) <=> task = "join" /\ x.f = g)
          /\ x.kind = "sata" => (x \in Claims(m, task, g) <=> task = "control" /\ x.f = g)
      BY <3>1, ClaimFacts
    <3>3. x \in Claims(m, task, g)
      BY <2>7 DEF x
    <3> QED
      BY <3>1, <3>2, <3>3
  <2> HIDE DEF items
  <2>8. \A g : Hits(items, Claims(m, "find", g)) = {}
    <3> SUFFICES ASSUME NEW g, Hits(items, Claims(m, "find", g)) # {} PROVE FALSE
      OBVIOUS
    <3>1. Len(offer) = 1 /\ offer[1] \in Claims(m, "find", g)
      BY <1>14, <2>6, Zenon
    <3> QED
      BY <1>14, <2>7, <3>1
  <2>9. \A task \in Tasks : \A g :
          /\ Single(items, Claims(m, task, g))
          /\ Hits(items, Claims(m, task, g)) # {} => g = f
    <3> TAKE task \in Tasks
    <3> TAKE g
    <3>1. /\ Single(items, Claims(m, task, g))
          /\ Hits(items, Claims(m, task, g)) # {}
               => Len(offer) = 1 /\ offer[1] \in Claims(m, task, g)
      BY <2>6, Zenon
    <3> QED
      BY <2>7, <3>1
  <2>10. WalkHolds(m, stack, found, outputs, controllers)
    BY <2>1 DEF WalkInv
  <2>11. WalkHolds(m, items \o Tail(stack), Append(found, f), outputs, controllers)
    <3>1. f = i.f
      BY DEF f
    <3> HIDE DEF i
    <3> QED
      BY <1>0, <2>1, <2>2, <2>6, <2>8, <2>9, <2>10, <3>1, ReportOn, Zenon DEF i
  <2>12. WalkHolds(machine', stack', found', outputs', controllers')
    BY <2>1, <2>11, Zenon
  <2> QED
    BY <2>1, <2>12 DEF WalkInv
<1>9. ASSUME NewSerial
      PROVE  WalkInv'
  <2> DEFINE f == i.f
             row == Text(<<"serial", NewLine>>)
             offer == IF SerialValid(f) THEN <<Item("join", f, 0)>> ELSE <<>>
             items == row \o offer
  <2>1. pc = "scan" /\ stack # <<>> /\ i.kind = "serial" /\ Continue(items)
    BY <1>9 DEF NewSerial, Visit
  <2>2. i \in Items(m)
    BY <1>0, <2>1
  <2>3. row \in Seq(Items(m)) /\ Printing(row)
    <3>1. "serial" \in Printed /\ NewLine \in Printed
      BY DEF Printed
    <3> QED
      BY <3>1, PushedItems, TextPrints
  <2> HIDE DEF f
  <2>4. /\ offer \in Seq(Items(m)) /\ Len(offer) <= 1
        /\ Len(offer) = 1 => /\ offer[1] \in Items(m) /\ offer[1].f = f
                             /\ offer[1].kind = "join"
    <3>1. CASE SerialValid(f)
      <4> DEFINE x == Item("join", f, 0)
      <4>1. x \in Items(m)
        BY <3>1, ItemFacts DEF SerialValid
      <4>2. x.f = f /\ x.kind = "join"
        BY DEF Item
      <4>3. offer = <<x>>
        BY <3>1
      <4> HIDE DEF x, offer
      <4>4. <<x>> \in Seq(Items(m)) /\ Len(<<x>>) = 1 /\ <<x>>[1] = x
        BY <4>1
      <4> QED
        BY <4>1, <4>2, <4>3, <4>4
    <3>2. CASE ~SerialValid(f)
      <4>1. offer = <<>>
        BY <3>2
      <4> QED
        BY <1>14, <4>1
    <3> QED
      BY <3>1, <3>2
  <2> HIDE DEF row, offer
  <2>5. \A k \in 1 .. Len(offer) : ItemSound(m, offer[k])
    <3> SUFFICES ASSUME NEW k \in 1 .. Len(offer) PROVE ItemSound(m, offer[k])
      OBVIOUS
    <3>1. Len(offer) \in Nat /\ Len(offer) <= 1
      BY <2>4
    <3>2. \A l \in Nat : l <= 1 /\ k \in 1 .. l => k = 1 /\ l = 1
      OBVIOUS
    <3>3. k = 1 /\ Len(offer) = 1
      BY <3>1, <3>2, Zenon
    <3> QED
      BY <2>4, <3>3 DEF ItemSound
  <2>6. /\ items \in Seq(Items(m)) /\ AllSound(m, items)
        /\ \A task \in Tasks : \A g :
             /\ Single(items, Claims(m, task, g))
             /\ Hits(items, Claims(m, task, g)) # {}
                  => Len(offer) = 1 /\ offer[1] \in Claims(m, task, g)
    BY <2>3, <2>4, <2>5, RowFacts, Zenon
  <2>7. ASSUME NEW task \in Tasks, NEW g
        PROVE  /\ i \in Claims(m, task, g) <=> task = "join" /\ f = g
               /\ Len(offer) = 1 /\ offer[1] \in Claims(m, task, g) => task = "join" /\ f = g
    <3> DEFINE x == offer[1]
    <3>1. i \in Claims(m, task, g) <=> task = "join" /\ i.f = g
      BY <2>1, <2>2, ClaimFacts
    <3> HIDE DEF x
    <3>2. x \in Items(m) /\ x.kind = "join" => (x \in Claims(m, task, g) <=> task = "join" /\ x.f = g)
      BY ClaimFacts
    <3>3. Len(offer) = 1 => x \in Items(m) /\ x.f = f /\ x.kind = "join"
      BY <2>4 DEF x
    <3>4. Len(offer) = 1 /\ x \in Claims(m, task, g) => task = "join" /\ f = g
      BY <3>2, <3>3
    <3> QED
      BY <3>1, <3>4 DEF f, x
  <2> HIDE DEF items
  <2>8. \A g : Head(stack) \in Claims(m, "find", g) <=> Hits(items, Claims(m, "find", g)) # {}
    BY <1>14, <2>6, <2>7
  <2>9. \A task \in Tasks : \A g :
          /\ Single(items, Claims(m, task, g))
          /\ Hits(items, Claims(m, task, g)) # {} => Head(stack) \in Claims(m, task, g)
    BY <2>6, <2>7
  <2>10. WalkHolds(m, stack, found, outputs, controllers)
    BY <2>1 DEF WalkInv
  <2>11. WalkHolds(m, items \o Tail(stack), found, outputs, controllers)
    BY <1>0, <2>1, <2>6, <2>8, <2>9, <2>10, OfferOn, Zenon
  <2>12. /\ stack' = items \o Tail(stack)
         /\ UNCHANGED <<machine, pc, found, controllers, outputs>>
    BY <2>1 DEF Continue
  <2>13. WalkHolds(machine', stack', found', outputs', controllers')
    BY <2>11, <2>12, Zenon
  <2> QED
    BY <2>1, <2>12, <2>13 DEF WalkInv
<1>10. ASSUME Join
       PROVE  WalkInv'
  <2>1. /\ pc = "scan" /\ stack # <<>> /\ i.kind = "join" /\ stack' = Tail(stack)
        /\ outputs' = Append(outputs, i.f)
        /\ UNCHANGED <<machine, pc, found, controllers>>
    BY <1>10 DEF Join, Visit
  <2>2. i.f \in Places
    BY <1>0, <2>1
  <2>3. WalkHolds(m, stack, found, outputs, controllers)
    BY <2>1 DEF WalkInv
  <2>4. WalkHolds(m, Tail(stack), found, Append(outputs, i.f), controllers)
    BY <1>0, <2>1, <2>2, <2>3, DoneOn
  <2>5. WalkHolds(machine', stack', found', outputs', controllers')
    BY <2>1, <2>4, Zenon
  <2> QED
    BY <2>1, <2>5, SMTT(60) DEF WalkInv
<1>11. ASSUME NewController
       PROVE  WalkInv'
  <2>1. /\ pc = "scan" /\ stack # <<>> /\ i.kind = "sata" /\ stack' = Tail(stack)
        /\ controllers' = Append(controllers, i.f)
        /\ UNCHANGED <<machine, pc, found, outputs>>
    BY <1>11 DEF NewController, Visit
  <2>2. i.f \in Places
    BY <1>0, <2>1
  <2>3. WalkHolds(m, stack, found, outputs, controllers)
    BY <2>1 DEF WalkInv
  <2>4. WalkHolds(m, Tail(stack), found, outputs, Append(controllers, i.f))
    BY <1>0, <2>1, <2>2, <2>3, DoneOn
  <2>5. WalkHolds(machine', stack', found', outputs', controllers')
    BY <2>1, <2>4, Zenon
  <2> QED
    BY <2>1, <2>5 DEF WalkInv
<1>12. ASSUME EndScan
       PROVE  WalkInv'
  BY <1>12 DEF EndScan, WalkInv
<1>13. ASSUME UNCHANGED vars
       PROVE  WalkInv'
  BY <1>13 DEF vars, WalkInv
<1> QED
  BY <1>1, <1>2, <1>3, <1>4, <1>5, <1>6, <1>7, <1>8, <1>9, <1>10, <1>11, <1>12, <1>13
  DEF Next, Walk, Finished

LEMMA WalkAlways == Spec => [](WalkTypes /\ OutputInv /\ WalkInv)
<1>1. Init => WalkInv
  BY DEF Init, WalkInv
<1>2. WalkInv /\ WalkTypes /\ OutputInv /\ [Next]_vars => WalkInv'
  BY WalkStep
<1> QED
  BY <1>1, <1>2, TypesAlways, PTL DEF Spec

\* On every machine with one region and all its buses the walk reports exactly
\* the functions that answer below the host bridge, whatever the numbers of
\* buses, devices and functions; if the buses form a tree below one host
\* function, every function is reported, every controller initialised and every
\* port joined once at most (pci.cpp:69-194).
THEOREM WalkFindsAll == Spec => []ScanSound
<1>1. ASSUME WalkTypes, OutputInv, WalkInv
      PROVE  ScanSound
  <2>1. /\ machine \in Machines /\ stack \in Seq(Items(machine)) /\ found \in Seq(Places)
        /\ controllers \in Seq(Places) /\ outputs \in Seq(Places)
    BY <1>1, VisitTypes
  <2>2. TypeOK
    <3>1. out \in Outs(DOMAIN machine.functions) /\ outputs \in Seq(machine.serial)
      BY <1>1 DEF OutputInv, OutputTypes
    <3>2. /\ out.start \in 0 .. RingSize - 1 /\ out.end \in 0 .. RingSize - 1
          /\ out.size \in 0 .. RingSize /\ out.index \in 0 .. Width * Height - 1
          /\ DOMAIN out.ring = 0 .. RingSize - 1
          /\ DOMAIN out.screen = 0 .. Width * Height - 1
      BY <3>1 DEF Outs
    <3>3. Range(outputs) \subseteq DOMAIN machine.functions
      <4>1. machine.serial \subseteq DOMAIN machine.functions
        BY <2>1, MachineFacts
      <4> QED
        BY <3>1, <4>1 DEF Range
    <3>4. \A k \in 1 .. Len(stack) : stack[k].depth \in 0 .. MaxDepth
      <4> TAKE k \in 1 .. Len(stack)
      <4> DEFINE S == Items(machine)
      <4>1. stack \in Seq(S)
        BY <2>1
      <4> HIDE DEF S
      <4>2. stack[k] \in S
        BY <4>1
      <4> QED
        BY <4>2, ItemMeans DEF S, Depths
    <3>5. pc \in {"boot", "scan", "done"} /\ stopped \in BOOLEAN
      BY <1>1 DEF WalkTypes
    <3> QED
      BY <3>2, <3>3, <3>4, <3>5 DEF TypeOK
  <2>3. ScanComplete
    <3> SUFFICES ASSUME pc = "done", Regular(machine)
                 PROVE  Range(found) = {f \in DOMAIN machine.functions :
                          /\ Answers(machine, f) /\ f[1] \in Reachable(machine)
                          /\ f \notin Bridges(machine)}
      BY DEF ScanComplete
    <3>1. Covers(machine, stack, found) /\ stack = <<>>
      BY <1>1 DEF WalkInv, WalkHolds
    <3>2. \A A : Hits(stack, A) = {}
      BY <3>1 DEF Hits
    <3>3. \A g : g \in Fns(machine) /\ g[1] \in Reachable(machine) <=> g \in Range(found)
      BY <3>1, <3>2, Zenon DEF Covers
    <3> QED
      BY <3>3 DEF Fns
  <2>4. FoundOnce
    <3> SUFFICES ASSUME Regular(machine), Tree(machine), ~machine.functions[Host(machine)].multi
                 PROVE  IsInjective(found) /\ IsInjective(controllers) /\ IsInjective(outputs)
      BY DEF FoundOnce
    <3>1. CASE pc = "boot"
      <4>1. found = <<>> /\ controllers = <<>> /\ outputs = <<>>
        BY <1>1, <3>1 DEF WalkInv
      <4> QED
        BY <4>1 DEF IsInjective
    <3>2. CASE pc # "boot"
      BY <1>1, <3>2, Zenon DEF WalkInv, WalkHolds, Once
    <3> QED
      BY <3>1, <3>2
  <2> QED
    BY <2>2, <2>3, <2>4 DEF ScanSound
<1> QED
  BY <1>1, WalkAlways, PTL

=============================================================================
