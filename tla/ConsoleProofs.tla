--------------------------- MODULE ConsoleProofs ----------------------------
(***************************************************************************)
(* The console and everybody who writes on it.                              *)
(*                                                                         *)
(* For a screen of any size of at least three rows, any scan codes in any    *)
(* order, any log lines and any instants: the reserved areas show what was   *)
(* printed there last, each writer keeps to its own area, the keyboard's one *)
(* bit of state decodes every byte, every name fits, and the time shown is   *)
(* never ahead of the clock.                                                 *)
(*                                                                         *)
(* What vga_print does to a whole text is shown by induction over its        *)
(* characters: LeastElement gives the first character for which a claim      *)
(* fails, and PrintLoop the screens between the characters.                  *)
(***************************************************************************)
EXTENDS Console, FiniteSetTheorems, WellFoundedInduction, TLAPS

\* A set of naturals that is not empty has a least element.
LEMMA LeastElement ==
    ASSUME NEW T \in SUBSET Nat, T # {}
    PROVE  \E m \in T : \A k \in T : m <= k
<1> DEFINE Less == {p \in Nat \X Nat : p[1] < p[2]}
<1>1. IsWellFoundedOn(Less, Nat)
    BY NatLessThanWellFounded DEF OpToRel
<1> HIDE DEF Less
<1>2. PICK m \in T : \A k \in T : ~(<<k, m>> \in Less)
    BY <1>1, WFMin
<1>3. ASSUME NEW k \in T PROVE m <= k
    <2>1. ~(<<k, m>> \in Less) /\ k \in Nat /\ m \in Nat
        BY <1>2
    <2>2. QED
        BY <2>1 DEF Less
<1>4. QED
    BY <1>3

\* Induction up to n, for a set.
LEMMA UpTo ==
    ASSUME NEW n \in Nat, NEW G, 0 \in G, \A k \in 0 .. n - 1 : k \in G => k + 1 \in G
    PROVE  \A k \in 0 .. n : k \in G
<1> DEFINE T == {k \in 0 .. n : k \notin G}
<1> SUFFICES ASSUME T # {} PROVE FALSE
    OBVIOUS
<1>1. T \in SUBSET Nat
    OBVIOUS
<1> HIDE DEF T
<1>2. PICK m \in T : \A k \in T : m <= k
    BY <1>1, LeastElement
<1>3. m \in 0 .. n /\ m \notin G /\ m # 0
    BY <1>2 DEF T
<1>4. m - 1 \in 0 .. n - 1 /\ m - 1 \notin T /\ (m - 1) + 1 = m
    BY <1>2, <1>3
<1>5. m - 1 \in G
    BY <1>4 DEF T
<1>6. QED
    BY <1>3, <1>4, <1>5

\* The screens between the characters of a text: vga_print is their sequence.
LEMMA PrintLoop ==
    ASSUME NEW s, NEW str, Len(str) \in Nat
    PROVE  \E g : /\ g[0] = s
                  /\ \A k \in 1 .. Len(str) : g[k] = vga_putc(g[k - 1], str[k])
                  /\ vga_print(s, str) = g[Len(str)]
<1> DEFINE n == Len(str)
           Def(f, m) == [k \in 0 .. m |-> IF k = 0 THEN s ELSE vga_putc(f[k - 1], str[k])]
           Defined == {m \in 0 .. n : \E f : f = Def(f, m)}
<1>1. n \in Defined
    <2>1. 0 \in Defined
        <3> DEFINE f == [k \in 0 .. 0 |-> s]
        <3>1. f = Def(f, 0)
            OBVIOUS
        <3> HIDE DEF f
        <3>2. 0 \in 0 .. n
            OBVIOUS
        <3>3. QED
            BY <3>1, <3>2
    <2>2. ASSUME NEW l \in 0 .. n - 1, l \in Defined PROVE l + 1 \in Defined
        <3> DEFINE m == l + 1
        <3>1. l \in Nat /\ m \in 0 .. n /\ m # 0 /\ m - 1 = l /\ m \in Nat
            OBVIOUS
        <3> HIDE DEF m
        <3>2. PICK f : f = Def(f, l)
            BY <2>2
        <3> DEFINE g == [k \in 0 .. m |-> IF k = m THEN vga_putc(f[l], str[m]) ELSE f[k]]
        <3>3. ASSUME NEW k \in 0 .. m
              PROVE  g[k] = IF k = 0 THEN s ELSE vga_putc(g[k - 1], str[k])
            <4>1. CASE k = 0
                BY <3>1, <3>2, <4>1
            <4>2. CASE k # 0
                <5>1. k - 1 \in 0 .. m /\ k - 1 # m /\ k \in Nat
                    BY <3>1, <4>2
                <5>2. g[k - 1] = f[k - 1]
                    BY <5>1
                <5>3. CASE k = m
                    BY <3>1, <5>2, <5>3
                <5>4. CASE k # m
                    <6>1. k \in 0 .. l
                        BY <3>1, <5>4
                    <6>2. f[k] = vga_putc(f[k - 1], str[k])
                        BY <3>2, <6>1, <4>2
                    <6>3. QED
                        BY <4>2, <5>2, <5>4, <6>2
                <5>5. QED
                    BY <5>3, <5>4
            <4>3. QED
                BY <4>1, <4>2
        <3> HIDE DEF g
        <3>4. g = Def(g, m)
            BY <3>3 DEF g
        <3>5. QED
            BY <3>1, <3>4 DEF m
    <2> HIDE DEF Defined
    <2>3. n \in Nat
        OBVIOUS
    <2> HIDE DEF n
    <2>4. \A m \in 0 .. n : m \in Defined
        BY <2>1, <2>2, <2>3, UpTo
    <2>5. QED
        BY <2>3, <2>4
<1>2. \E f : f = Def(f, n)
    BY <1>1
<1> DEFINE h == CHOOSE f : f = Def(f, n)
<1>3. h = Def(h, n)
    BY <1>2
<1>4. vga_print(s, str) = h[n]
    BY DEF vga_print
<1> HIDE DEF h
<1>5. h[0] = s /\ \A k \in 1 .. n : h[k] = vga_putc(h[k - 1], str[k])
    BY <1>3
<1>6. QED
    BY <1>4, <1>5

-----------------------------------------------------------------------------
(* The screen's geometry.                                                  *)

Shades  == Glyphs \cup {Unset}
Screens == [x : Cols, y : Rows, buf : [Rows -> [Cols -> Shades]],
            lines : Seq([Cols -> Shades]), line_number : Nat]

\* The reserved rows 0 and 1, and the areas in them, lie on the screen.
LEMMA Geometry ==
    /\ Width \in Nat /\ Height \in Nat /\ KeyCol \in Nat /\ ClockCol \in Nat
    /\ 3 <= Height /\ Height <= KeyCol
    /\ Width = KeyCol + 15 /\ Width = ClockCol + 10
    /\ Rows \subseteq Nat /\ Cols \subseteq Nat
    /\ 0 \in Rows /\ 1 \in Rows /\ 2 \in Rows /\ 0 \in Cols
    /\ KeyCol \in Cols /\ ClockCol \in Cols
BY GeometryAssumption, AreaAssumption DEF Rows, Cols

\* The arguments of reserved are swapped: no cell of the screen passes its test.
LEMMA NeverReserved == \A e, y : y \in Rows => ~reserved(e, y)
BY Geometry DEF reserved, Rows

\* A line of blanks and a line that was never written are lines.
LEMMA LineTypes == BlankLine \in [Cols -> Shades] /\ UnsetLine \in [Cols -> Shades]
BY DEF BlankLine, UnsetLine, Shades, Glyphs

\* The cells of the areas are cells of rows 0 and 1 that draw_buffer leaves out.
LEMMA AreaFacts ==
    \A p \in ReservedArea : /\ p[1] \in Rows /\ p[2] \in Cols /\ p[1] < 2
                            /\ ~Copied(p[1], p[2])
<1> SUFFICES ASSUME NEW p \in ReservedArea
             PROVE  /\ p[1] \in Rows /\ p[2] \in Cols /\ p[1] < 2
                    /\ ~Copied(p[1], p[2])
    OBVIOUS
<1>1. \/ p[1] = 0 /\ p[2] \in ClockCol .. Width - 1
      \/ p[1] = 1 /\ p[2] \in KeyCol .. Width - 1
    BY DEF ReservedArea
<1>2. CASE p[1] = 0 /\ p[2] \in ClockCol .. Width - 1
    <2>1. ClockCol \in 0 .. p[2] /\ reserved(p[1], ClockCol) /\ p[2] \in Cols
        BY <1>2, Geometry DEF reserved, Cols
    <2>2. QED
        BY <1>2, <2>1, Geometry DEF Copied
<1>3. CASE p[1] = 1 /\ p[2] \in KeyCol .. Width - 1
    <2>1. KeyCol \in 0 .. p[2] /\ reserved(p[1], KeyCol) /\ p[2] \in Cols
        BY <1>3, Geometry DEF reserved, Cols
    <2>2. QED
        BY <1>3, <2>1, Geometry DEF Copied
<1>4. QED
    BY <1>1, <1>2, <1>3

\* The reserved areas of the screen r show what those of s show.
SameAreas(s, r) == \A p \in ReservedArea : r.buf[p[1]][p[2]] = s.buf[p[1]][p[2]]

-----------------------------------------------------------------------------
(* Saving, drawing and scrolling.                                          *)

\* The screen s with the saved lines l, or with m as the number of its top line.
LinesSet(s, l)  == [s EXCEPT !.lines = l]
NumberSet(s, m) == [s EXCEPT !.line_number = m]

\* Other saved lines, or another number of the top line, leave the rest alone.
LEMMA ScreenWith ==
    ASSUME NEW s \in Screens
    PROVE  /\ \A l \in Seq([Cols -> Shades]) :
                 LET r == LinesSet(s, l) IN
                 /\ r \in Screens /\ r.x = s.x /\ r.y = s.y /\ r.buf = s.buf
                 /\ r.line_number = s.line_number
           /\ \A m \in Nat :
                 LET r == NumberSet(s, m) IN
                 /\ r \in Screens /\ r.x = s.x /\ r.y = s.y /\ r.buf = s.buf
                 /\ r.line_number = m
<1> DEFINE Lines == [Cols -> Shades]
           Buffers == [Rows -> Lines]
           All == Seq(Lines)
<1>1. s \in [x : Cols, y : Rows, buf : Buffers, lines : All, line_number : Nat]
    BY DEF Screens
<1> HIDE DEF Lines, Buffers, All
<1>2. ASSUME NEW l \in All
      PROVE  LET r == LinesSet(s, l) IN
             /\ r \in [x : Cols, y : Rows, buf : Buffers, lines : All, line_number : Nat]
             /\ r.x = s.x /\ r.y = s.y /\ r.buf = s.buf /\ r.line_number = s.line_number
    BY <1>1 DEF LinesSet
<1>3. ASSUME NEW m \in Nat
      PROVE  LET r == NumberSet(s, m) IN
             /\ r \in [x : Cols, y : Rows, buf : Buffers, lines : All, line_number : Nat]
             /\ r.x = s.x /\ r.y = s.y /\ r.buf = s.buf /\ r.line_number = m
    BY <1>1 DEF NumberSet
<1>4. Screens = [x : Cols, y : Rows, buf : Buffers, lines : All, line_number : Nat]
    BY DEF Screens, Lines, Buffers, All
<1>5. All = Seq([Cols -> Shades])
    BY DEF All, Lines
<1>6. QED
    BY <1>2, <1>3, <1>4, <1>5

\* Saving the top line in the array of lines leaves the screen as it is.
LEMMA SaveKeeps ==
    ASSUME NEW s \in Screens
    PROVE  LET r == save_buffer(s) IN
           /\ r \in Screens /\ r.x = s.x /\ r.y = s.y /\ r.buf = s.buf
           /\ r.line_number = s.line_number
<1> DEFINE n == Len(s.lines)
           Saved(k) == LET i == k - 1 - s.line_number
                       IN  IF i \in Rows
                           THEN [j \in Cols |-> IF Copied(i, j) THEN s.buf[i][j]
                                                                ELSE s.lines[k][j]]
                           ELSE s.lines[k]
           L == [k \in 1 .. n |-> Saved(k)]
<1>1. /\ s.lines \in Seq([Cols -> Shades]) /\ n \in Nat
      /\ s.buf \in [Rows -> [Cols -> Shades]]
    BY DEF Screens
<1>2. save_buffer(s) = [s EXCEPT !.lines = L]
    BY DEF save_buffer
<1>3. ASSUME NEW k \in 1 .. n PROVE Saved(k) \in [Cols -> Shades]
    <2>1. s.lines[k] \in [Cols -> Shades]
        BY <1>1
    <2>2. QED
        BY <1>1, <2>1
<1> HIDE DEF Saved
<1>4. L \in Seq([Cols -> Shades])
    BY <1>1, <1>3
<1> HIDE DEF L
<1>5. QED
    BY <1>2, <1>4 DEF Screens

\* Drawing the lines writes no cell of a reserved area.
LEMMA DrawKeeps ==
    ASSUME NEW s \in Screens
    PROVE  LET r == draw_buffer(s) IN
           /\ r \in Screens /\ r.x = s.x /\ r.y = s.y
           /\ r.line_number = s.line_number /\ SameAreas(s, r)
<1> DEFINE Drawn(i) == [j \in Cols |-> IF Copied(i, j) THEN LineAt(s, i)[j] ELSE s.buf[i][j]]
           B == [i \in Rows |-> Drawn(i)]
<1>1. s.lines \in Seq([Cols -> Shades]) /\ s.buf \in [Rows -> [Cols -> Shades]]
    BY DEF Screens
<1>2. draw_buffer(s) = [s EXCEPT !.buf = B]
    BY DEF draw_buffer
<1>3. ASSUME NEW i \in Rows
      PROVE  /\ Drawn(i) \in [Cols -> Shades]
             /\ \A j \in Cols : ~Copied(i, j) => Drawn(i)[j] = s.buf[i][j]
    <2>1. LineAt(s, i) \in [Cols -> Shades]
        BY <1>1, LineTypes DEF LineAt
    <2>2. QED
        BY <1>1, <2>1
<1> HIDE DEF Drawn
<1>4. B \in [Rows -> [Cols -> Shades]] /\ \A i \in Rows : B[i] = Drawn(i)
    BY <1>3
<1> HIDE DEF B
<1>5. /\ draw_buffer(s) \in Screens /\ draw_buffer(s).buf = B
      /\ draw_buffer(s).x = s.x /\ draw_buffer(s).y = s.y
      /\ draw_buffer(s).line_number = s.line_number
    BY <1>2, <1>4 DEF Screens
<1>6. SameAreas(s, draw_buffer(s))
    BY <1>3, <1>4, <1>5, AreaFacts DEF SameAreas
<1>7. QED
    BY <1>5, <1>6

\* Nor does scrolling down, which may save a line first.
LEMMA ScrollDownKeeps ==
    ASSUME NEW s \in Screens
    PROVE  LET r == vga_scroll_down(s) IN
           /\ r \in Screens /\ r.x = s.x /\ r.y = s.y
           /\ r.line_number = s.line_number + 1 /\ SameAreas(s, r)
<1> DEFINE a == save_buffer(s)
           b == WithNextLine(a)
           c == [b EXCEPT !.line_number = @ + 1]
<1>1. /\ a \in Screens /\ a.x = s.x /\ a.y = s.y /\ a.buf = s.buf
      /\ a.line_number = s.line_number
    BY SaveKeeps
<1> HIDE DEF a
<1>2. /\ b \in Screens /\ b.x = s.x /\ b.y = s.y /\ b.buf = s.buf
      /\ b.line_number = s.line_number
    <2> DEFINE L == Append(a.lines, BlankLine)
    <2>1. L \in Seq([Cols -> Shades])
        BY <1>1, LineTypes DEF Screens
    <2> HIDE DEF L
    <2>2. b = a \/ b = LinesSet(a, L)
        BY DEF WithNextLine, LinesSet, L
    <2>3. QED
        BY <1>1, <2>1, <2>2, ScreenWith
<1> HIDE DEF b
<1>3. /\ c \in Screens /\ c.x = s.x /\ c.y = s.y /\ c.buf = s.buf
      /\ c.line_number = s.line_number + 1
    <2> DEFINE m == b.line_number + 1
    <2>1. m \in Nat /\ m = s.line_number + 1
        BY <1>2 DEF Screens
    <2>2. c = NumberSet(b, m)
        BY DEF NumberSet
    <2> HIDE DEF c, m
    <2>3. QED
        BY <1>2, <2>1, <2>2, ScreenWith
<1> HIDE DEF c
<1>4. vga_scroll_down(s) = draw_buffer(c)
    BY DEF vga_scroll_down, a, b, c
<1>5. QED
    BY <1>3, <1>4, DrawKeeps DEF SameAreas

\* Nor does scrolling up.
LEMMA ScrollUpKeeps ==
    ASSUME NEW s \in Screens
    PROVE  LET r == vga_scroll_up(s) IN
           /\ r \in Screens /\ r.x = s.x /\ r.y = s.y /\ SameAreas(s, r)
           /\ r # s => r.line_number # s.line_number
<1>1. CASE s.line_number = 0
    BY <1>1 DEF vga_scroll_up, SameAreas
<1>2. CASE s.line_number # 0
    <2> DEFINE a == save_buffer(s)
               c == [a EXCEPT !.line_number = @ - 1]
    <2>1. /\ a \in Screens /\ a.x = s.x /\ a.y = s.y /\ a.buf = s.buf
          /\ a.line_number = s.line_number
        BY SaveKeeps
    <2>2. s.line_number - 1 \in Nat /\ s.line_number - 1 # s.line_number
        BY <1>2 DEF Screens
    <2> HIDE DEF a
    <2>3. /\ c \in Screens /\ c.x = s.x /\ c.y = s.y /\ c.buf = s.buf
          /\ c.line_number = s.line_number - 1
        BY <2>1, <2>2 DEF Screens
    <2> HIDE DEF c
    <2>4. vga_scroll_up(s) = draw_buffer(c)
        BY <1>2 DEF vga_scroll_up, a, c
    <2>5. QED
        BY <2>2, <2>3, <2>4, DrawKeeps DEF SameAreas
<1>3. QED
    BY <1>1, <1>2

-----------------------------------------------------------------------------
(* A character.                                                            *)

\* In the middle of vga_putc the cursor may be past the end of its row.
Midway == [x : Nat, y : Rows, buf : [Rows -> [Cols -> Shades]],
           lines : Seq([Cols -> Shades]), line_number : Nat]

\* Where the cursor goes from column x of row y, if the screen does not scroll.
NextX(x)    == IF x + 1 >= Width THEN 0 ELSE x + 1
NextY(x, y) == IF x + 1 >= Width THEN y + 1 ELSE y

\* The cursor stays on the screen: it moves on, to the next row, or the screen
\* scrolls.
LEMMA AdvanceFacts ==
    ASSUME NEW u \in Midway
    PROVE  /\ u.y + 1 < Height =>
                 /\ Advance(u) = [u EXCEPT !.x = NextX(u.x), !.y = NextY(u.x, u.y)]
                 /\ NextX(u.x) \in Cols /\ NextY(u.x, u.y) \in Rows
           /\ u.y >= 2 =>
                 Advance(u) \in Screens /\ Advance(u).y >= 2 /\ SameAreas(u, Advance(u))
<1>1. /\ u.x \in Nat /\ u.y \in Rows /\ u.y \in Nat /\ ~reserved(u.x + 1, u.y)
      /\ u.y < Height
    BY NeverReserved, Geometry DEF Midway, Rows
<1>2. CASE u.x + 1 >= Width /\ u.y + 1 >= Height
    <2> DEFINE t == [u EXCEPT !.x = 0]
    <2>1. t \in Screens /\ t.buf = u.buf /\ t.y = u.y
        BY Geometry DEF Midway, Screens
    <2> HIDE DEF t
    <2>2. Advance(u) = vga_scroll_down(t)
        BY <1>2 DEF Advance, NextRow, t
    <2>3. ~(u.y + 1 < Height)
        BY <1>1, <1>2, Geometry
    <2>4. QED
        BY <2>1, <2>2, <2>3, ScrollDownKeeps DEF SameAreas
<1>3. CASE u.x + 1 >= Width /\ ~(u.y + 1 >= Height)
    <2> DEFINE t == [u EXCEPT !.x = 0, !.y = @ + 1]
    <2>1. u.y + 1 \in Rows /\ (u.y >= 2 => u.y + 1 >= 2)
        BY <1>1, <1>3, Geometry DEF Rows
    <2>2. t \in Screens /\ t.buf = u.buf /\ t.y = u.y + 1
        BY <2>1, Geometry DEF Midway, Screens
    <2>3. Advance(u) = t
        BY <1>3 DEF Advance, NextRow
    <2>4. t = [u EXCEPT !.x = NextX(u.x), !.y = NextY(u.x, u.y)]
        BY <1>3 DEF NextX, NextY, Midway
    <2> HIDE DEF t
    <2>5. QED
        BY <1>3, <2>1, <2>2, <2>3, <2>4, Geometry DEF NextX, NextY, SameAreas
<1>4. CASE ~(u.x + 1 >= Width)
    <2> DEFINE t == [u EXCEPT !.x = @ + 1]
    <2>1. u.x + 1 \in Cols
        BY <1>1, <1>4, Geometry DEF Cols
    <2>2. t \in Screens /\ t.buf = u.buf /\ t.y = u.y
        BY <2>1 DEF Midway, Screens
    <2>3. Advance(u) = t
        BY <1>1, <1>4 DEF Advance
    <2>4. t = [u EXCEPT !.x = NextX(u.x), !.y = NextY(u.x, u.y)]
        BY <1>4 DEF NextX, NextY, Midway
    <2> HIDE DEF t
    <2>5. QED
        BY <1>1, <1>4, <2>1, <2>2, <2>3, <2>4 DEF NextX, NextY, SameAreas
<1>5. QED
    BY <1>2, <1>3, <1>4

\* What vga_putc hands to Advance: the cursor's row is written, from the cursor on.
LEMMA PutFacts ==
    ASSUME NEW s \in Screens, NEW c \in Glyphs \cup {Newline}
    PROVE  \E u \in Midway :
              /\ vga_putc(s, c) = Advance(u)
              /\ u.y = s.y /\ u.lines = s.lines /\ u.line_number = s.line_number
              /\ \A i \in Rows \ {s.y} : u.buf[i] = s.buf[i]
              /\ c = Newline => u.x = Width
              /\ c # Newline => u = [s EXCEPT !.buf = [s.buf EXCEPT ![s.y] =
                                                 [s.buf[s.y] EXCEPT ![s.x] = c]]]
<1>1. /\ s.x \in Cols /\ s.y \in Rows /\ s.x \in Nat /\ s.x <= Width
      /\ s.buf \in [Rows -> [Cols -> Shades]] /\ s.buf[s.y] \in [Cols -> Shades]
    <2>1. s.x \in Cols /\ s.y \in Rows /\ s.buf \in [Rows -> [Cols -> Shades]]
        BY DEF Screens
    <2>2. s.x \in Nat /\ s.x <= Width
        BY <2>1, Geometry DEF Cols
    <2>3. QED
        BY <2>1, <2>2
<1>2. CASE c = Newline
    <2> DEFINE end == CHOOSE e \in s.x .. Width :
                         /\ e = Width \/ reserved(e, s.y)
                         /\ \A j \in s.x .. e - 1 : ~reserved(j, s.y)
               R == [j \in Cols |-> IF j \in s.x .. end - 1 THEN Blank ELSE s.buf[s.y][j]]
               u == [s EXCEPT !.x = end, !.buf[s.y] = R]
    <2>1. end = Width
        <3>1. \A e : ~reserved(e, s.y)
            BY <1>1, NeverReserved
        <3>2. Width \in s.x .. Width
            BY <1>1, Geometry
        <3>3. QED
            BY <3>1, <3>2
    <2>2. vga_putc(s, c) = Advance(u)
        BY <1>2 DEF vga_putc, LineFeed
    <2> HIDE DEF end
    <2>3. R \in [Cols -> Shades]
        BY <1>1 DEF Shades, Glyphs
    <2> HIDE DEF R
    <2>4. /\ u \in Midway /\ u.lines = s.lines /\ u.line_number = s.line_number
          /\ u.y = s.y /\ u.x = Width /\ u.buf = [s.buf EXCEPT ![s.y] = R]
        BY <1>1, <2>1, <2>3, Geometry DEF Screens, Midway
    <2> HIDE DEF u
    <2>5. \A i \in Rows \ {s.y} : u.buf[i] = s.buf[i]
        BY <1>1, <2>4
    <2>6. QED
        BY <1>2, <2>2, <2>4, <2>5
<1>3. CASE c # Newline
    <2> DEFINE R == [s.buf[s.y] EXCEPT ![s.x] = c]
               u == [s EXCEPT !.buf = [s.buf EXCEPT ![s.y] = R]]
    <2>1. ~reserved(s.x, s.y)
        BY <1>1, NeverReserved
    <2>2. vga_putc(s, c) = Advance(u)
        BY <1>3, <2>1 DEF vga_putc, Glyph
    <2>3. R \in [Cols -> Shades]
        BY <1>1, <1>3 DEF Shades
    <2>4. u = [s EXCEPT !.buf = [s.buf EXCEPT ![s.y] = [s.buf[s.y] EXCEPT ![s.x] = c]]]
        OBVIOUS
    <2> HIDE DEF R
    <2>5. /\ u \in Midway /\ u.lines = s.lines /\ u.line_number = s.line_number
          /\ u.y = s.y /\ u.buf = [s.buf EXCEPT ![s.y] = R]
        BY <1>1, <2>3, Geometry DEF Screens, Midway
    <2> HIDE DEF u
    <2>6. \A i \in Rows \ {s.y} : u.buf[i] = s.buf[i]
        BY <1>1, <2>5
    <2>7. QED
        BY <1>3, <2>2, <2>4, <2>5, <2>6
<1>4. QED
    BY <1>2, <1>3

\* Below the reserved rows a character leaves both areas alone.
LEMMA PutBelow ==
    ASSUME NEW s \in Screens, s.y >= 2, NEW c \in Glyphs \cup {Newline}
    PROVE  LET r == vga_putc(s, c)
           IN  r \in Screens /\ r.y >= 2 /\ SameAreas(s, r)
<1>1. PICK u \in Midway : /\ vga_putc(s, c) = Advance(u) /\ u.y = s.y
                          /\ \A i \in Rows \ {s.y} : u.buf[i] = s.buf[i]
    BY PutFacts
<1>2. SameAreas(s, u)
    <2>1. ASSUME NEW p \in ReservedArea PROVE p[1] \in Rows \ {s.y}
        <3>1. p[1] \in Rows /\ p[1] < 2
            BY AreaFacts
        <3>2. p[1] # s.y
            <4>1. s.y \in Nat /\ p[1] \in Nat
                BY <3>1, Geometry DEF Screens
            <4>2. QED
                BY <3>1, <4>1
        <3>3. QED
            BY <3>1, <3>2
    <2>2. QED
        BY <1>1, <2>1 DEF SameAreas
<1>3. Advance(u) \in Screens /\ Advance(u).y >= 2 /\ SameAreas(u, Advance(u))
    BY <1>1, AdvanceFacts
<1>4. QED
    BY <1>1, <1>2, <1>3 DEF SameAreas

\* A character that does not fill the last row.
LEMMA PutGlyph ==
    ASSUME NEW s \in Screens, s.y + 1 < Height, NEW c \in Glyphs
    PROVE  /\ vga_putc(s, c) \in Screens
           /\ vga_putc(s, c) =
                 [s EXCEPT !.x = NextX(s.x), !.y = NextY(s.x, s.y),
                           !.buf = [s.buf EXCEPT ![s.y] = [s.buf[s.y] EXCEPT ![s.x] = c]]]
<1>1. c # Newline
    BY GlyphAssumption
<1>2. PICK u \in Midway :
          /\ vga_putc(s, c) = Advance(u) /\ u.y = s.y
          /\ u = [s EXCEPT !.buf = [s.buf EXCEPT ![s.y] = [s.buf[s.y] EXCEPT ![s.x] = c]]]
    BY <1>1, PutFacts
<1>3. u.x = s.x
    BY <1>2 DEF Screens
<1>4. /\ Advance(u) = [u EXCEPT !.x = NextX(s.x), !.y = NextY(s.x, s.y)]
      /\ NextX(s.x) \in Cols /\ NextY(s.x, s.y) \in Rows
    BY <1>2, <1>3, AdvanceFacts
<1>5. [u EXCEPT !.x = NextX(s.x), !.y = NextY(s.x, s.y)] \in Screens
    BY <1>4 DEF Midway, Screens
<1> DEFINE B == [s.buf EXCEPT ![s.y] = [s.buf[s.y] EXCEPT ![s.x] = c]]
<1> HIDE DEF B
<1>6. u = [s EXCEPT !.buf = B]
    BY <1>2 DEF B
<1>7. [u EXCEPT !.x = NextX(s.x), !.y = NextY(s.x, s.y)] =
          [s EXCEPT !.x = NextX(s.x), !.y = NextY(s.x, s.y), !.buf = B]
    BY <1>6 DEF Screens
<1>8. /\ vga_putc(s, c) = [s EXCEPT !.x = NextX(s.x), !.y = NextY(s.x, s.y), !.buf = B]
      /\ vga_putc(s, c) \in Screens
    BY <1>2, <1>4, <1>5, <1>7
<1>9. QED
    BY <1>8 DEF B

\* A newline above the last row.
LEMMA PutNewline ==
    ASSUME NEW s \in Screens, s.y + 1 < Height
    PROVE  LET r == vga_putc(s, Newline)
           IN  r \in Screens /\ r.x = 0 /\ r.y = s.y + 1 /\ r.line_number = s.line_number
<1>1. PICK u \in Midway : /\ vga_putc(s, Newline) = Advance(u) /\ u.y = s.y /\ u.x = Width
                          /\ u.line_number = s.line_number
    <2> DEFINE c == Newline
    <2>1. c \in Glyphs \cup {Newline} /\ c = Newline
        OBVIOUS
    <2> HIDE DEF c
    <2>2. \E u \in Midway : /\ vga_putc(s, c) = Advance(u) /\ u.y = s.y /\ u.x = Width
                            /\ u.line_number = s.line_number
        BY <2>1, PutFacts
    <2>3. QED
        BY <2>1, <2>2
<1>2. NextX(Width) = 0 /\ NextY(Width, s.y) = s.y + 1
    BY Geometry DEF NextX, NextY
<1>3. /\ Advance(u) = [u EXCEPT !.x = 0, !.y = s.y + 1] /\ 0 \in Cols /\ s.y + 1 \in Rows
    BY <1>1, <1>2, AdvanceFacts
<1>4. QED
    BY <1>1, <1>3 DEF Midway, Screens

-----------------------------------------------------------------------------
(* A text.                                                                 *)

\* A text printed below the reserved rows stays below them.
LEMMA PrintBelow ==
    ASSUME NEW s \in Screens, s.y >= 2, NEW str \in Seq(Glyphs \cup {Newline})
    PROVE  LET r == vga_print(s, str)
           IN  r \in Screens /\ r.y >= 2 /\ SameAreas(s, r)
<1> DEFINE n == Len(str)
<1>1. n \in Nat /\ \A k \in 1 .. n : str[k] \in Glyphs \cup {Newline}
    OBVIOUS
<1>2. PICK g : /\ g[0] = s
               /\ \A k \in 1 .. n : g[k] = vga_putc(g[k - 1], str[k])
               /\ vga_print(s, str) = g[n]
    BY <1>1, PrintLoop
<1> DEFINE Good(t) == t \in Screens /\ t.y >= 2 /\ SameAreas(s, t)
           G == {k \in 0 .. n : Good(g[k])}
<1>3. 0 \in G
    BY <1>1, <1>2 DEF SameAreas
<1>4. ASSUME NEW k \in 0 .. n - 1, k \in G PROVE k + 1 \in G
    <2>1. k + 1 \in 1 .. n /\ (k + 1) - 1 = k
        BY <1>1
    <2>2. g[k + 1] = vga_putc(g[k], str[k + 1]) /\ str[k + 1] \in Glyphs \cup {Newline}
        BY <1>1, <1>2, <2>1
    <2>3. g[k] \in Screens /\ g[k].y >= 2 /\ SameAreas(s, g[k])
        BY <1>4
    <2>4. /\ g[k + 1] \in Screens /\ g[k + 1].y >= 2 /\ SameAreas(g[k], g[k + 1])
        BY <2>2, <2>3, PutBelow
    <2>5. SameAreas(s, g[k + 1])
        BY <2>3, <2>4 DEF SameAreas
    <2>6. QED
        BY <2>1, <2>4, <2>5
<1> HIDE DEF G, n
<1>5. n \in G
    <2>1. \A k \in 0 .. n : k \in G
        BY <1>1, <1>3, <1>4, UpTo
    <2>2. QED
        BY <1>1, <2>1
<1>6. QED
    BY <1>2, <1>5 DEF G

\* A log line written below the reserved rows leaves both areas alone.
LEMMA LoggedBelow ==
    ASSUME NEW s \in Screens, s.y >= 2, NEW n \in Nat
    PROVE  LET r == Logged(s, n)
           IN  r \in Screens /\ r.y >= 2 /\ SameAreas(s, r)
<1>1. Append(Repeat(ink, n), Newline) \in Seq(Glyphs \cup {Newline})
    <2>1. ink \in Glyphs \cup {Newline}
        BY DEF Glyphs
    <2>2. Repeat(ink, n) \in Seq(Glyphs \cup {Newline})
        BY <2>1 DEF Repeat
    <2>3. QED
        BY <2>2
<1>2. QED
    BY <1>1, PrintBelow DEF Logged

\* Row w of the screen after the first k characters of str from column v on.
Written(row, v, str, k) ==
    [j \in Cols |-> IF j \in v .. v + k - 1 THEN str[j - v + 1] ELSE row[j]]

\* A text that fits its row, printed from column v of row w on, writes just the
\* cells of the text: cursor, lines and the other cells are as before.
LEMMA PrintInRow ==
    ASSUME NEW s \in Screens, NEW v \in Cols, NEW w \in Rows, w + 1 < Height,
           NEW str \in Seq(Glyphs), v + Len(str) <= Width
    PROVE  /\ PrintedAt(s, v, w, str) \in Screens
           /\ PrintedAt(s, v, w, str) =
                 [s EXCEPT !.buf = [s.buf EXCEPT ![w] = Written(s.buf[w], v, str, Len(str))]]
<1> DEFINE n == Len(str)
           X(k) == IF v + k < Width THEN v + k ELSE 0
           Y(k) == IF v + k < Width THEN w ELSE w + 1
           B(k) == [s.buf EXCEPT ![w] = Written(s.buf[w], v, str, k)]
           After(k) == [s EXCEPT !.x = X(k), !.y = Y(k), !.buf = B(k)]
           t == vga_set_y(vga_set_x(s, v), w)
<1>1. /\ n \in Nat /\ \A k \in 1 .. n : str[k] \in Glyphs
      /\ v \in Nat /\ w \in Nat /\ v < Width /\ Width \in Nat /\ Height \in Nat
    BY Geometry DEF Cols
<1>2. /\ s.x \in Cols /\ s.y \in Rows /\ s.x < Width /\ s.y < Height
      /\ s.buf \in [Rows -> [Cols -> Shades]] /\ s.buf[w] \in [Cols -> Shades]
    <2>1. s.x \in Cols /\ s.y \in Rows /\ s.buf \in [Rows -> [Cols -> Shades]]
        BY DEF Screens
    <2>2. QED
        BY <2>1, Geometry DEF Cols, Rows
<1>3. ASSUME NEW k \in 0 .. n
      PROVE  /\ Written(s.buf[w], v, str, k) \in [Cols -> Shades]
             /\ B(k) \in [Rows -> [Cols -> Shades]]
             /\ B(k)[w] = Written(s.buf[w], v, str, k)
    <2>1. \A j \in Cols : j \in v .. v + k - 1 => str[j - v + 1] \in Shades
        BY <1>1 DEF Shades
    <2>2. Written(s.buf[w], v, str, k) \in [Cols -> Shades]
        BY <1>2, <2>1 DEF Written
    <2>3. QED
        BY <1>2, <2>2
<1>4. ASSUME NEW k \in 0 .. n PROVE X(k) \in Cols /\ Y(k) \in Rows
    BY <1>1, Geometry DEF Cols, Rows
<1> HIDE DEF B, X, Y
<1>5. ASSUME NEW k \in 0 .. n
      PROVE  /\ After(k) \in Screens /\ After(k).x = X(k) /\ After(k).y = Y(k)
             /\ After(k).buf = B(k)
    BY <1>3, <1>4 DEF Screens
<1>6. t = After(0)
    <2>1. X(0) = v /\ Y(0) = w
        BY <1>1 DEF X, Y
    <2>2. Written(s.buf[w], v, str, 0) = s.buf[w]
        <3>1. \A j \in Cols : ~(j \in v .. v + 0 - 1)
            BY <1>1
        <3>2. QED
            BY <1>2, <3>1 DEF Written
    <2>3. B(0) = s.buf
        BY <1>2, <2>2 DEF B
    <2>4. vga_set_x(s, v) = [s EXCEPT !.x = v]
        BY <1>2 DEF vga_set_x
    <2>5. [s EXCEPT !.x = v].y = s.y
        BY DEF Screens
    <2>6. t = [[s EXCEPT !.x = v] EXCEPT !.y = w]
        BY <1>2, <2>4, <2>5 DEF vga_set_y
    <2>7. QED
        BY <2>1, <2>3, <2>6 DEF Screens
<1> HIDE DEF t
<1>7. PICK g : /\ g[0] = t
               /\ \A k \in 1 .. n : g[k] = vga_putc(g[k - 1], str[k])
               /\ vga_print(t, str) = g[n]
    BY <1>1, PrintLoop
<1> DEFINE G == {k \in 0 .. n : g[k] = After(k)}
<1>8. 0 \in G
    BY <1>1, <1>6, <1>7
<1>9. ASSUME NEW k \in 0 .. n - 1, k \in G PROVE k + 1 \in G
    <2>1. /\ k \in 0 .. n /\ k + 1 \in 1 .. n /\ (k + 1) - 1 = k /\ v + k < Width
          /\ k \in Nat /\ k + 1 \in 0 .. n
        BY <1>1
    <2>2. /\ g[k + 1] = vga_putc(After(k), str[k + 1]) /\ str[k + 1] \in Glyphs
        BY <1>1, <1>7, <1>9, <2>1
    <2>3. X(k) = v + k /\ Y(k) = w
        BY <2>1 DEF X, Y
    <2>4. /\ After(k) \in Screens /\ After(k).x = v + k /\ After(k).y = w
          /\ After(k).buf = B(k) /\ B(k)[w] = Written(s.buf[w], v, str, k)
        BY <1>3, <1>5, <2>1, <2>3
    <2> DEFINE D == [B(k) EXCEPT ![w] = [B(k)[w] EXCEPT ![v + k] = str[k + 1]]]
    <2>5. vga_putc(After(k), str[k + 1]) =
              [After(k) EXCEPT !.x = NextX(v + k), !.y = NextY(v + k, w), !.buf = D]
        <3> DEFINE a == After(k)
        <3>1. a \in Screens /\ a.x = v + k /\ a.y = w /\ a.buf = B(k)
            BY <2>4
        <3> HIDE DEF a
        <3>2. vga_putc(a, str[k + 1]) =
                 [a EXCEPT !.x = NextX(a.x), !.y = NextY(a.x, a.y),
                           !.buf = [a.buf EXCEPT ![a.y] = [a.buf[a.y] EXCEPT ![a.x] = str[k + 1]]]]
            BY <2>2, <3>1, PutGlyph
        <3>3. vga_putc(a, str[k + 1]) =
                 [a EXCEPT !.x = NextX(v + k), !.y = NextY(v + k, w), !.buf = D]
            BY <3>1, <3>2
        <3>4. QED
            BY <3>3 DEF a
    <2>6. NextX(v + k) = X(k + 1) /\ NextY(v + k, w) = Y(k + 1)
        BY <1>1, <2>1 DEF NextX, NextY, X, Y
    <2>7. D = B(k + 1)
        <3>1. [Written(s.buf[w], v, str, k) EXCEPT ![v + k] = str[k + 1]]
                 = Written(s.buf[w], v, str, k + 1)
            <4>1. ASSUME NEW j \in Cols
                  PROVE  /\ j = v + k => j \in v .. v + (k + 1) - 1 /\ j - v + 1 = k + 1
                         /\ j # v + k => (j \in v .. v + (k + 1) - 1 <=> j \in v .. v + k - 1)
                BY <1>1, <2>1, Geometry
            <4>2. QED
                BY <4>1 DEF Written
        <3>2. B(k) = [s.buf EXCEPT ![w] = Written(s.buf[w], v, str, k)]
            BY DEF B
        <3>3. B(k + 1) = [s.buf EXCEPT ![w] = Written(s.buf[w], v, str, k + 1)]
            BY DEF B
        <3>4. QED
            BY <1>2, <2>4, <3>1, <3>2, <3>3
    <2> HIDE DEF D
    <2>8. [After(k) EXCEPT !.x = X(k + 1), !.y = Y(k + 1), !.buf = B(k + 1)] = After(k + 1)
        BY DEF Screens
    <2>9. QED
        BY <2>1, <2>2, <2>5, <2>6, <2>7, <2>8
<1> HIDE DEF G, n
<1>10. n \in G /\ n \in 0 .. n
    <2>1. \A k \in 0 .. n : k \in G
        BY <1>1, <1>8, <1>9, UpTo
    <2>2. QED
        BY <1>1, <2>1
<1>11. vga_print(t, str) = After(n)
    BY <1>7, <1>10 DEF G
<1>12. PrintedAt(s, v, w, str) = CursorBack(s, After(n))
    BY <1>11 DEF PrintedAt, t
<1>13. CursorBack(s, After(n)) = [s EXCEPT !.buf = B(n)]
    <2>1. After(n) \in Screens /\ After(n).x < Width /\ After(n).y < Height
        <3>1. X(n) < Width /\ Y(n) < Height
            BY <1>1, <1>4, <1>10 DEF Cols, Rows
        <3>2. After(n) \in Screens /\ After(n).x = X(n) /\ After(n).y = Y(n)
            BY <1>5, <1>10
        <3> HIDE DEF After
        <3>3. QED
            BY <3>1, <3>2
    <2>2. vga_set_x(After(n), s.x) = [After(n) EXCEPT !.x = s.x]
        BY <2>1 DEF vga_set_x
    <2>3. [After(n) EXCEPT !.x = s.x].y = After(n).y
        BY <2>1 DEF Screens
    <2>4. CursorBack(s, After(n)) = [[After(n) EXCEPT !.x = s.x] EXCEPT !.y = s.y]
        BY <2>1, <2>2, <2>3 DEF CursorBack, vga_set_y
    <2>5. QED
        BY <2>4 DEF Screens
<1>14. [s EXCEPT !.buf = B(n)] \in Screens
    BY <1>3, <1>10 DEF Screens
<1>15. QED
    BY <1>12, <1>13, <1>14 DEF B, n

-----------------------------------------------------------------------------
(* The text of the time.                                                   *)

\* The registers of the clock, within their ranges.
LEMMA RegisterFacts ==
    ASSUME NEW t \in Nat
    PROVE  /\ rtc_get_second(t) = t % 60 /\ rtc_get_minute(t) = (t \div 60) % 60
           /\ rtc_get_hour(t) = (t \div 3600) % 24
           /\ rtc_get_second(t) \in 0 .. 59 /\ rtc_get_minute(t) \in 0 .. 59
           /\ rtc_get_hour(t) \in 0 .. 23
<1>1. ASSUME NEW n \in 0 .. 59 PROVE as_binary(Bcd(n)) = n
    BY DEF as_binary, Bcd
<1>2. t % 60 \in 0 .. 59 /\ (t \div 60) % 60 \in 0 .. 59 /\ (t \div 3600) % 24 \in 0 .. 23
    OBVIOUS
<1>3. QED
    BY <1>1, <1>2 DEF rtc_get_second, rtc_get_minute, rtc_get_hour

\* The seconds are those of the instant.
LEMMA SecondFacts ==
    ASSUME NEW t \in Nat
    PROVE  rtc_get_second(t) = t % 60
<1>1. ASSUME NEW n \in 0 .. 59 PROVE as_binary(Bcd(n)) = n
    BY DEF as_binary, Bcd
<1>2. t % 60 \in 0 .. 59
    OBVIOUS
<1>3. QED
    BY <1>1, <1>2 DEF rtc_get_second

\* The hour that is shown is on the dial, five hours behind.
LEMMA ShownFacts ==
    ASSUME NEW hour \in 0 .. 23
    PROVE  /\ Shown(hour).hour \in 0 .. 12
           /\ \E q \in -1 .. 1 : Shown(hour).hour = hour - 5 + 12 * q
<1>1. Eastern(hour) = hour - 5
    BY DEF Eastern, Remainder
<1>2. Shown(hour).hour = Lifted(IF hour - 5 > 12 THEN hour - 5 - 12 ELSE hour - 5)
    BY <1>1 DEF Shown
<1>3. QED
    BY <1>2 DEF Lifted

\* A string without padding is written as it is.
LEMMA PrintsFacts ==
    ASSUME NEW string \in Seq(Nat)
    PROVE  prints(string, 0, {}) \in Seq(Nat) /\ Len(prints(string, 0, {})) = Len(string)
<1> DEFINE fill == [k \in 1 .. 0 |-> IF PAD_ZERO \subseteq {} THEN 48 ELSE 32]
<1>1. fill \in Seq(Nat) /\ Len(fill) = 0
    OBVIOUS
<1>2. ~(0 > Len(string)) /\ ~(PAD_RIGHT \subseteq {})
    BY DEF PAD_RIGHT
<1>3. prints(string, 0, {}) = fill \o string
    BY <1>2 DEF prints
<1> HIDE DEF fill
<1>4. QED
    BY <1>1, <1>3

\* A tenth of a number below 100 is 0 or one digit.
LEMMA TenthFacts ==
    ASSUME NEW n \in 0 .. 99
    PROVE  IF n < 10 THEN n \div 10 = 0 ELSE n \div 10 \in 1 .. 9
OBVIOUS

\* Appending a digit.
LEMMA AppendFacts ==
    ASSUME NEW q \in Seq(Nat), NEW d \in Nat
    PROVE  Append(q, d) \in Seq(Nat) /\ Len(Append(q, d)) = Len(q) + 1
OBVIOUS

\* A number below 100 has one digit or two.
LEMMA DigitsFacts ==
    ASSUME NEW u \in 1 .. 99
    PROVE  /\ Digits(u, 10, 97) \in Seq(Nat)
           /\ Len(Digits(u, 10, 97)) = IF u < 10 THEN 1 ELSE 2
<1> DEFINE Digit(n) == IF n % 10 >= 10 THEN (n % 10) - 10 + 97 ELSE (n % 10) + 48
           Def(f) == [n \in 0 .. u |-> IF n = 0 THEN <<>> ELSE Append(f[n \div 10], Digit(n))]
           w == [n \in 0 .. u |-> IF n = 0 THEN <<>>
                                  ELSE IF n < 10 THEN <<Digit(n)>>
                                  ELSE <<Digit(n \div 10), Digit(n)>>]
           text == CHOOSE f : f = Def(f)
<1>1. \A n \in Nat : Digit(n) \in Nat
    OBVIOUS
<1> HIDE DEF Digit
<1>2. \A n \in 0 .. u : w[n] = IF n = 0 THEN <<>>
                                ELSE IF n < 10 THEN <<Digit(n)>>
                                ELSE <<Digit(n \div 10), Digit(n)>>
    OBVIOUS
<1>3. w = Def(w)
    <2> HIDE DEF w
    <2>1. ASSUME NEW n \in 0 .. u, n # 0 PROVE w[n] = Append(w[n \div 10], Digit(n))
        <3>1. CASE n < 10
            <4>1. n \div 10 = 0 /\ 0 \in 0 .. u
                BY <3>1, <2>1, TenthFacts
            <4>2. w[0] = <<>> /\ w[n] = <<Digit(n)>>
                BY <1>2, <2>1, <3>1, <4>1
            <4>3. QED
                BY <4>1, <4>2
        <3>2. CASE ~(n < 10)
            <4>1. n \div 10 \in 0 .. u /\ n \div 10 # 0 /\ n \div 10 < 10
                BY <2>1, <3>2, TenthFacts
            <4>2. w[n \div 10] = <<Digit(n \div 10)>>
                BY <1>2, <4>1
            <4>3. w[n] = <<Digit(n \div 10), Digit(n)>>
                BY <1>2, <2>1, <3>2
            <4>4. QED
                BY <4>2, <4>3
        <3>3. QED
            BY <3>1, <3>2
    <2>2. \A n \in 0 .. u : w[n] = IF n = 0 THEN <<>> ELSE Append(w[n \div 10], Digit(n))
        BY <1>2, <2>1
    <2>3. QED
        BY <2>2 DEF w
<1>4. text = Def(text)
    BY <1>3
<1>5. Digits(u, 10, 97) = text[u]
    BY DEF Digits, Digit
<1> HIDE DEF text, w
<1>6. /\ text[0] = <<>>
      /\ \A n \in 1 .. u : text[n] = Append(text[n \div 10], Digit(n))
    <2> DEFINE F == Def(text)
    <2>1. \A n \in 0 .. u : F[n] = IF n = 0 THEN <<>> ELSE Append(text[n \div 10], Digit(n))
        OBVIOUS
    <2>2. text = F
        BY <1>4
    <2> HIDE DEF F
    <2>3. 0 \in 0 .. u /\ \A n \in 1 .. u : n \in 0 .. u /\ n # 0
        OBVIOUS
    <2>4. QED
        BY <2>1, <2>2, <2>3
<1>7. \A n \in 1 .. u : n < 10 => text[n] \in Seq(Nat) /\ Len(text[n]) = 1
    <2>1. \A n \in 1 .. u : n < 10 => n \div 10 = 0 /\ n \in Nat
        BY TenthFacts
    <2>2. ASSUME NEW n \in 1 .. u, n < 10 PROVE text[n] = Append(<<>>, Digit(n)) /\ Digit(n) \in Nat
        <3>1. text[n] = Append(text[n \div 10], Digit(n))
            BY <1>6
        <3>2. n \div 10 = 0 /\ n \in Nat
            BY <2>1, <2>2
        <3>3. QED
            BY <1>1, <1>6, <3>1, <3>2
    <2>3. <<>> \in Seq(Nat) /\ Len(<<>>) = 0
        OBVIOUS
    <2>4. ASSUME NEW n \in 1 .. u, n < 10 PROVE text[n] \in Seq(Nat) /\ Len(text[n]) = 1
        <3> DEFINE e == <<>>
        <3>1. text[n] = Append(e, Digit(n)) /\ Digit(n) \in Nat /\ e \in Seq(Nat) /\ Len(e) = 0
            BY <2>2, <2>3, <2>4
        <3> HIDE DEF e
        <3>2. QED
            BY <3>1
    <2>5. QED
        BY <2>4
<1>8. CASE u < 10
    BY <1>5, <1>7, <1>8
<1>9. CASE ~(u < 10)
    <2>1. u \div 10 \in 1 .. u /\ u \div 10 < 10 /\ u \in 1 .. u /\ u \in Nat
        BY <1>9, TenthFacts
    <2>2. text[u \div 10] \in Seq(Nat) /\ Len(text[u \div 10]) = 1
        BY <1>7, <2>1
    <2>3. text[u] = Append(text[u \div 10], Digit(u))
        BY <1>6, <2>1
    <2>4. Digit(u) \in Nat
        BY <1>1, <2>1
    <2>5. text[u] \in Seq(Nat) /\ Len(text[u]) = 2
        <3>1. Append(text[u \div 10], Digit(u)) \in Seq(Nat)
              /\ Len(Append(text[u \div 10], Digit(u))) = 1 + 1
            BY <2>2, <2>4, AppendFacts
        <3>2. QED
            BY <2>3, <3>1
    <2>6. QED
        BY <1>5, <1>9, <2>5
<1>10. QED
    BY <1>8, <1>9

\* A number below 100 is printed as one character or two.
LEMMA DecimalFacts ==
    ASSUME NEW i \in 0 .. 99
    PROVE  /\ Converted(Decimal(i)) \in Seq(Nat)
           /\ Len(Converted(Decimal(i))) = IF i < 10 THEN 1 ELSE 2
<1>1. Converted(Decimal(i)) = printi(i, 10, TRUE, 0, {}, 97)
    BY DEF Converted, Decimal, Piece
<1>2. CASE i = 0
    <2>1. printi(0, 10, TRUE, 0, {}, 97) = prints(<<48>>, 0, {})
        BY DEF printi
    <2>2. <<48>> \in Seq(Nat) /\ Len(<<48>>) = 1
        OBVIOUS
    <2>3. prints(<<48>>, 0, {}) \in Seq(Nat) /\ Len(prints(<<48>>, 0, {})) = 1
        BY <2>2, PrintsFacts
    <2>4. Converted(Decimal(i)) = prints(<<48>>, 0, {})
        BY <1>1, <1>2, <2>1
    <2>5. QED
        BY <1>2, <2>3, <2>4
<1>3. CASE i # 0
    <2> DEFINE u == Digits(i, 10, 97)
    <2>1. u \in Seq(Nat) /\ Len(u) = IF i < 10 THEN 1 ELSE 2
        <3>1. i \in 1 .. 99
            BY <1>3
        <3>2. QED
            BY <3>1, DigitsFacts
    <2>2. ~(i < 0)
        OBVIOUS
    <2>3. printi(i, 10, TRUE, 0, {}, 97) = prints(<<>> \o u, 0, {})
        BY <1>3, <2>2 DEF printi
    <2> HIDE DEF u
    <2>4. <<>> \o u = u
        BY <2>1
    <2>5. QED
        BY <1>1, <2>1, <2>3, <2>4, PrintsFacts
<1>4. QED
    BY <1>2, <1>3

\* A string is printed whole.
LEMMA StringFacts ==
    ASSUME NEW string \in Seq(Nat)
    PROVE  Converted(String(string)) \in Seq(Nat) /\ Len(Converted(String(string))) = Len(string)
<1>1. Converted(String(string)) = prints(string, 0, {})
    BY DEF Converted, String, Piece
<1>2. QED
    BY <1>1, PrintsFacts

\* A character is printed as one.
LEMMA CharFacts ==
    ASSUME NEW c \in Nat
    PROVE  Converted(Char(c)) \in Seq(Nat) /\ Len(Converted(Char(c))) = 1
BY DEF Converted, Char, Piece

\* Two texts one after the other.
Joins(t, p, q) == t = p \o q

LEMMA ConcatFacts ==
    ASSUME NEW p \in Seq(Nat), NEW q \in Seq(Nat), NEW t, Joins(t, p, q)
    PROVE  t \in Seq(Nat) /\ Len(t) = Len(p) + Len(q)
<1>1. p \o q \in Seq(Nat) /\ Len(p \o q) = Len(p) + Len(q)
    OBVIOUS
<1>2. QED
    BY <1>1 DEF Joins

\* The indices of an 8-tuple.
LEMMA EightCases ==
    ASSUME NEW i \in 1 .. 8
    PROVE  i = 1 \/ i = 2 \/ i = 3 \/ i = 4 \/ i = 5 \/ i = 6 \/ i = 7 \/ i = 8
OBVIOUS

\* Eight texts one after the other.
LEMMA FlattenEight ==
    ASSUME NEW q, Len(q) = 8, \A i \in 1 .. 8 : q[i] \in Seq(Nat)
    PROVE  /\ Seqs!FlattenSeq(q) \in Seq(Nat)
           /\ Len(Seqs!FlattenSeq(q)) = Len(q[1]) + Len(q[2]) + Len(q[3]) + Len(q[4])
                                        + Len(q[5]) + Len(q[6]) + Len(q[7]) + Len(q[8])
<1> DEFINE Def(f) == [i \in 1 .. 8 |-> IF i = 1 THEN q[i] ELSE f[i - 1] \o q[i]]
           Joined(f, d) ==
               /\ d[1] = q[1] /\ d[2] = f[1] \o q[2] /\ d[3] = f[2] \o q[3]
               /\ d[4] = f[3] \o q[4] /\ d[5] = f[4] \o q[5] /\ d[6] = f[5] \o q[6]
               /\ d[7] = f[6] \o q[7] /\ d[8] = f[7] \o q[8]
           flatten == CHOOSE f : f = Def(f)
<1>1. ASSUME NEW f PROVE Joined(f, Def(f))
    <2> DEFINE d == Def(f)
    <2>1. \A i \in 1 .. 8 : d[i] = IF i = 1 THEN q[i] ELSE f[i - 1] \o q[i]
        OBVIOUS
    <2> HIDE DEF d
    <2>2. d[1] = q[1]
        BY <2>1
    <2>3. d[2] = f[1] \o q[2]
        <3>1. 2 \in 1 .. 8 /\ 2 # 1 /\ 2 - 1 = 1
            OBVIOUS
        <3>2. QED
            BY <2>1, <3>1
    <2>4. d[3] = f[2] \o q[3]
        <3>1. 3 \in 1 .. 8 /\ 3 # 1 /\ 3 - 1 = 2
            OBVIOUS
        <3>2. QED
            BY <2>1, <3>1
    <2>5. d[4] = f[3] \o q[4]
        <3>1. 4 \in 1 .. 8 /\ 4 # 1 /\ 4 - 1 = 3
            OBVIOUS
        <3>2. QED
            BY <2>1, <3>1
    <2>6. d[5] = f[4] \o q[5]
        <3>1. 5 \in 1 .. 8 /\ 5 # 1 /\ 5 - 1 = 4
            OBVIOUS
        <3>2. QED
            BY <2>1, <3>1
    <2>7. d[6] = f[5] \o q[6]
        <3>1. 6 \in 1 .. 8 /\ 6 # 1 /\ 6 - 1 = 5
            OBVIOUS
        <3>2. QED
            BY <2>1, <3>1
    <2>8. d[7] = f[6] \o q[7]
        <3>1. 7 \in 1 .. 8 /\ 7 # 1 /\ 7 - 1 = 6
            OBVIOUS
        <3>2. QED
            BY <2>1, <3>1
    <2>9. d[8] = f[7] \o q[8]
        <3>1. 8 \in 1 .. 8 /\ 8 # 1 /\ 8 - 1 = 7
            OBVIOUS
        <3>2. QED
            BY <2>1, <3>1
    <2>10. Joined(f, d)
        BY <2>2, <2>3, <2>4, <2>5, <2>6, <2>7, <2>8, <2>9
    <2>11. QED
        BY <2>10 DEF d
<1>2. \E f : f = Def(f)
    <2> DEFINE a2 == q[1] \o q[2]
               a3 == a2 \o q[3]
               a4 == a3 \o q[4]
               a5 == a4 \o q[5]
               a6 == a5 \o q[6]
               a7 == a6 \o q[7]
               a8 == a7 \o q[8]
               w == [i \in 1 .. 8 |->
                        CASE i = 1 -> q[1] [] i = 2 -> a2 [] i = 3 -> a3 [] i = 4 -> a4
                          [] i = 5 -> a5 [] i = 6 -> a6 [] i = 7 -> a7 [] i = 8 -> a8]
               d == Def(w)
    <2>1. /\ w[1] = q[1] /\ w[2] = a2 /\ w[3] = a3 /\ w[4] = a4
          /\ w[5] = a5 /\ w[6] = a6 /\ w[7] = a7 /\ w[8] = a8
        <3> HIDE DEF a2, a3, a4, a5, a6, a7, a8
        <3>1. QED
            OBVIOUS
    <2> HIDE DEF w
    <2>2. Joined(w, d)
        BY <1>1
    <2>3. DOMAIN d = 1 .. 8 /\ d = [i \in DOMAIN d |-> d[i]]
        OBVIOUS
    <2>4. DOMAIN w = 1 .. 8 /\ w = [i \in DOMAIN w |-> w[i]]
        BY DEF w
    <2> HIDE DEF d
    <2>5. /\ w[1] = d[1] /\ w[2] = d[2] /\ w[3] = d[3] /\ w[4] = d[4]
          /\ w[5] = d[5] /\ w[6] = d[6] /\ w[7] = d[7] /\ w[8] = d[8]
        BY <2>1, <2>2
    <2>6. \A i \in 1 .. 8 : w[i] = d[i]
        BY <2>5, EightCases, Zenon
    <2>7. w = d
        BY <2>3, <2>4, <2>6
    <2>8. QED
        BY <2>7 DEF d
<1>3. flatten = Def(flatten)
    BY <1>2
<1> HIDE DEF Joined
<1>4. Seqs!FlattenSeq(q) = flatten[8]
    BY DEF Seqs!FlattenSeq
<1> HIDE DEF flatten
<1>5. Joined(flatten, flatten)
    <2>1. Joined(flatten, Def(flatten))
        BY <1>1
    <2> HIDE DEF Def
    <2>2. QED
        BY <1>3, <2>1
<1> HIDE DEF Def
<1>6. /\ flatten[1] = q[1]
      /\ Joins(flatten[2], flatten[1], q[2]) /\ Joins(flatten[3], flatten[2], q[3])
      /\ Joins(flatten[4], flatten[3], q[4]) /\ Joins(flatten[5], flatten[4], q[5])
      /\ Joins(flatten[6], flatten[5], q[6]) /\ Joins(flatten[7], flatten[6], q[7])
      /\ Joins(flatten[8], flatten[7], q[8])
    BY <1>5 DEF Joined, Joins
<1>7. \A i \in 1 .. 8 : q[i] \in Seq(Nat) /\ Len(q[i]) \in Nat
    OBVIOUS
<1>8. /\ q[1] \in Seq(Nat) /\ q[2] \in Seq(Nat) /\ q[3] \in Seq(Nat) /\ q[4] \in Seq(Nat)
      /\ q[5] \in Seq(Nat) /\ q[6] \in Seq(Nat) /\ q[7] \in Seq(Nat) /\ q[8] \in Seq(Nat)
    BY <1>7
<1>9. flatten[2] \in Seq(Nat) /\ Len(flatten[2]) = Len(flatten[1]) + Len(q[2])
    BY <1>6, <1>8, ConcatFacts, Zenon
<1>10. flatten[3] \in Seq(Nat) /\ Len(flatten[3]) = Len(flatten[2]) + Len(q[3])
    BY <1>6, <1>8, <1>9, ConcatFacts, Zenon
<1>11. flatten[4] \in Seq(Nat) /\ Len(flatten[4]) = Len(flatten[3]) + Len(q[4])
    BY <1>6, <1>8, <1>10, ConcatFacts, Zenon
<1>12. flatten[5] \in Seq(Nat) /\ Len(flatten[5]) = Len(flatten[4]) + Len(q[5])
    BY <1>6, <1>8, <1>11, ConcatFacts, Zenon
<1>13. flatten[6] \in Seq(Nat) /\ Len(flatten[6]) = Len(flatten[5]) + Len(q[6])
    BY <1>6, <1>8, <1>12, ConcatFacts, Zenon
<1>14. flatten[7] \in Seq(Nat) /\ Len(flatten[7]) = Len(flatten[6]) + Len(q[7])
    BY <1>6, <1>8, <1>13, ConcatFacts, Zenon
<1>15. flatten[8] \in Seq(Nat) /\ Len(flatten[8]) = Len(flatten[7]) + Len(q[8])
    BY <1>6, <1>8, <1>14, ConcatFacts, Zenon
<1>16. QED
    BY <1>4, <1>6, <1>7, <1>9, <1>10, <1>11, <1>12, <1>13, <1>14, <1>15

\* The text of a time fits the clock's area.
LEMMA RtcText ==
    ASSUME NEW t1 \in Nat, NEW t2 \in Nat, NEW t3 \in Nat
    PROVE  LET text == rtc_print(Reads(t1, t2, t3))
           IN  text \in Seq(Nat) /\ Len(text) <= 10
<1> DEFINE r == Reads(t1, t2, t3)
           s == Shown(r.hour)
           half == IF s.pm THEN <<80, 77>> ELSE <<65, 77>>
           F == <<Decimal(s.hour), Char(58), LeadingZero(r.min), Decimal(r.min), Char(58),
                  LeadingZero(r.sec), Decimal(r.sec), String(half)>>
           q == [k \in 1 .. Len(F) |-> Converted(F[k])]
<1>1. r.hour \in 0 .. 23 /\ r.min \in 0 .. 59 /\ r.sec \in 0 .. 59
    BY RegisterFacts DEF Reads
<1> HIDE DEF r
<1>2. s.hour \in 0 .. 12
    BY <1>1, ShownFacts
<1>3. half \in Seq(Nat) /\ Len(half) = 2
    OBVIOUS
<1> HIDE DEF half, s
<1>4. ASSUME NEW n \in 0 .. 59
      PROVE  /\ Converted(LeadingZero(n)) \in Seq(Nat) /\ Converted(Decimal(n)) \in Seq(Nat)
             /\ Len(Converted(LeadingZero(n))) + Len(Converted(Decimal(n))) = 2
    <2> DEFINE z == IF n < 10 THEN <<48>> ELSE <<>>
    <2>1. z \in Seq(Nat) /\ Len(z) = IF n < 10 THEN 1 ELSE 0
        OBVIOUS
    <2>2. LeadingZero(n) = String(z)
        BY DEF LeadingZero
    <2> HIDE DEF z
    <2>3. Converted(LeadingZero(n)) \in Seq(Nat) /\ Len(Converted(LeadingZero(n))) = Len(z)
        BY <2>1, <2>2, StringFacts
    <2>4. n \in 0 .. 99
        OBVIOUS
    <2>5. /\ Converted(Decimal(n)) \in Seq(Nat)
          /\ Len(Converted(Decimal(n))) = IF n < 10 THEN 1 ELSE 2
        BY <2>4, DecimalFacts
    <2>6. QED
        BY <2>1, <2>3, <2>5
<1>5. Converted(Decimal(s.hour)) \in Seq(Nat) /\ Len(Converted(Decimal(s.hour))) <= 2
    <2>1. s.hour \in 0 .. 99
        BY <1>2
    <2>2. /\ Converted(Decimal(s.hour)) \in Seq(Nat)
          /\ Len(Converted(Decimal(s.hour))) = IF s.hour < 10 THEN 1 ELSE 2
        BY <2>1, DecimalFacts
    <2>3. QED
        BY <2>2
<1>6. Converted(Char(58)) \in Seq(Nat) /\ Len(Converted(Char(58))) = 1
    BY CharFacts
<1>7. Converted(String(half)) \in Seq(Nat) /\ Len(Converted(String(half))) = 2
    BY <1>3, StringFacts
<1>8. /\ Len(F) = 8 /\ F[1] = Decimal(s.hour) /\ F[2] = Char(58)
      /\ F[3] = LeadingZero(r.min) /\ F[4] = Decimal(r.min) /\ F[5] = Char(58)
      /\ F[6] = LeadingZero(r.sec) /\ F[7] = Decimal(r.sec) /\ F[8] = String(half)
    OBVIOUS
<1>9. rtc_print(r) = Seqs!FlattenSeq(q)
    BY DEF rtc_print, print, s, half
<1> HIDE DEF F
<1>10. /\ Len(q) = 8 /\ q[1] = Converted(Decimal(s.hour)) /\ q[2] = Converted(Char(58))
       /\ q[3] = Converted(LeadingZero(r.min)) /\ q[4] = Converted(Decimal(r.min))
       /\ q[5] = Converted(Char(58)) /\ q[6] = Converted(LeadingZero(r.sec))
       /\ q[7] = Converted(Decimal(r.sec)) /\ q[8] = Converted(String(half))
    BY <1>8
<1> HIDE DEF q
<1>11. \A k \in 1 .. 8 : q[k] \in Seq(Nat)
    <2>1. /\ q[1] \in Seq(Nat) /\ q[2] \in Seq(Nat) /\ q[3] \in Seq(Nat) /\ q[4] \in Seq(Nat)
          /\ q[5] \in Seq(Nat) /\ q[6] \in Seq(Nat) /\ q[7] \in Seq(Nat) /\ q[8] \in Seq(Nat)
        BY <1>1, <1>4, <1>5, <1>6, <1>7, <1>10
    <2>2. \A k \in 1 .. 8 : \/ k = 1 \/ k = 2 \/ k = 3 \/ k = 4
                            \/ k = 5 \/ k = 6 \/ k = 7 \/ k = 8
        OBVIOUS
    <2>3. QED
        BY <2>1, <2>2, Zenon
<1>12. /\ Len(q[1]) \in Nat /\ Len(q[2]) \in Nat /\ Len(q[3]) \in Nat /\ Len(q[4]) \in Nat
       /\ Len(q[5]) \in Nat /\ Len(q[6]) \in Nat /\ Len(q[7]) \in Nat /\ Len(q[8]) \in Nat
    <2>1. \A k \in 1 .. 8 : Len(q[k]) \in Nat
        BY <1>11
    <2>2. QED
        BY <2>1
<1>13. /\ Len(q[1]) <= 2 /\ Len(q[2]) = 1 /\ Len(q[3]) + Len(q[4]) = 2 /\ Len(q[5]) = 1
       /\ Len(q[6]) + Len(q[7]) = 2 /\ Len(q[8]) = 2
    BY <1>1, <1>4, <1>5, <1>6, <1>7, <1>10
<1>14. /\ Seqs!FlattenSeq(q) \in Seq(Nat)
       /\ Len(Seqs!FlattenSeq(q)) = Len(q[1]) + Len(q[2]) + Len(q[3]) + Len(q[4])
                                    + Len(q[5]) + Len(q[6]) + Len(q[7]) + Len(q[8])
    BY <1>10, <1>11, FlattenEight
<1>15. Len(Seqs!FlattenSeq(q)) <= 10
    <2> DEFINE a == Len(q[1])
               b == Len(q[2])
               c == Len(q[3])
               d == Len(q[4])
               e == Len(q[5])
               f == Len(q[6])
               g == Len(q[7])
               h == Len(q[8])
    <2>1. /\ a \in Nat /\ b \in Nat /\ c \in Nat /\ d \in Nat
          /\ e \in Nat /\ f \in Nat /\ g \in Nat /\ h \in Nat
        BY <1>12
    <2>2. a <= 2 /\ b = 1 /\ c + d = 2 /\ e = 1 /\ f + g = 2 /\ h = 2
        BY <1>13
    <2>3. Len(Seqs!FlattenSeq(q)) = a + b + c + d + e + f + g + h
        BY <1>14
    <2> HIDE DEF a, b, c, d, e, f, g, h
    <2>4. a + b + c + d + e + f + g + h <= 10
        BY <2>1, <2>2
    <2>5. QED
        BY <2>3, <2>4
<1>16. QED
    BY <1>9, <1>14, <1>15 DEF r

-----------------------------------------------------------------------------
(* The inductive invariant.                                                *)

Names == [cell : Glyphs, len : 1 .. 15]

\* What is on the screen: the log's cursor is below the reserved rows, and the
\* areas show what was printed there last.
Shows ==
    /\ screen \in Screens /\ screen.y >= 2
    /\ last = NoName \/ last \in Names
    /\ time.text \in Seq(Nat) /\ Len(time.text) <= 10
    /\ AreasSurvive

\* The bytes q are decoded into the events ev.
KeysOf(q)      == {k \in 1 .. Len(q) : q[k] # Prefix}
KeysUpTo(q, k) == {j \in KeysOf(q) : j <= k}
AfterPrefix(q) == Len(q) > 0 /\ q[Len(q)] = Prefix

Decoded(q, ev) ==
    /\ Len(ev) = Cardinality(KeysOf(q))
    /\ \A k \in KeysOf(q) :
          ev[Cardinality(KeysUpTo(q, k))] =
              <<scancode(q[k]), k > 1 /\ q[k - 1] = Prefix>>

\* What the keyboard's handler has seen: its state tells whether the byte before
\* was a prefix.
Heard ==
    /\ received \in Seq(Nat) /\ events \in Seq(Nat \X BOOLEAN)
    /\ state = IF AfterPrefix(received) THEN 1 ELSE 0
    /\ Decoded(received, events)

ConsoleInv == Shows /\ Heard /\ NamesFit /\ ClockLags

-----------------------------------------------------------------------------
(* What a name or a time changes.                                          *)

\* Each area is a run of cells of one row.
LEMMA AreaShapes ==
    /\ \A p \in KeyArea : p \in Rows \X Cols /\ p[1] = 1 /\ p[2] \in KeyCol .. Width - 1
    /\ \A p \in ClockArea : p \in Rows \X Cols /\ p[1] = 0 /\ p[2] \in ClockCol .. Width - 1
    /\ \A j \in KeyCol .. Width - 1 : j \in Cols /\ <<1, j>> \in KeyArea
    /\ \A j \in ClockCol .. Width - 1 : j \in Cols /\ <<0, j>> \in ClockArea
<1>1. /\ \A j \in KeyCol .. Width - 1 : j \in Cols
      /\ \A j \in ClockCol .. Width - 1 : j \in Cols
    BY Geometry DEF Cols
<1>2. QED
    BY <1>1, Geometry DEF KeyArea, ClockArea, ReservedArea

\* A text that fits an area, printed from its first column on, writes that area only.
LEMMA TextInRow ==
    ASSUME NEW s \in Screens, NEW v \in Cols, NEW w \in {0, 1},
           NEW str \in Seq(Glyphs), v + Len(str) <= Width,
           NEW area, \A j \in v .. Width - 1 : <<w, j>> \in area
    PROVE  LET r == PrintedAt(s, v, w, str) IN
           /\ r \in Screens /\ r.y = s.y
           /\ ChangedOnly(s, r, area)
           /\ \A k \in 1 .. Len(str) : r.buf[w][v + k - 1] = str[k]
           /\ \A i \in Rows \ {w} : r.buf[i] = s.buf[i]
<1> DEFINE R == Written(s.buf[w], v, str, Len(str))
           B == [s.buf EXCEPT ![w] = R]
           r == PrintedAt(s, v, w, str)
<1>1. w \in Rows /\ w + 1 < Height
    BY Geometry DEF Rows
<1>2. r \in Screens /\ r = [s EXCEPT !.buf = B]
    BY <1>1, PrintInRow
<1> HIDE DEF r
<1>3. s.buf \in [Rows -> [Cols -> Shades]] /\ s \in Screens
    BY DEF Screens
<1>4. r.y = s.y /\ r.buf = B /\ [r EXCEPT !.buf = s.buf] = s
    BY <1>2 DEF Screens
<1>5. B[w] = R /\ \A i \in Rows \ {w} : B[i] = s.buf[i]
    BY <1>1, <1>3
<1> HIDE DEF B
<1>6. v \in Nat /\ Len(str) \in Nat /\ Width \in Nat
    BY Geometry
<1>7. ASSUME NEW j \in Cols
      PROVE  R[j] = IF j \in v .. v + Len(str) - 1 THEN str[j - v + 1] ELSE s.buf[w][j]
    BY DEF Written
<1> HIDE DEF R
<1>8. ASSUME NEW p \in (Rows \X Cols) \ area PROVE r.buf[p[1]][p[2]] = s.buf[p[1]][p[2]]
    <2>1. p[1] \in Rows /\ p[2] \in Cols /\ p = <<p[1], p[2]>> /\ p \notin area
        OBVIOUS
    <2>2. CASE p[1] = w
        <3>1. ~(p[2] \in v .. Width - 1)
            BY <2>1, <2>2
        <3>2. ~(p[2] \in v .. v + Len(str) - 1)
            BY <1>6, <3>1
        <3>3. QED
            BY <1>4, <1>5, <1>7, <2>1, <2>2, <3>2
    <2>3. CASE p[1] # w
        BY <1>4, <1>5, <2>1, <2>3
    <2>4. QED
        BY <2>2, <2>3
<1>9. ASSUME NEW k \in 1 .. Len(str) PROVE r.buf[w][v + k - 1] = str[k]
    <2> DEFINE j == v + k - 1
    <2>1. j \in Cols /\ j \in v .. v + Len(str) - 1 /\ j - v + 1 = k
        BY <1>6 DEF Cols
    <2> HIDE DEF j
    <2>2. R[j] = str[k]
        BY <1>7, <2>1
    <2>3. QED
        BY <1>4, <1>5, <2>2 DEF j
<1>10. QED
    BY <1>2, <1>4, <1>5, <1>8, <1>9 DEF r, ChangedOnly

KeyText(name) == Repeat(Blank, Padding(name.len)) \o Repeat(name.cell, name.len)

\* The name is 15 cells wide, blanks to its left.
LEMMA KeyTextFacts ==
    ASSUME NEW name \in Names
    PROVE  /\ Padding(name.len) = 15 - name.len /\ ~(Padding(name.len) > 15)
           /\ KeyText(name) \in Seq(Glyphs) /\ Len(KeyText(name)) = 15
           /\ \A k \in 1 .. 15 :
                 KeyText(name)[k] = IF k > 15 - name.len THEN name.cell ELSE Blank
<1> DEFINE n == name.len
           c == name.cell
           m == 15 - n
<1>1. n \in 1 .. 15 /\ c \in Glyphs /\ m \in 0 .. 14
    BY DEF Names
<1>2. Padding(n) = m
    <2>1. SizeValues \in Nat /\ SizeValues > 15
        BY Geometry, AreaAssumption
    <2>2. m \in 0 .. SizeValues - 1
        BY <1>1, <2>1
    <2>3. m % SizeValues = m
        BY <2>1, <2>2
    <2>4. QED
        BY <2>3 DEF Padding
<1> HIDE DEF n, c
<1>3. Blank \in Glyphs
    BY DEF Glyphs
<1>4. /\ Repeat(Blank, m) \in Seq(Glyphs) /\ Len(Repeat(Blank, m)) = m
      /\ \A k \in 1 .. m : Repeat(Blank, m)[k] = Blank
    BY <1>1, <1>3 DEF Repeat
<1>5. /\ Repeat(c, n) \in Seq(Glyphs) /\ Len(Repeat(c, n)) = n
      /\ \A k \in 1 .. n : Repeat(c, n)[k] = c
    BY <1>1 DEF Repeat
<1> DEFINE p == Repeat(Blank, m)
           q == Repeat(c, n)
<1>6. KeyText(name) = p \o q
    BY <1>2 DEF KeyText, n, c
<1>7. m + n = 15 /\ m \in Nat /\ n \in Nat
    BY <1>1
<1> HIDE DEF p, q, m
<1>8. /\ p \o q \in Seq(Glyphs) /\ Len(p \o q) = 15
      /\ \A k \in 1 .. 15 : (p \o q)[k] = IF k > m THEN q[k - m] ELSE p[k]
    <2>1. p \in Seq(Glyphs) /\ Len(p) = m /\ q \in Seq(Glyphs) /\ Len(q) = n
        BY <1>4, <1>5 DEF p, q
    <2>2. p \o q \in Seq(Glyphs) /\ Len(p \o q) = m + n
        BY <2>1
    <2>3. \A k \in 1 .. m + n : (p \o q)[k] = IF k > m THEN q[k - m] ELSE p[k]
        BY <2>1
    <2>4. QED
        BY <1>7, <2>2, <2>3
<1>9. ASSUME NEW k \in 1 .. 15 PROVE (p \o q)[k] = IF k > m THEN c ELSE Blank
    <2>1. CASE k > m
        <3>1. k - m \in 1 .. n
            BY <1>7, <2>1
        <3>2. q[k - m] = c
            BY <1>5, <3>1 DEF q
        <3>3. QED
            BY <1>8, <2>1, <3>2
    <2>2. CASE ~(k > m)
        <3>1. k \in 1 .. m
            BY <1>7, <2>2
        <3>2. p[k] = Blank
            BY <1>4, <3>1 DEF p
        <3>3. QED
            BY <1>8, <2>2, <3>2
    <2>3. QED
        BY <2>1, <2>2
<1>10. Padding(name.len) = m /\ ~(m > 15) /\ m = 15 - name.len /\ c = name.cell
    BY <1>1, <1>2 DEF m, n, c
<1>11. QED
    BY <1>6, <1>8, <1>9, <1>10

\* Every name of the two tables fits the area.
LEMMA NameFacts ==
    /\ \A c \in 0 .. 127 : to_string(c) \in Names
    /\ \A c \in EscapedNamed : escaped_to_string(c) \in Names
<1>1. ASSUME NEW c \in 0 .. 127 PROVE to_string(c) \in Names
    <2> DEFINE k == IF c \in Mapped THEN c ELSE 0
    <2>1. <<"key", k>> \in Glyphs
        BY DEF Glyphs
    <2> HIDE DEF k
    <2>2. NameLength(c) \in 1 .. 15
        BY DEF NameLength
    <2>3. to_string(c) = [cell |-> <<"key", k>>, len |-> NameLength(c)]
        BY DEF to_string, k
    <2>4. QED
        BY <2>1, <2>2, <2>3 DEF Names
<1>2. ASSUME NEW c \in EscapedNamed PROVE escaped_to_string(c) \in Names
    <2> DEFINE k == IF c = \h4F THEN \h51 ELSE c
               n == CASE c \in {\h1C, \h35}         -> 10
                      [] c \in {\h4F, \h51}         -> 9
                      [] c \in {\h49}              -> 7
                      [] c \in {\h52, \h53}         -> 6
                      [] c \in {\h1D, \h4D}         -> 5
                      [] c \in {\h38, \h4B}         -> 4
    <2>1. k \in Nat
        BY DEF EscapedNamed
    <2>2. n \in 1 .. 15
        BY DEF EscapedNamed
    <2>3. escaped_to_string(c) = [cell |-> <<"escaped", k>>, len |-> n]
        BY DEF escaped_to_string
    <2> HIDE DEF k, n
    <2>4. <<"escaped", k>> \in Glyphs
        BY <2>1 DEF Glyphs
    <2>5. QED
        BY <2>2, <2>3, <2>4 DEF Names
<1>3. QED
    BY <1>1, <1>2

\* The handler's write: the name is shown, the clock's area and the log are kept.
LEMMA ShowNameKeeps ==
    ASSUME Shows, NEW name \in Names, ShowName(name), time' = time
    PROVE  Shows' /\ stopped' = stopped /\ ChangedOnly(screen, screen', KeyArea)
<1> DEFINE str == KeyText(name)
           n == name.len
<1>1. /\ screen' = PrintedAt(screen, KeyCol, 1, str) /\ last' = name
      /\ stopped' = stopped
    BY KeyTextFacts DEF ShowName, KeyText
<1>2. /\ str \in Seq(Glyphs) /\ Len(str) = 15
      /\ \A k \in 1 .. 15 : str[k] = IF k > 15 - n THEN name.cell ELSE Blank
    BY KeyTextFacts
<1> HIDE DEF str
<1>3. screen \in Screens /\ screen.y >= 2
    BY DEF Shows
<1>4. KeyCol \in Cols /\ KeyCol + 15 <= Width /\ KeyCol \in Nat /\ Width = KeyCol + 15
    BY Geometry
<1>5. /\ screen' \in Screens /\ screen'.y = screen.y
      /\ ChangedOnly(screen, screen', KeyArea)
      /\ \A k \in 1 .. 15 : screen'.buf[1][KeyCol + k - 1] = str[k]
      /\ \A i \in Rows \ {1} : screen'.buf[i] = screen.buf[i]
    <2>1. 1 \in {0, 1}
        OBVIOUS
    <2>2. \A j \in KeyCol .. Width - 1 : <<1, j>> \in KeyArea
        BY AreaShapes, Zenon
    <2> DEFINE r == PrintedAt(screen, KeyCol, 1, str)
    <2>3. /\ r \in Screens /\ r.y = screen.y
          /\ ChangedOnly(screen, r, KeyArea)
          /\ \A k \in 1 .. Len(str) : r.buf[1][KeyCol + k - 1] = str[k]
          /\ \A i \in Rows \ {1} : r.buf[i] = screen.buf[i]
        <3>1. KeyCol + Len(str) <= Width
            BY <1>2, <1>4
        <3>2. QED
            BY <1>2, <1>3, <1>4, <2>1, <2>2, <3>1, TextInRow
    <2>4. r = screen' /\ Len(str) = 15
        BY <1>1, <1>2
    <2> HIDE DEF r
    <2>5. QED
        BY <2>3, <2>4
<1>6. LastKeyShown'
    <2>1. ASSUME NEW p \in KeyArea
          PROVE  screen'.buf[1][p[2]] = IF p[2] >= Width - n THEN name.cell ELSE Blank
        <3> DEFINE k == p[2] - KeyCol + 1
        <3>1. p[2] \in KeyCol .. Width - 1
            BY AreaShapes
        <3>2. n \in 1 .. 15
            BY DEF Names
        <3>3. k \in 1 .. 15 /\ p[2] = KeyCol + k - 1 /\ (k > 15 - n <=> p[2] >= Width - n)
            BY <1>4, <3>1, <3>2
        <3> HIDE DEF k
        <3>4. screen'.buf[1][p[2]] = str[k]
            BY <1>5, <3>3
        <3>5. QED
            BY <1>2, <3>3, <3>4
    <2>2. QED
        BY <1>1, <2>1 DEF LastKeyShown
<1>7. LastTimeShown'
    <2>1. screen'.buf[0] = screen.buf[0]
        BY <1>5, Geometry
    <2>2. LastTimeShown
        BY DEF Shows, AreasSurvive
    <2>3. QED
        BY <2>1, <2>2 DEF LastTimeShown
<1>8. /\ screen' \in Screens /\ screen'.y >= 2 /\ last' \in Names
      /\ time'.text \in Seq(Nat) /\ Len(time'.text) <= 10
    BY <1>1, <1>3, <1>5 DEF Shows
<1>9. Shows'
    BY <1>6, <1>7, <1>8 DEF Shows, AreasSurvive
<1>10. QED
    BY <1>1, <1>5, <1>9

\* The clock thread's write.
LEMMA TimeKeeps ==
    ASSUME Shows, NEW text \in Seq(Nat), Len(text) <= 10,
           screen' = PrintedAt(screen, ClockCol, 0, Cells(text)), time'.text = text,
           last' = last
    PROVE  Shows' /\ ChangedOnly(screen, screen', ClockArea)
<1> DEFINE str == Cells(text)
<1>1. /\ str \in Seq(Glyphs) /\ Len(str) = Len(text) /\ Len(text) \in Nat
      /\ \A k \in 1 .. Len(text) : str[k] = <<"text", text[k]>>
    <2>1. \A k \in 1 .. Len(text) : <<"text", text[k]>> \in Glyphs
        BY DEF Glyphs
    <2>2. QED
        BY <2>1 DEF Cells
<1> HIDE DEF str
<1>2. screen \in Screens /\ screen.y >= 2
    BY DEF Shows
<1>3. ClockCol \in Cols /\ ClockCol + Len(str) <= Width /\ ClockCol \in Nat
    BY <1>1, Geometry
<1>4. /\ screen' \in Screens /\ screen'.y = screen.y
      /\ ChangedOnly(screen, screen', ClockArea)
      /\ \A k \in 1 .. Len(text) : screen'.buf[0][ClockCol + k - 1] = str[k]
      /\ \A i \in Rows \ {0} : screen'.buf[i] = screen.buf[i]
    <2>1. 0 \in {0, 1}
        OBVIOUS
    <2>2. \A j \in ClockCol .. Width - 1 : <<0, j>> \in ClockArea
        BY AreaShapes, Zenon
    <2> DEFINE r == PrintedAt(screen, ClockCol, 0, str)
    <2>3. /\ r \in Screens /\ r.y = screen.y
          /\ ChangedOnly(screen, r, ClockArea)
          /\ \A k \in 1 .. Len(str) : r.buf[0][ClockCol + k - 1] = str[k]
          /\ \A i \in Rows \ {0} : r.buf[i] = screen.buf[i]
        BY <1>1, <1>2, <1>3, <2>1, <2>2, TextInRow
    <2>4. r = screen' /\ Len(str) = Len(text)
        BY <1>1 DEF str
    <2> HIDE DEF r
    <2>5. QED
        BY <2>3, <2>4
<1>5. LastTimeShown'
    BY <1>1, <1>4 DEF LastTimeShown
<1>6. LastKeyShown'
    BY <1>4, Geometry DEF Shows, AreasSurvive, LastKeyShown
<1>7. QED
    BY <1>2, <1>4, <1>5, <1>6 DEF Shows, AreasSurvive

\* Whatever leaves both areas and the two histories alone keeps what they show.
LEMMA AreasKept ==
    ASSUME Shows, screen' \in Screens, screen'.y >= 2, SameAreas(screen, screen'),
           UNCHANGED <<last, time>>
    PROVE  Shows'
<1>1. \A j \in ClockCol .. Width - 1 : screen'.buf[0][j] = screen.buf[0][j]
    BY AreaShapes DEF SameAreas, ClockArea
<1>2. \A p \in KeyArea : screen'.buf[1][p[2]] = screen.buf[1][p[2]]
    BY AreaShapes DEF SameAreas, KeyArea
<1>3. LastKeyShown'
    BY <1>2 DEF LastKeyShown, Shows, AreasSurvive
<1>4. LastTimeShown'
    <2>1. \A k \in 1 .. Len(time.text) : ClockCol + k - 1 \in ClockCol .. Width - 1
        BY Geometry DEF Shows
    <2>2. QED
        BY <1>1, <2>1 DEF LastTimeShown, Shows, AreasSurvive
<1>5. QED
    BY <1>3, <1>4 DEF Shows, AreasSurvive

-----------------------------------------------------------------------------
(* The bytes and the keys.                                                 *)

\* There are finitely many keys among the bytes received.
LEMMA KeysFinite ==
    ASSUME NEW q \in Seq(Nat)
    PROVE  /\ IsFiniteSet(KeysOf(q)) /\ Cardinality(KeysOf(q)) \in Nat
           /\ \A k : IsFiniteSet(KeysUpTo(q, k)) /\ Cardinality(KeysUpTo(q, k)) \in Nat
<1>1. IsFiniteSet(1 .. Len(q))
    BY FS_Interval
<1>2. KeysOf(q) \subseteq 1 .. Len(q) /\ \A k : KeysUpTo(q, k) \subseteq 1 .. Len(q)
    BY DEF KeysOf, KeysUpTo
<1>3. IsFiniteSet(KeysOf(q)) /\ \A k : IsFiniteSet(KeysUpTo(q, k))
    BY <1>1, <1>2, FS_Subset
<1>4. QED
    BY <1>3, FS_CardinalityType

\* A prefix is no key.
LEMMA PrefixDecoded ==
    ASSUME NEW q \in Seq(Nat), NEW ev, Decoded(q, ev)
    PROVE  LET r == Append(q, Prefix) IN r \in Seq(Nat) /\ AfterPrefix(r) /\ Decoded(r, ev)
<1> DEFINE r == Append(q, Prefix)
           n == Len(q)
<1>1. /\ r \in Seq(Nat) /\ Len(r) = n + 1 /\ n \in Nat /\ r[n + 1] = Prefix
      /\ \A k \in 1 .. n : r[k] = q[k]
    BY DEF Prefix
<1> HIDE DEF r
<1>2. KeysOf(r) = KeysOf(q)
    <2>1. \A k \in 1 .. n + 1 : k \in 1 .. n \/ k = n + 1
        BY <1>1
    <2>2. \A k \in 1 .. n : k \in 1 .. n + 1
        BY <1>1
    <2>3. QED
        BY <1>1, <2>1, <2>2 DEF KeysOf
<1>3. \A k : KeysUpTo(r, k) = KeysUpTo(q, k)
    BY <1>2 DEF KeysUpTo
<1>4. ASSUME NEW k \in KeysOf(q)
      PROVE  r[k] = q[k] /\ (k > 1 => r[k - 1] = q[k - 1])
    <2>1. k \in 1 .. n /\ (k > 1 => k - 1 \in 1 .. n)
        BY <1>1 DEF KeysOf
    <2>2. QED
        BY <1>1, <2>1
<1>5. Decoded(r, ev)
    BY <1>2, <1>3, <1>4 DEF Decoded
<1>6. AfterPrefix(r)
    BY <1>1 DEF AfterPrefix
<1>7. QED
    BY <1>1, <1>5, <1>6 DEF r

\* Any other byte is the next key, escaped if the byte before it is a prefix.
LEMMA KeyDecoded ==
    ASSUME NEW q \in Seq(Nat), NEW ev \in Seq(Nat \X BOOLEAN), Decoded(q, ev),
           NEW b \in Nat, b # Prefix, NEW esc \in BOOLEAN, esc <=> AfterPrefix(q)
    PROVE  LET r == Append(q, b)
               f == Append(ev, <<scancode(b), esc>>)
           IN  /\ r \in Seq(Nat) /\ ~AfterPrefix(r) /\ f \in Seq(Nat \X BOOLEAN)
               /\ Decoded(r, f)
<1> DEFINE r == Append(q, b)
           n == Len(q)
           e == <<scancode(b), esc>>
           f == Append(ev, e)
           m == Len(ev)
<1>1. /\ r \in Seq(Nat) /\ Len(r) = n + 1 /\ n \in Nat /\ r[n + 1] = b
      /\ \A k \in 1 .. n : r[k] = q[k]
    OBVIOUS
<1>2. e \in Nat \X BOOLEAN
    BY DEF scancode
<1>3. e = <<scancode(r[n + 1]), n + 1 > 1 /\ r[(n + 1) - 1] = Prefix>>
    <2>1. (n + 1) - 1 = n /\ (n + 1 > 1 <=> n > 0)
        BY <1>1
    <2>2. n > 0 => r[n] = q[n]
        BY <1>1
    <2>3. esc <=> n + 1 > 1 /\ r[(n + 1) - 1] = Prefix
        BY <2>1, <2>2 DEF AfterPrefix
    <2>4. QED
        BY <1>1, <2>3
<1> HIDE DEF e
<1>4. /\ f \in Seq(Nat \X BOOLEAN) /\ Len(f) = m + 1 /\ m \in Nat /\ f[m + 1] = e
      /\ \A k \in 1 .. m : f[k] = ev[k]
    BY <1>2
<1> HIDE DEF r, f
<1>5. KeysOf(r) = KeysOf(q) \cup {n + 1} /\ n + 1 \notin KeysOf(q)
    <2>1. \A k \in 1 .. n + 1 : k \in 1 .. n \/ k = n + 1
        BY <1>1
    <2>2. /\ n + 1 \in 1 .. n + 1 /\ n + 1 \notin 1 .. n
          /\ \A k \in 1 .. n : k \in 1 .. n + 1
        BY <1>1
    <2>3. QED
        BY <1>1, <2>1, <2>2 DEF KeysOf
<1>6. Cardinality(KeysOf(r)) = m + 1
    <2>1. IsFiniteSet(KeysOf(q)) /\ Cardinality(KeysOf(q)) = m
        BY KeysFinite DEF Decoded
    <2>2. Cardinality(KeysOf(q) \cup {n + 1}) = Cardinality(KeysOf(q)) + 1
        BY <1>5, <2>1, FS_AddElement
    <2>3. QED
        BY <1>5, <2>1, <2>2
<1>7. ASSUME NEW k \in KeysOf(q)
      PROVE  /\ KeysUpTo(r, k) = KeysUpTo(q, k) /\ r[k] = q[k]
             /\ k > 1 => r[k - 1] = q[k - 1]
             /\ Cardinality(KeysUpTo(q, k)) \in 1 .. m
    <2>1. k \in 1 .. n /\ k \in Nat /\ ~(n + 1 <= k)
        BY <1>1 DEF KeysOf
    <2>2. KeysUpTo(r, k) = KeysUpTo(q, k)
        BY <1>5, <2>1 DEF KeysUpTo
    <2>3. r[k] = q[k] /\ (k > 1 => r[k - 1] = q[k - 1])
        <3>1. k > 1 => k - 1 \in 1 .. n
            BY <1>1, <2>1
        <3>2. QED
            BY <1>1, <2>1, <3>1
    <2>4. Cardinality(KeysUpTo(q, k)) <= m
        BY KeysFinite, FS_Subset DEF KeysUpTo, Decoded
    <2>5. k \in KeysUpTo(q, k)
        BY <2>1 DEF KeysUpTo
    <2>6. Cardinality(KeysUpTo(q, k)) # 0
        BY <2>5, KeysFinite, FS_EmptySet
    <2>7. QED
        BY <1>4, <2>2, <2>3, <2>4, <2>6, KeysFinite
<1>8. KeysUpTo(r, n + 1) = KeysOf(r)
    <2>1. \A k \in KeysOf(r) : k <= n + 1
        BY <1>1 DEF KeysOf
    <2>2. QED
        BY <2>1 DEF KeysUpTo
<1>9. ASSUME NEW k \in KeysOf(r)
      PROVE  f[Cardinality(KeysUpTo(r, k))] = <<scancode(r[k]), k > 1 /\ r[k - 1] = Prefix>>
    <2>1. CASE k = n + 1
        BY <1>3, <1>4, <1>6, <1>8, <2>1
    <2>2. CASE k \in KeysOf(q)
        <3>1. f[Cardinality(KeysUpTo(r, k))] = ev[Cardinality(KeysUpTo(q, k))]
            BY <1>4, <1>7, <2>2
        <3>2. ev[Cardinality(KeysUpTo(q, k))] = <<scancode(q[k]), k > 1 /\ q[k - 1] = Prefix>>
            BY <2>2 DEF Decoded
        <3>3. r[k] = q[k] /\ ((k > 1 /\ r[k - 1] = Prefix) <=> (k > 1 /\ q[k - 1] = Prefix))
            BY <1>7, <2>2
        <3>4. QED
            BY <3>1, <3>2, <3>3
    <2>3. QED
        BY <1>5, <2>1, <2>2
<1>10. Decoded(r, f)
    BY <1>4, <1>6, <1>9 DEF Decoded
<1>11. ~AfterPrefix(r)
    BY <1>1 DEF AfterPrefix
<1>12. QED
    BY <1>1, <1>4, <1>10, <1>11 DEF r, f, e

-----------------------------------------------------------------------------
(* The time of day.                                                        *)

\* The distance on a dial of half a day, whatever half days lie between.
LEMMA CongruentRest ==
    ASSUME NEW x \in Int, NEW y \in Int, NEW d \in Int, 0 <= d, d < 43200, NEW k \in Int,
           x = y + d + 43200 * k
    PROVE  ((x % 43200) - (y % 43200)) % 43200 = d
<1>1. PICK i \in Int : y = 43200 * i + (y % 43200) /\ y % 43200 \in Int
    OBVIOUS
<1>2. x % 43200 = IF (y % 43200) + d < 43200 THEN (y % 43200) + d
                                             ELSE (y % 43200) + d - 43200
    BY <1>1
<1>3. QED
    BY <1>1, <1>2

\* The three registers, read within a minute, tell a time that is that of the
\* last reading, a minute less or an hour less.
LEMMA ReadingLags ==
    ASSUME NEW t1 \in Nat, NEW t2 \in Nat, NEW t3 \in Nat,
           t1 <= t2, t2 <= t3, t3 - t1 <= 59
    PROVE  \E d \in {0, 60, 3600}, k \in Int :
              t3 - (rtc_get_hour(t1) * 3600 + rtc_get_minute(t2) * 60 + rtc_get_second(t3))
                 = d + 86400 * k
<1> DEFINE m1 == t1 \div 60
           m2 == t2 \div 60
           m3 == t3 \div 60
           h1 == m1 \div 60
           h2 == m2 \div 60
           h3 == m3 \div 60
<1>1. rtc_get_hour(t1) = (t1 \div 3600) % 24
    BY RegisterFacts
<1>2. rtc_get_minute(t2) = m2 % 60
    BY RegisterFacts
<1>3. rtc_get_second(t3) = t3 % 60
    BY SecondFacts
<1>4. /\ m1 \in Nat /\ m2 \in Nat /\ m3 \in Nat /\ m1 <= m2 /\ m2 <= m3 /\ m3 <= m1 + 1
      /\ t3 = 60 * m3 + (t3 % 60)
    OBVIOUS
<1>5. t1 \div 3600 = h1
    OBVIOUS
<1> HIDE DEF m1, m2, m3
<1>6. /\ h1 \in Nat /\ h3 \in Nat /\ m3 = 60 * h3 + (m3 % 60) /\ m2 = 60 * h2 + (m2 % 60)
      /\ h2 \in Nat /\ h1 <= h2 /\ h2 <= h3 /\ h3 <= h1 + 1
    BY <1>4
<1>7. 3600 * h3 + 60 * (m3 % 60) - (3600 * h1 + 60 * (m2 % 60)) \in {0, 60, 3600}
    <2>1. CASE m2 = m3
        BY <1>4, <1>6, <2>1
    <2>2. CASE m2 # m3
        <3>1. m1 = m2 /\ m3 = m2 + 1
            BY <1>4, <2>2
        <3>2. h1 = h2
            BY <3>1
        <3>3. QED
            BY <1>4, <1>6, <3>1, <3>2
    <2>3. QED
        BY <2>1, <2>2
<1> DEFINE d == 3600 * h3 + 60 * (m3 % 60) - (3600 * h1 + 60 * (m2 % 60))
           k == h1 \div 24
<1>8. k \in Int /\ h1 = 24 * k + (h1 % 24)
    BY <1>6
<1>9. t3 - ((h1 % 24) * 3600 + (m2 % 60) * 60 + (t3 % 60)) = d + 86400 * k
    BY <1>4, <1>6, <1>8
<1> HIDE DEF d, k
<1>10. QED
    <2>1. rtc_get_hour(t1) = h1 % 24
        BY <1>5, <1>1
    <2>2. t3 - (rtc_get_hour(t1) * 3600 + rtc_get_minute(t2) * 60 + rtc_get_second(t3))
             = d + 86400 * k
        BY <1>9, <1>2, <1>3, <2>1
    <2>3. d \in {0, 60, 3600}
        BY <1>7 DEF d
    <2>4. QED
        BY <1>8, <2>2, <2>3

\* So a time rtc_print shows is one of the dial and lags by at most an hour.
LEMMA ShownLags ==
    ASSUME NEW t1 \in Nat, NEW t2 \in Nat, NEW t3 \in Nat,
           t1 <= t2, t2 <= t3, t3 - t1 <= 59
    PROVE  LET r == Reads(t1, t2, t3)
               h == Shown(r.hour).hour
           IN  /\ h \in 0 .. 12
               /\ (((t3 - 5 * 3600) % HalfDay) - ((h * 3600 + r.min * 60 + r.sec) % HalfDay))
                     % HalfDay <= 3600
<1> DEFINE r == Reads(t1, t2, t3)
           g == rtc_get_hour(t1)
           m == rtc_get_minute(t2)
           s == rtc_get_second(t3)
           h == Shown(r.hour).hour
           x == t3 - 5 * 3600
           y == h * 3600 + m * 60 + s
<1>1. r.hour = g /\ r.min = m /\ r.sec = s
    BY DEF Reads
<1>2. m \in Int /\ s \in Int /\ g \in Int /\ g \in 0 .. 23
    <2>1. g \in 0 .. 23
        BY RegisterFacts
    <2>2. m \in 0 .. 59
        BY RegisterFacts
    <2>3. s \in 0 .. 59
        BY RegisterFacts
    <2> HIDE DEF g, m, s
    <2>4. QED
        BY <2>1, <2>2, <2>3
<1>3. PICK d \in {0, 60, 3600}, k \in Int : t3 - (g * 3600 + m * 60 + s) = d + 86400 * k
    BY ReadingLags
<1> HIDE DEF g, m, s, r
<1>4. h \in 0 .. 12 /\ \E q \in -1 .. 1 : h = r.hour - 5 + 12 * q
    BY <1>1, <1>2, ShownFacts
<1> HIDE DEF h
<1>5. PICK q \in Int : h = g - 5 + 12 * q
    <2>1. PICK q \in -1 .. 1 : h = r.hour - 5 + 12 * q
        BY <1>4
    <2>2. q \in Int /\ h = g - 5 + 12 * q
        BY <1>1, <2>1
    <2>3. QED
        BY <2>2
<1>6. h \in Int /\ d \in Int /\ 0 <= d /\ d <= 3600 /\ 2 * k - q \in Int
    BY <1>4
<1>7. x \in Int /\ y \in Int
    BY <1>2, <1>6
<1>8. x = y + d + 43200 * (2 * k - q)
    BY <1>2, <1>3, <1>5, <1>6
<1> HIDE DEF x, y
<1>9. ((x % 43200) - (y % 43200)) % 43200 = d
    <2> DEFINE l == 2 * k - q
    <2>1. l \in Int /\ x = y + d + 43200 * l
        BY <1>6, <1>8
    <2> HIDE DEF l
    <2>2. QED
        BY <1>7, <1>6, <2>1, CongruentRest
<1>10. HalfDay = 43200
    BY DEF HalfDay
<1>11. ((x % HalfDay) - (y % HalfDay)) % HalfDay <= 3600
    BY <1>6, <1>9, <1>10
<1>12. y = h * 3600 + r.min * 60 + r.sec
    BY <1>1 DEF y
<1>13. ((x % HalfDay) - ((h * 3600 + r.min * 60 + r.sec) % HalfDay)) % HalfDay <= 3600
    BY <1>11, <1>12
<1>14. QED
    BY <1>4, <1>13 DEF h, r, x

-----------------------------------------------------------------------------
(* The start.                                                              *)

\* A log line: its characters, then the newline.
LEMMA LastElement ==
    ASSUME NEW p \in Seq({ink, Newline})
    PROVE  LET str == Append(p, Newline) IN
           /\ Len(str) = Len(p) + 1 /\ str[Len(p) + 1] = Newline
           /\ \A k \in 1 .. Len(p) : str[k] = p[k]
<1> DEFINE c == Newline
           S == {ink, Newline}
<1>1. c \in S /\ p \in Seq(S)
    OBVIOUS
<1> HIDE DEF c, S
<1>2. LET str == Append(p, c) IN
      /\ Len(str) = Len(p) + 1 /\ str[Len(p) + 1] = c
      /\ \A k \in 1 .. Len(p) : str[k] = p[k]
    BY <1>1
<1>3. QED
    BY <1>2 DEF c

\* A short log line written from the first column takes one row.
LEMMA FirstLines ==
    ASSUME NEW s \in Screens, s.x = 0, s.y + 1 < Height
    PROVE  LET r == Logged(s, 2) IN r \in Screens /\ r.x = 0 /\ r.y = s.y + 1
<1> DEFINE str == Append(Repeat(ink, 2), Newline)
<1>1. Len(str) = 3 /\ str[1] = ink /\ str[2] = ink /\ str[3] = Newline /\ ink \in Glyphs
    <2> DEFINE p == Repeat(ink, 2)
    <2>1. p \in Seq({ink, Newline}) /\ Len(p) = 2 /\ p[1] = ink /\ p[2] = ink
        BY DEF Repeat
    <2> HIDE DEF p
    <2>2. Len(str) = 3 /\ str[3] = Newline /\ str[1] = p[1] /\ str[2] = p[2]
        <3>1. str = Append(p, Newline)
            BY DEF p
        <3> HIDE DEF str
        <3>2. Len(str) = Len(p) + 1 /\ str[Len(p) + 1] = Newline
            BY <2>1, <3>1, LastElement
        <3>3. \A k \in 1 .. Len(p) : str[k] = p[k]
            BY <2>1, <3>1, LastElement
        <3>4. QED
            BY <2>1, <3>2, <3>3
    <2> HIDE DEF str
    <2>3. QED
        BY <2>1, <2>2 DEF Glyphs
<1> HIDE DEF str
<1>2. PICK g : /\ g[0] = s
               /\ \A k \in 1 .. Len(str) : g[k] = vga_putc(g[k - 1], str[k])
               /\ vga_print(s, str) = g[Len(str)]
    <2>1. Len(str) \in Nat
        BY <1>1
    <2>2. QED
        BY <2>1, PrintLoop
<1>3. g[1] = vga_putc(g[0], ink) /\ g[2] = vga_putc(g[1], ink) /\ g[3] = vga_putc(g[2], Newline)
    <2>1. 1 \in 1 .. 3 /\ 2 \in 1 .. 3 /\ 3 \in 1 .. 3 /\ 1 - 1 = 0 /\ 2 - 1 = 1 /\ 3 - 1 = 2
        OBVIOUS
    <2>2. QED
        BY <1>1, <1>2, <2>1
<1>4. ASSUME NEW t \in Screens, t.y = s.y, t.x + 1 < Width
      PROVE  LET r == vga_putc(t, ink) IN r \in Screens /\ r.x = t.x + 1 /\ r.y = s.y
    <2>1. NextX(t.x) = t.x + 1 /\ NextY(t.x, t.y) = t.y
        <3>1. ~(t.x + 1 >= Width)
            <4>1. t.x \in Cols
                BY DEF Screens
            <4>2. t.x \in Nat /\ Width \in Nat
                BY <4>1, Geometry
            <4>3. t.x + 1 < Width
                BY <1>4
            <4>4. QED
                BY <4>2, <4>3
        <3>2. QED
            BY <3>1 DEF NextX, NextY
    <2>2. /\ vga_putc(t, ink) \in Screens
          /\ vga_putc(t, ink) =
                [t EXCEPT !.x = NextX(t.x), !.y = NextY(t.x, t.y),
                          !.buf = [t.buf EXCEPT ![t.y] = [t.buf[t.y] EXCEPT ![t.x] = ink]]]
        BY <1>1, <1>4, PutGlyph
    <2>3. QED
        BY <1>4, <2>1, <2>2 DEF Screens
<1>5. 0 + 1 < Width /\ 1 + 1 < Width
    BY Geometry
<1>6. g[1] \in Screens /\ g[1].x = 1 /\ g[1].y = s.y
    BY <1>2, <1>3, <1>4, <1>5
<1>7. g[2] \in Screens /\ g[2].x = 2 /\ g[2].y = s.y
    BY <1>3, <1>4, <1>6, <1>5
<1>8. g[3] \in Screens /\ g[3].x = 0 /\ g[3].y = s.y + 1
    BY <1>3, <1>7, PutNewline
<1>9. QED
    BY <1>1, <1>2, <1>8 DEF Logged, str

\* At the start the log has its first lines, and the areas are as vga_init left them.
LEMMA InitConsole == Init => ConsoleInv
<1> SUFFICES ASSUME Init PROVE ConsoleInv
    OBVIOUS
<1>1. vga_init \in Screens /\ vga_init.x = 0 /\ vga_init.y = 0
    <2>1. [i \in Rows |-> BlankLine] \in [Rows -> [Cols -> Shades]]
        BY LineTypes
    <2>2. <<>> \in Seq([Cols -> Shades])
        OBVIOUS
    <2>3. QED
        BY <2>1, <2>2, Geometry DEF vga_init, Screens
<1> DEFINE a == Logged(vga_init, 2)
           b == Logged(a, 2)
<1>2. a \in Screens /\ a.x = 0 /\ a.y = 1
    BY <1>1, Geometry, FirstLines
<1> HIDE DEF a
<1>3. b \in Screens /\ b.y = 2
    BY <1>2, Geometry, FirstLines
<1> HIDE DEF b
<1>4. screen = WithLines(b)
    BY DEF Init, a, b
<1>5. screen \in Screens /\ screen.y >= 2
    <2> DEFINE L == [k \in 1 .. Height |-> UnsetLine]
    <2>1. L \in Seq([Cols -> Shades])
        BY LineTypes, Geometry
    <2>2. screen = LinesSet(b, L)
        BY <1>4 DEF WithLines, LinesSet
    <2> HIDE DEF L
    <2>3. QED
        <3>1. LinesSet(b, L) \in Screens /\ LinesSet(b, L).y = b.y
            BY <1>3, <2>1, ScreenWith
        <3>2. QED
            BY <1>3, <2>2, <3>1
<1>6. /\ last = NoName /\ time = NoTime /\ stopped = "no" /\ state = 0
      /\ received = <<>> /\ events = <<>>
    BY DEF Init
<1>7. Shows
    <2>1. time.text = <<>>
        BY <1>6 DEF NoTime
    <2>2. <<>> \in Seq(Nat) /\ Len(<<>>) = 0
        OBVIOUS
    <2>3. LastTimeShown
        BY <2>1, <2>2 DEF LastTimeShown
    <2>4. LastKeyShown
        BY <1>6 DEF LastKeyShown
    <2>5. QED
        BY <1>5, <1>6, <2>1, <2>2, <2>3, <2>4 DEF Shows, AreasSurvive
<1>8. Heard
    <2> DEFINE e == <<>>
    <2>1. e \in Seq(Nat) /\ e \in Seq(Nat \X BOOLEAN) /\ Len(e) = 0
        OBVIOUS
    <2>2. received = e /\ events = e
        BY <1>6
    <2> HIDE DEF e
    <2>3. ~AfterPrefix(e) /\ KeysOf(e) = {}
        BY <2>1 DEF AfterPrefix, KeysOf
    <2>4. Decoded(e, e)
        BY <2>1, <2>3, FS_EmptySet DEF Decoded
    <2>5. QED
        BY <1>6, <2>1, <2>2, <2>3, <2>4 DEF Heard
<1>9. QED
    BY <1>6, <1>7, <1>8 DEF ConsoleInv, NamesFit, ClockLags

-----------------------------------------------------------------------------
(* The steps.                                                              *)

\* A log line.
LEMMA StepKLOG ==
    ASSUME ConsoleInv, NEW n \in TextLengths, KLOG(n)
    PROVE  ConsoleInv' /\ KeepsToItsArea
<1>1. /\ stopped = "no" /\ screen' = Logged(screen, n)
      /\ UNCHANGED <<state, stopped, received, events, last, time>>
    BY DEF KLOG
<1>2. n \in Nat /\ Shows /\ screen \in Screens /\ screen.y >= 2
    BY InputAssumption DEF ConsoleInv, Shows
<1>3. screen' \in Screens /\ screen'.y >= 2 /\ SameAreas(screen, screen')
    BY <1>1, <1>2, LoggedBelow
<1>4. Shows'
    BY <1>1, <1>2, <1>3, AreasKept
<1>5. Heard' /\ NamesFit' /\ ClockLags'
    BY <1>1 DEF ConsoleInv, Heard, NamesFit, ClockLags, Dial, TimeShown
<1>6. QED
    BY <1>1, <1>4, <1>5 DEF ConsoleInv, KeepsToItsArea

\* The clock thread prints the time.
LEMMA StepClock ==
    ASSUME ConsoleInv, NEW t1 \in Instants, NEW t2 \in Instants, NEW t3 \in Instants,
           thread_task(t1, t2, t3)
    PROVE  ConsoleInv' /\ KeepsToItsArea
<1> DEFINE r == Reads(t1, t2, t3)
           text == rtc_print(r)
           h == Shown(r.hour).hour
<1>1. /\ t1 <= t2 /\ t2 <= t3 /\ t3 - t1 <= MaxDelay
      /\ screen' = PrintedAt(screen, ClockCol, 0, Cells(text))
      /\ time' = [text |-> text, hour |-> h, min |-> r.min, sec |-> r.sec, at |-> t3]
      /\ UNCHANGED <<state, stopped, received, events, last>>
    BY DEF thread_task
<1>2. t1 \in Nat /\ t2 \in Nat /\ t3 \in Nat /\ t3 - t1 <= 59
    BY <1>1, DelayAssumption
<1>3. text \in Seq(Nat) /\ Len(text) <= 10
    BY <1>2, RtcText
<1>4. /\ h \in 0 .. 12
      /\ (((t3 - 5 * 3600) % HalfDay) - ((h * 3600 + r.min * 60 + r.sec) % HalfDay))
            % HalfDay <= 3600
    BY <1>1, <1>2, ShownLags
<1> HIDE DEF r, text, h
<1>5. /\ time'.text = text /\ time'.hour = h /\ time'.min = r.min /\ time'.sec = r.sec
      /\ time'.at = t3
    BY <1>1
<1>6. Shows' /\ ChangedOnly(screen, screen', ClockArea)
    <2>1. Shows /\ last' = last
        BY <1>1 DEF ConsoleInv
    <2>2. QED
        BY <1>1, <1>3, <1>5, <2>1, TimeKeeps
<1>7. ClockLags'
    BY <1>4, <1>5 DEF ClockLags, Dial, TimeShown
<1>8. Heard' /\ NamesFit'
    BY <1>1 DEF ConsoleInv, Heard, NamesFit
<1>9. QED
    BY <1>1, <1>6, <1>7, <1>8 DEF ConsoleInv, KeepsToItsArea

\* A prefix byte only sets the state.
LEMMA StepPrefix ==
    ASSUME ConsoleInv, KeyPrefix
    PROVE  ConsoleInv' /\ KeepsToItsArea
<1>1. /\ stopped = "no" /\ received' = Append(received, Prefix) /\ state' = 1
      /\ UNCHANGED <<screen, stopped, events, last, time>>
    BY DEF KeyPrefix, Received
<1>2. received \in Seq(Nat) /\ Decoded(received, events) /\ events \in Seq(Nat \X BOOLEAN)
    BY DEF ConsoleInv, Heard
<1>3. received' \in Seq(Nat) /\ AfterPrefix(received') /\ Decoded(received', events)
    BY <1>1, <1>2, PrefixDecoded
<1>4. Heard'
    BY <1>1, <1>2, <1>3 DEF Heard
<1>5. Shows' /\ NamesFit' /\ ClockLags'
    BY <1>1 DEF ConsoleInv, Shows, AreasSurvive, LastKeyShown, LastTimeShown,
                NamesFit, ClockLags, Dial, TimeShown
<1>6. QED
    BY <1>1, <1>4, <1>5 DEF ConsoleInv, KeepsToItsArea

\* A byte that is no prefix: the handler decodes it, and leaves the clock alone.
LEMMA StepHeard ==
    ASSUME Heard, NEW b \in Bytes, b # Prefix, Received(b), state' = 0,
           events' = Append(events, <<scancode(b), state = 1>>)
    PROVE  /\ Heard' /\ scancode(b) \in 0 .. 127
           /\ events'[Len(events')] = <<scancode(b), state = 1>>
<1> DEFINE esc == state = 1
           e == <<scancode(b), esc>>
<1>1. received' = Append(received, b) /\ b \in Nat /\ b \in 0 .. 255
    BY InputAssumption DEF Received
<1>2. /\ received \in Seq(Nat) /\ events \in Seq(Nat \X BOOLEAN)
      /\ Decoded(received, events) /\ (esc <=> AfterPrefix(received)) /\ esc \in BOOLEAN
    BY DEF Heard
<1>3. scancode(b) \in 0 .. 127 /\ scancode(b) \in Nat
    BY <1>1 DEF scancode
<1>4. events' = Append(events, e)
    OBVIOUS
<1> HIDE DEF esc
<1>5. /\ received' \in Seq(Nat) /\ ~AfterPrefix(received')
      /\ events' \in Seq(Nat \X BOOLEAN) /\ Decoded(received', events')
    BY <1>1, <1>2, <1>4, KeyDecoded
<1>6. events'[Len(events')] = e
    <2>1. e \in Nat \X BOOLEAN
        BY <1>2, <1>3
    <2> HIDE DEF e
    <2>2. QED
        BY <1>2, <1>4, <2>1
<1>7. QED
    BY <1>3, <1>5, <1>6 DEF Heard, esc

\* A plain key: its name is printed.
LEMMA StepPlain ==
    ASSUME ConsoleInv, NEW b \in Bytes, KeyPlain(b)
    PROVE  ConsoleInv' /\ KeepsToItsArea
<1> DEFINE name == to_string(scancode(b))
<1>1. /\ b # Prefix /\ state = 0 /\ Received(b) /\ ShowName(name) /\ state' = 0
      /\ events' = Append(events, <<scancode(b), FALSE>>)
      /\ stopped = "no" /\ time' = time
    BY DEF KeyPlain, Received
<1>2. Shows /\ Heard
    BY DEF ConsoleInv
<1>3. (state = 1) = FALSE
    BY <1>1
<1>4. Heard' /\ scancode(b) \in 0 .. 127
    BY <1>1, <1>2, <1>3, StepHeard
<1>5. name \in Names
    BY <1>4, NameFacts
<1> HIDE DEF name
<1>6. Shows' /\ stopped' = stopped /\ ChangedOnly(screen, screen', KeyArea)
    BY <1>1, <1>2, <1>5, ShowNameKeeps
<1>7. NamesFit' /\ ClockLags'
    BY <1>1, <1>6 DEF ConsoleInv, NamesFit, ClockLags, Dial, TimeShown
<1>8. QED
    BY <1>1, <1>4, <1>6, <1>7 DEF ConsoleInv, KeepsToItsArea

\* An escaped key: its name is printed, or the kernel ends for want of one.
LEMMA StepEscaped ==
    ASSUME ConsoleInv, NEW b \in Bytes, KeyEscaped(b)
    PROVE  ConsoleInv' /\ KeepsToItsArea
<1> DEFINE c == scancode(b)
           Scrolled == screen' \in {vga_scroll_down(screen), vga_scroll_up(screen)}
           Named == \E d \in EscapedNamed : ShowName(escaped_to_string(d))
           Ended == UNCHANGED <<screen, last>> /\ c \notin EscapedNamed
<1>1. /\ b # Prefix /\ state = 1 /\ Received(b) /\ state' = 0
      /\ events' = Append(events, <<c, TRUE>>) /\ stopped = "no" /\ time' = time
    BY DEF KeyEscaped, Received, StateAfterEscaped
<1>2. Shows /\ Heard /\ screen \in Screens /\ screen.y >= 2
    BY DEF ConsoleInv, Shows
<1>3. (state = 1) = TRUE
    BY <1>1
<1>4. Heard' /\ events'[Len(events')] = <<c, TRUE>>
    BY <1>1, <1>2, <1>3, StepHeard
<1>5. \/ Scrolled /\ UNCHANGED <<stopped, last>>
      \/ Named
      \/ Ended
    BY DEF KeyEscaped, ShowAnything
<1> HIDE DEF c
<1>6. ClockLags'
    BY <1>1 DEF ConsoleInv, ClockLags, Dial, TimeShown
<1>7. CASE Scrolled /\ UNCHANGED <<stopped, last>>
    <2>1. /\ screen' \in Screens /\ screen'.y = screen.y /\ SameAreas(screen, screen')
          /\ screen' # screen => screen'.line_number # screen.line_number
        <3>1. CASE screen' = vga_scroll_down(screen)
            <4>1. /\ screen' \in Screens /\ screen'.y = screen.y
                  /\ screen'.line_number = screen.line_number + 1 /\ SameAreas(screen, screen')
                BY <1>2, <3>1, ScrollDownKeeps
            <4>2. screen.line_number \in Nat
                BY <1>2 DEF Screens
            <4>3. QED
                BY <4>1, <4>2
        <3>2. CASE screen' = vga_scroll_up(screen)
            BY <1>2, <3>2, ScrollUpKeeps
        <3>3. QED
            BY <1>7, <3>1, <3>2
    <2>2. Shows'
        BY <1>1, <1>2, <1>7, <2>1, AreasKept
    <2>3. NamesFit'
        BY <1>1, <1>7 DEF NamesFit
    <2>4. QED
        BY <1>4, <1>6, <2>1, <2>2, <2>3 DEF ConsoleInv, KeepsToItsArea
<1>8. CASE Named
    <2>1. PICK d \in EscapedNamed : ShowName(escaped_to_string(d))
        BY <1>8
    <2>2. escaped_to_string(d) \in Names
        BY NameFacts
    <2>3. Shows' /\ stopped' = stopped /\ ChangedOnly(screen, screen', KeyArea)
        BY <1>1, <1>2, <2>1, <2>2, ShowNameKeeps
    <2>4. NamesFit'
        BY <1>1, <2>3 DEF NamesFit
    <2>5. QED
        BY <1>1, <1>4, <1>6, <2>3, <2>4 DEF ConsoleInv, KeepsToItsArea
<1>9. CASE Ended
    <2>1. Shows'
        BY <1>1, <1>2, <1>9 DEF Shows, AreasSurvive, LastKeyShown, LastTimeShown
    <2>2. NamesFit'
        BY <1>4, <1>9 DEF NamesFit
    <2>3. QED
        BY <1>4, <1>6, <1>9, <2>1, <2>2 DEF ConsoleInv, KeepsToItsArea
<1>10. QED
    BY <1>5, <1>7, <1>8, <1>9

\* Every step of anybody keeps the invariant and keeps to its area.
LEMMA NextConsole ==
    ASSUME ConsoleInv, [Next]_vars
    PROVE  ConsoleInv' /\ (KeepsToItsArea \/ UNCHANGED vars)
<1>1. CASE Next
    BY <1>1, StepKLOG, StepClock, StepPrefix, StepPlain, StepEscaped DEF Next
<1>2. CASE UNCHANGED vars
    BY <1>2 DEF vars, ConsoleInv, Shows, AreasSurvive, LastKeyShown, LastTimeShown, Heard,
                NamesFit, ClockLags, Dial, TimeShown
<1>3. QED
    BY <1>1, <1>2

-----------------------------------------------------------------------------
(* The theorems.                                                           *)

\* Below the areas the log's cursor, in the areas what was printed last, in the
\* driver's bit the byte before: the inductive invariant of everybody who writes.
THEOREM ConsoleInvariance == Spec => []ConsoleInv
BY InitConsole, NextConsole, PTL DEF Spec

\* Whatever is logged, scrolled, typed or shown in between, the top right corner
\* shows the time and the name of the key printed there last, on a screen of any
\* size: no log line, scrolling or older name leaves anything in it (vga.c, kbd.c,
\* rtc.c).
THEOREM AreasAreKept == Spec => []AreasSurvive
<1>1. ConsoleInv => AreasSurvive
    BY DEF ConsoleInv, Shows
<1>2. QED
    BY <1>1, ConsoleInvariance, PTL

\* However many bytes come, keyboard_irq_handler's one bit of state decodes them:
\* each byte that is no prefix is one key, escaped exactly after a prefix.
THEOREM EveryPrefixCountsOnce == Spec => []PrefixCountsOnce
<1>1. ConsoleInv => PrefixCountsOnce
    BY DEF ConsoleInv, Heard, Decoded, PrefixCountsOnce, Keys, KeyNumber, KeysOf, KeysUpTo
<1>2. QED
    BY <1>1, ConsoleInvariance, PTL

\* Every name of the two tables fits its area, so the unsigned 15 - strlen(str) of
\* the handler never wraps: only an escaped key without a name ends the kernel.
THEOREM EveryNameFits == Spec => []NamesFit
<1>1. ConsoleInv => NamesFit
    BY DEF ConsoleInv
<1>2. QED
    BY <1>1, ConsoleInvariance, PTL

\* rtc_print reads the registers one after the other: as long as that takes less
\* than a minute, at any instant of any day the time it shows is one of the dial,
\* not ahead of the clock and at most an hour behind.
THEOREM ClockNeverAhead == Spec => []ClockLags
<1>1. ConsoleInv => ClockLags
    BY DEF ConsoleInv
<1>2. QED
    BY <1>1, ConsoleInvariance, PTL

\* The clock thread and the keyboard's handler bring the cursor back and write
\* nothing outside their areas, wherever the log was when they came in between.
THEOREM WritersKeepApart == Spec => OthersUndisturbed
<1>1. ConsoleInv /\ [Next]_vars => [KeepsToItsArea]_vars
    BY NextConsole
<1>2. QED
    BY <1>1, ConsoleInvariance, PTL DEF Spec, OthersUndisturbed
=============================================================================
