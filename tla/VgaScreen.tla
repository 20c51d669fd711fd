----------------------------- MODULE VgaScreen ------------------------------
(***************************************************************************)
(* The text console (kernel/drivers/vga.c) as functions from screen to      *)
(* screen: the VGA buffer, the cursor, and the lines that scrolling saves   *)
(* the buffer to and draws it from.  Row 0 from column ClockCol on and      *)
(* row 1 from column KeyCol on are reserved for the clock and the last key: *)
(* they are neither saved nor drawn.                                        *)
(*                                                                         *)
(* A caller's sequence of operations is the composition of the functions:   *)
(* every caller runs with interrupts off.  A cell is a character; its       *)
(* colour is left out.                                                      *)
(***************************************************************************)
EXTENDS Integers, Sequences, FiniteSets

CONSTANTS
    Width, Height,    \* vga_width, vga_height
    ClockCol,         \* vga_width - 10
    KeyCol,           \* vga_width - 15
    Blank,            \* a space
    Newline,
    Unset             \* memory of a line that was never written

ASSUME GeometryAssumption ==
    /\ Width \in Nat /\ Height \in Nat /\ KeyCol \in Nat /\ ClockCol \in Nat
    /\ 2 <= Height /\ Height <= KeyCol /\ KeyCol < ClockCol /\ ClockCol < Width
    /\ Width * Height <= 65536    \* 80 * 25; a position is two bytes

\* A screen is a record [x, y, buf, lines, line_number].
Rows == 0 .. Height - 1
Cols == 0 .. Width - 1

BlankLine == [j \in Cols |-> Blank]
UnsetLine == [j \in Cols |-> Unset]

-----------------------------------------------------------------------------
(* A definition with a fault in its name is a faulty variant of the one that *)
(* follows it.                                                               *)

reserved(i, j) == (i = 0 /\ j = ClockCol) \/ (i = 1 /\ j = KeyCol)

CopiesWholeRow(i, j) == TRUE

\* The loops of save_buffer and draw_buffer break at a reserved column.
Copied(i, j) == \A k \in 0 .. j : ~reserved(i, k)

\* array_get(lines, line_number + i); what is not a line reads as anything.
LineAt(s, i) ==
    LET k == s.line_number + i + 1
    IN  IF k \in 1 .. Len(s.lines) THEN s.lines[k] ELSE UnsetLine

save_buffer(s) ==
    [s EXCEPT !.lines =
        [k \in 1 .. Len(@) |->
            LET i == k - 1 - s.line_number
            IN  IF i \in Rows
                THEN [j \in Cols |-> IF Copied(i, j) THEN s.buf[i][j] ELSE @[k][j]]
                ELSE @[k]]]

draw_buffer(s) ==
    [s EXCEPT !.buf =
        [i \in Rows |-> [j \in Cols |-> IF Copied(i, j) THEN LineAt(s, i)[j]
                                                        ELSE @[i][j]]]]

NoLineAdded(s) == s

\* A blank line is added if there is none below the window.
WithNextLine(s) ==
    IF Len(s.lines) <= s.line_number + Height
    THEN [s EXCEPT !.lines = Append(@, BlankLine)]
    ELSE s

ScrolledDownUnsaved(s) ==
    draw_buffer([WithNextLine(s) EXCEPT !.line_number = @ + 1])

vga_scroll_down(s) ==
    draw_buffer([WithNextLine(save_buffer(s)) EXCEPT !.line_number = @ + 1])

vga_scroll_up(s) ==
    IF s.line_number = 0 THEN s
    ELSE draw_buffer([save_buffer(s) EXCEPT !.line_number = @ - 1])

NextRowNoScroll(s) == [s EXCEPT !.x = 0, !.y = @ + 1]

\* The cursor goes to the next row; from the last one it stays and the screen
\* scrolls.
NextRow(s) ==
    IF s.y + 1 >= Height
    THEN vga_scroll_down([s EXCEPT !.x = 0])
    ELSE [s EXCEPT !.x = 0, !.y = @ + 1]

\* ++x, and what follows when the row is full.
Advance(s) ==
    IF s.x + 1 >= Width \/ reserved(s.x + 1, s.y)
    THEN NextRow(s)
    ELSE [s EXCEPT !.x = @ + 1]

\* A newline fills the row with blanks up to its end or a reserved spot.
LineFeed(s) ==
    LET end == CHOOSE e \in s.x .. Width :
                  /\ e = Width \/ reserved(e, s.y)
                  /\ \A j \in s.x .. e - 1 : ~reserved(j, s.y)
    IN  Advance([s EXCEPT !.x = end,
                          !.buf[s.y] = [j \in Cols |-> IF j \in s.x .. end - 1
                                                       THEN Blank ELSE @[j]]])

\* Any other character; on a reserved spot, a newline comes first.
Glyph(s, c) ==
    LET t == IF reserved(s.x, s.y) THEN LineFeed(s) ELSE s
    IN  Advance([t EXCEPT !.buf[t.y][t.x] = c])

vga_putc(s, c) == IF c = Newline THEN LineFeed(s) ELSE Glyph(s, c)

\* The tests are on the old coordinates.
vga_set_x(s, v) == IF s.x < Width THEN [s EXCEPT !.x = v] ELSE s
vga_set_y(s, v) == IF s.y < Height THEN [s EXCEPT !.y = v] ELSE s

\* get_index, and the test on which it panics.
get_index(s)      == (s.y * Width) + s.x
BadCoordinates(s) == s.y > Height \/ s.x > Width

\* The bytes update_cursor sends to the hardware.
update_cursor(s) ==
    [low |-> get_index(s) % 256, high |-> (get_index(s) \div 256) % 256]

\* Clears the cursor's row; vga_clear does the same Height times.
vga_clear_line(s) == [s EXCEPT !.buf[s.y] = BlankLine]

\* vga_init: a clear screen, no lines yet.
vga_init ==
    [x |-> 0, y |-> 0, buf |-> [i \in Rows |-> BlankLine],
     lines |-> <<>>, line_number |-> 0]

\* vga_dynamic_init: Height lines, their memory not written.
WithLines(s) == [s EXCEPT !.lines = [k \in 1 .. Height |-> UnsetLine]]

\* Columns reserved in some row of the screen.
ReservedArea == {0} \X (ClockCol .. Width - 1) \cup {1} \X (KeyCol .. Width - 1)
=============================================================================
