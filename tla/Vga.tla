-------------------------------- MODULE Vga ---------------------------------
(***************************************************************************)
(* The text console under any sequence of calls: characters, newlines,      *)
(* scrolling up and down, moving the cursor to the reserved areas and back. *)
(***************************************************************************)
EXTENDS VgaScreen

CONSTANTS
    Chars,            \* characters that are not a newline
    MaxLines,         \* bound on the number of lines
    MaxPuts           \* bound on the characters put

ASSUME CharsAssumption == Blank \in Chars /\ Newline \notin Chars /\ Unset \notin Chars

VARIABLES
    screen,  \* [x, y, buf, lines, line_number]
    ready,   \* vga_dynamic_init has created the lines
    fault,   \* lines was used before it was created
    puts     \* history: characters put so far

vgaVars == <<screen, ready, fault, puts>>

\* vga_putc scrolls: it uses the lines.
Scrolls(s, c) ==
    s.y = Height - 1 /\ (c = Newline \/ s.x = Width - 1)

-----------------------------------------------------------------------------
(* vga_init *)
VgaInit ==
    /\ screen = vga_init
    /\ ready = FALSE
    /\ fault = FALSE
    /\ puts = 0

vga_dynamic_init ==
    /\ ~ready /\ ~fault
    /\ ready' = TRUE
    /\ screen' = WithLines(screen)
    /\ UNCHANGED <<fault, puts>>

\* Before vga_dynamic_init `lines` is a null pointer.
PutChar(c) ==
    /\ ~fault
    /\ puts < MaxPuts
    /\ puts' = puts + 1
    /\ IF Scrolls(screen, c) /\ ~ready
       THEN fault' = TRUE /\ UNCHANGED screen
       ELSE /\ Len(screen.lines) < MaxLines
            /\ screen' = vga_putc(screen, c)
            /\ UNCHANGED fault
    /\ UNCHANGED ready

ScrollDown ==
    /\ ~fault /\ ready
    /\ Len(screen.lines) < MaxLines
    /\ screen' = vga_scroll_down(screen)
    /\ UNCHANGED <<ready, fault, puts>>

ScrollUp ==
    /\ ~fault /\ ready
    /\ screen' = vga_scroll_up(screen)
    /\ UNCHANGED <<ready, fault, puts>>

\* Callers go to the reserved areas and back to text.
Places == {<<ClockCol, 0>>, <<KeyCol, 1>>} \cup {0} \X Rows

MoveTo(v, w) ==
    /\ ~fault /\ ready
    /\ screen' = vga_set_y(vga_set_x(screen, v), w)
    /\ UNCHANGED <<ready, fault, puts>>

ClearLine ==
    /\ ~fault
    /\ screen' = vga_clear_line(screen)
    /\ UNCHANGED <<ready, fault, puts>>

VgaNext ==
    \/ vga_dynamic_init
    \/ \E c \in Chars \cup {Newline} : PutChar(c)
    \/ ScrollDown \/ ScrollUp
    \/ \E p \in Places : MoveTo(p[1], p[2])
    \/ ClearLine

VgaSpec == VgaInit /\ [][VgaNext]_vgaVars

-----------------------------------------------------------------------------
\* Between two operations the cursor is on the screen, and the position the two
\* bytes of update_cursor give the hardware is the cell the next character goes
\* to: get_index neither panics nor lets through the row and the column past the
\* buffer, which its own test (> for >=) would allow.
CursorOnScreen ==
    LET sent == update_cursor(screen)
    IN  /\ ~BadCoordinates(screen)
        /\ sent.high * 256 + sent.low = get_index(screen)
        /\ screen.x \in Cols /\ screen.y \in Rows

\* Every line the window shows exists: array_get returns no NULL to save_buffer
\* or draw_buffer, however often one scrolled up and down.
WindowOnLines == ready => screen.line_number + Height <= Len(screen.lines)

\* A row of the console, without the columns that are reserved in some row.
Text(row) == [j \in 0 .. KeyCol - 1 |-> row[j]]

\* Row k of the document: from the buffer inside the window, else from the lines.
DocRow(s, k) ==
    IF k - 1 - s.line_number \in Rows THEN s.buf[k - 1 - s.line_number] ELSE s.lines[k]

DocLen == IF ready THEN Len(screen.lines) ELSE Height

DocText == [k \in 1 .. DocLen |-> Text(DocRow(screen, k))]

\* The buffer over the saved lines is a document with a window: outside the
\* reserved columns scrolling loses, duplicates or reorders nothing.
Doc == INSTANCE Document WITH
    BlankLine <- Text(BlankLine), doc <- DocText, top <- screen.line_number

RefinesDocument == Doc!DocSpec

\* The lines of vga_dynamic_init are memory nobody wrote, save_buffer leaves out
\* the reserved columns, and these differ from row to row: whatever is written and
\* scrolled, such memory comes to the screen only from the first reserved column
\* on, and never in the text to the left of it.
UnsetOnlyRight ==
    \A i \in Rows, j \in Cols : screen.buf[i][j] = Unset => j >= KeyCol
=============================================================================
