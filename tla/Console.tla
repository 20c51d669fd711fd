------------------------------ MODULE Console -------------------------------
(***************************************************************************)
(* Everybody who writes to the screen once the kernel is up: the log        *)
(* (kernel/include/kernel/logger.h), the clock thread (kernel/kernel.c,     *)
(* drivers/rtc.c) and the keyboard interrupt (drivers/kbd.c).  They share   *)
(* one cursor, which the clock and the keyboard take to their reserved      *)
(* areas and bring back.                                                    *)
(*                                                                         *)
(* The log and the clock write with interrupts off, and the keyboard's      *)
(* handler is entered through an interrupt gate: each is one step.          *)
(***************************************************************************)
EXTENDS VgaScreen, Keyboard, Rtc

CONSTANTS
    Bytes,        \* bytes the keyboard sends
    Instants,     \* seconds since a midnight UTC at which the clock is read
    MaxDelay,     \* bound on the seconds one reading of the clock takes
    TextLengths,  \* lengths of log messages
    ink,          \* a character of the log
    SizeValues,   \* number of values of a size_t, far above the width of a screen
    MaxBytes,     \* bound on the bytes sent
    MaxLines      \* bound on the lines of the console

\* The areas are as wide as in the code; the screen is narrower and lower.
ASSUME AreaAssumption ==
    /\ 3 <= Height /\ Width - KeyCol = 15 /\ Width - ClockCol = 10
    /\ SizeValues \in Nat /\ SizeValues > 1000 * Width

ASSUME InputAssumption == Bytes \subseteq 0 .. 255 /\ TextLengths \subseteq Nat

\* The clock is read with interrupts off, in far less than a minute.
ASSUME DelayAssumption == Instants \subseteq Nat /\ MaxDelay \in 0 .. 59

\* What a cell shows that somebody wrote: a blank, a character of the log, of the
\* time or of a key's name.  None is a newline.
Glyphs == {Blank, ink} \cup {"text", "key", "escaped"} \X Nat

ASSUME GlyphAssumption == Newline \notin Glyphs

VARIABLES
    screen,
    state,     \* the keyboard driver's: 1 after a prefix
    stopped,   \* "no", or how the keyboard's handler ended the kernel
    received,  \* history: the bytes sent
    events,    \* history: <<scan code, taken as escaped>> in order
    last,      \* history: the name last printed, or NoName
    time       \* history: the time last printed, or NoTime

vars == <<screen, state, stopped, received, events, last, time>>

NoName == [cell |-> <<"none", 0>>, len |-> 0]
NoTime == [text |-> <<>>, hour |-> 0, min |-> 0, sec |-> 0, at |-> -1]

vga_print(s, str) ==
    LET printed[k \in 0 .. Len(str)] ==
            IF k = 0 THEN s ELSE vga_putc(printed[k - 1], str[k])
    IN  printed[Len(str)]

Repeat(c, n) == [k \in 1 .. n |-> c]

\* A log line of n characters.
Logged(s, n) == vga_print(s, Append(Repeat(ink, n), Newline))

-----------------------------------------------------------------------------
(* A definition with a fault in its name is a faulty variant of the one that *)
(* follows it.                                                               *)

\* Two lines have been logged; then vga_dynamic_init creates the lines.
Init ==
    /\ screen = WithLines(Logged(Logged(vga_init, 2), 2))
    /\ state = 0
    /\ stopped = "no"
    /\ received = <<>> /\ events = <<>>
    /\ last = NoName /\ time = NoTime

KLOG(n) ==
    /\ stopped = "no"
    /\ screen' = Logged(screen, n)
    /\ Len(screen'.lines) <= MaxLines
    /\ UNCHANGED <<state, stopped, received, events, last, time>>

CursorLeft(s, t) == t

\* vga_set_x(x), vga_set_y(y) with the coordinates read before.
CursorBack(s, t) == vga_set_y(vga_set_x(t, s.x), s.y)

\* A name or a time is printed from column v of row w on.
PrintedAt(s, v, w, str) ==
    CursorBack(s, vga_print(vga_set_y(vga_set_x(s, v), w), str))

Cells(text) == [k \in 1 .. Len(text) |-> <<"text", text[k]>>]

\* One round of thread_task: the hour is read at t1, the minute at t2, the second
\* at t3.
thread_task(t1, t2, t3) ==
    LET r == Reads(t1, t2, t3)
    IN  /\ stopped = "no"
        /\ t1 <= t2 /\ t2 <= t3 /\ t3 - t1 <= MaxDelay
        /\ screen' = PrintedAt(screen, ClockCol, 0, Cells(rtc_print(r)))
        /\ time' = [text |-> rtc_print(r), hour |-> Shown(r.hour).hour,
                    min |-> r.min, sec |-> r.sec, at |-> t3]
        /\ UNCHANGED <<state, stopped, received, events, last>>

PaddingTooNarrow(len) == (10 - len) % SizeValues

\* 15 - strlen(str) is an unsigned number.
Padding(len) == (15 - len) % SizeValues

\* The handler prints a name at the right end of its area.  A name of more than
\* 15 characters would have it print blanks for hours.
ShowName(name) ==
    IF Padding(name.len) > 15
    THEN stopped' = "hung" /\ UNCHANGED <<screen, last>>
    ELSE /\ screen' = PrintedAt(screen, KeyCol, 1,
                          Repeat(Blank, Padding(name.len)) \o Repeat(name.cell, name.len))
         /\ last' = name
         /\ UNCHANGED stopped

\* escaped_to_string returns an uninitialised pointer: to a name, to something
\* longer, or to nothing that can be read.
ShowAnything ==
    \/ \E c \in EscapedNamed : ShowName(escaped_to_string(c))
    \/ stopped' = "hung" /\ UNCHANGED <<screen, last>>
    \/ stopped' = "page_fault" /\ UNCHANGED <<screen, last>>

Received(b) ==
    /\ stopped = "no"
    /\ Len(received) < MaxBytes
    /\ received' = Append(received, b)
    /\ UNCHANGED time

\* keyboard_irq_handler, by what it reads and the state it is in.
KeyPrefix ==
    /\ Received(Prefix)
    /\ state' = 1
    /\ UNCHANGED <<screen, stopped, events, last>>

KeyPlain(b) ==
    /\ b # Prefix /\ state = 0
    /\ Received(b)
    /\ ShowName(to_string(scancode(b)))
    /\ events' = Append(events, <<scancode(b), FALSE>>)
    /\ UNCHANGED state

StateKept == state

\* `state = 0` after the second byte, whatever it was.
StateAfterEscaped == 0

KeyEscaped(b) ==
    LET c == scancode(b)
    IN  /\ b # Prefix /\ state = 1
        /\ Received(b)
        /\ \/ /\ c = Down
              /\ screen' = vga_scroll_down(screen)
              /\ Len(screen'.lines) <= MaxLines
              /\ UNCHANGED <<stopped, last>>
           \/ /\ c = Up
              /\ screen' = vga_scroll_up(screen)
              /\ UNCHANGED <<stopped, last>>
           \/ c \in EscapedNamed /\ ShowName(escaped_to_string(c))
           \/ c \notin EscapedNamed \cup {Down, Up} /\ ShowAnything
        /\ events' = Append(events, <<c, TRUE>>)
        /\ state' = StateAfterEscaped

Next ==
    \/ \E n \in TextLengths : KLOG(n)
    \/ \E t1, t2, t3 \in Instants : thread_task(t1, t2, t3)
    \/ KeyPrefix
    \/ \E b \in Bytes : KeyPlain(b) \/ KeyEscaped(b)

Spec == Init /\ [][Next]_vars

-----------------------------------------------------------------------------
KeyArea   == {p \in ReservedArea : p[1] = 1}
ClockArea == {p \in ReservedArea : p[1] = 0}

\* From screen s to screen r, no cell outside the area changes, nor the cursor,
\* nor the saved lines.
ChangedOnly(s, r, area) ==
    /\ \A p \in (Rows \X Cols) \ area : r.buf[p[1]][p[2]] = s.buf[p[1]][p[2]]
    /\ [r EXCEPT !.buf = s.buf] = s

\* A step of the clock changes its area, a step of a key that does not scroll its.
KeepsToItsArea ==
    screen'.line_number = screen.line_number /\ screen' # screen =>
        /\ time' # time => ChangedOnly(screen, screen', ClockArea)
        /\ received' # received => ChangedOnly(screen, screen', KeyArea)

\* The clock thread and a key that does not scroll come between any two writes
\* of the log and leave no trace outside their own areas: every other cell, the
\* cursor and the saved lines are as before.
OthersUndisturbed == [][KeepsToItsArea]_vars

LastKeyShown ==
    last # NoName =>
        \A p \in KeyArea :
            screen.buf[1][p[2]] = IF p[2] >= Width - last.len THEN last.cell ELSE Blank

LastTimeShown ==
    \A k \in 1 .. Len(time.text) :
        screen.buf[0][ClockCol + k - 1] = <<"text", time.text[k]>>

\* README: "I have it update in the top right corner, and as well as have the
\* last pressed key right below it".  Whatever was logged or scrolled since, the
\* key's area shows the name printed last, with nothing left of an older, longer
\* one, and the clock's area the time printed last.
AreasSurvive == LastKeyShown /\ LastTimeShown

\* The places of the bytes that are keys, and how many of them there are up to k.
Keys == {k \in 1 .. Len(received) : received[k] # Prefix}

KeyNumber(k) == Cardinality({j \in Keys : j <= k})

\* The driver's one bit of state, carried from interrupt to interrupt, decodes
\* the stream of bytes: every byte that is no prefix is a key, in the order they
\* came, escaped if and only if the byte before it is a prefix.
PrefixCountsOnce ==
    /\ Len(events) = Cardinality(Keys)
    /\ \A k \in Keys :
          events[KeyNumber(k)] =
              <<scancode(received[k]), k > 1 /\ received[k - 1] = Prefix>>

\* Every name fits the area, so the unsigned 15 - strlen(str) never wraps: the
\* handler returns, unless the key was an escaped one without a name.
NamesFit ==
    stopped # "no" =>
        LET e == events[Len(events)]
        IN  e[2] /\ e[1] \notin EscapedNamed

HalfDay == 12 * 3600

\* Eastern time on a twelve-hour dial, and the time the screen shows there.
Dial      == (time.at - 5 * 3600) % HalfDay
TimeShown == (time.hour * 3600 + time.min * 60 + time.sec) % HalfDay

\* rtc_print reads hour, minute and second one after the other, while the clock
\* goes on, and lifts the negative hours before five o'clock UTC: the time shown
\* is one of the dial, is never ahead of the clock, and at most an hour behind.
ClockLags ==
    time # NoTime => time.hour \in 0 .. 12 /\ (Dial - TimeShown) % HalfDay <= 3600
=============================================================================
