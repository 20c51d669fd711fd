-------------------------------- MODULE Rtc ---------------------------------
(***************************************************************************)
(* What the real-time clock (kernel/drivers/rtc.c) prints.  An instant is a  *)
(* number of seconds since a midnight UTC; each register of the clock shows   *)
(* one part of the instant at which it is read.                              *)
(***************************************************************************)
EXTENDS Printf

\* The clock's registers hold two decimal digits in a byte.
Bcd(n) == ((n \div 10) * 16) + (n % 10)

as_binary(bcd) == ((bcd \div 16) * 10) + (bcd % 16)

rtc_get_second(t) == as_binary(Bcd(t % 60))
rtc_get_minute(t) == as_binary(Bcd((t \div 60) % 60))
rtc_get_hour(t)   == as_binary(Bcd((t \div 3600) % 24))

\* The % of C rounds towards zero.
Remainder(a, n) == IF a < 0 THEN -((-a) % n) ELSE a % n

Eastern(hour) == Remainder(hour - 5, 24)

\* `if (hour < 0) hour += 12`
Lifted(h) == IF h < 0 THEN h + 12 ELSE h

\* The hour rtc_print prints, and whether as PM.
Shown(hour) ==
    LET h  == Eastern(hour)
        pm == h > 12
    IN  [hour |-> Lifted(IF pm THEN h - 12 ELSE h), pm |-> pm]

\* The registers read in the opposite order.
ReadsSecondFirst(t1, t2, t3) ==
    [hour |-> rtc_get_hour(t3), min |-> rtc_get_minute(t2), sec |-> rtc_get_second(t1)]

\* The hour is read first, the minute and the second after it: the clock goes on.
Reads(t1, t2, t3) ==
    [hour |-> rtc_get_hour(t1), min |-> rtc_get_minute(t2), sec |-> rtc_get_second(t3)]

\* `min < 10 ? "0" : ""`
LeadingZero(n) == String(IF n < 10 THEN <<48>> ELSE <<>>)

\* The text of rtc_print: "%d:%s%d:%s%d%s".
rtc_print(r) ==
    LET s == Shown(r.hour)
    IN  print(<<Decimal(s.hour), Char(58), LeadingZero(r.min), Decimal(r.min), Char(58),
                LeadingZero(r.sec), Decimal(r.sec),
                String(IF s.pm THEN <<80, 77>> ELSE <<65, 77>>)>>)
=============================================================================
