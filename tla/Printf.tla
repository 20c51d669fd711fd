------------------------------- MODULE Printf -------------------------------
(***************************************************************************)
(* What printf (libc/stdio/printf.c) sends to putchar.  A text is a sequence *)
(* of character codes; a format is a sequence of pieces, each a character or *)
(* a conversion with its argument.                                           *)
(***************************************************************************)
EXTENDS Integers, Sequences

Seqs == INSTANCE SequencesExt

PAD_RIGHT == {0}
PAD_ZERO  == {1}

\* The text, filled up to the width on the left, or on the right.
prints(string, width, pad) ==
    LET missing == IF width > Len(string) THEN width - Len(string) ELSE 0
        fill    == [k \in 1 .. missing |-> IF PAD_ZERO \subseteq pad THEN 48 ELSE 32]
    IN  IF PAD_RIGHT \subseteq pad THEN string \o fill ELSE fill \o string

\* The digits of u from the first that is not 0; those from 10 on are letters.
Digits(u, b, letbase) ==
    LET text[n \in 0 .. u] ==
            IF n = 0 THEN <<>>
            ELSE Append(text[n \div b],
                        IF n % b >= 10 THEN (n % b) - 10 + letbase ELSE (n % b) + 48)
    IN  text[u]

\* A minus sign goes before the zeros, or else after the blanks.
printi(i, b, sg, width, pad, letbase) ==
    LET neg  == sg /\ b = 10 /\ i < 0
        sign == IF neg THEN <<45>> ELSE <<>>
        u    == Digits(IF neg THEN -i ELSE i, b, letbase)
    IN  CASE i = 0 -> prints(<<48>>, width, pad)
          [] neg /\ width # 0 /\ PAD_ZERO \subseteq pad -> sign \o prints(u, width - 1, pad)
          [] OTHER -> prints(sign \o u, width, pad)

\* A piece of a format.  No format of the kernel gives a conversion a width or a
\* flag.  Arguments of %x, %X and %u are below 2^31, as all numbers here are.
Piece(type, arg) == [type |-> type, arg |-> arg, width |-> 0, pad |-> {}]
Char(c)          == Piece("char", c)
String(s)        == Piece("s", s)
Decimal(i)       == Piece("d", i)

Converted(p) ==
    CASE p.type = "char" -> <<p.arg>>
      [] p.type = "s"    -> prints(p.arg, p.width, p.pad)
      [] p.type = "c"    -> prints(<<p.arg>>, p.width, p.pad)
      [] p.type = "d"    -> printi(p.arg, 10, TRUE, p.width, p.pad, 97)
      [] p.type = "u"    -> printi(p.arg, 10, FALSE, p.width, p.pad, 97)
      [] p.type = "x"    -> printi(p.arg, 16, FALSE, p.width, p.pad, 97)
      [] p.type = "X"    -> printi(p.arg, 16, FALSE, p.width, p.pad, 65)

print(format) == Seqs!FlattenSeq([k \in 1 .. Len(format) |-> Converted(format[k])])
=============================================================================
