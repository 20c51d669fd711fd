------------------------------ MODULE Keyboard ------------------------------
(***************************************************************************)
(* The tables of the keyboard driver (kernel/drivers/kbd.c): what a scan    *)
(* code without its release bit is called.  A name is abstracted to the     *)
(* scan code it belongs to and its length.                                  *)
(***************************************************************************)
EXTENDS Integers

Prefix == \hE0

\* The most significant bit of a byte marks the release of a key.
released(b) == b >= 128
scancode(b) == b % 128

\* Strlen of to_string(KBD_SCAN_TABLE[c]); a code without an entry is "(NULL)".
NameLength(c) ==
    CASE c \in \h02 .. \h0B \cup \h10 .. \h19 \cup \h1E .. \h26 \cup \h2C .. \h32 -> 1
      [] c \in \h3B .. \h43                       -> 2
      [] c \in {\h01, \h0F, \h44, \h57, \h58}        -> 3
      [] c \in {\h38}                            -> 4
      [] c \in {\h0C, \h1C, \h1D, \h33, \h35, \h39} -> 5
      [] c \in {\h45}                            -> 7
      [] c \in {\h1A, \h1B}                       -> 8
      [] c \in {\h0E, \h27, \h28, \h3A, \h4E}        -> 9
      [] c \in {\h2B, \h4A}                       -> 10
      [] c \in {\h46, \h53}                       -> 11
      [] c \in {\h29}                            -> 12
      [] c \in {\h37}                            -> 13
      [] OTHER                                  -> 6

\* Scan codes that have an entry in KBD_SCAN_TABLE.
Mapped == \h01 .. \h53 \cup {\h57, \h58}

to_string(c) ==
    [cell |-> <<"key", IF c \in Mapped THEN c ELSE 0>>, len |-> NameLength(c)]

\* Escaped codes: the two arrows scroll, the others have a name.
Down == \h50
Up   == \h48

EscapedNamed ==
    {\h1C, \h1D, \h35, \h38, \h49, \h4B, \h4D, \h4F, \h51, \h52, \h53}

\* escaped_to_string, where it returns anything: Page Down has two codes.
escaped_to_string(c) ==
    [cell |-> <<"escaped", IF c = \h4F THEN \h51 ELSE c>>,
     len  |-> CASE c \in {\h1C, \h35}         -> 10
                [] c \in {\h4F, \h51}         -> 9
                [] c \in {\h49}              -> 7
                [] c \in {\h52, \h53}         -> 6
                [] c \in {\h1D, \h4D}         -> 5
                [] c \in {\h38, \h4B}         -> 4]
=============================================================================
