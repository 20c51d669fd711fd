------------------------------ MODULE MCArray -------------------------------
(* Array with four elements, two of which a comparison takes for each other: *)
(* room for the buffer to grow twice.                                        *)
EXTENDS Array

CONSTANTS a, b, c, d

MCElems == {a, b, c, d}
MCAlike == {<<a, b>>, <<b, a>>}
=============================================================================
