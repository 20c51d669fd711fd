------------------------------ MODULE Document ------------------------------
(***************************************************************************)
(* What a scrolling console promises: a document of lines that only grows,  *)
(* and a window of Height lines of it.  Writing changes one line inside the *)
(* window; scrolling moves the window by one line and changes no line,      *)
(* except that a blank one is added when the document ends there.           *)
(***************************************************************************)
EXTENDS Integers, Sequences

CONSTANTS Height, BlankLine

VARIABLES
    doc,  \* the lines
    top   \* lines above the window

docVars == <<doc, top>>

DocInit == doc = [i \in 1 .. Height |-> BlankLine] /\ top = 0

\* Line i of d, inside the window, has become some other line.
Written(d, e) ==
    /\ Len(e) = Len(d)
    /\ \E i \in top + 1 .. top + Height :
          \A k \in 1 .. Len(d) : k # i => e[k] = d[k]

\* The window on d moves down by a line.
Extended(d) == IF Len(d) <= top + Height THEN Append(d, BlankLine) ELSE d

Write == Written(doc, doc') /\ UNCHANGED top

\* Writing to the end of the last line scrolls.
ScrollDown ==
    /\ top' = top + 1
    /\ Len(doc') = Len(Extended(doc))
    /\ \A k \in Len(doc) + 1 .. Len(doc') : doc'[k] = BlankLine
    /\ Written(doc, SubSeq(doc', 1, Len(doc)))

ScrollUp == top > 0 /\ top' = top - 1 /\ UNCHANGED doc

DocNext == Write \/ ScrollDown \/ ScrollUp

DocSpec == DocInit /\ [][DocNext]_docVars
=============================================================================
