-------------------------------- MODULE Pic ---------------------------------
(***************************************************************************)
(* The two cascaded 8259 interrupt controllers, as far as kernel/x86/idt.c  *)
(* programs them: lines 0-7 are the master's, 8-15 the slave's, which hangs *)
(* on line 2 of the master.  A pair of controllers is a record              *)
(*   irr     lines with a latched request                                   *)
(*   isr     lines in service, between acknowledge and EOI                  *)
(*   imr     masked lines                                                   *)
(*   master, slave   the vectors of lines 0 and 8                           *)
(***************************************************************************)
EXTENDS Integers, FiniteSets

Cascade == 2
Master  == 0 .. 7
Slave   == 8 .. 15

\* The line of the master a request arrives on.
Level(l) == IF l \in Slave THEN Cascade ELSE l

Before(k, l) == Level(k) < Level(l) \/ (Level(k) = Level(l) /\ k < l)

\* Fully nested mode: a line in service holds back itself and what comes after
\* it on the same controller.
HeldBack(p, l) ==
    \E s \in p.isr : \/ s \in Master /\ s <= Level(l)
                     \/ s \in Slave /\ l \in Slave /\ s <= l

Requests(p) ==
    {l \in p.irr \ p.imr : Level(l) \notin p.imr /\ ~HeldBack(p, l)}

\* The request the controllers present to the CPU.
Presents(p, l) == l \in Requests(p) /\ \A k \in Requests(p) : k = l \/ Before(l, k)

Vector(p, l) == IF l \in Slave THEN p.slave + l - 8 ELSE p.master + l

Acknowledge(p, l) == [p EXCEPT !.irr = @ \ {l}, !.isr = @ \cup {l, Level(l)}]

\* A request that was gone at the acknowledge is reported as the controller's
\* last line without going into service there; the master does not know of the
\* slave's mistake.
Spurious(p, l) == IF l \in Slave THEN [p EXCEPT !.isr = @ \cup {Cascade}] ELSE p

\* A non-specific EOI ends the first line in service.
Ended(isr, chip) ==
    isr \ {s \in isr \cap chip : \A k \in isr \cap chip : s <= k}

EoiMaster(p) == [p EXCEPT !.isr = Ended(@, Master)]
EoiSlave(p)  == [p EXCEPT !.isr = Ended(@, Slave)]

-----------------------------------------------------------------------------
PIC_MASTER_START_OFFSET == 32
PIC_SLAVE_START_OFFSET  == 40

\* What the BIOS leaves: the vectors of the real-mode table.
BiosPic == [irr |-> {}, isr |-> {}, imr |-> {}, master |-> 8, slave |-> 112]

\* A faulty variant of the definition that follows it.
init_pic_SlaveNotMoved(p) ==
    [irr |-> {}, isr |-> {}, imr |-> {}, master |-> PIC_MASTER_START_OFFSET, slave |-> 112]

\* init_pic: the initialisation words reset the controllers and set the vectors;
\* the final mask of 0 lets every line through.
init_pic(p) ==
    [irr |-> {}, isr |-> {}, imr |-> {},
     master |-> PIC_MASTER_START_OFFSET, slave |-> PIC_SLAVE_START_OFFSET]
=============================================================================
