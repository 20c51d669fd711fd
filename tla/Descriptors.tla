---------------------------- MODULE Descriptors -----------------------------
(***************************************************************************)
(* The tables the CPU reads: segment descriptors (kernel/x86/gdt.c), gates   *)
(* of the interrupt table (kernel/x86/idt.c), the words the interrupt stubs  *)
(* push (kernel/x86/idt_handler.asm), and the error code of a page fault     *)
(* (kernel/x86/exceptions.c).  A byte of flags is the set of its set bits.   *)
(***************************************************************************)
EXTENDS Integers, FiniteSets

Low16(a)  == a % 65536
High16(a) == (a \div 65536) % 65536

-----------------------------------------------------------------------------
(* Segments.  A definition with a fault in its name is a faulty variant of   *)
(* the one that follows it.                                                  *)

GDT_ACCESS_RW         == {1}
GDT_ACCESS_EXECUTABLE == {3}
GDT_ACCESS_GARBAGE    == {4}
GDT_ACCESS_PRESENT    == {7}
GDT_FLAGS_GARBAGE     == {1}
GDT_FLAGS_SIZE        == {2}
GDT_FLAGS_GRANULARITY == {3}
GDT_ADDRESS_MAX       == \hFFFFF

gdt_set_gate(base, limit, access, flags) ==
    [base_low  |-> Low16(base), base_mid |-> High16(base) % 256,
     base_high |-> High16(base) \div 256,
     limit_low |-> Low16(limit), limit_high |-> High16(limit) % 16,
     flags |-> (flags \ GDT_FLAGS_GARBAGE) \cap 0 .. 3,
     access |-> access \cup GDT_ACCESS_GARBAGE]

\* gdt_init's table: null, code and data, the latter two over all addresses.
GdtEntries ==
    [idx \in 0 .. 2 |->
        CASE idx = 0 -> gdt_set_gate(0, 0, {}, {})
          [] idx = 1 -> gdt_set_gate(0, GDT_ADDRESS_MAX,
                            GDT_ACCESS_RW \cup GDT_ACCESS_EXECUTABLE \cup GDT_ACCESS_PRESENT,
                            GDT_FLAGS_SIZE \cup GDT_FLAGS_GRANULARITY)
          [] idx = 2 -> gdt_set_gate(0, GDT_ADDRESS_MAX,
                            GDT_ACCESS_RW \cup GDT_ACCESS_PRESENT,
                            GDT_FLAGS_SIZE \cup GDT_FLAGS_GRANULARITY)]

\* What the CPU makes of a descriptor: 32-bit, from address 0, up to the last of
\* 2^20 pages.
FlatSegment(d) ==
    /\ d.base_low = 0 /\ d.base_mid = 0 /\ d.base_high = 0
    /\ d.limit_high * 65536 + d.limit_low = GDT_ADDRESS_MAX
    /\ {2, 3} \subseteq d.flags /\ 1 \notin d.flags
    /\ {4, 7} \subseteq d.access

\* Selectors 0x8 and 0x10 name entries 1 and 2.
CodeSelector(gdt, s) == s \div 8 \in DOMAIN gdt /\ FlatSegment(gdt[s \div 8])
                                                /\ 3 \in gdt[s \div 8].access
DataSelector(gdt, s) == s \div 8 \in DOMAIN gdt /\ FlatSegment(gdt[s \div 8])
                                                /\ 3 \notin gdt[s \div 8].access

-----------------------------------------------------------------------------
(* Gates.                                                                  *)

CODE_DESCR  == 8
DATA_DESCR  == 16
IRQ_YIELD   == 255
Isrs        == 0 .. 31 \cup {IRQ_YIELD}
Irqs        == 32 .. 47

IDT_FLAGS_GATE_INTERRUPT32 == {1, 2, 3}
IDT_FLAGS_PRESENT          == {7}

\* init_isr and init_irq give every gate the same selector and flags.
idt_set_gate(addr) ==
    [addr_low |-> Low16(addr), addr_high |-> High16(addr), selector |-> CODE_DESCR,
     flags |-> IDT_FLAGS_GATE_INTERRUPT32 \cup IDT_FLAGS_PRESENT]

\* The stubs lie behind each other in the text section.
Stub(v) == \h100000 + 32 * v

GateAddress(g) == g.addr_high * 65536 + g.addr_low

\* Stubs generated with isr_generate_err push one word, the others two.
ErrStubs == {8, 10, 11, 12, 13, 14}
StubWords(v) == IF v \in ErrStubs THEN 1 ELSE 2

\* Exceptions for which the CPU itself pushes an error code in ring 0.
CpuWords(v) == IF v \in {8, 10, 11, 12, 13, 14} THEN 1 ELSE 0

\* The stub ends with `add esp, 8` and iret: what it removes is what was pushed.
Balanced(v) == StubWords(v) + CpuWords(v) = 2

\* The CPU gets from the table to the stub for v and back.
Reaches(gdt, entries, v) ==
    /\ IDT_FLAGS_PRESENT \subseteq entries[v].flags
    /\ GateAddress(entries[v]) = Stub(v)
    /\ CodeSelector(gdt, entries[v].selector)
    /\ DataSelector(gdt, DATA_DESCR)
    /\ Balanced(v)

-----------------------------------------------------------------------------
(* Page faults.                                                            *)

PRESENT           == {0}
READ_WRITE        == {1}
USER_MODE         == {2}
RESERVED          == {3}
INSTRUCTION_FETCH == {1, 2, 4}    \* 0x16; the CPU's bit is 0x10

\* What the CPU can report of code in ring 0: an instruction fetch is no write, and
\* reserved bits count in present entries only.
ErrorCodes ==
    {e \in SUBSET ((0 .. 4) \ USER_MODE) : ~({1, 4} \subseteq e) /\ (3 \in e => 0 \in e)}

ExtraReservedFirst(err) ==
    IF RESERVED \subseteq err THEN "reserved" ELSE "neither"

\* The second switch of page_fault_handler; without a case the text is NULL.
Extra(err) ==
    LET m == err \cap (INSTRUCTION_FETCH \cup RESERVED)
    IN  CASE m = {}                             -> "neither"
          [] m = INSTRUCTION_FETCH              -> "fetch"
          [] m = RESERVED                       -> "reserved"
          [] m = INSTRUCTION_FETCH \cup RESERVED -> "both"
          [] OTHER                              -> "NULL"

\* Its first switch has a text for each of the eight cases.
page_fault_handler(err) ==
    [user    |-> USER_MODE \subseteq err,
     write   |-> READ_WRITE \subseteq err,
     present |-> PRESENT \subseteq err,
     extra   |-> Extra(err)]
=============================================================================
