----------------------------- MODULE BootProofs -----------------------------
(***************************************************************************)
(* For any devices and any depth of nested interrupts: what the boot order   *)
(* of kernel_main, the gates, the controllers and the cli ... sti sections   *)
(* promise each other.                                                       *)
(***************************************************************************)
EXTENDS Boot, SequenceTheorems, TLAPS

Places == [at : {"irq_handler", "idt_handler", "body", "iret"},
           vec : Irqs \cup {IRQ_YIELD},
           runs : {"none", "timer_default_irq", "task_switch", "keyboard_irq_handler"}]

Types ==
    /\ status \in {"running", "panic", "fault"}
    /\ IF_ \in BOOLEAN /\ (status # "running" => ~IF_)
    /\ cpu \in Threads
    /\ pc \in [Threads -> Nat]
    /\ pc["main"] \in 1 .. 27 /\ pc["clock"] \in 0 .. 2
    /\ busy \in [Threads -> SUBSET {"console", "heap", "tasks"}]
    /\ stack \in [Threads -> Seq(Places)]
    /\ pic \in [irr : SUBSET Int, isr : SUBSET Int, imr : SUBSET Int,
                master : Int, slave : Int]

\* The clock thread exists once thread_create is behind main.
ClockExists ==
    /\ pc["clock"] # 0 => pc["main"] >= 24
    /\ cpu = "clock" => pc["clock"] # 0

GatesSet(vs) == \A v \in vs : v \in DOMAIN entries /\ entries[v] = idt_set_gate(Stub(v))

\* What main's place in its code says of the tables.
TablesFit ==
    /\ idtr => pc["main"] > 10
    /\ pc["main"] > 4 => gdt = GdtEntries
    /\ pc["main"] > 7 => /\ pic.master = PIC_MASTER_START_OFFSET
                         /\ pic.slave = PIC_SLAVE_START_OFFSET
    /\ pc["main"] > 8 => GatesSet(Isrs)
    /\ pc["main"] > 9 => GatesSet(Irqs)

Registered(h) ==
    \/ h = "timer_default_irq"
    \/ h \in {"task_switch", "keyboard_irq_handler"} /\ pc["main"] >= 22

HandlersFit ==
    \A v \in DOMAIN handlers :
        Registered(handlers[v]) \/ (v = PAGE_FAULT /\ handlers[v] = "page_fault_handler")

\* A handler is at work only on top of the running thread's stack, with interrupts
\* off; every other interrupt is about to return.
OneHandler ==
    \A t \in Threads : \A i \in 1 .. Len(stack[t]) :
        \/ stack[t][i].at = "iret" /\ stack[t][i].runs = "none"
        \/ t = cpu /\ i = 1 /\ ~IF_ /\ (stack[t][i].runs = "none" \/ Registered(stack[t][i].runs))

\* Only irq_handler on its way to the EOI has more than IRQ7 in service.
AwaitsEoi ==
    /\ stack[cpu] # <<>> /\ stack[cpu][1].at = "irq_handler"
    /\ \E l \in (Master \cup Slave) \ {Cascade} :
          stack[cpu][1].vec = IRQ0 + l /\ pic.isr \subseteq {7, l, Level(l)}

EoiDue == status = "running" => pic.isr \subseteq {7} \/ AwaitsEoi

\* A thread in the middle of a step is at that step, and, if the step is guarded by
\* cli and sti, on the CPU with interrupts off.
BusyAtStep ==
    \A t \in Threads : busy[t] # {} =>
        /\ pc[t] # 0 /\ Code(t)[pc[t]] \in DOMAIN Uses
        /\ Code(t)[pc[t]] \in Guarded => cpu = t /\ ~IF_ /\ stack[t] = <<>>

PanicKnown ==
    status = "panic" =>
        \/ \E info \in Infos : ~multiboot_RAM(info) /\ panic = [about |-> "memory", info |-> info]
        \/ \E err \in ErrorCodes :
              panic = [about |-> "page", err |-> err, says |-> page_fault_handler(err)]

BootInv ==
    /\ Types /\ ClockExists /\ TablesFit /\ HandlersFit /\ OneHandler /\ EoiDue
    /\ BusyAtStep /\ PanicKnown /\ FaultOnlyBeforeIdt
-----------------------------------------------------------------------------
(* The code.                                                               *)

LEMMA UsesFacts ==
    /\ DOMAIN Uses = {"log", "mem_init", "vga_dynamic_init", "task_init",
                      "thread_create", "show_clock", "yield"}
    /\ \A s \in DOMAIN Uses : Uses[s] \subseteq {"console", "heap", "tasks"} /\ Uses[s] # {}
BY DEF Uses

\* Where the steps of main's code stand.
LEMMA MainPlaces ==
    ASSUME NEW i \in 1 .. 27
    PROVE  /\ MainCode[i] = "vga_init" => i = 1
           /\ MainCode[i] = "gdt_init" => i = 4
           /\ MainCode[i] = "idt_clear" => i = 6
           /\ MainCode[i] = "init_pic" => i = 7
           /\ MainCode[i] = "init_isr" => i = 8
           /\ MainCode[i] = "init_irq" => i = 9
           /\ MainCode[i] = "idt_flush" => i = 10
           /\ MainCode[i] = "exceptions_init" => i = 11
           /\ MainCode[i] = "timer_init" => i = 13
           /\ MainCode[i] = "multiboot_RAM" => i = 15
           /\ MainCode[i] = "timer_set_handler" => i = 21
           /\ MainCode[i] = "register_yield" => i = 22
           /\ MainCode[i] = "thread_create" => i = 23
           /\ MainCode[i] = "keyboard_init" => i = 24
BY DEF MainCode

LEMMA MainUses ==
    ASSUME NEW i \in 1 .. 27, MainCode[i] \in DOMAIN Uses
    PROVE  /\ i \in {2, 3, 5, 12, 14, 16, 17, 18, 19, 20, 23, 25, 26}
           /\ MainCode[i] # "yield"
           /\ MainCode[i] \notin Guarded => i \in {16, 18, 20}
BY UsesFacts DEF MainCode, Guarded

LEMMA GatesReach ==
    ASSUME gdt = GdtEntries, NEW v \in 0 .. 255, v \in DOMAIN entries,
           entries[v] = idt_set_gate(Stub(v))
    PROVE  Reaches(gdt, entries, v)
<1>1. IDT_FLAGS_PRESENT \subseteq entries[v].flags /\ entries[v].selector = 8
    BY DEF idt_set_gate, IDT_FLAGS_PRESENT, CODE_DESCR
<1>2. GateAddress(entries[v]) = Stub(v)
    <2> DEFINE a == Stub(v)
               q == a \div 65536
               r == a % 65536
    <2>1. a \in Nat /\ a < 1114112
        BY SMT DEF Stub
    <2>2. GateAddress(entries[v]) = (q % 65536) * 65536 + r
        BY SMT DEF idt_set_gate, Low16, High16, GateAddress
    <2> HIDE DEF a
    <2>3. 65536 * q + r = a
        BY <2>1, SMT
    <2>4. q \in 0 .. 16 /\ r \in Nat
        BY <2>1, SMT
    <2> HIDE DEF q, r
    <2>5. q % 65536 = q
        BY <2>4, SMT
    <2>6. q * 65536 = 65536 * q
        BY <2>4, SMT
    <2>7. QED
        BY <2>2, <2>3, <2>5, <2>6, SMT DEF a
<1>3. 8 \div 8 = 1 /\ 16 \div 8 = 2
    BY SMT
<1>4. /\ DOMAIN GdtEntries = 0 .. 2
      /\ GdtEntries[1] = gdt_set_gate(0, GDT_ADDRESS_MAX,
                            GDT_ACCESS_RW \cup GDT_ACCESS_EXECUTABLE \cup GDT_ACCESS_PRESENT,
                            GDT_FLAGS_SIZE \cup GDT_FLAGS_GRANULARITY)
      /\ GdtEntries[2] = gdt_set_gate(0, GDT_ADDRESS_MAX,
                            GDT_ACCESS_RW \cup GDT_ACCESS_PRESENT,
                            GDT_FLAGS_SIZE \cup GDT_FLAGS_GRANULARITY)
    BY SMT DEF GdtEntries
<1>5. /\ Low16(0) = 0 /\ High16(0) = 0 /\ 0 % 256 = 0 /\ 0 \div 256 = 0
      /\ Low16(GDT_ADDRESS_MAX) = 65535 /\ High16(GDT_ADDRESS_MAX) % 16 = 15
      /\ GDT_ADDRESS_MAX = 1048575
    BY SMT DEF Low16, High16, GDT_ADDRESS_MAX
<1>6. FlatSegment(GdtEntries[1]) /\ 3 \in GdtEntries[1].access
    BY <1>4, <1>5, SMT
       DEF FlatSegment, gdt_set_gate, GDT_ACCESS_RW, GDT_ACCESS_EXECUTABLE,
           GDT_ACCESS_GARBAGE, GDT_ACCESS_PRESENT, GDT_FLAGS_GARBAGE, GDT_FLAGS_SIZE,
           GDT_FLAGS_GRANULARITY
<1>7. FlatSegment(GdtEntries[2]) /\ 3 \notin GdtEntries[2].access
    BY <1>4, <1>5, SMT
       DEF FlatSegment, gdt_set_gate, GDT_ACCESS_RW, GDT_ACCESS_EXECUTABLE,
           GDT_ACCESS_GARBAGE, GDT_ACCESS_PRESENT, GDT_FLAGS_GARBAGE, GDT_FLAGS_SIZE,
           GDT_FLAGS_GRANULARITY
<1>8. CodeSelector(gdt, 8) /\ DataSelector(gdt, DATA_DESCR)
    BY <1>3, <1>4, <1>6, <1>7, SMT DEF CodeSelector, DataSelector, DATA_DESCR
<1>9. Balanced(v)
    BY DEF Balanced, StubWords, CpuWords, ErrStubs
<1>10. QED
    BY <1>1, <1>2, <1>8, <1>9 DEF Reaches
-----------------------------------------------------------------------------
(* Stacks.                                                                 *)

\* Pushing a frame, and replacing or popping the top one.
LEMMA StackOps ==
    ASSUME NEW s \in Seq(Places), NEW f \in Places
    PROVE  /\ <<f>> \o s \in Seq(Places) /\ Len(<<f>> \o s) = Len(s) + 1
           /\ (<<f>> \o s)[1] = f
           /\ \A i \in 2 .. Len(s) + 1 : (<<f>> \o s)[i] = s[i - 1] /\ i - 1 \in 1 .. Len(s)
           /\ s # <<>> =>
                 /\ Head(s) = s[1] /\ s[1] \in Places /\ 1 \in 1 .. Len(s)
                 /\ Tail(s) \in Seq(Places) /\ Len(Tail(s)) = Len(s) - 1
                 /\ \A i \in 1 .. Len(s) - 1 : Tail(s)[i] = s[i + 1] /\ i + 1 \in 2 .. Len(s)
                 /\ <<f>> \o Tail(s) \in Seq(Places) /\ Len(<<f>> \o Tail(s)) = Len(s)
                 /\ (<<f>> \o Tail(s))[1] = f
                 /\ \A i \in 2 .. Len(s) : (<<f>> \o Tail(s))[i] = s[i]
<1>1. ASSUME NEW r \in Seq(Places)
      PROVE  /\ <<f>> \o r \in Seq(Places) /\ Len(<<f>> \o r) = Len(r) + 1
             /\ (<<f>> \o r)[1] = f
             /\ \A i \in 2 .. Len(r) + 1 : (<<f>> \o r)[i] = r[i - 1] /\ i - 1 \in 1 .. Len(r)
    <2>1. <<f>> \in Seq(Places) /\ Len(<<f>>) = 1 /\ <<f>>[1] = f /\ Len(r) \in Nat
        OBVIOUS
    <2> DEFINE w == <<f>> \o r
    <2>2. /\ w \in Seq(Places) /\ Len(w) = Len(<<f>>) + Len(r)
          /\ \A i \in 1 .. Len(<<f>>) + Len(r) :
                w[i] = IF i <= Len(<<f>>) THEN <<f>>[i] ELSE r[i - Len(<<f>>)]
        BY <2>1, ConcatProperties
    <2> HIDE DEF w
    <2>3. /\ w \in Seq(Places) /\ Len(w) = Len(r) + 1 /\ w[1] = f
          /\ \A i \in 2 .. Len(r) + 1 : w[i] = r[i - 1] /\ i - 1 \in 1 .. Len(r)
        BY <2>1, <2>2
    <2>4. QED
        BY <2>3 DEF w
<1>2. ASSUME s # <<>>
      PROVE  /\ Head(s) = s[1] /\ s[1] \in Places /\ 1 \in 1 .. Len(s)
             /\ Tail(s) \in Seq(Places) /\ Len(Tail(s)) = Len(s) - 1
             /\ \A i \in 1 .. Len(s) - 1 : Tail(s)[i] = s[i + 1] /\ i + 1 \in 2 .. Len(s)
    <2>1. /\ Tail(s) \in Seq(Places) /\ Len(Tail(s)) = Len(s) - 1
          /\ \A i \in 1 .. Len(Tail(s)) : Tail(s)[i] = s[i + 1]
        BY <1>2, HeadTailProperties
    <2>2. Len(s) \in Nat /\ Len(s) # 0
        BY <1>2
    <2>3. Head(s) = s[1] /\ s[1] \in Places /\ 1 \in 1 .. Len(s)
        BY <1>2, <2>2
    <2>4. QED
        BY <2>1, <2>2, <2>3
<1>3. ASSUME s # <<>>
      PROVE  /\ <<f>> \o Tail(s) \in Seq(Places) /\ Len(<<f>> \o Tail(s)) = Len(s)
             /\ (<<f>> \o Tail(s))[1] = f
             /\ \A i \in 2 .. Len(s) : (<<f>> \o Tail(s))[i] = s[i]
    <2> DEFINE r == Tail(s)
    <2>1. r \in Seq(Places) /\ Len(r) = Len(s) - 1 /\ Len(s) \in Nat
          /\ \A i \in 1 .. Len(s) - 1 : r[i] = s[i + 1]
        BY <1>2, <1>3
    <2> HIDE DEF r
    <2>2. /\ <<f>> \o r \in Seq(Places) /\ Len(<<f>> \o r) = Len(r) + 1
          /\ (<<f>> \o r)[1] = f
          /\ \A i \in 2 .. Len(r) + 1 : (<<f>> \o r)[i] = r[i - 1] /\ i - 1 \in 1 .. Len(r)
        BY <1>1, <2>1
    <2> DEFINE w == <<f>> \o r
    <2>3. /\ w \in Seq(Places) /\ Len(w) = Len(r) + 1 /\ w[1] = f
          /\ \A i \in 2 .. Len(r) + 1 : w[i] = r[i - 1] /\ i - 1 \in 1 .. Len(r)
        BY <2>2
    <2> HIDE DEF w
    <2>4. \A i \in 2 .. Len(s) : i \in 2 .. Len(r) + 1 /\ i - 1 \in 1 .. Len(s) - 1 /\ (i - 1) + 1 = i
        BY <2>1
    <2>5. /\ w \in Seq(Places) /\ Len(w) = Len(s) /\ w[1] = f
          /\ \A i \in 2 .. Len(s) : w[i] = s[i]
        BY <2>1, <2>3, <2>4
    <2>6. QED
        BY <2>5 DEF w, r
<1>4. QED
    BY <1>1, <1>2, <1>3

-----------------------------------------------------------------------------
(* The steps of main.                                                      *)

\* A step of main that works on nothing handlers use.
LEMMA MainMoves ==
    ASSUME BootInv, NEW s, At("main", s), s \notin DOMAIN Uses, s # "idle",
           Quietly("main")
    PROVE  /\ pc'["main"] = pc["main"] + 1 /\ pc'["clock"] = pc["clock"]
           /\ pc["main"] \in 1 .. 26 /\ MainCode[pc["main"]] = s
           /\ pc' \in [Threads -> Nat]
           /\ status' = "running" /\ ClockExists' /\ OneHandler' /\ BusyAtStep'
           /\ PanicKnown' /\ FaultOnlyBeforeIdt'
<1>1. /\ status = "running" /\ cpu = "main" /\ pc["main"] \in 1 .. 27
      /\ MainCode[pc["main"]] = s /\ pc \in [Threads -> Nat]
      /\ pc' = [pc EXCEPT !["main"] = Past("main")]
      /\ UNCHANGED <<status, IF_, cpu, busy, stack>>
    BY DEF At, Own, Quietly, Moves, BootInv, Types, Code
<1>2. Past("main") = pc["main"] + 1
    BY DEF Past
<1>3. /\ pc'["main"] = pc["main"] + 1 /\ pc'["clock"] = pc["clock"]
      /\ pc' \in [Threads -> Nat]
    BY <1>1, <1>2 DEF Threads
<1>4. pc["main"] \in 1 .. 26
    <2>1. MainCode[27] = "idle"
        BY DEF MainCode
    <2>2. QED
        BY <1>1, <2>1
<1>5. ClockExists'
    BY <1>1, <1>3, <1>4 DEF BootInv, ClockExists
<1>6. OneHandler'
    <2>1. \A h : Registered(h) => Registered(h)'
        BY <1>3, <1>4 DEF Registered
    <2>2. QED
        BY <1>1, <2>1 DEF BootInv, OneHandler
<1>7. BusyAtStep'
    <2>1. busy["main"] = {}
        BY <1>1 DEF BootInv, BusyAtStep, Threads, Code
    <2>2. QED
        BY <1>1, <1>3, <2>1 DEF BootInv, BusyAtStep, Threads, Code
<1>8. PanicKnown' /\ FaultOnlyBeforeIdt'
    BY <1>1 DEF PanicKnown, FaultOnlyBeforeIdt
<1>9. QED
    BY <1>1, <1>3, <1>4, <1>5, <1>6, <1>7, <1>8
\* Registering a handler: one of the exceptions', the timer's default, or, from
\* timer_set_handler on, one that works on shared data.
LEMMA Registers ==
    ASSUME BootInv, NEW s, At("main", s), s \notin DOMAIN Uses, s # "idle",
           NEW n, NEW h, register_interrupt_handler(n, h), pc["main"] >= 10,
           \/ h = "timer_default_irq"
           \/ n = PAGE_FAULT /\ h = "page_fault_handler"
           \/ h \in {"task_switch", "keyboard_irq_handler"} /\ pc["main"] >= 21
    PROVE  BootInv'
<1>1. /\ handlers' = [v \in {n} \cup DOMAIN handlers |-> IF v = n THEN h ELSE handlers[v]]
      /\ Quietly("main")
      /\ UNCHANGED <<gdt, entries, idtr, pic, panic>>
    BY DEF register_interrupt_handler
<1>2. /\ pc'["main"] = pc["main"] + 1 /\ pc'["clock"] = pc["clock"]
      /\ pc["main"] \in 1 .. 26 /\ pc' \in [Threads -> Nat]
      /\ status' = "running" /\ ClockExists' /\ OneHandler' /\ BusyAtStep'
      /\ PanicKnown' /\ FaultOnlyBeforeIdt'
    BY <1>1, MainMoves
<1>3. UNCHANGED <<status, IF_, cpu, busy, stack>>
    BY <1>1 DEF Quietly
<1>4. Types'
    <2>1. pc'["main"] \in 1 .. 27
        BY <1>2
    <2>2. QED
        BY <1>1, <1>2, <1>3, <2>1 DEF BootInv, Types
<1>5. TablesFit'
    <2>1. pc["main"] > 4 /\ pc["main"] > 7 /\ pc["main"] > 8 /\ pc["main"] > 9
        BY <1>2
    <2>2. idtr' => pc'["main"] > 10
        BY <1>2
    <2>3. \A vs : GatesSet(vs) => GatesSet(vs)'
        BY <1>1 DEF GatesSet
    <2>4. QED
        BY <1>1, <2>1, <2>2, <2>3 DEF BootInv, TablesFit
<1>6. HandlersFit'
    <2>1. \A v \in DOMAIN handlers' :
             \/ v = n /\ handlers'[v] = h
             \/ v \in DOMAIN handlers /\ handlers'[v] = handlers[v]
        BY <1>1
    <2>2. pc["main"] >= 21 => pc'["main"] >= 22
        BY <1>2
    <2>3. pc["main"] >= 22 => pc'["main"] >= 22
        BY <1>2
    <2>4. QED
        BY <2>1, <2>2, <2>3 DEF BootInv, HandlersFit, Registered
<1>7. EoiDue'
    BY <1>1, <1>2, <1>3 DEF BootInv, EoiDue, AwaitsEoi, At, Own
<1>8. QED
    BY <1>2, <1>4, <1>5, <1>6, <1>7 DEF BootInv
LEMMA BootsInv == BootInv /\ Boots => BootInv'
<1> SUFFICES ASSUME BootInv, Boots PROVE BootInv'
    OBVIOUS
<1> DEFINE here == pc["main"]
<1>1. \A s : At("main", s) => /\ MainCode[here] = s /\ here \in 1 .. 27
                              /\ status = "running" /\ stack["main"] = <<>> /\ cpu = "main"
    BY DEF BootInv, Types, At, Own, Code
<1>2. DOMAIN Uses = {"log", "mem_init", "vga_dynamic_init", "task_init",
                     "thread_create", "show_clock", "yield"}
    BY UsesFacts
\* What a step has to show that changes the tables or the controllers.
<1>3. ASSUME NEW s, At("main", s), s \notin DOMAIN Uses, s # "idle",
             Quietly("main"), TablesFit', UNCHANGED handlers,
             pic' \in [irr : SUBSET Int, isr : SUBSET Int, imr : SUBSET Int,
                       master : Int, slave : Int],
             pic'.isr = pic.isr \/ pic'.isr = {}
      PROVE  BootInv'
    <2>1. /\ pc'["main"] = here + 1 /\ pc'["clock"] = pc["clock"]
          /\ here \in 1 .. 26 /\ pc' \in [Threads -> Nat]
          /\ status' = "running" /\ ClockExists' /\ OneHandler' /\ BusyAtStep'
          /\ PanicKnown' /\ FaultOnlyBeforeIdt'
        BY <1>3, MainMoves
    <2>2. UNCHANGED <<status, IF_, cpu, busy, stack>>
        BY <1>3 DEF Quietly
    <2>3. pc'["main"] \in 1 .. 27
        BY <2>1
    <2>4. Types'
        BY <1>3, <2>1, <2>2, <2>3 DEF BootInv, Types
    <2>5. HandlersFit'
        <3>1. here >= 22 => pc'["main"] >= 22
            BY <2>1
        <3>2. QED
            BY <1>3, <3>1 DEF BootInv, HandlersFit, Registered
    <2>6. EoiDue'
        <3>1. pic.isr \subseteq {7}
            BY <1>1, <1>3 DEF BootInv, EoiDue, AwaitsEoi
        <3>2. QED
            BY <1>3, <3>1 DEF EoiDue
    <2>7. QED
        BY <1>3, <2>1, <2>4, <2>5, <2>6 DEF BootInv
<1>4. \A s : At("main", s) /\ Quietly("main") /\ s \notin DOMAIN Uses /\ s # "idle" =>
          pc'["main"] = here + 1
    BY MainMoves
<1>5. /\ pic \in [irr : SUBSET Int, isr : SUBSET Int, imr : SUBSET Int,
                  master : Int, slave : Int]
      /\ TablesFit
    BY DEF BootInv, Types
<1>6. CASE vga_init
    <2>1. At("main", "vga_init") /\ Quietly("main") /\ UNCHANGED <<tables, pic, panic>>
        BY <1>6 DEF vga_init
    <2>2. here = 1 /\ pc'["main"] = 2
        <3>1. here = 1
            BY <1>1, <2>1, MainPlaces
        <3>2. "vga_init" \notin DOMAIN Uses /\ "vga_init" # "idle"
            BY <1>2
        <3>3. pc'["main"] = here + 1
            BY <1>4, <2>1, <3>2
        <3>4. QED
            BY <3>1, <3>3
    <2>3. TablesFit'
        BY <1>5, <2>1, <2>2 DEF TablesFit, tables
    <2>4. QED
        BY <1>2, <1>3, <1>5, <2>1, <2>3 DEF tables
<1>7. CASE gdt_init
    <2>1. At("main", "gdt_init") /\ Quietly("main") /\ gdt' = GdtEntries
          /\ UNCHANGED <<entries, idtr, handlers, pic, panic>>
        BY <1>7 DEF gdt_init
    <2>2. here = 4 /\ pc'["main"] = 5
        <3>1. here = 4
            BY <1>1, <2>1, MainPlaces
        <3>2. "gdt_init" \notin DOMAIN Uses /\ "gdt_init" # "idle"
            BY <1>2
        <3>3. pc'["main"] = here + 1
            BY <1>4, <2>1, <3>2
        <3>4. QED
            BY <3>1, <3>3
    <2>3. TablesFit'
        BY <1>5, <2>1, <2>2 DEF TablesFit
    <2>4. QED
        BY <1>2, <1>3, <1>5, <2>1, <2>3
<1>8. CASE idt_clear
    <2>1. At("main", "idt_clear") /\ Quietly("main") /\ entries' = <<>> /\ handlers' = <<>>
          /\ UNCHANGED <<gdt, idtr, pic, panic>>
        BY <1>8 DEF idt_clear
    <2>2. here = 6 /\ pc'["main"] = 7
        <3>1. here = 6
            BY <1>1, <2>1, MainPlaces
        <3>2. "idt_clear" \notin DOMAIN Uses /\ "idt_clear" # "idle"
            BY <1>2
        <3>3. pc'["main"] = here + 1
            BY <1>4, <2>1, <3>2
        <3>4. QED
            BY <3>1, <3>3
    <2>3. TablesFit'
        BY <1>5, <2>1, <2>2 DEF TablesFit
    <2>4. HandlersFit'
        BY <2>1 DEF HandlersFit
    <2>5. /\ pc' \in [Threads -> Nat] /\ pc'["clock"] = pc["clock"]
          /\ status' = "running" /\ ClockExists' /\ OneHandler' /\ BusyAtStep'
          /\ PanicKnown' /\ FaultOnlyBeforeIdt'
        BY <1>2, <2>1, MainMoves
    <2>6. UNCHANGED <<status, IF_, cpu, busy, stack>>
        BY <2>1 DEF Quietly
    <2>7. Types'
        BY <2>1, <2>2, <2>5, <2>6 DEF BootInv, Types
    <2>8. EoiDue'
        BY <2>1, <2>6 DEF BootInv, EoiDue, AwaitsEoi
    <2>9. QED
        BY <2>3, <2>4, <2>5, <2>7, <2>8 DEF BootInv
<1>9. CASE remap
    <2>1. At("main", "init_pic") /\ Quietly("main") /\ pic' = init_pic(pic)
          /\ UNCHANGED <<tables, panic>>
        BY <1>9 DEF remap
    <2>2. here = 7 /\ pc'["main"] = 8
        <3>1. here = 7
            BY <1>1, <2>1, MainPlaces
        <3>2. "init_pic" \notin DOMAIN Uses /\ "init_pic" # "idle"
            BY <1>2
        <3>3. pc'["main"] = here + 1
            BY <1>4, <2>1, <3>2
        <3>4. QED
            BY <3>1, <3>3
    <2>3. /\ pic' \in [irr : SUBSET Int, isr : SUBSET Int, imr : SUBSET Int,
                       master : Int, slave : Int]
          /\ pic'.isr = {}
          /\ pic'.master = PIC_MASTER_START_OFFSET /\ pic'.slave = PIC_SLAVE_START_OFFSET
        BY <2>1 DEF init_pic, PIC_MASTER_START_OFFSET, PIC_SLAVE_START_OFFSET
    <2>4. TablesFit'
        BY <1>5, <2>1, <2>2, <2>3 DEF TablesFit, tables
    <2>5. QED
        BY <1>2, <1>3, <2>1, <2>3, <2>4 DEF tables
<1>10. CASE init_isr
    <2>1. At("main", "init_isr") /\ Quietly("main") /\ entries' = Gates(Isrs)
          /\ UNCHANGED <<gdt, idtr, handlers, pic, panic>>
        BY <1>10 DEF init_isr
    <2>2. here = 8 /\ pc'["main"] = 9
        <3>1. here = 8
            BY <1>1, <2>1, MainPlaces
        <3>2. "init_isr" \notin DOMAIN Uses /\ "init_isr" # "idle"
            BY <1>2
        <3>3. pc'["main"] = here + 1
            BY <1>4, <2>1, <3>2
        <3>4. QED
            BY <3>1, <3>3
    <2>3. GatesSet(Isrs)'
        BY <2>1 DEF Gates, GatesSet
    <2>4. TablesFit'
        BY <1>5, <2>1, <2>2, <2>3 DEF TablesFit
    <2>5. QED
        BY <1>2, <1>3, <1>5, <2>1, <2>4
<1>11. CASE init_irq
    <2>1. At("main", "init_irq") /\ Quietly("main") /\ entries' = Gates(Irqs)
          /\ UNCHANGED <<gdt, idtr, handlers, pic, panic>>
        BY <1>11 DEF init_irq
    <2>2. here = 9 /\ pc'["main"] = 10
        <3>1. here = 9
            BY <1>1, <2>1, MainPlaces
        <3>2. "init_irq" \notin DOMAIN Uses /\ "init_irq" # "idle"
            BY <1>2
        <3>3. pc'["main"] = here + 1
            BY <1>4, <2>1, <3>2
        <3>4. QED
            BY <3>1, <3>3
    <2>3. GatesSet(Irqs)'
        BY <2>1 DEF Gates, GatesSet
    <2>4. GatesSet(Isrs)'
        <3>1. GatesSet(Isrs)
            BY <1>5, <2>2 DEF TablesFit
        <3>2. QED
            BY <2>1, <3>1 DEF Gates, GatesSet
    <2>5. TablesFit'
        BY <1>5, <2>1, <2>2, <2>3, <2>4 DEF TablesFit
    <2>6. QED
        BY <1>2, <1>3, <1>5, <2>1, <2>5
<1>12. CASE idt_flush
    <2>1. At("main", "idt_flush") /\ Quietly("main")
          /\ UNCHANGED <<gdt, entries, handlers, pic, panic>>
        BY <1>12 DEF idt_flush
    <2>2. here = 10 /\ pc'["main"] = 11
        <3>1. here = 10
            BY <1>1, <2>1, MainPlaces
        <3>2. "idt_flush" \notin DOMAIN Uses /\ "idt_flush" # "idle"
            BY <1>2
        <3>3. pc'["main"] = here + 1
            BY <1>4, <2>1, <3>2
        <3>4. QED
            BY <3>1, <3>3
    <2>3. TablesFit'
        BY <1>5, <2>1, <2>2 DEF TablesFit, GatesSet
    <2>4. QED
        BY <1>2, <1>3, <1>5, <2>1, <2>3
<1>13. CASE exceptions_init
    <2>1. here = 11
        BY <1>1, <1>13, MainPlaces DEF exceptions_init
    <2>2. QED
        BY <1>2, <1>13, <2>1, Registers DEF exceptions_init
<1>14. CASE timer_init
    <2>1. here = 13
        BY <1>1, <1>14, MainPlaces DEF timer_init
    <2>2. QED
        BY <1>2, <1>14, <2>1, Registers DEF timer_init
<1>15. CASE timer_set_handler
    <2>1. here = 21
        BY <1>1, <1>15, MainPlaces DEF timer_set_handler
    <2>2. QED
        BY <1>2, <1>15, <2>1, Registers DEF timer_set_handler
<1>16. CASE register_yield
    <2>1. here = 22
        BY <1>1, <1>16, MainPlaces DEF register_yield
    <2>2. QED
        BY <1>2, <1>16, <2>1, Registers DEF register_yield
<1>17. CASE keyboard_init
    <2>1. here = 24
        BY <1>1, <1>17, MainPlaces DEF keyboard_init
    <2>2. QED
        BY <1>2, <1>17, <2>1, Registers DEF keyboard_init
<1>18. CASE detect_memory
    <2>1. At("main", "multiboot_RAM") /\ UNCHANGED <<tables, pic>>
        BY <1>18 DEF detect_memory
    <2>2. PICK info \in Infos :
             IF multiboot_RAM(info)
             THEN Quietly("main") /\ UNCHANGED panic
             ELSE /\ Panics([about |-> "memory", info |-> info])
                  /\ UNCHANGED <<cpu, pc, busy, stack, obf>>
        BY <1>18 DEF detect_memory
    <2>3. here = 15
        BY <1>1, <2>1, MainPlaces
    <2>4. CASE multiboot_RAM(info)
        <3>1. pc'["main"] = 16 /\ Quietly("main")
            BY <1>2, <1>4, <2>1, <2>2, <2>3, <2>4
        <3>2. TablesFit'
            BY <1>5, <2>1, <2>3, <3>1 DEF TablesFit, tables, GatesSet
        <3>3. QED
            BY <1>2, <1>3, <1>5, <2>1, <3>1, <3>2 DEF tables
    <2>5. CASE ~multiboot_RAM(info)
        <3>1. /\ status' = "panic" /\ IF_' = FALSE
              /\ panic' = [about |-> "memory", info |-> info]
              /\ UNCHANGED <<cpu, pc, busy, stack, obf>>
            BY <2>2, <2>5 DEF Panics
        <3>2. Types' /\ ClockExists' /\ TablesFit' /\ HandlersFit'
            BY <2>1, <3>1 DEF BootInv, Types, ClockExists, TablesFit, GatesSet, HandlersFit,
                              Registered, tables
        <3>3. OneHandler' /\ BusyAtStep' /\ EoiDue' /\ FaultOnlyBeforeIdt'
            BY <3>1 DEF BootInv, OneHandler, Registered, BusyAtStep, EoiDue, FaultOnlyBeforeIdt
        <3>4. PanicKnown'
            BY <2>5, <3>1 DEF PanicKnown
        <3>5. QED
            BY <3>2, <3>3, <3>4 DEF BootInv
    <2>6. QED
        BY <2>4, <2>5
<1>19. QED
    BY <1>6, <1>7, <1>8, <1>9, <1>10, <1>11, <1>12, <1>13, <1>14, <1>15, <1>16, <1>17,
       <1>18 DEF Boots
-----------------------------------------------------------------------------
(* The steps of both threads that work on shared data.                      *)

LEMMA ClockPlaces ==
    /\ ClockCode[1] = "show_clock" /\ ClockCode[2] = "yield" /\ Len(ClockCode) = 2
    /\ Code("main") = MainCode /\ Code("clock") = ClockCode
BY DEF ClockCode, Code

LEMMA BeginInv ==
    ASSUME BootInv, NEW t \in Threads, Begin(t)
    PROVE  BootInv'
<1>1. /\ status = "running" /\ cpu = t /\ stack[t] = <<>> /\ pc[t] # 0 /\ busy[t] = {}
      /\ UNCHANGED <<status, cpu, pc, stack, tables, pic, obf, panic>>
    BY DEF Begin, Own
<1>2. PICK s \in DOMAIN Uses : /\ Code(t)[pc[t]] = s
                               /\ busy' = [busy EXCEPT ![t] = Uses[s]]
                               /\ IF_' = (IF_ /\ s \notin Guarded)
    BY DEF Begin, At
<1>3. Types'
    <2>1. Uses[s] \subseteq {"console", "heap", "tasks"}
        BY UsesFacts
    <2>2. busy' \in [Threads -> SUBSET {"console", "heap", "tasks"}]
        BY <1>2, <2>1 DEF BootInv, Types
    <2>3. IF_' \in BOOLEAN
        BY <1>2
    <2>4. QED
        BY <1>1, <2>2, <2>3 DEF BootInv, Types
<1>4. ClockExists' /\ TablesFit' /\ HandlersFit'
    BY <1>1 DEF BootInv, ClockExists, TablesFit, GatesSet, HandlersFit, Registered, tables
<1>5. OneHandler'
    <2>1. IF_' => IF_
        BY <1>2
    <2>2. QED
        BY <1>1, <2>1 DEF BootInv, OneHandler, Registered
<1>6. EoiDue'
    BY <1>1 DEF BootInv, EoiDue, AwaitsEoi
<1>7. BusyAtStep'
    <2> SUFFICES ASSUME NEW u \in Threads, busy'[u] # {}
                 PROVE  /\ pc[u] # 0 /\ Code(u)[pc[u]] \in DOMAIN Uses
                        /\ Code(u)[pc[u]] \in Guarded => cpu = u /\ ~IF_' /\ stack[u] = <<>>
        BY <1>1 DEF BusyAtStep
    <2>1. CASE u = t
        BY <1>1, <1>2, <2>1
    <2>2. CASE u # t
        <3>1. busy[u] # {}
            BY <1>2, <2>2 DEF BootInv, Types
        <3>2. QED
            BY <1>1, <1>2, <3>1 DEF BootInv, BusyAtStep
    <2>3. QED
        BY <2>1, <2>2
<1>8. PanicKnown' /\ FaultOnlyBeforeIdt'
    BY <1>1 DEF PanicKnown, FaultOnlyBeforeIdt
<1>9. QED
    BY <1>3, <1>4, <1>5, <1>6, <1>7, <1>8 DEF BootInv

\* Where a thread is after a step that worked on shared data.
LEMMA EndPlaces ==
    ASSUME BootInv, NEW t \in Threads, End(t)
    PROVE  /\ pc' \in [Threads -> Nat] /\ pc'["main"] \in 1 .. 27 /\ pc'["clock"] \in 0 .. 2
           /\ pc'["main"] >= pc["main"]
           /\ pc["clock"] # 0 => pc'["clock"] # 0
           /\ pc'["clock"] # 0 => pc'["main"] >= 24
           /\ \A n \in {4, 7, 8, 9} : pc'["main"] > n => pc["main"] > n
           /\ \A u \in Threads \ {t} : pc[u] # 0 => pc'[u] = pc[u]
<1>1. /\ pc[t] # 0 /\ busy[t] # {} /\ ~At(t, "yield") /\ Own(t)
      /\ pc' = [pc EXCEPT ![t] = Past(t),
                          !["clock"] = IF At(t, "thread_create") THEN 1
                                       ELSE IF t = "clock" THEN Past(t) ELSE @]
    BY DEF End, Own
<1>2. /\ pc \in [Threads -> Nat] /\ pc["main"] \in 1 .. 27 /\ pc["clock"] \in 0 .. 2
      /\ Code(t)[pc[t]] \in DOMAIN Uses /\ (pc["clock"] # 0 => pc["main"] >= 24)
    BY <1>1 DEF BootInv, Types, BusyAtStep, ClockExists
<1>3. CASE t = "main"
    <2>1. pc["main"] \in {2, 3, 5, 12, 14, 16, 17, 18, 19, 20, 23, 25, 26}
        BY <1>2, <1>3, ClockPlaces, MainUses
    <2>2. At(t, "thread_create") => pc["main"] = 23
        BY <1>2, <1>3, ClockPlaces, MainPlaces DEF At
    <2>3. Past(t) = pc["main"] + 1
        BY <1>3 DEF Past
    <2>4. /\ pc'["main"] = pc["main"] + 1 /\ pc' \in [Threads -> Nat]
          /\ pc'["clock"] = IF At(t, "thread_create") THEN 1 ELSE pc["clock"]
        BY <1>1, <1>2, <1>3, <2>3 DEF Threads
    <2>5. At(t, "thread_create") => pc["clock"] = 0
        BY <1>2, <2>2
    <2>6. QED
        BY <1>2, <1>3, <2>1, <2>2, <2>4, <2>5 DEF Threads
<1>4. CASE t = "clock"
    <2>1. pc["clock"] = 1
        BY <1>1, <1>2, <1>4, ClockPlaces DEF At
    <2>2. Past(t) = 2
        BY <1>4, <2>1, ClockPlaces DEF Past
    <2>3. ~At(t, "thread_create")
        BY <1>4, <2>1, ClockPlaces DEF At
    <2>4. /\ pc'["main"] = pc["main"] /\ pc' \in [Threads -> Nat] /\ pc'["clock"] = 2
        BY <1>1, <1>2, <1>4, <2>2, <2>3 DEF Threads
    <2>5. QED
        BY <1>2, <1>4, <2>1, <2>4 DEF Threads
<1>5. QED
    BY <1>3, <1>4 DEF Threads

LEMMA EndInv ==
    ASSUME BootInv, NEW t \in Threads, End(t)
    PROVE  BootInv'
<1>1. /\ status = "running" /\ cpu = t /\ stack[t] = <<>> /\ busy[t] # {}
      /\ UNCHANGED <<status, cpu, stack, tables, pic, obf, panic>>
      /\ busy' = [busy EXCEPT ![t] = {}]
      /\ IF_' = (IF_ \/ Code(t)[pc[t]] \in Guarded)
    BY DEF End, Own
<1>2. /\ pc' \in [Threads -> Nat] /\ pc'["main"] \in 1 .. 27 /\ pc'["clock"] \in 0 .. 2
      /\ pc'["main"] >= pc["main"] /\ pc["main"] \in 1 .. 27
      /\ pc["clock"] # 0 => pc'["clock"] # 0
      /\ pc'["clock"] # 0 => pc'["main"] >= 24
      /\ \A n \in {4, 7, 8, 9} : pc'["main"] > n => pc["main"] > n
      /\ \A u \in Threads \ {t} : pc[u] # 0 => pc'[u] = pc[u]
    BY EndPlaces DEF BootInv, Types
<1>3. Types'
    <2>1. busy' \in [Threads -> SUBSET {"console", "heap", "tasks"}] /\ IF_' \in BOOLEAN
        BY <1>1 DEF BootInv, Types
    <2>2. QED
        BY <1>1, <1>2, <2>1 DEF BootInv, Types
<1>4. ClockExists'
    BY <1>1, <1>2 DEF BootInv, ClockExists
<1>5. TablesFit'
    <2>1. pc["main"] > 10 => pc'["main"] > 10
        BY <1>2
    <2>2. QED
        BY <1>1, <1>2, <2>1 DEF BootInv, TablesFit, GatesSet, tables
<1>6. HandlersFit' /\ OneHandler'
    <2>1. pc["main"] >= 22 => pc'["main"] >= 22
        BY <1>2
    <2>2. HandlersFit'
        BY <1>1, <2>1 DEF BootInv, HandlersFit, Registered, tables
    <2>3. OneHandler'
        <3>1. \A u \in Threads : \A i \in 1 .. Len(stack[u]) :
                 stack[u][i].at = "iret" /\ stack[u][i].runs = "none"
            BY <1>1 DEF BootInv, OneHandler
        <3>2. QED
            BY <1>1, <3>1 DEF OneHandler
    <2>4. QED
        BY <2>2, <2>3
<1>7. EoiDue'
    BY <1>1 DEF BootInv, EoiDue, AwaitsEoi
<1>8. BusyAtStep'
    <2> SUFFICES ASSUME NEW u \in Threads, busy'[u] # {}
                 PROVE  /\ pc'[u] # 0 /\ Code(u)[pc'[u]] \in DOMAIN Uses
                        /\ Code(u)[pc'[u]] \in Guarded => cpu = u /\ ~IF_' /\ stack[u] = <<>>
        BY <1>1 DEF BusyAtStep
    <2>1. u # t /\ busy[u] # {}
        BY <1>1 DEF BootInv, Types
    <2>2. QED
        BY <1>1, <1>2, <2>1 DEF BootInv, BusyAtStep
<1>9. PanicKnown' /\ FaultOnlyBeforeIdt'
    BY <1>1 DEF PanicKnown, FaultOnlyBeforeIdt
<1>10. QED
    BY <1>3, <1>4, <1>5, <1>6, <1>7, <1>8, <1>9 DEF BootInv
-----------------------------------------------------------------------------
(* Interrupts.                                                             *)

Returns(f) == f.at = "iret" /\ f.runs = "none"

AllReturn == \A t \in Threads : \A i \in 1 .. Len(stack[t]) : Returns(stack[t][i])

\* Once the table is loaded the segments, the gates and the vectors are set up.
LEMMA TablesLoaded ==
    ASSUME BootInv, idtr
    PROVE  /\ gdt = GdtEntries /\ GatesSet(Isrs) /\ GatesSet(Irqs)
           /\ pic.master = PIC_MASTER_START_OFFSET /\ pic.slave = PIC_SLAVE_START_OFFSET
<1>1. pc["main"] \in 1 .. 27 /\ pc["main"] > 10
    BY DEF BootInv, Types, TablesFit
<1>2. pc["main"] > 4 /\ pc["main"] > 7 /\ pc["main"] > 8 /\ pc["main"] > 9
    BY <1>1
<1>3. TablesFit
    BY DEF BootInv
<1>4. QED
    BY <1>2, <1>3 DEF TablesFit

\* Taking a vector while no handler is at work: there is a gate for it once the
\* table is loaded, and its frame comes on top.
LEMMA EnterFacts ==
    ASSUME BootInv, AllReturn, NEW v, Enter(v), status = "running",
           idtr => v \in Irqs \cup {IRQ_YIELD}
    PROVE  /\ IF_' = FALSE
           /\ stack' \in [Threads -> Seq(Places)]
           /\ \/ status' = "fault" /\ ~idtr /\ stack' = stack
              \/ /\ status' = "running" /\ v \in Irqs \cup {IRQ_YIELD}
                 /\ stack'[cpu] # <<>> /\ stack'[cpu][1].vec = v
                 /\ stack'[cpu][1].at = (IF v \in Irqs THEN "irq_handler" ELSE "idt_handler")
                 /\ \A t \in Threads \ {cpu} : stack'[t] = stack[t]
           /\ \A t \in Threads : \A i \in 1 .. Len(stack'[t]) :
                 \/ Returns(stack'[t][i])
                 \/ t = cpu /\ i = 1 /\ stack'[t][i].runs = "none"
<1> DEFINE f == [vec |-> v, at |-> IF v \in Irqs THEN "irq_handler" ELSE "idt_handler",
                 runs |-> "none"]
           Gate == idtr /\ v \in DOMAIN entries /\ Reaches(gdt, entries, v)
<1>1. stack \in [Threads -> Seq(Places)] /\ cpu \in Threads /\ stack[cpu] \in Seq(Places)
    BY DEF BootInv, Types
<1>2. idtr => Gate
    <2> SUFFICES ASSUME idtr PROVE Gate
        OBVIOUS
    <2>1. gdt = GdtEntries /\ GatesSet(Isrs) /\ GatesSet(Irqs)
        BY TablesLoaded
    <2>2. v \in Isrs \cup Irqs /\ v \in 0 .. 255
        BY DEF Isrs, Irqs, IRQ_YIELD
    <2>3. v \in DOMAIN entries /\ entries[v] = idt_set_gate(Stub(v))
        BY <2>1, <2>2 DEF GatesSet
    <2>4. QED
        BY <2>1, <2>2, <2>3, GatesReach
<1>3. CASE Gate
    <2>1. v \in Irqs \cup {IRQ_YIELD} /\ f \in Places
        BY <1>3 DEF Places
    <2> DEFINE s == <<f>> \o stack[cpu]
    <2>2. /\ s \in Seq(Places) /\ Len(s) = Len(stack[cpu]) + 1 /\ s[1] = f
          /\ \A i \in 2 .. Len(stack[cpu]) + 1 :
                s[i] = stack[cpu][i - 1] /\ i - 1 \in 1 .. Len(stack[cpu])
        BY <1>1, <2>1, StackOps
    <2>3. stack' = [stack EXCEPT ![cpu] = s] /\ IF_' = FALSE /\ status' = "running"
        BY <1>3 DEF Enter
    <2>4. f.vec = v /\ f.at = (IF v \in Irqs THEN "irq_handler" ELSE "idt_handler")
          /\ f.runs = "none"
        OBVIOUS
    <2> HIDE DEF s, f
    <2>5. /\ stack'[cpu] = s /\ \A t \in Threads \ {cpu} : stack'[t] = stack[t]
          /\ stack' \in [Threads -> Seq(Places)]
        BY <1>1, <2>2, <2>3
    <2>6. s # <<>>
        BY <1>1, <2>2
    <2>7. ASSUME NEW t \in Threads, NEW i \in 1 .. Len(stack'[t])
          PROVE  \/ Returns(stack'[t][i])
                 \/ t = cpu /\ i = 1 /\ stack'[t][i].runs = "none"
        <3>1. CASE t # cpu
            BY <2>5, <3>1 DEF AllReturn
        <3>2. CASE t = cpu /\ i = 1
            BY <2>2, <2>4, <2>5, <3>2
        <3>3. CASE t = cpu /\ i # 1
            <4>1. i \in 2 .. Len(stack[cpu]) + 1
                BY <1>1, <2>2, <2>5, <3>3
            <4>2. QED
                BY <1>1, <2>2, <2>5, <3>3, <4>1 DEF AllReturn
        <3>4. QED
            BY <3>1, <3>2, <3>3
    <2>8. QED
        BY <2>1, <2>2, <2>3, <2>4, <2>5, <2>6, <2>7
<1>4. CASE ~Gate
    <2>1. status' = "fault" /\ IF_' = FALSE /\ stack' = stack /\ ~idtr
        BY <1>2, <1>4 DEF Enter
    <2>2. QED
        BY <1>1, <2>1 DEF AllReturn
<1>5. QED
    BY <1>3, <1>4

\* The controllers interrupt on line l.
LEMMA InterruptInv ==
    ASSUME BootInv, Interruptible, NEW l \in (Master \cup Slave) \ {Cascade},
           Enter(Vector(pic, l)), UNCHANGED <<cpu, pc, busy, tables, panic>>,
           pic' \in [irr : SUBSET Int, isr : SUBSET Int, imr : SUBSET Int,
                     master : Int, slave : Int],
           pic'.master = pic.master, pic'.slave = pic.slave,
           pic'.isr \subseteq pic.isr \cup {l, Level(l)}
    PROVE  BootInv'
<1> DEFINE v == Vector(pic, l)
<1>1. status = "running" /\ IF_ /\ IF_ = TRUE
    BY DEF Interruptible, BootInv, Types
<1>2. AllReturn
    BY <1>1 DEF BootInv, OneHandler, AllReturn, Returns
<1>3. l \in 0 .. 15 /\ l # 2
    BY DEF Master, Slave, Cascade
<1>4. idtr => v = IRQ0 + l /\ v \in Irqs
    <2>1. idtr => pic.master = 32 /\ pic.slave = 40
        BY TablesLoaded DEF PIC_MASTER_START_OFFSET, PIC_SLAVE_START_OFFSET
    <2>2. QED
        BY <1>3, <2>1 DEF Vector, IRQ0, Irqs, Slave
<1>5. pic.isr \subseteq {7}
    <2>1. AwaitsEoi => FALSE
        <3> SUFFICES ASSUME AwaitsEoi PROVE FALSE
            OBVIOUS
        <3>1. cpu \in Threads /\ stack[cpu] \in Seq(Places) /\ stack[cpu] # <<>>
            BY DEF AwaitsEoi, BootInv, Types
        <3>2. 1 \in 1 .. Len(stack[cpu])
            BY <3>1
        <3>3. stack[cpu][1].at = "iret"
            BY <1>2, <3>1, <3>2 DEF AllReturn, Returns
        <3>4. QED
            BY <3>3 DEF AwaitsEoi
    <2>2. QED
        BY <1>1, <2>1 DEF BootInv, EoiDue
<1> HIDE DEF v
<1>6. /\ IF_' = FALSE
      /\ stack' \in [Threads -> Seq(Places)]
      /\ \/ status' = "fault" /\ ~idtr /\ stack' = stack
         \/ /\ status' = "running" /\ v \in Irqs \cup {IRQ_YIELD}
            /\ stack'[cpu] # <<>> /\ stack'[cpu][1].vec = v
            /\ stack'[cpu][1].at = (IF v \in Irqs THEN "irq_handler" ELSE "idt_handler")
            /\ \A t \in Threads \ {cpu} : stack'[t] = stack[t]
      /\ \A t \in Threads : \A i \in 1 .. Len(stack'[t]) :
            \/ Returns(stack'[t][i])
            \/ t = cpu /\ i = 1 /\ stack'[t][i].runs = "none"
    BY <1>1, <1>2, <1>4, EnterFacts DEF v
<1>7. Types'
    BY <1>6 DEF BootInv, Types
<1>8. ClockExists' /\ TablesFit' /\ HandlersFit'
    BY DEF BootInv, ClockExists, TablesFit, GatesSet, HandlersFit, Registered, tables
<1>9. OneHandler'
    BY <1>6 DEF OneHandler, Returns
<1>10. FaultOnlyBeforeIdt' /\ PanicKnown'
    BY <1>6 DEF FaultOnlyBeforeIdt, PanicKnown, tables
<1>11. BusyAtStep'
    <2>1. \A t \in Threads : busy[t] # {} => Code(t)[pc[t]] \notin Guarded
        BY <1>1 DEF BootInv, BusyAtStep
    <2>2. QED
        BY <2>1 DEF BootInv, BusyAtStep
<1>12. EoiDue'
    <2> SUFFICES ASSUME status' = "running" PROVE AwaitsEoi'
        BY DEF EoiDue
    <2>1. idtr
        BY <1>6 DEF Enter
    <2>2. stack'[cpu] # <<>> /\ stack'[cpu][1].at = "irq_handler" /\ stack'[cpu][1].vec = IRQ0 + l
        BY <1>4, <1>6, <2>1
    <2>3. pic'.isr \subseteq {7, l, Level(l)}
        BY <1>5
    <2>4. QED
        BY <2>2, <2>3 DEF AwaitsEoi
<1>13. QED
    BY <1>7, <1>8, <1>9, <1>10, <1>11, <1>12 DEF BootInv

LEMMA DeliverInv ==
    ASSUME BootInv, \/ \E l \in Lines : Deliver(l)
                    \/ \E l \in {7, 15} : DeliverSpurious(l)
    PROVE  BootInv'
<1>1. pic \in [irr : SUBSET Int, isr : SUBSET Int, imr : SUBSET Int, master : Int, slave : Int]
    BY DEF BootInv, Types
<1>2. ASSUME NEW l \in Lines, Deliver(l) PROVE BootInv'
    <2>1. l \in (Master \cup Slave) \ {Cascade} /\ l \in Int /\ Level(l) \in Int
        BY LinesAssumption DEF Master, Slave, Cascade, Level
    <2>2. /\ Interruptible /\ Enter(Vector(pic, l)) /\ pic' = Acknowledge(pic, l)
          /\ UNCHANGED <<cpu, pc, busy, tables, panic>>
        BY <1>2 DEF Deliver
    <2>3. /\ pic' \in [irr : SUBSET Int, isr : SUBSET Int, imr : SUBSET Int,
                       master : Int, slave : Int]
          /\ pic'.master = pic.master /\ pic'.slave = pic.slave
          /\ pic'.isr \subseteq pic.isr \cup {l, Level(l)}
        BY <1>1, <2>1, <2>2 DEF Acknowledge
    <2>4. QED
        BY <2>1, <2>2, <2>3, InterruptInv
<1>3. ASSUME NEW l \in {7, 15}, DeliverSpurious(l) PROVE BootInv'
    <2>1. l \in (Master \cup Slave) \ {Cascade} /\ (l \in Slave => Level(l) = Cascade)
        BY DEF Master, Slave, Cascade, Level
    <2>2. /\ Interruptible /\ Enter(Vector(pic, l)) /\ pic' = Spurious(pic, l)
          /\ UNCHANGED <<cpu, pc, busy, tables, panic>>
        BY <1>3 DEF DeliverSpurious
    <2>3. /\ pic' \in [irr : SUBSET Int, isr : SUBSET Int, imr : SUBSET Int,
                       master : Int, slave : Int]
          /\ pic'.master = pic.master /\ pic'.slave = pic.slave
          /\ pic'.isr \subseteq pic.isr \cup {l, Level(l)}
        BY <1>1, <2>1, <2>2 DEF Spurious, Cascade
    <2>4. QED
        BY <2>1, <2>2, <2>3, InterruptInv
<1>4. QED
    BY <1>2, <1>3

LEMMA YieldInv == BootInv /\ Yield => BootInv'
<1> SUFFICES ASSUME BootInv, Yield PROVE BootInv'
    OBVIOUS
<1>1. /\ status = "running" /\ cpu = "clock" /\ stack["clock"] = <<>> /\ pc["clock"] # 0
      /\ ClockCode[pc["clock"]] = "yield" /\ busy["clock"] # {}
      /\ busy' = [busy EXCEPT !["clock"] = {}] /\ Enter(IRQ_YIELD) /\ Moves("clock")
      /\ UNCHANGED <<cpu, tables, pic, obf, panic>>
    BY ClockPlaces DEF Yield, At, Own
<1>2. /\ pc \in [Threads -> Nat] /\ pc["clock"] \in 0 .. 2 /\ pc["main"] \in 1 .. 27
    BY DEF BootInv, Types
<1>3. pc["clock"] = 2 /\ pc' \in [Threads -> Nat] /\ pc'["clock"] = 1 /\ pc'["main"] = pc["main"]
    <2>1. pc["clock"] = 2
        BY <1>1, <1>2, ClockPlaces
    <2>2. Past("clock") = 1
        BY <2>1, ClockPlaces DEF Past
    <2>3. QED
        BY <1>1, <1>2, <2>1, <2>2 DEF Moves, Threads
<1>4. AllReturn
    <2>1. \A t \in Threads : \A i \in 1 .. Len(stack[t]) : t # cpu
        BY <1>1
    <2>2. QED
        BY <2>1 DEF BootInv, OneHandler, AllReturn, Returns
<1>5. /\ IF_' = FALSE
      /\ stack' \in [Threads -> Seq(Places)]
      /\ \/ status' = "fault" /\ ~idtr /\ stack' = stack
         \/ /\ status' = "running"
            /\ \A t \in Threads \ {cpu} : stack'[t] = stack[t]
      /\ \A t \in Threads : \A i \in 1 .. Len(stack'[t]) :
            \/ Returns(stack'[t][i])
            \/ t = cpu /\ i = 1 /\ stack'[t][i].runs = "none"
    BY <1>1, <1>4, EnterFacts
<1>6. Types'
    <2>1. busy' \in [Threads -> SUBSET {"console", "heap", "tasks"}]
        BY <1>1 DEF BootInv, Types
    <2>2. pc'["clock"] \in 0 .. 2 /\ pc'["main"] \in 1 .. 27
        BY <1>2, <1>3
    <2>3. status' \in {"running", "panic", "fault"} /\ IF_' \in BOOLEAN /\ ~IF_'
        BY <1>5
    <2>4. cpu' = cpu /\ pic' = pic
        BY <1>1
    <2>5. QED
        BY <1>3, <1>5, <2>1, <2>2, <2>3, <2>4 DEF BootInv, Types
<1>7. ClockExists' /\ TablesFit' /\ HandlersFit'
    BY <1>1, <1>3 DEF BootInv, ClockExists, TablesFit, GatesSet, HandlersFit, Registered, tables
<1>8. OneHandler'
    BY <1>1, <1>5 DEF OneHandler, Returns
<1>9. FaultOnlyBeforeIdt' /\ PanicKnown'
    BY <1>1, <1>5 DEF FaultOnlyBeforeIdt, PanicKnown, tables
<1>10. BusyAtStep'
    <2>1. busy'["clock"] = {} /\ busy'["main"] = busy["main"]
        BY <1>1 DEF BootInv, Types, Threads
    <2>2. busy["main"] # {} => MainCode[pc["main"]] \in DOMAIN Uses /\ MainCode[pc["main"]] \notin Guarded
        BY <1>1, ClockPlaces DEF BootInv, BusyAtStep, Threads
    <2>3. pc'["main"] # 0
        BY <1>2, <1>3
    <2>4. busy'["main"] # {} => /\ MainCode[pc'["main"]] \in DOMAIN Uses
                               /\ MainCode[pc'["main"]] \notin Guarded
        BY <1>3, <2>1, <2>2
    <2>5. ASSUME NEW t \in Threads, busy'[t] # {}
          PROVE  /\ pc'[t] # 0 /\ Code(t)[pc'[t]] \in DOMAIN Uses
                 /\ Code(t)[pc'[t]] \notin Guarded
        <3>1. t = "main"
            BY <2>1, <2>5 DEF Threads
        <3>2. QED
            BY <2>3, <2>4, <2>5, <3>1, ClockPlaces
    <2>6. QED
        BY <2>5 DEF BusyAtStep, Code
<1>11. EoiDue'
    BY <1>1 DEF BootInv, EoiDue, AwaitsEoi
<1>12. QED
    BY <1>6, <1>7, <1>8, <1>9, <1>10, <1>11 DEF BootInv
-----------------------------------------------------------------------------
(* Handlers.                                                               *)

\* The frame on top of the running thread's stack, and those underneath it.
LEMMA FrameFacts ==
    ASSUME BootInv, NEW at, HasFrame(at)
    PROVE  /\ status = "running" /\ cpu \in Threads
           /\ stack[cpu] \in Seq(Places) /\ stack[cpu] # <<>>
           /\ Top = stack[cpu][1] /\ Top \in Places /\ Top.at = at
           /\ Top.at # "iret" =>
                 ~IF_ /\ IF_ = FALSE /\ (Top.runs = "none" \/ Registered(Top.runs))
           /\ \A t \in Threads : \A i \in 1 .. Len(stack[t]) :
                 t # cpu \/ i # 1 => Returns(stack[t][i])
           /\ Top.at # "irq_handler" => pic.isr \subseteq {7}
           /\ \A t \in Threads : busy[t] # {} => Code(t)[pc[t]] \notin Guarded
<1>1. status = "running" /\ stack[cpu] # <<>> /\ Top.at = at
    BY DEF HasFrame
<1>2. cpu \in Threads /\ stack[cpu] \in Seq(Places)
    BY DEF BootInv, Types
<1>3. Top = stack[cpu][1] /\ Top \in Places /\ 1 \in 1 .. Len(stack[cpu])
    BY <1>1, <1>2, StackOps DEF Top
<1>4. Top.at # "iret" => ~IF_ /\ IF_ = FALSE /\ (Top.runs = "none" \/ Registered(Top.runs))
    BY <1>2, <1>3 DEF BootInv, OneHandler, Types
<1>5. \A t \in Threads : \A i \in 1 .. Len(stack[t]) : t # cpu \/ i # 1 => Returns(stack[t][i])
    BY DEF BootInv, OneHandler, Returns
<1>6. Top.at # "irq_handler" => pic.isr \subseteq {7}
    BY <1>1, <1>3 DEF BootInv, EoiDue, AwaitsEoi
<1>7. \A t \in Threads : busy[t] # {} => Code(t)[pc[t]] \notin Guarded
    BY <1>1 DEF BootInv, BusyAtStep
<1>8. QED
    BY <1>1, <1>2, <1>3, <1>4, <1>5, <1>6, <1>7

\* What a step of a handler has to show.
LEMMA HandlerStep ==
    ASSUME BootInv, status = "running", UNCHANGED <<status, pc, busy, tables, panic>>,
           stack' \in [Threads -> Seq(Places)],
           cpu' \in Threads, cpu' = "clock" => pc["clock"] # 0, IF_' \in BOOLEAN,
           pic' \in [irr : SUBSET Int, isr : SUBSET Int, imr : SUBSET Int,
                     master : Int, slave : Int],
           pic'.master = pic.master, pic'.slave = pic.slave, pic'.isr \subseteq {7},
           \A t \in Threads : busy[t] # {} => Code(t)[pc[t]] \notin Guarded,
           OneHandler'
    PROVE  BootInv'
<1>1. Types'
    BY DEF BootInv, Types
<1>2. ClockExists' /\ TablesFit' /\ HandlersFit'
    BY DEF BootInv, ClockExists, TablesFit, GatesSet, HandlersFit, Registered, tables
<1>3. EoiDue'
    BY DEF EoiDue
<1>4. BusyAtStep'
    BY DEF BootInv, BusyAtStep
<1>5. PanicKnown' /\ FaultOnlyBeforeIdt'
    BY DEF PanicKnown, FaultOnlyBeforeIdt
<1>6. QED
    BY <1>1, <1>2, <1>3, <1>4, <1>5 DEF BootInv

\* The top frame changes and, unless it is about to return, keeps the CPU.
LEMMA TopReplaced ==
    ASSUME BootInv, NEW at, HasFrame(at), NEW f \in Places, SetTop(f), UNCHANGED pc,
           \/ Returns(f)
           \/ cpu' = cpu /\ ~IF_' /\ (f.runs = "none" \/ Registered(f.runs))
    PROVE  stack' \in [Threads -> Seq(Places)] /\ OneHandler'
<1>1. /\ cpu \in Threads /\ stack[cpu] \in Seq(Places) /\ stack[cpu] # <<>>
      /\ \A t \in Threads : \A i \in 1 .. Len(stack[t]) :
            t # cpu \/ i # 1 => Returns(stack[t][i])
    BY FrameFacts
<1> DEFINE s == <<f>> \o Tail(stack[cpu])
<1>2. /\ s \in Seq(Places) /\ Len(s) = Len(stack[cpu]) /\ s[1] = f
      /\ \A i \in 2 .. Len(stack[cpu]) : s[i] = stack[cpu][i]
    BY <1>1, StackOps
<1>3. stack' = [stack EXCEPT ![cpu] = s]
    BY DEF SetTop
<1> HIDE DEF s
<1>4. stack \in [Threads -> Seq(Places)]
    BY DEF BootInv, Types
<1>5. /\ stack'[cpu] = s /\ \A t \in Threads \ {cpu} : stack'[t] = stack[t]
      /\ stack' \in [Threads -> Seq(Places)]
    BY <1>1, <1>2, <1>3, <1>4
<1>6. ASSUME NEW t \in Threads, NEW i \in 1 .. Len(stack'[t])
      PROVE  Returns(stack'[t][i]) \/ (t = cpu /\ i = 1 /\ stack'[t][i] = f)
    <2>1. CASE t # cpu
        BY <1>1, <1>5, <2>1
    <2>2. CASE t = cpu /\ i = 1
        BY <1>2, <1>5, <2>2
    <2>3. CASE t = cpu /\ i # 1
        <3>1. i \in 2 .. Len(stack[cpu]) /\ i \in 1 .. Len(stack[cpu])
            BY <1>1, <1>2, <1>5, <2>3
        <3>2. QED
            BY <1>1, <1>2, <1>5, <2>3, <3>1
    <2>4. QED
        BY <2>1, <2>2, <2>3
<1>7. OneHandler'
    BY <1>6 DEF OneHandler, Returns, Registered
<1>8. QED
    BY <1>5, <1>7

\* A non-specific EOI to each controller concerned ends the one line that waits.
LEMMA EoiEnds ==
    ASSUME pic \in [irr : SUBSET Int, isr : SUBSET Int, imr : SUBSET Int,
                    master : Int, slave : Int],
           NEW l \in (Master \cup Slave) \ {Cascade}, pic.isr \subseteq {7, l, Level(l)}
    PROVE  Eoi(IRQ0 + l).isr \subseteq {7}
<1>1. l \in 0 .. 15 /\ l # 2
    BY DEF Master, Slave, Cascade
<1>2. CASE l \in 8 .. 15
    <2> DEFINE q == EoiSlave(pic)
    <2>1. IRQ0 + l >= PIC_SLAVE_START_OFFSET /\ Level(l) = 2
        BY <1>2 DEF IRQ0, PIC_SLAVE_START_OFFSET, Level, Slave, Cascade
    <2>2. q.isr = Ended(pic.isr, Slave)
        BY DEF EoiSlave
    <2>3. q.isr \subseteq {2, 7}
        BY <1>2, <2>1, <2>2 DEF Ended, Slave
    <2>4. Eoi(IRQ0 + l) = EoiMaster(q)
        BY <2>1 DEF Eoi
    <2> HIDE DEF q
    <2>5. Ended(q.isr, Master) \subseteq {7}
        BY <2>3 DEF Ended, Master
    <2>6. q \in [irr : SUBSET Int, isr : SUBSET Int, imr : SUBSET Int,
                 master : Int, slave : Int]
        BY DEF q, EoiSlave, Ended
    <2>7. QED
        BY <2>4, <2>5, <2>6 DEF EoiMaster
<1>3. CASE l \in 0 .. 7
    <2>1. ~(IRQ0 + l >= PIC_SLAVE_START_OFFSET) /\ Level(l) = l
        BY <1>3 DEF IRQ0, PIC_SLAVE_START_OFFSET, Level, Slave
    <2>2. Ended(pic.isr, Master) \subseteq {7}
        BY <1>3, <2>1 DEF Ended, Master
    <2>3. QED
        BY <2>1, <2>2 DEF Eoi, EoiMaster
<1>4. QED
    BY <1>1, <1>2, <1>3

\* An EOI starts no service and leaves the rest of the controllers alone.
LEMMA EoiKeeps ==
    ASSUME pic \in [irr : SUBSET Int, isr : SUBSET Int, imr : SUBSET Int,
                    master : Int, slave : Int], NEW v
    PROVE  /\ Eoi(v) \in [irr : SUBSET Int, isr : SUBSET Int, imr : SUBSET Int,
                          master : Int, slave : Int]
           /\ Eoi(v).master = pic.master /\ Eoi(v).slave = pic.slave
           /\ Eoi(v).isr \subseteq pic.isr
<1> DEFINE P == [irr : SUBSET Int, isr : SUBSET Int, imr : SUBSET Int, master : Int, slave : Int]
           q == EoiSlave(pic)
<1>1. \A p \in P : /\ EoiMaster(p) \in P /\ EoiMaster(p).isr \subseteq p.isr
                   /\ EoiMaster(p).master = p.master /\ EoiMaster(p).slave = p.slave
    BY DEF EoiMaster, Ended
<1>2. q \in P /\ q.isr \subseteq pic.isr /\ q.master = pic.master /\ q.slave = pic.slave
    BY DEF EoiSlave, Ended
<1>3. Eoi(v) = EoiMaster(q) \/ Eoi(v) = EoiMaster(pic)
    BY DEF Eoi
<1> HIDE DEF P, q
<1>4. pic \in P
    BY DEF P
<1>5. QED
    BY <1>1, <1>2, <1>3, <1>4 DEF P

LEMMA IrqHandlerInv == BootInv /\ irq_handler => BootInv'
<1> SUFFICES ASSUME BootInv, irq_handler PROVE BootInv'
    OBVIOUS
<1>1. HasFrame("irq_handler") /\ UNCHANGED <<status, IF_, cpu, pc, busy, tables, obf, panic>>
    BY DEF irq_handler
<1>2. /\ status = "running" /\ cpu \in Threads /\ Top \in Places /\ Top.at = "irq_handler"
      /\ Top = stack[cpu][1] /\ IF_ = FALSE /\ (Top.runs = "none" \/ Registered(Top.runs))
      /\ \A t \in Threads : busy[t] # {} => Code(t)[pc[t]] \notin Guarded
    BY <1>1, FrameFacts
<1>3. pic \in [irr : SUBSET Int, isr : SUBSET Int, imr : SUBSET Int, master : Int, slave : Int]
    BY DEF BootInv, Types
<1>4. \/ pic.isr \subseteq {7}
      \/ \E l \in (Master \cup Slave) \ {Cascade} :
            Top.vec = IRQ0 + l /\ pic.isr \subseteq {7, l, Level(l)}
    BY <1>2 DEF BootInv, EoiDue, AwaitsEoi
<1>5. ASSUME NEW f \in Places, SetTop(f), f.runs = Top.runs,
             pic' \in [irr : SUBSET Int, isr : SUBSET Int, imr : SUBSET Int,
                       master : Int, slave : Int],
             pic'.master = pic.master, pic'.slave = pic.slave, pic'.isr \subseteq {7}
      PROVE  BootInv'
    <2>1. stack' \in [Threads -> Seq(Places)] /\ OneHandler'
        BY <1>1, <1>2, <1>5, TopReplaced
    <2>2. cpu' \in Threads /\ (cpu' = "clock" => pc["clock"] # 0) /\ IF_' \in BOOLEAN
        BY <1>1, <1>2 DEF BootInv, ClockExists
    <2>3. QED
        BY <1>1, <1>2, <1>5, <2>1, <2>2, HandlerStep
<1>6. CASE Top.vec = IRQ7 /\ 7 \in pic.isr
    <2>1. SetTop([Top EXCEPT !.at = "iret"]) /\ pic' = pic
        BY <1>6 DEF irq_handler
    <2>2. [Top EXCEPT !.at = "iret"] \in Places /\ [Top EXCEPT !.at = "iret"].runs = Top.runs
        BY <1>2 DEF Places
    <2>3. pic.isr \subseteq {7}
        <3>1. \A l \in (Master \cup Slave) \ {Cascade} : Top.vec = IRQ0 + l => l = 7 /\ Level(l) = 7
            BY <1>6 DEF Master, Slave, Level, IRQ0, IRQ7
        <3>2. QED
            BY <1>4, <3>1
    <2>4. QED
        BY <1>3, <1>5, <2>1, <2>2, <2>3
<1>7. CASE ~(Top.vec = IRQ7 /\ 7 \in pic.isr)
    <2>1. SetTop([Top EXCEPT !.at = "idt_handler"]) /\ pic' = Eoi(Top.vec)
        BY <1>7 DEF irq_handler
    <2>2. /\ [Top EXCEPT !.at = "idt_handler"] \in Places
          /\ [Top EXCEPT !.at = "idt_handler"].runs = Top.runs
        BY <1>2 DEF Places
    <2>3. /\ pic' \in [irr : SUBSET Int, isr : SUBSET Int, imr : SUBSET Int,
                       master : Int, slave : Int]
          /\ pic'.master = pic.master /\ pic'.slave = pic.slave /\ pic'.isr \subseteq pic.isr
        BY <1>3, <2>1, EoiKeeps
    <2>4. pic'.isr \subseteq {7}
        <3>1. CASE pic.isr \subseteq {7}
            BY <2>3, <3>1
        <3>2. ASSUME NEW l \in (Master \cup Slave) \ {Cascade},
                     Top.vec = IRQ0 + l, pic.isr \subseteq {7, l, Level(l)}
              PROVE  pic'.isr \subseteq {7}
            BY <1>3, <2>1, <3>2, EoiEnds
        <3>3. QED
            BY <1>4, <3>1, <3>2
    <2>5. QED
        BY <1>5, <2>1, <2>2, <2>3, <2>4
<1>8. QED
    BY <1>6, <1>7

LEMMA IdtHandlerInv == BootInv /\ idt_handler => BootInv'
<1> SUFFICES ASSUME BootInv, idt_handler PROVE BootInv'
    OBVIOUS
<1> DEFINE h == Handler(Top.vec)
           f == [Top EXCEPT !.runs = h, !.at = IF h = "none" THEN "iret" ELSE "body"]
<1>1. /\ HasFrame("idt_handler") /\ SetTop(f)
      /\ UNCHANGED <<status, IF_, cpu, pc, busy, tables, pic, panic>>
    BY DEF idt_handler
<1>2. /\ status = "running" /\ cpu \in Threads /\ Top \in Places /\ IF_ = FALSE
      /\ pic.isr \subseteq {7}
      /\ \A t \in Threads : busy[t] # {} => Code(t)[pc[t]] \notin Guarded
    <2>1. Top.at # "irq_handler" /\ Top.at # "iret"
        BY <1>1 DEF HasFrame
    <2>2. QED
        BY <1>1, <2>1, FrameFacts
<1>3. Top.vec # PAGE_FAULT
    BY <1>2 DEF Places, Irqs, IRQ_YIELD, PAGE_FAULT
<1>4. h = "none" \/ Registered(h)
    BY <1>3 DEF Handler, BootInv, HandlersFit
<1>5. h \in {"none", "timer_default_irq", "task_switch", "keyboard_irq_handler"}
    BY <1>4 DEF Registered
<1> HIDE DEF h
<1>6. f \in Places /\ f.runs = h
    BY <1>2, <1>5 DEF Places
<1> HIDE DEF f
<1>7. stack' \in [Threads -> Seq(Places)] /\ OneHandler'
    BY <1>1, <1>2, <1>4, <1>6, TopReplaced
<1>8. /\ cpu' \in Threads /\ (cpu' = "clock" => pc["clock"] # 0) /\ IF_' \in BOOLEAN
      /\ pic' \in [irr : SUBSET Int, isr : SUBSET Int, imr : SUBSET Int,
                   master : Int, slave : Int]
    BY <1>1, <1>2 DEF BootInv, ClockExists, Types
<1>9. QED
    BY <1>1, <1>2, <1>7, <1>8, HandlerStep

\* A handler's return, and the end of a slice.
LEMMA BodyInv == BootInv /\ (HandlerReturns \/ SwitchTask) => BootInv'
<1> SUFFICES ASSUME BootInv, HandlerReturns \/ SwitchTask PROVE BootInv'
    OBVIOUS
<1> DEFINE f == [Top EXCEPT !.runs = "none", !.at = "iret"]
<1>1. /\ HasFrame("body") /\ SetTop(f)
      /\ UNCHANGED <<status, pc, busy, tables, pic, panic>>
      /\ \/ UNCHANGED <<IF_, cpu>>
         \/ /\ cpu' = IF pc["clock"] = 0 \/ cpu = "clock" THEN "main" ELSE "clock"
            /\ IF_' = TRUE
    BY DEF HandlerReturns, SwitchTask
<1>2. /\ status = "running" /\ cpu \in Threads /\ Top \in Places /\ IF_ = FALSE
      /\ pic.isr \subseteq {7}
      /\ \A t \in Threads : busy[t] # {} => Code(t)[pc[t]] \notin Guarded
    <2>1. Top.at # "irq_handler" /\ Top.at # "iret"
        BY <1>1 DEF HasFrame
    <2>2. QED
        BY <1>1, <2>1, FrameFacts
<1>3. f \in Places /\ Returns(f)
    BY <1>2 DEF Places, Returns
<1> HIDE DEF f
<1>4. stack' \in [Threads -> Seq(Places)] /\ OneHandler'
    BY <1>1, <1>3, TopReplaced
<1>5. /\ cpu' \in Threads /\ (cpu' = "clock" => pc["clock"] # 0) /\ IF_' \in BOOLEAN
      /\ pic' \in [irr : SUBSET Int, isr : SUBSET Int, imr : SUBSET Int,
                   master : Int, slave : Int]
    BY <1>1, <1>2 DEF BootInv, ClockExists, Types, Threads
<1>6. QED
    BY <1>1, <1>2, <1>4, <1>5, HandlerStep

LEMMA IretInv == BootInv /\ Iret => BootInv'
<1> SUFFICES ASSUME BootInv, Iret PROVE BootInv'
    OBVIOUS
<1> DEFINE s == Tail(stack[cpu])
<1>1. /\ HasFrame("iret") /\ stack' = [stack EXCEPT ![cpu] = s] /\ IF_' = TRUE
      /\ UNCHANGED <<status, cpu, pc, busy, tables, pic, obf, panic>>
    BY DEF Iret
<1>2. /\ status = "running" /\ cpu \in Threads /\ stack[cpu] \in Seq(Places)
      /\ stack[cpu] # <<>> /\ Top \in Places /\ pic.isr \subseteq {7}
      /\ \A t \in Threads : \A i \in 1 .. Len(stack[t]) :
            t # cpu \/ i # 1 => Returns(stack[t][i])
      /\ \A t \in Threads : busy[t] # {} => Code(t)[pc[t]] \notin Guarded
    <2>1. Top.at # "irq_handler"
        BY <1>1 DEF HasFrame
    <2>2. QED
        BY <1>1, <2>1, FrameFacts
<1>3. /\ s \in Seq(Places) /\ Len(s) = Len(stack[cpu]) - 1
      /\ \A i \in 1 .. Len(stack[cpu]) - 1 : s[i] = stack[cpu][i + 1] /\ i + 1 \in 2 .. Len(stack[cpu])
    BY <1>2, StackOps
<1> HIDE DEF s
<1>4. stack \in [Threads -> Seq(Places)]
    BY DEF BootInv, Types
<1>5. /\ stack'[cpu] = s /\ \A t \in Threads \ {cpu} : stack'[t] = stack[t]
      /\ stack' \in [Threads -> Seq(Places)]
    BY <1>1, <1>2, <1>3, <1>4
<1>6. ASSUME NEW t \in Threads, NEW i \in 1 .. Len(stack'[t])
      PROVE  Returns(stack'[t][i])
    <2>1. CASE t # cpu
        BY <1>2, <1>5, <2>1
    <2>2. CASE t = cpu
        <3>1. i \in 1 .. Len(stack[cpu]) - 1
            BY <1>3, <1>5, <2>2
        <3>2. i + 1 \in 1 .. Len(stack[cpu]) /\ i + 1 # 1
            BY <1>3, <3>1
        <3>3. QED
            BY <1>2, <1>3, <1>5, <2>2, <3>1, <3>2
    <2>3. QED
        BY <2>1, <2>2
<1>7. OneHandler'
    BY <1>6 DEF OneHandler, Returns
<1>8. /\ cpu' \in Threads /\ (cpu' = "clock" => pc["clock"] # 0) /\ IF_' \in BOOLEAN
      /\ pic' \in [irr : SUBSET Int, isr : SUBSET Int, imr : SUBSET Int,
                   master : Int, slave : Int]
    BY <1>1, <1>2 DEF BootInv, ClockExists, Types
<1>9. QED
    BY <1>1, <1>2, <1>5, <1>7, <1>8, HandlerStep

\* A page fault resets the machine only before the table is loaded.
LEMMA PageFaultInv == BootInv /\ PageFault => BootInv'
<1> SUFFICES ASSUME BootInv, PageFault PROVE BootInv'
    OBVIOUS
<1>1. UNCHANGED <<cpu, pc, busy, stack, tables, pic, obf>> /\ UNCHANGED <<idtr, handlers>>
    BY DEF PageFault, tables
<1>2. idtr => Reaches(gdt, entries, PAGE_FAULT)
    <2> SUFFICES ASSUME idtr PROVE Reaches(gdt, entries, PAGE_FAULT)
        OBVIOUS
    <2>1. gdt = GdtEntries /\ GatesSet(Isrs)
        BY TablesLoaded
    <2>2. PAGE_FAULT \in 0 .. 255 /\ PAGE_FAULT \in Isrs
        BY DEF PAGE_FAULT, Isrs
    <2>3. PAGE_FAULT \in DOMAIN entries /\ entries[PAGE_FAULT] = idt_set_gate(Stub(PAGE_FAULT))
        BY <2>1, <2>2 DEF GatesSet
    <2>4. QED
        BY <2>1, <2>2, <2>3, GatesReach
<1>3. /\ IF_' = FALSE
      /\ \/ status' = "fault" /\ ~idtr
         \/ /\ status' = "panic"
            /\ \E err \in ErrorCodes :
                  panic' = [about |-> "page", err |-> err, says |-> page_fault_handler(err)]
    BY <1>2 DEF PageFault, Panics
<1>4. status' \in {"panic", "fault"} /\ status' # "running"
    BY <1>3
<1>5. Types'
    BY <1>1, <1>3, <1>4 DEF BootInv, Types
<1>6. ClockExists' /\ TablesFit' /\ HandlersFit'
    BY <1>1 DEF BootInv, ClockExists, TablesFit, GatesSet, HandlersFit, Registered, tables
<1>7. OneHandler' /\ BusyAtStep'
    BY <1>1, <1>3 DEF BootInv, OneHandler, Registered, BusyAtStep
<1>8. EoiDue'
    BY <1>4 DEF EoiDue
<1>9. PanicKnown' /\ FaultOnlyBeforeIdt'
    BY <1>1, <1>3 DEF PanicKnown, FaultOnlyBeforeIdt
<1>10. QED
    BY <1>5, <1>6, <1>7, <1>8, <1>9 DEF BootInv

\* A device latches a request.
LEMMA DeviceInv ==
    ASSUME BootInv, KeyPress \/ \E l \in Lines : Raise(l)
    PROVE  BootInv'
<1>1. \E l \in Int : pic' = [pic EXCEPT !.irr = @ \cup {l}]
    BY LinesAssumption DEF KeyPress, Raise, KeyLine, Master, Slave
<1>2. UNCHANGED <<status, IF_, cpu, pc, busy, stack, tables, panic>>
    BY DEF KeyPress, Raise
<1>3. /\ pic' \in [irr : SUBSET Int, isr : SUBSET Int, imr : SUBSET Int,
                   master : Int, slave : Int]
      /\ pic'.isr = pic.isr /\ pic'.master = pic.master /\ pic'.slave = pic.slave
    <2>1. pic \in [irr : SUBSET Int, isr : SUBSET Int, imr : SUBSET Int,
                   master : Int, slave : Int]
        BY DEF BootInv, Types
    <2>2. PICK l \in Int : pic' = [pic EXCEPT !.irr = @ \cup {l}]
        BY <1>1
    <2>3. pic.irr \cup {l} \in SUBSET Int
        BY <2>1
    <2>4. QED
        BY <2>1, <2>2, <2>3
<1>4. Types' /\ ClockExists' /\ HandlersFit' /\ OneHandler'
    BY <1>2, <1>3 DEF BootInv, Types, ClockExists, HandlersFit, OneHandler, Registered, tables
<1>5. TablesFit' /\ EoiDue'
    BY <1>2, <1>3 DEF BootInv, TablesFit, GatesSet, EoiDue, AwaitsEoi, tables
<1>6. BusyAtStep' /\ PanicKnown' /\ FaultOnlyBeforeIdt'
    BY <1>2 DEF BootInv, BusyAtStep, PanicKnown, FaultOnlyBeforeIdt, tables
<1>7. QED
    BY <1>4, <1>5, <1>6 DEF BootInv

LEMMA InitBootInv == Init => BootInv
<1> SUFFICES ASSUME Init PROVE BootInv
    OBVIOUS
<1>1. /\ pc \in [Threads -> Nat] /\ pc["main"] = 1 /\ pc["clock"] = 0
      /\ stack \in [Threads -> Seq(Places)] /\ \A t \in Threads : stack[t] = <<>>
      /\ busy \in [Threads -> SUBSET {"console", "heap", "tasks"}]
      /\ \A t \in Threads : busy[t] = {}
    BY DEF Init, Threads
<1>2. pic \in [irr : SUBSET Int, isr : SUBSET Int, imr : SUBSET Int, master : Int, slave : Int]
      /\ pic.isr = {}
    BY DEF Init, BiosPic
<1>3. status = "running" /\ cpu = "main" /\ IF_ = FALSE /\ idtr = FALSE /\ handlers = <<>>
    BY DEF Init
<1>4. Types
    <2>1. pc["main"] \in 1 .. 27 /\ pc["clock"] \in 0 .. 2
        BY <1>1
    <2>2. cpu \in Threads /\ IF_ \in BOOLEAN /\ status \in {"running", "panic", "fault"}
        BY <1>3 DEF Threads
    <2>3. QED
        BY <1>1, <1>2, <1>3, <2>1, <2>2 DEF Types
<1>5. ClockExists /\ TablesFit
    BY <1>1, <1>3 DEF ClockExists, TablesFit
<1>6. HandlersFit
    BY <1>3 DEF HandlersFit
<1>7. OneHandler /\ BusyAtStep
    BY <1>1 DEF OneHandler, BusyAtStep
<1>8. EoiDue /\ PanicKnown /\ FaultOnlyBeforeIdt
    BY <1>2, <1>3 DEF EoiDue, PanicKnown, FaultOnlyBeforeIdt
<1>9. QED
    BY <1>4, <1>5, <1>6, <1>7, <1>8 DEF BootInv

LEMMA NextBootInv == BootInv /\ [Next]_vars => BootInv'
<1> SUFFICES ASSUME BootInv, [Next]_vars PROVE BootInv'
    OBVIOUS
<1>1. CASE Runs
    BY <1>1, BootsInv, YieldInv, BeginInv, EndInv DEF Runs
<1>2. CASE Handles
    BY <1>2, IrqHandlerInv, IdtHandlerInv, BodyInv, IretInv DEF Handles
<1>3. CASE \/ \E l \in Lines : Deliver(l)
           \/ \E l \in {7, 15} : DeliverSpurious(l)
    BY <1>3, DeliverInv
<1>4. CASE KeyPress \/ \E l \in Lines : Raise(l)
    BY <1>4, DeviceInv
<1>5. CASE PageFault
    BY <1>5, PageFaultInv
<1>6. CASE UNCHANGED vars
    BY <1>6 DEF vars, tables, BootInv, Types, ClockExists, TablesFit, GatesSet, HandlersFit,
                Registered, OneHandler, EoiDue, AwaitsEoi, BusyAtStep, PanicKnown,
                FaultOnlyBeforeIdt
<1>7. QED
    BY <1>1, <1>2, <1>3, <1>4, <1>5, <1>6 DEF Next, Stopped

\* The invariant holds of every behaviour of the kernel from the boot loader's
\* hand-over on: kernel_init, kernel_main, the interrupts and the handlers.
THEOREM BootInvariance == Spec => []BootInv
<1>1. Init => BootInv
    BY InitBootInv
<1>2. BootInv /\ [Next]_vars => BootInv'
    BY NextBootInv
<1>3. QED
    BY <1>1, <1>2, PTL DEF Spec

\* The machine resets for want of a gate only before idt_init has loaded the table:
\* later every vector of the controllers, of the CPU's page fault and of yield has a
\* gate that leads to its stub and back.
THEOREM NoResetAfterIdt == Spec => []FaultOnlyBeforeIdt
<1>1. BootInv => FaultOnlyBeforeIdt
    BY DEF BootInv
<1>2. QED
    BY <1>1, BootInvariance, PTL

\* Interrupts are on only while nothing but IRQ7 is in service, whatever devices
\* raise: irq_handler gives its EOI before its handler can switch to another task.
THEOREM EoiBeforeInterrupts == Spec => []NothingHeldBack
<1>1. BootInv => NothingHeldBack
    <2> SUFFICES ASSUME BootInv, IF_, AwaitsEoi PROVE FALSE
        BY DEF NothingHeldBack, BootInv, Types, EoiDue
    <2>1. cpu \in Threads /\ stack[cpu] \in Seq(Places) /\ stack[cpu] # <<>>
        BY DEF AwaitsEoi, BootInv, Types
    <2>2. 1 \in 1 .. Len(stack[cpu])
        BY <2>1
    <2>3. stack[cpu][1].at = "iret"
        BY <2>1, <2>2 DEF BootInv, OneHandler
    <2>4. QED
        BY <2>3 DEF AwaitsEoi
<1>2. QED
    BY <1>1, BootInvariance, PTL

\* A panic never tells a lie: page_fault_handler's texts fit the error code, only
\* a write or a fetch may lack the further one, and memory is called missing only
\* when GRUB's map lists none.
THEOREM ReportsAreTrue == Spec => []PanicTellsTruth
<1>1. BootInv => PanicTellsTruth
    <2> SUFFICES ASSUME PanicKnown, status = "panic" PROVE PanicTellsTruth
        BY DEF BootInv, PanicTellsTruth
    <2>1. ASSUME NEW info \in Infos, ~multiboot_RAM(info),
                 panic = [about |-> "memory", info |-> info]
          PROVE  PanicTellsTruth
        BY <2>1 DEF PanicTellsTruth, multiboot_RAM
    <2>2. ASSUME NEW err \in ErrorCodes,
                 panic = [about |-> "page", err |-> err, says |-> page_fault_handler(err)]
          PROVE  PanicTellsTruth
        <3> DEFINE says == page_fault_handler(err)
        <3>1. /\ says.user = (2 \in err) /\ says.write = (1 \in err)
              /\ says.present = (0 \in err) /\ says.extra = Extra(err)
            BY DEF page_fault_handler, USER_MODE, READ_WRITE, PRESENT
        <3>2. \/ Extra(err) = Truth(err)
              \/ Extra(err) = "NULL" /\ err \cap {1, 4} # {}
            <4> DEFINE m == err \cap {1, 2, 3, 4}
            <4>1. 2 \notin err
                BY DEF ErrorCodes, USER_MODE
            <4>2. Extra(err) = CASE m = {}           -> "neither"
                                 [] m = {1, 2, 4}    -> "fetch"
                                 [] m = {3}          -> "reserved"
                                 [] m = {1, 2, 3, 4} -> "both"
                                 [] OTHER            -> "NULL"
                <5>1. /\ INSTRUCTION_FETCH = {1, 2, 4} /\ RESERVED = {3}
                      /\ {1, 2, 4} \cup {3} = {1, 2, 3, 4}
                    BY DEF INSTRUCTION_FETCH, RESERVED
                <5>2. QED
                    BY <5>1 DEF Extra
            <4>3. CASE m = {}
                <5>1. 3 \notin err /\ 4 \notin err
                    BY <4>3
                <5>2. QED
                    BY <4>2, <4>3, <5>1 DEF Truth
            <4>4. CASE m = {3}
                <5>1. 3 \in err /\ 4 \notin err
                    BY <4>4
                <5>2. QED
                    BY <4>2, <4>4, <5>1 DEF Truth
            <4>5. CASE m # {} /\ m # {3}
                <5>1. m # {1, 2, 4} /\ m # {1, 2, 3, 4}
                    BY <4>1
                <5>2. Extra(err) = "NULL"
                    BY <4>2, <4>5, <5>1
                <5>3. err \cap {1, 4} # {}
                    <6>1. 1 \in err \/ 4 \in err
                        BY <4>1, <4>5
                    <6>2. QED
                        BY <6>1
                <5>4. QED
                    BY <5>2, <5>3
            <4>6. QED
                BY <4>3, <4>4, <4>5
        <3> HIDE DEF says
        <3>3. panic.about = "page" /\ panic.err = err /\ panic.says = says
            BY <2>2 DEF says
        <3>4. QED
            BY <3>1, <3>2, <3>3 DEF PanicTellsTruth
    <2>3. QED
        BY <2>1, <2>2 DEF PanicKnown
<1>2. QED
    BY <1>1, BootInvariance, PTL

\* While an interrupt is under way, code of a thread is at most in an unguarded
\* step, which main is through with before handlers that share data are there.
LEMMA NobodyUnderHandler ==
    ASSUME BootInv, stack[cpu] # <<>>, pc["main"] >= 22
    PROVE  \A t \in Threads : busy[t] = {}
<1> SUFFICES ASSUME NEW t \in Threads, busy[t] # {} PROVE FALSE
    OBVIOUS
<1>1. /\ pc["main"] \in 1 .. 27 /\ pc["clock"] \in 0 .. 2 /\ pc[t] # 0
      /\ Code(t)[pc[t]] \in DOMAIN Uses /\ Code(t)[pc[t]] \notin Guarded
    BY DEF BootInv, Types, BusyAtStep
<1>2. CASE t = "main"
    <2>1. pc["main"] \in {16, 18, 20}
        BY <1>1, <1>2, ClockPlaces, MainUses
    <2>2. QED
        BY <2>1
<1>3. CASE t = "clock"
    <2>1. pc["clock"] = 1 \/ pc["clock"] = 2
        BY <1>1, <1>3
    <2>2. QED
        BY <1>1, <1>3, <2>1, ClockPlaces DEF Guarded
<1>4. QED
    BY <1>2, <1>3 DEF Threads

\* Main and the clock thread are never both in the middle of a step.
LEMMA OneThreadBusy ==
    ASSUME BootInv
    PROVE  busy["main"] = {} \/ busy["clock"] = {}
<1> SUFFICES ASSUME busy["main"] # {}, busy["clock"] # {} PROVE FALSE
    OBVIOUS
<1>1. /\ pc["main"] \in 1 .. 27 /\ pc["clock"] \in 0 .. 2 /\ pc["clock"] # 0
      /\ MainCode[pc["main"]] \in DOMAIN Uses
      /\ MainCode[pc["main"]] \in Guarded => cpu = "main"
      /\ ClockCode[pc["clock"]] \in Guarded => cpu = "clock"
    BY ClockPlaces DEF BootInv, Types, BusyAtStep, Threads
<1>2. pc["main"] >= 24
    BY <1>1 DEF BootInv, ClockExists
<1>3. pc["main"] \notin {16, 18, 20}
    BY <1>2
<1>4. MainCode[pc["main"]] \in Guarded
    BY <1>1, <1>3, MainUses
<1>5. pc["clock"] = 1 \/ pc["clock"] = 2
    BY <1>1
<1>6. ClockCode[pc["clock"]] \in Guarded
    BY <1>5, ClockPlaces DEF Guarded
<1>7. QED
    BY <1>1, <1>4, <1>6

\* The heap, the console and the task list are never worked on twice at once: not by
\* a handler and the code underneath it, nor by two threads, for any devices and any
\* nesting of interrupts; vga_dynamic_init, mem_init and task_init, which leave
\* interrupts on, are done before any handler that shares their data is registered.
THEOREM NothingReentered == Spec => []NoReentry
<1>1. BootInv => NoReentry
    <2> SUFFICES ASSUME BootInv, NEW a \in Activations, NEW b \in Activations, a # b,
                        UsedBy(a) # {}, UsedBy(b) # {}
                 PROVE  FALSE
        BY DEF NoReentry
    <2>1. ASSUME NEW c \in Activations, UsedBy(c) # {}
          PROVE  \/ \E t \in Threads : c = <<t, 0>> /\ busy[t] # {}
                 \/ c = <<cpu, 1>> /\ stack[cpu] # <<>> /\ pc["main"] >= 22
        <3>1. CASE \E t \in Threads : c = <<t, 0>>
            BY <2>1, <3>1 DEF UsedBy
        <3>2. ASSUME NEW t \in Threads, NEW i \in DOMAIN stack[t], c = <<t, i>>
              PROVE  c = <<cpu, 1>> /\ stack[cpu] # <<>> /\ pc["main"] >= 22
            <4>1. stack[t] \in Seq(Places) /\ i \in 1 .. Len(stack[t]) /\ i # 0
                BY <3>2 DEF BootInv, Types
            <4>2. UsedBy(c) = HandlerUses[stack[t][i].runs]
                BY <3>2, <4>1 DEF UsedBy
            <4>3. HandlerUses["none"] = {} /\ HandlerUses["timer_default_irq"] = {}
                BY DEF HandlerUses
            <4>4. stack[t][i].runs # "none" /\ stack[t][i].runs # "timer_default_irq"
                BY <2>1, <4>2, <4>3
            <4>5. t = cpu /\ i = 1 /\ Registered(stack[t][i].runs)
                BY <4>1, <4>4 DEF BootInv, OneHandler
            <4>6. pc["main"] >= 22
                BY <4>4, <4>5 DEF Registered
            <4>7. stack[cpu] # <<>>
                BY <4>1, <4>5
            <4>8. QED
                BY <3>2, <4>5, <4>6, <4>7
        <3>3. QED
            BY <3>1, <3>2 DEF Activations
    <2>2. CASE a = <<cpu, 1>> /\ stack[cpu] # <<>> /\ pc["main"] >= 22
        BY <2>1, <2>2, NobodyUnderHandler
    <2>3. CASE b = <<cpu, 1>> /\ stack[cpu] # <<>> /\ pc["main"] >= 22
        BY <2>1, <2>3, NobodyUnderHandler
    <2>4. CASE /\ \E t \in Threads : a = <<t, 0>> /\ busy[t] # {}
               /\ \E t \in Threads : b = <<t, 0>> /\ busy[t] # {}
        BY <2>4, OneThreadBusy DEF Threads
    <2>5. QED
        BY <2>1, <2>2, <2>3, <2>4
<1>2. QED
    BY <1>1, BootInvariance, PTL
=============================================================================
