-------------------------------- MODULE Boot --------------------------------
(***************************************************************************)
(* Interrupts from the boot loader's hand-over to the idle kernel: the order *)
(* in which kernel_init and kernel_main (kernel/kernel/kernel.c) bring up    *)
(* the tables, the interrupt controllers and the handlers, every interrupt   *)
(* that may come in between, and what code of a handler may meet underneath  *)
(* it.  kernel/x86/idt.c dispatches, kernel/x86/exceptions.c reports page    *)
(* faults, the KLOG of kernel/include/kernel/logger.h turns interrupts off   *)
(* and on.                                                                   *)
(*                                                                         *)
(* Main and the clock thread run one Code each.  A step that works on data   *)
(* handlers use as well (Uses) has a beginning and an end between which an   *)
(* interrupt may come, unless it is Guarded by cli and sti.  How long a time *)
(* slice lasts is left open.                                                 *)
(***************************************************************************)
EXTENDS Pic, Descriptors, Sequences

CONSTANTS Lines,      \* the lines devices raise
          MaxDepth    \* bound on nested interrupts of one thread

ASSUME LinesAssumption == Lines \subseteq (Master \cup Slave) \ {Cascade}

KeyLine    == 1
PAGE_FAULT == 14
IRQ0       == 32
IRQ1       == 33
IRQ7       == 39

Threads == {"main", "clock"}

\* kernel_main with the keyboard ready before the console's lines are.
KeyboardFirst ==
    <<"vga_init", "log", "log", "gdt_init", "log", "idt_clear", "init_pic", "init_isr",
      "init_irq", "idt_flush", "exceptions_init", "log", "timer_init", "log",
      "keyboard_init", "multiboot_RAM", "mem_init", "log", "vga_dynamic_init", "log",
      "task_init", "timer_set_handler", "register_yield", "thread_create",
      "log", "log", "idle">>

\* kernel_main with the keyboard's handler registered before idt_init.
KeyboardForgotten ==
    <<"vga_init", "log", "log", "gdt_init", "log", "keyboard_init", "idt_clear",
      "init_pic", "init_isr", "init_irq", "idt_flush", "exceptions_init", "log",
      "timer_init", "log", "multiboot_RAM", "mem_init", "log", "vga_dynamic_init", "log",
      "task_init", "timer_set_handler", "register_yield", "thread_create",
      "log", "log", "idle">>

\* kernel_init and kernel_main.
MainCode ==
    <<"vga_init", "log", "log", "gdt_init", "log", "idt_clear", "init_pic", "init_isr",
      "init_irq", "idt_flush", "exceptions_init", "log", "timer_init", "log",
      "multiboot_RAM", "mem_init", "log", "vga_dynamic_init", "log", "task_init",
      "timer_set_handler", "register_yield", "thread_create", "keyboard_init",
      "log", "log", "idle">>

ClockCode == <<"show_clock", "yield">>

Code(t) == IF t = "main" THEN MainCode ELSE ClockCode

Uses == [log |-> {"console", "heap"}, mem_init |-> {"heap"},
         vga_dynamic_init |-> {"console", "heap"}, task_init |-> {"heap", "tasks"},
         thread_create |-> {"heap", "tasks"}, show_clock |-> {"console"},
         yield |-> {"tasks"}]

Guarded == {"log", "thread_create", "show_clock", "yield"}

\* The keyboard's handler scrolls, and a scroll may need a line from kmalloc.
HandlerUses == [none |-> {}, timer_default_irq |-> {}, task_switch |-> {"tasks"},
                keyboard_irq_handler |-> {"console", "heap"}]

VARIABLES
    status,     \* "running", or how the machine stopped
    IF_,        \* the interrupt flag
    cpu,        \* the thread that runs
    pc,         \* pc[t] is t's place in Code(t), 0 before t exists
    busy,       \* busy[t]: what t is in the middle of using
    stack,      \* stack[t]: interrupts of t not yet returned from
    gdt, entries, idtr, handlers,
    pic,
    obf,        \* the keyboard controller's output buffer is full
    panic       \* what a panic was about, and what it said

tables == <<gdt, entries, idtr, handlers>>
vars   == <<status, IF_, cpu, pc, busy, stack, tables, pic, obf, panic>>

\* GRUB enters with interrupts off.
Init ==
    /\ status = "running" /\ IF_ = FALSE /\ cpu = "main"
    /\ pc = [t \in Threads |-> IF t = "main" THEN 1 ELSE 0]
    /\ busy = [t \in Threads |-> {}]
    /\ stack = [t \in Threads |-> <<>>]
    /\ gdt = <<>> /\ entries = <<>> /\ idtr = FALSE /\ handlers = <<>>
    /\ pic = BiosPic
    /\ obf = FALSE
    /\ panic = <<>>

-----------------------------------------------------------------------------
(* The threads' own code.                                                  *)

Own(t) == status = "running" /\ cpu = t /\ stack[t] = <<>> /\ pc[t] # 0

At(t, s) == Own(t) /\ Code(t)[pc[t]] = s

\* The clock thread runs its code for ever.
Past(t) == IF pc[t] = Len(ClockCode) /\ t = "clock" THEN 1 ELSE pc[t] + 1

Moves(t) == pc' = [pc EXCEPT ![t] = Past(t)]

Begin(t) ==
    /\ Own(t) /\ busy[t] = {}
    /\ \E s \in DOMAIN Uses :
          /\ At(t, s)
          /\ busy' = [busy EXCEPT ![t] = Uses[s]]
          /\ IF_' = (IF_ /\ s \notin Guarded)
    /\ UNCHANGED <<status, cpu, pc, stack, tables, pic, obf, panic>>

End(t) ==
    /\ Own(t) /\ busy[t] # {} /\ ~At(t, "yield")
    /\ busy' = [busy EXCEPT ![t] = {}]
    /\ IF_' = (IF_ \/ Code(t)[pc[t]] \in Guarded)
    /\ pc' = [pc EXCEPT ![t] = Past(t),
                        !["clock"] = IF At(t, "thread_create") THEN 1
                                     ELSE IF t = "clock" THEN Past(t) ELSE @]
    /\ UNCHANGED <<status, cpu, stack, tables, pic, obf, panic>>

Quietly(t) == Moves(t) /\ UNCHANGED <<status, IF_, cpu, busy, stack, obf>>

vga_init ==
    /\ At("main", "vga_init")
    /\ Quietly("main") /\ UNCHANGED <<tables, pic, panic>>

gdt_init ==
    /\ At("main", "gdt_init")
    /\ gdt' = GdtEntries
    /\ Quietly("main") /\ UNCHANGED <<entries, idtr, handlers, pic, panic>>

\* The two memsets of idt_init: no gate is present, no handler registered.
idt_clear ==
    /\ At("main", "idt_clear")
    /\ entries' = <<>> /\ handlers' = <<>>
    /\ Quietly("main") /\ UNCHANGED <<gdt, idtr, pic, panic>>

\* A key whose request the controllers forget raises no other: its byte is
\* still in the buffer.
remap ==
    /\ At("main", "init_pic")
    /\ pic' = init_pic(pic)
    /\ Quietly("main") /\ UNCHANGED <<tables, panic>>

Gates(vs) ==
    [v \in vs \cup DOMAIN entries |-> IF v \in vs THEN idt_set_gate(Stub(v)) ELSE entries[v]]

init_isr ==
    /\ At("main", "init_isr")
    /\ entries' = Gates(Isrs)
    /\ Quietly("main") /\ UNCHANGED <<gdt, idtr, handlers, pic, panic>>

init_irq ==
    /\ At("main", "init_irq")
    /\ entries' = Gates(Irqs)
    /\ Quietly("main") /\ UNCHANGED <<gdt, idtr, handlers, pic, panic>>

idt_flush ==
    /\ At("main", "idt_flush")
    /\ idtr' = TRUE
    /\ Quietly("main") /\ UNCHANGED <<gdt, entries, handlers, pic, panic>>

register_interrupt_handler(int_num, handler) ==
    /\ handlers' = [v \in {int_num} \cup DOMAIN handlers |->
                       IF v = int_num THEN handler ELSE handlers[v]]
    /\ Quietly("main") /\ UNCHANGED <<gdt, entries, idtr, pic, panic>>

exceptions_init ==
    At("main", "exceptions_init") /\ register_interrupt_handler(PAGE_FAULT, "page_fault_handler")

timer_init ==
    At("main", "timer_init") /\ register_interrupt_handler(IRQ0, "timer_default_irq")

timer_set_handler ==
    At("main", "timer_set_handler") /\ register_interrupt_handler(IRQ0, "task_switch")

register_yield ==
    At("main", "register_yield") /\ register_interrupt_handler(IRQ_YIELD, "task_switch")

keyboard_init ==
    At("main", "keyboard_init") /\ register_interrupt_handler(IRQ1, "keyboard_irq_handler")

-----------------------------------------------------------------------------
(* The memory map GRUB hands over: bit 6 of flags says that there is one.    *)

Regions == [ram : BOOLEAN]
Infos   == [flags : {{}, {6}}, mmap : {<<>>} \cup {<<r>> : r \in Regions}
                                             \cup {<<r, s>> : r, s \in Regions}]

\* Where the memory lies is recorded and never used.
multiboot_RAM(info) == 6 \in info.flags /\ \E i \in DOMAIN info.mmap : info.mmap[i].ram

Panics(what) == status' = "panic" /\ panic' = what /\ IF_' = FALSE

detect_memory ==
    /\ At("main", "multiboot_RAM")
    /\ \E info \in Infos :
          IF multiboot_RAM(info)
          THEN Quietly("main") /\ UNCHANGED panic
          ELSE /\ Panics([about |-> "memory", info |-> info])
               /\ UNCHANGED <<cpu, pc, busy, stack, obf>>
    /\ UNCHANGED <<tables, pic>>

-----------------------------------------------------------------------------
(* Interrupts.                                                             *)

Handler(v) == IF v \in DOMAIN handlers THEN handlers[v] ELSE "none"

Top == Head(stack[cpu])
HasFrame(at) == status = "running" /\ stack[cpu] # <<>> /\ Top.at = at
SetTop(f)    == stack' = [stack EXCEPT ![cpu] = <<f>> \o Tail(@)]

\* The CPU takes vector v through the table, or resets for want of a gate.
Enter(v) ==
    IF idtr /\ v \in DOMAIN entries /\ Reaches(gdt, entries, v)
    THEN /\ stack' = [stack EXCEPT ![cpu] =
                <<[vec |-> v, at |-> IF v \in Irqs THEN "irq_handler" ELSE "idt_handler",
                   runs |-> "none"]>> \o @]
         /\ IF_' = FALSE
         /\ UNCHANGED status
    ELSE status' = "fault" /\ IF_' = FALSE /\ UNCHANGED stack

Interruptible == status = "running" /\ IF_ /\ Len(stack[cpu]) < MaxDepth

Deliver(l) ==
    /\ Interruptible /\ Presents(pic, l)
    /\ pic' = Acknowledge(pic, l)
    /\ Enter(Vector(pic, l))
    /\ UNCHANGED <<cpu, pc, busy, tables, obf, panic>>

\* Noise: a request of any line that nothing holds back is gone when the CPU asks
\* for the vector.
DeliverSpurious(l) ==
    /\ Interruptible
    /\ \E k \in IF l \in Slave THEN {Cascade} ELSE Master : ~HeldBack(pic, k)
    /\ pic' = Spurious(pic, l)
    /\ Enter(Vector(pic, l))
    /\ UNCHANGED <<cpu, pc, busy, tables, obf, panic>>

\* The end of yield: no interrupt comes between its sti and its INT 255, for sti
\* takes effect after the instruction that follows it.
Yield ==
    /\ At("clock", "yield") /\ busy["clock"] # {}
    /\ busy' = [busy EXCEPT !["clock"] = {}]
    /\ Enter(IRQ_YIELD)
    /\ Moves("clock")
    /\ UNCHANGED <<cpu, tables, pic, obf, panic>>

\* The slave's EOI without the master's.
Eoi_OneOnly(v) ==
    IF v >= PIC_SLAVE_START_OFFSET THEN EoiSlave(pic) ELSE EoiMaster(pic)

Eoi(v) == EoiMaster(IF v >= PIC_SLAVE_START_OFFSET THEN EoiSlave(pic) ELSE pic)

\* irq_handler up to the call: an IRQ7 in service returns at once.
irq_handler ==
    /\ HasFrame("irq_handler")
    /\ IF Top.vec = IRQ7 /\ 7 \in pic.isr
       THEN SetTop([Top EXCEPT !.at = "iret"]) /\ UNCHANGED pic
       ELSE SetTop([Top EXCEPT !.at = "idt_handler"]) /\ pic' = Eoi(Top.vec)
    /\ UNCHANGED <<status, IF_, cpu, pc, busy, tables, obf, panic>>

\* The call through the handler table; the keyboard's handler reads the byte.
idt_handler ==
    LET h == Handler(Top.vec) IN
    /\ HasFrame("idt_handler")
    /\ SetTop([Top EXCEPT !.runs = h, !.at = IF h = "none" THEN "iret" ELSE "body"])
    /\ obf' = (obf /\ h # "keyboard_irq_handler")
    /\ UNCHANGED <<status, IF_, cpu, pc, busy, tables, pic, panic>>

HandlerReturns ==
    /\ HasFrame("body")
    /\ SetTop([Top EXCEPT !.runs = "none", !.at = "iret"])
    /\ UNCHANGED <<status, IF_, cpu, pc, busy, tables, pic, obf, panic>>

\* task_switch at the end of a slice: the next task goes on where it was switched
\* away from, in its own task_switch, or in thread_create, with interrupts on.
SwitchTask ==
    /\ HasFrame("body") /\ Top.runs = "task_switch"
    /\ SetTop([Top EXCEPT !.runs = "none", !.at = "iret"])
    /\ cpu' = IF pc["clock"] = 0 \/ cpu = "clock" THEN "main" ELSE "clock"
    /\ IF_' = TRUE
    /\ UNCHANGED <<status, pc, busy, tables, pic, obf, panic>>

\* Interrupts were on where each of these interrupts came.
Iret ==
    /\ HasFrame("iret")
    /\ stack' = [stack EXCEPT ![cpu] = Tail(@)]
    /\ IF_' = TRUE
    /\ UNCHANGED <<status, cpu, pc, busy, tables, pic, obf, panic>>

\* Some access of a thread goes wrong; the handler stops the kernel with a report.
\* Between idt_flush and exceptions_init there is no handler: the access is tried
\* again for ever, which is no step.
PageFault ==
    /\ Own(cpu)
    /\ \E err \in ErrorCodes :
          IF ~idtr \/ ~Reaches(gdt, entries, PAGE_FAULT)
          THEN status' = "fault" /\ IF_' = FALSE /\ UNCHANGED panic
          ELSE /\ Handler(PAGE_FAULT) = "page_fault_handler"
               /\ Panics([about |-> "page", err |-> err, says |-> page_fault_handler(err)])
    /\ UNCHANGED <<cpu, pc, busy, stack, tables, pic, obf>>

-----------------------------------------------------------------------------
(* Devices.                                                                *)

Raise(l) ==
    /\ status = "running" /\ l # KeyLine /\ l \notin pic.irr
    /\ pic' = [pic EXCEPT !.irr = @ \cup {l}]
    /\ UNCHANGED <<status, IF_, cpu, pc, busy, stack, tables, obf, panic>>

\* The keyboard controller holds the next byte back until this one is read.
KeyPress ==
    /\ status = "running" /\ ~obf
    /\ obf' = TRUE
    /\ pic' = [pic EXCEPT !.irr = @ \cup {KeyLine}]
    /\ UNCHANGED <<status, IF_, cpu, pc, busy, stack, tables, panic>>

Stopped == status # "running" /\ UNCHANGED vars

Boots ==
    \/ vga_init \/ gdt_init \/ idt_clear \/ remap \/ init_isr \/ init_irq \/ idt_flush
    \/ exceptions_init \/ timer_init \/ timer_set_handler \/ register_yield
    \/ keyboard_init \/ detect_memory

Runs == Boots \/ Yield \/ \E t \in Threads : Begin(t) \/ End(t)

Handles == irq_handler \/ idt_handler \/ HandlerReturns \/ SwitchTask \/ Iret

Next ==
    \/ Runs \/ Handles
    \/ \E l \in Lines : Deliver(l) \/ Raise(l)
    \/ \E l \in {7, 15} : DeliverSpurious(l)
    \/ KeyPress \/ PageFault \/ Stopped

\* The CPU goes on, and takes an interrupt that is presented again and again.
Fairness == WF_vars(Runs) /\ WF_vars(Handles) /\ \A l \in Lines : SF_vars(Deliver(l))

Spec == Init /\ [][Next]_vars /\ Fairness

-----------------------------------------------------------------------------
\* The machine resets for want of a gate only while idt_init has not loaded the
\* table yet: afterwards the vectors the controllers use, the gates, the segments
\* and the words the stubs push all fit together (idt_init, gdt_init).
FaultOnlyBeforeIdt == status = "fault" => ~idtr

\* What is under way on the machine: steps of the threads and bodies of handlers.
Activations ==
    {<<t, 0>> : t \in Threads}
        \cup UNION {{<<t, i>> : i \in DOMAIN stack[t]} : t \in Threads}

UsedBy(a) == IF a[2] = 0 THEN busy[a[1]] ELSE HandlerUses[stack[a[1]][a[2]].runs]

\* No interrupt handler works on the heap, the console or the task list while
\* the code it interrupted, or another thread, is in the middle of doing so:
\* "all accesses to it should disable interrupts" (sched/task.c, line 36).
NoReentry ==
    \A a, b \in Activations : a # b => UsedBy(a) \cap UsedBy(b) = {}

\* Whenever interrupts are on, no line but IRQ7 is still in service: no handler
\* runs on, or loses the CPU to another task, with an EOI outstanding
\* (irq_handler).
NothingHeldBack == IF_ => pic.isr \subseteq {7}

\* A thread runs with interrupts on and no request that goes before line l's.
Quiet(l) == IF_ /\ stack[cpu] = <<>> /\ \A k \in pic.irr : k = l \/ Before(l, k)

Served(l) == IF l = KeyLine THEN ~obf ELSE l \notin pic.irr

\* Once the kernel is up, a request on any line but IRQ7 is served in the end, and
\* a key's byte read, if the machine has quiet moments for it again and again
\* (irq_handler, register_interrupt_handler, keyboard_irq_handler).
RequestsServed ==
    \A l \in Lines \ {7} :
        []<>Quiet(l) =>
            (pc["main"] = Len(MainCode) /\ l \in pic.irr ~> Served(l) \/ status # "running")

Truth(err) ==
    CASE {3, 4} \subseteq err -> "both"
      [] 4 \in err /\ 3 \notin err -> "fetch"
      [] 3 \in err /\ 4 \notin err -> "reserved"
      [] OTHER -> "neither"

\* A panic says what happened: the reason of a page fault is the one the CPU
\* gave, the further text is there and right for a read, and for a write or a fetch
\* right or missing (page_fault_handler), and memory is reported missing only when
\* the boot loader listed none (multiboot_RAM).
PanicTellsTruth ==
    status = "panic" =>
        CASE panic.about = "memory" ->
                6 \notin panic.info.flags
                    \/ \A i \in DOMAIN panic.info.mmap : ~panic.info.mmap[i].ram
          [] panic.about = "page" ->
                /\ panic.says.user = (2 \in panic.err)
                /\ panic.says.write = (1 \in panic.err)
                /\ panic.says.present = (0 \in panic.err)
                /\ \/ panic.says.extra = Truth(panic.err)
                   \/ panic.says.extra = "NULL" /\ panic.err \cap {1, 4} # {}
=============================================================================
