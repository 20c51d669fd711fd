------------------------------- MODULE Sched --------------------------------
(***************************************************************************)
(* Threads and the round-robin scheduler (kernel/sched/task.c,              *)
(* task_helper.asm): thread_create clones the caller, the timer interrupt   *)
(* and yield enter task_switch, which saves the running task's context and  *)
(* jumps into another task's.                                               *)
(*                                                                         *)
(* Every task has a stack of frames, the last one being what it executes:   *)
(*   "thread"   its own code                                                *)
(*   "cli"      its own code, between a cli and the next sti                *)
(*   "forking"  thread_create, child in the list, context not yet set       *)
(*   "handler"  an interrupt stub about to call task_switch                 *)
(*   "resume"   task_switch after the switch back, about to return          *)
(*   "child"    thread_create as the child sees it, after its first dispatch*)
(* The CPU takes an interrupt only while IF is set; the interrupt gate      *)
(* clears it and iret restores it.  An sti takes effect after the next      *)
(* instruction, so yield's `sti; INT $255` cannot be interrupted between.   *)
(***************************************************************************)
EXTENDS Integers, Sequences, FiniteSets

CONSTANTS
    Tasks,            \* task_t structures that can be created
    main,             \* the task task_init makes of the boot thread
    Nil,              \* NULL
    TICKS_PER_SLICE,
    MaxDepth,         \* bound on the nesting of interrupts on one stack
    ThreadsReturn     \* whether a thread's function may return

ASSUME TasksAssumption == main \in Tasks /\ Nil \notin Tasks
ASSUME SliceAssumption == TICKS_PER_SLICE \in Nat
ASSUME DepthAssumption == MaxDepth \in Nat /\ MaxDepth >= 2

VARIABLES
    phase,      \* "boot", "multi", "halted" (KPANIC) or "wild" (jump to eip 0)
    IF_,        \* the CPU's interrupt flag
    irq0,       \* a timer interrupt is latched in the PIC
    cpu,        \* the task whose stack the CPU is on
    current,    \* the scheduler's variable
    first,      \* LIST_FIRST(&tasks)
    next_task,  \* LIST_NEXT of every task
    created,    \* tasks that exist
    ticks,
    context,    \* what eip/esp/ebp of a task_t describe
    frames,     \* the stacks
    parent,     \* thread_create's local variables, on the stack of the child ...
    child       \* ... and on the stack of the parent

listVars == <<first, next_task>>
vars == <<phase, IF_, irq0, cpu, current, listVars, created, ticks, context,
          frames, parent, child>>

Top(t)       == frames[t][Len(frames[t])]
Front(s)     == SubSeq(s, 1, Len(s) - 1)
Replace(s, f) == Append(Front(s), f)

-----------------------------------------------------------------------------
(* A definition with a fault in its name (NoWrap, LosesTail, NoCli...) is a  *)
(* faulty variant of the one that follows it.                                *)

Init ==
    /\ phase = "boot"
    /\ IF_ = TRUE
    /\ irq0 = FALSE
    /\ cpu = main
    /\ current = Nil
    /\ first = Nil
    /\ next_task = [t \in Tasks |-> Nil]
    /\ created = {}
    /\ ticks = [t \in Tasks |-> 0]
    /\ context = [t \in Tasks |-> "none"]
    /\ frames = [t \in Tasks |-> <<"thread">>]
    /\ parent = [t \in Tasks |-> Nil]
    /\ child = [t \in Tasks |-> Nil]

\* The PIT raises IRQ0; while one is latched another is not noticed.
PitTick ==
    /\ ~irq0
    /\ irq0' = TRUE
    /\ UNCHANGED <<phase, IF_, cpu, current, listVars, created, ticks, context,
                   frames, parent, child>>

\* Before task_init, IRQ0 is timer_default_irq, which does nothing.
timer_default_irq ==
    /\ phase = "boot" /\ IF_ /\ irq0
    /\ irq0' = FALSE
    /\ UNCHANGED <<phase, IF_, cpu, current, listVars, created, ticks, context,
                   frames, parent, child>>

\* task_init.  Interrupts are on, but nothing it writes is looked at before the
\* timer handler is registered, its last step but one.
task_init ==
    /\ phase = "boot"
    /\ phase' = "multi"
    /\ current' = main
    /\ created' = {main}
    /\ first' = main
    /\ next_task' = [next_task EXCEPT ![main] = first]
    /\ ticks' = [ticks EXCEPT ![main] = TICKS_PER_SLICE]
    /\ UNCHANGED <<IF_, irq0, cpu, context, frames, parent, child>>

-----------------------------------------------------------------------------
(* thread_create.                                                          *)

InsertAfterLosesTail(p, c) ==
    /\ next_task' = [next_task EXCEPT ![p] = c, ![c] = Nil]
    /\ UNCHANGED first

\* LIST_INSERT_AFTER
InsertAfter(p, c) ==
    /\ next_task' = [next_task EXCEPT ![p] = c, ![c] = next_task[p]]
    /\ UNCHANGED first

ForkBeginNoCli(c) ==
    /\ phase = "multi" /\ Top(cpu) = "thread"
    /\ c \in Tasks \ created
    /\ created' = created \cup {c}
    /\ ticks' = [ticks EXCEPT ![c] = 0]
    /\ context' = [context EXCEPT ![c] = "none"]
    /\ parent' = [parent EXCEPT ![c] = current]
    /\ child' = [child EXCEPT ![cpu] = c]
    /\ InsertAfter(current, c)
    /\ frames' = [frames EXCEPT ![cpu] = Append(@, "forking"), ![c] = <<"child">>]
    /\ UNCHANGED <<phase, IF_, irq0, cpu, current>>

\* cli, task_new (zeroed), copy_stack, insertion into the list, read_eip.
ForkBegin(c) ==
    /\ phase = "multi" /\ Top(cpu) = "thread"
    /\ c \in Tasks \ created
    /\ IF_' = FALSE
    /\ created' = created \cup {c}
    /\ ticks' = [ticks EXCEPT ![c] = 0]
    /\ context' = [context EXCEPT ![c] = "none"]
    /\ parent' = [parent EXCEPT ![c] = current]
    /\ child' = [child EXCEPT ![cpu] = c]
    /\ InsertAfter(current, c)
    /\ frames' = [frames EXCEPT ![cpu] = Append(@, "forking"), ![c] = <<"child">>]
    /\ UNCHANGED <<phase, irq0, cpu, current>>

ForkConfigureNoSti ==
    /\ phase = "multi" /\ Top(cpu) = "forking"
    /\ context' = [context EXCEPT ![child[cpu]] = "fork"]
    /\ frames' = [frames EXCEPT ![cpu] = Front(@)]
    /\ UNCHANGED <<phase, IF_, irq0, cpu, current, listVars, created, ticks, parent,
                   child>>

\* current == parent: the parent sets esp, ebp and eip of the child, then sti.
ForkConfigure ==
    /\ phase = "multi" /\ Top(cpu) = "forking"
    /\ context' = [context EXCEPT ![child[cpu]] = "fork"]
    /\ IF_' = TRUE
    /\ frames' = [frames EXCEPT ![cpu] = Front(@)]
    /\ UNCHANGED <<phase, irq0, cpu, current, listVars, created, ticks, parent,
                   child>>

\* The child's return from read_eip: current differs from its parent, so sti and
\* run the thread.  Were they equal it would go on as its parent.
ChildStart ==
    /\ phase = "multi" /\ Top(cpu) = "child"
    /\ IF current # parent[cpu]
       THEN /\ frames' = [frames EXCEPT ![cpu] = Replace(@, "thread")]
            /\ IF_' = TRUE
            /\ UNCHANGED phase
       ELSE phase' = "wild" /\ UNCHANGED <<frames, IF_>>
    /\ UNCHANGED <<irq0, cpu, current, listVars, created, ticks, context, parent,
                   child>>

\* The thread's function returns: KPANIC("Thread returned early! ...")
ThreadReturn ==
    /\ ThreadsReturn
    /\ phase = "multi" /\ Top(cpu) = "thread" /\ cpu # main
    /\ phase' = "halted"
    /\ IF_' = FALSE
    /\ UNCHANGED <<irq0, cpu, current, listVars, created, ticks, context, frames,
                   parent, child>>

-----------------------------------------------------------------------------
(* A thread's own cli ... sti (thread_task of kernel.c).                    *)
ThreadCli ==
    /\ phase = "multi" /\ Top(cpu) = "thread"
    /\ IF_' = FALSE
    /\ frames' = [frames EXCEPT ![cpu] = Replace(@, "cli")]
    /\ UNCHANGED <<phase, irq0, cpu, current, listVars, created, ticks, context,
                   parent, child>>

ThreadSti ==
    /\ phase = "multi" /\ Top(cpu) = "cli"
    /\ IF_' = TRUE
    /\ frames' = [frames EXCEPT ![cpu] = Replace(@, "thread")]
    /\ UNCHANGED <<phase, irq0, cpu, current, listVars, created, ticks, context,
                   parent, child>>

-----------------------------------------------------------------------------
(* Interrupts and task_switch.                                             *)

\* The interrupt gate clears IF; the stub's frame goes onto the stack.
irq_setup ==
    /\ IF_' = FALSE
    /\ frames' = [frames EXCEPT ![cpu] = Append(@, "handler")]

\* The end of the stub: its frame is popped and the flags are restored; IF was
\* set, both when an interrupt got in and in yield.
iret ==
    /\ IF_' = TRUE
    /\ frames' = [frames EXCEPT ![cpu] = Front(@)]

\* The CPU goes to the stack and the instruction of a task with the context ctx,
\* with interrupts on; a context that was never set leads nowhere.
perform_task_switch(to, ctx) ==
    /\ cpu' = to
    /\ phase' = IF ctx = "none" THEN "wild" ELSE phase
    /\ IF_' = TRUE

\* IRQ0 reaches the CPU.  EOI is sent before the handler, so the next tick can be
\* latched at once.
Irq0 ==
    /\ phase = "multi" /\ IF_ /\ irq0
    /\ Len(frames[cpu]) < MaxDepth
    /\ irq0' = FALSE
    /\ irq_setup
    /\ UNCHANGED <<phase, cpu, current, listVars, created, ticks, context, parent,
                   child>>

\* yield: the slice is given up and INT 255 enters the same handler.
yield ==
    /\ phase = "multi" /\ Top(cpu) = "thread"
    /\ ticks' = [ticks EXCEPT ![current] = 0]
    /\ irq_setup
    /\ UNCHANGED <<phase, irq0, cpu, current, listVars, created, context, parent,
                   child>>

\* task_switch, the slice is not used up: one tick less, and iret.
TickConsumed ==
    /\ phase = "multi" /\ Top(cpu) = "handler"
    /\ ticks[current] > 0
    /\ ticks' = [ticks EXCEPT ![current] = @ - 1]
    /\ iret
    /\ UNCHANGED <<phase, irq0, cpu, current, listVars, created, context, parent,
                   child>>

SuccessorNoWrap(t) ==
    IF next_task[t] = Nil THEN t ELSE next_task[t]

SuccessorSkips(t) ==
    IF next_task[t] = Nil THEN first
    ELSE IF next_task[next_task[t]] = Nil THEN next_task[t]
    ELSE next_task[next_task[t]]

\* LIST_NEXT, or LIST_FIRST at the end of the list.
Successor(t) ==
    IF next_task[t] = Nil THEN first ELSE next_task[t]

SwitchTaskContextLost ==
    LET to == Successor(current)
    IN  /\ phase = "multi" /\ Top(cpu) = "handler"
        /\ ticks[current] = 0
        /\ current' = to
        /\ ticks' = [ticks EXCEPT ![to] = TICKS_PER_SLICE]
        /\ frames' = [frames EXCEPT ![cpu] = Replace(@, "resume")]
        /\ perform_task_switch(to, context[to])
        /\ UNCHANGED <<irq0, listVars, created, context, parent, child>>

\* task_switch proper: the next task gets a full slice, the context of the old
\* one is saved, and perform_task_switch loads the next task's - which is the
\* one just saved when there is no other task - with interrupts on.
SwitchTask ==
    LET to == Successor(current)
    IN  /\ phase = "multi" /\ Top(cpu) = "handler"
        /\ ticks[current] = 0
        /\ current' = to
        /\ ticks' = [ticks EXCEPT ![to] = TICKS_PER_SLICE]
        /\ context' = [context EXCEPT ![current] = "switch"]
        /\ frames' = [frames EXCEPT ![cpu] = Replace(@, "resume")]
        /\ perform_task_switch(to, context'[to])
        /\ UNCHANGED <<irq0, listVars, created, parent, child>>

\* Back in task_switch with DUMMY_EIP: return through the stub, iret.
SwitchReturn ==
    /\ phase = "multi" /\ Top(cpu) = "resume"
    /\ iret
    /\ UNCHANGED <<phase, irq0, cpu, current, listVars, created, ticks, context,
                   parent, child>>

Stopped == phase \in {"halted", "wild"} /\ UNCHANGED vars

Next ==
    \/ PitTick \/ timer_default_irq \/ task_init
    \/ \E c \in Tasks : ForkBegin(c)
    \/ ForkConfigure \/ ChildStart \/ ThreadReturn
    \/ ThreadCli \/ ThreadSti
    \/ Irq0 \/ yield \/ TickConsumed \/ SwitchTask \/ SwitchReturn
    \/ Stopped

Spec == Init /\ [][Next]_vars

\* The PIT keeps ticking and the CPU keeps executing.  A latched interrupt is
\* taken at the first instruction boundary with IF set, so a thread that clears
\* and sets IF for ever does not keep it out (strong fairness); and between two
\* interrupts the CPU executes at least one instruction of the frame it returned
\* to, so a frame it returns to again and again - the end of task_switch at some
\* depth of a stack, the child's start - is left at last.
Fairness ==
    /\ WF_vars(PitTick)
    /\ WF_vars(task_init)
    /\ SF_vars(Irq0)
    /\ WF_vars(ForkConfigure) /\ WF_vars(ThreadSti)
    /\ WF_vars(TickConsumed) /\ WF_vars(SwitchTask)
    /\ \A t \in Tasks : /\ SF_vars(cpu = t /\ ChildStart)
                        /\ \A d \in 2 .. MaxDepth :
                              SF_vars(cpu = t /\ Len(frames[t]) = d /\ SwitchReturn)

FairSpec == Spec /\ Fairness

-----------------------------------------------------------------------------
FrameKinds == {"thread", "cli", "forking", "handler", "resume", "child"}

TypeOK ==
    /\ phase \in {"boot", "multi", "halted", "wild"}
    /\ IF_ \in BOOLEAN /\ irq0 \in BOOLEAN
    /\ cpu \in Tasks
    /\ current \in Tasks \cup {Nil} /\ first \in Tasks \cup {Nil}
    /\ next_task \in [Tasks -> Tasks \cup {Nil}]
    /\ created \subseteq Tasks
    /\ ticks \in [Tasks -> 0 .. TICKS_PER_SLICE]
    /\ context \in [Tasks -> {"none", "fork", "switch"}]
    /\ frames \in [Tasks -> Seq(FrameKinds)]
    /\ parent \in [Tasks -> Tasks \cup {Nil}]
    /\ child \in [Tasks -> Tasks \cup {Nil}]

\* The scheduler never jumps into a task whose context was not set, although
\* thread_create puts the child into the list before it sets the context; and a
\* child never goes on as its parent.
NoWildJump == phase # "wild"

\* A task that is not running can be resumed: what its task_t describes is the
\* frame on top of its stack.  The one exception is a child in the making, and
\* while there is one, no interrupt can get in.
SuspendedResumable ==
    phase = "multi" =>
        \A t \in created \ {cpu} :
            \/ context[t] = "switch" /\ Top(t) = "resume"
            \/ context[t] = "fork" /\ Top(t) = "child"
            \/ /\ context[t] = "none"
               /\ ~IF_ /\ Top(cpu) = "forking" /\ child[cpu] = t

\* s is the list from its head to its end: the tasks that exist, once each.
Listing(s) ==
    LET n == Cardinality(created)
    IN  /\ \A t \in created : \E k \in 1 .. n : s[k] = t
        /\ \A j, k \in 1 .. n : s[j] = s[k] => j = k
        /\ first = IF n = 0 THEN Nil ELSE s[1]
        /\ \A k \in 1 .. n : next_task[s[k]] = IF k = n THEN Nil ELSE s[k + 1]

Listings == {s \in [1 .. Cardinality(created) -> created] : Listing(s)}

\* The list holds every task that exists exactly once and ends: no thread is
\* lost to the scheduler, whoever created it.
ListComplete == Listings # {}

\* An abstract round robin: a cyclic order of tasks in which a child comes right
\* after its parent, and the turn passes to the next in order.
Ring == INSTANCE RoundRobin WITH
    order <- CHOOSE s \in Listings : TRUE,
    turn  <- IF phase = "boot" THEN Nil ELSE current

RefinesRoundRobin == Ring!RingSpec

\* Every task that exists gets the CPU again and again, and a thread that was
\* created leaves thread_create and runs its code, unless the kernel has panicked
\* (task_switch, thread_create).
EveryTaskRuns ==
    \A t \in Tasks :
        /\ t \in created ~> (current = t \/ phase = "halted")
        /\ t \in created ~> (frames[t][1] = "thread" \/ phase = "halted")

\* Interrupts never stay off.
InterruptsComeBack == ~IF_ ~> (IF_ \/ phase = "halted")
=============================================================================
