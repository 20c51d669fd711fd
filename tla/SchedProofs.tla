---------------------------- MODULE SchedProofs -----------------------------
(***************************************************************************)
(* For any number of tasks, any slice and any depth of nested interrupts:   *)
(* the scheduler never jumps into a context that was not set, and whatever  *)
(* task is not running can be resumed; the task list holds every task once, *)
(* and switching tasks implements RoundRobin.                               *)
(***************************************************************************)
EXTENDS Sched, SequenceTheorems, FiniteSetTheorems, TLAPS

\* Frames an interrupt can lie on top of, and frames that were put on top.
Interruptible == {"thread", "resume", "child"}
BaseFrames    == {"thread", "cli", "child"}
PushedFrames  == {"handler", "resume", "forking"}

\* Every stack has a base frame, pushed frames above it, and below its top only
\* code that runs with interrupts on.
Shape(s) ==
    /\ s \in Seq(FrameKinds)
    /\ Len(s) >= 1
    /\ s[1] \in BaseFrames
    /\ \A k \in 2 .. Len(s) : s[k] \in PushedFrames
    /\ \A k \in 1 .. Len(s) - 1 : s[k] \in Interruptible

StackShape == \A t \in Tasks : Shape(frames[t])

\* IF is clear exactly in the frames that clear it.
FlagDiscipline ==
    phase = "multi" => (IF_ <=> Top(cpu) \in Interruptible)

\* The list stays within the tasks that exist, and so does `current`.
ListClosed ==
    /\ phase = "boot" => created = {} /\ first = Nil /\ cpu = main
                         /\ next_task = [t \in Tasks |-> Nil]
    /\ phase # "boot" => current = cpu /\ cpu \in created /\ first \in created
    /\ \A t \in created : next_task[t] \in created \cup {Nil}

ForkLocals ==
    /\ \A t \in created : parent[t] # t
    /\ phase = "multi" /\ Top(cpu) = "forking" =>
           child[cpu] \in created /\ child[cpu] # cpu /\ Top(child[cpu]) = "child"

BootState ==
    phase = "boot" => /\ IF_
                      /\ frames = [t \in Tasks |-> <<"thread">>]
                      /\ parent = [t \in Tasks |-> Nil]

SInv ==
    /\ TypeOK
    /\ StackShape
    /\ FlagDiscipline
    /\ ListClosed
    /\ ForkLocals
    /\ BootState
    /\ NoWildJump
    /\ SuspendedResumable

-----------------------------------------------------------------------------
(* Facts about stacks.                                                      *)

Topmost(s) == s[Len(s)]

\* Popping a frame: the rest is a stack again, and its top is code that runs with
\* interrupts on.
LEMMA PopShape ==
    ASSUME NEW s, Shape(s), Len(s) >= 2
    PROVE  /\ Shape(Front(s))
           /\ Topmost(Front(s)) \in Interruptible
<1> DEFINE f == Front(s)
<1>1. s \in Seq(FrameKinds) /\ Len(s) \in Nat
    BY DEF Shape
<1>2. \A k \in 1 .. Len(s) - 1 : s[k] \in FrameKinds
    BY <1>1
<1>3. /\ f \in Seq(FrameKinds)
      /\ Len(f) = Len(s) - 1
      /\ \A k \in 1 .. Len(s) - 1 : f[k] = s[1 + k - 1]
    BY <1>1, <1>2, SubSeqProperties DEF Front
<1>4. \A k \in 1 .. Len(s) - 1 : f[k] = s[k]
    BY <1>1, <1>3
<1> HIDE DEF f
<1>5. Shape(f) /\ Topmost(f) \in Interruptible
    BY <1>1, <1>3, <1>4 DEF Shape, Topmost
<1>6. QED
    BY <1>5 DEF f

\* Pushing the frame of an interrupt or a call onto code that runs with
\* interrupts on.
LEMMA PushShape ==
    ASSUME NEW s, Shape(s), Topmost(s) \in Interruptible, NEW e \in PushedFrames
    PROVE  /\ Shape(Append(s, e))
           /\ Topmost(Append(s, e)) = e
           /\ Len(Append(s, e)) >= 2
BY DEF Shape, Topmost, FrameKinds, PushedFrames

\* The base frame of a stack with nothing on it changes.
LEMMA ReplaceBase ==
    ASSUME NEW s, Shape(s), Len(s) = 1, NEW e \in BaseFrames
    PROVE  Shape(Replace(s, e)) /\ Topmost(Replace(s, e)) = e
<1>1. Replace(s, e) = <<e>>
    <2>1. Front(s) = << >>
        BY SubSeqEmpty DEF Front
    <2>2. QED
        BY <2>1 DEF Replace
<1>2. QED
    BY <1>1 DEF Shape, Topmost, FrameKinds, BaseFrames

\* The top frame of a stack changes.
LEMMA ReplacePushed ==
    ASSUME NEW s, Shape(s), Len(s) >= 2, NEW e \in PushedFrames
    PROVE  Shape(Replace(s, e)) /\ Topmost(Replace(s, e)) = e
BY PopShape, PushShape DEF Replace

\* A frame that is pushed has something below it, and a base frame has not.
LEMMA TopTellsDepth ==
    ASSUME NEW s, Shape(s)
    PROVE  /\ Topmost(s) \in {"handler", "resume", "forking"} => Len(s) >= 2
           /\ Topmost(s) \in {"thread", "cli", "child"} => Len(s) = 1
           /\ Topmost(s) \in FrameKinds
<1>1. CASE Len(s) = 1
    BY <1>1 DEF Shape, Topmost, BaseFrames, FrameKinds
<1>2. CASE Len(s) >= 2
    BY <1>2 DEF Shape, Topmost, PushedFrames, FrameKinds
<1>3. Len(s) = 1 \/ Len(s) >= 2
    <2>1. Len(s) \in Nat /\ Len(s) >= 1
        BY DEF Shape
    <2>2. QED
        BY <2>1
<1>4. QED
    BY <1>1, <1>2, <1>3

-----------------------------------------------------------------------------
(* The invariant.                                                          *)

LEMMA InitSInv == Init => SInv
<1> SUFFICES ASSUME Init PROVE SInv
    OBVIOUS
<1>1. Shape(<<"thread">>) /\ Topmost(<<"thread">>) = "thread"
    BY DEF Shape, Topmost, FrameKinds, BaseFrames, PushedFrames
<1>2. TypeOK
    <2>1. <<"thread">> \in Seq(FrameKinds)
        BY <1>1 DEF Shape
    <2>2. frames \in [Tasks -> Seq(FrameKinds)]
        BY <2>1 DEF Init
    <2>3. ticks \in [Tasks -> 0 .. TICKS_PER_SLICE]
        BY SliceAssumption DEF Init
    <2>4. QED
        BY <2>2, <2>3, TasksAssumption DEF Init, TypeOK
<1>3. QED
    BY <1>1, <1>2, TasksAssumption
       DEF Init, SInv, StackShape, FlagDiscipline, ListClosed, ForkLocals,
           BootState, NoWildJump, SuspendedResumable

\* The steps of a running task that touch its own stack only.
LEMMA LocalStep ==
    ASSUME SInv,
           phase = "multi", phase' = "multi",
           Top(cpu) # "forking",
           UNCHANGED <<cpu, current, listVars, created, context, parent, child>>,
           irq0' \in BOOLEAN,
           ticks' \in [Tasks -> 0 .. TICKS_PER_SLICE],
           NEW stack,
           frames' = [frames EXCEPT ![cpu] = stack],
           Shape(stack),
           Topmost(stack) # "forking",
           IF_' \in BOOLEAN,
           IF_' <=> Topmost(stack) \in Interruptible
    PROVE  SInv'
<1>1. cpu \in Tasks /\ frames \in [Tasks -> Seq(FrameKinds)] /\ created \subseteq Tasks
    BY DEF SInv, TypeOK
<1>2. Top(cpu)' = Topmost(stack)
    BY <1>1 DEF Top, Topmost
<1>3. \A t \in Tasks \ {cpu} : frames'[t] = frames[t] /\ Top(t)' = Top(t)
    BY <1>1 DEF Top
<1>4. TypeOK'
    BY <1>1 DEF SInv, TypeOK, Shape, listVars
<1>5. StackShape'
    BY <1>1, <1>3 DEF SInv, StackShape
<1>6. FlagDiscipline'
    BY <1>2 DEF FlagDiscipline
<1>7. ListClosed' /\ BootState' /\ NoWildJump'
    BY DEF SInv, ListClosed, BootState, NoWildJump, listVars
<1>8. ForkLocals'
    BY <1>2 DEF SInv, ForkLocals
<1>9. SuspendedResumable'
    BY <1>1, <1>3 DEF SInv, SuspendedResumable
<1>10. QED
    BY <1>4, <1>5, <1>6, <1>7, <1>8, <1>9 DEF SInv

\* The facts about the running task's stack that every action starts from.
LEMMA RunningStack ==
    ASSUME SInv, phase = "multi"
    PROVE  /\ cpu \in Tasks /\ cpu \in created /\ current = cpu
           /\ Shape(frames[cpu])
           /\ Top(cpu) = Topmost(frames[cpu])
           /\ IF_ <=> Top(cpu) \in Interruptible
BY DEF SInv, TypeOK, ListClosed, StackShape, FlagDiscipline, Top, Topmost

\* Nothing but the PIC's latch changes.
LEMMA LatchSInv ==
    ASSUME SInv, irq0' \in BOOLEAN,
           UNCHANGED <<phase, IF_, cpu, current, listVars, created, ticks, context,
                       frames, parent, child>>
    PROVE  SInv'
BY DEF SInv, TypeOK, StackShape, FlagDiscipline, ListClosed, ForkLocals, BootState,
       NoWildJump, SuspendedResumable, Top, listVars

LEMMA TaskInitSInv == SInv /\ task_init => SInv'
<1> SUFFICES ASSUME SInv, task_init PROVE SInv'
    OBVIOUS
<1>1. /\ cpu = main /\ IF_ = TRUE
      /\ frames = [t \in Tasks |-> <<"thread">>]
      /\ parent = [t \in Tasks |-> Nil]
      /\ next_task = [t \in Tasks |-> Nil]
      /\ first = Nil
    BY DEF SInv, task_init, BootState, ListClosed, TypeOK
<1>2. Topmost(<<"thread">>) = "thread"
    BY DEF Topmost
<1>3. Top(cpu)' = "thread"
    BY <1>1, <1>2, TasksAssumption DEF Top, Topmost, task_init
<1>4. TypeOK'
    BY TasksAssumption, SliceAssumption DEF SInv, TypeOK, task_init
<1>5. StackShape'
    BY DEF SInv, StackShape, task_init
<1>6. FlagDiscipline'
    BY <1>1, <1>3 DEF FlagDiscipline, task_init, Interruptible
<1>7. ListClosed' /\ BootState' /\ NoWildJump'
    BY <1>1, TasksAssumption DEF task_init, ListClosed, BootState, NoWildJump
<1>8. ForkLocals'
    BY <1>1, <1>3, TasksAssumption DEF task_init, ForkLocals
<1>9. SuspendedResumable'
    BY <1>1 DEF task_init, SuspendedResumable
<1>10. QED
    BY <1>4, <1>5, <1>6, <1>7, <1>8, <1>9 DEF SInv

LEMMA ForkBeginSInv ==
    ASSUME SInv, NEW c \in Tasks, ForkBegin(c)
    PROVE  SInv'
<1>1. /\ phase = "multi" /\ phase' = "multi"
      /\ Top(cpu) = "thread" /\ c \notin created
      /\ cpu' = cpu /\ IF_' = FALSE
    BY DEF ForkBegin
<1>2. /\ cpu \in created /\ cpu # c /\ current = cpu
      /\ Shape(frames[cpu]) /\ Topmost(frames[cpu]) = "thread"
      /\ cpu \in Tasks /\ created \subseteq Tasks
      /\ frames \in [Tasks -> Seq(FrameKinds)]
    BY <1>1, RunningStack DEF SInv, TypeOK
<1>3. Shape(<<"child">>) /\ Topmost(<<"child">>) = "child"
    BY DEF Shape, Topmost, FrameKinds, BaseFrames, PushedFrames
<1>4. /\ Shape(Append(frames[cpu], "forking"))
      /\ Topmost(Append(frames[cpu], "forking")) = "forking"
    BY <1>2, PushShape DEF Interruptible, PushedFrames
<1>5. /\ frames'[cpu] = Append(frames[cpu], "forking")
      /\ frames'[c] = <<"child">>
      /\ \A t \in Tasks \ {cpu, c} : frames'[t] = frames[t]
    BY <1>2 DEF ForkBegin
<1>6. /\ Top(cpu)' = "forking"
      /\ Top(c)' = "child"
      /\ \A t \in Tasks \ {cpu, c} : Top(t)' = Top(t)
    BY <1>1, <1>3, <1>4, <1>5 DEF Top, Topmost
<1>7. TypeOK'
    <2>1. frames' \in [Tasks -> Seq(FrameKinds)]
        BY <1>2, <1>3, <1>4 DEF ForkBegin, Shape
    <2>2. ticks' \in [Tasks -> 0 .. TICKS_PER_SLICE]
        BY SliceAssumption DEF SInv, TypeOK, ForkBegin
    <2>3. QED
        BY <1>1, <1>2, <2>1, <2>2 DEF SInv, TypeOK, ForkBegin, InsertAfter
<1>8. StackShape'
    BY <1>2, <1>3, <1>4, <1>5 DEF SInv, StackShape
<1>9. FlagDiscipline'
    BY <1>1, <1>6 DEF FlagDiscipline, Interruptible
<1>10. ListClosed' /\ BootState' /\ NoWildJump'
    <2>1. ListClosed'
        BY <1>1, <1>2 DEF SInv, TypeOK, ForkBegin, InsertAfter, ListClosed
    <2>2. BootState' /\ NoWildJump'
        BY <1>1, <1>2 DEF SInv, ForkBegin, BootState, NoWildJump
    <2>3. QED
        BY <2>1, <2>2
<1>11. ForkLocals'
    BY <1>1, <1>2, <1>6 DEF SInv, TypeOK, ForkBegin, ForkLocals
<1>12. SuspendedResumable'
    BY <1>1, <1>2, <1>6 DEF SInv, TypeOK, ForkBegin, SuspendedResumable
<1>13. QED
    BY <1>7, <1>8, <1>9, <1>10, <1>11, <1>12 DEF SInv

LEMMA ForkConfigureSInv == SInv /\ ForkConfigure => SInv'
<1> SUFFICES ASSUME SInv, ForkConfigure PROVE SInv'
    OBVIOUS
<1>1. /\ phase = "multi" /\ phase' = "multi" /\ Top(cpu) = "forking"
      /\ cpu' = cpu /\ created' = created /\ IF_' = TRUE
    BY DEF ForkConfigure
<1>2. /\ cpu \in Tasks /\ cpu \in created /\ created \subseteq Tasks
      /\ Shape(frames[cpu]) /\ Topmost(frames[cpu]) = "forking"
      /\ frames \in [Tasks -> Seq(FrameKinds)]
      /\ context \in [Tasks -> {"none", "fork", "switch"}]
    BY <1>1, RunningStack DEF SInv, TypeOK
<1>3. child[cpu] \in created /\ child[cpu] # cpu /\ Top(child[cpu]) = "child"
    BY <1>1 DEF SInv, ForkLocals
<1>4. Shape(Front(frames[cpu])) /\ Topmost(Front(frames[cpu])) \in Interruptible
    BY <1>2, TopTellsDepth, PopShape
<1>5. /\ Top(cpu)' \in Interruptible
      /\ \A t \in Tasks \ {cpu} : Top(t)' = Top(t)
    BY <1>1, <1>2, <1>4 DEF ForkConfigure, Top, Topmost
<1>6. TypeOK'
    <2>1. frames' \in [Tasks -> Seq(FrameKinds)]
        BY <1>2, <1>4 DEF ForkConfigure, Shape
    <2>2. QED
        BY <2>1 DEF SInv, TypeOK, ForkConfigure, listVars
<1>7. StackShape'
    BY <1>2, <1>4 DEF SInv, StackShape, ForkConfigure
<1>8. FlagDiscipline'
    BY <1>1, <1>5 DEF FlagDiscipline
<1>9. ListClosed' /\ BootState' /\ NoWildJump'
    BY <1>1 DEF SInv, ForkConfigure, ListClosed, BootState, NoWildJump, listVars
<1>10. ForkLocals'
    BY <1>1, <1>5 DEF SInv, ForkConfigure, ForkLocals, Interruptible
<1>11. SuspendedResumable'
    BY <1>1, <1>2, <1>3, <1>5 DEF SInv, ForkConfigure, SuspendedResumable
<1>12. QED
    BY <1>6, <1>7, <1>8, <1>9, <1>10, <1>11 DEF SInv

LEMMA SwitchTaskSInv == SInv /\ SwitchTask => SInv'
<1> SUFFICES ASSUME SInv, SwitchTask PROVE SInv'
    OBVIOUS
<1> DEFINE to == Successor(current)
<1>1. phase = "multi" /\ Top(cpu) = "handler"
    BY DEF SwitchTask, perform_task_switch
<1>2. /\ cpu \in Tasks /\ cpu \in created /\ current = cpu /\ created \subseteq Tasks
      /\ Shape(frames[cpu]) /\ Topmost(frames[cpu]) = "handler"
      /\ frames \in [Tasks -> Seq(FrameKinds)]
      /\ context \in [Tasks -> {"none", "fork", "switch"}]
    BY <1>1, RunningStack DEF SInv, TypeOK
<1>3. to \in created
    BY <1>1, <1>2 DEF SInv, ListClosed, Successor
<1> HIDE DEF to
<1>4. /\ current' = to /\ cpu' = to /\ IF_' = TRUE /\ created' = created
      /\ context' = [context EXCEPT ![cpu] = "switch"]
      /\ frames' = [frames EXCEPT ![cpu] = Replace(frames[cpu], "resume")]
      /\ phase' = IF context'[to] = "none" THEN "wild" ELSE phase
      /\ ticks' = [ticks EXCEPT ![to] = TICKS_PER_SLICE]
      /\ UNCHANGED <<irq0, first, next_task, parent, child>>
    BY <1>2 DEF SwitchTask, perform_task_switch, to, listVars
<1>5. \A t \in created \ {cpu} :
         \/ context[t] = "switch" /\ Top(t) = "resume"
         \/ context[t] = "fork" /\ Top(t) = "child"
    BY <1>1 DEF SInv, SuspendedResumable
<1>6. /\ Shape(Replace(frames[cpu], "resume"))
      /\ Topmost(Replace(frames[cpu], "resume")) = "resume"
    BY <1>2, TopTellsDepth, ReplacePushed DEF PushedFrames
<1>7. /\ frames'[cpu] = Replace(frames[cpu], "resume")
      /\ \A t \in Tasks \ {cpu} : frames'[t] = frames[t]
    BY <1>2, <1>4
<1>8. \A t \in created :
         \/ context'[t] = "switch" /\ frames'[t][Len(frames'[t])] = "resume"
         \/ context'[t] = "fork" /\ frames'[t][Len(frames'[t])] = "child"
    BY <1>2, <1>4, <1>5, <1>6, <1>7 DEF Top, Topmost
<1>9. phase' = "multi"
    BY <1>1, <1>3, <1>4, <1>8
<1>10. TypeOK'
    <2>1. frames' \in [Tasks -> Seq(FrameKinds)]
        BY <1>2, <1>4, <1>6 DEF Shape
    <2>2. ticks' \in [Tasks -> 0 .. TICKS_PER_SLICE]
        BY <1>2, <1>3, <1>4, SliceAssumption DEF SInv, TypeOK
    <2>3. QED
        BY <1>2, <1>3, <1>4, <1>9, <2>1, <2>2 DEF SInv, TypeOK
<1>11. StackShape'
    BY <1>6, <1>7 DEF SInv, StackShape
<1>12. FlagDiscipline'
    BY <1>3, <1>4, <1>8 DEF FlagDiscipline, Top, Interruptible
<1>13. ListClosed' /\ BootState' /\ NoWildJump'
    BY <1>1, <1>3, <1>4, <1>9 DEF SInv, ListClosed, BootState, NoWildJump
<1>14. ForkLocals'
    BY <1>3, <1>4, <1>8 DEF SInv, ForkLocals, Top
<1>15. SuspendedResumable'
    BY <1>4, <1>8 DEF SuspendedResumable, Top
<1>16. QED
    BY <1>10, <1>11, <1>12, <1>13, <1>14, <1>15 DEF SInv

-----------------------------------------------------------------------------
LEMMA NextSInv == SInv /\ [Next]_vars => SInv'
<1> SUFFICES ASSUME SInv, [Next]_vars PROVE SInv'
    OBVIOUS
<1>1. CASE PitTick
    BY <1>1, LatchSInv DEF PitTick
<1>2. CASE timer_default_irq
    BY <1>2, LatchSInv DEF timer_default_irq
<1>3. CASE task_init
    BY <1>3, TaskInitSInv
<1>4. ASSUME NEW c \in Tasks, ForkBegin(c) PROVE SInv'
    BY <1>4, ForkBeginSInv
<1>5. CASE ForkConfigure
    BY <1>5, ForkConfigureSInv
<1>6. CASE ChildStart
    <2>1. /\ phase = "multi" /\ Top(cpu) = "child"
          /\ UNCHANGED <<irq0, cpu, current, listVars, created, ticks, context,
                         parent, child>>
        BY <1>6 DEF ChildStart
    <2>2. Shape(frames[cpu]) /\ Len(frames[cpu]) = 1
        BY <2>1, RunningStack, TopTellsDepth
    <2>3. current # parent[cpu]
        BY <2>1, RunningStack DEF SInv, ForkLocals
    <2>4. /\ frames' = [frames EXCEPT ![cpu] = Replace(frames[cpu], "thread")]
          /\ IF_' = TRUE /\ phase' = "multi"
        BY <1>6, <2>1, <2>3 DEF ChildStart
    <2>5. /\ Shape(Replace(frames[cpu], "thread"))
          /\ Topmost(Replace(frames[cpu], "thread")) = "thread"
        BY <2>2, ReplaceBase DEF BaseFrames
    <2>6. irq0' \in BOOLEAN /\ ticks' \in [Tasks -> 0 .. TICKS_PER_SLICE]
        BY <2>1 DEF SInv, TypeOK
    <2>7. QED
        BY <2>1, <2>4, <2>5, <2>6, LocalStep DEF Interruptible
<1>7. CASE ThreadReturn
    <2>1. /\ phase = "multi" /\ phase' = "halted"
          /\ UNCHANGED <<irq0, cpu, current, first, next_task, created, ticks, context,
                         frames, parent, child>>
          /\ IF_' = FALSE
        BY <1>7 DEF ThreadReturn, listVars
    <2>2. QED
        BY <2>1 DEF SInv, TypeOK, StackShape, FlagDiscipline, ListClosed, ForkLocals,
                    BootState, NoWildJump, SuspendedResumable
<1>8. CASE ThreadCli
    <2>1. /\ phase = "multi" /\ phase' = "multi" /\ Top(cpu) = "thread"
          /\ UNCHANGED <<irq0, cpu, current, listVars, created, ticks, context,
                         parent, child>>
          /\ frames' = [frames EXCEPT ![cpu] = Replace(frames[cpu], "cli")]
          /\ IF_' = FALSE
        BY <1>8 DEF ThreadCli
    <2>2. Shape(frames[cpu]) /\ Len(frames[cpu]) = 1
        BY <2>1, RunningStack, TopTellsDepth
    <2>3. /\ Shape(Replace(frames[cpu], "cli"))
          /\ Topmost(Replace(frames[cpu], "cli")) = "cli"
        BY <2>2, ReplaceBase DEF BaseFrames
    <2>4. irq0' \in BOOLEAN /\ ticks' \in [Tasks -> 0 .. TICKS_PER_SLICE]
        BY <2>1 DEF SInv, TypeOK
    <2>5. QED
        BY <2>1, <2>3, <2>4, LocalStep DEF Interruptible
<1>9. CASE ThreadSti
    <2>1. /\ phase = "multi" /\ phase' = "multi" /\ Top(cpu) = "cli"
          /\ UNCHANGED <<irq0, cpu, current, listVars, created, ticks, context,
                         parent, child>>
          /\ frames' = [frames EXCEPT ![cpu] = Replace(frames[cpu], "thread")]
          /\ IF_' = TRUE
        BY <1>9 DEF ThreadSti
    <2>2. Shape(frames[cpu]) /\ Len(frames[cpu]) = 1
        BY <2>1, RunningStack, TopTellsDepth
    <2>3. /\ Shape(Replace(frames[cpu], "thread"))
          /\ Topmost(Replace(frames[cpu], "thread")) = "thread"
        BY <2>2, ReplaceBase DEF BaseFrames
    <2>4. irq0' \in BOOLEAN /\ ticks' \in [Tasks -> 0 .. TICKS_PER_SLICE]
        BY <2>1 DEF SInv, TypeOK
    <2>5. QED
        BY <2>1, <2>3, <2>4, LocalStep DEF Interruptible
<1>10. CASE Irq0
    <2>1. /\ phase = "multi" /\ phase' = "multi" /\ IF_
          /\ UNCHANGED <<cpu, current, listVars, created, ticks, context,
                         parent, child>>
          /\ frames' = [frames EXCEPT ![cpu] = Append(frames[cpu], "handler")]
          /\ irq0' = FALSE /\ IF_' = FALSE
        BY <1>10 DEF Irq0, irq_setup
    <2>2. /\ Shape(frames[cpu]) /\ Topmost(frames[cpu]) \in Interruptible
          /\ Top(cpu) # "forking"
        BY <2>1, RunningStack DEF Interruptible
    <2>3. /\ Shape(Append(frames[cpu], "handler"))
          /\ Topmost(Append(frames[cpu], "handler")) = "handler"
        BY <2>2, PushShape DEF PushedFrames
    <2>4. ticks' \in [Tasks -> 0 .. TICKS_PER_SLICE]
        BY <2>1 DEF SInv, TypeOK
    <2>5. QED
        BY <2>1, <2>2, <2>3, <2>4, LocalStep DEF Interruptible
<1>11. CASE yield
    <2>1. /\ phase = "multi" /\ phase' = "multi" /\ Top(cpu) = "thread"
          /\ UNCHANGED <<irq0, cpu, current, listVars, created, context,
                         parent, child>>
          /\ frames' = [frames EXCEPT ![cpu] = Append(frames[cpu], "handler")]
          /\ ticks' = [ticks EXCEPT ![current] = 0]
          /\ IF_' = FALSE
        BY <1>11 DEF yield, irq_setup
    <2>2. Shape(frames[cpu]) /\ Topmost(frames[cpu]) \in Interruptible
        BY <2>1, RunningStack DEF Interruptible
    <2>3. /\ Shape(Append(frames[cpu], "handler"))
          /\ Topmost(Append(frames[cpu], "handler")) = "handler"
        BY <2>2, PushShape DEF PushedFrames
    <2>4. irq0' \in BOOLEAN
        BY <2>1 DEF SInv, TypeOK
    <2>5. ticks' \in [Tasks -> 0 .. TICKS_PER_SLICE]
        <3>1. 0 \in 0 .. TICKS_PER_SLICE
            BY SliceAssumption
        <3>2. ticks \in [Tasks -> 0 .. TICKS_PER_SLICE]
            BY DEF SInv, TypeOK
        <3>3. QED
            BY <2>1, <3>1, <3>2
    <2>6. QED
        BY <2>1, <2>3, <2>4, <2>5, LocalStep DEF Interruptible
<1>12. CASE TickConsumed
    <2>1. /\ phase = "multi" /\ phase' = "multi" /\ Top(cpu) = "handler"
          /\ UNCHANGED <<irq0, cpu, current, listVars, created, context,
                         parent, child>>
          /\ frames' = [frames EXCEPT ![cpu] = Front(frames[cpu])]
          /\ ticks[current] > 0
          /\ ticks' = [ticks EXCEPT ![current] = ticks[current] - 1]
          /\ IF_' = TRUE
        BY <1>12 DEF TickConsumed, iret
    <2>2. Shape(frames[cpu]) /\ Len(frames[cpu]) >= 2
        BY <2>1, RunningStack, TopTellsDepth
    <2>3. /\ Shape(Front(frames[cpu]))
          /\ Topmost(Front(frames[cpu])) \in Interruptible
        BY <2>2, PopShape
    <2>4. irq0' \in BOOLEAN /\ ticks' \in [Tasks -> 0 .. TICKS_PER_SLICE]
        BY <2>1, RunningStack, SliceAssumption DEF SInv, TypeOK
    <2>5. QED
        BY <2>1, <2>3, <2>4, LocalStep DEF Interruptible
<1>13. CASE SwitchTask
    BY <1>13, SwitchTaskSInv
<1>14. CASE SwitchReturn
    <2>1. /\ phase = "multi" /\ phase' = "multi" /\ Top(cpu) = "resume"
          /\ UNCHANGED <<irq0, cpu, current, listVars, created, ticks, context,
                         parent, child>>
          /\ frames' = [frames EXCEPT ![cpu] = Front(frames[cpu])]
          /\ IF_' = TRUE
        BY <1>14 DEF SwitchReturn, iret
    <2>2. Shape(frames[cpu]) /\ Len(frames[cpu]) >= 2
        BY <2>1, RunningStack, TopTellsDepth
    <2>3. /\ Shape(Front(frames[cpu]))
          /\ Topmost(Front(frames[cpu])) \in Interruptible
        BY <2>2, PopShape
    <2>4. irq0' \in BOOLEAN /\ ticks' \in [Tasks -> 0 .. TICKS_PER_SLICE]
        BY <2>1 DEF SInv, TypeOK
    <2>5. QED
        BY <2>1, <2>3, <2>4, LocalStep DEF Interruptible
<1>15. CASE UNCHANGED vars
    BY <1>15, LatchSInv DEF vars, SInv, TypeOK
<1>16. QED
    BY <1>1, <1>2, <1>3, <1>4, <1>5, <1>6, <1>7, <1>8, <1>9, <1>10, <1>11, <1>12,
       <1>13, <1>14, <1>15 DEF Next, Stopped

\* SInv, the invariant behind the theorems below, holds in every state.
THEOREM SchedInvariance == Spec => []SInv
BY InitSInv, NextSInv, PTL DEF Spec

\* Ticks never underflow, stacks hold frames and the list holds tasks, for any
\* number of tasks and any slice (task_switch, thread_create).
THEOREM SchedTypeCorrect == Spec => []TypeOK
<1>1. SInv => TypeOK
    BY DEF SInv
<1>2. QED
    BY SchedInvariance, <1>1, PTL

\* task_switch never jumps into a task whose context thread_create has not set
\* yet, and a child never goes on as its parent.
THEOREM NeverJumpsWild == Spec => []NoWildJump
<1>1. SInv => NoWildJump
    BY DEF SInv
<1>2. QED
    BY SchedInvariance, <1>1, PTL

\* Whatever task is not running is described by its task_t, save a child in the
\* making, and then interrupts are off.
THEOREM SuspendedTasksResumable == Spec => []SuspendedResumable
<1>1. SInv => SuspendedResumable
    BY DEF SInv
<1>2. QED
    BY SchedInvariance, <1>1, PTL

-----------------------------------------------------------------------------
(* The list of tasks.                                                      *)

LEMMA NaturalsHaveLeast ==
    ASSUME NEW S, S \subseteq Nat, S # {}
    PROVE  \E x \in S : \A y \in S : x <= y
<1>1. PICK x \in S : \A y \in S : ~(<<y, x>> \in OpToRel(<, Nat))
    BY NatLessThanWellFounded, WFMin
<1>2. \A y \in S : ~(y < x)
    BY <1>1 DEF OpToRel
<1>3. QED
    BY <1>2

LEMMA SameFunction ==
    ASSUME NEW D, NEW S, NEW f \in [D -> S], NEW g \in [D -> S],
           \A x \in D : f[x] = g[x]
    PROVE  f = g
OBVIOUS

\* Listings, for given values of LIST_FIRST and LIST_NEXT.
ListingOf(s, C, head, nexts) ==
    LET n == Cardinality(C)
    IN  /\ s \in [1 .. n -> C]
        /\ head = IF n = 0 THEN Nil ELSE s[1]
        /\ \A k \in 1 .. n : nexts[s[k]] = IF k = n THEN Nil ELSE s[k + 1]

LEMMA ListingsAreListings ==
    /\ \A s \in Listings : ListingOf(s, created, first, next_task)
    /\ \A s \in Listings' : ListingOf(s, created', first', next_task')
BY DEF Listings, Listing, ListingOf

\* LIST_FIRST and LIST_NEXT determine the order: the first place at which two
\* listings differ would have the same predecessor in both.
LEMMA ListingUnique ==
    ASSUME NEW C, IsFiniteSet(C), NEW head, NEW nexts, NEW s, NEW r,
           ListingOf(s, C, head, nexts), ListingOf(r, C, head, nexts)
    PROVE  s = r
<1> DEFINE n == Cardinality(C)
           Differ == {k \in 1 .. n : s[k] # r[k]}
<1>1. n \in Nat
    BY FS_CardinalityType
<1>2. /\ head = IF n = 0 THEN Nil ELSE s[1]
      /\ head = IF n = 0 THEN Nil ELSE r[1]
      /\ \A k \in 1 .. n : /\ nexts[s[k]] = IF k = n THEN Nil ELSE s[k + 1]
                           /\ nexts[r[k]] = IF k = n THEN Nil ELSE r[k + 1]
    BY DEF ListingOf
<1>3. ASSUME Differ # {} PROVE FALSE
    <2>0. Differ \subseteq Nat
        BY <1>1
    <2>1. PICK k \in Differ : \A j \in Differ : k <= j
        <3> HIDE DEF Differ
        <3>1. QED
            BY <1>3, <2>0, NaturalsHaveLeast
    <2>2. CASE k = 1
        BY <1>1, <1>2, <2>1, <2>2
    <2>3. CASE k # 1
        <3>1. k - 1 \in 1 .. n /\ k - 1 \notin Differ /\ k - 1 # n /\ (k - 1) + 1 = k
            BY <1>1, <2>1, <2>3
        <3>2. s[k - 1] = r[k - 1]
            BY <3>1
        <3>3. nexts[s[k - 1]] = s[k] /\ nexts[r[k - 1]] = r[k]
            BY <1>2, <3>1
        <3>4. QED
            BY <2>1, <3>2, <3>3
    <2>4. QED
        BY <2>2, <2>3
<1> DEFINE D == 1 .. n
<1>4. \A k \in D : s[k] = r[k]
    BY <1>3
<1>5. s \in [D -> C] /\ r \in [D -> C]
    BY DEF ListingOf
<1> HIDE DEF D
<1>6. QED
    BY <1>4, <1>5, SameFunction

\* The list after LIST_INSERT_AFTER: c comes right behind the p-th task.
Inserted(s, p, c) ==
    [k \in 1 .. Cardinality(created) + 1 |->
        IF k <= p THEN s[k] ELSE IF k = p + 1 THEN c ELSE s[k - 1]]

LEMMA InsertedListing ==
    ASSUME IsFiniteSet(created), created \subseteq Tasks,
           next_task \in [Tasks -> Tasks \cup {Nil}],
           NEW s \in Listings, NEW p \in 1 .. Cardinality(created),
           NEW c \in Tasks, c \notin created,
           created' = created \cup {c}, InsertAfter(s[p], c)
    PROVE  Inserted(s, p, c) \in Listings'
<1> DEFINE n == Cardinality(created)
           r == Inserted(s, p, c)
<1>1. n \in Nat /\ Cardinality(created') = n + 1
    BY FS_CardinalityType, FS_AddElement
<1>2. s \in [1 .. n -> created] /\ Listing(s)
    BY DEF Listings
<1>3. /\ \A k \in 1 .. p : r[k] = s[k]
      /\ r[p + 1] = c
      /\ \A k \in p + 2 .. n + 1 : r[k] = s[k - 1]
      /\ r \in [1 .. n + 1 -> created']
    BY <1>1, <1>2 DEF Inserted
<1>4. /\ next_task'[s[p]] = c
      /\ next_task'[c] = next_task[s[p]]
      /\ \A t \in created \ {s[p]} : next_task'[t] = next_task[t]
      /\ first' = first
    BY <1>2 DEF InsertAfter
<1> HIDE DEF r, n
<1>5. \A t \in created' : \E k \in 1 .. n + 1 : r[k] = t
    <2>1. ASSUME NEW t \in created PROVE \E k \in 1 .. n + 1 : r[k] = t
        <3>1. PICK k \in 1 .. n : s[k] = t
            BY <1>2 DEF Listing, n
        <3>2. CASE k <= p
            BY <1>1, <1>3, <3>1, <3>2
        <3>3. CASE k > p
            <4>1. k + 1 \in p + 2 .. n + 1 /\ (k + 1) - 1 = k
                BY <1>1, <3>1, <3>3 DEF n
            <4>2. r[k + 1] = t
                BY <1>3, <3>1, <4>1
            <4>3. QED
                BY <1>1, <4>1, <4>2 DEF n
        <3>4. QED
            BY <1>1, <3>2, <3>3 DEF n
    <2>2. \E k \in 1 .. n + 1 : r[k] = c
        BY <1>1, <1>3 DEF n
    <2>3. QED
        BY <2>1, <2>2
<1>6. ASSUME NEW j \in 1 .. n + 1, NEW k \in 1 .. n + 1, r[j] = r[k]
      PROVE  j = k
    <2> DEFINE At(m) == IF m <= p THEN m ELSE m - 1
    <2>1. \A m \in 1 .. n + 1 : m # p + 1 => /\ At(m) \in 1 .. n
                                             /\ r[m] = s[At(m)]
                                             /\ r[m] \in created
        <3> SUFFICES ASSUME NEW m \in 1 .. n + 1, m # p + 1
                     PROVE  /\ At(m) \in 1 .. n
                            /\ r[m] = s[At(m)]
                            /\ r[m] \in created
            OBVIOUS
        <3>1. CASE m <= p
            BY <1>1, <1>2, <1>3, <3>1 DEF n
        <3>2. CASE m > p
            <4>1. m \in p + 2 .. n + 1 /\ m - 1 \in 1 .. n /\ At(m) = m - 1
                BY <1>1, <3>2 DEF n
            <4>2. QED
                BY <1>2, <1>3, <4>1 DEF n
        <3>3. QED
            BY <1>1, <3>1, <3>2 DEF n
    <2>2. j = p + 1 <=> k = p + 1
        BY <1>3, <1>6, <2>1
    <2>3. CASE j # p + 1
        <3>1. At(j) = At(k)
            BY <1>2, <1>6, <2>1, <2>2, <2>3 DEF Listing, n
        <3>2. QED
            BY <1>1, <2>2, <2>3, <3>1 DEF n
    <2>4. QED
        BY <2>2, <2>3
<1>7. first' = IF n + 1 = 0 THEN Nil ELSE r[1]
    BY <1>1, <1>2, <1>3, <1>4 DEF Listing, n
<1>8. ASSUME NEW k \in 1 .. n + 1
      PROVE  next_task'[r[k]] = IF k = n + 1 THEN Nil ELSE r[k + 1]
    <2>1. \A m \in 1 .. n : /\ s[m] \in created /\ s[m] # c
                            /\ next_task[s[m]] = IF m = n THEN Nil ELSE s[m + 1]
        BY <1>2 DEF Listing, n
    <2>2. \A m \in 1 .. n : s[m] = s[p] => m = p
        BY <1>2 DEF Listing, n
    <2>3. CASE k < p
        <3>1. r[k] = s[k] /\ r[k + 1] = s[k + 1] /\ k \in 1 .. n /\ k # n /\ k # n + 1
            BY <1>1, <1>3, <2>3 DEF n
        <3>2. next_task'[s[k]] = next_task[s[k]]
            BY <1>4, <2>1, <2>2, <2>3, <3>1
        <3>3. QED
            BY <2>1, <3>1, <3>2
    <2>4. CASE k = p
        BY <1>1, <1>3, <1>4, <2>4 DEF n
    <2>5. CASE k = p + 1
        <3>1. next_task'[r[k]] = IF p = n THEN Nil ELSE s[p + 1]
            BY <1>3, <1>4, <2>1, <2>5 DEF n
        <3>2. p # n => r[k + 1] = s[p + 1]
            <4>1. p # n => k + 1 \in p + 2 .. n + 1 /\ (k + 1) - 1 = p + 1
                BY <1>1, <2>5 DEF n
            <4>2. QED
                BY <1>3, <4>1
        <3>3. QED
            BY <1>1, <2>5, <3>1, <3>2 DEF n
    <2>6. CASE k > p + 1
        <3>1. r[k] = s[k - 1] /\ k - 1 \in 1 .. n /\ k - 1 # p
            BY <1>1, <1>3, <2>6 DEF n
        <3>2. next_task'[r[k]] = IF k - 1 = n THEN Nil ELSE s[(k - 1) + 1]
            BY <1>4, <2>1, <2>2, <3>1
        <3>3. k # n + 1 => k + 1 \in p + 2 .. n + 1 /\ (k + 1) - 1 = k
            BY <1>1, <2>6 DEF n
        <3>4. k # n + 1 => r[k + 1] = s[k]
            BY <1>3, <3>3
        <3>5. QED
            BY <1>1, <3>2, <3>4 DEF n
    <2>7. QED
        BY <1>1, <2>3, <2>4, <2>5, <2>6 DEF n
<1>9. QED
    <2> DEFINE m == Cardinality(created')
    <2>1. m = n + 1
        BY <1>1
    <2> HIDE DEF m
    <2>2. /\ r \in [1 .. m -> created']
          /\ \A t \in created' : \E k \in 1 .. m : r[k] = t
          /\ \A j, k \in 1 .. m : r[j] = r[k] => j = k
          /\ first' = IF m = 0 THEN Nil ELSE r[1]
          /\ \A k \in 1 .. m : next_task'[r[k]] = IF k = m THEN Nil ELSE r[k + 1]
        BY <1>3, <1>5, <1>6, <1>7, <1>8, <2>1
    <2>3. r \in Listings'
        BY <2>2 DEF Listings, Listing, m
    <2>4. QED
        BY <2>3 DEF r

\* The order the list is in; there is only one.
Order == CHOOSE s \in Listings : TRUE

LEMMA OrderFacts ==
    ASSUME IsFiniteSet(created), ListComplete
    PROVE  /\ Order \in Listings
           /\ \A s \in Listings : Order = s
           /\ Cardinality(created) \in Nat
           /\ Order \in Seq(created) /\ Len(Order) = Cardinality(created)
           /\ Order \in [1 .. Cardinality(created) -> created]
<1>1. Order \in Listings
    BY DEF ListComplete, Order
<1>2. \A s \in Listings : Order = s
    BY <1>1, ListingsAreListings, ListingUnique
<1>3. Cardinality(created) \in Nat
    BY FS_CardinalityType
<1>4. Order \in [1 .. Cardinality(created) -> created]
    BY <1>1 DEF Listings
<1>5. Order \in Seq(created) /\ Len(Order) = Cardinality(created)
    BY <1>3, <1>4
<1>6. QED
    BY <1>1, <1>2, <1>3, <1>4, <1>5

\* What thread_create does to the order.
LEMMA ForkOrder ==
    ASSUME SInv, IsFiniteSet(created), ListComplete, NEW c \in Tasks, ForkBegin(c)
    PROVE  /\ IsFiniteSet(created') /\ ListComplete'
           /\ \E p \in 1 .. Len(Order) : /\ Order[p] = current
                                         /\ Order' = Inserted(Order, p, c)
<1>1. /\ phase = "multi" /\ c \notin created /\ created' = created \cup {c}
      /\ InsertAfter(current, c)
    BY DEF ForkBegin
<1>2. /\ current \in created /\ created \subseteq Tasks
      /\ next_task \in [Tasks -> Tasks \cup {Nil}]
    BY <1>1 DEF SInv, TypeOK, ListClosed
<1>3. /\ Order \in Listings /\ Len(Order) = Cardinality(created)
      /\ Cardinality(created) \in Nat
    BY OrderFacts
<1>4. PICK p \in 1 .. Cardinality(created) : Order[p] = current
    BY <1>2, <1>3 DEF Listings, Listing
<1>5. Inserted(Order, p, c) \in Listings'
    BY <1>1, <1>2, <1>3, <1>4, InsertedListing
<1>6. IsFiniteSet(created') /\ ListComplete'
    BY <1>1, <1>5, FS_AddElement DEF ListComplete
<1>7. Order' = Inserted(Order, p, c)
    <2>1. /\ Order' \in Listings'
        BY <1>5 DEF Order
    <2>2. QED
        BY <1>5, <1>6, <2>1, ListingsAreListings, ListingUnique
<1>8. QED
    BY <1>3, <1>4, <1>6, <1>7
\* Inserted, on sequences: what InsertAt of the abstract specification makes.
LEMMA InsertedIsInsertAt ==
    ASSUME NEW S, NEW s \in Seq(S), Len(s) = Cardinality(created),
           NEW p \in 1 .. Len(s), NEW c \in S
    PROVE  Inserted(s, p, c) = SubSeq(s, 1, p) \o <<c>> \o SubSeq(s, p + 1, Len(s))
<1> DEFINE n == Len(s)
           r == Inserted(s, p, c)
           front == SubSeq(s, 1, p)
           back == SubSeq(s, p + 1, n)
           head == front \o <<c>>
           whole == head \o back
<1>1. n \in Nat /\ n = Cardinality(created) /\ p \in 1 .. n
      /\ \A k \in 1 .. n : s[k] \in S
    OBVIOUS
<1>2. /\ r \in [1 .. n + 1 -> S]
      /\ \A k \in 1 .. p : r[k] = s[k]
      /\ r[p + 1] = c
      /\ \A k \in p + 2 .. n + 1 : r[k] = s[k - 1]
    BY <1>1 DEF Inserted
<1>3. r \in Seq(S) /\ Len(r) = n + 1
    <2> HIDE DEF r, n
    <2> QED BY <1>1, <1>2
<1>4. front \in Seq(S) /\ Len(front) = p /\ \A k \in 1 .. p : front[k] = s[k]
    <2>1. /\ front \in Seq(S) /\ Len(front) = IF 1 <= p THEN p - 1 + 1 ELSE 0
          /\ \A k \in 1 .. p - 1 + 1 : front[k] = s[1 + k - 1]
        BY <1>1, SubSeqProperties
    <2> HIDE DEF front
    <2>2. QED
        BY <1>1, <2>1
<1>5. back \in Seq(S) /\ Len(back) = n - p /\ \A k \in 1 .. n - p : back[k] = s[p + k]
    <2>1. /\ back \in Seq(S) /\ Len(back) = IF p + 1 <= n THEN n - (p + 1) + 1 ELSE 0
          /\ \A k \in 1 .. n - (p + 1) + 1 : back[k] = s[(p + 1) + k - 1]
        BY <1>1, SubSeqProperties
    <2>2. \A k \in 1 .. n - p : (p + 1) + k - 1 = p + k /\ k \in 1 .. n - (p + 1) + 1
        BY <1>1
    <2> HIDE DEF back
    <2>3. QED
        BY <1>1, <2>1, <2>2
<1> HIDE DEF r, front, back
<1>6. head \in Seq(S) /\ Len(head) = p + 1
      /\ \A k \in 1 .. p + 1 : head[k] = IF k <= p THEN s[k] ELSE c
    <2>1. <<c>> \in Seq(S) /\ Len(<<c>>) = 1 /\ <<c>>[1] = c
        OBVIOUS
    <2>2. /\ head \in Seq(S) /\ Len(head) = Len(front) + Len(<<c>>)
          /\ \A k \in 1 .. Len(front) + Len(<<c>>) :
                head[k] = IF k <= Len(front) THEN front[k] ELSE <<c>>[k - Len(front)]
        BY <1>4, <2>1, ConcatProperties
    <2> HIDE DEF head
    <2>3. QED
        BY <1>1, <1>4, <2>1, <2>2
<1> HIDE DEF head
<1>7. whole \in Seq(S) /\ Len(whole) = n + 1
      /\ \A k \in 1 .. n + 1 :
            whole[k] = IF k <= p + 1 THEN head[k] ELSE back[k - (p + 1)]
    <2>1. /\ whole \in Seq(S) /\ Len(whole) = Len(head) + Len(back)
          /\ \A k \in 1 .. Len(head) + Len(back) :
                whole[k] = IF k <= Len(head) THEN head[k] ELSE back[k - Len(head)]
        BY <1>5, <1>6, ConcatProperties
    <2> HIDE DEF whole
    <2>2. QED
        BY <1>1, <1>5, <1>6, <2>1
<1> HIDE DEF whole, n
<1>8. \A k \in 1 .. n + 1 : r[k] = whole[k]
    <2> SUFFICES ASSUME NEW k \in 1 .. n + 1 PROVE r[k] = whole[k]
        OBVIOUS
    <2>1. CASE k <= p + 1
        BY <1>1, <1>2, <1>6, <1>7, <2>1
    <2>2. CASE k > p + 1
        <3>1. k - (p + 1) \in 1 .. n - p /\ p + (k - (p + 1)) = k - 1 /\ k \in p + 2 .. n + 1
            BY <1>1, <2>2
        <3>2. whole[k] = s[k - 1]
            BY <1>1, <1>5, <1>7, <2>2, <3>1
        <3>3. QED
            BY <1>2, <3>1, <3>2
    <2>3. QED
        BY <1>1, <2>1, <2>2
<1>9. r = whole
    BY <1>3, <1>7, <1>8, SeqEqual
<1>10. QED
    BY <1>9 DEF r, whole, head, front, back, n

\* The list is complete and there are finitely many tasks: the invariant behind
\* the theorems about the list.
ListInv == IsFiniteSet(created) /\ ListComplete

LEMMA InitListInv ==
    ASSUME created = {}, first = Nil
    PROVE  ListInv /\ Order = <<>>
<1>1. IsFiniteSet(created) /\ Cardinality(created) = 0
    BY FS_EmptySet
<1>2. <<>> \in [1 .. 0 -> created]
    OBVIOUS
<1>3. <<>> \in Listings
    BY <1>1, <1>2 DEF Listings, Listing
<1>4. ListInv
    BY <1>1, <1>3 DEF ListInv, ListComplete
<1>5. QED
    BY <1>3, <1>4, OrderFacts DEF ListInv

LEMMA TaskInitOrder ==
    ASSUME SInv, task_init
    PROVE  ListInv' /\ Order' = <<main>>
<1>1. /\ created' = {main} /\ first' = main
      /\ next_task' = [next_task EXCEPT ![main] = first]
      /\ next_task = [t \in Tasks |-> Nil] /\ first = Nil
    BY DEF task_init, SInv, ListClosed
<1>2. IsFiniteSet(created') /\ Cardinality(created') = 1
    BY <1>1, FS_Singleton
<1>3. <<main>> \in [1 .. 1 -> created'] /\ <<main>>[1] = main
    BY <1>1
<1>4. next_task'[main] = Nil
    BY <1>1, TasksAssumption
<1>5. <<main>> \in Listings'
    BY <1>1, <1>2, <1>3, <1>4 DEF Listings, Listing
<1>6. Order' \in Listings'
    BY <1>5 DEF Order
<1>7. QED
    BY <1>2, <1>5, <1>6, ListingsAreListings, ListingUnique DEF ListInv, ListComplete

\* Every other step leaves the list alone.
LEMMA OtherStepsKeepOrder ==
    ASSUME [Next]_vars, ~task_init, \A c \in Tasks : ~ForkBegin(c)
    PROVE  UNCHANGED <<created, first, next_task>>
BY DEF Next, vars, listVars, PitTick, timer_default_irq, ForkConfigure, ChildStart,
       ThreadReturn, ThreadCli, ThreadSti, Irq0, yield, TickConsumed, SwitchTask,
       SwitchReturn, Stopped

LEMMA SameOrder ==
    ASSUME UNCHANGED <<created, first, next_task>>
    PROVE  /\ Order' = Order
           /\ ListInv => ListInv'
BY DEF Order, Listings, Listing, ListInv, ListComplete

LEMMA NextListInv == SInv /\ ListInv /\ [Next]_vars => ListInv'
<1> SUFFICES ASSUME SInv, ListInv, [Next]_vars PROVE ListInv'
    OBVIOUS
<1>1. CASE task_init
    BY <1>1, TaskInitOrder
<1>2. ASSUME NEW c \in Tasks, ForkBegin(c) PROVE ListInv'
    BY <1>2, ForkOrder DEF ListInv
<1>3. CASE ~task_init /\ \A c \in Tasks : ~ForkBegin(c)
    BY <1>3, OtherStepsKeepOrder, SameOrder
<1>4. QED
    BY <1>1, <1>2, <1>3

\* Whatever threads create threads, and in whatever order, the list holds each of
\* them exactly once and ends (thread_create, LIST_INSERT_AFTER).
THEOREM NoTaskLost == Spec => []ListComplete
<1>1. Init => ListInv
    BY InitListInv DEF Init
<1>2. ListInv => ListComplete
    BY DEF ListInv
<1>3. QED
    BY <1>1, <1>2, NextListInv, SchedInvariance, PTL DEF Spec

-----------------------------------------------------------------------------
(* The scheduler implements the round robin.                               *)

\* task_switch passes the turn to the next task in the order, from the last one
\* to the first.
LEMMA SwitchFollowsOrder ==
    ASSUME SInv, ListInv, SwitchTask
    PROVE  \E p \in 1 .. Len(Order) : /\ Order[p] = current
                                      /\ current' = Order[(p % Len(Order)) + 1]
<1> DEFINE n == Cardinality(created)
<1>1. current \in created /\ current' = Successor(current) /\ phase = "multi"
    BY DEF SInv, ListClosed, SwitchTask
<1>2. /\ Order \in Listings /\ Len(Order) = n /\ n \in Nat
      /\ Order \in [1 .. n -> created]
    BY OrderFacts DEF ListInv
<1>3. PICK p \in 1 .. n : Order[p] = current
    BY <1>1, <1>2 DEF Listings, Listing
<1>4. /\ first = Order[1]
      /\ next_task[current] = IF p = n THEN Nil ELSE Order[p + 1]
    BY <1>2, <1>3 DEF Listings, Listing
<1> HIDE DEF n
<1>5. CASE p = n
    <2>1. p % n = 0 /\ (p % n) + 1 = 1
        BY <1>2, <1>3, <1>5
    <2>2. QED
        BY <1>1, <1>2, <1>3, <1>4, <1>5, <2>1 DEF Successor
<1>6. CASE p # n
    <2>1. p \in Nat /\ p < n /\ p + 1 \in 1 .. n
        BY <1>2, <1>3, <1>6
    <2>2. p % n = p
        BY <1>2, <2>1
    <2>3. Order[p + 1] # Nil
        BY <1>2, <2>1, TasksAssumption DEF SInv, TypeOK
    <2>4. QED
        BY <1>1, <1>2, <1>3, <1>4, <1>6, <2>2, <2>3 DEF Successor
<1>7. QED
    BY <1>5, <1>6

LEMMA RingStep ==
    SInv /\ SInv' /\ ListInv /\ [Next]_vars => [Ring!RingNext]_(Ring!ringVars)
<1> DEFINE turn == IF phase = "boot" THEN Nil ELSE current
<1> SUFFICES ASSUME SInv, SInv', ListInv, [Next]_vars
             PROVE  [Ring!RingNext]_(Ring!ringVars)
    OBVIOUS
<1>1. CASE task_init
    <2>1. Order = <<>>
        BY <1>1, InitListInv DEF task_init, SInv, ListClosed
    <2>2. Order' = <<main>>
        BY <1>1, TaskInitOrder
    <2>3. turn' = main
        BY <1>1 DEF task_init
    <2>4. Ring!Start
        BY <2>1, <2>2, <2>3 DEF Ring!Start, Order
    <2>5. QED
        BY <2>4 DEF Ring!RingNext
<1>2. ASSUME NEW c \in Tasks, ForkBegin(c) PROVE Ring!RingNext
    <2>1. PICK p \in 1 .. Len(Order) : /\ Order[p] = current
                                       /\ Order' = Inserted(Order, p, c)
        BY <1>2, ForkOrder DEF ListInv
    <2>2. /\ Order \in Seq(created) /\ Len(Order) = Cardinality(created)
          /\ created \subseteq Tasks /\ c \notin created
        BY <1>2, OrderFacts DEF ListInv, SInv, TypeOK, ForkBegin
    <2>3. Order \in Seq(Tasks)
        BY <2>2
    <2>4. Order' = SubSeq(Order, 1, p) \o <<c>> \o SubSeq(Order, p + 1, Len(Order))
        BY <2>1, <2>2, <2>3, InsertedIsInsertAt
    <2>5. \A k \in 1 .. Len(Order) : Order[k] # c
        BY <2>2
    <2>6. turn = current /\ turn' = turn
        BY <1>2 DEF ForkBegin
    <2>7. p = (p + 1) - 1
        BY <2>2
    <2>8. Ring!Spawn
        <3> HIDE DEF turn
        <3>1. Order' = Ring!InsertAt(Order, p + 1, c)
            BY <2>4, <2>7 DEF Ring!InsertAt
        <3>2. QED
            BY <2>1, <2>5, <2>6, <3>1 DEF Ring!Spawn, Order, turn
    <2>9. QED
        BY <2>8 DEF Ring!RingNext
<1>3. CASE SwitchTask
    <2>1. PICK p \in 1 .. Len(Order) : /\ Order[p] = current
                                       /\ current' = Order[(p % Len(Order)) + 1]
        BY <1>3, SwitchFollowsOrder
    <2>2. Order' = Order
        BY <1>3, SameOrder DEF SwitchTask, listVars
    <2>3. turn = current /\ turn' = current'
        BY <1>3 DEF SwitchTask, perform_task_switch
    <2>4. Ring!PassTurn
        <3> HIDE DEF turn
        <3>1. Order[p] = turn /\ turn' = Order[(p % Len(Order)) + 1] /\ UNCHANGED Order
            BY <2>1, <2>2, <2>3
        <3>2. QED
            BY <3>1, Zenon DEF Ring!PassTurn, Order, turn
    <2>5. QED
        BY <2>4 DEF Ring!RingNext
<1>4. CASE ~task_init /\ (\A c \in Tasks : ~ForkBegin(c)) /\ ~SwitchTask
    <2>1. Order' = Order
        BY <1>4, OtherStepsKeepOrder, SameOrder
    <2>2. turn' = turn
        BY <1>4 DEF Next, vars, PitTick, timer_default_irq, ForkConfigure,
                    ChildStart, ThreadReturn, ThreadCli, ThreadSti, Irq0, yield,
                    TickConsumed, SwitchReturn, Stopped
    <2>3. QED
        BY <2>1, <2>2 DEF Ring!ringVars, Order
<1>5. QED
    BY <1>1, <1>2, <1>3, <1>4

\* The list and `current` implement the round robin: turns are taken in the cyclic
\* order of the list, and a new thread comes right behind the one that created it
\* (task_switch, thread_create).
THEOREM ImplementsRoundRobin == Spec => RefinesRoundRobin
<1>1. Init => ListInv /\ Ring!RingInit
    BY InitListInv DEF Init, Ring!RingInit, Order
<1>2. QED
    BY <1>1, NextListInv, RingStep, SchedInvariance, PTL
       DEF Spec, RefinesRoundRobin, Ring!RingSpec
=============================================================================
