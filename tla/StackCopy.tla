----------------------------- MODULE StackCopy ------------------------------
(***************************************************************************)
(* The two stack copies of kernel/sched/task.c, word by word: move_stack     *)
(* takes the boot stack to the page of the main task, copy_stack a thread's  *)
(* stack to the page of its child.  Both scan the words from esp to the top  *)
(* and redirect those that look like addresses on the old stack.             *)
(*                                                                         *)
(* Addresses count words.  A word is an address or 0, which stands for every *)
(* word that is no address on a stack.  A frame is the caller's ebp and one   *)
(* further word; ebp is 0 in the first frame (boot.asm).                     *)
(***************************************************************************)
EXTENDS Integers

CONSTANTS PAGE_SIZE,    \* words of a page
          MaxFrames     \* bound on the depth of calls

\* No stack ever fills its page.
ASSUME SizeAssumption ==
    MaxFrames \in Nat /\ MaxFrames >= 2 /\ PAGE_SIZE \in Nat /\ PAGE_SIZE > 2 * MaxFrames

STACK_START == 2 * MaxFrames + 2            \* top of the boot stack
Main        == STACK_START + 1              \* page of the main task's stack
Child       == Main + PAGE_SIZE + 1         \* page of the child's stack
Space       == 1 .. Child + PAGE_SIZE - 1

VARIABLES
    call,       \* the copy that is to come: "move_stack" or "copy_stack"
    mem,        \* mem[a], the word at address a
    esp, ebp,
    phase,      \* "calls", "copying", "done"
    addr,       \* the next word to copy
    from,       \* esp and ebp when the copying began
    child       \* esp and ebp of the child's task_t

vars == <<call, mem, esp, ebp, phase, addr, from, child>>

NoContext == [esp |-> 0, ebp |-> 0]

\* The old stack's top and the new stack's page.
Top       == IF call = "move_stack" THEN STACK_START ELSE Main + PAGE_SIZE
new_stack == IF call = "move_stack" THEN Main ELSE Child

Init ==
    /\ call \in {"move_stack", "copy_stack"}
    /\ mem = [a \in Space |-> 0]
    /\ esp = Top /\ ebp = 0
    /\ phase = "calls" /\ addr = 0 /\ from = NoContext /\ child = NoContext

-----------------------------------------------------------------------------
\* push ebp; mov ebp, esp; and a local, which may point into any live frame.
Call ==
    /\ phase = "calls" /\ Top - esp < 2 * MaxFrames
    /\ \E local \in {0} \cup esp - 2 .. Top - 1 :
          mem' = [mem EXCEPT ![esp - 1] = ebp, ![esp - 2] = local]
    /\ ebp' = esp - 1 /\ esp' = esp - 2
    /\ UNCHANGED <<call, phase, addr, from, child>>

\* leave; ret.
Return ==
    /\ phase = "calls" /\ esp # Top
    /\ esp' = ebp + 1 /\ ebp' = mem[ebp]
    /\ UNCHANGED <<call, mem, phase, addr, from, child>>

\* The last call was that of move_stack, or of copy_stack by thread_create.
CopyBegins ==
    /\ phase = "calls" /\ Top - esp >= 4
    /\ phase' = "copying" /\ addr' = esp /\ from' = [esp |-> esp, ebp |-> ebp]
    /\ UNCHANGED <<call, mem, esp, ebp, child>>

\* offset starts one word too low.
OffsetOneLow(a) == new_stack + PAGE_SIZE - (Top - from.esp) + (a - from.esp) - 1

\* Where the word at address a is copied to: as far below the top as it was.
Offset(a) == new_stack + PAGE_SIZE - (Top - from.esp) + (a - from.esp)

RedirectMoved(w) ==
    IF w < STACK_START /\ w > from.esp THEN new_stack + (w - from.esp) ELSE w

\* copy_stack with move_stack's idea of a difference.
RedirectCopiedFromEsp(w) ==
    IF w < Main + PAGE_SIZE /\ w > Main THEN new_stack + (w - from.esp) ELSE w

RedirectCopied(w) ==
    IF w < Main + PAGE_SIZE /\ w > Main THEN new_stack + (w - Main) ELSE w

CopyWord ==
    /\ phase = "copying" /\ addr < Top
    /\ mem' = [mem EXCEPT ![Offset(addr)] =
                  IF call = "move_stack" THEN RedirectMoved(mem[addr])
                  ELSE RedirectCopied(mem[addr])]
    /\ addr' = addr + 1
    /\ UNCHANGED <<call, esp, ebp, phase, from, child>>

\* move_stack copies with interrupts on: a handler uses the words below esp.
Interrupt ==
    /\ phase = "copying" /\ call = "move_stack" /\ esp - 1 \in Space
    /\ \E w \in {0, esp, ebp} : mem' = [mem EXCEPT ![esp - 1] = w]
    /\ UNCHANGED <<call, esp, ebp, phase, addr, from, child>>

\* The end of move_stack, under cli.
SwitchStack ==
    /\ phase = "copying" /\ addr = Top /\ call = "move_stack"
    /\ esp' = new_stack + PAGE_SIZE - (STACK_START - esp)
    /\ ebp' = new_stack + PAGE_SIZE - (STACK_START - ebp)
    /\ phase' = "done"
    /\ UNCHANGED <<call, mem, addr, from, child>>

\* copy_stack returns, and thread_create moves its own esp and ebp to the child.
ConfigureChild ==
    /\ phase = "copying" /\ addr = Top /\ call = "copy_stack"
    /\ esp' = ebp + 1 /\ ebp' = mem[ebp]
    /\ child' = [esp |-> (new_stack - Main) + esp', ebp |-> (new_stack - Main) + ebp']
    /\ phase' = "done"
    /\ UNCHANGED <<call, mem, addr, from>>

Finished == phase = "done" /\ UNCHANGED vars

Next ==
    \/ Call \/ Return \/ CopyBegins \/ CopyWord \/ Interrupt \/ SwitchStack
    \/ ConfigureChild \/ Finished

Spec == Init /\ [][Next]_vars

-----------------------------------------------------------------------------
\* The distance between the old stack and the new one.
Shift == new_stack + PAGE_SIZE - Top

OnOld(w) == w \in from.esp .. Top - 1

\* What the word w of the old stack has to become on the new one.
Image(w) == IF OnOld(w) THEN w + Shift ELSE w

Faithful(lo) == \A a \in lo .. Top - 1 : mem[a + Shift] = Image(mem[a])

\* Words that are no pointers arrive at their old distance from the top, and the
\* running stack goes on where the copy of its last frame lies (move_stack); the
\* child starts within the copied words, above the frame of copy_stack
\* (copy_stack, thread_create).
PlacedAlike ==
    phase = "done" =>
        /\ \A a \in from.esp .. Top - 1 : ~OnOld(mem[a]) => mem[a + Shift] = mem[a]
        /\ call = "move_stack" => esp = from.esp + Shift /\ ebp = from.ebp + Shift
        /\ call = "copy_stack" => child.esp = from.ebp + 1 + Shift

\* The child's stack is the image of its parent's: every pointer leads to the copy
\* of the word it led to, none back to the parent, and the child's ebp heads the
\* copied chain of frames (copy_stack, thread_create).
CopyIsomorphic ==
    phase = "done" /\ call = "copy_stack" =>
        /\ Faithful(from.esp)
        /\ \A a \in child.esp .. Child + PAGE_SIZE - 1 : ~OnOld(mem[a])
        /\ child.ebp = Image(ebp)

\* The same of the main task's stack after move_stack: "All slots in the stack are
\* scanned [...] and are redirected to the new one. This is so that all frame
\* pointers are corrected" (task.c, line 41).
MoveIsomorphic == phase = "done" /\ call = "move_stack" => Faithful(from.esp)
=============================================================================
