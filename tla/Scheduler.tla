----------------------------- MODULE Scheduler -----------------------------
(***************************************************************************)
(* The DelOS scheduler on its single CPU: the circular list of tasks built *)
(* by kscheduler_add_task, the timer interrupt that walks it, the boot     *)
(* thread (kmain), the shell task and the user tasks the shell creates.    *)
(*                                                                         *)
(* Every gate of the IDT is an interrupt gate, so a handler runs with IF=0 *)
(* and is never interrupted; kernel threads (kmain, the shell) run with    *)
(* IF=1 and may be interrupted between any two of their steps.             *)
(*                                                                         *)
(* kmain has no task of its own: the context of the first task (ksystem)   *)
(* is overwritten by kmain's own registers at the first context switch, so *)
(* the boot thread IS the task KSystem.                                    *)
(***************************************************************************)
EXTENDS Naturals, FiniteSets

CONSTANTS
    KSystem,         \* the task of kprocess_kernel_init: the boot thread
    KShell,          \* the task of kprocess_shell_init
    Users,           \* tasks kshell_debug may create (memory bounds them)
    NULL,
    TICKER,          \* KERNEL_SCHEDULER_CONTEXT_TICKER: ticks per time slice
    TICKS_MODULUS,   \* 2^32 in the code: ticks_count is a uint32_t
    MaxTyped,        \* bound: command lines typed and not yet read
    TypeAhead        \* may a line be typed before kmain reached its last jmp?

ASSUME TaskAssumption ==
    /\ KSystem # KShell /\ NULL # KSystem /\ NULL # KShell
    /\ KSystem \notin Users /\ KShell \notin Users /\ NULL \notin Users
    /\ IsFiniteSet(Users)

ASSUME NumberAssumption ==
    /\ TICKER \in Nat \ {0} /\ TICKS_MODULUS \in Nat \ {0}
    /\ MaxTyped \in Nat /\ TypeAhead \in BOOLEAN

Tasks == {KSystem, KShell} \cup Users

\* The two threads that call kscheduler_add_task.
Adders == {KSystem, KShell}

VARIABLES
    next,            \* task->_next
    state,           \* task->_state
    ktask_head, ktask_tail, ktask_current,
    kscheduler_is_running,
    ticks_count,
    walker,          \* the local "next" of kscheduler_pick_next, NULL outside
    pc,              \* where each thread stands
    adding,          \* the task a thread is passing to kscheduler_add_task
    pending,         \* command lines in the keyboard ring
    bootstack,       \* the frames of kmain: intact or overwritten
    cpu              \* run, panic ("No task found"), fault or wild (undefined)

list == <<next, state, ktask_head, ktask_tail>>
sched == <<ktask_current, kscheduler_is_running, ticks_count, walker>>
vars == <<list, sched, pc, adding, pending, bootstack, cpu>>

----------------------------------------------------------------------------
(* Before kscheduler_start no task is current: the boot thread runs.       *)
OnCpu == IF ktask_current = NULL THEN KSystem ELSE ktask_current

\* Thread t executes its own code: the kernel lives, no handler is active.
Runs(t) == cpu = "run" /\ walker = NULL /\ OnCpu = t

At(t, label) == Runs(t) /\ pc[t] = label

Goto(t, label) == pc' = [pc EXCEPT ![t] = label]

\* kmain's steps need the frames it left on the boot stack.
Kmain(label) == At(KSystem, label) /\ bootstack = "intact"

Init ==
    /\ next = [t \in Tasks |-> NULL]
    /\ state = [t \in Tasks |-> "IDLE"]
    /\ ktask_head = NULL /\ ktask_tail = NULL /\ ktask_current = NULL
    /\ kscheduler_is_running = FALSE
    /\ ticks_count = 0
    /\ walker = NULL
    /\ pc = [t \in Tasks |-> IF t = KSystem THEN "setup" ELSE "none"]
    /\ adding = [a \in Adders |-> NULL]
    /\ pending = 0
    /\ bootstack = "intact"
    /\ cpu = "run"

----------------------------------------------------------------------------
(* kmain                                                                   *)

\* cli, PIC, IDT, GDT and PIT set up with interrupts off, then sti.
KmainSetup ==
    /\ Kmain("setup") /\ Goto(KSystem, "init")
    /\ UNCHANGED <<list, sched, adding, pending, bootstack, cpu>>

\* The heap, the file system and the ksystem process, with interrupts on.
KmainInit ==
    /\ Kmain("init") /\ Goto(KSystem, "sched")
    /\ UNCHANGED <<list, sched, adding, pending, bootstack, cpu>>

\* kscheduler_init(ksystem): the empty-list branch of kscheduler_add_task and
\* kscheduler_start.  One step: a tick looks at ktask_current first, and
\* ktask_current is the last pointer written.
KschedulerInit ==
    /\ Kmain("sched") /\ ~kscheduler_is_running /\ ktask_head = NULL
    /\ ktask_head' = KSystem
    /\ ktask_tail' = KSystem
    /\ next' = [next EXCEPT ![KSystem] = KSystem]
    /\ kscheduler_is_running' = TRUE
    /\ ktask_current' = KSystem
    /\ state' = [state EXCEPT ![KSystem] = "RUNNING"]
    /\ Goto(KSystem, "mkshell")
    /\ UNCHANGED <<ticks_count, walker, adding, pending, bootstack, cpu>>

\* kprocess_shell_init: ktask_create leaves _next NULL and _state IDLE.
KprocessShellInit ==
    /\ Kmain("mkshell")
    /\ adding' = [adding EXCEPT ![KSystem] = KShell]
    /\ pc' = [pc EXCEPT ![KSystem] = "add_next", ![KShell] = "getchar"]
    /\ UNCHANGED <<list, sched, pending, bootstack, cpu>>

\* KHLT_DO(): one hlt; the next interrupt ends it.
KmainHalt ==
    /\ Kmain("hlt") /\ Goto(KSystem, "halted")
    /\ UNCHANGED <<list, sched, adding, pending, bootstack, cpu>>

\* kmain returns into kernel_entry.s, whose last instruction jumps to itself.
KmainReturn ==
    /\ Kmain("ret") /\ Goto(KSystem, "spin")
    /\ UNCHANGED <<list, sched, adding, pending, bootstack, cpu>>

\* kmain resumed on frames that entries from ring 3 have overwritten: it
\* returns to, or computes with, whatever they left there.
KmainLostFrames ==
    /\ Runs(KSystem) /\ bootstack = "overwritten"
    /\ pc[KSystem] \notin {"spin", "halted"}
    /\ cpu' = "wild"
    /\ UNCHANGED <<list, sched, pc, adding, pending, bootstack>>

----------------------------------------------------------------------------
(* kscheduler_add_task on a non-empty list: three stores, interruptible    *)
(* between them.  Called by kmain (for the shell) and by the shell.        *)

Frames(a) == a = KSystem => bootstack = "intact"

\* Mutants: the store to _next forgotten; the list linked one store early.
AddNextForgotten(a) ==
    /\ At(a, "add_next") /\ Frames(a) /\ Goto(a, "add_link")
    /\ UNCHANGED <<list, sched, adding, pending, bootstack, cpu>>

AddNextLinksEarly(a) ==
    /\ At(a, "add_next") /\ Frames(a) /\ Goto(a, "add_link")
    /\ next' = [next EXCEPT ![adding[a]] = ktask_head,
                            ![ktask_tail] = adding[a]]
    /\ UNCHANGED <<state, ktask_head, ktask_tail, sched, adding, pending,
                   bootstack, cpu>>

AddNext(a) ==
    /\ At(a, "add_next") /\ Frames(a) /\ Goto(a, "add_link")
    /\ next' = [next EXCEPT ![adding[a]] = ktask_head]
    /\ UNCHANGED <<state, ktask_head, ktask_tail, sched, adding, pending,
                   bootstack, cpu>>

AddLink(a) ==
    /\ At(a, "add_link") /\ Frames(a) /\ Goto(a, "add_tail")
    /\ next' = [next EXCEPT ![ktask_tail] = adding[a]]
    /\ UNCHANGED <<state, ktask_head, ktask_tail, sched, adding, pending,
                   bootstack, cpu>>

\* Mutant: the tail is not moved.
AddTailForgotten(a) ==
    /\ At(a, "add_tail") /\ Frames(a)
    /\ Goto(a, IF a = KSystem THEN "hlt" ELSE "getchar")
    /\ adding' = [adding EXCEPT ![a] = NULL]
    /\ UNCHANGED <<list, sched, pending, bootstack, cpu>>

AddTail(a) ==
    /\ At(a, "add_tail") /\ Frames(a)
    /\ Goto(a, IF a = KSystem THEN "hlt" ELSE "getchar")
    /\ ktask_tail' = adding[a]
    /\ adding' = [adding EXCEPT ![a] = NULL]
    /\ UNCHANGED <<next, state, ktask_head, sched, pending, bootstack, cpu>>

----------------------------------------------------------------------------
(* The shell task                                                          *)

\* Mutant: a line is read from an empty keyboard ring.
KshellDebugUnguarded ==
    /\ At(KShell, "getchar")
    /\ pending' = pending - 1
    /\ Goto(KShell, "create")
    /\ UNCHANGED <<list, sched, adding, bootstack, cpu>>

\* A line is read; the command is debug, the one that creates processes.
KshellDebug ==
    /\ At(KShell, "getchar") /\ pending > 0
    /\ pending' = pending - 1
    /\ Goto(KShell, "create")
    /\ UNCHANGED <<list, sched, adding, bootstack, cpu>>

\* kprocess_create succeeds: a fresh user task, not yet in the list.
KprocessCreate(u) ==
    /\ At(KShell, "create") /\ pc[u] = "none"
    /\ adding' = [adding EXCEPT ![KShell] = u]
    /\ pc' = [pc EXCEPT ![KShell] = "add_next", ![u] = "user"]
    /\ UNCHANGED <<list, sched, pending, bootstack, cpu>>

\* Mutant: the shell retries for ever instead of giving up.
KprocessCreateRetries ==
    /\ At(KShell, "create") /\ Goto(KShell, "create")
    /\ UNCHANGED <<list, sched, adding, pending, bootstack, cpu>>

\* kprocess_create returns NULL: out of heap or of frames.
KprocessCreateFails ==
    /\ At(KShell, "create") /\ Goto(KShell, "getchar")
    /\ UNCHANGED <<list, sched, adding, pending, bootstack, cpu>>

----------------------------------------------------------------------------
(* User tasks.  Each entry into the kernel from ring 3 starts at the esp0   *)
(* of the only TSS, which every context switch sets to __kernel_stack_end: *)
(* the stack kmain runs on.                                                *)

EnterFromRing3 ==
    bootstack' = IF pc[OnCpu] = "user" /\ pc[KSystem] # "spin"
                   THEN "overwritten" ELSE bootstack

\* A system call other than exit.  The end of isr_syscall is declared
\* unreachable, so what follows the handler of a call that returns is
\* undefined: it may reach the iret, or run into the next function.
IsrSyscall(u) ==
    /\ At(u, "user")
    /\ EnterFromRing3
    /\ cpu' \in {"run", "wild"}
    /\ UNCHANGED <<list, sched, pc, adding, pending>>

\* The exit system call, made by the task or by the stub its entry returns
\* to: ktask_exit marks the task and halts until the scheduler leaves it.
KtaskExit(u) ==
    /\ At(u, "user")
    /\ EnterFromRing3
    /\ state' = [state EXCEPT ![ktask_current] = "ZOMBIE"]
    /\ Goto(u, "exited")
    /\ UNCHANGED <<next, ktask_head, ktask_tail, sched, adding, pending, cpu>>

----------------------------------------------------------------------------
(* Interrupts                                                              *)

Interruptible == cpu = "run" /\ walker = NULL /\ pc[KSystem] # "setup"

\* Any interrupt ends the hlt of the thread it interrupts.
WakeHalted ==
    pc' = IF pc[OnCpu] = "halted" THEN [pc EXCEPT ![OnCpu] = "ret"] ELSE pc

\* Mutant: the walk starts at the head.
WalkFromHead == ktask_head

\* kscheduler_pick_next starts at the successor of the current task.
FirstCandidate == next[ktask_current]

\* IRQ 0.  Every TICKER-th tick calls kscheduler_tick, whose failure is the
\* panic "No task found".
IrqTimer ==
    /\ Interruptible
    /\ EnterFromRing3 /\ WakeHalted
    /\ ticks_count' = (ticks_count + 1) % TICKS_MODULUS
    /\ \/ ticks_count' % TICKER # 0 /\ UNCHANGED <<walker, cpu>>
       \/ /\ ticks_count' % TICKER = 0 /\ ktask_current = NULL
          /\ cpu' = "panic" /\ UNCHANGED walker
       \/ /\ ticks_count' % TICKER = 0 /\ ktask_current # NULL
          /\ walker' = FirstCandidate /\ UNCHANGED cpu
    /\ UNCHANGED <<list, ktask_current, kscheduler_is_running, adding,
                   pending>>

\* Mutant: only the first candidate is looked at.
SkipsOverNone(t) == FALSE

\* The loop condition of kscheduler_pick_next.
SkipsOver(t) == state[t] = "ZOMBIE" /\ t # ktask_current

\* One turn of the loop of kscheduler_pick_next.
PickNext ==
    /\ cpu = "run" /\ walker # NULL /\ SkipsOver(walker)
    /\ walker' = next[walker]
    /\ UNCHANGED <<list, ktask_current, kscheduler_is_running, ticks_count,
                   pc, adding, pending, bootstack, cpu>>

\* Mutant: the next task is taken whatever its state.
KschedulerTickAny ==
    /\ cpu = "run" /\ walker # NULL
    /\ ktask_current' = walker /\ walker' = NULL
    /\ UNCHANGED <<list, kscheduler_is_running, ticks_count, pc, adding,
                   pending, bootstack, cpu>>

\* The loop ends: switch to the task found, or fail into the panic.
KschedulerTick ==
    /\ cpu = "run" /\ walker # NULL /\ ~SkipsOver(walker)
    /\ IF state[walker] = "ZOMBIE"
         THEN cpu' = "panic" /\ UNCHANGED ktask_current
         ELSE ktask_current' = walker /\ UNCHANGED cpu
    /\ walker' = NULL
    /\ UNCHANGED <<list, kscheduler_is_running, ticks_count, pc, adding,
                   pending, bootstack>>

\* IRQ 1: the interrupt that completes a command line.
IrqKeyboardPress ==
    /\ Interruptible /\ pending < MaxTyped
    /\ TypeAhead \/ pc[KSystem] = "spin"
    /\ EnterFromRing3 /\ WakeHalted
    /\ pending' = pending + 1
    /\ UNCHANGED <<list, sched, adding, cpu>>

\* Out of heap: kmain follows a process that is NULL, or a new task's stack is
\* NULL (AddressSpaces.tla).  The page fault and the panics of kmain's
\* initialisations end the kernel alike.
KernelFaults ==
    /\ Kmain("init") \/ Kmain("mkshell") \/ At(KShell, "create")
    /\ cpu' = "fault"
    /\ UNCHANGED <<list, sched, pc, adding, pending, bootstack>>

\* cli and hlt at the end of a panic, or a CPU that executes garbage.
KernelDied == cpu # "run" /\ UNCHANGED vars

----------------------------------------------------------------------------
KmainStep == \/ KmainSetup \/ KmainInit \/ KschedulerInit
             \/ KprocessShellInit \/ KmainHalt \/ KmainReturn
             \/ KmainLostFrames

AddStep(a) == AddNext(a) \/ AddLink(a) \/ AddTail(a)

ShellStep == \/ KshellDebug
             \/ \E u \in Users : KprocessCreate(u)
             \/ KprocessCreateFails

UserStep(u) == IsrSyscall(u) \/ KtaskExit(u)

HandlerStep == PickNext \/ KschedulerTick

Next == \/ KmainStep \/ ShellStep \/ HandlerStep
        \/ \E a \in Adders : AddStep(a)
        \/ \E u \in Users : UserStep(u)
        \/ IrqTimer \/ IrqKeyboardPress
        \/ KernelFaults \/ KernelDied

Spec == Init /\ [][Next]_vars

\* The PIT never stops, a handler runs to its end, and a kernel thread that
\* gets its time slices again and again advances.
Fairness ==
    /\ WF_vars(IrqTimer) /\ WF_vars(HandlerStep)
    /\ SF_vars(KmainStep \/ AddStep(KSystem))
    /\ SF_vars(ShellStep) /\ SF_vars(AddStep(KShell))

FairSpec == Spec /\ Fairness

----------------------------------------------------------------------------
(* What is checked                                                         *)

Labels == {"setup", "init", "sched", "mkshell", "add_next", "add_link",
           "add_tail", "hlt", "halted", "ret", "spin", "none", "getchar",
           "create", "user", "exited"}

\* Type invariant: every variable keeps the type of the C object it models.
TypeOK ==
    /\ next \in [Tasks -> Tasks \cup {NULL}]
    /\ state \in [Tasks -> {"IDLE", "RUNNING", "ZOMBIE"}]
    /\ {ktask_head, ktask_tail, ktask_current, walker} \subseteq
           Tasks \cup {NULL}
    /\ kscheduler_is_running \in BOOLEAN
    /\ ticks_count \in 0 .. (TICKS_MODULUS - 1)
    /\ pc \in [Tasks -> Labels]
    /\ adding \in [Adders -> Tasks \cup {NULL}]
    /\ pending \in 0 .. MaxTyped
    /\ bootstack \in {"intact", "overwritten"}
    /\ cpu \in {"run", "panic", "fault", "wild"}

\* Tasks some thread has already stored in the list.
Linked == {t \in Tasks : next[t] # NULL} \
              {adding[a] : a \in {b \in Adders : pc[b] = "add_link"}}

\* kscheduler_pick_next dereferences next without a test (scheduler.c:103-107):
\* at every instant a tick may strike, even in the middle of
\* kscheduler_add_task, each task it can reach has a successor in the list.
WalkNeverMeetsNull ==
    /\ \A t \in Linked : next[t] \in Linked
    /\ ktask_current # NULL => {ktask_head, ktask_tail, ktask_current}
                                   \subseteq Linked
    /\ walker # NULL => walker \in Linked

\* The only way into KPANIC("No task found") (irq_timer.c:37) is a third tick
\* before kscheduler_start: once a task is current, the walk finds one alive,
\* whatever has exited and however the insertions interleaved.
PanicOnlyBeforeStart == cpu = "panic" => ktask_current = NULL

\* A task that called exit is never given the CPU again (scheduler.c:104):
\* ktask_exit declares the end of its halting loop unreachable.
ZombieNeverResumed ==
    [][\A t \in Tasks : state[t] = "ZOMBIE" /\ ktask_current # t
           => ktask_current' # t /\ state'[t] = "ZOMBIE"]_vars

\* hop[n] is the n-th task met when the list is followed from its head.
hop[n \in 0 .. Cardinality(Tasks)] ==
    IF n = 0 THEN ktask_head
    ELSE IF hop[n-1] = NULL THEN NULL ELSE next[hop[n-1]]

InRing == {hop[n] : n \in 0 .. Cardinality(Tasks)}

\* Tasks whose kscheduler_add_task has returned.
Added == {t \in Tasks : /\ next[t] # NULL
                        /\ \A a \in Adders : adding[a] # t}

\* kscheduler_add_task answers OK_TRUE for a task the scheduler can reach:
\* every task it has added is on the ring that starts at ktask_head.
AddedTasksInRing == Added \subseteq InRing

\* __kernel_stack_end is both kmain's stack and the esp0 of every entry from
\* ring 3 (scheduler.c:141): until kmain has linked the shell, and with lines
\* typed ahead too, no such entry has run over kmain's frames.
BootFramesSafeUntilLinked ==
    bootstack = "overwritten" =>
        pc[KSystem] \in {"add_tail", "hlt", "halted", "ret", "spin"}

Alive(t) == t \in Added /\ state[t] # "ZOMBIE" /\ cpu = "run"

\* No starvation: an added task gets the CPU, exits or the kernel dies.
EveryTaskScheduled ==
    \A t \in Tasks : Alive(t) ~> (ktask_current = t \/ ~Alive(t))

\* A command line is served in the end, whatever the shell was doing and
\* however many user tasks compete: the shell is back at its prompt.
ShellServesLines ==
    (pending = MaxTyped /\ cpu = "run") ~> (pending < MaxTyped \/ cpu # "run")
=============================================================================
