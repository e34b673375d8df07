-------------------------- MODULE SchedulerProofs --------------------------
(***************************************************************************)
(* Proofs about Scheduler for any number of user tasks, any slice length   *)
(* and any tick counter width, with and without lines typed ahead: type    *)
(* correctness, the walk never meets NULL, the panic is confined to the    *)
(* time before kscheduler_start, no zombie is resumed, and kmain's frames  *)
(* are intact until it has linked the shell.                               *)
(***************************************************************************)
EXTENDS Scheduler, TLAPS

BootLabels == {"setup", "init", "sched"}
AddLabels == {"add_next", "add_link", "add_tail"}

\* Which labels each kind of thread can be at.
LabelInv ==
    /\ pc[KSystem] \in BootLabels \cup AddLabels \cup
                       {"mkshell", "hlt", "halted", "ret", "spin"}
    /\ pc[KShell] \in {"none", "getchar", "create"} \cup AddLabels
    /\ \A u \in Users : pc[u] \in {"none", "user", "exited"}

\* Before kscheduler_init there is no list and no other thread.
BootInv ==
    /\ ktask_current = NULL <=> pc[KSystem] \in BootLabels
    /\ ktask_current = NULL => /\ ktask_head = NULL /\ walker = NULL
                               /\ \A t \in Tasks : next[t] = NULL
    /\ ktask_current # NULL => ktask_head = KSystem
    /\ pc[KSystem] \in BootLabels \cup {"mkshell"} =>
           \A t \in Tasks \ {KSystem} : pc[t] = "none"

\* How far each kscheduler_add_task in progress has got.
AddInv ==
    /\ adding[KSystem] = IF pc[KSystem] \in AddLabels THEN KShell ELSE NULL
    /\ pc[KSystem] \in AddLabels => pc[KShell] # "none"
    /\ pc[KShell] \in AddLabels =>
           adding[KShell] \in Users /\ pc[adding[KShell]] # "none"
    /\ pc[KShell] \notin AddLabels => adding[KShell] = NULL
    /\ \A a \in Adders :
           /\ pc[a] = "add_next" => next[adding[a]] = NULL
           /\ pc[a] = "add_link" => next[adding[a]] = KSystem
           /\ pc[a] = "add_tail" => next[adding[a]] # NULL
    /\ \A t \in Tasks : pc[t] = "none" => next[t] = NULL

Control == LabelInv /\ BootInv /\ AddInv

\* The first task never exits.
SystemAlive == state[KSystem] # "ZOMBIE"

\* Links lead to the first task or to a task of higher rank, so a walk that
\* comes back to where it started has passed the first task.
Ranks(rank) ==
    /\ \A t \in Linked : next[t] = KSystem \/ rank[next[t]] > rank[t]
    /\ walker # NULL => walker = KSystem \/ rank[walker] > rank[ktask_current]

Ordered == \E rank \in [Tasks -> Nat] : Ranks(rank)

\* The inductive invariant.
IndInv == /\ TypeOK /\ Control /\ WalkNeverMeetsNull
          /\ SystemAlive /\ Ordered /\ PanicOnlyBeforeStart

----------------------------------------------------------------------------
\* The initial state satisfies the inductive invariant.
LEMMA InitIndInv == Init => IndInv
<1> SUFFICES ASSUME Init PROVE IndInv
  OBVIOUS
<1> USE TaskAssumption, NumberAssumption
<1>1. TypeOK
  <2>1. kscheduler_is_running \in BOOLEAN
    BY DEF Init
  <2>2. 0 \in 0 .. (TICKS_MODULUS - 1) /\ 0 \in 0 .. MaxTyped
    OBVIOUS
  <2>3. pc \in [Tasks -> Labels]
    BY DEF Init, Labels
  <2> QED BY <2>1, <2>2, <2>3 DEF Init, TypeOK, Tasks, Adders
<1>2. Control
  BY DEF Init, Control, LabelInv, BootInv, AddInv, BootLabels, AddLabels,
         Tasks, Adders
<1>3. Linked = {}
  BY DEF Init, Linked
<1>4. WalkNeverMeetsNull
  BY <1>3 DEF Init, WalkNeverMeetsNull
<1>5. Ordered
  <2>1. [t \in Tasks |-> 0] \in [Tasks -> Nat]
    OBVIOUS
  <2>2. Ranks([t \in Tasks |-> 0])
    BY <1>3 DEF Init, Ranks
  <2> QED BY <2>1, <2>2 DEF Ordered
<1>6. SystemAlive /\ PanicOnlyBeforeStart
  BY DEF Init, SystemAlive, PanicOnlyBeforeStart, Tasks
<1> QED BY <1>1, <1>2, <1>4, <1>5, <1>6 DEF IndInv

\* Every step keeps every variable in its type.
LEMMA TypeStep == TypeOK /\ Control /\ [Next]_vars => TypeOK'
<1> SUFFICES ASSUME TypeOK, Control, [Next]_vars PROVE TypeOK'
  OBVIOUS
<1> USE TaskAssumption, NumberAssumption DEF TypeOK, Tasks, Adders, Labels
<1>1. CASE KmainStep
  <2>1. CASE KschedulerInit
    <3>1. kscheduler_is_running' \in BOOLEAN
      BY <2>1 DEF KschedulerInit
    <3> QED BY <2>1, <3>1 DEF KschedulerInit, Goto
  <2>2. CASE KprocessShellInit
    BY <2>2 DEF KprocessShellInit, list, sched
  <2>3. CASE KmainStep /\ ~KschedulerInit /\ ~KprocessShellInit
    BY <2>3 DEF KmainStep, KmainSetup, KmainInit, KmainHalt, KmainReturn,
       KmainLostFrames, Goto, list, sched
  <2> QED BY <1>1, <2>1, <2>2, <2>3
<1>2. CASE ShellStep
  <2>1. CASE KshellDebug
    BY <2>1 DEF KshellDebug, At, Runs, Goto, list, sched
  <2>2. ASSUME NEW u \in Users, KprocessCreate(u) PROVE TypeOK'
    BY <2>2 DEF KprocessCreate, At, Runs, Goto, list, sched
  <2>3. CASE KprocessCreateFails
    BY <2>3 DEF KprocessCreateFails, At, Runs, Goto, list, sched
  <2> QED BY <1>2, <2>1, <2>2, <2>3 DEF ShellStep
<1>3. ASSUME NEW a \in Adders, AddStep(a) PROVE TypeOK'
  BY <1>3 DEF AddStep, AddNext, AddLink, AddTail, Goto, At, Runs, sched
<1>4. ASSUME NEW u \in Users, UserStep(u) PROVE TypeOK'
  BY <1>4 DEF UserStep, IsrSyscall, KtaskExit, EnterFromRing3, Goto, At, Runs,
     OnCpu, list, sched
<1>5. CASE HandlerStep
  BY <1>5 DEF HandlerStep, PickNext, KschedulerTick, SkipsOver, list, sched
<1>6. CASE IrqTimer
  <2>1. ticks_count' \in 0 .. (TICKS_MODULUS - 1)
    BY <1>6 DEF IrqTimer
  <2>2. pc' \in [Tasks -> Labels]
    BY <1>6 DEF IrqTimer, WakeHalted
  <2>3. walker' \in Tasks \cup {NULL} /\ cpu' \in {"run", "panic", "fault", "wild"}
    BY <1>6 DEF IrqTimer, FirstCandidate
  <2>4. bootstack' \in {"intact", "overwritten"}
    BY <1>6 DEF IrqTimer, EnterFromRing3
  <2>5. UNCHANGED <<list, ktask_current, kscheduler_is_running, adding, pending>>
    BY <1>6 DEF IrqTimer
  <2> QED BY <2>1, <2>2, <2>3, <2>4, <2>5 DEF list
<1>7. CASE IrqKeyboardPress
  <2>1. pc' \in [Tasks -> Labels]
    BY <1>7 DEF IrqKeyboardPress, WakeHalted
  <2>2. pending' \in 0 .. MaxTyped
    BY <1>7 DEF IrqKeyboardPress
  <2>3. bootstack' \in {"intact", "overwritten"}
    BY <1>7 DEF IrqKeyboardPress, EnterFromRing3
  <2> QED BY <1>7, <2>1, <2>2, <2>3 DEF IrqKeyboardPress, list, sched
<1>8. CASE KernelFaults \/ KernelDied \/ UNCHANGED vars
  BY <1>8 DEF KernelFaults, KernelDied, vars, list, sched
<1> QED BY <1>1, <1>2, <1>3, <1>4, <1>5, <1>6, <1>7, <1>8 DEF Next

----------------------------------------------------------------------------
\* The control part of the invariant: labels, boot phase and insertions.
LEMMA ControlStep ==
    TypeOK /\ Control /\ WalkNeverMeetsNull /\ [Next]_vars => Control'
<1> SUFFICES ASSUME TypeOK, Control, WalkNeverMeetsNull, [Next]_vars
             PROVE  Control'
  OBVIOUS
<1> USE TaskAssumption
<1> USE DEF Control, LabelInv, BootInv, AddInv, BootLabels, AddLabels, Adders,
            Tasks
<1>t. /\ next \in [Tasks -> Tasks \cup {NULL}] /\ pc \in [Tasks -> Labels]
      /\ adding \in [Adders -> Tasks \cup {NULL}]
      /\ {ktask_head, ktask_tail, ktask_current, walker} \subseteq
             Tasks \cup {NULL}
  BY DEF TypeOK
<1>1. CASE KmainStep
  <2>1. CASE KschedulerInit
    BY <1>t, <2>1 DEF KschedulerInit, Kmain, At, Runs, Goto
  <2>2. CASE KprocessShellInit
    BY <1>t, <2>2 DEF KprocessShellInit, Kmain, At, Runs, list, sched
  <2>3. CASE KmainSetup \/ KmainInit
    BY <1>t, <2>3 DEF KmainSetup, KmainInit, Kmain, At, Runs, Goto, list, sched
  <2>4. CASE KmainHalt \/ KmainReturn
    BY <1>t, <2>4 DEF KmainHalt, KmainReturn, Kmain, At, Runs, Goto, list, sched
  <2>5. CASE KmainLostFrames
    BY <1>t, <2>5 DEF KmainLostFrames, list, sched
  <2> QED BY <1>1, <2>1, <2>2, <2>3, <2>4, <2>5 DEF KmainStep
<1>2. CASE ShellStep
  <2>1. CASE KshellDebug \/ KprocessCreateFails
    BY <1>t, <2>1 DEF KshellDebug, KprocessCreateFails, At, Runs, Goto, list, sched
  <2>2. ASSUME NEW u \in Users, KprocessCreate(u) PROVE Control'
    BY <1>t, <2>2 DEF KprocessCreate, At, Runs, list, sched
  <2> QED BY <1>2, <2>1, <2>2 DEF ShellStep
<1>3. ASSUME NEW a \in Adders, AddStep(a) PROVE Control'
  <2>0. ktask_current # NULL
    BY <1>t, <1>3 DEF AddStep, AddNext, AddLink, AddTail, At
  <2>1. CASE AddNext(a)
    <3>1. CASE a = KSystem
      BY <1>t, <2>0, <2>1, <3>1 DEF AddNext, At, Goto, sched
    <3>2. CASE a = KShell
      BY <1>t, <2>0, <2>1, <3>2 DEF AddNext, At, Goto, sched
    <3> QED BY <3>1, <3>2
  <2>2. CASE AddLink(a)
    <3>0. /\ ktask_tail \in Tasks /\ next[ktask_tail] # NULL
          /\ \A b \in Adders : pc[b] = "add_link" => ktask_tail # adding[b]
      BY <2>0 DEF WalkNeverMeetsNull, Linked
    <3>1. CASE a = KSystem
      BY <1>t, <2>0, <2>2, <3>0, <3>1 DEF AddLink, At, Goto, sched
    <3>2. CASE a = KShell
      BY <1>t, <2>0, <2>2, <3>0, <3>2 DEF AddLink, At, Goto, sched
    <3> QED BY <3>1, <3>2
  <2>3. CASE AddTail(a)
    BY <1>t, <2>0, <2>3 DEF AddTail, At, Runs, Goto, sched
  <2> QED BY <1>3, <2>1, <2>2, <2>3 DEF AddStep
<1>4. ASSUME NEW u \in Users, UserStep(u) PROVE Control'
  BY <1>t, <1>4 DEF UserStep, IsrSyscall, KtaskExit, Goto, At, Runs, list, sched
<1>5. CASE HandlerStep
  BY <1>t, <1>5 DEF HandlerStep, PickNext, KschedulerTick, list
<1>6. CASE IrqTimer
  BY <1>t, <1>6 DEF IrqTimer, WakeHalted, OnCpu, list
<1>7. CASE IrqKeyboardPress
  BY <1>t, <1>7 DEF IrqKeyboardPress, WakeHalted, OnCpu, list, sched
<1>8. CASE KernelFaults \/ KernelDied \/ UNCHANGED vars
  BY <1>8 DEF KernelFaults, KernelDied, vars, list, sched
<1> QED BY <1>1, <1>2, <1>3, <1>4, <1>5, <1>6, <1>7, <1>8 DEF Next

----------------------------------------------------------------------------
\* Membership of the list, without the set of insertions in flight.
LEMMA LinkedIff ==
    ASSUME NEW t
    PROVE  t \in Linked <=>
               /\ t \in Tasks /\ next[t] # NULL
               /\ \A a \in Adders : pc[a] = "add_link" => t # adding[a]
BY DEF Linked

\* The same for the next state.
LEMMA LinkedIffPrime ==
    ASSUME NEW t
    PROVE  t \in Linked' <=>
               /\ t \in Tasks /\ next'[t] # NULL
               /\ \A a \in Adders : pc'[a] = "add_link" => t # adding'[a]
BY DEF Linked

\* Outside kscheduler_add_task no store changes the list.
LEMMA ListKept ==
    ASSUME TypeOK, Control, [Next]_vars, ~KschedulerInit,
           \A a \in Adders : ~AddNext(a) /\ ~AddLink(a)
    PROVE  Linked' = Linked /\ next' = next
<1> USE TaskAssumption DEF Tasks, Adders
<1>t. pc \in [Tasks -> Labels] /\ adding \in [Adders -> Tasks \cup {NULL}]
  BY DEF TypeOK
<1>1. next' = next
  BY DEF Next, vars, list, KmainStep, KmainSetup, KmainInit, KprocessShellInit,
     KmainHalt, KmainReturn, KmainLostFrames, ShellStep, KshellDebug,
     KprocessCreate, KprocessCreateFails, AddStep, AddTail, UserStep,
     IsrSyscall, KtaskExit, HandlerStep, PickNext, KschedulerTick, IrqTimer,
     IrqKeyboardPress, KernelFaults, KernelDied
<1>2. ASSUME NEW a \in Adders
      PROVE  /\ pc'[a] = "add_link" <=> pc[a] = "add_link"
             /\ pc[a] = "add_link" => adding'[a] = adding[a]
  <2>1. CASE KmainStep
    BY <1>t, <2>1 DEF KmainStep, KmainSetup, KmainInit, KprocessShellInit,
       KmainHalt, KmainReturn, KmainLostFrames, Kmain, At, Goto, Control,
       BootInv, BootLabels
  <2>2. CASE ShellStep
    BY <1>t, <2>2 DEF ShellStep, KshellDebug, KprocessCreate,
       KprocessCreateFails, At, Goto, Control, LabelInv
  <2>3. ASSUME NEW b \in Adders, AddTail(b)
        PROVE  /\ pc'[a] = "add_link" <=> pc[a] = "add_link"
               /\ pc[a] = "add_link" => adding'[a] = adding[a]
    BY <1>t, <2>3 DEF AddTail, At, Goto
  <2>4. ASSUME NEW u \in Users, UserStep(u)
        PROVE  /\ pc'[a] = "add_link" <=> pc[a] = "add_link"
               /\ pc[a] = "add_link" => adding'[a] = adding[a]
    BY <1>t, <2>4 DEF UserStep, IsrSyscall, KtaskExit, Goto
  <2>5. CASE HandlerStep \/ IrqTimer \/ IrqKeyboardPress \/ KernelFaults \/ KernelDied
             \/ UNCHANGED vars
    BY <1>t, <2>5 DEF HandlerStep, PickNext, KschedulerTick, IrqTimer,
       IrqKeyboardPress, KernelFaults, KernelDied, WakeHalted, vars
  <2> QED BY <2>1, <2>2, <2>3, <2>4, <2>5 DEF Next, AddStep
<1> QED BY <1>1, <1>2 , LinkedIff, LinkedIffPrime

\* The list stays closed under _next, and a walk stays inside it.
LEMMA WalkStep ==
    TypeOK /\ Control /\ WalkNeverMeetsNull /\ [Next]_vars
        => WalkNeverMeetsNull'
<1> SUFFICES ASSUME TypeOK, Control, WalkNeverMeetsNull, [Next]_vars
             PROVE  WalkNeverMeetsNull'
  OBVIOUS
<1> USE TaskAssumption DEF Tasks, Adders
<1>t. /\ next \in [Tasks -> Tasks \cup {NULL}] /\ pc \in [Tasks -> Labels]
      /\ adding \in [Adders -> Tasks \cup {NULL}]
  BY DEF TypeOK
<1>1. CASE KschedulerInit
  <2>1. Linked' = {KSystem}
    BY <1>t, <1>1, LinkedIffPrime DEF KschedulerInit, Kmain, At, Runs, Goto,
       OnCpu, Control, BootInv, BootLabels, LabelInv
  <2>2. walker' = NULL
    BY <1>1 DEF KschedulerInit, Kmain, At, Runs
  <2> QED BY <1>t, <1>1, <2>1, <2>2 DEF KschedulerInit, WalkNeverMeetsNull
<1>2. ASSUME NEW a \in Adders, AddNext(a) PROVE WalkNeverMeetsNull'
  <2>1. /\ next' = [next EXCEPT ![adding[a]] = ktask_head]
        /\ pc' = [pc EXCEPT ![a] = "add_link"] /\ adding' = adding
        /\ adding[a] \in Tasks /\ next[adding[a]] = NULL /\ pc[a] = "add_next"
        /\ UNCHANGED <<ktask_head, ktask_tail, ktask_current, walker>>
    BY <1>2 DEF AddNext, At, Goto, sched, Control, AddInv, AddLabels
  <2>2. Linked' = Linked
    BY <1>t, <2>1, LinkedIff, LinkedIffPrime
  <2>3. \A t \in Linked : next'[t] = next[t]
    BY <1>t, <2>1, LinkedIff
  <2> QED BY <2>1, <2>2, <2>3 DEF WalkNeverMeetsNull
<1>3. ASSUME NEW a \in Adders, AddLink(a) PROVE WalkNeverMeetsNull'
  <2>1. /\ next' = [next EXCEPT ![ktask_tail] = adding[a]]
        /\ pc' = [pc EXCEPT ![a] = "add_tail"] /\ adding' = adding
        /\ adding[a] \in Tasks /\ next[adding[a]] = KSystem
        /\ UNCHANGED <<ktask_head, ktask_tail, ktask_current, walker>>
        /\ walker = NULL /\ pc[a] = "add_link"
    BY <1>3 DEF AddLink, At, Runs, Goto, sched, Control, AddInv, AddLabels
  <2>2. ktask_current # NULL /\ ktask_head = KSystem
    BY <2>1 DEF Control, LabelInv, BootInv, BootLabels, AddLabels
  <2>3. {KSystem, ktask_tail, ktask_current} \subseteq Linked
    BY <2>2 DEF WalkNeverMeetsNull
  <2>4. \A b \in Adders : b # a /\ pc[b] = "add_link" => adding[b] # adding[a]
    BY <2>1 DEF Control, AddInv, AddLabels
  <2>5. Linked' = Linked \cup {adding[a]}
    BY <1>t, <2>1, <2>3, <2>4, LinkedIff, LinkedIffPrime
  <2>6. \A t \in Linked' : next'[t] \in {adding[a], KSystem} \cup Linked
    BY <1>t, <2>1, <2>3, <2>5, LinkedIff DEF WalkNeverMeetsNull
  <2> QED BY <2>1, <2>2, <2>3, <2>5, <2>6 DEF WalkNeverMeetsNull
<1>4. CASE /\ ~KschedulerInit
           /\ \A a \in Adders : ~AddNext(a) /\ ~AddLink(a)
  <2>1. Linked' = Linked /\ next' = next
    BY <1>4, ListKept
  <2>2. ASSUME NEW a \in Adders, AddTail(a) PROVE WalkNeverMeetsNull'
    <3>1. /\ ktask_tail' = adding[a] /\ adding[a] \in Tasks
          /\ next[adding[a]] # NULL
          /\ UNCHANGED <<ktask_head, ktask_current, walker>>
          /\ \A b \in Adders : pc[b] = "add_link" => adding[b] # adding[a]
      BY <2>2 DEF AddTail, At, sched, Control, AddInv, AddLabels
    <3>2. adding[a] \in Linked
      BY <3>1, LinkedIff
    <3> QED BY <2>1, <3>1, <3>2 DEF WalkNeverMeetsNull
  <2>3. CASE HandlerStep
    <3>1. ktask_current # NULL /\ walker \in Linked
      BY <2>3 DEF HandlerStep, PickNext, KschedulerTick, Control, BootInv,
         WalkNeverMeetsNull
    <3> QED BY <2>1, <2>3, <3>1 DEF HandlerStep, PickNext, KschedulerTick, list,
               WalkNeverMeetsNull
  <2>4. CASE IrqTimer
    BY <2>1, <2>4 DEF IrqTimer, FirstCandidate, list, WalkNeverMeetsNull
  <2>5. CASE UNCHANGED <<ktask_head, ktask_tail, ktask_current, walker>>
    BY <2>1, <2>5 DEF WalkNeverMeetsNull
  <2>6. \/ \E a \in Adders : AddTail(a)
        \/ HandlerStep \/ IrqTimer
        \/ UNCHANGED <<ktask_head, ktask_tail, ktask_current, walker>>
    BY <1>4 DEF Next, vars, list, sched, KmainStep, KmainSetup, KmainInit,
       KprocessShellInit, KmainHalt, KmainReturn, KmainLostFrames, ShellStep,
       KshellDebug, KprocessCreate, KprocessCreateFails, AddStep, UserStep,
       IsrSyscall, KtaskExit, IrqKeyboardPress, KernelFaults, KernelDied
  <2> QED BY <2>2, <2>3, <2>4, <2>5, <2>6
<1> QED BY <1>1, <1>2, <1>3, <1>4

----------------------------------------------------------------------------
\* The first task is never marked: only a user task calls exit.
LEMMA SystemAliveStep ==
    TypeOK /\ Control /\ SystemAlive /\ [Next]_vars => SystemAlive'
<1> SUFFICES ASSUME TypeOK, Control, SystemAlive, [Next]_vars PROVE SystemAlive'
  OBVIOUS
<1> USE TaskAssumption DEF Tasks, SystemAlive
<1>t. state \in [Tasks -> {"IDLE", "RUNNING", "ZOMBIE"}]
  BY DEF TypeOK
<1>1. CASE KschedulerInit
  BY <1>1, <1>t DEF KschedulerInit
<1>2. ASSUME NEW u \in Users, KtaskExit(u) PROVE SystemAlive'
  <2>1. ktask_current = u
    BY <1>2 DEF KtaskExit, At, Runs, OnCpu
  <2> QED BY <1>2, <2>1, <1>t DEF KtaskExit
<1>3. CASE UNCHANGED state
  BY <1>3
<1>4. KschedulerInit \/ (\E u \in Users : KtaskExit(u)) \/ UNCHANGED state
  BY DEF Next, vars, list, KmainStep, KmainSetup, KmainInit, KprocessShellInit,
     KmainHalt, KmainReturn, KmainLostFrames, ShellStep, KshellDebug,
     KprocessCreate, KprocessCreateFails, AddStep, AddNext, AddLink, AddTail,
     UserStep, IsrSyscall, HandlerStep, PickNext, KschedulerTick, IrqTimer,
     IrqKeyboardPress, KernelFaults, KernelDied
<1> QED BY <1>1, <1>2, <1>3, <1>4

\* A new task is given a rank above the tail's: ranks always exist.
LEMMA OrderedStep ==
    TypeOK /\ Control /\ WalkNeverMeetsNull /\ SystemAlive /\ Ordered
        /\ [Next]_vars => Ordered'
<1> SUFFICES ASSUME TypeOK, Control, WalkNeverMeetsNull, SystemAlive, [Next]_vars,
                    NEW rank \in [Tasks -> Nat], Ranks(rank)
             PROVE  Ordered'
  BY DEF Ordered
<1> USE TaskAssumption DEF Tasks, Adders
<1>t. /\ next \in [Tasks -> Tasks \cup {NULL}] /\ pc \in [Tasks -> Labels]
      /\ adding \in [Adders -> Tasks \cup {NULL}]
  BY DEF TypeOK
<1>1. CASE KschedulerInit
  <2>1. Linked' = {KSystem}
    BY <1>t, <1>1, LinkedIffPrime DEF KschedulerInit, Kmain, At, Runs, Goto,
       OnCpu, Control, BootInv, BootLabels, LabelInv
  <2>2. next'[KSystem] = KSystem /\ walker' = NULL
    BY <1>t, <1>1 DEF KschedulerInit, Kmain, At, Runs
  <2> QED BY <2>1, <2>2 DEF Ordered, Ranks
<1>2. ASSUME NEW a \in Adders, AddNext(a) PROVE Ordered'
  <2>1. /\ next' = [next EXCEPT ![adding[a]] = ktask_head]
        /\ pc' = [pc EXCEPT ![a] = "add_link"] /\ adding' = adding
        /\ adding[a] \in Tasks /\ next[adding[a]] = NULL /\ pc[a] = "add_next"
        /\ UNCHANGED <<ktask_current, walker>>
    BY <1>2 DEF AddNext, At, Goto, sched, Control, AddInv, AddLabels
  <2>2. Linked' = Linked
    BY <1>t, <2>1, LinkedIff, LinkedIffPrime
  <2>3. \A t \in Linked : next'[t] = next[t]
    BY <1>t, <2>1, LinkedIff
  <2> QED BY <2>1, <2>2, <2>3 DEF Ordered, Ranks
<1>3. ASSUME NEW a \in Adders, AddLink(a) PROVE Ordered'
  <2>1. /\ next' = [next EXCEPT ![ktask_tail] = adding[a]]
        /\ pc' = [pc EXCEPT ![a] = "add_tail"] /\ adding' = adding
        /\ adding[a] \in Tasks /\ next[adding[a]] = KSystem
        /\ walker' = NULL /\ pc[a] = "add_link"
    BY <1>3 DEF AddLink, At, Runs, Goto, sched, Control, AddInv, AddLabels
  <2>2. ktask_current # NULL
    BY <2>1 DEF Control, LabelInv, BootInv, BootLabels, AddLabels
  <2>3. ktask_tail \in Linked /\ ktask_tail \in Tasks
    BY <2>2, LinkedIff DEF WalkNeverMeetsNull
  <2>4. adding[a] \notin Linked
    BY <2>1, LinkedIff
  <2>5. \A t \in Linked' : t \in Linked \/ t = adding[a]
    BY <1>t, <2>1, <2>3, LinkedIff, LinkedIffPrime
  <2> DEFINE higher == [rank EXCEPT ![adding[a]] = rank[ktask_tail] + 1]
  <2>6. higher \in [Tasks -> Nat]
    BY <2>1, <2>3
  <2>7. ASSUME NEW t \in Linked'
        PROVE  next'[t] = KSystem \/ higher[next'[t]] > higher[t]
    <3>1. CASE t = adding[a]
      BY <1>t, <2>1, <2>3, <2>4, <3>1
    <3>2. CASE t = ktask_tail
      BY <1>t, <2>1, <2>3, <2>4, <3>2
    <3>3. CASE t \in Linked /\ t # ktask_tail
      <4>1. next'[t] = next[t] /\ next[t] \in Linked /\ t \in Tasks
        BY <1>t, <2>1, <3>3, LinkedIff DEF WalkNeverMeetsNull
      <4>2. next[t] # adding[a] /\ t # adding[a]
        BY <2>4, <3>3, <4>1
      <4>3. higher[next[t]] = rank[next[t]] /\ higher[t] = rank[t]
        BY <4>1, <4>2, LinkedIff
      <4> QED BY <3>3, <4>1, <4>3 DEF Ranks
    <3> QED BY <2>5, <3>1, <3>2, <3>3
  <2> HIDE DEF higher
  <2> QED BY <2>1, <2>6, <2>7 DEF Ordered, Ranks
<1>4. CASE /\ ~KschedulerInit
           /\ \A a \in Adders : ~AddNext(a) /\ ~AddLink(a)
  <2>1. Linked' = Linked /\ next' = next
    BY <1>4, ListKept
  <2>2. walker' # NULL =>
            walker' = KSystem \/ rank[walker'] > rank[ktask_current']
    <3>1. CASE PickNext
      <4>1. walker \in Linked /\ walker' = next[walker] /\ ktask_current' = ktask_current
        BY <3>1 DEF PickNext, WalkNeverMeetsNull
      <4>2. ktask_current \in Linked /\ walker # NULL
        BY <3>1 DEF PickNext, WalkNeverMeetsNull, Control, BootInv
      <4>3. next[walker] \in Linked
        BY <4>1 DEF WalkNeverMeetsNull
      <4>4. {walker, ktask_current, next[walker]} \subseteq Tasks
        BY <4>1, <4>2, <4>3, LinkedIff
      <4>5. walker # KSystem
        BY <3>1 DEF PickNext, SkipsOver, SystemAlive
      <4>6. rank[walker] > rank[ktask_current]
        BY <4>2, <4>5 DEF Ranks
      <4>7. next[walker] = KSystem \/ rank[next[walker]] > rank[walker]
        BY <4>1 DEF Ranks
      <4>8. {rank[walker], rank[ktask_current], rank[next[walker]]} \subseteq Nat
        BY <4>4
      <4> QED BY <4>1, <4>6, <4>7, <4>8
    <3>2. CASE KschedulerTick
      BY <3>2 DEF KschedulerTick
    <3>3. CASE IrqTimer
      BY <3>3 DEF IrqTimer, FirstCandidate, Ranks, WalkNeverMeetsNull
    <3>4. CASE UNCHANGED <<ktask_current, walker>>
      BY <3>4 DEF Ranks
    <3>5. \/ PickNext \/ KschedulerTick \/ IrqTimer
          \/ UNCHANGED <<ktask_current, walker>>
      BY <1>4 DEF Next, vars, sched, KmainStep, KmainSetup, KmainInit,
         KprocessShellInit, KmainHalt, KmainReturn, KmainLostFrames, ShellStep,
         KshellDebug, KprocessCreate, KprocessCreateFails, AddStep, AddTail,
         UserStep, IsrSyscall, KtaskExit, IrqKeyboardPress, KernelFaults, KernelDied,
         HandlerStep
    <3> QED BY <3>1, <3>2, <3>3, <3>4, <3>5
  <2> QED BY <2>1, <2>2 DEF Ordered, Ranks
<1> QED BY <1>1, <1>2, <1>3, <1>4

\* The panic of a tick is confined to the time before the scheduler starts: a
\* walk back at a zombie it started from would have passed the first task.
LEMMA PanicStep == IndInv /\ [Next]_vars => PanicOnlyBeforeStart'
<1> SUFFICES ASSUME IndInv, [Next]_vars PROVE PanicOnlyBeforeStart'
  OBVIOUS
<1> USE TaskAssumption DEF IndInv, PanicOnlyBeforeStart
<1>1. CASE KschedulerTick
  <2>1. PICK rank \in [Tasks -> Nat] : Ranks(rank)
    BY DEF Ordered
  <2>2. ktask_current \in Tasks
    BY <1>1, LinkedIff DEF KschedulerTick, Control, BootInv, WalkNeverMeetsNull
  <2>3. state[walker] # "ZOMBIE"
    <3> SUFFICES ASSUME state[walker] = "ZOMBIE" PROVE FALSE
      OBVIOUS
    <3>1. walker = ktask_current /\ walker # NULL /\ walker # KSystem
      BY <1>1 DEF KschedulerTick, SkipsOver, SystemAlive
    <3>2. rank[ktask_current] > rank[ktask_current]
      BY <2>1, <3>1 DEF Ranks
    <3>3. rank[ktask_current] \in Nat
      BY <2>1, <2>2
    <3> QED BY <3>2, <3>3
  <2> QED BY <1>1, <2>3 DEF KschedulerTick
<1>2. CASE IrqTimer
  BY <1>2 DEF IrqTimer
<1>3. CASE KschedulerInit
  BY <1>3 DEF KschedulerInit, Kmain, At, Runs
<1>4. CASE UNCHANGED ktask_current /\ (cpu' = cpu \/ cpu' \in {"run", "fault", "wild"})
  BY <1>4
<1>5. \/ KschedulerTick \/ IrqTimer \/ KschedulerInit
      \/ UNCHANGED ktask_current /\ (cpu' = cpu \/ cpu' \in {"run", "fault", "wild"})
  BY DEF Next, vars, sched, KmainStep, KmainSetup, KmainInit,
     KprocessShellInit, KmainHalt, KmainReturn, KmainLostFrames, ShellStep,
     KshellDebug, KprocessCreate, KprocessCreateFails, AddStep, AddNext,
     AddLink, AddTail, UserStep, IsrSyscall, KtaskExit, IrqKeyboardPress,
     KernelFaults, KernelDied, HandlerStep, PickNext
<1> QED BY <1>1, <1>2, <1>3, <1>4, <1>5

\* The inductive invariant holds in every reachable state.
THEOREM IndInvariant == Spec => []IndInv
<1>1. IndInv /\ [Next]_vars => IndInv'
  BY TypeStep, ControlStep, WalkStep, SystemAliveStep, OrderedStep, PanicStep
     DEF IndInv
<1> QED BY InitIndInv, <1>1, PTL DEF Spec

\* Type correctness of the scheduler.
THEOREM TypeCorrect == Spec => []TypeOK
<1>1. IndInv => TypeOK
  BY DEF IndInv
<1> QED BY IndInvariant, <1>1, PTL

\* Every pointer kscheduler_pick_next follows is a task of the list, however
\* ticks interleave with the three stores of kscheduler_add_task.
THEOREM WalkSafe == Spec => []WalkNeverMeetsNull
<1>1. IndInv => WalkNeverMeetsNull
  BY DEF IndInv
<1> QED BY IndInvariant, <1>1, PTL

\* Once kscheduler_start has run, no tick ever panics for want of a task.
THEOREM PanicConfined == Spec => []PanicOnlyBeforeStart
<1>1. IndInv => PanicOnlyBeforeStart
  BY DEF IndInv
<1> QED BY IndInvariant, <1>1, PTL

\* A task that has exited and lost the CPU never gets it back.
THEOREM ZombieSafe == Spec => ZombieNeverResumed
<1> DEFINE Step == \A t \in Tasks : state[t] = "ZOMBIE" /\ ktask_current # t
                       => ktask_current' # t /\ state'[t] = "ZOMBIE"
<1>1. IndInv /\ [Next]_vars => [Step]_vars
  <2> SUFFICES ASSUME IndInv, Next, NEW t \in Tasks,
                      state[t] = "ZOMBIE", ktask_current # t
               PROVE  ktask_current' # t /\ state'[t] = "ZOMBIE"
    BY DEF vars
  <2> USE TaskAssumption
  <2>t. state \in [Tasks -> {"IDLE", "RUNNING", "ZOMBIE"}]
    BY DEF IndInv, TypeOK
  <2>0. t # KSystem
    BY DEF IndInv, SystemAlive
  <2>1. CASE KschedulerInit
    BY <2>1, <2>0, <2>t DEF KschedulerInit
  <2>2. CASE KschedulerTick
    BY <2>2 DEF KschedulerTick, list
  <2>3. ASSUME NEW u \in Users, KtaskExit(u)
        PROVE  ktask_current' # t /\ state'[t] = "ZOMBIE"
    BY <2>3, <2>t DEF KtaskExit, sched
  <2>4. CASE UNCHANGED <<ktask_current, state>>
    BY <2>4
  <2>5. \/ KschedulerInit \/ KschedulerTick \/ (\E u \in Users : KtaskExit(u))
        \/ UNCHANGED <<ktask_current, state>>
    BY DEF Next, vars, list, sched, KmainStep, KmainSetup, KmainInit,
       KprocessShellInit, KmainHalt, KmainReturn, KmainLostFrames, ShellStep,
       KshellDebug, KprocessCreate, KprocessCreateFails, AddStep, AddNext,
       AddLink, AddTail, UserStep, IsrSyscall, HandlerStep, PickNext,
       IrqTimer, IrqKeyboardPress, KernelFaults, KernelDied
  <2> QED BY <2>1, <2>2, <2>3, <2>4, <2>5
<1> QED BY IndInvariant, <1>1, PTL DEF Spec, ZombieNeverResumed

----------------------------------------------------------------------------
LinkedLabels == {"add_tail", "hlt", "halted", "ret", "spin"}

\* Until kmain has linked the shell it is alone in the list.
AloneInv == pc[KSystem] \notin LinkedLabels =>
                Linked \subseteq {KSystem} /\ bootstack = "intact"

\* Alone in the list, kmain is what every interrupt interrupts.
LEMMA KmainHasCpu ==
    ASSUME IndInv, AloneInv, pc[KSystem] \notin LinkedLabels
    PROVE  OnCpu = KSystem
BY DEF IndInv, AloneInv, WalkNeverMeetsNull, OnCpu

\* Every step keeps kmain alone until it leaves the labels before the link.
LEMMA AloneStep == IndInv /\ AloneInv /\ [Next]_vars => AloneInv'
<1> SUFFICES ASSUME IndInv, AloneInv, [Next]_vars, pc'[KSystem] \notin LinkedLabels
             PROVE  Linked' \subseteq {KSystem} /\ bootstack' = "intact"
  BY DEF AloneInv
<1> USE TaskAssumption DEF Tasks, Adders
<1>t. /\ next \in [Tasks -> Tasks \cup {NULL}] /\ pc \in [Tasks -> Labels]
      /\ adding \in [Adders -> Tasks \cup {NULL}]
  BY DEF IndInv, TypeOK
<1>l. pc[KSystem] \in BootLabels \cup AddLabels \cup
                      {"mkshell", "hlt", "halted", "ret", "spin"}
  BY DEF IndInv, Control, LabelInv
<1>1. pc[KSystem] \notin LinkedLabels
  <2> SUFFICES ASSUME pc[KSystem] \in LinkedLabels PROVE pc'[KSystem] \in LinkedLabels
    OBVIOUS
  <2> USE <1>t DEF LinkedLabels
  <2>1. CASE KmainStep
    BY <2>1 DEF KmainStep, KmainSetup, KmainInit, KschedulerInit, KprocessShellInit,
       KmainHalt, KmainReturn, KmainLostFrames, Kmain, At, Goto
  <2>2. CASE ShellStep
    BY <2>2 DEF ShellStep, KshellDebug, KprocessCreate, KprocessCreateFails, Goto
  <2>3. ASSUME NEW a \in Adders, AddStep(a) PROVE pc'[KSystem] \in LinkedLabels
    BY <2>3 DEF AddStep, AddNext, AddLink, AddTail, At, Goto
  <2>4. ASSUME NEW u \in Users, UserStep(u) PROVE pc'[KSystem] \in LinkedLabels
    BY <2>4 DEF UserStep, IsrSyscall, KtaskExit, Goto
  <2>5. CASE HandlerStep \/ IrqTimer \/ IrqKeyboardPress \/ KernelFaults \/ KernelDied \/ UNCHANGED vars
    BY <2>5 DEF HandlerStep, PickNext, KschedulerTick, IrqTimer, IrqKeyboardPress,
       WakeHalted, KernelFaults, KernelDied, vars
  <2> QED BY <2>1, <2>2, <2>3, <2>4, <2>5 DEF Next
<1>2. OnCpu = KSystem /\ Linked \subseteq {KSystem} /\ bootstack = "intact"
  BY <1>1, KmainHasCpu DEF AloneInv
<1>3. /\ \A u \in Users : ~UserStep(u)
      /\ ~AddStep(KShell) /\ ~ShellStep /\ ~AddLink(KSystem)
  <2>1. ~AddLink(KSystem)
    BY <1>t DEF AddLink, Goto, LinkedLabels
  <2> QED BY <1>2, <2>1 DEF UserStep, IsrSyscall, KtaskExit, AddStep, AddNext, AddLink,
             AddTail, ShellStep, KshellDebug, KprocessCreate, KprocessCreateFails,
             At, Runs
<1>4. bootstack' = "intact"
  <2>1. bootstack' = bootstack \/ EnterFromRing3
    BY <1>3 DEF Next, vars, KmainStep, KmainSetup, KmainInit, KschedulerInit,
       KprocessShellInit, KmainHalt, KmainReturn, KmainLostFrames, AddStep, AddNext,
       AddLink, AddTail, HandlerStep, PickNext, KschedulerTick, IrqTimer,
       IrqKeyboardPress, KernelFaults, KernelDied
  <2>2. pc[OnCpu] # "user"
    BY <1>2, <1>l DEF BootLabels, AddLabels
  <2> QED BY <1>2, <2>1, <2>2 DEF EnterFromRing3
<1>5. CASE KschedulerInit
  BY <1>t, <1>4, <1>5, LinkedIffPrime DEF KschedulerInit, Kmain, At, Runs, Goto,
     OnCpu, IndInv, Control, BootInv, BootLabels, LabelInv
<1>6. CASE AddNext(KSystem)
  <2>1. /\ next' = [next EXCEPT ![adding[KSystem]] = ktask_head]
        /\ pc' = [pc EXCEPT ![KSystem] = "add_link"] /\ adding' = adding
        /\ adding[KSystem] = KShell /\ next[KShell] = NULL
    BY <1>6 DEF AddNext, At, Goto, IndInv, Control, AddInv, AddLabels
  <2> QED BY <1>t, <1>2, <1>4, <2>1, LinkedIff, LinkedIffPrime
<1>7. CASE ~KschedulerInit /\ ~AddNext(KSystem)
  <2>1. Linked' = Linked
    BY <1>3, <1>7, ListKept DEF IndInv, AddStep
  <2> QED BY <1>2, <1>4, <2>1
<1> QED BY <1>5, <1>6, <1>7

\* The frames of kmain survive every interleaving of ticks, keys and lines
\* typed ahead until it has linked the shell: nothing enters from ring 3 while
\* kmain is alone on the ring.
THEOREM BootFramesSafe == Spec => []BootFramesSafeUntilLinked
<1>1. Init => AloneInv
  BY DEF Init, AloneInv, Linked
<1>2. IndInv /\ AloneInv => BootFramesSafeUntilLinked
  BY DEF AloneInv, LinkedLabels, BootFramesSafeUntilLinked
<1> QED BY IndInvariant, <1>1, <1>2, AloneStep, PTL DEF Spec
=============================================================================
