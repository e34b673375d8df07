----------------------------- MODULE RingProofs ----------------------------
(***************************************************************************)
(* Proofs about the ring of tasks when no line is typed before kmain is    *)
(* done (TypeAhead = FALSE), for any number of user tasks: every added     *)
(* task is on the ring, and the interrupt-driven walk implements round     *)
(* robin.  With lines typed ahead the first of the two is false: the run   *)
(* sched_lost_task shows the task that is lost.                            *)
(***************************************************************************)
EXTENDS MCScheduler, SchedulerProofs, SequenceTheorems, FiniteSetTheorems,
        WellFoundedInduction

\* s lists the tasks of the ring from the head on.
IsRing(s) ==
    /\ s \in Seq(Tasks) /\ Len(s) # 0 /\ s[1] = ktask_head /\ s[1] # NULL
    /\ \A i, j \in 1 .. Len(s) : s[i] = s[j] => i = j
    /\ \A i \in 1 .. (Len(s) - 1) : next[s[i]] = s[i + 1]
    /\ next[s[Len(s)]] = s[1]

\* The place n steps behind place i of a ring of l tasks.
Place(i, n, l) == ((i - 1 + n) % l) + 1

----------------------------------------------------------------------------
(* Places on a ring                                                        *)

\* A product of natural numbers is one.
LEMMA NonnegProduct ==
    ASSUME NEW a \in Nat, NEW b \in Nat
    PROVE  a * b \in Nat
OBVIOUS

\* The remainder of a sum of whole turns and a rest is the rest.
LEMMA RestOfTurns ==
    ASSUME NEW l \in Nat \ {0}, NEW q \in Nat, NEW r \in 0 .. (l - 1)
    PROVE  (l * q + r) % l = r
<1> PICK x \in Nat : x = l * q + r
  BY NonnegProduct
<1> PICK d \in Int, m \in Int : d = x \div l /\ m = x % l
  OBVIOUS
<1>1. m \in 0 .. (l - 1) /\ x = l * d + m
  OBVIOUS
<1>2. l * (q - d) = m - r
  BY <1>1
<1>3. ~(q - d >= 1)
  <2> SUFFICES ASSUME q - d >= 1 PROVE FALSE
    OBVIOUS
  <2>1. q - d - 1 \in Nat
    OBVIOUS
  <2>2. l * (q - d - 1) \in Nat
    BY <2>1, NonnegProduct
  <2>3. l * (q - d) = l * (q - d - 1) + l
    OBVIOUS
  <2> QED BY <1>1, <1>2, <2>2, <2>3
<1>4. ~(d - q >= 1)
  <2> SUFFICES ASSUME d - q >= 1 PROVE FALSE
    OBVIOUS
  <2>1. d - q - 1 \in Nat
    OBVIOUS
  <2>2. l * (d - q - 1) \in Nat
    BY <2>1, NonnegProduct
  <2>3. l * (q - d) = 0 - (l * (d - q - 1) + l)
    OBVIOUS
  <2> QED BY <1>1, <1>2, <2>2, <2>3
<1>5. q = d
  BY <1>3, <1>4
<1> QED BY <1>1, <1>2, <1>5

\* The remainder of the next number.
LEMMA NextRest ==
    ASSUME NEW l \in Nat \ {0}, NEW x \in Nat
    PROVE  /\ x % l \in 0 .. (l - 1)
           /\ (x + 1) % l = IF x % l = l - 1 THEN 0 ELSE (x % l) + 1
<1> PICK q \in Nat, r \in 0 .. (l - 1) : q = x \div l /\ r = x % l
  OBVIOUS
<1>1. x = l * q + r
  OBVIOUS
<1>2. CASE r = l - 1
  <2>1. x + 1 = l * (q + 1) + 0 /\ q + 1 \in Nat /\ 0 \in 0 .. (l - 1)
    BY <1>1, <1>2
  <2>2. (l * (q + 1) + 0) % l = 0
    BY <2>1, RestOfTurns
  <2> QED BY <1>2, <2>1, <2>2
<1>3. CASE r # l - 1
  <2>1. x + 1 = l * q + (r + 1) /\ (r + 1) \in 0 .. (l - 1)
    BY <1>1, <1>3
  <2>2. (l * q + (r + 1)) % l = r + 1
    BY <2>1, RestOfTurns
  <2> QED BY <1>3, <2>1, <2>2
<1> QED BY <1>2, <1>3

\* A step forward on the ring.
LEMMA PlaceStep ==
    ASSUME NEW l \in Nat \ {0}, NEW i \in Nat \ {0}, NEW n \in Nat
    PROVE  /\ Place(i, n, l) \in 1 .. l
           /\ Place(i, n + 1, l) = IF Place(i, n, l) = l THEN 1 ELSE Place(i, n, l) + 1
<1> PICK x \in Nat : x = i - 1 + n
  OBVIOUS
<1>1. x % l \in 0 .. (l - 1) /\ (x + 1) % l = IF x % l = l - 1 THEN 0 ELSE (x % l) + 1
  BY NextRest
<1>2. i - 1 + (n + 1) = x + 1
  OBVIOUS
<1>3. Place(i, n, l) = (x % l) + 1 /\ Place(i, n + 1, l) = ((x + 1) % l) + 1
  BY <1>2 DEF Place
<1> QED BY <1>1, <1>3

\* Less than one turn from the start.
LEMMA PlaceInFirstTurn ==
    ASSUME NEW l \in Nat \ {0}
    PROVE  /\ \A n \in 0 .. (l - 1) : Place(1, n, l) = n + 1
           /\ Place(1, l, l) = 1
           /\ \A i \in 1 .. l : Place(i, 0, l) = i /\ Place(i, l, l) = i
<1>1. \A x \in 0 .. (l - 1) : x % l = x
  OBVIOUS
<1>2. \A x \in l .. (2 * l - 1) : x % l = x - l
  OBVIOUS
<1>3. \A n \in 0 .. (l - 1) : Place(1, n, l) = n + 1
  <2> TAKE n \in 0 .. (l - 1)
  <2>1. 1 - 1 + n = n
    OBVIOUS
  <2> QED BY <1>1, <2>1 DEF Place
<1>4. Place(1, l, l) = 1
  <2>1. 1 - 1 + l = l /\ l \in l .. (2 * l - 1)
    OBVIOUS
  <2> QED BY <1>2, <2>1 DEF Place
<1>5. ASSUME NEW i \in 1 .. l PROVE Place(i, 0, l) = i /\ Place(i, l, l) = i
  <2>1. i - 1 + 0 \in 0 .. (l - 1) /\ i - 1 + l \in l .. (2 * l - 1)
    OBVIOUS
  <2>2. (i - 1 + 0) % l = i - 1 /\ (i - 1 + l) % l = i - 1
    BY <1>1, <1>2, <2>1
  <2> QED BY <2>2 DEF Place
<1> QED BY <1>3, <1>4, <1>5

----------------------------------------------------------------------------
(* What following _next from the head meets                                *)

\* A sequence without repetitions of tasks is no longer than there are tasks.
LEMMA RingFits ==
    ASSUME NEW s, IsRing(s)
    PROVE  /\ Cardinality(Tasks) \in Nat /\ Len(s) \in 1 .. Cardinality(Tasks)
           /\ \A i \in 1 .. Len(s) : s[i] \in Tasks
<1>1. IsFiniteSet(Tasks)
  <2>1. IsFiniteSet({KSystem})
    BY FS_Singleton
  <2>2. IsFiniteSet({KSystem} \cup {KShell})
    BY <2>1, FS_AddElement
  <2>3. {KSystem} \cup {KShell} = {KSystem, KShell}
    OBVIOUS
  <2> QED BY <2>2, <2>3, TaskAssumption, FS_Union DEF Tasks
<1>2. Len(s) \in Nat \ {0} /\ s \in [1 .. Len(s) -> Tasks]
  BY DEF IsRing
<1>3. s \in Injection(1 .. Len(s), Tasks)
  <2>1. \A i, j \in 1 .. Len(s) : s[i] = s[j] => i = j
    BY DEF IsRing
  <2> QED BY <1>2, <2>1 DEF Injection, IsInjective
<1>4. Cardinality(1 .. Len(s)) <= Cardinality(Tasks) /\ Cardinality(Tasks) \in Nat
  BY <1>1, <1>3, FS_Injection, FS_CardinalityType
<1>5. Cardinality(1 .. Len(s)) = Len(s)
  BY <1>2, FS_Interval
<1> QED BY <1>2, <1>4, <1>5

\* The successor of a task of the ring is the task at the next place.
LEMMA RingStep ==
    ASSUME NEW s, IsRing(s), NEW i \in 1 .. Len(s), NEW n \in Nat
    PROVE  /\ Place(i, n, Len(s)) \in 1 .. Len(s)
           /\ s[Place(i, n, Len(s))] \in Tasks
           /\ next[s[Place(i, n, Len(s))]] = s[Place(i, n + 1, Len(s))]
<1> PICK l \in Nat \ {0} : l = Len(s)
  BY DEF IsRing
<1>0. i \in Nat \ {0}
  OBVIOUS
<1> PICK p \in 1 .. l : p = Place(i, n, l)
  BY <1>0, PlaceStep
<1>1. Place(i, n + 1, l) = IF p = l THEN 1 ELSE p + 1
  BY <1>0, PlaceStep
<1>2. next[s[p]] = IF p = l THEN s[1] ELSE s[p + 1]
  BY DEF IsRing
<1> QED BY <1>1, <1>2, RingFits

\* The equation of hop has a solution on a ring, so hop solves it.
LEMMA HopEquation ==
    ASSUME NEW s, IsRing(s)
    PROVE  hop = [n \in 0 .. Cardinality(Tasks) |->
                     IF n = 0 THEN ktask_head
                     ELSE IF hop[n-1] = NULL THEN NULL ELSE next[hop[n-1]]]
<1> DEFINE N == Cardinality(Tasks)
           h == [n \in 0 .. N |-> s[Place(1, n, Len(s))]]
           Eq(f) == f = [n \in 0 .. N |->
                            IF n = 0 THEN ktask_head
                            ELSE IF f[n-1] = NULL THEN NULL ELSE next[f[n-1]]]
<1>1. Eq(h)
  <2>1. N \in Nat /\ Len(s) \in Nat \ {0}
    BY RingFits
  <2>2. s[Place(1, 0, Len(s))] = ktask_head
    BY <2>1, PlaceInFirstTurn DEF IsRing
  <2>3. ASSUME NEW n \in 1 .. N
        PROVE  s[Place(1, n, Len(s))] = IF h[n-1] = NULL THEN NULL ELSE next[h[n-1]]
    <3>1. n - 1 \in 0 .. N /\ n - 1 \in Nat /\ (n - 1) + 1 = n /\ 1 \in 1 .. Len(s)
      BY <2>1
    <3>2. h[n-1] = s[Place(1, n - 1, Len(s))]
      BY <3>1
    <3>3. s[Place(1, n - 1, Len(s))] \in Tasks
          /\ next[s[Place(1, n - 1, Len(s))]] = s[Place(1, n, Len(s))]
      BY <3>1, RingStep
    <3>4. NULL \notin Tasks
      BY TaskAssumption DEF Tasks
    <3> QED BY <3>2, <3>3, <3>4
  <2>4. \A n \in 0 .. N : n = 0 \/ n \in 1 .. N
    BY <2>1
  <2> HIDE DEF N
  <2> QED BY <2>1, <2>2, <2>3, <2>4
<1>2. \E f : Eq(f)
  BY <1>1
<1> QED BY <1>2 DEF hop

\* hop follows the ring round and round.
LEMMA HopFollows ==
    ASSUME NEW s, IsRing(s)
    PROVE  \A n \in 0 .. Cardinality(Tasks) : hop[n] = s[Place(1, n, Len(s))]
<1> DEFINE N == Cardinality(Tasks)
           Bad == {n \in 0 .. N : hop[n] # s[Place(1, n, Len(s))]}
<1>1. N \in Nat /\ Len(s) \in Nat \ {0}
  BY RingFits
<1>2. hop = [n \in 0 .. N |->
                IF n = 0 THEN ktask_head
                ELSE IF hop[n-1] = NULL THEN NULL ELSE next[hop[n-1]]]
  BY HopEquation
<1>3. hop[0] = s[Place(1, 0, Len(s))]
  <2>1. s[Place(1, 0, Len(s))] = ktask_head
    BY <1>1, PlaceInFirstTurn DEF IsRing
  <2>2. 0 \in 0 .. N
    BY <1>1
  <2> HIDE DEF N
  <2> QED BY <1>2, <2>1, <2>2
<1>4. ASSUME NEW n \in 0 .. N, n # 0, hop[n-1] = s[Place(1, n - 1, Len(s))]
      PROVE  hop[n] = s[Place(1, n, Len(s))]
  <2>1. n - 1 \in Nat /\ (n - 1) + 1 = n /\ 1 \in 1 .. Len(s)
    BY <1>1, <1>4
  <2>2. /\ s[Place(1, n - 1, Len(s))] \in Tasks
        /\ next[s[Place(1, n - 1, Len(s))]] = s[Place(1, n, Len(s))]
    BY <2>1, RingStep
  <2>3. NULL \notin Tasks
    BY TaskAssumption DEF Tasks
  <2>4. hop[n] = IF hop[n-1] = NULL THEN NULL ELSE next[hop[n-1]]
    BY <1>2, <1>4
  <2> QED BY <1>4, <2>2, <2>3, <2>4
<1>5. Bad = {}
  <2> SUFFICES ASSUME Bad # {} PROVE FALSE
    OBVIOUS
  <2>1. Bad \subseteq Nat
    BY <1>1
  <2>2. PICK b \in Bad : \A y \in Bad : ~(<<y, b>> \in OpToRel(<, Nat))
    BY <2>1, WFMin, NatLessThanWellFounded
  <2>3. \A y \in Bad : ~(y < b)
    BY <2>1, <2>2 DEF OpToRel
  <2>4. b \in 0 .. N /\ hop[b] # s[Place(1, b, Len(s))]
    OBVIOUS
  <2> HIDE DEF Bad, N
  <2>5. b # 0
    BY <1>3, <2>4
  <2>6. b - 1 \in 0 .. N /\ b - 1 < b
    BY <1>1, <2>4, <2>5
  <2>7. b - 1 \notin Bad
    BY <2>3, <2>6
  <2>8. hop[b-1] = s[Place(1, b - 1, Len(s))]
    BY <2>6, <2>7 DEF Bad
  <2> QED BY <1>4, <2>4, <2>5, <2>8
<1> QED BY <1>5

\* The list read off by hop is the ring.
LEMMA RingRead == \A s : IsRing(s) => Ring = s
<1> SUFFICES ASSUME NEW s, IsRing(s) PROVE Ring = s
  OBVIOUS
<1> PICK l \in Nat \ {0} : l = Len(s)
  BY DEF IsRing
<1>1. /\ l \in 1 .. Cardinality(Tasks) /\ Cardinality(Tasks) \in Nat
      /\ \A i \in 1 .. l : s[i] \in Tasks
  BY RingFits
<1>2. \A n \in 0 .. (l - 1) : hop[n] = s[n + 1]
  BY <1>1, HopFollows, PlaceInFirstTurn
<1>3. hop[l] = s[1] /\ s[1] = ktask_head /\ ktask_head # NULL
  BY <1>1, HopFollows, PlaceInFirstTurn DEF IsRing
<1>4. \A m \in 1 .. (l - 1) : hop[m] # ktask_head
  BY <1>2, <1>3 DEF IsRing
<1>5. \A n \in 1 .. Cardinality(Tasks) :
          hop[n] = ktask_head /\ (\A m \in 1 .. (n - 1) : hop[m] # ktask_head) <=> n = l
  <2> TAKE n \in 1 .. Cardinality(Tasks)
  <2>1. CASE n < l
    <3>1. n \in 1 .. (l - 1)
      BY <1>1, <2>1
    <3> QED BY <1>4, <2>1, <3>1
  <2>2. CASE n = l
    BY <1>3, <1>4, <2>2
  <2>3. CASE n > l
    <3>1. l \in 1 .. (n - 1)
      BY <1>1, <2>3
    <3> QED BY <1>3, <2>3, <3>1
  <2> QED BY <1>1, <2>1, <2>2, <2>3
<1>6. RingLength = l
  BY <1>1, <1>3, <1>5 DEF RingLength
<1>7. Ring = [i \in 1 .. l |-> s[i]]
  <2>1. \A i \in 1 .. l : hop[i - 1] = s[i]
    BY <1>2
  <2> QED BY <1>6, <2>1 DEF Ring
<1>8. s = [i \in 1 .. l |-> s[i]]
  BY DEF IsRing
<1> QED BY <1>7, <1>8

----------------------------------------------------------------------------
(* The invariant                                                           *)

\* No line before kmain is done: the shell adds tasks only after kmain's add.
OneAdder == pc[KSystem] # "spin" => pending = 0 /\ pc[KShell] \in {"none", "getchar"}

\* The ring holds the linked tasks; its last task is ktask_tail, or the task
\* being added when ktask_tail is the one store behind.
Holds(s) ==
    /\ IsRing(s)
    /\ \A t \in Tasks : t \in Linked <=> \E i \in 1 .. Len(s) : s[i] = t
    /\ \A a \in Adders : pc[a] = "add_tail" => adding[a] = s[Len(s)]
    /\ (\A a \in Adders : pc[a] # "add_tail") => ktask_tail = s[Len(s)]

\* A walk has gone k places from the current task, over zombies only.
Walked(s) ==
    walker # NULL =>
        \E i \in 1 .. Len(s) : \E k \in 1 .. Len(s) :
            /\ s[i] = ktask_current /\ walker = s[Place(i, k, Len(s))]
            /\ \A m \in 1 .. (k - 1) : state[s[Place(i, m, Len(s))]] = "ZOMBIE"

RingInv == /\ OneAdder
           /\ ktask_current # NULL => \E s : Holds(s) /\ Walked(s)

\* kmain ends before the shell reads its first line.
LEMMA OneAdderStep ==
    TypeAhead = FALSE /\ IndInv /\ OneAdder /\ [Next]_vars => OneAdder'
<1> SUFFICES ASSUME TypeAhead = FALSE, IndInv, OneAdder, [Next]_vars PROVE OneAdder'
  OBVIOUS
<1> USE TaskAssumption DEF Tasks, Adders, OneAdder
<1>t. pc \in [Tasks -> Labels] /\ pending \in 0 .. MaxTyped /\ MaxTyped \in Nat
  BY NumberAssumption DEF IndInv, TypeOK
<1>1. CASE KmainStep
  BY <1>t, <1>1 DEF KmainStep, KmainSetup, KmainInit, KschedulerInit,
     KprocessShellInit, KmainHalt, KmainReturn, KmainLostFrames, Kmain, At, Goto
<1>2. CASE ShellStep
  BY <1>t, <1>2 DEF ShellStep, KshellDebug, KprocessCreate, KprocessCreateFails, At, Goto
<1>3. ASSUME NEW a \in Adders, AddStep(a) PROVE OneAdder'
  BY <1>t, <1>3 DEF AddStep, AddNext, AddLink, AddTail, At, Goto
<1>4. ASSUME NEW u \in Users, UserStep(u) PROVE OneAdder'
  BY <1>t, <1>4 DEF UserStep, IsrSyscall, KtaskExit, Goto
<1>5. CASE HandlerStep \/ IrqTimer \/ KernelFaults \/ KernelDied \/ UNCHANGED vars
  BY <1>t, <1>5 DEF HandlerStep, PickNext, KschedulerTick, IrqTimer, WakeHalted,
     KernelFaults, KernelDied, vars
<1>6. CASE IrqKeyboardPress
  BY <1>t, <1>6 DEF IrqKeyboardPress, WakeHalted
<1> QED BY <1>1, <1>2, <1>3, <1>4, <1>5, <1>6 DEF Next

\* kscheduler_init makes a ring of one.
LEMMA InitMakesRing ==
    ASSUME IndInv, KschedulerInit
    PROVE  Holds(<<KSystem>>)' /\ Walked(<<KSystem>>)'
<1> USE TaskAssumption DEF Tasks, Adders
<1>t. /\ next \in [Tasks -> Tasks \cup {NULL}] /\ pc \in [Tasks -> Labels]
      /\ adding \in [Adders -> Tasks \cup {NULL}]
  BY DEF IndInv, TypeOK
<1>1. Linked' = {KSystem}
  BY <1>t, LinkedIffPrime DEF KschedulerInit, Kmain, At, Runs, Goto,
     OnCpu, IndInv, Control, BootInv, BootLabels, LabelInv
<1>2. /\ next'[KSystem] = KSystem /\ walker' = NULL /\ ktask_head' = KSystem
      /\ ktask_tail' = KSystem
      /\ \A a \in Adders : pc'[a] # "add_tail"
  BY <1>t DEF KschedulerInit, Kmain, At, Runs, Goto, IndInv, Control, BootInv, BootLabels
<1>3. /\ <<KSystem>> \in Seq(Tasks) /\ Len(<<KSystem>>) = 1
      /\ <<KSystem>>[1] = KSystem
  OBVIOUS
<1>4. IsRing(<<KSystem>>)'
  BY <1>2, <1>3 DEF IsRing
<1> QED BY <1>1, <1>2, <1>3, <1>4 DEF Holds, Walked

\* The second store of kscheduler_add_task puts the task at the end of the
\* ring.
LEMMA LinkExtendsRing ==
    ASSUME IndInv, OneAdder, NEW s, Holds(s), NEW a \in Adders, AddLink(a)
    PROVE  /\ \E r : r = Append(s, adding[a]) /\ Holds(r)' /\ Walked(r)'
           /\ adding[a] \in Tasks
           /\ \A i \in 1 .. Len(s) : s[i] # adding[a]
           /\ UNCHANGED <<ktask_current, state>>
<1> USE TaskAssumption DEF Tasks, Adders
<1> PICK l \in Nat \ {0} : l = Len(s)
  BY DEF Holds, IsRing
<1> PICK u, r : u = adding[a] /\ r = Append(s, u)
  OBVIOUS
<1>t. /\ next \in [Tasks -> Tasks \cup {NULL}] /\ pc \in [Tasks -> Labels]
      /\ adding \in [Adders -> Tasks \cup {NULL}]
  BY DEF IndInv, TypeOK
<1>1. /\ next' = [next EXCEPT ![ktask_tail] = u]
      /\ pc' = [pc EXCEPT ![a] = "add_tail"] /\ adding' = adding
      /\ u \in Tasks /\ next[u] = KSystem
      /\ walker' = NULL /\ walker = NULL /\ pc[a] = "add_link"
      /\ UNCHANGED <<ktask_head, ktask_tail, ktask_current, state>>
  BY DEF AddLink, At, Runs, Goto, sched, IndInv, Control, AddInv, AddLabels
<1>2. ktask_current # NULL /\ ktask_head = KSystem
  BY <1>1 DEF IndInv, Control, LabelInv, BootInv, BootLabels, AddLabels
<1>3. \A b \in Adders : b # a => pc[b] \notin AddLabels
  BY <1>1 DEF OneAdder, AddLabels, IndInv, Control, LabelInv
<1>4. ktask_tail = s[l]
  BY <1>1, <1>3 DEF Holds, AddLabels
<1>5. u \notin Linked
  BY <1>1, LinkedIff
<1>6. /\ \A i \in 1 .. l : s[i] \in Tasks /\ s[i] \in Linked /\ s[i] # u
      /\ \A i, j \in 1 .. l : s[i] = s[j] => i = j
      /\ \A i \in 1 .. (l - 1) : next[s[i]] = s[i + 1]
      /\ s[1] = KSystem /\ s \in Seq(Tasks)
  BY <1>2, <1>5, RingFits DEF Holds, IsRing
<1>7. /\ r \in Seq(Tasks) /\ Len(r) = l + 1
      /\ \A i \in 1 .. l : r[i] = s[i]
      /\ r[l + 1] = u
  BY <1>1, <1>6, AppendProperties
<1>8. \A i \in 1 .. (l - 1) : next'[s[i]] = s[i + 1]
  BY <1>t, <1>1, <1>4, <1>6
<1>9. next'[s[l]] = u /\ next'[u] = KSystem
  BY <1>t, <1>1, <1>4, <1>6
<1>10. Linked' = Linked \cup {u}
  <2>1. ktask_tail \in Linked
    BY <1>4, <1>6
  <2> QED BY <1>t, <1>1, <1>3, <2>1, LinkedIff, LinkedIffPrime DEF AddLabels
<1>11. IsRing(r)'
  <2>1. \A i, j \in 1 .. (l + 1) : r[i] = r[j] => i = j
    BY <1>6, <1>7
  <2>2. \A i \in 1 .. l : next'[r[i]] = r[i + 1]
    BY <1>6, <1>7, <1>8, <1>9
  <2>3. next'[r[l + 1]] = r[1] /\ r[1] = KSystem
    BY <1>6, <1>7, <1>9
  <2> QED BY <1>1, <1>2, <1>7, <2>1, <2>2, <2>3 DEF IsRing
<1>12. \A t \in Tasks : t \in Linked' <=> \E i \in 1 .. (l + 1) : r[i] = t
  <2>1. \A t \in Tasks : t \in Linked <=> \E i \in 1 .. l : s[i] = t
    BY DEF Holds
  <2> QED BY <1>7, <1>10, <2>1
<1>13. \A b \in Adders : pc'[b] = "add_tail" => b = a
  BY <1>t, <1>1, <1>3 DEF AddLabels
<1>14. adding'[a] = r[l + 1] /\ pc'[a] = "add_tail"
  BY <1>t, <1>1, <1>7
<1>15. Holds(r)'
  BY <1>7, <1>11, <1>12, <1>13, <1>14 DEF Holds
<1> QED BY <1>1, <1>6, <1>15 DEF Walked

\* Every other step leaves the ring as it is.
LEMMA RingKept ==
    ASSUME IndInv, [Next]_vars, ~KschedulerInit, \A a \in Adders : ~AddLink(a),
           NEW s, Holds(s)
    PROVE  Holds(s)'
<1> USE TaskAssumption DEF Tasks, Adders
<1>t. /\ next \in [Tasks -> Tasks \cup {NULL}] /\ pc \in [Tasks -> Labels]
      /\ adding \in [Adders -> Tasks \cup {NULL}]
  BY DEF IndInv, TypeOK
<1>1. /\ \A i \in 1 .. Len(s) : s[i] \in Tasks /\ s[i] \in Linked
      /\ Len(s) \in Nat \ {0}
  BY RingFits DEF Holds, IsRing
<1>2. ktask_head' = ktask_head
  BY DEF Next, vars, list, KmainStep, KmainSetup, KmainInit, KprocessShellInit,
     KmainHalt, KmainReturn, KmainLostFrames, ShellStep, KshellDebug,
     KprocessCreate, KprocessCreateFails, AddStep, AddNext, AddTail, UserStep,
     IsrSyscall, KtaskExit, HandlerStep, PickNext, KschedulerTick, IrqTimer,
     IrqKeyboardPress, KernelFaults, KernelDied
<1>3. CASE \E a \in Adders : AddNext(a)
  <2> PICK a \in Adders : AddNext(a)
    BY <1>3
  <2>1. /\ next' = [next EXCEPT ![adding[a]] = ktask_head]
        /\ pc' = [pc EXCEPT ![a] = "add_link"] /\ adding' = adding
        /\ adding[a] \in Tasks /\ next[adding[a]] = NULL /\ pc[a] = "add_next"
        /\ ktask_tail' = ktask_tail
    BY DEF AddNext, At, Goto, sched, IndInv, Control, AddInv, AddLabels
  <2>2. Linked' = Linked
    BY <1>t, <2>1, LinkedIff, LinkedIffPrime
  <2>3. \A t \in Linked : next'[t] = next[t]
    BY <1>t, <2>1, LinkedIff
  <2>4. \A b \in Adders : pc'[b] = "add_tail" <=> pc[b] = "add_tail"
    BY <1>t, <2>1
  <2>5. IsRing(s)'
    BY <1>1, <1>2, <2>3 DEF Holds, IsRing
  <2> QED BY <2>1, <2>2, <2>4, <2>5 DEF Holds
<1>4. CASE \E a \in Adders : AddTail(a)
  <2> PICK a \in Adders : AddTail(a)
    BY <1>4
  <2>1. /\ next' = next /\ ktask_tail' = adding[a] /\ pc[a] = "add_tail"
        /\ adding' = [adding EXCEPT ![a] = NULL]
        /\ pc' = [pc EXCEPT ![a] = IF a = KSystem THEN "hlt" ELSE "getchar"]
    BY DEF AddTail, At, Goto
  <2>2. Linked' = Linked
    <3>2. \A b \in Adders : pc'[b] = "add_link" <=> pc[b] = "add_link"
      BY <1>t, <2>1
    <3>3. \A b \in Adders : pc[b] = "add_link" => adding'[b] = adding[b]
      BY <1>t, <2>1
    <3> QED BY <2>1, <3>2, <3>3, LinkedIff, LinkedIffPrime
  <2>3. adding[a] = s[Len(s)]
    BY <2>1 DEF Holds
  <2>4. \A b \in Adders : pc'[b] = "add_tail" =>
            b # a /\ pc[b] = "add_tail" /\ adding'[b] = adding[b]
    BY <1>t, <2>1
  <2>5. IsRing(s)'
    BY <1>2, <2>1 DEF Holds, IsRing
  <2>6. \A b \in Adders : pc'[b] = "add_tail" => adding'[b] = s[Len(s)]
    BY <2>4 DEF Holds
  <2> QED BY <2>1, <2>2, <2>3, <2>5, <2>6 DEF Holds
<1>5. CASE \A a \in Adders : ~AddNext(a) /\ ~AddTail(a)
  <2>1. Linked' = Linked /\ next' = next
    BY <1>5, ListKept DEF IndInv
  <2>2. ktask_tail' = ktask_tail
    BY <1>5 DEF Next, vars, list, KmainStep, KmainSetup, KmainInit, KprocessShellInit,
       KmainHalt, KmainReturn, KmainLostFrames, ShellStep, KshellDebug,
       KprocessCreate, KprocessCreateFails, AddStep, UserStep,
       IsrSyscall, KtaskExit, HandlerStep, PickNext, KschedulerTick, IrqTimer,
       IrqKeyboardPress, KernelFaults, KernelDied
  <2>3. ASSUME NEW b \in Adders
        PROVE  /\ pc'[b] = "add_tail" <=> pc[b] = "add_tail"
               /\ pc[b] = "add_tail" => adding'[b] = adding[b]
    <3>1. CASE KmainStep
      BY <1>t, <3>1 DEF KmainStep, KmainSetup, KmainInit, KprocessShellInit,
         KmainHalt, KmainReturn, KmainLostFrames, Kmain, At, Goto, IndInv, Control,
         BootInv, BootLabels
    <3>2. CASE ShellStep
      BY <1>t, <3>2 DEF ShellStep, KshellDebug, KprocessCreate,
         KprocessCreateFails, At, Goto
    <3>3. ASSUME NEW u \in Users, UserStep(u)
          PROVE  /\ pc'[b] = "add_tail" <=> pc[b] = "add_tail"
                 /\ pc[b] = "add_tail" => adding'[b] = adding[b]
      BY <1>t, <3>3 DEF UserStep, IsrSyscall, KtaskExit, Goto
    <3>4. CASE HandlerStep \/ IrqTimer \/ IrqKeyboardPress \/ KernelFaults \/ KernelDied
               \/ UNCHANGED vars
      BY <1>t, <3>4 DEF HandlerStep, PickNext, KschedulerTick, IrqTimer,
         IrqKeyboardPress, KernelFaults, KernelDied, WakeHalted, vars
    <3> QED BY <1>5, <3>1, <3>2, <3>3, <3>4 DEF Next, AddStep
  <2>4. IsRing(s)'
    BY <1>2, <2>1 DEF Holds, IsRing
  <2> QED BY <2>1, <2>2, <2>3, <2>4 DEF Holds
<1> QED BY <1>3, <1>4, <1>5

\* A walk goes on over zombies and ends before it has gone round.
LEMMA WalkedStep ==
    ASSUME IndInv, [Next]_vars, ~KschedulerInit, \A a \in Adders : ~AddLink(a),
           ktask_current # NULL, NEW s, Holds(s), Walked(s)
    PROVE  Walked(s)'
<1> PICK l \in Nat \ {0} : l = Len(s)
  BY DEF Holds, IsRing
<1>1. CASE PickNext
  <2>1. /\ walker # NULL /\ state[walker] = "ZOMBIE" /\ walker # ktask_current
        /\ walker' = next[walker] /\ UNCHANGED <<ktask_current, state>>
    BY <1>1 DEF PickNext, SkipsOver, list
  <2>2. PICK i \in 1 .. l, k \in 1 .. l :
            /\ s[i] = ktask_current /\ walker = s[Place(i, k, l)]
            /\ \A m \in 1 .. (k - 1) : state[s[Place(i, m, l)]] = "ZOMBIE"
    BY <2>1 DEF Walked
  <2>3. k # l
    BY <2>1, <2>2, PlaceInFirstTurn
  <2>4. walker' = s[Place(i, k + 1, l)]
    <3>1. k \in Nat
      OBVIOUS
    <3> QED BY <2>1, <2>2, <3>1, RingStep DEF Holds
  <2>5. k + 1 \in 1 .. l
    BY <2>3
  <2>6. \A m \in 1 .. ((k + 1) - 1) : state[s[Place(i, m, l)]] = "ZOMBIE"
    BY <2>1, <2>2
  <2>7. /\ s[i] = ktask_current' /\ walker' = s[Place(i, k + 1, l)]
        /\ \A m \in 1 .. ((k + 1) - 1) : state'[s[Place(i, m, l)]] = "ZOMBIE"
    BY <2>1, <2>2, <2>4, <2>6
  <2> QED BY <2>5, <2>7 DEF Walked
<1>2. CASE IrqTimer /\ walker' # NULL
  <2>1. walker' = next[ktask_current] /\ UNCHANGED <<ktask_current, state>>
    BY <1>2 DEF IrqTimer, Interruptible, FirstCandidate, list
  <2>2. PICK i \in 1 .. l : s[i] = ktask_current
    <3>1. ktask_current \in Linked /\ ktask_current \in Tasks
      BY LinkedIff DEF IndInv, WalkNeverMeetsNull
    <3> QED BY <3>1 DEF Holds
  <2>3. Place(i, 0, l) = i
    BY PlaceInFirstTurn
  <2>4. walker' = s[Place(i, 0 + 1, l)]
    <3>1. \A n \in Nat : next[s[Place(i, n, l)]] = s[Place(i, n + 1, l)]
      BY RingStep DEF Holds
    <3>2. next[s[Place(i, 0, l)]] = s[Place(i, 0 + 1, l)]
      BY <3>1
    <3> QED BY <2>1, <2>2, <2>3, <3>2
  <2>5. 0 + 1 = 1 /\ 1 \in 1 .. l /\ 1 .. (1 - 1) = {}
    OBVIOUS
  <2> QED BY <2>1, <2>2, <2>4, <2>5 DEF Walked
<1>3. CASE walker' = NULL
  BY <1>3 DEF Walked
<1>4. CASE UNCHANGED <<walker, ktask_current, state>>
  BY <1>4 DEF Walked
<1>5. \/ PickNext \/ IrqTimer \/ walker' = NULL
      \/ UNCHANGED <<walker, ktask_current, state>>
  BY DEF Next, vars, list, sched, KmainStep, KmainSetup, KmainInit, KprocessShellInit,
     KmainHalt, KmainReturn, KmainLostFrames, ShellStep, KshellDebug,
     KprocessCreate, KprocessCreateFails, AddStep, AddNext, AddTail, UserStep,
     IsrSyscall, KtaskExit, At, Runs, HandlerStep, KschedulerTick,
     IrqKeyboardPress, KernelFaults, KernelDied
<1> QED BY <1>1, <1>2, <1>3, <1>4, <1>5

\* Before kscheduler_init nothing moves but the boot thread.
LEMMA BeforeStart ==
    ASSUME IndInv, [Next]_vars, ~KschedulerInit, ktask_current = NULL
    PROVE  ktask_head = NULL /\ UNCHANGED <<ktask_head, ktask_current, state>>
<1> USE TaskAssumption DEF Tasks
<1>1. /\ ktask_head = NULL /\ walker = NULL /\ OnCpu = KSystem
      /\ pc[KSystem] \in BootLabels
  BY DEF IndInv, Control, BootInv, OnCpu
<1>2. \A a \in Adders : ~AddStep(a)
  BY <1>1 DEF AddStep, AddNext, AddLink, AddTail, At, Runs, Adders, BootLabels
<1>3. \A u \in Users : ~UserStep(u)
  BY <1>1 DEF UserStep, IsrSyscall, KtaskExit, At, Runs
<1>4. ~HandlerStep
  BY <1>1 DEF HandlerStep, PickNext, KschedulerTick
<1> QED BY <1>1, <1>2, <1>3, <1>4 DEF Next, vars, list, sched, KmainStep, KmainSetup,
     KmainInit, KprocessShellInit, KmainHalt, KmainReturn, KmainLostFrames, ShellStep,
     KshellDebug, KprocessCreate, KprocessCreateFails, IrqTimer, IrqKeyboardPress,
     KernelFaults, KernelDied

\* Every step preserves the ring invariant.
LEMMA RingInvStep == TypeAhead = FALSE /\ IndInv /\ RingInv /\ [Next]_vars => RingInv'
<1> SUFFICES ASSUME TypeAhead = FALSE, IndInv, RingInv, [Next]_vars PROVE RingInv'
  OBVIOUS
<1>1. OneAdder'
  BY OneAdderStep DEF RingInv
<1>2. CASE KschedulerInit
  BY <1>1, <1>2, InitMakesRing DEF RingInv
<1>3. CASE ktask_current = NULL /\ ~KschedulerInit
  BY <1>1, <1>3, BeforeStart DEF RingInv
<1>4. CASE ktask_current # NULL /\ ~KschedulerInit
  <2>1. PICK s : Holds(s) /\ Walked(s)
    BY <1>4 DEF RingInv
  <2>2. ASSUME NEW a \in Adders, AddLink(a) PROVE \E r : Holds(r)' /\ Walked(r)'
    BY <2>1, <2>2, LinkExtendsRing DEF RingInv
  <2>3. CASE \A a \in Adders : ~AddLink(a)
    BY <1>1, <1>4, <2>1, <2>3, RingKept, WalkedStep DEF RingInv
  <2> QED BY <1>1, <2>2, <2>3 DEF RingInv
<1> QED BY <1>2, <1>3, <1>4

----------------------------------------------------------------------------
(* The theorems                                                            *)

\* The ring invariant holds in every reachable state.
THEOREM RingInvariant ==
    ASSUME TypeAhead = FALSE
    PROVE  Spec => []RingInv
<1>1. Init => RingInv
  BY TaskAssumption DEF Init, RingInv, OneAdder, Tasks
<1> QED BY IndInvariant, <1>1, RingInvStep, PTL DEF Spec

\* Every task kscheduler_add_task has answered OK_TRUE for is on the ring that
\* starts at ktask_head, when no line is typed ahead of kmain.
THEOREM AddedAlwaysInRing ==
    ASSUME TypeAhead = FALSE
    PROVE  Spec => []AddedTasksInRing
<1>1. IndInv /\ RingInv => AddedTasksInRing
  <2> SUFFICES ASSUME IndInv, RingInv, NEW t \in Added PROVE t \in InRing
    BY DEF AddedTasksInRing
  <2>1. t \in Tasks /\ next[t] # NULL /\ t \in Linked
    BY LinkedIff DEF Added
  <2>2. ktask_current # NULL
    BY <2>1 DEF IndInv, Control, BootInv
  <2>3. PICK s : Holds(s)
    BY <2>2 DEF RingInv
  <2>4. PICK i \in 1 .. Len(s) : s[i] = t
    BY <2>1, <2>3 DEF Holds
  <2>5. Len(s) \in 1 .. Cardinality(Tasks) /\ Cardinality(Tasks) \in Nat
    BY <2>3, RingFits DEF Holds
  <2>6. i - 1 \in 0 .. (Len(s) - 1) /\ i - 1 \in 0 .. Cardinality(Tasks)
    BY <2>5
  <2>7. hop[i - 1] = s[Place(1, i - 1, Len(s))]
    BY <2>3, <2>6, HopFollows DEF Holds
  <2>8. Place(1, i - 1, Len(s)) = i
    BY <2>5, <2>6, PlaceInFirstTurn
  <2> QED BY <2>4, <2>6, <2>7, <2>8 DEF InRing
<1> QED BY IndInvariant, RingInvariant, <1>1, PTL

\* Without a head there is no ring.
LEMMA NoRing == ktask_head = NULL => Ring = <<>>
BY DEF Ring, RingLength

\* The context switch goes to the first live task after the current one.
LEMMA TickSwitches ==
    ASSUME IndInv, NEW s, Holds(s), Walked(s), Ring = s, Ring' = s, KschedulerTick
    PROVE  Abstract!Switch \/ UNCHANGED ktask_current
<1> SUFFICES ASSUME ktask_current' # ktask_current PROVE Abstract!Switch
  OBVIOUS
<1> PICK l \in Nat \ {0} : l = Len(s)
  BY DEF Holds, IsRing
<1>1. /\ walker # NULL /\ state[walker] # "ZOMBIE" /\ ktask_current' = walker
      /\ state' = state
  BY DEF KschedulerTick, list
<1>2. PICK i \in 1 .. l, k \in 1 .. l :
          /\ s[i] = ktask_current /\ walker = s[Place(i, k, l)]
          /\ \A m \in 1 .. (k - 1) : state[s[Place(i, m, l)]] = "ZOMBIE"
  BY <1>1 DEF Walked
<1>3. \A m \in Nat : Place(i, m, l) \in 1 .. l /\ s[Place(i, m, l)] \in Tasks
  BY RingStep DEF Holds
<1>4. \A m : Abstract!After(i, m) = Place(i, m, l)
  BY DEF Abstract!After, Place
<1>5. DOMAIN s = 1 .. l
  BY DEF Holds, IsRing
<1>6. s[Place(i, k, l)] \notin {t \in Tasks : state[t] = "ZOMBIE"}
  BY <1>1, <1>2
<1>7. \A m \in 1 .. (k - 1) : s[Place(i, m, l)] \in {t \in Tasks : state[t] = "ZOMBIE"}
  <2> SUFFICES ASSUME NEW m \in 1 .. (k - 1)
               PROVE  s[Place(i, m, l)] \in {t \in Tasks : state[t] = "ZOMBIE"}
    OBVIOUS
  <2>1. m \in Nat
    OBVIOUS
  <2>2. s[Place(i, m, l)] \in Tasks
    BY <1>3, <2>1
  <2>3. state[s[Place(i, m, l)]] = "ZOMBIE"
    BY <1>2
  <2> QED BY <2>2, <2>3
<1> QED BY <1>1, <1>2, <1>4, <1>5, <1>6, <1>7 DEF Abstract!Switch

\* Every step of the scheduler is a step of round robin, or none.
LEMMA StepIsRoundRobin ==
    TypeAhead = FALSE /\ IndInv /\ RingInv /\ RingInv' /\ [Next]_vars
        => [Abstract!RRNext]_(Abstract!rrvars)
<1> SUFFICES ASSUME TypeAhead = FALSE, IndInv, RingInv, RingInv', [Next]_vars
             PROVE  Abstract!RRNext \/ UNCHANGED <<Ring, ktask_current, state>>
  BY DEF Abstract!rrvars
<1> USE TaskAssumption DEF Tasks
<1>t. state \in [Tasks -> {"IDLE", "RUNNING", "ZOMBIE"}]
  BY DEF IndInv, TypeOK
<1>r. (\A s : IsRing(s) => Ring = s) /\ (\A s : IsRing(s) => Ring = s)'
  BY RingRead, PTL
<1>n. (ktask_head = NULL => Ring = <<>>) /\ (ktask_head = NULL => Ring = <<>>)'
  BY NoRing, PTL
<1>1. CASE KschedulerInit
  <2>1. Ring = <<>>
    BY <1>1, <1>n DEF KschedulerInit
  <2>2. Ring' = <<KSystem>>
    BY <1>1, <1>r, InitMakesRing DEF Holds
  <2>3. {t \in Tasks : state'[t] = "ZOMBIE"} = {t \in Tasks : state[t] = "ZOMBIE"}
    BY <1>1, <1>t DEF KschedulerInit, IndInv, SystemAlive
  <2>4. ktask_current' = KSystem
    BY <1>1 DEF KschedulerInit
  <2> QED BY <2>1, <2>2, <2>3, <2>4 DEF Abstract!RRNext, Abstract!Start
<1>2. CASE ktask_current = NULL /\ ~KschedulerInit
  BY <1>2, <1>n, BeforeStart
<1>3. CASE ktask_current # NULL /\ ~KschedulerInit
  <2>1. PICK s : Holds(s) /\ Walked(s)
    BY <1>3 DEF RingInv
  <2>2. Ring = s /\ s \in Seq(Tasks) /\ Len(s) # 0
    BY <1>r, <2>1 DEF Holds, IsRing
  <2>3. ASSUME NEW a \in Adders, AddLink(a) PROVE Abstract!RRNext
    <3>1. PICK r : r = Append(s, adding[a]) /\ Holds(r)'
      BY <2>1, <2>3, LinkExtendsRing DEF RingInv
    <3>2. Ring' = Append(s, adding[a])
      BY <1>r, <3>1 DEF Holds
    <3>3. /\ adding[a] \in Tasks /\ \A i \in 1 .. Len(s) : s[i] # adding[a]
          /\ UNCHANGED <<ktask_current, state>>
      BY <2>1, <2>3, LinkExtendsRing DEF RingInv
    <3>4. adding[a] \notin Abstract!InQueue
      BY <2>2, <3>3 DEF Abstract!InQueue
    <3>5. Ring # <<>>
      BY <2>2
    <3>6. Abstract!Arrive(adding[a])
      BY <2>2, <3>2, <3>3, <3>4, <3>5 DEF Abstract!Arrive
    <3> QED BY <3>3, <3>6 DEF Abstract!RRNext
  <2>4. CASE \A a \in Adders : ~AddLink(a)
    <3>1. Ring' = s
      BY <1>3, <1>r, <2>1, <2>4, RingKept DEF Holds
    <3>2. ASSUME NEW u \in Users, KtaskExit(u) PROVE Abstract!RRNext
      <4>1. /\ ktask_current \in Tasks /\ UNCHANGED ktask_current
            /\ state' = [state EXCEPT ![ktask_current] = "ZOMBIE"]
        BY <1>3, <3>2, LinkedIff DEF KtaskExit, sched, IndInv, WalkNeverMeetsNull
      <4>2. {t \in Tasks : state'[t] = "ZOMBIE"} =
                {t \in Tasks : state[t] = "ZOMBIE"} \cup {ktask_current}
        BY <1>t, <4>1
      <4> QED BY <1>3, <2>2, <3>1, <4>1, <4>2 DEF Abstract!RRNext, Abstract!Finish
    <3>3. CASE KschedulerTick
      <4>1. state' = state
        BY <3>3 DEF KschedulerTick, list
      <4> QED BY <2>1, <2>2, <3>1, <3>3, <4>1, TickSwitches DEF Abstract!RRNext
    <3>4. \/ \E u \in Users : KtaskExit(u)
          \/ KschedulerTick
          \/ UNCHANGED <<ktask_current, state>>
      BY <1>3, <2>4 DEF Next, vars, list, sched, KmainStep, KmainSetup, KmainInit,
         KprocessShellInit, KmainHalt, KmainReturn, KmainLostFrames, ShellStep,
         KshellDebug, KprocessCreate, KprocessCreateFails, AddStep, AddNext, AddTail,
         UserStep, IsrSyscall, HandlerStep, PickNext, IrqTimer, IrqKeyboardPress,
         KernelFaults, KernelDied
    <3> QED BY <2>2, <3>1, <3>2, <3>3, <3>4
  <2> QED BY <2>3, <2>4
<1> QED BY <1>1, <1>2, <1>3

\* The interrupt-driven walk over the linked list implements round robin for
\* any number of tasks: kscheduler_tick switches to the first live task after
\* the current one in the order of arrival, and kscheduler_add_task takes
\* effect in one instant although it is three interruptible stores.
THEOREM SchedulerIsRoundRobin ==
    ASSUME TypeAhead = FALSE
    PROVE  Spec => ImplementsRoundRobin
<1>1. Init => Abstract!RRInit
  <2> SUFFICES ASSUME Init PROVE Abstract!RRInit
    OBVIOUS
  <2>1. Ring = <<>>
    BY NoRing DEF Init
  <2>2. {t \in Tasks : state[t] = "ZOMBIE"} = {}
    BY DEF Init
  <2> QED BY <2>1, <2>2 DEF Init, Abstract!RRInit
<1> QED BY IndInvariant, RingInvariant, <1>1, StepIsRoundRobin, PTL
        DEF Spec, ImplementsRoundRobin, Abstract!RRSpec
=============================================================================
