------------------------------ MODULE Keyboard -----------------------------
(***************************************************************************)
(* The keyboard driver: IRQ1 translates scancodes and pushes characters on *)
(* a ring, kkeyboard_getchar pops them for the shell and halts the CPU     *)
(* while there is none.                                                    *)
(*                                                                         *)
(* The interrupt handler runs to its end with interrupts off; it may run   *)
(* between any two steps of kkeyboard_getchar, which holds no lock.        *)
(***************************************************************************)
EXTENDS Integers, Sequences

CONSTANTS
    SIZE,            \* KEYBOARD_BUFFER_SIZE
    Keys,            \* scancodes, without the release bit
    Shifts, CAPS,    \* the modifiers among them
    Keymaps,         \* the layouts loadkeys chooses from
    Scancodes        \* layout, shifted -> key -> character, 0 for none

ASSUME KeyAssumption ==
    /\ SIZE \in Nat /\ SIZE > 1
    /\ Shifts \subseteq Keys /\ CAPS \in Keys \ Shifts
    /\ Scancodes \in [Keymaps \X BOOLEAN -> [Keys -> 0 .. 254]]

VARIABLES
    keyboard_buffer, keyboard_head, keyboard_tail,
    shift_pressed, caps_lock_activated, keymap,
    down,            \* shift keys physically held (environment)
    typed,           \* the last character the layout gave for a key pressed,
                     \* and the parity of their number (history)
    pc, character,   \* where kkeyboard_getchar is, and its local
    got              \* the last character it returned (0: none yet)

ring == <<keyboard_buffer, keyboard_head, keyboard_tail>>
modifiers == <<shift_pressed, caps_lock_activated, keymap, down, typed>>
getchar == <<pc, character, got>>
kvars == <<ring, modifiers, getchar>>

\* char and int8_t are signed; the shell stores what it gets as uint8_t.
Int8(v) == IF v > 127 THEN v - 256 ELSE v
Uint8(v) == v % 256

KeyInit ==
    /\ keyboard_buffer = [i \in 0 .. (SIZE - 1) |-> 0]
    /\ keyboard_head = 0 /\ keyboard_tail = 0
    /\ shift_pressed = FALSE /\ caps_lock_activated = FALSE
    /\ keymap \in Keymaps /\ down = {} /\ typed = <<0, FALSE>>
    /\ pc = "idle" /\ character = 0 /\ got = 0

----------------------------------------------------------------------------
(* The interrupt handler                                                   *)

After(i) == (i + 1) % SIZE

\* Mutant: a ring with one place left counts as full.
KkeyboardPushEarly(ch) ==
    IF keyboard_tail \notin {After(keyboard_head), After(After(keyboard_head))}
      THEN /\ keyboard_buffer' = [keyboard_buffer EXCEPT ![keyboard_head] = Int8(ch)]
           /\ keyboard_head' = After(keyboard_head)
      ELSE UNCHANGED <<keyboard_buffer, keyboard_head>>

KkeyboardPush(ch) ==
    IF After(keyboard_head) # keyboard_tail
      THEN /\ keyboard_buffer' = [keyboard_buffer EXCEPT ![keyboard_head] = Int8(ch)]
           /\ keyboard_head' = After(keyboard_head)
      ELSE UNCHANGED <<keyboard_buffer, keyboard_head>>

\* An interrupt ends a hlt.
Wake == pc' = IF pc = "hlt" THEN "pop" ELSE pc

\* The table irq_keyboard_press reads.
Table == Scancodes[keymap, shift_pressed # caps_lock_activated]

PressShift(k) ==
    /\ k \in Shifts
    /\ shift_pressed' = TRUE
    /\ UNCHANGED <<ring, caps_lock_activated, typed>>

PressCaps(k) ==
    /\ k = CAPS
    /\ caps_lock_activated' = ~caps_lock_activated
    /\ UNCHANGED <<ring, shift_pressed, typed>>

PressOther(k) ==
    /\ k \notin Shifts \cup {CAPS}
    /\ IF Table[k] # 0
         THEN KkeyboardPush(Table[k]) /\ typed' = <<Table[k], ~typed[2]>>
         ELSE UNCHANGED <<keyboard_buffer, keyboard_head, typed>>
    /\ UNCHANGED <<keyboard_tail, shift_pressed, caps_lock_activated>>

\* irq_keyboard_press on a make code; a key held down repeats it.
IrqKeyPress(k) ==
    /\ PressShift(k) \/ PressCaps(k) \/ PressOther(k)
    /\ down' = down \cup ({k} \cap Shifts)
    /\ Wake
    /\ UNCHANGED <<keymap, character, got>>

\* Mutant: one of the shift keys is not looked at on release.
ReleasesShiftLeft(k) == k = CHOOSE s \in Shifts : TRUE

ReleasesShift(k) == k \in Shifts

\* irq_keyboard_press on a break code.
IrqKeyRelease(k) ==
    /\ k \in Shifts => k \in down
    /\ down' = down \ {k}
    /\ shift_pressed' = (shift_pressed /\ ~ReleasesShift(k))
    /\ Wake
    /\ UNCHANGED <<ring, caps_lock_activated, keymap, typed, character, got>>

\* Mutant: an interrupt that brings no key does not end the halt.
TimerWakesNobody == pc = "hlt" /\ UNCHANGED kvars

\* The timer interrupt ends a hlt too.
TimerWakes ==
    /\ pc = "hlt" /\ Wake
    /\ UNCHANGED <<ring, modifiers, character, got>>

----------------------------------------------------------------------------
(* The shell                                                               *)

Step(from, to) == pc = from /\ pc' = to

\* kshell_start asks for the next character.
GetcharCalled ==
    /\ Step("idle", "pop")
    /\ UNCHANGED <<ring, modifiers, character, got>>

\* kkeyboard_pop: the emptiness test; -1 sends getchar to its wait.
PopTest ==
    /\ Step("pop", IF keyboard_head = keyboard_tail THEN "wait" ELSE "read")
    /\ UNCHANGED <<ring, modifiers, character, got>>

PopRead ==
    /\ Step("read", "advance")
    /\ character' = keyboard_buffer[keyboard_tail]
    /\ UNCHANGED <<ring, modifiers, got>>

\* The tail moves and the character is returned, unless it reads as -1.
PopAdvance ==
    /\ keyboard_tail' = After(keyboard_tail)
    /\ Step("advance", IF character = -1 THEN "wait" ELSE "idle")
    /\ got' = IF character = -1 THEN got ELSE Uint8(character)
    /\ UNCHANGED <<keyboard_buffer, keyboard_head, modifiers, character>>

\* kinterruption_extern_start and KHLT_DO.
Halt ==
    /\ Step("wait", "hlt")
    /\ UNCHANGED <<ring, modifiers, character, got>>

\* The loadkeys command, between two characters.
KshellLoadkeys ==
    /\ pc = "idle" /\ keymap' \in Keymaps
    /\ UNCHANGED <<ring, shift_pressed, caps_lock_activated, down, typed, getchar>>

Getchar == GetcharCalled \/ PopTest \/ PopRead \/ PopAdvance \/ Halt

KeyNext == \/ \E k \in Keys : IrqKeyPress(k) \/ IrqKeyRelease(k)
           \/ TimerWakes \/ Getchar \/ KshellLoadkeys

KeySpec == KeyInit /\ [][KeyNext]_kvars

\* The shell's task is scheduled again and again (sched_ring) and comes back
\* for another character; the timer never stops.
KeyFairSpec == KeySpec /\ WF_kvars(Getchar) /\ WF_kvars(TimerWakes)

----------------------------------------------------------------------------
(* What is checked                                                         *)

\* The characters between tail and head, oldest first.
Pending ==
    [i \in 1 .. ((keyboard_head - keyboard_tail) % SIZE) |->
        Uint8(keyboard_buffer[(keyboard_tail + i - 1) % SIZE])]

Typable == {Scancodes[m][k] : m \in Keymaps \X BOOLEAN, k \in Keys} \ {0}

Q == INSTANCE CharQueue WITH
         CAP <- SIZE - 1, Chars <- Typable, queue <- Pending, got <- got, typed <- typed

\* Ring and getchar implement the queue: whatever the interleaving of IRQ1 with
\* kkeyboard_pop every character typed while fewer than SIZE - 1 wait is queued
\* as it was typed, one typed while SIZE - 1 wait is lost, and none is doubled or
\* reordered.
ImplementsCharQueue == Q!Spec

\* No wakeup is lost for good: a character pushed after the emptiness test and
\* before the hlt (keyboard.c:82-84) is delivered all the same.
CharsServed == Q!Served

\* The shift state is never stuck: it is on only while a shift key is held,
\* whatever happened to the ring or to the other shift key meanwhile.
ShiftNeverStuck == shift_pressed => down # {}
=============================================================================
