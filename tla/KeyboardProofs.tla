---------------------------- MODULE KeyboardProofs --------------------------
(***************************************************************************)
(* Proofs about Keyboard for every ring size, set of keys and layout: the  *)
(* shift state is never stuck, and the ring with kkeyboard_getchar         *)
(* implements the queue of CharQueue although IRQ1 comes between the steps *)
(* of kkeyboard_pop.                                                       *)
(***************************************************************************)
EXTENDS Keyboard, SequenceTheorems, TLAPS

Slots == 0 .. (SIZE - 1)

\* The number of characters in the ring, and the slot of the i-th of them.
Fill == (keyboard_head - keyboard_tail) % SIZE
Slot(i) == (keyboard_tail + i - 1) % SIZE

KeyTypes ==
    /\ keyboard_buffer \in [Slots -> Int]
    /\ keyboard_head \in Slots /\ keyboard_tail \in Slots
    /\ shift_pressed \in BOOLEAN /\ caps_lock_activated \in BOOLEAN
    /\ keymap \in Keymaps /\ down \subseteq Shifts
    /\ pc \in {"idle", "pop", "read", "advance", "wait", "hlt"}

\* What lies between tail and head was typed; 255, which kkeyboard_pop could
\* not tell from its -1, is no character of a layout.
PendingTyped == \A i \in 1 .. Fill : Uint8(keyboard_buffer[Slot(i)]) \in Typable

\* Past its emptiness test kkeyboard_pop has a character to take, and the
\* interrupt handler does not write where it reads.
PopSafe ==
    /\ pc \in {"read", "advance"} => keyboard_head # keyboard_tail
    /\ pc = "advance" => character = keyboard_buffer[keyboard_tail]

\* The inductive invariant.
KeyIndInv == KeyTypes /\ PendingTyped /\ PopSafe /\ ShiftNeverStuck

----------------------------------------------------------------------------
(* The arithmetic of the ring                                              *)

\* The remainder of a number less than one turn away from 0 .. n-1.
LEMMA ModOneTurn ==
    ASSUME NEW a \in Int, NEW n \in Nat, n > 0
    PROVE  /\ a \in 0 .. (n - 1) => a % n = a
           /\ a \in n .. (2 * n - 1) => a % n = a - n
           /\ a \in (-n) .. -1 => a % n = a + n
  BY SMT

\* From tail, the i-th slot is one of the ring; the slot after the last
\* character is head, and no character is there.
LEMMA SlotsOfRing ==
    ASSUME NEW h \in Slots, NEW t \in Slots
    PROVE  /\ (h - t) % SIZE \in Slots
           /\ (h - t) % SIZE = 0 <=> h = t
           /\ \A i \in 1 .. SIZE : (t + i - 1) % SIZE \in Slots
           /\ \A i \in 1 .. ((h - t) % SIZE) : (t + i - 1) % SIZE # h
           /\ (t + ((h - t) % SIZE)) % SIZE = h
<1>0. SIZE \in Nat /\ SIZE > 1
  BY KeyAssumption
<1> PICK F : F = (h - t) % SIZE
  OBVIOUS
<1>1. F = IF h >= t THEN h - t ELSE h - t + SIZE
  BY <1>0, ModOneTurn DEF Slots
<1>2. \A i \in 1 .. SIZE : (t + i - 1) % SIZE =
          IF t + i - 1 < SIZE THEN t + i - 1 ELSE t + i - 1 - SIZE
  BY <1>0, ModOneTurn DEF Slots
<1>3. (t + F) % SIZE = IF t + F < SIZE THEN t + F ELSE t + F - SIZE
  BY <1>0, <1>1, ModOneTurn DEF Slots
<1>4. F \in Slots /\ (F = 0 <=> h = t)
  BY <1>0, <1>1 DEF Slots
<1>5. \A i \in 1 .. SIZE : (t + i - 1) % SIZE \in Slots
  BY <1>0, <1>2 DEF Slots
<1>6. \A i \in 1 .. F : (t + i - 1) % SIZE # h
  BY <1>0, <1>1, <1>2, <1>4 DEF Slots
<1>7. (t + F) % SIZE = h
  BY <1>0, <1>1, <1>3 DEF Slots
<1> QED BY <1>4, <1>5, <1>6, <1>7

\* A push into a ring that is not full lengthens it by one.
LEMMA HeadMoves ==
    ASSUME NEW h \in Slots, NEW t \in Slots, After(h) # t
    PROVE  /\ After(h) \in Slots
           /\ (After(h) - t) % SIZE = ((h - t) % SIZE) + 1
<1>0. SIZE \in Nat /\ SIZE > 1
  BY KeyAssumption
<1>1. After(h) = IF h + 1 < SIZE THEN h + 1 ELSE 0
  BY <1>0, ModOneTurn DEF Slots, After
<1>2. (h - t) % SIZE = IF h >= t THEN h - t ELSE h - t + SIZE
  BY <1>0, ModOneTurn DEF Slots
<1>3. (After(h) - t) % SIZE =
          IF After(h) >= t THEN After(h) - t ELSE After(h) - t + SIZE
  BY <1>0, <1>1, ModOneTurn DEF Slots
<1> QED BY <1>0, <1>1, <1>2, <1>3 DEF Slots

\* A ring that refuses a push holds SIZE - 1 characters.
LEMMA FullRing ==
    ASSUME NEW h \in Slots, NEW t \in Slots, After(h) = t
    PROVE  (h - t) % SIZE = SIZE - 1
<1>0. SIZE \in Nat /\ SIZE > 1
  BY KeyAssumption
<1>1. t = IF h + 1 < SIZE THEN h + 1 ELSE 0
  BY <1>0, ModOneTurn DEF Slots, After
<1> QED BY <1>0, <1>1, ModOneTurn DEF Slots

\* A pop from a ring that is not empty shortens it by one and moves every
\* place behind the first one step forward.
LEMMA TailMoves ==
    ASSUME NEW h \in Slots, NEW t \in Slots, h # t
    PROVE  /\ After(t) \in Slots
           /\ (h - After(t)) % SIZE = ((h - t) % SIZE) - 1
           /\ \A i \in 1 .. (((h - t) % SIZE) - 1) :
                  (After(t) + i - 1) % SIZE = (t + (i + 1) - 1) % SIZE
<1>0. SIZE \in Nat /\ SIZE > 1
  BY KeyAssumption
<1>1. After(t) = IF t + 1 < SIZE THEN t + 1 ELSE 0
  BY <1>0, ModOneTurn DEF Slots, After
<1>2. (h - t) % SIZE = IF h >= t THEN h - t ELSE h - t + SIZE
  BY <1>0, ModOneTurn DEF Slots
<1>3. (h - After(t)) % SIZE =
          IF h >= After(t) THEN h - After(t) ELSE h - After(t) + SIZE
  BY <1>0, <1>1, ModOneTurn DEF Slots
<1>4. ASSUME NEW i \in 1 .. (((h - t) % SIZE) - 1)
      PROVE  (After(t) + i - 1) % SIZE = (t + (i + 1) - 1) % SIZE
  <2>1. i \in Int /\ i >= 1 /\ i < SIZE
    BY <1>0, <1>2 DEF Slots
  <2>2. (After(t) + i - 1) % SIZE = IF After(t) + i - 1 < SIZE
            THEN After(t) + i - 1 ELSE After(t) + i - 1 - SIZE
    BY <1>0, <1>1, <2>1, ModOneTurn DEF Slots
  <2>3. (t + (i + 1) - 1) % SIZE = IF t + i < SIZE THEN t + i ELSE t + i - SIZE
    BY <1>0, <2>1, ModOneTurn DEF Slots
  <2> QED BY <1>0, <1>1, <2>1, <2>2, <2>3 DEF Slots
<1>5. After(t) \in Slots
  BY <1>0, <1>1 DEF Slots
<1>6. (h - After(t)) % SIZE = ((h - t) % SIZE) - 1
  BY <1>0, <1>1, <1>2, <1>3 DEF Slots
<1> QED BY <1>4, <1>5, <1>6

\* A typed character comes back from a signed byte as it was.
LEMMA ByteRoundTrip ==
    ASSUME NEW c \in Typable
    PROVE  c \in 1 .. 254 /\ Int8(c) \in Int /\ Uint8(Int8(c)) = c
<1>1. c \in 1 .. 254
  BY KeyAssumption DEF Typable
<1> QED BY <1>1 DEF Int8, Uint8
----------------------------------------------------------------------------
(* The ring as a queue                                                     *)

RingTypes ==
    /\ keyboard_buffer \in [Slots -> Int]
    /\ keyboard_head \in Slots /\ keyboard_tail \in Slots

\* Pending is a sequence of typed characters.
LEMMA PendingIsSeq ==
    ASSUME RingTypes, PendingTyped
    PROVE  /\ Fill \in Slots
           /\ Pending \in Seq(Typable) /\ Len(Pending) = Fill
           /\ \A i \in 1 .. Fill : Pending[i] = Uint8(keyboard_buffer[Slot(i)])
<1>1. Fill \in Nat /\ Fill \in Slots
  BY SlotsOfRing, KeyAssumption DEF RingTypes, Fill, Slots
<1>2. Pending = [i \in 1 .. Fill |-> Uint8(keyboard_buffer[Slot(i)])]
  BY DEF Pending, Fill, Slot
<1>3. Pending \in [1 .. Fill -> Typable]
  BY <1>2 DEF PendingTyped
<1> QED BY <1>1, <1>2, <1>3

\* kkeyboard_push with a place left appends to the queue and leaves the slot
\* kkeyboard_pop may be reading alone.
LEMMA PushAppends ==
    ASSUME RingTypes, PendingTyped, NEW c \in Typable,
           After(keyboard_head) # keyboard_tail,
           KkeyboardPush(c), keyboard_tail' = keyboard_tail
    PROVE  /\ RingTypes' /\ PendingTyped'
           /\ Len(Pending) < SIZE - 1
           /\ Pending' = Append(Pending, c)
           /\ keyboard_head' # keyboard_tail'
           /\ keyboard_head # keyboard_tail =>
                  keyboard_buffer'[keyboard_tail'] = keyboard_buffer[keyboard_tail]
<1>0. SIZE \in Nat /\ SIZE > 1
  BY KeyAssumption
<1>1. /\ keyboard_buffer' = [keyboard_buffer EXCEPT ![keyboard_head] = Int8(c)]
      /\ keyboard_head' = After(keyboard_head)
  BY DEF KkeyboardPush
<1>2. /\ keyboard_head \in Slots /\ keyboard_tail \in Slots
      /\ keyboard_buffer \in [Slots -> Int]
  BY DEF RingTypes
<1>3. Fill' = Fill + 1 /\ keyboard_head' \in Slots
  BY <1>1, <1>2, HeadMoves DEF Fill
<1>4. /\ Fill \in 0 .. (SIZE - 1)
      /\ \A i \in 1 .. SIZE : Slot(i) \in Slots
      /\ \A i \in 1 .. Fill : Slot(i) # keyboard_head
      /\ Slot(Fill + 1) = keyboard_head
  <2>1. /\ Fill \in Slots
        /\ \A i \in 1 .. SIZE : Slot(i) \in Slots
        /\ \A i \in 1 .. Fill : Slot(i) # keyboard_head
        /\ (keyboard_tail + Fill) % SIZE = keyboard_head
    BY <1>2, SlotsOfRing DEF Fill, Slot
  <2>2. keyboard_tail + (Fill + 1) - 1 = keyboard_tail + Fill
    BY <1>0, <1>2, <2>1 DEF Slots
  <2> QED BY <2>1, <2>2 DEF Slot, Slots
<1>5. Fill + 1 \in 1 .. SIZE - 1
  <2>1. Fill' \in Slots
    BY <1>1, <1>2, <1>3, SlotsOfRing DEF Fill
  <2> QED BY <1>0, <1>3, <1>4, <2>1 DEF Slots
<1>6. \A i : Slot(i)' = Slot(i)
  BY DEF Slot
<1>7. c \in 1 .. 254 /\ Int8(c) \in Int /\ Uint8(Int8(c)) = c
  BY ByteRoundTrip
<1>8. \A i \in 1 .. Fill : keyboard_buffer'[Slot(i)] = keyboard_buffer[Slot(i)]
  BY <1>0, <1>1, <1>2, <1>4
<1>9. keyboard_buffer'[Slot(Fill + 1)] = Int8(c)
  BY <1>1, <1>2, <1>4
<1>10. RingTypes'
  BY <1>1, <1>2, <1>3, <1>7 DEF RingTypes
<1>11. \A i \in 1 .. Fill + 1 : Uint8(keyboard_buffer'[Slot(i)]) =
           IF i = Fill + 1 THEN c ELSE Uint8(keyboard_buffer[Slot(i)])
  BY <1>4, <1>7, <1>8, <1>9
<1>12. PendingTyped'
  BY <1>3, <1>4, <1>6, <1>11 DEF PendingTyped
<1>13. Pending' = Append(Pending, c)
  <2>1. /\ Pending \in Seq(Typable) /\ Len(Pending) = Fill
        /\ \A i \in 1 .. Fill : Pending[i] = Uint8(keyboard_buffer[Slot(i)])
    BY PendingIsSeq
  <2>2. /\ Pending' \in Seq(Typable)' /\ Len(Pending)' = Fill + 1
        /\ \A i \in 1 .. Fill + 1 :
               Pending'[i] = Uint8(keyboard_buffer'[Slot(i)])
    <3>1. (RingTypes /\ PendingTyped =>
             /\ Pending \in Seq(Typable) /\ Len(Pending) = Fill
             /\ \A i \in 1 .. Fill :
                    Pending[i] = Uint8(keyboard_buffer[Slot(i)]))'
      BY PendingIsSeq, PTL
    <3> QED BY <1>3, <1>6, <1>10, <1>12, <3>1
  <2>3. Typable' = Typable
    BY DEF Typable
  <2>4. /\ Append(Pending, c) \in Seq(Typable)
        /\ Len(Append(Pending, c)) = Fill + 1
        /\ \A i \in 1 .. Fill : Append(Pending, c)[i] = Pending[i]
        /\ Append(Pending, c)[Fill + 1] = c
    BY <2>1, AppendProperties
  <2>5. \A i \in 1 .. Fill + 1 : Pending'[i] = Append(Pending, c)[i]
    BY <1>4, <1>11, <2>1, <2>2, <2>4
  <2> QED BY <2>2, <2>3, <2>4, <2>5, SeqEqual
<1>14. keyboard_head' # keyboard_tail'
  BY <1>1
<1>15. keyboard_head # keyboard_tail =>
           keyboard_buffer'[keyboard_tail'] = keyboard_buffer[keyboard_tail]
  BY <1>1, <1>2
<1>16. Len(Pending) < SIZE - 1
  BY <1>0, <1>4, <1>5, PendingIsSeq
<1> QED BY <1>10, <1>12, <1>13, <1>14, <1>15, <1>16

\* kkeyboard_pop on a ring that is not empty delivers the oldest character and
\* takes it off the queue.
LEMMA PopTakesFirst ==
    ASSUME RingTypes, PendingTyped, keyboard_head # keyboard_tail,
           keyboard_tail' = After(keyboard_tail),
           UNCHANGED <<keyboard_buffer, keyboard_head>>
    PROVE  /\ RingTypes' /\ PendingTyped'
           /\ Pending # <<>>
           /\ Head(Pending) = Uint8(keyboard_buffer[keyboard_tail])
           /\ Head(Pending) \in Typable
           /\ Pending' = Tail(Pending)
<1>0. SIZE \in Nat /\ SIZE > 1
  BY KeyAssumption
<1>1. /\ keyboard_head \in Slots /\ keyboard_tail \in Slots
      /\ keyboard_buffer \in [Slots -> Int]
  BY DEF RingTypes
<1>2. /\ keyboard_tail' \in Slots
      /\ Fill' = Fill - 1
      /\ \A i \in 1 .. Fill - 1 : Slot(i)' = Slot(i + 1)
  BY <1>1, TailMoves DEF Fill, Slot
<1>3. Fill \in 1 .. (SIZE - 1)
  <2>1. Fill \in Slots /\ Fill # 0
    BY <1>1, SlotsOfRing DEF Fill
  <2> QED BY <1>0, <2>1 DEF Slots
<1>4. Slot(1) = keyboard_tail
  BY <1>0, <1>1, ModOneTurn DEF Slot, Slots
<1>5. RingTypes'
  BY <1>1, <1>2 DEF RingTypes
<1>6. \A i \in 1 .. Fill - 1 :
          Uint8(keyboard_buffer'[Slot(i)']) = Uint8(keyboard_buffer[Slot(i + 1)])
  BY <1>2
<1>7. PendingTyped'
  BY <1>2, <1>3, <1>6 DEF PendingTyped
<1>8. /\ Pending \in Seq(Typable) /\ Len(Pending) = Fill
      /\ \A i \in 1 .. Fill : Pending[i] = Uint8(keyboard_buffer[Slot(i)])
  BY PendingIsSeq
<1>9. /\ Pending' \in Seq(Typable) /\ Len(Pending') = Fill - 1
      /\ \A i \in 1 .. Fill - 1 :
             Pending'[i] = Uint8(keyboard_buffer'[Slot(i)'])
  <2>1. (RingTypes /\ PendingTyped =>
           /\ Pending \in Seq(Typable) /\ Len(Pending) = Fill
           /\ \A i \in 1 .. Fill :
                  Pending[i] = Uint8(keyboard_buffer[Slot(i)]))'
    BY PendingIsSeq, PTL
  <2>2. Typable' = Typable
    BY DEF Typable
  <2> QED BY <1>2, <1>5, <1>7, <2>1, <2>2
<1>10. Pending # <<>>
  BY <1>3, <1>8
<1>11. Head(Pending) = Pending[1] /\ Pending[1] \in Typable
  BY <1>3, <1>8, <1>10, HeadTailProperties
<1>12. /\ Tail(Pending) \in Seq(Typable) /\ Len(Tail(Pending)) = Fill - 1
       /\ \A i \in 1 .. Fill - 1 : Tail(Pending)[i] = Pending[i + 1]
  BY <1>8, <1>10, HeadTailProperties
<1>13. \A i \in 1 .. Fill - 1 : Pending'[i] = Tail(Pending)[i]
  BY <1>3, <1>6, <1>8, <1>9, <1>12
<1>14. Pending' = Tail(Pending)
  BY <1>9, <1>12, <1>13, SeqEqual
<1> QED BY <1>3, <1>4, <1>5, <1>7, <1>8, <1>10, <1>11, <1>14
----------------------------------------------------------------------------
(* One step                                                                *)

\* The initial state satisfies the inductive invariant and is an empty queue.
LEMMA KeyInitInv == KeyInit => KeyIndInv /\ Q!Init
<1> SUFFICES ASSUME KeyInit PROVE KeyIndInv /\ Q!Init
  OBVIOUS
<1>1. SIZE \in Nat /\ SIZE > 1
  BY KeyAssumption
<1>2. KeyTypes
  <2>1. /\ keyboard_buffer \in [Slots -> Int]
        /\ keyboard_head \in Slots /\ keyboard_tail \in Slots
    BY <1>1 DEF KeyInit, Slots
  <2>2. shift_pressed \in BOOLEAN /\ caps_lock_activated \in BOOLEAN
    BY Zenon DEF KeyInit
  <2> QED BY <2>1, <2>2 DEF KeyInit, KeyTypes
<1>3. Fill = 0
  BY <1>1, ModOneTurn DEF KeyInit, Fill
<1>4. PendingTyped
  BY <1>3 DEF PendingTyped
<1>5. Pending = <<>>
  <2>1. Pending \in Seq(Typable) /\ Len(Pending) = 0
    BY <1>2, <1>3, <1>4, PendingIsSeq DEF KeyTypes, RingTypes
  <2> QED BY <2>1, EmptySeq
<1> QED BY <1>2, <1>4, <1>5
        DEF KeyInit, KeyIndInv, PopSafe, ShiftNeverStuck, Q!Init

\* The parts of the invariant that the ring is in.
LEMMA RingPart ==
    ASSUME KeyIndInv
    PROVE  RingTypes /\ PendingTyped
BY DEF KeyIndInv, KeyTypes, RingTypes

\* What an action that leaves the ring alone leaves alone.
LEMMA RingUntouched ==
    ASSUME RingTypes, PendingTyped, UNCHANGED ring
    PROVE  RingTypes' /\ PendingTyped' /\ Pending' = Pending
BY DEF RingTypes, PendingTyped, Pending, Fill, Slot, ring

\* A key press preserves the invariant and is a Type, of a character that is
\* queued or that finds the queue full, or no step of the queue: a modifier, a key
\* without a character.
LEMMA PressStep ==
    ASSUME KeyIndInv, NEW k \in Keys, IrqKeyPress(k)
    PROVE  KeyIndInv' /\ [Q!Next]_<<Pending, got, typed>>
<1>1. RingTypes /\ PendingTyped /\ KeyTypes /\ PopSafe /\ ShiftNeverStuck
  BY RingPart DEF KeyIndInv
<1>2. /\ down' = down \cup ({k} \cap Shifts)
      /\ pc' = IF pc = "hlt" THEN "pop" ELSE pc
      /\ keymap' = keymap /\ character' = character /\ got' = got
  BY DEF IrqKeyPress, Wake
<1>3. /\ shift_pressed' \in BOOLEAN /\ caps_lock_activated' \in BOOLEAN
      /\ ShiftNeverStuck'
  <2>1. CASE PressShift(k)
    BY <1>1, <1>2, <2>1 DEF PressShift, KeyTypes, ShiftNeverStuck
  <2>2. CASE PressCaps(k)
    BY <1>1, <1>2, <2>2 DEF PressCaps, KeyTypes, ShiftNeverStuck
  <2>3. CASE PressOther(k)
    BY <1>1, <1>2, <2>3 DEF PressOther, KeyTypes, ShiftNeverStuck
  <2> QED BY <2>1, <2>2, <2>3 DEF IrqKeyPress
<1>4. ASSUME UNCHANGED ring
      PROVE  KeyIndInv' /\ Pending' = Pending
  <2>1. RingTypes' /\ PendingTyped' /\ Pending' = Pending
    BY <1>1, <1>4, RingUntouched
  <2>2. PopSafe'
    BY <1>1, <1>2, <1>4 DEF PopSafe, ring
  <2>3. KeyTypes'
    BY <1>1, <1>2, <1>3, <2>1 DEF KeyTypes, RingTypes
  <2> QED BY <1>3, <2>1, <2>2, <2>3 DEF KeyIndInv
<1>5. CASE ~(PressOther(k) /\ Table[k] # 0)
  <2>1. UNCHANGED ring /\ typed' = typed
    BY <1>5 DEF IrqKeyPress, PressShift, PressCaps, PressOther, ring
  <2> QED BY <1>2, <1>4, <2>1
<1>6. CASE PressOther(k) /\ Table[k] # 0
  <2>2. /\ KkeyboardPush(Table[k]) /\ keyboard_tail' = keyboard_tail
        /\ typed' = <<Table[k], ~typed[2]>>
    BY <1>6 DEF PressOther
  <2>4. Table[k] \in Typable
    <3> DEFINE m == <<keymap, shift_pressed # caps_lock_activated>>
    <3>1. m \in Keymaps \X BOOLEAN
      BY <1>1 DEF KeyTypes
    <3>2. Table[k] = Scancodes[m][k]
      BY DEF Table
    <3> HIDE DEF m
    <3> QED BY <1>6, <3>1, <3>2 DEF Typable
  <2>3. CASE After(keyboard_head) # keyboard_tail
    <3>5. /\ RingTypes' /\ PendingTyped'
          /\ Len(Pending) < SIZE - 1
          /\ Pending' = Append(Pending, Table[k])
          /\ keyboard_head' # keyboard_tail'
          /\ keyboard_head # keyboard_tail =>
                 keyboard_buffer'[keyboard_tail'] = keyboard_buffer[keyboard_tail]
      BY <1>1, <2>2, <2>3, <2>4, PushAppends
    <3>6. Q!Type(Table[k])
      BY <1>2, <2>2, <3>5 DEF Q!Type
    <3>7. PopSafe'
      BY <1>1, <1>2, <3>5 DEF PopSafe
    <3>8. KeyTypes'
      BY <1>1, <1>2, <1>3, <3>5 DEF KeyTypes, RingTypes
    <3> QED BY <1>3, <2>4, <3>5, <3>6, <3>7, <3>8 DEF KeyIndInv, Q!Next
  <2>5. CASE After(keyboard_head) = keyboard_tail
    <3>1. UNCHANGED ring
      BY <2>2, <2>5 DEF KkeyboardPush, ring
    <3>2. Fill = SIZE - 1
      BY <1>1, <2>5, FullRing DEF RingTypes, Fill
    <3>3. ~(Len(Pending) < SIZE - 1)
      <4>1. Len(Pending) = SIZE - 1
        BY <1>1, <3>2, PendingIsSeq
      <4> QED BY <4>1, KeyAssumption
    <3>4. KeyIndInv' /\ Pending' = Pending
      BY <1>4, <3>1
    <3>5. Q!Type(Table[k])
      BY <1>2, <2>2, <3>3, <3>4 DEF Q!Type
    <3> QED BY <2>4, <3>4, <3>5 DEF Q!Next
  <2> QED BY <2>3, <2>5
<1> QED BY <1>5, <1>6

\* A key release preserves the invariant and is no step of the queue.
LEMMA ReleaseStep ==
    ASSUME KeyIndInv, NEW k \in Keys, IrqKeyRelease(k)
    PROVE  KeyIndInv' /\ UNCHANGED <<Pending, got, typed>>
<1>1. RingTypes /\ PendingTyped /\ KeyTypes /\ PopSafe /\ ShiftNeverStuck
  BY RingPart DEF KeyIndInv
<1>2. /\ UNCHANGED ring /\ UNCHANGED <<caps_lock_activated, keymap, typed, character, got>>
      /\ down' = down \ {k} /\ shift_pressed' = (shift_pressed /\ k \notin Shifts)
      /\ pc' = IF pc = "hlt" THEN "pop" ELSE pc
  BY DEF IrqKeyRelease, ReleasesShift, Wake
<1>3. RingTypes' /\ PendingTyped' /\ Pending' = Pending
  BY <1>1, <1>2, RingUntouched
<1>4. KeyTypes'
  BY <1>1, <1>2, <1>3 DEF KeyTypes, RingTypes
<1>5. ShiftNeverStuck'
  BY <1>1, <1>2 DEF ShiftNeverStuck, KeyTypes
<1>6. PopSafe'
  BY <1>1, <1>2 DEF PopSafe, ring
<1> QED BY <1>2, <1>3, <1>4, <1>5, <1>6 DEF KeyIndInv

\* The step of kkeyboard_getchar that takes the character is a Get.
LEMMA AdvanceStep ==
    ASSUME KeyIndInv, PopAdvance
    PROVE  KeyIndInv' /\ Q!Get
<1>1. RingTypes /\ PendingTyped /\ KeyTypes /\ PopSafe /\ ShiftNeverStuck
  BY RingPart DEF KeyIndInv
<1>2. /\ keyboard_head # keyboard_tail
      /\ character = keyboard_buffer[keyboard_tail]
  BY <1>1 DEF PopAdvance, Step, PopSafe
<1>3. /\ RingTypes' /\ PendingTyped' /\ Pending # <<>>
      /\ Head(Pending) = Uint8(character) /\ Head(Pending) \in Typable
      /\ Pending' = Tail(Pending)
  BY <1>1, <1>2, PopTakesFirst DEF PopAdvance
<1>4. character # -1
  <2>1. character \in Int
    BY <1>1, <1>2 DEF RingTypes
  <2>2. Uint8(character) \in 1 .. 254
    BY <1>3, ByteRoundTrip
  <2>3. character % 256 # 255
    BY <2>2 DEF Uint8
  <2> QED BY <2>1, <2>3
<1>5. Q!Get
  BY <1>3, <1>4 DEF PopAdvance, modifiers, Q!Get
<1>6. pc' = "idle" /\ UNCHANGED modifiers
  BY <1>4 DEF PopAdvance, Step
<1>7. KeyTypes' /\ PopSafe' /\ ShiftNeverStuck'
  BY <1>1, <1>3, <1>6
     DEF KeyTypes, RingTypes, PopSafe, ShiftNeverStuck, modifiers
<1> QED BY <1>3, <1>5, <1>7 DEF KeyIndInv

\* The other steps of kkeyboard_getchar, the timer and loadkeys.
LEMMA OtherStep ==
    ASSUME KeyIndInv,
           \/ TimerWakes \/ GetcharCalled \/ PopTest \/ PopRead \/ Halt
           \/ KshellLoadkeys \/ UNCHANGED kvars
    PROVE  KeyIndInv' /\ UNCHANGED <<Pending, got, typed>>
<1>1. RingTypes /\ PendingTyped /\ KeyTypes /\ PopSafe /\ ShiftNeverStuck
  BY RingPart DEF KeyIndInv
<1>2. /\ UNCHANGED <<ring, shift_pressed, caps_lock_activated, down, typed, got>>
      /\ keymap' \in Keymaps
  BY <1>1 DEF KeyTypes, TimerWakes, GetcharCalled, PopTest, PopRead, Halt,
              KshellLoadkeys, kvars, modifiers, getchar
<1>3. RingTypes' /\ PendingTyped' /\ Pending' = Pending
  BY <1>1, <1>2, RingUntouched
<1>4. pc' \in {"idle", "pop", "read", "advance", "wait", "hlt"} /\ PopSafe'
  <2>1. CASE PopTest
    BY <1>1, <1>2, <2>1 DEF PopTest, Step, PopSafe, ring
  <2>2. CASE PopRead
    BY <1>1, <1>2, <2>2 DEF PopRead, Step, PopSafe, ring
  <2>3. CASE TimerWakes \/ GetcharCalled \/ Halt
    BY <1>1, <1>2, <2>3 DEF TimerWakes, Wake, GetcharCalled, Halt, Step, PopSafe, ring
  <2>4. CASE KshellLoadkeys \/ UNCHANGED kvars
    BY <1>1, <1>2, <2>4 DEF KshellLoadkeys, kvars, getchar, PopSafe, KeyTypes, ring
  <2> QED BY <2>1, <2>2, <2>3, <2>4
<1>5. KeyTypes' /\ ShiftNeverStuck'
  BY <1>1, <1>2, <1>3, <1>4 DEF KeyTypes, RingTypes, ShiftNeverStuck
<1> QED BY <1>2, <1>3, <1>4, <1>5 DEF KeyIndInv

\* Every step preserves the invariant and is a step of the queue or none.
LEMMA KeyStep == KeyIndInv /\ [KeyNext]_kvars => KeyIndInv' /\ [Q!Next]_<<Pending, got, typed>>
<1> SUFFICES ASSUME KeyIndInv, [KeyNext]_kvars
             PROVE  KeyIndInv' /\ [Q!Next]_<<Pending, got, typed>>
  OBVIOUS
<1>1. ASSUME NEW k \in Keys, IrqKeyPress(k)
      PROVE  KeyIndInv' /\ [Q!Next]_<<Pending, got, typed>>
  BY <1>1, PressStep
<1>2. ASSUME NEW k \in Keys, IrqKeyRelease(k)
      PROVE  KeyIndInv' /\ [Q!Next]_<<Pending, got, typed>>
  BY <1>2, ReleaseStep
<1>3. CASE PopAdvance
  BY <1>3, AdvanceStep DEF Q!Next
<1>4. CASE \/ TimerWakes \/ GetcharCalled \/ PopTest \/ PopRead \/ Halt
           \/ KshellLoadkeys \/ UNCHANGED kvars
  BY <1>4, OtherStep
<1> QED BY <1>1, <1>2, <1>3, <1>4 DEF KeyNext, Getchar

----------------------------------------------------------------------------
(* The theorems                                                            *)

\* Whatever keys are pressed and released in whatever order, and whatever is
\* lost because the ring is full, shift is on only while a shift key is held
\* (the handling of make and break codes in irq_keyboard_press).
THEOREM ShiftSafe == KeySpec => []ShiftNeverStuck
<1>1. KeyIndInv => ShiftNeverStuck
  BY DEF KeyIndInv
<1> QED BY <1>1, KeyInitInv, KeyStep, PTL DEF KeySpec

\* Ring and kkeyboard_getchar implement the queue for every ring size and
\* layout: IRQ1 between any two steps of kkeyboard_pop loses, doubles, alters or
\* reorders nothing but what it finds no place for.
THEOREM KeyboardIsQueue == KeySpec => ImplementsCharQueue
BY KeyInitInv, KeyStep, PTL DEF KeySpec, ImplementsCharQueue, Q!Spec
=============================================================================
