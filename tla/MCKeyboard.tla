----------------------------- MODULE MCKeyboard ----------------------------
(***************************************************************************)
(* Instances of Keyboard for TLC: a ring of four, a key whose character is *)
(* another in each layout and shift state, a key without a character, the  *)
(* modifiers and the two layouts.                                          *)
(***************************************************************************)
EXTENDS Keyboard

\* The tables of keyboard.c at 3 (one value is above 127) and at 29.
TwoLayouts ==
    [m \in {"qwerty", "azerty"} \X BOOLEAN |->
        [k \in Keys |->
            CASE k # 3           -> 0
              [] m[1] = "azerty" -> IF m[2] THEN 50 ELSE 130
              [] OTHER           -> IF m[2] THEN 64 ELSE 50]]
=============================================================================
