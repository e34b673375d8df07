------------------------------ MODULE MCShell ------------------------------
(***************************************************************************)
(* Instances of Shell for TLC.                                             *)
(***************************************************************************)
EXTENDS Shell

\* The first is reached by completion only.
TwoCommands == <<<<"a", "b">>, <<"a", "a">>>>
AB == <<"a", "b">>
Dollar == <<"$">>
Sorry == <<"?", "\n">>
SomeOutputs == {<<>>, <<"o">>}

\* A clean stack, and one full of earlier words.
CleanOrNot == {[k \in 0 .. SIZE + ABOVE - 1 |-> NUL],
               [k \in 0 .. SIZE + ABOVE - 1 |-> IF k % 3 = 0 THEN " " ELSE "z"]}
=============================================================================
