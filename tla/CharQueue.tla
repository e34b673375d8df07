------------------------------ MODULE CharQueue ----------------------------
(***************************************************************************)
(* What the keyboard driver promises the shell: a queue of characters with *)
(* CAP places.  Every character typed is seen here: it enters the queue,   *)
(* as it was typed, unless the queue is full, and what is in the queue is  *)
(* delivered once each, in the order it was typed.                         *)
(***************************************************************************)
EXTENDS Naturals, Sequences

CONSTANTS CAP, Chars

VARIABLES
    queue,           \* characters typed and not yet delivered
    got,             \* the last character delivered (0: none yet)
    typed            \* the last character typed, and whether an odd number
                     \* was typed so far: no press is a stuttering step

Init == queue = <<>> /\ got = 0 /\ typed = <<0, FALSE>>

Type(ch) == /\ typed' = <<ch, ~typed[2]>>
            /\ queue' = IF Len(queue) < CAP THEN Append(queue, ch) ELSE queue
            /\ UNCHANGED got

Get == /\ queue # <<>>
       /\ got' = Head(queue)
       /\ queue' = Tail(queue)
       /\ UNCHANGED typed

Next == Get \/ \E ch \in Chars : Type(ch)

Spec == Init /\ [][Next]_<<queue, got, typed>>

Served == WF_<<queue, got, typed>>(Get)
=============================================================================
