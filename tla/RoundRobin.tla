----------------------------- MODULE RoundRobin ----------------------------
(***************************************************************************)
(* What the DelOS scheduler promises: tasks are served in the cyclic order *)
(* of their arrival, a task that is done is passed over, and the CPU is    *)
(* only ever handed to a live task.  No pointers, no interrupt handler, no *)
(* half-done insertion: Scheduler.tla is shown to implement this.          *)
(***************************************************************************)
EXTENDS Naturals, Sequences

CONSTANTS Tasks, First, NoTask

VARIABLES
    queue,      \* the tasks, in order of arrival
    current,    \* the task that has the CPU
    done        \* the tasks that have finished

rrvars == <<queue, current, done>>

RRInit == queue = <<>> /\ current = NoTask /\ done = {}

\* Positions of the queue, met in cyclic order after position i.
After(i, n) == ((i - 1 + n) % Len(queue)) + 1

InQueue == {queue[i] : i \in DOMAIN queue}

Start == queue = <<>> /\ queue' = <<First>> /\ current' = First
         /\ UNCHANGED done

Arrive(t) ==
    /\ queue # <<>> /\ t \notin InQueue
    /\ queue' = Append(queue, t)
    /\ UNCHANGED <<current, done>>

Finish ==
    /\ current # NoTask
    /\ done' = done \cup {current}
    /\ UNCHANGED <<queue, current>>

\* The CPU goes to the first live task after the current one.
Switch ==
    \E i \in DOMAIN queue : \E n \in 1 .. Len(queue) :
        /\ queue[i] = current
        /\ queue[After(i, n)] \notin done
        /\ \A m \in 1 .. (n - 1) : queue[After(i, m)] \in done
        /\ current' = queue[After(i, n)]
        /\ UNCHANGED <<queue, done>>

RRNext == Start \/ (\E t \in Tasks : Arrive(t)) \/ Finish \/ Switch

RRSpec == RRInit /\ [][RRNext]_rrvars
=============================================================================
