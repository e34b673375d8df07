---------------------------- MODULE MCScheduler ----------------------------
(***************************************************************************)
(* Instances of Scheduler for TLC, and its refinement of RoundRobin.       *)
(***************************************************************************)
EXTENDS Scheduler, Sequences

\* The list as a sequence: the tasks from the head up to the one that closes
\* the ring.
RingLength ==
    IF ktask_head = NULL THEN 0
    ELSE CHOOSE n \in 1 .. Cardinality(Tasks) :
             hop[n] = ktask_head /\ \A m \in 1 .. (n - 1) : hop[m] # ktask_head

Ring == [i \in 1 .. RingLength |-> hop[i - 1]]

Abstract == INSTANCE RoundRobin WITH
    First <- KSystem,
    NoTask <- NULL,
    queue <- Ring,
    current <- ktask_current,
    done <- {t \in Tasks : state[t] = "ZOMBIE"}

\* The interrupt-driven walk over the linked list implements round robin:
\* each context switch goes to the first live task after the current one, and
\* an insertion takes effect at the end of the cyclic order, at once.
ImplementsRoundRobin == Abstract!RRSpec
=============================================================================
