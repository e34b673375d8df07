------------------------------ MODULE FileTree -----------------------------
(***************************************************************************)
(* What the file system promises: a set of paths, each a directory, a file *)
(* with a size or a device.  A path is there only below a directory; what  *)
(* is removed has nothing below it; a file never gets shorter.             *)
(***************************************************************************)
EXTENDS Integers, SequencesExt

VARIABLE tree        \* records of path, kind and size

Init == tree = {}

Next ==
    LET come == tree' \ tree
        gone == tree \ tree'
        Mount(t) == Len(t.path) = 1 /\ \A u \in come : u.path[1] = t.path[1]
        Make(t)  == /\ Len(t.path) > 1 /\ come = {t}
                    /\ \E d \in tree : d.path = Front(t.path) /\ d.kind = "dir"
                    /\ \A u \in tree : u.path # t.path
        Cut(t)   == /\ Len(t.path) > 1 /\ gone = {t}
                    /\ \A u \in tree : Len(u.path) > 1 => Front(u.path) # t.path
        Write(t, u) == /\ t.kind = "reg" /\ u.size > t.size
                       /\ gone = {t} /\ come = {[t EXCEPT !.size = u.size]}
    IN  \/ gone = {} /\ \E t \in come : Mount(t) \/ Make(t)
        \/ come = {} /\ \E t \in gone : Cut(t)
        \/ \E t \in gone, u \in come : Write(t, u)

Spec == Init /\ [][Next]_tree
=============================================================================
