------------------------------ MODULE MCFiles ------------------------------
(***************************************************************************)
(* Instances of Files for TLC.                                             *)
(***************************************************************************)
EXTENDS Files

Abs(parts) == [abs |-> TRUE, parts |-> parts]
Rel(parts) == [abs |-> FALSE, parts |-> parts]

Dir(path) == [path |-> path, type |-> 1, size |-> 0]
File(path, size) == [path |-> path, type |-> 0, size |-> size]

\* What mkinitrd packs, whole and cut in the data of its file.
MkinitrdImages ==
    LET entries == <<Dir(Abs(<<"bin">>)), File(Abs(<<"bin", "f">>), 2), EndMarker>>
    IN  {[entries |-> entries, len |-> n] : n \in {0, 2 * HEADER, 3 * HEADER + 2}}

ASSUME ImagesHaveNoDev == NoDevInImages

\* The root, names in it and below it, here and above.
FewPaths == {Abs(<<>>), Abs(<<"bin">>), Rel(<<"f">>), Rel(<<"..">>)}
=============================================================================
