------------------------------ MODULE MCSpaces ------------------------------
(***************************************************************************)
(* Instances of AddressSpaces for TLC.                                     *)
(***************************************************************************)
EXTENDS AddressSpaces

\* The entry of the process debug makes shares the page of the stubs, or not.
InImage == {<<"image", 0>>, <<"image", 2>>}
=============================================================================
