--------------------------- MODULE MCGenericQueue ---------------------------
(***************************************************************************)
(* A queue of three slots whose caller inserts two different pointers.     *)
(* SizeT is far above Size, so a count that wrapped would be seen.         *)
(***************************************************************************)
EXTENDS GenericQueue

CONSTANTS p1, p2

MCItems == {p1, p2}
MCSize  == 3
MCSizeT == 16
=============================================================================
