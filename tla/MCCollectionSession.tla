------------------------ MODULE MCCollectionSession ------------------------
(***************************************************************************)
(* Sessions of one and two episodes with a command queue of one and two,   *)
(* so that it overflows while the child is slow.                           *)
(***************************************************************************)
EXTENDS CollectionSession
=============================================================================
