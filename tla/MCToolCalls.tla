---------------------------- MODULE MCToolCalls ----------------------------
(***************************************************************************)
(* The instance of ToolCalls for TLC.                                      *)
(***************************************************************************)
EXTENDS ToolCalls, TLC

CONSTANTS search, process

\* A category with a deeper bucket and no timeout, and one with a timeout and
\* a single slot.
CallCategories  == {search, process}
CallRate        == search :> 1 @@ process :> 1
CallBurst       == search :> 2 @@ process :> 1
CallConcurrency == search :> 0 @@ process :> 1
=============================================================================
