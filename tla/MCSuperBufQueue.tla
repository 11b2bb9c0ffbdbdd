--------------------------- MODULE MCSuperBufQueue ---------------------------
(***************************************************************************)
(* The super buffer queue with the channel attributes of the ZSL channel   *)
(* (burst) and of the live snapshot channel (continuous, low priority).    *)
(***************************************************************************)
EXTENDS SuperBufQueue

Attr(burst, low, mark, back, skip, unmatched) ==
  [burst |-> burst, low |-> low, mark |-> mark, back |-> back,
   skip |-> skip, unmatched |-> unmatched]

MCAttrs == {Attr(TRUE, FALSE, 2, 1, 1, 1), Attr(FALSE, TRUE, 1, 0, 1, 0)}

Says(prep, min, max, divert, crop1x) ==
  [prep |-> prep, min |-> min, max |-> max, skip |-> 1,
   divert |-> divert, crop1x |-> crop1x]

MCMetaInputs(f) ==
  {Says("need", 0, 0, 0, FALSE), Says("noneed", 0, 0, 0, FALSE),
   Says("none", f + 1, f + 2, 0, FALSE), Says("none", 0, 0, f + 1, FALSE),
   Says("none", 0, 0, 0, TRUE)}

=============================================================================
