---------------------------- MODULE MCViewerCore ----------------------------
(* Instances of ViewerCore for TLC.                                        *)
EXTENDS ViewerCore

OneAndTwoPoints == {{0}, {0, 1}}
TwoPoints == {0, 1}
BlackAndWhite == {0, 1}
HalfWhite == [p \in Points |-> p]
=============================================================================
