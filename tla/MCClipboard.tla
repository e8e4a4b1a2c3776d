---------------------------- MODULE MCClipboard -----------------------------
(* Instances of Clipboard for TLC.                                         *)
EXTENDS Clipboard

CONSTANTS v1, v2, v3

OneViewer    == {v1}
ThreeViewers == {v1, v2, v3}

(* Where only texts that are copied one at a time are of interest.         *)
CopiedAlone == ~crossed
=============================================================================
