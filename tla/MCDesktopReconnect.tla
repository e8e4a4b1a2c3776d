------------------------- MODULE MCDesktopReconnect -------------------------
(* Instances of DesktopReconnect for TLC.                                  *)
EXTENDS DesktopReconnect

OnePixel == {0}
TwoPixels == 0..1
BlackAndWhite == {0, 1}
AllBlack == [p \in Pixels |-> 0]
=============================================================================
