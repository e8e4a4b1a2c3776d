SPECIFICATION Spec
CONSTANTS
  Screen <- Screen4
  Area <- Area3
  ViewPorts <- AnyViewPort
  Colors = {black, white}
  Blank = black
  NoViewPort = NoViewPort
  Moves <- VisibleDisjointMoves
  Requests <- WholeRequest3
  CopyRectEnabled = TRUE
  DesktopSizeEnabled = TRUE
INVARIANT CopyRefersToRightPixels
INVARIANT FramebufferIsCurrent
