SPECIFICATION Spec
CONSTANTS
  Screen <- Screen4
  Area <- Area3
  ViewPorts <- AnyViewPort
  Colors = {black, white}
  Blank = black
  NoViewPort = NoViewPort
  Moves <- VisibleMoves
  Requests <- WholeOrPart
  CopyRectEnabled = FALSE
  DesktopSizeEnabled = FALSE
INVARIANT TypeOK
INVARIANT NoUpdateLost
INVARIANT FramebufferIsCurrent
