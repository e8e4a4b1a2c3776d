SPECIFICATION Spec
CONSTANTS
  Screen <- Screen3
  Area <- Area2
  ViewPorts <- AnyViewPort
  Colors = {black, white}
  Blank = black
  NoViewPort = NoViewPort
  Moves <- DisjointMoves
  Requests <- WholeRequest2
  CopyRectEnabled = TRUE
  DesktopSizeEnabled = TRUE
INVARIANT NoUpdateLost
