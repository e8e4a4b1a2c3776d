SPECIFICATION Spec
CONSTANTS
  Pixels <- OnePixel
  Colors <- BlackAndWhite
  FirstScreen <- AllBlack
  PipeSize = 2
  MaxChanges = 1
  MaxServers = 3
  FailingServers = {2}
INVARIANT TypeOK
INVARIANT MessagesAreWhole
INVARIANT ReplacementSparesUsers
INVARIANT FramebuffersInSync
INVARIANT NothingForgotten
INVARIANT ServerKnowsButtons
CHECK_DEADLOCK FALSE
PROPERTY ScreenIsTold
