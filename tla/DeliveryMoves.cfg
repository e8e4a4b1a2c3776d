SPECIFICATION Spec
CONSTANTS
  Clients = {c1}
  NoClient = NoClient
  Area <- Screen2
  Colors <- BlackAndWhite
  FirstBackup <- AllBlack
  FirstScreen <- LeftWhite
  Moves <- OneMove
  Requests <- LeftOrAll2
  MaxChanges = 1
  CopyRectEnabled = FALSE
  Pipelining = FALSE
  GrabFails = TRUE
  Failed = {}
  Failing = {}
INVARIANT TypeOK
INVARIANT NoUpdateLost
PROPERTY ImplementsChannel
CHECK_DEADLOCK FALSE
