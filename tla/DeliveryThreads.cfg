SPECIFICATION Spec
CONSTANTS
  Clients = {c1}
  NoClient = NoClient
  Area <- Screen1
  Colors <- BlackAndWhite
  FirstBackup <- AllBlack
  FirstScreen <- AllWhite
  Moves <- NoMoves
  Requests <- WholeView1
  MaxChanges = 2
  CopyRectEnabled = FALSE
  Pipelining = TRUE
  GrabFails = FALSE
  Failed = {}
  Failing = {c1}
INVARIANT RequestsKeepTheirFlag
INVARIANT BusyMeansRunning
INVARIANT NobodySleepsOnUpdates
INVARIANT NoUpdateLost
PROPERTY ImplementsChannel
CHECK_DEADLOCK FALSE
