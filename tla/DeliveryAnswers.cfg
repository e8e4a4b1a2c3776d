SPECIFICATION Spec
CONSTANTS
  Clients = {c1, c2}
  NoClient = NoClient
  Area <- Screen1
  Colors <- BlackAndWhite
  FirstBackup <- AllBlack
  FirstScreen <- AllWhite
  Moves <- NoMoves
  Requests <- WholeView1
  MaxChanges = 1
  CopyRectEnabled = FALSE
  Pipelining = FALSE
  GrabFails = FALSE
  Failed = {c2}
  Failing = {c2}
PROPERTY ClientsConverge
PROPERTY FullRequestsAreAnswered
CHECK_DEADLOCK FALSE
