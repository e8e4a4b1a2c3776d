SPECIFICATION Spec
CONSTANTS
  Clients = {c1, c2}
  None = None
  SharePolicies <- NeverShared
  DisconnectsExisting = TRUE
  MaxBroadcasts = 1
INVARIANT OneExclusiveClient
PROPERTY ClientsAreRemoved
PROPERTY ShutdownEnds
CHECK_DEADLOCK FALSE
