SPECIFICATION Spec
CONSTANTS
  Clients = {c1, c2}
  None = None
  SharePolicies <- ClientsChoose
  DisconnectsExisting = FALSE
  MaxBroadcasts = 1
SYMMETRY Symmetry
INVARIANT ListedUntilReady
INVARIANT ModulesOutliveCalls
INVARIANT DesktopOutlivesClients
INVARIANT DestructorIsWoken
INVARIANT DesktopsAreDeletedOnce
CHECK_DEADLOCK FALSE
