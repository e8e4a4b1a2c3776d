------------------------ MODULE ClientSessions_proof ------------------------
(***************************************************************************)
(* Proofs about ClientSessions, for any set of clients: nobody is lost     *)
(* from the lists, the loops call only modules that exist, a desktop       *)
(* outlives the modules that point to it and is deleted once, and the      *)
(* destructor of the manager does not wait for a signal nobody will give.  *)
(***************************************************************************)
EXTENDS ClientSessions, TLAPS

States  == {"absent", "nonauth", "auth", "normal", "pending", "ready"}
Threads == {"absent", "authenticating", "authenticated", "joined", "initializing",
            "serving", "closing", "leaving", "validating", "destroying", "notifying",
            "signalling", "deleting", "deleted", "ended"}

TypeInv ==
  /\ state \in [Clients -> States] /\ thread \in [Clients -> Threads]
  /\ connected \subseteq Clients /\ nonAuthClients \subseteq Clients
  /\ clients \subseteq Clients /\ modules \subseteq Clients
  /\ desktop \in Desktops \cup {None} /\ live \subseteq Desktops
  /\ desktopOf \in [Clients -> Desktops \cup {None}]
  /\ taken \in [Clients -> Desktops \cup {None}]
  /\ loop \in [todo : SUBSET Clients, calling : Clients \cup {None}]

(* The states a client may be in where its thread is.                      *)
Phases ==
  \A c \in Clients :
    /\ thread[c] = "absent" <=> state[c] = "absent"
    /\ thread[c] = "authenticating" => state[c] = "nonauth"
    /\ thread[c] \in {"authenticated", "joined", "initializing"} => state[c] = "auth"
    /\ thread[c] = "serving" => state[c] = "normal"
    /\ thread[c] \in {"closing", "leaving"} => state[c] \in {"nonauth", "auth", "normal"}
    /\ thread[c] \in {"validating", "destroying", "notifying", "signalling"}
         => state[c] \in {"pending", "ready"}
    /\ thread[c] \in {"deleting", "deleted"} => state[c] = "pending"
    /\ thread[c] = "ended" => state[c] = "ready"

(* Who has modules, or is about to, is in the list and points to           *)
(* m_pdesktop.                                                             *)
Users == modules \cup {c \in Clients : thread[c] = "joined"}

UsersAreListed ==
  \A c \in Users : /\ c \in clients /\ state[c] # "ready"
                   /\ desktopOf[c] = desktop /\ desktop # None

ModulesInNormalPhase ==
  /\ \A c \in Clients : state[c] = "normal" => c \in modules
  /\ \A c \in Clients : thread[c] = "initializing" => c \in modules
  /\ \A c \in Clients : thread[c] = "deleted" => c \notin modules

(* A client that is called has its modules, and cannot pass                *)
(* validateClientList before the loop ends.                                *)
Calls ==
  loop.calling # None =>
    /\ ~Unlocked /\ loop.calling \in modules
    /\ thread[loop.calling] \in {"serving", "closing", "leaving", "validating"}

(* A desktop's name is used once: its client has authenticated.            *)
Named(d) == d \in Clients /\ thread[d] \notin {"absent", "authenticating", "authenticated"}

DesktopsAreDistinct ==
  /\ desktop # None => desktop \in live
  /\ \A d \in live : Named(d)
  /\ \A c \in Clients : taken[c] # None => taken[c] # desktop /\ Named(taken[c])

IInv ==
  /\ TypeInv /\ Phases /\ ListedUntilReady
  /\ UsersAreListed /\ ModulesInNormalPhase /\ Calls /\ DesktopsAreDistinct
-----------------------------------------------------------------------------
(* Steps that only close sockets or move the dispatchers or the manager.   *)
QuietVars == <<state, thread, nonAuthClients, clients, modules, desktop, live, desktopOf,
               taken, lock, loop>>

LEMMA QuietStep ==
  ASSUME IInv, connected' \subseteq Clients, UNCHANGED QuietVars PROVE IInv'
BY DEF IInv, QuietVars, TypeInv, States, Threads, Desktops, Phases, ListedUntilReady,
       UsersAreListed, Users, ModulesInNormalPhase, Calls, Unlocked, DesktopsAreDistinct,
       Named

-----------------------------------------------------------------------------
(* A connection arrives.                                                   *)
LEMMA AddNewConnectionStep ==
  ASSUME IInv, NEW c \in Clients, AddNewConnection(c) PROVE IInv'
<1> USE SessionsAssumption DEF IInv, TypeInv, States, Threads, Desktops,
       AddNewConnection, SetClientState, Order, Goes, Unlocked, desktopVars, loopVars,
       managerVars
<1>1. TypeInv' OBVIOUS
<1>2. Phases' BY DEF Phases
<1>3. ListedUntilReady' BY DEF ListedUntilReady, Phases
<1>4. UsersAreListed' BY DEF UsersAreListed, Users
<1>5. ModulesInNormalPhase' BY DEF ModulesInNormalPhase
<1>6. Calls' BY DEF Calls
<1>7. DesktopsAreDistinct' BY DEF DesktopsAreDistinct, Named
<1> QED BY <1>1, <1>2, <1>3, <1>4, <1>5, <1>6, <1>7

-----------------------------------------------------------------------------
(* A client authenticates.                                                 *)
LEMMA AuthPhaseStep ==
  ASSUME IInv, NEW c \in Clients, AuthPhase(c) PROVE IInv'
<1> USE SessionsAssumption DEF IInv, TypeInv, States, Threads, Desktops, AuthPhase,
       SetClientState, Order, Goes, listVars, desktopVars, loopVars, managerVars
<1>1. TypeInv' OBVIOUS
<1>2. Phases' BY DEF Phases
<1>3. ListedUntilReady' BY DEF ListedUntilReady, Phases
<1>4. UsersAreListed' BY DEF UsersAreListed, Users
<1>5. ModulesInNormalPhase' BY DEF ModulesInNormalPhase
<1>6. Calls' BY DEF Calls, Unlocked
<1>7. DesktopsAreDistinct' BY DEF DesktopsAreDistinct, Named
<1> QED BY <1>1, <1>2, <1>3, <1>4, <1>5, <1>6, <1>7

-----------------------------------------------------------------------------
(* ... or fails to.                                                        *)
LEMMA InitFailsStep ==
  ASSUME IInv, NEW c \in Clients, InitFails(c) PROVE IInv'
<1> USE SessionsAssumption DEF IInv, TypeInv, States, Threads, Desktops, InitFails,
       listVars, desktopVars, loopVars, managerVars
<1>1. TypeInv' OBVIOUS
<1>2. Phases' BY DEF Phases
<1>3. ListedUntilReady' BY DEF ListedUntilReady
<1>4. UsersAreListed' BY DEF UsersAreListed, Users
<1>5. ModulesInNormalPhase' BY DEF ModulesInNormalPhase
<1>6. Calls' BY DEF Calls, Unlocked
<1>7. DesktopsAreDistinct' BY DEF DesktopsAreDistinct, Named
<1> QED BY <1>1, <1>2, <1>3, <1>4, <1>5, <1>6, <1>7

-----------------------------------------------------------------------------
(* A client is rejected.                                                   *)
LEMMA OnClientAuthThrowsStep ==
  ASSUME IInv, NEW c \in Clients, OnClientAuthThrows(c) PROVE IInv'
<1> USE SessionsAssumption DEF IInv, TypeInv, States, Threads, Desktops,
       OnClientAuthThrows, Goes, listVars, desktopVars, loopVars, managerVars
<1>1. TypeInv' OBVIOUS
<1>2. Phases' BY DEF Phases
<1>3. ListedUntilReady' BY DEF ListedUntilReady
<1>4. UsersAreListed' BY DEF UsersAreListed, Users
<1>5. ModulesInNormalPhase' BY DEF ModulesInNormalPhase
<1>6. Calls' BY DEF Calls, Unlocked
<1>7. DesktopsAreDistinct' BY DEF DesktopsAreDistinct, Named
<1> QED BY <1>1, <1>2, <1>3, <1>4, <1>5, <1>6, <1>7

-----------------------------------------------------------------------------
(* A client joins, and may make a desktop.                                 *)
LEMMA OnClientAuthStep ==
  ASSUME IInv, NEW c \in Clients, OnClientAuth(c) PROVE IInv'
<1> USE SessionsAssumption DEF IInv, TypeInv, States, Threads, Desktops, OnClientAuth,
       Joins, Disconnected, Goes, Unlocked, loopVars, managerVars
<1>1. TypeInv' OBVIOUS
<1>2. Phases' BY DEF Phases
<1>3. ListedUntilReady' BY DEF ListedUntilReady, Phases
<1>4. UsersAreListed' BY DEF UsersAreListed, Users, Phases
<1>5. ModulesInNormalPhase' BY DEF ModulesInNormalPhase
<1>6. Calls' BY DEF Calls
<1>7. DesktopsAreDistinct' BY DEF DesktopsAreDistinct, Named
<1> QED BY <1>1, <1>2, <1>3, <1>4, <1>5, <1>6, <1>7

-----------------------------------------------------------------------------
(* A client joins but there is no desktop for it.                          *)
LEMMA CreateDesktopThrowsStep ==
  ASSUME IInv, NEW c \in Clients, CreateDesktopThrows(c) PROVE IInv'
<1> USE SessionsAssumption DEF IInv, TypeInv, States, Threads, Desktops,
       CreateDesktopThrows, Joins, Disconnected, Goes, Unlocked, desktopVars,
       loopVars, managerVars
<1>1. TypeInv' OBVIOUS
<1>2. Phases' BY DEF Phases
<1>3. ListedUntilReady' BY DEF ListedUntilReady, Phases
<1>4. UsersAreListed' BY DEF UsersAreListed, Users
<1>5. ModulesInNormalPhase' BY DEF ModulesInNormalPhase
<1>6. Calls' BY DEF Calls
<1>7. DesktopsAreDistinct' BY DEF DesktopsAreDistinct, Named
<1> QED BY <1>1, <1>2, <1>3, <1>4, <1>5, <1>6, <1>7

-----------------------------------------------------------------------------
(* A client gets its modules.                                              *)
LEMMA InitModulesStep ==
  ASSUME IInv, NEW c \in Clients, InitModules(c) PROVE IInv'
<1> USE SessionsAssumption DEF IInv, TypeInv, States, Threads, Desktops, InitModules,
       Goes, listVars, desktopVars, loopVars, managerVars
<1>1. TypeInv' OBVIOUS
<1>2. Phases' BY DEF Phases
<1>3. ListedUntilReady' BY DEF ListedUntilReady
<1>4. UsersAreListed' BY DEF UsersAreListed, Users
<1>5. ModulesInNormalPhase' BY DEF ModulesInNormalPhase
<1>6. Calls' BY DEF Calls, Unlocked
<1>7. DesktopsAreDistinct' BY DEF DesktopsAreDistinct, Named
<1> QED BY <1>1, <1>2, <1>3, <1>4, <1>5, <1>6, <1>7

-----------------------------------------------------------------------------
(* ... and enters the normal phase.                                        *)
LEMMA EnterNormalPhaseStep ==
  ASSUME IInv, NEW c \in Clients, EnterNormalPhase(c) PROVE IInv'
<1> USE SessionsAssumption DEF IInv, TypeInv, States, Threads, Desktops,
       EnterNormalPhase, SetClientState, Order, Goes, listVars, desktopVars, loopVars,
       managerVars
<1>1. TypeInv' OBVIOUS
<1>2. Phases' BY DEF Phases
<1>3. ListedUntilReady' BY DEF ListedUntilReady, Phases
<1>4. UsersAreListed' BY DEF UsersAreListed, Users
<1>5. ModulesInNormalPhase' BY DEF ModulesInNormalPhase
<1>6. Calls' BY DEF Calls, Unlocked
<1>7. DesktopsAreDistinct' BY DEF DesktopsAreDistinct, Named
<1> QED BY <1>1, <1>2, <1>3, <1>4, <1>5, <1>6, <1>7

-----------------------------------------------------------------------------
(* A session ends.                                                         *)
LEMMA ConnClosingStep ==
  ASSUME IInv, NEW c \in Clients, ConnClosing(c) PROVE IInv'
<1> USE SessionsAssumption DEF IInv, TypeInv, States, Threads, Desktops, ConnClosing,
       Goes, listVars, desktopVars, loopVars, managerVars
<1>1. TypeInv' OBVIOUS
<1>2. Phases' BY DEF Phases
<1>3. ListedUntilReady' BY DEF ListedUntilReady
<1>4. UsersAreListed' BY DEF UsersAreListed, Users
<1>5. ModulesInNormalPhase' BY DEF ModulesInNormalPhase
<1>6. Calls' BY DEF Calls, Unlocked
<1>7. DesktopsAreDistinct' BY DEF DesktopsAreDistinct, Named
<1> QED BY <1>1, <1>2, <1>3, <1>4, <1>5, <1>6, <1>7

-----------------------------------------------------------------------------
(* ... its socket is closed.                                               *)
LEMMA DisconnectStep ==
  ASSUME IInv, NEW c \in Clients, Disconnect(c) PROVE IInv'
<1> USE SessionsAssumption DEF IInv, TypeInv, States, Threads, Desktops, Disconnect,
       Goes, listVars, desktopVars, loopVars, managerVars
<1>1. TypeInv' OBVIOUS
<1>2. Phases' BY DEF Phases
<1>3. ListedUntilReady' BY DEF ListedUntilReady
<1>4. UsersAreListed' BY DEF UsersAreListed, Users
<1>5. ModulesInNormalPhase' BY DEF ModulesInNormalPhase
<1>6. Calls' BY DEF Calls, Unlocked
<1>7. DesktopsAreDistinct' BY DEF DesktopsAreDistinct, Named
<1> QED BY <1>1, <1>2, <1>3, <1>4, <1>5, <1>6, <1>7

-----------------------------------------------------------------------------
(* ... it is to be removed.                                                *)
LEMMA PendingToRemoveStep ==
  ASSUME IInv, NEW c \in Clients, PendingToRemove(c) PROVE IInv'
<1> USE SessionsAssumption DEF IInv, TypeInv, States, Threads, Desktops,
       PendingToRemove, SetClientState, Order, Goes, listVars, desktopVars, loopVars,
       managerVars
<1>1. TypeInv' OBVIOUS
<1>2. Phases' BY DEF Phases
<1>3. ListedUntilReady' BY DEF ListedUntilReady, Phases
<1>4. UsersAreListed' BY DEF UsersAreListed, Users
<1>5. ModulesInNormalPhase' BY DEF ModulesInNormalPhase
<1>6. Calls' BY DEF Calls, Unlocked
<1>7. DesktopsAreDistinct' BY DEF DesktopsAreDistinct, Named
<1> QED BY <1>1, <1>2, <1>3, <1>4, <1>5, <1>6, <1>7

-----------------------------------------------------------------------------
(* ... its modules go.                                                     *)
LEMMA DeleteModulesStep ==
  ASSUME IInv, NEW c \in Clients, DeleteModules(c) PROVE IInv'
<1> USE SessionsAssumption DEF IInv, TypeInv, States, Threads, Desktops,
       DeleteModules, Goes, listVars, desktopVars, loopVars, managerVars
<1>1. TypeInv' OBVIOUS
<1>2. Phases' BY DEF Phases
<1>3. ListedUntilReady' BY DEF ListedUntilReady
<1>4. UsersAreListed' BY DEF UsersAreListed, Users
<1>5. ModulesInNormalPhase' BY DEF ModulesInNormalPhase, Phases
<1>6. Calls' BY DEF Calls, Unlocked
<1>7. DesktopsAreDistinct' BY DEF DesktopsAreDistinct, Named
<1> QED BY <1>1, <1>2, <1>3, <1>4, <1>5, <1>6, <1>7

-----------------------------------------------------------------------------
(* ... it may be removed.                                                  *)
LEMMA ReadyToRemoveStep ==
  ASSUME IInv, NEW c \in Clients, ReadyToRemove(c) PROVE IInv'
<1> USE SessionsAssumption DEF IInv, TypeInv, States, Threads, Desktops,
       ReadyToRemove, SetClientState, Order, Goes, listVars, desktopVars, loopVars,
       managerVars
<1>1. TypeInv' OBVIOUS
<1>2. Phases' BY DEF Phases
<1>3. ListedUntilReady' BY DEF ListedUntilReady
<1>4. UsersAreListed' BY DEF UsersAreListed, Users, Phases, ListedUntilReady,
       DesktopsAreDistinct, Named, ModulesInNormalPhase
<1>5. ModulesInNormalPhase' BY DEF ModulesInNormalPhase
<1>6. Calls' BY DEF Calls, Unlocked
<1>7. DesktopsAreDistinct' BY DEF DesktopsAreDistinct, Named
<1> QED BY <1>1, <1>2, <1>3, <1>4, <1>5, <1>6, <1>7

-----------------------------------------------------------------------------
(* The lists are validated, and the desktop is taken when none is left.    *)
LEMMA ValidateClientListStep ==
  ASSUME IInv, NEW c \in Clients, ValidateClientList(c) PROVE IInv'
<1> USE SessionsAssumption DEF IInv, TypeInv, States, Threads, Desktops,
       ValidateClientList, Removable, Goes, Unlocked, loopVars, managerVars
<1>1. TypeInv' OBVIOUS
<1>2. Phases' BY DEF Phases
<1>3. ListedUntilReady' BY DEF ListedUntilReady
<1>4. UsersAreListed' BY DEF UsersAreListed, Users
<1>5. ModulesInNormalPhase' BY DEF ModulesInNormalPhase
<1>6. Calls' BY DEF Calls
<1>7. DesktopsAreDistinct' BY DEF DesktopsAreDistinct, Named
<1> QED BY <1>1, <1>2, <1>3, <1>4, <1>5, <1>6, <1>7

-----------------------------------------------------------------------------
(* The desktop that was taken is deleted.                                  *)
LEMMA DeleteDesktopStep ==
  ASSUME IInv, NEW c \in Clients, DeleteDesktop(c) PROVE IInv'
<1> USE SessionsAssumption DEF IInv, TypeInv, States, Threads, Desktops,
       DeleteDesktop, Goes, listVars, loopVars, managerVars
<1>1. TypeInv' OBVIOUS
<1>2. Phases' BY DEF Phases
<1>3. ListedUntilReady' BY DEF ListedUntilReady
<1>4. UsersAreListed' BY DEF UsersAreListed, Users
<1>5. ModulesInNormalPhase' BY DEF ModulesInNormalPhase
<1>6. Calls' BY DEF Calls, Unlocked
<1>7. DesktopsAreDistinct' BY DEF DesktopsAreDistinct, Named
<1> QED BY <1>1, <1>2, <1>3, <1>4, <1>5, <1>6, <1>7

-----------------------------------------------------------------------------
(* The listeners are told.                                                 *)
LEMMA AfterLastClientDisconnectStep ==
  ASSUME IInv, NEW c \in Clients, AfterLastClientDisconnect(c) PROVE IInv'
<1> USE SessionsAssumption DEF IInv, TypeInv, States, Threads, Desktops,
       AfterLastClientDisconnect, Goes, listVars, desktopVars, loopVars, managerVars
<1>1. TypeInv' OBVIOUS
<1>2. Phases' BY DEF Phases
<1>3. ListedUntilReady' BY DEF ListedUntilReady
<1>4. UsersAreListed' BY DEF UsersAreListed, Users
<1>5. ModulesInNormalPhase' BY DEF ModulesInNormalPhase
<1>6. Calls' BY DEF Calls, Unlocked
<1>7. DesktopsAreDistinct' BY DEF DesktopsAreDistinct, Named
<1> QED BY <1>1, <1>2, <1>3, <1>4, <1>5, <1>6, <1>7

-----------------------------------------------------------------------------
(* The destructor is told.                                                 *)
LEMMA SignalUnderflowStep ==
  ASSUME IInv, NEW c \in Clients, SignalUnderflow(c) PROVE IInv'
<1> USE SessionsAssumption DEF IInv, TypeInv, States, Threads, Desktops,
       SignalUnderflow, Goes, Unlocked, listVars, desktopVars, loopVars
<1>1. TypeInv' OBVIOUS
<1>2. Phases' BY DEF Phases
<1>3. ListedUntilReady' BY DEF ListedUntilReady
<1>4. UsersAreListed' BY DEF UsersAreListed, Users
<1>5. ModulesInNormalPhase' BY DEF ModulesInNormalPhase
<1>6. Calls' BY DEF Calls
<1>7. DesktopsAreDistinct' BY DEF DesktopsAreDistinct, Named
<1> QED BY <1>1, <1>2, <1>3, <1>4, <1>5, <1>6, <1>7

-----------------------------------------------------------------------------
(* A loop over the clients begins.                                         *)
LEMMA BeginLoopStep ==
  ASSUME IInv, NEW d \in Clients, BeginLoop(d) PROVE IInv'
<1> USE SessionsAssumption DEF IInv, TypeInv, States, Threads, Desktops, BeginLoop,
       Unlocked, clientVars, listVars, desktopVars, managerVars
<1>1. TypeInv' OBVIOUS
<1>2. Phases' BY DEF Phases
<1>3. ListedUntilReady' BY DEF ListedUntilReady
<1>4. UsersAreListed' BY DEF UsersAreListed, Users
<1>5. ModulesInNormalPhase' BY DEF ModulesInNormalPhase
<1>6. Calls' BY DEF Calls
<1>7. DesktopsAreDistinct' BY DEF DesktopsAreDistinct, Named
<1> QED BY <1>1, <1>2, <1>3, <1>4, <1>5, <1>6, <1>7

-----------------------------------------------------------------------------
(* ... looks at a client and may call it,                                  *)
LEMMA LookAtStep ==
  ASSUME IInv, NEW c \in Clients, LookAt(c) PROVE IInv'
<1> USE SessionsAssumption DEF IInv, TypeInv, States, Threads, Desktops, LookAt,
       Unlocked, clientVars, listVars, desktopVars, managerVars
<1>1. TypeInv' OBVIOUS
<1>2. Phases' BY DEF Phases
<1>3. ListedUntilReady' BY DEF ListedUntilReady
<1>4. UsersAreListed' BY DEF UsersAreListed, Users
<1>5. ModulesInNormalPhase' BY DEF ModulesInNormalPhase
<1>6. Calls' BY DEF Calls, Phases, ModulesInNormalPhase, UsersAreListed, Users
<1>7. DesktopsAreDistinct' BY DEF DesktopsAreDistinct, Named
<1> QED BY <1>1, <1>2, <1>3, <1>4, <1>5, <1>6, <1>7

-----------------------------------------------------------------------------
(* ... has called it,                                                      *)
LEMMA CalledStep ==
  ASSUME IInv, Called PROVE IInv'
<1> USE SessionsAssumption DEF IInv, TypeInv, States, Threads, Desktops, Called,
       listVars, desktopVars, managerVars
<1>1. TypeInv' OBVIOUS
<1>2. Phases' BY DEF Phases
<1>3. ListedUntilReady' BY DEF ListedUntilReady
<1>4. UsersAreListed' BY DEF UsersAreListed, Users
<1>5. ModulesInNormalPhase' BY DEF ModulesInNormalPhase
<1>6. Calls' BY DEF Calls, Unlocked
<1>7. DesktopsAreDistinct' BY DEF DesktopsAreDistinct, Named
<1> QED BY <1>1, <1>2, <1>3, <1>4, <1>5, <1>6, <1>7

-----------------------------------------------------------------------------
(* ... and ends.                                                           *)
LEMMA EndLoopStep ==
  ASSUME IInv, EndLoop PROVE IInv'
<1> USE SessionsAssumption DEF IInv, TypeInv, States, Threads, Desktops, EndLoop,
       Unlocked, clientVars, listVars, desktopVars, managerVars
<1>1. TypeInv' OBVIOUS
<1>2. Phases' BY DEF Phases
<1>3. ListedUntilReady' BY DEF ListedUntilReady
<1>4. UsersAreListed' BY DEF UsersAreListed, Users
<1>5. ModulesInNormalPhase' BY DEF ModulesInNormalPhase
<1>6. Calls' BY DEF Calls
<1>7. DesktopsAreDistinct' BY DEF DesktopsAreDistinct, Named
<1> QED BY <1>1, <1>2, <1>3, <1>4, <1>5, <1>6, <1>7

-----------------------------------------------------------------------------
(* No client is there at first.                                            *)
LEMMA InitInv == Init => IInv
<1> USE SessionsAssumption DEF Init
<1>1. Init => TypeInv BY DEF TypeInv, States, Threads, Desktops
<1>2. Init => Phases BY DEF Phases
<1>3. Init => ListedUntilReady BY DEF ListedUntilReady
<1>4. Init => UsersAreListed /\ ModulesInNormalPhase
  BY DEF UsersAreListed, Users, ModulesInNormalPhase
<1>5. Init => Calls BY DEF Calls
<1>6. Init => DesktopsAreDistinct BY DEF DesktopsAreDistinct
<1> QED BY <1>1, <1>2, <1>3, <1>4, <1>5, <1>6 DEF IInv

(* Every step keeps the invariant.                                         *)
LEMMA NextInv == IInv /\ [Next]_vars => IInv'
<1> SUFFICES ASSUME IInv, [Next]_vars PROVE IInv' OBVIOUS
<1> USE DEF IInv, TypeInv, QuietVars, clientVars, listVars, desktopVars, loopVars,
        managerVars
<1>1. CASE DesktopThread BY <1>1, CalledStep, EndLoopStep, LookAtStep DEF DesktopThread
<1>2. CASE Manager BY <1>2, QuietStep DEF Manager, CheckLists, WaitUnderflow
<1>3. CASE DestroyManager BY <1>3, QuietStep DEF DestroyManager
<1>4. CASE DisconnectAllClients BY <1>4, QuietStep DEF DisconnectAllClients
<1>5. ASSUME NEW c \in Clients,
             \/ AddNewConnection(c) \/ PeerCloses(c) \/ AuthPhase(c) \/ InitFails(c)
             \/ CreateDesktopThrows(c) \/ EnterNormalPhase(c) \/ Dispatch(c)
      PROVE  IInv'
  <2>1. CASE PeerCloses(c) BY <2>1, QuietStep DEF PeerCloses
  <2>2. CASE Dispatch(c) BY <2>2, QuietStep DEF Dispatch
  <2> QED BY <1>5, <2>1, <2>2, AddNewConnectionStep, AuthPhaseStep, InitFailsStep,
             CreateDesktopThrowsStep, EnterNormalPhaseStep
<1>6. ASSUME NEW c \in Clients, ClientThread(c) PROVE IInv'
  BY <1>6, InitFailsStep, OnClientAuthThrowsStep, OnClientAuthStep, InitModulesStep,
     ConnClosingStep, DisconnectStep, PendingToRemoveStep, DeleteModulesStep,
     ReadyToRemoveStep, ValidateClientListStep, DeleteDesktopStep,
     AfterLastClientDisconnectStep, SignalUnderflowStep DEF ClientThread
<1>7. ASSUME NEW c \in Clients, DispatcherThread(c) PROVE IInv'
  BY <1>7, QuietStep DEF DispatcherThread, Handled, DispatcherEnds
<1>8. ASSUME NEW d \in Clients, BeginLoop(d) \/ OnAbnormalDesktopTerminate(d) PROVE IInv'
  <2>1. CASE OnAbnormalDesktopTerminate(d)
    BY <2>1, QuietStep DEF OnAbnormalDesktopTerminate
  <2> QED BY <1>8, <2>1, BeginLoopStep
<1>9. CASE UNCHANGED vars BY <1>9, QuietStep DEF vars
<1> QED BY <1>1, <1>2, <1>3, <1>4, <1>5, <1>6, <1>7, <1>8, <1>9 DEF Next

LEMMA Invariance == Spec => []IInv
BY InitInv, NextInv, PTL DEF Spec

(* A client is in exactly one list from its connection until it is ready   *)
(* to be removed, however many clients connect, join and leave at once.    *)
THEOREM SessionsListed == Spec => []ListedUntilReady
<1>1. IInv => ListedUntilReady BY DEF IInv
<1> QED BY <1>1, Invariance, PTL

(* No loop over the clients calls into modules that were deleted.          *)
THEOREM SessionsModulesOutliveCalls == Spec => []ModulesOutliveCalls
<1>1. IInv => ModulesOutliveCalls BY DEF IInv, Calls, ModulesOutliveCalls
<1> QED BY <1>1, Invariance, PTL

(* No client's modules are left with a desktop that was deleted.           *)
THEOREM SessionsDesktopOutlivesClients == Spec => []DesktopOutlivesClients
<1>1. IInv => DesktopOutlivesClients
  BY DEF IInv, UsersAreListed, Users, DesktopsAreDistinct, DesktopOutlivesClients
<1> QED BY <1>1, Invariance, PTL

-----------------------------------------------------------------------------
(* A client that joins a server that never shares finds nobody connected.  *)
LEMMA JoinsAlone ==
  ASSUME NEW c \in Clients, Joins(c, FALSE) PROVE OneExclusiveClient'
BY DEF Joins, Rejected, Disconnected, OneExclusiveClient

LEMMA ExclusiveStep ==
  ASSUME SharePolicies \subseteq {"never"}, IInv, OneExclusiveClient, [Next]_vars
  PROVE  OneExclusiveClient'
<1> USE DEF OneExclusiveClient, clientVars, listVars, desktopVars, loopVars, managerVars
<1>1. ASSUME clients' \subseteq clients, connected' \subseteq connected
      PROVE  OneExclusiveClient'
  BY <1>1
<1>2. ASSUME NEW c \in Clients, OnClientAuth(c) \/ CreateDesktopThrows(c)
      PROVE  OneExclusiveClient'
  <2>1. ASSUME NEW policy \in SharePolicies, NEW shared \in BOOLEAN
        PROVE  IsResultShared(policy, shared) = FALSE
    BY DEF IsResultShared
  <2>2. Joins(c, FALSE) BY <1>2, <2>1 DEF OnClientAuth, CreateDesktopThrows
  <2> QED BY <2>2, JoinsAlone
<1>3. ASSUME NEW c \in Clients, AddNewConnection(c) PROVE OneExclusiveClient'
  <2>1. c \notin clients
    BY <1>3 DEF AddNewConnection, Goes, IInv, Phases, ListedUntilReady
  <2> QED BY <1>3, <2>1 DEF AddNewConnection
<1>4. CASE DesktopThread BY <1>1, <1>4 DEF DesktopThread, Called, EndLoop, LookAt
<1>5. CASE Manager \/ DestroyManager \/ DisconnectAllClients
  BY <1>1, <1>5 DEF Manager, CheckLists, WaitUnderflow, DestroyManager, DisconnectAllClients
<1>6. ASSUME NEW c \in Clients,
             \/ PeerCloses(c) \/ AuthPhase(c) \/ InitFails(c) \/ EnterNormalPhase(c)
             \/ Dispatch(c) \/ DispatcherThread(c)
             \/ BeginLoop(c) \/ OnAbnormalDesktopTerminate(c)
      PROVE  OneExclusiveClient'
  BY <1>1, <1>6 DEF PeerCloses, AuthPhase, InitFails, EnterNormalPhase, Dispatch,
     DispatcherThread, Handled, DispatcherEnds, BeginLoop, OnAbnormalDesktopTerminate
<1>7. ASSUME NEW c \in Clients, ClientThread(c) PROVE OneExclusiveClient'
  BY <1>1, <1>2, <1>7 DEF ClientThread, InitFails, OnClientAuthThrows, InitModules,
     ConnClosing, Disconnect, PendingToRemove, DeleteModules, ReadyToRemove,
     ValidateClientList, DeleteDesktop, AfterLastClientDisconnect, SignalUnderflow
<1>8. CASE UNCHANGED vars BY <1>1, <1>8 DEF vars
<1> QED BY <1>2, <1>3, <1>4, <1>5, <1>6, <1>7, <1>8 DEF Next

(* A server configured never to share has one connected authorized client  *)
(* at most, however many authenticate at the same time.                    *)
THEOREM SessionsOneExclusiveClient ==
  ASSUME SharePolicies \subseteq {"never"} PROVE Spec => []OneExclusiveClient
<1>1. Init => OneExclusiveClient BY DEF Init, OneExclusiveClient
<1>2. IInv /\ OneExclusiveClient /\ [Next]_vars => OneExclusiveClient' BY ExclusiveStep
<1> QED BY <1>1, <1>2, Invariance, PTL DEF Spec

-----------------------------------------------------------------------------
(* A client that is ready is listed only until its thread removes it, and  *)
(* the thread that empties the lists is still to signal that.              *)
RemovesItself ==
  \A c \in nonAuthClients \cup clients : state[c] = "ready" => thread[c] = "validating"

Signalling == \E c \in Clients : thread[c] \in {"destroying", "notifying", "signalling"}

WakeInv ==
  RemovesItself /\ (manager = "waiting" /\ ~underflow /\ Underflown => Signalling)

(* A client's thread that stays out of validateClientList's second half.   *)
LEMMA OtherThreadStep ==
  ASSUME IInv, WakeInv, NEW c \in Clients, NEW to \in Threads,
         thread' = [thread EXCEPT ![c] = to],
         thread[c] \notin {"destroying", "notifying", "signalling", "validating"},
         UNCHANGED <<manager, underflow>>,
         nonAuthClients \cup clients \subseteq nonAuthClients' \cup clients',
         \A d \in nonAuthClients' \cup clients' : state'[d] = "ready" =>
           IF d = c THEN to = "validating"
           ELSE d \in nonAuthClients \cup clients /\ state[d] = "ready"
  PROVE  WakeInv'
<1>1. thread \in [Clients -> Threads] /\ nonAuthClients \cup clients \subseteq Clients
  BY DEF IInv, TypeInv
<1>2. RemovesItself'
  BY <1>1 DEF WakeInv, RemovesItself
<1>3. Signalling => Signalling'
  BY <1>1 DEF Signalling
<1>4. Underflown' => Underflown
  BY DEF Underflown
<1> QED BY <1>2, <1>3, <1>4 DEF WakeInv

(* Steps that leave the clients' threads, states and lists as they are.    *)
LEMMA NoThreadStep ==
  ASSUME WakeInv, UNCHANGED <<state, thread, nonAuthClients, clients>>,
         manager' = "waiting" =>
           \/ UNCHANGED <<manager, underflow>>
           \/ nonAuthClients \cup clients # {}
  PROVE  WakeInv'
BY DEF WakeInv, RemovesItself, Signalling, Underflown

(* A client's thread empties the lists, and is still to signal that.       *)
LEMMA ValidateWakes ==
  ASSUME IInv, WakeInv, NEW c \in Clients, ValidateClientList(c) PROVE WakeInv'
<1>1. thread \in [Clients -> Threads] /\ nonAuthClients \cup clients \subseteq Clients
  BY DEF IInv, TypeInv
<1>2. RemovesItself' BY <1>1 DEF RemovesItself, ValidateClientList, Removable
<1>3. Signalling' BY <1>1 DEF Signalling, ValidateClientList, Goes
<1> QED BY <1>2, <1>3 DEF WakeInv

(* ... a deleted desktop and a told listener do not keep it from that, ... *)
LEMMA LastClientWakes ==
  ASSUME IInv, WakeInv, NEW c \in Clients, DeleteDesktop(c) \/ AfterLastClientDisconnect(c)
  PROVE  WakeInv'
<1> USE DEF DeleteDesktop, AfterLastClientDisconnect, Goes, listVars, managerVars
<1>1. thread \in [Clients -> Threads] BY DEF IInv, TypeInv
<1>2. /\ UNCHANGED <<state, nonAuthClients, clients>>
      /\ \A d \in Clients : d # c => thread'[d] = thread[d]
      /\ thread[c] # "validating"
  BY <1>1
<1>3. nonAuthClients \cup clients \subseteq Clients BY DEF IInv, TypeInv
<1>4. RemovesItself' BY <1>2, <1>3 DEF WakeInv, RemovesItself
<1>5. Signalling' BY <1>1 DEF Signalling
<1> QED BY <1>4, <1>5 DEF WakeInv

(* ... and it does signal it.                                              *)
LEMMA SignalWakes ==
  ASSUME IInv, WakeInv, NEW c \in Clients, SignalUnderflow(c) PROVE WakeInv'
<1> USE DEF SignalUnderflow, Goes, listVars
<1>1. thread \in [Clients -> Threads] BY DEF IInv, TypeInv
<1>2. RemovesItself' BY <1>1 DEF WakeInv, RemovesItself
<1>3. Underflown' => underflow' BY DEF Underflown
<1> QED BY <1>2, <1>3 DEF WakeInv

(* A client that arrives, joins or is on its way out does not hide that    *)
(* the lists are empty.                                                    *)
LEMMA ThreadWakes ==
  ASSUME IInv, WakeInv, NEW c \in Clients,
         \/ AddNewConnection(c) \/ AuthPhase(c) \/ InitFails(c) \/ OnClientAuthThrows(c)
         \/ OnClientAuth(c) \/ CreateDesktopThrows(c) \/ InitModules(c)
         \/ EnterNormalPhase(c) \/ ConnClosing(c) \/ Disconnect(c) \/ PendingToRemove(c)
         \/ DeleteModules(c) \/ ReadyToRemove(c)
  PROVE  WakeInv'
<1> USE DEF Goes, SetClientState, Order, listVars, managerVars, Threads
<1>1. /\ thread \in [Clients -> Threads] /\ state \in [Clients -> States]
      /\ nonAuthClients \cup clients \subseteq Clients
  BY DEF IInv, TypeInv
<1>2. ASSUME UNCHANGED <<state, listVars>> PROVE
        \A d \in nonAuthClients' \cup clients' : state'[d] = "ready" =>
          d \in nonAuthClients \cup clients /\ state[d] = "ready"
  BY <1>2
<1>3. thread[c] # "validating" => ~(c \in nonAuthClients \cup clients /\ state[c] = "ready")
  BY DEF WakeInv, RemovesItself
<1>4. CASE AddNewConnection(c) \/ AuthPhase(c) \/ EnterNormalPhase(c)
  BY <1>1, <1>3, <1>4, OtherThreadStep
     DEF AddNewConnection, AuthPhase, EnterNormalPhase, States, IInv, Phases
<1>5. CASE InitFails(c) \/ OnClientAuthThrows(c) \/ InitModules(c) \/ ConnClosing(c)
           \/ Disconnect(c) \/ DeleteModules(c)
  BY <1>1, <1>2, <1>3, <1>5, OtherThreadStep
     DEF InitFails, OnClientAuthThrows, InitModules, ConnClosing, Disconnect, DeleteModules
<1>6. CASE OnClientAuth(c) \/ CreateDesktopThrows(c)
  BY <1>1, <1>3, <1>6, OtherThreadStep
     DEF OnClientAuth, CreateDesktopThrows, Joins, IInv, Phases
<1>7. CASE PendingToRemove(c) \/ ReadyToRemove(c)
  BY <1>1, <1>3, <1>7, OtherThreadStep DEF PendingToRemove, ReadyToRemove
<1> QED BY <1>4, <1>5, <1>6, <1>7

LEMMA WakeStep == IInv /\ WakeInv /\ [Next]_vars => WakeInv'
<1> SUFFICES ASSUME IInv, WakeInv, [Next]_vars PROVE WakeInv' OBVIOUS
<1> USE DEF clientVars, listVars, desktopVars, loopVars, managerVars
<1>1. CASE DesktopThread
  BY <1>1, NoThreadStep DEF DesktopThread, Called, EndLoop, LookAt
<1>2. CASE Manager \/ DestroyManager \/ DisconnectAllClients
  BY <1>2, NoThreadStep
     DEF Manager, CheckLists, WaitUnderflow, DestroyManager, DisconnectAllClients
<1>3. ASSUME NEW c \in Clients,
             \/ AddNewConnection(c) \/ AuthPhase(c) \/ InitFails(c)
             \/ CreateDesktopThrows(c) \/ EnterNormalPhase(c) \/ ClientThread(c)
      PROVE  WakeInv'
  BY <1>3, ThreadWakes, ValidateWakes, LastClientWakes, SignalWakes DEF ClientThread
<1>4. ASSUME NEW c \in Clients,
             \/ PeerCloses(c) \/ Dispatch(c) \/ DispatcherThread(c)
             \/ BeginLoop(c) \/ OnAbnormalDesktopTerminate(c)
      PROVE  WakeInv'
  BY <1>4, NoThreadStep DEF PeerCloses, Dispatch, DispatcherThread, Handled,
     DispatcherEnds, BeginLoop, OnAbnormalDesktopTerminate
<1>5. CASE UNCHANGED vars BY <1>5, NoThreadStep DEF vars
<1> QED BY <1>1, <1>2, <1>3, <1>4, <1>5 DEF Next

(* The destructor of the manager never waits for a signal that nobody is   *)
(* left to give: every listed client's thread is still to remove it, and   *)
(* who emptied the lists is still to say so.                               *)
THEOREM SessionsDestructorIsWoken == Spec => []DestructorIsWoken
<1>1. Init => WakeInv BY DEF Init, WakeInv, RemovesItself
<1>2. IInv /\ WakeInv => DestructorIsWoken
  <2> SUFFICES ASSUME IInv, WakeInv PROVE DestructorIsWoken OBVIOUS
  <2>1. \A c \in nonAuthClients \cup clients : thread[c] # "ended"
    BY DEF IInv, TypeInv, Phases, WakeInv, RemovesItself
  <2> QED BY <2>1 DEF DestructorIsWoken, WakeInv, Signalling
<1> QED BY <1>1, <1>2, WakeStep, Invariance, PTL DEF Spec

-----------------------------------------------------------------------------
(* A thread that neither takes a desktop nor deletes one.                  *)
LEMMA NoDesktopStep ==
  ASSUME IInv, DesktopsAreDeletedOnce, UNCHANGED <<live, desktop, taken>>,
         \A c \in Clients : thread'[c] = "destroying" <=> thread[c] = "destroying"
  PROVE  DesktopsAreDeletedOnce'
BY DEF DesktopsAreDeletedOnce

(* A client that joins may make the next desktop, of another name.         *)
LEMMA OnClientAuthDeletesNone ==
  ASSUME IInv, DesktopsAreDeletedOnce, NEW c \in Clients, OnClientAuth(c)
  PROVE  DesktopsAreDeletedOnce'
<1>1. /\ thread \in [Clients -> Threads] /\ live \subseteq Clients /\ None \notin Clients
      /\ desktop # None => desktop \in live
      /\ c \notin live /\ \A e \in Clients : taken[e] # None => taken[e] # c
  BY SessionsAssumption
     DEF IInv, TypeInv, Desktops, DesktopsAreDistinct, Named, OnClientAuth, Goes
<1>2. /\ taken' = taken /\ live' \ {desktop'} = live \ {desktop}
      /\ \A e \in Clients : thread'[e] = "destroying" <=> thread[e] = "destroying"
  BY <1>1 DEF OnClientAuth, Goes
<1> QED BY <1>2 DEF DesktopsAreDeletedOnce

(* The last client's thread takes the desktop, which nobody had taken.     *)
LEMMA ValidateTakesDesktop ==
  ASSUME IInv, DesktopsAreDeletedOnce, NEW c \in Clients, ValidateClientList(c)
  PROVE  DesktopsAreDeletedOnce'
<1> USE DEF ValidateClientList, Goes
<1>1. /\ thread \in [Clients -> Threads] /\ taken \in [Clients -> Clients \cup {None}]
      /\ live \subseteq Clients /\ None \notin Clients
      /\ desktop # None => desktop \in live
  BY SessionsAssumption DEF IInv, TypeInv, Desktops, DesktopsAreDistinct
<1>2. CASE clients \ Removable = {} /\ desktop # None
  <2>1. /\ taken' = [taken EXCEPT ![c] = desktop] /\ live' \ {desktop'} = live
        /\ thread' = [thread EXCEPT ![c] = "destroying"] /\ thread[c] # "destroying"
    BY <1>1, <1>2
  <2> QED BY <1>1, <1>2, <2>1 DEF DesktopsAreDeletedOnce
<1>3. CASE ~(clients \ Removable = {} /\ desktop # None)
  <2>1. /\ taken' = [taken EXCEPT ![c] = None] /\ live' \ {desktop'} = live \ {desktop}
        /\ thread' = [thread EXCEPT ![c] = "signalling"] /\ thread[c] # "destroying"
    BY <1>1, <1>3
  <2> QED BY <1>1, <2>1 DEF DesktopsAreDeletedOnce
<1> QED BY <1>2, <1>3

(* ... and deletes that one only.                                          *)
LEMMA DeleteDesktopOnce ==
  ASSUME IInv, DesktopsAreDeletedOnce, NEW c \in Clients, DeleteDesktop(c)
  PROVE  DesktopsAreDeletedOnce'
<1>1. thread \in [Clients -> Threads] /\ taken \in [Clients -> Clients \cup {None}]
  BY DEF IInv, TypeInv, Desktops
<1>2. /\ taken' = [taken EXCEPT ![c] = None] /\ desktop' = desktop
      /\ thread' = [thread EXCEPT ![c] = "notifying"] /\ thread[c] = "destroying"
      /\ live' = live \ {taken[c]}
  BY DEF DeleteDesktop, Goes
<1> QED BY <1>1, <1>2 DEF DesktopsAreDeletedOnce

LEMMA DeletedOnceStep ==
  IInv /\ DesktopsAreDeletedOnce /\ [Next]_vars => DesktopsAreDeletedOnce'
<1> SUFFICES ASSUME IInv, DesktopsAreDeletedOnce, [Next]_vars
             PROVE  DesktopsAreDeletedOnce'
  OBVIOUS
<1> USE DEF clientVars, desktopVars
<1>1. thread \in [Clients -> Threads] BY DEF IInv, TypeInv
<1>2. CASE DesktopThread \/ Manager \/ DestroyManager \/ DisconnectAllClients
  BY <1>2, NoDesktopStep DEF DesktopThread, Called, EndLoop, LookAt, Manager, CheckLists,
     WaitUnderflow, DestroyManager, DisconnectAllClients
<1>3. ASSUME NEW c \in Clients,
             \/ AddNewConnection(c) \/ PeerCloses(c) \/ AuthPhase(c) \/ InitFails(c)
             \/ CreateDesktopThrows(c) \/ EnterNormalPhase(c) \/ Dispatch(c)
             \/ DispatcherThread(c) \/ BeginLoop(c) \/ OnAbnormalDesktopTerminate(c)
      PROVE  DesktopsAreDeletedOnce'
  BY <1>1, <1>3, NoDesktopStep
     DEF AddNewConnection, PeerCloses, AuthPhase, InitFails, CreateDesktopThrows,
         EnterNormalPhase, Dispatch, DispatcherThread, Handled, DispatcherEnds, BeginLoop,
         OnAbnormalDesktopTerminate, Goes
<1>4. ASSUME NEW c \in Clients, ClientThread(c) PROVE DesktopsAreDeletedOnce'
  <2>1. CASE \/ InitFails(c) \/ OnClientAuthThrows(c) \/ InitModules(c) \/ ConnClosing(c)
             \/ Disconnect(c) \/ PendingToRemove(c) \/ DeleteModules(c)
             \/ ReadyToRemove(c) \/ AfterLastClientDisconnect(c) \/ SignalUnderflow(c)
    BY <1>1, <2>1, NoDesktopStep
       DEF InitFails, OnClientAuthThrows, InitModules, ConnClosing, Disconnect,
           PendingToRemove, DeleteModules, ReadyToRemove, AfterLastClientDisconnect,
           SignalUnderflow, Goes
  <2> QED BY <1>4, <2>1, OnClientAuthDeletesNone, ValidateTakesDesktop, DeleteDesktopOnce
          DEF ClientThread
<1>5. CASE UNCHANGED vars BY <1>5, NoDesktopStep DEF vars
<1> QED BY <1>2, <1>3, <1>4, <1>5 DEF Next

(* Every desktop the manager has let go of is deleted by one thread, and   *)
(* no thread deletes one that is gone or that the manager still has.       *)
THEOREM SessionsDeletedOnce == Spec => []DesktopsAreDeletedOnce
<1>1. Init => DesktopsAreDeletedOnce BY DEF Init, DesktopsAreDeletedOnce
<1> QED BY <1>1, DeletedOnceStep, Invariance, PTL DEF Spec
=============================================================================
