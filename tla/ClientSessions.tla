---------------------------- MODULE ClientSessions ----------------------------
(***************************************************************************)
(* RfbClientManager (rfb_node_desktop) and the life of an RfbClient        *)
(* (remoting_rfb/rfb_sconn): connections arrive and authenticate, the      *)
(* first authorized client makes a desktop, the desktop's thread calls     *)
(* every client in the normal phase, clients leave and the last one takes  *)
(* the desktop with it, and the manager is destroyed.                      *)
(*                                                                         *)
(* m_clientListLocker orders most of it.  What is done in one stretch      *)
(* under that lock is one step; only the loops over the clients, which     *)
(* call into them, hold it from step to step.  The ban list, the view      *)
(* ports and the bytes of the protocol are left out.                       *)
(***************************************************************************)
EXTENDS Naturals

CONSTANTS
  Clients,        (* every RfbClient there will be                           *)
  None,           (* no desktop, no client, nobody                           *)
  SharePolicies,  (* what the configuration may say: "always", "never",      *)
                  (* "client"                                                *)
  DisconnectsExisting, (* isDisconnectingExistingClients                     *)
  MaxBroadcasts   (* how many loops over the clients are run: a bound        *)

ASSUME SessionsAssumption ==
  /\ None \notin Clients
  /\ SharePolicies \subseteq {"always", "never", "client"}
  /\ DisconnectsExisting \in BOOLEAN
  /\ MaxBroadcasts \in Nat

VARIABLES
  state,          (* m_clientState; "absent" before the client connects      *)
  thread,         (* where the client's thread is                            *)
  connected,      (* the clients whose socket is open                        *)
  nonAuthClients, (* m_nonAuthClientList                                     *)
  clients,        (* m_clientList                                            *)
  modules,        (* the clients whose UpdateSender and other modules exist  *)
  closing,        (* the clients whose m_connClosingEvent is set             *)
  dispatcher,     (* where the client's dispatcher thread is                 *)
  desktop,        (* m_pdesktop: a desktop bears the name of the client that *)
                  (* made it                                                 *)
  live,           (* the desktops that exist                                 *)
  failed,         (* ... and those that terminated abnormally                *)
  desktopOf,      (* a client's own m_pdesktop                               *)
  taken,          (* the desktop a client's thread is to delete              *)
  lock,           (* the desktop whose thread holds m_clientListLocker       *)
  loop,           (* ... the clients it has still to look at, and the one    *)
                  (* it is calling                                           *)
  broadcasts,     (* how many loops there were                               *)
  manager,        (* RfbClientManager's life                                 *)
  underflow       (* m_listUnderflowingEvent                                 *)

clientVars  == <<state, thread, connected, closing, dispatcher, modules>>
listVars    == <<nonAuthClients, clients>>
desktopVars == <<desktop, live, failed, desktopOf, taken>>
loopVars    == <<lock, loop, broadcasts>>
managerVars == <<manager, underflow>>
vars == <<clientVars, listVars, desktopVars, loopVars, managerVars>>

Desktops == Clients

Init ==
  /\ state = [c \in Clients |-> "absent"]
  /\ thread = [c \in Clients |-> "absent"]
  /\ connected = {} /\ nonAuthClients = {} /\ clients = {}
  /\ modules = {} /\ closing = {}
  /\ dispatcher = [c \in Clients |-> "none"]
  /\ desktop = None /\ live = {} /\ failed = {}
  /\ desktopOf = [c \in Clients |-> None]
  /\ taken = [c \in Clients |-> None]
  /\ lock = None /\ loop = [todo |-> {}, calling |-> None] /\ broadcasts = 0
  /\ manager = "running" /\ underflow = FALSE

Unlocked == lock = None

(* setClientState: the state only ever grows.                              *)
Order == [absent |-> 0, nonauth |-> 1, auth |-> 2, normal |-> 3, pending |-> 4, ready |-> 5]

SetClientState(c, new) ==
  state' = IF Order[new] > Order[state[c]] THEN [state EXCEPT ![c] = new] ELSE state

Goes(c, from, to) == thread[c] = from /\ thread' = [thread EXCEPT ![c] = to]

-----------------------------------------------------------------------------
(* A connection is accepted while the servers run; they are stopped before *)
(* the manager is destroyed.                                               *)
AddNewConnection(c) ==
  /\ Unlocked /\ manager = "running"
  /\ Goes(c, "absent", "authenticating")
  /\ SetClientState(c, "nonauth")
  /\ connected' = connected \cup {c}
  /\ nonAuthClients' = nonAuthClients \cup {c}
  /\ UNCHANGED <<modules, closing, dispatcher, clients, desktopVars, loopVars, managerVars>>

(* The viewer hangs up.                                                    *)
PeerCloses(c) ==
  /\ c \in connected
  /\ connected' = connected \ {c}
  /\ UNCHANGED <<state, thread, modules, closing, dispatcher, listVars, desktopVars,
                 loopVars, managerVars>>

AuthPhase(c) ==
  /\ c \in connected
  /\ Goes(c, "authenticating", "authenticated")
  /\ SetClientState(c, "auth")
  /\ UNCHANGED <<connected, modules, closing, dispatcher, listVars, desktopVars, loopVars,
                 managerVars>>

(* The authentication, or the second phase of the initialization, throws.  *)
InitFails(c) ==
  /\ thread[c] \in {"authenticating", "initializing"}
  /\ thread' = [thread EXCEPT ![c] = "closing"]
  /\ UNCHANGED <<state, connected, modules, closing, dispatcher, listVars, desktopVars,
                 loopVars, managerVars>>

IsResultShared(policy, shared) == policy = "always" \/ (policy = "client" /\ shared)

(* onClientAuth, for a client that may not join: "Cannot disconnect        *)
(* existing clients".                                                      *)
Rejected(shares) == ~shares /\ ~DisconnectsExisting /\ clients # {}

OnClientAuthThrows(c) ==
  /\ Unlocked
  /\ \E policy \in SharePolicies, shared \in BOOLEAN : Rejected(IsResultShared(policy, shared))
  /\ Goes(c, "authenticated", "closing")
  /\ UNCHANGED <<state, connected, modules, closing, dispatcher, listVars, desktopVars,
                 loopVars, managerVars>>

(* ... and for one that does: who was there may be disconnected, the first *)
(* one makes the desktop.                                                  *)
DisconnectedNobody(shares) == {}

Disconnected(shares) == IF shares THEN {} ELSE clients

JoinsTwice(c, shares) ==
  /\ ~Rejected(shares)
  /\ connected' = connected \ Disconnected(shares)
  /\ nonAuthClients' = nonAuthClients
  /\ clients' = clients \cup {c}

Joins(c, shares) ==
  /\ ~Rejected(shares)
  /\ connected' = connected \ Disconnected(shares)
  /\ nonAuthClients' = nonAuthClients \ {c}
  /\ clients' = clients \cup {c}

OnClientAuth(c) ==
  /\ Unlocked
  /\ \E policy \in SharePolicies, shared \in BOOLEAN :
       Joins(c, IsResultShared(policy, shared))
  /\ Goes(c, "authenticated", "joined")
  /\ desktop' = IF desktop = None THEN c ELSE desktop
  /\ live' = live \cup {desktop'}
  /\ desktopOf' = [desktopOf EXCEPT ![c] = desktop']
  /\ UNCHANGED <<state, modules, closing, dispatcher, failed, taken, loopVars, managerVars>>

(* createDesktop throws: the client is in the list, and leaves.            *)
CreateDesktopThrows(c) ==
  /\ Unlocked /\ desktop = None
  /\ \E policy \in SharePolicies, shared \in BOOLEAN :
       Joins(c, IsResultShared(policy, shared))
  /\ Goes(c, "authenticated", "closing")
  /\ UNCHANGED <<state, modules, closing, dispatcher, desktopVars, loopVars, managerVars>>

InitModules(c) ==
  /\ Goes(c, "joined", "initializing")
  /\ modules' = modules \cup {c}
  /\ UNCHANGED <<state, connected, closing, dispatcher, listVars, desktopVars, loopVars,
                 managerVars>>

EnterNormalPhase(c) ==
  /\ c \in connected
  /\ Goes(c, "initializing", "serving")
  /\ SetClientState(c, "normal")
  /\ dispatcher' = [dispatcher EXCEPT ![c] = "reading"]
  /\ UNCHANGED <<connected, modules, closing, listVars, desktopVars, loopVars, managerVars>>

-----------------------------------------------------------------------------
(* The dispatcher's thread hands each message to a module of the client;   *)
(* when it cannot read any more it ends, and the session with it.          *)
Dispatch(c) ==
  /\ dispatcher[c] = "reading" /\ c \in connected
  /\ dispatcher' = [dispatcher EXCEPT ![c] = "handling"]
  /\ UNCHANGED <<state, thread, connected, modules, closing, listVars, desktopVars, loopVars,
                 managerVars>>

Handled(c) ==
  /\ dispatcher[c] = "handling"
  /\ dispatcher' = [dispatcher EXCEPT ![c] = "reading"]
  /\ UNCHANGED <<state, thread, connected, modules, closing, listVars, desktopVars, loopVars,
                 managerVars>>

DispatcherEndsQuietly(c) ==
  /\ \/ dispatcher[c] = "reading" /\ c \notin connected
     \/ dispatcher[c] = "handling"
  /\ dispatcher' = [dispatcher EXCEPT ![c] = "ended"]
  /\ UNCHANGED <<state, thread, connected, modules, closing, listVars, desktopVars, loopVars,
                 managerVars>>

DispatcherEnds(c) ==
  /\ \/ dispatcher[c] = "reading" /\ c \notin connected
     \/ dispatcher[c] = "handling"
  /\ dispatcher' = [dispatcher EXCEPT ![c] = "ended"]
  /\ closing' = closing \cup {c}
  /\ UNCHANGED <<state, thread, connected, modules, listVars, desktopVars, loopVars,
                 managerVars>>

-----------------------------------------------------------------------------
(* A loop of a desktop's thread over the clients: isReadyToSend,           *)
(* onSendUpdate or onClipboardUpdate.                                      *)
BeginLoop(d) ==
  /\ Unlocked /\ d \in live
  /\ broadcasts < MaxBroadcasts
  /\ lock' = d
  /\ loop' = [todo |-> clients, calling |-> None]
  /\ broadcasts' = broadcasts + 1
  /\ UNCHANGED <<clientVars, listVars, desktopVars, managerVars>>

(* Only clients in the normal phase are called.                            *)
LookAt(c) ==
  /\ ~Unlocked /\ loop.calling = None /\ c \in loop.todo
  /\ loop' = [todo |-> loop.todo \ {c}, calling |-> IF state[c] = "normal" THEN c ELSE None]
  /\ UNCHANGED <<clientVars, listVars, desktopVars, lock, broadcasts, managerVars>>

(* The call returns; an update given to an idle client ends its session.   *)
Called ==
  /\ loop.calling # None
  /\ loop' = [loop EXCEPT !.calling = None]
  /\ closing' \in {closing, closing \cup {loop.calling}}
  /\ UNCHANGED <<state, thread, connected, modules, dispatcher, listVars, desktopVars, lock,
                 broadcasts, managerVars>>

EndLoop ==
  /\ ~Unlocked /\ loop.calling = None /\ loop.todo = {}
  /\ lock' = None
  /\ UNCHANGED <<clientVars, listVars, desktopVars, loop, broadcasts, managerVars>>

(* disconnectAllClients: by the control program ...                        *)
DisconnectAllClients ==
  /\ Unlocked /\ manager = "running"
  /\ connected' = connected \ (nonAuthClients \cup clients)
  /\ UNCHANGED <<state, thread, modules, closing, dispatcher, listVars, desktopVars,
                 loopVars, managerVars>>

(* ... and by a desktop, from onAbnormalDesktopTerminate.                  *)
OnAbnormalDesktopTerminate(d) ==
  /\ Unlocked /\ d \in live
  /\ failed' = failed \cup {d}
  /\ connected' = connected \ (nonAuthClients \cup clients)
  /\ UNCHANGED <<state, thread, modules, closing, dispatcher, listVars, desktop, live,
                 desktopOf, taken, loopVars, managerVars>>

-----------------------------------------------------------------------------
(* The end of a client's thread.                                           *)
ConnClosing(c) ==
  /\ c \in closing
  /\ Goes(c, "serving", "closing")
  /\ closing' = closing \ {c}
  /\ UNCHANGED <<state, connected, modules, dispatcher, listVars, desktopVars, loopVars,
                 managerVars>>

Disconnect(c) ==
  /\ Goes(c, "closing", "leaving")
  /\ connected' = connected \ {c}
  /\ UNCHANGED <<state, modules, closing, dispatcher, listVars, desktopVars, loopVars,
                 managerVars>>

(* notifyAbStateChanging(IN_PENDING_TO_REMOVE): the state, then            *)
(* validateClientList ...                                                  *)
PendingToRemoveUnnoticed(c) ==
  /\ Goes(c, "leaving", "deleting")
  /\ SetClientState(c, "pending")
  /\ UNCHANGED <<connected, modules, closing, dispatcher, listVars, desktopVars, loopVars,
                 managerVars>>

PendingToRemove(c) ==
  /\ Goes(c, "leaving", "validating")
  /\ SetClientState(c, "pending")
  /\ UNCHANGED <<connected, modules, closing, dispatcher, listVars, desktopVars, loopVars,
                 managerVars>>

DeleteModules(c) ==
  /\ Goes(c, "deleting", "deleted")
  /\ modules' = modules \ {c}
  /\ UNCHANGED <<state, connected, closing, dispatcher, listVars, desktopVars, loopVars,
                 managerVars>>

(* ... and the same with IN_READY_TO_REMOVE.                               *)
ReadyToRemove(c) ==
  /\ Goes(c, "deleted", "validating")
  /\ SetClientState(c, "ready")
  /\ UNCHANGED <<connected, modules, closing, dispatcher, listVars, desktopVars, loopVars,
                 managerVars>>

(* validateClientList: any client that is ready is removed from its list,  *)
(* and with the last authorized one goes the desktop ...                   *)
LeavingOrGone == {c \in Clients : Order[state[c]] >= Order.pending}

Removable == {c \in Clients : state[c] = "ready"}

ValidateClientListKeepsDesktop(c) ==
  LET last == clients \ Removable = {} /\ desktop # None IN
  /\ Unlocked
  /\ nonAuthClients' = nonAuthClients \ Removable
  /\ clients' = clients \ Removable
  /\ taken' = [taken EXCEPT ![c] = IF last THEN desktop ELSE None]
  /\ Goes(c, "validating", IF last THEN "destroying" ELSE "signalling")
  /\ UNCHANGED <<state, connected, modules, closing, dispatcher, desktop, live, failed,
                 desktopOf, loopVars, managerVars>>

ValidateClientList(c) ==
  LET last == clients \ Removable = {} /\ desktop # None IN
  /\ Unlocked
  /\ nonAuthClients' = nonAuthClients \ Removable
  /\ clients' = clients \ Removable
  /\ taken' = [taken EXCEPT ![c] = IF last THEN desktop ELSE None]
  /\ desktop' = IF last THEN None ELSE desktop
  /\ Goes(c, "validating", IF last THEN "destroying" ELSE "signalling")
  /\ UNCHANGED <<state, connected, modules, closing, dispatcher, live, failed, desktopOf,
                 loopVars, managerVars>>

(* ... which is deleted after the lock was given up, ...                   *)
DeleteDesktop(c) ==
  /\ lock # taken[c]
  /\ Goes(c, "destroying", "notifying")
  /\ live' = live \ {taken[c]}
  /\ taken' = [taken EXCEPT ![c] = None]
  /\ UNCHANGED <<state, connected, modules, closing, dispatcher, listVars, desktop, failed,
                 desktopOf, loopVars, managerVars>>

AfterLastClientDisconnect(c) ==
  /\ Goes(c, "notifying", "signalling")
  /\ UNCHANGED <<state, connected, modules, closing, dispatcher, listVars, desktopVars,
                 loopVars, managerVars>>

(* ... and a destructor that waits is told when both lists are empty.      *)
Underflown == nonAuthClients \cup clients = {}

SignalUnderflowIfAuthorized(c) ==
  /\ Unlocked
  /\ underflow' = (underflow \/ (Underflown /\ desktopOf[c] # None))
  /\ Goes(c, "signalling", IF state[c] = "pending" THEN "deleting" ELSE "ended")
  /\ UNCHANGED <<state, connected, modules, closing, dispatcher, listVars, desktopVars,
                 loopVars, manager>>

SignalUnderflow(c) ==
  /\ Unlocked
  /\ underflow' = (underflow \/ Underflown)
  /\ Goes(c, "signalling", IF state[c] = "pending" THEN "deleting" ELSE "ended")
  /\ UNCHANGED <<state, connected, modules, closing, dispatcher, listVars, desktopVars,
                 loopVars, manager>>

-----------------------------------------------------------------------------
(* ~RfbClientManager: disconnectAllClients, then wait for empty lists.     *)
DestroyManagerWaitsFirst ==
  /\ Unlocked /\ manager = "running"
  /\ manager' = "waiting"
  /\ connected' = connected \ (nonAuthClients \cup clients)
  /\ UNCHANGED <<state, thread, modules, closing, dispatcher, listVars, desktopVars, loopVars,
                 underflow>>

DestroyManager ==
  /\ Unlocked /\ manager = "running"
  /\ manager' = "checking"
  /\ connected' = connected \ (nonAuthClients \cup clients)
  /\ UNCHANGED <<state, thread, modules, closing, dispatcher, listVars, desktopVars, loopVars,
                 underflow>>

CheckLists ==
  /\ Unlocked /\ manager = "checking"
  /\ manager' = IF nonAuthClients \cup clients = {} THEN "destroyed" ELSE "waiting"
  /\ UNCHANGED <<clientVars, listVars, desktopVars, loopVars, underflow>>

WaitUnderflow ==
  /\ manager = "waiting" /\ underflow
  /\ manager' = "checking"
  /\ underflow' = FALSE
  /\ UNCHANGED <<clientVars, listVars, desktopVars, loopVars>>

-----------------------------------------------------------------------------
(* What the clients' threads do without the viewers' help, and the rest.   *)
ClientThread(c) ==
  \/ InitFails(c) /\ c \notin connected
  \/ OnClientAuthThrows(c) \/ OnClientAuth(c) \/ InitModules(c)
  \/ ConnClosing(c) \/ Disconnect(c) \/ PendingToRemove(c) \/ DeleteModules(c)
  \/ ReadyToRemove(c) \/ ValidateClientList(c) \/ DeleteDesktop(c)
  \/ AfterLastClientDisconnect(c) \/ SignalUnderflow(c)

DispatcherThread(c) == Handled(c) \/ DispatcherEnds(c)

DesktopThread == Called \/ EndLoop \/ \E c \in Clients : LookAt(c)

Manager == CheckLists \/ WaitUnderflow

Next ==
  \/ DesktopThread \/ Manager \/ DestroyManager \/ DisconnectAllClients
  \/ \E c \in Clients :
       \/ AddNewConnection(c) \/ PeerCloses(c) \/ AuthPhase(c) \/ InitFails(c)
       \/ CreateDesktopThrows(c) \/ EnterNormalPhase(c) \/ Dispatch(c)
       \/ ClientThread(c) \/ DispatcherThread(c)
       \/ BeginLoop(c) \/ OnAbnormalDesktopTerminate(c)

Fairness ==
  /\ WF_vars(DesktopThread) /\ WF_vars(Manager)
  /\ \A c \in Clients : WF_vars(ClientThread(c)) /\ WF_vars(DispatcherThread(c))

Spec == Init /\ [][Next]_vars /\ Fairness

-----------------------------------------------------------------------------
(* A client is in one of the two lists, and not in both, from its          *)
(* connection until its thread has declared it ready to be removed,        *)
(* whatever other threads removed, rejected or disconnected meanwhile.     *)
ListedUntilReady ==
  \A c \in Clients :
    IF state[c] \in {"absent", "ready"}
    THEN state[c] = "absent" => c \notin nonAuthClients \cup clients
    ELSE c \in (nonAuthClients \ clients) \cup (clients \ nonAuthClients)

(* While a loop over the clients calls one, that client's modules exist,   *)
(* though its thread sets its state and deletes them without asking.       *)
ModulesOutliveCalls == loop.calling # None => loop.calling \in modules

(* A desktop exists as long as any client's modules, which point to it.    *)
DesktopOutlivesClients == \A c \in modules : desktopOf[c] \in live

(* A desktop that is not the manager's any more is deleted, by one thread  *)
(* and once, though that thread does it outside the lock while others may  *)
(* make the next desktop and take it away again.                           *)
DesktopsAreDeletedOnce ==
  LET deleting(c) == thread[c] = "destroying" IN
  /\ \A d \in live \ {desktop} : \E c \in Clients : deleting(c) /\ taken[c] = d
  /\ \A c \in Clients : deleting(c) => taken[c] \in live \ {desktop}
  /\ \A c, e \in Clients : deleting(c) /\ deleting(e) /\ c # e => taken[c] # taken[e]

(* A server that never shares has one connected authorized client at most; *)
(* those it replaced may still be leaving.                                 *)
OneExclusiveClient == \A c, d \in clients \cap connected : c = d

(* A destructor that waits with its event unset is waiting for a thread    *)
(* that still runs: every listed client's is on its way to remove it, and  *)
(* where the lists are empty somebody is about to signal that.             *)
DestructorIsWoken ==
  manager = "waiting" /\ ~underflow =>
    /\ \A c \in nonAuthClients \cup clients : thread[c] # "ended"
    /\ Underflown => \E c \in Clients : thread[c] \in {"destroying", "notifying", "signalling"}

(* A client whose connection was closed, by whomever and in whatever       *)
(* phase, leaves the lists.                                                *)
ClientsAreRemoved ==
  \A c \in Clients :
    state[c] # "absent" /\ c \notin connected ~> c \notin nonAuthClients \cup clients

(* The destructor of the manager ends.                                     *)
ShutdownEnds == manager # "running" ~> manager = "destroyed"

-----------------------------------------------------------------------------
(* "Creating and destroying this object must be with the locked            *)
(* m_clientListLocker" (RfbClientManager.h): so one desktop exists at most.*)
OneDesktop == \A d, e \in live : d = e

(* More of what the documentation says and the code does not keep; the     *)
(* README tells the behaviours that break each.                            *)

(* "Called when last rfb client disconnects from server."                  *)
(* (RfbClientManagerEventListener.h, of afterLastClientDisconnect): no     *)
(* client is being served when it is called.                               *)
NobodyLeftAtLast ==
  (\E c \in Clients : thread[c] = "notifying") => \A c \in Clients : state[c] # "normal"

(* "After this call, we are guaranteed not to be used by other threads."   *)
(* (RfbClient.cpp, of the modules deleted next): no message is being       *)
(* handled by modules that are gone.                                       *)
ModulesOutliveMessages == \A c \in Clients : dispatcher[c] = "handling" => c \in modules

(* "Disconnect all zombies http, rfb, control clients though killing their *)
(* threads." (Server.cpp, before the manager is deleted): no client's      *)
(* thread is still going to call a manager that is gone.                   *)
ManagerOutlivesClients ==
  manager = "destroyed" => \A c \in Clients : thread[c] \in {"absent", "ended"}

(* "If an error occured RfbClientManager closes all current connections    *)
(* (authorized and not authorized) that bring to closing the belonged      *)
(* desktop object." (RfbClientManager.h, of onAbnormalDesktopTerminate)    *)
FailedDesktopGoes == \A d \in Desktops : d \in failed ~> d \notin live
=============================================================================
