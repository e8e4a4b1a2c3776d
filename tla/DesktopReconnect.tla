-------------------------- MODULE DesktopReconnect --------------------------
(***************************************************************************)
(* The service reads the screen and injects input through a desktop server *)
(* process that may end at any moment.  DesktopServerWatcher starts it     *)
(* again with pipes of its own, tells the new process what the service     *)
(* knows (onReconnect) and puts the new pipes into the ReconnectingChannel *)
(* that UpdateHandlerClient, UserInputClient and DesktopSrvDispatcher go   *)
(* on using.  Calls to the server are serialised by the lock of one gate:  *)
(* extract() of the desktop's thread, setMouseEvent() of a client's.  Each *)
(* write and read of a call asks the channel for its pipe anew.            *)
(*                                                                         *)
(* A viewer is always ready for updates (see UpdateDelivery).  A region is *)
(* a set of pixels; what is written to a pipe in one piece is one element  *)
(* of a sequence.  A pipe can be read to its end after the other end is    *)
(* gone, and not written.                                                  *)
(*                                                                         *)
(* A pipe has the number of its server.  One that was deleted and is used  *)
(* or deleted once more is undefined behaviour: the service crashes, or    *)
(* the call finds a broken pipe, or the second deletion does nothing.      *)
(***************************************************************************)
EXTENDS Integers, Sequences

CONSTANTS
  Pixels, Colors,
  FirstScreen,      (* what the screen shows when the first server runs      *)
  PipeSize,         (* how much a pipe takes before a write has to wait      *)
  MaxChanges,       (* how often the screen changes: a bound for TLC         *)
  MaxServers,       (* how many processes are started: the last one stays    *)
  FailingServers    (* whose watcher may fail: a bound for TLC               *)

ASSUME ReconnectAssumption ==
  /\ FirstScreen \in [Pixels -> Colors]
  /\ PipeSize \in Nat /\ PipeSize > 1
  /\ MaxChanges \in Nat /\ MaxServers \in Nat \ {0}

VARIABLES
  screen,        (* what the screen shows, and how often it changed          *)
  server,        (* the number of the present process ...                    *)
  alive,         (* ... and whether it still runs                            *)
  serverBackup,  (* its m_pframebufferBackup                                 *)
  detected,      (* its m_pupdatekeeperProperty                              *)
  prevKeyFlag,   (* its m_prevKeyFlag                                        *)
  inbox,         (* the pipe to it                                           *)
  reply,         (* the pipe back: the rest of an answer to EXTRACT_REQ      *)
  notices,       (* the servers with an unread UPDATE_DETECTED in their pipe *)
  watcher,       (* where DesktopServerWatcher's thread is                   *)
  channel,       (* the two ReconnectingChannels                             *)
  call,          (* where the callers of the gate are                        *)
  got,           (* the changed region extract() has read so far             *)
  backup,        (* the service's m_pframebufferBackup                       *)
  told,          (* what the clients were told                               *)
  newUpdate,     (* m_happeningNewUpdate                                     *)
  dispatcher,    (* where the DesktopSrvDispatcher's thread is               *)
  mouseFlags,    (* m_sendMouseFlags                                         *)
  broken,        (* the desktop was given up, or the service crashed         *)
  spoiled        (* a history: see Overlaps and Abandons                     *)

serverVars  == <<server, alive, serverBackup, detected, prevKeyFlag>>
pipeVars    == <<inbox, reply, notices>>
updateVars  == <<got, backup, told, newUpdate>>
historyVars == <<broken, spoiled>>
vars == <<screen, serverVars, pipeVars, watcher, channel, call, updateVars, dispatcher,
          mouseFlags, historyVars>>

Callers == {"desktop", "input"}
Ends    == {"to", "from"}
Buttons == {"up", "down"}

NoServer == 0

IdleCall == [at |-> "idle", on |-> NoServer, left |-> <<>>, flag |-> "up"]

NoReply == [of |-> NoServer, left |-> {}, colors |-> FirstScreen, whole |-> TRUE]

(* The constructors are through: the first process runs and was told       *)
(* everything.                                                             *)
Init ==
  /\ screen = [pixels |-> FirstScreen, changes |-> 0]
  /\ server = 1 /\ alive = TRUE
  /\ serverBackup = FirstScreen /\ detected = {} /\ prevKeyFlag = "up"
  /\ inbox = <<>> /\ reply = NoReply /\ notices = {}
  /\ watcher = "watching"
  /\ channel = [e \in Ends |-> [now |-> 1, old |-> NoServer, changed |-> FALSE,
                                deleted |-> {}]]
  /\ call = [u \in Callers |-> IdleCall]
  /\ got = {} /\ backup = FirstScreen /\ told = FirstScreen /\ newUpdate = FALSE
  /\ dispatcher = [at |-> "get", on |-> NoServer]
  /\ mouseFlags = "up"
  /\ broken = FALSE /\ spoiled = FALSE

-----------------------------------------------------------------------------
Draw ==
  \E p \in Pixels, color \in Colors :
    /\ screen.changes < MaxChanges
    /\ screen.pixels[p] # color
    /\ screen' = [pixels |-> [screen.pixels EXCEPT ![p] = color],
                  changes |-> screen.changes + 1]
    /\ UNCHANGED <<serverVars, pipeVars, watcher, channel, call, updateVars, dispatcher,
                   mouseFlags, historyVars>>

(* The desktop server polls the screen from its start on and serves what   *)
(* arrives in its pipe.                                                    *)
Differs(p) == screen.pixels[p] # serverBackup[p]

Poll ==
  LET region == {p \in Pixels : Differs(p)} IN
  /\ alive /\ region # {}
  /\ detected' = detected \cup region
  /\ notices' = notices \cup {server}
  /\ UNCHANGED <<screen, server, alive, serverBackup, prevKeyFlag, inbox, reply, watcher,
                 channel, call, updateVars, dispatcher, mouseFlags, historyVars>>

ExtractReplyOfScreen ==
  /\ alive /\ inbox # <<>> /\ Head(inbox) = "extract"
  /\ inbox' = Tail(inbox) /\ serverBackup' = screen.pixels /\ detected' = {}
  /\ reply' = [of |-> server, left |-> detected, colors |-> screen.pixels, whole |-> TRUE]
  /\ UNCHANGED <<screen, server, alive, prevKeyFlag, notices, watcher, channel, call,
                 updateVars, dispatcher, mouseFlags, historyVars>>

(* extractReply: the region that was detected and does differ, with its    *)
(* pixels, and the rest of the container.                                  *)
ExtractReply ==
  LET region == {p \in detected : Differs(p)}
      now    == [p \in Pixels |-> IF p \in region THEN screen.pixels[p]
                                                  ELSE serverBackup[p]]
  IN
  /\ alive /\ inbox # <<>> /\ Head(inbox) = "extract"
  /\ inbox' = Tail(inbox)
  /\ serverBackup' = now
  /\ detected' = {}
  /\ reply' = [of |-> server, left |-> region, colors |-> now, whole |-> TRUE]
  /\ UNCHANGED <<screen, server, alive, prevKeyFlag, notices, watcher, channel, call,
                 updateVars, dispatcher, mouseFlags, historyVars>>

(* applyNewPointerPos, whose data follow the code.                         *)
ApplyNewPointerPos ==
  /\ alive /\ Len(inbox) > 1 /\ Head(inbox) = "pointer"
  /\ prevKeyFlag' = inbox[2]
  /\ inbox' = Tail(Tail(inbox))
  /\ UNCHANGED <<screen, server, alive, serverBackup, detected, reply, notices, watcher,
                 channel, call, updateVars, dispatcher, mouseFlags, historyVars>>

(* The process ends: it crashed, the session was switched, or it was       *)
(* killed.  Its memory and what it has not read are gone; an answer it was *)
(* writing may be cut off anywhere.                                        *)
Die ==
  /\ alive /\ server < MaxServers
  /\ alive' = FALSE
  /\ detected' = {} /\ prevKeyFlag' = "up" /\ inbox' = <<>>
  /\ \/ reply' = reply
     \/ /\ reply.of = server
        /\ \E left \in SUBSET reply.left : reply' = [reply EXCEPT !.left = left, !.whole = FALSE]
  /\ UNCHANGED <<screen, server, serverBackup, notices, watcher, channel, call, updateVars,
                 dispatcher, mouseFlags, historyVars>>

-----------------------------------------------------------------------------
(* DesktopServerWatcher::onThreadMain starts a process with new pipes.  A  *)
(* round that fails before the process runs deletes pipes that nobody has, *)
(* and is repeated.                                                        *)
Start ==
  /\ watcher = "watching" /\ ~alive
  /\ server' = server + 1 /\ alive' = TRUE
  /\ serverBackup' = screen.pixels
  /\ watcher' = "framebuffer"
  /\ UNCHANGED <<screen, detected, prevKeyFlag, pipeVars, channel, call, updateVars,
                 dispatcher, mouseFlags, historyVars>>

(* A caller between two steps of a call: onReconnect reads what it may     *)
(* change, without the gate's lock.                                        *)
Overlaps == \E u \in Callers : call[u].at \in {"get", "io", "done"}

SendInitNothing ==
  /\ watcher = "framebuffer" /\ watcher' = IF alive THEN "input" ELSE "watching"
  /\ UNCHANGED <<screen, serverVars, pipeVars, channel, call, updateVars, dispatcher,
                 mouseFlags, historyVars>>

(* The catch of the watcher's loop deletes the pipes of the last round,    *)
(* and a channel that has one of them goes on having it.                   *)
Caught(c) == IF c.now = server THEN [c EXCEPT !.deleted = @ \cup {server}] ELSE c

(* waitForExit throws, or the next round does before it has new pipes: the *)
(* catch deletes what onReconnect has handed over, and whatever was unread *)
(* in it is gone.  A process that still runs can be reached no more: for   *)
(* the service it has ended.                                               *)
WatcherFails ==
  /\ watcher = "watching" /\ server \in FailingServers /\ server < MaxServers
  /\ channel' = [e \in Ends |-> Caught(channel[e])]
  /\ alive' = FALSE
  /\ detected' = {} /\ prevKeyFlag' = "up" /\ inbox' = <<>>
  /\ reply' = IF reply.of = server THEN NoReply ELSE reply
  /\ notices' = notices \ {server}
  /\ UNCHANGED <<screen, server, serverBackup, watcher, call, updateVars, dispatcher,
                 mouseFlags, historyVars>>

(* onReconnect: the frame buffer, then the buttons; a process that ended   *)
(* meanwhile throws into the watcher's loop, whose catch deletes pipes     *)
(* that nobody has yet.                                                    *)
SendInitFramebuffer ==
  /\ watcher = "framebuffer"
  /\ IF alive
     THEN /\ serverBackup' = backup
          /\ watcher' = "input"
          /\ spoiled' = (spoiled \/ Overlaps)
     ELSE watcher' = "watching" /\ UNCHANGED <<serverBackup, spoiled>>
  /\ UNCHANGED <<screen, server, alive, detected, prevKeyFlag, pipeVars, channel, call,
                 updateVars, dispatcher, mouseFlags, broken>>

SendInitInput ==
  /\ watcher = "input"
  /\ IF alive
     THEN /\ prevKeyFlag' = mouseFlags
          /\ watcher' = "to"
          /\ spoiled' = (spoiled \/ Overlaps)
     ELSE watcher' = "watching" /\ UNCHANGED <<prevKeyFlag, spoiled>>
  /\ UNCHANGED <<screen, server, alive, serverBackup, detected, pipeVars, channel, call,
                 updateVars, dispatcher, mouseFlags, broken>>

DeletedAtOnce(c) == {c.now}

(* replaceChannel: with an old channel nobody has noticed, it is the       *)
(* present one that is deleted.                                            *)
DeletedByReplace(c) == IF c.old # NoServer THEN {c.now} ELSE {}

Replaced(c) ==
  [now |-> server, old |-> c.now, changed |-> TRUE,
   deleted |-> c.deleted \cup DeletedByReplace(c)]

ReplaceChannel ==
  /\ watcher \in Ends
  /\ channel' = [channel EXCEPT ![watcher] = Replaced(@)]
  /\ watcher' = IF watcher = "to" THEN "from" ELSE "watching"
  /\ UNCHANGED <<screen, serverVars, pipeVars, call, updateVars, dispatcher, mouseFlags,
                 historyVars>>

-----------------------------------------------------------------------------
(* The callers of the gate.                                                *)
Underway(u) == call[u].at \notin {"idle", "locking"}
GateIsFree  == \A u \in Callers : ~Underway(u)

WakeDesktop ==
  /\ newUpdate /\ call["desktop"].at = "idle"
  /\ newUpdate' = FALSE
  /\ call' = [call EXCEPT !["desktop"].at = "locking"]
  /\ UNCHANGED <<screen, serverVars, pipeVars, watcher, channel, got, backup, told,
                 dispatcher, mouseFlags, historyVars>>

BeginExtract ==
  /\ call["desktop"].at = "locking" /\ GateIsFree
  /\ call' = [call EXCEPT !["desktop"] = [IdleCall EXCEPT !.at = "get", !.left = <<"extract">>]]
  /\ UNCHANGED <<screen, serverVars, pipeVars, watcher, channel, updateVars, dispatcher,
                 mouseFlags, historyVars>>

BeginMouseEventKeepsFlags ==
  \E flag \in Buttons :
    /\ GateIsFree
    /\ mouseFlags' = flag
    /\ call' = [call EXCEPT !["input"] =
                  [IdleCall EXCEPT !.at = "get", !.left = <<"pointer", flag>>, !.flag = flag]]
    /\ UNCHANGED <<screen, serverVars, pipeVars, watcher, channel, updateVars, dispatcher,
                   historyVars>>

BeginMouseEvent ==
  \E flag \in Buttons :
    /\ GateIsFree
    /\ call' = [call EXCEPT !["input"] =
                  [IdleCall EXCEPT !.at = "get", !.left = <<"pointer", flag>>, !.flag = flag]]
    /\ UNCHANGED <<screen, serverVars, pipeVars, watcher, channel, updateVars, dispatcher,
                   mouseFlags, historyVars>>

(* A ReconnectException ends the call: extract() returns an empty          *)
(* container, whatever it has read into the backup; setMouseEvent()        *)
(* forgets the event.                                                      *)
Abandons(u) ==
  /\ call' = [call EXCEPT ![u] = IdleCall]
  /\ got' = IF u = "desktop" THEN {} ELSE got
  /\ spoiled' = (spoiled \/ (u = "desktop" /\ got # {}))

NoticedWrongly(c) == [c EXCEPT !.now = NoServer, !.changed = FALSE, !.deleted = {}]

(* getChannel: the old channel goes, a mark ends the call.  What was       *)
(* deleted is remembered as long as the channel has it.                    *)
DeletedByGet(c) == {c.old} \ {NoServer}

Noticed(c) == [c EXCEPT !.old = NoServer, !.changed = FALSE, !.deleted = @ \cap {c.now}]

GetChannel(u) ==
  LET c == channel["to"] IN
  /\ call[u].at = "get"
  /\ channel' = [channel EXCEPT !["to"] = Noticed(c)]
  /\ reply' = IF c.old # NoServer /\ reply.of = c.old THEN NoReply ELSE reply
  /\ IF c.changed
     THEN Abandons(u)
     ELSE /\ call' = [call EXCEPT ![u].at = "io", ![u].on = c.now]
          /\ UNCHANGED <<got, spoiled>>
  /\ UNCHANGED <<screen, serverVars, inbox, notices, watcher, backup, told, newUpdate,
                 dispatcher, mouseFlags, broken>>

Connected(n) == alive /\ n = server

WriteChunk(u) ==
  LET left == call[u].left IN
  /\ call[u].at = "io" /\ left # <<>>
  /\ Connected(call[u].on) /\ Len(inbox) < PipeSize
  /\ inbox' = Append(inbox, Head(left))
  /\ call' = [call EXCEPT ![u].left = Tail(left), ![u].on = NoServer,
                          ![u].at = IF u = "input" /\ Tail(left) = <<>> THEN "done" ELSE "get"]
  /\ UNCHANGED <<screen, serverVars, reply, notices, watcher, channel, updateVars,
                 dispatcher, mouseFlags, historyVars>>

(* extract() reads the pixels straight into the backup.                    *)
ReadPixels ==
  LET c == call["desktop"] IN
  /\ c.at = "io" /\ c.left = <<>> /\ reply.of = c.on
  /\ \E p \in reply.left :
       /\ backup' = [backup EXCEPT ![p] = reply.colors[p]]
       /\ reply' = [reply EXCEPT !.left = @ \ {p}]
       /\ got' = got \cup {p}
  /\ call' = [call EXCEPT !["desktop"].at = "get", !["desktop"].on = NoServer]
  /\ UNCHANGED <<screen, serverVars, inbox, notices, watcher, channel, told, newUpdate,
                 dispatcher, mouseFlags, historyVars>>

(* The last of the answer: extract() returns and the update is given out.  *)
ReadEnd ==
  LET c == call["desktop"] IN
  /\ c.at = "io" /\ c.left = <<>>
  /\ reply.of = c.on /\ reply.left = {} /\ reply.whole
  /\ told' = [p \in Pixels |-> IF p \in got THEN backup[p] ELSE told[p]]
  /\ got' = {}
  /\ reply' = NoReply
  /\ call' = [call EXCEPT !["desktop"] = IdleCall]
  /\ UNCHANGED <<screen, serverVars, inbox, notices, watcher, channel, backup, newUpdate,
                 dispatcher, mouseFlags, historyVars>>

(* The pipe is broken: wait for another one.                               *)
Breaks(u) ==
  LET c == call[u] IN
  /\ c.at = "io" /\ ~Connected(c.on)
  /\ c.left # <<>> \/ reply.of # c.on \/ (reply.left = {} /\ ~reply.whole)
  /\ call' = [call EXCEPT ![u].at = "reconnecting"]
  /\ UNCHANGED <<screen, serverVars, pipeVars, watcher, channel, updateVars, dispatcher,
                 mouseFlags, historyVars>>

RetriesOnReconnect(u) ==
  /\ call[u].at = "reconnecting" /\ channel["to"].now # call[u].on
  /\ channel' = [channel EXCEPT !["to"].changed = FALSE]
  /\ call' = [call EXCEPT ![u].at = "get"]
  /\ UNCHANGED <<screen, serverVars, pipeVars, watcher, updateVars, dispatcher, mouseFlags,
                 historyVars>>

(* waitForReconnect: another channel is there, the mark is taken back and  *)
(* the call ends.                                                          *)
WaitForReconnect(u) ==
  /\ call[u].at = "reconnecting" /\ channel["to"].now # call[u].on
  /\ channel' = [channel EXCEPT !["to"].changed = FALSE]
  /\ Abandons(u)
  /\ UNCHANGED <<screen, serverVars, pipeVars, watcher, backup, told, newUpdate, dispatcher,
                 mouseFlags, broken>>

(* m_sendMouseFlags, once the event was sent.                              *)
KeepMouseFlags ==
  /\ call["input"].at = "done"
  /\ mouseFlags' = call["input"].flag
  /\ call' = [call EXCEPT !["input"] = IdleCall]
  /\ UNCHANGED <<screen, serverVars, pipeVars, watcher, channel, updateVars, dispatcher,
                 historyVars>>

-----------------------------------------------------------------------------
(* The dispatcher reads what the server sends by itself.                   *)
DispatcherGetsChannel ==
  LET c == channel["from"] IN
  /\ dispatcher.at = "get"
  /\ channel' = [channel EXCEPT !["from"] = Noticed(c)]
  /\ notices' = notices \ {c.old}
  /\ dispatcher' = IF c.changed THEN dispatcher ELSE [at |-> "io", on |-> c.now]
  /\ UNCHANGED <<screen, serverVars, inbox, reply, watcher, call, updateVars, mouseFlags,
                 historyVars>>

UpdateDetected ==
  /\ dispatcher.at = "io" /\ dispatcher.on \in notices
  /\ notices' = notices \ {dispatcher.on}
  /\ newUpdate' = TRUE
  /\ dispatcher' = [at |-> "get", on |-> NoServer]
  /\ UNCHANGED <<screen, serverVars, inbox, reply, watcher, channel, call, got, backup, told,
                 mouseFlags, historyVars>>

DispatcherBreaks ==
  /\ dispatcher.at = "io" /\ dispatcher.on \notin notices /\ ~Connected(dispatcher.on)
  /\ dispatcher' = [dispatcher EXCEPT !.at = "reconnecting"]
  /\ UNCHANGED <<screen, serverVars, pipeVars, watcher, channel, call, updateVars, mouseFlags,
                 historyVars>>

DispatcherReconnects ==
  /\ dispatcher.at = "reconnecting" /\ channel["from"].now # dispatcher.on
  /\ channel' = [channel EXCEPT !["from"].changed = FALSE]
  /\ dispatcher' = [at |-> "get", on |-> NoServer]
  /\ UNCHANGED <<screen, serverVars, pipeVars, watcher, call, updateVars, mouseFlags,
                 historyVars>>

(* Nobody replaced the channel for 60 seconds: the exception ends in       *)
(* onAbnormalDesktopTerminate, which disconnects every client (see         *)
(* ClientSessions).                                                        *)
TimesOut ==
  /\ dispatcher.at = "reconnecting" \/ \E u \in Callers : call[u].at = "reconnecting"
  /\ broken' = TRUE
  /\ UNCHANGED <<screen, serverVars, pipeVars, watcher, channel, call, updateVars, dispatcher,
                 mouseFlags, spoiled>>

(* The pipes that threads read and write, and those the watcher's next     *)
(* step or a caller's is to delete.                                        *)
Users(e) == IF e = "to" THEN {call[u] : u \in Callers} ELSE {dispatcher}

InUse(e) == {user.on : user \in {x \in Users(e) : x.at = "io"}}

AboutToDelete(e) ==
  {n \in DeletedByReplace(channel[e]) : watcher = e}
    \cup {n \in DeletedByGet(channel[e]) : \E user \in Users(e) : user.at = "get"}

(* A deleted pipe is used or deleted again, by the watcher's catch too.    *)
Crashes ==
  /\ \E e \in Ends :
       \/ (InUse(e) \cup AboutToDelete(e)) \cap channel[e].deleted # {}
       \/ watcher = "watching" /\ server \in FailingServers \cap channel[e].deleted
  /\ broken' = TRUE
  /\ UNCHANGED <<screen, serverVars, pipeVars, watcher, channel, call, updateVars, dispatcher,
                 mouseFlags, spoiled>>

-----------------------------------------------------------------------------
Server  == Poll \/ ExtractReply \/ ApplyNewPointerPos
Watcher == Start \/ SendInitFramebuffer \/ SendInitInput \/ ReplaceChannel
Caller(u) == GetChannel(u) \/ WriteChunk(u) \/ Breaks(u) \/ WaitForReconnect(u)
Desktop == WakeDesktop \/ BeginExtract \/ Caller("desktop") \/ ReadPixels \/ ReadEnd
Input   == Caller("input") \/ KeepMouseFlags
Dispatcher ==
  DispatcherGetsChannel \/ UpdateDetected \/ DispatcherBreaks \/ DispatcherReconnects

Next ==
  /\ ~broken
  /\ \/ Draw \/ Server \/ Die \/ Watcher \/ WatcherFails \/ Desktop \/ BeginMouseEvent
     \/ Input \/ Dispatcher \/ TimesOut \/ Crashes

(* BeginExtract competes with the clients' threads for the gate.           *)
Fairness ==
  /\ WF_vars(~broken /\ Poll) /\ WF_vars(~broken /\ (ExtractReply \/ ApplyNewPointerPos))
  /\ WF_vars(~broken /\ Watcher) /\ WF_vars(~broken /\ Desktop) /\ WF_vars(~broken /\ Input)
  /\ SF_vars(~broken /\ BeginExtract) /\ WF_vars(~broken /\ Dispatcher)

Spec == Init /\ [][Next]_vars /\ Fairness

-----------------------------------------------------------------------------
Servers == 1..MaxServers
Codes   == {"extract", "pointer"}
Messages == {<<>>, <<"extract">>} \cup {<<"pointer", b>> : b \in Buttons}
              \cup {<<b>> : b \in Buttons}

ServerTypes ==
  /\ screen.pixels \in [Pixels -> Colors] /\ screen.changes \in 0..MaxChanges
  /\ server \in Servers /\ alive \in BOOLEAN
  /\ serverBackup \in [Pixels -> Colors] /\ detected \subseteq Pixels
  /\ prevKeyFlag \in Buttons
  /\ inbox \in Seq(Codes \cup Buttons)
  /\ reply \in [of : Servers \cup {NoServer}, left : SUBSET Pixels,
                colors : [Pixels -> Colors], whole : BOOLEAN]
  /\ notices \subseteq Servers

ServiceTypes ==
  /\ watcher \in {"watching", "framebuffer", "input"} \cup Ends
  /\ channel \in [Ends -> [now : Servers, old : Servers \cup {NoServer}, changed : BOOLEAN,
                           deleted : SUBSET Servers]]
  /\ call \in [Callers -> [at : {"idle", "locking", "get", "io", "reconnecting", "done"},
                           on : Servers \cup {NoServer}, left : Messages, flag : Buttons]]
  /\ got \subseteq Pixels /\ newUpdate \in BOOLEAN
  /\ backup \in [Pixels -> Colors] /\ told \in [Pixels -> Colors]
  /\ dispatcher \in [at : {"get", "io", "reconnecting"}, on : Servers \cup {NoServer}]
  /\ mouseFlags \in Buttons
  /\ broken \in BOOLEAN /\ spoiled \in BOOLEAN

(* The present server runs and was told what the service knows.            *)
Ready == alive /\ watcher \notin {"framebuffer", "input"}

(* Every variable has its type.                                            *)
TypeOK == ServerTypes /\ ServiceTypes

(* What a server finds in its pipe are whole messages, but for the one     *)
(* being written: no message was begun for its predecessor.  "At the next  *)
(* the read()/write() function call [it] generates the ReconnectException" *)
(* is what this rests on.                                                  *)
MessagesAreWhole ==
  \A i \in 1..Len(inbox) :
    /\ inbox[i] \in Buttons => i > 1 /\ inbox[i - 1] = "pointer"
    /\ inbox[i] = "pointer" /\ i < Len(inbox) => inbox[i + 1] \in Buttons

(* replaceChannel and getChannel, which run without the lock of the gate,  *)
(* delete no pipe that a call reads from or writes into, whenever servers  *)
(* end and the watcher fails.  The watcher's own catch spares nobody: see  *)
(* UsedChannelsExist.                                                      *)
ReplacementSparesUsers == \A e \in Ends : InUse(e) \cap AboutToDelete(e) = {}

(* The service's frame buffer and the server's are synchronised: where     *)
(* they differ the server's answer is on its way.                          *)
FramebuffersInSync ==
  Ready /\ ~spoiled =>
    \A p \in Pixels : serverBackup[p] # backup[p] => reply.of = server /\ p \in reply.left

(* A pixel that the clients were told wrongly is one somebody will notice: *)
(* it was read and is about to be given out, or the present server knows   *)
(* another, or the next one will.                                          *)
NothingForgotten ==
  ~spoiled =>
    \A p \in Pixels : told[p] # screen.pixels[p] =>
      \/ p \in got
      \/ reply.of = server /\ p \in reply.left
      \/ IF Ready THEN Differs(p) ELSE backup[p] # screen.pixels[p]

(* Between two events the server's idea of the buttons is the service's,   *)
(* so that a button pressed through the old process is released by the new *)
(* one.                                                                    *)
ServerKnowsButtons ==
  Ready /\ ~spoiled /\ ~Underway("input") /\ inbox = <<>> => prevKeyFlag = mouseFlags

(* Once servers stop ending and the screen rests the clients are told what *)
(* it shows, unless nobody came back in time or a call was cut in two.     *)
ScreenIsTold ==
  <>[](told = screen.pixels) \/ <>(broken \/ spoiled)

-----------------------------------------------------------------------------
(* What the code does not keep; the README tells the behaviours that break *)
(* it.                                                                     *)

(* No call uses a pipe that was deleted by anybody.  The watcher's catch   *)
(* says of itself: "A potential crash.  The channels can be used (see      *)
(* onReconnect()) after these destroyings."  (DesktopServerWatcher.cpp)    *)
UsedChannelsExist == \A e \in Ends : InUse(e) \cap channel[e].deleted = {}

(* "This channel in this case is guaranted doesn't use."                   *)
(* (ReconnectingChannel.cpp, of the channel replaceChannel deletes): it is *)
(* not kept as the old one, to be deleted again.                           *)
DeletedOnce == \A e \in Ends : AboutToDelete(e) \cap channel[e].deleted = {}
=============================================================================
