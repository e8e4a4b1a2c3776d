--------------------------- MODULE UpdateDelivery ---------------------------
(***************************************************************************)
(* The threads between a changing screen and the clients that show it: the *)
(* poller compares the screen with the backup frame buffer, the desktop's  *)
(* thread extracts what was detected and hands it to every client, each    *)
(* client's reader thread takes its requests and its sender thread answers *)
(* them.  They share two auto-reset events and a handful of fields, each   *)
(* under a lock of its own: a step is what a thread does under one lock.   *)
(*                                                                         *)
(* Every client shows the whole screen, at the origin, and has had its     *)
(* first answer (see UpdateSender for view ports and size changes).  It    *)
(* draws the cursor itself and the cursor rests, so that the cursor flags  *)
(* of a container, which are always raised, are no answer by themselves.   *)
(***************************************************************************)
EXTENDS UpdateCropping

CONSTANTS
  Clients, NoClient,
  Colors,
  FirstBackup,      (* what the screen showed when the backup was cloned      *)
  FirstScreen,      (* ... and what it shows when every client was told so    *)
  Moves,            (* copies the screen driver may report: [target, delta]  *)
  Requests,         (* what a client may request: [region, incremental]      *)
  MaxChanges,       (* how often the screen changes: a bound for TLC         *)
  Pipelining,       (* may a client request more before it was answered?     *)
  GrabFails,        (* may grabbing the screen throw?                        *)
  Failing,          (* the clients whose sendUpdate may throw                *)
  Failed            (* ... and those for which it did before                 *)

ASSUME DeliveryAssumption ==
  /\ FirstBackup \in [Area -> Colors] /\ FirstScreen \in [Area -> Colors]
  /\ Requests \subseteq [region : SUBSET Int, incremental : BOOLEAN]
  /\ MaxChanges \in Nat /\ NoClient \notin Clients
  /\ Pipelining \in BOOLEAN /\ GrabFails \in BOOLEAN
  /\ Failed \subseteq Failing /\ Failing \subseteq Clients
  /\ \A m \in Moves :
       /\ m.delta \in Int
       /\ m.target \subseteq Area /\ Translate(m.target, m.delta) \subseteq Area

VARIABLES
  screen,       (* what the screen shows, and how often it changed           *)
  move,         (* the copy the screen driver will report next               *)
  detected,     (* m_pupdatekeeperProperty, filled by the detectors          *)
  poller,       (* the poller's thread: "polling" or "notifying"             *)
  backup,       (* m_pframebufferBackup                                      *)
  fullReq,      (* m_regionFullReq                                           *)
  newUpdate,    (* m_happeningNewUpdate                                      *)
  desktop,      (* where the desktop's thread is                             *)
  out,          (* its local updatecontainer                                 *)
  todo,         (* the clients its present loop has not reached              *)
  current,      (* the client whose newUpdates it is in                      *)
  asked,        (* a client's requested regions and their two flags          *)
  busy,         (* m_busy                                                    *)
  newUpdates,   (* m_newUpdatesEvent                                         *)
  keeper,       (* the client's m_pupdatekeeper                              *)
  reader,       (* where the client's reader thread is, and with what        *)
  sender,       (* where its sender thread is, and with what                 *)
  framebuffer,  (* the sender's m_pframebuffer                               *)
  picture,      (* what the client shows                                     *)
  awaiting      (* what the client waits for: "nothing", "change", "answer"  *)

screenVars  == <<screen, move>>
desktopVars == <<backup, fullReq, newUpdate, desktop, out, todo, current>>
detectVars  == <<detected, poller>>
clientVars  == <<asked, busy, newUpdates, keeper, reader, sender, framebuffer,
                 picture, awaiting>>
vars == <<screenVars, desktopVars, detectVars, clientVars>>

NoMove    == [target |-> {}, delta |-> 0]
NoRequest == [incr |-> {}, full |-> {}, incrIs |-> FALSE, fullIs |-> FALSE]

(* Every client was told of the screen as the backup holds it; the screen  *)
(* may have changed since.  The cursor flag of a client's keeper is raised *)
(* by the first container it is given.  A client whose sender failed waits *)
(* for the answer to the request that the sender took with it.             *)

Init ==
  /\ screen = [pixels |-> FirstScreen, changes |-> 0]
  /\ move = NoMove
  /\ detected = NewKeeper(Area)
  /\ poller = "polling"
  /\ backup = FirstBackup
  /\ fullReq = {} /\ newUpdate = FALSE
  /\ desktop = "waiting" /\ out = EmptyContainer /\ todo = {}
  /\ current = NoClient
  /\ asked = [c \in Clients |-> NoRequest]
  /\ busy = [c \in Clients |-> c \in Failed]
  /\ newUpdates = [c \in Clients |-> FALSE]
  /\ keeper = [c \in Clients |-> SetCursorChanged(NewKeeper(Area))]
  /\ reader = [c \in Clients |-> [at |-> "reading", combined |-> {}, full |-> {}]]
  /\ sender = [c \in Clients |-> [at |-> IF c \in Failed THEN "dead" ELSE "waiting",
                                  taken |-> NoRequest,
                                  box |-> EmptyContainer]]
  /\ framebuffer = [c \in Clients |-> backup]
  /\ picture = [c \in Clients |-> backup]
  /\ awaiting = [c \in Clients |-> IF c \in Failed THEN "change" ELSE "nothing"]

-----------------------------------------------------------------------------
(* The screen: applications draw, windows move.                            *)
ScreenShows(pixels) ==
  /\ screen.changes < MaxChanges
  /\ screen' = [pixels |-> pixels, changes |-> screen.changes + 1]
  /\ UNCHANGED <<desktopVars, detectVars, clientVars>>

Draw ==
  \E pixels \in [Area -> Colors] \ {screen.pixels} :
    ScreenShows(pixels) /\ UNCHANGED move

Copied(pixels, m) ==
  [p \in Area |-> IF p \in m.target THEN pixels[p + m.delta] ELSE pixels[p]]

MoveWindow ==
  \E m \in Moves :
    /\ move = NoMove
    /\ move' = m
    /\ ScreenShows(Copied(screen.pixels, m))

(* Poller: under the frame buffer's lock it grabs the screen, compares it  *)
(* with the backup and adds the difference to the detected updates; then   *)
(* it tells the update handler, which passes that on if anything is there. *)
Poll ==
  LET region == {p \in Area : screen.pixels[p] # backup[p]} IN
  /\ poller = "polling"
  /\ region # {}
  /\ detected' = AddChangedRegion(detected, region)
  /\ poller' = "notifying"
  /\ UNCHANGED <<screenVars, desktopVars, clientVars>>

OnUpdate ==
  /\ poller = "notifying"
  /\ poller' = "polling"
  /\ newUpdate' = (newUpdate \/ ~ContainerIsEmpty(detected.box))
  /\ UNCHANGED <<screenVars, detected, backup, fullReq, desktop, out, todo, current,
                 clientVars>>

-----------------------------------------------------------------------------
(* DesktopBaseImpl::sendUpdate, once m_happeningNewUpdate woke the thread. *)
WakeDesktop ==
  /\ desktop = "waiting" /\ newUpdate
  /\ newUpdate' = FALSE
  /\ desktop' = "asking"
  /\ todo' = Clients
  /\ UNCHANGED <<screenVars, detectVars, backup, fullReq, out, current, clientVars>>

ClientIsReady(c) == (asked[c].incrIs \/ asked[c].fullIs) /\ ~busy[c]

(* isReadyToSend asks one client after the other; when none is ready the   *)
(* wake-up is used up and what was detected stays where it is.             *)
IsReadyToSendToAll(c) ==
  /\ desktop = "asking" /\ c \in todo
  /\ todo' = IF ClientIsReady(c) THEN todo \ {c} ELSE {}
  /\ desktop' = IF ~ClientIsReady(c) THEN "waiting"
                ELSE IF todo' = {} THEN "ready" ELSE "asking"
  /\ UNCHANGED <<screenVars, detectVars, backup, fullReq, newUpdate, out, current, clientVars>>

IsReadyToSend(c) ==
  /\ desktop = "asking" /\ c \in todo
  /\ todo' = IF ClientIsReady(c) THEN {} ELSE todo \ {c}
  /\ desktop' = IF ClientIsReady(c) THEN "ready"
                ELSE IF todo' = {} THEN "waiting" ELSE "asking"
  /\ UNCHANGED <<screenVars, detectVars, backup, fullReq, newUpdate, out, current, clientVars>>

SetFullUpdateRequested ==
  /\ desktop = "ready"
  /\ detected' = AddChangedRegion(detected, fullReq)
  /\ desktop' = "extracting"
  /\ UNCHANGED <<screenVars, poller, backup, fullReq, newUpdate, out, todo, current,
                 clientVars>>

Extract ==
  LET kept == AddCopyRect(detected, move.target, move.delta) IN
  /\ desktop = "extracting"
  /\ out' = Extracted(kept)
  /\ detected' = Emptied(kept)
  /\ move' = NoMove
  /\ desktop' = "filtering"
  /\ UNCHANGED <<screen, poller, backup, fullReq, newUpdate, todo, current,
                 clientVars>>

(* UpdateFilter replays the copy in the backup, grabs the region to check, *)
(* keeps what differs as changed and stores it in the backup; without a    *)
(* grab everything stays as it was detected.                               *)
Filter ==
  LET replayed == Copied(backup, [target |-> out.copied, delta |-> out.delta])
      changed  == {p \in out.changed \cup out.copied : replayed[p] # screen.pixels[p]}
  IN
  /\ desktop = "filtering"
  /\ \/ /\ out' = [out EXCEPT !.changed = changed]
        /\ backup' = [p \in Area |->
                        IF p \in changed THEN screen.pixels[p] ELSE replayed[p]]
     \/ /\ GrabFails
        /\ out' = out
        /\ backup' = replayed
  /\ desktop' = "filtered"
  /\ UNCHANGED <<screenVars, detectVars, fullReq, newUpdate, todo, current, clientVars>>

OnSendUpdate ==
  /\ desktop = "filtered"
  /\ IF ~ContainerIsEmpty(out) \/ fullReq # {}
     THEN desktop' = "merging" /\ todo' = Clients /\ out' = out
     ELSE desktop' = "waiting" /\ todo' = todo /\ out' = EmptyContainer
  /\ UNCHANGED <<screenVars, detectVars, backup, fullReq, newUpdate, current, clientVars>>

(* newUpdates of one client after the other: first the keeper ...          *)
MergeUpdatesOfReadyClients(c) ==
  /\ desktop = "merging" /\ c \in todo
  /\ keeper' = IF ClientIsReady(c)
               THEN [keeper EXCEPT ![c] = AddUpdateContainer(@, out)] ELSE keeper
  /\ todo' = todo \ {c}
  /\ current' = c
  /\ desktop' = "waking"
  /\ UNCHANGED <<screenVars, detectVars, backup, fullReq, newUpdate, out, asked, busy,
                 newUpdates, reader, sender, framebuffer, picture, awaiting>>

MergeUpdates(c) ==
  /\ desktop = "merging" /\ c \in todo
  /\ keeper' = [keeper EXCEPT ![c] = AddUpdateContainer(@, out)]
  /\ todo' = todo \ {c}
  /\ current' = c
  /\ desktop' = "waking"
  /\ UNCHANGED <<screenVars, detectVars, backup, fullReq, newUpdate, out, asked, busy,
                 newUpdates, reader, sender, framebuffer, picture, awaiting>>

(* ... then the flag and the event, under the request's lock.              *)
WakeIdleSender(c) ==
  /\ desktop = "waking" /\ current = c
  /\ busy' = [busy EXCEPT ![c] = TRUE]
  /\ newUpdates' = [newUpdates EXCEPT ![c] = @ \/ ~busy[c]]
  /\ current' = NoClient
  /\ desktop' = IF todo = {} THEN "clearing" ELSE "merging"
  /\ UNCHANGED <<screenVars, detectVars, backup, fullReq, newUpdate, out, todo, asked,
                 keeper, reader, sender, framebuffer, picture, awaiting>>

WakeSender(c) ==
  /\ desktop = "waking" /\ current = c
  /\ busy' = [busy EXCEPT ![c] = TRUE]
  /\ newUpdates' = [newUpdates EXCEPT ![c] = TRUE]
  /\ current' = NoClient
  /\ desktop' = IF todo = {} THEN "clearing" ELSE "merging"
  /\ UNCHANGED <<screenVars, detectVars, backup, fullReq, newUpdate, out, todo, asked,
                 keeper, reader, sender, framebuffer, picture, awaiting>>

ClearFullReq ==
  /\ desktop = "clearing"
  /\ fullReq' = {}
  /\ out' = EmptyContainer
  /\ desktop' = "waiting"
  /\ UNCHANGED <<screenVars, detectVars, backup, newUpdate, todo, current,
                 clientVars>>

-----------------------------------------------------------------------------
(* The client's messages, taken by its reader thread: readUpdateRequest    *)
(* notes the request, wakes the sender when its keeper has something (the  *)
(* sticky cursor flag counts) and passes the request on to the desktop.    *)
ReadUpdateRequest(c, request) ==
  LET added == IF request.incremental
               THEN [asked[c] EXCEPT !.incr = @ \cup request.region, !.incrIs = TRUE]
               ELSE [asked[c] EXCEPT !.full = @ \cup request.region, !.fullIs = TRUE]
  IN
  /\ reader[c].at = "reading"
  /\ Pipelining \/ awaiting[c] = "nothing"
  /\ asked' = [asked EXCEPT ![c] = added]
  /\ reader' = [reader EXCEPT ![c] =
                  [at |-> "checking", combined |-> added.incr \cup added.full,
                   full |-> IF request.incremental THEN {} ELSE request.region]]
  /\ awaiting' = [awaiting EXCEPT ![c] =
                    IF request.incremental /\ @ # "answer" THEN "change" ELSE "answer"]
  /\ UNCHANGED <<screenVars, detectVars, desktopVars, busy, newUpdates, keeper, sender,
                 framebuffer, picture>>

AlreadyHasUpdates(c) ==
  /\ reader[c].at = "checking"
  /\ newUpdates' = [newUpdates EXCEPT ![c] =
                      @ \/ CheckForUpdates(keeper[c], reader[c].combined)]
  /\ reader' = [reader EXCEPT ![c].at = "notifying"]
  /\ UNCHANGED <<screenVars, detectVars, desktopVars, asked, busy, keeper, sender,
                 framebuffer, picture, awaiting>>

OnUpdateRequest(c) ==
  /\ reader[c].at = "notifying"
  /\ fullReq' = fullReq \cup reader[c].full
  /\ newUpdate' = TRUE
  /\ reader' = [reader EXCEPT ![c] = [at |-> "reading", combined |-> {}, full |-> {}]]
  /\ UNCHANGED <<screenVars, detectVars, backup, desktop, out, todo, current, asked,
                 busy, newUpdates, keeper, sender, framebuffer, picture, awaiting>>

-----------------------------------------------------------------------------
(* The sender's thread.                                                    *)
SenderAt(c, from, to) ==
  /\ sender[c].at = from
  /\ sender' = [sender EXCEPT ![c].at = to]

WaitNewUpdates(c) ==
  /\ newUpdates[c]
  /\ SenderAt(c, "waiting", "woken")
  /\ newUpdates' = [newUpdates EXCEPT ![c] = FALSE]
  /\ UNCHANGED <<screenVars, detectVars, desktopVars, asked, busy, keeper, reader,
                 framebuffer, picture, awaiting>>

BecomeBusy(c) ==
  /\ SenderAt(c, "woken", "sending")
  /\ busy' = [busy EXCEPT ![c] = TRUE]
  /\ UNCHANGED <<screenVars, detectVars, desktopVars, asked, newUpdates, keeper, reader,
                 framebuffer, picture, awaiting>>

(* Without a request sendUpdate returns at once.                           *)
ExtractReqRegions(c) ==
  /\ sender[c].at = "sending"
  /\ sender' = [sender EXCEPT ![c] =
                  [at |-> IF asked[c].incrIs \/ asked[c].fullIs
                          THEN "requested" ELSE "done",
                   taken |-> asked[c], box |-> EmptyContainer]]
  /\ asked' = [asked EXCEPT ![c] = NoRequest]
  /\ UNCHANGED <<screenVars, detectVars, desktopVars, busy, newUpdates, keeper, reader,
                 framebuffer, picture, awaiting>>

ExtractUpdates(c) ==
  /\ sender[c].at = "requested"
  /\ sender' = [sender EXCEPT ![c].at = "extracted", ![c].box = Extracted(keeper[c])]
  /\ keeper' = [keeper EXCEPT ![c] = Emptied(@)]
  /\ UNCHANGED <<screenVars, detectVars, desktopVars, asked, busy, newUpdates, reader,
                 framebuffer, picture, awaiting>>

UpdateFramebufferOfKeeper(c) ==
  LET region == keeper[c].box.changed \cup keeper[c].box.copied \cup asked[c].full IN
  /\ SenderAt(c, "extracted", "refreshed")
  /\ framebuffer' = [framebuffer EXCEPT ![c] =
                       [p \in Area |-> IF p \in region THEN backup[p] ELSE @[p]]]
  /\ UNCHANGED <<screenVars, detectVars, desktopVars, asked, busy, newUpdates, keeper,
                 reader, picture, awaiting>>

(* updateFramebuffer reads what the backup holds by now; the full regions  *)
(* it adds are those requested since extractReqRegions took the others.    *)
UpdateFramebuffer(c) ==
  LET region == sender[c].box.changed \cup sender[c].box.copied \cup asked[c].full IN
  /\ SenderAt(c, "extracted", "refreshed")
  /\ framebuffer' = [framebuffer EXCEPT ![c] =
                       [p \in Area |-> IF p \in region THEN backup[p] ELSE @[p]]]
  /\ UNCHANGED <<screenVars, detectVars, desktopVars, asked, busy, newUpdates, keeper,
                 reader, picture, awaiting>>

RestoredWithoutFlags(request, taken) ==
  [request EXCEPT !.incr = @ \cup taken.incr, !.full = @ \cup taken.full]

Restored(request, taken) ==
  [incr |-> request.incr \cup taken.incr, full |-> request.full \cup taken.full,
   incrIs |-> taken.incrIs, fullIs |-> taken.fullIs]

(* The rest of sendUpdate: what was not requested goes back to the keeper; *)
(* with nothing to send the request is restored.                           *)
SendUpdate(c) ==
  LET taken     == sender[c].taken
      requested == taken.incr \cup taken.full
      wanted    == Wanted(sender[c].box, taken.full)
      sent      == ToSend(wanted, requested)
      answered  == sent.changed \cup sent.copied # {}
  IN
  /\ sender[c].at = "refreshed"
  /\ sender' = [sender EXCEPT ![c] = [at |-> "done", taken |-> NoRequest,
                                      box |-> EmptyContainer]]
  /\ keeper' = [keeper EXCEPT ![c] = AddChangedRegion(@, GoesBack(wanted, requested))]
  /\ IF answered
     THEN /\ picture' = [picture EXCEPT ![c] = Painted(sent, @, framebuffer[c])]
          /\ awaiting' = [awaiting EXCEPT ![c] = "nothing"]
          /\ UNCHANGED asked
     ELSE /\ asked' = [asked EXCEPT ![c] = Restored(@, taken)]
          /\ UNCHANGED <<picture, awaiting>>
  /\ UNCHANGED <<screenVars, detectVars, desktopVars, busy, newUpdates, reader,
                 framebuffer>>

StayBusy(c) ==
  /\ SenderAt(c, "done", "waiting")
  /\ UNCHANGED <<screenVars, detectVars, desktopVars, asked, busy, newUpdates, keeper,
                 reader, framebuffer, picture, awaiting>>

BecomeReady(c) ==
  /\ SenderAt(c, "done", "waiting")
  /\ busy' = [busy EXCEPT ![c] = FALSE]
  /\ UNCHANGED <<screenVars, detectVars, desktopVars, asked, newUpdates, keeper, reader,
                 framebuffer, picture, awaiting>>

(* An exception out of sendUpdate ends the thread and leaves m_busy set.   *)
SenderFails(c) ==
  /\ c \in Failing
  /\ SenderAt(c, "refreshed", "dead")
  /\ UNCHANGED <<screenVars, detectVars, desktopVars, asked, busy, newUpdates, keeper,
                 reader, framebuffer, picture, awaiting>>

-----------------------------------------------------------------------------
Desktop ==
  \/ WakeDesktop \/ SetFullUpdateRequested \/ Extract \/ Filter \/ OnSendUpdate
  \/ ClearFullReq
  \/ \E c \in Clients : IsReadyToSend(c) \/ MergeUpdates(c) \/ WakeSender(c)

Sender(c) ==
  \/ WaitNewUpdates(c) \/ BecomeBusy(c) \/ ExtractReqRegions(c) \/ ExtractUpdates(c)
  \/ UpdateFramebuffer(c) \/ SendUpdate(c) \/ BecomeReady(c)

Reader(c) == AlreadyHasUpdates(c) \/ OnUpdateRequest(c)

Poller == Poll \/ OnUpdate

Client(c) == \E request \in Requests : ReadUpdateRequest(c, request)

Next ==
  \/ Draw \/ MoveWindow \/ Poller \/ Desktop
  \/ \E c \in Clients : Client(c) \/ Reader(c) \/ Sender(c) \/ SenderFails(c)

NextChange == [region |-> Area, incremental |-> TRUE]

(* A client that was answered asks for the next change of its whole view.  *)
AsksAgain(c) == awaiting[c] = "nothing" /\ ReadUpdateRequest(c, NextChange)

Fairness ==
  /\ WF_vars(Poller) /\ WF_vars(Desktop)
  /\ \A c \in Clients : WF_vars(Reader(c)) /\ WF_vars(Sender(c)) /\ WF_vars(AsksAgain(c))

Spec == Init /\ [][Next]_vars /\ Fairness

-----------------------------------------------------------------------------
AskedRegions == [incr : SUBSET Int, full : SUBSET Int,
                 incrIs : BOOLEAN, fullIs : BOOLEAN]

ScreenTypes ==
  /\ screen.pixels \in [Area -> Colors] /\ screen.changes \in 0..MaxChanges
  /\ move \in Moves \cup {NoMove}
  /\ detected \in Keepers /\ poller \in {"polling", "notifying"}

DesktopTypes ==
  /\ backup \in [Area -> Colors]
  /\ fullReq \subseteq Int /\ newUpdate \in BOOLEAN
  /\ desktop \in {"waiting", "asking", "ready", "extracting", "filtering", "filtered",
                  "merging", "waking", "clearing"}
  /\ out \in Boxes /\ todo \subseteq Clients /\ current \in Clients \cup {NoClient}

ClientTypes ==
  /\ asked \in [Clients -> AskedRegions]
  /\ busy \in [Clients -> BOOLEAN] /\ newUpdates \in [Clients -> BOOLEAN]
  /\ keeper \in [Clients -> Keepers]
  /\ reader \in [Clients -> [at : {"reading", "checking", "notifying"},
                             combined : SUBSET Int, full : SUBSET Int]]
  /\ sender \in [Clients -> [at : {"waiting", "woken", "sending", "requested",
                                   "extracted", "refreshed", "done", "dead"},
                             taken : AskedRegions, box : Boxes]]
  /\ framebuffer \in [Clients -> [Area -> Colors]]
  /\ picture \in [Clients -> [Area -> Colors]]
  /\ awaiting \in [Clients -> {"nothing", "change", "answer"}]

(* Every variable has its type; the regions a keeper holds are cropped.    *)
TypeOK == ScreenTypes /\ DesktopTypes /\ ClientTypes

(* A region a client requested and was not sent is always marked as        *)
(* requested, however often its sender took it, restored it and met other  *)
(* requests meanwhile: the flags are what isReadyToSend and sendUpdate     *)
(* look at.                                                                *)
RequestsKeepTheirFlag ==
  \A c \in Clients : asked[c].incr \cup asked[c].full # {} =>
                       asked[c].incrIs \/ asked[c].fullIs

(* A busy client is one whose sender runs, or is about to: no client stays *)
(* busy with its sender asleep, which would keep updates from it for good. *)
BusyMeansRunning ==
  \A c \in Clients : busy[c] => newUpdates[c] \/ sender[c].at # "waiting"

(* The sender of c is awake, or somebody is about to wake it.              *)
Roused(c) ==
  newUpdates[c] \/ reader[c].at = "checking" \/ (desktop = "waking" /\ current = c)

(* A sender that sleeps, with nobody about to wake it, was asked for       *)
(* nothing that it could send: requests and updates that came while it was *)
(* sending, and what it put back, are looked at again.                     *)
NobodySleepsOnUpdates ==
  \A c \in Clients : sender[c].at = "waiting" /\ ~Roused(c) =>
    /\ asked[c].full \cap Area = {}
    /\ asked[c].incr \cap (keeper[c].box.changed \cup keeper[c].box.copied) = {}

(* The pixels of an update on its way to c: in the desktop's hands, in the *)
(* client's keeper or in its sender's hands.                               *)
Handed(c) == desktop \in {"filtered", "merging", "waking"} /\ (desktop = "filtered" \/ c \in todo)

OnTheWay(c) ==
  (IF Handed(c) THEN out.changed \cup out.copied ELSE {})
    \cup keeper[c].box.changed \cup keeper[c].box.copied
    \cup sender[c].box.changed \cup sender[c].box.copied

(* A pixel no update is on the way for shows what the backup holds,        *)
(* whatever the order of requests, extractions and answers was.            *)
NoUpdateLost ==
  \A c \in Clients : sender[c].at # "dead" =>
    \A p \in Area \ OnTheWay(c) : picture[c][p] = backup[p]

(* The threads together keep what UpdateChannel promises: from the backup  *)
(* to a sender's frame buffer and on to the client's picture no value is   *)
(* invented, taken twice or dropped, and an update stays on its way until  *)
(* the picture shows it.                                                   *)
Channel == INSTANCE UpdateChannel WITH
             Viewers <- Clients, Points <- Area, Colors <- Colors,
             source <- backup, copy <- framebuffer, picture <- picture,
             owed <- [c \in Clients |-> OnTheWay(c)]

ImplementsChannel == Channel!Spec

(* Once the screen rests every client whose sender lives shows it, though  *)
(* other clients fail, wake-ups find nobody ready and requests are asked   *)
(* for and restored at any moment.  A client that asks for the whole view  *)
(* again and again may find itself busy whenever the desktop looks.        *)
ClientsConverge ==
  \A c \in Clients :
    <>[](awaiting[c] # "answer" /\ sender[c].at # "dead")
      => <>[](picture[c] = screen.pixels)

(* A request that is not incremental is answered even if nothing changes.  *)
FullRequestsAreAnswered ==
  \A c \in Clients : awaiting[c] = "answer" ~> awaiting[c] # "answer" \/ sender[c].at = "dead"
=============================================================================
