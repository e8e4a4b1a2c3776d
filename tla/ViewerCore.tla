----------------------------- MODULE ViewerCore -----------------------------
(***************************************************************************)
(* The viewer.  RemoteViewerCore's thread reads updates into a frame       *)
(* buffer and asks for the next; the user's thread may do so too, when it  *)
(* thaws the picture, and UpdateRequestSender, when requests are deferred. *)
(* FbUpdateNotifier's thread shows what has changed in the window and      *)
(* paints the cursor over it.  The server is what the viewer sees of it,   *)
(* see UpdateDelivery; both directions of the connection keep their order. *)
(*                                                                         *)
(* A region is a set of points, a rectangle one point, the cursor covers   *)
(* one.  Connecting is over: the first request has not been sent yet.      *)
(***************************************************************************)
EXTENDS Integers, Sequences, FiniteSets

CONSTANTS
  Areas,            (* the sizes of the screen, as sets of points            *)
  FirstArea, FirstScreen,
  Colors, Black,    (* Black is what a new frame buffer is filled with       *)
  Cursor, Nowhere,  (* a pixel of the cursor, a cursor that is not shown     *)
  Formats, FirstFormat,
  MaxChanges,       (* how often the screen changes: a bound for TLC         *)
  MaxSettings       (* how often the user acts: a bound for TLC              *)

Points == UNION Areas

ASSUME ViewerAssumption ==
  /\ FirstArea \in Areas /\ FirstFormat \in Formats
  /\ FirstScreen \in [Points -> Colors]
  /\ Black \in Colors /\ Cursor \notin Colors /\ Nowhere \notin Points
  /\ MaxChanges \in Nat /\ MaxSettings \in Nat

VARIABLES
  server,      (* the screen, the viewer's pixel format, what is owed to it  *)
  requests,    (* the connection to the server ...                           *)
  updates,     (* ... and from it                                            *)
  fb,          (* m_pframebuffer                                             *)
  reading,     (* what is left of the update being read                      *)
  at,          (* where the threads are ...                                  *)
  full,        (* ... and whether the request they make is a full one        *)
  need,        (* m_bNeedRequestUpdate                                       *)
  refreshing,  (* m_bRefreshing                                              *)
  freeze,      (* m_bFreeze                                                  *)
  deferred,    (* m_timeTimeout of the UpdateRequestSender is not 0          *)
  received,    (* its m_bWasUpdateReceived                                   *)
  wanted,      (* m_pixelformatViewer, m_bNewPixelFormat                     *)
  notifier,    (* m_regionUpdate, m_bNewSize, m_bCursorChange and its event  *)
  taken,       (* what the notifier's thread has taken of them               *)
  pointer,     (* the cursor painter's m_pointerPosition                     *)
  oldPosition, (* m_rectangleOldPosition                                     *)
  window,      (* the frame buffer of the window                             *)
  changes, settings

coreVars     == <<fb, reading, at, full, need, refreshing>>
userVars     == <<freeze, deferred, wanted, settings>>
notifierVars == <<notifier, taken, pointer, oldPosition, window>>
serverVars   == <<server, changes>>
vars == <<serverVars, requests, updates, coreVars, received, userVars, notifierVars>>

Blank == [p \in Points |-> Black]

NoRead == [resized |-> FALSE, area |-> FirstArea, left |-> {}, pixels |-> Blank,
           format |-> FirstFormat, last |-> {}]

Init ==
  /\ server = [area |-> FirstArea, pixels |-> FirstScreen, format |-> FirstFormat,
               owed |-> FirstArea, resized |-> FALSE]
  /\ requests = <<>> /\ updates = <<>>
  /\ fb = [area |-> FirstArea, pixels |-> Blank, format |-> FirstFormat]
  /\ reading = NoRead
  /\ at = [core |-> "take", ui |-> "idle", updater |-> "idle", notifier |-> "take"]
  /\ full = [core |-> TRUE, ui |-> FALSE]
  /\ need = TRUE /\ refreshing = TRUE /\ freeze = FALSE
  /\ deferred = FALSE /\ received = FALSE
  /\ wanted = [format |-> FirstFormat, new |-> FALSE]
  /\ notifier = [region |-> {}, size |-> TRUE, cursor |-> FALSE, event |-> TRUE]
  /\ taken = [region |-> {}, size |-> FALSE, cursor |-> FALSE]
  /\ pointer = Nowhere /\ oldPosition = {}
  /\ window = [area |-> {}, pixels |-> Blank, format |-> FirstFormat]
  /\ changes = 0 /\ settings = 0

-----------------------------------------------------------------------------
(* The server.  A new size is announced by itself and everything is owed   *)
(* again; an incremental request waits until something is.                 *)
Draw ==
  \E p \in server.area, color \in Colors :
    /\ changes < MaxChanges /\ color # server.pixels[p]
    /\ server' = [server EXCEPT !.pixels[p] = color, !.owed = @ \cup {p}]
    /\ changes' = changes + 1
    /\ UNCHANGED <<requests, updates, coreVars, received, userVars, notifierVars>>

ResizeKeepsOwed ==
  \E area \in Areas \ {server.area} :
    /\ changes < MaxChanges
    /\ server' = [server EXCEPT !.area = area, !.resized = TRUE]
    /\ changes' = changes + 1
    /\ UNCHANGED <<requests, updates, coreVars, received, userVars, notifierVars>>

Resize ==
  \E area \in Areas \ {server.area} :
    /\ changes < MaxChanges
    /\ server' = [server EXCEPT !.area = area, !.owed = area, !.resized = TRUE]
    /\ changes' = changes + 1
    /\ UNCHANGED <<requests, updates, coreVars, received, userVars, notifierVars>>

ReadPixelFormat ==
  /\ requests # <<>> /\ Head(requests).kind = "format"
  /\ server' = [server EXCEPT !.format = Head(requests).format]
  /\ requests' = Tail(requests)
  /\ UNCHANGED <<changes, updates, coreVars, received, userVars, notifierVars>>

Answer ==
  LET request == Head(requests)
      region  == IF server.resized THEN {}
                 ELSE request.area \cap (IF request.incremental THEN server.owed
                                                                ELSE server.area)
  IN
  /\ requests # <<>> /\ request.kind = "request"
  /\ server.resized \/ region # {} \/ ~request.incremental
  /\ updates' = Append(updates, [resized |-> server.resized, area |-> server.area,
                                 left |-> region, pixels |-> server.pixels,
                                 format |-> server.format, last |-> {}])
  /\ server' = [server EXCEPT !.resized = FALSE, !.owed = @ \ region]
  /\ requests' = Tail(requests)
  /\ UNCHANGED <<changes, coreVars, received, userVars, notifierVars>>

-----------------------------------------------------------------------------
(* RemoteViewerCore's thread reads an update rectangle by rectangle.       *)
ReadUpdate ==
  /\ at.core = "idle" /\ updates # <<>>
  /\ reading' = Head(updates) /\ updates' = Tail(updates)
  /\ at' = [at EXCEPT !.core = "rectangles"]
  /\ UNCHANGED <<serverVars, requests, fb, full, need, refreshing, received, userVars,
                 notifierVars>>

OnPropertiesFb == [notifier EXCEPT !.region = {}, !.size = TRUE, !.event = TRUE]

(* A black frame buffer, to be asked for and shown anew.                   *)
SetFbProperties(area, format) ==
  /\ fb' = [area |-> area, pixels |-> Blank, format |-> format]
  /\ refreshing' = TRUE
  /\ notifier' = OnPropertiesFb

ReadDesktopSize ==
  /\ at.core = "rectangles" /\ reading.resized
  /\ SetFbProperties(reading.area, fb.format)
  /\ reading' = [reading EXCEPT !.resized = FALSE]
  /\ UNCHANGED <<serverVars, requests, updates, at, full, need, received, userVars, taken,
                 pointer, oldPosition, window>>

(* A rectangle outside the frame buffer ends the connection.               *)
ReadRectangle ==
  /\ at.core = "rectangles" /\ ~reading.resized
  /\ \E p \in reading.left :
       /\ reading' = [reading EXCEPT !.left = @ \ {p}, !.last = {p}]
       /\ IF p \in fb.area
          THEN /\ fb' = [fb EXCEPT !.pixels[p] = reading.pixels[p]]
               /\ at' = [at EXCEPT !.core = "notify"]
          ELSE fb' = fb /\ at' = [at EXCEPT !.core = "failed"]
  /\ UNCHANGED <<serverVars, requests, updates, full, need, refreshing, received, userVars,
                 notifierVars>>

OnUpdate ==
  /\ at.core = "notify"
  /\ notifier' = [notifier EXCEPT !.region = @ \cup reading.last, !.event = TRUE]
  /\ reading' = [reading EXCEPT !.last = {}]
  /\ at' = [at EXCEPT !.core = "rectangles"]
  /\ UNCHANGED <<serverVars, requests, updates, fb, full, need, refreshing, received,
                 userVars, taken, pointer, oldPosition, window>>

(* The end of receiveFbUpdate: the next request may be sent, and is unless *)
(* the picture is frozen.                                                  *)
AllRead == at.core = "rectangles" /\ ~reading.resized /\ reading.left = {}

EndUpdateUnlessFrozen ==
  /\ AllRead
  /\ need' = ~freeze /\ reading' = NoRead
  /\ at' = [at EXCEPT !.core = "freeze"]
  /\ UNCHANGED <<serverVars, requests, updates, fb, full, refreshing, received, userVars,
                 notifierVars>>

EndUpdate ==
  /\ AllRead
  /\ need' = TRUE /\ reading' = NoRead
  /\ at' = [at EXCEPT !.core = "freeze"]
  /\ UNCHANGED <<serverVars, requests, updates, fb, full, refreshing, received, userVars,
                 notifierVars>>

CheckFreeze ==
  /\ at.core = "freeze"
  /\ at' = [at EXCEPT !.core = IF freeze THEN "idle" ELSE "take"]
  /\ full' = [full EXCEPT !.core = FALSE]
  /\ UNCHANGED <<serverVars, requests, updates, fb, reading, need, refreshing, received,
                 userVars, notifierVars>>

-----------------------------------------------------------------------------
(* sendFbUpdateRequest, of the core's thread or the user's.                *)
TakeNeedUnchecked(t) ==
  /\ at[t] = "take"
  /\ need' = FALSE
  /\ at' = [at EXCEPT ![t] = "format"]
  /\ UNCHANGED <<serverVars, requests, updates, fb, reading, full, refreshing, received,
                 userVars, notifierVars>>

TakeNeed(t) ==
  /\ at[t] = "take"
  /\ need' = FALSE
  /\ at' = [at EXCEPT ![t] = IF need THEN "format" ELSE "idle"]
  /\ UNCHANGED <<serverVars, requests, updates, fb, reading, full, refreshing, received,
                 userVars, notifierVars>>

(* updatePixelFormat: the frame buffer and the server change to the format *)
(* the user wants.                                                         *)
UpdatePixelFormat(t) ==
  LET change == wanted.new /\ wanted.format # fb.format IN
  /\ at[t] = "format"
  /\ at' = [at EXCEPT ![t] = "refresh"]
  /\ wanted' = [wanted EXCEPT !.new = FALSE]
  /\ IF change
     THEN /\ SetFbProperties(fb.area, wanted.format)
          /\ requests' = Append(requests, [kind |-> "format", format |-> wanted.format])
          /\ full' = [full EXCEPT ![t] = TRUE]
     ELSE UNCHANGED <<fb, refreshing, notifier, requests, full>>
  /\ UNCHANGED <<serverVars, updates, reading, need, received, freeze, deferred, settings,
                 taken, pointer, oldPosition, window>>

TakeRefreshing(t) ==
  /\ at[t] = "refresh"
  /\ at' = [at EXCEPT ![t] = "send"]
  /\ full' = [full EXCEPT ![t] = @ \/ refreshing]
  /\ refreshing' = FALSE
  /\ UNCHANGED <<serverVars, requests, updates, fb, reading, need, received, userVars,
                 notifierVars>>

IncrementalRequest(incremental) ==
  [kind |-> "request", incremental |-> TRUE, area |-> fb.area]

Request(incremental) ==
  [kind |-> "request", incremental |-> incremental, area |-> fb.area]

SendRequest(t) ==
  /\ at[t] = "send"
  /\ at' = [at EXCEPT ![t] = "idle"]
  /\ IF full[t] \/ ~deferred
     THEN requests' = Append(requests, Request(~full[t])) /\ UNCHANGED received
     ELSE received' = TRUE /\ UNCHANGED requests
  /\ full' = [full EXCEPT ![t] = FALSE]
  /\ UNCHANGED <<serverVars, updates, fb, reading, need, refreshing, userVars, notifierVars>>

(* UpdateRequestSender's thread, every now and then.                       *)
IsUpdated ==
  /\ at.updater = "idle" /\ received
  /\ received' = FALSE
  /\ at' = [at EXCEPT !.updater = "send"]
  /\ UNCHANGED <<serverVars, requests, updates, fb, reading, full, need, refreshing, userVars,
                 notifierVars>>

SendDeferredRequest ==
  /\ at.updater = "send"
  /\ requests' = Append(requests, Request(TRUE))
  /\ at' = [at EXCEPT !.updater = "idle"]
  /\ UNCHANGED <<serverVars, updates, fb, reading, full, need, refreshing, received, userVars,
                 notifierVars>>

-----------------------------------------------------------------------------
(* The user.                                                               *)
MayAct == at.ui = "idle" /\ settings < MaxSettings /\ settings' = settings + 1

SetPixelFormatNow ==
  \E f \in Formats \ {fb.format} :
    /\ MayAct
    /\ SetFbProperties(fb.area, f)
    /\ requests' = Append(requests, [kind |-> "format", format |-> f])
    /\ UNCHANGED <<serverVars, updates, reading, at, full, need, received, freeze, deferred,
                   wanted, taken, pointer, oldPosition, window>>

SetPixelFormat ==
  \E f \in Formats :
    /\ MayAct
    /\ wanted' = [format |-> f, new |-> TRUE]
    /\ UNCHANGED <<serverVars, requests, updates, coreVars, received, freeze, deferred,
                   notifierVars>>

RefreshFramebuffer ==
  /\ MayAct
  /\ refreshing' = TRUE
  /\ UNCHANGED <<serverVars, requests, updates, fb, reading, at, full, need, received, freeze,
                 deferred, wanted, notifierVars>>

StopUpdating ==
  /\ MayAct
  /\ freeze' = ~freeze
  /\ at' = [at EXCEPT !.ui = IF freeze THEN "take" ELSE "idle"]
  /\ UNCHANGED <<serverVars, requests, updates, fb, reading, full, need, refreshing, received,
                 deferred, wanted, notifierVars>>

DeferUpdateRequests ==
  /\ MayAct
  /\ deferred' = ~deferred
  /\ UNCHANGED <<serverVars, requests, updates, coreVars, received, freeze, wanted,
                 notifierVars>>

(* updatePointerPos, of the user's thread or, for a POINTER_POS, the       *)
(* core's.                                                                 *)
MovePointer ==
  \E p \in Points \ {pointer} :
    /\ MayAct
    /\ pointer' = p
    /\ at' = [at EXCEPT !.ui = "pointer"]
    /\ UNCHANGED <<serverVars, requests, updates, fb, reading, full, need, refreshing,
                   received, freeze, deferred, wanted, notifier, taken, oldPosition, window>>

ShowPointer ==
  /\ at.ui = "pointer"
  /\ notifier' = [notifier EXCEPT !.cursor = TRUE, !.event = TRUE]
  /\ at' = [at EXCEPT !.ui = "idle"]
  /\ UNCHANGED <<serverVars, requests, updates, fb, reading, full, need, refreshing, received,
                 userVars, taken, pointer, oldPosition, window>>

-----------------------------------------------------------------------------
(* FbUpdateNotifier's thread.                                              *)
ToPaint(t) == IF t.cursor \/ t.region # {} THEN "paint" ELSE "take"

TakeUpdates ==
  LET t == [region |-> notifier.region, size |-> notifier.size, cursor |-> notifier.cursor] IN
  /\ at.notifier = "take"
  /\ taken' = t
  /\ notifier' = [notifier EXCEPT !.region = {}, !.size = FALSE, !.cursor = FALSE]
  /\ at' = [at EXCEPT !.notifier = IF t.size THEN "size"
                                   ELSE IF ToPaint(t) = "paint" THEN "paint" ELSE "asleep"]
  /\ UNCHANGED <<serverVars, requests, updates, fb, reading, full, need, refreshing, received,
                 userVars, pointer, oldPosition, window>>

(* onFramebufferPropChange empties the window, onFramebufferUpdate fills   *)
(* it.                                                                     *)
ShowNewSize ==
  /\ at.notifier = "size"
  /\ window' = fb
  /\ taken' = [taken EXCEPT !.size = FALSE]
  /\ at' = [at EXCEPT !.notifier = ToPaint(taken)]
  /\ UNCHANGED <<serverVars, requests, updates, fb, reading, full, need, refreshing, received,
                 userVars, notifier, pointer, oldPosition>>

(* What is shown of a point with the cursor painted over the frame buffer. *)
Painted(p) == IF p = pointer THEN Cursor ELSE fb.pixels[p]

ShowUpdatesAndForget ==
  LET rectangles == taken.region \cup oldPosition \cup ({pointer} \ {Nowhere})
      shown == IF window.format = fb.format THEN rectangles \cap fb.area \cap window.area
                                            ELSE {}
  IN
  /\ at.notifier = "paint"
  /\ window' = [window EXCEPT !.pixels =
                  [p \in Points |-> IF p \in shown THEN Painted(p) ELSE @[p]]]
  /\ oldPosition' = {pointer} \ {Nowhere}
  /\ notifier' = [notifier EXCEPT !.region = {}]
  /\ taken' = [taken EXCEPT !.region = {}, !.cursor = FALSE]
  /\ at' = [at EXCEPT !.notifier = "take"]
  /\ UNCHANGED <<serverVars, requests, updates, fb, reading, full, need, refreshing, received,
                 userVars, pointer>>

(* The frame buffer is locked.  A window of another format or size takes   *)
(* no pixel that does not fit.                                             *)
ShowUpdates ==
  LET rectangles == taken.region \cup oldPosition \cup ({pointer} \ {Nowhere})
      shown == IF window.format = fb.format THEN rectangles \cap fb.area \cap window.area
                                            ELSE {}
  IN
  /\ at.notifier = "paint"
  /\ window' = [window EXCEPT !.pixels =
                  [p \in Points |-> IF p \in shown THEN Painted(p) ELSE @[p]]]
  /\ oldPosition' = {pointer} \ {Nowhere}
  /\ taken' = [taken EXCEPT !.region = {}, !.cursor = FALSE]
  /\ at' = [at EXCEPT !.notifier = "take"]
  /\ UNCHANGED <<serverVars, requests, updates, fb, reading, full, need, refreshing, received,
                 userVars, notifier, pointer>>

Wake ==
  /\ at.notifier = "asleep" /\ notifier.event
  /\ notifier' = [notifier EXCEPT !.event = FALSE]
  /\ at' = [at EXCEPT !.notifier = "take"]
  /\ UNCHANGED <<serverVars, requests, updates, fb, reading, full, need, refreshing, received,
                 userVars, taken, pointer, oldPosition, window>>

-----------------------------------------------------------------------------
Serve    == ReadPixelFormat \/ Answer
SendFbUpdateRequest(t) ==
  TakeNeed(t) \/ UpdatePixelFormat(t) \/ TakeRefreshing(t) \/ SendRequest(t)
Core     == \/ ReadUpdate \/ ReadDesktopSize \/ ReadRectangle \/ OnUpdate \/ EndUpdate
            \/ CheckFreeze \/ SendFbUpdateRequest("core")
User     == \/ SetPixelFormat \/ RefreshFramebuffer \/ StopUpdating \/ DeferUpdateRequests
            \/ MovePointer
UserThread == SendFbUpdateRequest("ui") \/ ShowPointer
Updater  == IsUpdated \/ SendDeferredRequest
Notifier == TakeUpdates \/ ShowNewSize \/ ShowUpdates \/ Wake

Next == Draw \/ Resize \/ Serve \/ Core \/ User \/ UserThread \/ Updater \/ Notifier

(* Every thread goes on; nobody has to draw or to touch the settings.      *)
Fairness ==
  /\ WF_vars(Serve) /\ WF_vars(Core) /\ WF_vars(UserThread) /\ WF_vars(Updater)
  /\ WF_vars(Notifier)

Spec == Init /\ [][Next]_vars /\ Fairness

-----------------------------------------------------------------------------
Buffers == [area : Areas \cup {{}}, pixels : [Points -> Colors \cup {Cursor}],
            format : Formats]
Updates == [resized : BOOLEAN, area : Areas, left : SUBSET Points,
            pixels : [Points -> Colors], format : Formats, last : SUBSET Points]
Requests == [kind : {"request"}, incremental : BOOLEAN, area : Areas]
              \cup [kind : {"format"}, format : Formats]

ConnectionTypes ==
  /\ server \in [area : Areas, pixels : [Points -> Colors], format : Formats,
                 owed : SUBSET Points, resized : BOOLEAN]
  /\ server.owed \subseteq server.area
  /\ requests \in Seq(Requests) /\ updates \in Seq(Updates)
  /\ changes \in 0..MaxChanges /\ settings \in 0..MaxSettings

CoreTypes ==
  /\ fb \in [area : Areas, pixels : [Points -> Colors], format : Formats]
  /\ reading \in Updates
  /\ at \in [core : {"idle", "rectangles", "notify", "failed", "freeze", "take", "format",
                     "refresh", "send"},
             ui : {"idle", "pointer", "take", "format", "refresh", "send"},
             updater : {"idle", "send"}, notifier : {"take", "size", "paint", "asleep"}]
  /\ full \in [core : BOOLEAN, ui : BOOLEAN]
  /\ need \in BOOLEAN /\ refreshing \in BOOLEAN /\ freeze \in BOOLEAN
  /\ deferred \in BOOLEAN /\ received \in BOOLEAN
  /\ wanted \in [format : Formats, new : BOOLEAN]

NotifierTypes ==
  /\ notifier \in [region : SUBSET Points, size : BOOLEAN, cursor : BOOLEAN, event : BOOLEAN]
  /\ taken \in [region : SUBSET Points, size : BOOLEAN, cursor : BOOLEAN]
  /\ pointer \in Points \cup {Nowhere} /\ oldPosition \in SUBSET Points
  /\ window \in Buffers

(* Every variable has its type.                                            *)
TypeOK == ConnectionTypes /\ CoreTypes /\ NotifierTypes

Asks(t) == at[t] \in {"format", "refresh", "send"}

IsReading == at.core \in {"rectangles", "notify", "failed"}

(* Who may cause the next request: the right to send it, a thread that has *)
(* taken it, a request on its way or its answer.                           *)
Turns ==
  {<<"need", 1>> : n \in {n \in {1} : need}}
  \cup {<<"asks", t>> : t \in {t \in {"core", "ui"} : Asks(t)}}
  \cup {<<"deferred", 1>> : n \in {n \in {1} : received}}
  \cup {<<"updater", 1>> : n \in {n \in {1} : at.updater = "send"}}
  \cup {<<"request", i>> : i \in {i \in 1..Len(requests) : requests[i].kind = "request"}}
  \cup {<<"update", i>> : i \in 1..Len(updates)}
  \cup {<<"reading", 1>> : n \in {n \in {1} : IsReading}}

(* "The next update request will not send until the response on the        *)
(* previous request is recieved", whichever thread sends it, and it is     *)
(* never lost: there is one turn.                                          *)
OneRequestAtATime == Cardinality(Turns) = 1

(* What arrives has the format the frame buffer has by then and lies       *)
(* within it, though the user and the server change both at any time.      *)
Fits(u) == u.format = fb.format /\ (~u.resized => u.left \subseteq fb.area)

UpdatesFit ==
  /\ \A i \in 1..Len(updates) : Fits(updates[i])
  /\ at.core \in {"rectangles", "notify"} => Fits(reading)
  /\ at.core # "failed"

(* A pixel the viewer's frame buffer has wrong is on its way or owed to    *)
(* it, or everything is.                                                   *)
Brings(u, p) == p \in u.left /\ u.pixels[p] = server.pixels[p]

FullRequests ==
  \/ refreshing \/ server.resized
  \/ \E t \in {"core", "ui"} : Asks(t) /\ full[t]
  \/ \E i \in 1..Len(requests) : requests[i].kind = "request" /\ ~requests[i].incremental
  \/ \E i \in 1..Len(updates) : updates[i].resized
  \/ reading.resized

ViewerKeepsUp ==
  \A p \in server.area :
    \/ p \in fb.area /\ fb.pixels[p] = server.pixels[p]
    \/ p \in server.owed
    \/ \E i \in 1..Len(updates) : Brings(updates[i], p)
    \/ Brings(reading, p)
    \/ FullRequests

(* A point the window shows wrongly is one the notifier's thread will      *)
(* show, or is about to be told of.                                        *)
WindowKeepsUp ==
  \/ notifier.size \/ at.notifier = "size"
  \/ /\ window.area = fb.area /\ window.format = fb.format
     /\ \A p \in fb.area :
          \/ window.pixels[p] = fb.pixels[p]
          \/ window.pixels[p] = Cursor /\ p \in oldPosition
          \/ p \in notifier.region
          \/ at.notifier = "paint" /\ p \in taken.region
          \/ at.core = "notify" /\ p \in reading.last

ShowsScreen ==
  /\ window.area = server.area
  /\ \A p \in server.area :
       window.pixels[p] = IF p = pointer THEN Cursor ELSE server.pixels[p]

(* Once the screen and the user rest the window shows the screen, with the *)
(* cursor in its place and nowhere else, unless the picture is frozen.     *)
WindowConverges == <>[](freeze \/ ShowsScreen)

-----------------------------------------------------------------------------
(* What the documentation says and the code does not keep; the README      *)
(* tells the behaviours that break it.                                     *)

(* "During this callback, the frame buffer is locked, and the rectangle is *)
(* guaranteed to be valid." (CoreEventsAdapter.h, of onFramebufferUpdate)  *)
RectanglesAreValid ==
  at.notifier = "paint" => taken.region \cup oldPosition \subseteq fb.area
=============================================================================
