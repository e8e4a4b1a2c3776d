---------------------------- MODULE UpdateSender ----------------------------
(***************************************************************************)
(* The data path of one client's UpdateSender: containers come in through  *)
(* newUpdates, sendUpdate answers a request from the keeper, and the       *)
(* client applies what it is sent.  Each handler is one step here: the     *)
(* threads that interleave them are modelled in UpdateDelivery.            *)
(*                                                                         *)
(* Area is the view port in the client's coordinates: a view port moves    *)
(* over the desktop, its size stays.  Nothing is a video region, the whole *)
(* desktop is shared and no JPEG is sent.                                  *)
(***************************************************************************)
EXTENDS UpdateCropping

CONSTANTS
  Screen,              (* the pixels of the desktop                          *)
  ViewPorts,           (* where a view port may begin on the desktop         *)
  NoViewPort,          (* before the first sendUpdate                        *)
  Colors,              (* what a pixel may show                              *)
  Blank,               (* the colour of a new frame buffer                   *)
  Moves,               (* copies the desktop may report: [target, delta]     *)
  Requests,            (* regions the client may request                     *)
  DesktopSizeEnabled   (* the client's SetEncodings                          *)

ASSUME SenderAssumption ==
  /\ Screen \subseteq Int /\ ViewPorts \subseteq Int
  /\ NoViewPort \notin ViewPorts /\ Blank \in Colors
  /\ \A v \in ViewPorts : Translate(Area, v) \subseteq Screen
  /\ \A m \in Moves :
       /\ m.delta \in Int
       /\ m.target \subseteq Screen /\ Translate(m.target, m.delta) \subseteq Screen
  /\ Requests \subseteq SUBSET Int
  /\ DesktopSizeEnabled \in BOOLEAN

VARIABLES
  backup,      (* UpdateHandlerImpl's m_pframebufferBackup                   *)
  absolute,    (* m_rectangleAbsolute is not empty: a full update is due     *)
  viewPort,    (* m_rectangleViewport: its corner, or NoViewPort             *)
  keeper,      (* m_pupdatekeeper                                            *)
  framebuffer, (* m_pframebuffer, the sender's own copy of the view port     *)
  picture,     (* what the client shows                                      *)
  resized      (* a screen change was handed over since the last sendUpdate  *)

vars == <<backup, absolute, viewPort, keeper, framebuffer, picture, resized>>

Init ==
  /\ backup \in [Screen -> Colors]
  /\ absolute = TRUE
  /\ viewPort = NoViewPort
  /\ keeper = NewKeeper(Area)
  /\ framebuffer = [p \in Area |-> Blank]
  /\ picture = [p \in Area |-> Blank]
  /\ resized = FALSE

-----------------------------------------------------------------------------
(* addUpdateContainer shifts a container to the client's coordinates; the  *)
(* view port is empty, at the origin, until the first sendUpdate.          *)
Corner == IF viewPort = NoViewPort THEN 0 ELSE viewPort

ToClientUnshifted(box) == box

ToClient(box) ==
  [box EXCEPT !.changed = Translate(@, -Corner), !.copied = Translate(@, -Corner)]

NewUpdates(box) == keeper' = AddUpdateContainer(keeper, ToClient(box))

(* UpdateFilter replays the copy in the backup frame buffer, keeps as      *)
(* changed the pixels that then differ from the grabbed screen, and copies *)
(* those to the backup.                                                    *)
Replayed(move) ==
  [p \in Screen |-> IF p \in move.target THEN backup[p + move.delta] ELSE backup[p]]

Differing(move, grabbed) == {p \in Screen : Replayed(move)[p] # grabbed[p]}

NoMove == [target |-> {}, delta |-> 0]

(* The desktop extracts an update, its screen showing grabbed, and hands   *)
(* the container to the client.                                            *)
DesktopUpdate(move, grabbed) ==
  LET changed == IF absolute THEN Screen ELSE Differing(move, grabbed) IN
  /\ backup' = grabbed
  /\ absolute' = FALSE
  /\ NewUpdates(Container(changed, move.target, move.delta, FALSE))
  /\ UNCHANGED <<viewPort, framebuffer, picture, resized>>

(* The screen's properties changed: the backup is cloned from the screen,  *)
(* the container says only that the size changed, and the pixels follow    *)
(* with the next extraction.                                               *)
ScreenChange(grabbed) ==
  /\ backup' = grabbed
  /\ absolute' = TRUE
  /\ resized' = TRUE
  /\ NewUpdates(Container({}, {}, 0, TRUE))
  /\ UNCHANGED <<viewPort, framebuffer, picture>>

-----------------------------------------------------------------------------
(* updateFramebuffer: the pixels of the container are read from the backup;*)
(* without a frame buffer of the view port's size a blank one is made, and *)
(* the update becomes a size change.                                       *)
RefreshedWithoutCopies(box, corner) ==
  IF viewPort = NoViewPort
  THEN [p \in Area |-> Blank]
  ELSE [p \in Area |-> IF p \in box.changed THEN backup[corner + p] ELSE framebuffer[p]]

Refreshed(box, corner) ==
  IF viewPort = NoViewPort
  THEN [p \in Area |-> Blank]
  ELSE [p \in Area |-> IF p \in box.changed \cup box.copied
                       THEN backup[corner + p] ELSE framebuffer[p]]

(* What sendUpdate does to the container when the view port moved.         *)
ForNewViewPort(box) == [box EXCEPT !.copied = {}, !.changed = Area]

(* sendUpdate when a new size is to be announced: NewFBSize, or the whole  *)
(* frame buffer for a client that cannot resize.                           *)
SendSize(fb, kept) ==
  /\ keeper' = SetCursorChanged(DazzleChangedReg(kept))
  /\ IF DesktopSizeEnabled
     THEN picture' \in {picture, [p \in Area |-> Blank]}
     ELSE picture' = fb

SendPixels(box, fb, kept, incr, full) ==
  LET wanted    == Wanted(box, full)
      requested == incr \cup full
  IN  /\ keeper' = AddChangedRegion(kept, GoesBack(wanted, requested))
      /\ picture' = Painted(ToSend(wanted, requested), picture, fb)

(* sendUpdate, the view port of the control settings beginning at corner;  *)
(* it returns at once when nothing was requested.                          *)
SendUpdate(incr, full, corner) ==
  LET moved == corner # viewPort
      taken == Extracted(keeper)
      size  == taken.size \/ viewPort = NoViewPort
      fb    == Refreshed(taken, corner)
      box   == IF moved THEN ForNewViewPort(taken) ELSE taken
      kept  == IF moved THEN SetCursorChanged(DazzleChangedReg(Emptied(keeper)))
                        ELSE Emptied(keeper)
  IN  /\ incr \cup full # {}
      /\ viewPort' = corner
      /\ framebuffer' = fb
      /\ resized' = FALSE
      /\ IF size \/ (full # {} /\ ~DesktopSizeEnabled)
         THEN SendSize(fb, kept)
         ELSE SendPixels(box, fb, kept, incr, full)
      /\ UNCHANGED <<backup, absolute>>

Next ==
  \/ \E move \in Moves, grabbed \in [Screen -> Colors] : DesktopUpdate(move, grabbed)
  \/ \E grabbed \in [Screen -> Colors] :
       DesktopUpdate(NoMove, grabbed) \/ ScreenChange(grabbed)
  \/ \E incr, full \in Requests \cup {{}}, corner \in ViewPorts :
       SendUpdate(incr, full, corner)

Spec == Init /\ [][Next]_vars

-----------------------------------------------------------------------------
TypeOK ==
  /\ backup \in [Screen -> Colors]
  /\ absolute \in BOOLEAN /\ resized \in BOOLEAN
  /\ viewPort \in ViewPorts \cup {NoViewPort}
  /\ keeper \in Keepers
  /\ framebuffer \in [Area -> Colors]
  /\ picture \in [Area -> Colors]

(* Once a view port is set and no full update is due on the desktop's side *)
(* every pixel of the client that is not waiting in its keeper shows what  *)
(* the desktop shows there: no update is lost between the two, whatever    *)
(* was requested and however containers were merged.                       *)
Settled == viewPort # NoViewPort /\ ~absolute

NoUpdateLost ==
  Settled => \A p \in Area \ (keeper.box.changed \cup keeper.box.copied) :
               picture[p] = backup[viewPort + p]

(* The same with pending copies taken at their word: applying the keeper's *)
(* copy to the client's picture gives what the desktop shows, except where *)
(* a repaint is pending.                                                   *)
CopyRefersToRightPixels ==
  Settled => \A p \in Area \ keeper.box.changed :
               Shown(keeper.box, picture, p) = backup[viewPort + p]

(* The sender's own frame buffer, from which a non-incremental request is  *)
(* answered, is stale only where the keeper still holds an update.         *)
FramebufferIsCurrent ==
  Settled => \A p \in Area \ (keeper.box.changed \cup keeper.box.copied) :
               framebuffer[p] = backup[viewPort + p]

(* Not kept by the code, which hands a size change out again and again:    *)
(* the keeper holds one only from a screen change that no sendUpdate took  *)
(* out yet: "In the next time call of this function no     *)
(* additional information about these changes will present"                *)
(* (UpdateHandler.h, of the extraction that hands out the change).         *)
SizeIsTakenOnce == keeper.box.size => resized
=============================================================================
