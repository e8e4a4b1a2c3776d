---------------------------- MODULE UpdateKeeper ----------------------------
(***************************************************************************)
(* UpdateKeeper and UpdateContainer (remoting_rfb/desktop): what a keeper  *)
(* accumulates between two extractions.  The operations are pure: each     *)
(* takes the keeper's record and returns the new one, because each runs    *)
(* under m_criticalsectionUpdateContainer.                                 *)
(*                                                                         *)
(* A screen is one row of pixels: a pixel is an integer, a Region a set of *)
(* pixels and a rectangle an interval.  The rows and the columns of the    *)
(* code's rectangles are clipped, translated and compared independently of *)
(* each other, by the same statements written twice.  m_pointCopySource is *)
(* kept as delta, the source's corner minus the target's: the copied       *)
(* region is one rectangle, and every clip of it moves both corners alike. *)
(***************************************************************************)
EXTENDS Integers

CONSTANT Area       (* the pixels of a keeper's border                        *)

ASSUME AreaAssumption == Area \subseteq Int

Translate(region, d) == {p + d : p \in region}

(* An UpdateContainer; cursor stands for m_bCursorPosChanged or            *)
(* m_bCursorShapeChanged, which every operation below only ever raises.    *)
Container(changed, copied, delta, size) ==
  [changed |-> changed, copied |-> copied, delta |-> delta, size |-> size,
   cursor  |-> FALSE]

EmptyContainer == Container({}, {}, 0, FALSE)

(* The containers whose regions were cropped, and the keepers.             *)
Boxes == [changed : SUBSET Area, copied : SUBSET Area, delta : Int,
          size : BOOLEAN, cursor : BOOLEAN]

Keepers == [box : Boxes, border : {Area}]

(* A keeper is a container and the border its regions are cropped to.      *)
NewKeeper(border) == [box |-> EmptyContainer, border |-> border]

ContainerIsEmpty(box) ==
  /\ box.copied = {} /\ box.changed = {}
  /\ ~box.size /\ ~box.cursor

-----------------------------------------------------------------------------
AddChangedRegionUncropped(keeper, region) ==
  [keeper EXCEPT !.box.changed = @ \cup region]

AddChangedRegion(keeper, region) ==
  [keeper EXCEPT !.box.changed = (@ \cup region) \cap keeper.border]

DazzleForgotten(keeper) == keeper

DazzleChangedReg(keeper) == AddChangedRegion(keeper, keeper.border)

(* The part of a copy's target that survives clipping: first the target is *)
(* clipped to the border, then the source that belongs to the rest.        *)
ClippedTarget(keeper, target, d) ==
  Translate(Translate(target \cap keeper.border, d) \cap keeper.border, -d)

(* addCopyRect when nothing is copied yet: the target is copied, what was  *)
(* to be repainted in the source is to be repainted in the target too.     *)
StartCopy(keeper, clipped, d) ==
  LET repaint == keeper.box.changed \ clipped
      addon   == Translate(Translate(clipped, d) \cap repaint, -d)
  IN  [keeper EXCEPT !.box.changed = (repaint \cup addon) \cap keeper.border,
                     !.box.copied  = clipped \cap keeper.border,
                     !.box.delta   = d]

(* ... and when a copy is already kept: both become repaints.              *)
GiveUpCopy(keeper, target) ==
  AddChangedRegion(
    [keeper EXCEPT !.box.changed = @ \cup keeper.box.copied, !.box.copied = {}],
    target)

AddCopyRectForgetsPending(keeper, target, d) ==
  LET clipped == ClippedTarget(keeper, target, d) IN
  IF clipped = {} THEN keeper
  ELSE IF keeper.box.copied # {} THEN GiveUpCopy(keeper, target)
  ELSE [AddChangedRegion(keeper, target \ clipped) EXCEPT
          !.box.changed = @ \ clipped, !.box.copied = clipped, !.box.delta = d]

AddCopyRect(keeper, target, d) ==
  LET clipped == ClippedTarget(keeper, target, d)
      kept    == AddChangedRegion(keeper, target \ clipped)
  IN  IF clipped = {} THEN keeper
      ELSE IF keeper.box.copied # {} THEN GiveUpCopy(kept, target)
      ELSE StartCopy(kept, clipped, d)

SetScreenSizeChanged(keeper) == [keeper EXCEPT !.box.size = TRUE]
SetCursorChanged(keeper)     == [keeper EXCEPT !.box.cursor = TRUE]

(* setCursorPos is called whatever the container says, so the cursor flag  *)
(* is raised by every container.                                           *)
AddUpdateContainer(keeper, box) ==
  LET merged == AddChangedRegion(
                  AddCopyRect(keeper, box.copied, box.delta), box.changed)
  IN  SetCursorChanged(
        IF box.size THEN SetScreenSizeChanged(merged) ELSE merged)

-----------------------------------------------------------------------------
CheckForUpdates(keeper, region) ==
  \/ keeper.box.cursor \/ keeper.box.size
  \/ (keeper.box.changed \cup keeper.box.copied) \cap region # {}

Crop(box, border) ==
  [box EXCEPT !.changed = @ \cap border, !.copied = @ \cap border]

(* extract() hands out the cropped container and moves its regions out of  *)
(* the keeper; the flags are copied and stay raised.                       *)
Extracted(keeper)    == Crop(keeper.box, keeper.border)

EmptiedWithFlags(keeper) ==
  [keeper EXCEPT !.box.changed = {}, !.box.copied = {},
                 !.box.size = FALSE, !.box.cursor = FALSE]

Emptied(keeper) ==
  [keeper EXCEPT !.box.changed = {}, !.box.copied = {}]

(***************************************************************************)
(* What a screen shows once the updates of a container are applied to it,  *)
(* where nothing is repainted: copying comes before painting.              *)
(***************************************************************************)
Shown(box, picture, p) ==
  IF p \in box.copied THEN picture[p + box.delta] ELSE picture[p]
=============================================================================
