--------------------------- MODULE UpdateCropping ---------------------------
(***************************************************************************)
(* What UpdateSender::sendUpdate makes of an extracted container before it *)
(* is sent: the part the client requested, and the part that goes back to  *)
(* its keeper.                                                             *)
(***************************************************************************)
EXTENDS UpdateKeeper

CONSTANT CopyRectEnabled   (* the client's SetEncodings                     *)

ASSUME CroppingAssumption == CopyRectEnabled \in BOOLEAN

CopiesForgotten(box) == [box EXCEPT !.copied = {}]

CopiesDeclined(box) ==
  [box EXCEPT !.changed = @ \cup box.copied, !.copied = {}]

(* What there is to send: what changed, and all that was requested in      *)
(* full.                                                                   *)
Wanted(box, full) ==
  [IF CopyRectEnabled THEN box ELSE CopiesDeclined(box)
     EXCEPT !.changed = (@ \cup full) \cap Area]

(* inscribeCopiedRegionToReqRegion: a copy is sent only when its target    *)
(* and its source were both requested.                                     *)
Inscribed(box, requested) ==
  IF box.copied \cup Translate(box.copied, box.delta) \subseteq requested
  THEN box ELSE CopiesDeclined(box)

(* cropUpdContForReqRegions: what is sent now, and what goes back to the   *)
(* keeper.                                                                 *)
ToSend(box, requested) ==
  [Inscribed(box, requested) EXCEPT !.changed = @ \cap requested]

NothingGoesBack(box, requested) == {}

GoesBack(box, requested) == box.changed \ requested

(* What the client shows after an answer: the copy, then the pixels, which *)
(* are encoded from the sender's frame buffer fb.                          *)
Painted(box, shown, fb) ==
  [p \in Area |-> IF p \in box.changed THEN fb[p] ELSE Shown(box, shown, p)]
=============================================================================
