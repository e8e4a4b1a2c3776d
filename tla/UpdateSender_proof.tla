------------------------- MODULE UpdateSender_proof -------------------------
(***************************************************************************)
(* Theorems about UpdateSender: the types, and that no update is lost on   *)
(* its way to a client, whatever part of the screen its view port shows.   *)
(***************************************************************************)
EXTENDS UpdateSender, UpdateKeeper_proof

-----------------------------------------------------------------------------
(* What the desktop may hand over: a copy on the screen, or none.          *)
OnScreen(m) ==
  /\ m.delta \in Int
  /\ m.target \subseteq Screen /\ Translate(m.target, m.delta) \subseteq Screen

LEMMA EveryMoveIsOnScreen ==
  \A m \in Moves \cup {NoMove} : OnScreen(m)
BY SenderAssumption, AreaAssumption DEF OnScreen, NoMove, Translate

LEMMA TypeOKMeansKeeper == TypeOK => keeper \in Keepers /\ Corner \in Int
BY SenderAssumption, AreaAssumption DEF TypeOK, Keepers, Boxes, Corner

LEMMA ToClientType ==
  ASSUME TypeOK, NEW D \in SUBSET Screen, NEW T \in SUBSET Screen, NEW d \in Int,
         NEW s \in BOOLEAN
  PROVE  /\ ToClient(Container(D, T, d, s)) \in Containers
         /\ ToClient(Container(D, T, d, s)).changed = Translate(D, -Corner)
         /\ ToClient(Container(D, T, d, s)).copied = Translate(T, -Corner)
         /\ ToClient(Container(D, T, d, s)).delta = d
<1>1. -Corner \in Int /\ Corner \in Int
  BY TypeOKMeansKeeper
<1>2. D \in SUBSET Int /\ T \in SUBSET Int
  BY SenderAssumption, AreaAssumption
<1>3. Translate(D, -Corner) \in SUBSET Int /\ Translate(T, -Corner) \in SUBSET Int
  BY <1>1, <1>2, TranslateIsInt
<1> QED BY <1>3 DEF ToClient, Container, Containers

(* The container DesktopUpdate hands over, and the one of ScreenChange.    *)
LEMMA DesktopUpdateBox ==
  ASSUME TypeOK, NEW m, OnScreen(m), NEW grabbed \in [Screen -> Colors],
         DesktopUpdate(m, grabbed)
  PROVE  \E b \in Containers :
           /\ keeper' = AddUpdateContainer(keeper, b)
           /\ b.changed = Translate(IF absolute THEN Screen ELSE Differing(m, grabbed),
                                    -Corner)
           /\ b.copied = Translate(m.target, -Corner)
           /\ b.delta = m.delta
<1> DEFINE D == IF absolute THEN Screen ELSE Differing(m, grabbed)
           y == Container(D, m.target, m.delta, FALSE)
<1>1. D \in SUBSET Screen
  BY DEF Differing
<1>3. keeper' = AddUpdateContainer(keeper, ToClient(y))
  BY DEF DesktopUpdate, NewUpdates
<1>4. /\ ToClient(y) \in Containers
      /\ ToClient(y).changed = Translate(D, -Corner)
      /\ ToClient(y).copied = Translate(m.target, -Corner)
      /\ ToClient(y).delta = m.delta
  <2> HIDE DEF D
  <2>1. m.target \in SUBSET Screen /\ m.delta \in Int /\ FALSE \in BOOLEAN
    BY DEF OnScreen
  <2> QED BY <1>1, <2>1, ToClientType
<1> HIDE DEF y
<1> QED BY <1>3, <1>4

LEMMA ScreenChangeBox ==
  ASSUME TypeOK, NEW grabbed \in [Screen -> Colors], ScreenChange(grabbed)
  PROVE  \E b \in Containers : keeper' = AddUpdateContainer(keeper, b) /\ b.copied = {}
<1> DEFINE y == Container({}, {}, 0, TRUE)
<1>1. keeper' = AddUpdateContainer(keeper, ToClient(y))
  BY DEF ScreenChange, NewUpdates
<1>2. ToClient(y) \in Containers /\ ToClient(y).copied = {}
  <2>1. {} \in SUBSET Screen /\ 0 \in Int /\ TRUE \in BOOLEAN
    OBVIOUS
  <2>2. Translate({}, -Corner) = {}
    BY DEF Translate
  <2>3. ToClient(y) \in Containers /\ ToClient(y).copied = Translate({}, -Corner)
    BY <2>1, ToClientType
  <2> HIDE DEF y
  <2> QED BY <2>2, <2>3
<1> HIDE DEF y
<1> QED BY <1>1, <1>2
-----------------------------------------------------------------------------
TypeInv == TypeOK /\ SourceOnClient(keeper)

LEMMA NewUpdatesType ==
  ASSUME TypeInv, NEW b \in Containers, keeper' = AddUpdateContainer(keeper, b)
  PROVE  keeper' \in Keepers /\ SourceOnClient(keeper')
<1> DEFINE M == AddCopyRect(keeper, b.copied, b.delta)
<1>1. Area \subseteq Int /\ keeper \in Keepers
  BY SenderAssumption, AreaAssumption, TypeOKMeansKeeper DEF TypeInv
<1>2. b.copied \in SUBSET Int /\ b.delta \in Int
  BY DEF Containers
<1>3. SourceOnClient(M)
  BY <1>1, <1>2, AddCopyRectSource DEF TypeInv
<1>4. keeper' \in Keepers /\ keeper'.box.copied = M.box.copied
      /\ keeper'.box.delta = M.box.delta
  BY <1>1, AddUpdateContainerFields
<1> QED BY <1>3, <1>4 DEF SourceOnClient

(* What one sendUpdate does, in terms of the keeper it started from.       *)
Taken(corner) == IF corner # viewPort THEN ForNewViewPort(Extracted(keeper))
                                      ELSE Extracted(keeper)

SizeAnswer(corner, full) ==
  \/ Extracted(keeper).size \/ viewPort = NoViewPort
  \/ full # {} /\ ~DesktopSizeEnabled

LEMMA TakenFields ==
  ASSUME TypeInv, NEW corner
  PROVE  /\ Taken(corner) \in Boxes
         /\ Taken(corner).delta = keeper.box.delta
         /\ Taken(corner).copied = IF corner # viewPort THEN {} ELSE keeper.box.copied
         /\ Taken(corner).changed = IF corner # viewPort THEN Area ELSE keeper.box.changed
<1>1. /\ Extracted(keeper) \in Boxes
      /\ Extracted(keeper).changed = keeper.box.changed
      /\ Extracted(keeper).copied = keeper.box.copied
      /\ Extracted(keeper).delta = keeper.box.delta
  BY TypeOKMeansKeeper, ExtractedFields DEF TypeInv
<1> QED BY <1>1 DEF Taken, ForNewViewPort, Boxes

LEMMA SendUpdateKeeper ==
  ASSUME TypeInv, NEW incr, NEW full, NEW corner \in ViewPorts,
         SendUpdate(incr, full, corner)
  PROVE  /\ keeper' \in Keepers /\ keeper'.box.copied = {}
         /\ SizeAnswer(corner, full) \/ corner # viewPort => keeper'.box.changed = Area
         /\ ~SizeAnswer(corner, full) /\ corner = viewPort
              => keeper'.box.changed =
                   GoesBack(Wanted(Taken(corner), full), incr \cup full) \cap Area
<1> DEFINE kept == IF corner # viewPort
                   THEN SetCursorChanged(DazzleChangedReg(Emptied(keeper)))
                   ELSE Emptied(keeper)
           back == GoesBack(Wanted(Taken(corner), full), incr \cup full)
<1>1. Emptied(keeper) \in Keepers /\ Emptied(keeper).box.changed = {}
      /\ Emptied(keeper).box.copied = {}
  BY TypeOKMeansKeeper, ExtractedFields DEF TypeInv
<1>2. /\ kept \in Keepers /\ kept.box.copied = {}
      /\ kept.box.changed = IF corner # viewPort THEN Area ELSE {}
  <2>1. /\ SetCursorChanged(DazzleChangedReg(Emptied(keeper))) \in Keepers
        /\ SetCursorChanged(DazzleChangedReg(Emptied(keeper))).box.changed = Area
        /\ SetCursorChanged(DazzleChangedReg(Emptied(keeper))).box.copied = {}
    BY <1>1, DazzledFields
  <2> QED BY <1>1, <2>1
<1>3. keeper' = IF SizeAnswer(corner, full)
                THEN SetCursorChanged(DazzleChangedReg(kept))
                ELSE AddChangedRegion(kept, back)
  BY DEF SendUpdate, SendSize, SendPixels, SizeAnswer, Taken, Wanted
<1> HIDE DEF kept, back
<1>4. /\ SetCursorChanged(DazzleChangedReg(kept)) \in Keepers
      /\ SetCursorChanged(DazzleChangedReg(kept)).box.changed = Area
      /\ SetCursorChanged(DazzleChangedReg(kept)).box.copied = {}
  BY <1>2, DazzledFields
<1>5. /\ AddChangedRegion(kept, back) \in Keepers
      /\ AddChangedRegion(kept, back).box.changed = (kept.box.changed \cup back) \cap Area
      /\ AddChangedRegion(kept, back).box.copied = {}
  BY <1>2, AddChangedRegionFields
<1> QED BY <1>2, <1>3, <1>4, <1>5 DEF back

LEMMA RefreshedType ==
  ASSUME TypeInv, NEW x, NEW corner \in ViewPorts
  PROVE  Refreshed(x, corner) \in [Area -> Colors]
<1>1. \A p \in Area : corner + p \in Screen
  <2> TAKE p \in Area
  <2>1. p + corner \in Translate(Area, corner)
    BY DEF Translate
  <2>2. p \in Int /\ corner \in Int
    BY SenderAssumption, AreaAssumption
  <2>3. p + corner = corner + p
    BY <2>2
  <2> QED BY <2>1, <2>3, SenderAssumption, AreaAssumption
<1> QED BY <1>1, SenderAssumption, AreaAssumption DEF Refreshed, TypeInv, TypeOK

LEMMA PaintedType ==
  ASSUME TypeInv, NEW x, Translate(x.copied, x.delta) \subseteq Area,
         NEW fb \in [Area -> Colors]
  PROVE  Painted(x, picture, fb) \in [Area -> Colors]
<1>1. \A p \in x.copied : p + x.delta \in Area
  BY DEF Translate
<1> QED BY <1>1 DEF Painted, Shown, TypeInv, TypeOK

LEMMA SendUpdatePicture ==
  ASSUME TypeInv, NEW incr, NEW full, NEW corner \in ViewPorts,
         SendUpdate(incr, full, corner)
  PROVE  /\ framebuffer' = Refreshed(Extracted(keeper), corner)
         /\ ~SizeAnswer(corner, full)
              => picture' = Painted(ToSend(Wanted(Taken(corner), full), incr \cup full),
                                    picture, framebuffer')
         /\ picture' \in [Area -> Colors]
<1> DEFINE sent == ToSend(Wanted(Taken(corner), full), incr \cup full)
           fb == Refreshed(Extracted(keeper), corner)
<1>1. framebuffer' = fb
  BY DEF SendUpdate
<1>2. fb \in [Area -> Colors]
  BY RefreshedType
<1>3. ~SizeAnswer(corner, full) => picture' = Painted(sent, picture, fb)
  BY DEF SendUpdate, SendPixels, SizeAnswer, Taken, Wanted
<1>4. SizeAnswer(corner, full) => picture' \in [Area -> Colors]
  <2>1. SizeAnswer(corner, full)
          => picture' \in {picture, [p \in Area |-> Blank]} \/ picture' = fb
    BY DEF SendUpdate, SendSize, SizeAnswer
  <2> HIDE DEF fb
  <2> QED BY <1>2, <2>1, SenderAssumption, AreaAssumption DEF TypeInv, TypeOK
<1>5. Translate(sent.copied, sent.delta) \subseteq Area
  <2>1. Taken(corner) \in Boxes /\ Taken(corner).delta = keeper.box.delta
        /\ Taken(corner).copied \subseteq keeper.box.copied
    BY TakenFields
  <2> DEFINE w == Wanted(Taken(corner), full)
  <2>2. w \in Boxes /\ w.delta = keeper.box.delta /\ w.copied \subseteq keeper.box.copied
    BY <2>1, WantedFields
  <2>3. sent.delta = keeper.box.delta /\ sent.copied \subseteq keeper.box.copied
    <3> HIDE DEF w
    <3>1. ToSend(w, incr \cup full).delta = w.delta
          /\ ToSend(w, incr \cup full).copied \subseteq w.copied
      BY <2>2, ToSendFields
    <3> QED BY <2>2, <3>1 DEF w
  <2> HIDE DEF sent
  <2> QED BY <2>3 DEF TypeInv, SourceOnClient, Translate
<1> HIDE DEF sent, fb
<1>6. ~SizeAnswer(corner, full) => picture' \in [Area -> Colors]
  BY <1>2, <1>3, <1>5, PaintedType
<1> QED BY <1>1, <1>3, <1>4, <1>6 DEF sent, fb

-----------------------------------------------------------------------------
(* Every state has the types above, and a pending copy reads pixels the    *)
(* client has: sendUpdate never refers a client to a pixel off its screen. *)
THEOREM SenderTypes == Spec => []TypeInv
<1>1. Init => TypeInv
  <2> SUFFICES ASSUME Init PROVE TypeInv
    OBVIOUS
  <2>1. keeper.box.copied = {} /\ keeper \in Keepers
    BY DEF Init, NewKeeper, EmptyContainer, Container, Keepers, Boxes
  <2>2. SourceOnClient(keeper)
    BY <2>1 DEF SourceOnClient, Translate
  <2> QED BY <2>1, <2>2, SenderAssumption, AreaAssumption DEF Init, TypeInv, TypeOK, Keepers, Boxes
<1>2. TypeInv /\ [Next]_vars => TypeInv'
  <2> SUFFICES ASSUME TypeInv, [Next]_vars PROVE TypeInv'
    OBVIOUS
  <2>1. ASSUME NEW m \in Moves \cup {NoMove}, NEW grabbed \in [Screen -> Colors],
               DesktopUpdate(m, grabbed)
        PROVE  TypeInv'
    <3>1. PICK b \in Containers : keeper' = AddUpdateContainer(keeper, b)
      BY <2>1, EveryMoveIsOnScreen, DesktopUpdateBox DEF TypeInv
    <3>2. keeper' \in Keepers /\ SourceOnClient(keeper')
      BY <3>1, NewUpdatesType
    <3> QED BY <2>1, <3>2
            DEF DesktopUpdate, TypeInv, TypeOK, Keepers, Boxes, SourceOnClient
  <2>2. ASSUME NEW grabbed \in [Screen -> Colors], ScreenChange(grabbed)
        PROVE  TypeInv'
    <3>1. PICK b \in Containers : keeper' = AddUpdateContainer(keeper, b)
      BY <2>2, ScreenChangeBox DEF TypeInv
    <3>2. keeper' \in Keepers /\ SourceOnClient(keeper')
      BY <3>1, NewUpdatesType
    <3> QED BY <2>2, <3>2
            DEF ScreenChange, TypeInv, TypeOK, Keepers, Boxes, SourceOnClient
  <2>3. ASSUME NEW incr \in Requests \cup {{}}, NEW full \in Requests \cup {{}},
               NEW corner \in ViewPorts, SendUpdate(incr, full, corner)
        PROVE  TypeInv'
    <3>1. keeper' \in Keepers /\ keeper'.box.copied = {}
      BY <2>3, SendUpdateKeeper
    <3>2. framebuffer' \in [Area -> Colors] /\ picture' \in [Area -> Colors]
      <4>1. /\ framebuffer' = Refreshed(Extracted(keeper), corner)
            /\ picture' \in [Area -> Colors]
        BY <2>3, SendUpdatePicture
      <4> QED BY <4>1, RefreshedType
    <3>3. SourceOnClient(keeper')
      BY <3>1, NoCopyNoSource
    <3>4. /\ backup' = backup /\ absolute' = absolute
          /\ viewPort' = corner /\ resized' = FALSE
      BY <2>3 DEF SendUpdate
    <3> QED BY <3>1, <3>2, <3>3, <3>4 DEF TypeInv, TypeOK, SourceOnClient
  <2>4. CASE UNCHANGED vars
    BY <2>4 DEF vars, TypeInv, TypeOK, SourceOnClient
  <2> QED BY <2>1, <2>2, <2>3, <2>4 DEF Next
<1> QED BY <1>1, <1>2, PTL DEF Spec

(* Every state of a client's sender has the types of TypeOK. *)
THEOREM SenderTypeOK == Spec => []TypeOK
<1>1. TypeInv => TypeOK
  BY DEF TypeInv
<1> QED BY <1>1, SenderTypes, PTL

-----------------------------------------------------------------------------
(* Wherever a view port is, a move onto pixels the client sees has a source *)
(* that the client sees in part.  A client that shows the whole desktop     *)
(* sees every source; one that does not may lose a pixel without this, see  *)
(* the run SenderClip.                                                      *)
NoMoveVanishes ==
  \A v \in ViewPorts, m \in Moves :
    (\E p \in Area : v + p \in m.target) =>
      \E p \in Area : v + p \in m.target /\ p + m.delta \in Area

Seen(m) == \A v \in ViewPorts :
  (\E p \in Area : v + p \in m.target) =>
    \E p \in Area : v + p \in m.target /\ p + m.delta \in Area

LEMMA EveryMoveIsSeen ==
  NoMoveVanishes => \A m \in Moves \cup {NoMove} : Seen(m)
BY DEF NoMoveVanishes, Seen, NoMove

(* A pixel p of the client is the pixel v + p of the desktop. *)
LEMMA ViewPixels ==
  ASSUME NEW v \in ViewPorts, NEW R \in SUBSET Screen
  PROVE  /\ \A p \in Area : v + p \in Screen
         /\ \A p \in Area : p \in Translate(R, -v) <=> v + p \in R
<1>5. Screen \subseteq Int /\ ViewPorts \subseteq Int
  BY SenderAssumption
<1>1. Area \subseteq Int /\ v \in Int /\ R \in SUBSET Int /\ -v \in Int
  BY <1>5, AreaAssumption
<1>2. \A p \in Int : p \in Translate(R, -v) <=> p - (-v) \in R
  BY <1>1, TranslateIsInt
<1>3. \A p \in Int : p - (-v) = v + p /\ p + v = v + p
  BY <1>1
<1>4. \A p \in Area : p + v \in Screen
  BY SenderAssumption DEF Translate
<1> QED BY <1>1, <1>2, <1>3, <1>4

(* A container of the desktop as the client sees it, once a view port is   *)
(* set and no full update is due.                                          *)
LEMMA ContainerOnClient ==
  ASSUME TypeInv, Settled, NEW m, OnScreen(m), Seen(m),
         NEW grabbed \in [Screen -> Colors], DesktopUpdate(m, grabbed)
  PROVE  \E b \in Containers :
           /\ keeper' = AddUpdateContainer(keeper, b)
           /\ b.delta = m.delta
           /\ SourceIsSeen(b.copied, b.delta)
           /\ \A p \in Area : p \in b.copied <=> viewPort + p \in m.target
           /\ \A p \in Area \ b.changed :
                grabbed[viewPort + p] = Replayed(m)[viewPort + p]
<1>1. viewPort \in ViewPorts /\ Corner = viewPort /\ ~absolute
  BY DEF Settled, TypeInv, TypeOK, Corner
<1>2. PICK b \in Containers :
        /\ keeper' = AddUpdateContainer(keeper, b)
        /\ b.changed = Translate(Differing(m, grabbed), -viewPort)
        /\ b.copied = Translate(m.target, -viewPort)
        /\ b.delta = m.delta
  BY <1>1, DesktopUpdateBox DEF TypeInv
<1>3. m.target \in SUBSET Screen /\ Differing(m, grabbed) \in SUBSET Screen
  BY DEF OnScreen, Differing
<1>4. \A p \in Area : p \in b.copied <=> viewPort + p \in m.target
  BY <1>1, <1>2, <1>3, ViewPixels
<1>5. ASSUME NEW p \in Area \ b.changed
      PROVE  grabbed[viewPort + p] = Replayed(m)[viewPort + p]
  <2>1. viewPort + p \in Screen /\ viewPort + p \notin Differing(m, grabbed)
    BY <1>1, <1>2, <1>3, ViewPixels
  <2> QED BY <2>1 DEF Differing
<1>6. SourceIsSeen(b.copied, b.delta)
  BY <1>1, <1>2, <1>4 DEF SourceIsSeen, Seen
<1> QED BY <1>2, <1>4, <1>5, <1>6

(* A full update covers the client: everything waits to be repainted.      *)
LEMMA FullUpdateIsPending ==
  ASSUME TypeInv, absolute, viewPort # NoViewPort,
         NEW m, OnScreen(m), NEW grabbed \in [Screen -> Colors],
         DesktopUpdate(m, grabbed)
  PROVE  keeper'.box.changed = Area
<1>1. viewPort \in ViewPorts /\ Corner = viewPort
  BY DEF TypeInv, TypeOK, Corner
<1>2. PICK b \in Containers :
        /\ keeper' = AddUpdateContainer(keeper, b)
        /\ b.changed = Translate(Screen, -viewPort)
  BY <1>1, DesktopUpdateBox DEF TypeInv
<1>3. Area \subseteq b.changed
  BY <1>1, <1>2, ViewPixels
<1> DEFINE M == AddCopyRect(keeper, b.copied, b.delta)
<1>4. keeper'.box.changed = (M.box.changed \cup b.changed) \cap Area
  BY <1>2, AddUpdateContainerFields, TypeOKMeansKeeper, SenderAssumption, AreaAssumption DEF TypeInv
<1> QED BY <1>3, <1>4

-----------------------------------------------------------------------------
(* An answer that neither resizes nor follows a moved view port: what it    *)
(* does to the frame buffer the sender keeps.                               *)
LEMMA RefreshedIsCurrent ==
  ASSUME TypeInv, FramebufferIsCurrent, Settled, NEW p \in Area
  PROVE  Refreshed(Extracted(keeper), viewPort)[p] = backup[viewPort + p]
<1>1. /\ Extracted(keeper).changed = keeper.box.changed
      /\ Extracted(keeper).copied = keeper.box.copied
  BY TypeOKMeansKeeper, ExtractedFields DEF TypeInv
<1>2. viewPort # NoViewPort
  BY DEF Settled
<1> QED BY <1>1, <1>2 DEF Refreshed, FramebufferIsCurrent

(* The frame buffer stays current where nothing is pending. *)
LEMMA FramebufferStaysCurrent ==
  ASSUME TypeInv, NoMoveVanishes, FramebufferIsCurrent, [Next]_vars
  PROVE  FramebufferIsCurrent'
<1>1. ASSUME NEW m \in Moves \cup {NoMove}, NEW grabbed \in [Screen -> Colors],
             DesktopUpdate(m, grabbed)
      PROVE  FramebufferIsCurrent'
  <2>1. /\ backup' = grabbed /\ ~absolute'
        /\ viewPort' = viewPort /\ framebuffer' = framebuffer
    BY <1>1 DEF DesktopUpdate
  <2>2. CASE viewPort = NoViewPort
    BY <2>1, <2>2 DEF FramebufferIsCurrent, Settled
  <2>3. CASE viewPort # NoViewPort /\ absolute
    <3>1. keeper'.box.changed = Area
      BY <1>1, <2>3, EveryMoveIsOnScreen, FullUpdateIsPending
    <3> QED BY <3>1 DEF FramebufferIsCurrent
  <2>4. CASE Settled
    <3>1. PICK b \in Containers :
            /\ keeper' = AddUpdateContainer(keeper, b)
            /\ SourceIsSeen(b.copied, b.delta)
            /\ \A p \in Area : p \in b.copied <=> viewPort + p \in m.target
            /\ \A p \in Area \ b.changed :
                 grabbed[viewPort + p] = Replayed(m)[viewPort + p]
      BY <1>1, <2>4, EveryMoveIsOnScreen, EveryMoveIsSeen, ContainerOnClient
    <3>2. Pending(keeper) \cup (b.copied \cap Area) \cup (b.changed \cap Area) \subseteq Pending(keeper')
      BY <3>1, MergingKeepsPending, TypeOKMeansKeeper, SenderAssumption, AreaAssumption DEF TypeInv
    <3>3. ASSUME NEW p \in Area \ Pending(keeper')
          PROVE  framebuffer[p] = grabbed[viewPort + p]
      <4>1. /\ p \notin Pending(keeper) /\ p \notin b.copied /\ p \notin b.changed
        BY <3>2, <3>3
      <4>2. framebuffer[p] = backup[viewPort + p]
        BY <2>4, <4>1 DEF FramebufferIsCurrent, Pending
      <4>3. viewPort + p \in Screen
        BY <2>4, ViewPixels DEF Settled, TypeInv, TypeOK
      <4>4. Replayed(m)[viewPort + p] = backup[viewPort + p]
        BY <3>1, <4>1, <4>3 DEF Replayed
      <4> QED BY <3>1, <4>1, <4>2, <4>4
    <3> QED BY <2>1, <3>3 DEF FramebufferIsCurrent, Pending
  <2> QED BY <2>2, <2>3, <2>4 DEF Settled
<1>2. ASSUME NEW grabbed \in [Screen -> Colors], ScreenChange(grabbed)
      PROVE  FramebufferIsCurrent'
  BY <1>2 DEF ScreenChange, FramebufferIsCurrent, Settled
<1>3. ASSUME NEW incr, NEW full, NEW corner \in ViewPorts, SendUpdate(incr, full, corner)
      PROVE  FramebufferIsCurrent'
  <2>1. viewPort' = corner /\ backup' = backup /\ absolute' = absolute
    BY <1>3 DEF SendUpdate
  <2>2. CASE SizeAnswer(corner, full) \/ corner # viewPort
    <3>1. keeper'.box.changed = Area
      BY <1>3, <2>2, SendUpdateKeeper
    <3> QED BY <3>1 DEF FramebufferIsCurrent
  <2>3. CASE ~SizeAnswer(corner, full) /\ corner = viewPort /\ ~absolute
    <3>1. Settled
      BY <2>3 DEF SizeAnswer, Settled
    <3>2. framebuffer' = Refreshed(Extracted(keeper), viewPort)
      BY <1>3, <2>3, SendUpdatePicture
    <3> QED BY <2>1, <2>3, <3>1, <3>2, RefreshedIsCurrent DEF FramebufferIsCurrent
  <2>4. CASE absolute
    BY <2>1, <2>4 DEF FramebufferIsCurrent, Settled
  <2> QED BY <2>2, <2>3, <2>4
<1>4. CASE UNCHANGED vars
  BY <1>4 DEF vars, FramebufferIsCurrent, Settled
<1> QED BY <1>1, <1>2, <1>3, <1>4 DEF Next

(* The frame buffer a non-incremental request is answered from is current  *)
(* wherever the keeper holds no update, with copies or without.            *)
THEOREM SenderFramebufferIsCurrent ==
  ASSUME NoMoveVanishes
  PROVE  Spec => []FramebufferIsCurrent
<1>1. Init => FramebufferIsCurrent
  BY DEF Init, FramebufferIsCurrent, Settled
<1>2. FramebufferIsCurrent /\ TypeInv /\ [Next]_vars => FramebufferIsCurrent'
  BY FramebufferStaysCurrent
<1> QED BY <1>1, <1>2, SenderTypes, PTL DEF Spec

(* Copies are sent as pixels, or there are none. *)
NothingToCopy == ~CopyRectEnabled \/ Moves = {}

NothingCopied == CopyRectEnabled => keeper.box.copied = {}

LEMMA NothingIsCopied ==
  ASSUME NothingToCopy, TypeInv, NothingCopied, [Next]_vars
  PROVE  NothingCopied'
<1> SUFFICES ASSUME CopyRectEnabled PROVE keeper'.box.copied = {}
  BY DEF NothingCopied
<1>1. Moves = {} /\ keeper.box.copied = {}
  BY DEF NothingToCopy, NothingCopied
<1>2. ASSUME NEW b \in Containers, keeper' = AddUpdateContainer(keeper, b), b.copied = {}
      PROVE  keeper'.box.copied = {}
  <2>1. AddCopyRect(keeper, b.copied, b.delta) = keeper
    BY <1>2, TypeOKMeansKeeper, AddNoCopyRect DEF TypeInv, Containers
  <2> QED BY <1>1, <1>2, <2>1, TypeOKMeansKeeper, AddUpdateContainerFields DEF TypeInv
<1>3. ASSUME NEW m \in Moves \cup {NoMove}, NEW grabbed \in [Screen -> Colors],
             DesktopUpdate(m, grabbed)
      PROVE  keeper'.box.copied = {}
  <2>1. PICK b \in Containers :
          keeper' = AddUpdateContainer(keeper, b) /\ b.copied = Translate(m.target, -Corner)
    BY <1>3, EveryMoveIsOnScreen, DesktopUpdateBox DEF TypeInv
  <2>2. b.copied = {}
    BY <1>1, <2>1 DEF NoMove, Translate
  <2> QED BY <1>2, <2>1, <2>2
<1>4. ASSUME NEW grabbed \in [Screen -> Colors], ScreenChange(grabbed)
      PROVE  keeper'.box.copied = {}
  <2>1. PICK b \in Containers : keeper' = AddUpdateContainer(keeper, b) /\ b.copied = {}
    BY <1>4, ScreenChangeBox DEF TypeInv
  <2> QED BY <1>2, <2>1
<1>5. ASSUME NEW incr, NEW full, NEW corner \in ViewPorts, SendUpdate(incr, full, corner)
      PROVE  keeper'.box.copied = {}
  BY <1>5, SendUpdateKeeper
<1>6. CASE UNCHANGED vars
  BY <1>1, <1>6 DEF vars
<1> QED BY <1>3, <1>4, <1>5, <1>6 DEF Next

(* For every screen, every sequence of moves, requests and view ports, and *)
(* every way of merging containers: a client that is sent no copies shows  *)
(* the desktop's pixels wherever its keeper holds no update.               *)
THEOREM SenderLosesNoUpdate ==
  ASSUME NoMoveVanishes, NothingToCopy
  PROVE  Spec => []NoUpdateLost
<1>1. Init => FramebufferIsCurrent /\ NoUpdateLost /\ NothingCopied
  BY DEF Init, FramebufferIsCurrent, NoUpdateLost, Settled, NothingCopied, NewKeeper,
         EmptyContainer, Container
<1>2. TypeInv /\ FramebufferIsCurrent /\ NoUpdateLost /\ NothingCopied /\ [Next]_vars
        => NoUpdateLost'
  <2> SUFFICES ASSUME TypeInv, FramebufferIsCurrent, NoUpdateLost, NothingCopied, [Next]_vars
               PROVE  NoUpdateLost'
    OBVIOUS
  <2>1. ASSUME NEW m \in Moves \cup {NoMove}, NEW grabbed \in [Screen -> Colors],
               DesktopUpdate(m, grabbed)
        PROVE  NoUpdateLost'
    <3>1. /\ backup' = grabbed /\ ~absolute'
          /\ viewPort' = viewPort /\ picture' = picture
      BY <2>1 DEF DesktopUpdate
    <3>2. CASE viewPort = NoViewPort
      BY <3>1, <3>2 DEF NoUpdateLost, Settled
    <3>3. CASE viewPort # NoViewPort /\ absolute
      <4>1. keeper'.box.changed = Area
        BY <2>1, <3>3, EveryMoveIsOnScreen, FullUpdateIsPending
      <4> QED BY <4>1 DEF NoUpdateLost
    <3>4. CASE Settled
      <4>1. PICK b \in Containers :
              /\ keeper' = AddUpdateContainer(keeper, b)
              /\ SourceIsSeen(b.copied, b.delta)
              /\ \A p \in Area : p \in b.copied <=> viewPort + p \in m.target
              /\ \A p \in Area \ b.changed :
                   grabbed[viewPort + p] = Replayed(m)[viewPort + p]
        BY <2>1, <3>4, EveryMoveIsOnScreen, EveryMoveIsSeen, ContainerOnClient
      <4>2. Pending(keeper) \cup (b.copied \cap Area) \cup (b.changed \cap Area)
              \subseteq Pending(keeper')
        BY <4>1, MergingKeepsPending, TypeOKMeansKeeper, SenderAssumption, AreaAssumption DEF TypeInv
      <4>3. ASSUME NEW p \in Area \ Pending(keeper')
            PROVE  picture[p] = grabbed[viewPort + p]
        <5>1. p \notin Pending(keeper) /\ p \notin b.copied /\ p \notin b.changed
          BY <4>2, <4>3
        <5>2. picture[p] = backup[viewPort + p]
          BY <3>4, <5>1 DEF NoUpdateLost, Pending
        <5>3. viewPort + p \in Screen
          BY <3>4, ViewPixels DEF Settled, TypeInv, TypeOK
        <5>4. Replayed(m)[viewPort + p] = backup[viewPort + p]
          BY <4>1, <5>1, <5>3 DEF Replayed
        <5> QED BY <4>1, <5>1, <5>2, <5>4
      <4> QED BY <3>1, <4>3 DEF NoUpdateLost, Pending
    <3> QED BY <3>2, <3>3, <3>4 DEF Settled
  <2>2. ASSUME NEW grabbed \in [Screen -> Colors], ScreenChange(grabbed)
        PROVE  NoUpdateLost'
    BY <2>2 DEF ScreenChange, NoUpdateLost, Settled
  <2>3. ASSUME NEW incr, NEW full, NEW corner \in ViewPorts,
               SendUpdate(incr, full, corner)
        PROVE  NoUpdateLost'
    <3>1. viewPort' = corner /\ backup' = backup /\ absolute' = absolute
      BY <2>3 DEF SendUpdate
    <3>2. CASE SizeAnswer(corner, full) \/ corner # viewPort
      <4>1. keeper'.box.changed = Area
        BY <2>3, <3>2, SendUpdateKeeper
      <4> QED BY <4>1 DEF NoUpdateLost
    <3>3. CASE ~SizeAnswer(corner, full) /\ corner = viewPort /\ ~absolute
      <4> DEFINE w == Wanted(Taken(corner), full)
                 requested == incr \cup full
      <4>1. Settled
        BY <3>3 DEF SizeAnswer, Settled
      <4>2. /\ w \in Boxes /\ w.copied = {}
            /\ w.changed = (Pending(keeper) \cup full) \cap Area
        BY <3>3, TakenFields, WantedFields DEF Pending, NothingCopied
      <4>3. picture' = Painted(ToSend(w, requested), picture, framebuffer')
        BY <2>3, <3>3, SendUpdatePicture
      <4>4. /\ keeper'.box.changed = GoesBack(w, requested) \cap Area
            /\ keeper'.box.copied = {}
        BY <2>3, <3>3, SendUpdateKeeper
      <4>5. \A p \in Area : framebuffer'[p] = backup[viewPort + p]
        BY <2>3, <3>3, <4>1, SendUpdatePicture, RefreshedIsCurrent
      <4> HIDE DEF w
      <4>6. /\ ToSend(w, requested).copied = {}
            /\ ToSend(w, requested).changed = w.changed \cap requested
        BY <4>2, ToSendFields
      <4>7. ASSUME NEW p \in Area \ GoesBack(w, requested)
            PROVE  picture'[p] = backup[viewPort + p]
        <5>1. p \notin w.changed \/ p \in requested
          BY <4>7 DEF GoesBack
        <5>2. CASE p \in w.changed \cap requested
          BY <4>3, <4>5, <4>6, <5>2 DEF Painted
        <5>3. CASE p \notin w.changed
          <6>1. p \notin Pending(keeper)
            BY <4>2, <5>3
          <6>2. picture[p] = backup[viewPort + p]
            BY <4>1, <6>1 DEF NoUpdateLost, Pending
          <6>3. picture'[p] = picture[p]
            BY <4>3, <4>6, <5>3 DEF Painted, Shown
          <6> QED BY <6>2, <6>3
        <5> QED BY <5>1, <5>2, <5>3
      <4> QED BY <3>1, <3>3, <4>4, <4>7 DEF NoUpdateLost
    <3>4. CASE absolute
      BY <3>1, <3>4 DEF NoUpdateLost, Settled
    <3> QED BY <3>2, <3>3, <3>4
  <2>4. CASE UNCHANGED vars
    BY <2>4 DEF vars, NoUpdateLost, Settled
  <2> QED BY <2>1, <2>2, <2>3, <2>4 DEF Next
<1>3. FramebufferIsCurrent /\ TypeInv /\ [Next]_vars => FramebufferIsCurrent'
  BY FramebufferStaysCurrent
<1>4. NothingCopied /\ TypeInv /\ [Next]_vars => NothingCopied'
  BY NothingIsCopied
<1> QED BY <1>1, <1>2, <1>3, <1>4, SenderTypes, PTL DEF Spec

-----------------------------------------------------------------------------
(* Copies that do not overlap their source, requested by a client that     *)
(* always asks for the whole view.                                         *)
SourcesDisjoint == \A m \in Moves : m.target \cap Translate(m.target, m.delta) = {}
WholeRequests   == Requests \subseteq {Area}

(* What a client will show at p once the keeper's copy is applied: the     *)
(* desktop's new pixel, wherever no repaint is pending.                    *)
LEMMA MergedCopyIsRight ==
  ASSUME TypeInv, Settled, CopyRefersToRightPixels,
         NEW m, OnScreen(m), Seen(m), m.target \cap Translate(m.target, m.delta) = {},
         NEW grabbed \in [Screen -> Colors], DesktopUpdate(m, grabbed),
         NEW p \in Area \ keeper'.box.changed
  PROVE  Shown(keeper'.box, picture, p) = grabbed[viewPort + p]
<1> DEFINE c == keeper.box.changed
           d == m.delta
<1>1. PICK b \in Containers :
        /\ keeper' = AddUpdateContainer(keeper, b)
        /\ b.delta = d
        /\ SourceIsSeen(b.copied, b.delta)
        /\ \A q \in Area : q \in b.copied <=> viewPort + q \in m.target
        /\ \A q \in Area \ b.changed :
             grabbed[viewPort + q] = Replayed(m)[viewPort + q]
  BY ContainerOnClient
<1> DEFINE T == b.copied
           M == AddCopyRect(keeper, T, d)
           C == ClippedTarget(keeper, T, d)
           kept == AddChangedRegion(keeper, T \ C)
<1>2. keeper \in Keepers /\ Area \subseteq Int /\ d \in Int /\ viewPort \in Int
      /\ viewPort \in ViewPorts
  BY TypeOKMeansKeeper, SenderAssumption, AreaAssumption DEF TypeInv, TypeOK, Settled, OnScreen
<1>3. /\ keeper'.box.changed = (M.box.changed \cup b.changed) \cap Area
      /\ keeper'.box.copied = M.box.copied
      /\ keeper'.box.delta = M.box.delta
  BY <1>1, <1>2, AddUpdateContainerFields
<1>4. p \in Area /\ p \notin M.box.changed /\ p \notin b.changed
  <2> HIDE DEF M
  <2> QED BY <1>3
<1>5. Shown(keeper'.box, picture, p) = Shown(M.box, picture, p)
  BY <1>3 DEF Shown
<1>6. grabbed[viewPort + p] =
        IF p \in T THEN backup[(viewPort + p) + d] ELSE backup[viewPort + p]
  <2>1. viewPort + p \in Screen
    BY <1>2, <1>4, ViewPixels
  <2> QED BY <1>1, <1>4, <2>1 DEF Replayed
<1>7. \A q \in Area \ c : Shown(keeper.box, picture, q) = backup[viewPort + q]
  BY DEF CopyRefersToRightPixels
<1>11. C \in SUBSET Area /\ \A q \in Int : q \in C <=> q \in T \cap Area /\ q + d \in Area
  BY <1>2, ClippedTargetFields DEF Containers
<1>12. /\ kept \in Keepers /\ kept.box.copied = keeper.box.copied
       /\ kept.box.changed = (c \cup (T \ C)) \cap Area
  BY <1>2, AddChangedRegionFields
<1>13. M = IF C = {} THEN keeper ELSE IF keeper.box.copied # {} THEN GiveUpCopy(kept, T)
                                                          ELSE StartCopy(kept, C, d)
  BY DEF AddCopyRect
<1> HIDE DEF M, C, kept
<1>14. p \in Int /\ p + d \in Int
  <2> HIDE DEF d
  <2> QED BY <1>2, <1>4
<1>8. CASE C = {}
  <2>1. p \notin T
    BY <1>1, <1>2, <1>4, <1>8, <1>11 DEF SourceIsSeen
  <2> QED BY <1>4, <1>5, <1>6, <1>7, <1>8, <1>13, <2>1
<1>9. CASE C # {} /\ keeper.box.copied # {}
  <2>1. /\ M.box.changed = (Pending(kept) \cup T) \cap Area
        /\ M.box.copied = {}
    BY <1>9, <1>12, <1>13, GiveUpCopyFields
  <2>2. p \notin T /\ p \notin c /\ p \notin keeper.box.copied
    BY <1>4, <1>12, <2>1 DEF Pending
  <2> QED BY <1>4, <1>5, <1>6, <1>7, <2>1, <2>2 DEF Shown
<1>10. CASE C # {} /\ keeper.box.copied = {}
  <2> DEFINE r == kept.box.changed \ C
  <2>6. M = StartCopy(kept, C, d)
    BY <1>10, <1>12, <1>13
  <2>1. M.box.copied = C /\ M.box.delta = d
    <3> HIDE DEF d
    <3> QED BY <1>2, <1>11, <1>12, <2>6, StartCopyCopies
  <2>2. M.box.changed = (r \cup Translate(Translate(C, d) \cap r, -d)) \cap Area
    <3> HIDE DEF d
    <3> QED BY <1>2, <1>11, <1>12, <2>6, StartCopyRepaints
  <2>3. \A q \in Area \ c : picture[q] = backup[viewPort + q]
    BY <1>7, <1>10 DEF Shown
  <2>4. CASE p \notin C
    <3>1. p \notin c /\ p \notin T
      BY <1>4, <1>12, <2>2, <2>4
    <3> QED BY <1>4, <1>5, <1>6, <2>1, <2>3, <2>4, <3>1 DEF Shown
  <2>5. CASE p \in C
    <3>1. p \in T /\ p + d \in Area /\ p + d \in Translate(C, d)
      BY <1>11, <1>14, <2>5 DEF Translate
    <3>2. (p + d) + (-d) = p
      BY <1>2, <1>14
    <3>3. p + d \notin r
      <4> SUFFICES ASSUME p + d \in r PROVE FALSE
        OBVIOUS
      <4>1. p \in Translate(Translate(C, d) \cap r, -d)
        <5> HIDE DEF r
        <5> QED BY <3>1, <3>2 DEF Translate
      <4> QED BY <1>4, <2>2, <4>1
    <3>4. p + d \notin T
      <4>1. viewPort + p \in m.target
        BY <1>1, <1>4, <3>1
      <4>2. (viewPort + p) + d \in Translate(m.target, d)
        BY <4>1 DEF Translate
      <4>3. (viewPort + p) + d = viewPort + (p + d)
        BY <1>2, <1>14
      <4> QED BY <1>1, <3>1, <4>2, <4>3
    <3>5. p + d \notin c
      <4>1. p + d \notin C
        BY <1>11, <1>14, <3>4
      <4>2. p + d \notin kept.box.changed
        BY <3>3, <4>1
      <4> QED BY <1>12, <3>1, <4>2
    <3>6. picture[p + d] = backup[viewPort + (p + d)]
      BY <2>3, <3>1, <3>5
    <3>7. viewPort + (p + d) = (viewPort + p) + d
      BY <1>2, <1>14
    <3> QED BY <1>5, <1>6, <2>1, <2>5, <3>1, <3>6, <3>7 DEF Shown
  <2> QED BY <2>4, <2>5
<1> QED BY <1>8, <1>9, <1>10

(* A request of the whole view is answered with the desktop's pixels.      *)
LEMMA WholeAnswerIsRight ==
  ASSUME TypeInv, Settled, FramebufferIsCurrent, CopyRefersToRightPixels,
         NEW incr, NEW full, incr \cup full = Area,
         SendUpdate(incr, full, viewPort), ~SizeAnswer(viewPort, full),
         NEW p \in Area
  PROVE  picture'[p] = backup[viewPort + p]
<1> DEFINE w == Wanted(Taken(viewPort), full)
           sent == ToSend(w, Area)
<1>1. viewPort \in ViewPorts
  BY DEF Settled, TypeInv, TypeOK
<1>2. picture' = Painted(sent, picture, framebuffer')
  BY <1>1, SendUpdatePicture
<1>3. framebuffer'[p] = backup[viewPort + p]
  BY <1>1, SendUpdatePicture, RefreshedIsCurrent
<1>4. /\ w \in Boxes /\ w.delta = keeper.box.delta
      /\ w.copied = IF CopyRectEnabled THEN keeper.box.copied ELSE {}
      /\ w.changed = ((IF CopyRectEnabled THEN keeper.box.changed
                                          ELSE Pending(keeper)) \cup full) \cap Area
  BY TakenFields, WantedFields DEF Pending
<1>5. w.copied \cup Translate(w.copied, w.delta) \subseteq Area
  BY <1>4 DEF TypeInv, SourceOnClient, Translate, TypeOK, Keepers, Boxes
<1> HIDE DEF w
<1>6. /\ sent.copied = w.copied /\ sent.delta = w.delta
      /\ sent.changed = w.changed \cap Area
  BY <1>4, <1>5, ToSendFields
<1> HIDE DEF sent
<1>7. CASE p \in w.changed
  BY <1>2, <1>3, <1>6, <1>7 DEF Painted
<1>8. CASE p \notin w.changed
  <2>1. picture'[p] = Shown(sent, picture, p)
    BY <1>2, <1>6, <1>8 DEF Painted
  <2>2. p \notin keeper.box.changed /\ (~CopyRectEnabled => p \notin keeper.box.copied)
    BY <1>4, <1>8 DEF Pending
  <2>3. Shown(sent, picture, p) = Shown(keeper.box, picture, p)
    BY <1>4, <1>6, <2>2 DEF Shown
  <2> QED BY <2>1, <2>2, <2>3 DEF CopyRefersToRightPixels
<1> QED BY <1>7, <1>8

(* With CopyRect on, a client that asks for its whole view of a desktop    *)
(* whose moves never overlap their source: the keeper's copy, applied to   *)
(* what the client shows, always gives the desktop's pixels.               *)
THEOREM SenderCopiesRightPixels ==
  ASSUME NoMoveVanishes, SourcesDisjoint, WholeRequests
  PROVE  Spec => []CopyRefersToRightPixels
<1>1. Init => FramebufferIsCurrent /\ CopyRefersToRightPixels
  BY DEF Init, FramebufferIsCurrent, CopyRefersToRightPixels, Settled
<1>2. TypeInv /\ FramebufferIsCurrent /\ CopyRefersToRightPixels /\ [Next]_vars
        => CopyRefersToRightPixels'
  <2> SUFFICES ASSUME TypeInv, FramebufferIsCurrent, CopyRefersToRightPixels,
                      [Next]_vars
               PROVE  CopyRefersToRightPixels'
    OBVIOUS
  <2>1. ASSUME NEW m \in Moves \cup {NoMove}, NEW grabbed \in [Screen -> Colors],
               DesktopUpdate(m, grabbed)
        PROVE  CopyRefersToRightPixels'
    <3>1. /\ backup' = grabbed /\ ~absolute'
          /\ viewPort' = viewPort /\ picture' = picture
      BY <2>1 DEF DesktopUpdate
    <3>2. CASE viewPort = NoViewPort
      BY <3>1, <3>2 DEF CopyRefersToRightPixels, Settled
    <3>3. CASE viewPort # NoViewPort /\ absolute
      <4>1. keeper'.box.changed = Area
        BY <2>1, <3>3, EveryMoveIsOnScreen, FullUpdateIsPending
      <4> QED BY <4>1 DEF CopyRefersToRightPixels
    <3>4. CASE Settled
      <4>1. m.target \cap Translate(m.target, m.delta) = {}
        BY DEF SourcesDisjoint, NoMove
      <4>2. \A p \in Area \ keeper'.box.changed :
              Shown(keeper'.box, picture, p) = grabbed[viewPort + p]
        BY <2>1, <3>4, <4>1, EveryMoveIsOnScreen, EveryMoveIsSeen, MergedCopyIsRight
      <4> QED BY <3>1, <4>2 DEF CopyRefersToRightPixels
    <3> QED BY <3>2, <3>3, <3>4 DEF Settled
  <2>2. ASSUME NEW grabbed \in [Screen -> Colors], ScreenChange(grabbed)
        PROVE  CopyRefersToRightPixels'
    BY <2>2 DEF ScreenChange, CopyRefersToRightPixels, Settled
  <2>3. ASSUME NEW incr, NEW full, incr \cup full = Area,
               NEW corner \in ViewPorts, SendUpdate(incr, full, corner)
        PROVE  CopyRefersToRightPixels'
    <3>1. viewPort' = corner /\ backup' = backup /\ absolute' = absolute
      BY <2>3 DEF SendUpdate
    <3>2. CASE SizeAnswer(corner, full) \/ corner # viewPort
      <4>1. keeper'.box.changed = Area
        BY <2>3, <3>2, SendUpdateKeeper
      <4> QED BY <4>1 DEF CopyRefersToRightPixels
    <3>3. CASE ~SizeAnswer(corner, full) /\ corner = viewPort /\ ~absolute
      <4>1. Settled
        BY <3>3 DEF SizeAnswer, Settled
      <4>3. \A p \in Area : picture'[p] = backup[viewPort + p]
        BY <2>3, <3>3, <4>1, WholeAnswerIsRight
      <4>4. keeper'.box.copied = {}
        BY <2>3, SendUpdateKeeper
      <4> QED BY <3>1, <3>3, <4>3, <4>4 DEF CopyRefersToRightPixels, Shown
    <3>4. CASE absolute
      BY <3>1, <3>4 DEF CopyRefersToRightPixels, Settled
    <3> QED BY <3>2, <3>3, <3>4
  <2>4. CASE UNCHANGED vars
    BY <2>4 DEF vars, CopyRefersToRightPixels, Settled
  <2>5. \A incr, full \in Requests \cup {{}}, corner \in ViewPorts :
          SendUpdate(incr, full, corner) => incr \cup full = Area
    BY DEF WholeRequests, SendUpdate
  <2> QED BY <2>1, <2>2, <2>3, <2>4, <2>5 DEF Next
<1>3. FramebufferIsCurrent /\ TypeInv /\ [Next]_vars => FramebufferIsCurrent'
  BY FramebufferStaysCurrent
<1> QED BY <1>1, <1>2, <1>3, SenderTypes, PTL DEF Spec
=============================================================================
