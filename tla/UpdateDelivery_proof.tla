------------------------ MODULE UpdateDelivery_proof ------------------------
(***************************************************************************)
(* Theorems about UpdateDelivery: the types, the bookkeeping of requests   *)
(* and of busy clients, and that no interleaving of the threads loses an   *)
(* update of a client without CopyRect.                                    *)
(***************************************************************************)
EXTENDS UpdateDelivery, UpdateKeeper_proof

(* A copy that was handed over reads pixels of the screen. *)
SourceInArea(box) == Translate(box.copied, box.delta) \subseteq Area

Sources ==
  /\ SourceOnClient(detected) /\ SourceInArea(out)
  /\ \A c \in Clients : SourceOnClient(keeper[c]) /\ SourceInArea(sender[c].box)

TypeInv == TypeOK /\ Sources

-----------------------------------------------------------------------------
LEMMA EmptyContainerType ==
  /\ EmptyContainer \in Boxes /\ SourceInArea(EmptyContainer)
  /\ EmptyContainer.changed = {} /\ EmptyContainer.copied = {}
BY DEF EmptyContainer, Container, Boxes, SourceInArea, Translate

LEMMA NewKeeperType ==
  /\ NewKeeper(Area) \in Keepers /\ SourceOnClient(NewKeeper(Area))
  /\ SetCursorChanged(NewKeeper(Area)) \in Keepers
  /\ SourceOnClient(SetCursorChanged(NewKeeper(Area)))
<1> DEFINE k == NewKeeper(Area)
<1>1. k \in Keepers /\ k.box.copied = {}
  BY EmptyContainerType DEF NewKeeper, Keepers
<1> HIDE DEF k
<1>2. SetCursorChanged(k) \in Keepers /\ SetCursorChanged(k).box.copied = {}
  BY <1>1 DEF SetCursorChanged, Keepers, Boxes
<1>3. SourceOnClient(k) /\ SourceOnClient(SetCursorChanged(k))
  BY <1>1, <1>2, NoCopyNoSource
<1> QED BY <1>1, <1>2, <1>3 DEF k

LEMMA MoveIsOnScreen ==
  \A m \in Moves \cup {NoMove} :
    /\ m.target \in SUBSET Area /\ m.delta \in Int
    /\ Translate(m.target, m.delta) \subseteq Area
BY DeliveryAssumption DEF NoMove, Translate

LEMMA CopiedType ==
  ASSUME NEW pixels \in [Area -> Colors], NEW m, Translate(m.target, m.delta) \subseteq Area
  PROVE  Copied(pixels, m) \in [Area -> Colors]
<1>1. \A p \in m.target : p + m.delta \in Area
  BY DEF Translate
<1> QED BY <1>1 DEF Copied

LEMMA AddChangedRegionSource ==
  ASSUME NEW k \in Keepers, SourceOnClient(k), NEW R
  PROVE  SourceOnClient(AddChangedRegion(k, R))
BY AddChangedRegionFields DEF SourceOnClient

(* What is taken out of a keeper, and what is left.                        *)
LEMMA ExtractedType ==
  ASSUME NEW k \in Keepers, SourceOnClient(k)
  PROVE  /\ Extracted(k) \in Boxes /\ SourceInArea(Extracted(k))
         /\ Emptied(k) \in Keepers /\ SourceOnClient(Emptied(k))
<1>1. /\ Extracted(k) \in Boxes
      /\ Extracted(k).copied = k.box.copied /\ Extracted(k).delta = k.box.delta
      /\ Emptied(k) \in Keepers /\ Emptied(k).box.copied = {}
  BY ExtractedFields
<1>2. SourceOnClient(Emptied(k))
  BY <1>1, NoCopyNoSource
<1> QED BY <1>1, <1>2 DEF SourceInArea, SourceOnClient

LEMMA MergedType ==
  ASSUME NEW k \in Keepers, SourceOnClient(k), NEW b \in Boxes
  PROVE  /\ AddUpdateContainer(k, b) \in Keepers
         /\ SourceOnClient(AddUpdateContainer(k, b))
<1> DEFINE M == AddCopyRect(k, b.copied, b.delta)
<1>1. b \in Containers /\ b.copied \in SUBSET Int /\ b.delta \in Int
  BY AreaAssumption DEF Boxes, Containers
<1>2. /\ AddUpdateContainer(k, b) \in Keepers
      /\ AddUpdateContainer(k, b).box.copied = M.box.copied
      /\ AddUpdateContainer(k, b).box.delta = M.box.delta
  BY <1>1, AddUpdateContainerFields
<1>3. SourceOnClient(M)
  BY <1>1, AddCopyRectSource
<1> HIDE DEF M
<1> QED BY <1>2, <1>3 DEF SourceOnClient
-----------------------------------------------------------------------------
LEMMA InitTypes == Init => TypeInv
<1> SUFFICES ASSUME Init PROVE TypeInv
  OBVIOUS
<1>1. ScreenTypes
  BY DeliveryAssumption, NewKeeperType DEF Init, ScreenTypes
<1>2. DesktopTypes
  BY DeliveryAssumption, EmptyContainerType DEF Init, DesktopTypes
<1>3. ClientTypes
  BY DeliveryAssumption, EmptyContainerType, NewKeeperType
  DEF Init, ClientTypes, NoRequest, AskedRegions
<1>4. Sources
  BY EmptyContainerType, NewKeeperType DEF Init, Sources
<1> QED BY <1>1, <1>2, <1>3, <1>4 DEF TypeInv, TypeOK

(* The screen and the poller's thread.                                     *)
LEMMA ScreenStepTypes ==
  ASSUME TypeInv, Draw \/ MoveWindow \/ Poller
  PROVE  TypeInv'
<1>1. DesktopTypes' /\ ClientTypes' /\ out' = out /\ keeper' = keeper /\ sender' = sender
  BY DEF Draw, MoveWindow, ScreenShows, Poller, Poll, OnUpdate, TypeInv, TypeOK,
         DesktopTypes, ClientTypes, desktopVars, clientVars
<1>2. screen.pixels \in [Area -> Colors]
  BY DEF TypeInv, TypeOK, ScreenTypes
<1>3. screen'.pixels \in [Area -> Colors] /\ screen'.changes \in 0..MaxChanges
      /\ move' \in Moves \cup {NoMove}
  <2>1. CASE Draw
    BY <2>1, DeliveryAssumption DEF Draw, ScreenShows, TypeInv, TypeOK, ScreenTypes
  <2>2. CASE MoveWindow
    <3>1. PICK m \in Moves : move' = m /\ ScreenShows(Copied(screen.pixels, m))
      BY <2>2 DEF MoveWindow
    <3>2. Copied(screen.pixels, m) \in [Area -> Colors]
      BY <1>2, <3>1, MoveIsOnScreen, CopiedType
    <3> QED BY <3>1, <3>2, DeliveryAssumption DEF ScreenShows, TypeInv, TypeOK, ScreenTypes
  <2>3. CASE Poller
    BY <2>3 DEF Poller, Poll, OnUpdate, TypeInv, TypeOK, ScreenTypes, screenVars
  <2> QED BY <2>1, <2>2, <2>3
<1>4. detected' \in Keepers /\ SourceOnClient(detected')
      /\ poller' \in {"polling", "notifying"}
  <2>1. detected \in Keepers /\ SourceOnClient(detected) /\ poller \in {"polling", "notifying"}
    BY DEF TypeInv, TypeOK, ScreenTypes, Sources
  <2>2. CASE Poll
    <3>1. PICK R : detected' = AddChangedRegion(detected, R)
      BY <2>2 DEF Poll
    <3> QED BY <2>1, <2>2, <3>1, AddChangedRegionFields, AddChangedRegionSource DEF Poll
  <2>3. CASE Draw \/ MoveWindow \/ OnUpdate
    BY <2>1, <2>3 DEF Draw, MoveWindow, ScreenShows, OnUpdate, detectVars
  <2> QED BY <2>2, <2>3 DEF Poller
<1> QED BY <1>1, <1>3, <1>4 DEF TypeInv, TypeOK, ScreenTypes, Sources

(* The desktop's thread.                                                   *)
LEMMA DesktopStepTypes ==
  ASSUME TypeInv, Desktop
  PROVE  TypeInv'
<1> USE DEF TypeInv, TypeOK, Sources
<1>1. CASE WakeDesktop \/ OnSendUpdate \/ ClearFullReq \/ \E c \in Clients : IsReadyToSend(c)
  BY <1>1, EmptyContainerType
  DEF WakeDesktop, OnSendUpdate, ClearFullReq, IsReadyToSend, ScreenTypes, DesktopTypes,
      ClientTypes, screenVars, detectVars, clientVars
<1>2. CASE SetFullUpdateRequested
  <2>1. detected' \in Keepers /\ SourceOnClient(detected')
    BY <1>2, AddChangedRegionFields, AddChangedRegionSource
    DEF SetFullUpdateRequested, ScreenTypes
  <2> QED BY <1>2, <2>1 DEF SetFullUpdateRequested, ScreenTypes, DesktopTypes,
             ClientTypes, screenVars, clientVars
<1>3. CASE Extract
  <2> DEFINE kept == AddCopyRect(detected, move.target, move.delta)
  <2>1. kept \in Keepers /\ SourceOnClient(kept)
    <3>1. /\ detected \in Keepers /\ SourceOnClient(detected)
          /\ move.target \in SUBSET Int /\ move.delta \in Int
      BY MoveIsOnScreen, AreaAssumption DEF ScreenTypes
    <3> QED BY <3>1, AddCopyRectType, AddCopyRectSource
  <2>2. out' = Extracted(kept) /\ detected' = Emptied(kept)
    BY <1>3 DEF Extract
  <2> HIDE DEF kept
  <2>3. /\ out' \in Boxes /\ SourceInArea(out')
        /\ detected' \in Keepers /\ SourceOnClient(detected')
    BY <2>1, <2>2, ExtractedType
  <2> QED BY <1>3, <2>3 DEF Extract, ScreenTypes, DesktopTypes, ClientTypes, clientVars
<1>4. CASE Filter
  <2> DEFINE replayed == Copied(backup, [target |-> out.copied, delta |-> out.delta])
             changed == {p \in out.changed \cup out.copied :
                           replayed[p] # screen.pixels[p]}
  <2>1. replayed \in [Area -> Colors]
    BY CopiedType DEF DesktopTypes, SourceInArea
  <2>2. /\ \/ /\ out' = [out EXCEPT !.changed = changed]
              /\ backup' = [p \in Area |->
                              IF p \in changed THEN screen.pixels[p] ELSE replayed[p]]
           \/ out' = out /\ backup' = replayed
        /\ desktop' = "filtered"
        /\ UNCHANGED <<screenVars, detectVars, fullReq, newUpdate, todo, current, clientVars>>
    BY <1>4 DEF Filter
  <2>3. changed \in SUBSET Area /\ out \in Boxes
    BY DEF DesktopTypes, Boxes
  <2> HIDE DEF replayed, changed
  <2>4. backup' \in [Area -> Colors]
    BY <2>1, <2>2 DEF ScreenTypes
  <2>5. out' \in Boxes /\ out'.copied = out.copied /\ out'.delta = out.delta
    BY <2>2, <2>3 DEF Boxes
  <2>6. ScreenTypes' /\ ClientTypes'
    BY <2>2 DEF ScreenTypes, ClientTypes, screenVars, detectVars, clientVars
  <2>7. DesktopTypes'
    BY <2>2, <2>4, <2>5 DEF DesktopTypes
  <2>8. Sources'
    BY <2>2, <2>5 DEF SourceInArea, detectVars, clientVars
  <2> QED BY <2>6, <2>7, <2>8
<1>5. ASSUME NEW c \in Clients, MergeUpdates(c)
      PROVE  TypeInv'
  <2>1. keeper[c] \in Keepers /\ SourceOnClient(keeper[c]) /\ out \in Boxes
    BY DEF ClientTypes, DesktopTypes
  <2>2. /\ AddUpdateContainer(keeper[c], out) \in Keepers
        /\ SourceOnClient(AddUpdateContainer(keeper[c], out))
    BY <2>1, MergedType
  <2>3. keeper' = [keeper EXCEPT ![c] = AddUpdateContainer(keeper[c], out)]
    BY <1>5 DEF MergeUpdates
  <2>4. /\ keeper' \in [Clients -> Keepers]
        /\ \A d \in Clients : SourceOnClient(keeper'[d])
    BY <2>2, <2>3 DEF ClientTypes
  <2> QED BY <1>5, <2>4
          DEF MergeUpdates, ScreenTypes, DesktopTypes, ClientTypes, screenVars, detectVars
<1>6. ASSUME NEW c \in Clients, WakeSender(c)
      PROVE  TypeInv'
  BY <1>6 DEF WakeSender, ScreenTypes, DesktopTypes, ClientTypes, screenVars, detectVars
<1> QED BY <1>1, <1>2, <1>3, <1>4, <1>5, <1>6 DEF Desktop

(* A client's threads leave the screen and the desktop's thread alone, but *)
(* for the request the reader passes on.                                   *)
ClientStep(c) ==
  Client(c) \/ Reader(c) \/ Sender(c) \/ SenderFails(c)

LEMMA ClientStepOthers ==
  ASSUME TypeInv, NEW c \in Clients, ClientStep(c)
  PROVE  /\ ScreenTypes' /\ DesktopTypes'
         /\ detected' = detected /\ out' = out /\ backup' = backup
         /\ desktop' = desktop /\ todo' = todo /\ current' = current
<1> USE DEF TypeInv, TypeOK, ScreenTypes, DesktopTypes, screenVars, detectVars
<1>1. CASE OnUpdateRequest(c)
  BY <1>1 DEF OnUpdateRequest, ClientTypes
<1>2. CASE \/ AlreadyHasUpdates(c) \/ WaitNewUpdates(c) \/ BecomeBusy(c)
           \/ ExtractReqRegions(c) \/ ExtractUpdates(c) \/ UpdateFramebuffer(c)
           \/ SendUpdate(c) \/ BecomeReady(c) \/ SenderFails(c)
  <2>1. UNCHANGED <<screenVars, detectVars, desktopVars>>
    BY <1>2 DEF AlreadyHasUpdates, WaitNewUpdates, BecomeBusy, ExtractReqRegions,
                ExtractUpdates, UpdateFramebuffer, SendUpdate, BecomeReady, SenderFails
  <2> QED BY <2>1 DEF desktopVars
<1>3. CASE Client(c)
  <2>1. UNCHANGED <<screenVars, detectVars, desktopVars>>
    BY <1>3 DEF Client, ReadUpdateRequest
  <2> QED BY <2>1 DEF desktopVars
<1> QED BY <1>1, <1>2, <1>3 DEF ClientStep, Reader, Sender

Places == {"waiting", "woken", "sending", "requested", "extracted", "refreshed",
           "done", "dead"}

LEMMA SenderMovesType ==
  ASSUME TypeInv, NEW c \in Clients, NEW from, NEW to \in Places, SenderAt(c, from, to)
  PROVE  /\ sender' \in [Clients -> [at : Places, taken : AskedRegions, box : Boxes]]
         /\ \A d \in Clients : sender'[d].box = sender[d].box
BY DEF SenderAt, TypeInv, TypeOK, ClientTypes, Places

LEMMA ClientStepTypes ==
  ASSUME TypeInv, NEW c \in Clients, ClientStep(c)
  PROVE  TypeInv'
<1>1. /\ ScreenTypes' /\ DesktopTypes'
      /\ detected' = detected /\ out' = out
  BY ClientStepOthers
<1>2. SUFFICES /\ ClientTypes'
               /\ \A d \in Clients :
                    SourceOnClient(keeper'[d]) /\ SourceInArea(sender'[d].box)
  BY <1>1 DEF TypeInv, TypeOK, Sources
<1> USE DEF TypeInv, TypeOK, Sources, ClientTypes
<1>3. ASSUME NEW request \in Requests, ReadUpdateRequest(c, request)
      PROVE  ClientTypes' /\ keeper' = keeper /\ sender' = sender
  <2> DEFINE added == IF request.incremental
               THEN [asked[c] EXCEPT !.incr = @ \cup request.region, !.incrIs = TRUE]
               ELSE [asked[c] EXCEPT !.full = @ \cup request.region, !.fullIs = TRUE]
             full == IF request.incremental THEN {} ELSE request.region
             now == IF request.incremental /\ awaiting[c] # "answer"
                    THEN "change" ELSE "answer"
  <2>1. request.region \in SUBSET Int
    BY DeliveryAssumption
  <2>2. added \in AskedRegions /\ full \in SUBSET Int
    <3>1. asked[c] \in AskedRegions
      OBVIOUS
    <3>2. /\ [asked[c] EXCEPT !.incr = @ \cup request.region, !.incrIs = TRUE] \in AskedRegions
          /\ [asked[c] EXCEPT !.full = @ \cup request.region, !.fullIs = TRUE] \in AskedRegions
      BY <2>1, <3>1 DEF AskedRegions
    <3> QED BY <2>1, <3>2
  <2>3. added.incr \cup added.full \in SUBSET Int
    <3> HIDE DEF added
    <3> QED BY <2>2 DEF AskedRegions
  <2>4. /\ asked' = [asked EXCEPT ![c] = added]
        /\ reader' = [reader EXCEPT ![c] =
                        [at |-> "checking", combined |-> added.incr \cup added.full,
                         full |-> full]]
        /\ awaiting' = [awaiting EXCEPT ![c] = now]
        /\ UNCHANGED <<busy, newUpdates, keeper, sender, framebuffer, picture>>
    BY <1>3 DEF ReadUpdateRequest
  <2>5. now \in {"nothing", "change", "answer"}
    OBVIOUS
  <2> HIDE DEF added, full, now
  <2> QED BY <2>2, <2>3, <2>4, <2>5
<1>4. CASE Reader(c)
  <2>1. CASE AlreadyHasUpdates(c)
    <3>1. newUpdates' \in [Clients -> BOOLEAN]
      BY <2>1 DEF AlreadyHasUpdates
    <3>2. /\ reader' = [reader EXCEPT ![c].at = "notifying"]
          /\ UNCHANGED <<asked, busy, keeper, sender, framebuffer, picture, awaiting>>
      BY <2>1 DEF AlreadyHasUpdates
    <3>3. reader' \in [Clients -> [at : {"reading", "checking", "notifying"},
                                   combined : SUBSET Int, full : SUBSET Int]]
      <4> DEFINE now == [reader[c] EXCEPT !.at = "notifying"]
      <4>0. reader[c] \in [at : {"reading", "checking", "notifying"},
                           combined : SUBSET Int, full : SUBSET Int]
        OBVIOUS
      <4>1. now \in [at : {"reading", "checking", "notifying"},
                     combined : SUBSET Int, full : SUBSET Int]
        BY <4>0
      <4>2. reader' = [reader EXCEPT ![c] = now]
        BY <3>2
      <4> HIDE DEF now
      <4> QED BY <4>1, <4>2
    <3> QED BY <3>1, <3>2, <3>3
  <2>2. CASE OnUpdateRequest(c)
    BY <2>2 DEF OnUpdateRequest
  <2> QED BY <1>4, <2>1, <2>2 DEF Reader
<1>5. CASE WaitNewUpdates(c) \/ BecomeBusy(c) \/ BecomeReady(c) \/ SenderFails(c)
  <2>1. PICK to \in Places : \E from : SenderAt(c, from, to)
    BY <1>5 DEF WaitNewUpdates, BecomeBusy, BecomeReady, SenderFails, Places
  <2>2. /\ sender' \in [Clients -> [at : Places, taken : AskedRegions, box : Boxes]]
        /\ \A d \in Clients : sender'[d].box = sender[d].box
    BY <2>1, SenderMovesType
  <2> QED BY <1>5, <2>2
          DEF WaitNewUpdates, BecomeBusy, BecomeReady, SenderFails, Places
<1>6. CASE ExtractReqRegions(c)
  <2>1. NoRequest \in AskedRegions
    BY DEF NoRequest, AskedRegions
  <2>2. asked[c] \in AskedRegions
    OBVIOUS
  <2> QED BY <1>6, <2>1, <2>2, EmptyContainerType DEF ExtractReqRegions
<1>7. CASE ExtractUpdates(c)
  <2>1. /\ Extracted(keeper[c]) \in Boxes /\ SourceInArea(Extracted(keeper[c]))
        /\ Emptied(keeper[c]) \in Keepers /\ SourceOnClient(Emptied(keeper[c]))
    BY ExtractedType
  <2>2. /\ sender' = [sender EXCEPT ![c].at = "extracted", ![c].box = Extracted(keeper[c])]
        /\ keeper' = [keeper EXCEPT ![c] = Emptied(keeper[c])]
        /\ UNCHANGED <<asked, busy, newUpdates, reader, framebuffer, picture, awaiting>>
    BY <1>7 DEF ExtractUpdates
  <2>3. /\ keeper' \in [Clients -> Keepers]
        /\ \A d \in Clients : SourceOnClient(keeper'[d])
    BY <2>1, <2>2
  <2>4. /\ sender' \in [Clients -> [at : Places, taken : AskedRegions, box : Boxes]]
        /\ \A d \in Clients : SourceInArea(sender'[d].box)
    <3> DEFINE now == [sender[c] EXCEPT !.at = "extracted", !.box = Extracted(keeper[c])]
    <3>1. sender' = [sender EXCEPT ![c] = now]
      BY <2>2
    <3>2. /\ now \in [at : Places, taken : AskedRegions, box : Boxes]
          /\ now.box = Extracted(keeper[c])
      BY <2>1 DEF Places
    <3> HIDE DEF now
    <3> QED BY <2>1, <3>1, <3>2 DEF Places
  <2> QED BY <2>2, <2>3, <2>4 DEF Places
<1>8. CASE UpdateFramebuffer(c)
  <2>1. /\ sender' \in [Clients -> [at : Places, taken : AskedRegions, box : Boxes]]
        /\ \A d \in Clients : sender'[d].box = sender[d].box
    BY <1>8, SenderMovesType DEF UpdateFramebuffer, Places
  <2>2. framebuffer' \in [Clients -> [Area -> Colors]]
    BY <1>8 DEF UpdateFramebuffer, DesktopTypes
  <2> QED BY <1>8, <2>1, <2>2 DEF UpdateFramebuffer, Places
<1>9. CASE SendUpdate(c)
  <2> DEFINE taken  == sender[c].taken
             wanted == Wanted(sender[c].box, taken.full)
             sent   == ToSend(wanted, taken.incr \cup taken.full)
             back   == GoesBack(wanted, taken.incr \cup taken.full)
  <2>1. /\ taken \in AskedRegions /\ sender[c].box \in Boxes
        /\ SourceInArea(sender[c].box)
        /\ asked[c] \in AskedRegions /\ keeper[c] \in Keepers
        /\ SourceOnClient(keeper[c])
        /\ framebuffer[c] \in [Area -> Colors] /\ picture[c] \in [Area -> Colors]
    OBVIOUS
  <2>2. /\ sender' = [sender EXCEPT ![c] = [at |-> "done", taken |-> NoRequest,
                                            box |-> EmptyContainer]]
        /\ keeper' = [keeper EXCEPT ![c] = AddChangedRegion(keeper[c], back)]
        /\ \/ /\ picture' = [picture EXCEPT ![c] =
                                Painted(sent, picture[c], framebuffer[c])]
              /\ awaiting' = [awaiting EXCEPT ![c] = "nothing"]
              /\ asked' = asked
           \/ /\ asked' = [asked EXCEPT ![c] = Restored(asked[c], taken)]
              /\ UNCHANGED <<picture, awaiting>>
        /\ UNCHANGED <<busy, newUpdates, reader, framebuffer>>
    BY <1>9 DEF SendUpdate
  <2>3. Restored(asked[c], taken) \in AskedRegions /\ NoRequest \in AskedRegions
    BY <2>1 DEF Restored, AskedRegions, NoRequest
  <2>4. Painted(sent, picture[c], framebuffer[c]) \in [Area -> Colors]
    <3>1. wanted \in Boxes /\ wanted.delta = sender[c].box.delta
          /\ wanted.copied \subseteq sender[c].box.copied
      BY <2>1, WantedFields
    <3>2. sent.delta = wanted.delta /\ sent.copied \subseteq wanted.copied
      <4> HIDE DEF wanted
      <4> QED BY <3>1, ToSendFields
    <3> HIDE DEF sent, wanted
    <3>3. \A p \in sent.copied : p + sent.delta \in Area
      BY <2>1, <3>1, <3>2 DEF SourceInArea, Translate
    <3> QED BY <2>1, <3>3 DEF Painted, Shown
  <2> HIDE DEF sent, back
  <2>5. /\ keeper' \in [Clients -> Keepers]
        /\ \A d \in Clients : SourceOnClient(keeper'[d])
    <3>1. /\ AddChangedRegion(keeper[c], back) \in Keepers
          /\ SourceOnClient(AddChangedRegion(keeper[c], back))
      BY <2>1, AddChangedRegionFields, AddChangedRegionSource
    <3> QED BY <2>2, <3>1
  <2>6. /\ sender' \in [Clients -> [at : Places, taken : AskedRegions, box : Boxes]]
        /\ \A d \in Clients : SourceInArea(sender'[d].box)
    <3> DEFINE now == [at |-> "done", taken |-> NoRequest, box |-> EmptyContainer]
    <3>1. /\ now \in [at : Places, taken : AskedRegions, box : Boxes]
          /\ now.box = EmptyContainer
      BY <2>3, EmptyContainerType DEF Places
    <3>2. sender' = [sender EXCEPT ![c] = now]
      BY <2>2
    <3>3. sender \in [Clients -> [at : Places, taken : AskedRegions, box : Boxes]]
      BY DEF Places
    <3> HIDE DEF now
    <3>4. /\ sender'[c] = now
          /\ \A d \in Clients \ {c} : sender'[d] = sender[d]
      BY <3>2, <3>3
    <3> QED BY <3>1, <3>2, <3>3, <3>4, EmptyContainerType
  <2>7. asked' \in [Clients -> AskedRegions]
    <3> HIDE DEF taken
    <3> QED BY <2>2, <2>3
  <2>8. picture' \in [Clients -> [Area -> Colors]]
        /\ awaiting' \in [Clients -> {"nothing", "change", "answer"}]
    <3> DEFINE shown == Painted(sent, picture[c], framebuffer[c])
    <3>1. /\ picture' \in {picture, [picture EXCEPT ![c] = shown]}
          /\ awaiting' \in {awaiting, [awaiting EXCEPT ![c] = "nothing"]}
      BY <2>2
    <3>2. shown \in [Area -> Colors]
      BY <2>4
    <3> HIDE DEF shown
    <3>3. picture \in [Clients -> [Area -> Colors]]
          /\ awaiting \in [Clients -> {"nothing", "change", "answer"}]
      OBVIOUS
    <3>4. [picture EXCEPT ![c] = shown] \in [Clients -> [Area -> Colors]]
      BY <3>2, <3>3
    <3>5. [awaiting EXCEPT ![c] = "nothing"] \in [Clients -> {"nothing", "change", "answer"}]
      BY <3>3
    <3> QED BY <3>1, <3>3, <3>4, <3>5
  <2>9. UNCHANGED <<busy, newUpdates, reader, framebuffer>>
    BY <2>2
  <2> QED BY <2>5, <2>6, <2>7, <2>8, <2>9 DEF Places
<1> QED BY <1>3, <1>4, <1>5, <1>6, <1>7, <1>8, <1>9
        DEF ClientStep, Client, Sender

(* Every state has the types of TypeOK, and a copy that is on its way      *)
(* reads pixels of the screen.                                             *)
THEOREM DeliveryTypes == Spec => []TypeInv
<1>1. TypeInv /\ [Next]_vars => TypeInv'
  <2> SUFFICES ASSUME TypeInv, [Next]_vars PROVE TypeInv'
    OBVIOUS
  <2>1. CASE Draw \/ MoveWindow \/ Poller
    BY <2>1, ScreenStepTypes
  <2>2. CASE Desktop
    BY <2>2, DesktopStepTypes
  <2>3. CASE \E c \in Clients : ClientStep(c)
    BY <2>3, ClientStepTypes
  <2>4. CASE UNCHANGED vars
    BY <2>4 DEF vars, screenVars, desktopVars, detectVars, clientVars, TypeInv, TypeOK,
                ScreenTypes, DesktopTypes, ClientTypes, Sources
  <2> QED BY <2>1, <2>2, <2>3, <2>4 DEF Next, ClientStep
<1> QED BY <1>1, InitTypes, PTL DEF Spec

(* Every state of the threads has the types of TypeOK. *)
THEOREM DeliveryTypeOK == Spec => []TypeOK
<1>1. TypeInv => TypeOK
  BY DEF TypeInv
<1> QED BY <1>1, DeliveryTypes, PTL

-----------------------------------------------------------------------------
(* What a step of one client's threads leaves to the others.               *)
LEMMA OtherClientsKeep ==
  ASSUME TypeInv, NEW c \in Clients, ClientStep(c), NEW d \in Clients, d # c
  PROVE  /\ asked'[d] = asked[d] /\ busy'[d] = busy[d] /\ newUpdates'[d] = newUpdates[d]
         /\ keeper'[d] = keeper[d] /\ sender'[d] = sender[d] /\ reader'[d] = reader[d]
         /\ framebuffer'[d] = framebuffer[d] /\ picture'[d] = picture[d]
<1> USE DEF TypeInv, TypeOK, ClientTypes
<1>1. CASE Client(c)
  BY <1>1 DEF Client, ReadUpdateRequest
<1>2. CASE Reader(c)
  BY <1>2 DEF Reader, AlreadyHasUpdates, OnUpdateRequest
<1>3. CASE WaitNewUpdates(c) \/ BecomeBusy(c) \/ BecomeReady(c) \/ SenderFails(c)
  BY <1>3 DEF WaitNewUpdates, BecomeBusy, BecomeReady, SenderFails, SenderAt
<1>4. CASE ExtractReqRegions(c)
  BY <1>4 DEF ExtractReqRegions
<1>5. CASE ExtractUpdates(c)
  BY <1>5 DEF ExtractUpdates
<1>6. CASE UpdateFramebuffer(c)
  BY <1>6 DEF UpdateFramebuffer, SenderAt
<1>7. CASE SendUpdate(c)
  BY <1>7 DEF SendUpdate
<1> QED BY <1>1, <1>2, <1>3, <1>4, <1>5, <1>6, <1>7 DEF ClientStep, Sender

(* The screen, the poller and the desktop touch a client's keeper, and its *)
(* busy flag and its event together.                                       *)
LEMMA DesktopKeeps ==
  ASSUME TypeInv, Draw \/ MoveWindow \/ Poller \/ Desktop
  PROVE  /\ UNCHANGED <<asked, sender, framebuffer, picture>>
         /\ \A d \in Clients : \/ busy'[d] = busy[d] /\ newUpdates'[d] = newUpdates[d]
                               \/ newUpdates'[d]
<1>1. CASE Draw \/ MoveWindow \/ Poller
  BY <1>1 DEF Draw, MoveWindow, ScreenShows, Poller, Poll, OnUpdate, clientVars
<1>2. CASE \/ WakeDesktop \/ SetFullUpdateRequested \/ Extract \/ Filter \/ OnSendUpdate
           \/ ClearFullReq \/ \E c \in Clients : IsReadyToSend(c)
  <2>1. UNCHANGED clientVars
    BY <1>2 DEF WakeDesktop, SetFullUpdateRequested, Extract, Filter, OnSendUpdate,
                ClearFullReq, IsReadyToSend
  <2> QED BY <2>1 DEF clientVars
<1>3. CASE \E c \in Clients : MergeUpdates(c)
  BY <1>3 DEF MergeUpdates
<1>4. CASE \E c \in Clients : WakeSender(c)
  BY <1>4 DEF WakeSender, TypeInv, TypeOK, ClientTypes
<1> QED BY <1>1, <1>2, <1>3, <1>4 DEF Desktop

-----------------------------------------------------------------------------
(* The flags of a request, while its sender holds it. *)
TakenFlagged ==
  \A c \in Clients : sender[c].at \in {"requested", "extracted", "refreshed"} =>
                       sender[c].taken.incrIs \/ sender[c].taken.fullIs

(* No request is forgotten: the regions a client requested and was not     *)
(* sent are always accompanied by a flag, so both isReadyToSend and        *)
(* sendUpdate look at them.                                                *)
THEOREM DeliveryKeepsFlags == Spec => []RequestsKeepTheirFlag
<1> DEFINE Inv == RequestsKeepTheirFlag /\ TakenFlagged
<1>1. Init => Inv
  BY DEF Init, RequestsKeepTheirFlag, TakenFlagged, NoRequest
<1>2. TypeInv /\ Inv /\ [Next]_vars => Inv'
  <2> SUFFICES ASSUME TypeInv, RequestsKeepTheirFlag, TakenFlagged, [Next]_vars
               PROVE  RequestsKeepTheirFlag' /\ TakenFlagged'
    OBVIOUS
  <2>1. CASE Draw \/ MoveWindow \/ Poller \/ Desktop
    BY <2>1, DesktopKeeps DEF RequestsKeepTheirFlag, TakenFlagged
  <2>2. ASSUME NEW c \in Clients, ClientStep(c)
        PROVE  RequestsKeepTheirFlag' /\ TakenFlagged'
    <3>1. SUFFICES /\ asked'[c].incr \cup asked'[c].full # {} =>
                        asked'[c].incrIs \/ asked'[c].fullIs
                   /\ sender'[c].at \in {"requested", "extracted", "refreshed"} =>
                        sender'[c].taken.incrIs \/ sender'[c].taken.fullIs
      BY <2>2, OtherClientsKeep DEF RequestsKeepTheirFlag, TakenFlagged
    <3>2. /\ asked[c].incr \cup asked[c].full # {} => asked[c].incrIs \/ asked[c].fullIs
          /\ sender[c].at \in {"requested", "extracted", "refreshed"} =>
               sender[c].taken.incrIs \/ sender[c].taken.fullIs
      BY DEF RequestsKeepTheirFlag, TakenFlagged
    <3>3. /\ asked \in [Clients -> AskedRegions]
          /\ sender \in [Clients -> [at : Places, taken : AskedRegions, box : Boxes]]
      BY DEF TypeInv, TypeOK, ClientTypes, Places
    <3>4. CASE Client(c)
      BY <3>2, <3>3, <3>4 DEF Client, ReadUpdateRequest, AskedRegions
    <3>5. CASE Reader(c)
      BY <3>2, <3>5 DEF Reader, AlreadyHasUpdates, OnUpdateRequest
    <3>6. CASE WaitNewUpdates(c) \/ BecomeBusy(c) \/ BecomeReady(c) \/ SenderFails(c)
      BY <3>2, <3>3, <3>6 DEF WaitNewUpdates, BecomeBusy, BecomeReady, SenderFails, SenderAt
    <3>7. CASE ExtractReqRegions(c)
      BY <3>3, <3>7 DEF ExtractReqRegions, NoRequest
    <3>8. CASE ExtractUpdates(c)
      BY <3>2, <3>3, <3>8 DEF ExtractUpdates
    <3>9. CASE UpdateFramebuffer(c)
      BY <3>2, <3>3, <3>9 DEF UpdateFramebuffer, SenderAt
    <3>10. CASE SendUpdate(c)
      <4>1. /\ sender[c].at = "refreshed" /\ sender'[c].at = "done"
            /\ asked'[c] \in {asked[c], Restored(asked[c], sender[c].taken)}
        BY <3>3, <3>10 DEF SendUpdate
      <4> QED BY <3>2, <4>1 DEF Restored
    <3> QED BY <2>2, <3>4, <3>5, <3>6, <3>7, <3>8, <3>9, <3>10 DEF ClientStep, Sender
  <2>3. CASE UNCHANGED vars
    BY <2>3 DEF vars, clientVars, RequestsKeepTheirFlag, TakenFlagged
  <2> QED BY <2>1, <2>2, <2>3 DEF Next, ClientStep
<1> QED BY <1>1, <1>2, DeliveryTypes, PTL DEF Spec

-----------------------------------------------------------------------------
(* A client that is marked busy has a sender that runs, or that an event   *)
(* is about to wake: the mark never outlives the work it stands for.       *)
THEOREM DeliveryBusyMeansRunning == Spec => []BusyMeansRunning
<1>1. Init => BusyMeansRunning
  <2> SUFFICES ASSUME Init, NEW c \in Clients, busy[c]
               PROVE  sender[c].at # "waiting"
    BY DEF BusyMeansRunning
  <2>1. busy[c] = (c \in Failed)
    BY DEF Init
  <2>2. sender[c].at = IF c \in Failed THEN "dead" ELSE "waiting"
    BY DEF Init
  <2> QED BY <2>1, <2>2
<1>2. TypeInv /\ BusyMeansRunning /\ [Next]_vars => BusyMeansRunning'
  <2> SUFFICES ASSUME TypeInv, BusyMeansRunning, [Next]_vars
               PROVE  BusyMeansRunning'
    OBVIOUS
  <2>1. CASE Draw \/ MoveWindow \/ Poller \/ Desktop
    BY <2>1, DesktopKeeps DEF BusyMeansRunning
  <2>2. ASSUME NEW c \in Clients, ClientStep(c)
        PROVE  BusyMeansRunning'
    <3>1. SUFFICES busy'[c] => newUpdates'[c] \/ sender'[c].at # "waiting"
      BY <2>2, OtherClientsKeep DEF BusyMeansRunning
    <3>2. busy[c] => newUpdates[c] \/ sender[c].at # "waiting"
      BY DEF BusyMeansRunning
    <3>3. /\ busy \in [Clients -> BOOLEAN] /\ newUpdates \in [Clients -> BOOLEAN]
          /\ sender \in [Clients -> [at : Places, taken : AskedRegions, box : Boxes]]
      BY DEF TypeInv, TypeOK, ClientTypes, Places
    <3>4. CASE Client(c) \/ Reader(c)
      BY <3>2, <3>3, <3>4
      DEF Client, ReadUpdateRequest, Reader, AlreadyHasUpdates, OnUpdateRequest
    <3>5. CASE WaitNewUpdates(c) \/ BecomeBusy(c) \/ BecomeReady(c) \/ SenderFails(c)
      BY <3>2, <3>3, <3>5 DEF WaitNewUpdates, BecomeBusy, BecomeReady, SenderFails, SenderAt
    <3>6. CASE \/ ExtractReqRegions(c) \/ ExtractUpdates(c) \/ UpdateFramebuffer(c)
               \/ SendUpdate(c)
      <4>1. sender'[c].at \in {"requested", "extracted", "refreshed", "done"}
        BY <3>3, <3>6
        DEF ExtractReqRegions, ExtractUpdates, UpdateFramebuffer, SendUpdate, SenderAt
      <4> QED BY <4>1
    <3> QED BY <2>2, <3>4, <3>5, <3>6 DEF ClientStep, Sender
  <2>3. CASE UNCHANGED vars
    BY <2>3 DEF vars, clientVars, BusyMeansRunning
  <2> QED BY <2>1, <2>2, <2>3 DEF Next, ClientStep
<1> QED BY <1>1, <1>2, DeliveryTypes, PTL DEF Spec

-----------------------------------------------------------------------------
(* What NobodySleepsOnUpdates rests on: the flag of a keeper is never      *)
(* lowered, so that a reader always wakes its sender; and what the reader  *)
(* or the desktop adds behind a running sender's back rouses it again.     *)
SleepsOnNothing(c) ==
  ~Roused(c) =>
    /\ sender[c].at \in {"waiting", "done"} =>
         asked[c].full \cap Area = {} /\ asked[c].incr \cap Pending(keeper[c]) = {}
    /\ sender[c].at \in {"requested", "extracted", "refreshed"} =>
         asked[c].incr \cup asked[c].full = {}
    /\ sender[c].at \in {"extracted", "refreshed"} => Pending(keeper[c]) = {}

SleepInv == \A c \in Clients : keeper[c].box.cursor /\ SleepsOnNothing(c)

LEMMA CursorStays ==
  ASSUME NEW k \in Keepers, k.box.cursor, NEW R
  PROVE  AddChangedRegion(k, R).box.cursor /\ Emptied(k).box.cursor
BY DEF AddChangedRegion, Emptied, Keepers, Boxes

LEMMA CursorIsRaised ==
  ASSUME NEW k \in Keepers, SourceOnClient(k), NEW b \in Boxes
  PROVE  AddUpdateContainer(k, b).box.cursor
<1> DEFINE M == AddCopyRect(k, b.copied, b.delta)
           N == AddChangedRegion(M, b.changed)
           S == IF b.size THEN SetScreenSizeChanged(N) ELSE N
<1>1. b \in Containers
  BY AreaAssumption DEF Boxes, Containers
<1>2. M \in Keepers
  BY <1>1, AddUpdateContainerFields
<1>3. N \in Keepers
  BY <1>2, AddChangedRegionFields
<1> HIDE DEF N
<1>4. S \in Keepers
  BY <1>3 DEF SetScreenSizeChanged, Keepers, Boxes
<1>5. AddUpdateContainer(k, b) = SetCursorChanged(S)
  BY DEF AddUpdateContainer, N
<1> HIDE DEF S
<1> QED BY <1>4, <1>5 DEF SetCursorChanged, Keepers, Boxes

LEMMA DesktopRouses ==
  ASSUME TypeInv, SleepInv, Draw \/ MoveWindow \/ Poller \/ Desktop
  PROVE  SleepInv'
<1>1. ASSUME UNCHANGED clientVars, desktop # "waking", desktop' # "waking"
      PROVE  SleepInv'
  BY <1>1 DEF SleepInv, SleepsOnNothing, Roused, clientVars
<1>2. CASE Draw \/ MoveWindow \/ Poller
  <2>1. UNCHANGED clientVars /\ UNCHANGED <<desktop, current>>
    BY <1>2 DEF Draw, MoveWindow, ScreenShows, Poller, Poll, OnUpdate, desktopVars
  <2> QED BY <2>1 DEF SleepInv, SleepsOnNothing, Roused, clientVars
<1>3. CASE \/ WakeDesktop \/ SetFullUpdateRequested \/ Extract \/ Filter \/ OnSendUpdate
           \/ ClearFullReq \/ \E c \in Clients : IsReadyToSend(c)
  <2>1. /\ UNCHANGED clientVars
        /\ desktop # "waking" /\ desktop' # "waking"
    BY <1>3 DEF WakeDesktop, SetFullUpdateRequested, Extract, Filter, OnSendUpdate,
                ClearFullReq, IsReadyToSend
  <2> QED BY <1>1, <2>1
<1>4. ASSUME NEW c \in Clients, MergeUpdates(c)
      PROVE  SleepInv'
  <2>1. /\ desktop = "merging" /\ desktop' = "waking" /\ current' = c
        /\ keeper' = [keeper EXCEPT ![c] = AddUpdateContainer(@, out)]
        /\ UNCHANGED <<asked, newUpdates, reader, sender>>
    BY <1>4 DEF MergeUpdates
  <2>2. keeper \in [Clients -> Keepers] /\ SourceOnClient(keeper[c]) /\ out \in Boxes
    BY DEF TypeInv, TypeOK, ClientTypes, DesktopTypes, Sources
  <2>3. /\ keeper'[c].box.cursor
        /\ \A d \in Clients \ {c} : keeper'[d] = keeper[d]
    BY <2>1, <2>2, CursorIsRaised
  <2>4. Roused(c)'
    BY <2>1 DEF Roused
  <2> QED BY <2>1, <2>3, <2>4 DEF SleepInv, SleepsOnNothing, Roused
<1>5. ASSUME NEW c \in Clients, WakeSender(c)
      PROVE  SleepInv'
  <2>1. /\ current = c /\ desktop' # "waking"
        /\ newUpdates' = [newUpdates EXCEPT ![c] = TRUE]
        /\ UNCHANGED <<asked, keeper, reader, sender>>
    BY <1>5 DEF WakeSender
  <2>2. /\ newUpdates'[c]
        /\ \A d \in Clients \ {c} : newUpdates'[d] = newUpdates[d]
    BY <2>1 DEF TypeInv, TypeOK, ClientTypes
  <2> QED BY <2>1, <2>2 DEF SleepInv, SleepsOnNothing, Roused
<1> QED BY <1>2, <1>3, <1>4, <1>5 DEF Desktop

(* The steps of c's own threads that leave its keeper alone.               *)
LEMMA ClientRouses ==
  ASSUME TypeInv, NEW c \in Clients, keeper[c].box.cursor, SleepsOnNothing(c),
         \/ Client(c) \/ Reader(c) \/ WaitNewUpdates(c) \/ BecomeBusy(c)
         \/ ExtractReqRegions(c) \/ UpdateFramebuffer(c) \/ BecomeReady(c) \/ SenderFails(c)
  PROVE  keeper'[c].box.cursor /\ SleepsOnNothing(c)'
<1>1. /\ asked \in [Clients -> AskedRegions] /\ newUpdates \in [Clients -> BOOLEAN]
      /\ reader \in [Clients -> [at : {"reading", "checking", "notifying"},
                                 combined : SUBSET Int, full : SUBSET Int]]
      /\ sender \in [Clients -> [at : Places, taken : AskedRegions, box : Boxes]]
  BY DEF TypeInv, TypeOK, ClientTypes, Places
<1>2. UNCHANGED <<desktop, current>>
  BY ClientStepOthers DEF ClientStep, Sender
<1>3. UNCHANGED keeper
  BY DEF Client, ReadUpdateRequest, Reader, AlreadyHasUpdates, OnUpdateRequest, WaitNewUpdates,
         BecomeBusy, ExtractReqRegions, UpdateFramebuffer, BecomeReady, SenderFails
<1>4. CASE Client(c)
  <2>1. PICK request \in Requests : ReadUpdateRequest(c, request)
    BY <1>4 DEF Client
  <2>2. \E combined, full :
          reader' = [reader EXCEPT ![c] = [at |-> "checking", combined |-> combined, full |-> full]]
    BY <2>1, Zenon DEF ReadUpdateRequest
  <2>3. reader'[c].at = "checking"
    BY <1>1, <2>2
  <2> QED BY <1>3, <2>3 DEF SleepsOnNothing, Roused
<1>5. CASE AlreadyHasUpdates(c)
  <2>1. newUpdates'[c]
    BY <1>1, <1>5 DEF AlreadyHasUpdates, CheckForUpdates
  <2> QED BY <1>3, <2>1 DEF SleepsOnNothing, Roused
<1>6. CASE OnUpdateRequest(c)
  <2>1. /\ reader[c].at = "notifying" /\ reader'[c].at = "reading"
        /\ UNCHANGED <<asked, newUpdates, sender>>
    BY <1>1, <1>6 DEF OnUpdateRequest
  <2> QED BY <1>2, <1>3, <2>1 DEF SleepsOnNothing, Roused
<1>7. CASE WaitNewUpdates(c) \/ BecomeBusy(c) \/ SenderFails(c)
  <2>1. sender'[c].at \in {"woken", "sending", "dead"}
    BY <1>1, <1>7 DEF WaitNewUpdates, BecomeBusy, SenderFails, SenderAt
  <2> QED BY <1>3, <2>1 DEF SleepsOnNothing
<1>8. CASE ExtractReqRegions(c)
  <2>1. asked'[c] = NoRequest /\ sender'[c].at \in {"requested", "done"}
    BY <1>1, <1>8 DEF ExtractReqRegions
  <2> QED BY <1>3, <2>1 DEF SleepsOnNothing, NoRequest
<1>9. CASE UpdateFramebuffer(c) \/ BecomeReady(c)
  <2>1. /\ \/ sender[c].at = "extracted" /\ sender'[c].at = "refreshed"
           \/ sender[c].at = "done" /\ sender'[c].at = "waiting"
        /\ UNCHANGED <<asked, newUpdates, reader>>
    BY <1>1, <1>9 DEF UpdateFramebuffer, BecomeReady, SenderAt
  <2> QED BY <1>2, <1>3, <2>1 DEF SleepsOnNothing, Roused
<1> QED BY <1>4, <1>5, <1>6, <1>7, <1>8, <1>9 DEF Reader

(* Those that empty it and put back what was not requested.                *)
LEMMA AnswerLeavesNothing ==
  ASSUME TypeInv, NEW c \in Clients, keeper[c].box.cursor, SleepsOnNothing(c),
         ExtractUpdates(c) \/ SendUpdate(c)
  PROVE  keeper'[c].box.cursor /\ SleepsOnNothing(c)'
<1>1. /\ asked \in [Clients -> AskedRegions]
      /\ keeper \in [Clients -> Keepers] /\ SourceOnClient(keeper[c])
      /\ sender \in [Clients -> [at : Places, taken : AskedRegions, box : Boxes]]
  BY DEF TypeInv, TypeOK, ClientTypes, Places, Sources
<1>2. UNCHANGED <<desktop, current>>
  BY ClientStepOthers DEF ClientStep, Sender
<1>3. CASE ExtractUpdates(c)
  <2>1. /\ keeper'[c] = Emptied(keeper[c])
        /\ sender[c].at = "requested" /\ sender'[c].at = "extracted"
        /\ UNCHANGED <<asked, newUpdates, reader>>
    BY <1>1, <1>3 DEF ExtractUpdates
  <2>2. keeper'[c].box.cursor /\ Pending(keeper'[c]) = {}
    BY <1>1, <2>1, CursorStays, ExtractedFields DEF Pending
  <2> QED BY <1>2, <2>1, <2>2 DEF SleepsOnNothing, Roused
<1>4. CASE SendUpdate(c)
  <2> DEFINE taken     == sender[c].taken
             requested == taken.incr \cup taken.full
             wanted    == Wanted(sender[c].box, taken.full)
             sent      == ToSend(wanted, requested)
  <2>1. /\ sender[c].at = "refreshed" /\ sender'[c].at = "done"
        /\ keeper'[c] = AddChangedRegion(keeper[c], GoesBack(wanted, requested))
        /\ \/ asked'[c] = asked[c]
           \/ sent.changed \cup sent.copied = {} /\ asked'[c] = Restored(asked[c], taken)
        /\ UNCHANGED <<newUpdates, reader>>
    BY <1>1, <1>4 DEF SendUpdate
  <2>2. taken \in AskedRegions /\ sender[c].box \in Boxes
    BY <1>1
  <2> HIDE DEF taken
  <2>3. wanted \in Boxes /\ taken.full \cap Area \subseteq wanted.changed
    BY <2>2, WantedFields
  <2> HIDE DEF wanted
  <2>4. wanted.changed \cap requested \subseteq sent.changed
    BY <2>3, ToSendFields
  <2> HIDE DEF sent
  <2>5. /\ keeper'[c].box.cursor
        /\ Pending(keeper'[c]) \subseteq Pending(keeper[c]) \cup (wanted.changed \ requested)
    BY <1>1, <2>1, CursorStays, AddChangedRegionFields DEF Pending, GoesBack
  <2>6. ASSUME ~Roused(c)'
        PROVE  asked'[c].full \cap Area = {} /\ asked'[c].incr \cap Pending(keeper'[c]) = {}
    <3>1. asked[c].incr = {} /\ asked[c].full = {} /\ Pending(keeper[c]) = {}
      BY <1>2, <2>1, <2>6 DEF SleepsOnNothing, Roused
    <3>2. CASE asked'[c] = asked[c]
      BY <3>1, <3>2
    <3>3. CASE sent.changed \cup sent.copied = {} /\ asked'[c] = Restored(asked[c], taken)
      <4>1. asked'[c].full = taken.full /\ asked'[c].incr = taken.incr
        BY <3>1, <3>3 DEF Restored
      <4>2. taken.full \cap Area = {}
        BY <2>3, <2>4, <3>3
      <4> QED BY <2>5, <3>1, <4>1, <4>2
    <3> QED BY <2>1, <3>2, <3>3
  <2> QED BY <2>1, <2>5, <2>6 DEF SleepsOnNothing
<1> QED BY <1>3, <1>4

(* A sender that sleeps, with nobody about to wake it, has been asked for  *)
(* nothing that it could send, whatever came while it was sending.         *)
THEOREM DeliveryNobodySleeps == Spec => []NobodySleepsOnUpdates
<1>1. Init => SleepInv
  <2> SUFFICES ASSUME Init, NEW c \in Clients
               PROVE  keeper[c].box.cursor /\ SleepsOnNothing(c)
    BY DEF SleepInv
  <2>1. /\ keeper[c] = SetCursorChanged(NewKeeper(Area)) /\ asked[c] = NoRequest
        /\ sender[c].at \in {"waiting", "dead"}
    BY DEF Init
  <2>2. keeper[c].box.cursor
    BY <2>1 DEF SetCursorChanged, NewKeeper, EmptyContainer, Container
  <2> QED BY <2>1, <2>2 DEF SleepsOnNothing, NoRequest
<1>2. TypeInv /\ SleepInv /\ [Next]_vars => SleepInv'
  <2> SUFFICES ASSUME TypeInv, SleepInv, [Next]_vars
               PROVE  SleepInv'
    OBVIOUS
  <2>1. CASE Draw \/ MoveWindow \/ Poller \/ Desktop
    BY <2>1, DesktopRouses
  <2>2. ASSUME NEW c \in Clients, ClientStep(c)
        PROVE  SleepInv'
    <3>1. keeper'[c].box.cursor /\ SleepsOnNothing(c)'
      BY <2>2, ClientRouses, AnswerLeavesNothing DEF SleepInv, ClientStep, Sender
    <3>2. ASSUME NEW d \in Clients, d # c
          PROVE  keeper'[d].box.cursor /\ SleepsOnNothing(d)'
      <4>1. /\ asked'[d] = asked[d] /\ newUpdates'[d] = newUpdates[d]
            /\ keeper'[d] = keeper[d] /\ sender'[d] = sender[d] /\ reader'[d] = reader[d]
            /\ UNCHANGED <<desktop, current>>
        BY <2>2, <3>2, OtherClientsKeep, ClientStepOthers
      <4> QED BY <4>1 DEF SleepInv, SleepsOnNothing, Roused
    <3> QED BY <3>1, <3>2 DEF SleepInv
  <2>3. CASE UNCHANGED vars
    BY <2>3 DEF vars, desktopVars, clientVars, SleepInv, SleepsOnNothing, Roused
  <2> QED BY <2>1, <2>2, <2>3 DEF Next, ClientStep
<1>3. SleepInv => NobodySleepsOnUpdates
  BY DEF SleepInv, SleepsOnNothing, NobodySleepsOnUpdates, Pending
<1> QED BY <1>1, <1>2, <1>3, DeliveryTypes, PTL DEF Spec

-----------------------------------------------------------------------------
(* The pixels of the updates that are still to reach c's sender, and those *)
(* its sender holds.                                                       *)
Coming(c) ==
  (IF Handed(c) THEN out.changed \cup out.copied ELSE {}) \cup Pending(keeper[c])

Held(c) == sender[c].box.changed \cup sender[c].box.copied

(* The inductive invariant behind NoUpdateLost: besides the client's       *)
(* picture it speaks of the sender's frame buffer, which is current even   *)
(* for the held pixels once they were refreshed, and it knows when the     *)
(* sender holds nothing.                                                   *)
PictureIsCurrent(c) ==
  \A p \in Area \ (Coming(c) \cup Held(c)) : picture[c][p] = backup[p]

BufferIsCurrent(c) ==
  \A p \in Area \ Coming(c) :
    p \notin Held(c) \/ sender[c].at = "refreshed" => framebuffer[c][p] = backup[p]

HoldsOnlyWhileSending(c) ==
  sender[c].at \notin {"extracted", "refreshed"} => Held(c) = {}

UpToDate(c) ==
  sender[c].at # "dead" =>
    PictureIsCurrent(c) /\ BufferIsCurrent(c) /\ HoldsOnlyWhileSending(c)

LEMMA UpToDateLosesNothing ==
  ASSUME \A c \in Clients : UpToDate(c)
  PROVE  NoUpdateLost
BY DEF NoUpdateLost, UpToDate, PictureIsCurrent, OnTheWay, Coming, Held, Pending

(* Merging a container: what was pending and what it brings is pending.    *)
LEMMA MergingKeepsBox ==
  ASSUME NEW k \in Keepers, NEW b \in Boxes, SourceInArea(b)
  PROVE  Pending(k) \cup b.changed \cup b.copied \subseteq Pending(AddUpdateContainer(k, b))
<1>1. b \in Containers /\ b.copied \subseteq Area /\ b.changed \subseteq Area
  BY AreaAssumption DEF Boxes, Containers
<1>2. SourceIsSeen(b.copied, b.delta)
  BY DEF SourceInArea, SourceIsSeen, Translate
<1>3. Pending(k) \cup (b.copied \cap Area) \cup (b.changed \cap Area)
        \subseteq Pending(AddUpdateContainer(k, b))
  BY <1>1, <1>2, MergingKeepsPending
<1> QED BY <1>1, <1>3

(* Whatever the screen, the poller and the desktop do, an update that is   *)
(* on its way stays on its way, and the backup changes only at pixels that *)
(* are on their way to every client.                                       *)
LEMMA DesktopDeliversItsChanges ==
  ASSUME TypeInv, Draw \/ MoveWindow \/ Poller \/ Desktop, NEW c \in Clients
  PROVE  /\ Coming(c) \subseteq Coming(c)'
         /\ \A p \in Area \ Coming(c)' : backup'[p] = backup[p]
<1>1. CASE Draw \/ MoveWindow \/ Poller
  <2>1. UNCHANGED <<desktop, out, todo, keeper, backup>>
    BY <1>1 DEF Draw, MoveWindow, ScreenShows, Poller, Poll, OnUpdate, clientVars,
                desktopVars
  <2> QED BY <2>1 DEF Coming, Handed
<1>2. CASE WakeDesktop \/ SetFullUpdateRequested \/ Extract \/ ClearFullReq
           \/ \E d \in Clients : IsReadyToSend(d)
  <2>1. /\ keeper' = keeper /\ backup' = backup
        /\ desktop \notin {"filtered", "merging", "waking"}
        /\ desktop' \notin {"filtered", "merging", "waking"}
    BY <1>2 DEF WakeDesktop, SetFullUpdateRequested, Extract, ClearFullReq, IsReadyToSend,
                clientVars
  <2>2. ~Handed(c) /\ ~Handed(c)'
    BY <2>1 DEF Handed
  <2> QED BY <2>1, <2>2 DEF Coming
<1>3. CASE Filter
  <2> DEFINE replayed == Copied(backup, [target |-> out.copied, delta |-> out.delta])
             changed == {p \in out.changed \cup out.copied :
                           replayed[p] # screen.pixels[p]}
  <2>1. /\ \/ /\ out' = [out EXCEPT !.changed = changed]
              /\ backup' = [p \in Area |->
                              IF p \in changed THEN screen.pixels[p] ELSE replayed[p]]
           \/ out' = out /\ backup' = replayed
        /\ desktop = "filtering" /\ desktop' = "filtered" /\ keeper' = keeper
    BY <1>3 DEF Filter, clientVars
  <2>2. out \in Boxes
    BY DEF TypeInv, TypeOK, DesktopTypes
  <2>3. \A p \in Area \ out.copied : replayed[p] = backup[p]
    BY DEF Copied
  <2> HIDE DEF replayed, changed
  <2>4. out'.copied = out.copied /\ (out' = out \/ out'.changed = changed)
    BY <2>1, <2>2 DEF Boxes
  <2>5. ~Handed(c) /\ Handed(c)'
    BY <2>1 DEF Handed
  <2>6. ASSUME NEW p \in Area, p \notin out'.changed \cup out'.copied
        PROVE  backup'[p] = backup[p]
    <3>1. replayed[p] = backup[p]
      BY <2>3, <2>4, <2>6
    <3>2. CASE out' = out /\ backup' = replayed
      BY <3>1, <3>2
    <3>3. CASE /\ out' = [out EXCEPT !.changed = changed]
               /\ backup' = [p_1 \in Area |->
                     IF p_1 \in changed THEN screen.pixels[p_1] ELSE replayed[p_1]]
      <4>1. p \notin changed
        BY <2>2, <2>6, <3>3 DEF Boxes
      <4> QED BY <3>1, <3>3, <4>1
    <3> QED BY <2>1, <3>2, <3>3
  <2> QED BY <2>1, <2>5, <2>6 DEF Coming
<1>4. CASE OnSendUpdate
  <2>1. CASE desktop' = "merging"
    <3>1. /\ UNCHANGED <<out, keeper, backup>> /\ todo' = Clients
      BY <1>4, <2>1 DEF OnSendUpdate, clientVars
    <3>2. Handed(c)'
      BY <2>1, <3>1 DEF Handed
    <3> QED BY <3>1, <3>2 DEF Coming
  <2>2. CASE desktop' # "merging"
    <3>1. /\ UNCHANGED <<keeper, backup>> /\ desktop' = "waiting"
          /\ out.changed = {} /\ out.copied = {}
      BY <1>4, <2>2 DEF OnSendUpdate, clientVars, ContainerIsEmpty
    <3>2. ~Handed(c)'
      BY <3>1 DEF Handed
    <3> QED BY <3>1, <3>2 DEF Coming
  <2> QED BY <2>1, <2>2
<1>5. ASSUME NEW d \in Clients, MergeUpdates(d)
      PROVE  Coming(c) \subseteq Coming(c)' /\ backup' = backup
  <2>1. /\ desktop = "merging" /\ desktop' = "waking" /\ todo' = todo \ {d}
        /\ out' = out /\ backup' = backup
        /\ keeper' = [keeper EXCEPT ![d] = AddUpdateContainer(keeper[d], out)]
    BY <1>5 DEF MergeUpdates
  <2>2. keeper \in [Clients -> Keepers] /\ out \in Boxes /\ SourceInArea(out)
    BY DEF TypeInv, TypeOK, ClientTypes, DesktopTypes, Sources
  <2>3. CASE c = d
    <3>1. Pending(keeper[c]) \cup out.changed \cup out.copied
            \subseteq Pending(AddUpdateContainer(keeper[c], out))
      BY <2>2, MergingKeepsBox
    <3>2. keeper'[c] = AddUpdateContainer(keeper[c], out)
      BY <2>1, <2>2, <2>3
    <3> QED BY <2>1, <3>1, <3>2 DEF Coming
  <2>4. CASE c # d
    <3>1. keeper'[c] = keeper[c] /\ (Handed(c)' <=> Handed(c))
      BY <2>1, <2>2, <2>4 DEF Handed
    <3> QED BY <2>1, <3>1 DEF Coming
  <2> QED BY <2>1, <2>3, <2>4
<1>6. ASSUME NEW d \in Clients, WakeSender(d)
      PROVE  Coming(c) \subseteq Coming(c)' /\ backup' = backup
  <2>1. /\ UNCHANGED <<keeper, out, todo, backup>> /\ desktop = "waking"
        /\ desktop' = IF todo = {} THEN "clearing" ELSE "merging"
    BY <1>6 DEF WakeSender
  <2>2. Handed(c)' <=> Handed(c)
    BY <2>1 DEF Handed
  <2> QED BY <2>1, <2>2 DEF Coming
<1> QED BY <1>1, <1>2, <1>3, <1>4, <1>5, <1>6 DEF Desktop

(* Steps of c's own threads: until the sender answers, nothing it does     *)
(* changes the picture, and it takes over what it empties from the keeper. *)
LEMMA SenderStepUpToDate ==
  ASSUME TypeInv, NEW c \in Clients, ClientStep(c), ~SendUpdate(c), UpToDate(c)
  PROVE  UpToDate(c)'
<1>1. /\ backup' = backup
      /\ (Handed(c)' <=> Handed(c)) /\ out' = out
  BY ClientStepOthers DEF Handed
<1>2. /\ keeper \in [Clients -> Keepers]
      /\ sender \in [Clients -> [at : Places, taken : AskedRegions, box : Boxes]]
      /\ framebuffer \in [Clients -> [Area -> Colors]]
  BY DEF TypeInv, TypeOK, ClientTypes, Places
<1>3. CASE Client(c) \/ Reader(c)
  <2>1. UNCHANGED <<keeper, sender, framebuffer, picture>>
    BY <1>3 DEF Client, ReadUpdateRequest, Reader, AlreadyHasUpdates, OnUpdateRequest
  <2> QED BY <1>1, <2>1 DEF UpToDate, PictureIsCurrent, BufferIsCurrent,
             HoldsOnlyWhileSending, Coming, Held
<1>4. CASE WaitNewUpdates(c) \/ BecomeBusy(c) \/ BecomeReady(c)
  <2>1. /\ UNCHANGED <<keeper, framebuffer, picture>>
        /\ sender'[c].box = sender[c].box
        /\ sender[c].at \in {"waiting", "woken", "done"}
        /\ sender'[c].at \in {"woken", "sending", "waiting"}
    BY <1>2, <1>4 DEF WaitNewUpdates, BecomeBusy, BecomeReady, SenderAt
  <2>2. Coming(c)' = Coming(c) /\ Held(c)' = Held(c)
    BY <1>1, <2>1 DEF Coming, Held
  <2> QED BY <1>1, <2>1, <2>2 DEF UpToDate, PictureIsCurrent, BufferIsCurrent,
             HoldsOnlyWhileSending
<1>5. CASE SenderFails(c)
  <2>1. sender'[c].at = "dead"
    BY <1>2, <1>5 DEF SenderFails, SenderAt
  <2> QED BY <2>1 DEF UpToDate
<1>6. CASE ExtractReqRegions(c)
  <2>1. /\ UNCHANGED <<keeper, framebuffer, picture>>
        /\ sender[c].at = "sending" /\ sender'[c].at \in {"requested", "done"}
        /\ sender'[c].box = EmptyContainer
    BY <1>2, <1>6 DEF ExtractReqRegions
  <2>2. Coming(c)' = Coming(c) /\ Held(c)' = {}
    BY <1>1, <2>1, EmptyContainerType DEF Coming, Held
  <2>3. Held(c) = {}
    BY <2>1 DEF UpToDate, HoldsOnlyWhileSending
  <2> QED BY <1>1, <2>1, <2>2, <2>3 DEF UpToDate, PictureIsCurrent, BufferIsCurrent,
             HoldsOnlyWhileSending
<1>7. CASE ExtractUpdates(c)
  <2>1. /\ UNCHANGED <<framebuffer, picture>>
        /\ sender[c].at = "requested" /\ sender'[c].at = "extracted"
        /\ sender'[c].box = Extracted(keeper[c]) /\ keeper'[c] = Emptied(keeper[c])
    BY <1>2, <1>7 DEF ExtractUpdates
  <2>2. Pending(keeper'[c]) = {} /\ Held(c)' = Pending(keeper[c])
    <3>1. /\ Extracted(keeper[c]).changed = keeper[c].box.changed
          /\ Extracted(keeper[c]).copied = keeper[c].box.copied
          /\ Emptied(keeper[c]).box.changed = {} /\ Emptied(keeper[c]).box.copied = {}
      BY <1>2, ExtractedFields DEF TypeInv, Sources
    <3> QED BY <2>1, <3>1 DEF Pending, Held
  <2>3. Coming(c)' \cup Held(c)' = Coming(c)
    BY <1>1, <2>2 DEF Coming
  <2>4. Held(c) = {}
    BY <2>1 DEF UpToDate, HoldsOnlyWhileSending
  <2> QED BY <1>1, <2>1, <2>3, <2>4 DEF UpToDate, PictureIsCurrent, BufferIsCurrent,
             HoldsOnlyWhileSending
<1>8. CASE UpdateFramebuffer(c)
  <2> DEFINE region == Held(c) \cup asked[c].full
  <2>1. /\ UNCHANGED <<keeper, picture>>
        /\ sender[c].at = "extracted" /\ sender'[c].at = "refreshed"
        /\ sender'[c].box = sender[c].box
        /\ framebuffer'[c] = [p \in Area |-> IF p \in region THEN backup[p]
                                                            ELSE framebuffer[c][p]]
    BY <1>2, <1>8 DEF UpdateFramebuffer, SenderAt, Held
  <2>2. Coming(c)' = Coming(c) /\ Held(c)' = Held(c)
    BY <1>1, <2>1 DEF Coming, Held
  <2>3. ASSUME NEW p \in Area \ Coming(c)
        PROVE  framebuffer'[c][p] = backup[p]
    <3>1. p \notin Held(c) => framebuffer[c][p] = backup[p]
      BY <2>1 DEF UpToDate, BufferIsCurrent
    <3> QED BY <2>1, <3>1
  <2> QED BY <1>1, <2>1, <2>2, <2>3 DEF UpToDate, PictureIsCurrent, BufferIsCurrent,
             HoldsOnlyWhileSending
<1> QED BY <1>3, <1>4, <1>5, <1>6, <1>7, <1>8 DEF ClientStep, Sender

(* The answer: what was refreshed and requested is painted, the rest goes  *)
(* back to the keeper.                                                     *)
LEMMA AnswerUpToDate ==
  ASSUME TypeInv, ~CopyRectEnabled, NEW c \in Clients, SendUpdate(c), UpToDate(c)
  PROVE  UpToDate(c)'
<1> DEFINE taken     == sender[c].taken
           requested == taken.incr \cup taken.full
           wanted    == Wanted(sender[c].box, taken.full)
           sent      == ToSend(wanted, requested)
           back      == GoesBack(wanted, requested)
<1>1. /\ keeper \in [Clients -> Keepers] /\ keeper[c] \in Keepers
      /\ sender \in [Clients -> [at : Places, taken : AskedRegions, box : Boxes]]
      /\ picture \in [Clients -> [Area -> Colors]] /\ sender[c].box \in Boxes
  BY DEF TypeInv, TypeOK, ClientTypes, Places
<1>2. /\ backup' = backup
      /\ (Handed(c)' <=> Handed(c)) /\ out' = out
  BY ClientStepOthers DEF Handed, ClientStep, Sender
<1>3. /\ sender[c].at = "refreshed" /\ framebuffer' = framebuffer
      /\ sender'[c].at = "done" /\ sender'[c].box = EmptyContainer
      /\ keeper'[c] = AddChangedRegion(keeper[c], back)
      /\ \/ picture'[c] = Painted(sent, picture[c], framebuffer[c])
         \/ sent.changed \cup sent.copied = {} /\ picture'[c] = picture[c]
  BY <1>1 DEF SendUpdate
<1>4. /\ wanted \in Boxes /\ wanted.copied = {}
      /\ wanted.changed = (Held(c) \cup taken.full) \cap Area
  <2>1. /\ wanted \in Boxes
        /\ wanted.copied = IF CopyRectEnabled THEN sender[c].box.copied ELSE {}
        /\ wanted.changed =
             ((IF CopyRectEnabled THEN sender[c].box.changed
               ELSE sender[c].box.changed \cup sender[c].box.copied) \cup taken.full)
               \cap Area
    BY <1>1, WantedFields
  <2> QED BY <2>1 DEF Held
<1> HIDE DEF wanted
<1>5. sent.copied = {} /\ sent.changed = wanted.changed \cap requested
  BY <1>4, ToSendFields
<1> HIDE DEF sent
<1>6. Pending(keeper'[c]) = Pending(keeper[c]) \cup (back \cap Area)
  <2>1. /\ AddChangedRegion(keeper[c], back).box.changed
             = (keeper[c].box.changed \cup back) \cap Area
        /\ AddChangedRegion(keeper[c], back).box.copied = keeper[c].box.copied
    BY <1>1, AddChangedRegionFields
  <2>2. keeper[c].box.changed \subseteq Area
    BY <1>1 DEF Keepers, Boxes
  <2> QED BY <1>3, <2>1, <2>2 DEF Pending
<1>7. Held(c)' = {}
  BY <1>3, EmptyContainerType DEF Held
<1>8. Coming(c)' = Coming(c) \cup (back \cap Area)
  BY <1>2, <1>6 DEF Coming
<1>9. \A p \in Area \ Coming(c) : framebuffer[c][p] = backup[p]
  BY <1>3 DEF UpToDate, BufferIsCurrent
<1>10. ASSUME NEW p \in Area \ Coming(c)'
       PROVE  picture'[c][p] = backup[p]
  <2>1. p \in Area /\ p \notin Coming(c) /\ (p \notin wanted.changed \/ p \in requested)
    BY <1>8 DEF GoesBack
  <2>2. CASE p \in sent.changed
    BY <1>3, <1>9, <2>1, <2>2 DEF Painted
  <2>3. CASE p \notin sent.changed
    <3>1. p \notin Held(c)
      BY <1>4, <1>5, <2>1, <2>3
    <3>2. picture[c][p] = backup[p]
      BY <1>3, <2>1, <3>1 DEF UpToDate, PictureIsCurrent
    <3>3. picture'[c][p] = picture[c][p]
      BY <1>3, <1>5, <2>1, <2>3 DEF Painted, Shown
    <3> QED BY <3>2, <3>3
  <2> QED BY <2>2, <2>3
<1>11. PictureIsCurrent(c)' /\ BufferIsCurrent(c)' /\ HoldsOnlyWhileSending(c)'
  BY <1>2, <1>3, <1>7, <1>8, <1>9, <1>10
  DEF PictureIsCurrent, BufferIsCurrent, HoldsOnlyWhileSending
<1> QED BY <1>11 DEF UpToDate

(* For every number of clients and every interleaving of the threads, with *)
(* grabs that fail and senders that die, pictures and frame buffers of     *)
(* clients without CopyRect are up to date but for updates on their way.   *)
THEOREM DeliveryUpToDate ==
  ASSUME ~CopyRectEnabled
  PROVE  Spec => [](\A c \in Clients : UpToDate(c))
<1> DEFINE Inv == \A c \in Clients : UpToDate(c)
<1>1. Init => Inv
  <2> SUFFICES ASSUME Init, NEW c \in Clients PROVE UpToDate(c)
    OBVIOUS
  <2>1. /\ picture[c] = backup /\ framebuffer[c] = backup
        /\ sender[c].box = EmptyContainer
    BY DEF Init
  <2>2. Held(c) = {}
    BY <2>1, EmptyContainerType DEF Held
  <2> QED BY <2>1, <2>2 DEF UpToDate, PictureIsCurrent, BufferIsCurrent,
             HoldsOnlyWhileSending
<1>2. TypeInv /\ Inv /\ [Next]_vars => Inv'
  <2> SUFFICES ASSUME TypeInv, \A c \in Clients : UpToDate(c), [Next]_vars,
                      NEW c \in Clients
               PROVE  UpToDate(c)'
    OBVIOUS
  <2>1. CASE Draw \/ MoveWindow \/ Poller \/ Desktop
    <3>1. UNCHANGED <<sender, framebuffer, picture>>
      BY <2>1, DesktopKeeps
    <3>2. /\ Coming(c) \subseteq Coming(c)'
          /\ \A p \in Area \ Coming(c)' : backup'[p] = backup[p]
      BY <2>1, DesktopDeliversItsChanges
    <3>3. Held(c)' = Held(c)
      BY <3>1 DEF Held
    <3> QED BY <3>1, <3>2, <3>3 DEF UpToDate, PictureIsCurrent, BufferIsCurrent,
               HoldsOnlyWhileSending
  <2>2. ASSUME NEW d \in Clients, ClientStep(d), d # c
        PROVE  UpToDate(c)'
    <3>1. /\ keeper'[c] = keeper[c] /\ sender'[c] = sender[c]
          /\ framebuffer'[c] = framebuffer[c] /\ picture'[c] = picture[c]
      BY <2>2, OtherClientsKeep
    <3>2. /\ backup' = backup /\ out' = out /\ (Handed(c)' <=> Handed(c))
      BY <2>2, ClientStepOthers DEF Handed
    <3>3. Held(c)' = Held(c) /\ Coming(c)' = Coming(c)
      BY <3>1, <3>2 DEF Held, Coming
    <3> QED BY <3>1, <3>2, <3>3 DEF UpToDate, PictureIsCurrent, BufferIsCurrent,
               HoldsOnlyWhileSending
  <2>3. CASE ClientStep(c)
    BY <2>3, SenderStepUpToDate, AnswerUpToDate
  <2>4. CASE UNCHANGED vars
    BY <2>4 DEF vars, desktopVars, clientVars, UpToDate, PictureIsCurrent,
                BufferIsCurrent, HoldsOnlyWhileSending, Coming, Held, Handed
  <2> QED BY <2>1, <2>2, <2>3, <2>4 DEF Next, ClientStep
<1> QED BY <1>1, <1>2, DeliveryTypes, PTL DEF Spec

(* A pixel of a client without CopyRect shows what the backup holds unless *)
(* an update of it is in the desktop's hands, in the client's keeper or in *)
(* its sender's hands.                                                     *)
THEOREM DeliveryLosesNoUpdate ==
  ASSUME ~CopyRectEnabled
  PROVE  Spec => []NoUpdateLost
<1>1. (\A c \in Clients : UpToDate(c)) => NoUpdateLost
  BY UpToDateLosesNothing
<1> QED BY <1>1, DeliveryUpToDate, PTL

-----------------------------------------------------------------------------
(* The refinement of UpdateChannel.                                        *)
Owed == [c \in Clients |-> OnTheWay(c)]

LEMMA OwedParts ==
  ASSUME TypeInv, NEW c \in Clients
  PROVE  OnTheWay(c) = Coming(c) \cup Held(c) /\ OnTheWay(c) \subseteq Area
<1>1. keeper[c] \in Keepers /\ sender[c].box \in Boxes /\ out \in Boxes
  BY DEF TypeInv, TypeOK, DesktopTypes, ClientTypes
<1> QED BY <1>1 DEF OnTheWay, Coming, Held, Pending, Keepers, Boxes

LEMMA OwedType ==
  ASSUME TypeInv, TypeInv'
  PROVE  /\ Owed \in [Clients -> SUBSET Area] /\ Owed' \in [Clients -> SUBSET Area]
         /\ \A c \in Clients : /\ Owed[c] = Coming(c) \cup Held(c)
                              /\ Owed'[c] = Coming(c)' \cup Held(c)'
<1>1. ASSUME NEW c \in Clients
      PROVE  OnTheWay(c) = Coming(c) \cup Held(c) /\ OnTheWay(c) \subseteq Area
  BY OwedParts
<1>2. ASSUME NEW c \in Clients
      PROVE  OnTheWay(c)' = Coming(c)' \cup Held(c)' /\ OnTheWay(c)' \subseteq Area
  <2>1. keeper'[c] \in Keepers /\ sender'[c].box \in Boxes /\ out' \in Boxes
    BY DEF TypeInv, TypeOK, DesktopTypes, ClientTypes
  <2> QED BY <2>1 DEF OnTheWay, Coming, Held, Pending, Keepers, Boxes
<1> QED BY <1>1, <1>2 DEF Owed

LEMMA InitIsChannelInit == Init => Channel!Init
<1> SUFFICES ASSUME Init PROVE Channel!Init
  OBVIOUS
<1>1. TypeInv
  BY InitTypes
<1>2. /\ backup \in [Area -> Colors]
      /\ framebuffer \in [Clients -> [Area -> Colors]]
      /\ picture \in [Clients -> [Area -> Colors]]
  BY <1>1 DEF TypeInv, TypeOK, DesktopTypes, ClientTypes
<1>3. \A c \in Clients : picture[c] = backup /\ framebuffer[c] = backup
  BY DEF Init
<1>4. \A c \in Clients : OnTheWay(c) \subseteq Area
  BY <1>1, OwedParts
<1> QED BY <1>2, <1>3, <1>4
        DEF Channel!Init, Channel!ChannelTypes, Channel!Buffers, Channel!Settled

(* The backup changes under the desktop's hands only, and owes the change. *)
LEMMA DesktopStepIsChange ==
  ASSUME TypeInv, TypeInv', Draw \/ MoveWindow \/ Poller \/ Desktop
  PROVE  Channel!Change
<1>1. UNCHANGED <<sender, framebuffer, picture>>
  BY DesktopKeeps
<1>2. backup' \in [Area -> Colors] /\ backup \in [Area -> Colors]
  BY DEF TypeInv, TypeOK, DesktopTypes
<1>3. Owed' \in [Clients -> SUBSET Area]
      /\ \A c \in Clients : Owed'[c] = Coming(c)' \cup Held(c)'
  BY OwedType
<1>4. ASSUME NEW c \in Clients
      PROVE  Owed[c] \cup {p \in Area : backup'[p] # backup[p]} \subseteq Owed'[c]
  <2>1. /\ Coming(c) \subseteq Coming(c)'
        /\ \A p \in Area \ Coming(c)' : backup'[p] = backup[p]
    BY DesktopDeliversItsChanges
  <2>2. Held(c)' = Held(c)
    BY <1>1 DEF Held
  <2> QED BY <1>3, <2>1, <2>2, OwedType
<1> QED BY <1>1, <1>2, <1>3, <1>4 DEF Channel!Change, Channel!Buffers, Owed

(* Steps of a client's threads that neither read the backup nor paint: an  *)
(* update passes from the keeper to the sender, which held none.           *)
LEMMA QuietStepKeepsOwed ==
  ASSUME TypeInv, TypeInv', NEW c \in Clients, ClientStep(c), UpToDate(c),
         ~UpdateFramebuffer(c), ~SendUpdate(c)
  PROVE  framebuffer' = framebuffer /\ picture' = picture
         /\ Coming(c)' \cup Held(c)' = Coming(c) \cup Held(c)
<1>1. (Handed(c)' <=> Handed(c)) /\ out' = out
  BY ClientStepOthers DEF Handed
<1>2. /\ keeper \in [Clients -> Keepers]
      /\ sender \in [Clients -> [at : Places, taken : AskedRegions, box : Boxes]]
  BY DEF TypeInv, TypeOK, ClientTypes, Places
<1>3. CASE Client(c) \/ Reader(c)
  <2>1. UNCHANGED <<keeper, sender, framebuffer, picture>>
    BY <1>3 DEF Client, ReadUpdateRequest, Reader, AlreadyHasUpdates, OnUpdateRequest
  <2> QED BY <1>1, <2>1 DEF Coming, Held
<1>4. CASE WaitNewUpdates(c) \/ BecomeBusy(c) \/ BecomeReady(c) \/ SenderFails(c)
  <2>1. /\ UNCHANGED <<keeper, framebuffer, picture>>
        /\ sender'[c].box = sender[c].box
    BY <1>2, <1>4 DEF WaitNewUpdates, BecomeBusy, BecomeReady, SenderFails, SenderAt
  <2> QED BY <1>1, <2>1 DEF Coming, Held
<1>5. CASE ExtractReqRegions(c)
  <2>1. /\ UNCHANGED <<keeper, framebuffer, picture>>
        /\ sender[c].at = "sending" /\ sender'[c].box = EmptyContainer
    BY <1>2, <1>5 DEF ExtractReqRegions
  <2>2. Held(c) = {} /\ Held(c)' = {}
    BY <2>1, EmptyContainerType DEF UpToDate, HoldsOnlyWhileSending, Held
  <2> QED BY <1>1, <2>1, <2>2 DEF Coming
<1>6. CASE ExtractUpdates(c)
  <2>1. /\ UNCHANGED <<framebuffer, picture>> /\ sender[c].at = "requested"
        /\ sender'[c].box = Extracted(keeper[c]) /\ keeper'[c] = Emptied(keeper[c])
    BY <1>2, <1>6 DEF ExtractUpdates
  <2>2. Held(c) = {}
    BY <2>1 DEF UpToDate, HoldsOnlyWhileSending
  <2>3. Pending(keeper'[c]) = {} /\ Held(c)' = Pending(keeper[c])
    <3>1. /\ Extracted(keeper[c]).changed = keeper[c].box.changed
          /\ Extracted(keeper[c]).copied = keeper[c].box.copied
          /\ Emptied(keeper[c]).box.changed = {} /\ Emptied(keeper[c]).box.copied = {}
      BY <1>2, ExtractedFields DEF TypeInv, Sources
    <3> QED BY <2>1, <3>1 DEF Pending, Held
  <2> QED BY <1>1, <2>1, <2>2, <2>3 DEF Coming
<1> QED BY <1>3, <1>4, <1>5, <1>6 DEF ClientStep, Sender

LEMMA UpdateFramebufferIsFetch ==
  ASSUME TypeInv, TypeInv', NEW c \in Clients, UpdateFramebuffer(c)
  PROVE  \E points \in SUBSET Area :
           /\ framebuffer' =
                [framebuffer EXCEPT ![c] = Channel!Taken(framebuffer[c], backup, points)]
           /\ picture' = picture
           /\ Coming(c)' \cup Held(c)' = Coming(c) \cup Held(c)
<1> DEFINE region == sender[c].box.changed \cup sender[c].box.copied \cup asked[c].full
<1>1. /\ UNCHANGED <<keeper, picture>>
      /\ sender'[c].box = sender[c].box
      /\ framebuffer' = [framebuffer EXCEPT ![c] =
           [p \in Area |-> IF p \in region THEN backup[p] ELSE framebuffer[c][p]]]
  BY DEF UpdateFramebuffer, SenderAt, TypeInv, TypeOK, ClientTypes
<1>2. (Handed(c)' <=> Handed(c)) /\ out' = out
  BY ClientStepOthers DEF ClientStep, Sender, Handed
<1>3. [p \in Area |-> IF p \in region THEN backup[p] ELSE framebuffer[c][p]]
        = Channel!Taken(framebuffer[c], backup, region \cap Area)
  BY DEF Channel!Taken
<1>4. Coming(c)' \cup Held(c)' = Coming(c) \cup Held(c)
  BY <1>1, <1>2 DEF Coming, Held
<1> HIDE DEF region
<1> WITNESS region \cap Area \in SUBSET Area
<1> QED BY <1>1, <1>3, <1>4

(* What was held and is not put back was requested, so it is painted, out  *)
(* of a frame buffer that is current where nothing new is coming.          *)
LEMMA SendUpdateIsPaint ==
  ASSUME TypeInv, TypeInv', ~CopyRectEnabled, NEW c \in Clients, SendUpdate(c), UpToDate(c)
  PROVE  \E points \in SUBSET Area :
           /\ picture' =
                [picture EXCEPT ![c] = Channel!Taken(picture[c], framebuffer[c], points)]
           /\ framebuffer' = framebuffer
           /\ (Coming(c) \cup Held(c))
                  \ {p \in points : framebuffer[c][p] = backup[p]}
                \subseteq Coming(c)' \cup Held(c)'
<1> DEFINE taken     == sender[c].taken
           requested == taken.incr \cup taken.full
           wanted    == Wanted(sender[c].box, taken.full)
           sent      == ToSend(wanted, requested)
           back      == GoesBack(wanted, requested)
<1>1. /\ keeper[c] \in Keepers /\ keeper \in [Clients -> Keepers]
      /\ picture \in [Clients -> [Area -> Colors]] /\ sender[c].box \in Boxes
  BY DEF TypeInv, TypeOK, ClientTypes
<1>2. (Handed(c)' <=> Handed(c)) /\ out' = out
  BY ClientStepOthers DEF Handed, ClientStep, Sender
<1>3. /\ sender[c].at = "refreshed" /\ framebuffer' = framebuffer
      /\ keeper'[c] = AddChangedRegion(keeper[c], back)
      /\ \/ picture' = [picture EXCEPT ![c] = Painted(sent, picture[c], framebuffer[c])]
         \/ sent.changed \cup sent.copied = {} /\ picture' = picture
  BY <1>1 DEF SendUpdate
<1>4. /\ wanted \in Boxes /\ wanted.copied = {}
      /\ Held(c) \subseteq wanted.changed
  <2>1. /\ wanted \in Boxes
        /\ wanted.copied = IF CopyRectEnabled THEN sender[c].box.copied ELSE {}
        /\ wanted.changed =
             ((IF CopyRectEnabled THEN sender[c].box.changed
               ELSE sender[c].box.changed \cup sender[c].box.copied) \cup taken.full)
               \cap Area
    BY <1>1, WantedFields
  <2>2. Held(c) \subseteq Area
    BY <1>1 DEF Held, Boxes
  <2> QED BY <2>1, <2>2 DEF Held
<1> HIDE DEF wanted
<1>5. sent.copied = {} /\ sent.changed = wanted.changed \cap requested
      /\ sent.changed \subseteq Area
  BY <1>4, ToSendFields DEF Boxes
<1> HIDE DEF sent
<1>6. Coming(c) \cup (back \cap Area) \subseteq Coming(c)'
  <2>1. /\ AddChangedRegion(keeper[c], back).box.changed
             = (keeper[c].box.changed \cup back) \cap Area
        /\ AddChangedRegion(keeper[c], back).box.copied = keeper[c].box.copied
    BY <1>1, AddChangedRegionFields
  <2>2. keeper[c].box.changed \subseteq Area
    BY <1>1 DEF Keepers, Boxes
  <2> QED BY <1>2, <1>3, <2>1, <2>2 DEF Pending, Coming
<1>7. \A p \in Area \ Coming(c) : framebuffer[c][p] = backup[p]
  BY <1>3 DEF UpToDate, BufferIsCurrent
<1>8. Painted(sent, picture[c], framebuffer[c])
        = Channel!Taken(picture[c], framebuffer[c], sent.changed)
  BY <1>5 DEF Painted, Shown, Channel!Taken
<1>9. picture' = [picture EXCEPT ![c] =
                    Channel!Taken(picture[c], framebuffer[c], sent.changed)]
  <2>1. CASE sent.changed = {} /\ picture' = picture
    <3>1. Channel!Taken(picture[c], framebuffer[c], sent.changed) = picture[c]
      BY <1>1, <2>1 DEF Channel!Taken
    <3> QED BY <1>1, <2>1, <3>1
  <2> QED BY <1>3, <1>8, <2>1
<1>10. (Coming(c) \cup Held(c)) \ {p \in sent.changed : framebuffer[c][p] = backup[p]}
         \subseteq Coming(c)' \cup Held(c)'
  <2>1. wanted.changed \ requested \subseteq Coming(c)'
    BY <1>4, <1>6 DEF GoesBack, Boxes
  <2>2. ASSUME NEW p \in Held(c), p \in sent.changed, framebuffer[c][p] # backup[p]
        PROVE  p \in Coming(c)'
    BY <1>5, <1>6, <1>7, <2>2
  <2> QED BY <1>4, <1>5, <1>6, <2>1, <2>2
<1>11. sent.changed \in SUBSET Area
  BY <1>5
<1> QED BY <1>3, <1>9, <1>10, <1>11

LEMMA ClientStepIsChannelStep ==
  ASSUME TypeInv, TypeInv', ~CopyRectEnabled, NEW c \in Clients, ClientStep(c), UpToDate(c)
  PROVE  [Channel!Next]_(Channel!channelVars)
<1>1. backup' = backup
  BY ClientStepOthers
<1>2. /\ Owed \in [Clients -> SUBSET Area] /\ Owed' \in [Clients -> SUBSET Area]
      /\ Owed[c] = Coming(c) \cup Held(c) /\ Owed'[c] = Coming(c)' \cup Held(c)'
  BY OwedType
<1>3. ASSUME NEW d \in Clients \ {c}
      PROVE  Owed'[d] = Owed[d]
  <2>1. keeper'[d] = keeper[d] /\ sender'[d] = sender[d]
    BY OtherClientsKeep
  <2>2. out' = out /\ (Handed(d)' <=> Handed(d))
    BY ClientStepOthers DEF Handed
  <2>3. Coming(d)' = Coming(d) /\ Held(d)' = Held(d)
    BY <2>1, <2>2 DEF Coming, Held
  <2> QED BY <2>3, OwedType
<1>4. CASE ~UpdateFramebuffer(c) /\ ~SendUpdate(c)
  <2>1. framebuffer' = framebuffer /\ picture' = picture /\ Owed'[c] = Owed[c]
    BY <1>2, <1>4, QuietStepKeepsOwed
  <2>2. Owed' = Owed
    BY <1>2, <1>3, <2>1
  <2> QED BY <1>1, <2>1, <2>2 DEF Channel!channelVars, Owed
<1>5. CASE UpdateFramebuffer(c)
  <2>1. PICK points \in SUBSET Area :
          /\ framebuffer' =
               [framebuffer EXCEPT ![c] = Channel!Taken(framebuffer[c], backup, points)]
          /\ picture' = picture
          /\ Owed'[c] = Owed[c]
    BY <1>2, <1>5, UpdateFramebufferIsFetch
  <2>2. Owed' = Owed
    BY <1>2, <1>3, <2>1
  <2>3. Channel!Fetch(c, points)
    BY <1>1, <2>1, <2>2 DEF Channel!Fetch, Owed
  <2> QED BY <2>3 DEF Channel!Next
<1>6. CASE SendUpdate(c)
  <2>1. PICK points \in SUBSET Area :
          /\ picture' =
               [picture EXCEPT ![c] = Channel!Taken(picture[c], framebuffer[c], points)]
          /\ framebuffer' = framebuffer
          /\ Owed[c] \ {p \in points : framebuffer[c][p] = backup[p]} \subseteq Owed'[c]
    BY <1>2, <1>6, SendUpdateIsPaint
  <2>2. Channel!Paint(c, points)
    BY <1>1, <1>2, <1>3, <2>1 DEF Channel!Paint, Owed
  <2> QED BY <2>2 DEF Channel!Next
<1> QED BY <1>4, <1>5, <1>6

(* For every number of clients without CopyRect the threads implement      *)
(* UpdateChannel: each of their steps changes the backup and owes the      *)
(* change, fetches from the backup, paints from the sender's frame buffer, *)
(* or is none of the channel's business.                                   *)
THEOREM DeliveryImplementsChannel ==
  ASSUME ~CopyRectEnabled
  PROVE  Spec => ImplementsChannel
<1>1. /\ TypeInv /\ TypeInv' /\ (\A c \in Clients : UpToDate(c)) /\ [Next]_vars
        => [Channel!Next]_(Channel!channelVars)
  <2> SUFFICES ASSUME TypeInv, TypeInv', \A c \in Clients : UpToDate(c), [Next]_vars
               PROVE  [Channel!Next]_(Channel!channelVars)
    OBVIOUS
  <2>1. CASE Draw \/ MoveWindow \/ Poller \/ Desktop
    BY <2>1, DesktopStepIsChange DEF Channel!Next
  <2>2. ASSUME NEW c \in Clients, ClientStep(c)
        PROVE  [Channel!Next]_(Channel!channelVars)
    BY <2>2, ClientStepIsChannelStep
  <2>3. CASE UNCHANGED vars
    <3>1. UNCHANGED <<backup, framebuffer, picture, desktop, out, todo, keeper, sender>>
      BY <2>3 DEF vars, desktopVars, clientVars
    <3>2. \A c \in Clients : OnTheWay(c)' = OnTheWay(c)
      BY <3>1 DEF OnTheWay, Handed
    <3> QED BY <3>1, <3>2 DEF Channel!channelVars
  <2> QED BY <2>1, <2>2, <2>3 DEF Next, ClientStep
<1> QED BY <1>1, InitIsChannelInit, DeliveryTypes, DeliveryUpToDate, PTL
        DEF Spec, ImplementsChannel, Channel!Spec
=============================================================================
