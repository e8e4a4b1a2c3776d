-------------------------- MODULE ViewerCore_proof --------------------------
(***************************************************************************)
(* ViewerCore keeps its types, one request is on its way at a time, what   *)
(* arrives fits the frame buffer, and neither the frame buffer nor the     *)
(* window forgets a change, for any sizes, colours and formats and however *)
(* often the screen changes and the user acts.                             *)
(***************************************************************************)
EXTENDS ViewerCore, FiniteSetTheorems, SequenceTheorems, TLAPS

USE ViewerAssumption

-----------------------------------------------------------------------------
(* The inductive invariant.                                                *)

Requester == {"core", "ui"}

FormatsFirst(s) == \A i \in 1..Len(s) : i < Len(s) => s[i].kind = "format"

EndsInRequest(s) == s # <<>> /\ s[Len(s)].kind = "request"

Pending == EndsInRequest(requests)

(* The format is f once the messages s are read.                           *)
FormatBecomes(s, format, f) ==
  /\ \A i \in 1..Len(s) :
       (s[i].kind = "format" /\ \A j \in 1..Len(s) : j > i => s[j].kind = "request")
       => s[i].format = f
  /\ (\A i \in 1..Len(s) : s[i].kind = "request") => format = f

(* OneRequestAtATime, turn by turn.  A request is the last message on its  *)
(* way to the server, and an update the only one on its way back.          *)
OneTurn ==
  /\ FormatsFirst(requests)
  /\ Len(updates) <= 1
  /\ \/ need \/ Asks("core") \/ Asks("ui") \/ received \/ at.updater = "send"
     \/ Pending \/ updates # <<>> \/ IsReading
  /\ need => ~(\/ Asks("core") \/ Asks("ui") \/ received \/ at.updater = "send"
               \/ Pending \/ updates # <<>> \/ IsReading)
  /\ Asks("core") => ~(Asks("ui") \/ received \/ at.updater = "send" \/ Pending
                        \/ updates # <<>>)
  /\ Asks("ui") => ~(received \/ at.updater = "send" \/ Pending \/ updates # <<>> \/ IsReading)
  /\ received => ~(at.updater = "send" \/ Pending \/ updates # <<>> \/ IsReading)
  /\ at.updater = "send" => ~(Pending \/ updates # <<>> \/ IsReading)
  /\ Pending => ~(updates # <<>> \/ IsReading)
  /\ updates # <<>> => ~IsReading

(* The server changes to the format of the viewer's frame buffer before it *)
(* reads a request.                                                        *)
FormatArrives == FormatBecomes(requests, server.format, fb.format)

(* A request is for the whole frame buffer, and the frame buffer has the   *)
(* size of the screen when no other size is on its way.                    *)
SizeArrives ==
  /\ Pending => requests[Len(requests)].area = fb.area
  /\ ~server.resized =>
       /\ \A i \in 1..Len(updates) : updates[i].resized => updates[i].area = server.area
       /\ reading.resized => reading.area = server.area
       /\ \/ fb.area = server.area \/ reading.resized
          \/ \E i \in 1..Len(updates) : updates[i].resized
  /\ \A i \in 1..Len(updates) : updates[i].resized => updates[i].left = {}
  /\ reading.resized => reading.left = {}
  /\ ~IsReading => reading.left = {} /\ ~reading.resized

(* What an update brings is what the screen shows, or the point is owed    *)
(* again.                                                                  *)
StaleIsOwed ==
  \A p \in server.area \ server.owed :
    /\ \A i \in 1..Len(updates) : p \in updates[i].left => Brings(updates[i], p)
    /\ p \in reading.left => Brings(reading, p)

KeepsUp == ViewerKeepsUp /\ StaleIsOwed

IInv == /\ TypeOK /\ OneTurn /\ FormatArrives /\ SizeArrives
        /\ UpdatesFit /\ KeepsUp /\ WindowKeepsUp

-----------------------------------------------------------------------------
(* Types.                                                                  *)

LEMMA InitTypes == Init => TypeOK
<1> SUFFICES ASSUME Init
             PROVE TypeOK
  OBVIOUS
<1>1. FirstArea \subseteq Points /\ Blank \in [Points -> Colors]
  BY DEF Points, Blank
<1>2. ConnectionTypes
  BY <1>1 DEF Init, ConnectionTypes
<1>3. CoreTypes
  BY <1>1 DEF Init, CoreTypes, NoRead, Updates
<1>4. window \in Buffers
  BY <1>1 DEF Init, Buffers, Blank
<1>5. NotifierTypes
  BY <1>4 DEF Init, NotifierTypes
<1>6. QED BY <1>2, <1>3, <1>5 DEF TypeOK

LEMMA ServerTypes ==
  ASSUME TypeOK, Draw \/ Resize \/ ReadPixelFormat \/ Answer
  PROVE TypeOK'
<1>1. CASE Draw
  <2>1. CoreTypes' /\ NotifierTypes'
    BY <1>1 DEF Draw, TypeOK, CoreTypes, NotifierTypes, coreVars, userVars, notifierVars
  <2>2. PICK p \in server.area, color \in Colors :
               server' = [server EXCEPT !.pixels[p] = color, !.owed = @ \cup {p}]
    BY <1>1 DEF Draw
  <2>3. server.area \subseteq Points
    BY DEF TypeOK, ConnectionTypes, Points
  <2>4. p \in Points
    BY <2>3
  <2>5. server' \in [area : Areas, pixels : [Points -> Colors], format : Formats,
                     owed : SUBSET Points, resized : BOOLEAN]
    BY <2>2, <2>4 DEF TypeOK, ConnectionTypes
  <2>6. server'.owed \subseteq server'.area
    BY <2>2 DEF TypeOK, ConnectionTypes
  <2>7. changes' \in 0..MaxChanges /\ settings' \in 0..MaxSettings
    <3>1. changes < MaxChanges /\ changes' = changes + 1 /\ settings' = settings
      BY <1>1 DEF Draw, userVars
    <3>2. changes \in 0..MaxChanges /\ settings \in 0..MaxSettings
      BY DEF TypeOK, ConnectionTypes
    <3>3. QED BY <3>1, <3>2
  <2>8. requests' \in Seq(Requests) /\ updates' \in Seq(Updates)
    BY <1>1 DEF Draw, TypeOK, ConnectionTypes
  <2>9. QED BY <2>1, <2>5, <2>6, <2>7, <2>8 DEF TypeOK, ConnectionTypes
<1>2. CASE Resize
  <2>1. CoreTypes' /\ NotifierTypes'
    BY <1>2 DEF Resize, TypeOK, CoreTypes, NotifierTypes, coreVars, userVars, notifierVars
  <2>2. PICK area \in Areas :
               server' = [server EXCEPT !.area = area, !.owed = area, !.resized = TRUE]
    BY <1>2 DEF Resize
  <2>3. area \subseteq Points
    BY DEF Points
  <2>4. server' \in [area : Areas, pixels : [Points -> Colors], format : Formats,
                     owed : SUBSET Points, resized : BOOLEAN]
    BY <2>2, <2>3 DEF TypeOK, ConnectionTypes
  <2>5. server'.owed \subseteq server'.area
    BY <2>2 DEF TypeOK, ConnectionTypes
  <2>6. changes' \in 0..MaxChanges /\ settings' \in 0..MaxSettings
    <3>1. changes < MaxChanges /\ changes' = changes + 1 /\ settings' = settings
      BY <1>2 DEF Resize, userVars
    <3>2. changes \in 0..MaxChanges /\ settings \in 0..MaxSettings
      BY DEF TypeOK, ConnectionTypes
    <3>3. QED BY <3>1, <3>2
  <2>7. requests' \in Seq(Requests) /\ updates' \in Seq(Updates)
    BY <1>2 DEF Resize, TypeOK, ConnectionTypes
  <2>8. QED BY <2>1, <2>4, <2>5, <2>6, <2>7 DEF TypeOK, ConnectionTypes
<1>3. CASE ReadPixelFormat
  <2>1. CoreTypes' /\ NotifierTypes'
    BY <1>3 DEF ReadPixelFormat, TypeOK, CoreTypes, NotifierTypes, coreVars, userVars,
                notifierVars
  <2>2. Head(requests) \in Requests /\ Tail(requests) \in Seq(Requests)
    BY <1>3 DEF ReadPixelFormat, TypeOK, ConnectionTypes
  <2>3. Head(requests).format \in Formats
    BY <1>3, <2>2 DEF ReadPixelFormat, Requests
  <2>4. ConnectionTypes'
    BY <1>3, <2>2, <2>3 DEF ReadPixelFormat, TypeOK, ConnectionTypes, userVars
  <2>5. QED BY <2>1, <2>4 DEF TypeOK
<1>4. CASE Answer
  <2>1. CoreTypes' /\ NotifierTypes'
    BY <1>4 DEF Answer, TypeOK, CoreTypes, NotifierTypes, coreVars, userVars, notifierVars
  <2> DEFINE region == IF server.resized THEN {}
                       ELSE Head(requests).area \cap
                              (IF Head(requests).incremental THEN server.owed
                                                             ELSE server.area)
             update == [resized |-> server.resized, area |-> server.area, left |-> region,
                        pixels |-> server.pixels, format |-> server.format, last |-> {}]
  <2>2. Tail(requests) \in Seq(Requests)
    BY <1>4 DEF Answer, TypeOK, ConnectionTypes
  <2>3. region \subseteq Points
    BY DEF TypeOK, ConnectionTypes, Points
  <2>4. update \in Updates
    BY <2>3 DEF TypeOK, ConnectionTypes, Updates
  <2>5. updates' \in Seq(Updates)
    BY <1>4, <2>4 DEF Answer, TypeOK, ConnectionTypes
  <2>6. /\ server' \in [area : Areas, pixels : [Points -> Colors], format : Formats,
                        owed : SUBSET Points, resized : BOOLEAN]
        /\ server'.owed \subseteq server'.area
    BY <1>4 DEF Answer, TypeOK, ConnectionTypes
  <2>7. ConnectionTypes'
    BY <1>4, <2>2, <2>5, <2>6 DEF Answer, TypeOK, ConnectionTypes, userVars
  <2>8. QED BY <2>1, <2>7 DEF TypeOK
<1>5. QED BY <1>1, <1>2, <1>3, <1>4

LEMMA ReadingTypes ==
  ASSUME TypeOK,
         \/ ReadUpdate \/ ReadDesktopSize \/ ReadRectangle \/ OnUpdate \/ EndUpdate
         \/ CheckFreeze
  PROVE TypeOK'
<1>1. CASE ReadUpdate
  <2>1. Head(updates) \in Updates /\ Tail(updates) \in Seq(Updates)
    BY <1>1 DEF ReadUpdate, TypeOK, ConnectionTypes
  <2>2. ConnectionTypes'
    BY <1>1, <2>1 DEF ReadUpdate, serverVars, userVars, TypeOK, ConnectionTypes
  <2>3. CoreTypes'
    BY <1>1, <2>1 DEF ReadUpdate, userVars, TypeOK, CoreTypes
  <2>4. NotifierTypes'
    BY <1>1, <2>1 DEF ReadUpdate, notifierVars, TypeOK, NotifierTypes
  <2>5. QED BY <2>2, <2>3, <2>4 DEF TypeOK
<1>2. CASE ReadDesktopSize
  <2>1. Blank \in [Points -> Colors] /\ reading.area \in Areas
    BY DEF TypeOK, CoreTypes, Updates, Blank
  <2>2. fb' \in [area : Areas, pixels : [Points -> Colors], format : Formats]
    BY <1>2, <2>1 DEF ReadDesktopSize, SetFbProperties, TypeOK, CoreTypes
  <2>3. reading' \in Updates
    BY <1>2 DEF ReadDesktopSize, TypeOK, CoreTypes, Updates
  <2>4. CoreTypes'
    BY <1>2, <2>2, <2>3 DEF ReadDesktopSize, SetFbProperties, TypeOK, CoreTypes, userVars
  <2>5. ConnectionTypes'
    BY <1>2 DEF ReadDesktopSize, TypeOK, ConnectionTypes, serverVars, userVars
  <2>6. NotifierTypes'
    BY <1>2 DEF ReadDesktopSize, SetFbProperties, OnPropertiesFb, TypeOK, NotifierTypes
  <2>7. QED BY <2>4, <2>5, <2>6 DEF TypeOK
<1>3. CASE ReadRectangle
  <2>1. PICK p \in reading.left :
               /\ reading' = [reading EXCEPT !.left = @ \ {p}, !.last = {p}]
               /\ IF p \in fb.area
                  THEN /\ fb' = [fb EXCEPT !.pixels[p] = reading.pixels[p]]
                       /\ at' = [at EXCEPT !.core = "notify"]
                  ELSE fb' = fb /\ at' = [at EXCEPT !.core = "failed"]
    BY <1>3 DEF ReadRectangle
  <2>2. p \in Points /\ reading' \in Updates
    BY <2>1 DEF TypeOK, CoreTypes, Updates
  <2>3. fb' \in [area : Areas, pixels : [Points -> Colors], format : Formats]
    BY <2>1, <2>2 DEF TypeOK, CoreTypes, Updates
  <2>4. ConnectionTypes'
    BY <1>3, <2>1, <2>2, <2>3 DEF ReadRectangle, serverVars, userVars, TypeOK,
                                  ConnectionTypes
  <2>5. CoreTypes'
    BY <1>3, <2>1, <2>2, <2>3 DEF ReadRectangle, userVars, TypeOK, CoreTypes
  <2>6. NotifierTypes'
    BY <1>3, <2>1, <2>2, <2>3 DEF ReadRectangle, notifierVars, TypeOK, NotifierTypes
  <2>7. QED BY <2>4, <2>5, <2>6 DEF TypeOK
<1>4. CASE OnUpdate
  <2>1. reading' \in Updates
    BY <1>4 DEF OnUpdate, TypeOK, CoreTypes, Updates
  <2>2. notifier' \in [region : SUBSET Points, size : BOOLEAN, cursor : BOOLEAN,
                       event : BOOLEAN]
    BY <1>4 DEF OnUpdate, TypeOK, CoreTypes, NotifierTypes, Updates
  <2>3. ConnectionTypes'
    BY <1>4, <2>1, <2>2 DEF OnUpdate, serverVars, userVars, TypeOK, ConnectionTypes
  <2>4. CoreTypes'
    BY <1>4, <2>1, <2>2 DEF OnUpdate, userVars, TypeOK, CoreTypes
  <2>5. NotifierTypes'
    BY <1>4, <2>1, <2>2 DEF OnUpdate, TypeOK, NotifierTypes
  <2>6. QED BY <2>3, <2>4, <2>5 DEF TypeOK
<1>5. CASE EndUpdate
  <2>1. NoRead \in Updates
    BY DEF NoRead, Updates, Blank
  <2>2. ConnectionTypes'
    BY <1>5, <2>1 DEF EndUpdate, serverVars, userVars, TypeOK, ConnectionTypes
  <2>3. CoreTypes'
    BY <1>5, <2>1 DEF EndUpdate, userVars, TypeOK, CoreTypes
  <2>4. NotifierTypes'
    BY <1>5, <2>1 DEF EndUpdate, notifierVars, TypeOK, NotifierTypes
  <2>5. QED BY <2>2, <2>3, <2>4 DEF TypeOK
<1>6. CASE CheckFreeze
  <2>1. ConnectionTypes'
    BY <1>6 DEF CheckFreeze, serverVars, userVars, TypeOK, ConnectionTypes
  <2>2. CoreTypes'
    BY <1>6 DEF CheckFreeze, userVars, TypeOK, CoreTypes
  <2>3. NotifierTypes'
    BY <1>6 DEF CheckFreeze, notifierVars, TypeOK, NotifierTypes
  <2>4. QED BY <2>1, <2>2, <2>3 DEF TypeOK
<1>7. QED BY <1>1, <1>2, <1>3, <1>4, <1>5, <1>6

LEMMA RequestTypes == TypeOK => \A i \in BOOLEAN : Request(i) \in Requests
BY DEF Request, Requests, TypeOK, CoreTypes

LEMMA AppendTypes ==
  ASSUME NEW S, NEW s \in Seq(S), NEW e \in S
  PROVE Append(s, e) \in Seq(S)
OBVIOUS

LEMMA RequesterTypes ==
  ASSUME TypeOK, NEW t \in Requester, SendFbUpdateRequest(t)
  PROVE TypeOK'
<1>1. CASE TakeNeed(t)
  <2>1. ConnectionTypes'
    BY <1>1 DEF TakeNeed, Requester, serverVars, userVars, TypeOK, ConnectionTypes
  <2>2. CoreTypes'
    BY <1>1 DEF TakeNeed, Requester, userVars, TypeOK, CoreTypes
  <2>3. NotifierTypes'
    BY <1>1 DEF TakeNeed, Requester, notifierVars, TypeOK, NotifierTypes
  <2>4. QED BY <2>1, <2>2, <2>3 DEF TypeOK
<1>2. CASE UpdatePixelFormat(t)
  <2>1. Blank \in [Points -> Colors]
    BY DEF Blank
  <2>2. fb' \in [area : Areas, pixels : [Points -> Colors], format : Formats]
    BY <1>2, <2>1 DEF UpdatePixelFormat, SetFbProperties, TypeOK, CoreTypes
  <2>3. CoreTypes'
    BY <1>2, <2>2 DEF UpdatePixelFormat, SetFbProperties, Requester, TypeOK, CoreTypes
  <2>4. [kind |-> "format", format |-> wanted.format] \in Requests
    BY DEF TypeOK, CoreTypes, Requests
  <2>5. requests' \in Seq(Requests)
    <3>1. requests \in Seq(Requests)
      BY DEF TypeOK, ConnectionTypes
    <3>2. Append(requests, [kind |-> "format", format |-> wanted.format]) \in Seq(Requests)
      BY <2>4, <3>1, AppendTypes
    <3>3. QED BY <1>2, <3>1, <3>2 DEF UpdatePixelFormat
  <2>6. ConnectionTypes'
    BY <1>2, <2>5 DEF UpdatePixelFormat, TypeOK, ConnectionTypes, serverVars
  <2>7. NotifierTypes'
    BY <1>2 DEF UpdatePixelFormat, SetFbProperties, OnPropertiesFb, TypeOK, NotifierTypes
  <2>8. QED BY <2>3, <2>6, <2>7 DEF TypeOK
<1>3. CASE TakeRefreshing(t)
  <2>1. ConnectionTypes'
    BY <1>3 DEF TakeRefreshing, Requester, serverVars, userVars, TypeOK, ConnectionTypes
  <2>2. CoreTypes'
    BY <1>3 DEF TakeRefreshing, Requester, userVars, TypeOK, CoreTypes
  <2>3. NotifierTypes'
    BY <1>3 DEF TakeRefreshing, Requester, notifierVars, TypeOK, NotifierTypes
  <2>4. QED BY <2>1, <2>2, <2>3 DEF TypeOK
<1>4. CASE SendRequest(t)
  <2>1. full[t] \in BOOLEAN /\ requests \in Seq(Requests)
    BY DEF Requester, TypeOK, CoreTypes, ConnectionTypes
  <2>2. Append(requests, Request(~full[t])) \in Seq(Requests)
    BY <2>1, RequestTypes, AppendTypes
  <2>3. requests' \in Seq(Requests)
    BY <1>4, <2>1, <2>2 DEF SendRequest
  <2>4. ConnectionTypes'
    BY <1>4, <2>3 DEF SendRequest, Requester, serverVars, userVars, TypeOK, ConnectionTypes
  <2>5. CoreTypes'
    BY <1>4, <2>3 DEF SendRequest, Requester, userVars, TypeOK, CoreTypes
  <2>6. NotifierTypes'
    BY <1>4, <2>3 DEF SendRequest, Requester, notifierVars, TypeOK, NotifierTypes
  <2>7. QED BY <2>4, <2>5, <2>6 DEF TypeOK
<1>5. QED BY <1>1, <1>2, <1>3, <1>4 DEF SendFbUpdateRequest

LEMMA OtherTypes ==
  ASSUME TypeOK, User \/ ShowPointer \/ Updater \/ Notifier
  PROVE TypeOK'
<1>1. CASE User
  <2>1. CASE SetPixelFormat
    <3>1. ConnectionTypes'
      BY <2>1 DEF SetPixelFormat, MayAct, serverVars, TypeOK, ConnectionTypes
    <3>2. CoreTypes'
      BY <2>1 DEF SetPixelFormat, MayAct, coreVars, TypeOK, CoreTypes
    <3>3. NotifierTypes'
      BY <2>1 DEF SetPixelFormat, MayAct, notifierVars, TypeOK, NotifierTypes
    <3>4. QED BY <3>1, <3>2, <3>3 DEF TypeOK
  <2>2. CASE RefreshFramebuffer
    <3>1. ConnectionTypes'
      BY <2>2 DEF RefreshFramebuffer, MayAct, serverVars, TypeOK, ConnectionTypes
    <3>2. CoreTypes'
      BY <2>2 DEF RefreshFramebuffer, MayAct, TypeOK, CoreTypes
    <3>3. NotifierTypes'
      BY <2>2 DEF RefreshFramebuffer, MayAct, notifierVars, TypeOK, NotifierTypes
    <3>4. QED BY <3>1, <3>2, <3>3 DEF TypeOK
  <2>3. CASE StopUpdating
    <3>1. ConnectionTypes'
      BY <2>3 DEF StopUpdating, MayAct, serverVars, TypeOK, ConnectionTypes
    <3>2. CoreTypes'
      BY <2>3 DEF StopUpdating, MayAct, TypeOK, CoreTypes
    <3>3. NotifierTypes'
      BY <2>3 DEF StopUpdating, MayAct, notifierVars, TypeOK, NotifierTypes
    <3>4. QED BY <3>1, <3>2, <3>3 DEF TypeOK
  <2>4. CASE DeferUpdateRequests
    <3>1. ConnectionTypes'
      BY <2>4 DEF DeferUpdateRequests, MayAct, serverVars, TypeOK, ConnectionTypes
    <3>2. CoreTypes'
      BY <2>4 DEF DeferUpdateRequests, MayAct, coreVars, TypeOK, CoreTypes
    <3>3. NotifierTypes'
      BY <2>4 DEF DeferUpdateRequests, MayAct, notifierVars, TypeOK, NotifierTypes
    <3>4. QED BY <3>1, <3>2, <3>3 DEF TypeOK
  <2>5. CASE MovePointer
    <3>1. ConnectionTypes'
      BY <2>5 DEF MovePointer, MayAct, serverVars, TypeOK, ConnectionTypes
    <3>2. CoreTypes'
      BY <2>5 DEF MovePointer, MayAct, TypeOK, CoreTypes
    <3>3. NotifierTypes'
      BY <2>5 DEF MovePointer, MayAct, TypeOK, NotifierTypes
    <3>4. QED BY <3>1, <3>2, <3>3 DEF TypeOK
  <2>6. QED BY <1>1, <2>1, <2>2, <2>3, <2>4, <2>5 DEF User
<1>2. CASE ShowPointer
  <2>1. ConnectionTypes'
    BY <1>2 DEF ShowPointer, serverVars, userVars, TypeOK, ConnectionTypes
  <2>2. CoreTypes'
    BY <1>2 DEF ShowPointer, userVars, TypeOK, CoreTypes
  <2>3. NotifierTypes'
    BY <1>2 DEF ShowPointer, TypeOK, NotifierTypes
  <2>4. QED BY <2>1, <2>2, <2>3 DEF TypeOK
<1>3. CASE IsUpdated
  <2>1. ConnectionTypes'
    BY <1>3 DEF IsUpdated, serverVars, userVars, TypeOK, ConnectionTypes
  <2>2. CoreTypes'
    BY <1>3 DEF IsUpdated, userVars, TypeOK, CoreTypes
  <2>3. NotifierTypes'
    BY <1>3 DEF IsUpdated, notifierVars, TypeOK, NotifierTypes
  <2>4. QED BY <2>1, <2>2, <2>3 DEF TypeOK
<1>4. CASE SendDeferredRequest
  <2>1. requests \in Seq(Requests)
    BY DEF TypeOK, ConnectionTypes
  <2>2. Append(requests, Request(TRUE)) \in Seq(Requests)
    BY <2>1, RequestTypes, AppendTypes
  <2>3. requests' \in Seq(Requests)
    BY <1>4, <2>2 DEF SendDeferredRequest
  <2>4. ConnectionTypes'
    BY <1>4, <2>3 DEF SendDeferredRequest, serverVars, userVars, TypeOK, ConnectionTypes
  <2>5. CoreTypes'
    BY <1>4, <2>3 DEF SendDeferredRequest, userVars, TypeOK, CoreTypes
  <2>6. NotifierTypes'
    BY <1>4, <2>3 DEF SendDeferredRequest, notifierVars, TypeOK, NotifierTypes
  <2>7. QED BY <2>4, <2>5, <2>6 DEF TypeOK
<1>5. CASE TakeUpdates
  <2>1. ConnectionTypes'
    BY <1>5 DEF TakeUpdates, ToPaint, serverVars, userVars, TypeOK, ConnectionTypes
  <2>2. CoreTypes'
    BY <1>5 DEF TakeUpdates, ToPaint, userVars, TypeOK, CoreTypes
  <2>3. NotifierTypes'
    BY <1>5 DEF TakeUpdates, ToPaint, TypeOK, NotifierTypes
  <2>4. QED BY <2>1, <2>2, <2>3 DEF TypeOK
<1>6. CASE ShowNewSize
  <2>1. window' \in Buffers
    BY <1>6 DEF ShowNewSize, TypeOK, CoreTypes, Buffers
  <2>2. ConnectionTypes'
    BY <1>6, <2>1 DEF ShowNewSize, ToPaint, serverVars, userVars, TypeOK, ConnectionTypes
  <2>3. CoreTypes'
    BY <1>6, <2>1 DEF ShowNewSize, ToPaint, userVars, TypeOK, CoreTypes
  <2>4. NotifierTypes'
    BY <1>6, <2>1 DEF ShowNewSize, ToPaint, TypeOK, NotifierTypes
  <2>5. QED BY <2>2, <2>3, <2>4 DEF TypeOK
<1>7. CASE ShowUpdates
  <2>1. \A p \in Points : Painted(p) \in Colors \cup {Cursor}
    BY DEF Painted, TypeOK, CoreTypes
  <2>2. window' \in Buffers
    BY <1>7, <2>1 DEF ShowUpdates, TypeOK, NotifierTypes, Buffers
  <2>3. oldPosition' \in SUBSET Points
    BY <1>7 DEF ShowUpdates, TypeOK, NotifierTypes
  <2>4. ConnectionTypes'
    BY <1>7, <2>2, <2>3 DEF ShowUpdates, serverVars, userVars, TypeOK, ConnectionTypes
  <2>5. CoreTypes'
    BY <1>7, <2>2, <2>3 DEF ShowUpdates, userVars, TypeOK, CoreTypes
  <2>6. NotifierTypes'
    BY <1>7, <2>2, <2>3 DEF ShowUpdates, TypeOK, NotifierTypes
  <2>7. QED BY <2>4, <2>5, <2>6 DEF TypeOK
<1>8. CASE Wake
  <2>1. ConnectionTypes'
    BY <1>8 DEF Wake, serverVars, userVars, TypeOK, ConnectionTypes
  <2>2. CoreTypes'
    BY <1>8 DEF Wake, userVars, TypeOK, CoreTypes
  <2>3. NotifierTypes'
    BY <1>8 DEF Wake, TypeOK, NotifierTypes
  <2>4. QED BY <2>1, <2>2, <2>3 DEF TypeOK
<1>9. QED BY <1>1, <1>2, <1>3, <1>4, <1>5, <1>6, <1>7, <1>8 DEF Updater, Notifier

LEMMA StutterTypes == TypeOK /\ UNCHANGED vars => TypeOK'
BY DEF vars, serverVars, coreVars, userVars, notifierVars, TypeOK, ConnectionTypes, CoreTypes,
       NotifierTypes

-----------------------------------------------------------------------------
(* The messages to the server.                                             *)

LEMMA AppendMessage ==
  ASSUME NEW s \in Seq(Requests), NEW m \in Requests, FormatsFirst(s), ~EndsInRequest(s)
  PROVE /\ FormatsFirst(Append(s, m))
        /\ EndsInRequest(Append(s, m)) <=> m.kind = "request"
        /\ Append(s, m)[Len(Append(s, m))] = m
<1>1. \A i \in 1..Len(s) : s[i] \in Requests /\ s[i].kind \in {"request", "format"}
  BY DEF Requests
<1>2. \A i \in 1..Len(s) : s[i].kind = "format"
  BY <1>1 DEF FormatsFirst, EndsInRequest
<1>3. QED BY <1>2 DEF FormatsFirst, EndsInRequest

LEMMA AppendFormat ==
  ASSUME NEW s \in Seq(Requests), NEW m \in Requests, m.kind = "format", NEW format
  PROVE FormatBecomes(Append(s, m), format, m.format)
<1> DEFINE t == Append(s, m)
<1>1. /\ Len(t) = Len(s) + 1 /\ Len(s) \in Nat /\ t[Len(t)] = m
      /\ Len(t) \in 1..Len(t) /\ \A i \in 1..Len(t) : i # Len(t) => Len(t) > i
  OBVIOUS
<1>2. QED BY <1>1 DEF FormatBecomes

LEMMA AppendRequest ==
  ASSUME NEW s \in Seq(Requests), NEW m \in Requests, m.kind = "request",
         NEW format, NEW f, FormatBecomes(s, format, f)
  PROVE FormatBecomes(Append(s, m), format, f)
<1> DEFINE t == Append(s, m)
<1>1. /\ Len(t) = Len(s) + 1 /\ Len(s) \in Nat /\ t[Len(t)] = m
      /\ \A i \in 1..Len(s) : t[i] = s[i] /\ i \in 1..Len(t)
      /\ \A i \in 1..Len(t) : i = Len(t) \/ i \in 1..Len(s)
  OBVIOUS
<1>2. QED BY <1>1 DEF FormatBecomes

LEMMA TailOfMessages ==
  ASSUME NEW s \in Seq(Requests), s # <<>>
  PROVE /\ Tail(s) \in Seq(Requests) /\ Len(s) \in Nat /\ Len(s) > 0
        /\ Len(Tail(s)) \in Nat /\ Len(Tail(s)) = Len(s) - 1 /\ Head(s) = s[1]
        /\ Len(s) = 1 <=> Tail(s) = <<>>
        /\ \A i \in 1..Len(Tail(s)) : Tail(s)[i] = s[i + 1]
<1>1. Tail(s) \in Seq(Requests) /\ Len(s) \in Nat /\ Len(s) > 0
  BY EmptySeq
<1>2. Len(Tail(s)) = Len(s) - 1 /\ Head(s) = s[1]
  BY <1>1
<1>3. \A i \in 1..Len(Tail(s)) : Tail(s)[i] = s[i + 1]
  BY <1>1, <1>2
<1>4. Len(Tail(s)) = 0 <=> Tail(s) = <<>>
  BY <1>1, EmptySeq
<1>5. QED BY <1>1, <1>2, <1>3, <1>4

LEMMA TailAfterFormat ==
  ASSUME NEW s \in Seq(Requests), s # <<>>, Head(s).kind = "format", FormatsFirst(s)
  PROVE /\ FormatsFirst(Tail(s))
        /\ EndsInRequest(Tail(s)) <=> EndsInRequest(s)
        /\ EndsInRequest(s) => Tail(s)[Len(Tail(s))] = s[Len(s)]
<1>1. FormatsFirst(Tail(s))
  BY TailOfMessages DEF FormatsFirst
<1>2. CASE Len(s) = 1
  <2>1. Tail(s) = <<>> /\ s[Len(s)] = Head(s)
    BY <1>2, TailOfMessages
  <2>2. ~EndsInRequest(s) /\ ~EndsInRequest(Tail(s))
    BY <2>1 DEF EndsInRequest
  <2>3. QED BY <1>1, <2>2 DEF EndsInRequest
<1>3. CASE Len(s) > 1
  <2>1. Tail(s) # <<>> /\ Tail(s)[Len(Tail(s))] = s[Len(s)]
    BY <1>3, TailOfMessages
  <2>2. EndsInRequest(Tail(s)) <=> EndsInRequest(s)
    BY <2>1 DEF EndsInRequest
  <2>3. QED BY <1>1, <2>1, <2>2
<1>4. Len(s) = 1 \/ Len(s) > 1
  BY TailOfMessages
<1>5. QED BY <1>2, <1>3, <1>4

LEMMA FormatAfterFormat ==
  ASSUME NEW s \in Seq(Requests), s # <<>>, Head(s).kind = "format",
         NEW format, NEW f, FormatBecomes(s, format, f)
  PROVE FormatBecomes(Tail(s), Head(s).format, f)
<1> DEFINE t == Tail(s)
<1>1. /\ Len(t) \in Nat /\ Len(s) = Len(t) + 1 /\ s[1] = Head(s)
      /\ \A i \in 1..Len(t) : t[i] = s[i + 1] /\ i + 1 \in 1..Len(s)
      /\ \A i \in 1..Len(s) : i = 1 \/ (i - 1 \in 1..Len(t) /\ s[i] = t[i - 1])
  BY TailOfMessages
<1>2. ASSUME NEW i \in 1..Len(t), t[i].kind = "format",
             \A j \in 1..Len(t) : j > i => t[j].kind = "request"
      PROVE t[i].format = f
  <2>1. i + 1 \in 1..Len(s) /\ s[i + 1].kind = "format" /\ i \in Nat
    BY <1>1, <1>2
  <2>2. ASSUME NEW j \in 1..Len(s), j > i + 1
        PROVE s[j].kind = "request"
    <3>1. j - 1 \in 1..Len(t) /\ j - 1 > i /\ s[j] = t[j - 1]
      BY <1>1, <2>1, <2>2
    <3>2. QED BY <1>2, <3>1
  <2>3. s[i + 1].format = f
    BY <2>1, <2>2 DEF FormatBecomes
  <2>4. QED BY <1>1, <2>3
<1>3. ASSUME \A i \in 1..Len(t) : t[i].kind = "request"
      PROVE Head(s).format = f
  <2>1. ASSUME NEW j \in 1..Len(s), j > 1
        PROVE s[j].kind = "request"
    <3>1. j - 1 \in 1..Len(t) /\ s[j] = t[j - 1]
      BY <1>1, <2>1
    <3>2. QED BY <1>3, <3>1
  <2>2. 1 \in 1..Len(s) /\ s[1].kind = "format"
    BY <1>1
  <2>3. QED BY <1>1, <2>1, <2>2 DEF FormatBecomes
<1>4. QED BY <1>2, <1>3 DEF FormatBecomes

LEMMA TailAfterRequest ==
  ASSUME NEW s \in Seq(Requests), s # <<>>, Head(s).kind = "request", FormatsFirst(s),
         NEW format, NEW f, FormatBecomes(s, format, f)
  PROVE /\ Tail(s) = <<>> /\ Head(s) = s[Len(s)] /\ EndsInRequest(s)
        /\ format = f
<1>1. Len(s) \in Nat /\ Len(s) > 0 /\ s[1] = Head(s) /\ (Len(s) = 1 <=> Tail(s) = <<>>)
  BY TailOfMessages
<1>2. Len(s) = 1
  BY <1>1 DEF FormatsFirst
<1>3. format = f
  BY <1>1, <1>2 DEF FormatBecomes
<1>4. QED BY <1>1, <1>2, <1>3 DEF EndsInRequest

LEMMA NoMessages == /\ FormatsFirst(<<>>) /\ ~EndsInRequest(<<>>)
                    /\ \A f : FormatBecomes(<<>>, f, f)
BY DEF FormatsFirst, EndsInRequest, FormatBecomes

-----------------------------------------------------------------------------
(* Requests and updates.                                                   *)

Protocol == OneTurn /\ FormatArrives /\ SizeArrives /\ UpdatesFit

LEMMA InitProtocol == Init => Protocol
<1> SUFFICES ASSUME Init
             PROVE Protocol
  OBVIOUS
<1>1. requests = <<>> /\ updates = <<>> /\ reading.left = {} /\ reading.resized = FALSE
  BY DEF Init, NoRead
<1>2. /\ at.core = "take" /\ at.ui = "idle" /\ at.updater = "idle" /\ need /\ ~received
      /\ server.area = fb.area /\ server.format = fb.format
  BY DEF Init
<1>3. OneTurn
  BY <1>1, <1>2, NoMessages DEF OneTurn, Asks, IsReading, Pending
<1>4. FormatArrives
  BY <1>1, <1>2, NoMessages DEF FormatArrives
<1>5. SizeArrives
  BY <1>1, <1>2, NoMessages DEF SizeArrives, Pending
<1>6. UpdatesFit
  BY <1>1, <1>2 DEF UpdatesFit
<1>7. QED BY <1>3, <1>4, <1>5, <1>6 DEF Protocol

(* Most steps leave the connection, the frame buffer and the turn alone.   *)
LEMMA QuietProtocol ==
  ASSUME Protocol, UNCHANGED <<requests, updates, fb, reading, need, received>>,
         server'.area = server.area, server'.format = server.format,
         server'.resized = server.resized,
         at'.core = at.core, at'.updater = at.updater, Asks("ui")' <=> Asks("ui")
  PROVE Protocol'
<1>1. (Asks("core")' <=> Asks("core")) /\ (IsReading' <=> IsReading) /\ (Pending' <=> Pending)
  BY DEF Asks, IsReading, Pending
<1>2. OneTurn'
  BY <1>1 DEF Protocol, OneTurn
<1>3. FormatArrives'
  BY DEF Protocol, FormatArrives
<1>4. SizeArrives'
  BY <1>1 DEF Protocol, SizeArrives
<1>5. UpdatesFit'
  BY DEF Protocol, UpdatesFit, Fits
<1>6. QED BY <1>2, <1>3, <1>4, <1>5 DEF Protocol

LEMMA DrawProtocol ==
  ASSUME TypeOK, Protocol, Draw
  PROVE Protocol'
<1>1. /\ server'.area = server.area /\ server'.format = server.format
      /\ server'.resized = server.resized
  BY DEF TypeOK, ConnectionTypes, Draw
<1>2. UNCHANGED <<requests, updates, fb, reading, need, received, at>>
  BY DEF Draw, coreVars
<1>3. QED BY <1>1, <1>2, QuietProtocol DEF Asks

LEMMA ResizeProtocol ==
  ASSUME TypeOK, Protocol, Resize
  PROVE Protocol'
<1>1. server'.format = server.format /\ server'.resized
  BY DEF TypeOK, ConnectionTypes, Resize
<1>2. UNCHANGED <<requests, updates, fb, reading, need, received, at>>
  BY DEF Resize, coreVars
<1>3. (\A t \in Requester : Asks(t)' <=> Asks(t)) /\ (IsReading' <=> IsReading)
      /\ (Pending' <=> Pending)
  BY <1>2 DEF Asks, IsReading, Pending
<1>4. OneTurn'
  BY <1>2, <1>3 DEF Protocol, OneTurn, Requester
<1>5. FormatArrives'
  BY <1>1, <1>2 DEF Protocol, FormatArrives
<1>6. SizeArrives'
  BY <1>1, <1>2, <1>3 DEF Protocol, SizeArrives
<1>7. UpdatesFit'
  BY <1>2 DEF Protocol, UpdatesFit, Fits
<1>8. QED BY <1>4, <1>5, <1>6, <1>7 DEF Protocol

LEMMA ReadPixelFormatProtocol ==
  ASSUME TypeOK, Protocol, ReadPixelFormat
  PROVE Protocol'
<1>1. requests \in Seq(Requests) /\ requests # <<>> /\ Head(requests).kind = "format"
      /\ requests' = Tail(requests)
  BY DEF TypeOK, ConnectionTypes, ReadPixelFormat
<1>2. FormatsFirst(requests)
  BY DEF Protocol, OneTurn
<1>3. /\ FormatsFirst(requests') /\ (Pending' <=> Pending)
      /\ Pending => requests'[Len(requests')] = requests[Len(requests)]
  BY <1>1, <1>2, TailAfterFormat DEF Pending
<1>4. /\ server'.format = Head(requests).format /\ server'.area = server.area
      /\ server'.resized = server.resized
  BY DEF TypeOK, ConnectionTypes, ReadPixelFormat
<1>5. UNCHANGED <<updates, fb, reading, need, received, at>>
  BY DEF ReadPixelFormat, coreVars
<1>6. (\A t \in Requester : Asks(t)' <=> Asks(t)) /\ (IsReading' <=> IsReading)
  BY <1>5 DEF Asks, IsReading
<1>7. OneTurn'
  BY <1>3, <1>5, <1>6 DEF Protocol, OneTurn, Requester
<1>8. FormatArrives'
  BY <1>1, <1>4, <1>5, FormatAfterFormat DEF Protocol, FormatArrives
<1>9. SizeArrives'
  BY <1>3, <1>4, <1>5, <1>6 DEF Protocol, SizeArrives
<1>10. UpdatesFit'
  BY <1>5 DEF Protocol, UpdatesFit, Fits
<1>11. QED BY <1>7, <1>8, <1>9, <1>10 DEF Protocol

(* What the server answers.                                                *)
AnswerRegion ==
  IF server.resized THEN {}
  ELSE Head(requests).area \cap (IF Head(requests).incremental THEN server.owed
                                                               ELSE server.area)

AnswerUpdate ==
  [resized |-> server.resized, area |-> server.area, left |-> AnswerRegion,
   pixels |-> server.pixels, format |-> server.format, last |-> {}]

LEMMA AnswerFacts ==
  ASSUME TypeOK, Protocol, Answer
  PROVE /\ Pending /\ Head(requests).area = fb.area /\ server.format = fb.format
        /\ requests' = <<>> /\ updates = <<>> /\ updates' = <<AnswerUpdate>>
        /\ server' = [server EXCEPT !.resized = FALSE, !.owed = @ \ AnswerRegion]
        /\ ~IsReading /\ ~need /\ ~received /\ at.updater # "send"
        /\ ~Asks("core") /\ ~Asks("ui")
<1>1. /\ requests \in Seq(Requests) /\ requests # <<>> /\ Head(requests).kind = "request"
      /\ requests' = Tail(requests) /\ updates' = Append(updates, AnswerUpdate)
      /\ server' = [server EXCEPT !.resized = FALSE, !.owed = @ \ AnswerRegion]
  BY DEF TypeOK, ConnectionTypes, Answer, AnswerUpdate, AnswerRegion
<1>2. FormatsFirst(requests) /\ FormatBecomes(requests, server.format, fb.format)
  BY DEF Protocol, OneTurn, FormatArrives
<1>3. /\ requests' = <<>> /\ Head(requests) = requests[Len(requests)] /\ Pending
      /\ server.format = fb.format
  BY <1>1, <1>2, TailAfterRequest DEF Pending
<1>4. updates = <<>> /\ ~IsReading /\ ~need /\ ~received /\ at.updater # "send"
      /\ ~Asks("core") /\ ~Asks("ui")
  BY <1>3 DEF Protocol, OneTurn
<1>5. Head(requests).area = fb.area
  BY <1>3 DEF Protocol, SizeArrives
<1>6. QED BY <1>1, <1>3, <1>4, <1>5

LEMMA OneUpdate == \A u : Len(<<u>>) = 1 /\ <<u>> # <<>> /\ <<u>>[1] = u
OBVIOUS

LEMMA AnswerProtocol ==
  ASSUME TypeOK, Protocol, Answer
  PROVE Protocol'
<1>1. UNCHANGED <<fb, reading, need, received, at>>
  BY DEF Answer, coreVars
<1>2. (\A t \in Requester : Asks(t)' <=> Asks(t)) /\ (IsReading' <=> IsReading)
  BY <1>1 DEF Asks, IsReading
<1>3. /\ ~Pending' /\ FormatsFirst(requests')
      /\ FormatBecomes(requests', server.format, fb.format)
  BY AnswerFacts, NoMessages DEF Pending
<1>4. server'.format = server.format /\ server'.area = server.area /\ ~server'.resized
  BY AnswerFacts DEF TypeOK, ConnectionTypes
<1>5. Len(updates') = 1 /\ updates' # <<>> /\ updates'[1] = AnswerUpdate
  BY AnswerFacts, OneUpdate
<1>6. OneTurn'
  BY <1>1, <1>2, <1>3, <1>5, AnswerFacts DEF OneTurn, Requester
<1>7. FormatArrives'
  BY <1>1, <1>3, <1>4 DEF FormatArrives
<1>8. SizeArrives'
  <2>1. AnswerUpdate.resized = server.resized /\ AnswerUpdate.area = server.area
        /\ (server.resized => AnswerUpdate.left = {})
    BY DEF AnswerUpdate, AnswerRegion
  <2>2. reading.left = {} /\ ~reading.resized
    BY AnswerFacts DEF Protocol, SizeArrives
  <2>3. ~server.resized => fb.area = server.area
    BY <2>2, AnswerFacts DEF Protocol, SizeArrives
  <2>4. QED BY <1>1, <1>2, <1>3, <1>4, <1>5, <2>1, <2>2, <2>3 DEF SizeArrives
<1>9. UpdatesFit'
  <2>1. AnswerUpdate.format = fb.format /\ AnswerUpdate.left \subseteq fb.area
    BY AnswerFacts DEF AnswerUpdate, AnswerRegion
  <2>2. QED BY <1>1, <1>5, <2>1, AnswerFacts DEF Protocol, UpdatesFit, Fits, IsReading
<1>10. QED BY <1>6, <1>7, <1>8, <1>9 DEF Protocol

LEMMA OnlyUpdate ==
  ASSUME NEW S, NEW s \in Seq(S), s # <<>>, Len(s) <= 1
  PROVE Len(s) = 1 /\ Head(s) = s[1] /\ Tail(s) = <<>>
<1>1. Tail(s) \in Seq(S) /\ Len(s) \in Nat /\ Len(s) > 0
  BY EmptySeq
<1>2. \A n \in Nat : n > 0 /\ n <= 1 => n = 1
  OBVIOUS
<1>3. Len(s) = 1
  BY <1>1, <1>2
<1>4. Head(s) = s[1] /\ Len(Tail(s)) = 0
  BY <1>1, <1>3
<1>5. QED BY <1>1, <1>3, <1>4, EmptySeq

LEMMA ReadUpdateFacts ==
  ASSUME TypeOK, Protocol, ReadUpdate
  PROVE /\ Len(updates) = 1 /\ updates' = <<>> /\ reading' = updates[1]
        /\ UNCHANGED <<server, requests, fb, need, received, full, refreshing>>
        /\ at'.core = "rectangles" /\ at'.ui = at.ui /\ at'.updater = at.updater
        /\ Fits(updates[1])
<1>1. updates \in Seq(Updates) /\ updates # <<>> /\ Len(updates) <= 1
  BY DEF TypeOK, ConnectionTypes, Protocol, OneTurn, ReadUpdate
<1>2. Len(updates) = 1 /\ Head(updates) = updates[1]
  BY <1>1, OnlyUpdate
<1>3. Tail(updates) = <<>>
  BY <1>1, OnlyUpdate
<1>4. /\ UNCHANGED <<server, requests, fb, need, received, full, refreshing>>
      /\ at'.core = "rectangles" /\ at'.ui = at.ui /\ at'.updater = at.updater
      /\ reading' = Head(updates) /\ updates' = Tail(updates)
  BY DEF TypeOK, CoreTypes, ReadUpdate, serverVars
<1>5. Fits(updates[1])
  BY <1>2 DEF Protocol, UpdatesFit
<1>6. QED BY <1>2, <1>3, <1>4, <1>5

LEMMA ReadUpdateProtocol ==
  ASSUME TypeOK, Protocol, ReadUpdate
  PROVE Protocol'
<1>1. updates # <<>> /\ updates' = <<>> /\ Len(updates') = 0
  BY ReadUpdateFacts, EmptySeq DEF ReadUpdate
<1>2. (Pending' <=> Pending) /\ ~Asks("core")' /\ (Asks("ui")' <=> Asks("ui")) /\ IsReading'
  BY ReadUpdateFacts DEF Pending, Asks, IsReading
<1>3. OneTurn'
  BY <1>1, <1>2, ReadUpdateFacts DEF Protocol, OneTurn
<1>4. FormatArrives'
  BY ReadUpdateFacts DEF Protocol, FormatArrives
<1>5. SizeArrives'
  <2>1. ~Pending /\ ~IsReading /\ reading.resized = FALSE
    BY <1>1 DEF Protocol, OneTurn, SizeArrives, TypeOK, CoreTypes, Updates
  <2>2. QED BY <1>1, <1>2, <2>1, ReadUpdateFacts DEF Protocol, SizeArrives
<1>6. UpdatesFit'
  BY <1>1, ReadUpdateFacts DEF UpdatesFit, Fits
<1>7. QED BY <1>3, <1>4, <1>5, <1>6 DEF Protocol

(* While an update is read nobody has a turn and nothing else is on its    *)
(* way.                                                                    *)
LEMMA ReadingFacts ==
  ASSUME Protocol, IsReading
  PROVE ~need /\ ~Asks("core") /\ ~Asks("ui") /\ ~received /\ at.updater # "send" /\ ~Pending
        /\ updates = <<>>
BY DEF Protocol, OneTurn, Asks, IsReading

LEMMA ReadDesktopSizeProtocol ==
  ASSUME TypeOK, Protocol, ReadDesktopSize
  PROVE Protocol'
<1>1. /\ UNCHANGED <<server, requests, updates, need, received, at>>
      /\ fb'.area = reading.area /\ fb'.format = fb.format
      /\ at.core = "rectangles" /\ reading.resized
  BY DEF ReadDesktopSize, SetFbProperties, serverVars
<1>2. ~reading'.resized /\ reading'.left = reading.left /\ reading'.format = reading.format
  BY DEF ReadDesktopSize, TypeOK, CoreTypes, Updates
<1>3. IsReading
  BY <1>1 DEF IsReading
<1>4. (\A t \in Requester : Asks(t)' <=> Asks(t)) /\ (IsReading' <=> IsReading)
      /\ (Pending' <=> Pending)
  BY <1>1 DEF Asks, IsReading, Pending
<1>5. OneTurn'
  BY <1>1, <1>4 DEF Protocol, OneTurn, Requester
<1>6. FormatArrives'
  BY <1>1 DEF Protocol, FormatArrives
<1>7. SizeArrives'
  BY <1>1, <1>2, <1>3, <1>4, ReadingFacts, EmptySeq DEF Protocol, SizeArrives
<1>8. UpdatesFit'
  <2>1. reading.left = {} /\ reading.format = fb.format
    BY <1>1 DEF Protocol, SizeArrives, UpdatesFit, Fits
  <2>2. QED BY <1>1, <1>2, <1>3, <2>1, ReadingFacts, EmptySeq DEF UpdatesFit, Fits
<1>9. QED BY <1>5, <1>6, <1>7, <1>8 DEF Protocol

(* A rectangle that arrives lies within the frame buffer.                  *)
LEMMA ReadRectangleFacts ==
  ASSUME TypeOK, Protocol, ReadRectangle
  PROVE \E p \in reading.left :
          /\ p \in fb.area /\ p \in Points
          /\ reading' = [reading EXCEPT !.left = @ \ {p}, !.last = {p}]
          /\ fb' = [fb EXCEPT !.pixels[p] = reading.pixels[p]]
          /\ at' = [at EXCEPT !.core = "notify"]
<1>1. at.core = "rectangles" /\ ~reading.resized /\ Fits(reading)
  BY DEF ReadRectangle, Protocol, UpdatesFit
<1>2. reading.left \subseteq fb.area /\ reading.left \subseteq Points
  BY <1>1 DEF Fits, TypeOK, CoreTypes, Updates
<1>3. PICK p \in reading.left :
             /\ reading' = [reading EXCEPT !.left = @ \ {p}, !.last = {p}]
             /\ IF p \in fb.area
                THEN /\ fb' = [fb EXCEPT !.pixels[p] = reading.pixels[p]]
                     /\ at' = [at EXCEPT !.core = "notify"]
                ELSE fb' = fb /\ at' = [at EXCEPT !.core = "failed"]
  BY DEF ReadRectangle
<1>4. p \in fb.area /\ p \in Points
  BY <1>2
<1>5. QED BY <1>3, <1>4

LEMMA ReadRectangleProtocol ==
  ASSUME TypeOK, Protocol, ReadRectangle
  PROVE Protocol'
<1>1. /\ at.core = "rectangles" /\ ~reading.resized
      /\ UNCHANGED <<server, requests, updates, need, received>>
  BY DEF ReadRectangle, serverVars
<1>2. /\ reading'.resized = reading.resized /\ reading'.format = reading.format
      /\ reading'.left \subseteq reading.left /\ reading'.area = reading.area
      /\ fb'.area = fb.area /\ fb'.format = fb.format
      /\ at'.core = "notify" /\ at'.ui = at.ui /\ at'.updater = at.updater
  <2>1. PICK p \in reading.left :
               /\ reading' = [reading EXCEPT !.left = @ \ {p}, !.last = {p}]
               /\ fb' = [fb EXCEPT !.pixels[p] = reading.pixels[p]]
               /\ at' = [at EXCEPT !.core = "notify"]
    BY ReadRectangleFacts
  <2>2. QED BY <2>1 DEF TypeOK, CoreTypes, Updates
<1>3. IsReading /\ IsReading' /\ (Asks("ui")' <=> Asks("ui")) /\ ~Asks("core")'
      /\ ~Asks("core") /\ (Pending' <=> Pending)
  BY <1>1, <1>2 DEF IsReading, Asks, Pending
<1>4. OneTurn'
  BY <1>1, <1>2, <1>3 DEF Protocol, OneTurn
<1>5. FormatArrives'
  BY <1>1, <1>2 DEF Protocol, FormatArrives
<1>6. SizeArrives'
  BY <1>1, <1>2, <1>3 DEF Protocol, SizeArrives
<1>7. UpdatesFit'
  <2>1. reading.format = fb.format /\ reading.left \subseteq fb.area
    BY <1>1 DEF Protocol, UpdatesFit, Fits
  <2>2. updates' = <<>>
    BY <1>1, <1>3, ReadingFacts
  <2>3. QED BY <1>2, <2>1, <2>2, EmptySeq DEF UpdatesFit, Fits
<1>8. QED BY <1>4, <1>5, <1>6, <1>7 DEF Protocol

LEMMA OnUpdateProtocol ==
  ASSUME TypeOK, Protocol, OnUpdate
  PROVE Protocol'
<1>1. /\ at.core = "notify" /\ UNCHANGED <<server, requests, updates, fb, need, received>>
  BY DEF OnUpdate, serverVars
<1>2. /\ reading'.resized = reading.resized /\ reading'.format = reading.format
      /\ reading'.left = reading.left /\ reading'.area = reading.area
      /\ at'.core = "rectangles" /\ at'.ui = at.ui /\ at'.updater = at.updater
  BY DEF OnUpdate, TypeOK, CoreTypes, Updates
<1>3. IsReading /\ IsReading' /\ (Asks("ui")' <=> Asks("ui")) /\ ~Asks("core")'
      /\ ~Asks("core") /\ (Pending' <=> Pending)
  BY <1>1, <1>2 DEF IsReading, Asks, Pending
<1>4. OneTurn'
  BY <1>1, <1>2, <1>3 DEF Protocol, OneTurn
<1>5. FormatArrives'
  BY <1>1, <1>2 DEF Protocol, FormatArrives
<1>6. SizeArrives'
  BY <1>1, <1>2, <1>3 DEF Protocol, SizeArrives
<1>7. UpdatesFit'
  BY <1>1, <1>2 DEF Protocol, UpdatesFit, Fits
<1>8. QED BY <1>4, <1>5, <1>6, <1>7 DEF Protocol

LEMMA EndUpdateProtocol ==
  ASSUME TypeOK, Protocol, EndUpdate
  PROVE Protocol'
<1>1. /\ at.core = "rectangles" /\ ~reading.resized /\ reading.left = {} /\ need'
      /\ UNCHANGED <<server, requests, updates, fb, received>>
  BY DEF EndUpdate, AllRead, serverVars
<1>2. /\ reading'.left = {} /\ ~reading'.resized
      /\ at'.core = "freeze" /\ at'.ui = at.ui /\ at'.updater = at.updater
  BY DEF EndUpdate, NoRead, TypeOK, CoreTypes
<1>3. IsReading /\ ~IsReading' /\ (Asks("ui")' <=> Asks("ui")) /\ ~Asks("core")'
      /\ (Pending' <=> Pending)
  BY <1>1, <1>2 DEF IsReading, Asks, Pending
<1>4. OneTurn'
  BY <1>1, <1>2, <1>3, ReadingFacts DEF Protocol, OneTurn
<1>5. FormatArrives'
  BY <1>1 DEF Protocol, FormatArrives
<1>6. SizeArrives'
  BY <1>1, <1>2, <1>3 DEF Protocol, SizeArrives
<1>7. UpdatesFit'
  BY <1>1, <1>2, <1>3, ReadingFacts, EmptySeq DEF UpdatesFit
<1>8. QED BY <1>4, <1>5, <1>6, <1>7 DEF Protocol

LEMMA CheckFreezeProtocol ==
  ASSUME TypeOK, Protocol, CheckFreeze
  PROVE Protocol'
<1>1. /\ at.core = "freeze" /\ UNCHANGED <<server, requests, updates, fb, reading, need, received>>
  BY DEF CheckFreeze, serverVars
<1>2. at'.core \in {"idle", "take"} /\ at'.ui = at.ui /\ at'.updater = at.updater
  BY DEF CheckFreeze, TypeOK, CoreTypes
<1>3. ~IsReading /\ ~IsReading' /\ (Asks("ui")' <=> Asks("ui")) /\ ~Asks("core")'
      /\ ~Asks("core") /\ (Pending' <=> Pending)
  BY <1>1, <1>2 DEF IsReading, Asks, Pending
<1>4. OneTurn'
  BY <1>1, <1>2, <1>3 DEF Protocol, OneTurn
<1>5. FormatArrives' /\ SizeArrives' /\ UpdatesFit'
  BY <1>1, <1>2, <1>3 DEF Protocol, FormatArrives, SizeArrives, UpdatesFit, Fits
<1>6. QED BY <1>4, <1>5 DEF Protocol

LEMMA UpdaterProtocol ==
  ASSUME TypeOK, Protocol, Updater
  PROVE Protocol'
<1>1. UNCHANGED <<server, updates, fb, reading, need>> /\ at'.core = at.core /\ at'.ui = at.ui
  BY DEF Updater, IsUpdated, SendDeferredRequest, serverVars, TypeOK, CoreTypes
<1>2. (\A t \in Requester : Asks(t)' <=> Asks(t)) /\ (IsReading' <=> IsReading)
  BY <1>1 DEF Asks, IsReading, Requester
<1>3. UpdatesFit'
  BY <1>1 DEF Protocol, UpdatesFit, Fits
<1>4. CASE IsUpdated
  <2>1. at.updater = "idle" /\ received /\ ~received' /\ at'.updater = "send"
        /\ requests' = requests
    BY <1>4 DEF IsUpdated, TypeOK, CoreTypes
  <2>2. /\ Pending' <=> Pending
        /\ (Asks("core")' <=> Asks("core")) /\ (Asks("ui")' <=> Asks("ui"))
    BY <1>2, <2>1 DEF Pending, Requester
  <2>3. OneTurn'
    BY <1>1, <1>2, <2>1, <2>2 DEF Protocol, OneTurn
  <2>4. FormatArrives' /\ SizeArrives'
    BY <1>1, <1>2, <2>1, <2>2 DEF Protocol, FormatArrives, SizeArrives
  <2>5. QED BY <1>3, <2>3, <2>4 DEF Protocol
<1>5. CASE SendDeferredRequest
  <2>1. /\ at.updater = "send" /\ requests' = Append(requests, Request(TRUE))
        /\ at'.updater = "idle" /\ received' = received
    BY <1>5 DEF SendDeferredRequest, TypeOK, CoreTypes
  <2>2. /\ requests \in Seq(Requests) /\ Request(TRUE) \in Requests
        /\ Request(TRUE).kind = "request" /\ Request(TRUE).area = fb.area
    BY RequestTypes DEF TypeOK, ConnectionTypes, Request
  <2>3. /\ ~Pending /\ FormatsFirst(requests) /\ ~received /\ ~need /\ updates = <<>>
        /\ ~Asks("core") /\ ~Asks("ui") /\ ~IsReading
    BY <2>1 DEF Protocol, OneTurn
  <2>4. FormatsFirst(requests') /\ Pending' /\ requests'[Len(requests')] = Request(TRUE)
    BY <2>1, <2>2, <2>3, AppendMessage DEF Pending
  <2>5. OneTurn'
    <3>1. updates' = <<>> /\ Len(updates') = 0
      BY <1>1, <2>3, EmptySeq
    <3>2. ~Asks("core")' /\ ~Asks("ui")' /\ ~IsReading'
      BY <1>2, <2>3 DEF Requester
    <3>3. ~need' /\ ~received' /\ at'.updater # "send"
      BY <1>1, <2>1, <2>3
    <3>4. QED BY <2>4, <3>1, <3>2, <3>3 DEF OneTurn
  <2>6. FormatArrives'
    BY <1>1, <2>1, <2>2, AppendRequest DEF Protocol, FormatArrives
  <2>7. SizeArrives'
    BY <1>1, <1>2, <2>2, <2>4 DEF Protocol, SizeArrives
  <2>8. QED BY <1>3, <2>5, <2>6, <2>7 DEF Protocol
<1>6. QED BY <1>4, <1>5 DEF Updater

LEMMA NotifierProtocol ==
  ASSUME TypeOK, Protocol, User \/ ShowPointer \/ Notifier
  PROVE Protocol'
<1>1. /\ UNCHANGED <<requests, updates, fb, reading, need, received, server>>
      /\ at'.core = at.core /\ at'.updater = at.updater
      /\ at'.ui = at.ui \/ (at.ui = "idle" /\ at'.ui \in {"take", "pointer"})
         \/ (at.ui = "pointer" /\ at'.ui = "idle")
  <2>1. CASE User
    <3>1. UNCHANGED <<requests, updates, fb, reading, need, received, server>>
      BY <2>1 DEF User, SetPixelFormat, RefreshFramebuffer, StopUpdating, DeferUpdateRequests,
                  MovePointer, serverVars, coreVars
    <3>2. /\ at'.core = at.core /\ at'.updater = at.updater
          /\ at'.ui = at.ui \/ (at.ui = "idle" /\ at'.ui \in {"take", "pointer"})
      BY <2>1 DEF User, SetPixelFormat, RefreshFramebuffer, StopUpdating, DeferUpdateRequests,
                  MovePointer, MayAct, coreVars, TypeOK, CoreTypes
    <3>3. QED BY <3>1, <3>2
  <2>2. CASE ShowPointer
    BY <2>2 DEF ShowPointer, serverVars, TypeOK, CoreTypes
  <2>3. CASE Notifier
    <3>1. UNCHANGED <<requests, updates, fb, reading, need, received, server>>
      BY <2>3 DEF Notifier, TakeUpdates, ShowNewSize, ShowUpdates, Wake, serverVars
    <3>2. at'.core = at.core /\ at'.updater = at.updater /\ at'.ui = at.ui
      BY <2>3 DEF Notifier, TakeUpdates, ShowNewSize, ShowUpdates, Wake, TypeOK, CoreTypes
    <3>3. QED BY <3>1, <3>2
  <2>4. QED BY <2>1, <2>2, <2>3
<1>2. Asks("ui")' <=> Asks("ui")
  BY <1>1 DEF Asks
<1>3. QED BY <1>1, <1>2, QuietProtocol

(* A step of a thread that makes a request leaves the other's place alone. *)
OtherRequester(t) == IF t = "core" THEN "ui" ELSE "core"

LEMMA RequesterFacts ==
  ASSUME TypeOK, Protocol, NEW t \in Requester, Asks(t)
  PROVE /\ ~need /\ ~received /\ at.updater # "send" /\ ~Pending /\ updates = <<>>
        /\ ~IsReading /\ ~Asks(OtherRequester(t))
        /\ reading.left = {} /\ ~reading.resized
<1>1. CASE t = "core"
  <2>1. ~IsReading
    BY <1>1 DEF Asks, IsReading
  <2>2. QED BY <1>1, <2>1 DEF Protocol, OneTurn, SizeArrives, OtherRequester
<1>2. CASE t = "ui"
  BY <1>2 DEF Protocol, OneTurn, SizeArrives, OtherRequester
<1>3. QED BY <1>1, <1>2 DEF Requester

LEMMA TakeNeedProtocol ==
  ASSUME TypeOK, Protocol, NEW t \in Requester, TakeNeed(t)
  PROVE Protocol'
<1>1. /\ at[t] = "take" /\ ~need' /\ UNCHANGED <<server, requests, updates, fb, reading, received>>
      /\ at' = [at EXCEPT ![t] = IF need THEN "format" ELSE "idle"]
  BY DEF TakeNeed, serverVars
<1>2. /\ at'[t] = IF need THEN "format" ELSE "idle"
      /\ at'[OtherRequester(t)] = at[OtherRequester(t)] /\ at'.updater = at.updater
  BY <1>1 DEF TypeOK, CoreTypes, Requester, OtherRequester
<1>3. /\ ~Asks(t) /\ (Asks(t)' <=> need)
      /\ (Asks(OtherRequester(t))' <=> Asks(OtherRequester(t)))
  BY <1>1, <1>2 DEF Asks
<1>4. (IsReading' <=> IsReading) /\ (Pending' <=> Pending)
  BY <1>1, <1>2 DEF IsReading, Pending, Requester, OtherRequester
<1>5. OneTurn'
  <2>1. CASE t = "core"
    BY <1>1, <1>2, <1>3, <1>4, <2>1 DEF Protocol, OneTurn, OtherRequester
  <2>2. CASE t = "ui"
    BY <1>1, <1>2, <1>3, <1>4, <2>2 DEF Protocol, OneTurn, OtherRequester
  <2>3. QED BY <2>1, <2>2 DEF Requester
<1>6. FormatArrives' /\ SizeArrives'
  BY <1>1, <1>4 DEF Protocol, FormatArrives, SizeArrives
<1>7. UpdatesFit'
  <2>1. (at'.core # "failed" \/ at'.core = at.core) /\
        (at'.core \in {"rectangles", "notify"} => at.core = at'.core)
    BY <1>2 DEF Requester, OtherRequester
  <2>2. QED BY <1>1, <2>1 DEF Protocol, UpdatesFit, Fits
<1>8. QED BY <1>5, <1>6, <1>7 DEF Protocol

LEMMA TakeRefreshingProtocol ==
  ASSUME TypeOK, Protocol, NEW t \in Requester, TakeRefreshing(t)
  PROVE Protocol'
<1>1. /\ at[t] = "refresh" /\ at' = [at EXCEPT ![t] = "send"]
      /\ UNCHANGED <<server, requests, updates, fb, reading, need, received>>
  BY DEF TakeRefreshing, serverVars
<1>2. /\ at'[t] = "send" /\ at'[OtherRequester(t)] = at[OtherRequester(t)]
      /\ at'.updater = at.updater
  BY <1>1 DEF TypeOK, CoreTypes, Requester, OtherRequester
<1>3. /\ Asks(t) /\ Asks(t)' /\ (Asks(OtherRequester(t))' <=> Asks(OtherRequester(t)))
  BY <1>1, <1>2 DEF Asks
<1>4. (IsReading' <=> IsReading) /\ (Pending' <=> Pending)
  BY <1>1, <1>2 DEF IsReading, Pending, Requester, OtherRequester
<1>5. OneTurn'
  <2>1. CASE t = "core"
    BY <1>1, <1>2, <1>3, <1>4, <2>1 DEF Protocol, OneTurn, OtherRequester
  <2>2. CASE t = "ui"
    BY <1>1, <1>2, <1>3, <1>4, <2>2 DEF Protocol, OneTurn, OtherRequester
  <2>3. QED BY <2>1, <2>2 DEF Requester
<1>6. FormatArrives' /\ SizeArrives'
  BY <1>1, <1>4 DEF Protocol, FormatArrives, SizeArrives
<1>7. UpdatesFit'
  <2>1. at'.core # "failed" /\ (at'.core \in {"rectangles", "notify"} => at.core = at'.core)
    BY <1>2 DEF Requester, OtherRequester, Protocol, UpdatesFit
  <2>2. QED BY <1>1, <2>1 DEF Protocol, UpdatesFit, Fits
<1>8. QED BY <1>5, <1>6, <1>7 DEF Protocol

(* The step before a request is sent, and the one that sends it: of the    *)
(* turn only the requester's is left, then what it sends.                  *)
LEMMA UpdatePixelFormatProtocol ==
  ASSUME TypeOK, Protocol, NEW t \in Requester, UpdatePixelFormat(t)
  PROVE Protocol'
<1>1. /\ at[t] = "format" /\ at' = [at EXCEPT ![t] = "refresh"]
      /\ UNCHANGED <<server, updates, reading, need, received>>
  BY DEF UpdatePixelFormat, serverVars
<1>2. /\ at'[t] = "refresh" /\ at'[OtherRequester(t)] = at[OtherRequester(t)]
      /\ at'.updater = at.updater
  BY <1>1 DEF TypeOK, CoreTypes, Requester, OtherRequester
<1>3. /\ Asks(t) /\ Asks(t)' /\ (Asks(OtherRequester(t))' <=> Asks(OtherRequester(t)))
  BY <1>1, <1>2 DEF Asks
<1>4. IsReading' <=> IsReading
  BY <1>1, <1>2 DEF IsReading, Requester, OtherRequester
<1>5. /\ ~Pending' /\ FormatsFirst(requests') /\ fb'.area = fb.area
      /\ FormatBecomes(requests', server.format, fb'.format)
  <2> DEFINE m == [kind |-> "format", format |-> wanted.format]
  <2>1. ~Pending /\ FormatsFirst(requests) /\ FormatBecomes(requests, server.format, fb.format)
        /\ requests \in Seq(Requests) /\ m \in Requests
    BY <1>3, RequesterFacts DEF Protocol, OneTurn, FormatArrives, TypeOK, ConnectionTypes,
                                CoreTypes, Requests
  <2>2. CASE requests' = Append(requests, m) /\ fb'.format = wanted.format /\ fb'.area = fb.area
    <3>1. FormatsFirst(requests') /\ ~Pending'
      BY <2>1, <2>2, AppendMessage DEF Pending
    <3>2. FormatBecomes(requests', server.format, wanted.format)
      BY <2>1, <2>2, AppendFormat
    <3>3. QED BY <2>2, <3>1, <3>2
  <2>3. CASE requests' = requests /\ fb' = fb
    BY <2>1, <2>3 DEF Pending
  <2>4. QED BY <2>2, <2>3 DEF UpdatePixelFormat, SetFbProperties
<1>6. OneTurn'
  <2>1. CASE t = "core"
    BY <1>1, <1>2, <1>3, <1>4, <1>5, <2>1 DEF Protocol, OneTurn, OtherRequester
  <2>2. CASE t = "ui"
    BY <1>1, <1>2, <1>3, <1>4, <1>5, <2>2 DEF Protocol, OneTurn, OtherRequester
  <2>3. QED BY <2>1, <2>2 DEF Requester
<1>7. FormatArrives'
  BY <1>1, <1>5 DEF FormatArrives
<1>8. SizeArrives'
  BY <1>1, <1>4, <1>5 DEF Protocol, SizeArrives
<1>9. UpdatesFit'
  <2>1. updates' = <<>> /\ Len(updates') = 0 /\ ~IsReading'
    BY <1>1, <1>3, <1>4, RequesterFacts, EmptySeq
  <2>2. QED BY <2>1 DEF UpdatesFit, IsReading
<1>10. QED BY <1>6, <1>7, <1>8, <1>9 DEF Protocol

LEMMA SendRequestProtocol ==
  ASSUME TypeOK, Protocol, NEW t \in Requester, SendRequest(t)
  PROVE Protocol'
<1>1. /\ at[t] = "send" /\ at' = [at EXCEPT ![t] = "idle"]
      /\ UNCHANGED <<server, updates, fb, reading, need>>
  BY DEF SendRequest, serverVars
<1>2. /\ at'[t] = "idle" /\ at'[OtherRequester(t)] = at[OtherRequester(t)]
      /\ at'.updater = at.updater
  BY <1>1 DEF TypeOK, CoreTypes, Requester, OtherRequester
<1>3. Asks(t) /\ ~Asks(t)' /\ ~Asks(OtherRequester(t))'
  BY <1>1, <1>2, RequesterFacts DEF Asks
<1>4. /\ ~need' /\ at'.updater # "send" /\ updates' = <<>> /\ Len(updates') = 0
      /\ ~IsReading /\ ~IsReading' /\ reading'.left = {} /\ ~reading'.resized
      /\ ~Asks("core")' /\ ~Asks("ui")'
  <2>1. /\ ~need' /\ at'.updater # "send" /\ updates' = <<>>
        /\ ~IsReading /\ reading'.left = {} /\ ~reading'.resized
    BY <1>1, <1>2, <1>3, RequesterFacts
  <2>2. ~IsReading' /\ ~Asks("core")' /\ ~Asks("ui")'
    BY <1>2, <1>3, <2>1 DEF IsReading, Requester, OtherRequester
  <2>3. QED BY <2>1, <2>2, EmptySeq
<1>5. ~Pending /\ FormatsFirst(requests) /\ ~received
      /\ FormatBecomes(requests, server.format, fb.format)
  BY <1>3, RequesterFacts DEF Protocol, OneTurn, FormatArrives
<1>6. /\ FormatsFirst(requests') /\ FormatBecomes(requests', server.format, fb.format)
      /\ \/ Pending' /\ ~received' /\ requests'[Len(requests')].area = fb.area
         \/ ~Pending' /\ received'
  <2> DEFINE m == Request(~full[t])
  <2>1. /\ requests \in Seq(Requests) /\ m \in Requests /\ m.kind = "request"
        /\ m.area = fb.area
    BY RequestTypes DEF TypeOK, ConnectionTypes, CoreTypes, Request, Requester
  <2>2. CASE requests' = Append(requests, m) /\ received' = received
    <3>1. FormatsFirst(requests') /\ Pending' /\ requests'[Len(requests')] = m
      BY <1>5, <2>1, <2>2, AppendMessage DEF Pending
    <3>2. FormatBecomes(requests', server.format, fb.format)
      BY <1>5, <2>1, <2>2, AppendRequest
    <3>3. QED BY <1>5, <2>1, <2>2, <3>1, <3>2
  <2>3. CASE requests' = requests /\ received'
    BY <1>5, <2>3 DEF Pending
  <2>4. QED BY <2>2, <2>3 DEF SendRequest
<1>7. OneTurn'
  BY <1>4, <1>6 DEF OneTurn
<1>8. FormatArrives'
  BY <1>1, <1>6 DEF FormatArrives
<1>9. SizeArrives'
  <2>1. ~server.resized => fb.area = server.area
    BY <1>1, <1>4 DEF Protocol, SizeArrives
  <2>2. QED BY <1>1, <1>4, <1>6, <2>1 DEF SizeArrives
<1>10. UpdatesFit'
  BY <1>4 DEF UpdatesFit, IsReading
<1>11. QED BY <1>7, <1>8, <1>9, <1>10 DEF Protocol

-----------------------------------------------------------------------------
(* The viewer's frame buffer forgets no change.                            *)

LEMMA InitKeepsUp == Init => KeepsUp
BY EmptySeq DEF Init, NoRead, KeepsUp, ViewerKeepsUp, StaleIsOwed

LEMMA QuietKeepsUp ==
  ASSUME KeepsUp, UNCHANGED <<updates, fb>>,
         server'.area = server.area, server'.pixels = server.pixels, server'.owed = server.owed,
         reading'.left = reading.left, reading'.pixels = reading.pixels,
         FullRequests => FullRequests'
  PROVE KeepsUp'
BY DEF KeepsUp, ViewerKeepsUp, StaleIsOwed, Brings

LEMMA DrawKeepsUp ==
  ASSUME TypeOK, KeepsUp, Draw
  PROVE KeepsUp'
<1>1. PICK p \in server.area, color \in Colors :
             server' = [server EXCEPT !.pixels[p] = color, !.owed = @ \cup {p}]
  BY DEF Draw
<1>2. UNCHANGED <<requests, updates, fb, reading, at, full, refreshing>>
  BY DEF Draw, coreVars
<1>3. /\ server'.area = server.area /\ server'.owed = server.owed \cup {p}
      /\ server'.resized = server.resized
      /\ \A q \in server.area \ {p} : server'.pixels[q] = server.pixels[q]
  BY <1>1 DEF TypeOK, ConnectionTypes, Points
<1>4. FullRequests' <=> FullRequests
  BY <1>2, <1>3 DEF FullRequests, Asks
<1>5. ViewerKeepsUp'
  BY <1>2, <1>3, <1>4 DEF KeepsUp, ViewerKeepsUp, Brings
<1>6. StaleIsOwed'
  BY <1>2, <1>3 DEF KeepsUp, StaleIsOwed, Brings
<1>7. QED BY <1>5, <1>6 DEF KeepsUp

LEMMA ResizeKeepsUp ==
  ASSUME TypeOK, Resize
  PROVE KeepsUp'
<1>1. server'.resized /\ server'.area = server'.owed
  BY DEF Resize, TypeOK, ConnectionTypes
<1>2. QED BY <1>1 DEF KeepsUp, ViewerKeepsUp, FullRequests, StaleIsOwed

LEMMA ReadPixelFormatKeepsUp ==
  ASSUME TypeOK, KeepsUp, ReadPixelFormat
  PROVE KeepsUp'
<1>1. /\ requests \in Seq(Requests) /\ requests # <<>> /\ requests' = Tail(requests)
      /\ Head(requests).kind = "format"
      /\ UNCHANGED <<updates, fb, reading, at, full, refreshing>>
  BY DEF ReadPixelFormat, coreVars, TypeOK, ConnectionTypes
<1>2. /\ server'.area = server.area /\ server'.owed = server.owed
      /\ server'.resized = server.resized /\ server'.pixels = server.pixels
  BY DEF ReadPixelFormat, TypeOK, ConnectionTypes
<1>3. ASSUME NEW i \in 1..Len(requests), requests[i].kind = "request", ~requests[i].incremental
      PROVE \E j \in 1..Len(requests') :
              requests'[j].kind = "request" /\ ~requests'[j].incremental
  <2>1. /\ Len(requests) \in Nat /\ Len(requests') = Len(requests) - 1
        /\ Head(requests) = requests[1]
        /\ \A j \in 1..Len(requests') : requests'[j] = requests[j + 1]
    BY <1>1, TailOfMessages
  <2>2. i # 1
    BY <1>1, <1>3, <2>1
  <2>3. i - 1 \in 1..Len(requests') /\ (i - 1) + 1 = i
    BY <2>1, <2>2
  <2>4. requests'[i - 1] = requests[i]
    BY <2>1, <2>3
  <2>5. QED BY <1>3, <2>3, <2>4
<1>4. FullRequests => FullRequests'
  BY <1>1, <1>2, <1>3 DEF FullRequests, Asks
<1>5. QED BY <1>1, <1>2, <1>4, QuietKeepsUp

(* What an answer takes from what is owed it brings.                       *)
LEMMA AnswerKeepsUp ==
  ASSUME TypeOK, Protocol, KeepsUp, Answer
  PROVE KeepsUp'
<1>1. /\ server'.area = server.area /\ server'.pixels = server.pixels
      /\ server'.owed = server.owed \ AnswerRegion
  BY AnswerFacts DEF TypeOK, ConnectionTypes
<1>2. /\ UNCHANGED <<fb, reading, at, full, refreshing>>
      /\ updates = <<>> /\ Len(updates) = 0 /\ Len(updates') = 1 /\ updates'[1] = AnswerUpdate
  BY AnswerFacts, OneUpdate, EmptySeq DEF Answer, coreVars
<1>3. AnswerUpdate.resized = server.resized /\ AnswerUpdate.left = AnswerRegion
      /\ AnswerUpdate.pixels = server.pixels
  BY DEF AnswerUpdate
<1>4. reading.left = {} /\ ~reading.resized /\ ~Asks("core") /\ ~Asks("ui")
  BY AnswerFacts DEF Protocol, SizeArrives
<1>5. \A p \in AnswerRegion :
        p \in updates'[1].left /\ updates'[1].pixels[p] = server'.pixels[p]
  BY <1>1, <1>2, <1>3
<1>6. StaleIsOwed'
  <2>1. \A i \in 1..Len(updates') : i = 1
    BY <1>2
  <2>2. reading'.left = {} /\ \A p \in updates'[1].left : p \in AnswerRegion
    BY <1>2, <1>3, <1>4
  <2>3. QED BY <1>5, <2>1, <2>2 DEF StaleIsOwed, Brings
<1>7. ViewerKeepsUp'
  <2>1. CASE server.resized
    <3>1. 1 \in 1..Len(updates') /\ updates'[1].resized
      BY <1>2, <1>3, <2>1
    <3>2. FullRequests'
      BY <3>1 DEF FullRequests
    <3>3. QED BY <3>2 DEF ViewerKeepsUp
  <2>2. CASE refreshing
    BY <1>2, <2>2 DEF ViewerKeepsUp, FullRequests
  <2>3. CASE ~server.resized /\ ~refreshing /\ ~Head(requests).incremental
    <3>1. fb.area = server.area
      BY <1>2, <1>4, <2>3 DEF Protocol, SizeArrives
    <3>2. AnswerRegion = server.area
      BY <2>3, <3>1, AnswerFacts DEF AnswerRegion
    <3>3. 1 \in 1..Len(updates')
      BY <1>2
    <3>4. QED BY <1>1, <1>5, <3>2, <3>3 DEF ViewerKeepsUp, Brings
  <2>4. CASE ~server.resized /\ ~refreshing /\ Head(requests).incremental
    <3>1. requests \in Seq(Requests) /\ requests # <<>> /\ Tail(requests) = <<>>
      BY AnswerFacts DEF Answer, TypeOK, ConnectionTypes
    <3>2. Len(requests) = 1 /\ requests[1] = Head(requests)
      BY <3>1, TailOfMessages
    <3>3. ~FullRequests
      BY <1>2, <1>4, <2>4, <3>2 DEF FullRequests
    <3>4. \A p \in server.area : \/ p \in fb.area /\ fb.pixels[p] = server.pixels[p]
                                 \/ p \in server.owed
      BY <1>2, <1>4, <3>3 DEF KeepsUp, ViewerKeepsUp, Brings
    <3>5. 1 \in 1..Len(updates') /\ fb' = fb
      BY <1>2
    <3>6. QED BY <1>1, <1>5, <3>4, <3>5 DEF ViewerKeepsUp, Brings
  <2>5. QED BY <2>1, <2>2, <2>3, <2>4
<1>8. QED BY <1>6, <1>7 DEF KeepsUp

LEMMA ReadUpdateKeepsUp ==
  ASSUME TypeOK, Protocol, KeepsUp, ReadUpdate
  PROVE KeepsUp'
<1>1. /\ Len(updates) = 1 /\ reading' = updates[1] /\ updates' = <<>>
      /\ UNCHANGED <<server, requests, fb, full, refreshing>>
      /\ at'.core = "rectangles" /\ at'.ui = at.ui /\ updates # <<>>
  BY ReadUpdateFacts DEF ReadUpdate
<1>2. ~Asks("core") /\ ~Asks("ui") /\ reading.left = {} /\ ~reading.resized
  BY <1>1 DEF Protocol, OneTurn, SizeArrives
<1>3. FullRequests => FullRequests'
  BY <1>1, <1>2 DEF FullRequests
<1>4. \A i \in 1..Len(updates) : \A p \in server.area :
        Brings(updates[i], p) => Brings(reading, p)'
  BY <1>1 DEF Brings
<1>5. ~\E p \in server.area : Brings(reading, p)
  BY <1>2 DEF Brings
<1>6. ViewerKeepsUp'
  BY <1>1, <1>3, <1>4, <1>5 DEF KeepsUp, ViewerKeepsUp
<1>7. StaleIsOwed'
  BY <1>1, EmptySeq DEF KeepsUp, StaleIsOwed, Brings
<1>8. QED BY <1>6, <1>7 DEF KeepsUp

LEMMA ReadDesktopSizeKeepsUp ==
  ASSUME TypeOK, KeepsUp, ReadDesktopSize
  PROVE KeepsUp'
<1>1. UNCHANGED <<server, updates>> /\ refreshing'
  BY DEF ReadDesktopSize, SetFbProperties, serverVars
<1>2. reading'.left = reading.left /\ reading'.pixels = reading.pixels
  BY DEF ReadDesktopSize, TypeOK, CoreTypes, Updates
<1>3. QED BY <1>1, <1>2 DEF KeepsUp, ViewerKeepsUp, StaleIsOwed, FullRequests, Brings

LEMMA ReadRectangleKeepsUp ==
  ASSUME TypeOK, Protocol, KeepsUp, ReadRectangle
  PROVE KeepsUp'
<1>1. PICK p \in reading.left :
             /\ p \in fb.area /\ p \in Points
             /\ reading' = [reading EXCEPT !.left = @ \ {p}, !.last = {p}]
             /\ fb' = [fb EXCEPT !.pixels[p] = reading.pixels[p]]
             /\ at' = [at EXCEPT !.core = "notify"]
  BY ReadRectangleFacts
<1>2. UNCHANGED <<server, requests, updates, full, refreshing>> /\ at.core = "rectangles"
  BY DEF ReadRectangle, serverVars
<1>3. /\ reading'.left = reading.left \ {p} /\ reading'.pixels = reading.pixels
      /\ reading'.resized = reading.resized
      /\ fb'.area = fb.area /\ fb'.pixels[p] = reading.pixels[p]
      /\ \A q \in Points \ {p} : fb'.pixels[q] = fb.pixels[q]
      /\ at'.ui = at.ui
  BY <1>1 DEF TypeOK, CoreTypes, Updates
<1>4. FullRequests => FullRequests'
  <2>1. ~Asks("core")
    BY <1>2 DEF Asks
  <2>2. QED BY <1>2, <1>3, <2>1 DEF FullRequests, Asks
<1>5. server.area \subseteq Points
  BY DEF TypeOK, ConnectionTypes, Points
<1>6. ASSUME NEW q \in server.area
      PROVE \/ q \in fb'.area /\ fb'.pixels[q] = server.pixels[q]
            \/ q \in server.owed
            \/ \E i \in 1..Len(updates) : Brings(updates[i], q)
            \/ Brings(reading, q)'
            \/ FullRequests'
  <2>1. CASE q = p
    <3>1. q \in server.owed \/ Brings(reading, q)
      BY <1>1, <2>1 DEF KeepsUp, StaleIsOwed
    <3>2. QED BY <1>1, <1>3, <2>1, <3>1 DEF Brings
  <2>2. CASE q # p
    <3>1. fb'.pixels[q] = fb.pixels[q]
      BY <1>3, <1>5, <2>2
    <3>2. Brings(reading, q) => Brings(reading, q)'
      BY <1>2, <1>3, <2>2 DEF Brings
    <3>3. QED BY <1>3, <1>4, <3>1, <3>2 DEF KeepsUp, ViewerKeepsUp
  <2>3. QED BY <2>1, <2>2
<1>7. ViewerKeepsUp'
  BY <1>2, <1>6 DEF ViewerKeepsUp, Brings
<1>8. StaleIsOwed'
  BY <1>2, <1>3 DEF KeepsUp, StaleIsOwed, Brings
<1>9. QED BY <1>7, <1>8 DEF KeepsUp

LEMMA OnUpdateKeepsUp ==
  ASSUME TypeOK, KeepsUp, OnUpdate
  PROVE KeepsUp'
<1>1. UNCHANGED <<server, requests, updates, fb, full, refreshing>>
  BY DEF OnUpdate, serverVars
<1>2. /\ reading'.left = reading.left /\ reading'.pixels = reading.pixels
      /\ reading'.resized = reading.resized
      /\ at.core = "notify" /\ at'.ui = at.ui
  BY DEF OnUpdate, TypeOK, CoreTypes, Updates
<1>3. FullRequests => FullRequests'
  BY <1>1, <1>2 DEF FullRequests, Asks
<1>4. QED BY <1>1, <1>2, <1>3, QuietKeepsUp

LEMMA EndUpdateKeepsUp ==
  ASSUME TypeOK, KeepsUp, EndUpdate
  PROVE KeepsUp'
<1>1. /\ UNCHANGED <<server, requests, updates, fb, full, refreshing>>
      /\ at.core = "rectangles" /\ ~reading.resized /\ reading.left = {} /\ reading' = NoRead
  BY DEF EndUpdate, AllRead, serverVars
<1>2. at'.core = "freeze" /\ at'.ui = at.ui
  BY DEF EndUpdate, TypeOK, CoreTypes
<1>3. reading'.left = {} /\ ~reading'.resized
  BY <1>1 DEF NoRead
<1>4. FullRequests => FullRequests'
  BY <1>1, <1>2, <1>3 DEF FullRequests, Asks
<1>5. ViewerKeepsUp'
  BY <1>1, <1>3, <1>4 DEF KeepsUp, ViewerKeepsUp, Brings
<1>6. StaleIsOwed'
  BY <1>1, <1>3 DEF KeepsUp, StaleIsOwed, Brings
<1>7. QED BY <1>5, <1>6 DEF KeepsUp

LEMMA RequesterKeepsUp ==
  ASSUME TypeOK, KeepsUp, NEW t \in Requester, SendFbUpdateRequest(t)
  PROVE KeepsUp'
<1>1. UNCHANGED <<server, updates, reading>>
  BY DEF SendFbUpdateRequest, TakeNeed, UpdatePixelFormat, TakeRefreshing, SendRequest, serverVars
<1>2. CASE TakeNeed(t)
  <2>1. UNCHANGED <<requests, fb, full, refreshing>> /\ at[t] = "take"
        /\ at'[OtherRequester(t)] = at[OtherRequester(t)]
    BY <1>2 DEF TakeNeed, TypeOK, CoreTypes, Requester, OtherRequester
  <2>2. FullRequests => FullRequests'
    BY <1>1, <2>1 DEF FullRequests, Asks, Requester, OtherRequester
  <2>3. QED BY <1>1, <2>1, <2>2, QuietKeepsUp
<1>3. CASE UpdatePixelFormat(t)
  <2>1. CASE refreshing'
    BY <1>1, <2>1 DEF KeepsUp, ViewerKeepsUp, StaleIsOwed, FullRequests, Brings
  <2>2. CASE ~refreshing'
    <3>1. UNCHANGED <<requests, fb, full, refreshing>> /\ at[t] = "format" /\ at'[t] = "refresh"
          /\ at'[OtherRequester(t)] = at[OtherRequester(t)]
      BY <1>3, <2>2 DEF UpdatePixelFormat, SetFbProperties, TypeOK, CoreTypes, Requester,
                        OtherRequester
    <3>2. FullRequests => FullRequests'
      BY <1>1, <3>1 DEF FullRequests, Asks, Requester, OtherRequester
    <3>3. QED BY <1>1, <3>1, <3>2, QuietKeepsUp
  <2>3. QED BY <2>1, <2>2
<1>4. CASE TakeRefreshing(t)
  <2>1. /\ UNCHANGED <<requests, fb>> /\ at'[t] = "send" /\ full'[t] = (full[t] \/ refreshing)
        /\ at'[OtherRequester(t)] = at[OtherRequester(t)]
        /\ full'[OtherRequester(t)] = full[OtherRequester(t)]
    BY <1>4 DEF TakeRefreshing, TypeOK, CoreTypes, Requester, OtherRequester
  <2>2. FullRequests => FullRequests'
    BY <1>1, <2>1 DEF FullRequests, Asks, Requester, OtherRequester
  <2>3. QED BY <1>1, <2>1, <2>2, QuietKeepsUp
<1>5. CASE SendRequest(t)
  <2>1. /\ UNCHANGED <<fb, refreshing>> /\ at'[OtherRequester(t)] = at[OtherRequester(t)]
        /\ full'[OtherRequester(t)] = full[OtherRequester(t)]
        /\ requests \in Seq(Requests)
        /\ \/ requests' = Append(requests, Request(~full[t]))
           \/ requests' = requests /\ ~full[t]
    BY <1>5 DEF SendRequest, TypeOK, ConnectionTypes, CoreTypes, Requester, OtherRequester
  <2>2. \A i \in 1..Len(requests) : i \in 1..Len(requests') /\ requests'[i] = requests[i]
    BY <2>1
  <2>3. full[t] => \E i \in 1..Len(requests') :
                     requests'[i].kind = "request" /\ ~requests'[i].incremental
    <3>1. Request(FALSE).kind = "request" /\ ~Request(FALSE).incremental
      BY DEF Request
    <3>2. full[t] => requests' = Append(requests, Request(FALSE))
      BY <2>1 DEF Requester, TypeOK, CoreTypes
    <3>3. \A m : /\ Len(Append(requests, m)) \in 1..Len(Append(requests, m))
                 /\ Append(requests, m)[Len(Append(requests, m))] = m
      BY <2>1
    <3>4. QED BY <3>1, <3>2, <3>3
  <2>4. FullRequests => FullRequests'
    BY <1>1, <2>1, <2>2, <2>3 DEF FullRequests, Asks, Requester, OtherRequester
  <2>5. QED BY <1>1, <2>1, <2>4, QuietKeepsUp
<1>6. QED BY <1>2, <1>3, <1>4, <1>5 DEF SendFbUpdateRequest

LEMMA OtherKeepsUp ==
  ASSUME TypeOK, KeepsUp, CheckFreeze \/ User \/ ShowPointer \/ Updater \/ Notifier
  PROVE KeepsUp'
<1>1. UNCHANGED <<server, updates, fb, reading>> /\ (refreshing => refreshing')
  <2>1. CASE CheckFreeze
    BY <2>1 DEF CheckFreeze, serverVars
  <2>2. CASE User
    <3>1. UNCHANGED <<server, updates, fb, reading>>
      BY <2>2 DEF User, SetPixelFormat, RefreshFramebuffer, StopUpdating, DeferUpdateRequests,
                  MovePointer, serverVars, coreVars
    <3>2. refreshing' = refreshing \/ refreshing' = TRUE
      BY <2>2 DEF User, SetPixelFormat, RefreshFramebuffer, StopUpdating, DeferUpdateRequests,
                  MovePointer, coreVars
    <3>3. QED BY <3>1, <3>2
  <2>3. CASE ShowPointer \/ Updater
    <3>1. UNCHANGED <<server, updates, fb, reading>>
      BY <2>3 DEF ShowPointer, Updater, IsUpdated, SendDeferredRequest, serverVars
    <3>2. refreshing' = refreshing
      BY <2>3 DEF ShowPointer, Updater, IsUpdated, SendDeferredRequest
    <3>3. QED BY <3>1, <3>2
  <2>4. CASE Notifier
    <3>1. UNCHANGED <<server, updates, fb, reading>>
      BY <2>4 DEF Notifier, TakeUpdates, ShowNewSize, ShowUpdates, Wake, serverVars
    <3>2. refreshing' = refreshing
      BY <2>4 DEF Notifier, TakeUpdates, ShowNewSize, ShowUpdates, Wake
    <3>3. QED BY <3>1, <3>2
  <2>5. QED BY <2>1, <2>2, <2>3, <2>4
<1>2. \A t \in Requester : Asks(t) => Asks(t)' /\ full'[t] = full[t]
  <2>1. CASE CheckFreeze
    BY <2>1 DEF CheckFreeze, Requester, Asks, TypeOK, CoreTypes
  <2>2. CASE User
    BY <2>2 DEF User, SetPixelFormat, RefreshFramebuffer, StopUpdating, DeferUpdateRequests,
                MovePointer, MayAct, coreVars, Requester, Asks, TypeOK, CoreTypes
  <2>3. CASE ShowPointer \/ Updater
    BY <2>3 DEF ShowPointer, Updater, IsUpdated, SendDeferredRequest, Requester, Asks, TypeOK,
                CoreTypes
  <2>4. CASE Notifier
    BY <2>4 DEF Notifier, TakeUpdates, ShowNewSize, ShowUpdates, Wake, Requester, Asks, TypeOK,
                CoreTypes
  <2>5. QED BY <2>1, <2>2, <2>3, <2>4
<1>3. \A i \in 1..Len(requests) : i \in 1..Len(requests') /\ requests'[i] = requests[i]
  <2>1. requests' = requests \/ requests' = Append(requests, Request(TRUE))
    BY DEF CheckFreeze, User, SetPixelFormat, RefreshFramebuffer, StopUpdating,
           DeferUpdateRequests, MovePointer, ShowPointer, Updater, IsUpdated,
           SendDeferredRequest, Notifier, TakeUpdates, ShowNewSize, ShowUpdates, Wake
  <2>2. requests \in Seq(Requests)
    BY DEF TypeOK, ConnectionTypes
  <2>3. \A m : \A i \in 1..Len(requests) :
          i \in 1..Len(Append(requests, m)) /\ Append(requests, m)[i] = requests[i]
    BY <2>2
  <2>4. QED BY <2>1, <2>3
<1>4. FullRequests => FullRequests'
  BY <1>1, <1>2, <1>3 DEF FullRequests, Requester
<1>5. QED BY <1>1, <1>4, QuietKeepsUp

-----------------------------------------------------------------------------
(* The window forgets no change.                                           *)

LEMMA InitWindow == Init => WindowKeepsUp
BY DEF Init, WindowKeepsUp

(* What is shown depends on the frame buffer, the notifier and the place   *)
(* of its thread alone.                                                    *)
LEMMA QuietWindow ==
  ASSUME WindowKeepsUp, UNCHANGED <<fb, notifier, taken, oldPosition, window>>,
         at'.notifier = at.notifier,
         at.core = "notify" => at'.core = "notify" /\ reading'.last = reading.last
  PROVE WindowKeepsUp'
BY DEF WindowKeepsUp

LEMMA ServerWindow ==
  ASSUME TypeOK, WindowKeepsUp,
         Draw \/ Resize \/ Serve \/ ReadUpdate \/ EndUpdate \/ CheckFreeze \/ User \/ Updater
  PROVE WindowKeepsUp'
<1>1. UNCHANGED <<fb, notifier, taken, oldPosition, window>>
  <2>1. CASE Draw \/ Resize \/ Serve
    BY <2>1 DEF Draw, Resize, Serve, ReadPixelFormat, Answer, coreVars, notifierVars
  <2>2. CASE ReadUpdate \/ EndUpdate \/ CheckFreeze \/ Updater
    BY <2>2 DEF ReadUpdate, EndUpdate, CheckFreeze, Updater, IsUpdated, SendDeferredRequest,
                notifierVars
  <2>3. CASE User
    BY <2>3 DEF User, SetPixelFormat, RefreshFramebuffer, StopUpdating, DeferUpdateRequests,
                MovePointer, coreVars, notifierVars
  <2>4. QED BY <2>1, <2>2, <2>3
<1>2. /\ at'.notifier = at.notifier
      /\ at.core = "notify" => at'.core = "notify" /\ reading'.last = reading.last
  <2>1. CASE Draw \/ Resize \/ Serve
    BY <2>1 DEF Draw, Resize, Serve, ReadPixelFormat, Answer, coreVars
  <2>2. CASE ReadUpdate \/ EndUpdate \/ CheckFreeze
    BY <2>2 DEF ReadUpdate, EndUpdate, AllRead, CheckFreeze, TypeOK, CoreTypes
  <2>3. CASE Updater
    BY <2>3 DEF Updater, IsUpdated, SendDeferredRequest, TypeOK, CoreTypes
  <2>4. CASE User
    BY <2>4 DEF User, SetPixelFormat, RefreshFramebuffer, StopUpdating, DeferUpdateRequests,
                MovePointer, coreVars, TypeOK, CoreTypes
  <2>5. QED BY <2>1, <2>2, <2>3, <2>4
<1>3. QED BY <1>1, <1>2, QuietWindow

LEMMA ReadDesktopSizeWindow ==
  ASSUME TypeOK, ReadDesktopSize
  PROVE WindowKeepsUp'
<1>1. notifier'.size
  BY DEF ReadDesktopSize, SetFbProperties, OnPropertiesFb, TypeOK, NotifierTypes
<1>2. QED BY <1>1 DEF WindowKeepsUp

LEMMA ReadRectangleWindow ==
  ASSUME TypeOK, Protocol, WindowKeepsUp, ReadRectangle
  PROVE WindowKeepsUp'
<1>1. PICK p \in reading.left :
             /\ p \in fb.area /\ p \in Points
             /\ reading' = [reading EXCEPT !.left = @ \ {p}, !.last = {p}]
             /\ fb' = [fb EXCEPT !.pixels[p] = reading.pixels[p]]
             /\ at' = [at EXCEPT !.core = "notify"]
  BY ReadRectangleFacts
<1>2. UNCHANGED <<notifier, taken, oldPosition, window>> /\ at.core = "rectangles"
  BY DEF ReadRectangle, notifierVars
<1>3. /\ reading'.last = {p} /\ at'.core = "notify" /\ at'.notifier = at.notifier
      /\ fb'.area = fb.area /\ fb'.format = fb.format
      /\ \A q \in Points \ {p} : fb'.pixels[q] = fb.pixels[q]
      /\ fb.area \subseteq Points
  BY <1>1 DEF TypeOK, CoreTypes, Updates, Points
<1>4. QED BY <1>2, <1>3 DEF WindowKeepsUp

LEMMA OnUpdateWindow ==
  ASSUME TypeOK, WindowKeepsUp, OnUpdate
  PROVE WindowKeepsUp'
<1>1. UNCHANGED <<fb, taken, oldPosition, window>>
  BY DEF OnUpdate
<1>2. /\ notifier'.region = notifier.region \cup reading.last /\ notifier'.size = notifier.size
      /\ at'.notifier = at.notifier
  BY DEF OnUpdate, TypeOK, CoreTypes, NotifierTypes
<1>3. QED BY <1>1, <1>2 DEF WindowKeepsUp

LEMMA RequesterWindow ==
  ASSUME TypeOK, WindowKeepsUp, NEW t \in Requester, SendFbUpdateRequest(t)
  PROVE WindowKeepsUp'
<1>1. /\ at[t] # "notify" /\ at'.notifier = at.notifier
      /\ at'[OtherRequester(t)] = at[OtherRequester(t)]
      /\ UNCHANGED <<taken, oldPosition, window, reading>>
  BY DEF SendFbUpdateRequest, TakeNeed, UpdatePixelFormat, TakeRefreshing, SendRequest,
         notifierVars, Requester, OtherRequester, TypeOK, CoreTypes
<1>2. at.core = "notify" => at'.core = "notify"
  BY <1>1 DEF Requester, OtherRequester
<1>3. CASE UNCHANGED <<fb, notifier>>
  BY <1>1, <1>2, <1>3, QuietWindow
<1>4. CASE notifier' = OnPropertiesFb
  <2>1. notifier'.size
    BY <1>4 DEF OnPropertiesFb, TypeOK, NotifierTypes
  <2>2. QED BY <2>1 DEF WindowKeepsUp
<1>5. QED BY <1>3, <1>4 DEF SendFbUpdateRequest, TakeNeed, UpdatePixelFormat, TakeRefreshing,
               SendRequest, SetFbProperties, notifierVars

LEMMA ShowPointerWindow ==
  ASSUME TypeOK, WindowKeepsUp, ShowPointer
  PROVE WindowKeepsUp'
<1>1. UNCHANGED <<fb, taken, oldPosition, window, reading>>
  BY DEF ShowPointer
<1>2. /\ notifier'.region = notifier.region /\ notifier'.size = notifier.size
      /\ at'.notifier = at.notifier /\ at'.core = at.core
  BY DEF ShowPointer, TypeOK, CoreTypes, NotifierTypes
<1>3. QED BY <1>1, <1>2 DEF WindowKeepsUp

LEMMA NotifierWindow ==
  ASSUME TypeOK, WindowKeepsUp, Notifier
  PROVE WindowKeepsUp'
<1>1. CASE TakeUpdates
  <2>1. /\ UNCHANGED <<fb, oldPosition, window, reading>> /\ at'.core = at.core
        /\ at.notifier = "take"
        /\ taken'.region = notifier.region
        /\ notifier.size => at'.notifier = "size"
        /\ ~notifier.size /\ notifier.region # {} => at'.notifier = "paint"
        /\ ~notifier'.size
    BY <1>1 DEF TakeUpdates, ToPaint, TypeOK, CoreTypes, NotifierTypes
  <2>2. QED BY <2>1 DEF WindowKeepsUp
<1>2. CASE ShowNewSize
  BY <1>2 DEF ShowNewSize, WindowKeepsUp
<1>3. CASE ShowUpdates
  <2>1. /\ UNCHANGED <<fb, notifier, pointer, reading>> /\ at'.core = at.core
        /\ at.notifier = "paint" /\ oldPosition' = {pointer} \ {Nowhere}
        /\ window'.area = window.area /\ window'.format = window.format
    BY <1>3 DEF ShowUpdates, TypeOK, CoreTypes, NotifierTypes, Buffers
  <2>2. CASE notifier.size
    BY <2>1, <2>2 DEF WindowKeepsUp
  <2>3. CASE ~notifier.size
    <3>1. window.area = fb.area /\ window.format = fb.format
      BY <2>1, <2>3 DEF WindowKeepsUp
    <3> DEFINE shown == (taken.region \cup oldPosition \cup ({pointer} \ {Nowhere})) \cap fb.area
    <3>2. window'.pixels = [p \in Points |-> IF p \in shown THEN Painted(p)
                                                            ELSE window.pixels[p]]
      BY <1>3, <3>1 DEF ShowUpdates, TypeOK, NotifierTypes, Buffers
    <3>3. fb.area \subseteq Points /\ Nowhere \notin Points
      BY DEF TypeOK, CoreTypes, Points
    <3>4. ASSUME NEW p \in fb.area
          PROVE \/ window'.pixels[p] = fb.pixels[p]
                \/ window'.pixels[p] = Cursor /\ p \in oldPosition'
                \/ p \in notifier.region
                \/ at.core = "notify" /\ p \in reading.last
      <4>1. CASE p \in shown
        <5>1. window'.pixels[p] = Painted(p)
          BY <3>2, <3>3, <4>1
        <5>2. CASE p = pointer
          BY <2>1, <3>3, <5>1, <5>2 DEF Painted
        <5>3. CASE p # pointer
          BY <5>1, <5>3 DEF Painted
        <5>4. QED BY <5>2, <5>3
      <4>2. CASE p \notin shown
        <5>1. window'.pixels[p] = window.pixels[p]
          BY <3>2, <3>3, <4>2
        <5>2. QED BY <2>1, <2>3, <4>2, <5>1 DEF WindowKeepsUp
      <4>3. QED BY <4>1, <4>2
    <3>5. QED BY <2>1, <3>1, <3>4 DEF WindowKeepsUp
  <2>4. QED BY <2>2, <2>3
<1>4. CASE Wake
  <2>1. /\ UNCHANGED <<fb, taken, oldPosition, window, reading>> /\ at'.core = at.core
        /\ at.notifier = "asleep" /\ at'.notifier = "take"
        /\ notifier'.region = notifier.region /\ notifier'.size = notifier.size
    BY <1>4 DEF Wake, TypeOK, CoreTypes, NotifierTypes
  <2>2. QED BY <2>1 DEF WindowKeepsUp
<1>5. QED BY <1>1, <1>2, <1>3, <1>4 DEF Notifier

-----------------------------------------------------------------------------
(* The specification.                                                      *)

LEMMA OneTurnIsOne == TypeOK /\ OneTurn => OneRequestAtATime
<1> SUFFICES ASSUME TypeOK, OneTurn
             PROVE Cardinality(Turns) = 1
  BY DEF OneRequestAtATime
<1> DEFINE needs == {<<"need", 1>> : n \in {n \in {1} : need}}
           asks == {<<"asks", t>> : t \in {t \in {"core", "ui"} : Asks(t)}}
           defers == {<<"deferred", 1>> : n \in {n \in {1} : received}}
           updater == {<<"updater", 1>> : n \in {n \in {1} : at.updater = "send"}}
           sent == {<<"request", i>> :
                      i \in {i \in 1..Len(requests) : requests[i].kind = "request"}}
           coming == {<<"update", i>> : i \in 1..Len(updates)}
           reads == {<<"reading", 1>> : n \in {n \in {1} : IsReading}}
<1>1. /\ ~need => needs = {}
      /\ need => needs = {<<"need", 1>>}
  OBVIOUS
<1>2. /\ ~Asks("core") /\ ~Asks("ui") => asks = {}
      /\ Asks("core") /\ ~Asks("ui") => asks = {<<"asks", "core">>}
      /\ ~Asks("core") /\ Asks("ui") => asks = {<<"asks", "ui">>}
  OBVIOUS
<1>3. /\ ~received => defers = {}
      /\ received => defers = {<<"deferred", 1>>}
  OBVIOUS
<1>4. /\ at.updater # "send" => updater = {}
      /\ at.updater = "send" => updater = {<<"updater", 1>>}
  OBVIOUS
<1>5. /\ ~Pending => sent = {}
      /\ Pending => sent = {<<"request", Len(requests)>>}
  <2>1. requests \in Seq(Requests) /\ Len(requests) \in Nat
    BY DEF TypeOK, ConnectionTypes
  <2>2. \A i \in 1..Len(requests) : requests[i].kind = "request" => i = Len(requests) /\ Pending
    BY <2>1, EmptySeq DEF OneTurn, FormatsFirst, Pending, EndsInRequest
  <2>3. Pending => Len(requests) \in 1..Len(requests) /\ requests[Len(requests)].kind = "request"
    BY <2>1, EmptySeq DEF Pending, EndsInRequest
  <2>4. QED BY <2>2, <2>3
<1>6. /\ updates = <<>> => coming = {}
      /\ updates # <<>> => coming = {<<"update", 1>>}
  <2>1. updates = <<>> => 1..Len(updates) = {}
    BY EmptySeq
  <2>2. updates # <<>> => 1..Len(updates) = {1}
    <3>1. updates \in Seq(Updates) /\ Len(updates) <= 1
      BY DEF TypeOK, ConnectionTypes, OneTurn
    <3>2. updates # <<>> => Len(updates) = 1
      BY <3>1, OnlyUpdate
    <3>3. 1..1 = {1}
      OBVIOUS
    <3>4. QED BY <3>2, <3>3
  <2>3. QED BY <2>1, <2>2
<1>7. /\ ~IsReading => reads = {}
      /\ IsReading => reads = {<<"reading", 1>>}
  OBVIOUS
<1>8. Turns = needs \cup asks \cup defers \cup updater \cup sent \cup coming \cup reads
  BY DEF Turns
<1> HIDE DEF needs, asks, defers, updater, sent, coming, reads
<1>9. \E x : Turns = {x}
  <2>1. IsReading => ~Asks("core")
    BY DEF IsReading, Asks
  <2>2. CASE need
    BY <1>1, <1>2, <1>3, <1>4, <1>5, <1>6, <1>7, <1>8, <2>2 DEF OneTurn
  <2>3. CASE Asks("core")
    BY <1>1, <1>2, <1>3, <1>4, <1>5, <1>6, <1>7, <1>8, <2>1, <2>3 DEF OneTurn
  <2>4. CASE Asks("ui")
    BY <1>1, <1>2, <1>3, <1>4, <1>5, <1>6, <1>7, <1>8, <2>4 DEF OneTurn
  <2>5. CASE received
    BY <1>1, <1>2, <1>3, <1>4, <1>5, <1>6, <1>7, <1>8, <2>5 DEF OneTurn
  <2>6. CASE at.updater = "send"
    BY <1>1, <1>2, <1>3, <1>4, <1>5, <1>6, <1>7, <1>8, <2>6 DEF OneTurn
  <2>7. CASE Pending
    BY <1>1, <1>2, <1>3, <1>4, <1>5, <1>6, <1>7, <1>8, <2>7 DEF OneTurn
  <2>8. CASE updates # <<>>
    BY <1>1, <1>2, <1>3, <1>4, <1>5, <1>6, <1>7, <1>8, <2>8 DEF OneTurn
  <2>9. CASE IsReading
    BY <1>1, <1>2, <1>3, <1>4, <1>5, <1>6, <1>7, <1>8, <2>1, <2>9 DEF OneTurn
  <2>10. QED BY <2>2, <2>3, <2>4, <2>5, <2>6, <2>7, <2>8, <2>9 DEF OneTurn
<1>10. QED BY <1>9, FS_Singleton

LEMMA InitInvariant == Init => IInv
BY InitTypes, InitProtocol, InitKeepsUp, InitWindow DEF IInv, Protocol

LEMMA StepInvariant == IInv /\ [Next]_vars => IInv'
<1> SUFFICES ASSUME TypeOK, Protocol, KeepsUp, WindowKeepsUp, [Next]_vars
             PROVE TypeOK' /\ Protocol' /\ KeepsUp' /\ WindowKeepsUp'
  BY DEF IInv, Protocol
<1>1. CASE Draw
  BY <1>1, ServerTypes, DrawProtocol, DrawKeepsUp, ServerWindow
<1>2. CASE Resize
  BY <1>2, ServerTypes, ResizeProtocol, ResizeKeepsUp, ServerWindow
<1>3. CASE ReadPixelFormat
  BY <1>3, ServerTypes, ReadPixelFormatProtocol, ReadPixelFormatKeepsUp, ServerWindow DEF Serve
<1>4. CASE Answer
  BY <1>4, ServerTypes, AnswerProtocol, AnswerKeepsUp, ServerWindow DEF Serve
<1>5. CASE ReadUpdate
  BY <1>5, ReadingTypes, ReadUpdateProtocol, ReadUpdateKeepsUp, ServerWindow
<1>6. CASE ReadDesktopSize
  BY <1>6, ReadingTypes, ReadDesktopSizeProtocol, ReadDesktopSizeKeepsUp, ReadDesktopSizeWindow
<1>7. CASE ReadRectangle
  BY <1>7, ReadingTypes, ReadRectangleProtocol, ReadRectangleKeepsUp, ReadRectangleWindow
<1>8. CASE OnUpdate
  BY <1>8, ReadingTypes, OnUpdateProtocol, OnUpdateKeepsUp, OnUpdateWindow
<1>9. CASE EndUpdate
  BY <1>9, ReadingTypes, EndUpdateProtocol, EndUpdateKeepsUp, ServerWindow
<1>10. CASE CheckFreeze
  BY <1>10, ReadingTypes, CheckFreezeProtocol, OtherKeepsUp, ServerWindow
<1>11. ASSUME NEW t \in Requester, SendFbUpdateRequest(t)
       PROVE TypeOK' /\ Protocol' /\ KeepsUp' /\ WindowKeepsUp'
  <2>1. Protocol'
    BY <1>11, TakeNeedProtocol, UpdatePixelFormatProtocol, TakeRefreshingProtocol,
       SendRequestProtocol DEF SendFbUpdateRequest
  <2>2. QED BY <1>11, <2>1, RequesterTypes, RequesterKeepsUp, RequesterWindow
<1>12. CASE User
  BY <1>12, OtherTypes, NotifierProtocol, OtherKeepsUp, ServerWindow
<1>13. CASE ShowPointer
  BY <1>13, OtherTypes, NotifierProtocol, OtherKeepsUp, ShowPointerWindow
<1>14. CASE Updater
  BY <1>14, OtherTypes, UpdaterProtocol, OtherKeepsUp, ServerWindow
<1>15. CASE Notifier
  BY <1>15, OtherTypes, NotifierProtocol, OtherKeepsUp, NotifierWindow
<1>16. CASE UNCHANGED vars
  <2>1. /\ UNCHANGED <<requests, updates, fb, reading, need, received, server, at, full>>
        /\ UNCHANGED <<notifier, taken, oldPosition, window, refreshing>>
    BY <1>16 DEF vars, serverVars, coreVars, userVars, notifierVars
  <2>2. TypeOK'
    BY <1>16, StutterTypes
  <2>3. Protocol'
    BY <2>1, QuietProtocol DEF Asks
  <2>4. KeepsUp'
    BY <2>1, QuietKeepsUp DEF FullRequests, Asks
  <2>5. WindowKeepsUp'
    BY <2>1, QuietWindow
  <2>6. QED BY <2>2, <2>3, <2>4, <2>5
<1>17. QED
  BY <1>1, <1>2, <1>3, <1>4, <1>5, <1>6, <1>7, <1>8, <1>9, <1>10, <1>11, <1>12, <1>13, <1>14,
     <1>15, <1>16 DEF Next, Serve, Core, UserThread, Requester

LEMMA Invariant == Spec => []IInv
BY InitInvariant, StepInvariant, PTL DEF Spec

(* Every variable of the viewer has its type, however often the screen     *)
(* changes and the user acts.                                              *)
THEOREM ViewerTypes == Spec => []TypeOK
<1>1. IInv => TypeOK
  BY DEF IInv
<1>2. QED BY <1>1, Invariant, PTL

(* Of the core's thread, the user's and the deferring sender's one at most *)
(* may request an update, and a turn is never lost.                        *)
THEOREM ViewerAsksOnce == Spec => []OneRequestAtATime
<1>1. IInv => OneRequestAtATime
  BY OneTurnIsOne DEF IInv
<1>2. QED BY <1>1, Invariant, PTL

(* An update has the pixel format the frame buffer has when it is read and *)
(* lies within it.                                                         *)
THEOREM ViewerReadsWhatFits == Spec => []UpdatesFit
<1>1. IInv => UpdatesFit
  BY DEF IInv
<1>2. QED BY <1>1, Invariant, PTL

(* A point the viewer's frame buffer has wrong is on its way or owed.      *)
THEOREM ViewerForgetsNothing == Spec => []ViewerKeepsUp
<1>1. IInv => ViewerKeepsUp
  BY DEF IInv, KeepsUp
<1>2. QED BY <1>1, Invariant, PTL

(* A point the window has wrong is one the notifier's thread will show or  *)
(* is about to be told of.                                                 *)
THEOREM WindowForgetsNothing == Spec => []WindowKeepsUp
<1>1. IInv => WindowKeepsUp
  BY DEF IInv
<1>2. QED BY <1>1, Invariant, PTL
=============================================================================
