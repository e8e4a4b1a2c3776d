----------------------- MODULE DesktopReconnect_proof -----------------------
(***************************************************************************)
(* The invariants of DesktopReconnect, for any screen, any size of the     *)
(* pipes and any number of servers that end at any step.                   *)
(***************************************************************************)
EXTENDS DesktopReconnect, TLAPS

(* The channels are numbered in the order of their servers.                *)
ChannelOrder ==
  /\ ~alive => server < MaxServers
  /\ reply.of <= server
  /\ \A e \in Ends : channel[e].now <= server /\ channel[e].old < channel[e].now
  /\ watcher \in {"framebuffer", "input", "to"} => channel["to"].now < server
  /\ watcher \in {"framebuffer", "input", "to", "from"} => channel["from"].now < server
  /\ watcher \in {"watching", "from"} /\ alive => channel["to"].now = server

(* Who uses the present channel of an end has noticed every replacement.   *)
Holds(c, user) ==
  user.at \in {"io", "reconnecting"} =>
    user.on <= c.now /\ (user.on = c.now => c.old = NoServer /\ ~c.changed)

ChannelUse ==
  /\ \A u \in Callers : Holds(channel["to"], call[u])
  /\ Holds(channel["from"], dispatcher)

(* One caller at a time, each with the rest of its own message.            *)
CallShapes ==
  /\ ~(Underway("desktop") /\ Underway("input"))
  /\ call["desktop"].at # "done"
  /\ call["desktop"].at \in {"get", "io", "reconnecting"} =>
       call["desktop"].left \in {<<>>, <<"extract">>}
  /\ call["input"].at \in {"get", "io", "reconnecting"} =>
       call["input"].left \in {<<"pointer", call["input"].flag>>, <<call["input"].flag>>}

(* No call has reached the present server yet.                             *)
Fresh == inbox = <<>> /\ (alive => reply.of # server)

FreshServers ==
  /\ ~alive => Fresh
  /\ watcher \in {"framebuffer", "input", "to"} => Fresh
  /\ channel["to"].changed => Fresh
  /\ \A u \in Callers :
       /\ call[u].at = "reconnecting" => Fresh
       /\ call[u].at = "io" /\ call[u].on # channel["to"].now => Fresh

(* A message cut in two is one that is being written.                      *)
CutInTwo == inbox # <<>> /\ inbox[Len(inbox)] = "pointer"
WritesButtons(at) == call["input"].at = at /\ call["input"].left = <<call["input"].flag>>

CutMessages ==
  /\ CutInTwo => WritesButtons("get") \/ WritesButtons("io")
  /\ WritesButtons("get") /\ ~channel["to"].changed /\ Connected(channel["to"].now) => CutInTwo
  /\ WritesButtons("io") /\ Connected(call["input"].on) => CutInTwo

(* There is one request at a time, or its answer.                          *)
AsksForUpdate == call["desktop"].at \in {"get", "io"} /\ call["desktop"].left = <<>>
Requests == {i \in 1..Len(inbox) : inbox[i] = "extract"}

OneExtract ==
  /\ Requests # {} => AsksForUpdate
  /\ \A i, j \in Requests : i = j
  /\ alive /\ reply.of = server => AsksForUpdate /\ Requests = {}

(* Where extract() waits for an answer, it is the present server's, ...    *)
AnswersArePresent ==
  ~spoiled /\ alive =>
    /\ watcher \in {"input", "to"} => ~AsksForUpdate
    /\ watcher \in {"watching", "from"} /\ AsksForUpdate =>
         IF call["desktop"].at = "io" THEN call["desktop"].on = server
                                      ELSE ~channel["to"].changed

(* ... which makes up for what the two frame buffers differ in.            *)
Synchronised ==
  ~spoiled /\ alive /\ watcher # "framebuffer" =>
    /\ reply.of = server => reply.colors = serverBackup
    /\ \A p \in Pixels : serverBackup[p] # backup[p] => reply.of = server /\ p \in reply.left

ToldBackup == ~spoiled => \A p \in Pixels \ got : told[p] = backup[p]

(* The last buttons in the pipe are what the server will know.             *)
WillKnow(flag) ==
  \/ prevKeyFlag = flag /\ \A i \in 1..Len(inbox) : inbox[i] \notin Buttons
  \/ \E i \in 1..Len(inbox) :
       inbox[i] = flag /\ \A j \in (i + 1)..Len(inbox) : inbox[j] \notin Buttons

ButtonsKnown ==
  Ready /\ ~spoiled =>
    WillKnow(IF call["input"].at = "done" THEN call["input"].flag ELSE mouseFlags)

(* The lock of the gate and the replacements keep all of this.             *)
IInv ==
  /\ TypeOK /\ ChannelOrder /\ ChannelUse /\ CallShapes
  /\ FreshServers /\ CutMessages /\ MessagesAreWhole /\ OneExtract
  /\ AnswersArePresent /\ Synchronised /\ ToldBackup /\ ButtonsKnown

-----------------------------------------------------------------------------
LEMMA Steps ==
  ASSUME [Next]_vars
  PROVE  \/ UNCHANGED vars
         \/ Draw \/ Poll \/ ExtractReply \/ ApplyNewPointerPos \/ Die \/ WatcherFails
         \/ Start \/ SendInitFramebuffer \/ SendInitInput \/ ReplaceChannel
         \/ WakeDesktop \/ BeginExtract \/ ReadPixels \/ ReadEnd
         \/ BeginMouseEvent \/ KeepMouseFlags
         \/ \E u \in Callers : GetChannel(u) \/ WriteChunk(u) \/ Breaks(u) \/ WaitForReconnect(u)
         \/ DispatcherGetsChannel \/ UpdateDetected \/ DispatcherBreaks \/ DispatcherReconnects
         \/ TimesOut \/ Crashes
BY DEF Next, Server, Watcher, Desktop, Input, Caller, Callers, Dispatcher

-----------------------------------------------------------------------------
(* Types.                                                                  *)
ScreenTypes ==
  /\ screen.pixels \in [Pixels -> Colors] /\ screen.changes \in 0..MaxChanges
  /\ server \in Servers /\ alive \in BOOLEAN
  /\ serverBackup \in [Pixels -> Colors] /\ detected \subseteq Pixels
  /\ prevKeyFlag \in Buttons

PipeTypes ==
  /\ inbox \in Seq(Codes \cup Buttons)
  /\ reply \in [of : Servers \cup {NoServer}, left : SUBSET Pixels,
                colors : [Pixels -> Colors], whole : BOOLEAN]
  /\ notices \subseteq Servers

ChannelRecords ==
  [now : Servers, old : Servers \cup {NoServer}, changed : BOOLEAN, deleted : SUBSET Servers]

ChannelTypes ==
  /\ watcher \in {"watching", "framebuffer", "input"} \cup Ends
  /\ channel \in [Ends -> ChannelRecords]

Places == {"idle", "locking", "get", "io", "reconnecting", "done"}

CallRecords ==
  [at : Places, on : Servers \cup {NoServer}, left : Messages, flag : Buttons]

CallTypes == call \in [Callers -> CallRecords]

UpdateTypes ==
  /\ got \subseteq Pixels /\ newUpdate \in BOOLEAN
  /\ backup \in [Pixels -> Colors] /\ told \in [Pixels -> Colors]
  /\ dispatcher \in [at : {"get", "io", "reconnecting"}, on : Servers \cup {NoServer}]
  /\ mouseFlags \in Buttons
  /\ broken \in BOOLEAN /\ spoiled \in BOOLEAN

LEMMA TypesSplit == TypeOK <=> ScreenTypes /\ PipeTypes /\ ChannelTypes /\ CallTypes /\ UpdateTypes
BY DEF TypeOK, ServerTypes, ServiceTypes, ScreenTypes, PipeTypes, ChannelTypes, CallTypes,
       UpdateTypes, ChannelRecords, CallRecords, Places

LEMMA CallFields ==
  ASSUME NEW c \in CallRecords
  PROVE  /\ c.at \in Places /\ c.on \in Servers \cup {NoServer}
         /\ c.left \in Messages /\ c.flag \in Buttons
BY DEF CallRecords

LEMMA CallEdits ==
  ASSUME NEW c \in CallRecords, NEW at \in Places, NEW on \in Servers \cup {NoServer},
         NEW left \in Messages, NEW flag \in Buttons
  PROVE  /\ [c EXCEPT !.at = at] \in CallRecords
         /\ [c EXCEPT !.at = at, !.on = on] \in CallRecords
         /\ [c EXCEPT !.at = at, !.left = left] \in CallRecords
         /\ [c EXCEPT !.at = at, !.left = left, !.flag = flag] \in CallRecords
         /\ [c EXCEPT !.left = left, !.on = on, !.at = at] \in CallRecords
BY DEF CallRecords

LEMMA IdleCallType == IdleCall \in CallRecords
BY DEF IdleCall, CallRecords, Places, Messages, Buttons

LEMMA ChannelFields ==
  ASSUME NEW c \in ChannelRecords
  PROVE  /\ c.now \in Servers /\ c.old \in Servers \cup {NoServer}
         /\ c.changed \in BOOLEAN /\ c.deleted \subseteq Servers
BY DEF ChannelRecords

LEMMA ChannelEdits ==
  ASSUME NEW c \in ChannelRecords, server \in Servers
  PROVE  /\ Noticed(c) \in ChannelRecords
         /\ Replaced(c) \in ChannelRecords
         /\ Caught(c) \in ChannelRecords
         /\ [c EXCEPT !.changed = FALSE] \in ChannelRecords
<1>1. Noticed(c) \in ChannelRecords
  <2>1. c.deleted \cap {c.now} \in SUBSET Servers
    BY DEF ChannelRecords
  <2>2. QED BY <2>1 DEF ChannelRecords, Noticed
<1>2. Replaced(c) \in ChannelRecords
  <2>1. c.deleted \cup DeletedByReplace(c) \in SUBSET Servers
    BY DEF ChannelRecords, DeletedByReplace
  <2>2. QED BY <2>1 DEF ChannelRecords, Replaced
<1>3. Caught(c) \in ChannelRecords
  <2>1. c.deleted \cup {server} \in SUBSET Servers
    BY DEF ChannelRecords
  <2>2. QED BY <2>1 DEF ChannelRecords, Caught
<1>4. QED BY <1>1, <1>2, <1>3 DEF ChannelRecords

LEMMA NoticedParts ==
  ASSUME NEW c \in ChannelRecords
  PROVE  Noticed(c).now = c.now /\ Noticed(c).old = NoServer /\ ~Noticed(c).changed
BY DEF ChannelRecords, Noticed

LEMMA ReplacedParts ==
  ASSUME NEW c \in ChannelRecords
  PROVE  Replaced(c).now = server /\ Replaced(c).old = c.now /\ Replaced(c).changed
BY DEF Replaced

LEMMA CaughtParts ==
  ASSUME NEW c \in ChannelRecords
  PROVE  Caught(c).now = c.now /\ Caught(c).old = c.old /\ Caught(c).changed = c.changed
BY DEF ChannelRecords, Caught

LEMMA MessageTails ==
  ASSUME NEW m \in Messages, m # <<>>
  PROVE  Tail(m) \in Messages /\ Head(m) \in Codes \cup Buttons /\ Head(m) = m[1]
<1>1. CASE m = <<"extract">>
  BY <1>1 DEF Messages, Codes
<1>2. ASSUME NEW b \in Buttons, m = <<"pointer", b>>
      PROVE  Tail(m) \in Messages /\ Head(m) \in Codes \cup Buttons /\ Head(m) = m[1]
  <2>1. Tail(m) = <<b>>
    BY <1>2
  <2>2. QED BY <1>2, <2>1 DEF Messages, Codes
<1>3. ASSUME NEW b \in Buttons, m = <<b>>
      PROVE  Tail(m) \in Messages /\ Head(m) \in Codes \cup Buttons /\ Head(m) = m[1]
  BY <1>3 DEF Messages, Codes
<1>4. QED BY <1>1, <1>2, <1>3 DEF Messages

LEMMA TailOf ==
  ASSUME NEW S, NEW s \in Seq(S), s # <<>>
  PROVE  /\ Tail(s) \in Seq(S) /\ Len(Tail(s)) = Len(s) - 1
         /\ \A i \in 1..Len(Tail(s)) : Tail(s)[i] = s[i + 1]
OBVIOUS

LEMMA AboveOne ==
  ASSUME NEW n \in Nat, n > 1
  PROVE  n # 0 /\ n - 1 # 0
OBVIOUS

LEMMA LongTail ==
  ASSUME NEW S, NEW s \in Seq(S), Len(s) > 1
  PROVE  Tail(s) \in Seq(S) /\ Tail(s) # <<>>
<1>0. Len(<<>>) = 0
  OBVIOUS
<1>c. Len(s) \in Nat
  OBVIOUS
<1>a. Len(s) # 0 /\ Len(s) - 1 # 0
  BY <1>c, AboveOne
<1>1. s # <<>>
  BY <1>0, <1>a, Zenon
<1>2. Tail(s) \in Seq(S) /\ Len(Tail(s)) = Len(s) - 1
  BY <1>1, TailOf
<1>3. Len(Tail(s)) # 0
  BY <1>a, <1>2
<1>4. QED BY <1>0, <1>2, <1>3, Zenon

LEMMA ShortTails ==
  ASSUME NEW a, NEW b
  PROVE  /\ Tail(<<a>>) = <<>> /\ Head(<<a>>) = a
         /\ Tail(<<a, b>>) = <<b>> /\ Head(<<a, b>>) = a
         /\ <<a>> # <<>> /\ <<a, b>> # <<>>
OBVIOUS

LEMMA AppendOf ==
  ASSUME NEW S, NEW s \in Seq(S), NEW e \in S
  PROVE  /\ Append(s, e) \in Seq(S) /\ Len(Append(s, e)) = Len(s) + 1
         /\ \A i \in 1..Len(s) : Append(s, e)[i] = s[i]
         /\ Append(s, e)[Len(s) + 1] = e
OBVIOUS

LEMMA InitTypes == Init => TypeOK
<1> SUFFICES ASSUME Init
             PROVE  TypeOK
  OBVIOUS
<1> USE ReconnectAssumption
<1>1. 1 \in Servers /\ 0 \in 0..MaxChanges
  BY DEF Servers
<1>2. ScreenTypes
  BY <1>1 DEF Init, ScreenTypes, Buttons
<1>3. PipeTypes
  BY <1>1 DEF Init, PipeTypes, NoReply
<1>4. ChannelTypes
  BY <1>1 DEF Init, ChannelTypes, ChannelRecords, Ends
<1>5. CallTypes
  BY IdleCallType DEF Init, CallTypes
<1>6. UpdateTypes
  BY <1>1 DEF Init, UpdateTypes, Buttons
<1>7. QED BY <1>2, <1>3, <1>4, <1>5, <1>6, TypesSplit

LEMMA NextScreenTypes ==
  ASSUME TypeOK, ChannelOrder, MessagesAreWhole, [Next]_vars
  PROVE  ScreenTypes'
<1> USE ReconnectAssumption DEF ScreenTypes, TypeOK, ServerTypes, ServiceTypes, serverVars, vars
<1>1. CASE UNCHANGED <<screen, serverVars>>
  BY <1>1
<1>2. CASE Draw
  BY <1>2 DEF Draw
<1>3. CASE Poll
  BY <1>3 DEF Poll
<1>4. CASE ExtractReply
  <2>1. serverBackup' \in [Pixels -> Colors]
    BY <1>4 DEF ExtractReply
  <2>2. QED BY <1>4, <2>1 DEF ExtractReply
<1>5. CASE ApplyNewPointerPos
  <2>1. inbox[2] \in Buttons
    BY <1>5 DEF ApplyNewPointerPos, MessagesAreWhole
  <2>2. QED BY <1>5, <2>1 DEF ApplyNewPointerPos
<1>6. CASE Die \/ WatcherFails
  BY <1>6 DEF Die, WatcherFails, Buttons
<1>7. CASE Start
  BY <1>7 DEF Start, ChannelOrder, Servers
<1>8. CASE SendInitFramebuffer
  BY <1>8 DEF SendInitFramebuffer
<1>9. CASE SendInitInput
  BY <1>9 DEF SendInitInput
<1>10. CASE \/ WakeDesktop \/ BeginExtract \/ ReadPixels \/ ReadEnd \/ BeginMouseEvent
            \/ KeepMouseFlags \/ ReplaceChannel \/ TimesOut \/ Crashes
  BY <1>1, <1>10 DEF WakeDesktop, BeginExtract, ReadPixels, ReadEnd, BeginMouseEvent,
                     KeepMouseFlags, ReplaceChannel, TimesOut, Crashes
<1>11. CASE \E u \in Callers : GetChannel(u) \/ WriteChunk(u) \/ Breaks(u) \/ WaitForReconnect(u)
  BY <1>1, <1>11 DEF GetChannel, WriteChunk, Breaks, WaitForReconnect
<1>12. CASE \/ DispatcherGetsChannel \/ UpdateDetected \/ DispatcherBreaks \/ DispatcherReconnects
  BY <1>1, <1>12 DEF DispatcherGetsChannel, UpdateDetected, DispatcherBreaks, DispatcherReconnects
<1>13. QED BY <1>1, <1>2, <1>3, <1>4, <1>5, <1>6, <1>7, <1>8, <1>9, <1>10, <1>11, <1>12, Steps

LEMMA NextPipeTypes ==
  ASSUME TypeOK, [Next]_vars
  PROVE  PipeTypes'
<1> USE DEF PipeTypes, TypeOK, ServerTypes, ServiceTypes, pipeVars, vars
<1>1. CASE UNCHANGED <<pipeVars>>
  BY <1>1
<1>2. CASE Poll
  BY <1>2 DEF Poll
<1>3. CASE ExtractReply
  <2>1. serverBackup' \in [Pixels -> Colors]
    BY <1>3 DEF ExtractReply
  <2>2. inbox' \in Seq(Codes \cup Buttons)
    BY <1>3 DEF ExtractReply
  <2>3. reply' \in [of : Servers \cup {NoServer}, left : SUBSET Pixels,
                    colors : [Pixels -> Colors], whole : BOOLEAN]
    BY <1>3, <2>1 DEF ExtractReply
  <2>4. QED BY <1>3, <2>2, <2>3 DEF ExtractReply
<1>4. CASE ApplyNewPointerPos
  <2>4. Tail(inbox) # <<>> /\ Tail(inbox) \in Seq(Codes \cup Buttons)
    BY <1>4, LongTail DEF ApplyNewPointerPos
  <2>2. inbox' \in Seq(Codes \cup Buttons)
    BY <1>4, <2>4, TailOf DEF ApplyNewPointerPos
  <2>3. QED BY <1>4, <2>2 DEF ApplyNewPointerPos
<1>5. CASE Die
  <2>1. <<>> \in Seq(Codes \cup Buttons)
    OBVIOUS
  <2>2. inbox' \in Seq(Codes \cup Buttons) /\ notices' \subseteq Servers
    BY <1>5, <2>1 DEF Die
  <2>3. ASSUME NEW left \in SUBSET reply.left
        PROVE  [reply EXCEPT !.left = left, !.whole = FALSE]
                 \in [of : Servers \cup {NoServer}, left : SUBSET Pixels,
                      colors : [Pixels -> Colors], whole : BOOLEAN]
    OBVIOUS
  <2>4. reply' \in [of : Servers \cup {NoServer}, left : SUBSET Pixels,
                    colors : [Pixels -> Colors], whole : BOOLEAN]
    BY <1>5, <2>3 DEF Die
  <2>5. QED BY <2>2, <2>4
<1>13. CASE WatcherFails
  <2>1. <<>> \in Seq(Codes \cup Buttons)
    OBVIOUS
  <2>2. reply' \in [of : Servers \cup {NoServer}, left : SUBSET Pixels,
                    colors : [Pixels -> Colors], whole : BOOLEAN]
    BY <1>13, ReconnectAssumption DEF WatcherFails, NoReply
  <2>3. QED BY <1>13, <2>1, <2>2 DEF WatcherFails
<1>6. CASE ReadPixels
  <2>1. ASSUME NEW p \in reply.left
        PROVE  [reply EXCEPT !.left = reply.left \ {p}]
                 \in [of : Servers \cup {NoServer}, left : SUBSET Pixels,
                      colors : [Pixels -> Colors], whole : BOOLEAN]
    OBVIOUS
  <2>2. reply' \in [of : Servers \cup {NoServer}, left : SUBSET Pixels,
                    colors : [Pixels -> Colors], whole : BOOLEAN]
    BY <1>6, <2>1 DEF ReadPixels
  <2>3. QED BY <1>6, <2>2 DEF ReadPixels
<1>7. CASE ReadEnd
  BY <1>7, ReconnectAssumption DEF ReadEnd, NoReply
<1>8. ASSUME NEW u \in Callers, GetChannel(u)
      PROVE  PipeTypes'
  BY <1>8, ReconnectAssumption DEF GetChannel, NoReply
<1>9. ASSUME NEW u \in Callers, WriteChunk(u)
      PROVE  PipeTypes'
  <2>1. Head(call[u].left) \in Codes \cup Buttons
    BY <1>9, MessageTails DEF WriteChunk
  <2>2. QED BY <1>9, <2>1 DEF WriteChunk
<1>10. CASE DispatcherGetsChannel \/ UpdateDetected
  BY <1>10 DEF DispatcherGetsChannel, UpdateDetected
<1>11. CASE \/ Draw \/ Start \/ SendInitFramebuffer \/ SendInitInput \/ ReplaceChannel
            \/ WakeDesktop \/ BeginExtract \/ BeginMouseEvent \/ KeepMouseFlags \/ TimesOut
            \/ Crashes \/ DispatcherBreaks \/ DispatcherReconnects
            \/ \E u \in Callers : Breaks(u) \/ WaitForReconnect(u)
  BY <1>1, <1>11 DEF Draw, Start, SendInitFramebuffer, SendInitInput, ReplaceChannel, WakeDesktop,
                     BeginExtract, BeginMouseEvent, KeepMouseFlags, TimesOut, Crashes,
                     DispatcherBreaks, DispatcherReconnects, Breaks, WaitForReconnect
<1>12. QED
  BY <1>1, <1>2, <1>3, <1>4, <1>5, <1>6, <1>7, <1>8, <1>9, <1>10, <1>11, <1>13, Steps

LEMMA NextChannelTypes ==
  ASSUME TypeOK, [Next]_vars
  PROVE  ChannelTypes'
<1> USE DEF ChannelTypes, vars
<1>0. ChannelTypes /\ server \in Servers
  BY TypesSplit DEF ScreenTypes
<1> USE <1>0
<1>1. CASE UNCHANGED <<watcher, channel>>
  BY <1>1
<1>2. CASE Start \/ SendInitFramebuffer \/ SendInitInput
  BY <1>2 DEF Start, SendInitFramebuffer, SendInitInput, Ends
<1>3. CASE ReplaceChannel
  BY <1>3, ChannelEdits DEF ReplaceChannel, Ends
<1>9. CASE WatcherFails
  BY <1>9, ChannelEdits DEF WatcherFails
<1>4. CASE DispatcherGetsChannel
  BY <1>4, ChannelEdits DEF DispatcherGetsChannel, Ends
<1>5. CASE \E u \in Callers : GetChannel(u)
  BY <1>5, ChannelEdits DEF GetChannel, Ends
<1>6. CASE DispatcherReconnects \/ \E u \in Callers : WaitForReconnect(u)
  <2>1. CASE channel' = [channel EXCEPT !["to"] = [channel["to"] EXCEPT !.changed = FALSE]]
    BY <1>6, <2>1, ChannelEdits DEF DispatcherReconnects, WaitForReconnect, Ends
  <2>2. CASE channel' = [channel EXCEPT !["from"] = [channel["from"] EXCEPT !.changed = FALSE]]
    BY <1>6, <2>2, ChannelEdits DEF DispatcherReconnects, WaitForReconnect, Ends
  <2>3. QED BY <1>6, <2>1, <2>2 DEF DispatcherReconnects, WaitForReconnect
<1>7. CASE \/ Draw \/ Poll \/ ExtractReply \/ ApplyNewPointerPos \/ Die \/ WakeDesktop
           \/ BeginExtract \/ ReadPixels \/ ReadEnd \/ BeginMouseEvent \/ KeepMouseFlags
           \/ TimesOut \/ Crashes \/ UpdateDetected \/ DispatcherBreaks
           \/ \E u \in Callers : WriteChunk(u) \/ Breaks(u)
  BY <1>1, <1>7 DEF Draw, Poll, ExtractReply, ApplyNewPointerPos, Die, WakeDesktop, BeginExtract,
                    ReadPixels, ReadEnd, BeginMouseEvent, KeepMouseFlags, TimesOut, Crashes,
                    UpdateDetected, DispatcherBreaks, WriteChunk, Breaks
<1>8. QED BY <1>1, <1>2, <1>3, <1>4, <1>5, <1>6, <1>7, <1>9, Steps

LEMMA NextCallTypes ==
  ASSUME TypeOK, [Next]_vars
  PROVE  CallTypes'
<1> USE DEF CallTypes, vars
<1>0. CallTypes /\ ChannelTypes
  BY TypesSplit
<1>a. \A u \in Callers : call[u] \in CallRecords
  BY <1>0
<1>b. "desktop" \in Callers /\ "input" \in Callers /\ NoServer \in Servers \cup {NoServer}
  BY DEF Callers
<1>1. CASE UNCHANGED call
  BY <1>0, <1>1
<1>2. CASE WakeDesktop
  <2>1. [call["desktop"] EXCEPT !.at = "locking"] \in CallRecords
    BY <1>a, <1>b, CallEdits, CallFields DEF Places
  <2>2. QED BY <1>0, <1>2, <2>1 DEF WakeDesktop
<1>3. CASE BeginExtract
  <2>1. [IdleCall EXCEPT !.at = "get", !.left = <<"extract">>] \in CallRecords
    BY IdleCallType, CallEdits, CallFields DEF Places, Messages
  <2>2. QED BY <1>0, <1>3, <2>1 DEF BeginExtract
<1>4. CASE BeginMouseEvent
  <2>1. ASSUME NEW flag \in Buttons
        PROVE  [IdleCall EXCEPT !.at = "get", !.left = <<"pointer", flag>>, !.flag = flag]
                 \in CallRecords
    <3>1. <<"pointer", flag>> \in Messages /\ "get" \in Places
      BY DEF Messages, Places
    <3>2. QED BY <3>1, IdleCallType, CallEdits, CallFields
  <2>2. QED BY <1>0, <1>4, <2>1 DEF BeginMouseEvent
<1>5. CASE ReadPixels
  <2>1. [call["desktop"] EXCEPT !.at = "get", !.on = NoServer] \in CallRecords
    BY <1>a, <1>b, CallEdits, CallFields DEF Places
  <2>2. QED BY <1>0, <1>5, <2>1 DEF ReadPixels
<1>7. CASE ReadEnd \/ KeepMouseFlags
  BY <1>0, <1>7, IdleCallType DEF ReadEnd, KeepMouseFlags
<1>8. ASSUME NEW u \in Callers, GetChannel(u)
      PROVE  CallTypes'
  <2>1. CASE channel["to"].changed
    BY <1>0, <1>8, <2>1, IdleCallType DEF GetChannel, Abandons
  <2>2. CASE ~channel["to"].changed
    <3>1. channel["to"].now \in Servers
      BY <1>0, ChannelFields DEF ChannelTypes, Ends
    <3>2. [call[u] EXCEPT !.at = "io", !.on = channel["to"].now] \in CallRecords
      BY <1>a, <3>1, CallEdits, CallFields DEF Places
    <3>3. QED BY <1>0, <1>8, <2>2, <3>2 DEF GetChannel
  <2>3. QED BY <2>1, <2>2
<1>9. ASSUME NEW u \in Callers, WriteChunk(u)
      PROVE  CallTypes'
  <2>1. Tail(call[u].left) \in Messages
    BY <1>9, <1>a, MessageTails, CallFields DEF WriteChunk
  <2>2. ASSUME NEW at \in {"done", "get"}
        PROVE  [call[u] EXCEPT !.left = Tail(call[u].left), !.on = NoServer, !.at = at]
                 \in CallRecords
    <3>1. at \in Places /\ call[u] \in CallRecords /\ call[u].flag \in Buttons
      BY <1>a, CallFields DEF Places
    <3>2. QED BY <1>b, <2>1, <3>1, CallEdits
  <2>3. QED BY <1>0, <1>9, <2>2 DEF WriteChunk
<1>10. ASSUME NEW u \in Callers, Breaks(u)
       PROVE  CallTypes'
  <2>1. [call[u] EXCEPT !.at = "reconnecting"] \in CallRecords
    BY <1>a, <1>b, CallEdits, CallFields DEF Places
  <2>2. QED BY <1>0, <1>10, <2>1 DEF Breaks
<1>11. ASSUME NEW u \in Callers, WaitForReconnect(u)
       PROVE  CallTypes'
  BY <1>0, <1>11, IdleCallType DEF WaitForReconnect, Abandons
<1>12. CASE \/ Draw \/ Poll \/ ExtractReply \/ ApplyNewPointerPos \/ Die \/ WatcherFails \/ Start
            \/ SendInitFramebuffer \/ SendInitInput \/ ReplaceChannel \/ TimesOut \/ Crashes
            \/ DispatcherGetsChannel \/ UpdateDetected \/ DispatcherBreaks \/ DispatcherReconnects
  BY <1>1, <1>12 DEF Draw, Poll, ExtractReply, ApplyNewPointerPos, Die, WatcherFails, Start,
                     SendInitFramebuffer, SendInitInput, ReplaceChannel, TimesOut, Crashes,
                     DispatcherGetsChannel, UpdateDetected, DispatcherBreaks, DispatcherReconnects
<1>13. QED
  BY <1>1, <1>2, <1>3, <1>4, <1>5, <1>7, <1>8, <1>9, <1>10, <1>11, <1>12, Steps

LEMMA NextUpdateTypes ==
  ASSUME TypeOK, [Next]_vars
  PROVE  UpdateTypes'
<1> USE DEF UpdateTypes, TypeOK, ServerTypes, ServiceTypes, updateVars, historyVars, vars
<1>1. CASE UNCHANGED <<updateVars, dispatcher, mouseFlags, historyVars>>
  BY <1>1
<1>2. CASE SendInitFramebuffer \/ SendInitInput
  BY <1>2 DEF SendInitFramebuffer, SendInitInput, Overlaps
<1>3. CASE WakeDesktop
  BY <1>3 DEF WakeDesktop
<1>4. CASE ReadPixels
  BY <1>4 DEF ReadPixels
<1>5. CASE ReadEnd
  BY <1>5 DEF ReadEnd
<1>6. CASE KeepMouseFlags
  BY <1>6 DEF KeepMouseFlags, Callers
<1>7. ASSUME NEW u \in Callers, GetChannel(u) \/ WaitForReconnect(u)
      PROVE  UpdateTypes'
  BY <1>7 DEF GetChannel, WaitForReconnect, Abandons
<1>8. CASE DispatcherGetsChannel
  <2>1. channel["from"].now \in Servers
    BY TypesSplit, ChannelFields DEF ChannelTypes, Ends
  <2>2. [at |-> "io", on |-> channel["from"].now]
          \in [at : {"get", "io", "reconnecting"}, on : Servers \cup {NoServer}]
    BY <2>1
  <2>3. dispatcher' \in [at : {"get", "io", "reconnecting"}, on : Servers \cup {NoServer}]
    BY <1>8, <2>2 DEF DispatcherGetsChannel
  <2>4. QED BY <1>8, <2>3 DEF DispatcherGetsChannel
<1>9. CASE UpdateDetected \/ DispatcherReconnects
  <2>1. [at |-> "get", on |-> NoServer]
          \in [at : {"get", "io", "reconnecting"}, on : Servers \cup {NoServer}]
    OBVIOUS
  <2>2. dispatcher' = [at |-> "get", on |-> NoServer]
    BY <1>9 DEF UpdateDetected, DispatcherReconnects
  <2>3. /\ newUpdate' \in BOOLEAN
        /\ UNCHANGED <<got, backup, told, mouseFlags, broken, spoiled>>
    BY <1>9 DEF UpdateDetected, DispatcherReconnects
  <2>4. QED BY <2>1, <2>2, <2>3
<1>12. CASE DispatcherBreaks
  <2>1. [dispatcher EXCEPT !.at = "reconnecting"]
          \in [at : {"get", "io", "reconnecting"}, on : Servers \cup {NoServer}]
    OBVIOUS
  <2>2. QED BY <1>12, <2>1 DEF DispatcherBreaks
<1>13. CASE TimesOut \/ Crashes
  BY <1>13 DEF TimesOut, Crashes
<1>10. CASE \/ Draw \/ Poll \/ ExtractReply \/ ApplyNewPointerPos \/ Die \/ WatcherFails \/ Start
            \/ ReplaceChannel \/ BeginExtract \/ BeginMouseEvent
            \/ \E u \in Callers : WriteChunk(u) \/ Breaks(u)
  BY <1>1, <1>10 DEF Draw, Poll, ExtractReply, ApplyNewPointerPos, Die, WatcherFails, Start,
                     ReplaceChannel, BeginExtract, BeginMouseEvent, WriteChunk, Breaks
<1>11. QED
  BY <1>1, <1>2, <1>3, <1>4, <1>5, <1>6, <1>7, <1>8, <1>9, <1>10, <1>12, <1>13, Steps

-----------------------------------------------------------------------------
(* Channels and calls.                                                     *)
LEMMA NextChannelOrder ==
  ASSUME TypeOK, ChannelOrder, [Next]_vars
  PROVE  ChannelOrder'
<1> USE DEF ChannelOrder, NoServer, Ends, serverVars, vars
<1>0. ChannelTypes /\ server \in Nat /\ MaxServers \in Nat /\ server <= MaxServers
  BY ReconnectAssumption, TypesSplit DEF ScreenTypes, Servers
<1>a. \A e \in Ends : channel[e] \in ChannelRecords /\ channel[e].now \in Nat \ {0}
                     /\ channel[e].old \in Nat
  BY <1>0, ChannelFields DEF ChannelTypes, Servers
<1>b. reply.of \in Nat
  BY DEF TypeOK, ServerTypes, Servers
<1> USE <1>0
<1>1. CASE UNCHANGED <<server, alive, reply, watcher, channel>>
  BY <1>1
<1>2. CASE ExtractReply
  BY <1>2 DEF ExtractReply
<1>3. CASE Die
  <2>1. reply'.of <= server
    BY <1>3, <1>b DEF Die, TypeOK, ServerTypes
  <2>2. QED BY <1>3, <2>1 DEF Die
<1>14. CASE WatcherFails
  <2>1. /\ watcher = "watching" /\ server < MaxServers /\ UNCHANGED <<server, watcher>>
        /\ ~alive' /\ reply' \in {reply, NoReply}
    BY <1>14 DEF WatcherFails
  <2>2. reply'.of <= server
    BY <1>b, <2>1 DEF NoReply
  <2>3. \A e \in Ends : channel'[e].now = channel[e].now /\ channel'[e].old = channel[e].old
    BY <1>14, <1>a, CaughtParts DEF WatcherFails
  <2>4. QED BY <2>1, <2>2, <2>3
<1>4. CASE Start
  BY <1>4, <1>a, <1>b DEF Start, pipeVars, ChannelTypes
<1>5. CASE SendInitFramebuffer \/ SendInitInput
  BY <1>5 DEF SendInitFramebuffer, SendInitInput, pipeVars
<1>6. CASE ReplaceChannel
  <2>1. UNCHANGED <<server, alive, reply>>
    BY <1>6 DEF ReplaceChannel, pipeVars
  <2>2. CASE watcher = "to"
    <3>1. /\ channel'["to"] = Replaced(channel["to"]) /\ channel'["from"] = channel["from"]
          /\ watcher' = "from"
      BY <1>6, <2>2 DEF ReplaceChannel, ChannelTypes
    <3>2. QED BY <1>a, <2>1, <2>2, <3>1, ReplacedParts
  <2>3. CASE watcher = "from"
    <3>1. /\ channel'["from"] = Replaced(channel["from"]) /\ channel'["to"] = channel["to"]
          /\ watcher' = "watching"
      BY <1>6, <2>3 DEF ReplaceChannel, ChannelTypes
    <3>2. QED BY <1>a, <2>1, <2>3, <3>1, ReplacedParts
  <2>4. QED BY <1>6, <2>2, <2>3 DEF ReplaceChannel
<1>7. ASSUME NEW e \in Ends, channel' = [channel EXCEPT ![e] = Noticed(channel[e])],
             UNCHANGED <<server, alive, watcher>>, reply' \in {reply, NoReply}
      PROVE  ChannelOrder'
  <2>1. reply'.of <= server
    BY <1>7, <1>b DEF NoReply
  <2>2. channel'[e] = Noticed(channel[e]) /\ \A f \in Ends \ {e} : channel'[f] = channel[f]
    BY <1>7 DEF ChannelTypes
  <2>3. \A f \in Ends : channel'[f].now = channel[f].now /\ channel'[f].old < channel'[f].now
    BY <1>a, <2>2, NoticedParts
  <2>4. QED BY <1>7, <2>1, <2>3
<1>8. CASE DispatcherGetsChannel
  BY <1>7, <1>8 DEF DispatcherGetsChannel
<1>13. ASSUME NEW u \in Callers, GetChannel(u)
       PROVE  ChannelOrder'
  BY <1>7, <1>13 DEF GetChannel
<1>9. CASE DispatcherReconnects \/ \E u \in Callers : WaitForReconnect(u)
  <2>1. PICK e \in Ends : channel' = [channel EXCEPT ![e] = [channel[e] EXCEPT !.changed = FALSE]]
    BY <1>9 DEF DispatcherReconnects, WaitForReconnect
  <2>2. \A f \in Ends : channel'[f].now = channel[f].now /\ channel'[f].old = channel[f].old
    BY <2>1, <1>a DEF ChannelTypes, ChannelRecords
  <2>3. UNCHANGED <<server, alive, reply, watcher>>
    BY <1>9 DEF DispatcherReconnects, WaitForReconnect, pipeVars
  <2>4. QED BY <2>2, <2>3
<1>10. CASE ReadPixels \/ ReadEnd
  <2>1. reply'.of <= server
    BY <1>10, <1>b DEF ReadPixels, ReadEnd, NoReply, TypeOK, ServerTypes
  <2>2. UNCHANGED <<server, alive, watcher, channel>>
    BY <1>10 DEF ReadPixels, ReadEnd
  <2>3. QED BY <2>1, <2>2
<1>11. CASE \/ Draw \/ Poll \/ ApplyNewPointerPos \/ WakeDesktop \/ BeginExtract
            \/ BeginMouseEvent \/ KeepMouseFlags \/ TimesOut \/ Crashes \/ UpdateDetected
            \/ DispatcherBreaks \/ \E u \in Callers : WriteChunk(u) \/ Breaks(u)
  BY <1>1, <1>11 DEF Draw, Poll, ApplyNewPointerPos, WakeDesktop, BeginExtract, BeginMouseEvent,
                     KeepMouseFlags, TimesOut, Crashes, UpdateDetected, DispatcherBreaks,
                     WriteChunk, Breaks, pipeVars
<1> HIDE DEF ChannelOrder
<1>12. QED BY <1>1, <1>2, <1>3, <1>4, <1>5, <1>6, <1>8, <1>9, <1>10, <1>11, <1>13, <1>14,
           Steps
       DEF pipeVars

(* What the steps of the callers do to the calls and the channel.          *)
LEMMA BeginEffect ==
  ASSUME TypeOK
  PROVE  /\ WakeDesktop => /\ call'["input"] = call["input"] /\ call["desktop"].at = "idle"
                           /\ call'["desktop"].at = "locking"
         /\ BeginExtract => /\ call'["input"] = call["input"]
                            /\ call["desktop"].at = "locking" /\ call["input"].at \in {"idle", "locking"}
                            /\ call'["desktop"].at = "get" /\ call'["desktop"].left = <<"extract">>
         /\ BeginMouseEvent => /\ call'["desktop"] = call["desktop"]
                               /\ \A u \in Callers : call[u].at \in {"idle", "locking"}
                               /\ call'["input"].at = "get"
                               /\ call'["input"].flag \in Buttons
                               /\ call'["input"].left = <<"pointer", call'["input"].flag>>
<1>1. call \in [Callers -> CallRecords] /\ "desktop" \in Callers /\ "input" \in Callers
  BY TypesSplit DEF CallTypes, Callers
<1>2. \A u \in Callers : ~Underway(u) => call[u].at \in {"idle", "locking"}
  BY DEF Underway
<1>3. ASSUME WakeDesktop
      PROVE  /\ call'["input"] = call["input"] /\ call["desktop"].at = "idle"
             /\ call'["desktop"].at = "locking"
  BY <1>1, <1>3 DEF WakeDesktop, CallRecords
<1>4. ASSUME BeginExtract
      PROVE  /\ call'["input"] = call["input"]
             /\ call["desktop"].at = "locking" /\ call["input"].at \in {"idle", "locking"}
             /\ call'["desktop"].at = "get" /\ call'["desktop"].left = <<"extract">>
  <2>1. call'["desktop"] = [IdleCall EXCEPT !.at = "get", !.left = <<"extract">>]
    BY <1>1, <1>4 DEF BeginExtract
  <2>2. call'["desktop"].at = "get" /\ call'["desktop"].left = <<"extract">>
    BY <2>1 DEF IdleCall
  <2>3. QED BY <1>1, <1>2, <1>4, <2>2 DEF BeginExtract, GateIsFree
<1>5. ASSUME BeginMouseEvent
      PROVE  /\ call'["desktop"] = call["desktop"]
             /\ \A u \in Callers : call[u].at \in {"idle", "locking"}
             /\ call'["input"].at = "get"
             /\ call'["input"].flag \in Buttons
             /\ call'["input"].left = <<"pointer", call'["input"].flag>>
  <2>1. PICK flag \in Buttons :
           call' = [call EXCEPT !["input"] =
                      [IdleCall EXCEPT !.at = "get", !.left = <<"pointer", flag>>, !.flag = flag]]
    BY <1>5 DEF BeginMouseEvent
  <2>2. call'["input"] = [IdleCall EXCEPT !.at = "get", !.left = <<"pointer", flag>>, !.flag = flag]
    BY <1>1, <2>1
  <2>3. /\ call'["input"].at = "get" /\ call'["input"].flag = flag
        /\ call'["input"].left = <<"pointer", flag>>
    BY <2>2 DEF IdleCall
  <2>4. QED BY <1>1, <1>2, <1>5, <2>1, <2>3 DEF BeginMouseEvent, GateIsFree
<1>6. QED BY <1>3, <1>4, <1>5

LEMMA EndEffect ==
  ASSUME TypeOK
  PROVE  /\ ReadPixels => /\ call'["input"] = call["input"]
                          /\ call["desktop"].at = "io" /\ call["desktop"].left = <<>>
                          /\ call'["desktop"].at = "get" /\ call'["desktop"].left = <<>>
         /\ ReadEnd => /\ call'["input"] = call["input"]
                       /\ call["desktop"].at = "io" /\ call["desktop"].left = <<>>
                       /\ call'["desktop"].at = "idle"
         /\ KeepMouseFlags => /\ call'["desktop"] = call["desktop"]
                              /\ call["input"].at = "done" /\ call'["input"].at = "idle"
<1>1. call \in [Callers -> CallRecords] /\ "desktop" \in Callers /\ "input" \in Callers
  BY TypesSplit DEF CallTypes, Callers
<1>2. ASSUME ReadPixels
      PROVE  /\ call'["input"] = call["input"]
             /\ call["desktop"].at = "io" /\ call["desktop"].left = <<>>
             /\ call'["desktop"].at = "get" /\ call'["desktop"].left = <<>>
  <2>1. call'["desktop"] = [call["desktop"] EXCEPT !.at = "get", !.on = NoServer]
    BY <1>1, <1>2 DEF ReadPixels
  <2>2. QED BY <1>1, <1>2, <2>1 DEF ReadPixels, CallRecords
<1>3. ASSUME ReadEnd
      PROVE  /\ call'["input"] = call["input"]
             /\ call["desktop"].at = "io" /\ call["desktop"].left = <<>>
             /\ call'["desktop"].at = "idle"
  BY <1>1, <1>3 DEF ReadEnd, IdleCall
<1>4. ASSUME KeepMouseFlags
      PROVE  /\ call'["desktop"] = call["desktop"]
             /\ call["input"].at = "done" /\ call'["input"].at = "idle"
  BY <1>1, <1>4 DEF KeepMouseFlags, IdleCall
<1>5. QED BY <1>2, <1>3, <1>4

LEMMA GetChannelEffect ==
  ASSUME TypeOK, NEW u \in Callers, GetChannel(u)
  PROVE  /\ call[u].at = "get" /\ \A v \in Callers \ {u} : call'[v] = call[v]
         /\ channel'["to"] = Noticed(channel["to"]) /\ channel'["from"] = channel["from"]
         /\ channel["to"].changed => call'[u].at = "idle"
         /\ ~channel["to"].changed =>
              /\ call'[u].at = "io" /\ call'[u].on = channel["to"].now
              /\ call'[u].left = call[u].left /\ call'[u].flag = call[u].flag
<1>1. call \in [Callers -> CallRecords] /\ channel \in [Ends -> ChannelRecords]
      /\ "to" \in Ends /\ "from" \in Ends
  BY TypesSplit DEF CallTypes, ChannelTypes, Ends
<1>2. /\ call[u].at = "get" /\ \A v \in Callers \ {u} : call'[v] = call[v]
      /\ channel'["to"] = Noticed(channel["to"]) /\ channel'["from"] = channel["from"]
  BY <1>1 DEF GetChannel, Abandons
<1>3. CASE channel["to"].changed
  BY <1>1, <1>2, <1>3 DEF GetChannel, Abandons, IdleCall
<1>4. CASE ~channel["to"].changed
  <2>1. call'[u] = [call[u] EXCEPT !.at = "io", !.on = channel["to"].now]
    BY <1>1, <1>4 DEF GetChannel
  <2>2. QED BY <1>1, <1>2, <1>4, <2>1 DEF CallRecords
<1>5. QED BY <1>3, <1>4

LEMMA WriteEffect ==
  ASSUME TypeOK, NEW u \in Callers, WriteChunk(u)
  PROVE  /\ \A v \in Callers \ {u} : call'[v] = call[v]
         /\ call'[u].left = Tail(call[u].left) /\ call'[u].flag = call[u].flag
         /\ call'[u].at = IF u = "input" /\ Tail(call[u].left) = <<>> THEN "done" ELSE "get"
<1>1. call \in [Callers -> CallRecords]
  BY TypesSplit DEF CallTypes
<1>2. PICK at : /\ call' = [call EXCEPT ![u] = [call[u] EXCEPT !.left = Tail(call[u].left),
                                                              !.on = NoServer, !.at = at]]
                /\ at = IF u = "input" /\ Tail(call[u].left) = <<>> THEN "done" ELSE "get"
  BY DEF WriteChunk
<1>3. call'[u] = [call[u] EXCEPT !.left = Tail(call[u].left), !.on = NoServer, !.at = at]
  BY <1>1, <1>2
<1>4. call'[u].left = Tail(call[u].left) /\ call'[u].flag = call[u].flag /\ call'[u].at = at
  BY <1>1, <1>3 DEF CallRecords
<1>5. QED BY <1>1, <1>2, <1>4

LEMMA BreaksEffect ==
  ASSUME TypeOK, NEW u \in Callers, Breaks(u)
  PROVE  /\ call[u].at = "io" /\ \A v \in Callers \ {u} : call'[v] = call[v]
         /\ call'[u].at = "reconnecting" /\ call'[u].on = call[u].on
         /\ call'[u].left = call[u].left /\ call'[u].flag = call[u].flag
<1>1. call \in [Callers -> CallRecords]
  BY TypesSplit DEF CallTypes
<1>2. call'[u] = [call[u] EXCEPT !.at = "reconnecting"]
  BY <1>1 DEF Breaks
<1>3. QED BY <1>1, <1>2 DEF Breaks, CallRecords

LEMMA WaitEffect ==
  ASSUME TypeOK, NEW u \in Callers, WaitForReconnect(u)
  PROVE  /\ call[u].at = "reconnecting" /\ \A v \in Callers \ {u} : call'[v] = call[v]
         /\ call'[u].at = "idle"
         /\ channel'["from"] = channel["from"] /\ ~channel'["to"].changed
         /\ channel'["to"].now = channel["to"].now /\ channel'["to"].old = channel["to"].old
<1>1. call \in [Callers -> CallRecords] /\ channel \in [Ends -> ChannelRecords]
      /\ "to" \in Ends /\ "from" \in Ends
  BY TypesSplit DEF CallTypes, ChannelTypes, Ends
<1>2. call[u].at = "reconnecting" /\ (\A v \in Callers \ {u} : call'[v] = call[v])
      /\ call'[u] = IdleCall
  BY <1>1 DEF WaitForReconnect, Abandons
<1>3. /\ channel'["from"] = channel["from"]
      /\ channel'["to"] = [channel["to"] EXCEPT !.changed = FALSE]
  BY <1>1 DEF WaitForReconnect
<1>4. QED BY <1>1, <1>2, <1>3 DEF IdleCall, ChannelRecords

LEMMA NextCallShapes ==
  ASSUME TypeOK, CallShapes, [Next]_vars
  PROVE  CallShapes'
<1> USE DEF CallShapes, Underway
<1>0. Callers = {"desktop", "input"}
  BY DEF Callers
<1>1. CASE UNCHANGED call
  BY <1>1
<1>2. CASE WakeDesktop \/ BeginExtract \/ BeginMouseEvent
  BY <1>0, <1>2, BeginEffect
<1>3. CASE ReadPixels \/ ReadEnd \/ KeepMouseFlags
  BY <1>0, <1>3, EndEffect
<1>4. ASSUME NEW u \in Callers, GetChannel(u)
      PROVE  CallShapes'
  BY <1>0, <1>4, GetChannelEffect
<1>5. ASSUME NEW u \in Callers, WriteChunk(u)
      PROVE  CallShapes'
  <2>1. call[u].at = "io" /\ call[u].left # <<>>
    BY <1>5 DEF WriteChunk
  <2>2. CASE u = "desktop"
    <3>1. call[u].left = <<"extract">>
      BY <2>1, <2>2
    <3>2. Tail(call[u].left) = <<>>
      BY <3>1, ShortTails
    <3>3. /\ call'["desktop"].at = "get" /\ call'["desktop"].left = <<>>
          /\ call'["input"] = call["input"]
      BY <1>0, <1>5, <2>2, <3>2, WriteEffect
    <3>4. QED BY <2>1, <2>2, <3>3
  <2>3. CASE u = "input" /\ call[u].left = <<"pointer", call[u].flag>>
    <3>1. Tail(call[u].left) = <<call[u].flag>> /\ Tail(call[u].left) # <<>>
      BY <2>3, ShortTails
    <3>2. /\ call'["input"].at = "get" /\ call'["input"].left = <<call'["input"].flag>>
          /\ call'["desktop"] = call["desktop"]
      BY <1>0, <1>5, <2>3, <3>1, WriteEffect
    <3>3. QED BY <2>1, <2>3, <3>2
  <2>4. CASE u = "input" /\ call[u].left = <<call[u].flag>>
    <3>1. Tail(call[u].left) = <<>>
      BY <2>4, ShortTails
    <3>2. call'["input"].at = "done" /\ call'["desktop"] = call["desktop"]
      BY <1>0, <1>5, <2>4, <3>1, WriteEffect
    <3>3. QED BY <2>1, <2>4, <3>2
  <2>5. QED BY <1>0, <2>1, <2>2, <2>3, <2>4
<1>6. ASSUME NEW u \in Callers, Breaks(u)
      PROVE  CallShapes'
  BY <1>0, <1>6, BreaksEffect
<1>7. ASSUME NEW u \in Callers, WaitForReconnect(u)
      PROVE  CallShapes'
  BY <1>0, <1>7, WaitEffect
<1>9. CASE \/ Draw \/ Poll \/ ExtractReply \/ ApplyNewPointerPos \/ Die \/ WatcherFails \/ Start
           \/ SendInitFramebuffer \/ SendInitInput \/ ReplaceChannel \/ TimesOut \/ Crashes
           \/ DispatcherGetsChannel \/ UpdateDetected \/ DispatcherBreaks \/ DispatcherReconnects
  BY <1>1, <1>9 DEF Draw, Poll, ExtractReply, ApplyNewPointerPos, Die, WatcherFails, Start,
                    SendInitFramebuffer, SendInitInput, ReplaceChannel, TimesOut, Crashes,
                    DispatcherGetsChannel, UpdateDetected, DispatcherBreaks, DispatcherReconnects
<1>10. QED BY <1>1, <1>2, <1>3, <1>4, <1>5, <1>6, <1>7, <1>9, Steps DEF vars

LEMMA NextChannelUse ==
  ASSUME TypeOK, ChannelOrder, CallShapes, ChannelUse, [Next]_vars
  PROVE  ChannelUse'
<1> USE DEF ChannelUse, Holds, Ends, NoServer
<1>0. /\ call \in [Callers -> CallRecords] /\ channel \in [Ends -> ChannelRecords]
      /\ server \in Nat /\ dispatcher.on \in Nat
  BY TypesSplit DEF CallTypes, ChannelTypes, UpdateTypes, ScreenTypes, Servers
<1>a. \A e \in Ends : /\ channel[e] \in ChannelRecords /\ channel[e].now \in Nat \ {0}
                     /\ channel[e].old \in Nat /\ channel[e].now <= server
                     /\ channel[e].old < channel[e].now
  BY <1>0, ChannelFields DEF Servers, ChannelOrder
<1>b. \A u \in Callers : call[u] \in CallRecords /\ call[u].on \in Nat
  BY <1>0, CallFields DEF Servers
<1>1. CASE UNCHANGED <<channel, call, dispatcher>>
  BY <1>1
<1>2. CASE ReplaceChannel
  <2>1. PICK e \in Ends : /\ watcher = e /\ channel' = [channel EXCEPT ![e] = Replaced(channel[e])]
                         /\ UNCHANGED <<call, dispatcher>>
    BY <1>2 DEF ReplaceChannel
  <2>2. channel'[e] = Replaced(channel[e]) /\ \A f \in Ends \ {e} : channel'[f] = channel[f]
    BY <2>1, <1>0
  <2>3. channel[e].now < server
    BY <2>1 DEF ChannelOrder
  <2>4. ASSUME NEW user, user.on \in Nat, Holds(channel[e], user)
        PROVE  Holds(channel'[e], user)
    BY <2>2, <2>3, <2>4, <1>a, <1>0, ReplacedParts
  <2>5. QED BY <1>0, <1>b, <2>1, <2>2, <2>4
<1>15. CASE WatcherFails
  <2>1. /\ UNCHANGED <<call, dispatcher>>
        /\ \A e \in Ends : channel'[e] = Caught(channel[e])
    BY <1>15 DEF WatcherFails
  <2>2. QED BY <1>a, <2>1, CaughtParts
<1>3. CASE WakeDesktop \/ BeginExtract \/ BeginMouseEvent \/ ReadPixels \/ ReadEnd \/ KeepMouseFlags
  <2>1. UNCHANGED <<channel, dispatcher>>
    BY <1>3 DEF WakeDesktop, BeginExtract, BeginMouseEvent, ReadPixels, ReadEnd, KeepMouseFlags
  <2>2. PICK v \in Callers : /\ \A w \in Callers \ {v} : call'[w] = call[w]
                            /\ call'[v].at \notin {"io", "reconnecting"}
    BY <1>3, BeginEffect, EndEffect DEF Callers
  <2>3. QED BY <2>1, <2>2
<1>5. ASSUME NEW u \in Callers, GetChannel(u)
      PROVE  ChannelUse'
  <2>1. \A v \in Callers \ {u} : call[v].at \notin {"io", "reconnecting"}
    BY <1>5, GetChannelEffect DEF CallShapes, Underway, Callers
  <2>2. dispatcher' = dispatcher
    BY <1>5 DEF GetChannel
  <2>3. QED BY <1>5, <1>a, <2>1, <2>2, GetChannelEffect, NoticedParts
<1>6. ASSUME NEW u \in Callers, WriteChunk(u)
      PROVE  ChannelUse'
  <2>1. UNCHANGED <<channel, dispatcher>>
    BY <1>6 DEF WriteChunk
  <2>2. QED BY <1>6, <2>1, WriteEffect
<1>12. ASSUME NEW u \in Callers, Breaks(u)
       PROVE  ChannelUse'
  <2>1. UNCHANGED <<channel, dispatcher>>
    BY <1>12 DEF Breaks
  <2>2. QED BY <1>12, <2>1, BreaksEffect
<1>7. ASSUME NEW u \in Callers, WaitForReconnect(u)
      PROVE  ChannelUse'
  <2>1. dispatcher' = dispatcher
    BY <1>7 DEF WaitForReconnect
  <2>2. QED BY <1>7, <2>1, WaitEffect
<1>8. CASE DispatcherGetsChannel
  <2>1. /\ channel'["from"] = Noticed(channel["from"]) /\ channel'["to"] = channel["to"]
        /\ call' = call /\ dispatcher.at = "get"
    BY <1>8, <1>0 DEF DispatcherGetsChannel
  <2>2. CASE channel["from"].changed
    BY <1>8, <2>1, <2>2 DEF DispatcherGetsChannel
  <2>3. CASE ~channel["from"].changed
    <3>1. dispatcher'.on = channel["from"].now
      BY <1>8, <2>3 DEF DispatcherGetsChannel
    <3>2. QED BY <1>a, <2>1, <3>1, NoticedParts
  <2>4. QED BY <2>2, <2>3
<1>9. CASE DispatcherReconnects
  <2>1. channel' = [channel EXCEPT !["from"] = [channel["from"] EXCEPT !.changed = FALSE]]
        /\ call' = call /\ dispatcher'.at = "get"
    BY <1>9 DEF DispatcherReconnects
  <2>2. channel'["to"] = channel["to"]
    BY <2>1, <1>0
  <2>3. QED BY <2>1, <2>2
<1>13. CASE UpdateDetected
  BY <1>13 DEF UpdateDetected
<1>14. CASE DispatcherBreaks
  <2>1. dispatcher'.at = "reconnecting" /\ dispatcher'.on = dispatcher.on /\ dispatcher.at = "io"
    BY <1>14 DEF DispatcherBreaks, TypeOK, ServiceTypes
  <2>2. QED BY <1>14, <2>1 DEF DispatcherBreaks
<1>10. CASE \/ Draw \/ Poll \/ ExtractReply \/ ApplyNewPointerPos \/ Die \/ Start
            \/ SendInitFramebuffer \/ SendInitInput \/ TimesOut \/ Crashes
  BY <1>1, <1>10 DEF Draw, Poll, ExtractReply, ApplyNewPointerPos, Die, Start,
                     SendInitFramebuffer, SendInitInput, TimesOut, Crashes
<1>11. QED BY <1>1, <1>2, <1>3, <1>5, <1>6, <1>7, <1>8, <1>9, <1>10, <1>12, <1>13, <1>14,
           <1>15, Steps DEF vars


(* A call that writes has noticed every replacement, and its server is     *)
(* ready.                                                                  *)
LEMMA WritersArePresent ==
  ASSUME TypeOK, ChannelOrder, CallShapes, ChannelUse,
         NEW u \in Callers, call[u].at = "io", Connected(call[u].on)
  PROVE  /\ call[u].on = channel["to"].now /\ ~channel["to"].changed
         /\ watcher \in {"watching", "from"}
         /\ \A v \in Callers \ {u} : call[v].at \in {"idle", "locking"}
<1>0. CallTypes /\ ChannelTypes /\ server \in Servers
  BY TypesSplit DEF ScreenTypes
<1>1. channel["to"].now \in Int /\ server \in Int /\ call[u].on = server
  BY <1>0, ChannelFields DEF ChannelTypes, Ends, Servers, Connected
<1>2. call[u].on <= channel["to"].now /\ channel["to"].now <= server
  BY DEF ChannelUse, Holds, ChannelOrder, Ends
<1>3. call[u].on = channel["to"].now
  BY <1>1, <1>2
<1>4. watcher \notin {"framebuffer", "input", "to"}
  BY <1>1, <1>3 DEF ChannelOrder
<1>5. watcher \in {"watching", "from"}
  BY <1>0, <1>4 DEF ChannelTypes, Ends
<1>6. \A v \in Callers \ {u} : call[v].at \in {"idle", "locking"}
  BY DEF CallShapes, Underway, Callers
<1>7. QED BY <1>3, <1>5, <1>6 DEF ChannelUse, Holds

LEMMA NextFreshServers ==
  ASSUME TypeOK, ChannelOrder, CallShapes, ChannelUse, FreshServers, [Next]_vars
  PROVE  FreshServers'
<1> USE DEF FreshServers, Fresh, CallTypes, ChannelTypes
<1>0. CallTypes /\ ChannelTypes /\ server \in Servers /\ reply.of \in Servers \cup {NoServer}
  BY TypesSplit DEF ScreenTypes, PipeTypes
<1> USE <1>0
<1>1. CASE UNCHANGED <<inbox, reply, alive, server, watcher, channel, call>>
  BY <1>1
<1>2. CASE ExtractReply
  BY <1>2 DEF ExtractReply
<1>3. CASE ApplyNewPointerPos
  BY <1>3 DEF ApplyNewPointerPos
<1>4. CASE Die \/ WatcherFails
  BY <1>4 DEF Die, WatcherFails
<1>5. CASE Start
  BY <1>5 DEF Start, ChannelOrder, Servers, NoServer, pipeVars
<1>6. CASE SendInitFramebuffer \/ SendInitInput
  BY <1>6 DEF SendInitFramebuffer, SendInitInput, pipeVars
<1>7. CASE ReplaceChannel
  <2>0. UNCHANGED <<inbox, reply, alive, server, call>>
    BY <1>7 DEF ReplaceChannel, serverVars, pipeVars
  <2>1. CASE watcher = "to"
    BY <2>0, <2>1, <1>7 DEF ReplaceChannel
  <2>2. CASE watcher = "from"
    <3>1. channel'["to"] = channel["to"] /\ watcher' = "watching"
      BY <1>7, <2>2 DEF ReplaceChannel, Ends
    <3>2. QED BY <2>0, <2>2, <3>1
  <2>3. QED BY <1>7, <2>1, <2>2 DEF ReplaceChannel, Ends
<1>8. CASE WakeDesktop \/ BeginExtract \/ BeginMouseEvent \/ KeepMouseFlags
  <2>1. UNCHANGED <<inbox, reply, alive, server, watcher, channel>>
    BY <1>8 DEF WakeDesktop, BeginExtract, BeginMouseEvent, KeepMouseFlags, serverVars, pipeVars
  <2>2. \A u \in Callers : call'[u] = call[u] \/ call'[u].at \notin {"io", "reconnecting"}
    BY <1>8, BeginEffect, EndEffect DEF Callers
  <2>3. QED BY <2>1, <2>2
<1>9. CASE ReadPixels \/ ReadEnd
  <2>1. UNCHANGED <<inbox, alive, server, watcher, channel>>
    BY <1>9 DEF ReadPixels, ReadEnd, serverVars
  <2>2. \A u \in Callers : call'[u] = call[u] \/ call'[u].at \notin {"io", "reconnecting"}
    BY <1>9, EndEffect DEF Callers
  <2>3. reply'.of \in {reply.of, NoServer} /\ server # NoServer
    BY <1>9 DEF ReadPixels, ReadEnd, NoReply, TypeOK, ServerTypes, Servers, NoServer
  <2>4. QED BY <2>1, <2>2, <2>3
<1>11. ASSUME NEW u \in Callers, GetChannel(u)
       PROVE  FreshServers'
  <2>1. \A v \in Callers \ {u} : call[v].at \notin {"io", "reconnecting"}
    BY <1>11 DEF GetChannel, CallShapes, Underway, Callers
  <2>2. ~channel'["to"].changed /\ channel'["to"].now = channel["to"].now
    BY <1>11, GetChannelEffect, NoticedParts DEF Ends
  <2>5. /\ UNCHANGED <<alive, server, inbox, watcher>> /\ server # NoServer
        /\ reply' \in {reply, NoReply}
    BY <1>11 DEF GetChannel, serverVars, Servers, NoServer
  <2>3. Fresh => Fresh'
    BY <2>5 DEF NoReply
  <2>4. \A v \in Callers : /\ call'[v].at # "reconnecting"
                           /\ call'[v].at = "io" => call'[v].on = channel["to"].now
    BY <1>11, <2>1, GetChannelEffect
  <2>6. QED BY <2>2, <2>3, <2>4, <2>5
<1>12. ASSUME NEW u \in Callers, WriteChunk(u)
       PROVE  FreshServers'
  <2>1. /\ call[u].on = channel["to"].now /\ ~channel["to"].changed
        /\ watcher \in {"watching", "from"}
        /\ \A v \in Callers \ {u} : call[v].at \in {"idle", "locking"}
    BY <1>12, WritersArePresent DEF WriteChunk
  <2>2. \A v \in Callers : call'[v].at \notin {"io", "reconnecting"}
    BY <1>12, <2>1, WriteEffect
  <2>3. UNCHANGED <<alive, watcher, channel>> /\ alive
    BY <1>12 DEF WriteChunk, Connected, serverVars
  <2>4. QED BY <2>1, <2>2, <2>3
<1>13. ASSUME NEW u \in Callers, Breaks(u)
       PROVE  FreshServers'
  <2>1. Fresh
    BY <1>13 DEF Breaks, Connected, ChannelOrder, Ends
  <2>2. UNCHANGED <<inbox, reply, alive, server, watcher, channel>>
    BY <1>13 DEF Breaks, serverVars, pipeVars
  <2>3. QED BY <1>13, <2>1, <2>2, BreaksEffect
<1>14. ASSUME NEW u \in Callers, WaitForReconnect(u)
       PROVE  FreshServers'
  <2>1. Fresh
    BY <1>14 DEF WaitForReconnect
  <2>2. UNCHANGED <<inbox, reply, alive, server, watcher>>
    BY <1>14 DEF WaitForReconnect, serverVars, pipeVars
  <2>3. QED BY <1>14, <2>1, <2>2, WaitEffect
<1>15. CASE DispatcherGetsChannel \/ DispatcherReconnects
  <2>1. channel'["to"] = channel["to"]
    BY <1>15 DEF DispatcherGetsChannel, DispatcherReconnects, Ends
  <2>2. QED BY <1>15, <2>1 DEF DispatcherGetsChannel, DispatcherReconnects, serverVars, pipeVars
<1>16. CASE Draw \/ Poll \/ TimesOut \/ Crashes \/ UpdateDetected \/ DispatcherBreaks
  BY <1>1, <1>16 DEF Draw, Poll, TimesOut, Crashes, UpdateDetected, DispatcherBreaks,
                     serverVars, pipeVars
<1>17. QED
  BY <1>1, <1>2, <1>3, <1>4, <1>5, <1>6, <1>7, <1>8, <1>9, <1>11, <1>12, <1>13, <1>14,
     <1>15, <1>16, Steps DEF vars, serverVars, pipeVars

-----------------------------------------------------------------------------
(* What is in the pipe.                                                    *)
LEMMA AfterExtract ==
  ASSUME TypeOK, ExtractReply
  PROVE  /\ Len(inbox) > 0 /\ Len(inbox') = Len(inbox) - 1
         /\ \A i \in 1..Len(inbox') : inbox'[i] = inbox[i + 1]
         /\ inbox[1] = "extract"
BY TailOf DEF TypeOK, ServerTypes, ExtractReply

LEMMA AfterPointer ==
  ASSUME TypeOK, ApplyNewPointerPos
  PROVE  /\ Len(inbox) > 1 /\ Len(inbox') = Len(inbox) - 2
         /\ \A i \in 1..Len(inbox') : inbox'[i] = inbox[i + 2]
         /\ inbox[1] = "pointer" /\ prevKeyFlag' = inbox[2]
<1>1. inbox \in Seq(Codes \cup Buttons) /\ Len(inbox) > 1 /\ inbox' = Tail(Tail(inbox))
  BY DEF TypeOK, ServerTypes, ApplyNewPointerPos
<1>2. /\ Tail(inbox) \in Seq(Codes \cup Buttons) /\ Len(Tail(inbox)) = Len(inbox) - 1
      /\ \A i \in 1..Len(Tail(inbox)) : Tail(inbox)[i] = inbox[i + 1]
  BY <1>1, TailOf
<1>3. Tail(inbox) # <<>>
  BY <1>1, LongTail
<1>4. /\ Len(inbox') = Len(Tail(inbox)) - 1
      /\ \A i \in 1..Len(inbox') : inbox'[i] = Tail(inbox)[i + 1]
  BY <1>1, <1>2, <1>3, TailOf
<1>5. QED BY <1>1, <1>2, <1>4 DEF ApplyNewPointerPos

LEMMA AfterWrite ==
  ASSUME TypeOK, NEW u \in Callers, WriteChunk(u)
  PROVE  /\ Len(inbox') = Len(inbox) + 1
         /\ \A i \in 1..Len(inbox) : inbox'[i] = inbox[i]
         /\ inbox'[Len(inbox) + 1] = call[u].left[1]
<1>1. inbox \in Seq(Codes \cup Buttons) /\ call[u].left \in Messages
  BY DEF TypeOK, ServerTypes, ServiceTypes
<1>2. Head(call[u].left) \in Codes \cup Buttons /\ Head(call[u].left) = call[u].left[1]
  BY <1>1 DEF WriteChunk, Messages, Codes, Buttons
<1>3. QED BY <1>1, <1>2, AppendOf DEF WriteChunk

LEMMA CutIndex ==
  ASSUME TypeOK
  PROVE  CutInTwo <=> Len(inbox) > 0 /\ inbox[Len(inbox)] = "pointer"
BY DEF TypeOK, ServerTypes, CutInTwo

PipeInv == CutMessages /\ MessagesAreWhole

(* What each caller writes next, and what it then has left.                *)
LEMMA Writes ==
  ASSUME TypeOK, CallShapes, NEW u \in Callers, WriteChunk(u)
  PROVE  \/ /\ u = "desktop" /\ call[u].left[1] = "extract"
            /\ call'["desktop"].at = "get" /\ call'["desktop"].left = <<>>
            /\ call'["input"] = call["input"]
         \/ /\ u = "input" /\ call[u].left[1] = "pointer"
            /\ call[u].left # <<call[u].flag>>
            /\ call'["input"].at = "get" /\ call'["input"].left = <<call["input"].flag>>
            /\ call'["input"].flag = call["input"].flag
            /\ call'["desktop"] = call["desktop"]
         \/ /\ u = "input" /\ call[u].left = <<call[u].flag>>
            /\ call[u].left[1] = call[u].flag
            /\ call'["input"].at = "done" /\ call'["input"].flag = call["input"].flag
            /\ call'["desktop"] = call["desktop"]
<1>0. Callers = {"desktop", "input"} /\ call[u].at = "io" /\ call[u].left # <<>>
  BY DEF Callers, WriteChunk
<1>1. CASE u = "desktop"
  <2>1. call[u].left = <<"extract">>
    BY <1>0, <1>1 DEF CallShapes
  <2>2. Tail(call[u].left) = <<>> /\ call[u].left[1] = "extract"
    BY <2>1, ShortTails
  <2>3. QED BY <1>0, <1>1, <2>2, WriteEffect
<1>2. CASE u = "input" /\ call[u].left = <<"pointer", call["input"].flag>>
  <2>1. /\ Tail(call[u].left) = <<call[u].flag>> /\ call[u].left[1] = "pointer"
        /\ Tail(call[u].left) # <<>> /\ call[u].left # <<call[u].flag>>
    BY <1>2, ShortTails
  <2>2. QED BY <1>0, <1>2, <2>1, WriteEffect
<1>3. CASE u = "input" /\ call[u].left = <<call["input"].flag>>
  <2>1. Tail(call[u].left) = <<>> /\ call[u].left[1] = call[u].flag
    BY <1>3, ShortTails
  <2>2. QED BY <1>0, <1>3, <2>1, WriteEffect
<1>4. QED BY <1>0, <1>1, <1>2, <1>3 DEF CallShapes

LEMMA NextPipeInv ==
  ASSUME TypeOK, TypeOK', ChannelOrder, CallShapes, ChannelUse, FreshServers, FreshServers',
         PipeInv, [Next]_vars
  PROVE  PipeInv'
<1> USE DEF PipeInv, CutMessages, MessagesAreWhole, WritesButtons, Buttons
<1>a. CallTypes /\ ChannelTypes /\ server \in Servers /\ inbox \in Seq(Codes \cup Buttons)
  BY TypesSplit DEF ScreenTypes, PipeTypes
<1>b. Len(inbox) \in Nat /\ Len(inbox') \in Nat
  BY DEF TypeOK, ServerTypes
<1>c. /\ CutInTwo <=> Len(inbox) > 0 /\ inbox[Len(inbox)] = "pointer"
      /\ CutInTwo' <=> Len(inbox') > 0 /\ inbox'[Len(inbox')] = "pointer"
  BY CutIndex DEF TypeOK, ServerTypes, CutInTwo
<1>1. CASE UNCHANGED <<inbox, alive, server, channel, call>>
  BY <1>1, <1>c DEF Connected
<1>2. CASE ExtractReply
  <2>1. UNCHANGED <<alive, server, channel, call>>
    BY <1>2 DEF ExtractReply
  <2>2. CutInTwo' <=> CutInTwo
    BY <1>2, <1>b, <1>c, AfterExtract
  <2>3. MessagesAreWhole'
    BY <1>2, <1>b, AfterExtract
  <2>4. QED BY <2>1, <2>2, <2>3 DEF Connected
<1>3. CASE ApplyNewPointerPos
  <2>1. UNCHANGED <<alive, server, channel, call>>
    BY <1>3 DEF ApplyNewPointerPos
  <2>2. inbox[2] \in Buttons
    BY <1>3, <1>b, AfterPointer
  <2>3. CutInTwo' <=> CutInTwo
    BY <1>3, <1>b, <1>c, <2>2, AfterPointer
  <2>4. ASSUME NEW i \in 1..Len(inbox')
        PROVE  /\ inbox'[i] \in Buttons => i > 1 /\ inbox'[i - 1] = "pointer"
               /\ inbox'[i] = "pointer" /\ i < Len(inbox') => inbox'[i + 1] \in Buttons
    <3>1. /\ Len(inbox') = Len(inbox) - 2 /\ i + 2 \in 1..Len(inbox)
          /\ inbox'[i] = inbox[i + 2]
          /\ i > 1 => inbox'[i - 1] = inbox[(i - 1) + 2]
          /\ i < Len(inbox') => inbox'[i + 1] = inbox[(i + 1) + 2]
      <4>1. /\ Len(inbox') = Len(inbox) - 2
            /\ \A k \in 1..Len(inbox') : inbox'[k] = inbox[k + 2]
        BY <1>3, AfterPointer
      <4>2. /\ i \in Nat \ {0} /\ i <= Len(inbox') /\ i + 2 \in 1..Len(inbox)
            /\ i > 1 => i - 1 \in 1..Len(inbox')
            /\ i < Len(inbox') => i + 1 \in 1..Len(inbox')
        BY <1>b, <4>1
      <4>3. QED BY <4>1, <4>2
    <3>2. (i + 2) - 1 = (i - 1) + 2 /\ (i + 2) + 1 = (i + 1) + 2
          /\ (i = 1 => (i + 2) - 1 = 2)
      OBVIOUS
    <3>3. /\ inbox[i + 2] \in Buttons => inbox[(i + 2) - 1] = "pointer"
          /\ inbox[i + 2] = "pointer" /\ i + 2 < Len(inbox) => inbox[(i + 2) + 1] \in Buttons
      BY <3>1
    <3>4. inbox[i + 2] \in Buttons => i > 1
      BY <2>2, <3>2, <3>3
    <3>5. QED BY <1>b, <3>1, <3>2, <3>3, <3>4
  <2>5. QED BY <2>1, <2>3, <2>4 DEF Connected
<1>4. CASE Die \/ WatcherFails
  <2>1. inbox' = <<>> /\ ~alive'
    BY <1>4 DEF Die, WatcherFails
  <2>2. Len(inbox') = 0
    BY <2>1
  <2>3. QED BY <2>1, <2>2, <1>c DEF Connected
<1>5. CASE Start
  <2>1. inbox = <<>> /\ inbox' = <<>> /\ UNCHANGED <<channel, call>>
    BY <1>5 DEF Start, FreshServers, Fresh, pipeVars
  <2>2. channel["to"].now # server' /\ (call["input"].at = "io" => call["input"].on # server')
    <3>1. server' = server + 1 /\ channel["to"].now <= server
      BY <1>5 DEF Start, ChannelOrder, Ends
    <3>2. call["input"].at = "io" => call["input"].on <= channel["to"].now
      BY DEF ChannelUse, Holds, Callers
    <3>3. server \in Nat /\ channel["to"].now \in Nat /\ call["input"].on \in Nat
      BY <1>a, ChannelFields, CallFields DEF ChannelTypes, CallTypes, Ends, Callers, Servers, NoServer
    <3>4. QED BY <3>1, <3>2, <3>3
  <2>3. QED BY <2>1, <2>2, <1>c DEF Connected
<1>6. CASE ReplaceChannel
  <2>1. UNCHANGED <<alive, server, call, inbox>>
    BY <1>6 DEF ReplaceChannel, serverVars, pipeVars
  <2>2. channel'["to"].changed \/ channel'["to"] = channel["to"]
    BY <1>6, <1>a, ReplacedParts DEF ReplaceChannel, Ends, ChannelTypes
  <2>3. QED BY <2>1, <2>2, <1>c DEF Connected
<1>7. CASE WakeDesktop \/ BeginExtract \/ ReadPixels \/ ReadEnd
  <2>1. UNCHANGED <<alive, server, channel, inbox>> /\ call'["input"] = call["input"]
    BY <1>7, BeginEffect, EndEffect DEF WakeDesktop, BeginExtract, ReadPixels, ReadEnd, serverVars,
                                        pipeVars
  <2>2. QED BY <2>1, <1>c DEF Connected
<1>8. CASE BeginMouseEvent
  <2>1. UNCHANGED <<alive, server, channel, inbox>>
    BY <1>8 DEF BeginMouseEvent, serverVars, pipeVars
  <2>2. ~WritesButtons("get") /\ ~WritesButtons("io")
    BY <1>8, BeginEffect DEF Callers
  <2>3. ~WritesButtons("get")' /\ ~WritesButtons("io")'
    BY <1>8, BeginEffect
  <2>4. QED BY <2>1, <2>2, <2>3, <1>c
<1>10. CASE KeepMouseFlags
  <2>1. UNCHANGED <<alive, server, channel, inbox>>
    BY <1>10 DEF KeepMouseFlags, serverVars, pipeVars
  <2>2. QED BY <1>10, <2>1, <1>c, EndEffect
<1>11. ASSUME NEW u \in Callers, GetChannel(u)
       PROVE  PipeInv'
  <2>1. /\ UNCHANGED <<alive, server, inbox>>
        /\ channel'["to"].now = channel["to"].now
    BY <1>11, <1>a, GetChannelEffect, NoticedParts DEF GetChannel, Ends, ChannelTypes, serverVars
  <2>2. CASE channel["to"].changed
    <3>1. inbox = <<>>
      BY <2>2 DEF FreshServers, Fresh
    <3>2. ~WritesButtons("get")' /\ ~WritesButtons("io")'
      BY <1>11, <2>2, GetChannelEffect DEF Callers, CallShapes, Underway
    <3>3. QED BY <2>1, <3>1, <3>2, <1>c
  <2>3. CASE ~channel["to"].changed /\ u = "desktop"
    <3>1. call'["input"] = call["input"] /\ ~WritesButtons("get") /\ ~WritesButtons("io")
      BY <1>11, <2>3, GetChannelEffect DEF Callers, CallShapes, Underway
    <3>2. QED BY <2>1, <3>1, <1>c
  <2>4. CASE ~channel["to"].changed /\ u = "input"
    <3>1. /\ call["input"].at = "get" /\ call'["input"].at = "io"
          /\ call'["input"].left = call["input"].left /\ call'["input"].flag = call["input"].flag
          /\ call'["input"].on = channel["to"].now
      BY <1>11, <2>4, GetChannelEffect
    <3>2. QED BY <2>1, <2>4, <3>1, <1>c DEF Connected
  <2>5. QED BY <2>2, <2>3, <2>4 DEF Callers
<1>12. ASSUME NEW u \in Callers, WriteChunk(u)
       PROVE  PipeInv'
  <2>1. UNCHANGED <<alive, server, channel>> /\ call[u].at = "io" /\ Connected(call[u].on)
    BY <1>12 DEF WriteChunk, serverVars
  <2>2. CASE call[u].left = <<call[u].flag>> /\ u = "input"
    <3>1. CutInTwo
      BY <2>1, <2>2
    <3>2. inbox'[Len(inbox')] \in Buttons /\ call'["input"].at = "done"
      <4>1. call[u].flag \in Buttons
        BY <1>a, CallFields DEF CallTypes
      <4>2. QED BY <1>12, <1>b, <2>2, <4>1, AfterWrite, Writes
    <3>3. MessagesAreWhole'
      BY <1>12, <1>b, <1>c, <3>1, <3>2, AfterWrite
    <3>4. QED BY <2>1, <3>2, <3>3, <1>c
  <2>3. CASE ~(call[u].left = <<call[u].flag>> /\ u = "input")
    <3>1. ~CutInTwo
      BY <2>1, <2>3, <1>a, <1>12 DEF Callers, CallShapes, Underway
    <3>2. call[u].left[1] \in {"extract", "pointer"}
      BY <1>12, <2>3, Writes
    <3>3. MessagesAreWhole'
      <4>0. /\ Len(inbox') = Len(inbox) + 1
            /\ \A i \in 1..Len(inbox) : inbox'[i] = inbox[i]
            /\ inbox'[Len(inbox) + 1] \notin Buttons
        BY <1>12, <3>2, AfterWrite
      <4>1. ASSUME NEW i \in 1..Len(inbox')
            PROVE  /\ inbox'[i] \in Buttons => i > 1 /\ inbox'[i - 1] = "pointer"
                   /\ inbox'[i] = "pointer" /\ i < Len(inbox') => inbox'[i + 1] \in Buttons
        <5>1. CASE i \in 1..Len(inbox)
          <6>1. /\ inbox'[i] \in Buttons => i > 1 /\ inbox[i - 1] = "pointer"
                /\ inbox'[i] = "pointer" /\ i < Len(inbox) => inbox[i + 1] \in Buttons
            BY <4>0, <5>1
          <6>2. i > 1 => inbox'[i - 1] = inbox[i - 1]
            BY <1>b, <4>0, <5>1
          <6>3. i < Len(inbox) => inbox'[i + 1] = inbox[i + 1]
            BY <1>b, <4>0, <5>1
          <6>4. inbox'[i] = "pointer" => i # Len(inbox)
            BY <1>b, <1>c, <3>1, <4>0, <5>1
          <6>5. QED BY <1>b, <4>0, <5>1, <6>1, <6>2, <6>3, <6>4
        <5>2. CASE i = Len(inbox) + 1
          BY <1>b, <4>0, <5>2
        <5>3. QED BY <1>b, <4>0, <5>1, <5>2
      <4>2. QED BY <4>1
    <3>4. CASE u = "desktop"
      <4>1. inbox'[Len(inbox')] = "extract" /\ call'["input"] = call["input"]
        BY <1>12, <1>b, <3>4, AfterWrite, Writes
      <4>2. ~WritesButtons("get") /\ ~WritesButtons("io")
        BY <2>1, <3>4 DEF CallShapes, Underway
      <4>3. QED BY <2>1, <3>3, <4>1, <4>2, <1>c
    <3>5. CASE u = "input"
      <4>1. /\ inbox'[Len(inbox')] = "pointer" /\ WritesButtons("get")'
            /\ call'["input"].at = "get"
        BY <1>12, <1>b, <2>3, <3>5, AfterWrite, Writes
      <4>2. Len(inbox') > 0
        BY <1>12, <1>b, AfterWrite
      <4>3. QED BY <3>3, <4>1, <4>2, <1>c
    <3>6. QED BY <3>4, <3>5 DEF Callers
  <2>4. QED BY <2>2, <2>3
<1>13. ASSUME NEW u \in Callers, Breaks(u) \/ WaitForReconnect(u)
       PROVE  PipeInv'
  <2>1. UNCHANGED <<inbox, alive, server>>
    BY <1>13 DEF Breaks, WaitForReconnect, serverVars, pipeVars
  <2>2. inbox' = <<>>
    BY <1>13, <2>1, BreaksEffect DEF WaitForReconnect, FreshServers, Fresh
  <2>3. ~WritesButtons("get")' /\ ~WritesButtons("io")'
    BY <1>13, BreaksEffect, WaitEffect DEF CallShapes, Underway, Callers
  <2>4. QED BY <2>2, <2>3, <1>c
<1>14. CASE DispatcherGetsChannel \/ DispatcherReconnects
  <2>1. channel'["to"] = channel["to"] /\ UNCHANGED <<inbox, alive, server, call>>
    BY <1>14, <1>a DEF DispatcherGetsChannel, DispatcherReconnects, serverVars, pipeVars,
                       ChannelTypes, Ends
  <2>2. QED BY <2>1, <1>c DEF Connected
<1>15. CASE \/ Draw \/ Poll \/ SendInitFramebuffer \/ SendInitInput \/ TimesOut \/ Crashes
            \/ UpdateDetected \/ DispatcherBreaks
  BY <1>1, <1>15 DEF Draw, Poll, SendInitFramebuffer, SendInitInput, TimesOut, Crashes,
                     UpdateDetected, DispatcherBreaks, serverVars, pipeVars
<1>16. QED
  BY <1>1, <1>2, <1>3, <1>4, <1>5, <1>6, <1>7, <1>8, <1>10, <1>11, <1>12, <1>13, <1>14,
     <1>15, Steps DEF vars, serverVars, pipeVars

-----------------------------------------------------------------------------
(* Requests and answers.                                                   *)
LEMMA SpoiledForGood == ASSUME TypeOK, [Next]_vars PROVE spoiled => spoiled'
<1> USE DEF historyVars
<1>1. CASE UNCHANGED spoiled
  BY <1>1
<1>2. CASE SendInitFramebuffer \/ SendInitInput
  BY <1>2 DEF SendInitFramebuffer, SendInitInput
<1>3. ASSUME NEW u \in Callers, GetChannel(u) \/ WaitForReconnect(u)
      PROVE  spoiled => spoiled'
  BY <1>3 DEF GetChannel, WaitForReconnect, Abandons
<1>4. CASE \/ Draw \/ Poll \/ ExtractReply \/ ApplyNewPointerPos \/ Die \/ WatcherFails \/ Start
           \/ ReplaceChannel \/ TimesOut \/ Crashes \/ WakeDesktop \/ BeginExtract
           \/ ReadPixels \/ ReadEnd \/ BeginMouseEvent \/ KeepMouseFlags
           \/ DispatcherGetsChannel \/ UpdateDetected \/ DispatcherBreaks \/ DispatcherReconnects
           \/ \E u \in Callers : WriteChunk(u) \/ Breaks(u)
  BY <1>4 DEF Draw, Poll, ExtractReply, ApplyNewPointerPos, Die, WatcherFails, Start,
              ReplaceChannel, TimesOut, Crashes, WakeDesktop, BeginExtract, ReadPixels,
              ReadEnd, BeginMouseEvent, KeepMouseFlags, DispatcherGetsChannel,
              UpdateDetected, DispatcherBreaks, DispatcherReconnects, WriteChunk, Breaks
<1>5. QED BY <1>1, <1>2, <1>3, <1>4, Steps DEF vars

(* The answer that is read to its end was the answer to the only request.  *)
LEMMA AnswersEndRequests ==
  ASSUME TypeOK, ChannelOrder, FreshServers, OneExtract, ReadEnd
  PROVE  Requests = {}
<1>1. inbox = <<>> => Requests = {}
  BY DEF Requests
<1>2. call["desktop"].at = "io" /\ reply.of = call["desktop"].on
  BY DEF ReadEnd
<1>3. CASE call["desktop"].on # channel["to"].now \/ ~alive
  BY <1>1, <1>2, <1>3 DEF FreshServers, Fresh, Callers
<1>4. CASE watcher \in {"framebuffer", "input", "to"}
  BY <1>1, <1>4 DEF FreshServers, Fresh
<1>5. CASE alive /\ watcher \in {"watching", "from"} /\ call["desktop"].on = channel["to"].now
  BY <1>2, <1>5 DEF ChannelOrder, OneExtract
<1>6. watcher \in {"watching", "framebuffer", "input", "to", "from"}
  BY DEF TypeOK, ServiceTypes, Ends
<1>7. QED BY <1>3, <1>4, <1>5, <1>6

LEMMA NextOneExtract ==
  ASSUME TypeOK, TypeOK', ChannelOrder, CallShapes, ChannelUse, FreshServers, FreshServers',
         OneExtract, [Next]_vars
  PROVE  OneExtract'
<1>a. Fresh' => OneExtract'
  BY DEF OneExtract, Fresh, Requests
<1>b. Len(inbox) \in Nat /\ Len(inbox') \in Nat /\ server # NoServer
  BY DEF TypeOK, ServerTypes, Servers, NoServer
<1>1. CASE UNCHANGED <<inbox, reply, alive, server>> /\ call'["desktop"] = call["desktop"]
  BY <1>1 DEF OneExtract, Requests, AsksForUpdate
<1>2. CASE ExtractReply
  <2>1. 1 \in Requests
    BY <1>2, <1>b, AfterExtract DEF Requests
  <2>2. AsksForUpdate'
    BY <1>2, <2>1 DEF OneExtract, AsksForUpdate, ExtractReply
  <2>3. ASSUME NEW i \in Requests'
        PROVE  FALSE
    <3>1. i \in Nat \ {0} /\ i + 1 \in 1..Len(inbox) /\ inbox[i + 1] = "extract"
      BY <1>2, <1>b, <2>3, AfterExtract DEF Requests
    <3>2. i + 1 = 1
      BY <2>1, <3>1 DEF OneExtract, Requests
    <3>3. QED BY <3>1, <3>2
  <2>4. Requests' = {}
    BY <2>3
  <2>5. QED BY <2>2, <2>4 DEF OneExtract
<1>3. CASE ApplyNewPointerPos
  <2>1. ASSUME NEW i \in Requests'
        PROVE  i \in Nat /\ i + 2 \in Requests
    BY <1>3, <1>b, AfterPointer DEF Requests
  <2>2. UNCHANGED <<reply, alive, server, call>>
    BY <1>3 DEF ApplyNewPointerPos
  <2>3. \A i, j \in Requests' : i = j
    <3>1. ASSUME NEW i \in Requests', NEW j \in Requests'
          PROVE  i = j
      <4>1. i + 2 = j + 2 /\ i \in Nat /\ j \in Nat
        BY <2>1 DEF OneExtract
      <4>2. QED BY <4>1
    <3>2. QED BY <3>1
  <2>4. AsksForUpdate' = AsksForUpdate
    BY <2>2 DEF AsksForUpdate
  <2>5. (Requests' # {} => AsksForUpdate) /\ (Requests = {} => Requests' = {})
    BY <2>1 DEF OneExtract
  <2>6. QED BY <2>2, <2>3, <2>4, <2>5 DEF OneExtract
<1>4. CASE Die \/ WatcherFails \/ Start
  <2>1. Fresh'
    BY <1>4 DEF Die, WatcherFails, Start, FreshServers, Fresh
  <2>2. QED BY <1>a, <2>1
<1>5. CASE WakeDesktop \/ BeginExtract
  <2>1. ~AsksForUpdate
    BY <1>5, BeginEffect DEF AsksForUpdate
  <2>2. UNCHANGED <<inbox, reply, alive, server>>
    BY <1>5 DEF WakeDesktop, BeginExtract, serverVars, pipeVars
  <2>3. QED BY <2>1, <2>2 DEF OneExtract, Requests
<1>6. CASE ReadPixels
  <2>1. UNCHANGED <<inbox, alive, server>> /\ reply'.of = reply.of
    BY <1>6 DEF ReadPixels, serverVars, TypeOK, ServerTypes
  <2>2. AsksForUpdate /\ AsksForUpdate'
    BY <1>6, EndEffect DEF AsksForUpdate
  <2>3. QED BY <2>1, <2>2 DEF OneExtract, Requests
<1>7. CASE ReadEnd
  <2>1. UNCHANGED <<inbox, alive, server>> /\ reply'.of = NoServer
    BY <1>7 DEF ReadEnd, serverVars, NoReply
  <2>2. Requests = {}
    BY <1>7, AnswersEndRequests
  <2>3. QED BY <1>b, <2>1, <2>2 DEF OneExtract, Requests
<1>8. CASE BeginMouseEvent \/ KeepMouseFlags
  <2>1. UNCHANGED <<inbox, reply, alive, server>> /\ call'["desktop"] = call["desktop"]
    BY <1>8, BeginEffect, EndEffect DEF BeginMouseEvent, KeepMouseFlags, serverVars, pipeVars
  <2>2. QED BY <1>1, <2>1
<1>9. ASSUME NEW u \in Callers, GetChannel(u)
      PROVE  OneExtract'
  <2>1. UNCHANGED <<inbox, alive, server>> /\ reply' \in {reply, NoReply}
    BY <1>9 DEF GetChannel, serverVars
  <2>2. reply'.of \in {reply.of, NoServer}
    BY <2>1 DEF NoReply
  <2>3. CASE channel["to"].changed
    <3>1. Fresh'
      BY <1>b, <2>1, <2>2, <2>3 DEF FreshServers, Fresh
    <3>2. QED BY <1>a, <3>1
  <2>4. CASE ~channel["to"].changed
    <3>1. AsksForUpdate' <=> AsksForUpdate
      BY <1>9, <2>4, GetChannelEffect DEF AsksForUpdate, Callers
    <3>2. QED BY <1>b, <2>1, <2>2, <3>1 DEF OneExtract, Requests
  <2>5. QED BY <2>3, <2>4
<1>10. ASSUME NEW u \in Callers, WriteChunk(u)
       PROVE  OneExtract'
  <2>1. UNCHANGED <<reply, alive, server>>
    BY <1>10 DEF WriteChunk, serverVars
  <2>2. CASE u = "desktop"
    <3>1. /\ call["desktop"].left # <<>> /\ call[u].left[1] = "extract"
          /\ call'["desktop"].at = "get" /\ call'["desktop"].left = <<>>
      BY <1>10, <2>2, Writes DEF WriteChunk
    <3>2. Requests = {} /\ ~(alive /\ reply.of = server)
      BY <3>1 DEF OneExtract, AsksForUpdate
    <3>3. AsksForUpdate'
      BY <3>1 DEF AsksForUpdate
    <3>4. \A i \in Requests' : i = Len(inbox) + 1
      BY <1>10, <1>b, <3>2, AfterWrite DEF Requests
    <3>5. QED BY <2>1, <3>2, <3>3, <3>4 DEF OneExtract
  <2>3. CASE u = "input"
    <3>1. call[u].left[1] # "extract" /\ call'["desktop"] = call["desktop"]
      BY <1>10, <2>3, Writes, CallFields, TypesSplit DEF CallTypes, Buttons
    <3>2. Requests' = Requests
      <4>1. ASSUME NEW i
            PROVE  i \in Requests' <=> i \in Requests
        BY <1>10, <1>b, <3>1, AfterWrite DEF Requests
      <4>2. QED BY <4>1
    <3>3. QED BY <2>1, <3>1, <3>2 DEF OneExtract, AsksForUpdate
  <2>4. QED BY <2>2, <2>3 DEF Callers
<1>11. ASSUME NEW u \in Callers, Breaks(u) \/ WaitForReconnect(u)
       PROVE  OneExtract'
  <2>1. UNCHANGED <<inbox, reply, alive, server>>
    BY <1>11 DEF Breaks, WaitForReconnect, serverVars, pipeVars
  <2>2. Fresh'
    BY <1>11, <2>1, BreaksEffect DEF WaitForReconnect, FreshServers, Fresh
  <2>3. QED BY <1>a, <2>2
<1>12. CASE \/ Draw \/ Poll \/ SendInitFramebuffer \/ SendInitInput \/ ReplaceChannel
            \/ TimesOut \/ Crashes
            \/ DispatcherGetsChannel \/ UpdateDetected \/ DispatcherBreaks \/ DispatcherReconnects
  BY <1>1, <1>12 DEF Draw, Poll, SendInitFramebuffer, SendInitInput, ReplaceChannel, TimesOut,
                     Crashes, DispatcherGetsChannel, UpdateDetected, DispatcherBreaks,
                     DispatcherReconnects, serverVars, pipeVars
<1>13. QED
  BY <1>1, <1>2, <1>3, <1>4, <1>5, <1>6, <1>7, <1>8, <1>9, <1>10, <1>11, <1>12, Steps
     DEF vars, serverVars, pipeVars

(* Who reads an answer reads the present server's.                         *)
LEMMA ReadersArePresent ==
  ASSUME TypeOK, ChannelOrder, ChannelUse, AnswersArePresent, ~spoiled, alive,
         watcher # "framebuffer", ReadPixels \/ ReadEnd
  PROVE  /\ reply.of = server /\ watcher \in {"watching", "from"}
         /\ ~channel["to"].changed
<1>1. AsksForUpdate /\ call["desktop"].at = "io" /\ reply.of = call["desktop"].on
  BY DEF ReadPixels, ReadEnd, AsksForUpdate
<1>2. watcher \in {"watching", "from"}
  BY <1>1 DEF AnswersArePresent, TypeOK, ServiceTypes, Ends
<1>3. call["desktop"].on = server
  BY <1>1, <1>2 DEF AnswersArePresent
<1>4. channel["to"].now = server
  BY <1>2 DEF ChannelOrder
<1>5. QED BY <1>1, <1>2, <1>3, <1>4 DEF ChannelUse, Holds, Callers

LEMMA NextAnswersArePresent ==
  ASSUME TypeOK, ChannelOrder, CallShapes, ChannelUse, FreshServers,
         AnswersArePresent, [Next]_vars
  PROVE  AnswersArePresent'
<1>a. SUFFICES ASSUME ~spoiled', alive'
               PROVE  /\ watcher' \in {"input", "to"} => ~AsksForUpdate'
                      /\ watcher' \in {"watching", "from"} /\ AsksForUpdate' =>
                           IF call'["desktop"].at = "io" THEN call'["desktop"].on = server'
                                                         ELSE ~channel'["to"].changed
  BY DEF AnswersArePresent
<1>b. ~spoiled
  BY <1>a, SpoiledForGood
<1>c. watcher \in {"watching", "framebuffer", "input", "to", "from"}
  BY DEF TypeOK, ServiceTypes, Ends
<1>d. "to" \in Ends /\ "desktop" \in Callers /\ "input" \in Callers
      /\ Callers = {"desktop", "input"} /\ channel \in [Ends -> ChannelRecords]
  BY TypesSplit DEF Ends, Callers, ChannelTypes
<1> USE DEF AsksForUpdate
<1>1. CASE /\ UNCHANGED <<alive, server, watcher>> /\ channel'["to"] = channel["to"]
           /\ call'["desktop"] = call["desktop"]
  BY <1>1, <1>a, <1>b DEF AnswersArePresent
<1>2. CASE Start
  BY <1>2 DEF Start
<1>3. CASE SendInitFramebuffer \/ SendInitInput
  <2>1. ~Overlaps /\ call' = call /\ watcher' \in {"input", "to"}
    BY <1>3, <1>a DEF SendInitFramebuffer, SendInitInput, serverVars
  <2>2. QED BY <1>d, <2>1 DEF Overlaps
<1>4. CASE ReplaceChannel
  <2>1. UNCHANGED <<alive, server, call>>
    BY <1>4 DEF ReplaceChannel, serverVars
  <2>2. CASE watcher = "to"
    BY <1>4, <1>a, <1>b, <2>1, <2>2 DEF ReplaceChannel, AnswersArePresent
  <2>3. CASE watcher = "from"
    <3>1. channel'["to"] = channel["to"] /\ watcher' = "watching"
      BY <1>4, <1>d, <2>3 DEF ReplaceChannel
    <3>2. QED BY <1>a, <1>b, <2>1, <2>3, <3>1 DEF AnswersArePresent
  <2>4. QED BY <1>4, <2>2, <2>3 DEF ReplaceChannel, Ends
<1>5. CASE WakeDesktop \/ BeginExtract \/ ReadEnd
  BY <1>5, BeginEffect, EndEffect
<1>6. CASE ReadPixels
  <2>1. UNCHANGED <<alive, server, watcher, channel>>
    BY <1>6 DEF ReadPixels, serverVars
  <2>2. CASE watcher = "framebuffer"
    BY <2>1, <2>2
  <2>3. CASE watcher # "framebuffer"
    BY <1>6, <1>a, <1>b, <2>1, <2>3, ReadersArePresent, EndEffect
  <2>4. QED BY <2>2, <2>3
<1>7. CASE BeginMouseEvent \/ KeepMouseFlags
  BY <1>1, <1>7, BeginEffect, EndEffect DEF BeginMouseEvent, KeepMouseFlags, serverVars
<1>8. ASSUME NEW u \in Callers, GetChannel(u)
      PROVE  /\ watcher' \in {"input", "to"} => ~AsksForUpdate'
             /\ watcher' \in {"watching", "from"} /\ AsksForUpdate' =>
                  IF call'["desktop"].at = "io" THEN call'["desktop"].on = server'
                                                ELSE ~channel'["to"].changed
  <2>1. UNCHANGED <<alive, server, watcher>>
    BY <1>8 DEF GetChannel, serverVars
  <2>2. CASE u = "input"
    <3>1. ~AsksForUpdate'
      BY <1>8, <1>d, <2>2, GetChannelEffect DEF CallShapes, Underway
    <3>2. QED BY <3>1
  <2>3. CASE u = "desktop" /\ channel["to"].changed
    BY <1>8, <2>3, GetChannelEffect
  <2>4. CASE u = "desktop" /\ ~channel["to"].changed
    <3>1. /\ call'["desktop"].at = "io" /\ call'["desktop"].on = channel["to"].now
          /\ AsksForUpdate' => AsksForUpdate
      BY <1>8, <2>4, GetChannelEffect
    <3>2. QED BY <1>a, <1>b, <2>1, <3>1 DEF AnswersArePresent, ChannelOrder
  <2>5. QED BY <1>d, <2>2, <2>3, <2>4
<1>9. ASSUME NEW u \in Callers, WriteChunk(u)
      PROVE  /\ watcher' \in {"input", "to"} => ~AsksForUpdate'
             /\ watcher' \in {"watching", "from"} /\ AsksForUpdate' =>
                  IF call'["desktop"].at = "io" THEN call'["desktop"].on = server'
                                                ELSE ~channel'["to"].changed
  <2>1. UNCHANGED <<alive, server, watcher, channel>>
    BY <1>9 DEF WriteChunk, serverVars
  <2>2. CASE u = "input"
    BY <1>1, <1>9, <1>d, <2>1, <2>2, WriteEffect
  <2>3. CASE u = "desktop"
    <3>1. ~channel["to"].changed /\ watcher \in {"watching", "from"}
      BY <1>9, WritersArePresent DEF WriteChunk
    <3>2. call'["desktop"].at = "get"
      BY <1>9, <2>3, WriteEffect
    <3>3. QED BY <2>1, <3>1, <3>2
  <2>4. QED BY <1>d, <2>2, <2>3
<1>10. ASSUME NEW u \in Callers, Breaks(u) \/ WaitForReconnect(u)
       PROVE  /\ watcher' \in {"input", "to"} => ~AsksForUpdate'
              /\ watcher' \in {"watching", "from"} /\ AsksForUpdate' =>
                   IF call'["desktop"].at = "io" THEN call'["desktop"].on = server'
                                                 ELSE ~channel'["to"].changed
  <2>1. ~AsksForUpdate'
    BY <1>10, <1>d, BreaksEffect, WaitEffect DEF CallShapes, Underway
  <2>2. QED BY <2>1
<1>11. CASE Die \/ WatcherFails
  BY <1>11, <1>a DEF Die, WatcherFails
<1>12. CASE DispatcherGetsChannel \/ DispatcherReconnects
  <2>1. channel'["to"] = channel["to"]
    BY <1>12, <1>d DEF DispatcherGetsChannel, DispatcherReconnects
  <2>2. QED BY <1>1, <1>12, <2>1 DEF DispatcherGetsChannel, DispatcherReconnects, serverVars
<1>13. CASE \/ Draw \/ Poll \/ ExtractReply \/ ApplyNewPointerPos \/ TimesOut \/ Crashes
            \/ UpdateDetected \/ DispatcherBreaks
  BY <1>1, <1>13 DEF Draw, Poll, ExtractReply, ApplyNewPointerPos, TimesOut, Crashes,
                     UpdateDetected, DispatcherBreaks, serverVars
<1>14. QED
  BY <1>1, <1>2, <1>3, <1>4, <1>5, <1>6, <1>7, <1>8, <1>9, <1>10, <1>11, <1>12, <1>13, Steps
     DEF vars, serverVars

-----------------------------------------------------------------------------
(* The frame buffers.                                                      *)
LEMMA NextSynchronised ==
  ASSUME TypeOK, ChannelOrder, CallShapes, ChannelUse, FreshServers, OneExtract,
         AnswersArePresent, Synchronised, [Next]_vars
  PROVE  Synchronised'
<1>a. SUFFICES ASSUME ~spoiled', alive', watcher' # "framebuffer"
               PROVE  /\ reply'.of = server' => reply'.colors = serverBackup'
                      /\ \A p \in Pixels : serverBackup'[p] # backup'[p] =>
                           reply'.of = server' /\ p \in reply'.left
  BY DEF Synchronised
<1>b. ~spoiled
  BY <1>a, SpoiledForGood
<1>c. /\ server \in Nat \ {0} /\ reply.of \in Nat /\ channel["to"].now \in Nat
      /\ channel["to"].old \in Nat /\ NoServer = 0
  BY TypesSplit, ChannelFields DEF ScreenTypes, ChannelTypes, Ends, TypeOK, ServerTypes, Servers,
                                   NoServer
<1>d. /\ serverBackup \in [Pixels -> Colors] /\ backup \in [Pixels -> Colors]
      /\ reply \in [of : Servers \cup {NoServer}, left : SUBSET Pixels,
                    colors : [Pixels -> Colors], whole : BOOLEAN]
  BY DEF TypeOK, ServerTypes, ServiceTypes
<1>1. CASE UNCHANGED <<serverBackup, backup, reply, alive, server>> /\ watcher # "framebuffer"
  BY <1>1, <1>a, <1>b DEF Synchronised
<1>2. CASE ExtractReply
  <2>1. 1 \in Requests
    BY <1>2, AfterExtract DEF Requests, TypeOK, ServerTypes
  <2>2. UNCHANGED <<alive, server, watcher, backup>>
    BY <1>2 DEF ExtractReply, updateVars
  <2>3. \A p \in Pixels : serverBackup[p] = backup[p]
    BY <1>a, <1>b, <2>1, <2>2 DEF OneExtract, Synchronised
  <2>4. /\ reply'.of = server /\ reply'.colors = serverBackup'
        /\ \A p \in Pixels : p \notin reply'.left => serverBackup'[p] = serverBackup[p]
    BY <1>2 DEF ExtractReply
  <2>5. QED BY <2>2, <2>3, <2>4
<1>3. CASE SendInitFramebuffer
  <2>1. watcher = "framebuffer" /\ alive /\ serverBackup' = backup
        /\ UNCHANGED <<reply, backup, server>>
    BY <1>3, <1>a DEF SendInitFramebuffer, pipeVars, updateVars
  <2>2. reply.of # server
    BY <2>1 DEF FreshServers, Fresh
  <2>3. QED BY <2>1, <2>2
<1>4. CASE Start \/ Die \/ WatcherFails
  BY <1>4, <1>a DEF Start, Die, WatcherFails
<1>5. CASE ReadPixels
  <2>0. UNCHANGED <<serverBackup, alive, server, watcher>>
    BY <1>5 DEF ReadPixels, serverVars
  <2>1. reply.of = server
    BY <1>5, <1>a, <1>b, <2>0, ReadersArePresent
  <2>2. PICK p \in reply.left :
           /\ backup' = [backup EXCEPT ![p] = reply.colors[p]]
           /\ reply' = [reply EXCEPT !.left = reply.left \ {p}]
    BY <1>5 DEF ReadPixels
  <2>3. /\ reply'.of = reply.of /\ reply'.colors = reply.colors
        /\ reply'.left = reply.left \ {p} /\ p \in Pixels
    BY <1>d, <2>2
  <2>4. /\ reply.colors = serverBackup
        /\ \A q \in Pixels : serverBackup[q] # backup[q] => q \in reply.left
    BY <1>a, <1>b, <2>0, <2>1 DEF Synchronised
  <2>5. \A q \in Pixels : backup'[q] = IF q = p THEN serverBackup[p] ELSE backup[q]
    BY <1>d, <2>2, <2>4
  <2>6. QED BY <2>0, <2>1, <2>3, <2>4, <2>5
<1>6. CASE ReadEnd
  <2>0. UNCHANGED <<serverBackup, backup, alive, server, watcher>> /\ reply.left = {}
        /\ reply'.of = NoServer
    BY <1>6 DEF ReadEnd, serverVars, NoReply
  <2>1. \A q \in Pixels : serverBackup[q] = backup[q]
    BY <1>a, <1>b, <2>0 DEF Synchronised
  <2>2. QED BY <1>c, <2>0, <2>1
<1>7. ASSUME NEW u \in Callers, GetChannel(u)
      PROVE  /\ reply'.of = server' => reply'.colors = serverBackup'
             /\ \A p \in Pixels : serverBackup'[p] # backup'[p] =>
                  reply'.of = server' /\ p \in reply'.left
  <2>1. UNCHANGED <<serverBackup, backup, alive, server, watcher>>
    BY <1>7 DEF GetChannel, serverVars
  <2>2. CASE reply' = reply
    BY <1>1, <1>a, <2>1, <2>2
  <2>3. CASE reply' # reply
    <3>1. reply.of = channel["to"].old /\ reply' = NoReply
      BY <1>7, <2>3 DEF GetChannel
    <3>2. reply.of # server /\ reply'.of # server
      BY <1>c, <3>1 DEF ChannelOrder, Ends, NoReply
    <3>3. QED BY <1>a, <1>b, <2>1, <3>2 DEF Synchronised
  <2>4. QED BY <2>2, <2>3
<1>8. ASSUME NEW u \in Callers, WriteChunk(u) \/ Breaks(u) \/ WaitForReconnect(u)
      PROVE  /\ UNCHANGED <<serverBackup, backup, reply, alive, server>>
             /\ watcher # "framebuffer"
  BY <1>8, <1>a DEF WriteChunk, Breaks, WaitForReconnect, serverVars, pipeVars, updateVars
<1>9. CASE SendInitInput \/ ReplaceChannel
  BY <1>1, <1>9 DEF SendInitInput, ReplaceChannel, Ends, serverVars, pipeVars, updateVars
<1>10. CASE \/ Draw \/ Poll \/ ApplyNewPointerPos \/ TimesOut \/ Crashes \/ UpdateDetected
            \/ WakeDesktop \/ BeginExtract \/ BeginMouseEvent \/ KeepMouseFlags
            \/ DispatcherBreaks \/ DispatcherGetsChannel \/ DispatcherReconnects
  BY <1>1, <1>a, <1>10 DEF Draw, Poll, ApplyNewPointerPos, TimesOut, Crashes, UpdateDetected,
                           WakeDesktop, BeginExtract, BeginMouseEvent, KeepMouseFlags,
                           DispatcherBreaks, DispatcherGetsChannel, DispatcherReconnects, serverVars, pipeVars,
                           updateVars
<1>11. QED
  BY <1>1, <1>a, <1>2, <1>3, <1>4, <1>5, <1>6, <1>7, <1>8, <1>9, <1>10, Steps
     DEF vars, serverVars, pipeVars, updateVars

LEMMA NextToldBackup ==
  ASSUME TypeOK, ToldBackup, [Next]_vars
  PROVE  ToldBackup'
<1>a. SUFFICES ASSUME ~spoiled'
               PROVE  \A p \in Pixels \ got' : told'[p] = backup'[p]
  BY DEF ToldBackup
<1>b. ~spoiled /\ \A p \in Pixels \ got : told[p] = backup[p]
  BY <1>a, SpoiledForGood DEF ToldBackup
<1>1. CASE UNCHANGED <<got, told, backup>>
  BY <1>1, <1>b
<1>2. CASE ReadPixels
  <2>1. PICK p \in reply.left :
           backup' = [backup EXCEPT ![p] = reply.colors[p]] /\ got' = got \cup {p}
    BY <1>2 DEF ReadPixels
  <2>2. \A q \in Pixels \ got' : backup'[q] = backup[q]
    BY <2>1 DEF TypeOK, ServiceTypes
  <2>3. QED BY <1>2, <1>b, <2>1, <2>2 DEF ReadPixels
<1>3. CASE ReadEnd
  BY <1>3, <1>b DEF ReadEnd
<1>4. ASSUME NEW u \in Callers, GetChannel(u) \/ WaitForReconnect(u)
      PROVE  \A p \in Pixels \ got' : told'[p] = backup'[p]
  <2>1. UNCHANGED <<told, backup>>
    BY <1>4 DEF GetChannel, WaitForReconnect
  <2>2. got' = got
    BY <1>4, <1>a DEF GetChannel, WaitForReconnect, Abandons
  <2>3. QED BY <1>1, <2>1, <2>2
<1>5. CASE \/ Draw \/ Poll \/ ExtractReply \/ ApplyNewPointerPos \/ Die \/ WatcherFails \/ Start
           \/ SendInitFramebuffer \/ SendInitInput \/ ReplaceChannel \/ TimesOut \/ Crashes
           \/ WakeDesktop \/ BeginExtract \/ BeginMouseEvent \/ KeepMouseFlags
           \/ DispatcherGetsChannel \/ UpdateDetected \/ DispatcherBreaks \/ DispatcherReconnects
           \/ \E u \in Callers : WriteChunk(u) \/ Breaks(u)
  BY <1>1, <1>5 DEF Draw, Poll, ExtractReply, ApplyNewPointerPos, Die, WatcherFails, Start,
                    SendInitFramebuffer, SendInitInput, ReplaceChannel, TimesOut, Crashes,
                    WakeDesktop, BeginExtract, BeginMouseEvent, KeepMouseFlags,
                    DispatcherGetsChannel, UpdateDetected, DispatcherBreaks, DispatcherReconnects, WriteChunk, Breaks, updateVars
<1>6. QED BY <1>1, <1>2, <1>3, <1>4, <1>5, Steps DEF vars, updateVars

-----------------------------------------------------------------------------
(* The buttons.                                                            *)
LEMMA KnowsAfterExtract ==
  ASSUME TypeOK, ExtractReply, NEW flag \in Buttons, WillKnow(flag)
  PROVE  WillKnow(flag)'
<1>a. /\ Len(inbox) \in Nat /\ Len(inbox') = Len(inbox) - 1 /\ inbox[1] \notin Buttons
      /\ \A i \in 1..Len(inbox') : inbox'[i] = inbox[i + 1]
      /\ prevKeyFlag' = prevKeyFlag
  BY AfterExtract DEF TypeOK, ServerTypes, Buttons, ExtractReply
<1>1. CASE prevKeyFlag = flag /\ \A i \in 1..Len(inbox) : inbox[i] \notin Buttons
  <2>1. \A i \in 1..Len(inbox') : inbox'[i] \notin Buttons
    BY <1>a, <1>1
  <2>2. QED BY <1>a, <1>1, <2>1 DEF WillKnow
<1>2. ASSUME NEW i \in 1..Len(inbox), inbox[i] = flag,
             \A j \in (i + 1)..Len(inbox) : inbox[j] \notin Buttons
      PROVE  WillKnow(flag)'
  <2>1. i # 1
    BY <1>a, <1>2
  <2>2. i - 1 \in 1..Len(inbox') /\ (i - 1) + 1 = i
    BY <1>a, <2>1
  <2>3. inbox'[i - 1] = flag
    BY <1>a, <1>2, <2>2
  <2>4. ASSUME NEW j \in ((i - 1) + 1)..Len(inbox')
        PROVE  inbox'[j] \notin Buttons
    <3>1. j \in 1..Len(inbox') /\ j + 1 \in (i + 1)..Len(inbox)
      BY <1>a, <2>2
    <3>2. QED BY <1>a, <1>2, <3>1
  <2>5. QED BY <2>2, <2>3, <2>4 DEF WillKnow
<1>3. QED BY <1>1, <1>2 DEF WillKnow

LEMMA KnowsAfterPointer ==
  ASSUME TypeOK, MessagesAreWhole, ApplyNewPointerPos, NEW flag \in Buttons, WillKnow(flag)
  PROVE  WillKnow(flag)'
<1>a. /\ Len(inbox) \in Nat /\ Len(inbox) > 1 /\ Len(inbox') = Len(inbox) - 2
      /\ \A i \in 1..Len(inbox') : inbox'[i] = inbox[i + 2]
      /\ inbox[1] = "pointer" /\ prevKeyFlag' = inbox[2]
  BY AfterPointer DEF TypeOK, ServerTypes
<1>b. inbox[2] \in Buttons
  BY <1>a DEF MessagesAreWhole
<1>1. PICK i \in 1..Len(inbox) : /\ inbox[i] = flag
                                 /\ \A j \in (i + 1)..Len(inbox) : inbox[j] \notin Buttons
  <2>1. 2 \in 1..Len(inbox)
    BY <1>a
  <2>2. QED BY <1>b, <2>1 DEF WillKnow
<1>2. i # 1
  BY <1>a, <1>1 DEF Buttons
<1>3. CASE i = 2
  <2>1. ASSUME NEW k \in 1..Len(inbox')
        PROVE  inbox'[k] \notin Buttons
    <3>1. k + 2 \in (i + 1)..Len(inbox)
      BY <1>a, <1>3
    <3>2. QED BY <1>a, <1>1, <3>1
  <2>2. QED BY <1>a, <1>1, <1>3, <2>1 DEF WillKnow
<1>4. CASE i > 2
  <2>1. i - 2 \in 1..Len(inbox') /\ (i - 2) + 2 = i
    BY <1>a, <1>4
  <2>2. inbox'[i - 2] = flag
    BY <1>a, <1>1, <2>1
  <2>3. ASSUME NEW j \in ((i - 2) + 1)..Len(inbox')
        PROVE  inbox'[j] \notin Buttons
    <3>1. j \in 1..Len(inbox') /\ j + 2 \in (i + 1)..Len(inbox)
      BY <1>a, <1>4, <2>1
    <3>2. QED BY <1>a, <1>1, <3>1
  <2>4. QED BY <2>1, <2>2, <2>3 DEF WillKnow
<1>5. QED BY <1>2, <1>3, <1>4

LEMMA KnowsAfterWrite ==
  ASSUME TypeOK, NEW u \in Callers, WriteChunk(u), NEW flag \in Buttons
  PROVE  /\ call[u].left[1] = flag => WillKnow(flag)'
         /\ call[u].left[1] \notin Buttons /\ WillKnow(flag) => WillKnow(flag)'
<1>a. /\ Len(inbox) \in Nat /\ Len(inbox') = Len(inbox) + 1
      /\ \A i \in 1..Len(inbox) : inbox'[i] = inbox[i]
      /\ inbox'[Len(inbox) + 1] = call[u].left[1] /\ prevKeyFlag' = prevKeyFlag
  <2>1. Len(inbox) \in Nat
    BY DEF TypeOK, ServerTypes
  <2>2. prevKeyFlag' = prevKeyFlag
    BY DEF WriteChunk, serverVars
  <2>3. QED BY <2>1, <2>2, AfterWrite
<1>1. ASSUME call[u].left[1] = flag
      PROVE  WillKnow(flag)'
  <2>1. Len(inbox') \in 1..Len(inbox') /\ inbox'[Len(inbox')] = flag
    BY <1>a, <1>1
  <2>2. (Len(inbox') + 1)..Len(inbox') = {}
    BY <1>a
  <2>3. QED BY <2>1, <2>2 DEF WillKnow
<1>2. ASSUME call[u].left[1] \notin Buttons, WillKnow(flag)
      PROVE  WillKnow(flag)'
  <2>1. ASSUME NEW j \in 1..Len(inbox'), j \in 1..Len(inbox) => inbox[j] \notin Buttons
        PROVE  inbox'[j] \notin Buttons
    BY <1>a, <1>2, <2>1
  <2>2. CASE prevKeyFlag = flag /\ \A i \in 1..Len(inbox) : inbox[i] \notin Buttons
    BY <1>a, <2>1, <2>2 DEF WillKnow
  <2>3. ASSUME NEW i \in 1..Len(inbox), inbox[i] = flag,
               \A j \in (i + 1)..Len(inbox) : inbox[j] \notin Buttons
        PROVE  WillKnow(flag)'
    <3>1. i \in 1..Len(inbox') /\ inbox'[i] = flag
      BY <1>a, <2>3
    <3>2. \A j \in (i + 1)..Len(inbox') :
            j \in 1..Len(inbox') /\ (j \in 1..Len(inbox) => j \in (i + 1)..Len(inbox))
      BY <1>a
    <3>3. \A j \in (i + 1)..Len(inbox') : inbox'[j] \notin Buttons
      BY <2>1, <2>3, <3>2
    <3>4. QED BY <3>1, <3>3 DEF WillKnow
  <2>4. QED BY <1>2, <2>2, <2>3 DEF WillKnow
<1>3. QED BY <1>1, <1>2

NowKnown == IF call["input"].at = "done" THEN call["input"].flag ELSE mouseFlags

LEMMA NextButtonsKnown ==
  ASSUME TypeOK, TypeOK', CallShapes, ChannelUse, FreshServers, MessagesAreWhole,
         ButtonsKnown, [Next]_vars
  PROVE  ButtonsKnown'
<1>a. SUFFICES ASSUME Ready', ~spoiled'
               PROVE  WillKnow(NowKnown)'
  BY DEF ButtonsKnown, NowKnown
<1>b. ~spoiled
  BY <1>a, SpoiledForGood
<1>c. Ready => WillKnow(NowKnown)
  BY <1>b DEF ButtonsKnown, NowKnown
<1>d. /\ Callers = {"desktop", "input"} /\ mouseFlags \in Buttons
      /\ call["input"].flag \in Buttons /\ NowKnown \in Buttons
  BY TypesSplit, CallFields DEF Callers, UpdateTypes, CallTypes, NowKnown
<1>1. CASE UNCHANGED <<inbox, prevKeyFlag, alive, watcher>> /\ NowKnown' = NowKnown
  BY <1>1, <1>a, <1>c DEF Ready, WillKnow
<1>2. CASE ExtractReply
  <2>1. UNCHANGED <<alive, watcher>> /\ NowKnown' = NowKnown
    BY <1>2 DEF ExtractReply, NowKnown
  <2>2. WillKnow(NowKnown)
    BY <1>a, <1>c, <2>1 DEF Ready
  <2>3. QED BY <1>2, <1>d, <2>1, <2>2, KnowsAfterExtract DEF WillKnow
<1>3. CASE ApplyNewPointerPos
  <2>1. UNCHANGED <<alive, watcher>> /\ NowKnown' = NowKnown
    BY <1>3 DEF ApplyNewPointerPos, NowKnown
  <2>2. WillKnow(NowKnown)
    BY <1>a, <1>c, <2>1 DEF Ready
  <2>3. QED BY <1>3, <1>d, <2>1, <2>2, KnowsAfterPointer DEF WillKnow
<1>4. CASE Die \/ WatcherFails \/ Start \/ SendInitFramebuffer
  BY <1>4, <1>a DEF Die, WatcherFails, Start, SendInitFramebuffer, Ready, serverVars
<1>5. CASE SendInitInput
  <2>1. /\ watcher = "input" /\ prevKeyFlag' = mouseFlags /\ ~Overlaps
        /\ UNCHANGED <<call, mouseFlags, inbox>>
    BY <1>5, <1>a DEF SendInitInput, Ready, pipeVars
  <2>2. NowKnown' = mouseFlags
    BY <1>d, <2>1 DEF Overlaps, NowKnown
  <2>3. \A i \in 1..Len(inbox') : inbox'[i] \notin Buttons
    <3>1. inbox' = <<>>
      BY <2>1 DEF FreshServers, Fresh
    <3>2. Len(inbox') = 0
      BY <3>1
    <3>3. QED BY <3>2
  <2>4. QED BY <2>1, <2>2, <2>3 DEF WillKnow
<1>6. CASE ReplaceChannel
  <2>1. Ready /\ UNCHANGED <<inbox, prevKeyFlag>> /\ NowKnown' = NowKnown
    BY <1>6, <1>a DEF ReplaceChannel, Ready, Ends, serverVars, pipeVars, NowKnown
  <2>2. QED BY <1>c, <2>1 DEF WillKnow
<1>7. CASE WakeDesktop \/ BeginExtract \/ ReadPixels \/ ReadEnd
  <2>1. UNCHANGED <<inbox, prevKeyFlag, alive, watcher>> /\ NowKnown' = NowKnown
    BY <1>7, BeginEffect, EndEffect DEF WakeDesktop, BeginExtract, ReadPixels, ReadEnd,
                                        serverVars, pipeVars, NowKnown
  <2>2. QED BY <1>1, <2>1
<1>8. CASE BeginMouseEvent
  <2>1. UNCHANGED <<inbox, prevKeyFlag, alive, watcher, mouseFlags>>
    BY <1>8 DEF BeginMouseEvent, serverVars, pipeVars
  <2>2. call["input"].at # "done" /\ call'["input"].at # "done"
    BY <1>8, <1>d, BeginEffect
  <2>3. QED BY <1>1, <2>1, <2>2 DEF NowKnown
<1>9. CASE KeepMouseFlags
  <2>1. /\ UNCHANGED <<inbox, prevKeyFlag, alive, watcher>> /\ mouseFlags' = call["input"].flag
        /\ call["input"].at = "done" /\ call'["input"].at = "idle"
    BY <1>9, EndEffect DEF KeepMouseFlags, serverVars, pipeVars
  <2>2. QED BY <1>1, <2>1 DEF NowKnown
<1>10. ASSUME NEW u \in Callers, GetChannel(u) \/ Breaks(u) \/ WaitForReconnect(u)
       PROVE  WillKnow(NowKnown)'
  <2>1. UNCHANGED <<inbox, prevKeyFlag, alive, watcher, mouseFlags>>
    BY <1>10 DEF GetChannel, Breaks, WaitForReconnect, serverVars, pipeVars
  <2>2. \/ call'["input"] = call["input"]
        \/ call["input"].at # "done" /\ call'["input"].at # "done"
    BY <1>10, <1>d, GetChannelEffect, BreaksEffect, WaitEffect
  <2>3. QED BY <1>1, <2>1, <2>2 DEF NowKnown
<1>11. ASSUME NEW u \in Callers, WriteChunk(u)
       PROVE  WillKnow(NowKnown)'
  <2>1. UNCHANGED <<alive, watcher, mouseFlags>> /\ WillKnow(NowKnown)
    BY <1>11, <1>a, <1>c DEF WriteChunk, Ready, serverVars
  <2>2. CASE u = "desktop" \/ call[u].left # <<call[u].flag>>
    <3>1. call[u].left[1] \notin Buttons /\ NowKnown' = NowKnown
      <4>1. call[u].at = "io"
        BY <1>11 DEF WriteChunk
      <4>2. \/ call[u].left[1] = "extract" /\ call'["input"] = call["input"]
            \/ call[u].left[1] = "pointer" /\ u = "input" /\ call'["input"].at = "get"
        BY <1>11, <2>2, Writes
      <4>3. NowKnown' = NowKnown
        BY <2>1, <4>1, <4>2 DEF NowKnown
      <4>4. QED BY <4>2, <4>3 DEF Buttons
    <3>2. QED BY <1>11, <1>d, <2>1, <3>1, KnowsAfterWrite DEF WillKnow
  <2>3. CASE u = "input" /\ call[u].left = <<call[u].flag>>
    <3>1. NowKnown' = call["input"].flag /\ call[u].left[1] = call["input"].flag
      BY <1>11, <2>3, Writes DEF NowKnown
    <3>2. QED BY <1>11, <1>d, <3>1, KnowsAfterWrite DEF WillKnow
  <2>4. QED BY <1>d, <2>2, <2>3
<1>12. CASE \/ Draw \/ Poll \/ TimesOut \/ Crashes \/ DispatcherGetsChannel \/ UpdateDetected
            \/ DispatcherBreaks \/ DispatcherReconnects
  BY <1>1, <1>12 DEF Draw, Poll, TimesOut, Crashes, DispatcherGetsChannel, UpdateDetected,
                     DispatcherBreaks, DispatcherReconnects, serverVars, pipeVars, NowKnown
<1>13. CASE UNCHANGED vars
  BY <1>1, <1>13 DEF vars, serverVars, pipeVars, NowKnown
<1>14. QED
  BY <1>2, <1>3, <1>4, <1>5, <1>6, <1>7, <1>8, <1>9, <1>10, <1>11, <1>12, <1>13, Steps

-----------------------------------------------------------------------------
LEMMA InitInv == Init => IInv
<1> SUFFICES ASSUME Init
             PROVE  IInv
  OBVIOUS
<1>1. TypeOK
  BY InitTypes
<1>2. /\ inbox = <<>> /\ reply.of = NoServer /\ server = 1 /\ alive /\ watcher = "watching"
      /\ call = [u \in Callers |-> IdleCall] /\ dispatcher.at = "get"
      /\ channel = [e \in Ends |-> [now |-> 1, old |-> NoServer, changed |-> FALSE,
                                    deleted |-> {}]]
      /\ serverBackup = backup /\ told = backup /\ prevKeyFlag = "up" /\ mouseFlags = "up"
  BY DEF Init, NoReply
<1>3. /\ Callers = {"desktop", "input"} /\ \A u \in Callers : call[u].at = "idle"
      /\ Ends = {"to", "from"}
      /\ \A e \in Ends : /\ channel[e].now = 1 /\ channel[e].old = NoServer
                         /\ channel[e].deleted = {} /\ ~channel[e].changed
      /\ Len(inbox) = 0
  BY <1>2 DEF IdleCall, Callers, Ends
<1>4. ChannelOrder /\ ChannelUse
  BY <1>2, <1>3 DEF ChannelOrder, ChannelUse, Holds, NoServer
<1>5. CallShapes /\ FreshServers
  BY <1>2, <1>3 DEF CallShapes, Underway, FreshServers, Fresh, NoServer
<1>6. CutMessages /\ MessagesAreWhole
  BY <1>2, <1>3 DEF CutMessages, CutInTwo, WritesButtons, MessagesAreWhole
<1>7. OneExtract /\ AnswersArePresent
  BY <1>2, <1>3 DEF OneExtract, Requests, AnswersArePresent, AsksForUpdate, NoServer
<1>8. Synchronised /\ ToldBackup
  BY <1>2 DEF Synchronised, ToldBackup, NoServer
<1>9. ButtonsKnown
  BY <1>2, <1>3 DEF ButtonsKnown, WillKnow
<1>10. QED BY <1>1, <1>4, <1>5, <1>6, <1>7, <1>8, <1>9 DEF IInv

LEMMA NextInv == IInv /\ [Next]_vars => IInv'
<1> SUFFICES ASSUME IInv, [Next]_vars
             PROVE  IInv'
  OBVIOUS
<1> USE DEF IInv
<1>1. TypeOK'
  <2>1. (ScreenTypes /\ PipeTypes /\ ChannelTypes /\ CallTypes /\ UpdateTypes)'
    BY NextScreenTypes, NextPipeTypes, NextChannelTypes, NextCallTypes, NextUpdateTypes
  <2>2. (ScreenTypes /\ PipeTypes /\ ChannelTypes /\ CallTypes /\ UpdateTypes => TypeOK)'
    BY TypesSplit, PTL
  <2>3. QED BY <2>1, <2>2
<1>2. ChannelOrder' /\ ChannelUse' /\ CallShapes'
  BY NextChannelOrder, NextChannelUse, NextCallShapes
<1>3. FreshServers'
  BY NextFreshServers
<1>4. CutMessages' /\ MessagesAreWhole'
  BY <1>1, <1>3, NextPipeInv DEF PipeInv
<1>5. OneExtract'
  BY <1>1, <1>3, NextOneExtract
<1>6. AnswersArePresent' /\ Synchronised' /\ ToldBackup'
  BY NextAnswersArePresent, NextSynchronised, NextToldBackup
<1>7. ButtonsKnown'
  BY <1>1, NextButtonsKnown
<1>8. QED BY <1>1, <1>2, <1>3, <1>4, <1>5, <1>6, <1>7

LEMMA Invariance == Spec => []IInv
BY InitInv, NextInv, PTL DEF Spec

(* Every variable keeps its type, whenever servers end.                    *)
THEOREM ReconnectTypes == Spec => []TypeOK
<1>1. IInv => TypeOK
  BY DEF IInv
<1>2. QED BY <1>1, Invariance, PTL

(* Neither replaceChannel nor getChannel ever deletes a pipe that a caller *)
(* of the gate or the dispatcher is using, whatever the watcher's catch    *)
(* has deleted before.                                                     *)
THEOREM UsersSpared == Spec => []ReplacementSparesUsers
<1>1. ASSUME IInv, NEW e \in Ends, NEW user \in Users(e), user.at = "io"
      PROVE  user.on \notin AboutToDelete(e)
  <2>1. Holds(channel[e], user)
    BY <1>1 DEF IInv, ChannelUse, Users, Ends
  <2>2. user.on \notin DeletedByReplace(channel[e])
    BY <1>1, <2>1 DEF Holds, DeletedByReplace
  <2>3. \A other \in Users(e) : other.at # "get"
    <3>1. CASE e = "to"
      BY <1>1, <3>1 DEF IInv, CallShapes, Underway, Users, Callers
    <3>2. CASE e = "from"
      BY <1>1, <3>2 DEF Users
    <3>3. QED BY <3>1, <3>2 DEF Ends
  <2>4. QED BY <2>2, <2>3 DEF AboutToDelete
<1>2. IInv => ReplacementSparesUsers
  BY <1>1 DEF ReplacementSparesUsers, InUse
<1>3. QED BY <1>2, Invariance, PTL

(* A server never finds a message in its pipe whose beginning went to its  *)
(* predecessor.                                                            *)
THEOREM WholeMessages == Spec => []MessagesAreWhole
<1>1. IInv => MessagesAreWhole
  BY DEF IInv
<1>2. QED BY <1>1, Invariance, PTL

(* After onReconnect the service's and the server's frame buffers differ   *)
(* only where the answer under way says so, unless a call overlapped it.   *)
THEOREM InSync == Spec => []FramebuffersInSync
<1>1. IInv => FramebuffersInSync
  BY DEF IInv, Synchronised, FramebuffersInSync, Ready
<1>2. QED BY <1>1, Invariance, PTL

(* No change of the screen is lost with the server that had detected it.   *)
THEOREM ChangesSurvive == Spec => []NothingForgotten
<1>1. ASSUME IInv, ~spoiled, NEW p \in Pixels, told[p] # screen.pixels[p], p \notin got
      PROVE  \/ reply.of = server /\ p \in reply.left
             \/ IF Ready THEN Differs(p) ELSE backup[p] # screen.pixels[p]
  <2>1. told[p] = backup[p]
    BY <1>1 DEF IInv, ToldBackup
  <2>2. CASE ~Ready
    BY <1>1, <2>1, <2>2
  <2>3. CASE Ready
    BY <1>1, <2>1, <2>3 DEF IInv, Synchronised, Ready, Differs
  <2>4. QED BY <2>2, <2>3
<1>2. IInv => NothingForgotten
  BY <1>1 DEF NothingForgotten
<1>3. QED BY <1>2, Invariance, PTL

(* The server that follows another one knows which buttons are pressed.    *)
THEOREM ButtonsSurvive == Spec => []ServerKnowsButtons
<1>1. ASSUME IInv, Ready, ~spoiled, ~Underway("input"), inbox = <<>>
      PROVE  prevKeyFlag = mouseFlags
  <2>1. WillKnow(mouseFlags)
    BY <1>1 DEF IInv, ButtonsKnown, Underway
  <2>2. Len(inbox) = 0
    BY <1>1
  <2>3. QED BY <2>1, <2>2 DEF WillKnow
<1>2. IInv => ServerKnowsButtons
  BY <1>1 DEF ServerKnowsButtons
<1>3. QED BY <1>2, Invariance, PTL
=============================================================================
