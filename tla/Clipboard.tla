----------------------------- MODULE Clipboard ------------------------------
(***************************************************************************)
(* The clipboards of the host and of the viewers' machines.  A text copied *)
(* on the host goes to every viewer, one copied beside a viewer goes to    *)
(* the host.  Each side remembers the text that it got from the other, so  *)
(* that the notification which putting it into the clipboard causes is not *)
(* taken for a copy of the user's and sent back.                           *)
(*                                                                         *)
(* A clipboard notifies once it has changed, and is read when the notice   *)
(* is handled.  NoText is the empty string.                                *)
(***************************************************************************)
EXTENDS Integers, Sequences

CONSTANTS
  Viewers, Texts, NoText,
  Buffer,           (* how many texts a connection takes before a write waits *)
  MaxCopies         (* how often the users copy: a bound for TLC              *)

ASSUME ClipboardAssumption ==
  /\ NoText \notin Texts
  /\ Buffer \in Nat \ {0} /\ MaxCopies \in Nat

VARIABLES
  host,        (* the host's clipboard, and whether it has a notice          *)
  received,    (* m_strReceivedClipboard                                     *)
  listener,    (* the thread that handles the host's notices                 *)
  dispatcher,  (* the client's threads that handle what the viewers send     *)
  exchange,    (* m_storedClip, m_hasNewClip and m_happeningNewClip          *)
  sender,      (* the threads of ClipboardExchange, and what they sent last  *)
  toViewer, toServer,
  local,       (* the clipboards of the viewers' machines                    *)
  core,        (* the viewers' RemoteViewerCore threads                      *)
  windowClip,  (* the m_strClipboard of the viewers' windows                 *)
  copied,      (* the text copied last, who copied it, how many were         *)
  crossed      (* a history: a text was copied before the last had arrived   *)

hostVars     == <<host, received, listener>>
exchangeVars == <<exchange, sender>>
viewerVars   == <<local, core, windowClip>>
vars == <<hostVars, dispatcher, exchangeVars, toViewer, toServer, viewerVars, copied, crossed>>

Host == "host"
ASSUME HostIsNoViewer == Host \notin Viewers

Strings == Texts \cup {NoText}

Resting == [at |-> "idle", text |-> NoText]

Init ==
  /\ host = [text |-> NoText, notice |-> FALSE]
  /\ received = NoText /\ listener = Resting
  /\ dispatcher = [v \in Viewers |-> Resting]
  /\ exchange = [v \in Viewers |-> [stored |-> NoText, new |-> FALSE, event |-> FALSE]]
  /\ sender = [v \in Viewers |-> [at |-> "idle", text |-> NoText, last |-> NoText]]
  /\ toViewer = [v \in Viewers |-> <<>>] /\ toServer = [v \in Viewers |-> <<>>]
  /\ local = [v \in Viewers |-> [text |-> NoText, notice |-> FALSE]]
  /\ core = [v \in Viewers |-> Resting]
  /\ windowClip = [v \in Viewers |-> NoText]
  /\ copied = [text |-> NoText, by |-> Host, count |-> 0]
  /\ crossed = FALSE

(* Nothing is under way.                                                   *)
Quiet ==
  /\ ~host.notice /\ listener.at = "idle"
  /\ \A v \in Viewers :
       /\ dispatcher[v].at = "idle" /\ core[v].at = "idle"
       /\ ~exchange[v].new /\ sender[v].at = "idle"
       /\ toViewer[v] = <<>> /\ toServer[v] = <<>> /\ ~local[v].notice

-----------------------------------------------------------------------------
(* The users.                                                              *)
Copied(text, by) ==
  /\ copied.count < MaxCopies
  /\ copied' = [text |-> text, by |-> by, count |-> copied.count + 1]
  /\ crossed' = (crossed \/ ~Quiet)

CopyOnHost ==
  \E text \in Texts :
    /\ Copied(text, Host)
    /\ host' = [text |-> text, notice |-> TRUE]
    /\ UNCHANGED <<received, listener, dispatcher, exchangeVars, toViewer, toServer,
                   viewerVars>>

CopyBesideViewer(v) ==
  \E text \in Texts :
    /\ Copied(text, v)
    /\ local' = [local EXCEPT ![v] = [text |-> text, notice |-> TRUE]]
    /\ UNCHANGED <<hostVars, dispatcher, exchangeVars, toViewer, toServer, core, windowClip>>

-----------------------------------------------------------------------------
(* The host's side.  onClipboardUpdate: the text is read ...               *)
HandleHostNotice ==
  /\ listener.at = "idle" /\ host.notice
  /\ host' = [host EXCEPT !.notice = FALSE]
  /\ listener' = [at |-> "compare", text |-> host.text]
  /\ UNCHANGED <<received, dispatcher, exchangeVars, toViewer, toServer, viewerVars, copied,
                 crossed>>

(* ... compared with what was received last ...                            *)
CompareNothing ==
  /\ listener.at = "compare"
  /\ listener' = [listener EXCEPT !.at = "clear"]
  /\ UNCHANGED <<host, received, dispatcher, exchangeVars, toViewer, toServer, viewerVars,
                 copied, crossed>>

CompareReceived ==
  /\ listener.at = "compare"
  /\ listener' = IF listener.text = received THEN Resting
                                             ELSE [listener EXCEPT !.at = "clear"]
  /\ UNCHANGED <<host, received, dispatcher, exchangeVars, toViewer, toServer, viewerVars,
                 copied, crossed>>

(* ... which is forgotten, under the lock once more ...                    *)
KeepReceived ==
  /\ listener.at = "clear"
  /\ listener' = [listener EXCEPT !.at = "forward"]
  /\ UNCHANGED <<host, received, dispatcher, exchangeVars, toViewer, toServer, viewerVars,
                 copied, crossed>>

ClearReceived ==
  /\ listener.at = "clear"
  /\ received' = NoText
  /\ listener' = [listener EXCEPT !.at = "forward"]
  /\ UNCHANGED <<host, dispatcher, exchangeVars, toViewer, toServer, viewerVars, copied,
                 crossed>>

(* ... and stored for every client.                                        *)
SendClipboard ==
  /\ listener.at = "forward"
  /\ exchange' = [v \in Viewers |-> [stored |-> listener.text, new |-> TRUE, event |-> TRUE]]
  /\ listener' = Resting
  /\ UNCHANGED <<host, received, dispatcher, sender, toViewer, toServer, viewerVars, copied,
                 crossed>>

(* ClipboardExchange's thread: m_hasNewClip is read without its lock.      *)
SenderWakes(v) ==
  /\ sender[v].at = "idle" /\ exchange[v].event
  /\ exchange' = [exchange EXCEPT ![v].event = FALSE]
  /\ sender' = [sender EXCEPT ![v].at = IF exchange[v].new THEN "take" ELSE "idle"]
  /\ UNCHANGED <<hostVars, dispatcher, toViewer, toServer, viewerVars, copied, crossed>>

TakeStoredClipKeepsFlag(v) ==
  /\ sender[v].at = "take"
  /\ sender' = [sender EXCEPT ![v].at = "write", ![v].text = exchange[v].stored]
  /\ UNCHANGED <<hostVars, dispatcher, exchange, toViewer, toServer, viewerVars, copied,
                 crossed>>

TakeStoredClip(v) ==
  /\ sender[v].at = "take"
  /\ sender' = [sender EXCEPT ![v].at = "write", ![v].text = exchange[v].stored]
  /\ exchange' = [exchange EXCEPT ![v].new = FALSE]
  /\ UNCHANGED <<hostVars, dispatcher, toViewer, toServer, viewerVars, copied, crossed>>

WriteCutTextThenClear(v) ==
  /\ sender[v].at = "write" /\ Len(toViewer[v]) < Buffer
  /\ toViewer' = [toViewer EXCEPT ![v] = Append(@, sender[v].text)]
  /\ sender' = [sender EXCEPT ![v] = [at |-> "idle", text |-> NoText, last |-> @.text]]
  /\ exchange' = [exchange EXCEPT ![v].new = FALSE]
  /\ UNCHANGED <<hostVars, dispatcher, toServer, viewerVars, copied, crossed>>

WriteCutText(v) ==
  /\ sender[v].at = "write" /\ Len(toViewer[v]) < Buffer
  /\ toViewer' = [toViewer EXCEPT ![v] = Append(@, sender[v].text)]
  /\ sender' = [sender EXCEPT ![v] = [at |-> "idle", text |-> NoText, last |-> @.text]]
  /\ UNCHANGED <<hostVars, dispatcher, exchange, toServer, viewerVars, copied, crossed>>

(* setNewClipText, of a client's thread: first the memory of the text,     *)
(* then the clipboard.                                                     *)
StoreReceived(v) ==
  /\ dispatcher[v].at = "idle" /\ toServer[v] # <<>>
  /\ received' = Head(toServer[v])
  /\ dispatcher' = [dispatcher EXCEPT ![v] = [at |-> "set", text |-> Head(toServer[v])]]
  /\ toServer' = [toServer EXCEPT ![v] = Tail(@)]
  /\ UNCHANGED <<host, listener, exchangeVars, toViewer, viewerVars, copied, crossed>>

SetNewClipboard(v) ==
  /\ dispatcher[v].at = "set"
  /\ host' = [text |-> dispatcher[v].text, notice |-> TRUE]
  /\ dispatcher' = [dispatcher EXCEPT ![v] = Resting]
  /\ UNCHANGED <<received, listener, exchangeVars, toViewer, toServer, viewerVars, copied,
                 crossed>>

-----------------------------------------------------------------------------
(* The viewer's side.  setClipboardData, of the core's thread: first the   *)
(* clipboard, then the memory of the text.                                 *)
SetString(v) ==
  /\ core[v].at = "idle" /\ toViewer[v] # <<>>
  /\ local' = [local EXCEPT ![v] = [text |-> Head(toViewer[v]), notice |-> TRUE]]
  /\ core' = [core EXCEPT ![v] = [at |-> "set", text |-> Head(toViewer[v])]]
  /\ toViewer' = [toViewer EXCEPT ![v] = Tail(@)]
  /\ UNCHANGED <<hostVars, dispatcher, exchangeVars, toServer, windowClip, copied, crossed>>

KeepWindowClip(v) ==
  /\ core[v].at = "set"
  /\ windowClip' = [windowClip EXCEPT ![v] = core[v].text]
  /\ core' = [core EXCEPT ![v] = Resting]
  /\ UNCHANGED <<hostVars, dispatcher, exchangeVars, toViewer, toServer, local, copied,
                 crossed>>

(* onDrawClipboard, of the window's thread.                                *)
DrawClipboardRemembers(v) ==
  LET isEqual == local[v].text = windowClip[v] IN
  /\ local[v].notice
  /\ isEqual \/ Len(toServer[v]) < Buffer
  /\ local' = [local EXCEPT ![v].notice = FALSE]
  /\ toServer' = IF isEqual THEN toServer
                            ELSE [toServer EXCEPT ![v] = Append(@, local[v].text)]
  /\ UNCHANGED <<hostVars, dispatcher, exchangeVars, toViewer, core, windowClip, copied,
                 crossed>>

DrawClipboard(v) ==
  LET isEqual == local[v].text = windowClip[v] IN
  /\ local[v].notice
  /\ isEqual \/ Len(toServer[v]) < Buffer
  /\ local' = [local EXCEPT ![v].notice = FALSE]
  /\ windowClip' = [windowClip EXCEPT ![v] = NoText]
  /\ toServer' = IF isEqual THEN toServer
                            ELSE [toServer EXCEPT ![v] = Append(@, local[v].text)]
  /\ UNCHANGED <<hostVars, dispatcher, exchangeVars, toViewer, core, copied, crossed>>

-----------------------------------------------------------------------------
Listener == HandleHostNotice \/ CompareReceived \/ ClearReceived \/ SendClipboard
Sender(v) == SenderWakes(v) \/ TakeStoredClip(v) \/ WriteCutText(v)
Dispatcher(v) == StoreReceived(v) \/ SetNewClipboard(v)
Core(v) == SetString(v) \/ KeepWindowClip(v)

Next ==
  \/ CopyOnHost \/ Listener
  \/ \E v \in Viewers :
       CopyBesideViewer(v) \/ Sender(v) \/ Dispatcher(v) \/ Core(v) \/ DrawClipboard(v)

(* Every thread goes on; the users need not copy anything.                 *)
Fairness ==
  /\ WF_vars(Listener)
  /\ \A v \in Viewers : /\ WF_vars(Sender(v)) /\ WF_vars(Dispatcher(v)) /\ WF_vars(Core(v))
                        /\ WF_vars(DrawClipboard(v))

Spec == Init /\ [][Next]_vars /\ Fairness

-----------------------------------------------------------------------------
Clips == [text : Strings, notice : BOOLEAN]

HostTypes ==
  /\ host \in Clips /\ received \in Strings
  /\ listener \in [at : {"idle", "compare", "clear", "forward"}, text : Strings]
  /\ dispatcher \in [Viewers -> [at : {"idle", "set"}, text : Strings]]
  /\ exchange \in [Viewers -> [stored : Strings, new : BOOLEAN, event : BOOLEAN]]
  /\ sender \in [Viewers -> [at : {"idle", "take", "write"}, text : Strings, last : Strings]]

ViewerTypes ==
  /\ toViewer \in [Viewers -> Seq(Strings)] /\ toServer \in [Viewers -> Seq(Strings)]
  /\ local \in [Viewers -> Clips]
  /\ core \in [Viewers -> [at : {"idle", "set"}, text : Strings]]
  /\ windowClip \in [Viewers -> Strings]
  /\ copied \in [text : Strings, by : Viewers \cup {Host}, count : 0..MaxCopies]
  /\ crossed \in BOOLEAN

(* Every variable has its type.                                            *)
TypeOK == HostTypes /\ ViewerTypes

(* The text stored last for a client is sent, or its thread is on its way  *)
(* to take it, though it reads m_hasNewClip without the lock and the text  *)
(* may change while the one before is written.                             *)
LastTextIsSent ==
  \A v \in Viewers :
    IF exchange[v].new
    THEN exchange[v].event \/ sender[v].at = "take"
    ELSE exchange[v].stored = IF sender[v].at = "write" THEN sender[v].text
                                                        ELSE sender[v].last

(* The host's text is one that another viewer than v sent.                 *)
FromAnother(v) ==
  received = host.text /\ \E u \in Viewers \ {v} : local[u].text = host.text

(* When all is quiet and texts were copied one at a time, the text copied  *)
(* last is still where it was copied, and every viewer has the host's text *)
(* unless another viewer sent it: a text of one viewer is not passed on to *)
(* the others.  With one viewer both clipboards hold the text copied last. *)
QuietClipboardsAgree ==
  Quiet /\ ~crossed =>
    /\ (IF copied.by = Host THEN host ELSE local[copied.by]).text = copied.text
    /\ \A v \in Viewers : local[v].text = host.text \/ FromAnother(v)

(* A text that was copied alone does not go to and fro for ever.           *)
Settles == []<>(Quiet \/ crossed)

-----------------------------------------------------------------------------
(* What the documentation says and the code does not keep; the README      *)
(* tells the behaviours that break it.                                     *)

(* "if string in clipboard got from server, then don't send him too"       *)
(* (DesktopWindow.cpp, of onDrawClipboard), even if it was copied alone.   *)
NotSentBack ==
  \A v \in Viewers : core[v].at = "set" /\ ~crossed =>
    \A i \in 1..Len(toServer[v]) : toServer[v][i] # core[v].text

(* A text is not sent back, but one that the viewer's user copies himself  *)
(* is sent, even if the host sent the same one earlier.                    *)
HostHasTheLastText == Quiet /\ ~crossed => host.text = copied.text

(* Texts copied at the same time do not go to and fro for ever either.     *)
AlwaysSettles == []<>Quiet
=============================================================================
