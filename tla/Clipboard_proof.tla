--------------------------- MODULE Clipboard_proof ---------------------------
(***************************************************************************)
(* Clipboard keeps its types, the text stored last for a client is sent or *)
(* about to be taken, and clipboards agree after texts copied one at a     *)
(* time, for any viewers, texts and buffers.                               *)
(***************************************************************************)
EXTENDS Clipboard, TLAPS

USE ClipboardAssumption, HostIsNoViewer

LEMMA InitTypes == Init => TypeOK
<1> SUFFICES ASSUME Init
             PROVE TypeOK
  OBVIOUS
<1>1. NoText \in Strings /\ <<>> \in Seq(Strings) /\ 0 \in 0..MaxCopies
  BY DEF Strings
<1>2. HostTypes
  BY <1>1 DEF Init, HostTypes, Clips, Resting
<1>3. local \in [Viewers -> Clips] /\ core \in [Viewers -> [at : {"idle", "set"}, text : Strings]]
  BY <1>1 DEF Init, Clips, Resting
<1>4. ViewerTypes
  BY <1>1, <1>3 DEF Init, ViewerTypes
<1>5. QED BY <1>2, <1>4 DEF TypeOK

LEMMA CopyTypes ==
  ASSUME TypeOK, CopyOnHost \/ \E v \in Viewers : CopyBesideViewer(v)
  PROVE TypeOK'
<1>1. CASE CopyOnHost
  BY <1>1 DEF TypeOK, HostTypes, ViewerTypes, Clips, Strings, CopyOnHost, Copied, exchangeVars,
              viewerVars
<1>2. ASSUME NEW v \in Viewers, CopyBesideViewer(v)
      PROVE TypeOK'
  BY <1>2 DEF TypeOK, HostTypes, ViewerTypes, Clips, Strings, CopyBesideViewer, Copied,
              hostVars, exchangeVars
<1>3. QED BY <1>1, <1>2

LEMMA ListenerTypes ==
  ASSUME TypeOK, Listener
  PROVE TypeOK'
<1>1. CASE HandleHostNotice
  BY <1>1 DEF TypeOK, HostTypes, ViewerTypes, Clips, HandleHostNotice, exchangeVars, viewerVars
<1>2. CASE CompareReceived
  BY <1>2 DEF TypeOK, HostTypes, ViewerTypes, Strings, Resting, CompareReceived, exchangeVars,
              viewerVars
<1>3. CASE ClearReceived
  BY <1>3 DEF TypeOK, HostTypes, ViewerTypes, Strings, ClearReceived, exchangeVars, viewerVars
<1>4. CASE SendClipboard
  BY <1>4 DEF TypeOK, HostTypes, ViewerTypes, Strings, Resting, SendClipboard, viewerVars
<1>5. QED BY <1>1, <1>2, <1>3, <1>4 DEF Listener

LEMMA SenderTypes ==
  ASSUME TypeOK, NEW v \in Viewers, Sender(v)
  PROVE TypeOK'
<1>1. CASE SenderWakes(v)
  <2>1. exchange' \in [Viewers -> [stored : Strings, new : BOOLEAN, event : BOOLEAN]]
    BY <1>1 DEF TypeOK, HostTypes, SenderWakes
  <2>2. exchange[v].new \in BOOLEAN
    BY DEF TypeOK, HostTypes
  <2>3. sender' \in [Viewers -> [at : {"idle", "take", "write"}, text : Strings, last : Strings]]
    BY <1>1, <2>2 DEF TypeOK, HostTypes, SenderWakes
  <2>4. QED BY <1>1, <2>1, <2>3 DEF TypeOK, HostTypes, ViewerTypes, SenderWakes, hostVars, viewerVars
<1>2. CASE TakeStoredClip(v)
  <2>1. exchange' \in [Viewers -> [stored : Strings, new : BOOLEAN, event : BOOLEAN]]
    BY <1>2 DEF TypeOK, HostTypes, TakeStoredClip
  <2>2. exchange[v].stored \in Strings
    BY DEF TypeOK, HostTypes
  <2>3. sender' \in [Viewers -> [at : {"idle", "take", "write"}, text : Strings, last : Strings]]
    BY <1>2, <2>2 DEF TypeOK, HostTypes, TakeStoredClip
  <2>4. QED BY <1>2, <2>1, <2>3 DEF TypeOK, HostTypes, ViewerTypes, TakeStoredClip, hostVars, viewerVars
<1>3. CASE WriteCutText(v)
  <2>1. NoText \in Strings /\ sender[v].text \in Strings
    BY DEF TypeOK, HostTypes, Strings
  <2>2. toViewer' \in [Viewers -> Seq(Strings)]
    BY <1>3, <2>1 DEF TypeOK, ViewerTypes, WriteCutText
  <2>3. sender' \in [Viewers -> [at : {"idle", "take", "write"}, text : Strings, last : Strings]]
    BY <1>3, <2>1 DEF TypeOK, HostTypes, WriteCutText
  <2>4. QED BY <1>3, <2>2, <2>3 DEF TypeOK, HostTypes, ViewerTypes, WriteCutText, hostVars, viewerVars
<1>4. QED BY <1>1, <1>2, <1>3 DEF Sender

LEMMA DispatcherTypes ==
  ASSUME TypeOK, NEW v \in Viewers, Dispatcher(v)
  PROVE TypeOK'
<1>1. CASE StoreReceived(v)
  BY <1>1 DEF TypeOK, HostTypes, ViewerTypes, StoreReceived, exchangeVars, viewerVars
<1>2. CASE SetNewClipboard(v)
  BY <1>2 DEF TypeOK, HostTypes, ViewerTypes, Clips, Strings, Resting, SetNewClipboard,
              exchangeVars, viewerVars
<1>3. QED BY <1>1, <1>2 DEF Dispatcher

LEMMA ViewerSideTypes ==
  ASSUME TypeOK, NEW v \in Viewers, Core(v) \/ DrawClipboard(v)
  PROVE TypeOK'
<1>1. CASE SetString(v)
  BY <1>1 DEF TypeOK, HostTypes, ViewerTypes, Clips, SetString, hostVars, exchangeVars
<1>2. CASE KeepWindowClip(v)
  BY <1>2 DEF TypeOK, HostTypes, ViewerTypes, Strings, Resting, KeepWindowClip, hostVars,
              exchangeVars
<1>3. CASE DrawClipboard(v)
  <2>1. NoText \in Strings /\ local[v].text \in Strings
    BY DEF TypeOK, ViewerTypes, Clips, Strings
  <2>2. toServer' \in [Viewers -> Seq(Strings)]
    BY <1>3, <2>1 DEF TypeOK, ViewerTypes, DrawClipboard
  <2>3. local' \in [Viewers -> Clips]
    <3>1. local \in [Viewers -> Clips] /\ local' = [local EXCEPT ![v].notice = FALSE]
      BY <1>3 DEF TypeOK, ViewerTypes, DrawClipboard
    <3>2. QED BY <3>1 DEF Clips
  <2>4. windowClip' \in [Viewers -> Strings]
    BY <1>3, <2>1 DEF TypeOK, ViewerTypes, DrawClipboard
  <2>5. QED BY <1>3, <2>2, <2>3, <2>4 DEF TypeOK, HostTypes, ViewerTypes, DrawClipboard, hostVars,
                                   exchangeVars
<1>4. QED BY <1>1, <1>2, <1>3 DEF Core

LEMMA StepTypes == TypeOK /\ [Next]_vars => TypeOK'
<1> SUFFICES ASSUME TypeOK, [Next]_vars
             PROVE TypeOK'
  OBVIOUS
<1>1. CASE UNCHANGED vars
  BY <1>1 DEF TypeOK, HostTypes, ViewerTypes, vars, hostVars, exchangeVars, viewerVars
<1>2. CASE Next
  BY <1>2, CopyTypes, ListenerTypes, SenderTypes, DispatcherTypes, ViewerSideTypes DEF Next
<1>3. QED BY <1>1, <1>2

(* The states of the two ends and of every thread between them stay in     *)
(* their types, see TypeOK.                                                *)
THEOREM ClipboardTypes == Spec => []TypeOK
<1>1. QED BY InitTypes, StepTypes, PTL DEF Spec

(* A step that leaves the exchange alone cannot make its thread forget a   *)
(* text.                                                                   *)
LEMMA ExchangeUnchanged ==
  ASSUME LastTextIsSent, UNCHANGED exchangeVars
  PROVE LastTextIsSent'
  BY DEF LastTextIsSent, exchangeVars

LEMMA LastTextStep == TypeOK /\ LastTextIsSent /\ [Next]_vars => LastTextIsSent'
<1> SUFFICES ASSUME TypeOK, LastTextIsSent, [Next]_vars
             PROVE LastTextIsSent'
  OBVIOUS
<1>1. CASE SendClipboard
  BY <1>1 DEF LastTextIsSent, TypeOK, HostTypes, SendClipboard
<1>2. ASSUME NEW v \in Viewers, SenderWakes(v)
      PROVE LastTextIsSent'
  BY <1>2 DEF LastTextIsSent, TypeOK, HostTypes, SenderWakes
<1>3. ASSUME NEW v \in Viewers, TakeStoredClip(v)
      PROVE LastTextIsSent'
  BY <1>3 DEF LastTextIsSent, TypeOK, HostTypes, TakeStoredClip
<1>4. ASSUME NEW v \in Viewers, WriteCutText(v)
      PROVE LastTextIsSent'
  BY <1>4 DEF LastTextIsSent, TypeOK, HostTypes, WriteCutText
<1>5. CASE UNCHANGED exchangeVars
  BY <1>5, ExchangeUnchanged
<1>6. CASE Next
  BY <1>1, <1>2, <1>3, <1>4, <1>5, <1>6
     DEF Next, Listener, Sender, Dispatcher, Core, CopyOnHost, CopyBesideViewer,
         HandleHostNotice, CompareReceived, ClearReceived, StoreReceived, SetNewClipboard,
         SetString, KeepWindowClip, DrawClipboard
<1>7. QED BY <1>5, <1>6 DEF vars

(* Whatever the threads' order, no text for a client is stored while its   *)
(* thread sleeps over it, and what was sent last is the text stored last.  *)
THEOREM LastTextSent == Spec => []LastTextIsSent
<1>1. Init => LastTextIsSent
  <2> SUFFICES ASSUME Init, NEW v \in Viewers
               PROVE ~exchange[v].new /\ sender[v].at = "idle"
                     /\ exchange[v].stored = sender[v].last
    BY DEF LastTextIsSent
  <2>1. exchange[v] = [stored |-> NoText, new |-> FALSE, event |-> FALSE]
    BY DEF Init
  <2>2. sender[v] = [at |-> "idle", text |-> NoText, last |-> NoText]
    BY DEF Init
  <2>3. QED BY <2>1, <2>2
<1>2. QED BY <1>1, InitTypes, StepTypes, LastTextStep, PTL DEF Spec

-----------------------------------------------------------------------------
Only(texts, text) == \A i \in 1..Len(texts) : texts[i] = text

(* Every text under way is the one copied last.                            *)
LastIsUnderWay(v) ==
  /\ dispatcher[v].at = "set" => dispatcher[v].text = copied.text
  /\ exchange[v].new => exchange[v].stored = copied.text
  /\ sender[v].at = "take" => exchange[v].new
  /\ sender[v].at = "write" => sender[v].text = copied.text
  /\ Only(toViewer[v], copied.text) /\ Only(toServer[v], copied.text)
  /\ local[v].notice => local[v].text = copied.text
  /\ core[v].at = "set" => core[v].text = copied.text /\ local[v].text = copied.text

(* What a window remembers is nothing or the text of its clipboard, unless *)
(* its memory is about to be replaced.                                     *)
WindowKnows(v) ==
  windowClip[v] \in {NoText, local[v].text} \/ core[v].at = "set" \/ local[v].notice

(* A text of the host is on its way to viewer v.                           *)
Forwarding(v) ==
  \/ host.notice \/ listener.at # "idle" \/ exchange[v].new
  \/ sender[v].at = "write" \/ toViewer[v] # <<>>

(* The text copied last, on the host, reaches every viewer, unless the     *)
(* host has it from one.                                                   *)
HostTells ==
  /\ host.text = copied.text
  /\ received \in {NoText, copied.text} \/ host.notice \/ listener.at \in {"compare", "clear"}
  /\ received = copied.text /\ copied.text # NoText =>
       \E u \in Viewers : local[u].text = copied.text
  /\ \A v \in Viewers :
       /\ toServer[v] # <<>> => local[v].text = copied.text
       /\ copied.text = NoText => local[v].text = NoText
       /\ \/ local[v].text = copied.text \/ Forwarding(v)
          \/ received = copied.text /\ copied.text # NoText

(* The text copied last, beside viewer w, is on its way to the host.       *)
Sending(w) ==
  \/ local[w].notice /\ windowClip[w] # copied.text
  \/ toServer[w] # <<>> \/ dispatcher[w].at = "set"

(* It reaches the host and goes no further.                                *)
ViewerTells(w) ==
  /\ local[w].text = copied.text
  /\ \A v \in Viewers :
       /\ ~exchange[v].new /\ sender[v].at # "write" /\ toViewer[v] = <<>> /\ core[v].at = "idle"
       /\ v # w => dispatcher[v].at = "idle" /\ toServer[v] = <<>> /\ ~local[v].notice
  /\ listener.at \in {"idle", "compare"}
  /\ host.notice \/ listener.at = "compare" \/ dispatcher[w].at = "set" =>
       received = copied.text
  /\ \/ Sending(w)
     \/ /\ received \in {NoText, host.text}
        /\ \A v \in Viewers : local[v].text = host.text \/ FromAnother(v)

IInv ==
  ~crossed =>
    /\ host.notice => host.text = copied.text
    /\ listener.at # "idle" => listener.text = copied.text
    /\ \A v \in Viewers : LastIsUnderWay(v) /\ WindowKnows(v)
    /\ IF copied.by = Host THEN HostTells ELSE ViewerTells(copied.by)

LEMMA OnlyAppended ==
  ASSUME NEW s \in Seq(Strings), NEW x \in Strings, Only(s, x)
  PROVE  Only(Append(s, x), x) /\ Append(s, x) # <<>>
<1>1. /\ Len(Append(s, x)) = Len(s) + 1 /\ Len(s) \in Nat
      /\ \A i \in 1..Len(s) : Append(s, x)[i] = s[i]
      /\ Append(s, x)[Len(s) + 1] = x
  OBVIOUS
<1>2. \A i \in 1..(Len(s) + 1) : i \in 1..Len(s) \/ i = Len(s) + 1
  BY <1>1
<1>3. Only(Append(s, x), x)
  BY <1>1, <1>2 DEF Only
<1> QED BY <1>1, <1>3

LEMMA OnlyHeadTail ==
  ASSUME NEW s \in Seq(Strings), NEW x \in Strings, Only(s, x), s # <<>>
  PROVE  Head(s) = x /\ Only(Tail(s), x)
BY DEF Only

LEMMA NothingIsOnly == \A x : Only(<<>>, x)
BY DEF Only

(* What IInv says of a quiet state.                                        *)
QuietAgreement ==
  /\ \/ received = NoText
     \/ received = host.text /\ \E u \in Viewers : local[u].text = host.text
  /\ (IF copied.by = Host THEN host ELSE local[copied.by]).text = copied.text
  /\ \A v \in Viewers :
       /\ local[v].text = host.text \/ FromAnother(v)
       /\ windowClip[v] \in {NoText, local[v].text}

LEMMA QuietMeansAgreement ==
  ASSUME TypeOK, IInv, Quiet, ~crossed
  PROVE  QuietAgreement
<1>1. \A v \in Viewers : windowClip[v] \in {NoText, local[v].text}
  BY DEF IInv, WindowKnows, Quiet
<1>2. CASE copied.by = Host
  <2>1. HostTells
    BY <1>2 DEF IInv
  <2>2. received \in {NoText, copied.text}
    BY <2>1 DEF HostTells, Quiet
  <2>3. ASSUME NEW v \in Viewers
        PROVE  local[v].text = host.text \/ FromAnother(v)
    BY <2>1, <2>3 DEF HostTells, Quiet, Forwarding, FromAnother
  <2> QED BY <1>1, <1>2, <2>1, <2>2, <2>3 DEF HostTells, QuietAgreement
<1>3. CASE copied.by # Host
  <2>1. copied.by \in Viewers /\ ViewerTells(copied.by)
    BY <1>3 DEF IInv, TypeOK, ViewerTypes
  <2>2. ~Sending(copied.by)
    BY <2>1 DEF Quiet, Sending
  <2>3. /\ received \in {NoText, host.text}
        /\ \A v \in Viewers : local[v].text = host.text \/ FromAnother(v)
        /\ local[copied.by].text = copied.text
    BY <2>1, <2>2 DEF ViewerTells
  <2>4. \E u \in Viewers : local[u].text = host.text
    BY <2>1, <2>3 DEF FromAnother
  <2> QED BY <1>1, <1>3, <2>3, <2>4 DEF QuietAgreement
<1> QED BY <1>2, <1>3

LEMMA InitAgrees == Init => IInv
<1> SUFFICES ASSUME Init
             PROVE  IInv
  OBVIOUS
<1>1. /\ host = [text |-> NoText, notice |-> FALSE] /\ listener.at = "idle"
      /\ copied.by = Host /\ copied.text = NoText /\ received = NoText
  BY DEF Init, Resting
<1>2. ASSUME NEW v \in Viewers
      PROVE  LastIsUnderWay(v) /\ WindowKnows(v) /\ toServer[v] = <<>>
             /\ local[v].text = NoText
  <2>1. /\ dispatcher[v].at = "idle" /\ core[v].at = "idle" /\ ~exchange[v].new
        /\ sender[v].at = "idle" /\ toViewer[v] = <<>> /\ toServer[v] = <<>>
        /\ local[v] = [text |-> NoText, notice |-> FALSE] /\ windowClip[v] = NoText
    BY DEF Init, Resting
  <2> QED BY <2>1, NothingIsOnly DEF LastIsUnderWay, WindowKnows
<1>3. HostTells
  BY <1>1, <1>2 DEF HostTells
<1> QED BY <1>1, <1>2, <1>3 DEF IInv

(* The users.                                                              *)
LEMMA HostCopyAgrees ==
  ASSUME TypeOK, IInv, CopyOnHost
  PROVE  IInv'
<1> SUFFICES ASSUME ~crossed'
             PROVE  IInv'
  BY DEF IInv
<1>1. PICK text \in Texts : /\ Copied(text, Host)
                            /\ host' = [text |-> text, notice |-> TRUE]
  BY DEF CopyOnHost
<1>2. ~crossed /\ Quiet /\ copied'.text = text /\ copied'.by = Host /\ text # NoText
  BY <1>1 DEF Copied
<1>3. QuietAgreement
  BY <1>2, QuietMeansAgreement
<1>4. UNCHANGED <<received, listener, dispatcher, exchangeVars, toViewer, toServer, viewerVars>>
  BY DEF CopyOnHost
<1>5. ASSUME NEW v \in Viewers
      PROVE  LastIsUnderWay(v)' /\ WindowKnows(v)' /\ toServer'[v] = <<>>
  <2>1. toViewer[v] = <<>> /\ toServer[v] = <<>>
    BY <1>2 DEF Quiet
  <2>2. WindowKnows(v)'
    BY <1>3, <1>4 DEF QuietAgreement, WindowKnows, viewerVars
  <2>3. LastIsUnderWay(v)'
    BY <1>2, <1>4, <2>1, NothingIsOnly
       DEF LastIsUnderWay, Quiet, exchangeVars, viewerVars
  <2> QED BY <1>4, <2>1, <2>2, <2>3
<1>6. received' = copied'.text => \E u \in Viewers : local'[u].text = copied'.text
  BY <1>2, <1>3, <1>4 DEF QuietAgreement, viewerVars
<1>7. HostTells'
  BY <1>1, <1>2, <1>5, <1>6 DEF HostTells, Forwarding
<1> QED BY <1>1, <1>2, <1>4, <1>5, <1>7 DEF IInv, Quiet

LEMMA ViewerCopyAgrees ==
  ASSUME TypeOK, IInv, NEW w \in Viewers, CopyBesideViewer(w)
  PROVE  IInv'
<1> SUFFICES ASSUME ~crossed'
             PROVE  IInv'
  BY DEF IInv
<1>1. PICK text \in Texts : /\ Copied(text, w)
                            /\ local' = [local EXCEPT ![w] = [text |-> text, notice |-> TRUE]]
  BY DEF CopyBesideViewer
<1>2. ~crossed /\ Quiet /\ copied'.text = text /\ copied'.by = w /\ text # NoText
  BY <1>1 DEF Copied
<1>3. QuietAgreement
  BY <1>2, QuietMeansAgreement
<1>4. UNCHANGED <<hostVars, dispatcher, exchangeVars, toViewer, toServer, core, windowClip>>
  BY DEF CopyBesideViewer
<1>5. /\ local'[w] = [text |-> text, notice |-> TRUE]
      /\ \A v \in Viewers \ {w} : local'[v] = local[v]
  BY <1>1 DEF TypeOK, ViewerTypes
<1>6. ASSUME NEW v \in Viewers
      PROVE  LastIsUnderWay(v)' /\ WindowKnows(v)'
  <2>1. toViewer[v] = <<>> /\ toServer[v] = <<>>
    BY <1>2 DEF Quiet
  <2>2. WindowKnows(v)'
    BY <1>3, <1>4, <1>5 DEF QuietAgreement, WindowKnows
  <2>3. LastIsUnderWay(v)'
    BY <1>2, <1>4, <1>5, <2>1, NothingIsOnly DEF LastIsUnderWay, Quiet, exchangeVars
  <2> QED BY <2>2, <2>3
<1>7. /\ host' = host /\ received' = received /\ ~host.notice /\ listener'.at = "idle"
      /\ dispatcher'[w].at = "idle"
  BY <1>2, <1>4 DEF Quiet, hostVars
<1>8. Sending(w)' \/ /\ received' \in {NoText, host'.text}
                      /\ \A v \in Viewers : local'[v].text = host'.text \/ FromAnother(v)'
  <2>1. CASE windowClip[w] = text
    <3>1. local[w].text = text
      BY <1>2, <1>3, <2>1 DEF QuietAgreement
    <3>2. \A v \in Viewers : local'[v].text = local[v].text
      BY <1>5, <3>1
    <3>3. \A v \in Viewers : local'[v].text = host'.text \/ FromAnother(v)'
      BY <1>3, <1>7, <3>2 DEF QuietAgreement, FromAnother
    <3> QED BY <1>3, <1>7, <3>3 DEF QuietAgreement
  <2>2. CASE windowClip[w] # text
    BY <1>2, <1>4, <1>5, <2>2 DEF Sending
  <2> QED BY <2>1, <2>2
<1>9. ViewerTells(w)'
  BY <1>2, <1>4, <1>5, <1>7, <1>8 DEF ViewerTells, Quiet, exchangeVars
<1> QED BY <1>2, <1>6, <1>7, <1>9, HostIsNoViewer DEF IInv

(* The parts of IInv for the other steps.                                  *)
Parts ==
  /\ host.notice => host.text = copied.text
  /\ listener.at # "idle" => listener.text = copied.text
  /\ \A v \in Viewers : LastIsUnderWay(v) /\ WindowKnows(v)

LEMMA StepAgrees ==
  ASSUME TypeOK, IInv, UNCHANGED <<copied, crossed>>,
         Parts => Parts',
         Parts /\ HostTells => HostTells',
         \A w \in Viewers : Parts /\ ViewerTells(w) => ViewerTells(w)'
  PROVE  IInv'
<1>1. copied.by = Host \/ copied.by \in Viewers
  BY DEF TypeOK, ViewerTypes
<1>2. SUFFICES ASSUME ~crossed
               PROVE  IInv'
  BY DEF IInv
<1>3. Parts /\ Parts'
  BY <1>2 DEF IInv, Parts
<1>4. CASE copied.by = Host
  BY <1>2, <1>3, <1>4 DEF IInv, Parts
<1>5. CASE copied.by \in Viewers
  BY <1>2, <1>3, <1>5, HostIsNoViewer DEF IInv, Parts
<1> QED BY <1>1, <1>4, <1>5

(* The host's listener: a text of a viewer it has just received ends here. *)
LEMMA ListenerAgrees ==
  ASSUME TypeOK, IInv, Listener
  PROVE  IInv'
<1>1. CASE HandleHostNotice
  <2>1. /\ host'.text = host.text /\ ~host'.notice
        /\ listener' = [at |-> "compare", text |-> host.text] /\ host.notice
        /\ UNCHANGED <<received, dispatcher, exchange, sender, toViewer, toServer, local, core,
                       windowClip, copied, crossed>>
    BY <1>1 DEF HandleHostNotice, exchangeVars, viewerVars, TypeOK, HostTypes, Clips
  <2>2. Parts => Parts'
    BY <2>1 DEF Parts, LastIsUnderWay, WindowKnows
  <2>3. HostTells => HostTells'
    BY <2>1 DEF HostTells, Forwarding
  <2>4. ASSUME NEW w \in Viewers, ViewerTells(w)
        PROVE  ViewerTells(w)'
    BY <2>1, <2>4 DEF ViewerTells, Sending, FromAnother
  <2> QED BY <2>1, <2>2, <2>3, <2>4, StepAgrees
<1>2. CASE CompareReceived
  <2>1. /\ listener.at = "compare"
        /\ \/ listener.text = received /\ listener'.at = "idle"
           \/ listener.text # received /\ listener' = [listener EXCEPT !.at = "clear"]
        /\ UNCHANGED <<host, received, dispatcher, exchange, sender, toViewer, toServer, local,
                       core, windowClip, copied, crossed>>
    BY <1>2 DEF CompareReceived, Resting, exchangeVars, viewerVars
  <2>2. \/ listener.text = received /\ listener'.at = "idle"
        \/ /\ listener.text # received
           /\ listener'.at = "clear" /\ listener'.text = listener.text
    BY <2>1 DEF TypeOK, HostTypes
  <2>3. Parts => Parts'
    BY <2>1, <2>2 DEF Parts, LastIsUnderWay, WindowKnows
  <2>4. Parts /\ HostTells => HostTells'
    BY <2>1, <2>2 DEF Parts, HostTells, Forwarding
  <2>5. ASSUME NEW w \in Viewers, Parts, ViewerTells(w)
        PROVE  ViewerTells(w)'
    BY <2>1, <2>2, <2>5 DEF Parts, ViewerTells, Sending, FromAnother
  <2> QED BY <2>1, <2>3, <2>4, <2>5, StepAgrees
<1>3. CASE ClearReceived
  <2>1. /\ listener.at = "clear" /\ listener'.at = "forward" /\ listener'.text = listener.text
        /\ received' = NoText
        /\ UNCHANGED <<host, dispatcher, exchange, sender, toViewer, toServer, local, core,
                       windowClip, copied, crossed>>
    BY <1>3 DEF ClearReceived, exchangeVars, viewerVars, TypeOK, HostTypes
  <2>2. Parts => Parts'
    BY <2>1 DEF Parts, LastIsUnderWay, WindowKnows
  <2>3. HostTells => HostTells'
    BY <2>1 DEF HostTells, Forwarding
  <2>4. \A w \in Viewers : ~ViewerTells(w)
    BY <2>1 DEF ViewerTells
  <2> QED BY <2>1, <2>2, <2>3, <2>4, StepAgrees
<1>4. CASE SendClipboard
  <2>1. /\ listener.at = "forward" /\ listener'.at = "idle"
        /\ exchange' = [v \in Viewers |->
                          [stored |-> listener.text, new |-> TRUE, event |-> TRUE]]
        /\ UNCHANGED <<host, received, dispatcher, sender, toViewer, toServer, local, core,
                       windowClip, copied, crossed>>
    BY <1>4 DEF SendClipboard, Resting, viewerVars
  <2>2. \A v \in Viewers : exchange'[v].new /\ exchange'[v].stored = listener.text
    BY <2>1
  <2>3. Parts => Parts'
    BY <2>1, <2>2 DEF Parts, LastIsUnderWay, WindowKnows
  <2>4. HostTells => HostTells'
    BY <2>1, <2>2 DEF HostTells, Forwarding
  <2>5. \A w \in Viewers : ~ViewerTells(w)
    BY <2>1 DEF ViewerTells
  <2> QED BY <2>1, <2>3, <2>4, <2>5, StepAgrees
<1> QED BY <1>1, <1>2, <1>3, <1>4 DEF Listener

(* The exchange's thread: the text it takes or writes is the last one.     *)
LEMMA SenderAgrees ==
  ASSUME TypeOK, IInv, NEW v \in Viewers, Sender(v)
  PROVE  IInv'
<1>1. CASE SenderWakes(v)
  <2>1. /\ \A u \in Viewers : /\ exchange'[u].new = exchange[u].new
                              /\ exchange'[u].stored = exchange[u].stored
                              /\ \/ sender'[u] = sender[u]
                                 \/ /\ sender[u].at = "idle"
                                    /\ \/ sender'[u].at = "idle"
                                       \/ sender'[u].at = "take" /\ exchange[u].new
        /\ UNCHANGED <<host, received, listener, dispatcher, toViewer, toServer, local, core,
                       windowClip, copied, crossed>>
    <3>1. \A u \in Viewers : /\ exchange'[u].new = exchange[u].new
                             /\ exchange'[u].stored = exchange[u].stored
      BY <1>1 DEF SenderWakes, TypeOK, HostTypes
    <3>2. \A u \in Viewers \ {v} : sender'[u] = sender[u]
      BY <1>1 DEF SenderWakes, TypeOK, HostTypes
    <3>3. /\ sender[v].at = "idle"
          /\ sender'[v].at = IF exchange[v].new THEN "take" ELSE "idle"
      BY <1>1 DEF SenderWakes, TypeOK, HostTypes
    <3> QED BY <1>1, <3>1, <3>2, <3>3 DEF SenderWakes, hostVars, viewerVars
  <2>2. Parts => Parts'
    BY <2>1 DEF Parts, LastIsUnderWay, WindowKnows
  <2>3. Parts /\ HostTells => HostTells'
    BY <2>1 DEF Parts, HostTells, Forwarding
  <2>4. ASSUME NEW w \in Viewers, ViewerTells(w)
        PROVE  ViewerTells(w)'
    BY <2>1, <2>4 DEF ViewerTells, Sending, FromAnother
  <2> QED BY <2>1, <2>2, <2>3, <2>4, StepAgrees
<1>2. CASE TakeStoredClip(v)
  <2>1. /\ sender[v].at = "take"
        /\ sender'[v].at = "write" /\ sender'[v].text = exchange[v].stored
        /\ ~exchange'[v].new
        /\ \A u \in Viewers \ {v} : exchange'[u] = exchange[u] /\ sender'[u] = sender[u]
        /\ UNCHANGED <<host, received, listener, dispatcher, toViewer, toServer, local, core,
                       windowClip, copied, crossed>>
    BY <1>2 DEF TakeStoredClip, hostVars, viewerVars, TypeOK, HostTypes
  <2>2. Parts => Parts'
    BY <2>1 DEF Parts, LastIsUnderWay, WindowKnows
  <2>3. Parts /\ HostTells => HostTells'
    BY <2>1 DEF Parts, HostTells, Forwarding
  <2>4. Parts => \A w \in Viewers : ~ViewerTells(w)
    BY <2>1 DEF Parts, LastIsUnderWay, ViewerTells
  <2> QED BY <2>1, <2>2, <2>3, <2>4, StepAgrees
<1>3. CASE WriteCutText(v)
  <2>1. /\ sender[v].at = "write" /\ sender'[v].at = "idle"
        /\ toViewer'[v] = Append(toViewer[v], sender[v].text)
        /\ \A u \in Viewers \ {v} : toViewer'[u] = toViewer[u] /\ sender'[u] = sender[u]
        /\ UNCHANGED <<host, received, listener, dispatcher, exchange, toServer, local, core,
                       windowClip, copied, crossed>>
    BY <1>3 DEF WriteCutText, hostVars, viewerVars, TypeOK, HostTypes, ViewerTypes
  <2>2. /\ toViewer[v] \in Seq(Strings) /\ sender[v].text \in Strings
    BY DEF TypeOK, HostTypes, ViewerTypes
  <2>3. toViewer'[v] # <<>>
    BY <2>1, <2>2
  <2>4. ASSUME Parts
        PROVE  Only(toViewer'[v], copied.text)
    <3>1. sender[v].text = copied.text /\ Only(toViewer[v], copied.text)
      BY <2>1, <2>4 DEF Parts, LastIsUnderWay
    <3> QED BY <2>1, <2>2, <3>1, OnlyAppended
  <2>5. Parts => Parts'
    BY <2>1, <2>4 DEF Parts, LastIsUnderWay, WindowKnows
  <2>6. HostTells => HostTells'
    BY <2>1, <2>3 DEF HostTells, Forwarding
  <2>7. \A w \in Viewers : ~ViewerTells(w)
    BY <2>1 DEF ViewerTells
  <2> QED BY <2>1, <2>5, <2>6, <2>7, StepAgrees
<1> QED BY <1>1, <1>2, <1>3 DEF Sender

(* The host takes what a viewer sends: the viewer shows it already.        *)
LEMMA DispatcherAgrees ==
  ASSUME TypeOK, IInv, NEW v \in Viewers, Dispatcher(v)
  PROVE  IInv'
<1>1. CASE StoreReceived(v)
  <2>1. /\ dispatcher[v].at = "idle" /\ toServer[v] # <<>>
        /\ received' = Head(toServer[v]) /\ toServer'[v] = Tail(toServer[v])
        /\ dispatcher'[v].at = "set" /\ dispatcher'[v].text = Head(toServer[v])
        /\ \A u \in Viewers \ {v} : dispatcher'[u] = dispatcher[u] /\ toServer'[u] = toServer[u]
        /\ UNCHANGED <<host, listener, exchange, sender, toViewer, local, core, windowClip,
                       copied, crossed>>
    BY <1>1 DEF StoreReceived, exchangeVars, viewerVars, TypeOK, HostTypes, ViewerTypes
  <2>2. toServer[v] \in Seq(Strings) /\ copied.text \in Strings
    BY DEF TypeOK, ViewerTypes
  <2>3. ASSUME Parts
        PROVE  Head(toServer[v]) = copied.text /\ Only(Tail(toServer[v]), copied.text)
    <3>1. Only(toServer[v], copied.text)
      BY <2>3 DEF Parts, LastIsUnderWay
    <3> QED BY <2>1, <2>2, <3>1, OnlyHeadTail
  <2>4. Parts => Parts'
    BY <2>1, <2>3 DEF Parts, LastIsUnderWay, WindowKnows
  <2>5. ASSUME Parts, HostTells
        PROVE  HostTells'
    <3>1. local[v].text = copied.text /\ received' = copied.text
      BY <2>1, <2>3, <2>5 DEF HostTells
    <3> QED BY <2>1, <2>5, <3>1 DEF HostTells, Forwarding
  <2>6. ASSUME NEW w \in Viewers, Parts, ViewerTells(w)
        PROVE  ViewerTells(w)'
    <3>1. v = w /\ received' = copied.text
      BY <2>1, <2>3, <2>6 DEF ViewerTells
    <3> QED BY <2>1, <2>6, <3>1 DEF ViewerTells, Sending
  <2> QED BY <2>1, <2>4, <2>5, <2>6, StepAgrees
<1>2. CASE SetNewClipboard(v)
  <2>1. /\ dispatcher[v].at = "set" /\ dispatcher'[v].at = "idle"
        /\ host' = [text |-> dispatcher[v].text, notice |-> TRUE]
        /\ \A u \in Viewers \ {v} : dispatcher'[u] = dispatcher[u]
        /\ UNCHANGED <<received, listener, exchange, sender, toViewer, toServer, local, core,
                       windowClip, copied, crossed>>
    BY <1>2 DEF SetNewClipboard, Resting, exchangeVars, viewerVars, TypeOK, HostTypes
  <2>2. Parts => dispatcher[v].text = copied.text
    BY <2>1 DEF Parts, LastIsUnderWay
  <2>3. Parts => Parts'
    BY <2>1, <2>2 DEF Parts, LastIsUnderWay, WindowKnows
  <2>4. Parts /\ HostTells => HostTells'
    BY <2>1, <2>2 DEF HostTells, Forwarding
  <2>5. ASSUME NEW w \in Viewers, Parts, ViewerTells(w)
        PROVE  ViewerTells(w)'
    <3>1. v = w /\ received = copied.text /\ local[w].text = copied.text
      BY <2>1, <2>5 DEF ViewerTells
    <3>2. host'.text = copied.text
      BY <2>1, <2>2, <2>5
    <3>3. \A u \in Viewers : local'[u].text = host'.text \/ FromAnother(u)'
      BY <2>1, <3>1, <3>2 DEF FromAnother
    <3> QED BY <2>1, <2>5, <3>1, <3>2, <3>3 DEF ViewerTells
  <2> QED BY <2>1, <2>3, <2>4, <2>5, StepAgrees
<1> QED BY <1>1, <1>2 DEF Dispatcher

(* The viewer takes what the host sends, shows it, and remembers it.       *)
LEMMA CoreAgrees ==
  ASSUME TypeOK, IInv, NEW v \in Viewers, Core(v)
  PROVE  IInv'
<1>1. CASE SetString(v)
  <2>1. /\ core[v].at = "idle" /\ toViewer[v] # <<>> /\ toViewer'[v] = Tail(toViewer[v])
        /\ local'[v] = [text |-> Head(toViewer[v]), notice |-> TRUE]
        /\ core'[v] = [at |-> "set", text |-> Head(toViewer[v])]
        /\ \A u \in Viewers \ {v} : /\ toViewer'[u] = toViewer[u]
                                    /\ local'[u] = local[u] /\ core'[u] = core[u]
        /\ UNCHANGED <<host, received, listener, dispatcher, exchange, sender, toServer,
                       windowClip, copied, crossed>>
    BY <1>1 DEF SetString, hostVars, exchangeVars, TypeOK, ViewerTypes
  <2>2. toViewer[v] \in Seq(Strings) /\ copied.text \in Strings
    BY DEF TypeOK, ViewerTypes
  <2>3. ASSUME Parts
        PROVE  Head(toViewer[v]) = copied.text /\ Only(Tail(toViewer[v]), copied.text)
    <3>1. Only(toViewer[v], copied.text)
      BY <2>3 DEF Parts, LastIsUnderWay
    <3> QED BY <2>1, <2>2, <3>1, OnlyHeadTail
  <2>4. Parts => Parts'
    BY <2>1, <2>3 DEF Parts, LastIsUnderWay, WindowKnows
  <2>5. ASSUME Parts, HostTells
        PROVE  HostTells'
    <3>1. local'[v].text = copied.text
      BY <2>1, <2>3, <2>5
    <3>2. \A u \in Viewers : local[u].text = copied.text => local'[u].text = copied.text
      BY <2>1, <3>1
    <3>3. \A u \in Viewers : u # v => (Forwarding(u) => Forwarding(u)')
      BY <2>1 DEF Forwarding
    <3> QED BY <2>1, <2>5, <3>1, <3>2, <3>3 DEF HostTells
  <2>6. \A w \in Viewers : ~ViewerTells(w)
    BY <2>1 DEF ViewerTells
  <2> QED BY <2>1, <2>4, <2>5, <2>6, StepAgrees
<1>2. CASE KeepWindowClip(v)
  <2>1. /\ core[v].at = "set" /\ core'[v].at = "idle" /\ windowClip'[v] = core[v].text
        /\ \A u \in Viewers \ {v} : core'[u] = core[u] /\ windowClip'[u] = windowClip[u]
        /\ UNCHANGED <<host, received, listener, dispatcher, exchange, sender, toViewer,
                       toServer, local, copied, crossed>>
    BY <1>2 DEF KeepWindowClip, Resting, hostVars, exchangeVars, TypeOK, ViewerTypes
  <2>2. Parts => Parts'
    BY <2>1 DEF Parts, LastIsUnderWay, WindowKnows
  <2>3. HostTells => HostTells'
    BY <2>1 DEF HostTells, Forwarding
  <2>4. \A w \in Viewers : ~ViewerTells(w)
    BY <2>1 DEF ViewerTells
  <2> QED BY <2>1, <2>2, <2>3, <2>4, StepAgrees
<1> QED BY <1>1, <1>2 DEF Core

(* The window sends what it does not remember; its memory ends with that.  *)
LEMMA WindowAgrees ==
  ASSUME TypeOK, IInv, NEW v \in Viewers, DrawClipboard(v)
  PROVE  IInv'
<1>1. /\ local[v].notice /\ local'[v].text = local[v].text /\ ~local'[v].notice
      /\ windowClip'[v] = NoText
      /\ \A u \in Viewers \ {v} : local'[u] = local[u] /\ windowClip'[u] = windowClip[u]
      /\ UNCHANGED <<host, received, listener, dispatcher, exchange, sender, toViewer, core,
                     copied, crossed>>
  BY DEF DrawClipboard, hostVars, exchangeVars, TypeOK, ViewerTypes, Clips
<1>2. /\ \A u \in Viewers \ {v} : toServer'[u] = toServer[u]
      /\ \/ local[v].text = windowClip[v] /\ toServer'[v] = toServer[v]
         \/ local[v].text # windowClip[v] /\ toServer'[v] = Append(toServer[v], local[v].text)
  BY DEF DrawClipboard, TypeOK, ViewerTypes
<1>3. toServer[v] \in Seq(Strings) /\ local[v].text \in Strings
  BY DEF TypeOK, ViewerTypes, Clips
<1>4. toServer'[v] = toServer[v] \/ toServer'[v] # <<>>
  BY <1>2, <1>3
<1>5. ASSUME Parts
      PROVE  Only(toServer'[v], copied.text) /\ local[v].text = copied.text
  <2>1. Only(toServer[v], copied.text) /\ local[v].text = copied.text
    BY <1>1, <1>5 DEF Parts, LastIsUnderWay
  <2> QED BY <1>2, <1>3, <2>1, OnlyAppended
<1>6. \A u \in Viewers : local'[u].text = local[u].text
  BY <1>1
<1>7. Parts => Parts'
  BY <1>1, <1>2, <1>5, <1>6 DEF Parts, LastIsUnderWay, WindowKnows
<1>8. Parts /\ HostTells => HostTells'
  <2>1. \A u \in Viewers : Forwarding(u)' <=> Forwarding(u)
    BY <1>1 DEF Forwarding
  <2> QED BY <1>1, <1>2, <1>5, <1>6, <2>1 DEF HostTells
<1>9. ASSUME NEW w \in Viewers, Parts, ViewerTells(w)
      PROVE  ViewerTells(w)'
  <2>1. v = w
    BY <1>1, <1>9 DEF ViewerTells
  <2>2. Sending(w) => Sending(w)'
    <3>1. CASE windowClip[w] # copied.text
      <4>1. toServer'[w] # <<>>
        BY <1>2, <1>3, <1>5, <1>9, <2>1, <3>1, OnlyAppended
      <4> QED BY <4>1 DEF Sending
    <3>2. CASE windowClip[w] = copied.text
      BY <1>1, <1>4, <2>1, <3>2 DEF Sending
    <3> QED BY <3>1, <3>2
  <2>3. (\A u \in Viewers : local[u].text = host.text \/ FromAnother(u))
          => \A u \in Viewers : local'[u].text = host'.text \/ FromAnother(u)'
    BY <1>1, <1>6 DEF FromAnother
  <2> QED BY <1>1, <1>2, <1>6, <1>9, <2>1, <2>2, <2>3 DEF ViewerTells
<1> QED BY <1>1, <1>7, <1>8, <1>9, StepAgrees

LEMMA StepKeepsAgreement == TypeOK /\ IInv /\ [Next]_vars => IInv'
<1> SUFFICES ASSUME TypeOK, IInv, [Next]_vars
             PROVE  IInv'
  OBVIOUS
<1>1. CASE UNCHANGED vars
  BY <1>1 DEF vars, hostVars, exchangeVars, viewerVars, IInv, LastIsUnderWay, WindowKnows,
              HostTells, Forwarding, ViewerTells, Sending, FromAnother
<1>2. CASE Next
  BY <1>2, HostCopyAgrees, ViewerCopyAgrees, ListenerAgrees, SenderAgrees, DispatcherAgrees,
     CoreAgrees, WindowAgrees DEF Next
<1> QED BY <1>1, <1>2

(* When all is quiet and texts were copied one at a time, the text copied  *)
(* last is still where it was copied, and every viewer has the host's text *)
(* unless another viewer sent it, whatever the order in which the threads  *)
(* set a clipboard, remember the text and handle the notice.               *)
THEOREM QuietAgreementHolds == Spec => []QuietClipboardsAgree
<1>1. TypeOK /\ IInv => QuietClipboardsAgree
  BY QuietMeansAgreement DEF QuietClipboardsAgree, QuietAgreement
<1> QED BY <1>1, InitTypes, StepTypes, InitAgrees, StepKeepsAgreement, PTL DEF Spec
=============================================================================
