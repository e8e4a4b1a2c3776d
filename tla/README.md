# Verification of remoting

`remoting` is a remote-desktop server and viewer that speaks RFB (VNC). This
directory holds TLA+ modules of its core, TLC configurations that check them on
small instances, and proofs that TLAPS checks for every value of their
constants. Paths are relative to the repository (`src/` is its root);
`remoting_rfb` is the library all of it is about, `rfb_node_desktop` the server
that uses it. `PROJECT.json` lists components, runs, mutants (the mutated
definition each property is known to detect), the source lines of every
definition, findings, hazards and theorems.

## 1. Inventory

| Part | State | Operations | Talks to | What is hard |
|---|---|---|---|---|
| `UpdateKeeper`, `UpdateContainer` (`remoting_rfb/desktop`) | changed, copied and video regions, copy source, flags of size, cursor position and shape; a border rectangle | `addChangedRegion`, `addCopyRect`, `dazzleChangedReg`, `addUpdateContainer`, `checkForUpdates`, `extract` | one in the update handler, one in every sender | cropping that must not lose pixels; copies over pending changes; flags that survive `extract` |
| `UpdateHandlerImpl`, `UpdateFilter` | backup frame buffer, full region, absolute rectangle | `extract`, `setFullUpdateRequested`, `onUpdate`, `updateExternalFramebuffer` | detectors, screen driver, the desktop's loop | a failed grab; copies replayed in the backup; resizing |
| `Poller` and other detectors | none but their thread | compare the screen with the backup, report | the handler's keeper | races with `extract` on the backup |
| `DesktopBaseImpl`, `DesktopWinImpl` | `m_regionFullReq`, an auto-reset event, last clipboard | `sendUpdate`, `onUpdate`, `onUpdateRequest`, clipboard, input | handler, `RfbClientManager` | wake-ups used up when nobody is ready; a field read without its lock |
| `UpdateSender` (`framebuffer_update_sender`) | requested regions and two flags, `m_busy`, an auto-reset event, keeper, own frame buffer, view port | `newUpdates` (desktop's thread), `readUpdateRequest` (reader's thread), `sendUpdate` (own thread) | desktop, client | three threads and four locks; restoring an unanswered request; declined copies; stale reads |
| `RfbClientManager` (`rfb_node_desktop`) | two client lists, the desktop, ban list, an event | `addNewConnection`, `onClientAuth`, `validateClientList`, loops over clients, disconnects, destructor | clients, desktop, server | one lock given up in the middle; deletion of the desktop; shutdown |
| `RfbClient`, `RfbDispatcher` (`rfb_sconn`) | client state, modules, closing event; reader thread | the thread's life: authenticate, join, serve, leave | manager, desktop, modules | modules used by three threads and deleted by one |
| `RfbInitializer`, `AuthTracker` | handshake phase | authentication | client | order of messages |
| `ClipboardExchange`, the clipboards of `DesktopBaseImpl` and `DesktopWindow` | one stored text and a flag; on each side the text received last | to and from the client | desktop, viewer | unlocked flag; a text must not be sent back to where it came from |
| `CursorUpdates`, `ViewPort` | cursor position and shape flags; view port state | used by `sendUpdate` | sender | flags read twice in one send |
| viewer (`viewer_core`: `RemoteViewerCore`, `FbUpdateNotifier`, `UpdateRequestSender`, `CursorPainter`) | frame buffer, flags of requests, refreshing, freezing, a new pixel format; the notifier's region; the pointer | request, read, notify, show; format, pause, refresh, defer, pointer | server, adapter | three threads that may ask; a frame buffer whose size and format change under updates on their way; a flag polled on a timer |
| `desktop_ipc` with `DesktopServerWatcher`, `DesktopClientImpl` | server process, channel and old channel, the frame buffers and buttons of both sides | start, `onReconnect`, `replaceChannel`, `getChannel`, `waitForReconnect`, `extract`, `setMouseEvent`, dispatch | desktop, clients' threads, server process | a process that ends at any step; one mark for two users; half-read answers; timeouts |
| file transfer, configuration, control server, log libraries, encoders, platform layers, viewer applications | | | | sequential or I/O |

`remoting_rdx` and `remoting_rtc` are near-identical copies of `remoting_rfb`.

The properties that make the parts correct:

* *updates*: no pixel that changed on the screen is forgotten between the
  backup frame buffer and the viewer; a copy instruction names pixels the
  viewer already shows; the sender's own frame buffer is stale only where an
  update is pending; requests keep their flags; nobody sleeps on a pending
  update; a viewer ends up showing a screen that rests;
* *sessions*: a client is in exactly one list until it is ready to be removed;
  the desktop calls only clients whose modules exist, exists as long as
  they point to it, and is deleted once; an exclusive client is alone; a client that was closed
  leaves; the manager's destructor ends, and ends last;
* *desktop server*: a replacement deletes no pipe in use; no message is cut in
  two between two processes; the frame buffers of the service and of whichever
  process it talks to agree, and so do the buttons; a change is not lost with
  the process that saw it;
* *viewer*: one request at a time, and always a next one; an update fits the
  frame buffer it is read into; what the frame buffer or the window shows
  wrongly is on its way; the window ends with what the screen shows;
* *clipboard*: the text stored last is sent; a text copied alone ends in both
  clipboards, and the exchange comes to rest.

## 2. Modules

```
UpdateKeeper ── UpdateCropping ─┬─ UpdateSender ── MCUpdateSender      UpdateSender_proof
      │                         └─ UpdateDelivery ─ MCUpdateDelivery   UpdateDelivery_proof
      │                                 │ implements
      │                           UpdateChannel
 UpdateKeeper_proof (lemmas on the operators, used by both)
ClientSessions ─── MCClientSessions                                    ClientSessions_proof
DesktopReconnect ─ MCDesktopReconnect                                  DesktopReconnect_proof
ViewerCore ─────── MCViewerCore                                        ViewerCore_proof
Clipboard ──────── MCClipboard                                         Clipboard_proof
```

**UpdateKeeper** holds the operators of `UpdateContainer` and `UpdateKeeper`: a
container is a record of regions and flags, a keeper a container and a border.
Regions are sets of pixels, and the screen is one row of pixels: the code treats
rows and columns by the same statements. A copy is the target's pixels and the
offset to its source (`delta`). `Emptied` keeps the flags of a keeper that was
extracted, because the move that `extract` relies on keeps them and the
`clear()` after it is commented out. The cursor flags are one, since every
container raises both.

**UpdateCropping** holds what `UpdateSender::sendUpdate` does to a container before
it sends it: dropping copies for a client that cannot copy, adding the fully
requested region, declining copies whose source is not requested
(`Inscribed`), cropping to the requested region (`ToSend`) and putting the rest
back (`GoesBack`), with the order of these statements; and what the viewer then
shows (`Painted`).

**UpdateSender** is one client with each handler as one step: an update of the
desktop (`DesktopUpdate`: the filter's comparison with the backup, the replay of
a moved window, the hand-over to the keeper), a change of the screen's
properties (`ScreenChange`) and `sendUpdate` for any requested regions and any
position of the view port (`SendUpdate`, with the branches for a moved view port,
a new size and a client that cannot resize).

**UpdateDelivery** is the same path with its threads, for several clients: the
poller, the desktop's loop, each client's reader and sender. A step is what a
thread does under one lock. The events `m_happeningNewUpdate` and
`m_newUpdatesEvent` are flags that the waiting thread resets. `out`, `todo`,
`current` are the locals of `sendUpdate` and of its loops over the clients;
`sender[c].taken` and `.box` are those of the sender. `awaiting` says what the
viewer waits for and is the viewer's own. Every client sees the whole screen at
the origin and has had its first answer; the cursor rests.

**UpdateChannel** is what such a path promises, without threads, locks, events,
regions or messages: a picture is painted from a copy, the copy is taken from
the source, and a viewer is owed the points where either may be behind. Its
actions are `Change`, `Fetch` and `Paint`. `UpdateDelivery` implements it
(`ImplementsChannel`): the source is the desktop's backup, the copy the
sender's frame buffer, and owed are the points on the way to a client
(`OnTheWay`: in the keepers or with one of the threads). Detecting, merging,
requesting, restoring and failing are stutters or a `Change` that owes more.

**ClientSessions** is `RfbClientManager` and the life of `RfbClient`. What the code
does in one stretch under `m_clientListLocker` is one step. Only the loops that
call into the clients keep the lock from step to step (`lock`, `loop`), because the
client's own thread changes its state meanwhile without it. `thread[c]` is the
place of the client's thread; `validating`, `destroying`, `notifying` and
`signalling` are the four parts of `validateClientList`, which is entered for
`IN_PENDING_TO_REMOVE` and again for `IN_READY_TO_REMOVE`. A desktop bears the name
of the client that created it. The thread of a desktop is joined by the deletion
of the desktop; this is the library's `Thread`, which is not in the repository,
and is modelled as: a desktop is not deleted while its thread is inside a loop.
The stop and wait calls of the dispatcher are commented out and it is not
joined before the modules are deleted.

**DesktopReconnect** is the service with the process that reads the screen for
it. `Draw` is the screen, `Poll`, `ExtractReply` and `ApplyNewPointerPos` are the process,
`Die` its end at any step, which may cut off the answer it was writing.
`DesktopServerWatcher` starts the next one (`Start`), runs `onReconnect`
(`SendInitFramebuffer`, `SendInitInput`) and replaces the channels to and from
it (`ReplaceChannel`, with the branch for an old channel that nobody has
noticed). Its loop may also throw after `onReconnect`, in `waitForExit` or in the
next round before that has new pipes; the catch then deletes the pipes it has
handed over (`WatcherFails`). What a call does with a deleted pipe is undefined, and
the model takes each outcome: the service crashes (`Crashes`), the call finds a
broken pipe, or deleting it once more does nothing. A call to the process is the desktop's `extract` or a client's
`setMouseEvent`, serialised by the gate's lock; each of its writes and reads asks for
the channel anew (`GetChannel`), may find it broken (`Breaks`), and then waits
(`WaitForReconnect`). `inbox`, `reply` and `notices` are the pipes, `got` is the region
`extract` has read so far, `told` what the clients were told. `broken` stands for
such a crash and for the 60-second timeout that ends in
`onAbnormalDesktopTerminate`, where `ClientSessions` takes over. `spoiled` is a history variable: `onReconnect` ran
while a call was between two steps, since its gate is its own
(`DesktopClientImpl.cpp:262`), or a call was given up with a part of the answer already
in the backup (`UpdateHandlerClient.cpp:209`). In both cases the code has no
remedy, and the properties that relate the two sides say nothing afterwards.

**ViewerCore** is the viewer with the server reduced to what a viewer sees
(`server`, and a connection that keeps its order in both directions). `at` is the
place of the four threads: the core's, the user's, that of `UpdateRequestSender` and that
of `FbUpdateNotifier`. `sendFbUpdateRequest` is split where it takes and gives up its
locks (`TakeNeed`, `UpdatePixelFormat`, `TakeRefreshing`, `SendRequest`), because the core's and the
user's thread may both be in it. An update is read rectangle by rectangle
(`ReadDesktopSize`, `ReadRectangle`, `OnUpdate`, `EndUpdate`). The user chooses a format,
refreshes, pauses, defers requests and moves the pointer, in any order.

**Clipboard** is the two clipboards of a session, the mailbox `ClipboardExchange` between
them, and what each side remembers in order not to send a text back. The
comparison with that memory and its clearing are two steps on the host's side,
as they are under two locks; `DrawClipboard` is one step, since nothing of the viewer
waits in between. `crossed` is a history variable: a text was copied before the one
before had arrived.

Definitions written as small variants (`JoinsTwice`, `NothingGoesBack`,
`StayBusy`, ...) stand before the definition they vary. They are no part of the model:
each is the plausible bug with which a property is known to fail.

## 3. Runs

`tlc -config <run>.cfg <module>`; all finish within five minutes.

| Run | Question | Result |
|---|---|---|
| `SenderRepaints` | does shifting, cropping, declining and putting back lose a pixel, under a view port that moves, for a client that can neither copy nor resize? | no, for moves whose source is seen in part (`NoUpdateLost`, `FramebufferIsCurrent`, and `TypeOK`) |
| `SenderCopies` | is a client told to copy only pixels it shows, wherever its view port is? | yes, for such moves that do not overlap themselves and whole requests (`CopyRefersToRightPixels`, `FramebufferIsCurrent`) |
| `SenderClip` | is a move from outside the view port repainted? | **a pixel is lost** |
| `DeliveryThreads` | the same path with its threads, a viewer that pipelines requests, a sender that fails | nothing is lost, requests keep their flags, busy means running, nobody sleeps on what was requested, and the path implements `UpdateChannel` |
| `DeliveryMoves` | ... with moved windows, failing grabs and requests for less and more than the view, no CopyRect | nothing is lost, the path implements `UpdateChannel` (and `TypeOK`) |
| `DeliveryAnswers` | two clients, the sender of one may fail: is every full request of the other answered, does it converge? | yes |
| `Sessions` | lists, calls into clients, the desktop's life | `ListedUntilReady`, `ModulesOutliveCalls`, `DesktopOutlivesClients`, `DesktopsAreDeletedOnce`, `DestructorIsWoken` hold |
| `SessionsEnd` | exclusive clients; clients leave the lists, the destructor ends | hold |
| `Reconnect` | three desktop servers one after the other, each ending at any step, and a watcher that fails | a replacement deletes no pipe in use (`ReplacementSparesUsers`), messages are whole, frame buffers and buttons agree, nothing is forgotten, the clients are told in the end |
| `Viewer` | four threads of the viewer, a server that draws and resizes, a user who acts | one request at a time, updates fit, neither the frame buffer nor the window forgets a change, the window converges |
| `Clip` | texts copied on either side of a connection | the last one is sent, quiet clipboards agree, a text copied alone settles |
| `ClipViewers` | texts copied alone, on the host or beside one of three viewers | the last one stays where it was copied; a viewer has the host's text or another viewer sent it (`QuietClipboardsAgree`) |

`SenderClip` ends in a counterexample. It checks one sentence of a comment in the
code, quoted under `findings` in `PROJECT.json` with the line that contradicts it.

**Known not to hold.** More statements of the repository fail in the models.
They have no run of their own; a copy of the named configuration with the named change
shows each.

* *A copy that overlaps itself.* `SenderCopies` with `Moves <- VisibleMoves`:
  `addCopyRect` (`UpdateKeeper.cpp:117`) drops the pending repaint of the target before it
  looks for pending repaints in the source, so one in the overlap is forgotten and
  the client copies pixels it was never sent (`CopyRefersToRightPixels`).
* *A size change is handed out again.* `SizeIsTakenOnce` as an invariant of
  `SenderCopies`: `extract` keeps the flag (`UpdateKeeper.cpp:230`), where
  `UpdateHandler.h:59-61` says "In the next time call of this function no
  additional information about these changes will present."
* *The backup is read late.* `DeliveryMoves` with `CopyRectEnabled = TRUE`,
  `MaxChanges = 2`: the sender reads the backup (`UpdateSender.cpp:1034`) when the desktop has
  already extracted the next update into it; the client then performs the older
  copy over pixels that are already new (`NoUpdateLost`). `UpdateHandler.h:82-83`
  says "The data usage be able until next extract() function call."
* *The last-client listener.* `NobodyLeftAtLast` in `Sessions`: it is called
  (`RfbClientManager.cpp:354`) after the lock was given up, when another client may be
  served, and it locks or logs out the session.
* *Modules and messages.* `ModulesOutliveMessages` in `Sessions`: `RfbClient.cpp:382`
  says "After this call, we are guaranteed not to be used by other threads", and
  the dispatcher may be handling a message.
* *The manager and its clients.* `ManagerOutlivesClients` in `Sessions`: the
  destructor returns when the lists are empty, with a client's thread in the
  middle of `validateClientList`; `killAllZombies`, which waited for it, is commented
  out (`RfbClientManager.cpp:299`).
* *A failed desktop.* `FailedDesktopGoes` as a property of `SessionsEnd` with
  `SharePolicies <- AlwaysShared`, `MaxBroadcasts = 0`: a client that joins between the
  disconnection of everybody (`RfbClientManager.cpp:254`) and the removal of the last
  of them takes over the failed desktop.
* *A declined copy.* `SenderRepaints` with `CopyRectEnabled = TRUE`: what goes back to
  the keeper is computed (`UpdateSender.cpp:943`) before the copies whose source was not
  requested are turned into changes, and the part of these that was not requested
  is cropped away (`NoUpdateLost`).
* *One desktop.* `OneDesktop` in `Sessions`: the old desktop is deleted outside the lock
  (`RfbClientManager.cpp:350`) while a new client creates another. "Creating and
  destroying this object must be with the locked m_clientListLocker"
  (`RfbClientManager.h:155-156`).
* *A channel deleted twice.* `DeletedOnce` in `Reconnect`: a second replacement before
  anybody noticed the first deletes the present channel and keeps the same one as
  the old channel, which the next `getChannel` deletes again; the one that was old is
  leaked. The same happens to a pipe that the watcher's catch deleted, once it is
  replaced. The comment at `ReconnectingChannel.cpp:90` has "This channel in this case is
  guaranted doesn't use." No other thread is using it then, that much is true
  (`ReplacementSparesUsers`).
* *A deleted pipe in use.* `UsedChannelsExist` in `Reconnect`: the dispatcher has asked
  the channel for its pipe and reads from it when `waitForExit` throws
  (`DesktopServerWatcher.cpp:203`), or the next round before line 156; the catch deletes the
  pipe, which the channel goes on handing out. With `FailingServers = {1}` the
  counterexample has three states. The code knows: "A potential crash. The channels
  can be used (see onReconnect()) after these destroyings."
  (`DesktopServerWatcher.cpp:208`). This catch is the only place that does so: with
  `FailingServers = {}` the invariant holds.
* *Rectangles that are no longer valid.* `RectanglesAreValid` in `Viewer`: the notifier's
  thread takes the region or the cursor's place (`FbUpdateNotifier.cpp:112`), the frame buffer
  shrinks, and the adapter is shown a rectangle outside. `CoreEventsAdapter.h` says of this
  callback "the frame buffer is locked, and the rectangle is guaranteed to be valid."
* *A text sent back.* `NotSentBack` in `Clip`: the viewer's core sets the clipboard before it
  remembers the text (`DesktopWindow.cpp:632`, `:648`), and the window's thread may handle
  the notice in between. The echo dies on the host; with two texts copied at once
  each side may take the other's for a new one, again and again (`AlwaysSettles`).
* *A text kept back.* `HostHasTheLastText` in `ClipViewers`: in the same race the window's
  memory of the text outlives the notice it was for. "if string in clipboard got from
  server, then don't send him too" (`DesktopWindow.cpp:632`) then holds back the same
  text when the viewer's user copies it himself, though another viewer's has replaced
  it on the host meanwhile.

**Bounds.** `Area3`: the client shows three pixels. Two are a source and a target; the
third is what is left when a move or a request covers the others, and overlaps of
source and target need three. A screen of four (`Screen4`) gives two view ports
that cut a move at either end. `VisibleMoves` leaves out the moves `SenderClip` is
about, of which a view port shows a part of the target and nothing of the source.
Two colours suffice to tell a stale pixel from a current
one. `UpdateSender` needs no other bound: its state is finite and every run is
exhaustive without a limit on depth. In `UpdateDelivery` `MaxChanges` bounds how often the screen changes; two
changes are enough for a newer update to overtake an older one. Threads and
wake-ups are unbounded. `DeliveryThreads` has one pixel, since what it is about is
order; `DeliveryMoves` two, a source and a target. `MaxBroadcasts` bounds the loops of a
desktop over the clients in `ClientSessions`; two clients are enough for one to
leave or to be replaced while the other joins. `Reconnect` has three servers, since a double replacement needs
two that end; two places in a pipe, so that a message of two writes can be
cut; one pixel, on which every property of the two frame buffers is stated
point by point; a watcher that may fail while it waits for the second
(`FailingServers = {2}`), so that the failure has a crash and a replacement before
and after it (the safety properties are proved for every value); and one change of the screen, before, during or after any of it.
In `Viewer` the screen has one or two points, so that it can shrink under a
region, and two formats; one change and two actions of the user are enough to
freeze and thaw, to change the format twice, or to refresh while a new size is
on its way. (With two changes the invariants hold as well; the run would take
longer than the others together.) `Clip` has one viewer, four texts copied and
a connection that takes one text, so that a text is stored while the one
before is written. `ClipViewers` has three viewers, so that the host's text, a
remembered one and a third can differ, and stops where two texts cross
(`CopiedAlone`), since `QuietClipboardsAgree` says nothing of what follows. Symmetry over clients is used only for
invariants. Deadlock is not checked outside the `Sender` runs: a screen
that rests, clients that are gone, a destroyed manager, a frozen picture and
equal clipboards are proper ends.

**Fairness.** Weak fairness of each thread's steps: operating-system threads run
when they can. For the poller, the desktop's thread and each sender and reader
of `UpdateDelivery` every step, once enabled, stays enabled until it is taken, so
weak fairness suffices. The viewer is assumed to ask for the next change once it was
answered (`AsksAgain`); `UpdateRequestSender` does. Failures, drawing and full
requests are never fair. `ClientsConverge` is conditional on the client eventually
not waiting for a full answer: a viewer that asks for the whole view again and
again can be busy whenever the desktop looks. In `ClientSessions` the steps
that need the lock are weakly fair because the loops that hold it are bounded;
a thread waits for its viewer (`AuthPhase`, `EnterNormalPhase`, `Dispatch`) without
fairness, and fails once its socket is closed. In `DesktopReconnect` every
thread is weakly fair, and `BeginExtract` strongly: it competes with the clients'
threads for the gate's lock, which is given up infinitely often but not for
good. Nothing has to be drawn, no process has to end, no event has to be
injected, no watcher fails by itself and nothing has to crash. `ScreenIsTold` is
conditional on no caller having waited for 60 seconds and no crash (`broken`) and no answer having been cut in two (`spoiled`). The viewer's threads and
those of the clipboards are weakly fair, the users are not; `WindowConverges` allows
for a frozen picture, `Settles` for texts copied at once.

**What the runs taught about the code.** The desktop uses up its wake-up when no
client is ready (`DesktopBaseImpl.cpp:307`). Incremental updates survive that, since
the poller signals again as long as the screen differs from the backup. A full
request survives it only because the reader wakes the sender when its keeper has a
cursor flag set and because that flag is never lowered: with flags that
`extract` clears, as its documentation says, `FullRequestsAreAnswered` fails. That is the
mutant of `Emptied`. In the viewer's notifier a line is marked "FIXME: it's bad code. Must
work without one next line" (`FbUpdateNotifier.cpp:124`): leaving it out breaks none of the
viewer's properties. That the viewer asks only once rests on the order of the
core's last steps: `need` is set before `m_bFreeze` is read, and whoever then
takes `need` asks.

## 4. Proofs

`tlapm <module>_proof.tla`. Every property is stated as `THEOREM Spec => []P` for all
values of the constants allowed by the module's assumption.

* `UpdateKeeper_proof`: lemmas on the operators: translations are inverse to each
  other, every operation keeps regions within the border, what a merged keeper's
  changed and copied regions cover, and what `Shown` gives after `AddCopyRect`.
* `UpdateSender_proof`: `SenderTypeOK`; `SenderFramebufferIsCurrent`; `SenderLosesNoUpdate`
  for a client that is sent no copies (`NothingToCopy`); `SenderCopiesRightPixels` for
  moves that do not overlap themselves (`SourcesDisjoint`) and whole requests
  (`WholeRequests`). All but the first assume `NoMoveVanishes`: a move onto pixels of a view
  port has a source that this view port shows in part. That is every move for a
  client that shows the whole screen. The assumptions are what `SenderClip` and the
  counterexamples above show to be needed. The properties are inductive with
  `TypeInv`, which says besides the types that a pending copy reads pixels the client
  has (`SourceOnClient`): an update changes the backup only where it is added to the
  keeper's regions, shifted by the view port and cropped to it, and `sendUpdate` takes
  from the keeper only what it reads into the frame buffer and paints, or puts
  back. A view port that moved leaves nothing behind: all of it is changed.
* `UpdateDelivery_proof`: `DeliveryTypeOK`; `DeliveryKeepsFlags` (the flags travel
  with the region, from request to sender and back); `DeliveryBusyMeansRunning`
  (with the places of the desktop and the sender where `m_busy` is set
  and cleared); `DeliveryNobodySleeps`, for clients with CopyRect as well;
  `DeliveryLosesNoUpdate`, for every number of clients, without CopyRect.
  `DeliveryNobodySleeps` needs two facts more (`SleepInv`): the cursor flag of a keeper
  is never lowered, so that a reader always wakes its sender; and a sender that
  nobody rouses has, from taking its request until it sleeps, left nothing in
  the request or the keeper that belongs together (`SleepsOnNothing`). It is what
  `FullRequestsAreAnswered` rests on. `NoUpdateLost` is not inductive: a picture is painted from the sender's
  frame buffer. `UpToDate(c)` adds that this frame buffer equals the backup for
  every pixel not on the way (`BufferIsCurrent`), that the picture does
  (`PictureIsCurrent`), and that a sender holds a container only between taking
  it and sending it (`HoldsOnlyWhileSending`). `DeliveryUpToDate` states it by itself;
  `DeliveryImplementsChannel` is the refinement, step by step: `UpToDate` is `Settled` of the
  channel, and a step of each thread maps to `Change`, `Fetch`, `Paint` or a stutter.
* `ClientSessions_proof`: `SessionsListed`, `SessionsModulesOutliveCalls`,
  `SessionsDesktopOutlivesClients` and, for policies that never share,
  `SessionsOneExclusiveClient`. The inductive invariant `IInv` relates the client's
  state to the place of its thread (`Phases`), says that clients with modules are
  in the authorized list (`UsersAreListed`), that normal clients have
  modules (`ModulesInNormalPhase`), that a called client has not been
  told that it may delete them (`Calls`), and that the manager's desktop, those taken
  for deletion and the clients' own are consistent (`DesktopsAreDistinct`).
  With it `SessionsDeletedOnce` is inductive: a desktop the manager let go of has one
  thread that deletes it, and no thread deletes another.
  `SessionsDestructorIsWoken` is the safety part of `ShutdownEnds`: no wake-up of the
  destructor is lost. `WakeInv` says that a client that is ready and still listed is
  about to run `validateClientList` (`RemovesItself`), and that empty lists mean
  a raised event or a thread on its way from emptying them to raising it.
* `DesktopReconnect_proof`: `ReconnectTypes`, `UsersSpared`, `WholeMessages`, `InSync`,
  `ChangesSurvive`, `ButtonsSurvive`, for any number of servers, of failures of the
  watcher and of pixels. `IInv` adds
  what the properties rest on: channels belong to servers in the order they were
  started, and the watcher's place says which are replaced (`ChannelOrder`); whoever
  uses the present channel has noticed every replacement (`ChannelUse`), so that
  no replacement deletes it under him, for `replaceChannel` deletes only a channel
  whose replacement of the one before nobody has noticed (the watcher's catch does, and
  leaves these facts alone: it changes no channel's present pipe); one call is under way, with the rest of its
  own message to write (`CallShapes`); a server nobody talked to
  yet has an empty pipe (`FreshServers`); a message in the pipe that lacks its end has a
  caller who will write it or learn of another channel (`CutMessages`); one extraction
  at a time (`OneExtract`); where `extract` waits for an answer, it is the present
  server's (`AnswersArePresent`); and the three properties themselves in a form that the
  steps of a call preserve (`Synchronised`, `ToldBackup`, `ButtonsKnown`).
* `ViewerCore_proof`: `ViewerTypes`, `ViewerAsksOnce`, `ViewerReadsWhatFits`,
  `ViewerForgetsNothing`, `WindowForgetsNothing`. `OneTurn` strengthens one request at a time: a
  request is the last message on its way, its answer the only one. From it follow
  `FormatArrives` (the format changes only while somebody has the turn, and the server
  gets it before the next request) and `SizeArrives` (the frame buffer has the screen's
  size unless another is on its way, and a new size comes without rectangles), and
  with them that updates fit. `StaleIsOwed` adds to `ViewerKeepsUp` that an update under way
  brings what the screen shows, or the point is owed again.
* `Clipboard_proof`: `ClipboardTypes`, `LastTextSent` and `QuietAgreementHolds`, for any viewers
  and texts. While no two texts crossed, every text under way is the one
  copied last (`LastIsUnderWay`), and a window remembers nothing or the text of its
  clipboard, unless that memory is about to be replaced (`WindowKnows`). A text copied
  on the host is then at every viewer or on its way there (`HostTells`); one copied
  beside a viewer is on its way to the host, where its echo is recognised because
  `received` is that text, or has arrived (`ViewerTells`). The proof for any number of
  viewers is what brought up the text kept back of section 3: with one viewer
  `HostHasTheLastText` follows from `QuietClipboardsAgree`, with two it fails.

Only model-checked: liveness under fairness (`ClientsConverge`,
`FullRequestsAreAnswered`, `ClientsAreRemoved`, `ShutdownEnds`, `ScreenIsTold`,
`WindowConverges`, `Settles`), which is out of the prover's reach. Every invariant of the
runs is stated by a theorem, and so is the refinement of `UpdateChannel`.

## 5. Not modelled

* *updates*: encoding of pixels, lossless and video rectangles, cursor shapes,
  shared applications.
* *sessions*: the ban list, IP access rules, view ports, the handshake's messages,
  late outgoing connections (the servers are stopped before the manager is
  destroyed). A client holds a counted reference to the desktop, but the desktop
  is deleted explicitly (`RfbClientManager.cpp:350`), so the count does not keep
  it. The thread of a sender is in the same position as the dispatcher: the
  calls that stopped it in `~UpdateSender` are commented out too.
* *desktop server*: the `GateKicker`, messages for configuration, keys and the
  clipboard, the coordinate queries, a change of size in an answer,
  `setFullUpdateRequested` and the excluded region. The pipes are counted pointers
  in the watcher and plain ones in the channel; the pointer class lies outside of the
  repository, and the channel is taken at its word, "Now we are the owner"
  (`ReconnectingChannel.cpp:93`). A round that fails before `onReconnect`, or twice before
  line 156, deletes pipes that nobody has, the second time once more; this and a
  new pipe at the address of a deleted one are left out.
* *viewer*: connecting, authentication and stopping, decoders, cursor shapes,
  forced full updates, statistics.
* *clipboard*: view-only clients, a clipboard that is switched off, character
  sets, connections that fail.
* *the rest*: file transfer, configuration, the control connection and the
  server's own start, the platform layers and the applications' windows.

The modules stand for a small share of the repository's lines, and that will
stay so: most of them are `remoting_rdx` and `remoting_rtc`, which repeat
`remoting_rfb` under other names, the vendored `x11region.c`, a Java archive written as
a C array (`http_server/VncViewerJarBody.h`), pixel codecs, wrappers of the operating system
and user interfaces, none of which has the state and the concurrency that a
model could say something about.

## 6. Plan

1. Cursor updates and view ports: the race of `getViewPort` with the keeper, the
   cursor flags as two; then resizing of the screen inside `UpdateDelivery`.
2. What a failed `extract` does to `sendUpdate` and the clients: `UpdateDelivery` and
   `ClientSessions` in one.
3. `ViewerCore` with `UpdateDelivery` in place of its external server, against
   `UpdateChannel`.
4. A change of size through `DesktopReconnect`, and the `GateKicker`.
5. The ban list; the handshake (`RfbInitializer`); the file transfer's request handler.
6. Proofs: `UpdateDelivery` with CopyRect under the condition that excludes the stale
   read; the copies of `UpdateSender` for clients that request a part of their view.
