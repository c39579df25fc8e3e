# Hydra ExperienceNet in TLA+

Hydra ExperienceNet is a fork of Moonlight, a game-streaming client written in
C++ with Qt, SDL and FFmpeg, that can also run as an unattended kiosk: Qt Quick
pages show a catalogue, and a stream is a page of the same window ("scene
mode") instead of a window of its own.

This directory holds a formal model of the parts of it that are hard to test:
threads that share queues, a session whose start, failure and end are handled
by several threads, frames that pass through buffers owned by the decoder, hosts
that are polled and deleted at once, a list of hosts that must survive a crash,
and a kiosk that talks to an agent which may not answer. Modules are checked by
TLC on small instances; where stated, TLAPS proves the properties for every
value of the constants.

`PROJECT.json` lists the components, the runs, for every definition the lines
it models, the hazards with the properties that guard them, what was found, and
the theorems.

    tlc -config Session.cfg Session      # one run
    tlapm HostStoreProofs.tla            # one proof module

## 1. Inventory

### The parts that are modelled

| Component | Code (`src/app/...`) | State | Operations | Talks to |
|---|---|---|---|---|
| Session life cycle | `streaming/session.cpp`, `main.cpp`, `KioskStreamPage.qml`, `StreamSegue.qml` | per session: connection, decoder, input handler, cleanup flags; one semaphore and one active session for all | `initialize`, `start`, the connection thread, `exec` (two ways), listener callbacks, `stopSession`, `DeferredSessionCleanupTask`, SIGTERM | Qt event queue, SDL event queue, bridge, protocol library |
| Video decoder | `streaming/video/ffmpeg.cpp`, `session.cpp` | frame infos, counters, failures; `m_DecoderLock` | decoder thread, creation, replacement, destruction, HDR callback | protocol library (units), codec, Pacer |
| Frame pacer | `.../ffmpeg-renderers/pacer` | two bounded queues, their histories, the deferred frame | `submitFrame`, `handleVsync`, `renderFrame`, `~Pacer` | decoder, V-sync source, renderer or SDL queue |
| Scene-mode video path | `quicksinkbridge.cpp`, `quicksink.cpp`, `videoitem.cpp` | the slot of the bridge, the sink's registry, the frames of the render node | submit, take, import or upload, draw, fence, teardown | decoder thread, scene graph, GPU |
| Kiosk pages | `gui/KioskView.qml`, `KioskCatalogLoader.qml`, `KioskStreamPage.qml`, `OperatorPinPrompt.qml`, the in-process launcher | screens, requests, timers, the page stack, the launcher | load and retry, start, poll, launch, post states, operator exit | the local agent, sessions, `ComputerSeeker` |
| Computer manager | `backend/computermanager.cpp`, `computerseeker.cpp` | polling references, hosts, polling threads, pending tasks | start and stop polling, add, delete, seek | polling threads, pool tasks, pages and launchers |
| Quitting an app | `computermanager.cpp`, `nvcomputer.cpp`, `cli/startstream.cpp`, `cli/quitstream.cpp`, `QuitSegue.qml` | what is known of the host, who waits, pending quits | poll, apply, `PendingQuitTask`, `quitAppCompleted` | the host |
| Host list persistence | `backend/computermanager.cpp`, `nvcomputer.cpp` | list of hosts, copy of what was serialized, flag, two arrays in the settings file | load, add, change, delete, `saveHost`, delayed flush, shutdown | QSettings, pool tasks, polling threads |
| List models | `gui/appmodel.cpp`, `nvcomputer.cpp`, `AppView.qml` | the app list with the user's choices, the rows shown of it | new list, row by row update, hide, direct launch | polling threads, the view |

What is hard in each of them, and what makes it correct:

* **Session.** A stream can be ended by the visitor, the host, a failed
  connection, a failed decoder or SIGTERM, in any order and twice. Some of these
  arrive on other threads and are queued to the main thread, where they may
  find the session over or not yet begun. Correct means: one cleanup per
  session; callbacks never see a session that is gone; decoder, input handler,
  bridge and SDL's video subsystem are given back in order; `start()`, which
  waits for the previous session on the GUI thread, gets through; an ended
  stream ends.
* **Video decoder.** Sending and receiving are counted separately and both can
  fail. Correct means: infos match frames; a decoder that fails asks once for a
  new one and gets it; the control thread never touches a decoder that is
  being replaced; joining the decoder thread ends.
* **Pacer.** Four threads, three condition variables, and drop rules that give
  up the lock in the middle of a loop. Correct means: no frame is leaked or
  freed early, frames are shown in order, a renderer on the main thread has an
  event for each frame, destruction is orderly.
* **Scene-mode video.** The frame on screen is sampled by the GPU after the
  pass that drew it; it belongs to the decoder's pool; a decoder can be
  replaced by one at the same address. Correct means: no buffer returns while
  it is read, nothing is imported through a back end that
  is not initialized, every announced
  frame is taken, both sides agree on the fallback.
* **Kiosk.** Nobody is there to press a key. Requests fail or come late, the
  agent restarts, posts get lost, the operator asks for the exit at any moment.
  Correct means: the grid is shown only when nothing is under way; no page
  blocks the GUI thread behind a stream that still runs; the "Starting" and
  "Waiting" screens end; nothing is said to the agent after the last word; an
  agent that restarted learns what runs.
* **Computer manager.** Hosts are shared by the list, by threads that were told
  to stop and have not yet, by tasks and by queued signals. Correct means: each
  polling reference is given back once; a listed host is polled by one thread
  exactly while somebody wants it, an unlisted one only until the list without
  it has been saved; no thread outlives its host; a deletion ends.
* **Quitting.** The task that asks the host does not answer its caller; a later
  change of state does. Correct means: whoever waits can still be answered, and
  is.
* **Host list.** Two arrays in one file are written by a thread of their own
  while the list changes and the program may crash. Correct means: a saved host
  survives, a deleted one stays deleted, no change is missed.
* **App list.** Rows are changed one by one under a filter that depends on the
  rows, while the list is replaced by another thread. Correct means: the rows
  are the visible apps in order, choices survive and can be taken back, as long
  as apps keep names of their own.

### How the modules are composed

    FramePipe  <-- implemented by --  Pacer, SceneVideo
    SessionContract  <-- implemented by --  Session
    Kiosk  =  KioskView + CatalogLoader + launcher + pages  on top of  SessionContract

The kiosk is built on what a session promises, and the session is shown to keep
that promise, so the two are composed without a product of their state spaces.

### The parts that are not modelled

| Component | Why |
|---|---|
| Host protocol and pairing | one exchange per request; what a lost, late or failed answer does to its callers is in `ComputerManager` and `AppQuit`. The handshake is a straight line that aborts at the first failure, its cryptography external |
| Launch validation, decoder selection | a straight line of checks, and a search whose answers come from drivers; neither shares state with another thread |
| Audio, overlays, input | each sample, surface or event is handled at once by one thread; the life cycle of the input handler is in `Session` |
| Gamepad navigation | translates events on the main thread; that it resumes only after the input handler is gone is in `Session` |
| Desktop pages | layout; what drives other components is modelled with them (`StreamSegue` in `Session`, `AppView` in `AppList`, `QuitSegue` in `AppQuit`, the polling of `main.qml` in `ComputerManager`) |
| Local API server, command-line parser, settings and mappings, identity, system properties, bandwidth | parsing, preferences and statistics without states of their own |
| Program start and shutdown | set-up; the signal thread is in `Session`, the shutdown of the pool in `HostStore` |
| Renderer back ends, V-sync sources, SLVideo | GPU and display I/O; `Pacer` models what it needs of them |
| Box art, update check, rich presence | network and cache I/O that nothing depends on |
| Hooks and platform code | interposed system calls |
| Protocol library (moonlight-common-c) | a submodule whose sources are not in the tree; what the program sees of it is external in `Session` and `VideoDecoder` |

The files `app/languages/qml_*.ts` are Qt Linguist catalogues, XML data looked
up by Qt; they hold no behaviour and no definition models a line of them. The
program itself is C++ and QML, to which all lines in `PROJECT.json` refer.

## 2. Plan

Done, in this order: `FramePipe` and `Pacer`; `Session`; `VideoDecoder` and
`SceneVideo`; `HostStore`; `ComputerManager` and `AppQuit`; `SessionContract`
and `Kiosk` with `CatalogLoader`; `AppList`; proofs for all of them.

Left, by what they would add:

1. pairing as a task of its own, together with the save it makes on a pool
   thread beside `HostStore`'s flush;
2. the choice of formats and decoders against a reference definition;
3. audio reinitialization, overlay surfaces and keys held across capture
   changes.

## 3. The modules

### FramePipe

What every stage between decoder and display promises: frames may be dropped,
those that are shown are shown in stream order, and the frame on screen keeps
its buffer until a newer one has replaced it or the stage is closed. `Pacer`
and `SceneVideo` are shown to implement it, each with the set of buffers it
owns for `live`.

### Pacer

| Model | Code |
|---|---|
| `pacingQ`, `renderQ`, `deferred` | `m_PacingQueue`, `m_RenderQueue`, `m_DeferredFreeFrame` |
| `Initialize` | `Pacer::initialize()`; `mode` is what it finds: a V-sync source or not, a render thread or not, direct delivery |
| `Submit...`, `WakeVsync`, `DecoderNotify` | `submitFrame()` on the decoder thread; the wakeup comes after the lock was dropped |
| `HandleVsync`, `VsyncDropped`, `VsyncTimeout`, `VsyncWoken` | `handleVsync()`, step by step where it gives up the lock |
| `RenderCheck`, `RenderSleep`, `RenderOnMainThread`, `RenderFrame`, `DeferFree`, `RenderTrim` | `renderThread()`, `renderOnMainThread()`, `renderFrame()` |
| `Stop...`, `Join...`, `Drain` | `~Pacer()` |

A critical section is one step, except that of the render thread between its
test and its wait: the destructor writes `m_Stopping` and wakes without the
lock. Drop rules compare the rolling histories; their lengths are constants, so
that a window of one entry reaches both verdicts with few frames. Dequeuing
from an empty queue is undefined behaviour: the thread is marked "crashed" and
not followed any further.

`FramesKept` joins `NoFrameLost` and the order along the pipeline; `MovesOn` joins what the
Pacer has to do some day: frames are shown or dropped, destruction ends. `Consistent` joins the type
invariant with the promise that no frame queued for a main-thread renderer is without
its event.

### SessionContract

What a page sees of a session: `start()` blocks the GUI thread until no session
is active (`Open`, `Begin`), a session that ends tells its page once (`End`,
`Finish`) and stays the active one until its cleanup is over (`Release`). While
the GUI thread is blocked nothing ends or is announced. A caller that starts a
session beside one that still streams never comes back: this is a fact of the
contract, and `Kiosk` is checked against it (`StartWaitsForCleanup`).

### Session

One record per session object holds its fields and the state of its QML page.
The main thread is either idle (it takes the next Qt event), blocked in
`start()`, in the middle of creating a decoder, or in the SDL event loop of
`exec()`. Qt events and SDL events are two queues, because they are served at
different places: an SDL event pushed in scene mode waits for nobody.

| Model | Code |
|---|---|
| `scene` | `m_SceneMode` |
| `sess[s].conn`, `.link` | the connection thread; `LiStartConnection()` ... `LiStopConnection()` |
| `queue` | posted Qt events: the end of the connection thread, terminations, decoder resets, signals of the cleanup task |
| `sdl` | references to SDL's video subsystem and its event queue |
| `sess[s].tasks` | `DeferredSessionCleanupTask` objects on the pool |
| `signal` | the signal thread of `main.cpp` in `interrupt()` |
| `StopSession`, `StopStream`; `HandleSceneDecoderReset`, `DeleteDecoder`, `RecreateDecoder` | the test of `stopSession()` and its work; the test of the reset handler, the deletion under `m_DecoderLock`, the creation |
| `Phase` | what the page sees, for `SessionContract` |

`stopSession()` and `handleSceneDecoderReset()` test their flags in one step and
act in another ("stopping", "resetting", "recreating"), because the signal thread runs
`stopSession()` too and nothing excludes it. When the two meet, two cleanups can be
dispatched, and a decoder can be created after the cleanup (see 6). `Spec` has
these executions. `Apart` names the assumption that they do not meet; it is the
`CONSTRAINT` of the two runs and the hypothesis of the theorems, and each claim
that rests on it says so. Simplifications: a failing
`initialize()` leaves nothing behind and is left out; the signal `quitStarting`,
which only changes the page's text, is left out; a session slot is used again
after its object was deleted; SDL's event queue is emptied when the last
reference to the subsystem is released (external). SIGTERM in the last instants
of a cleanup, when no session can act on it, is lost in the code, and
`ExitRequestKept` speaks of the time before.

`GivenBackInOrder` joins the order in which parts are given back, `Consistent`
what is queued with the state it will be handled in, `SessionsEnd` what must end
some day, `KeepsContract` is the refinement.

### VideoDecoder

The decoder thread waits for a unit, sends it and receives what the codec has;
each may fail. The main thread creates, replaces (on request or after a change
of the window) and destroys the decoder under `m_DecoderLock`; the control
thread of the connection calls `clSetHdrMode()`, which only tries the lock. The
wake flag of the unit queue is part of the queue. Failing allocations of frames
and the statistics are left out. `FrameInfosMatch` is about numbers and ages of
infos, `NobodyIsStuck` about the answer to a request and the end of joins.

### SceneVideo

From `FFmpegVideoDecoder` through `QuickSinkRenderer` and `QuickSinkBridge` to
the render node of `VideoItem`. `frameReady()` is emitted after the bridge's
lock was dropped, so `EmitFrameReady` is a step of its own. A render pass is up
to three steps (put the new content into the textures, retire the frame before,
draw and set the fence), since the decoder thread goes on meanwhile. One page
per stream; the item of a new page and the one of
an old page do not coexist in the model. The bridge's preference outlives a
stream: what the stream before left is an arbitrary initial value. A fence wait
is assumed to end because the GPU is done; the code also goes on after 100 ms.

`sink.ready` says whether the back end of the current decoder is initialized.
`EnsuredSetup` and `FailedSetups` are the outcomes of `ensureEglSetup()`, which may
fail halfway and leave less than it found; `ImportsUseReadyBackend` is about what the
import then finds. `DestroyNode` waits for the GPU only with a current context;
without one the fence is dropped and the frame freed at once ("lost"). What the
GPU still reads then is out of the program's hands, and `GpuFramesKept` makes an
exception for it. `releaseResources()` runs with a current context, as Qt promises.

### HostStore

What is serialized of a host is a number (0: not there). An array that is being
written has no size and therefore counts as empty until `endArray()`.

| Model | Code |
|---|---|
| `known`, `lastSerialized`, `needsFlush` | `m_KnownHosts`, `m_LastSerializedHosts`, `m_NeedsDelayedFlush` |
| `flusher` | the place of `DelayedFlushThread::run()` |
| `signals` | hosts whose `computerStateChanged()` is queued for the main thread, or about to be |
| `Changed`, `Added`, `Unlisted`, `DeletionSaved` | polling threads, `PendingAddTask`, `DeferredHostDeletionTask` |
| `StateChanged` | `handleComputerStateChanged()` with `saveHost()` and `saveHosts()` |
| `settings`, `disk` | QSettings' shared cache and the file; `Sync` copies one into the other at any moment |

The interruption and the wakeup of `~ComputerManager()` come without the mutex,
as in the code: a flush thread just before its wait misses them and the process
hangs until it is killed (`Crash`). `saveHost()` gives up the mutex before
`saveHosts()` takes it again; the two are one step, since what happens in
between only adds reasons to flush. The program waits 30 s for its pool; the
model assumes that this is enough. The signals of a deleted host are dropped.
`NoChangeLost` says that no change slips past copy, flag and flush, and that the
flush thread leaves nothing behind when it exits.

### ComputerManager

One PC on the network, whose `NvComputer` may be deleted and made again while
threads, tasks and queued signals still hold the old object.

| Model | Code |
|---|---|
| `pollingRef`, `window`, `seeker` | `m_PollingRef` and the two who take references: `main.qml` and `ComputerSeeker` |
| `thread` | `PcMonitorThread` objects with the object they poll; an interrupted one finishes its round beside the one that replaces it |
| `signalled` | `computerStateChanged()` queued for the main thread |
| `StartPolling`, `StopPollingAsync` | the functions of that name; the last reference interrupts and does not wait |
| `SeekerCheck`, `SeekerUpdated`, `SeekerGivesUp` | the queued check of `start()`, `onComputerUpdated()`, and the timer that ends either way |
| `AddTask...` | `PendingAddTask::run()` up to the lock, under it, after it |
| `Ask`, `Apply` | a round of `PcMonitorThread`: the request, and the update of the object with its answer, also after an interruption in between; the update and its announcement are one step |
| `DeletionTakes`, `DeletionInterrupts`, `DeletionFrees` | `DeferredHostDeletionTask::run()`: out of the list under `m_Lock`; after `saveHosts()` the interruption by `~ComputerPollingEntry()`; the end of its wait for the threads and of the object |
| `HandleDangling` | a queued signal of an object that was freed: the code reads freed memory, the model goes on as if nothing had been read |

Between removal and interruption the threads of the unlisted host go on polling,
also beside a new object for the PC; `PollingFits` allows it until the list is
saved, and no longer. mDNS resolution, the addresses tried, pairing and renaming are left out.

### AppQuit

The part of the manager that `ComputerManager` leaves open: what a poll tells,
and who waits for it. `PendingQuitTask` asks the host and reports failures, but
success is only seen by polling: `handleComputerStateChanged()` answers once the list
shows no app. `waiter` is the quit page, `quit`, or `stream` with its
timeout running ("seekApp") or stopped ("quitApp"). `Ask` and `Apply` are two steps,
because an interrupted thread may apply an old answer beside its successor. It
is assumed that nobody starts another app while somebody waits for the host to
be idle.

### Kiosk and CatalogLoader

| Model | Code |
|---|---|
| `view` | `streaming`, `loading`, the error and the running status timer of `KioskView` |
| `loader` | `KioskCatalogLoader`: the request in flight, watchdog, retry timer |
| `xhr` | requests to the agent; answered by `Agent...`, delivered by `StartAnswered`, `StatusAnswered`, `ParamsAnswered` |
| `launchers` | `CliStartStream::Launcher`: the current one, and the one before until `deleteLater()` runs |
| `stack`, `arrived`, `page` | the pages above `KioskView`, and the properties of each `KioskStreamPage` |
| `posts` | states posted to the agent; sent without waiting, may be lost, may overtake one another |
| `phase`, `holder` | the sessions, by `SessionContract` |
| `OperatorAuthorized`, ... | `OperatorPinPrompt` with `requestOperatorExit()` |
| `mishaps` | history of what went wrong around the current start |

`CatalogLoader` is a module of its own, which `Kiosk` extends; each of its steps says
which signal it emits, and the page handles that signal in the same step. The agent
is external: it answers or not, starts and fails, restarts at any moment. Left
out are diagnostics, issue filing, power actions and the veil. A page whose
`initialize()` fails posts "finished", or "error" when it showed one first
(`Activated`).

`StartingEnds` makes exceptions that the code needs: an empty answer to the
start throws in the callback and leaves the screen; a host that runs another app
stops the launcher's timer and emits `appQuitRequired`, which the kiosk does
not handle; a state post under way when the visitor chose again can make the agent
report the earlier stream.

### AppList

`updateAppList()` merges the host's answer with the user's choices on a polling
thread; `AppModel::updateAppList()` removes, updates and inserts rows one by
one. `RowsFollowList` compares the result with its definition, the filtered
list. Ids sort as the names do that apps have of their own. `Renamed` are the
apps that may take any name at any time, equal ones included: the rows of such apps need not
follow the list (see 6), so `RowsFollowList` is checked and proved for
`Renamed = {}` and claims no more. With `Renamed = {1}` in `AppList.cfg` TLC finds a new
row that goes after the row of an equal name.

| Model | Code |
|---|---|
| `lost` | the host is offline or not paired: the page in front closes (`AppView`), a covered one keeps the rows it has (`appmodel.cpp:262`) |
| `hostList` | `NvComputer::appList` |
| `page` | `AppModel`: `m_ShowHiddenGames`, `m_AllApps`, `m_VisibleApps`, while `AppView` is open |
| `announced` | `computerStateChanged()` queued for the main thread |
| `updateAppList` | `NvComputer::updateAppList()`, called by a polling thread |
| `Updated`, `AddedAll` | the two loops of `AppModel::updateAppList()` |
| `Chosen` | `clientSideAttributeUpdated()`, after either menu item |

A choice lives in the entry of its app. The host forgets it with the app when
one of its lists leaves the app out, and `ChoicesStand` speaks of choices until then.

## 4. Runs

| Run | Shows |
|---|---|
| `pacer` | no frame lost, freed early or overtaken, refinement of `FramePipe`, liveness, in all modes |
| `pacer_stop` | counterexample: `~Pacer()` waits for good for a render thread that missed its wakeup |
| `session` | sessions in both modes, with signals under `Apart`: one cleanup each, orderly teardown, the contract with the pages, `start()` gets through, ended streams end |
| `session_early_end` | counterexample: in scene mode an end that comes between the connection's success and `exec()` is forgotten |
| `decoder` | infos match frames, one request per decoder and an answer, no use after deletion, joins end |
| `scene_video` | refinement of `FramePipe`, imports by an initialized back end only, buffers kept for the GPU, agreement on the fallback, every frame taken |
| `host_store` | saved hosts survive crashes, deleted ones stay deleted, changes reach the disk |
| `kiosk` | grid only when nothing is under way, no blocked GUI thread, screens that end, the last word, an agent that relearns |
| `kiosk_overlap` | counterexample: with two status requests under way two streams are launched, and the second page blocks the GUI thread behind the first |
| `computers` | references given back once, one polling thread for a listed host exactly while wanted, an unlisted one polled only until the list is saved, no thread outlives its host, deletions end |
| `app_quit` | whoever waits for an app to end can be answered, and is while the host is polled |
| `app_list` | rows of apps with names of their own follow the list, an open page catches up, choices stand until taken back or left out of a list |

Three of the runs end in a counterexample. Each states what a comment of the code
says and shows how the code departs from it; `PROJECT.json` quotes the comment
and tells the story.

### Bounds

* `pacer`: five frames with queues of three: one more frame than fill a queue
  and one in each hand, so overflow happens in both queues; windows of one entry
  reach both verdicts of the drop rules. `pacer_stop` needs one frame.
* `session`: two sessions, because what one leaves to the next (semaphore,
  active session, bridge, SDL) is what can go wrong; each slot can be used
  again. At most two SDL events are queued before a window event (`MaxEvents`), so that
  barriers meet quits and resets. `session_early_end` needs one session.
* `decoder`: a threshold of two failures, four units, a codec that holds two
  frames: failures of both kinds meet at the threshold with frames in flight.
  Two decoders: the replacement is as exposed as the first. One change of the
  HDR mode.
* `scene_video`: three frames fill bridge, node and screen; two decoders at two
  addresses allow a new address and a recycled one.
* `host_store`: two hosts (one kept, one that changes), three changes of the
  list: enough for one before the copy, one between copy and write and one
  after. Crashes are not bounded.
* `kiosk`: two session objects, so that a page can be pushed above one that is
  still there; one request slot, which means that each status request is answered before the
  next is sent. `kiosk_overlap` has two slots and shows why that matters. One
  state post on its way; a post beyond is lost, as posts may be anyway.
* `computers`: two objects for the PC, so that one can be made while the other
  is being deleted; two threads: one at work and one that was interrupted and has an
answer to apply (the theorems are about any number). A start of polling waits
  when all thread slots are taken. At most one add task and one deletion at a time.
* `app_quit`: two threads (one applies an old answer), two tasks (one is asked
  again while the first is under way).
* `app_list`: three apps that keep their names: a row can be inserted or removed before,
  between and after others.

### Fairness

Only what the scheduler gives: threads that can run do, the main thread serves
its queues, pool tasks run, timers fire. Nobody has to open or close a page, to click, to
send a frame or to end a connection or a stream.

Strong fairness stands where one thread repeatedly takes what
another waits for: the mutex of the flush thread (`SaveHosts` by
`DeletionSaved` and `StateChanged`), the main thread between render passes
and announcements (`SceneVideo`), and where something external is tried again and
again and must get through some day: a host that is polled answers now and then
(`AppQuit`), the agent sometimes tells its status, both requests of the
catalogue are answered one after the other, a repeated post arrives (`Kiosk`).

Waits with a limit expire; the render thread's wait, which has none, needs a wakeup.
In `Kiosk` the sessions keep the contract's promises about time: `start()` returns when
no session is active, an ending session finishes and is released.

### Deadlock

Deadlock is checked in `host_store`, `session`, `session_early_end`,
`computers`, `app_quit` and `app_list`. It is not in `pacer`, `pacer_stop`,
`decoder` and `scene_video`, which stop by design once their streams and threads have
ended, with liveness properties that rule out stopping earlier, nor in `kiosk` and
`kiosk_overlap`: an empty answer to a start stops the kiosk for good, and a page that blocks the GUI
thread behind a stream stops everything.

## 5. Proofs

All theorems hold for every value of the constants that satisfies the named
assumptions: any number of frames, sessions, hosts, objects, threads, requests,
any limits and thresholds.

### PacerProofs

`TypeCorrect`, `NoFrameIsLost`, `FramesInOrder`, `FramesAreKept` (both
together), `TeardownIsSafe`, `FramesAnnounced`, `PacerIsConsistent` (the type
correctness and the announcement together) and `PacerImplementsPipe` (the
refinement of `FramePipe`), from `LimitAssumption` (the limit
and the windows are positive). The properties themselves are not inductive:
whether a frame is held twice depends on where threads stand. The invariant
adds that a thread has a frame in hand at just the places where the code has
one, that direct delivery leaves the queues empty, that the decoder thread is
gone once destruction began, and that threads exist only as the mode asks. It
is proved action by action; lemmas on queues say what enqueueing into and
taking from an increasing queue does to its order and contents. For the
refinement one fact is added (`ScreenFits`): what is on screen is older than all
that is still to come (`Coming`), so that whatever is dropped on the way is not
on screen, and the deferred frame is freed only when a newer one is.

### SessionProofs

`CleanupHappensOnce`, `CallbacksAreSeen`, `PartsAreGivenBackInOrder`,
`CallsFindTheirSession`, `SessionIsConsistent` and `ContractIsKept`, the refinement
of `SessionContract`, from `NoneAssumption`, all under the hypothesis `[]Apart`: they are about the
executions in which the signal thread and the main thread do not meet in
`stopSession()` or the reset handler.

None of them is inductive. The invariant describes the life of one session
(`Life`) by its fields and three things the rest of the program holds of it:
whether it is the active session, where the main thread is for it, and which
calls are queued for it. A step of one session leaves the lives of the others
alone, so that each action is looked at once, for the session that moves. The
calls form a set; that a set can stand for the queue is an invariant of its own
(`Once`: no call is queued twice, `ReadyLast`: nothing follows
`readyForDeletion`). With that invariant known, a second one (`PartsInv`) counts
references to SDL's video subsystem, says that one page is open, and that the
signal thread in `stopSession()` was right to go there. The refinement follows
by looking at the phase of the session that moved.

`SessionIsConsistent` adds a third invariant about SDL's event queue
(`FlushInv`): the session in the event loop has as many barriers in the queue as
it counts, and a queued reset finds its decoder faulted; while no session is in the
loop the queue holds neither, and only a session that has ended may still count some.
`FlushResets` is a recursive function over the queue; that it removes every
reset and leaves every barrier is proved for queues of any length (`Flushed`).

### SceneVideoProofs

`SidesAgree`, `GpuReadsLiveFrames`, `ImportsAreReady` and `PathImplementsPipe`
(the refinement of `FramePipe`), from `AddressAssumption` and
`BoundAssumption`. The invariant adds how far stream, page and main thread are
and what that excludes (`Stages`), that frames lie in stream order from the decoder to the
screen (`Ordered`), and that the GPU reads the frame on screen only, and only
if that was imported (`Fenced`). `ImportsAreReady` rests on `Initialised`: the set-up that
the sink believes active is one whose initialization succeeded, whichever attempts failed
halfway before and whatever was released in between.

### HostStoreProofs

`TypeCorrect`, `ExitIsClean`, `NoChangeIsMissed`, `NoChangeIsLost` (the last
two together), `SavedHostsSurvive` and
`DeletionsAreFinal`, for any number of changes, crashes
and restarts, from `BoundAssumption` (the bounds are natural numbers). The
inductive invariant has four parts besides the types:

* `ProgramPhases`: the interruption belongs to quitting, a program that is down
  has its file only, the thread does not sleep with the flag set;
* `KeptByFlush`: at each place of the flush a durable host is in the primary
  array, or in the backup while the primary is rewritten, and always in what a
  restart would load from the file. This is the argument of the double write;
* `Forgotten`: a host whose deletion was saved is in no array;
* `ChangesTracked`: whatever the copy or the settings lack is announced by a
  signal, a deletion in progress or the flag.

A host counts as durable only while a complete primary array holds it. After a
restart from the backup the primary array is incomplete, the next flush first
clears the backup, and a second crash at that point loses hosts: the theorem
promises nothing for them, and neither does the code.

### VideoDecoderProofs

`TypeCorrect`, `InfosMatchFrames`, `InfosAreNotAhead`, `FramesKeepTheirInfos`
(these together), `OneRequestEach` and
`DecoderInUseLives`, from `ThresholdAssumption` (the threshold is positive) and
`BoundAssumption`. The inductive invariant has three parts besides the types:

* `Flow`: units, frame infos and the frames inside the codec are each in
  order and older than what is still to arrive, and the codec never holds more
  frames than infos wait. A unit the codec refuses adds no info, but a frame
  the codec drops leaves its info behind: the number of infos still matches the
  counters while their ages drift, so both are stated;
* `AskedProperly` and `Working`: a decoder thread that is still at work has
  not yet asked for its replacement, and one that asked has left its loop;
* `LockHeld`: the decoder lock has one holder, and the decoder its holder uses
  exists.

What the decoder thread does to `Flow` is proved once for each of sending,
refusing, losing and receiving; the steps of the other threads leave it alone.

### ComputerManagerProofs

`ReferencesAreBalanced` and `PollingFitsTheWishes`, from `NoneIsNothing`. Types
and balance are inductive together. That no thread outlives its object rests on
who still holds an object (`Lives`): the list, its threads, and a deletion,
which takes it from the list first and frees it last. Who may be active is said of listed
objects and of those whose deletion has not come to its interruption apart: the
first are polled while somebody wants it, the others only until the list is saved. "One thread" is followed
as a set and not as a cardinality (`OnePollsKnown`).

### AppProofs

About `AppQuit`, `WaitersCanBeAnswered`: here the property is inductive as it
stands.

About `AppList`, from `AppsSort` (the apps are finitely many numbers):
`ListChoicesAgree`, `RowsAreTheVisibleApps` and `ChoicesAreKept`, each with the
hypothesis `Renamed = {}`. The invariant
(`ListInv`) says of all lists that they are sorted (`Good`), which makes a list a
set of entries and no more, and of the rows that they are entries of the page's
list. The menu acts on rows that may be older than the host's list
(`appmodel.cpp:224`): the host may have forgotten a choice together with its
app, but never has one that the row does not show (`RowsNotAhead`), because
every choice shows the list anew. That is why direct launch and hiding cannot
meet.

The assertion of `AppModel::updateAppList()` is proved, for apps with names of
their own, loop by loop: removals and
updates leave a sorted part of the new list (`UpdatedGood`); one search and
insertion adds one entry and keeps the order (`AddedGood`); all of them add all
(`AddedAllIs`), and sorted lists with the same entries are the same
(`SameEntries`).

### KioskProofs

`LastWordIsKept`: a page that said its last word has stopped its timer, and
what each handler may make of a page is one relation (`MayBecome`) that the
steps of the operator, the session and the timer all keep. `LoaderIsAtWork`: a
screen that says "Loading" or "Waiting" has a watched request or a retry behind it;
it rests on `cancelRequest()` clearing the request before it is aborted.

`KioskIsConsistent` and `StartsWait` assume `OneRequest`: the agent answers a
status request before the timer sends the next (`kiosk_overlap` shows that they fail
otherwise). Neither property is inductive. Two facts are added: for the visitor one
thing at a time is under way, requests, then the launcher, then the stream page,
and the "Starting" screen covers the first two (`StartFits`); and there is at
most one stream page, whose session is the one that goes on (`OnePage`). The second needs
the first where a new page is pushed.

`KioskKeepsContract`: the kiosk uses sessions only as `SessionContract` allows,
whatever its launchers and the operator do. Together with `ContractIsKept` of
`SessionProofs` this is what composes the two modules.

### What is only model-checked

Liveness is out of the prover's reach, as is anything that needs `ENABLED`: the
properties about what must happen some day (`MovesOn`, `SessionsEnd`,
`ExitRequestKept`, `NobodyIsStuck`, `FramesAreTaken`, `ChangesReachDisk`,
`StartingEnds`, `CatalogComes`, `AgentRelearns`, `PollingEnds`,
`EveryoneAnswered`, `PageCatchesUp`) stay with TLC, and so does the absence of
deadlocks. Every other property of a passing run is a theorem.

The library's induction theorems take an operator as parameter, which the
installed provers cannot instantiate. Induction over queues and lists
(`SessionProofs`, `AppProofs`) is therefore done with sets: a non-empty set of
numbers has a least element (`LeastOf`), so a set that holds 0 and the successor
of what it holds has all numbers up to any bound (`Counting`), and a function
that is defined step by step exists (`Iteration`).

## 6. Where code and comments disagree

Three disagreements are runs (`pacer_stop`, `session_early_end`,
`kiosk_overlap`). Others were met while modelling; no property promises what the
comment says, or the model makes an assumption in its place:

* `pacer.h:10` announces a limit on outstanding frames. With a V-sync source
  and a slow renderer the Pacer holds six: two queues, one frame in hand, one deferred.
* `pacer.cpp:430`: the wakeup comes after the lock was dropped. It can announce a
  frame that was already taken, and `handleVsync()` (`:275`) then dequeues from an
  empty queue.
* `session.cpp:217` says that a change of the HDR mode is picked up when the
  decoder is created; one that comes between the read of the mode
  (`:2677`) and the release of the lock is lost.
* `session.cpp:1279` quits the app only after a graceful end. An error before
  `exec()` enters its loop is overwritten at `:2390`, and the app is quit.
* `session.h:180` says that only the first `stopSession()` does the work. The flag is tested and set
  without a lock (`session.cpp:1976`, `:2095`, `:2111`), so the signal thread and the
  main thread can both dispatch a cleanup. The model has the step; without
  the constraint `Apart` TLC finds it as a violation of `CleanupOnce`.
* `session.cpp:2122` says that the decoder is destroyed before `LiStopConnection()`.
  `handleSceneDecoderReset()` tests the flag (`:2048`) before it takes the lock
  (`:2055`); a `stopSession()` of the signal thread in between is followed by a new
  decoder, which outlives the connection and finds the bridge disabled. This too is in the
  model and excluded by `Apart` (`GivenBackInOrder`).
* `videoitem.h:41`: input is forwarded only while the stream is active. A late
  `connectionStarted()` or the cancelled PIN prompt switches it on again after
  `quitStarting()`.
* `appmodel.cpp:205` asserts that rows match the list. When an app is renamed
  under its id, its row is updated in its place (`:163`), and the search for it stops at the
  first greater name (`:192`) and may insert a second row; among equal names a new
  row goes last, whatever the list says. `Renamed` has these cases.
* `computermanager.cpp:530` deletes a host last "because the polling thread might
  be using it" and thinks of that thread only; a queued `computerStateChanged()`
  may still carry the host.
* `computermanager.cpp:212`: the flush thread can miss the interruption and the
  wakeup, as the render thread can in `pacer_stop`.
* `PendingQuitTask` asks nothing of a host it believes idle (`:660`), and its
  caller waits; `quit` of a host that is idle indeed is not answered when the
  host was online from the start.
