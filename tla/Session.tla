------------------------------ MODULE Session ------------------------------
(***************************************************************************)
(* The life of streaming sessions (app/streaming/session.cpp): start(),    *)
(* the connection thread, exec() with its two ways to run a stream, the    *)
(* end of a stream and DeferredSessionCleanupTask.                         *)
(*                                                                         *)
(* In scene mode exec() returns at once and the stream ends by             *)
(* stopSession(), run from the Qt event queue; otherwise exec() keeps the  *)
(* main thread in an SDL event loop until it takes SDL_QUIT.  Handlers of  *)
(* the main thread are single steps unless they block or another thread    *)
(* interferes in their middle: start() waits for the semaphore, exec()     *)
(* creates a decoder, the reset handler deletes one and creates another,   *)
(* stopSession() tests its flags before it acts.  Connection, listener,    *)
(* decoder, pool and signal threads interleave with them.                  *)
(*                                                                         *)
(* Nothing in the code keeps the signal thread out of stopSession() while  *)
(* the main thread is there or in the reset handler.  Spec lets them meet; *)
(* Apart says that they do not, and what is claimed under it says so.      *)
(***************************************************************************)
EXTENDS Naturals, Sequences, FiniteSets

CONSTANTS
  Sessions,  \* session objects; one is reused after its deletion
  None,
  MaxEvents  \* bound of the model: no window event follows so many SDL events

ASSUME NoneAssumption == None \notin Sessions

VARIABLES
  scene,      \* m_SceneMode, the same for all: the platform decides
  sess,       \* the fields of each Session and of its QML page
  active,     \* s_ActiveSession
  semaphore,  \* s_ActiveSessionSemaphore
  main,       \* where the main thread is, and for which session
  queue,      \* Qt events posted to the main thread
  sdl,        \* SDL: references to the video subsystem, event queue
  bridge,     \* QuickSinkBridge::m_Enabled
  quitAppAfter, \* the preference of this name
  exiting,    \* QCoreApplication::quit() was called
  signal      \* the signal thread: pc and the session it interrupts

vars == <<scene, sess, active, semaphore, main, queue, sdl, bridge, quitAppAfter,
          exiting, signal>>

-----------------------------------------------------------------------------
Pages == {"new", "initialized", "open", "popped"}

Fresh == [page |-> "new", conn |-> "none", link |-> "none",
          success |-> FALSE, interrupted |-> FALSE, unexpected |-> TRUE,
          terminated |-> "no", streaming |-> FALSE, cleaned |-> FALSE,
          decoder |-> "none", input |-> FALSE, flushing |-> 0,
          shouldExit |-> FALSE, tasks |-> <<>>]

Event(kind, s) == [kind |-> kind, session |-> s]
Post(kind, s) == queue' = Append(queue, Event(kind, s))

\* SDL_PushEvent(): nothing is queued while the subsystem is down.
Push(q, e) == IF q.refs = 0 THEN q ELSE [q EXCEPT !.events = Append(@, e)]

\* SDL_QuitSubSystem(SDL_INIT_VIDEO): the last reference empties the queue.
QuitVideo(q) == IF q.refs <= 1 THEN [refs |-> 0, events |-> <<>>]
                ELSE [q EXCEPT !.refs = @ - 1]

\* The input handler and the decoder are deleted.  A variant leaves the handler.
TornInputLeft(r) == [r EXCEPT !.decoder = "none"]
Torn(r) == [r EXCEPT !.input = FALSE, !.decoder = "none"]

\* QThreadPool::start(new DeferredSessionCleanupTask(this))
Dispatch(r) == [r EXCEPT !.tasks = Append(@, [pc |-> "queued", quit |-> FALSE])]

Idle(s) == main = [pc |-> "idle", session |-> None] /\ s \in Sessions /\ ~exiting
Return == main' = [pc |-> "idle", session |-> None]
At(pc, s) == main = [pc |-> pc, session |-> s] /\ s \in Sessions /\ ~exiting

Init ==
  /\ scene \in BOOLEAN
  /\ sess = [s \in Sessions |-> Fresh]
  /\ active = None /\ semaphore = 1
  /\ main = [pc |-> "idle", session |-> None]
  /\ queue = <<>>
  /\ sdl = [refs |-> 0, events |-> <<>>]
  /\ bridge = FALSE
  /\ quitAppAfter \in BOOLEAN
  /\ exiting = FALSE
  /\ signal = [pc |-> "idle", session |-> None]

-----------------------------------------------------------------------------
(* Starting a session *)

\* The stream page of s opens when no other page is open, and initialize()
\* takes a reference to SDL video (when it fails it leaves nothing behind).
\* A scene page starts the session in the same handler, the other by a timer.
Initialize(s) ==
  /\ Idle(s) /\ sess[s].page = "new"
  /\ \A t \in Sessions : sess[t].page \in {"new", "popped"}
  /\ sess' = [sess EXCEPT ![s].page = "initialized"]
  /\ sdl' = [sdl EXCEPT !.refs = @ + 1]
  /\ main' = IF scene THEN [pc |-> "acquire", session |-> s] ELSE main
  /\ UNCHANGED <<scene, active, semaphore, queue, bridge, quitAppAfter,
                 exiting, signal>>

\* startSessionTimer
StartTimer(s) ==
  /\ Idle(s) /\ sess[s].page = "initialized"
  /\ main' = [pc |-> "acquire", session |-> s]
  /\ UNCHANGED <<scene, sess, active, semaphore, queue, sdl, bridge,
                 quitAppAfter, exiting, signal>>

\* start(), once it has the semaphore.
Start(s) ==
  /\ At("acquire", s) /\ semaphore > 0
  /\ semaphore' = semaphore - 1
  /\ active' = s
  /\ sess' = [sess EXCEPT ![s].page = "open", ![s].input = TRUE,
                          ![s].conn = "starting"]
  /\ Return
  /\ UNCHANGED <<scene, queue, sdl, bridge, quitAppAfter, exiting, signal>>

\* The finished thread has exec() queued.
PostExec(s) == Post("exec", s)

\* startConnectionAsync() fails: the launch request, a stage, or an
\* interruption.
ConnectionFailed(s) ==
  /\ sess[s].conn = "starting"
  /\ sess' = [sess EXCEPT ![s].conn = "finished"]
  /\ PostExec(s)
  /\ UNCHANGED <<scene, active, semaphore, main, sdl, bridge, quitAppAfter,
                 exiting, signal>>

\* LiStartConnection() succeeds: the listener callbacks may come from now on.
ConnectionUp(s) ==
  /\ sess[s].conn = "starting" /\ ~sess[s].interrupted
  /\ sess' = [sess EXCEPT ![s].conn = "connected", ![s].link = "up"]
  /\ UNCHANGED <<scene, active, semaphore, main, queue, sdl, bridge,
                 quitAppAfter, exiting, signal>>

\* AsyncConnectionStartThread::run() returns after a success.
ConnectionReturned(s) ==
  /\ sess[s].conn = "connected"
  /\ sess' = [sess EXCEPT ![s].conn = "finished", ![s].success = TRUE]
  /\ PostExec(s)
  /\ UNCHANGED <<scene, active, semaphore, main, sdl, bridge, quitAppAfter,
                 exiting, signal>>

\* clConnectionTerminated(), at most once per connection, on the listener
\* thread: every code but the graceful one counts as unexpected.
TerminationPush(q) == Push(q, "quit")

ClConnectionTerminated(s) ==
  /\ sess[s].link = "up" /\ sess[s].terminated = "no"
  /\ \E code \in {"graceful", "error"} :
       sess' = [sess EXCEPT ![s].terminated = code,
                            ![s].unexpected = @ \/ code = "error"]
  /\ \/ scene /\ Post("terminated", s) /\ UNCHANGED sdl
     \/ ~scene /\ sdl' = TerminationPush(sdl) /\ UNCHANGED queue
  /\ UNCHANGED <<scene, active, semaphore, main, bridge, quitAppAfter,
                 exiting, signal>>

-----------------------------------------------------------------------------
(* The end of a stream *)

\* The cleanup of stopSession() itself.
DisabledBridge(b) == FALSE

EndStream(s, r) ==
  /\ sess' = [sess EXCEPT ![s] = Dispatch(Torn([r EXCEPT !.cleaned = TRUE]))]
  /\ bridge' = DisabledBridge(bridge)
  /\ sdl' = QuitVideo(sdl)

\* Only the first call performs it.  A variant does not look.
CleanupIgnored(r) == FALSE
CleanupBegun(r) == r.cleaned

\* stopSession() on the main thread up to the tests of its flags; the cleanup is
\* a step of its own.
StopSession(s) ==
  /\ \/ CleanupBegun(sess[s]) /\ UNCHANGED sess /\ Return
     \/ /\ ~CleanupBegun(sess[s]) /\ ~sess[s].streaming
        /\ sess' = [sess EXCEPT ![s].interrupted = TRUE]
        /\ Return
     \/ /\ ~CleanupBegun(sess[s]) /\ sess[s].streaming
        /\ main' = [pc |-> "stopping", session |-> s]
        /\ UNCHANGED sess
  /\ UNCHANGED <<bridge, sdl>>

\* The operator ends the stream from the page.
UserStop(s) ==
  /\ scene /\ Idle(s) /\ sess[s].page = "open"
  /\ StopSession(s)
  /\ UNCHANGED <<scene, active, semaphore, queue, quitAppAfter, exiting, signal>>

\* What stopSession() does once it has found a stream to end.
StopStream(s) ==
  /\ At("stopping", s)
  /\ EndStream(s, sess[s])
  /\ Return
  /\ UNCHANGED <<scene, active, semaphore, queue, quitAppAfter, exiting, signal>>

-----------------------------------------------------------------------------
(* Events of the Qt queue *)

Take(kind, s) == /\ Idle(s) /\ queue # <<>> /\ Head(queue) = Event(kind, s)
                 /\ queue' = Tail(queue)

\* exec() when the connection failed.
QuitVideoOnFailure(q) == QuitVideo(q)

ExecFailed(s) ==
  /\ Take("exec", s) /\ ~sess[s].success
  /\ sess' = [sess EXCEPT ![s] =
                Dispatch(Torn([sess[s] EXCEPT !.cleaned = @ \/ scene]))]
  /\ sdl' = QuitVideoOnFailure(sdl)
  /\ UNCHANGED <<scene, active, semaphore, main, bridge, quitAppAfter,
                 exiting, signal>>

\* exec() in scene mode, up to the creation of the decoder.
ExecScene(s) ==
  /\ Take("exec", s) /\ sess[s].success /\ scene
  /\ IF sess[s].cleaned
     THEN UNCHANGED <<sess, main, bridge>>
     ELSE /\ sess' = [sess EXCEPT ![s].streaming = TRUE]
          /\ bridge' = TRUE
          /\ main' = [pc |-> "creating", session |-> s]
  /\ UNCHANGED <<scene, active, semaphore, sdl, quitAppAfter, exiting,
                 signal>>

\* ... and the rest, after chooseDecoder().
ExecSceneDecoder(s) ==
  /\ At("creating", s)
  /\ \/ /\ sess' = [sess EXCEPT ![s].decoder = "ok", ![s].unexpected = FALSE]
        /\ UNCHANGED <<bridge, sdl>>
        /\ Return
     \/ StopSession(s)
  /\ UNCHANGED <<scene, active, semaphore, queue, quitAppAfter, exiting,
                 signal>>

\* exec() otherwise: the main thread enters the SDL event loop, where the
\* new window shows up first, unless there is no window.
ExecWindow(s) ==
  /\ Take("exec", s) /\ sess[s].success /\ ~scene
  /\ \/ /\ sess' = [sess EXCEPT ![s].unexpected = FALSE]
        /\ sdl' = Push(sdl, "window")
        /\ main' = [pc |-> "loop", session |-> s]
     \/ /\ sess' = [sess EXCEPT ![s] = Dispatch(Torn(@))]
        /\ sdl' = QuitVideo(sdl)
        /\ UNCHANGED main
  /\ UNCHANGED <<scene, active, semaphore, bridge, quitAppAfter, exiting,
                 signal>>

HandleSceneConnectionTermination(s) ==
  /\ Take("terminated", s)
  /\ StopSession(s)
  /\ UNCHANGED <<scene, active, semaphore, quitAppAfter, exiting, signal>>

\* handleSceneDecoderReset() looks at m_SceneCleanupDone,
ResetStillWanted(r) == ~r.cleaned

HandleSceneDecoderReset(s) ==
  /\ Take("reset", s)
  /\ main' = IF ResetStillWanted(sess[s])
             THEN [pc |-> "resetting", session |-> s] ELSE main
  /\ UNCHANGED <<scene, sess, active, semaphore, sdl, bridge, quitAppAfter,
                 exiting, signal>>

\* ... deletes the decoder under its lock,
DeleteDecoder(s) ==
  /\ At("resetting", s)
  /\ sess' = [sess EXCEPT ![s].decoder = "none"]
  /\ main' = [pc |-> "recreating", session |-> s]
  /\ UNCHANGED <<scene, active, semaphore, queue, sdl, bridge, quitAppAfter,
                 exiting, signal>>

\* ... and creates another, or stops.
RecreateDecoder(s) ==
  /\ At("recreating", s)
  /\ \/ /\ sess' = [sess EXCEPT ![s].decoder = "ok"]
        /\ UNCHANGED <<bridge, sdl>>
        /\ Return
     \/ StopSession(s)
  /\ UNCHANGED <<scene, active, semaphore, queue, quitAppAfter, exiting,
                 signal>>

\* sessionFinished(): the page pops and gamepad navigation resumes.
SessionFinished(s) ==
  /\ Take("finished", s)
  /\ sess' = [sess EXCEPT ![s].page = "popped"]
  /\ UNCHANGED <<scene, active, semaphore, main, sdl, bridge, quitAppAfter,
                 exiting, signal>>

\* readyForDeletion(): the object is deleted.
SessionReadyForDeletion(s) ==
  /\ Take("ready", s)
  /\ sess' = [sess EXCEPT ![s] = Fresh]
  /\ UNCHANGED <<scene, active, semaphore, main, sdl, bridge, quitAppAfter,
                 exiting, signal>>

-----------------------------------------------------------------------------
(* The SDL event loop *)

NextIs(e) == sdl.events # <<>> /\ Head(sdl.events) = e
Rest == [sdl EXCEPT !.events = Tail(@)]

\* DispatchDeferredCleanup, with the session's fields and SDL as they are.
DispatchDeferredCleanup(s, r, q) ==
  /\ sess' = [sess EXCEPT ![s] = Dispatch(Torn(r))]
  /\ sdl' = QuitVideo(q)
  /\ Return

LoopQuit(s) ==
  /\ At("loop", s) /\ NextIs("quit")
  /\ DispatchDeferredCleanup(s, sess[s], Rest)
  /\ UNCHANGED <<scene, active, semaphore, queue, bridge, quitAppAfter,
                 exiting, signal>>

\* The barrier of flushWindowEvents() comes back.
LoopBarrier(s) ==
  /\ At("loop", s) /\ NextIs("barrier")
  /\ sess' = [sess EXCEPT ![s].flushing = @ - 1]
  /\ sdl' = Rest
  /\ UNCHANGED <<scene, active, semaphore, main, queue, bridge,
                 quitAppAfter, exiting, signal>>

\* A window event that is dropped while flushing, or that the decoder copes
\* with by itself.
LoopWindowIgnored(s) ==
  /\ At("loop", s) /\ NextIs("window")
  /\ sess[s].flushing > 0 \/ sess[s].decoder # "none"
  /\ sdl' = Rest
  /\ UNCHANGED <<scene, sess, active, semaphore, main, queue, bridge,
                 quitAppAfter, exiting, signal>>

\* The first n events but for SDL_RENDER_DEVICE_RESET, one after the other.
Unflushed(events) ==
  LET kept[n \in 0..Len(events)] ==
        IF n = 0 THEN <<>>
        ELSE IF events[n] = "reset" THEN kept[n - 1]
        ELSE Append(kept[n - 1], events[n])
  IN kept

\* SDL_FlushEvent(SDL_RENDER_DEVICE_RESET).  A variant leaves the requests of
\* the destroyed decoder.
ResetsNotFlushed(q) == q
FlushResets(q) == [q EXCEPT !.events = Unflushed(@)[Len(@)]]

\* m_FlushingWindowEventsRef++
Flushing(r) == [r EXCEPT !.flushing = @ + 1]

\* SDL_RENDER_DEVICE_RESET, or a window event that changes too much: the
\* decoder is replaced, later window events are discarded up to a barrier.
LoopRecreate(s) ==
  /\ At("loop", s)
  /\ NextIs("reset") \/ (NextIs("window") /\ sess[s].flushing = 0)
  /\ LET q == FlushResets(Push(Rest, "barrier"))
         r == Flushing(sess[s])
     IN \/ /\ sess' = [sess EXCEPT ![s] = [r EXCEPT !.decoder = "ok"]]
           /\ sdl' = q
           /\ UNCHANGED main
        \/ DispatchDeferredCleanup(s, r, q)
  /\ UNCHANGED <<scene, active, semaphore, queue, bridge, quitAppAfter,
                 exiting, signal>>

\* The visitor quits from within the loop: the exit menu and the key combos
\* push SDL_QUIT, some after setShouldExit().
LoopUserQuit(s) ==
  /\ At("loop", s) /\ "quit" \notin {sdl.events[i] : i \in DOMAIN sdl.events}
  /\ \/ UNCHANGED <<sess, quitAppAfter>>
     \/ /\ sess' = [sess EXCEPT ![s].shouldExit = TRUE]
        /\ quitAppAfter' \in {quitAppAfter, TRUE}
  /\ sdl' = Push(sdl, "quit")
  /\ UNCHANGED <<scene, active, semaphore, main, queue, bridge, exiting,
                 signal>>

\* The window changes (moved to another display, resized, restored).
WindowEvent(s) ==
  /\ At("loop", s) /\ Len(sdl.events) < MaxEvents
  /\ sdl' = Push(sdl, "window")
  /\ UNCHANGED <<scene, sess, active, semaphore, main, queue, bridge,
                 quitAppAfter, exiting, signal>>

\* The decoder thread gives up after consecutive failures and asks for its
\* replacement.
GivesUp(d) == "faulted"
RequestDecoderReset(s) ==
  /\ sess[s].decoder = "ok"
  /\ sess' = [sess EXCEPT ![s].decoder = GivesUp(@)]
  /\ \/ scene /\ Post("reset", s) /\ UNCHANGED sdl
     \/ ~scene /\ sdl' = Push(sdl, "reset") /\ UNCHANGED queue
  /\ UNCHANGED <<scene, active, semaphore, main, bridge, quitAppAfter,
                 exiting, signal>>

-----------------------------------------------------------------------------
(* DeferredSessionCleanupTask, on the thread pool *)

TaskAt(s, i, pc) == i \in DOMAIN sess[s].tasks /\ sess[s].tasks[i].pc = pc

\* run() decides whether to quit the host's app and tells the page.
TaskNotify(s) == \E i \in 1..2 :
  /\ TaskAt(s, i, "queued")
  /\ LET quit == ~sess[s].unexpected /\ quitAppAfter
     IN /\ sess' = [sess EXCEPT ![s].tasks[i] = [pc |-> "notified", quit |-> quit]]
        /\ IF quit THEN UNCHANGED queue ELSE Post("finished", s)
  /\ UNCHANGED <<scene, active, semaphore, main, sdl, bridge, quitAppAfter,
                 exiting, signal>>

\* LiStopConnection() joins the listener thread.
TaskStopConnection(s) == \E i \in 1..2 :
  /\ TaskAt(s, i, "notified")
  /\ sess' = [sess EXCEPT ![s].tasks[i].pc = "stopped", ![s].link = "stopped"]
  /\ UNCHANGED <<scene, active, semaphore, main, queue, sdl, bridge,
                 quitAppAfter, exiting, signal>>

\* quitApp(), if wanted, then quit() of the whole program, if requested.  A
\* variant exits only after quitting the host's app.
ExitIfQuit(r, i) == r.shouldExit /\ r.tasks[i].quit
ExitWanted(r, i) == r.shouldExit

TaskQuitApp(s) == \E i \in 1..2 :
  /\ TaskAt(s, i, "stopped")
  /\ sess' = [sess EXCEPT ![s].tasks[i].pc = "ended"]
  /\ IF sess[s].tasks[i].quit THEN Post("finished", s) ELSE UNCHANGED queue
  /\ exiting' = (exiting \/ ExitWanted(sess[s], i))
  /\ UNCHANGED <<scene, active, semaphore, main, sdl, bridge, quitAppAfter,
                 signal>>

\* The destructor.  A variant runs it before the connection is stopped;
\* another keeps the semaphore.
FinishableEarly == "notified"
Finishable == "ended"
ReleaseForgotten == semaphore' = semaphore
Release == semaphore' = semaphore + 1

TaskDone(s) == \E i \in 1..2 :
  /\ TaskAt(s, i, Finishable)
  /\ sess' = [sess EXCEPT ![s].tasks[i].pc = "done"]
  /\ active' = None
  /\ Release
  /\ Post("ready", s)
  /\ UNCHANGED <<scene, main, sdl, bridge, quitAppAfter, exiting, signal>>

-----------------------------------------------------------------------------
(* The signal thread of main.cpp *)

\* A signal interrupts the active session, once; SIGTERM also asks to exit.
\* In scene mode interrupt() runs stopSession() on this thread: its test of
\* m_SceneCleanupDone and its effects are two steps.  The second needs the
\* decoder's lock.
Interrupt ==
  /\ signal.pc = "idle" /\ active # None /\ signal.session # active
  /\ \E term \in BOOLEAN :
       sess' = [sess EXCEPT ![active].interrupted = TRUE,
                            ![active].shouldExit = @ \/ term]
  /\ sdl' = IF scene THEN sdl ELSE Push(sdl, "quit")
  /\ signal' = [session |-> active,
                pc |-> IF /\ scene /\ sess[active].decoder # "none"
                          /\ sess[active].streaming /\ ~sess[active].cleaned
                       THEN "stopping" ELSE "idle"]
  /\ UNCHANGED <<scene, active, semaphore, main, queue, bridge,
                 quitAppAfter, exiting>>

InterruptStops ==
  /\ signal.pc = "stopping" /\ main.pc # "recreating"
  /\ EndStream(signal.session, sess[signal.session])
  /\ signal' = [signal EXCEPT !.pc = "idle"]
  /\ UNCHANGED <<scene, active, semaphore, main, queue, quitAppAfter,
                 exiting>>

\* The process is gone.
Exited == exiting /\ UNCHANGED vars

\* What the main thread does by itself, and what it does when users and the
\* window system want it.
MainStep(s) ==
  \/ StartTimer(s) \/ Start(s)
  \/ ExecFailed(s) \/ ExecScene(s) \/ ExecSceneDecoder(s) \/ ExecWindow(s)
  \/ StopStream(s) \/ HandleSceneConnectionTermination(s)
  \/ HandleSceneDecoderReset(s) \/ DeleteDecoder(s) \/ RecreateDecoder(s)
  \/ SessionFinished(s) \/ SessionReadyForDeletion(s)
  \/ LoopQuit(s) \/ LoopBarrier(s) \/ LoopWindowIgnored(s)
  \/ LoopRecreate(s)

UserStep(s) ==
  Initialize(s) \/ UserStop(s) \/ LoopUserQuit(s) \/ WindowEvent(s)

ConnectionStep(s) ==
  ConnectionFailed(s) \/ ConnectionUp(s) \/ ConnectionReturned(s)

TaskStep(s) ==
  TaskNotify(s) \/ TaskStopConnection(s) \/ TaskQuitApp(s) \/ TaskDone(s)

Next ==
  \/ \E s \in Sessions :
       \/ MainStep(s) \/ UserStep(s) \/ ConnectionStep(s) \/ TaskStep(s)
       \/ ClConnectionTerminated(s) \/ RequestDecoderReset(s)
  \/ Interrupt \/ InterruptStops \/ Exited

Spec == Init /\ [][Next]_vars

\* The main thread, the connection thread and the pool always go on; nobody
\* has to open a page, end a stream or end a connection.
Fairness ==
  /\ WF_vars(\E s \in Sessions : MainStep(s))
  /\ WF_vars(InterruptStops)
  /\ \A s \in Sessions : /\ WF_vars(ConnectionStep(s))
                         /\ WF_vars(TaskStep(s))
FairSpec == Spec /\ Fairness

\* An assumption about what the code leaves to chance: a signal does not come
\* between the main thread's tests in stopSession() or handleSceneDecoderReset()
\* and what these do, nor the other way round.  (interrupt() runs stopSession()
\* on the signal thread, m_SceneCleanupDone is tested and set without a lock.)
Apart == signal.pc = "stopping" => main.pc \notin {"stopping", "resetting"}

-----------------------------------------------------------------------------
(* Safety *)

Kinds == {"exec", "terminated", "reset", "finished", "ready"}
Tasks == [pc : {"queued", "notified", "stopped", "ended", "done"}, quit : BOOLEAN]
Fields == [page : Pages, conn : {"none", "starting", "connected", "finished"},
           link : {"none", "up", "stopped"}, success : BOOLEAN,
           interrupted : BOOLEAN, unexpected : BOOLEAN,
           terminated : {"no", "graceful", "error"}, streaming : BOOLEAN,
           cleaned : BOOLEAN, decoder : {"none", "ok", "faulted"},
           input : BOOLEAN, flushing : Nat, shouldExit : BOOLEAN,
           tasks : Seq(Tasks)]

\* The state has the types of the code's fields; the semaphore is binary and
\* a window-event barrier is never answered twice (flushing never negative).
TypeOK ==
  /\ scene \in BOOLEAN
  /\ sess \in [Sessions -> Fields]
  /\ active \in Sessions \cup {None}
  /\ semaphore \in {0, 1}
  /\ main \in [pc : {"idle", "acquire", "creating", "loop", "stopping",
                     "resetting", "recreating"},
               session : Sessions \cup {None}]
  /\ queue \in Seq([kind : Kinds, session : Sessions])
  /\ sdl \in [refs : Nat, events : Seq({"quit", "window", "barrier", "reset"})]
  /\ bridge \in BOOLEAN /\ quitAppAfter \in BOOLEAN /\ exiting \in BOOLEAN
  /\ signal \in [pc : {"idle", "stopping"}, session : Sessions \cup {None}]

\* However a session ends -- failed connection, user, host, decoder, and a
\* signal as long as Apart -- its cleanup is dispatched once (session.h: "only
\* the first call does the work"; m_SceneCleanupDone, exec()'s exits).  Without
\* Apart it is not: two threads can both find the flag unset.
CleanupOnce == \A s \in Sessions : Len(sess[s].tasks) <= 1

\* The listener callbacks and the connection thread use s_ActiveSession: while
\* they may run for a session it is the active one.
CallbacksSeeTheirSession ==
  \A s \in Sessions :
    sess[s].link = "up" \/ sess[s].conn \in {"starting", "connected"}
      => active = s

\* A decoder only lives between LiStartConnection() and LiStopConnection()
\* ("This must happen before LiStopConnection()", stopSession()).
DecoderNeedsConnection ==
  \A s \in Sessions : sess[s].decoder # "none" => sess[s].link = "up"

\* ... and never outlasts the input handler.
DecoderNeedsInput ==
  \A s \in Sessions : sess[s].decoder # "none" => sess[s].input

\* Gamepad navigation resumes only after the input handler is gone.
InputGoneBeforeNavigation ==
  \A s \in Sessions : sess[s].page = "popped" => ~sess[s].input

\* Frames are routed to the scene graph exactly while a scene stream runs.
BridgeFollowsStream ==
  bridge <=> \E s \in Sessions : sess[s].streaming /\ ~sess[s].cleaned

\* Every reference to SDL video taken by initialize() is given back once.
VideoBalanced ==
  sdl.refs = Cardinality({s \in Sessions : /\ sess[s].page # "new"
                                           /\ sess[s].tasks = <<>>})

\* Whatever ends a stream, its parts are given back in order: the decoder
\* before the connection and the input handler, that before the navigation
\* resumes, the bridge with the stream, SDL's video once (stopSession(), the
\* exits of exec() and DeferredSessionCleanupTask).  This too is claimed under
\* Apart: a signal inside handleSceneDecoderReset() leaves a decoder behind.
GivenBackInOrder ==
  /\ DecoderNeedsConnection /\ DecoderNeedsInput /\ InputGoneBeforeNavigation
  /\ BridgeFollowsStream /\ VideoBalanced

\* A decoder is only replaced on a request when it made that request itself,
\* not its predecessor.
ResetsAreWanted ==
  /\ \A i \in DOMAIN sdl.events :
       sdl.events[i] = "reset" /\ main.pc = "loop"
         => sess[main.session].decoder = "faulted"
  /\ \A s \in Sessions :
       (\E i \in DOMAIN queue : queue[i] = Event("reset", s)) /\ ~sess[s].cleaned
         => sess[s].decoder = "faulted"

\* Window events are discarded only as long as a barrier is in the queue.
FlushBalanced ==
  main.pc = "loop" =>
    sess[main.session].flushing =
      Cardinality({i \in DOMAIN sdl.events : sdl.events[i] = "barrier"})

\* Nothing is queued for a session that is deleted or not started yet: the
\* queued calls of exec(), the termination and the reset come before
\* readyForDeletion(), whatever threads they come from.
QueuedCallsFindTheirSession ==
  \A i \in DOMAIN queue : sess[queue[i].session].page \in {"open", "popped"}

\* What is queued still fits the state when it is handled: resets, barriers,
\* calls and the types of everything (exec(), handleSceneDecoderReset()).
Consistent ==
  TypeOK /\ ResetsAreWanted /\ FlushBalanced /\ QueuedCallsFindTheirSession

-----------------------------------------------------------------------------
(* The contract of the pages *)

\* A stream page sees no more of a session than its phase.
Phase(s) ==
  IF main = [pc |-> "acquire", session |-> s] THEN "waiting"
  ELSE IF sess[s].page = "popped" THEN "finished"
  ELSE IF sess[s].page # "open" THEN "none"
  ELSE IF sess[s].tasks = <<>> THEN "open" ELSE "ending"

Contract == INSTANCE SessionContract
              WITH phase <- [s \in Sessions |-> Phase(s)], holder <- active

\* Sessions keep the contract the kiosk relies on: one at a time is active,
\* ends are announced once, and only to a GUI thread that is not blocked (ends
\* by signals as long as Apart).
KeepsContract == Contract!Spec

-----------------------------------------------------------------------------
(* Liveness *)

\* start() gets the semaphore: the GUI does not hang.
BlockedStartProceeds == (main.pc = "acquire") ~> (main.pc # "acquire" \/ exiting)

\* A session that the host or a stop request ends before its stream started
\* comes to an end (session.cpp:2102, 2173).
EarlyEndIsFinal ==
  \A s \in Sessions :
    (~sess[s].streaming /\ (sess[s].interrupted \/ sess[s].terminated # "no"))
      ~> (sess[s].page # "open" \/ exiting)

\* ... and one that has an SDL window ends after any termination or signal.
WindowedSessionEnds ==
  \A s \in Sessions :
    (~scene /\ (sess[s].interrupted \/ sess[s].terminated # "no"))
      ~> (sess[s].page # "open" \/ exiting)

\* A running scene stream ends when the host ends it or a signal does.
SceneStreamEnds ==
  \A s \in Sessions :
    (/\ sess[s].streaming
     /\ \/ \E i \in DOMAIN queue : queue[i] = Event("terminated", s)
        \/ signal = [pc |-> "stopping", session |-> s])
      ~> (sess[s].page # "open" \/ exiting)

\* The GUI thread does not hang in start(), and a stream that is ended ends
\* (exec(), stopSession() and the release of the semaphore).
SessionsEnd == BlockedStartProceeds /\ WindowedSessionEnds /\ SceneStreamEnds

\* With an SDL window, a session that is asked to exit the program before its
\* cleanup began does so.
ExitRequestKept ==
  \A s \in Sessions :
    (~scene /\ sess[s].shouldExit /\ sess[s].tasks = <<>>) ~> exiting
=============================================================================
