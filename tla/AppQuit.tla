-------------------------------- MODULE AppQuit --------------------------------
(***************************************************************************)
(* What the answers of one host tell, and who waits for it to be idle: the *)
(* quit page (QuitSegue.qml), `quit` (cli/quitstream.cpp) and `stream`     *)
(* with its app to be quit first (cli/startstream.cpp).                    *)
(* PendingQuitTask asks the host, but success is only seen by polling:     *)
(* handleComputerStateChanged() answers once the list shows no app.        *)
(*                                                                         *)
(* ComputerManager.tla models references, adding and deleting; here the    *)
(* host stays, and an interrupted thread may still apply an old answer.    *)
(***************************************************************************)
EXTENDS Naturals, FiniteSets

CONSTANTS
  Threads, \* PcMonitorThread objects, reused when finished
  Tasks    \* bound of the model: PendingQuitTasks at a time

VARIABLES
  host,      \* NvComputer: state, currentGameId, appList, pendingQuit
  thread,    \* the polling threads
  signalled, \* a computerStateChanged is queued for the main thread
  task,      \* the PendingQuitTasks
  failed,    \* a quitAppFailed is queued for the main thread
  waiter,    \* who waits: the page, `quit`, or `stream` in StateSeekApp with
             \* its timer running ("seekApp") or stopped ("quitApp")
  game       \* external: whether the PC runs an app that is in the way

vars == <<host, thread, signalled, task, failed, waiter, game>>

NoThread == [at |-> "none", interrupted |-> FALSE]
Answer == IF game THEN "busy" ELSE "idle"

Init ==
  /\ \E apps \in BOOLEAN :
       host = [online |-> FALSE, game |-> FALSE, apps |-> apps, pendingQuit |-> FALSE]
  /\ thread = [t \in Threads |-> NoThread]
  /\ signalled = FALSE /\ failed = FALSE
  /\ task = [q \in Tasks |-> "none"]
  /\ waiter = "none"
  /\ game \in BOOLEAN

-----------------------------------------------------------------------------
(* Polling *)

Polled == \E t \in Threads : thread[t].at # "none" /\ ~thread[t].interrupted

\* The first reference starts a thread; the last one interrupts it.
Running(t) == thread[t].at # "none"

StartPolling ==
  /\ ~Polled
  /\ \E t \in Threads : /\ thread[t].at = "none"
                        /\ thread' = [thread EXCEPT ![t].at = "loop"]
  /\ UNCHANGED <<host, signalled, task, failed, waiter, game>>

StopPolling ==
  /\ Polled
  /\ thread' = [t \in Threads |-> [thread[t] EXCEPT !.interrupted = Running(t)]]
  /\ UNCHANGED <<host, signalled, task, failed, waiter, game>>

ThreadEnds(t) ==
  /\ thread[t].at = "loop" /\ thread[t].interrupted
  /\ thread' = [thread EXCEPT ![t] = NoThread]
  /\ UNCHANGED <<host, signalled, task, failed, waiter, game>>

\* tryPollComputer(): the request is answered ...
Ask(t) ==
  /\ thread[t].at = "loop" /\ ~thread[t].interrupted
  /\ thread' = [thread EXCEPT ![t].at = Answer]
  /\ UNCHANGED <<host, signalled, task, failed, waiter, game>>

\* A change is announced.  A variant announces only that the host is online.
\* (One queued signal is kept: the next finds the same state.)
OnlineOnly(r) == r.online # host.online
Announced(r) == r # host

\* currentGameId is told.
GameTold(t) == thread[t].at = "busy"

\* ... and applied later, with the app list when that is fetched too.
Apply(t) ==
  /\ thread[t].at \in {"idle", "busy"}
  /\ \E apps \in {host.apps, TRUE} :
       LET r == [host EXCEPT !.online = TRUE, !.game = GameTold(t),
                             !.apps = apps]
       IN host' = r /\ signalled' = (signalled \/ Announced(r))
  /\ thread' = [thread EXCEPT ![t].at = "loop"]
  /\ UNCHANGED <<task, failed, waiter, game>>

\* A round that nothing answers.
PollFails(t) ==
  /\ thread[t].at = "loop" /\ ~thread[t].interrupted
  /\ host' = [host EXCEPT !.online = FALSE]
  /\ signalled' = (signalled \/ host.online)
  /\ UNCHANGED <<thread, task, failed, waiter, game>>

-----------------------------------------------------------------------------
(* Quitting *)

Free == {q \in Tasks : task[q] = "none"}

\* quitRunningApp() on the main thread.
QuitRunningApp(r) ==
  \E q \in Free : /\ task' = [task EXCEPT ![q] = "queued"]
                  /\ host' = [r EXCEPT !.pendingQuit = TRUE]

\* The list shows an app, and the user quits it.
PageQuits ==
  /\ waiter = "none" /\ host.game /\ waiter' = "page"
  /\ QuitRunningApp(host)
  /\ UNCHANGED <<thread, signalled, failed, game>>

\* `quit` finds its host online.
CommandQuits ==
  /\ waiter = "none" /\ host.online /\ waiter' = "quit"
  /\ QuitRunningApp(host)
  /\ UNCHANGED <<thread, signalled, failed, game>>

\* PendingQuitTask: nothing is asked of a host that is thought idle.
TaskAsks(q) ==
  /\ task[q] = "queued"
  /\ task' = [task EXCEPT ![q] = IF host.game THEN "asking" ELSE "none"]
  /\ UNCHANGED <<host, thread, signalled, failed, waiter, game>>

\* quitApp() returns when the host is seen idle,
TaskSucceeds(q) ==
  /\ task[q] = "asking" /\ task' = [task EXCEPT ![q] = "none"]
  /\ game' = FALSE
  /\ UNCHANGED <<host, thread, signalled, failed, waiter>>

\* or throws, whether or not the app was quit.  A variant tells nobody.
Untold == failed
Told == TRUE
TaskFails(q) ==
  /\ task[q] = "asking" /\ task' = [task EXCEPT ![q] = "none"]
  /\ host' = [host EXCEPT !.pendingQuit = FALSE]
  /\ failed' = Told
  /\ game' \in {game, FALSE}
  /\ UNCHANGED <<thread, signalled, waiter>>

-----------------------------------------------------------------------------
(* The main thread *)

\* ComputerUpdated in StateSeekApp, the timer being stopped once the app is in
\* the list: the session starts, or the app is quit, again if need be
\* (m_ForceQuit).
LauncherUpdated(w) ==
  IF ~host.apps THEN waiter' = w /\ UNCHANGED <<host, task>>
  ELSE IF ~host.game THEN waiter' = "none" /\ UNCHANGED <<host, task>>
  ELSE waiter' = "quitApp" /\ QuitRunningApp(host)

\* `stream` finds its host online, and looks at the list at once.
StreamFindsHost ==
  /\ waiter = "none" /\ host.online
  /\ LauncherUpdated("seekApp")
  /\ UNCHANGED <<thread, signalled, failed, game>>

AppSeekTimeout ==
  /\ waiter = "seekApp" /\ waiter' = "none"
  /\ UNCHANGED <<host, thread, signalled, task, failed, game>>

\* A launcher listens before and after it has asked for the quit.
Listening == waiter \in {"seekApp", "quitApp"}

\* handleComputerStateChanged(): a launcher that listens quits the app or
\* starts; with the app gone, the pending quit is answered.
HandleComputerStateChanged ==
  /\ signalled /\ signalled' = FALSE
  /\ \/ /\ host.game
        /\ IF Listening THEN LauncherUpdated(waiter) ELSE UNCHANGED <<host, task, waiter>>
     \/ /\ ~host.game
        /\ host' = [host EXCEPT !.pendingQuit = FALSE]
        /\ waiter' = IF \/ Listening /\ host.apps
                        \/ waiter \in {"page", "quit"} /\ host.pendingQuit
                     THEN "none" ELSE waiter
        /\ UNCHANGED task
  /\ UNCHANGED <<thread, failed, game>>

\* quitAppCompleted with an error, for whoever listens.
HandleQuitFailed ==
  /\ failed /\ failed' = FALSE
  /\ waiter' = "none"
  /\ UNCHANGED <<host, thread, signalled, task, game>>

-----------------------------------------------------------------------------
(* The host (external): its app ends; nobody starts another while somebody   *)
(* waits for it to be idle                                                   *)

GameChanges ==
  /\ game' = ~game /\ (waiter = "none" \/ game)
  /\ UNCHANGED <<host, thread, signalled, task, failed, waiter>>

-----------------------------------------------------------------------------
ThreadStep(t) == ThreadEnds(t) \/ Ask(t) \/ Apply(t)
TaskStep(q) == TaskAsks(q) \/ TaskSucceeds(q) \/ TaskFails(q)
UserStep == StartPolling \/ StopPolling \/ PageQuits \/ CommandQuits \/ StreamFindsHost

Next ==
  \/ \E t \in Threads : ThreadStep(t) \/ PollFails(t)
  \/ \E q \in Tasks : TaskStep(q)
  \/ HandleComputerStateChanged \/ HandleQuitFailed \/ AppSeekTimeout
  \/ UserStep \/ GameChanges

Spec == Init /\ [][Next]_vars

\* Threads and requests end, the event loop and its timer go on, and a host
\* that is polled again and again answers now and then.
Fairness ==
  /\ \A t \in Threads : WF_vars(ThreadStep(t)) /\ SF_vars(Ask(t))
  /\ \A q \in Tasks : WF_vars(TaskStep(q))
  /\ WF_vars(HandleComputerStateChanged) /\ WF_vars(HandleQuitFailed)
  /\ WF_vars(AppSeekTimeout)
FairSpec == Spec /\ Fairness

-----------------------------------------------------------------------------
(* Safety *)

\* The state has the types of the code's fields; a thread is not interrupted
\* before it runs.
TypeOK ==
  /\ host \in [online : BOOLEAN, game : BOOLEAN, apps : BOOLEAN, pendingQuit : BOOLEAN]
  /\ thread \in [Threads -> [at : {"none", "loop", "idle", "busy"}, interrupted : BOOLEAN]]
  /\ \A t \in Threads : thread[t].at = "none" => ~thread[t].interrupted
  /\ signalled \in BOOLEAN /\ failed \in BOOLEAN /\ game \in BOOLEAN
  /\ task \in [Tasks -> {"none", "queued", "asking"}]
  /\ waiter \in {"none", "page", "quit", "seekApp", "quitApp"}

\* The page and `quit` have no timeout: as long as they wait a success or a
\* failure can still reach them, whatever happens to the tasks.
CanBeAnswered == waiter \in {"page", "quit"} => host.pendingQuit \/ failed

\* Who waits and what is pending fit together (pendingQuit, quitAppFailed).
Consistent == TypeOK /\ CanBeAnswered

-----------------------------------------------------------------------------
(* Liveness, while the host is polled *)

\* The page and `quit` get their answer if the list shows the app they quit and
\* the host gets rid of it.  (A task that finds an old "idle" in the list does
\* not even ask, and its caller waits until the app ends by itself.)
QuitAnswered ==
  <>[](Polled /\ ~game) =>
    ((waiter \in {"page", "quit"} /\ host.pendingQuit /\ host.game)
       ~> waiter \notin {"page", "quit"})

\* `stream` starts its session or fails, also after it stopped its timer to
\* have the other app quit.
StreamLauncherEnds ==
  <>[]Polled => (waiter \in {"seekApp", "quitApp"} ~> waiter \notin {"seekApp", "quitApp"})

\* The list shows in the end what the host runs, whatever old answers are
\* applied by threads that were interrupted.
ListCatchesUp ==
  \A g \in BOOLEAN : (<>[]Polled /\ <>[](game = g)) => <>[](host.game = g)

\* Polling brings the truth, and with it everyone gets an answer
\* (handleComputerStateChanged(), StateSeekApp of cli/startstream.cpp).
EveryoneAnswered == ListCatchesUp /\ QuitAnswered /\ StreamLauncherEnds
=============================================================================
