--------------------------------- MODULE Kiosk ---------------------------------
(***************************************************************************)
(* The Linux kiosk: KioskView (catalog grid, requests to the local agent), *)
(* the launcher that looks for the host and its app, and the stream page   *)
(* with its operator prompt, on top of SessionContract.                    *)
(*                                                                         *)
(* Everything of the program runs on the GUI thread: handlers are single   *)
(* steps, disabled while the thread is blocked in start().  Requests are   *)
(* answered by the agent, an external process, and delivered later, in any *)
(* order; state posts are sent without waiting and may be lost.            *)
(***************************************************************************)
EXTENDS Naturals, Sequences, FiniteSets, CatalogLoader

CONSTANTS
  Sessions,  \* session objects with their pages; reused when deleted
  None,
  Requests,  \* slots for requests to the agent: with a single one the agent
             \* answers each status request before the next is sent
  MaxPosts   \* bound of the model: a post beyond so many on their way is lost

VARIABLES
  view,      \* the properties of KioskView
  xhr,       \* its requests to the agent: kind and answer
  agent,     \* the status the agent reports
  posts,     \* states posted to the agent and not yet heard
  launchers, \* the current launcher, and the previous one until deleted
  stack,     \* stream pages above KioskView on the StackView
  arrived,   \* the top item has been activated
  page,      \* the properties of each stream page
  phase, holder,  \* the sessions, as their contract has them
  mishaps    \* history: what went wrong around the stream being started

sessionVars == <<phase, holder>>
guiVars == <<view, xhr, launchers, stack, arrived, page, loader>>
vars == <<guiVars, agent, posts, sessionVars, mishaps>>

Session == INSTANCE SessionContract

\* Mishaps of a start after which the kiosk promises less for it:
\*   no answer  POST stream/start was answered with an empty body
\*   busy       the host runs another app
\*   late post  a state post was under way when the visitor chose again
Mishaps == {"no answer", "busy", "late post"}

\* A page as it is created.
NewPage == [input |-> FALSE, prompt |-> FALSE, state |-> "connecting",
            terminal |-> FALSE, asserting |-> FALSE,
            quitting |-> FALSE]
Free == [kind |-> "none", answer |-> "pending"]

Init ==
  /\ view = [streaming |-> FALSE, loading |-> TRUE, error |-> "none", poll |-> FALSE]
  /\ loader = Get("config", [request |-> "none", watchdog |-> FALSE, retry |-> FALSE])
  /\ xhr = [r \in Requests |-> Free]
  /\ agent = "idle" /\ posts = {}
  /\ launchers = [current |-> "none", dying |-> "none"]
  /\ stack = <<>> /\ arrived = TRUE
  /\ page = [s \in Sessions |-> NewPage]
  /\ Session!Init
  /\ mishaps = {}

\* The GUI thread handles events.  The deletion of a launcher is next in its
\* queue: only what was queued for that launcher may come first.
Running == Session!Responsive /\ launchers.dying = "none"

Posted(states) == IF Cardinality(posts \cup states) <= MaxPosts
                  THEN posts \cup states ELSE posts

Top(s) == stack # <<>> /\ s = stack[Len(stack)]
OnStack(s) == \E i \in DOMAIN stack : stack[i] = s
ViewOnTop == Running /\ stack = <<>> /\ arrived

-----------------------------------------------------------------------------
(* KioskView: catalog *)

\* The handlers of catalogLoader, for the signal it emitted.
OnSignal(signal, v) ==
  CASE signal = "loadStarted" -> [v EXCEPT !.loading = TRUE, !.error = "none"]
    [] signal = "unavailable" -> [v EXCEPT !.loading = FALSE, !.error = "waiting"]
    [] signal = "loaded"      -> [v EXCEPT !.loading = FALSE, !.error = "none"]
    [] signal = "nothing"     -> v

FetchExperiences(v) == Reload /\ view' = OnSignal("loadStarted", v)

CatalogStep(signal) ==
  /\ Running /\ Step(signal)
  /\ view' = OnSignal(signal, view)
  /\ UNCHANGED <<xhr, agent, posts, launchers, stack, arrived, page,
                 sessionVars, mishaps>>

\* StackView.onActivated: the last stream page is gone.
ViewActivated ==
  /\ Running /\ stack = <<>> /\ ~arrived
  /\ arrived' = TRUE
  /\ FetchExperiences(view)
  /\ UNCHANGED <<xhr, agent, posts, launchers, stack, page, sessionVars, mishaps>>

\* The button on the error screen.
RetryClicked ==
  /\ ViewOnTop /\ view.error # "none" /\ ~view.loading /\ ~view.streaming
  /\ FetchExperiences(view)
  /\ UNCHANGED <<xhr, agent, posts, launchers, stack, arrived, page,
                 sessionVars, mishaps>>

-----------------------------------------------------------------------------
(* KioskView: starting a stream *)

\* A request is sent (its slot was free), or an answered one is handled.
Sent(r, kind) == /\ xhr[r] = Free
                 /\ xhr' = [xhr EXCEPT ![r].kind = kind]
Answered(r, kind) == xhr[r].kind = kind /\ xhr[r].answer # "pending"
Handled(r) == [xhr EXCEPT ![r] = Free]

\* The grid is shown and takes clicks.  A variant leaves it under the
\* "Starting" screen.
GridShownAlways == ViewOnTop /\ ~view.loading /\ view.error = "none"
GridShown == ViewOnTop /\ ~view.loading /\ ~view.streaming /\ view.error = "none"

StartStream(r) ==
  /\ GridShown
  /\ view' = [view EXCEPT !.streaming = TRUE, !.error = "none"]
  /\ Sent(r, "start")
  /\ mishaps' = IF posts = {} THEN {} ELSE {"late post"}
  /\ UNCHANGED <<agent, posts, launchers, stack, arrived, page, loader,
                 sessionVars>>

\* postData(): the callback parses any answer; an empty one throws, and the
\* page stays as it is.
StartAnswered(r) ==
  /\ Running /\ Answered(r, "start")
  /\ xhr' = Handled(r)
  /\ view' = CASE xhr[r].answer = "accepted" -> [view EXCEPT !.poll = TRUE]
               [] xhr[r].answer = "refused"  ->
                    [view EXCEPT !.streaming = FALSE, !.error = "failed"]
               [] OTHER                      -> view
  /\ UNCHANGED <<agent, posts, launchers, stack, arrived, page, loader,
                 sessionVars, mishaps>>

\* statusPollTimer asks again whether or not the last answer came.
PollStreamStatus(r) ==
  /\ Running /\ view.poll /\ Sent(r, "status")
  /\ UNCHANGED <<view, agent, posts, launchers, stack, arrived, page, loader,
                 sessionVars, mishaps>>

\* The timer is stopped and destroyed.  A variant lets it run on.
PollKept(v) == v
PollStopped(v) == [v EXCEPT !.poll = FALSE]

Ended(v, e) == [v EXCEPT !.streaming = FALSE, !.error = e]

\* "ready": the parameters are fetched with a request in the slot just freed.
StatusReady(r) ==
  /\ Running /\ Answered(r, "status") /\ xhr[r].answer = "ready"
  /\ view' = PollStopped(view)
  /\ xhr' = [xhr EXCEPT ![r] = [kind |-> "params", answer |-> "pending"]]
  /\ UNCHANGED loader

StatusIdle(r) ==
  /\ Running /\ Answered(r, "status") /\ xhr[r].answer = "idle"
  /\ FetchExperiences([PollStopped(view) EXCEPT !.streaming = FALSE])
  /\ xhr' = Handled(r)

StatusError(r) ==
  /\ Running /\ Answered(r, "status") /\ xhr[r].answer = "error"
  /\ view' = Ended(PollStopped(view), "failed")
  /\ xhr' = Handled(r) /\ UNCHANGED loader

\* Still in progress, or no answer with status 200: the timer goes on.
StatusOther(r) ==
  /\ Running /\ Answered(r, "status")
  /\ xhr[r].answer \in {"starting", "streaming", "lost"}
  /\ xhr' = Handled(r) /\ UNCHANGED <<view, loader>>

StatusAnswered(r) ==
  /\ StatusReady(r) \/ StatusIdle(r) \/ StatusError(r) \/ StatusOther(r)
  /\ UNCHANGED <<agent, posts, launchers, stack, arrived, page, sessionVars, mishaps>>

\* fetchParamsAndLaunch()'s answer: createLauncher() deletes the previous
\* launcher later.
ParamsAnswered(r) ==
  /\ Running /\ Answered(r, "params")
  /\ xhr' = Handled(r)
  /\ \/ /\ xhr[r].answer = "params"
        /\ launchers' = [current |-> "seekComputer", dying |-> launchers.current]
        /\ posts' = Posted({"connecting"})
        /\ UNCHANGED view
     \/ /\ xhr[r].answer = "lost"
        /\ view' = Ended(view, "failed")
        /\ posts' = Posted({"error"})
        /\ UNCHANGED launchers
  /\ UNCHANGED <<agent, stack, arrived, page, loader, sessionVars, mishaps>>

-----------------------------------------------------------------------------
(* CliStartStream::Launcher, with its ComputerSeeker *)

Slots == {"current", "dying"}
Becomes(l, state) == launchers' = [launchers EXCEPT ![l] = state]

\* sessionCreated: the page is pushed, the one below it (if any) deactivates.
Deactivated(p) == [p EXCEPT !.input = FALSE, !.asserting = FALSE]

NewSessions == {s \in Sessions : phase[s] = "none" /\ ~OnStack(s)}

SessionCreated(l) ==
  /\ Becomes(l, "done")
  /\ view' = [view EXCEPT !.streaming = FALSE]
  /\ NewSessions # {}
  /\ stack' = Append(stack, CHOOSE s \in NewSessions : TRUE)
  /\ page' = [t \in Sessions |-> IF Top(t) THEN Deactivated(page[t]) ELSE page[t]]
  /\ arrived' = FALSE /\ mishaps' = {}
  /\ UNCHANGED posts

\* The signal failed.  A variant leaves the "Starting" screen.
KeepStarting(v) == [v EXCEPT !.error = "failed"]
LaunchError(v) == Ended(v, "failed")

LaunchFailed(l) ==
  /\ Becomes(l, "done")
  /\ view' = LaunchError(view)
  /\ posts' = Posted({"error"}) /\ mishaps' = {}
  /\ UNCHANGED <<stack, arrived, page>>

\* ComputerUpdated while seeking the app: it may still be missing; once it is
\* listed the timeout is stopped, also if another app runs: appQuitRequired
\* is emitted then, which nothing of the kiosk handles.
CheckHost(l) ==
  \/ SessionCreated(l)
  \/ /\ Becomes(l, "blocked")
     /\ mishaps' = mishaps \cup {"busy"}
     /\ UNCHANGED <<view, posts, stack, arrived, page>>

LauncherStep(l) == Session!Responsive /\ (l = "dying" \/ Running) /\
  \/ \* ComputerFound: paired or not
     /\ launchers[l] = "seekComputer"
     /\ \/ LaunchFailed(l)
        \/ /\ Becomes(l, "seekApp")
           /\ UNCHANGED <<view, posts, stack, arrived, page, mishaps>>
        \/ CheckHost(l)
  \/ \* ComputerUpdated
     launchers[l] \in {"seekApp", "blocked"} /\ CheckHost(l)
  \/ \* Timedout
     launchers[l] \in {"seekComputer", "seekApp"} /\ LaunchFailed(l)

Launch ==
  /\ \E l \in Slots : LauncherStep(l)
  /\ UNCHANGED <<xhr, agent, loader, sessionVars>>

\* deleteLater()
LauncherDeleted ==
  /\ Session!Responsive /\ launchers.dying # "none"
  /\ Becomes("dying", "none")
  /\ UNCHANGED <<view, xhr, loader, agent, posts, stack, arrived, page,
                 sessionVars, mishaps>>

-----------------------------------------------------------------------------
(* KioskStreamPage *)

Update(s, p) == page' = [page EXCEPT ![s] = p]

\* transitionStreamState(): nothing follows a terminal state.  A variant
\* forgets that one was posted.
NotTerminal(p) == TRUE
MayTransition(p) == ~p.terminal

Transition(p, state) ==
  IF ~MayTransition(p) THEN p
  ELSE [p EXCEPT !.state = state,
                 !.terminal = @ \/ state \in {"finished", "error"},
                 !.asserting = @ /\ state \notin {"finished", "error"}]
PostOf(p, state) == IF MayTransition(p) THEN Posted({state}) ELSE posts

\* stackView.pop() removes the top page, whichever it is.
Pop == stack' = SubSeq(stack, 1, Len(stack) - 1) /\ arrived' = FALSE

\* sessionFinished() and quitStarting()
InputDropped(p) == [p EXCEPT !.input = FALSE]

Finished(s, p) ==
  /\ Update(s, Transition(InputDropped(p), "finished"))
  /\ posts' = PostOf(p, "finished")
  /\ Pop

\* StackView.onActivated, the first time: initialize() may fail, with or without
\* a displayLaunchError() before, else start() is called.  (The model does not
\* follow a page that comes to the top again.)  A variant does not start
\* reassertTimer.
AssertNever(p) == p
Asserting(p) == [p EXCEPT !.asserting = TRUE]

Activated(s) ==
  /\ Running /\ ~arrived /\ Top(s) /\ phase[s] = "none" /\ ~page[s].terminal
  /\ \/ /\ Session!Open(s)
        /\ Update(s, Asserting(page[s]))
        /\ arrived' = TRUE
        /\ UNCHANGED <<posts, stack>>
     \/ /\ Update(s, NewPage)
        /\ \E state \in {"finished", "error"} : posts' = PostOf(page[s], state)
        /\ Pop
        /\ UNCHANGED sessionVars
  /\ UNCHANGED <<view, xhr, loader, launchers, agent, mishaps>>

\* start() returns.
Started(s) ==
  /\ Session!Begin(s)
  /\ UNCHANGED <<guiVars, agent, posts, mishaps>>

pageUnchanged == <<view, xhr, loader, launchers, stack, arrived, agent, mishaps>>

\* Emitted by the connection thread, whatever the page is doing.
ConnectionStarted(s) ==
  /\ Running /\ phase[s] = "open" /\ page[s].state = "connecting"
  /\ Update(s, [Transition(page[s], "streaming") EXCEPT !.input = TRUE])
  /\ posts' = PostOf(page[s], "streaming")
  /\ UNCHANGED <<pageUnchanged, sessionVars>>

\* stageFailed() or displayLaunchError()
PageError(s) ==
  /\ Running /\ phase[s] = "open" /\ MayTransition(page[s])
  /\ Update(s, Transition(page[s], "error"))
  /\ posts' = PostOf(page[s], "error")
  /\ UNCHANGED <<pageUnchanged, sessionVars>>

QuitStarting(s) ==
  /\ Running /\ phase[s] = "ending" /\ ~page[s].quitting
  /\ Update(s, [InputDropped(page[s]) EXCEPT !.quitting = TRUE])
  /\ UNCHANGED <<pageUnchanged, sessionVars, posts>>

SessionFinished(s) ==
  /\ Running /\ Session!Finish(s)
  /\ Finished(s, page[s])
  /\ UNCHANGED <<view, xhr, loader, launchers, agent, mishaps>>

\* The session ends by itself: no connection, the host, the decoder.
SessionEnds(s) ==
  /\ Session!End(s)
  /\ UNCHANGED <<pageUnchanged, page, posts>>

\* The pool thread is done with its cleanup; then readyForDeletion: page and
\* session are gone.
SessionReleased(s) ==
  /\ Session!Release(s)
  /\ UNCHANGED <<pageUnchanged, page, posts>>

SessionReadyForDeletion(s) ==
  /\ Running /\ Session!Delete(s)
  /\ Update(s, NewPage)
  /\ UNCHANGED <<pageUnchanged, posts>>

\* reassertTimer
Reassert(s) ==
  /\ Running /\ page[s].asserting
  /\ posts' = Posted({page[s].state})
  /\ UNCHANGED <<pageUnchanged, page, sessionVars>>

-----------------------------------------------------------------------------
(* The operator *)

PageShown(s) == Running /\ arrived /\ Top(s)

\* session.stopSession(), which is without effect unless the stream runs.
StopSession(s) == Session!End(s) \/ UNCHANGED sessionVars

\* requestOperatorExit(): an installation without a PIN authorizes at once.
RequestOperatorExit(s) ==
  /\ PageShown(s) /\ ~page[s].prompt
  /\ \E pinRequired \in BOOLEAN :
       /\ Update(s, [page[s] EXCEPT !.input = FALSE, !.prompt = pinRequired])
       /\ IF pinRequired THEN UNCHANGED sessionVars ELSE StopSession(s)
  /\ UNCHANGED <<pageUnchanged, posts>>

OperatorAuthorized(s) ==
  /\ PageShown(s) /\ page[s].prompt
  /\ Update(s, [page[s] EXCEPT !.prompt = FALSE])
  /\ StopSession(s)
  /\ UNCHANGED <<pageUnchanged, posts>>

OperatorCancelled(s) ==
  /\ PageShown(s) /\ page[s].prompt
  /\ Update(s, [page[s] EXCEPT !.prompt = FALSE, !.input = TRUE])
  /\ UNCHANGED <<pageUnchanged, posts, sessionVars>>

-----------------------------------------------------------------------------
(* The agent (external) *)

AnswerIs(r, answer) == xhr' = [xhr EXCEPT ![r].answer = answer]
Pending(r, kind) == xhr[r] = [kind |-> kind, answer |-> "pending"]
agentUnchanged == <<view, loader, launchers, stack, arrived, page, sessionVars>>

AgentStarts(r) ==
  /\ Pending(r, "start")
  /\ \/ AnswerIs(r, "accepted") /\ agent' = "starting" /\ UNCHANGED mishaps
     \/ AnswerIs(r, "refused") /\ UNCHANGED <<agent, mishaps>>
     \/ /\ AnswerIs(r, "empty") /\ mishaps' = mishaps \cup {"no answer"}
        /\ UNCHANGED agent
  /\ UNCHANGED <<agentUnchanged, posts>>

AgentTellsStatus(r) ==
  /\ Pending(r, "status") /\ AnswerIs(r, agent)
  /\ UNCHANGED <<agentUnchanged, agent, posts, mishaps>>

AgentTellsParams(r) ==
  /\ Pending(r, "params")
  /\ AnswerIs(r, IF agent = "ready" THEN "params" ELSE "lost")
  /\ UNCHANGED <<agentUnchanged, agent, posts, mishaps>>

AgentSilent(r) ==
  /\ Pending(r, "status") \/ Pending(r, "params")
  /\ AnswerIs(r, "lost")
  /\ UNCHANGED <<agentUnchanged, agent, posts, mishaps>>

\* Discovery and pairing end, or fail.
AgentReady ==
  /\ agent = "starting" /\ agent' \in {"ready", "error"}
  /\ UNCHANGED <<agentUnchanged, xhr, posts, mishaps>>

AgentRestarts ==
  /\ agent # "idle" /\ agent' = "idle"
  /\ UNCHANGED <<agentUnchanged, xhr, posts, mishaps>>

\* A state post arrives or is lost.
AgentHears(state) ==
  /\ state \in posts /\ posts' = posts \ {state}
  /\ agent' = CASE state \in {"connecting", "streaming"} -> "streaming"
                [] state = "finished" -> "idle"
                [] state = "error"    -> "error"
  /\ UNCHANGED <<agentUnchanged, xhr, mishaps>>

PostLost(state) ==
  /\ state \in posts /\ posts' = posts \ {state}
  /\ UNCHANGED <<agentUnchanged, agent, xhr, mishaps>>

-----------------------------------------------------------------------------
Signals == {"unavailable", "loaded", "nothing"}
Posts == {"connecting", "streaming", "finished", "error"}

Requesting(r) == StartStream(r) \/ PollStreamStatus(r)
Answering(r) == StartAnswered(r) \/ StatusAnswered(r) \/ ParamsAnswered(r)

PageStep(s) ==
  \/ Activated(s) \/ ConnectionStarted(s) \/ PageError(s)
  \/ QuitStarting(s) \/ SessionFinished(s) \/ SessionReadyForDeletion(s)
  \/ Reassert(s)

OperatorStep(s) ==
  RequestOperatorExit(s) \/ OperatorAuthorized(s) \/ OperatorCancelled(s)

SessionStep(s) == Started(s) \/ SessionEnds(s) \/ SessionReleased(s)

AgentStep ==
  \/ \E r \in Requests : \/ AgentStarts(r) \/ AgentTellsStatus(r)
                         \/ AgentTellsParams(r) \/ AgentSilent(r)
  \/ AgentReady \/ AgentRestarts
  \/ \E state \in Posts : AgentHears(state) \/ PostLost(state)

Next ==
  \/ \E signal \in Signals : CatalogStep(signal)
  \/ ViewActivated \/ RetryClicked
  \/ \E r \in Requests : Requesting(r) \/ Answering(r)
  \/ Launch \/ LauncherDeleted
  \/ \E s \in Sessions : PageStep(s) \/ OperatorStep(s) \/ SessionStep(s)
  \/ AgentStep

Spec == Init /\ [][Next]_vars

\* The GUI thread handles what has come, its timers fire, and sessions keep
\* what the contract says of time: start() returns when no session is active,
\* an ending session finishes and is released.  The agent answers, sometimes
\* with its status, and its discovery ends.  Posts that are repeated get
\* through some day, and so do both requests of the catalog.  Nobody has to
\* click, and no stream has to end.
Fairness ==
  /\ WF_vars(\/ ViewActivated \/ Launch \/ LauncherDeleted
             \/ \E s \in Sessions : \/ Activated(s) \/ Started(s)
                                   \/ SessionFinished(s) \/ SessionReleased(s))
  /\ WF_vars(\E signal \in {"unavailable", "nothing"} : CatalogStep(signal))
  /\ SF_vars(ConfigArrives /\ CatalogStep("nothing"))
  /\ SF_vars(CatalogStep("loaded"))
  /\ WF_vars(\E r \in Requests : Answering(r))
  /\ WF_vars(\E r \in Requests : PollStreamStatus(r))
  /\ WF_vars(\E r \in Requests : AgentStarts(r) \/ AgentTellsStatus(r)
                                 \/ AgentTellsParams(r))
  /\ SF_vars(\E r \in Requests : AgentTellsStatus(r))
  /\ WF_vars(AgentReady)
  /\ WF_vars(\E s \in Sessions : Reassert(s))
  /\ WF_vars(\E state \in Posts : AgentHears(state) \/ PostLost(state))
  /\ SF_vars(AgentHears("streaming"))
FairSpec == Spec /\ Fairness

-----------------------------------------------------------------------------
(* Safety *)

\* The state has the types of the code's properties; the sessions those of
\* their contract.
TypeOK ==
  /\ view \in [streaming : BOOLEAN, loading : BOOLEAN, poll : BOOLEAN,
               error : {"none", "waiting", "failed"}]
  /\ loader \in Loaders
  /\ xhr \in [Requests -> [kind : {"none", "start", "status", "params"},
                           answer : {"pending", "accepted", "refused", "empty",
                                     "params", "lost", "idle", "starting",
                                     "ready", "streaming", "error"}]]
  /\ agent \in {"idle", "starting", "ready", "streaming", "error"}
  /\ posts \subseteq Posts
  /\ launchers \in [Slots -> {"none", "seekComputer", "seekApp", "blocked", "done"}]
  /\ stack \in Seq(Sessions) /\ arrived \in BOOLEAN
  /\ page \in [Sessions -> [input : BOOLEAN, prompt : BOOLEAN, state : Posts,
                            terminal : BOOLEAN, asserting : BOOLEAN,
                            quitting : BOOLEAN]]
  /\ Session!TypeOK
  /\ mishaps \subseteq Mishaps

\* The visitor gets the grid only when nothing of an earlier choice is under
\* way: no request, no polling, no launcher, no stream (one start at a time is
\* all that startStream() and createLauncher() cope with).
GridMeansIdle ==
  GridShown =>
    /\ \A r \in Requests : xhr[r] = Free
    /\ ~view.poll
    /\ \A l \in Slots : launchers[l] \in {"none", "done"}
    /\ \A s \in Sessions : phase[s] \notin {"waiting", "open", "ending"}

\* "Loading" and "Waiting for HydraHead. Retrying automatically" are true:
\* either a watched request is in flight or the retry timer runs, never both.
LoaderAtWork ==
  /\ view.loading \/ view.error = "waiting"
       => (loader.request # "none" /\ loader.watchdog) \/ loader.retry
  /\ loader.retry => loader.request = "none"
  /\ loader.watchdog <=> loader.request # "none"

\* session.cpp:1949 "Wait for any old session to finish cleanup": a page that
\* blocks the GUI thread in start() waits for a session that has ended, for
\* one that still streams could not end any more.
StartWaitsForCleanup ==
  ~Session!Responsive =>
    holder = None \/ phase[holder] \in {"ending", "finished"}

\* A page forwards no input once its session has ended and told it so.
NoInputAfterEnd == \A s \in Sessions : page[s].input => phase[s] \in {"open", "ending"}

\* What a screen shows or a page holds is true of what is under way
\* (KioskView.qml, KioskCatalogLoader.qml, KioskStreamPage.qml).
Consistent == TypeOK /\ GridMeansIdle /\ LoaderAtWork /\ NoInputAfterEnd

\* A page that has reported a terminal state says nothing else to the agent.
LastWordKept ==
  [][\A s \in Sessions :
       page[s].terminal /\ page'[s].terminal
         => page'[s].state = page[s].state /\ ~page'[s].asserting]_vars

-----------------------------------------------------------------------------
(* Liveness *)

\* The visitor is not left on the "Starting" screen, unless the agent answers
\* the start with nothing, the host runs something else or posts arrive late.
StartingEnds ==
  view.streaming ~> (~view.streaming \/ mishaps # {})

\* "Loading" and "Waiting for HydraHead" give way to the catalog some day,
\* without a restart of the UI (tests/operator-pin/README.md:24).
CatalogComes ==
  (view.loading \/ view.error = "waiting")
    ~> ((~view.loading /\ view.error # "waiting") \/ ~Session!Responsive)

\* A restarted agent learns again that a stream runs.
AgentRelearns ==
  (\E s \in Sessions :
     PageShown(s) /\ page[s].state = "streaming" /\ agent = "idle")
    ~> (agent = "streaming" \/ \A s \in Sessions : ~PageShown(s) \/ page[s].terminal)
=============================================================================
