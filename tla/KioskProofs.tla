----------------------------- MODULE KioskProofs -----------------------------
(***************************************************************************)
(* Proofs about Kiosk.tla and CatalogLoader.tla, for any number of         *)
(* sessions, requests and posts: nothing follows the last word of a page,  *)
(* and "Loading" or "Waiting for HydraHead" are shown only while the       *)
(* loader has something that goes on by itself.  With one request to the   *)
(* agent at a time, the grid is shown only when nothing is under way, and  *)
(* start() waits only for sessions that have ended.                        *)
(***************************************************************************)
EXTENDS Kiosk, TLAPS

PageFields == [input : BOOLEAN, prompt : BOOLEAN, state : Posts, terminal : BOOLEAN,
               asserting : BOOLEAN, quitting : BOOLEAN]

\* A page that has said its last word has stopped its timer.
Fits(p) == p \in PageFields /\ (p.terminal => ~p.asserting)
PagesFit == /\ page \in [Sessions -> PageFields]
            /\ \A s \in Sessions : Fits(page[s])

\* What may become of a page.
MayBecome(p, q) ==
  Fits(q) /\ (p.terminal /\ q.terminal => q.state = p.state /\ ~q.asserting)
PagesMove == PagesFit' /\ \A s \in Sessions : MayBecome(page[s], page'[s])

LEMMA UpdateMoves ==
  ASSUME PagesFit, NEW s \in Sessions, NEW q, MayBecome(page[s], q), Update(s, q)
  PROVE  PagesMove
<1>1. \A t \in Sessions : page'[t] = IF t = s THEN q ELSE page[t]
  BY DEF Update, PagesFit
<1>2. \A t \in Sessions : MayBecome(page[t], page'[t])
  BY <1>1 DEF PagesFit, MayBecome, Fits
<1>3. page' \in [Sessions -> PageFields]
  BY DEF Update, PagesFit, MayBecome, Fits
<1>. QED BY <1>2, <1>3 DEF PagesMove, PagesFit, MayBecome

LEMMA NewPageFits == Fits(NewPage) /\ NewPage.terminal = FALSE
  BY DEF NewPage, Fits, PageFields, Posts

\* transitionStreamState() says a word only if it is not after the last.
LEMMA TransitionMoves ==
  ASSUME NEW p, Fits(p), NEW state \in Posts
  PROVE  MayBecome(p, Transition(p, state))
<1>1. CASE p.terminal
  BY <1>1 DEF Transition, MayTransition, MayBecome, Fits
<1>2. CASE ~p.terminal
  BY <1>2 DEF Transition, MayTransition, MayBecome, Fits, PageFields
<1>. QED BY <1>1, <1>2 DEF Fits, PageFields

\* Page steps, of one page each.
LEMMA PageMoves ==
  ASSUME PagesFit, NEW s \in Sessions, PageStep(s) \/ OperatorStep(s)
  PROVE  PagesMove
<1>1. Fits(page[s]) /\ page[s] \in PageFields
  BY DEF PagesFit
<1>2. MayBecome(page[s], NewPage)
  BY NewPageFits DEF MayBecome
<1>3. MayBecome(page[s], page[s])
  BY <1>1 DEF MayBecome, Fits
<1>4. CASE Activated(s)
  <2>1. ~page[s].terminal
    BY <1>4 DEF Activated
  <2>2. MayBecome(page[s], Asserting(page[s]))
    BY <1>1, <2>1 DEF Asserting, MayBecome, Fits, PageFields
  <2>. QED BY <1>2, <1>4, <2>2, UpdateMoves DEF Activated
<1>5. CASE ConnectionStarted(s)
  <2>. DEFINE p == Transition(page[s], "streaming")
  <2>1. MayBecome(page[s], p)
    BY <1>1, TransitionMoves DEF Posts
  <2>. HIDE DEF p
  <2>2. MayBecome(page[s], [p EXCEPT !.input = TRUE])
    BY <2>1 DEF MayBecome, Fits, PageFields
  <2>. QED BY <1>5, <2>2, UpdateMoves DEF ConnectionStarted, p
<1>6. CASE PageError(s)
  BY <1>1, <1>6, TransitionMoves, UpdateMoves DEF PageError, Posts
<1>7. CASE SessionFinished(s)
  <2>. DEFINE p == InputDropped(page[s])
  <2>1. /\ Fits(p) /\ p.terminal = page[s].terminal /\ p.state = page[s].state
        /\ p.asserting = page[s].asserting
    BY <1>1 DEF InputDropped, Fits, PageFields
  <2>. HIDE DEF p
  <2>2. MayBecome(p, Transition(p, "finished"))
    BY <2>1, TransitionMoves DEF Posts
  <2>3. MayBecome(page[s], Transition(p, "finished"))
    BY <2>1, <2>2 DEF MayBecome
  <2>. QED BY <1>7, <2>3, UpdateMoves DEF SessionFinished, Finished, p
<1>8. CASE SessionReadyForDeletion(s)
  BY <1>2, <1>8, UpdateMoves DEF SessionReadyForDeletion
<1>9. CASE Reassert(s)
  BY <1>9, <1>3 DEF Reassert, pageUnchanged, PagesMove, PagesFit, MayBecome, Fits
<1>10. CASE QuitStarting(s) \/ OperatorStep(s)
  <2>1. PICK b \in BOOLEAN, c \in BOOLEAN, d \in BOOLEAN :
          Update(s, [page[s] EXCEPT !.input = b, !.prompt = c, !.quitting = d])
    BY <1>1, <1>10
    DEF QuitStarting, InputDropped, OperatorStep, RequestOperatorExit, OperatorAuthorized,
        OperatorCancelled, PageFields, Fits, PagesFit
  <2>2. MayBecome(page[s], [page[s] EXCEPT !.input = b, !.prompt = c, !.quitting = d])
    <3>. DEFINE q == [page[s] EXCEPT !.input = b, !.prompt = c, !.quitting = d]
    <3>1. /\ Fits(q) /\ q.terminal = page[s].terminal /\ q.state = page[s].state
          /\ q.asserting = page[s].asserting
      BY <1>1 DEF Fits, PageFields
    <3>. HIDE DEF q
    <3>. QED BY <1>1, <3>1 DEF MayBecome, Fits, q
  <2>. QED BY <2>1, <2>2, UpdateMoves
<1>. QED BY <1>4, <1>5, <1>6, <1>7, <1>8, <1>9, <1>10 DEF PageStep

LEMMA PagesStayMove ==
  ASSUME PagesFit, page' = page
  PROVE  PagesMove
  BY DEF PagesFit, PagesMove, MayBecome, Fits

LEMMA LaunchMoves ==
  ASSUME PagesFit, Launch
  PROVE  PagesMove
<1>1. page' = page \/ page' = [t \in Sessions |-> IF Top(t) THEN Deactivated(page[t])
                                                             ELSE page[t]]
  BY DEF Launch, LauncherStep, CheckHost, SessionCreated, LaunchFailed
<1>2. \A t \in Sessions : /\ MayBecome(page[t], Deactivated(page[t]))
                          /\ MayBecome(page[t], page[t])
  BY DEF PagesFit, MayBecome, Fits, PageFields, Deactivated
<1>3. CASE page' = [t \in Sessions |-> IF Top(t) THEN Deactivated(page[t]) ELSE page[t]]
  <2>1. \A t \in Sessions : MayBecome(page[t], page'[t])
    BY <1>2, <1>3
  <2>2. page' \in [Sessions -> PageFields]
    BY <1>2, <1>3 DEF MayBecome, Fits
  <2>. QED BY <2>1, <2>2 DEF PagesMove, PagesFit, MayBecome
<1>. QED BY <1>1, <1>3, PagesStayMove

LEMMA NextMoves ==
  ASSUME PagesFit, [Next]_vars
  PROVE  PagesMove
<1>1. ASSUME NEW s \in Sessions, PageStep(s) \/ OperatorStep(s) PROVE PagesMove
  BY <1>1, PageMoves
<1>2. CASE Launch
  BY <1>2, LaunchMoves
<1>3. ASSUME NEW signal \in Signals, CatalogStep(signal) PROVE page' = page
  BY <1>3 DEF CatalogStep
<1>4. ASSUME NEW r \in Requests, Requesting(r) \/ Answering(r) PROVE page' = page
  BY <1>4 DEF Requesting, StartStream, PollStreamStatus, Answering, StartAnswered,
              StatusAnswered, ParamsAnswered
<1>5. ASSUME ViewActivated \/ RetryClicked \/ LauncherDeleted PROVE page' = page
  BY <1>5 DEF ViewActivated, RetryClicked, LauncherDeleted
<1>6. ASSUME NEW s \in Sessions, SessionStep(s) PROVE page' = page
  BY <1>6 DEF SessionStep, Started, guiVars, SessionEnds, SessionReleased
<1>7. ASSUME AgentStep PROVE page' = page
  BY <1>7 DEF AgentStep, AgentStarts, AgentTellsStatus, AgentTellsParams, AgentSilent,
              AgentReady, AgentRestarts, AgentHears, PostLost, agentUnchanged
<1>8. ASSUME UNCHANGED vars PROVE page' = page
  BY <1>8 DEF vars, guiVars
<1>. QED BY <1>1, <1>2, <1>3, <1>4, <1>5, <1>6, <1>7, <1>8, PagesStayMove DEF Next

\* A page that has reported a terminal state says nothing else to the agent,
\* whatever its session, its timer and the operator do.
THEOREM LastWordIsKept == Spec => LastWordKept
<1>1. Init => PagesFit
  BY NewPageFits DEF Init, PagesFit, Fits
<1>2. PagesFit /\ [Next]_vars => PagesFit'
  BY NextMoves DEF PagesMove
<1>3. PagesFit /\ [Next]_vars
        => [\A s \in Sessions : page[s].terminal /\ page'[s].terminal
              => page'[s].state = page[s].state /\ ~page'[s].asserting]_vars
  BY NextMoves DEF PagesMove, MayBecome
<1>. QED BY <1>1, <1>2, <1>3, PTL DEF Spec, LastWordKept

-----------------------------------------------------------------------------
(* The catalog loader *)

Views == [streaming : BOOLEAN, loading : BOOLEAN, poll : BOOLEAN,
          error : {"none", "waiting", "failed"}]

\* One request or the retry timer, and the watchdog with the request.
LoaderFits ==
  /\ loader \in Loaders
  /\ loader.retry => loader.request = "none"
  /\ loader.watchdog <=> loader.request # "none"
LoaderGoesOn == loader.request # "none" \/ loader.retry
Waiting == view.loading \/ view.error = "waiting"
LInv == view \in Views /\ LoaderFits /\ (Waiting => LoaderGoesOn)

LEMMA InvMeansAtWork == LInv => LoaderAtWork
  BY DEF LInv, LoaderFits, LoaderGoesOn, Waiting, LoaderAtWork

\* cancelRequest() clears the request before it is aborted, so that its answer
\* starts no retry beside the next request.
LEMMA Cancelled ==
  ASSUME NEW l \in Loaders
  PROVE  CancelRequest(l) = [l EXCEPT !.request = "none", !.watchdog = FALSE]
  BY DEF CancelRequest, StillCurrent, Loaders

LEMMA Reloads ==
  ASSUME loader \in Loaders, Reload
  PROVE  LoaderFits' /\ LoaderGoesOn'
<1>1. loader' = [request |-> "config", watchdog |-> TRUE, retry |-> FALSE]
  <2>1. StopRetry(loader) \in Loaders /\ StopRetry(loader).retry = FALSE
    BY DEF StopRetry, Loaders
  <2>. QED BY <2>1, Cancelled DEF Reload, Reloaded, Get, Loaders
<1>. QED BY <1>1 DEF LoaderFits, LoaderGoesOn, Loaders

LEMMA CatalogSteps ==
  ASSUME LInv, NEW signal \in Signals, CatalogStep(signal)
  PROVE  LInv'
<1>1. /\ loader \in Loaders /\ view \in Views /\ view' = OnSignal(signal, view)
      /\ LoaderFits
  BY DEF LInv, LoaderFits, CatalogStep
<1>2. CASE signal = "unavailable"
  <2>1. loader' = [request |-> "none", watchdog |-> FALSE, retry |-> TRUE]
    BY <1>1, <1>2, Cancelled
    DEF CatalogStep, Step, Failed, RestartRetry, Loaders
  <2>2. view' \in Views
    BY <1>1, <1>2 DEF OnSignal, Views
  <2>. QED BY <2>1, <2>2 DEF LInv, LoaderFits, LoaderGoesOn, Loaders
<1>3. CASE signal = "loaded"
  <2>1. loader' = [loader EXCEPT !.request = "none", !.watchdog = FALSE]
        /\ loader.request = "experiences"
    BY <1>3 DEF CatalogStep, Step, ExperiencesArrive
  <2>2. LoaderFits'
    BY <1>1, <2>1 DEF LoaderFits, Loaders
  <2>3. view' = [view EXCEPT !.loading = FALSE, !.error = "none"]
    BY <1>1, <1>3 DEF OnSignal
  <2>4. view' \in Views /\ ~Waiting'
    BY <1>1, <2>3 DEF Views, Waiting
  <2>. QED BY <2>2, <2>4 DEF LInv
<1>4. CASE signal = "nothing"
  <2>1. view' = view
    BY <1>1, <1>4 DEF OnSignal
  <2>2. LoaderFits' /\ LoaderGoesOn'
    BY <1>1, <1>4
    DEF CatalogStep, Step, Retry, ConfigArrives, Get, Loaders, LoaderFits, LoaderGoesOn
  <2>. QED BY <1>1, <2>1, <2>2 DEF LInv
<1>. QED BY <1>2, <1>3, <1>4 DEF Signals

\* The other handlers ask for the catalog anew, or leave the loader alone and
\* start no waiting.
Calm == loader' = loader /\ view' \in Views /\ (Waiting' => Waiting)

LEMMA ReloadKeeps ==
  ASSUME LInv, NEW v \in Views, FetchExperiences(v)
  PROVE  LInv'
<1>1. LoaderFits' /\ LoaderGoesOn'
  BY Reloads DEF LInv, LoaderFits, FetchExperiences
<1>2. view' \in Views
  BY DEF FetchExperiences, OnSignal, Views
<1>. QED BY <1>1, <1>2 DEF LInv

LEMMA CalmKeeps ==
  ASSUME LInv, Calm
  PROVE  LInv'
<1>1. LoaderFits' /\ (LoaderGoesOn <=> LoaderGoesOn')
  BY DEF LInv, Calm, LoaderFits, LoaderGoesOn
<1>. QED BY <1>1 DEF LInv, Calm

LEMMA RequestsKeep ==
  ASSUME LInv, NEW r \in Requests, Requesting(r) \/ Answering(r)
  PROVE  LInv'
<1>1. view \in Views
  BY DEF LInv
<1>2. ASSUME StatusIdle(r) PROVE LInv'
  <2>1. [PollStopped(view) EXCEPT !.streaming = FALSE] \in Views
    BY <1>1 DEF PollStopped, Views
  <2>. QED BY <1>2, <2>1, ReloadKeeps DEF StatusIdle
<1>3. CASE StartStream(r) \/ PollStreamStatus(r)
  BY <1>1, <1>3, CalmKeeps DEF StartStream, PollStreamStatus, Calm, Views, Waiting
<1>4. CASE StartAnswered(r)
  <2>1. view' \in Views /\ (Waiting' => Waiting)
    BY <1>1, <1>4 DEF StartAnswered, Views, Waiting
  <2>. QED BY <1>4, <2>1, CalmKeeps DEF StartAnswered, Calm
<1>5. CASE StatusReady(r) \/ StatusError(r) \/ StatusOther(r)
  BY <1>1, <1>5, CalmKeeps
  DEF StatusReady, StatusError, StatusOther, PollStopped, Ended, Calm, Views, Waiting
<1>6. CASE ParamsAnswered(r)
  BY <1>1, <1>6, CalmKeeps DEF ParamsAnswered, Ended, Calm, Views, Waiting
<1>. QED BY <1>2, <1>3, <1>4, <1>5, <1>6 DEF Requesting, Answering, StatusAnswered

LEMMA LaunchKeeps ==
  ASSUME LInv, Launch
  PROVE  LInv'
<1>1. view \in Views
  BY DEF LInv
<1>2. \/ view' = view \/ view' = [view EXCEPT !.streaming = FALSE]
      \/ view' = Ended(view, "failed")
  BY DEF Launch, LauncherStep, CheckHost, SessionCreated, LaunchFailed, LaunchError
<1>3. view' \in Views /\ (Waiting' => Waiting)
  BY <1>1, <1>2 DEF Ended, Views, Waiting
<1>. QED BY <1>3, CalmKeeps DEF Calm, Launch

LEMMA NextKeepsLoader ==
  ASSUME LInv, [Next]_vars
  PROVE  LInv'
<1>1. view \in Views
  BY DEF LInv
<1>2. ASSUME NEW signal \in Signals, CatalogStep(signal) PROVE LInv'
  BY <1>2, CatalogSteps
<1>3. ASSUME ViewActivated \/ RetryClicked PROVE LInv'
  BY <1>1, <1>3, ReloadKeeps DEF ViewActivated, RetryClicked
<1>4. ASSUME NEW r \in Requests, Requesting(r) \/ Answering(r) PROVE LInv'
  BY <1>4, RequestsKeep
<1>5. CASE Launch
  BY <1>5, LaunchKeeps
<1>6. ASSUME view' = view, loader' = loader PROVE LInv'
  BY <1>1, <1>6, CalmKeeps DEF Calm, Waiting
<1>7. ASSUME NEW s \in Sessions, PageStep(s) \/ OperatorStep(s) \/ SessionStep(s)
      PROVE  view' = view /\ loader' = loader
  BY <1>7
  DEF PageStep, OperatorStep, SessionStep, Activated, ConnectionStarted, PageError,
      QuitStarting, SessionFinished, SessionReadyForDeletion, Reassert,
      RequestOperatorExit, OperatorAuthorized, OperatorCancelled, Started, guiVars,
      SessionEnds, SessionReleased, pageUnchanged
<1>8. ASSUME LauncherDeleted \/ AgentStep \/ UNCHANGED vars
      PROVE  view' = view /\ loader' = loader
  BY <1>8
  DEF LauncherDeleted, AgentStep, AgentStarts, AgentTellsStatus, AgentTellsParams,
      AgentSilent, AgentReady, AgentRestarts, AgentHears, PostLost, agentUnchanged,
      vars, guiVars
<1>. QED BY <1>2, <1>3, <1>4, <1>5, <1>6, <1>7, <1>8 DEF Next

\* What the view says of the catalog is true: a watched request is in flight or
\* the retry timer runs, never both.
THEOREM LoaderIsAtWork == Spec => []LoaderAtWork
<1>1. Init => LInv
  <2>. SUFFICES ASSUME Init PROVE LInv
    OBVIOUS
  <2>1. loader = [request |-> "config", watchdog |-> TRUE, retry |-> FALSE]
    BY DEF Init, Get
  <2>2. view \in Views
    BY DEF Init, Views
  <2>. QED BY <2>1, <2>2 DEF LInv, LoaderFits, LoaderGoesOn, Loaders
<1>2. LInv /\ [Next]_vars => LInv'
  BY NextKeepsLoader
<1>. QED BY <1>1, <1>2, InvMeansAtWork, PTL DEF Spec

-----------------------------------------------------------------------------
(* One start at a time *)

\* The agent answers each status request before the timer asks again.
OneRequest == \A q, r \in Requests : q = r

States == {"none", "seekComputer", "seekApp", "blocked", "done"}
Kinds == {"none", "start", "status", "params"}
Answers == {"pending", "accepted", "refused", "empty", "params", "lost", "idle",
            "starting", "ready", "streaming", "error"}
Asks == [kind : Kinds, answer : Answers]
StartTypes ==
  /\ view \in Views
  /\ launchers \in [Slots -> States]
  /\ xhr \in [Requests -> Asks]

Seeking == launchers["current"] \in {"seekComputer", "seekApp", "blocked"}
NothingAsked == ~view.poll /\ \A r \in Requests : xhr[r] = Free

\* One thing at a time is under way for the visitor: the requests to the agent,
\* then the launcher, then the stream page; and the screen says so.
StartFits ==
  /\ launchers["dying"] \in {"none", "done"}
  /\ ~view.streaming => NothingAsked /\ ~Seeking
  /\ Seeking => NothingAsked
  /\ view.poll => \A r \in Requests : xhr[r] = Free \/ xhr[r].kind = "status"
SInv == StartTypes /\ StartFits

\* What the agent knows and what is on its way to it.
AgentStates == {"idle", "starting", "ready", "streaming", "error"}
AInv == agent \in AgentStates /\ posts \subseteq Posts /\ mishaps \subseteq Mishaps

LEMMA PostedFits ==
  ASSUME AInv, NEW states \in SUBSET Posts
  PROVE  Posted(states) \subseteq Posts
  BY DEF Posted, AInv

LEMMA NextAgent ==
  ASSUME PagesFit, AInv, [Next]_vars
  PROVE  AInv'
<1>1. ASSUME agent' = agent, posts' = posts \/ \E states \in SUBSET Posts : posts' = Posted(states),
             mishaps' \subseteq Mishaps
      PROVE  AInv'
  BY <1>1, PostedFits DEF AInv
<1>2. ASSUME agent' = agent, posts' = posts, mishaps' = mishaps PROVE AInv'
  BY <1>1, <1>2 DEF AInv
<1>3. ASSUME NEW signal \in Signals, CatalogStep(signal) PROVE AInv'
  BY <1>2, <1>3 DEF CatalogStep
<1>4. CASE ViewActivated \/ RetryClicked \/ LauncherDeleted
  BY <1>2, <1>4 DEF ViewActivated, RetryClicked, LauncherDeleted
<1>5. ASSUME NEW r \in Requests, Requesting(r) \/ Answering(r) PROVE AInv'
  <2>1. agent' = agent /\ mishaps' \subseteq Mishaps
    BY <1>5 DEF AInv, Requesting, StartStream, PollStreamStatus, Answering, StartAnswered,
                StatusAnswered, ParamsAnswered, Mishaps
  <2>2. posts' = posts \/ posts' = Posted({"connecting"}) \/ posts' = Posted({"error"})
    BY <1>5 DEF Requesting, StartStream, PollStreamStatus, Answering, StartAnswered,
                StatusAnswered, ParamsAnswered
  <2>. QED BY <1>1, <2>1, <2>2 DEF Posts
<1>6. CASE Launch
  <2>1. agent' = agent /\ mishaps' \subseteq Mishaps
    BY <1>6 DEF AInv, Launch, LauncherStep, CheckHost, SessionCreated, LaunchFailed, Mishaps
  <2>2. posts' = posts \/ posts' = Posted({"error"})
    BY <1>6 DEF Launch, LauncherStep, CheckHost, SessionCreated, LaunchFailed
  <2>. QED BY <1>1, <2>1, <2>2 DEF Posts
<1>7. ASSUME NEW s \in Sessions, PageStep(s) PROVE AInv'
  <2>1. agent' = agent /\ mishaps' = mishaps
    BY <1>7 DEF PageStep, Activated, ConnectionStarted, PageError, QuitStarting,
                SessionFinished, SessionReadyForDeletion, Reassert, pageUnchanged
  <2>2. page[s].state \in Posts
    BY DEF PagesFit, PageFields
  <2>3. \/ posts' = posts
        \/ \E state \in Posts : posts' = Posted({state})
    BY <1>7, <2>2
    DEF PageStep, Activated, ConnectionStarted, PageError, QuitStarting, SessionFinished,
        Finished, SessionReadyForDeletion, Reassert, PostOf, Posts
  <2>4. posts' = posts \/ \E states \in SUBSET Posts : posts' = Posted(states)
    BY <2>3
  <2>. QED BY <1>1, <2>1, <2>4 DEF AInv
<1>8. ASSUME NEW s \in Sessions, OperatorStep(s) \/ SessionStep(s) PROVE AInv'
  BY <1>2, <1>8
  DEF OperatorStep, SessionStep, RequestOperatorExit, OperatorAuthorized,
      OperatorCancelled, Started, SessionEnds, SessionReleased, pageUnchanged
<1>9. CASE AgentStep
  BY <1>9 DEF AInv, AgentStates, Posts, Mishaps, AgentStep, AgentStarts, AgentTellsStatus,
              AgentTellsParams, AgentSilent, AgentReady, AgentRestarts, AgentHears, PostLost
<1>10. CASE UNCHANGED vars
  BY <1>2, <1>10 DEF vars
<1>. QED BY <1>3, <1>4, <1>5, <1>6, <1>7, <1>8, <1>9, <1>10 DEF Next

LEMMA FreeFits == Free \in Asks /\ Free.kind = "none" /\ Free.answer = "pending"
  BY DEF Free, Asks, Kinds, Answers

\* Handling the only request leaves none.
LEMMA HandledFits ==
  ASSUME OneRequest, StartTypes, NEW r \in Requests
  PROVE  /\ Handled(r) \in [Requests -> Asks]
         /\ \A q \in Requests : Handled(r)[q] = Free
  BY FreeFits DEF OneRequest, StartTypes, Handled

\* The view as the handlers leave it.
LEMMA ViewsKept ==
  ASSUME NEW v \in Views
  PROVE  /\ PollStopped(v) = [v EXCEPT !.poll = FALSE] /\ PollStopped(v) \in Views
         /\ PollStopped(v).poll = FALSE /\ PollStopped(v).streaming = v.streaming
         /\ Ended(v, "failed") \in Views /\ Ended(v, "failed").streaming = FALSE
         /\ Ended(v, "failed").poll = v.poll
         /\ \A signal \in Signals \cup {"loadStarted"} :
              /\ OnSignal(signal, v) \in Views
              /\ OnSignal(signal, v).streaming = v.streaming
              /\ OnSignal(signal, v).poll = v.poll
<1>1. /\ PollStopped(v) = [v EXCEPT !.poll = FALSE] /\ PollStopped(v) \in Views
      /\ PollStopped(v).poll = FALSE /\ PollStopped(v).streaming = v.streaming
  BY DEF PollStopped, Views
<1>2. /\ Ended(v, "failed") \in Views /\ Ended(v, "failed").streaming = FALSE
      /\ Ended(v, "failed").poll = v.poll
  BY DEF Ended, Views
<1>3. ASSUME NEW signal \in Signals \cup {"loadStarted"}
      PROVE  /\ OnSignal(signal, v) \in Views
             /\ OnSignal(signal, v).streaming = v.streaming
             /\ OnSignal(signal, v).poll = v.poll
  BY DEF OnSignal, Signals, Views
<1>. QED BY <1>1, <1>2, <1>3

LEMMA RequestsStart ==
  ASSUME OneRequest, SInv, NEW r \in Requests, Requesting(r) \/ Answering(r)
  PROVE  SInv'
<1>1. /\ view \in Views /\ xhr \in [Requests -> Asks] /\ launchers \in [Slots -> States]
      /\ view.streaming \in BOOLEAN /\ view.poll \in BOOLEAN
  BY DEF SInv, StartTypes, Views
<1>2. /\ Handled(r) \in [Requests -> Asks]
      /\ \A q \in Requests : Handled(r)[q] = Free
  BY HandledFits DEF SInv
<1>3. CASE StartStream(r)
  <2>1. ~view.streaming /\ NothingAsked /\ ~Seeking
    BY <1>3 DEF StartStream, GridShown, SInv, StartFits
  <2>2. view' \in Views /\ view'.streaming = TRUE /\ view'.poll = FALSE
    BY <1>1, <1>3, <2>1 DEF StartStream, Views, NothingAsked
  <2>3. xhr' \in [Requests -> Asks]
    BY <1>1, <1>3 DEF StartStream, Sent, Asks, Kinds
  <2>4. launchers' = launchers
    BY <1>3 DEF StartStream
  <2>. QED BY <1>1, <2>1, <2>2, <2>3, <2>4 DEF SInv, StartTypes, StartFits, Seeking
<1>4. CASE PollStreamStatus(r)
  <2>1. view.poll /\ view' = view /\ launchers' = launchers
    BY <1>4 DEF PollStreamStatus
  <2>2. /\ xhr' \in [Requests -> Asks] /\ xhr'[r].kind = "status"
        /\ \A q \in Requests : q = r
    BY <1>1, <1>4 DEF PollStreamStatus, Sent, Asks, Kinds, OneRequest
  <2>3. view.streaming /\ ~Seeking
    BY <2>1 DEF SInv, StartFits, NothingAsked
  <2>. QED BY <1>1, <2>1, <2>2, <2>3 DEF SInv, StartTypes, StartFits, Seeking
<1>5. ASSUME Answered(r, "start") \/ Answered(r, "status") \/ Answered(r, "params")
      PROVE  view.streaming /\ ~Seeking
  BY <1>5, FreeFits DEF Answered, SInv, StartFits, NothingAsked
<1>6. CASE StartAnswered(r)
  <2>1. ~view.poll /\ view.streaming /\ ~Seeking /\ launchers' = launchers /\ xhr' = Handled(r)
    BY <1>5, <1>6, FreeFits DEF StartAnswered, Answered, SInv, StartFits
  <2>2. /\ view' \in Views
        /\ ~view'.streaming => ~view'.poll
    BY <1>1, <1>6, <2>1 DEF StartAnswered, Views
  <2>. QED BY <1>1, <1>2, <2>1, <2>2 DEF SInv, StartTypes, StartFits, Seeking, NothingAsked
<1>7. ASSUME StatusReady(r), launchers' = launchers
      PROVE  SInv'
  <2>1. view.streaming /\ ~Seeking
    BY <1>5, <1>7 DEF StatusReady
  <2>2. view' \in Views /\ view'.streaming = TRUE /\ view'.poll = FALSE
    BY <1>1, <1>7, <2>1, ViewsKept DEF StatusReady
  <2>3. xhr' \in [Requests -> Asks]
    BY <1>1, <1>7 DEF StatusReady, Asks, Kinds, Answers
  <2>. QED BY <1>1, <1>7, <2>1, <2>2, <2>3 DEF SInv, StartTypes, StartFits, Seeking
<1>8. ASSUME StatusIdle(r) \/ StatusError(r), launchers' = launchers
      PROVE  SInv'
  <2>1. ~Seeking /\ xhr' = Handled(r)
    BY <1>5, <1>8 DEF StatusIdle, StatusError
  <2>2. view' \in Views /\ view'.poll = FALSE
    <3>1. CASE StatusIdle(r)
      <4>. DEFINE v == [PollStopped(view) EXCEPT !.streaming = FALSE]
      <4>1. v \in Views /\ v.poll = FALSE /\ view' = OnSignal("loadStarted", v)
        BY <1>1, <3>1 DEF StatusIdle, FetchExperiences, PollStopped, Views
      <4>. HIDE DEF v
      <4>. QED BY <4>1, ViewsKept
    <3>2. CASE StatusError(r)
      BY <1>1, <3>2, ViewsKept DEF StatusError
    <3>. QED BY <1>8, <3>1, <3>2
  <2>. QED BY <1>1, <1>2, <1>8, <2>1, <2>2
           DEF SInv, StartTypes, StartFits, Seeking, NothingAsked
<1>9. ASSUME StatusOther(r), launchers' = launchers
      PROVE  SInv'
  <2>1. view.streaming /\ ~Seeking /\ xhr' = Handled(r) /\ view' = view
    BY <1>5, <1>9 DEF StatusOther
  <2>. QED BY <1>1, <1>2, <1>9, <2>1 DEF SInv, StartTypes, StartFits, Seeking, NothingAsked
<1>10. CASE ParamsAnswered(r)
  <2>1. view.streaming /\ ~Seeking /\ ~view.poll /\ xhr' = Handled(r)
    BY <1>5, <1>10, FreeFits DEF ParamsAnswered, Answered, SInv, StartFits
  <2>2. launchers["current"] \in {"none", "done"}
    BY <1>1, <2>1 DEF Seeking, States, Slots
  <2>3. CASE /\ launchers' = [current |-> "seekComputer", dying |-> launchers.current]
             /\ view' = view
    <3>1. launchers' \in [Slots -> States] /\ launchers'["dying"] \in {"none", "done"}
      BY <2>2, <2>3 DEF Slots, States
    <3>. QED BY <1>1, <1>2, <2>1, <2>3, <3>1
             DEF SInv, StartTypes, StartFits, NothingAsked
  <2>4. CASE launchers' = launchers /\ view' = Ended(view, "failed")
    <3>1. view' \in Views /\ view'.streaming = FALSE /\ view'.poll = view.poll
      BY <1>1, <2>4, ViewsKept
    <3>. QED BY <1>1, <1>2, <2>1, <2>4, <3>1
             DEF SInv, StartTypes, StartFits, NothingAsked, Seeking
  <2>. QED BY <1>10, <2>3, <2>4 DEF ParamsAnswered
<1>11. CASE StatusAnswered(r)
  BY <1>7, <1>8, <1>9, <1>11 DEF StatusAnswered
<1>. QED BY <1>3, <1>4, <1>6, <1>10, <1>11 DEF Requesting, Answering

\* A launcher that has said its last word ends the start.
LEMMA LaunchStarts ==
  ASSUME SInv, Launch
  PROVE  SInv' /\ Seeking /\ view.streaming
<1>1. /\ view \in Views /\ xhr \in [Requests -> Asks] /\ launchers \in [Slots -> States]
      /\ xhr' = xhr /\ launchers["dying"] \in {"none", "done"}
  BY DEF SInv, StartTypes, StartFits, Launch
<1>2. PICK l \in Slots : LauncherStep(l)
  BY DEF Launch
<1>3. launchers[l] \in {"seekComputer", "seekApp", "blocked"}
  BY <1>2 DEF LauncherStep
<1>4. l = "current" /\ Seeking
  BY <1>1, <1>3 DEF Slots, Seeking
<1>5. NothingAsked /\ view.streaming
  BY <1>4 DEF SInv, StartFits
<1>6. /\ \/ view' = view
         \/ view' = [view EXCEPT !.streaming = FALSE] /\ Becomes(l, "done")
         \/ view' = Ended(view, "failed") /\ Becomes(l, "done")
      /\ Becomes(l, "done") \/ Becomes(l, "seekApp") \/ Becomes(l, "blocked")
  BY <1>2 DEF LauncherStep, CheckHost, SessionCreated, LaunchFailed, LaunchError
<1>7. /\ launchers' \in [Slots -> States] /\ launchers'["dying"] = launchers["dying"]
      /\ Becomes(l, "done") => launchers'["current"] = "done"
  BY <1>1, <1>4, <1>6 DEF Becomes, Slots, States
<1>8. view' \in Views /\ view'.poll = view.poll
      /\ (view'.streaming \/ Becomes(l, "done"))
  BY <1>1, <1>5, <1>6 DEF Views, Ended
<1>. QED BY <1>1, <1>4, <1>5, <1>7, <1>8 DEF SInv, StartTypes, StartFits, NothingAsked, Seeking

LEMMA NextStarts ==
  ASSUME OneRequest, AInv, SInv, [Next]_vars
  PROVE  SInv'
<1>1. view \in Views /\ xhr \in [Requests -> Asks] /\ launchers \in [Slots -> States]
  BY DEF SInv, StartTypes
<1>2. ASSUME view' \in Views, view'.streaming = view.streaming, view'.poll = view.poll,
             xhr' = xhr, launchers' = launchers
      PROVE  SInv'
  BY <1>1, <1>2 DEF SInv, StartTypes, StartFits, Seeking, NothingAsked
<1>3. ASSUME view' = view, xhr' = xhr, launchers' = launchers PROVE SInv'
  BY <1>1, <1>2, <1>3
<1>4. ASSUME NEW signal \in Signals, CatalogStep(signal) PROVE SInv'
  BY <1>1, <1>2, <1>4, ViewsKept DEF CatalogStep
<1>5. CASE ViewActivated \/ RetryClicked
  <2>1. view' = OnSignal("loadStarted", view) /\ xhr' = xhr /\ launchers' = launchers
    BY <1>5 DEF ViewActivated, RetryClicked, FetchExperiences
  <2>. QED BY <1>1, <1>2, <2>1, ViewsKept
<1>6. ASSUME NEW r \in Requests, Requesting(r) \/ Answering(r) PROVE SInv'
  BY <1>6, RequestsStart
<1>7. CASE Launch
  BY <1>7, LaunchStarts
<1>8. CASE LauncherDeleted
  <2>1. /\ launchers' \in [Slots -> States] /\ launchers'["dying"] = "none"
        /\ launchers'["current"] = launchers["current"] /\ view' = view /\ xhr' = xhr
    BY <1>1, <1>8 DEF LauncherDeleted, Becomes, Slots, States
  <2>. QED BY <1>1, <2>1 DEF SInv, StartTypes, StartFits, Seeking, NothingAsked
<1>9. ASSUME NEW s \in Sessions, PageStep(s) \/ OperatorStep(s) \/ SessionStep(s)
      PROVE  SInv'
  BY <1>3, <1>9
  DEF PageStep, OperatorStep, SessionStep, Activated, ConnectionStarted, PageError,
      QuitStarting, SessionFinished, SessionReadyForDeletion, Reassert,
      RequestOperatorExit, OperatorAuthorized, OperatorCancelled, Started, guiVars,
      SessionEnds, SessionReleased, pageUnchanged
<1>10. ASSUME NEW r \in Requests, AgentStarts(r) \/ AgentTellsStatus(r)
                                   \/ AgentTellsParams(r) \/ AgentSilent(r)
       PROVE  SInv'
  <2>1. PICK answer \in Answers : AnswerIs(r, answer)
    BY <1>10 DEF AgentStarts, AgentTellsStatus, AgentTellsParams, AgentSilent, Answers,
                 AInv, AgentStates
  <2>2. xhr[r].kind # "none"
    <3>1. Pending(r, "start") \/ Pending(r, "status") \/ Pending(r, "params")
      BY <1>10 DEF AgentStarts, AgentTellsStatus, AgentTellsParams, AgentSilent
    <3>. QED BY <3>1 DEF Pending
  <2>3. /\ xhr' \in [Requests -> Asks] /\ xhr'[r].kind = xhr[r].kind
        /\ \A q \in Requests : q # r => xhr'[q] = xhr[q]
    <3>1. xhr' = [xhr EXCEPT ![r].answer = answer] /\ xhr[r] \in Asks
      BY <1>1, <2>1 DEF AnswerIs
    <3>2. xhr'[r] = [xhr[r] EXCEPT !.answer = answer]
      BY <1>1, <3>1
    <3>3. xhr'[r].kind = xhr[r].kind /\ xhr'[r] \in Asks
      BY <3>1, <3>2, <2>1 DEF Asks
    <3>. QED BY <1>1, <3>1, <3>3
  <2>4. view' = view /\ launchers' = launchers
    BY <1>10 DEF AgentStarts, AgentTellsStatus, AgentTellsParams, AgentSilent, agentUnchanged
  <2>5. view.streaming /\ ~Seeking
    BY <2>2, FreeFits DEF SInv, StartFits, NothingAsked
  <2>6. view.poll => \A q \in Requests : xhr'[q] = Free \/ xhr'[q].kind = "status"
    BY <2>2, <2>3, FreeFits DEF SInv, StartFits
  <2>. QED BY <1>1, <2>3, <2>4, <2>5, <2>6 DEF SInv, StartTypes, StartFits, Seeking
<1>11. CASE AgentReady \/ AgentRestarts \/ \E state \in Posts : AgentHears(state) \/ PostLost(state)
  BY <1>3, <1>11 DEF AgentReady, AgentRestarts, AgentHears, PostLost, agentUnchanged
<1>12. CASE UNCHANGED vars
  BY <1>3, <1>12 DEF vars, guiVars
<1>. QED BY <1>4, <1>5, <1>6, <1>7, <1>8, <1>9, <1>10, <1>11, <1>12 DEF Next, AgentStep

-----------------------------------------------------------------------------
(* One stream page at a time *)

Live == {"waiting", "open", "ending"}

\* There is at most one stream page, and the session that goes on is its.
Single == stack = <<>> \/ \E s \in Sessions : stack = <<s>>
OnePage ==
  /\ Single /\ arrived \in BOOLEAN
  /\ \A s \in Sessions : phase[s] \in Live => stack = <<s>>
  /\ \A s \in Sessions : stack = <<s>> /\ arrived => phase[s] \in Live
  /\ view.streaming => stack = <<>>

SessionsFit ==
  /\ Session!TypeOK
  /\ holder # None => holder \in Sessions /\ phase[holder] \in {"open", "ending", "finished"}

PInv == PagesFit /\ SessionsFit /\ OnePage /\ NoInputAfterEnd

\* Of the session that moves.
LEMMA GoesFits ==
  ASSUME phase \in [Sessions -> Session!Phases], NEW s \in Sessions, NEW from,
         NEW to \in Session!Phases, Session!Goes(s, from, to)
  PROVE  /\ phase' \in [Sessions -> Session!Phases] /\ phase[s] = from /\ phase'[s] = to
         /\ \A t \in Sessions : t # s => phase'[t] = phase[t]
  BY DEF Session!Goes

LEMMA TopIsOnly ==
  ASSUME Single, NEW s \in Sessions
  PROVE  Top(s) <=> stack = <<s>>
  BY DEF Single, Top

LEMMA Popped ==
  ASSUME Single, stack # <<>>, Pop
  PROVE  stack' = <<>> /\ arrived' = FALSE
<1>1. PICK s \in Sessions : stack = <<s>>
  BY DEF Single
<1>2. Len(stack) = 1 /\ SubSeq(<<s>>, 1, 0) = <<>>
  BY <1>1
<1>. QED BY <1>1, <1>2 DEF Pop

LEMMA NoStreamWaits == PInv => StartWaitsForCleanup
<1>. SUFFICES ASSUME PInv, ~Session!Responsive, holder # None
     PROVE  phase[holder] \in {"ending", "finished"}
  BY DEF StartWaitsForCleanup
<1>1. PICK s \in Sessions : phase[s] = "waiting"
  BY DEF Session!Responsive
<1>2. stack = <<s>>
  BY <1>1 DEF PInv, OnePage, Live
<1>3. CASE phase[holder] = "open"
  <2>1. stack = <<holder>>
    BY <1>3 DEF PInv, OnePage, SessionsFit, Live
  <2>2. <<s>>[1] = <<holder>>[1]
    BY <1>2, <2>1
  <2>. QED BY <1>1, <1>3, <2>2
<1>. QED BY <1>3 DEF PInv, SessionsFit

LEMMA InputKept ==
  ASSUME NEW p \in PageFields
  PROVE  /\ \A state \in Posts : Transition(p, state) \in PageFields
                               /\ Transition(p, state).input = p.input
         /\ InputDropped(p) \in PageFields /\ InputDropped(p).input = FALSE
         /\ Asserting(p).input = p.input
         /\ NewPage.input = FALSE
  BY DEF Transition, InputDropped, Asserting, NewPage, PageFields

LEMMA Updated ==
  ASSUME PagesFit, NEW s \in Sessions, NEW q, Update(s, q)
  PROVE  page'[s] = q /\ \A t \in Sessions : t # s => page'[t] = page[t]
  BY DEF PagesFit, Update

\* A page changes, and no session.
LEMMA PageAlone ==
  ASSUME PInv, NEW s \in Sessions, NEW q, Update(s, q), UNCHANGED sessionVars,
         q.input => page[s].input \/ phase[s] \in {"open", "ending"},
         stack' = stack, arrived' = arrived, view' = view
  PROVE  SessionsFit' /\ OnePage' /\ NoInputAfterEnd'
<1>1. phase' = phase /\ holder' = holder
  BY DEF sessionVars
<1>2. NoInputAfterEnd'
  BY <1>1, Updated DEF PInv, NoInputAfterEnd
<1>3. SessionsFit'
  BY <1>1 DEF PInv, SessionsFit, Session!TypeOK
<1>4. OnePage'
  BY <1>1 DEF PInv, OnePage, Single
<1>. QED BY <1>2, <1>3, <1>4

\* A session moves and goes on; its page forwards no input that it did not, or
\* may do so.
LEMMA GoesOn ==
  ASSUME PInv, NEW s \in Sessions, NEW from \in Live, NEW to \in Live,
         Session!Goes(s, from, to),
         holder' = holder \/ (holder' = s /\ to = "open"),
         from # "waiting" => to # "waiting", from = "waiting" => to = "open",
         stack' = stack, arrived' = arrived, view' = view,
         \A t \in Sessions : page'[t].input => page[t].input
  PROVE  SessionsFit' /\ OnePage' /\ NoInputAfterEnd'
<1>1. to \in Session!Phases /\ phase \in [Sessions -> Session!Phases]
  BY DEF Live, Session!Phases, PInv, SessionsFit, Session!TypeOK
<1>2. /\ phase' \in [Sessions -> Session!Phases] /\ phase[s] = from /\ phase'[s] = to
      /\ \A t \in Sessions : t # s => phase'[t] = phase[t]
  BY <1>1, GoesFits
<1>3. NoInputAfterEnd'
  BY <1>2 DEF PInv, NoInputAfterEnd, Live
<1>4. OnePage'
  BY <1>2 DEF PInv, OnePage, Single
<1>5. SessionsFit'
  BY <1>2 DEF PInv, SessionsFit, Session!TypeOK, Live
<1>. QED BY <1>3, <1>4, <1>5

LEMMA OperatorFits ==
  ASSUME PInv, NEW s \in Sessions, OperatorStep(s)
  PROVE  SessionsFit' /\ OnePage' /\ NoInputAfterEnd'
<1>1. page[s] \in PageFields /\ page \in [Sessions -> PageFields]
  BY DEF PInv, PagesFit
<1>2. /\ stack' = stack /\ arrived' = arrived /\ view' = view
      /\ stack = <<s>> /\ arrived /\ phase[s] \in {"open", "ending"}
  <2>1. PageShown(s) /\ stack' = stack /\ arrived' = arrived /\ view' = view
    BY DEF OperatorStep, RequestOperatorExit, OperatorAuthorized, OperatorCancelled,
           pageUnchanged
  <2>2. stack = <<s>> /\ arrived
    BY <2>1, TopIsOnly DEF PageShown, PInv, OnePage
  <2>3. phase[s] \in Live /\ phase[s] # "waiting"
    BY <2>1, <2>2 DEF PageShown, Running, Session!Responsive, PInv, OnePage
  <2>. QED BY <2>1, <2>2, <2>3 DEF Live
<1>3. \E q : Update(s, q) /\ (UNCHANGED sessionVars \/ (Session!End(s) /\ q.input = page[s].input)
                                                 \/ (Session!End(s) /\ q.input = FALSE))
  <2>1. CASE RequestOperatorExit(s)
    <3>1. PICK b \in BOOLEAN :
            /\ Update(s, [page[s] EXCEPT !.input = FALSE, !.prompt = b])
            /\ UNCHANGED sessionVars \/ Session!End(s)
      BY <2>1 DEF RequestOperatorExit, StopSession
    <3>2. [page[s] EXCEPT !.input = FALSE, !.prompt = b].input = FALSE
      BY <1>1 DEF PageFields
    <3>. QED BY <3>1, <3>2
  <2>2. CASE OperatorAuthorized(s)
    <3>1. /\ Update(s, [page[s] EXCEPT !.prompt = FALSE])
          /\ UNCHANGED sessionVars \/ Session!End(s)
      BY <2>2 DEF OperatorAuthorized, StopSession
    <3>2. [page[s] EXCEPT !.prompt = FALSE].input = page[s].input
      BY <1>1 DEF PageFields
    <3>. QED BY <3>1, <3>2
  <2>3. CASE OperatorCancelled(s)
    BY <2>3 DEF OperatorCancelled
  <2>. QED BY <2>1, <2>2, <2>3 DEF OperatorStep
<1>4. PICK q : Update(s, q) /\ (UNCHANGED sessionVars \/ (Session!End(s) /\ q.input = page[s].input)
                                                     \/ (Session!End(s) /\ q.input = FALSE))
  BY <1>3
<1>5. CASE UNCHANGED sessionVars
  BY <1>2, <1>4, <1>5, PageAlone
<1>6. CASE Session!End(s) /\ (q.input = page[s].input \/ q.input = FALSE)
  <2>1. \A t \in Sessions : page'[t].input => page[t].input
    BY <1>4, <1>6, Updated DEF PInv
  <2>2. Session!Goes(s, "open", "ending") /\ holder' = holder
    BY <1>6 DEF Session!End
  <2>. QED BY <1>2, <2>1, <2>2, GoesOn DEF Live
<1>. QED BY <1>4, <1>5, <1>6

LEMMA SessionStepFits ==
  ASSUME PInv, NEW s \in Sessions, SessionStep(s)
  PROVE  SessionsFit' /\ OnePage' /\ NoInputAfterEnd'
<1>1. page' = page /\ stack' = stack /\ arrived' = arrived /\ view' = view
  BY DEF SessionStep, Started, guiVars, SessionEnds, SessionReleased, pageUnchanged
<1>2. CASE Started(s)
  <2>1. Session!Goes(s, "waiting", "open") /\ holder' = s
    BY <1>2 DEF Started, Session!Begin
  <2>. QED BY <1>1, <2>1, GoesOn DEF Live
<1>3. CASE SessionEnds(s)
  <2>1. Session!Goes(s, "open", "ending") /\ holder' = holder
    BY <1>3 DEF SessionEnds, Session!End
  <2>. QED BY <1>1, <2>1, GoesOn DEF Live
<1>4. CASE SessionReleased(s)
  <2>1. holder' = None /\ phase' = phase
    BY <1>4 DEF SessionReleased, Session!Release
  <2>2. SessionsFit' /\ NoInputAfterEnd'
    BY <1>1, <2>1 DEF PInv, SessionsFit, Session!TypeOK, NoInputAfterEnd
  <2>3. OnePage'
    BY <1>1, <2>1 DEF PInv, OnePage, Single
  <2>. QED BY <2>2, <2>3
<1>. QED BY <1>2, <1>3, <1>4 DEF SessionStep

\* The page leaves the stack, and no session goes on.
LEMMA PopFits ==
  ASSUME PInv, NEW s \in Sessions, stack = <<s>>, Pop, view' = view,
         phase' \in [Sessions -> Session!Phases], phase'[s] \notin Live,
         \A t \in Sessions : t # s => phase'[t] = phase[t]
  PROVE  OnePage'
<1>1. stack' = <<>> /\ arrived' = FALSE
  BY Popped DEF PInv, OnePage
<1>2. ASSUME NEW t \in Sessions, phase'[t] \in Live PROVE FALSE
  <2>1. t # s /\ stack = <<t>>
    BY <1>2 DEF PInv, OnePage
  <2>2. <<s>>[1] = <<t>>[1]
    BY <2>1
  <2>. QED BY <2>1, <2>2
<1>. QED BY <1>1, <1>2 DEF OnePage, Single

LEMMA PageStepFits ==
  ASSUME PInv, NEW s \in Sessions, PageStep(s)
  PROVE  SessionsFit' /\ OnePage' /\ NoInputAfterEnd'
<1>1. /\ page[s] \in PageFields /\ phase \in [Sessions -> Session!Phases]
      /\ PagesFit /\ Single
  BY DEF PInv, PagesFit, SessionsFit, Session!TypeOK, OnePage
<1>2. CASE Activated(s)
  <2>1. stack = <<s>> /\ phase[s] = "none" /\ view' = view
    BY <1>1, <1>2, TopIsOnly DEF Activated
  <2>2. ASSUME Session!Open(s), Update(s, Asserting(page[s])), arrived' = TRUE, stack' = stack
        PROVE  SessionsFit' /\ OnePage' /\ NoInputAfterEnd'
    <3>1. /\ phase' \in [Sessions -> Session!Phases] /\ phase'[s] = "waiting"
          /\ \A t \in Sessions : t # s => phase'[t] = phase[t]
          /\ holder' = holder
      BY <1>1, <2>2, GoesFits DEF Session!Open, Session!Phases
    <3>2. NoInputAfterEnd'
      <4>1. Asserting(page[s]).input = page[s].input
        BY <1>1, InputKept
      <4>2. /\ page'[s] = Asserting(page[s])
            /\ \A t \in Sessions : t # s => page'[t] = page[t]
        BY <1>1, <2>2, Updated
      <4>. QED BY <2>1, <3>1, <4>1, <4>2 DEF PInv, NoInputAfterEnd
    <3>3. SessionsFit'
      BY <2>1, <3>1 DEF PInv, SessionsFit, Session!TypeOK
    <3>4. OnePage'
      BY <2>1, <2>2, <3>1 DEF PInv, OnePage, Single, Live
    <3>. QED BY <3>2, <3>3, <3>4
  <2>3. ASSUME Update(s, NewPage), Pop, UNCHANGED sessionVars
        PROVE  SessionsFit' /\ OnePage' /\ NoInputAfterEnd'
    <3>1. phase' = phase /\ holder' = holder
      BY <2>3 DEF sessionVars
    <3>2. NoInputAfterEnd'
      <4>1. NewPage.input = FALSE
        BY <1>1, InputKept
      <4>2. /\ page'[s] = NewPage
            /\ \A t \in Sessions : t # s => page'[t] = page[t]
        BY <1>1, <2>3, Updated
      <4>. QED BY <3>1, <4>1, <4>2 DEF PInv, NoInputAfterEnd
    <3>3. SessionsFit'
      BY <3>1 DEF PInv, SessionsFit, Session!TypeOK
    <3>4. OnePage'
      BY <1>1, <2>1, <2>3, <3>1, PopFits DEF Live
    <3>. QED BY <3>2, <3>3, <3>4
  <2>. QED BY <1>2, <2>2, <2>3 DEF Activated
<1>3. CASE ConnectionStarted(s)
  BY <1>3, PageAlone DEF ConnectionStarted, pageUnchanged
<1>4. CASE PageError(s)
  BY <1>1, <1>4, InputKept, PageAlone DEF PageError, pageUnchanged, Posts
<1>5. CASE QuitStarting(s)
  BY <1>5, PageAlone DEF QuitStarting, pageUnchanged
<1>6. CASE SessionFinished(s)
  <2>1. Session!Goes(s, "ending", "finished") /\ holder' = holder /\ view' = view /\ Pop
    BY <1>6 DEF SessionFinished, Session!Finish, Finished
  <2>2. /\ phase' \in [Sessions -> Session!Phases] /\ phase[s] = "ending"
        /\ phase'[s] = "finished"
        /\ \A t \in Sessions : t # s => phase'[t] = phase[t]
    BY <1>1, <2>1, GoesFits DEF Session!Phases
  <2>3. stack = <<s>>
    BY <2>2 DEF PInv, OnePage, Live
  <2>4. OnePage'
    BY <2>1, <2>2, <2>3, PopFits DEF Live
  <2>5. SessionsFit'
    BY <2>1, <2>2 DEF PInv, SessionsFit, Session!TypeOK
  <2>6. InputDropped(page[s]) \in PageFields /\ InputDropped(page[s]).input = FALSE
    BY <1>1, InputKept
  <2>7. page'[s].input = FALSE /\ \A t \in Sessions : t # s => page'[t] = page[t]
    <3>. DEFINE q == Transition(InputDropped(page[s]), "finished")
    <3>1. q.input = FALSE
      BY <2>6, InputKept DEF Posts
    <3>2. Update(s, q)
      BY <1>6 DEF SessionFinished, Finished
    <3>. HIDE DEF q
    <3>. QED BY <1>1, <3>1, <3>2, Updated
  <2>8. NoInputAfterEnd'
    BY <2>2, <2>7 DEF PInv, NoInputAfterEnd
  <2>. QED BY <2>4, <2>5, <2>8
<1>7. CASE SessionReadyForDeletion(s)
  <2>1. /\ Session!Goes(s, "finished", "none") /\ holder' = holder /\ holder # s
        /\ stack' = stack /\ arrived' = arrived /\ view' = view /\ Update(s, NewPage)
    BY <1>7 DEF SessionReadyForDeletion, Session!Delete, pageUnchanged
  <2>2. /\ phase' \in [Sessions -> Session!Phases] /\ phase[s] = "finished"
        /\ phase'[s] = "none"
        /\ \A t \in Sessions : t # s => phase'[t] = phase[t]
    BY <1>1, <2>1, GoesFits DEF Session!Phases
  <2>3. SessionsFit'
    BY <2>1, <2>2 DEF PInv, SessionsFit, Session!TypeOK
  <2>4. OnePage'
    BY <2>1, <2>2 DEF PInv, OnePage, Single, Live
  <2>5. NoInputAfterEnd'
    <3>1. NewPage.input = FALSE
      BY <1>1, InputKept
    <3>2. /\ page'[s] = NewPage
          /\ \A t \in Sessions : t # s => page'[t] = page[t]
      BY <1>1, <2>1, Updated
    <3>. QED BY <2>2, <3>1, <3>2 DEF PInv, NoInputAfterEnd
  <2>. QED BY <2>3, <2>4, <2>5
<1>8. CASE Reassert(s)
  <2>1. /\ phase' = phase /\ holder' = holder /\ page' = page
        /\ stack' = stack /\ arrived' = arrived /\ view' = view
    BY <1>8 DEF Reassert, pageUnchanged, sessionVars
  <2>2. SessionsFit' /\ NoInputAfterEnd'
    BY <2>1 DEF PInv, SessionsFit, Session!TypeOK, NoInputAfterEnd
  <2>3. OnePage'
    BY <2>1 DEF PInv, OnePage, Single
  <2>. QED BY <2>2, <2>3
<1>. QED BY <1>2, <1>3, <1>4, <1>5, <1>6, <1>7, <1>8 DEF PageStep

\* Everything else leaves the pages and sessions alone.
Elsewhere ==
  /\ UNCHANGED <<page, stack, sessionVars>> /\ arrived' \in BOOLEAN
  /\ arrived' = arrived \/ stack = <<>>
  /\ view'.streaming => stack = <<>>

LEMMA ElsewhereFits ==
  ASSUME PInv, Elsewhere
  PROVE  SessionsFit' /\ OnePage' /\ NoInputAfterEnd'
<1>1. /\ phase' = phase /\ holder' = holder /\ page' = page /\ stack' = stack
  BY DEF Elsewhere, sessionVars
<1>2. SessionsFit' /\ NoInputAfterEnd'
  BY <1>1 DEF PInv, SessionsFit, Session!TypeOK, NoInputAfterEnd
<1>3. \A s \in Sessions : stack = <<s>> => stack # <<>>
  OBVIOUS
<1>4. OnePage'
  BY <1>1, <1>3 DEF PInv, OnePage, Single, Elsewhere
<1>. QED BY <1>2, <1>4

\* The page of a new session is pushed only when there is none.
LEMMA LaunchFits ==
  ASSUME SInv, PInv, Launch
  PROVE  SessionsFit' /\ OnePage' /\ NoInputAfterEnd'
<1>1. Seeking /\ view.streaming
  BY LaunchStarts
<1>2. stack = <<>> /\ sessionVars' = sessionVars
  BY <1>1 DEF PInv, OnePage, Launch, sessionVars
<1>3. PICK l \in Slots : LauncherStep(l)
  BY DEF Launch
<1>4. CASE SessionCreated(l)
  <2>1. PICK s \in NewSessions : stack' = Append(stack, s)
    BY <1>4 DEF SessionCreated
  <2>2. stack' = <<s>> /\ s \in Sessions
    BY <1>2, <2>1 DEF NewSessions
  <2>3. page' = page
    <3>1. \A t \in Sessions : ~Top(t)
      BY <1>2 DEF Top
    <3>2. page' = [t \in Sessions |-> page[t]]
      BY <1>4, <3>1 DEF SessionCreated
    <3>. QED BY <3>2 DEF PInv, PagesFit
  <2>4. view'.streaming = FALSE /\ arrived' = FALSE
    BY <1>4 DEF SessionCreated, PInv, SInv, StartTypes, Views
  <2>5. phase' = phase /\ holder' = holder
    BY <1>2 DEF sessionVars
  <2>6. \A t \in Sessions : phase[t] \notin Live
    <3>. SUFFICES ASSUME NEW t \in Sessions, phase[t] \in Live PROVE FALSE
      OBVIOUS
    <3>1. stack = <<t>>
      BY DEF PInv, OnePage
    <3>. QED BY <1>2, <3>1
  <2>7. OnePage'
    BY <2>2, <2>4, <2>5, <2>6 DEF OnePage, Single
  <2>8. SessionsFit' /\ NoInputAfterEnd'
    BY <2>3, <2>5 DEF PInv, SessionsFit, Session!TypeOK, NoInputAfterEnd
  <2>. QED BY <2>7, <2>8
<1>5. CASE UNCHANGED <<stack, arrived, page>>
  BY <1>2, <1>5, ElsewhereFits DEF Elsewhere, PInv, OnePage, sessionVars
<1>. QED BY <1>3, <1>4, <1>5 DEF LauncherStep, CheckHost, LaunchFailed

LEMMA NextPages ==
  ASSUME SInv, PInv, [Next]_vars
  PROVE  PInv'
<1>1. PagesFit'
  BY NextMoves DEF PInv, PagesMove
<1>2. SUFFICES SessionsFit' /\ OnePage' /\ NoInputAfterEnd'
  BY <1>1 DEF PInv
<1>3. view \in Views /\ (view.streaming => stack = <<>>) /\ arrived \in BOOLEAN
  BY DEF SInv, StartTypes, PInv, OnePage
<1>4. ASSUME NEW signal \in Signals, CatalogStep(signal)
      PROVE  SessionsFit' /\ OnePage' /\ NoInputAfterEnd'
  <2>1. view'.streaming = view.streaming
    BY <1>3, <1>4, ViewsKept DEF CatalogStep
  <2>. QED BY <1>3, <1>4, <2>1, ElsewhereFits DEF CatalogStep, Elsewhere
<1>5. CASE ViewActivated \/ RetryClicked
  BY <1>5, ElsewhereFits DEF ViewActivated, RetryClicked, ViewOnTop, Elsewhere
<1>6. ASSUME NEW r \in Requests, Requesting(r)
      PROVE  SessionsFit' /\ OnePage' /\ NoInputAfterEnd'
  BY <1>3, <1>6, ElsewhereFits
  DEF Requesting, StartStream, PollStreamStatus, GridShown, ViewOnTop, Elsewhere
<1>7. ASSUME NEW r \in Requests, Answering(r)
      PROVE  SessionsFit' /\ OnePage' /\ NoInputAfterEnd'
  <2>1. /\ UNCHANGED <<page, stack, sessionVars>> /\ arrived' = arrived
    BY <1>7 DEF Answering, StartAnswered, StatusAnswered, ParamsAnswered
  <2>2. view'.streaming => view.streaming
    <3>1. CASE StartAnswered(r)
      BY <1>3, <3>1 DEF StartAnswered, Views
    <3>2. CASE StatusReady(r)
      BY <1>3, <3>2, ViewsKept DEF StatusReady
    <3>3. CASE StatusIdle(r)
      <4>. DEFINE v == [PollStopped(view) EXCEPT !.streaming = FALSE]
      <4>1. v \in Views /\ v.streaming = FALSE /\ view' = OnSignal("loadStarted", v)
        BY <1>3, <3>3 DEF StatusIdle, FetchExperiences, PollStopped, Views
      <4>. HIDE DEF v
      <4>. QED BY <4>1, ViewsKept
    <3>4. CASE StatusError(r)
      BY <1>3, <3>4, ViewsKept DEF StatusError
    <3>5. CASE StatusOther(r)
      BY <3>5 DEF StatusOther
    <3>6. CASE ParamsAnswered(r)
      BY <1>3, <3>6, ViewsKept DEF ParamsAnswered
    <3>. QED BY <1>7, <3>1, <3>2, <3>3, <3>4, <3>5, <3>6 DEF Answering, StatusAnswered
  <2>. QED BY <1>3, <2>1, <2>2, ElsewhereFits DEF Elsewhere
<1>8. CASE Launch
  BY <1>8, LaunchFits
<1>9. CASE LauncherDeleted
  BY <1>3, <1>9, ElsewhereFits DEF LauncherDeleted, Elsewhere
<1>10. ASSUME NEW s \in Sessions, PageStep(s) \/ OperatorStep(s) \/ SessionStep(s)
       PROVE  SessionsFit' /\ OnePage' /\ NoInputAfterEnd'
  BY <1>10, PageStepFits, OperatorFits, SessionStepFits
<1>11. CASE AgentStep
  BY <1>3, <1>11, ElsewhereFits
  DEF AgentStep, AgentStarts, AgentTellsStatus, AgentTellsParams, AgentSilent,
      AgentReady, AgentRestarts, AgentHears, PostLost, agentUnchanged, Elsewhere
<1>12. CASE UNCHANGED vars
  BY <1>3, <1>12, ElsewhereFits DEF vars, guiVars, Elsewhere
<1>. QED BY <1>4, <1>5, <1>6, <1>7, <1>8, <1>9, <1>10, <1>11, <1>12 DEF Next

-----------------------------------------------------------------------------
KInv == LInv /\ AInv /\ SInv /\ PInv

LEMMA KioskInv == ASSUME OneRequest PROVE Spec => []KInv
<1>1. Init => KInv
  <2>. SUFFICES ASSUME Init PROVE KInv
    OBVIOUS
  <2>1. LInv
    <3>1. loader = [request |-> "config", watchdog |-> TRUE, retry |-> FALSE]
      BY DEF Init, Get
    <3>2. view \in Views
      BY DEF Init, Views
    <3>. QED BY <3>1, <3>2 DEF LInv, LoaderFits, LoaderGoesOn, Loaders
  <2>2. AInv
    BY DEF Init, AInv, AgentStates
  <2>3. SInv
    BY FreeFits DEF Init, SInv, StartTypes, StartFits, Views, States, Slots, Seeking,
                    NothingAsked
  <2>4. PagesFit /\ NoInputAfterEnd
    BY NewPageFits, InputKept DEF Init, PagesFit, Fits, NoInputAfterEnd, NewPage
  <2>5. SessionsFit
    BY DEF Init, Session!Init, SessionsFit, Session!TypeOK, Session!Phases
  <2>6. OnePage
    BY DEF Init, Session!Init, OnePage, Single, Live
  <2>. QED BY <2>1, <2>2, <2>3, <2>4, <2>5, <2>6 DEF KInv, PInv
<1>2. KInv /\ [Next]_vars => KInv'
  BY NextKeepsLoader, NextAgent, NextStarts, NextPages DEF KInv, PInv
<1>. QED BY <1>1, <1>2, PTL DEF Spec

\* As long as the agent answers each status request before the next is sent:
\* the grid is shown only when nothing of an earlier choice is under way, the
\* screens say what is true, and no input is forwarded after the end.
THEOREM KioskIsConsistent == ASSUME OneRequest PROVE Spec => []Consistent
<1>1. KInv => TypeOK
  <2>. SUFFICES ASSUME KInv PROVE TypeOK
    OBVIOUS
  <2>1. stack \in Seq(Sessions)
    <3>1. Single
      BY DEF KInv, PInv, OnePage
    <3>2. \A s \in Sessions : <<s>> \in Seq(Sessions)
      OBVIOUS
    <3>3. <<>> \in Seq(Sessions)
      OBVIOUS
    <3>. QED BY <3>1, <3>2, <3>3 DEF Single
  <2>2. page \in [Sessions -> PageFields] /\ Session!TypeOK /\ arrived \in BOOLEAN
    BY DEF KInv, PInv, PagesFit, SessionsFit, OnePage
  <2>. QED BY <2>1, <2>2
           DEF KInv, TypeOK, LInv, LoaderFits, AInv, AgentStates, SInv, StartTypes, Views,
               Asks, Kinds, Answers, States, PageFields
<1>2. KInv => GridMeansIdle
  <2>. SUFFICES ASSUME KInv, GridShown PROVE
         /\ \A r \in Requests : xhr[r] = Free
         /\ ~view.poll
         /\ \A l \in Slots : launchers[l] \in {"none", "done"}
         /\ \A s \in Sessions : phase[s] \notin {"waiting", "open", "ending"}
    BY DEF GridMeansIdle
  <2>1. NothingAsked /\ ~Seeking /\ stack = <<>>
    BY DEF KInv, SInv, StartFits, GridShown, ViewOnTop
  <2>2. \A l \in Slots : launchers[l] \in {"none", "done"}
    BY <2>1 DEF KInv, SInv, StartTypes, StartFits, Seeking, Slots, States
  <2>3. ASSUME NEW s \in Sessions, phase[s] \in Live PROVE FALSE
    <3>1. stack = <<s>>
      BY <2>3 DEF KInv, PInv, OnePage
    <3>. QED BY <2>1, <3>1
  <2>. QED BY <2>1, <2>2, <2>3 DEF NothingAsked, Live
<1>3. KInv => Consistent
  BY <1>1, <1>2, InvMeansAtWork DEF KInv, PInv, Consistent
<1>. QED BY <1>3, KioskInv, PTL

\* Under the same condition, a page that blocks the GUI thread in start() waits
\* for a session that has ended.
THEOREM StartsWait == ASSUME OneRequest PROVE Spec => []StartWaitsForCleanup
<1>1. KInv => StartWaitsForCleanup
  BY NoStreamWaits DEF KInv
<1>. QED BY <1>1, KioskInv, PTL

-----------------------------------------------------------------------------
(* The contract of the sessions *)

\* Whatever the pages, the launchers and the operator do, a session changes only
\* as its contract has it.
LEMMA PageUsesSession ==
  ASSUME NEW s \in Sessions, PageStep(s) \/ OperatorStep(s) \/ SessionStep(s)
  PROVE  Session!Next \/ UNCHANGED sessionVars
<1>1. CASE Activated(s)
  BY <1>1 DEF Activated, Session!Next
<1>2. CASE ConnectionStarted(s) \/ PageError(s) \/ QuitStarting(s) \/ Reassert(s)
  BY <1>2 DEF ConnectionStarted, PageError, QuitStarting, Reassert
<1>3. CASE SessionFinished(s) \/ SessionReadyForDeletion(s)
  BY <1>3 DEF SessionFinished, SessionReadyForDeletion, Session!Next
<1>4. CASE OperatorStep(s)
  <2>1. CASE RequestOperatorExit(s)
    <3>1. UNCHANGED sessionVars \/ StopSession(s)
      BY <2>1 DEF RequestOperatorExit
    <3>. QED BY <3>1 DEF StopSession, Session!Next
  <2>2. CASE OperatorAuthorized(s) \/ OperatorCancelled(s)
    BY <2>2 DEF OperatorAuthorized, OperatorCancelled, StopSession, Session!Next
  <2>. QED BY <1>4, <2>1, <2>2 DEF OperatorStep
<1>5. CASE SessionStep(s)
  BY <1>5 DEF SessionStep, Started, SessionEnds, SessionReleased, Session!Next
<1>. QED BY <1>1, <1>2, <1>3, <1>4, <1>5 DEF PageStep

LEMMA NextUsesSession ==
  ASSUME [Next]_vars
  PROVE  [Session!Next]_(Session!vars)
<1>1. ASSUME NEW s \in Sessions, PageStep(s) \/ OperatorStep(s) \/ SessionStep(s)
      PROVE  Session!Next \/ UNCHANGED sessionVars
  BY <1>1, PageUsesSession
<1>2. ASSUME NEW signal \in Signals, CatalogStep(signal) PROVE phase' = phase /\ holder' = holder
  BY <1>2 DEF CatalogStep, sessionVars
<1>3. ASSUME NEW r \in Requests, Requesting(r) \/ Answering(r)
      PROVE  phase' = phase /\ holder' = holder
  <2>1. CASE StartStream(r)
    <3>1. UNCHANGED sessionVars
      BY <2>1, Zenon DEF StartStream
    <3>. QED BY <3>1 DEF sessionVars
  <2>2. CASE PollStreamStatus(r)
    BY <2>2 DEF PollStreamStatus, sessionVars
  <2>3. CASE StartAnswered(r)
    BY <2>3 DEF StartAnswered, sessionVars
  <2>4. CASE StatusAnswered(r)
    BY <2>4 DEF StatusAnswered, sessionVars
  <2>5. CASE ParamsAnswered(r)
    BY <2>5 DEF ParamsAnswered, sessionVars
  <2>. QED BY <1>3, <2>1, <2>2, <2>3, <2>4, <2>5 DEF Requesting, Answering
<1>4. ASSUME ViewActivated \/ RetryClicked \/ Launch \/ LauncherDeleted
      PROVE  phase' = phase /\ holder' = holder
  BY <1>4 DEF ViewActivated, RetryClicked, Launch, LauncherDeleted, sessionVars
<1>5. ASSUME AgentStep PROVE phase' = phase /\ holder' = holder
  <2>1. UNCHANGED agentUnchanged
    BY <1>5, Zenon DEF AgentStep, AgentStarts, AgentTellsStatus, AgentTellsParams, AgentSilent,
                AgentReady, AgentRestarts, AgentHears, PostLost
  <2>. QED BY <2>1 DEF agentUnchanged, sessionVars
<1>6. ASSUME UNCHANGED vars PROVE phase' = phase /\ holder' = holder
  BY <1>6 DEF vars, sessionVars
<1>7. Session!Next \/ UNCHANGED sessionVars
  BY <1>1, <1>2, <1>3, <1>4, <1>5, <1>6 DEF Next, sessionVars
<1>. QED BY <1>7 DEF sessionVars, Session!vars

\* The kiosk calls sessions only as their contract allows: start() for a session
\* that is new, an end for one that streams, deletion when both the session has
\* finished and its cleanup is over (KioskStreamPage.qml).  What Session is proved
\* to promise is what the kiosk is built on.
THEOREM KioskKeepsContract == Spec => Session!Spec
<1>1. Init => Session!Init
  BY DEF Init
<1>2. [Next]_vars => [Session!Next]_(Session!vars)
  BY NextUsesSession
<1>. QED BY <1>1, <1>2, PTL DEF Spec, Session!Spec
=============================================================================
