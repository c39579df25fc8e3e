----------------------------- MODULE CatalogLoader -----------------------------
(***************************************************************************)
(* app/gui/KioskCatalogLoader.qml: two requests in a row, configuration    *)
(* and catalog, a watchdog over the one in flight, and a retry timer.      *)
(* Each action also says which signal it emits; the page that owns the     *)
(* loader handles that signal in the same step.                            *)
(***************************************************************************)
VARIABLE loader  \* the request in flight and which timers run

Loaders == [request : {"none", "config", "experiences"},
            watchdog : BOOLEAN, retry : BOOLEAN]

\* currentRequest is cleared before abort(), which runs the callback: that
\* finds another request current.
StillCurrent(current, xhr) == current = xhr

\* cancelRequest(); an answer of an aborted request fails the load only if
\* that request were still the current one.
CancelRequest(l) ==
  LET cleared == [l EXCEPT !.request = "none", !.watchdog = FALSE]
  IN IF l.request # "none" /\ StillCurrent(cleared.request, l.request)
     THEN [cleared EXCEPT !.retry = TRUE]
     ELSE cleared

\* get()
Get(path, l) == [l EXCEPT !.request = path, !.watchdog = TRUE]

\* reload() emits loadStarted.
StopRetry(l) == [l EXCEPT !.retry = FALSE]
Reloaded(l) == Get("config", CancelRequest(StopRetry(l)))
Reload == loader' = Reloaded(loader)

\* failed(), called by the watchdog or for a bad answer.  A variant does not
\* retry.
NoRetry(l) == l
RestartRetry(l) == [l EXCEPT !.retry = TRUE]
Failed == /\ loader.request # "none"
          /\ loader' = RestartRetry(CancelRequest(loader))

\* The retry timer.
Retry == /\ loader.retry
         /\ loader' = Get("config", [loader EXCEPT !.retry = FALSE])

\* A good answer: the catalog is asked for after the configuration.
ConfigArrives ==
  /\ loader.request = "config"
  /\ loader' = Get("experiences", [loader EXCEPT !.request = "none"])

ExperiencesArrive ==
  /\ loader.request = "experiences"
  /\ loader' = [loader EXCEPT !.request = "none", !.watchdog = FALSE]

Step(emitted) ==
  \/ emitted = "unavailable" /\ Failed
  \/ emitted = "loaded" /\ ExperiencesArrive
  \/ emitted = "nothing" /\ (Retry \/ ConfigArrives)
=============================================================================
