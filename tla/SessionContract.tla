---------------------------- MODULE SessionContract ----------------------------
(***************************************************************************)
(* What a streaming session promises to the page that runs it.  start()    *)
(* blocks the calling GUI thread until no session is active, a started     *)
(* session ends some day and tells its page (sessionFinished), and it      *)
(* stays the active one until its cleanup is over (readyForDeletion).      *)
(*                                                                         *)
(* Ends and notifications run on the GUI thread, so none happens while the *)
(* thread is blocked in start(): a caller that starts a session beside one *)
(* that still streams never comes back.  Session implements this contract; *)
(* the kiosk is built on it.                                               *)
(***************************************************************************)
CONSTANTS Sessions, None

VARIABLES
  phase,  \* how far each session is, as its page sees it
  holder  \* the active session, or None

vars == <<phase, holder>>

Phases == {"none", "waiting", "open", "ending", "finished"}

TypeOK == phase \in [Sessions -> Phases] /\ holder \in Sessions \cup {None}

Init == phase = [s \in Sessions |-> "none"] /\ holder = None

\* Nobody is blocked in start(): the GUI thread handles events.
Responsive == \A s \in Sessions : phase[s] # "waiting"

Goes(s, from, to) == phase[s] = from /\ phase' = [phase EXCEPT ![s] = to]

Open(s)    == Responsive /\ Goes(s, "none", "waiting") /\ UNCHANGED holder
Begin(s)   == Goes(s, "waiting", "open") /\ holder = None /\ holder' = s
End(s)     == Responsive /\ Goes(s, "open", "ending") /\ UNCHANGED holder
Finish(s)  == Responsive /\ Goes(s, "ending", "finished") /\ UNCHANGED holder
Release(s) == /\ holder = s /\ phase[s] \in {"ending", "finished"}
              /\ holder' = None /\ UNCHANGED phase
Delete(s)  == /\ Responsive /\ holder # s
              /\ Goes(s, "finished", "none") /\ UNCHANGED holder

Next == \E s \in Sessions :
  Open(s) \/ Begin(s) \/ End(s) \/ Finish(s) \/ Release(s) \/ Delete(s)

Spec == Init /\ [][Next]_vars
=============================================================================
