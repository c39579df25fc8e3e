----------------------------- MODULE FramePipe -----------------------------
(***************************************************************************)
(* What every stage between the decoder and the display promises about the *)
(* frames it carries: frames may be dropped, but those that are shown are  *)
(* shown in stream order, and the buffer of the frame on screen stays      *)
(* alive until a newer frame has replaced it (or the stage is closed).     *)
(* Frames are numbered in the order in which they were submitted.          *)
(***************************************************************************)
EXTENDS Naturals

VARIABLES sent,   \* number of frames submitted so far
          live,   \* frames whose buffers this stage still owns
          shown,  \* the newest frame shown or handed over, 0 if none
          closed  \* the stage is being destroyed

pipe == <<sent, live, shown, closed>>

Init ==
  /\ sent = 0
  /\ live = {}
  /\ shown = 0
  /\ closed = FALSE

\* A new frame enters, and frames that lost their place to it may leave.
Send(lost) ==
  /\ ~closed
  /\ lost \subseteq live \ {shown}
  /\ sent' = sent + 1
  /\ live' = (live \ lost) \union {sent'}
  /\ UNCHANGED <<shown, closed>>

\* A frame newer than all frames shown before reaches the screen.
Show(f) ==
  /\ f \in live
  /\ f > shown
  /\ shown' = f
  /\ UNCHANGED <<sent, live, closed>>

\* A frame is handed to the next stage together with its buffer.
HandOver(f) ==
  /\ f \in live
  /\ f > shown
  /\ shown' = f
  /\ live' = live \ {f}
  /\ UNCHANGED <<sent, closed>>

\* Frames other than the one on screen are dropped.
Drop(lost) ==
  /\ lost # {}
  /\ lost \subseteq live \ {shown}
  /\ live' = live \ lost
  /\ UNCHANGED <<sent, shown, closed>>

Close ==
  /\ closed' = TRUE
  /\ UNCHANGED <<sent, live, shown>>

\* A closed stage gives back everything, the frame on screen included.
Drain ==
  /\ closed
  /\ live' = {}
  /\ UNCHANGED <<sent, shown, closed>>

Next ==
  \/ \E lost \in SUBSET live : Send(lost) \/ Drop(lost)
  \/ \E f \in live : Show(f) \/ HandOver(f)
  \/ Close
  \/ Drain

Spec == Init /\ [][Next]_pipe
=============================================================================
