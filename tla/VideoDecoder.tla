---------------------------- MODULE VideoDecoder ----------------------------
(***************************************************************************)
(* The decoder of a stream (app/streaming/video/ffmpeg.cpp) and the lock   *)
(* under which the session replaces it (session.cpp, m_DecoderLock).       *)
(*                                                                         *)
(* The decoder thread pulls decode units, feeds the codec and receives     *)
(* frames; the main thread creates, replaces and destroys the decoder; the *)
(* control thread of the connection reports changes of the host's HDR      *)
(* mode.  Decode units are numbered as they arrive.                        *)
(***************************************************************************)
EXTENDS Naturals, Sequences

CONSTANTS
  FAILED_DECODES_RESET_THRESHOLD,
  MaxUnits,   \* bound of the model: decode units that arrive
  MaxCodec,   \* bound of the model: frames inside the codec
  MaxChanges, \* bound of the model: HDR mode changes of the host
  MaxDecoders \* bound of the model: decoders created

ASSUME ThresholdAssumption == FAILED_DECODES_RESET_THRESHOLD \in Nat \ {0}
ASSUME BoundAssumption ==
  MaxUnits \in Nat /\ MaxCodec \in Nat /\ MaxChanges \in Nat /\ MaxDecoders \in Nat

VARIABLES
  dec,     \* the decoder: its fields and its thread
  lock,    \* holder of m_DecoderLock
  main,    \* main thread: pc, what it is about, HDR mode it has read
  control, \* control thread: pc and the HDR mode it reports
  host,    \* queue of decode units (its wake flag too), HDR mode, counters
  reset    \* a decoder reset is requested and not handled

vars == <<dec, lock, main, control, host, reset>>

NoDecoder == [pc |-> "none", quit |-> FALSE, in |-> 0, out |-> 0, info |-> <<>>,
              codec |-> <<>>, failures |-> 0, requests |-> 0, hdr |-> FALSE]

Exists == dec.pc # "none"

Init ==
  /\ dec = NoDecoder
  /\ lock = "none"
  /\ main = [pc |-> "idle", goal |-> "create", hdr |-> FALSE]
  /\ control = [pc |-> "idle", hdr |-> FALSE]
  /\ \E b \in BOOLEAN :
       host = [units |-> <<>>, wake |-> FALSE, hdr |-> b, sent |-> 0, changes |-> 0,
               decoders |-> 0]
  /\ reset = FALSE

-----------------------------------------------------------------------------
(* The decoder thread *)

\* A failed decode: too many in a row end the thread and request a reset.  A
\* variant lets the thread go on.
FailedAndOn(d) ==
  [d EXCEPT !.failures = @ + 1,
            !.requests = IF d.failures + 1 = FAILED_DECODES_RESET_THRESHOLD
                         THEN @ + 1 ELSE @]
Failed(d) ==
  IF d.failures + 1 = FAILED_DECODES_RESET_THRESHOLD
  THEN [d EXCEPT !.failures = @ + 1, !.requests = @ + 1, !.quit = TRUE]
  ELSE [d EXCEPT !.failures = @ + 1]

\* Whether the decoder d2 asks for a reset that d1 had not asked for.
Asks(d1, d2) == reset' = (reset \/ d2.requests > d1.requests)

\* What submitDecodeUnit() makes of d: a first unit that is no IDR frame is
\* refused, avcodec_send_packet() may fail, or the unit is decoded.  A variant
\* remembers the unit before it is sent.
SubmitEarly(d, u) ==
  {[Failed(d) EXCEPT !.info = Append(@, u.n)],
   [d EXCEPT !.info = Append(@, u.n), !.in = @ + 1, !.codec = Append(@, u.n)]}
Submit(d, u) ==
  IF d.in = 0 /\ ~u.idr THEN {d}
  ELSE {Failed(d)} \cup
       {e \in {[d EXCEPT !.info = Append(@, u.n), !.in = @ + 1,
                         !.codec = Append(@, u.n)]} : Len(e.codec) <= MaxCodec}

\* The head of the loop.
LoopHead ==
  /\ dec.pc = "loop"
  /\ dec' = [dec EXCEPT !.pc = IF dec.quit THEN "exited"
                               ELSE IF dec.in = dec.out THEN "wait" ELSE "receive"]
  /\ UNCHANGED <<lock, main, control, host, reset>>

\* LiWaitForNextVideoFrame(), then submitDecodeUnit() in the same iteration.
WaitForUnit ==
  /\ dec.pc = "wait"
  /\ \/ /\ host.units # <<>>
        /\ \E d \in Submit(dec, Head(host.units)) :
             /\ dec' = [d EXCEPT !.pc = IF d.in # d.out THEN "receive" ELSE "loop"]
             /\ Asks(dec, d)
        /\ host' = [host EXCEPT !.units = Tail(@)]
     \/ /\ host.wake
        /\ host' = [host EXCEPT !.wake = FALSE]
        /\ dec' = [dec EXCEPT !.pc = "loop"]
        /\ UNCHANGED reset
  /\ UNCHANGED <<lock, main, control>>

\* avcodec_receive_frame() delivers a frame, which gets the info of the oldest
\* unit and goes to the pacer.
ReceiveFrame ==
  /\ dec.pc = "receive" /\ dec.codec # <<>>
  /\ dec' = [dec EXCEPT !.pc = "loop", !.out = @ + 1, !.failures = 0,
                        !.codec = Tail(@),
                        !.info = IF @ = <<>> THEN @ ELSE Tail(@)]
  /\ UNCHANGED <<lock, main, control, host, reset>>

\* ... or wants more input: the next unit, if there is one, otherwise a delay.
ReceiveAgain ==
  /\ dec.pc = "receive" /\ Len(dec.codec) < MaxCodec
  /\ \/ /\ host.units # <<>>
        /\ \E d \in Submit(dec, Head(host.units)) :
             /\ dec' = [d EXCEPT !.pc = IF d.quit THEN "loop" ELSE "receive"]
             /\ Asks(dec, d)
        /\ host' = [host EXCEPT !.units = Tail(@)]
     \/ /\ host.units = <<>>
        /\ dec' = [dec EXCEPT !.pc = IF dec.quit THEN "loop" ELSE "receive"]
        /\ UNCHANGED <<host, reset>>
  /\ UNCHANGED <<lock, main, control>>

\* ... or fails; what the codec had of that frame may be gone.
KeepsInfo(q) == q

ReceiveError ==
  /\ dec.pc = "receive"
  /\ LET d == Failed(dec)
     IN /\ \E c \in {dec.codec} \cup {Tail(q) : q \in {dec.codec} \ {<<>>}} :
             dec' = [d EXCEPT !.pc = "loop", !.codec = c, !.info = KeepsInfo(@)]
        /\ Asks(dec, d)
  /\ UNCHANGED <<lock, main, control, host>>

-----------------------------------------------------------------------------
(* The main thread *)

\* It creates the decoder, replaces it on request, or because its window has
\* changed, and destroys it at the end of the stream, each under the lock.
Begin(goal) ==
  /\ main.pc = "idle" /\ main.goal \in {"create", "running"}
  /\ \/ goal = "create"  /\ main.goal = "create"
     \/ goal = "replace" /\ main.goal = "running" /\ reset
     \/ goal \in {"refresh", "destroy"} /\ main.goal = "running"
  /\ main' = [main EXCEPT !.pc = "lock", !.goal = goal]
  /\ UNCHANGED <<dec, lock, control, host, reset>>

\* reset() of the old decoder asks its thread to quit.  Variants forget to
\* wake it up, or to take the lock.
WakeForgotten(h) == h
Wake(h) == [h EXCEPT !.wake = TRUE]
Unlocked == TRUE
LockFree == lock = "none"

LockDecoder ==
  /\ main.pc = "lock" /\ LockFree
  /\ lock' = "main"
  /\ main' = [main EXCEPT !.pc = IF Exists THEN "join"
                                 ELSE IF main.goal = "destroy" THEN "unlock"
                                 ELSE "choose"]
  /\ IF Exists THEN dec' = [dec EXCEPT !.quit = TRUE] /\ host' = Wake(host)
               ELSE UNCHANGED <<dec, host>>
  /\ UNCHANGED <<control, reset>>

\* SDL_WaitThread(); the decoder is gone, and its requests are flushed.
JoinDecoder ==
  /\ main.pc = "join" /\ dec.pc = "exited"
  /\ dec' = NoDecoder
  /\ reset' = FALSE
  /\ main' = [main EXCEPT !.pc = IF main.goal = "destroy" THEN "unlock" ELSE "choose"]
  /\ UNCHANGED <<lock, control, host>>

\* chooseDecoder() and LiRequestIdrFrame(), or the end of the stream.
ChooseDecoder ==
  /\ main.pc = "choose" /\ host.decoders < MaxDecoders
  /\ \/ /\ dec' = [NoDecoder EXCEPT !.pc = "loop"]
        /\ main' = [main EXCEPT !.pc = "readHdr"]
        /\ UNCHANGED lock
     \/ /\ main' = [main EXCEPT !.pc = "lock", !.goal = "destroy"]
        /\ lock' = "none"
        /\ UNCHANGED dec
  /\ host' = [host EXCEPT !.decoders = @ + 1]
  /\ UNCHANGED <<control, reset>>

\* setHdrMode(LiGetCurrentHostDisplayHdrMode()): the mode is read ...
ReadHdrMode ==
  /\ main.pc = "readHdr"
  /\ main' = [main EXCEPT !.pc = "setHdr", !.hdr = host.hdr]
  /\ UNCHANGED <<dec, lock, control, host, reset>>

\* ... and given to the decoder.
SetHdrMode ==
  /\ main.pc = "setHdr"
  /\ dec' = [dec EXCEPT !.hdr = main.hdr]
  /\ lock' = "none"
  /\ main' = [main EXCEPT !.pc = "idle", !.goal = "running"]
  /\ UNCHANGED <<control, host, reset>>

UnlockDestroyed ==
  /\ main.pc = "unlock"
  /\ lock' = "none"
  /\ main' = [main EXCEPT !.pc = "idle", !.goal = "destroyed"]
  /\ UNCHANGED <<dec, control, host, reset>>

-----------------------------------------------------------------------------
(* The connection *)

\* A decode unit arrives.
UnitArrives ==
  /\ host.sent < MaxUnits
  /\ \E idr \in BOOLEAN :
       host' = [host EXCEPT !.sent = @ + 1,
                            !.units = Append(@, [n |-> host.sent + 1, idr |-> idr])]
  /\ UNCHANGED <<dec, lock, main, control, reset>>

\* The host changes its HDR mode; the control thread notes it, then calls
\* clSetHdrMode().
HostHdrChanges ==
  /\ control.pc = "idle" /\ host.changes < MaxChanges
  /\ host' = [host EXCEPT !.hdr = ~@, !.changes = @ + 1]
  /\ control' = [pc |-> "callback", hdr |-> ~host.hdr]
  /\ UNCHANGED <<dec, lock, main, reset>>

\* clSetHdrMode() gives up when the lock is taken, or uses the decoder.
ClSetHdrMode ==
  /\ control.pc = "callback"
  /\ \/ /\ lock # "none" \/ ~Exists
        /\ control' = [control EXCEPT !.pc = "idle"]
        /\ UNCHANGED lock
     \/ /\ lock = "none" /\ Exists
        /\ lock' = "control"
        /\ control' = [control EXCEPT !.pc = "using"]
  /\ UNCHANGED <<dec, main, host, reset>>

ClSetHdrModeDone ==
  /\ control.pc = "using"
  /\ dec' = [dec EXCEPT !.hdr = control.hdr]
  /\ lock' = "none"
  /\ control' = [control EXCEPT !.pc = "idle"]
  /\ UNCHANGED <<main, host, reset>>

DecoderStep == LoopHead \/ WaitForUnit \/ ReceiveFrame \/ ReceiveAgain \/ ReceiveError

MainStep ==
  \/ Begin("create") \/ Begin("replace") \/ LockDecoder \/ JoinDecoder
  \/ ChooseDecoder \/ ReadHdrMode \/ SetHdrMode \/ UnlockDestroyed

ControlStep == ClSetHdrMode \/ ClSetHdrModeDone

Next == \/ DecoderStep \/ MainStep \/ ControlStep
        \/ Begin("refresh") \/ Begin("destroy")
        \/ UnitArrives \/ HostHdrChanges

Spec == Init /\ [][Next]_vars

\* Each thread runs on; no decode has to fail, nobody has to end the stream or
\* to touch the window, and the host sends nothing it does not want to.
FairSpec == Spec /\ WF_vars(LoopHead \/ WaitForUnit \/ ReceiveFrame \/ ReceiveAgain)
                /\ WF_vars(MainStep) /\ WF_vars(ControlStep)

-----------------------------------------------------------------------------
Unit == 1..MaxUnits

TypeOK ==
  /\ dec \in [pc : {"none", "loop", "wait", "receive", "exited"}, quit : BOOLEAN,
              in : Nat, out : Nat, info : Seq(Unit), codec : Seq(Unit),
              failures : 0..FAILED_DECODES_RESET_THRESHOLD, requests : Nat,
              hdr : BOOLEAN]
  /\ host \in [units : Seq([n : Unit, idr : BOOLEAN]), wake : BOOLEAN, hdr : BOOLEAN,
               sent : 0..MaxUnits, changes : 0..MaxChanges,
               decoders : 0..MaxDecoders]
  /\ lock \in {"none", "main", "control"}
  /\ main \in [pc : {"idle", "lock", "join", "choose", "readHdr", "setHdr", "unlock"},
               goal : {"create", "running", "replace", "refresh", "destroy", "destroyed"},
               hdr : BOOLEAN]
  /\ control \in [pc : {"idle", "callback", "using"}, hdr : BOOLEAN]
  /\ reset \in BOOLEAN

\* The queue of frame infos is as long as the frames the decoder waits for
\* (the assertion of decoderThreadProc()), so that no frame goes without.
InfoForEveryFrame == dec.out <= dec.in /\ Len(dec.info) = dec.in - dec.out

\* After decode errors a frame may get the info of an older unit (the FIXME
\* of decoderThreadProc()), never that of one which came after it.
InfoNeverAhead ==
  \A i \in DOMAIN dec.codec : i \in DOMAIN dec.info => dec.info[i] <= dec.codec[i]

\* Frames and their infos stay together, whatever the codec refuses, loses or
\* gives late.
FrameInfosMatch == TypeOK /\ InfoForEveryFrame /\ InfoNeverAhead

\* A decoder requests its replacement at most once, and its thread ends then.
OneRequest == dec.requests <= 1 /\ (dec.requests = 1 => dec.quit)

\* The control thread never uses a decoder that is being destroyed or made.
NoUseAfterDelete ==
  control.pc = "using" => Exists /\ main.pc \in {"idle", "lock"}

\* The main thread is never stuck waiting for the decoder thread.
JoinEnds == (main.pc = "join") ~> (main.pc # "join")

\* A decoder that asks for its replacement is replaced, or the stream ends.
RequestAnswered == (dec.requests = 1) ~> (dec.requests = 0)

\* Neither the main thread nor a failed decoder waits for good
\* (FFmpegVideoDecoder::reset(), the SDL_RENDER_DEVICE_RESET of exec()).
NobodyIsStuck == JoinEnds /\ RequestAnswered
=============================================================================
