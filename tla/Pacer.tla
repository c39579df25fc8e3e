------------------------------- MODULE Pacer -------------------------------
(***************************************************************************)
(* Frame pacing (app/streaming/video/ffmpeg-renderers/pacer/pacer.cpp).    *)
(*                                                                         *)
(* Four threads share two bounded queues of decoded frames: the decoder    *)
(* thread submits frames, the V-sync thread moves them from the pacing     *)
(* queue to the render queue, the render thread (or the main thread, when  *)
(* the renderer has no thread of its own) shows them, and the main thread  *)
(* destroys the Pacer.  Critical sections of m_FrameQueueLock are single   *)
(* steps, except the one of the render thread in which the destructor can  *)
(* interleave: m_Stopping is written without the lock.                     *)
(*                                                                         *)
(* Frames are numbered in submission order; 0 stands for no frame.         *)
(***************************************************************************)
EXTENDS Naturals, Sequences, FiniteSets

CONSTANTS
  MAX_QUEUED_FRAMES, \* limit of each queue
  MaxFrames,         \* bound of the model: frames the decoder submits
  PacingWindow,      \* entries of the pacing queue history (DisplayFps / 2)
  RenderWindow       \* entries of the render queue history (MaxVideoFps / 2)

ASSUME LimitAssumption ==
  /\ MAX_QUEUED_FRAMES \in Nat \ {0}
  /\ MaxFrames \in Nat
  /\ PacingWindow \in Nat \ {0}
  /\ RenderWindow \in Nat \ {0}

NoFrame == 0

VARIABLES
  mode,          \* what initialize() found; fixed afterwards
  stopping,      \* m_Stopping
  pacingQ,       \* m_PacingQueue
  renderQ,       \* m_RenderQueue
  pacingHistory, \* m_PacingQueueHistory
  renderHistory, \* m_RenderQueueHistory
  deferred,      \* m_DeferredFreeFrame
  decoder,       \* where the decoder thread is: pc and frame in hand
  vsync,         \* where the V-sync thread is: pc, frame in hand, drop target
  render,        \* where the renderer's thread is: pc, frame, drop target
  dtor,          \* where the destructor is
  frameReady,    \* SDL_CODE_FRAME_READY events not handled yet
  sent,          \* history: frames submitted
  shown,         \* history: the newest frame given to the renderer
  freed          \* history: frames released (or handed over)

queues    == <<pacingQ, renderQ>>
histories == <<pacingHistory, renderHistory>>
vars == <<mode, stopping, pacingQ, renderQ, pacingHistory, renderHistory,
          deferred, decoder, vsync, render, dtor, frameReady, sent, shown,
          freed>>

-----------------------------------------------------------------------------
(* The queues *)

\* Variants with a bug, for mutation: the oldest frame is unlinked but not
\* freed; nothing is dropped.
OverflowLeaked(q) == {}
EnqueueUnbounded(q, f) == Append(q, f)

\* dropFrameForEnqueue(): a full queue loses its oldest frame.
Overflow(q) == IF Len(q) = MAX_QUEUED_FRAMES THEN {Head(q)} ELSE {}
Enqueue(q, f) == Append(IF Len(q) = MAX_QUEUED_FRAMES THEN Tail(q) ELSE q, f)

\* A rolling window of queue lengths.
Record(history, n, window) ==
  Append(IF Len(history) = window THEN Tail(history) ELSE history, n)

\* How many frames may stay queued: strict only after a full window of
\* crowded queues.
PacingTarget ==
  IF mode.surplus /\ \E i \in DOMAIN pacingHistory : pacingHistory[i] <= 1
  THEN 3 ELSE 1
RenderTarget ==
  IF mode.noBuffering THEN 1
  ELSE IF \E i \in DOMAIN renderHistory : renderHistory[i] = 0 THEN 2 ELSE 0

\* The render thread keeps the lock from testing the queue until it sleeps.
LockFree == render.pc # "prewait"

-----------------------------------------------------------------------------
Modes == [vsync : BOOLEAN, thread : BOOLEAN, direct : BOOLEAN,
          noBuffering : BOOLEAN, surplus : BOOLEAN]

\* A direct-delivery renderer has no thread, and its null window leaves the
\* Pacer without a V-sync source.
PossibleModes == {m \in Modes : m.direct => ~m.vsync /\ ~m.thread}

Init ==
  /\ mode \in PossibleModes
  /\ stopping = FALSE
  /\ pacingQ = <<>> /\ renderQ = <<>>
  /\ pacingHistory = <<>> /\ renderHistory = <<>>
  /\ deferred = NoFrame
  /\ decoder = [pc |-> "new", frame |-> NoFrame]
  /\ vsync = [pc |-> "none", frame |-> NoFrame, target |-> 0]
  /\ render = [pc |-> "none", frame |-> NoFrame, target |-> 0]
  /\ dtor = "live"
  /\ frameReady = 0
  /\ sent = 0 /\ shown = 0 /\ freed = {}

\* initialize(): creates the threads, or fails before creating any.
Initialize ==
  /\ decoder.pc = "new" /\ dtor = "live"
  /\ \/ /\ decoder' = [decoder EXCEPT !.pc = "idle"]
        /\ vsync' = [vsync EXCEPT !.pc = IF mode.vsync THEN "tick" ELSE "none"]
        /\ render' = [render EXCEPT !.pc = IF mode.thread THEN "await" ELSE "idle"]
     \/ /\ decoder' = [decoder EXCEPT !.pc = "failed"]
        /\ render' = [render EXCEPT !.pc = "idle"]
        /\ UNCHANGED vsync
  /\ UNCHANGED <<mode, stopping, queues, histories, deferred, dtor,
                 frameReady, sent, shown, freed>>

-----------------------------------------------------------------------------
(* The decoder thread *)

CanSubmit ==
  /\ decoder.pc = "idle"
  /\ dtor = "live"
  /\ LockFree
  /\ sent < MaxFrames

\* submitFrame() with a V-sync source
SubmitPaced ==
  /\ CanSubmit /\ mode.vsync
  /\ sent' = sent + 1
  /\ pacingQ' = Enqueue(pacingQ, sent')
  /\ freed' = freed \union Overflow(pacingQ)
  /\ decoder' = [decoder EXCEPT !.pc = "wakeVsync"]
  /\ UNCHANGED <<mode, stopping, renderQ, histories, deferred, vsync, render,
                 dtor, frameReady, shown>>

\* m_PacingQueueNotEmpty.wakeOne(), after the lock was dropped
WakeVsync ==
  /\ decoder.pc = "wakeVsync"
  /\ vsync' = [vsync EXCEPT !.pc = IF @ = "waitFrame" THEN "woken" ELSE @]
  /\ decoder' = [decoder EXCEPT !.pc = "idle"]
  /\ UNCHANGED <<mode, stopping, queues, histories, deferred, render, dtor,
                 frameReady, sent, shown, freed>>

\* submitFrame() without a V-sync source: straight to the render queue
SubmitUnpaced ==
  /\ CanSubmit /\ ~mode.vsync /\ ~mode.direct
  /\ sent' = sent + 1
  /\ renderQ' = Enqueue(renderQ, sent')
  /\ freed' = freed \union Overflow(renderQ)
  /\ decoder' = [decoder EXCEPT !.pc = "notify"]
  /\ UNCHANGED <<mode, stopping, pacingQ, histories, deferred, vsync, render,
                 dtor, frameReady, shown>>

\* submitFrame() for a scene-mode sink: no queue is used
SubmitDirect ==
  /\ CanSubmit /\ ~mode.vsync /\ mode.direct
  /\ sent' = sent + 1
  /\ decoder' = [pc |-> "direct", frame |-> sent']
  /\ UNCHANGED <<mode, stopping, queues, histories, deferred, vsync, render,
                 dtor, frameReady, shown, freed>>

\* The sink's renderFrame() takes ownership of the frame.
DeliverDirect ==
  /\ decoder.pc = "direct"
  /\ shown' = decoder.frame
  /\ freed' = freed \union {decoder.frame}
  /\ decoder' = [pc |-> "idle", frame |-> NoFrame]
  /\ UNCHANGED <<mode, stopping, queues, histories, deferred, vsync, render,
                 dtor, frameReady, sent>>

\* Variant with a bug: events are coalesced while one is pending.
NotifyCoalesced ==
  IF mode.thread
  THEN /\ render' = [render EXCEPT !.pc = IF @ = "waiting" THEN "woken" ELSE @]
       /\ UNCHANGED frameReady
  ELSE /\ frameReady' = 1
       /\ UNCHANGED render

\* The end of enqueueFrameForRenderingAndUnlock(), on whichever thread:
\* wake the render thread, or push an event for the main thread.
NotifyRenderer ==
  IF mode.thread
  THEN /\ render' = [render EXCEPT !.pc = IF @ = "waiting" THEN "woken" ELSE @]
       /\ UNCHANGED frameReady
  ELSE /\ frameReady' = frameReady + 1
       /\ UNCHANGED render

DecoderNotify ==
  /\ decoder.pc = "notify"
  /\ NotifyRenderer
  /\ decoder' = [decoder EXCEPT !.pc = "idle"]
  /\ UNCHANGED <<mode, stopping, queues, histories, deferred, vsync, dtor,
                 sent, shown, freed>>

Decoder == SubmitPaced \/ WakeVsync \/ SubmitUnpaced \/ SubmitDirect
             \/ DeliverDirect \/ DecoderNotify

-----------------------------------------------------------------------------
(* The V-sync thread *)

\* The V-sync source signalled, or its wait expired.
VsyncTick ==
  /\ vsync.pc = "tick"
  /\ vsync' = [vsync EXCEPT !.pc = IF stopping THEN "exited" ELSE "handle"]
  /\ UNCHANGED <<mode, stopping, queues, histories, deferred, decoder, render,
                 dtor, frameReady, sent, shown, freed>>

\* Under the lock: take one excess frame, or move on with what is queued.
TrimPacing(target, reclaimed) ==
  \/ /\ Len(pacingQ) > target
     /\ vsync' = [pc |-> "dropping", frame |-> Head(pacingQ), target |-> target]
     /\ pacingQ' = Tail(pacingQ)
     /\ freed' = freed \union reclaimed
     /\ UNCHANGED renderQ
  \/ /\ Len(pacingQ) <= target /\ pacingQ = <<>>
     /\ vsync' = [pc |-> "waitFrame", frame |-> NoFrame, target |-> 0]
     /\ freed' = freed \union reclaimed
     /\ UNCHANGED queues
  \/ /\ Len(pacingQ) <= target /\ pacingQ # <<>>
     /\ vsync' = [pc |-> "notify", frame |-> NoFrame, target |-> 0]
     /\ pacingQ' = Tail(pacingQ)
     /\ renderQ' = Enqueue(renderQ, Head(pacingQ))
     /\ freed' = freed \union reclaimed \union Overflow(renderQ)

HandleVsync ==
  /\ vsync.pc = "handle" /\ LockFree
  /\ pacingHistory' = IF mode.surplus
                      THEN Record(pacingHistory, Len(pacingQ), PacingWindow)
                      ELSE pacingHistory
  /\ TrimPacing(PacingTarget, {})
  /\ UNCHANGED <<mode, stopping, renderHistory, deferred, decoder, render,
                 dtor, frameReady, sent, shown>>

\* The lock was dropped around av_frame_free(); now the loop goes on.
VsyncDropped ==
  /\ vsync.pc = "dropping" /\ LockFree
  /\ TrimPacing(vsync.target, {vsync.frame})
  /\ UNCHANGED <<mode, stopping, histories, deferred, decoder, render, dtor,
                 frameReady, sent, shown>>

\* No frame arrived before the next V-sync.
VsyncTimeout ==
  /\ vsync.pc = "waitFrame" /\ LockFree
  /\ vsync' = [vsync EXCEPT !.pc = "tick"]
  /\ UNCHANGED <<mode, stopping, queues, histories, deferred, decoder, render,
                 dtor, frameReady, sent, shown, freed>>

\* The wait returned true: the queue is not looked at again.  Taking from an
\* empty QQueue is undefined; the thread is not followed any further.
crashed == vsync.pc = "crashed"

VsyncWoken ==
  /\ vsync.pc = "woken" /\ LockFree
  /\ \/ /\ stopping
        /\ vsync' = [vsync EXCEPT !.pc = "tick"]
        /\ UNCHANGED <<queues, freed>>
     \/ /\ ~stopping /\ pacingQ # <<>>
        /\ vsync' = [vsync EXCEPT !.pc = "notify"]
        /\ pacingQ' = Tail(pacingQ)
        /\ renderQ' = Enqueue(renderQ, Head(pacingQ))
        /\ freed' = freed \union Overflow(renderQ)
     \/ /\ ~stopping /\ pacingQ = <<>>
        /\ vsync' = [vsync EXCEPT !.pc = "crashed"]
        /\ UNCHANGED <<queues, freed>>
  /\ UNCHANGED <<mode, stopping, histories, deferred, decoder, render, dtor,
                 frameReady, sent, shown>>

\* Variant with a bug: the renderer is not told of the frame.
VsyncNotifyForgotten ==
  /\ vsync.pc = "notify"
  /\ vsync' = [vsync EXCEPT !.pc = "tick"]
  /\ UNCHANGED <<mode, stopping, queues, histories, deferred, decoder, render,
                 dtor, frameReady, sent, shown, freed>>

VsyncNotify ==
  /\ vsync.pc = "notify"
  /\ NotifyRenderer
  /\ vsync' = [vsync EXCEPT !.pc = "tick"]
  /\ UNCHANGED <<mode, stopping, queues, histories, deferred, decoder, dtor,
                 sent, shown, freed>>

Vsync == VsyncTick \/ HandleVsync \/ VsyncDropped \/ VsyncTimeout
           \/ VsyncWoken \/ VsyncNotify

-----------------------------------------------------------------------------
(* The render thread, or the main thread in its place *)

\* renderThread(): the test of m_Stopping and of the queue under the lock
RenderCheck ==
  /\ render.pc \in {"await", "woken"}
  /\ \/ /\ stopping
        /\ render' = [render EXCEPT !.pc = "exited"]
        /\ UNCHANGED renderQ
     \/ /\ ~stopping /\ renderQ = <<>>
        /\ render' = [render EXCEPT !.pc = "prewait"]
        /\ UNCHANGED renderQ
     \/ /\ ~stopping /\ renderQ # <<>>
        /\ render' = [render EXCEPT !.pc = "rendering", !.frame = Head(renderQ)]
        /\ renderQ' = Tail(renderQ)
  /\ UNCHANGED <<mode, stopping, pacingQ, histories, deferred, decoder, vsync,
                 dtor, frameReady, sent, shown, freed>>

\* m_RenderQueueNotEmpty.wait() releases the lock and sleeps, with no limit.
RenderSleep ==
  /\ render.pc = "prewait"
  /\ render' = [render EXCEPT !.pc = "waiting"]
  /\ UNCHANGED <<mode, stopping, queues, histories, deferred, decoder, vsync,
                 dtor, frameReady, sent, shown, freed>>

\* renderOnMainThread(), for an SDL_CODE_FRAME_READY event
RenderOnMainThread ==
  /\ render.pc = "idle" /\ ~mode.thread /\ dtor = "live" /\ frameReady > 0
  /\ frameReady' = frameReady - 1
  /\ \/ /\ renderQ = <<>>
        /\ UNCHANGED <<render, renderQ>>
     \/ /\ renderQ # <<>>
        /\ render' = [render EXCEPT !.pc = "rendering", !.frame = Head(renderQ)]
        /\ renderQ' = Tail(renderQ)
  /\ UNCHANGED <<mode, stopping, pacingQ, histories, deferred, decoder, vsync,
                 dtor, sent, shown, freed>>

\* The renderer's renderFrame()
RenderFrame ==
  /\ render.pc = "rendering"
  /\ shown' = render.frame
  /\ render' = [render EXCEPT !.pc = "rendered"]
  /\ UNCHANGED <<mode, stopping, queues, histories, deferred, decoder, vsync,
                 dtor, frameReady, sent, freed>>

\* Variant with a bug: the frame just shown is freed at once.
FreeAtOnce ==
  /\ render.pc = "rendered"
  /\ freed' = freed \union {render.frame}
  /\ render' = [render EXCEPT !.pc = "trim", !.frame = NoFrame]
  /\ UNCHANGED <<mode, stopping, queues, histories, deferred, decoder, vsync,
                 dtor, frameReady, sent, shown>>

\* std::swap with m_DeferredFreeFrame: the frame before this one is freed.
DeferFree ==
  /\ render.pc = "rendered"
  /\ deferred' = render.frame
  /\ freed' = freed \union ({deferred} \ {NoFrame})
  /\ render' = [render EXCEPT !.pc = "trim", !.frame = NoFrame]
  /\ UNCHANGED <<mode, stopping, queues, histories, decoder, vsync, dtor,
                 frameReady, sent, shown>>

\* Under the lock: take one excess frame, or end renderFrame().
TrimRender(target, reclaimed) ==
  /\ freed' = freed \union reclaimed
  /\ \/ /\ Len(renderQ) > target
        /\ render' = [pc |-> "dropping", frame |-> Head(renderQ), target |-> target]
        /\ renderQ' = Tail(renderQ)
     \/ /\ Len(renderQ) <= target
        /\ render' = [pc |-> IF mode.thread THEN "await" ELSE "idle",
                      frame |-> NoFrame, target |-> 0]
        /\ UNCHANGED renderQ

RenderTrim ==
  /\ render.pc = "trim"
  /\ renderHistory' = IF mode.noBuffering THEN renderHistory
                      ELSE Record(renderHistory, Len(renderQ), RenderWindow)
  /\ TrimRender(RenderTarget, {})
  /\ UNCHANGED <<mode, stopping, pacingQ, pacingHistory, deferred, decoder,
                 vsync, dtor, frameReady, sent, shown>>

RenderDropped ==
  /\ render.pc = "dropping"
  /\ TrimRender(render.target, {render.frame})
  /\ UNCHANGED <<mode, stopping, pacingQ, histories, deferred, decoder, vsync,
                 dtor, frameReady, sent, shown>>

Render == RenderCheck \/ RenderSleep \/ RenderOnMainThread \/ RenderFrame
            \/ DeferFree \/ RenderTrim \/ RenderDropped

-----------------------------------------------------------------------------
(* ~Pacer(), on the main thread after the decoder thread has ended *)

StopRequested ==
  /\ dtor = "live"
  /\ decoder.pc \in {"idle", "failed"}
  /\ mode.thread \/ render.pc = "idle"
  /\ stopping' = TRUE
  /\ dtor' = IF vsync.pc = "none" THEN "stopRender" ELSE "wakeVsync"
  /\ UNCHANGED <<mode, queues, histories, deferred, decoder, vsync, render,
                 frameReady, sent, shown, freed>>

\* m_PacingQueueNotEmpty.wakeAll(), without the lock
StopVsync ==
  /\ dtor = "wakeVsync"
  /\ vsync' = [vsync EXCEPT !.pc = IF @ = "waitFrame" THEN "woken" ELSE @]
  /\ dtor' = "joinVsync"
  /\ UNCHANGED <<mode, stopping, queues, histories, deferred, decoder, render,
                 frameReady, sent, shown, freed>>

\* Variant with a bug: the V-sync thread is not waited for.
DetachVsync ==
  /\ dtor = "joinVsync"
  /\ dtor' = "stopRender"
  /\ UNCHANGED <<mode, stopping, queues, histories, deferred, decoder, vsync,
                 render, frameReady, sent, shown, freed>>

JoinVsync ==
  /\ dtor = "joinVsync" /\ vsync.pc = "exited"
  /\ dtor' = "stopRender"
  /\ UNCHANGED <<mode, stopping, queues, histories, deferred, decoder, vsync,
                 render, frameReady, sent, shown, freed>>

\* m_RenderQueueNotEmpty.wakeAll() without the lock, or cleanup right here
StopRender ==
  /\ dtor = "stopRender"
  /\ \/ /\ render.pc = "idle"
        /\ render' = [render EXCEPT !.pc = "exited"]
        /\ dtor' = "drain"
     \/ /\ render.pc # "idle"
        /\ render' = [render EXCEPT !.pc = IF @ = "waiting" THEN "woken" ELSE @]
        /\ dtor' = "joinRender"
  /\ UNCHANGED <<mode, stopping, queues, histories, deferred, decoder, vsync,
                 frameReady, sent, shown, freed>>

JoinRender ==
  /\ dtor = "joinRender" /\ render.pc = "exited"
  /\ dtor' = "drain"
  /\ UNCHANGED <<mode, stopping, queues, histories, deferred, decoder, vsync,
                 render, frameReady, sent, shown, freed>>

InQueue(q) == {q[i] : i \in DOMAIN q}

Drain ==
  /\ dtor = "drain"
  /\ freed' = freed \union InQueue(renderQ) \union InQueue(pacingQ)
                    \union ({deferred} \ {NoFrame})
  /\ pacingQ' = <<>> /\ renderQ' = <<>> /\ deferred' = NoFrame
  /\ dtor' = "done"
  /\ UNCHANGED <<mode, stopping, histories, decoder, vsync, render,
                 frameReady, sent, shown>>

Dtor == StopRequested \/ StopVsync \/ JoinVsync \/ StopRender \/ JoinRender
          \/ Drain

-----------------------------------------------------------------------------
Next == Initialize \/ Decoder \/ Vsync \/ Render \/ Dtor

\* Threads run, waits with a limit expire; the stream need not deliver
\* frames and nobody needs to end the session.
Fairness ==
  /\ WF_vars(WakeVsync \/ DeliverDirect \/ DecoderNotify)
  /\ WF_vars(Vsync)
  /\ WF_vars(Render)
  /\ WF_vars(StopVsync \/ JoinVsync \/ StopRender \/ JoinRender \/ Drain)

Spec == Init /\ [][Next]_vars
FairSpec == Spec /\ Fairness

-----------------------------------------------------------------------------
(* Properties *)

Hand(thread) == {thread.frame} \ {NoFrame}
Held == InQueue(pacingQ) \union InQueue(renderQ) \union Hand(decoder)
          \union Hand(vsync) \union Hand(render) \union ({deferred} \ {NoFrame})

Threads ==
  /\ decoder \in [pc : {"new", "failed", "idle", "wakeVsync", "notify", "direct"},
                  frame : Nat]
  /\ vsync \in [pc : {"none", "tick", "handle", "dropping", "waitFrame",
                      "woken", "notify", "exited", "crashed"},
                frame : Nat, target : Nat]
  /\ render \in [pc : {"none", "idle", "await", "prewait", "waiting", "woken",
                       "rendering", "rendered", "trim", "dropping", "exited"},
                 frame : Nat, target : Nat]
  /\ dtor \in {"live", "wakeVsync", "joinVsync", "stopRender", "joinRender",
               "drain", "done"}

\* Every variable keeps its type, and no queue or history outgrows its limit
\* (the assertion of dropFrameForEnqueue()).
TypeOK ==
  /\ mode \in Modes
  /\ stopping \in BOOLEAN
  /\ pacingQ \in Seq(Nat) /\ Len(pacingQ) <= MAX_QUEUED_FRAMES
  /\ renderQ \in Seq(Nat) /\ Len(renderQ) <= MAX_QUEUED_FRAMES
  /\ pacingHistory \in Seq(Nat) /\ Len(pacingHistory) <= PacingWindow
  /\ renderHistory \in Seq(Nat) /\ Len(renderHistory) <= RenderWindow
  /\ deferred \in Nat /\ frameReady \in Nat
  /\ sent \in Nat /\ shown \in Nat /\ freed \subseteq Nat
  /\ Threads

\* No frame is leaked, and none is used after it was freed: each submitted
\* frame is either held somewhere or freed, never both (av_frame_free() and
\* the queue operations of pacer.cpp).
FramesAccountedFor ==
  /\ Held \union freed = 1..sent
  /\ Held \intersect freed = {}

Increasing(q) == \A i, j \in DOMAIN q : i < j => q[i] < q[j]
Before(S, T) == \A a \in S, b \in T : a < b

\* Whatever the drops and the interleaving, frames lie along the pipeline in
\* stream order, so no frame is held twice and none is shown after a newer one.
StreamOrder ==
  /\ Increasing(pacingQ) /\ Increasing(renderQ)
  /\ Before(Hand(vsync), InQueue(pacingQ))
  /\ Before(InQueue(renderQ), Hand(vsync) \union InQueue(pacingQ))
  /\ Before(Hand(render), InQueue(renderQ) \union Hand(vsync) \union InQueue(pacingQ))
  /\ Before({deferred}, Hand(render) \union InQueue(renderQ) \union Hand(vsync)
                          \union InQueue(pacingQ))

\* Whatever the drops and the interleaving, each submitted frame is at one
\* place, in its turn, or freed.
FramesKept == FramesAccountedFor /\ StreamOrder

\* A renderer without a thread is never left with queued frames and no event:
\* while a frame waits there is an SDL_CODE_FRAME_READY event for it, or a
\* thread about to push one.
QueuedFramesAreAnnounced ==
  ~mode.thread =>
    Len(renderQ) <= frameReady
                    + (IF decoder.pc = "notify" THEN 1 ELSE 0)
                    + (IF vsync.pc = "notify" THEN 1 ELSE 0)

\* The two queues stay within the limits of pacer.cpp:25, and whatever is cut
\* off there, the event of a queued frame (pacer.cpp:212) is never missing.
Consistent == TypeOK /\ QueuedFramesAreAnnounced

\* The V-sync thread and the renderer are gone before the destructor frees
\* what is left, and then nothing is left.
TeardownIsQuiet ==
  /\ dtor \in {"stopRender", "joinRender", "drain", "done"} =>
        vsync.pc \in {"none", "exited"}
  /\ dtor \in {"drain", "done"} => render.pc = "exited"
  /\ dtor = "done" => freed = 1..sent

\* The stage keeps the promise of FramePipe.
Pipe == INSTANCE FramePipe WITH live <- Held, closed <- stopping
KeepsPromise == Pipe!Spec

\* Every frame is eventually shown or dropped while the Pacer lives.
FramesMoveOn ==
  \A f \in 1..MaxFrames :
    (sent >= f) ~> (shown >= f \/ f \in freed \/ stopping \/ crashed)

\* Destruction ends when frames are rendered on the main thread.
StopsWithoutRenderThread ==
  (stopping /\ ~mode.thread) ~> (dtor = "done" \/ crashed)

\* Nothing waits for good: frames while the Pacer lives, and its destructor.
MovesOn == FramesMoveOn /\ StopsWithoutRenderThread

-----------------------------------------------------------------------------
(* What a comment of the code claims *)

\* ~Pacer(): "Stop the render thread" - the wait for it ends.
StopEnds == stopping ~> (dtor = "done" \/ crashed)
=============================================================================
