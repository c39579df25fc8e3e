----------------------------- MODULE SceneVideo -----------------------------
(***************************************************************************)
(* Scene mode: the way of a frame from the decoder thread to the Qt Quick  *)
(* scene graph (quicksink.cpp, quicksinkbridge.cpp, videoitem.cpp), for    *)
(* one stream and the page that shows it.                                  *)
(*                                                                         *)
(* The decoder thread hands frames to the one-slot bridge and announces    *)
(* them outside its lock; the main thread runs the session (which creates, *)
(* replaces and destroys the decoder), delivers the announcements, syncs   *)
(* the item and renders.  A hardware frame is imported without a copy; if  *)
(* that fails, this and all later frames are read back.                    *)
(*                                                                         *)
(* Frames are numbered as they are decoded.  A fence wait is assumed to    *)
(* end because the GPU is done, not because of its timeout of 100 ms.      *)
(***************************************************************************)
EXTENDS Naturals, FiniteSets

CONSTANTS
  Address,    \* addresses at which a backend renderer can be allocated
  MaxFrames,  \* bound of the model: frames that are decoded
  MaxDecoders \* bound of the model: decoders that are created

ASSUME AddressAssumption == 0 \notin Address
ASSUME BoundAssumption == MaxFrames \in Nat /\ MaxDecoders \in Nat \ {0}

NoFrame   == [n |-> 0, hw |-> FALSE]
NoBackend == 0
NoSetup   == [backend |-> NoBackend, generation |-> 0]

VARIABLES
  stream,  \* "before", "running", "ending" or "over"
  page,    \* "open", "closed", "gone" or "lost": the page with its item and node,
           \* which was destroyed with a current GL context or without one
  decoder, \* the decoder thread: pc, frame in hand, hardware or software
  bridge,  \* QuickSinkBridge: its fields and the undelivered announcements
  sink,    \* registry of quicksink.cpp: backend renderer and generation; and whether
           \* that backend was initialised for EGL
  main,    \* where the main thread is: "idle", "render", "retire", "draw"
  dirty,   \* the item has asked for a sync
  node,    \* VideoRenderNode: its fields
  gpu,     \* imported frames that the GPU may still be reading
  sent,    \* history: frames decoded
  shown    \* history: the newest frame whose content is in the textures

vars == <<stream, page, decoder, bridge, sink, main, dirty, node, gpu, sent, shown>>

NoDecoder == [pc |-> "none", frame |-> NoFrame, hw |-> FALSE]

\* The bridge outlives streams: its preference is what the last stream left.
Init ==
  /\ stream = "before" /\ page = "open"
  /\ decoder = NoDecoder
  /\ \E b \in BOOLEAN :
       bridge = [enabled |-> FALSE, pending |-> NoFrame, signalPending |-> FALSE,
                 preferSoftware |-> b, frameReady |-> 0]
  /\ sink = [backend |-> NoBackend, generation |-> 0, ready |-> FALSE]
  /\ main = "idle" /\ dirty = FALSE
  /\ node = [pending |-> NoFrame, latched |-> NoFrame, current |-> NoFrame,
             latchedImport |-> FALSE, importActive |-> FALSE, importTextures |-> FALSE,
             importDisabled |-> FALSE, setup |-> NoSetup]
  /\ gpu = {}
  /\ sent = 0 /\ shown = 0

-----------------------------------------------------------------------------
(* The decoder thread *)

DecodeFrame ==
  /\ decoder.pc = "idle" /\ sent < MaxFrames
  /\ sent' = sent + 1
  /\ decoder' = [decoder EXCEPT !.pc = "choose",
                                !.frame = [n |-> sent + 1, hw |-> decoder.hw]]
  /\ UNCHANGED <<stream, page, bridge, sink, main, dirty, node, gpu, shown>>

\* QuickSinkRenderer::renderFrame() hands a hardware frame on as it is, or
\* reads it back, which may fail; the preference is read without the lock.
ReadBackOrNot ==
  /\ decoder.pc = "choose"
  /\ \/ /\ decoder.frame.hw => ~bridge.preferSoftware
        /\ decoder' = [decoder EXCEPT !.pc = "submit"]
     \/ /\ decoder.frame.hw /\ bridge.preferSoftware
        /\ \/ decoder' = [decoder EXCEPT !.pc = "submit", !.frame.hw = FALSE]
           \/ decoder' = [decoder EXCEPT !.pc = "idle", !.frame = NoFrame]
  /\ UNCHANGED <<stream, page, bridge, sink, main, dirty, node, gpu, sent, shown>>

\* submitFrame() under the lock: the newest frame replaces the one nobody took.
SubmitFrame ==
  /\ decoder.pc = "submit"
  /\ decoder' = [decoder EXCEPT !.frame = NoFrame,
                   !.pc = IF bridge.enabled /\ ~bridge.signalPending THEN "emit" ELSE "idle"]
  /\ bridge' = IF bridge.enabled
               THEN [bridge EXCEPT !.pending = decoder.frame, !.signalPending = TRUE]
               ELSE bridge
  /\ UNCHANGED <<stream, page, sink, main, dirty, node, gpu, sent, shown>>

\* ... and the announcement after it.
EmitFrameReady ==
  /\ decoder.pc = "emit"
  /\ decoder' = [decoder EXCEPT !.pc = "idle"]
  /\ bridge' = [bridge EXCEPT !.frameReady = @ + 1]
  /\ UNCHANGED <<stream, page, sink, main, dirty, node, gpu, sent, shown>>

-----------------------------------------------------------------------------
(* The session, on the main thread *)

\* A new decoder with a VAAPI backend, at any address, or in software.  Its
\* sink registers the backend.
NewDecoder ==
  \E backend \in Address \cup {NoBackend} :
    /\ sink' = [backend |-> backend, generation |-> sink.generation + 1,
                ready |-> FALSE]
    /\ decoder' = [NoDecoder EXCEPT !.pc = "idle", !.hw = (backend # NoBackend)]

\* enable(); a variant keeps the preference of the last stream.
EnabledAsBefore(b) ==
  [b EXCEPT !.enabled = TRUE, !.pending = NoFrame, !.signalPending = FALSE]
Enabled(b) ==
  [b EXCEPT !.enabled = TRUE, !.pending = NoFrame, !.signalPending = FALSE,
            !.preferSoftware = FALSE]

StartStream ==
  /\ main = "idle" /\ stream = "before"
  /\ stream' = "running"
  /\ bridge' = Enabled(bridge)
  /\ NewDecoder
  /\ UNCHANGED <<page, main, dirty, node, gpu, sent, shown>>

\* handleSceneDecoderReset(): the old decoder's thread is joined first.
ResetDecoder ==
  /\ main = "idle" /\ stream = "running" /\ decoder.pc = "idle"
  /\ sink.generation < MaxDecoders
  /\ NewDecoder
  /\ UNCHANGED <<stream, page, bridge, main, dirty, node, gpu, sent, shown>>

\* stopSession(), or a reset that finds no decoder: the decoder goes first,
\* and takes its registration with it.
DestroyDecoder ==
  /\ main = "idle" /\ stream = "running" /\ decoder.pc = "idle"
  /\ decoder' = NoDecoder
  /\ sink' = [sink EXCEPT !.backend = NoBackend, !.ready = FALSE]
  /\ stream' = "ending"
  /\ main' = "stop"
  /\ UNCHANGED <<page, bridge, dirty, node, gpu, sent, shown>>

DisableBridge ==
  /\ main = "stop"
  /\ bridge' = [bridge EXCEPT !.enabled = FALSE, !.pending = NoFrame,
                              !.signalPending = FALSE]
  /\ stream' = "over"
  /\ main' = "idle"
  /\ UNCHANGED <<page, decoder, sink, dirty, node, gpu, sent, shown>>

-----------------------------------------------------------------------------
(* The item, on the main thread *)

Open == main = "idle" /\ page = "open"

\* A queued frameReady() is delivered: onFrameReady() asks for a sync.
OnFrameReady ==
  /\ Open /\ bridge.frameReady > 0
  /\ bridge' = [bridge EXCEPT !.frameReady = @ - 1]
  /\ dirty' = TRUE
  /\ UNCHANGED <<stream, page, decoder, sink, main, node, gpu, sent, shown>>

\* The item is dirty for a reason of its own, such as a resize.
Resized ==
  /\ Open /\ ~dirty
  /\ dirty' = TRUE
  /\ UNCHANGED <<stream, page, decoder, bridge, sink, main, node, gpu, sent, shown>>

\* takeFrame(); a variant leaves the flag.
TakenSignalLeft(b) == [b EXCEPT !.pending = NoFrame]
Taken(b) == [b EXCEPT !.pending = NoFrame, !.signalPending = FALSE]

UpdatePaintNode ==
  /\ Open /\ dirty
  /\ dirty' = FALSE
  /\ node' = IF bridge.pending = NoFrame THEN node
             ELSE [node EXCEPT !.pending = bridge.pending]
  /\ bridge' = Taken(bridge)
  /\ main' = "render"
  /\ UNCHANGED <<stream, page, decoder, sink, gpu, sent, shown>>

\* Something else on the page is repainted.
Repaint ==
  /\ Open
  /\ main' = "render"
  /\ UNCHANGED <<stream, page, decoder, bridge, sink, dirty, node, gpu, sent, shown>>

\* render() is not called, or has no context.
NotRendered ==
  /\ main = "render"
  /\ main' = "idle"
  /\ UNCHANGED <<stream, page, decoder, bridge, sink, dirty, node, gpu, sent, shown>>

-----------------------------------------------------------------------------
(* VideoRenderNode::render(), on the main thread *)

\* ensureEglSetup(): whether the node remembers the setup of the active backend.
\* A variant compares addresses only.
SameAddress(setup) == setup.backend = sink.backend
SameBackend(setup) ==
  setup.backend = sink.backend /\ setup.generation = sink.generation

\* What it leaves behind: if the node remembers the setup, everything as it was;
\* else the backend is initialised, and the node remembers that.  Without a
\* backend nothing is touched; failing halfway, the node has forgotten the old
\* setup, whether or not the backend was initialised.
ActiveSetup == [backend |-> sink.backend, generation |-> sink.generation]
EnsuredSetup == IF SameBackend(node.setup)
                THEN [setup |-> node.setup, ready |-> sink.ready]
                ELSE [setup |-> ActiveSetup, ready |-> TRUE]
FailedSetups ==
  IF SameBackend(node.setup) \/ sink.backend = NoBackend
  THEN {[setup |-> node.setup, ready |-> sink.ready]}
  ELSE {[setup |-> NoSetup, ready |-> b] : b \in {sink.ready, TRUE}}

\* A bridge that prefers hardware frames again gives the import a new chance.
Disabled == node.importDisabled /\ bridge.preferSoftware

\* The content of frame f is in the textures.
Latched(f, import) == [node EXCEPT !.pending = NoFrame, !.latched = f,
                                   !.latchedImport = import]

\* Frame and content are not usable.  A variant has freed the previous frame
\* before it knew.
DroppedBoth == [node EXCEPT !.pending = NoFrame, !.current = NoFrame]
Dropped == [node EXCEPT !.pending = NoFrame]

\* tryImportFrame() succeeds.
ImportFrame ==
  /\ main = "render" /\ node.pending.hw /\ ~Disabled /\ sink.backend # NoBackend
  /\ node' = [Latched(node.pending, TRUE) EXCEPT
                !.importTextures = TRUE, !.importDisabled = FALSE,
                !.setup = EnsuredSetup.setup]
  /\ sink' = [sink EXCEPT !.ready = EnsuredSetup.ready]
  /\ shown' = node.pending.n
  /\ main' = "retire"
  /\ UNCHANGED <<stream, page, decoder, bridge, dirty, gpu, sent>>

\* engageSoftwareFallback() when the import is disabled or fails: there is no
\* backend, its setup or the export fails, or GL rejects the images, after which
\* the import textures are gone.  The preference is told to the decoder's side,
\* and this frame is transferred and uploaded, either of which may fail.
FallBack ==
  /\ main = "render" /\ node.pending.hw
  /\ bridge' = [bridge EXCEPT !.preferSoftware = TRUE]
  /\ \E textures \in {node.importTextures} \cup (IF Disabled THEN {} ELSE {FALSE}),
        tried \in IF Disabled THEN {[setup |-> node.setup, ready |-> sink.ready]}
                  ELSE FailedSetups \cup
                       (IF sink.backend = NoBackend THEN {} ELSE {EnsuredSetup}),
        uploaded \in BOOLEAN :
       LET left == IF uploaded THEN Latched([node.pending EXCEPT !.hw = FALSE], FALSE)
                               ELSE Dropped
       IN /\ node' = [left EXCEPT !.importTextures = textures, !.setup = tried.setup,
                                  !.importDisabled = TRUE]
          /\ sink' = [sink EXCEPT !.ready = tried.ready]
          /\ shown' = IF uploaded THEN node.pending.n ELSE shown
          /\ main' = IF uploaded THEN "retire" ELSE "draw"
  /\ UNCHANGED <<stream, page, decoder, dirty, gpu, sent>>

\* latchUploadedFrame() for a software frame.
UploadFrame ==
  /\ main = "render" /\ node.pending # NoFrame /\ ~node.pending.hw
  /\ \/ /\ node' = Latched(node.pending, FALSE)
        /\ shown' = node.pending.n
        /\ main' = "retire"
     \/ /\ node' = Dropped
        /\ main' = "draw"
        /\ UNCHANGED shown
  /\ UNCHANGED <<stream, page, decoder, bridge, sink, dirty, gpu, sent>>

\* The previous frame is freed, after a wait for the GPU if it was imported.
\* A variant does not wait.
NotWaited == gpu
Waited == IF node.importActive THEN {} ELSE gpu

RetireCurrentFrame ==
  /\ main = "retire"
  /\ gpu' = Waited
  /\ node' = [node EXCEPT !.current = node.latched, !.latched = NoFrame,
                          !.importActive = node.latchedImport]
  /\ main' = "draw"
  /\ UNCHANGED <<stream, page, decoder, bridge, sink, dirty, sent, shown>>

\* The textures are drawn, and a fence is set after an imported frame.
Draw ==
  /\ main = "draw" \/ (main = "render" /\ node.pending = NoFrame)
  /\ gpu' = IF node.importActive /\ node.importTextures
            THEN gpu \cup {node.current.n} ELSE gpu
  /\ main' = "idle"
  /\ UNCHANGED <<stream, page, decoder, bridge, sink, dirty, node, sent, shown>>

-----------------------------------------------------------------------------
\* What releaseGlResources() leaves of the node: no textures, no import, no setup.
Released == [node EXCEPT !.importActive = FALSE, !.importTextures = FALSE,
                         !.setup = NoSetup]

\* The scene graph is invalidated, which makes the context current before.
ReleaseResources ==
  /\ Open
  /\ gpu' = Waited
  /\ node' = Released
  /\ UNCHANGED <<stream, page, decoder, bridge, sink, main, dirty, sent, shown>>

\* The page is popped when the session has finished, its node destroyed after.
ClosePage ==
  /\ Open /\ stream = "over"
  /\ page' = "closed"
  /\ bridge' = [bridge EXCEPT !.frameReady = 0]
  /\ UNCHANGED <<stream, decoder, sink, main, dirty, node, gpu, sent, shown>>

\* The node releases its resources and frees its frames.  Without a current
\* context it drops the fence and does not wait.
DestroyNode ==
  /\ main = "idle" /\ page = "closed"
  /\ \/ page' = "gone" /\ gpu' = Waited
     \/ page' = "lost" /\ UNCHANGED gpu
  /\ node' = [Released EXCEPT !.pending = NoFrame, !.latched = NoFrame,
                              !.current = NoFrame]
  /\ UNCHANGED <<stream, decoder, bridge, sink, main, dirty, sent, shown>>

DecoderThread == DecodeFrame \/ ReadBackOrNot \/ SubmitFrame \/ EmitFrameReady
MainSession == StartStream \/ ResetDecoder \/ DestroyDecoder \/ DisableBridge
RenderPass == \/ ImportFrame \/ FallBack \/ UploadFrame \/ NotRendered
              \/ RetireCurrentFrame \/ Draw
Item == OnFrameReady \/ Resized \/ UpdatePaintNode \/ Repaint \/ ReleaseResources
        \/ ClosePage \/ DestroyNode

Next == DecoderThread \/ MainSession \/ RenderPass \/ Item

Spec == Init /\ [][Next]_vars

\* The threads run on: the decoder thread finishes the frame it has, the main
\* thread delivers events, syncs a dirty item and ends a pass it began, however
\* often others want it.
FairSpec == /\ Spec
            /\ WF_vars(ReadBackOrNot \/ SubmitFrame \/ EmitFrameReady)
            /\ WF_vars(RenderPass \/ DisableBridge)
            /\ SF_vars(OnFrameReady) /\ SF_vars(UpdatePaintNode)

-----------------------------------------------------------------------------
Frame == [n : 0..MaxFrames, hw : BOOLEAN]
Setup == [backend : Address \cup {NoBackend}, generation : 0..MaxDecoders]

TypeOK ==
  /\ stream \in {"before", "running", "ending", "over"}
  /\ page \in {"open", "closed", "gone", "lost"}
  /\ decoder \in [pc : {"none", "idle", "choose", "submit", "emit"}, frame : Frame,
                  hw : BOOLEAN]
  /\ bridge \in [enabled : BOOLEAN, pending : Frame, signalPending : BOOLEAN,
                 preferSoftware : BOOLEAN, frameReady : Nat]
  /\ sink \in [backend : Address \cup {NoBackend}, generation : 0..MaxDecoders,
              ready : BOOLEAN]
  /\ main \in {"idle", "stop", "render", "retire", "draw"}
  /\ dirty \in BOOLEAN
  /\ node \in [pending : Frame, latched : Frame, current : Frame,
               latchedImport : BOOLEAN, importActive : BOOLEAN,
               importTextures : BOOLEAN, importDisabled : BOOLEAN, setup : Setup]
  /\ gpu \subseteq 1..MaxFrames
  /\ sent \in 0..MaxFrames /\ shown \in 0..MaxFrames

\* A frame is not given back to the decoder while the GPU may read it; a node
\* that is destroyed without a current context is the exception of the code.
GpuFramesKept == page # "lost" => gpu \subseteq {node.current.n}

\* The two sides agree whether frames come in software, for each stream anew
\* ("flip the bridge to software readback for the rest of the session").
FallbackAgreed ==
  stream \in {"running", "ending"} => bridge.preferSoftware = node.importDisabled

\* Both sides of the bridge agree, in a state of the code's types.
Consistent == TypeOK /\ FallbackAgreed

\* Images are exported only by a backend that was itself initialised for EGL
\* (the assertion of VAAPIRenderer::exportEGLImages()), not by one that follows a
\* backend whose setup the node remembers, at the same address or another.
ImportsUseReadyBackend ==
  [][node'.latchedImport /\ node'.latched # node.latched /\ node'.latched # NoFrame
     => sink'.ready]_vars

\* A frame in the bridge is taken, replaced or freed; no announcement is lost.
FramesAreTaken ==
  \A n \in 1..MaxFrames : bridge.pending.n = n ~> bridge.pending.n # n

\* Every buffer the stage owns.
Held == {decoder.frame.n, bridge.pending.n, node.pending.n, node.latched.n,
         node.current.n} \ {0}

\* Frames reach the screen in stream order, and the one on screen is kept.
Pipe == INSTANCE FramePipe WITH live <- Held, closed <- (page # "open")
KeepsPromise == Pipe!Spec
=============================================================================
