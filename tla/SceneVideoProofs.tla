-------------------------- MODULE SceneVideoProofs --------------------------
(***************************************************************************)
(* Proofs about SceneVideo.tla, for any number of frames, decoders and     *)
(* addresses: both sides agree on the fallback, the GPU never reads a      *)
(* frame that was freed, imports use a backend that was initialised, and   *)
(* the path implements FramePipe.                                          *)
(*                                                                         *)
(* None of it is inductive alone.  FallbackAgreed rests on what no stream  *)
(* has touched yet (Stages); GpuFramesKept on "no import, nothing to wait  *)
(* for" (Fenced); the imports on a remembered setup that is the live one   *)
(* only if it was made for it (Initialised); the refinement on the frames  *)
(* lying in stream order from the decoder to the screen (Ordered).         *)
(***************************************************************************)
EXTENDS SceneVideo, TLAPS

\* How far stream, page and main thread are, and what that excludes.
Stages ==
  /\ stream = "before" => /\ sink.generation = 0 /\ ~node.importDisabled
                          /\ bridge.pending = NoFrame /\ node.pending = NoFrame
  /\ stream # "running" => decoder.pc = "none"
  /\ decoder.pc \in {"none", "idle", "emit"} => decoder.frame = NoFrame
  /\ stream = "over" => bridge.pending = NoFrame
  /\ page # "open" => stream = "over" /\ main = "idle"
  /\ main = "stop" => stream = "ending"

\* Frames lie in stream order between the decoder and the screen; the one in
\* node.latched is on its way into node.current.
Ordered ==
  /\ shown <= sent /\ node.current.n <= shown
  /\ node.pending.n # 0 => shown < node.pending.n /\ node.pending.n <= sent
  /\ bridge.pending.n # 0 => /\ shown < bridge.pending.n /\ bridge.pending.n <= sent
                             /\ node.pending.n < bridge.pending.n
  /\ decoder.frame.n # 0 => /\ shown < decoder.frame.n /\ decoder.frame.n <= sent
                            /\ node.pending.n < decoder.frame.n
                            /\ bridge.pending.n < decoder.frame.n
  /\ main # "retire" => /\ node.latched.n = 0
                        /\ page \notin {"gone", "lost"} => node.current.n = shown
  /\ main = "retire" => node.latched.n = shown /\ node.current.n < shown

\* The GPU reads only the frame on screen, and only if that was imported.
Fenced ==
  /\ page # "lost" => /\ gpu \subseteq {node.current.n}
                      /\ ~node.importActive => gpu = {}
  /\ node.importActive => node.current.n # 0
  /\ main = "retire" /\ node.latchedImport => node.latched.n # 0
  /\ \A f \in {decoder.frame, bridge.pending, node.pending} : f.hw => f.n # 0

DecoderType == [pc : {"none", "idle", "choose", "submit", "emit"}, frame : Frame,
                hw : BOOLEAN]
BridgeType == [enabled : BOOLEAN, pending : Frame, signalPending : BOOLEAN,
               preferSoftware : BOOLEAN, frameReady : Nat]
SinkType == [backend : Address \cup {NoBackend}, generation : 0..MaxDecoders,
             ready : BOOLEAN]
NodeType == [pending : Frame, latched : Frame, current : Frame,
             latchedImport : BOOLEAN, importActive : BOOLEAN,
             importTextures : BOOLEAN, importDisabled : BOOLEAN, setup : Setup]

IInv == TypeOK /\ FallbackAgreed /\ Stages /\ Ordered /\ Fenced

\* The setup the node remembers is never of a generation to come, and if it is
\* that of the live backend, that backend was initialised.
Initialised ==
  /\ node.setup.generation <= sink.generation
  /\ SameBackend(node.setup) /\ sink.backend # NoBackend => sink.ready

-----------------------------------------------------------------------------
LEMMA NoFrameTyped == NoFrame \in Frame
  BY BoundAssumption DEF NoFrame, Frame

LEMMA NoSetupTyped == NoSetup \in Setup /\ NoBackend \in Address \cup {NoBackend}
  BY BoundAssumption DEF NoSetup, Setup

LEMMA InitHolds == Init => IInv
<1>. SUFFICES ASSUME Init PROVE IInv
  OBVIOUS
<1>1. TypeOK
  <2>1. decoder \in DecoderType
    BY NoFrameTyped DEF Init, NoDecoder, DecoderType
  <2>2. bridge \in BridgeType
    BY NoFrameTyped DEF Init, BridgeType
  <2>3. node \in NodeType
    BY NoFrameTyped, NoSetupTyped DEF Init, NodeType
  <2>4. sink \in SinkType
    BY NoSetupTyped DEF Init, NoSetup, Setup, SinkType
  <2>5. sent \in 0..MaxFrames /\ shown \in 0..MaxFrames
    BY BoundAssumption DEF Init
  <2>6. /\ stream = "before" /\ page = "open" /\ main = "idle"
        /\ dirty \in BOOLEAN /\ gpu = {}
    BY DEF Init
  <2>. QED BY <2>1, <2>2, <2>3, <2>4, <2>5, <2>6
       DEF TypeOK, DecoderType, BridgeType, NodeType, SinkType
<1>2. FallbackAgreed /\ Stages /\ Ordered /\ Fenced
  BY DEF Init, FallbackAgreed, Stages, Ordered, Fenced, NoFrame, NoDecoder
<1>. QED BY <1>1, <1>2 DEF IInv

\* A step of the decoder thread.
LEMMA DecodeFrameKeeps == IInv /\ DecodeFrame => IInv'
<1>. SUFFICES ASSUME IInv, DecodeFrame PROVE IInv'
  OBVIOUS
<1>. USE BoundAssumption DEF IInv, DecodeFrame
<1>1. TypeOK'
  <2>1. sent + 1 \in 0..MaxFrames
    BY DEF TypeOK
  <2>2. [n |-> sent + 1, hw |-> decoder.hw] \in Frame
    BY <2>1 DEF TypeOK, Frame
  <2>3. decoder' \in DecoderType /\ sent' \in 0..MaxFrames
    BY <2>1, <2>2 DEF TypeOK, DecoderType
  <2>. QED BY <2>3 DEF TypeOK, DecoderType
<1>2. FallbackAgreed' /\ Stages'
  BY DEF FallbackAgreed, Stages, TypeOK
<1>3. Ordered'
  BY DEF Ordered, Stages, TypeOK, Frame, NoFrame
<1>4. Fenced'
  BY DEF Fenced, TypeOK, Frame
<1>. QED BY <1>1, <1>2, <1>3, <1>4

\* The frame stays, is in memory now, or is lost.
LEMMA ReadBackEffect ==
  ASSUME TypeOK, ReadBackOrNot
  PROVE  /\ decoder' \in DecoderType
         /\ \/ decoder'.frame = decoder.frame
            \/ decoder'.frame.n = decoder.frame.n /\ decoder'.frame.hw = FALSE
            \/ decoder'.frame = NoFrame
         /\ decoder'.pc \in {"submit", "idle"}
         /\ decoder'.pc = "idle" => decoder'.frame = NoFrame
<1>1. \/ decoder' = [decoder EXCEPT !.pc = "submit"]
      \/ decoder' = [decoder EXCEPT !.pc = "submit", !.frame.hw = FALSE]
      \/ decoder' = [decoder EXCEPT !.pc = "idle", !.frame = NoFrame]
  BY DEF ReadBackOrNot
<1>2. decoder \in DecoderType
  BY DEF TypeOK, DecoderType
<1>3. CASE decoder' = [decoder EXCEPT !.pc = "submit"]
  BY <1>2, <1>3 DEF DecoderType
<1>4. CASE decoder' = [decoder EXCEPT !.pc = "submit", !.frame.hw = FALSE]
  <2>1. [decoder.frame EXCEPT !.hw = FALSE] \in Frame
    BY <1>2 DEF DecoderType, Frame
  <2>2. decoder' \in DecoderType
    BY <1>2, <1>4, <2>1 DEF DecoderType
  <2>. QED BY <1>2, <1>4, <2>2 DEF DecoderType, Frame
<1>5. CASE decoder' = [decoder EXCEPT !.pc = "idle", !.frame = NoFrame]
  BY <1>2, <1>5, NoFrameTyped DEF DecoderType
<1>. QED BY <1>1, <1>3, <1>4, <1>5

LEMMA ReadBackKeeps == IInv /\ ReadBackOrNot => IInv'
<1>. SUFFICES ASSUME IInv, ReadBackOrNot PROVE IInv'
  OBVIOUS
<1>. USE DEF IInv
<1>1. /\ decoder' \in DecoderType
      /\ \/ decoder'.frame = decoder.frame
         \/ decoder'.frame.n = decoder.frame.n /\ decoder'.frame.hw = FALSE
         \/ decoder'.frame = NoFrame
      /\ decoder'.pc \in {"submit", "idle"}
      /\ decoder'.pc = "idle" => decoder'.frame = NoFrame
  BY ReadBackEffect
<1>2. UNCHANGED <<stream, page, bridge, sink, main, dirty, node, gpu, sent, shown>>
      /\ decoder.pc = "choose"
  BY DEF ReadBackOrNot
<1>3. TypeOK'
  BY <1>1, <1>2 DEF TypeOK, DecoderType
<1>4. FallbackAgreed' /\ Stages'
  BY <1>1, <1>2 DEF FallbackAgreed, Stages, TypeOK
<1>5. Ordered'
  BY <1>1, <1>2 DEF Ordered, NoFrame
<1>6. Fenced'
  BY <1>1, <1>2 DEF Fenced, NoFrame
<1>. QED BY <1>3, <1>4, <1>5, <1>6

LEMMA SubmitFrameKeeps == IInv /\ SubmitFrame => IInv'
<1>. SUFFICES ASSUME IInv, SubmitFrame PROVE IInv'
  OBVIOUS
<1>. USE BoundAssumption DEF IInv, SubmitFrame
<1>1. TypeOK'
  <2>1. decoder' \in DecoderType
    BY NoFrameTyped DEF TypeOK, DecoderType
  <2>2. bridge' \in BridgeType
    BY DEF TypeOK, BridgeType
  <2>. QED BY <2>1, <2>2 DEF TypeOK, DecoderType, BridgeType
<1>2. FallbackAgreed' /\ Stages'
  BY DEF FallbackAgreed, Stages, TypeOK
<1>3. Ordered'
  BY DEF Ordered, TypeOK, Frame, NoFrame
<1>4. Fenced'
  BY DEF Fenced, TypeOK, Frame, NoFrame
<1>. QED BY <1>1, <1>2, <1>3, <1>4

LEMMA EmitFrameReadyKeeps == IInv /\ EmitFrameReady => IInv'
<1>. SUFFICES ASSUME IInv, EmitFrameReady PROVE IInv'
  OBVIOUS
<1>. USE DEF IInv, EmitFrameReady
<1>1. TypeOK'
  BY DEF TypeOK
<1>2. FallbackAgreed' /\ Stages'
  BY DEF FallbackAgreed, Stages, TypeOK
<1>3. Ordered' /\ Fenced'
  BY DEF Ordered, Fenced, TypeOK
<1>. QED BY <1>1, <1>2, <1>3

\* The session creates, replaces and destroys decoders.
LEMMA NewDecoderTyped ==
  ASSUME TypeOK, NewDecoder, sink.generation < MaxDecoders
  PROVE  /\ sink' \in SinkType
         /\ decoder'.frame = NoFrame /\ decoder'.pc = "idle"
         /\ decoder' \in [pc : {"none", "idle", "choose", "submit", "emit"},
                          frame : Frame, hw : BOOLEAN]
<1>1. PICK backend \in Address \cup {NoBackend} :
        /\ sink' = [backend |-> backend, generation |-> sink.generation + 1,
                    ready |-> FALSE]
        /\ decoder' = [NoDecoder EXCEPT !.pc = "idle", !.hw = (backend # NoBackend)]
  BY DEF NewDecoder
<1>2. sink.generation + 1 \in 0..MaxDecoders
  BY BoundAssumption DEF TypeOK
<1>. QED BY <1>1, <1>2, NoFrameTyped DEF SinkType, NoDecoder

LEMMA StartStreamKeeps == IInv /\ StartStream => IInv'
<1>. SUFFICES ASSUME IInv, StartStream PROVE IInv'
  OBVIOUS
<1>. USE DEF IInv, StartStream, Enabled
<1>1. sink.generation < MaxDecoders
  BY BoundAssumption DEF Stages
<1>2. /\ sink' \in SinkType
      /\ decoder'.frame = NoFrame /\ decoder'.pc = "idle"
      /\ decoder' \in [pc : {"none", "idle", "choose", "submit", "emit"},
                       frame : Frame, hw : BOOLEAN]
  BY <1>1, NewDecoderTyped
<1>3. TypeOK'
  BY <1>2, BoundAssumption DEF TypeOK, Frame, NoFrame, SinkType
<1>4. FallbackAgreed' /\ Stages'
  BY <1>2 DEF FallbackAgreed, Stages, TypeOK
<1>5. Ordered' /\ Fenced'
  BY <1>2 DEF Ordered, Fenced, TypeOK, Frame, NoFrame
<1>. QED BY <1>3, <1>4, <1>5

LEMMA ResetDecoderKeeps == IInv /\ ResetDecoder => IInv'
<1>. SUFFICES ASSUME IInv, ResetDecoder PROVE IInv'
  OBVIOUS
<1>. USE DEF IInv, ResetDecoder
<1>1. /\ sink' \in SinkType
      /\ decoder'.frame = NoFrame /\ decoder'.pc = "idle"
      /\ decoder' \in [pc : {"none", "idle", "choose", "submit", "emit"},
                       frame : Frame, hw : BOOLEAN]
  BY NewDecoderTyped
<1>2. TypeOK'
  BY <1>1 DEF TypeOK, SinkType
<1>3. FallbackAgreed' /\ Stages'
  BY <1>1 DEF FallbackAgreed, Stages
<1>4. Ordered' /\ Fenced'
  BY <1>1 DEF Ordered, Fenced, NoFrame
<1>. QED BY <1>2, <1>3, <1>4

LEMMA StopKeeps == IInv /\ (DestroyDecoder \/ DisableBridge) => IInv'
<1>. SUFFICES ASSUME IInv, DestroyDecoder \/ DisableBridge PROVE IInv'
  OBVIOUS
<1>. USE DEF IInv
<1>1. CASE DestroyDecoder
  <2>. USE <1>1 DEF DestroyDecoder
  <2>1. TypeOK'
    <3>1. decoder' \in DecoderType /\ sink' \in SinkType
      BY NoFrameTyped, NoSetupTyped DEF TypeOK, DecoderType, NoDecoder, SinkType
    <3>. QED BY <3>1 DEF TypeOK, DecoderType, SinkType
  <2>2. FallbackAgreed' /\ Stages'
    BY DEF FallbackAgreed, Stages, NoDecoder, TypeOK
  <2>3. Ordered' /\ Fenced'
    BY DEF Ordered, Fenced, NoFrame, NoDecoder
  <2>. QED BY <2>1, <2>2, <2>3
<1>2. CASE DisableBridge
  <2>. USE <1>2 DEF DisableBridge
  <2>1. TypeOK'
    <3>1. bridge' \in BridgeType
      BY NoFrameTyped DEF TypeOK, BridgeType
    <3>. QED BY <3>1 DEF TypeOK, BridgeType
  <2>2. FallbackAgreed' /\ Stages'
    BY DEF FallbackAgreed, Stages, TypeOK
  <2>3. Ordered' /\ Fenced'
    BY DEF Ordered, Fenced, NoFrame, TypeOK, Frame
  <2>. QED BY <2>1, <2>2, <2>3
<1>. QED BY <1>1, <1>2

\* Announcements, syncs and repaints.
LEMMA ItemKeeps ==
  IInv /\ (OnFrameReady \/ Resized \/ Repaint \/ NotRendered \/ ClosePage) => IInv'
<1>. SUFFICES ASSUME IInv,
                     OnFrameReady \/ Resized \/ Repaint \/ NotRendered \/ ClosePage
              PROVE IInv'
  OBVIOUS
<1>. USE DEF IInv, Open
<1>1. UNCHANGED <<stream, decoder, sink, node, gpu, sent, shown>>
  BY DEF OnFrameReady, Resized, Repaint, NotRendered, ClosePage
<1>2. bridge' \in BridgeType /\ bridge'.pending = bridge.pending
      /\ bridge'.preferSoftware = bridge.preferSoftware
  BY DEF OnFrameReady, Resized, Repaint, NotRendered, ClosePage, TypeOK, BridgeType
<1>3. main' \in {main, "render", "idle"} /\ dirty' \in BOOLEAN
      /\ page' \in {page, "closed"} /\ main # "retire" /\ page \notin {"gone", "lost"}
  BY DEF OnFrameReady, Resized, Repaint, NotRendered, ClosePage, TypeOK, Stages
<1>4. TypeOK'
  BY <1>1, <1>2, <1>3 DEF TypeOK, BridgeType
<1>5. FallbackAgreed'
  BY <1>1, <1>2 DEF FallbackAgreed
<1>6. Stages'
  BY <1>1, <1>2 DEF Stages, OnFrameReady, Resized, Repaint, NotRendered, ClosePage
<1>7. Ordered' /\ Fenced'
  BY <1>1, <1>2, <1>3 DEF Ordered, Fenced
<1>. QED BY <1>4, <1>5, <1>6, <1>7

LEMMA UpdatePaintNodeKeeps == IInv /\ UpdatePaintNode => IInv'
<1>. SUFFICES ASSUME IInv, UpdatePaintNode PROVE IInv'
  OBVIOUS
<1>. USE DEF IInv, UpdatePaintNode, Open, Taken
<1>1. bridge' \in BridgeType /\ node' \in NodeType
  BY NoFrameTyped DEF TypeOK, BridgeType, NodeType
<1>2. TypeOK'
  BY <1>1 DEF TypeOK, BridgeType, NodeType
<1>3. FallbackAgreed' /\ Stages'
  BY DEF FallbackAgreed, Stages, TypeOK
<1>4. Ordered'
  BY DEF Ordered, TypeOK, Frame, NoFrame
<1>5. Fenced'
  BY DEF Fenced, TypeOK, Frame, NoFrame
<1>. QED BY <1>2, <1>3, <1>4, <1>5

-----------------------------------------------------------------------------
(* A render pass *)

\* What a pass does to a frame it can show: its content is in the textures.
Latching(f, import) ==
  /\ node'.pending = NoFrame /\ node'.latched = f /\ node'.latchedImport = import
  /\ node'.current = node.current /\ node'.importActive = node.importActive
  /\ f \in Frame /\ f.n = node.pending.n /\ f.n # 0
  /\ shown' = f.n /\ main' = "retire"

\* ... and to one it cannot.
Dropping ==
  /\ node'.pending = NoFrame /\ node'.latched = node.latched
  /\ node'.latchedImport = node.latchedImport
  /\ node'.current = node.current /\ node'.importActive = node.importActive
  /\ shown' = shown /\ main' = "draw"

\* Either way the frame leaves node.pending, and nothing else moves.
LEMMA PassKeeps ==
  ASSUME IInv, main = "render", node' \in NodeType,
         UNCHANGED <<stream, page, decoder, dirty, gpu, sent>>,
         sink' \in SinkType, sink'.generation = sink.generation,
         bridge'.pending = bridge.pending, bridge' \in BridgeType,
         stream # "before", FallbackAgreed',
         Dropping \/ \E f \in Frame, import \in BOOLEAN : Latching(f, import)
  PROVE  IInv'
<1>. USE DEF IInv
<1>1. TypeOK'
  <2>1. shown' \in 0..MaxFrames /\ main' \in {"retire", "draw"}
    BY DEF Dropping, Latching, TypeOK, Frame
  <2>. QED BY <2>1 DEF TypeOK, NodeType, BridgeType, SinkType
<1>2. Stages'
  BY DEF Stages, Dropping, Latching
<1>3. Ordered'
  BY DEF Ordered, Stages, Dropping, Latching, TypeOK, Frame, NoFrame
<1>4. Fenced'
  BY DEF Fenced, Dropping, Latching, NoFrame
<1>. QED BY <1>1, <1>2, <1>3, <1>4

LEMMA ImportFrameKeeps == IInv /\ ImportFrame => IInv' /\ Latching(node.pending, TRUE)
<1>. SUFFICES ASSUME IInv, ImportFrame PROVE IInv' /\ Latching(node.pending, TRUE)
  OBVIOUS
<1>1. EnsuredSetup.setup \in Setup /\ EnsuredSetup.ready \in BOOLEAN
  BY DEF EnsuredSetup, ActiveSetup, IInv, TypeOK, Setup
<1>2. node' \in NodeType
  BY <1>1, NoFrameTyped DEF IInv, TypeOK, NodeType, ImportFrame, Latched
<1>3. Latching(node.pending, TRUE)
  BY DEF Latching, ImportFrame, Latched, IInv, TypeOK, Fenced
<1>4. stream # "before"
  BY DEF ImportFrame, IInv, Stages, NoFrame
<1>5. FallbackAgreed'
  BY DEF ImportFrame, Latched, Disabled, IInv, TypeOK, FallbackAgreed
<1>6. node.pending \in Frame /\ bridge \in BridgeType
  BY DEF IInv, TypeOK, BridgeType
<1>7. sink' \in SinkType /\ sink'.generation = sink.generation
  BY <1>1 DEF ImportFrame, IInv, TypeOK, SinkType
<1>. QED BY <1>2, <1>3, <1>4, <1>5, <1>6, <1>7, PassKeeps DEF ImportFrame

LEMMA UploadFrameKeeps ==
  IInv /\ UploadFrame => IInv' /\ (Dropping \/ Latching(node.pending, FALSE))
<1>. SUFFICES ASSUME IInv, UploadFrame
              PROVE IInv' /\ (Dropping \/ Latching(node.pending, FALSE))
  OBVIOUS
<1>1. node' \in NodeType
  BY NoFrameTyped DEF IInv, TypeOK, NodeType, UploadFrame, Latched, Dropped
<1>2. node.pending.n # 0
  BY DEF UploadFrame, IInv, TypeOK, Frame, NoFrame
<1>3. Dropping \/ Latching(node.pending, FALSE)
  BY <1>2 DEF Dropping, Latching, UploadFrame, Latched, Dropped, IInv, TypeOK
<1>4. stream # "before"
  BY DEF UploadFrame, IInv, Stages
<1>5. FallbackAgreed'
  BY DEF UploadFrame, Latched, Dropped, IInv, TypeOK, FallbackAgreed
<1>6. node.pending \in Frame /\ bridge \in BridgeType /\ sink \in SinkType
  BY DEF IInv, TypeOK, BridgeType, SinkType
<1>. QED BY <1>1, <1>3, <1>4, <1>5, <1>6, PassKeeps DEF UploadFrame

Software(f) == [f EXCEPT !.hw = FALSE]

LEMMA FallBackKeeps ==
  IInv /\ FallBack => IInv' /\ (Dropping \/ Latching(Software(node.pending), FALSE))
<1>. SUFFICES ASSUME IInv, FallBack
              PROVE IInv' /\ (Dropping \/ Latching(Software(node.pending), FALSE))
  OBVIOUS
<1>1. Software(node.pending) \in Frame /\ Software(node.pending).n = node.pending.n
      /\ node.pending.n # 0
  BY DEF FallBack, Software, IInv, TypeOK, Frame, Fenced
<1>2. PICK textures \in BOOLEAN, tried \in [setup : Setup, ready : BOOLEAN],
           uploaded \in BOOLEAN :
        /\ node' = [IF uploaded THEN Latched(Software(node.pending), FALSE) ELSE Dropped
                    EXCEPT !.importTextures = textures, !.setup = tried.setup,
                           !.importDisabled = TRUE]
        /\ sink' = [sink EXCEPT !.ready = tried.ready]
        /\ shown' = IF uploaded THEN node.pending.n ELSE shown
        /\ main' = IF uploaded THEN "retire" ELSE "draw"
  <2>1. {node.importTextures} \cup (IF Disabled THEN {} ELSE {FALSE}) \subseteq BOOLEAN
    BY DEF IInv, TypeOK
  <2>2. /\ [setup |-> node.setup, ready |-> sink.ready] \in [setup : Setup, ready : BOOLEAN]
        /\ EnsuredSetup \in [setup : Setup, ready : BOOLEAN]
        /\ FailedSetups \subseteq [setup : Setup, ready : BOOLEAN]
    <3>1. node.setup \in Setup /\ ActiveSetup \in Setup /\ NoSetup \in Setup
          /\ sink.ready \in BOOLEAN
      BY NoSetupTyped DEF IInv, TypeOK, ActiveSetup, Setup
    <3>2. /\ [setup |-> node.setup, ready |-> sink.ready] \in [setup : Setup, ready : BOOLEAN]
          /\ EnsuredSetup \in [setup : Setup, ready : BOOLEAN]
      BY <3>1 DEF EnsuredSetup
    <3>3. \A b \in {sink.ready, TRUE} :
            [setup |-> NoSetup, ready |-> b] \in [setup : Setup, ready : BOOLEAN]
      BY <3>1
    <3>4. FailedSetups \subseteq [setup : Setup, ready : BOOLEAN]
      BY <3>2, <3>3 DEF FailedSetups
    <3>. QED BY <3>2, <3>4
  <2>3. (IF Disabled THEN {[setup |-> node.setup, ready |-> sink.ready]}
         ELSE FailedSetups \cup (IF sink.backend = NoBackend THEN {} ELSE {EnsuredSetup}))
        \subseteq [setup : Setup, ready : BOOLEAN]
    BY <2>2
  <2>. QED BY <2>1, <2>3 DEF FallBack, Software
<1>3. node' \in NodeType
  BY <1>1, <1>2, NoFrameTyped DEF IInv, TypeOK, NodeType, Latched, Dropped
<1>4. Dropping \/ Latching(Software(node.pending), FALSE)
  BY <1>1, <1>2 DEF Dropping, Latching, Latched, Dropped, IInv, TypeOK
<1>5. stream # "before"
  BY DEF FallBack, IInv, Stages, NoFrame
<1>6. FallbackAgreed'
  BY <1>2 DEF FallBack, Latched, Dropped, IInv, TypeOK, FallbackAgreed
<1>7. bridge' \in BridgeType /\ bridge'.pending = bridge.pending
  BY DEF FallBack, IInv, TypeOK, BridgeType
<1>8. sink' \in SinkType /\ sink'.generation = sink.generation
  BY <1>2 DEF IInv, TypeOK, SinkType
<1>. QED BY <1>1, <1>3, <1>4, <1>5, <1>6, <1>7, <1>8, PassKeeps DEF FallBack

LEMMA RetireKeeps == IInv /\ RetireCurrentFrame => IInv'
<1>. SUFFICES ASSUME IInv, RetireCurrentFrame PROVE IInv'
  OBVIOUS
<1>. USE DEF IInv, RetireCurrentFrame, Waited
<1>0. page # "lost"
  BY DEF Stages
<1>1. node' \in NodeType /\ gpu' = {}
  BY <1>0, NoFrameTyped DEF TypeOK, NodeType, Fenced
<1>2. TypeOK'
  BY <1>1 DEF TypeOK, NodeType
<1>3. FallbackAgreed' /\ Stages'
  BY DEF FallbackAgreed, Stages, TypeOK
<1>4. Ordered'
  BY DEF Ordered, TypeOK, Frame, NoFrame
<1>5. Fenced'
  BY <1>1 DEF Fenced, TypeOK
<1>. QED BY <1>2, <1>3, <1>4, <1>5

LEMMA DrawKeeps == IInv /\ Draw => IInv'
<1>. SUFFICES ASSUME IInv, Draw PROVE IInv'
  OBVIOUS
<1>. USE DEF IInv, Draw
<1>1. page # "lost" => /\ gpu' \subseteq {node.current.n}
                       /\ ~node.importActive => gpu' = {}
  BY DEF Fenced
<1>2. node.importActive => node.current.n \in 1..MaxFrames
  BY DEF Fenced, TypeOK, Frame
<1>3. TypeOK'
  <2>1. gpu' \subseteq 1..MaxFrames
    BY <1>2 DEF TypeOK
  <2>. QED BY <2>1 DEF TypeOK
<1>4. FallbackAgreed' /\ Stages' /\ Ordered'
  BY DEF FallbackAgreed, Stages, Ordered
<1>5. Fenced'
  BY <1>1 DEF Fenced
<1>. QED BY <1>3, <1>4, <1>5

LEMMA ReleaseKeeps == IInv /\ ReleaseResources => IInv'
<1>. SUFFICES ASSUME IInv, ReleaseResources PROVE IInv'
  OBVIOUS
<1>. USE DEF IInv, ReleaseResources, Open, Released, Waited
<1>1. node' \in NodeType /\ gpu' = {}
  BY NoSetupTyped DEF TypeOK, NodeType, Fenced
<1>2. TypeOK'
  BY <1>1 DEF TypeOK, NodeType
<1>3. FallbackAgreed' /\ Stages'
  BY DEF FallbackAgreed, Stages, TypeOK
<1>4. Ordered' /\ Fenced'
  BY <1>1 DEF Ordered, Fenced, TypeOK
<1>. QED BY <1>2, <1>3, <1>4

LEMMA DestroyNodeKeeps == IInv /\ DestroyNode => IInv'
<1>. SUFFICES ASSUME IInv, DestroyNode PROVE IInv'
  OBVIOUS
<1>. USE DEF IInv, DestroyNode, Released, Waited
<1>1. node' \in NodeType
  BY NoFrameTyped, NoSetupTyped DEF TypeOK, NodeType
<1>2. page' \in {"gone", "lost"} /\ (page' = "gone" => gpu' = {}) /\ gpu' \subseteq gpu
  BY DEF Fenced
<1>3. TypeOK'
  BY <1>1, <1>2 DEF TypeOK, NodeType
<1>4. FallbackAgreed' /\ Stages'
  BY <1>2 DEF FallbackAgreed, Stages, TypeOK
<1>5. Ordered'
  BY <1>2 DEF Ordered, TypeOK, Frame, NoFrame
<1>6. Fenced'
  BY <1>2 DEF Fenced, TypeOK, NoFrame
<1>. QED BY <1>3, <1>4, <1>5, <1>6

-----------------------------------------------------------------------------
LEMMA NextKeeps == IInv /\ [Next]_vars => IInv'
<1>. SUFFICES ASSUME IInv, [Next]_vars PROVE IInv'
  OBVIOUS
<1>1. CASE UNCHANGED vars
  BY <1>1 DEF vars, IInv, TypeOK, FallbackAgreed, Stages, Ordered, Fenced
<1>2. CASE DecoderThread
  BY <1>2, DecodeFrameKeeps, ReadBackKeeps, SubmitFrameKeeps, EmitFrameReadyKeeps
  DEF DecoderThread
<1>3. CASE MainSession
  BY <1>3, StartStreamKeeps, ResetDecoderKeeps, StopKeeps DEF MainSession
<1>4. CASE RenderPass
  BY <1>4, ImportFrameKeeps, FallBackKeeps, UploadFrameKeeps, RetireKeeps, DrawKeeps,
     ItemKeeps DEF RenderPass
<1>5. CASE Item
  BY <1>5, ItemKeeps, UpdatePaintNodeKeeps, ReleaseKeeps, DestroyNodeKeeps DEF Item
<1>. QED BY <1>1, <1>2, <1>3, <1>4, <1>5 DEF Next

LEMMA IInvAlways == Spec => []IInv
  BY InitHolds, NextKeeps, PTL DEF Spec

\* A new backend has a generation no setup has; what ensureEglSetup() remembers
\* it has initialised; every other step leaves setup and sink alone.
LEMMA InitialisedAtFirst == Init => Initialised
  BY DEF Init, Initialised, NoSetup

LEMMA InitialisedKept == IInv /\ Initialised /\ [Next]_vars => Initialised'
<1>. SUFFICES ASSUME IInv, Initialised, [Next]_vars PROVE Initialised'
  OBVIOUS
<1>. USE DEF SameBackend
<1>0. sink \in SinkType /\ node \in NodeType
  BY DEF IInv, TypeOK, SinkType, NodeType
<1>1. ASSUME UNCHANGED <<node, sink>> PROVE Initialised'
  BY <1>1 DEF Initialised
<1>2. ASSUME NewDecoder, UNCHANGED node PROVE Initialised'
  <2>1. sink'.generation = sink.generation + 1
    BY <1>2 DEF NewDecoder
  <2>2. node.setup.generation < sink'.generation
    BY <1>0, <2>1 DEF Initialised, SinkType, NodeType, Setup
  <2>3. node.setup.generation \in Nat /\ sink'.generation \in Nat
    BY <1>0, <2>1 DEF SinkType, NodeType, Setup
  <2>4. node.setup.generation <= sink'.generation /\ node.setup.generation # sink'.generation
    BY <2>2, <2>3
  <2>. QED BY <1>2, <2>4 DEF Initialised
<1>3. ASSUME DestroyDecoder PROVE Initialised'
  BY <1>0, <1>3 DEF DestroyDecoder, Initialised, SinkType
<1>4. ASSUME ReleaseResources \/ DestroyNode PROVE Initialised'
  <2>1. node'.setup = NoSetup /\ UNCHANGED sink
    BY <1>0, <1>4 DEF ReleaseResources, DestroyNode, Released, NodeType
  <2>. QED BY <1>0, <2>1 DEF Initialised, NoSetup, SinkType
<1>5. ASSUME UpdatePaintNode \/ UploadFrame \/ RetireCurrentFrame PROVE Initialised'
  <2>1. node'.setup = node.setup /\ UNCHANGED sink
    BY <1>0, <1>5 DEF UpdatePaintNode, UploadFrame, RetireCurrentFrame, Latched, Dropped,
                      NodeType
  <2>. QED BY <2>1 DEF Initialised
<1>6. ASSUME NEW tried, node'.setup = tried.setup, sink'.backend = sink.backend,
             sink'.generation = sink.generation, sink'.ready = tried.ready,
             \/ tried = [setup |-> node.setup, ready |-> sink.ready]
             \/ tried = [setup |-> ActiveSetup, ready |-> TRUE]
             \/ tried.setup = NoSetup
      PROVE  Initialised'
  BY <1>0, <1>6 DEF Initialised, ActiveSetup, NoSetup, SinkType
<1>7. ASSUME ImportFrame PROVE Initialised'
  <2>1. /\ node'.setup = EnsuredSetup.setup /\ sink'.ready = EnsuredSetup.ready
        /\ sink'.backend = sink.backend /\ sink'.generation = sink.generation
    BY <1>0, <1>7 DEF ImportFrame, Latched, NodeType, SinkType
  <2>. QED BY <1>6, <2>1 DEF EnsuredSetup
<1>8. ASSUME FallBack PROVE Initialised'
  <2>1. PICK textures \in {node.importTextures} \cup (IF Disabled THEN {} ELSE {FALSE}),
             tried \in IF Disabled THEN {[setup |-> node.setup, ready |-> sink.ready]}
                       ELSE FailedSetups \cup
                            (IF sink.backend = NoBackend THEN {} ELSE {EnsuredSetup}),
             uploaded \in BOOLEAN :
               /\ node' = [IF uploaded THEN Latched([node.pending EXCEPT !.hw = FALSE], FALSE)
                                       ELSE Dropped
                           EXCEPT !.importTextures = textures, !.setup = tried.setup,
                                  !.importDisabled = TRUE]
               /\ sink' = [sink EXCEPT !.ready = tried.ready]
    BY <1>8 DEF FallBack
  <2>2. node'.setup = tried.setup
    BY <1>0, <2>1 DEF Latched, Dropped, NodeType
  <2>3. /\ sink'.backend = sink.backend /\ sink'.generation = sink.generation
        /\ sink'.ready = tried.ready
    BY <1>0, <2>1 DEF SinkType
  <2>4. \/ tried = [setup |-> node.setup, ready |-> sink.ready]
        \/ tried = [setup |-> ActiveSetup, ready |-> TRUE]
        \/ tried.setup = NoSetup
    BY <2>1 DEF EnsuredSetup, FailedSetups
  <2>. QED BY <1>6, <2>2, <2>3, <2>4
<1>. QED BY <1>1, <1>2, <1>3, <1>4, <1>5, <1>7, <1>8
     DEF vars, Next, DecoderThread, MainSession, RenderPass, Item, DecodeFrame,
         ReadBackOrNot, SubmitFrame, EmitFrameReady, StartStream, ResetDecoder,
         DestroyDecoder, DisableBridge, NotRendered, Draw, OnFrameReady, Resized, Repaint,
         ClosePage

\* Both sides of the bridge agree whether frames come in software, for each
\* stream anew (setPreferSoftware(), engageSoftwareFallback()), for any number
\* of frames and decoders.
THEOREM SidesAgree == Spec => []Consistent
<1>1. IInv => Consistent
  BY DEF IInv, Consistent
<1>. QED BY <1>1, IInvAlways, PTL

\* A frame that the GPU may still read is not given back to the decoder
\* (retireCurrentFrame() waits for the fence only of an imported frame), unless
\* the node is destroyed without a current context.
THEOREM GpuReadsLiveFrames == Spec => []GpuFramesKept
<1>1. IInv => GpuFramesKept
  BY DEF IInv, Fenced, GpuFramesKept
<1>. QED BY <1>1, IInvAlways, PTL

\* A frame is imported only with images of a backend that was itself initialised
\* for EGL, for any reuse of addresses over decoder resets and streams
\* (ensureEglSetup(); the assertion of VAAPIRenderer::exportEGLImages()).
THEOREM ImportsAreReady == Spec => ImportsUseReadyBackend
<1>1. ASSUME IInv, Initialised, [Next]_vars
      PROVE  [node'.latchedImport /\ node'.latched # node.latched /\ node'.latched # NoFrame
              => sink'.ready]_vars
  <2>. SUFFICES ASSUME node'.latchedImport, node'.latched # node.latched,
                       node'.latched # NoFrame, Next
                PROVE  sink'.ready
    BY <1>1 DEF vars
  <2>1. CASE ImportFrame
    <3>1. sink'.ready = EnsuredSetup.ready /\ sink.backend # NoBackend
      BY <1>1, <2>1 DEF ImportFrame, IInv, TypeOK
    <3>. QED BY <1>1, <3>1 DEF EnsuredSetup, Initialised
  <2>2. CASE FallBack \/ UploadFrame
    BY <1>1, <2>2, FallBackKeeps, UploadFrameKeeps DEF Latching, Dropping
  <2>3. CASE RetireCurrentFrame \/ ReleaseResources \/ DestroyNode
    BY <1>1, <2>3 DEF RetireCurrentFrame, ReleaseResources, DestroyNode, Released, IInv,
                      TypeOK
  <2>4. CASE UpdatePaintNode
    BY <1>1, <2>4 DEF UpdatePaintNode, IInv, TypeOK
  <2>5. CASE UNCHANGED node
    BY <2>5
  <2>. QED BY <2>1, <2>2, <2>3, <2>4, <2>5
       DEF Next, DecoderThread, MainSession, RenderPass, Item, DecodeFrame, ReadBackOrNot,
           SubmitFrame, EmitFrameReady, StartStream, ResetDecoder, DestroyDecoder,
           DisableBridge, NotRendered, Draw, OnFrameReady, Resized, Repaint, ClosePage
<1>2. Spec => []Initialised
  BY IInvAlways, InitialisedAtFirst, InitialisedKept, PTL DEF Spec
<1>. QED BY <1>1, <1>2, IInvAlways, PTL DEF Spec, ImportsUseReadyBackend

-----------------------------------------------------------------------------
(* Refinement of FramePipe *)

\* The numbers of the frames, from the decoder to the screen.
Numbers == <<decoder.frame.n, bridge.pending.n, node.pending.n, node.latched.n,
             node.current.n>>

\* Frames that are still on their way to the screen lie at one place each.
LEMMA Apart ==
  ASSUME IInv
  PROVE  /\ decoder.frame.n # 0 =>
              decoder.frame.n \notin {bridge.pending.n, node.pending.n, node.latched.n,
                                     node.current.n, shown}
         /\ bridge.pending.n # 0 =>
              bridge.pending.n \notin {node.pending.n, node.latched.n, node.current.n,
                                      shown}
         /\ node.pending.n # 0 =>
              node.pending.n \notin {node.latched.n, node.current.n, shown}
         /\ main = "retire" => node.current.n # node.latched.n /\ node.current.n # shown
<1>1. /\ decoder.frame.n \in Nat /\ bridge.pending.n \in Nat /\ node.pending.n \in Nat
      /\ node.latched.n \in Nat /\ node.current.n \in Nat /\ shown \in Nat
  BY BoundAssumption DEF IInv, TypeOK, Frame
<1>2. node.latched.n = 0 \/ node.latched.n = shown
  BY DEF IInv, Ordered
<1>. QED BY <1>1, <1>2 DEF IInv, Ordered

\* Dropping one frame that is not on screen is a step of the pipe.
LEMMA DropOne ==
  ASSUME NEW f, f # shown, Held' = Held \ {f}, UNCHANGED <<sent, shown>>,
         (page # "open")' = (page # "open")
  PROVE  [Pipe!Next]_Pipe!pipe
<1>1. CASE f \in Held
  <2>1. {f} \in SUBSET Held /\ {f} # {} /\ {f} \subseteq Held \ {shown}
    BY <1>1
  <2>2. Pipe!Drop({f})
    BY <2>1 DEF Pipe!Drop
  <2>. QED BY <2>1, <2>2 DEF Pipe!Next
<1>2. CASE f \notin Held
  BY <1>2 DEF Pipe!pipe
<1>. QED BY <1>1, <1>2

LEMMA ShowOne ==
  ASSUME NEW f, f \in Held, f > shown, shown' = f, UNCHANGED sent,
         Held' = Held, (page # "open")' = (page # "open")
  PROVE  Pipe!Next
  BY DEF Pipe!Show, Pipe!Next

\* What leaves the numbers alone stutters.
LEMMA SameNumbers ==
  ASSUME Numbers' = Numbers, UNCHANGED <<sent, shown>>,
         (page # "open")' = (page # "open")
  PROVE  UNCHANGED Pipe!pipe
  BY DEF Numbers, Held, Pipe!pipe

LEMMA DecoderRefines ==
  ASSUME IInv, DecodeFrame \/ ReadBackOrNot \/ SubmitFrame
  PROVE  [Pipe!Next]_Pipe!pipe
<1>1. CASE DecodeFrame
  <2>1. page = "open" /\ page' = page /\ decoder.frame.n = 0
    BY <1>1 DEF IInv, Stages, DecodeFrame, NoFrame
  <2>2. decoder'.frame.n = sent + 1
    BY <1>1 DEF IInv, TypeOK, DecodeFrame
  <2>3. Held' = Held \cup {sent + 1}
    BY <1>1, <2>1, <2>2 DEF Held, DecodeFrame, IInv, TypeOK
  <2>4. Pipe!Send({})
    BY <1>1, <2>1, <2>3 DEF Pipe!Send, DecodeFrame
  <2>. QED BY <2>4 DEF Pipe!Next
<1>2. CASE ReadBackOrNot
  <2>1. decoder'.frame.n = decoder.frame.n \/ decoder'.frame.n = 0
    <3>1. \/ decoder'.frame = decoder.frame
          \/ decoder'.frame.n = decoder.frame.n /\ decoder'.frame.hw = FALSE
          \/ decoder'.frame = NoFrame
      BY <1>2, ReadBackEffect DEF IInv
    <3>. QED BY <3>1 DEF NoFrame
  <2>2. UNCHANGED <<bridge, node, sent, shown, page>>
    BY <1>2 DEF ReadBackOrNot
  <2>3. CASE decoder'.frame.n = decoder.frame.n
    BY <2>2, <2>3, SameNumbers DEF Numbers
  <2>4. CASE decoder.frame.n # 0 /\ decoder'.frame.n = 0
    <3>1. Held' = Held \ {decoder.frame.n} /\ decoder.frame.n # shown
      BY <2>2, <2>4, Apart DEF Held
    <3>. QED BY <2>2, <3>1, DropOne
  <2>. QED BY <2>1, <2>3, <2>4
<1>3. CASE SubmitFrame
  <2>1. decoder'.frame.n = 0 /\ UNCHANGED <<node, sent, shown, page>>
    BY <1>3 DEF SubmitFrame, IInv, TypeOK, NoFrame
  <2>2. CASE bridge.enabled
    <3>1. bridge'.pending.n = decoder.frame.n
      BY <1>3, <2>2 DEF SubmitFrame, IInv, TypeOK
    <3>2. CASE bridge.pending.n = 0
      <4>1. Held' = Held
        BY <2>1, <3>1, <3>2 DEF Held
      <4>. QED BY <2>1, <4>1 DEF Pipe!pipe
    <3>3. CASE bridge.pending.n # 0
      <4>1. Held' = Held \ {bridge.pending.n} /\ bridge.pending.n # shown
        BY <2>1, <3>1, <3>3, Apart DEF Held
      <4>. QED BY <2>1, <4>1, DropOne
    <3>. QED BY <3>2, <3>3
  <2>3. CASE ~bridge.enabled
    <3>1. UNCHANGED bridge
      BY <1>3, <2>3 DEF SubmitFrame
    <3>2. CASE decoder.frame.n = 0
      BY <2>1, <3>1, <3>2, SameNumbers DEF Numbers
    <3>3. CASE decoder.frame.n # 0
      <4>1. Held' = Held \ {decoder.frame.n} /\ decoder.frame.n # shown
        BY <2>1, <3>1, <3>3, Apart DEF Held
      <4>. QED BY <2>1, <4>1, DropOne
    <3>. QED BY <3>2, <3>3
  <2>. QED BY <2>2, <2>3
<1>. QED BY <1>1, <1>2, <1>3

LEMMA SessionRefines ==
  ASSUME IInv, MainSession \/ EmitFrameReady
  PROVE  [Pipe!Next]_Pipe!pipe
<1>1. CASE StartStream \/ ResetDecoder \/ DestroyDecoder \/ EmitFrameReady
  <2>1. UNCHANGED <<node, sent, shown, page>>
    BY <1>1 DEF StartStream, ResetDecoder, DestroyDecoder, EmitFrameReady
  <2>2. decoder.frame.n = 0
    BY <1>1 DEF StartStream, ResetDecoder, DestroyDecoder, EmitFrameReady, IInv, Stages,
                NoFrame
  <2>3. decoder'.frame.n = 0
    <3>1. CASE NewDecoder
      BY <3>1 DEF NewDecoder, NoDecoder, NoFrame
    <3>2. CASE DestroyDecoder
      BY <3>2 DEF DestroyDecoder, NoDecoder, NoFrame
    <3>3. CASE EmitFrameReady
      BY <2>2, <3>3 DEF EmitFrameReady, IInv, TypeOK
    <3>. QED BY <1>1, <3>1, <3>2, <3>3 DEF StartStream, ResetDecoder
  <2>4. bridge'.pending.n = bridge.pending.n
    BY <1>1 DEF StartStream, ResetDecoder, DestroyDecoder, EmitFrameReady, Enabled, IInv,
                TypeOK, Stages, NoFrame
  <2>. QED BY <2>1, <2>2, <2>3, <2>4, SameNumbers DEF Numbers
<1>2. CASE DisableBridge
  <2>1. bridge'.pending.n = 0 /\ UNCHANGED <<decoder, node, sent, shown, page>>
    BY <1>2 DEF DisableBridge, IInv, TypeOK, NoFrame
  <2>2. CASE bridge.pending.n = 0
    BY <2>1, <2>2, SameNumbers DEF Numbers
  <2>3. CASE bridge.pending.n # 0
    <3>1. bridge.pending.n \notin {decoder.frame.n, shown}
      BY <2>3, Apart
    <3>2. Held' = Held \ {bridge.pending.n} /\ bridge.pending.n # shown
      BY <2>1, <2>3, <3>1, Apart DEF Held
    <3>. QED BY <2>1, <3>2, DropOne
  <2>. QED BY <2>2, <2>3
<1>. QED BY <1>1, <1>2 DEF MainSession

LEMMA ItemRefines ==
  ASSUME IInv, Item \/ NotRendered
  PROVE  [Pipe!Next]_Pipe!pipe
<1>0. CASE ReleaseResources
  <2>1. UNCHANGED <<decoder, bridge, sent, shown, page>>
    BY <1>0 DEF ReleaseResources
  <2>2. /\ node'.pending = node.pending /\ node'.latched = node.latched
        /\ node'.current = node.current
    BY <1>0 DEF ReleaseResources, Released, IInv, TypeOK
  <2>. QED BY <2>1, <2>2, SameNumbers DEF Numbers
<1>1. CASE OnFrameReady \/ Resized \/ Repaint \/ NotRendered
  <2>1. UNCHANGED <<decoder, node, sent, shown, page>>
    BY <1>1 DEF OnFrameReady, Resized, Repaint, NotRendered
  <2>2. bridge'.pending = bridge.pending
    BY <1>1 DEF OnFrameReady, Resized, Repaint, NotRendered, IInv, TypeOK
  <2>. QED BY <2>1, <2>2, SameNumbers DEF Numbers
<1>2. CASE UpdatePaintNode
  <2>1. UNCHANGED <<decoder, sent, shown, page>>
    BY <1>2 DEF UpdatePaintNode
  <2>2. node'.latched = node.latched /\ node'.current = node.current
    BY <1>2 DEF UpdatePaintNode, IInv, TypeOK
  <2>3. bridge'.pending.n = 0
    BY <1>2 DEF UpdatePaintNode, Taken, IInv, TypeOK, NoFrame
  <2>4. CASE bridge.pending = NoFrame
    <3>1. node'.pending = node.pending /\ bridge.pending.n = 0
      BY <1>2, <2>4 DEF UpdatePaintNode, NoFrame
    <3>. QED BY <2>1, <2>2, <2>3, <3>1, SameNumbers DEF Numbers
  <2>5. CASE bridge.pending # NoFrame
    <3>1. node'.pending.n = bridge.pending.n
      BY <1>2, <2>5 DEF UpdatePaintNode, IInv, TypeOK
    <3>2. bridge.pending.n # 0
      BY <2>5 DEF IInv, TypeOK, Frame, Fenced, NoFrame
    <3>3. CASE node.pending.n = 0
      <4>1. Held' = Held
        BY <2>1, <2>2, <2>3, <3>1, <3>3 DEF Held
      <4>. QED BY <2>1, <4>1 DEF Pipe!pipe
    <3>4. CASE node.pending.n # 0
      <4>1. node.pending.n \notin {decoder.frame.n, bridge.pending.n}
        BY <3>2, <3>4, Apart
      <4>2. Held' = Held \ {node.pending.n} /\ node.pending.n # shown
        BY <2>1, <2>2, <2>3, <3>1, <3>4, <4>1, Apart DEF Held
      <4>. QED BY <2>1, <4>2, DropOne
    <3>. QED BY <3>3, <3>4
  <2>. QED BY <2>4, <2>5
<1>3. CASE ClosePage
  <2>1. UNCHANGED <<decoder, node, sent, shown>> /\ page' = "closed"
    BY <1>3 DEF ClosePage
  <2>2. bridge'.pending = bridge.pending
    BY <1>3 DEF ClosePage, IInv, TypeOK
  <2>3. Held' = Held
    BY <2>1, <2>2 DEF Held
  <2>4. Pipe!Close
    BY <2>1, <2>3 DEF Pipe!Close
  <2>. QED BY <2>4 DEF Pipe!Next
<1>4. CASE DestroyNode
  <2>1. UNCHANGED <<decoder, bridge, sent, shown>> /\ page = "closed"
        /\ page' \in {"gone", "lost"}
    BY <1>4 DEF DestroyNode
  <2>2. decoder.frame.n = 0 /\ bridge.pending.n = 0
    BY <2>1 DEF IInv, Stages, NoFrame
  <2>3. node'.pending.n = 0 /\ node'.latched.n = 0 /\ node'.current.n = 0
    BY <1>4 DEF DestroyNode, Released, IInv, TypeOK, NoFrame
  <2>4. Held' = {}
    BY <2>1, <2>2, <2>3 DEF Held
  <2>5. Pipe!Drain
    BY <2>1, <2>4 DEF Pipe!Drain
  <2>. QED BY <2>5 DEF Pipe!Next
<1>. QED BY <1>0, <1>1, <1>2, <1>3, <1>4 DEF Item

\* A pass shows the frame it latches, or drops it.
LEMMA PassRefines ==
  ASSUME IInv, ImportFrame \/ FallBack \/ UploadFrame
  PROVE  [Pipe!Next]_Pipe!pipe
<1>1. /\ UNCHANGED <<decoder, sent, page>> /\ bridge'.pending = bridge.pending
      /\ main = "render" /\ node.pending.n # 0
  BY DEF ImportFrame, FallBack, UploadFrame, IInv, TypeOK, Fenced, Frame, NoFrame
<1>2. Dropping \/ \E f \in Frame, import \in BOOLEAN : Latching(f, import)
  BY ImportFrameKeeps, FallBackKeeps, UploadFrameKeeps DEF Latching
<1>3. node.latched.n = 0 /\ node.pending.n > shown
  BY <1>1 DEF IInv, Ordered, TypeOK, Frame
<1>4. ASSUME Dropping PROVE [Pipe!Next]_Pipe!pipe
  <2>1. node'.pending.n = 0 /\ node'.latched = node.latched /\ node'.current = node.current
        /\ shown' = shown
    BY <1>4 DEF Dropping, NoFrame
  <2>2. node.pending.n \notin {decoder.frame.n, bridge.pending.n}
    BY <1>1, Apart
  <2>3. Held' = Held \ {node.pending.n} /\ node.pending.n # shown
    BY <1>1, <2>1, <2>2, Apart DEF Held
  <2>. QED BY <1>1, <2>1, <2>3, DropOne
<1>5. ASSUME NEW f \in Frame, NEW import \in BOOLEAN, Latching(f, import)
      PROVE  [Pipe!Next]_Pipe!pipe
  <2>1. /\ node'.pending.n = 0 /\ node'.latched.n = node.pending.n
        /\ node'.current = node.current /\ shown' = node.pending.n
    BY <1>5 DEF Latching, NoFrame
  <2>2. Held' = Held /\ node.pending.n \in Held
    BY <1>1, <1>3, <2>1 DEF Held
  <2>. QED BY <1>1, <1>3, <2>1, <2>2, ShowOne
<1>. QED BY <1>2, <1>4, <1>5

LEMMA DrawRefines ==
  ASSUME IInv, RetireCurrentFrame \/ Draw
  PROVE  [Pipe!Next]_Pipe!pipe
<1>1. CASE Draw
  BY <1>1, SameNumbers DEF Draw, Numbers
<1>2. CASE RetireCurrentFrame
  <2>1. UNCHANGED <<decoder, bridge, sent, shown, page>> /\ main = "retire"
    BY <1>2 DEF RetireCurrentFrame
  <2>2. /\ node'.pending = node.pending /\ node'.current = node.latched
        /\ node'.latched.n = 0
    BY <1>2 DEF RetireCurrentFrame, IInv, TypeOK, NoFrame
  <2>3. CASE node.current.n = 0
    <3>1. Held' = Held
      BY <2>1, <2>2, <2>3 DEF Held
    <3>. QED BY <2>1, <3>1 DEF Pipe!pipe
  <2>4. CASE node.current.n # 0
    <3>1. node.current.n \notin {decoder.frame.n, bridge.pending.n, node.pending.n,
                                node.latched.n, shown}
      BY <2>1, <2>4, Apart
    <3>2. Held' = Held \ {node.current.n}
      BY <2>1, <2>2, <2>4, <3>1 DEF Held
    <3>. QED BY <2>1, <3>1, <3>2, DropOne
  <2>. QED BY <2>3, <2>4
<1>. QED BY <1>1, <1>2

\* From the decoder to the screen the path keeps what FramePipe promises: order,
\* and the buffer on screen kept, however threads, fallback and failures
\* interleave.
THEOREM PathImplementsPipe == Spec => KeepsPromise
<1>1. Init => Pipe!Init
  BY DEF Init, Pipe!Init, Held, NoDecoder, NoFrame
<1>2. IInv /\ [Next]_vars => [Pipe!Next]_Pipe!pipe
  <2>. SUFFICES ASSUME IInv, [Next]_vars PROVE [Pipe!Next]_Pipe!pipe
    OBVIOUS
  <2>1. CASE UNCHANGED vars
    BY <2>1, SameNumbers DEF vars, Numbers
  <2>2. CASE Next
    BY <2>2, DecoderRefines, SessionRefines, ItemRefines, PassRefines, DrawRefines
    DEF Next, DecoderThread, RenderPass
  <2>. QED BY <2>1, <2>2
<1>. QED BY <1>1, <1>2, IInvAlways, PTL DEF Spec, KeepsPromise, Pipe!Spec
=============================================================================
