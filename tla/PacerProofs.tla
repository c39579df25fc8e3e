---------------------------- MODULE PacerProofs ----------------------------
(***************************************************************************)
(* Proofs about Pacer for all queue limits, history windows and numbers of *)
(* frames.                                                                 *)
(***************************************************************************)
EXTENDS Pacer, TLAPS

(* A thread has a frame in hand exactly at the places where the code does. *)
HandsMatch ==
  /\ decoder.frame # NoFrame <=> decoder.pc = "direct"
  /\ vsync.frame # NoFrame <=> vsync.pc = "dropping"
  /\ render.frame # NoFrame <=> render.pc \in {"rendering", "rendered", "dropping"}

(* A sink that takes frames directly leaves every other place empty. *)
DirectIsAlone ==
  IF mode.direct
  THEN /\ pacingQ = <<>> /\ renderQ = <<>> /\ deferred = NoFrame
       /\ vsync.frame = NoFrame /\ render.frame = NoFrame
       /\ ~mode.vsync
  ELSE decoder.pc # "direct"

(* Once destruction has begun the decoder thread is gone. *)
DecoderGone == dtor # "live" => stopping /\ decoder.pc \in {"idle", "failed"}

(* Threads exist only after initialize(), and only those the mode asks for. *)
ThreadsCreated ==
  /\ decoder.pc = "new" => vsync.pc = "none" /\ render.pc = "none"
  /\ ~mode.vsync => vsync.pc = "none" /\ pacingQ = <<>>

IInv ==
  /\ TypeOK
  /\ FramesAccountedFor
  /\ StreamOrder
  /\ TeardownIsQuiet
  /\ HandsMatch
  /\ DirectIsAlone
  /\ DecoderGone
  /\ ThreadsCreated

-----------------------------------------------------------------------------
(* Queues *)

\* What a queue of increasing frames keeps when its oldest frame is taken.
LEMMA TailFacts ==
  ASSUME NEW q \in Seq(Nat), q # <<>>, Increasing(q)
  PROVE  /\ Tail(q) \in Seq(Nat) /\ Len(Tail(q)) = Len(q) - 1
         /\ Head(q) \in InQueue(q)
         /\ InQueue(Tail(q)) = InQueue(q) \ {Head(q)}
         /\ Increasing(Tail(q))
         /\ Before({Head(q)}, InQueue(Tail(q)))
<1>1. Len(q) \in Nat /\ Len(q) > 0 /\ Head(q) = q[1] /\ Head(q) \in Nat
  OBVIOUS
<1>2. Tail(q) \in Seq(Nat) /\ Len(Tail(q)) = Len(q) - 1
      /\ \A i \in 1..(Len(q) - 1) : Tail(q)[i] = q[i + 1]
  OBVIOUS
<1>3. \A i \in DOMAIN q : i = 1 \/ (i - 1 \in DOMAIN Tail(q) /\ Tail(q)[i - 1] = q[i])
  BY <1>1, <1>2
<1>4. \A i \in DOMAIN Tail(q) : i + 1 \in DOMAIN q /\ Tail(q)[i] = q[i + 1] /\ q[i + 1] > q[1]
  BY <1>1, <1>2 DEF Increasing
<1>5. InQueue(Tail(q)) = InQueue(q) \ {Head(q)}
  <2>1. ASSUME NEW x \in InQueue(Tail(q)) PROVE x \in InQueue(q) /\ x > Head(q)
    BY <1>1, <1>4 DEF InQueue
  <2>2. ASSUME NEW x \in InQueue(q), x # Head(q) PROVE x \in InQueue(Tail(q))
    BY <2>2, <1>1, <1>3 DEF InQueue
  <2>3. QED BY <2>1, <2>2, <1>1
<1>6. Increasing(Tail(q))
  <2>1. ASSUME NEW i \in DOMAIN Tail(q), NEW j \in DOMAIN Tail(q), i < j
        PROVE  Tail(q)[i] < Tail(q)[j]
    <3>1. i + 1 \in DOMAIN q /\ j + 1 \in DOMAIN q /\ i + 1 < j + 1
      BY <2>1, <1>2
    <3>2. Tail(q)[i] = q[i + 1] /\ Tail(q)[j] = q[j + 1]
      BY <1>4
    <3>3. QED BY <3>1, <3>2 DEF Increasing
  <2>2. QED BY <2>1 DEF Increasing
<1>7. Before({Head(q)}, InQueue(Tail(q)))
  BY <1>1, <1>4 DEF Before, InQueue
<1>8. Head(q) \in InQueue(q)
  BY <1>1 DEF InQueue
<1>9. QED BY <1>2, <1>5, <1>6, <1>7, <1>8

\* Appending a newer frame to a queue of increasing frames.
LEMMA AppendFacts ==
  ASSUME NEW q \in Seq(Nat), NEW f \in Nat, Increasing(q), Before(InQueue(q), {f})
  PROVE  /\ Append(q, f) \in Seq(Nat) /\ Len(Append(q, f)) = Len(q) + 1
         /\ InQueue(Append(q, f)) = InQueue(q) \union {f}
         /\ Increasing(Append(q, f))
<1> DEFINE a == Append(q, f)
<1>1. a \in Seq(Nat) /\ Len(a) = Len(q) + 1 /\ a[Len(q) + 1] = f
      /\ \A i \in 1..Len(q) : a[i] = q[i]
  OBVIOUS
<1>2. DOMAIN a = 1..(Len(q) + 1) /\ DOMAIN q = 1..Len(q) /\ Len(q) \in Nat
  BY <1>1
<1>3. InQueue(a) = InQueue(q) \union {f}
  <2>1. ASSUME NEW x \in InQueue(a) PROVE x \in InQueue(q) \union {f}
    <3>1. PICK i \in DOMAIN a : x = a[i]
      BY DEF InQueue
    <3>2. CASE i = Len(q) + 1 BY <3>1, <3>2, <1>1
    <3>3. CASE i # Len(q) + 1
      <4>1. i \in DOMAIN q /\ x = q[i] BY <3>1, <3>3, <1>1, <1>2
      <4>2. QED BY <4>1 DEF InQueue
    <3>4. QED BY <3>2, <3>3
  <2>2. ASSUME NEW x \in InQueue(q) PROVE x \in InQueue(a)
    BY <1>1, <1>2 DEF InQueue
  <2>3. f \in InQueue(a)
    BY <1>1, <1>2 DEF InQueue
  <2>4. QED BY <2>1, <2>2, <2>3
<1>4. Increasing(a)
  <2>1. ASSUME NEW i \in DOMAIN a, NEW j \in DOMAIN a, i < j PROVE a[i] < a[j]
    <3>1. i \in DOMAIN q /\ a[i] = q[i] /\ q[i] \in InQueue(q)
      BY <2>1, <1>1, <1>2 DEF InQueue
    <3>2. CASE j \in DOMAIN q
      BY <3>1, <3>2, <2>1, <1>1, <1>2 DEF Increasing
    <3>3. CASE j = Len(q) + 1
      BY <3>1, <3>3, <1>1 DEF Before
    <3>4. QED BY <3>2, <3>3, <1>2
  <2>2. QED BY <2>1 DEF Increasing
<1>5. QED BY <1>1, <1>3, <1>4

\* Enqueue() and Overflow() together neither lose nor keep too many frames.
LEMMA EnqueueFacts ==
  ASSUME NEW q \in Seq(Nat), Len(q) <= MAX_QUEUED_FRAMES, NEW f \in Nat,
         Increasing(q), Before(InQueue(q), {f})
  PROVE  /\ Enqueue(q, f) \in Seq(Nat)
         /\ Len(Enqueue(q, f)) <= MAX_QUEUED_FRAMES
         /\ InQueue(Enqueue(q, f)) = (InQueue(q) \ Overflow(q)) \union {f}
         /\ Overflow(q) \subseteq InQueue(q)
         /\ Before(Overflow(q), InQueue(Enqueue(q, f)))
         /\ Increasing(Enqueue(q, f))
<1> USE LimitAssumption
<1>1. CASE Len(q) = MAX_QUEUED_FRAMES
  <2>1. q # <<>> BY <1>1
  <2> DEFINE t == Tail(q)
  <2>2. /\ t \in Seq(Nat) /\ Len(t) = Len(q) - 1
        /\ Head(q) \in InQueue(q)
        /\ InQueue(t) = InQueue(q) \ {Head(q)}
        /\ Increasing(t)
        /\ Before({Head(q)}, InQueue(t))
    BY <2>1, TailFacts
  <2>3. Before(InQueue(t), {f}) /\ Before({Head(q)}, {f})
    BY <2>2 DEF Before
  <2> HIDE DEF t
  <2>4. /\ Append(t, f) \in Seq(Nat) /\ Len(Append(t, f)) = Len(t) + 1
        /\ InQueue(Append(t, f)) = InQueue(t) \union {f}
        /\ Increasing(Append(t, f))
    BY <2>2, <2>3, AppendFacts
  <2>5. Enqueue(q, f) = Append(t, f) /\ Overflow(q) = {Head(q)}
    BY <1>1 DEF Enqueue, Overflow, t
  <2>6. Before(Overflow(q), InQueue(Enqueue(q, f)))
    BY <2>2, <2>3, <2>4, <2>5 DEF Before
  <2>7. QED BY <2>2, <2>4, <2>5, <2>6, <1>1
<1>2. CASE Len(q) # MAX_QUEUED_FRAMES
  <2>1. Enqueue(q, f) = Append(q, f) /\ Overflow(q) = {}
    BY <1>2 DEF Enqueue, Overflow
  <2>2. /\ Append(q, f) \in Seq(Nat) /\ Len(Append(q, f)) = Len(q) + 1
        /\ InQueue(Append(q, f)) = InQueue(q) \union {f}
        /\ Increasing(Append(q, f))
    BY AppendFacts
  <2>3. QED BY <2>1, <2>2, <1>2 DEF Before
<1>3. QED BY <1>1, <1>2

\* A history never outgrows its window.
LEMMA RecordFacts ==
  ASSUME NEW h \in Seq(Nat), NEW n \in Nat, NEW w \in Nat \ {0}, Len(h) <= w
  PROVE  Record(h, n, w) \in Seq(Nat) /\ Len(Record(h, n, w)) <= w
<1>1. CASE Len(h) = w
  <2>1. h # <<>> /\ Tail(h) \in Seq(Nat) /\ Len(Tail(h)) = Len(h) - 1
    BY <1>1
  <2>2. QED BY <2>1, <1>1 DEF Record
<1>2. CASE Len(h) # w
  BY <1>2 DEF Record
<1>3. QED BY <1>1, <1>2

-----------------------------------------------------------------------------
(* Steps that move no frame *)

\* No frame changes its place.
FramesStay ==
  /\ UNCHANGED <<mode, queues, histories, deferred, sent, freed>>
  /\ decoder'.frame = decoder.frame
  /\ vsync'.frame = vsync.frame
  /\ render'.frame = render.frame

LEMMA FramesStayFacts ==
  ASSUME FramesAccountedFor, StreamOrder, FramesStay
  PROVE  FramesAccountedFor' /\ StreamOrder'
<1>1. /\ InQueue(pacingQ)' = InQueue(pacingQ) /\ InQueue(renderQ)' = InQueue(renderQ)
      /\ Hand(decoder)' = Hand(decoder) /\ Hand(vsync)' = Hand(vsync)
      /\ Hand(render)' = Hand(render) /\ deferred' = deferred
      /\ Increasing(pacingQ)' = Increasing(pacingQ)
      /\ Increasing(renderQ)' = Increasing(renderQ)
      /\ sent' = sent /\ freed' = freed
  BY DEF FramesStay, queues, Hand, InQueue, Increasing
<1>2. FramesAccountedFor'
  BY <1>1 DEF FramesAccountedFor, Held
<1>3. StreamOrder'
  BY <1>1 DEF StreamOrder, Before
<1>4. QED BY <1>2, <1>3

\* Steps of the program that move no frame.
QuietStep ==
  \/ Initialize
  \/ WakeVsync \/ DecoderNotify
  \/ VsyncTick \/ VsyncTimeout \/ VsyncNotify
  \/ RenderSleep \/ RenderFrame
  \/ StopRequested \/ StopVsync \/ JoinVsync \/ StopRender \/ JoinRender

LEMMA QuietStepKeepsInv ==
  ASSUME IInv, QuietStep
  PROVE  IInv'
<1> DEFINE Rest == /\ TeardownIsQuiet /\ HandsMatch /\ DirectIsAlone /\ DecoderGone
                   /\ ThreadsCreated
           Goal == FramesStay /\ TypeOK' /\ Rest'
<1> SUFFICES Goal
  BY FramesStayFacts DEF IInv
<1> USE DEF IInv, FramesStay, TypeOK, Threads, queues, histories, NoFrame,
            TeardownIsQuiet, HandsMatch, DirectIsAlone, DecoderGone,
            ThreadsCreated
<1>1. CASE Initialize
  <2>1. FramesStay /\ UNCHANGED <<stopping, dtor, frameReady, shown>>
    BY <1>1 DEF Initialize
  <2>2. Threads'
    BY <1>1 DEF Initialize
  <2>3. TypeOK'
    BY <2>1, <2>2
  <2>4. Rest'
    BY <1>1 DEF Initialize
  <2>5. QED BY <2>1, <2>3, <2>4
<1>2. CASE WakeVsync
  BY <1>2 DEF WakeVsync
<1>3. CASE DecoderNotify
  <2>1. /\ render' \in [pc : {render.pc, "woken"}, frame : {render.frame},
                        target : {render.target}]
        /\ render'.pc = render.pc \/ render.pc = "waiting"
        /\ frameReady' \in Nat
    BY <1>3 DEF DecoderNotify, NotifyRenderer
  <2>2. FramesStay /\ TypeOK'
    BY <1>3, <2>1 DEF DecoderNotify
  <2>3. Rest'
    BY <1>3, <2>1 DEF DecoderNotify
  <2>4. QED BY <2>2, <2>3
<1>4. CASE VsyncTick
  BY <1>4 DEF VsyncTick
<1>5. CASE VsyncTimeout
  BY <1>5 DEF VsyncTimeout
<1>6. CASE VsyncNotify
  <2>1. /\ render' \in [pc : {render.pc, "woken"}, frame : {render.frame},
                        target : {render.target}]
        /\ render'.pc = render.pc \/ render.pc = "waiting"
        /\ frameReady' \in Nat
    BY <1>6 DEF VsyncNotify, NotifyRenderer
  <2>2. FramesStay /\ TypeOK'
    BY <1>6, <2>1 DEF VsyncNotify
  <2>3. Rest'
    BY <1>6, <2>1 DEF VsyncNotify
  <2>4. QED BY <2>2, <2>3
<1>7. CASE RenderSleep
  BY <1>7 DEF RenderSleep
<1>8. CASE RenderFrame
  BY <1>8 DEF RenderFrame
<1>9. CASE StopRequested
  <2>1. FramesStay /\ TypeOK'
    BY <1>9 DEF StopRequested
  <2>2. Rest'
    BY <1>9 DEF StopRequested
  <2>3. QED BY <2>1, <2>2
<1>10. CASE StopVsync
  <2>1. FramesStay /\ TypeOK'
    BY <1>10 DEF StopVsync
  <2>2. Rest'
    BY <1>10 DEF StopVsync
  <2>3. QED BY <2>1, <2>2
<1>11. CASE JoinVsync
  BY <1>11 DEF JoinVsync
<1>12. CASE StopRender
  <2>1. FramesStay /\ TypeOK'
    BY <1>12 DEF StopRender
  <2>2. Rest'
    BY <1>12 DEF StopRender
  <2>3. QED BY <2>1, <2>2
<1>13. CASE JoinRender
  BY <1>13 DEF JoinRender
<1>14. QED
  BY <1>1, <1>2, <1>3, <1>4, <1>5, <1>6, <1>7, <1>8, <1>9, <1>10, <1>11, <1>12,
     <1>13 DEF QuietStep

-----------------------------------------------------------------------------
(* Steps that move frames *)

\* Held frames are the numbered ones, and a place's frames are among them.
LEMMA HeldFacts ==
  ASSUME IInv
  PROVE  /\ sent \in Nat
         /\ Held \subseteq 1..sent
         /\ InQueue(pacingQ) \subseteq Held /\ InQueue(renderQ) \subseteq Held
         /\ Hand(decoder) \subseteq Held /\ Hand(vsync) \subseteq Held
         /\ Hand(render) \subseteq Held /\ {deferred} \ {NoFrame} \subseteq Held
         /\ Before(InQueue(pacingQ), {sent + 1})
         /\ Before(InQueue(renderQ), {sent + 1})
<1>1. sent \in Nat /\ Held \subseteq 1..sent
  BY DEF IInv, TypeOK, FramesAccountedFor
<1>2. /\ InQueue(pacingQ) \subseteq Held /\ InQueue(renderQ) \subseteq Held
      /\ Hand(decoder) \subseteq Held /\ Hand(vsync) \subseteq Held
      /\ Hand(render) \subseteq Held /\ {deferred} \ {NoFrame} \subseteq Held
  BY DEF Held
<1>3. \A f \in Held : f \in Nat /\ f < sent + 1
  BY <1>1
<1>4. Before(InQueue(pacingQ), {sent + 1}) /\ Before(InQueue(renderQ), {sent + 1})
  BY <1>2, <1>3 DEF Before
<1>5. QED BY <1>1, <1>2, <1>4

LEMMA SubmitPacedKeepsInv ==
  ASSUME IInv, SubmitPaced
  PROVE  IInv'
<1> DEFINE P == InQueue(pacingQ)  R == InQueue(renderQ)
<1> USE DEF IInv
<1>1. pacingQ \in Seq(Nat) /\ Len(pacingQ) <= MAX_QUEUED_FRAMES /\ sent + 1 \in Nat
      /\ Increasing(pacingQ) /\ Before(P, {sent + 1})
  BY HeldFacts DEF TypeOK, StreamOrder
<1>2. /\ Enqueue(pacingQ, sent + 1) \in Seq(Nat)
      /\ Len(Enqueue(pacingQ, sent + 1)) <= MAX_QUEUED_FRAMES
      /\ InQueue(Enqueue(pacingQ, sent + 1)) = (P \ Overflow(pacingQ)) \union {sent + 1}
      /\ Overflow(pacingQ) \subseteq P
      /\ Before(Overflow(pacingQ), InQueue(Enqueue(pacingQ, sent + 1)))
      /\ Increasing(Enqueue(pacingQ, sent + 1))
  BY <1>1, EnqueueFacts
<1>3. /\ P' = (P \ Overflow(pacingQ)) \union {sent + 1}
      /\ R' = R /\ Hand(vsync)' = Hand(vsync) /\ Hand(render)' = Hand(render)
      /\ Hand(decoder)' = {} /\ Hand(decoder) = {} /\ deferred' = deferred
      /\ freed' = freed \union Overflow(pacingQ) /\ sent' = sent + 1
      /\ Increasing(pacingQ') /\ Increasing(renderQ') = Increasing(renderQ)
  BY <1>2 DEF SubmitPaced, CanSubmit, HandsMatch, TypeOK, Threads, Hand, NoFrame,
              queues, histories
<1>4. FramesAccountedFor'
  <2>1. Overflow(pacingQ) \intersect (R \union Hand(vsync) \union Hand(render)
            \union ({deferred} \ {NoFrame})) = {}
    BY <1>2, HeldFacts DEF StreamOrder, Before
  <2>2. sent + 1 \notin freed
    BY HeldFacts DEF FramesAccountedFor
  <2>3. Held' = (Held \ Overflow(pacingQ)) \union {sent + 1}
    BY <1>2, <1>3, <2>1, HeldFacts DEF Held
  <2>4. Overflow(pacingQ) \subseteq Held
    BY <1>2 DEF Held
  <2>5. sent + 1 \notin Held
    BY HeldFacts
  <2>6. 1..(sent + 1) = (1..sent) \union {sent + 1}
    BY HeldFacts
  <2>7. QED BY <1>3, <2>2, <2>3, <2>4, <2>5, <2>6 DEF FramesAccountedFor
<1>5. StreamOrder'
  <2>1. Before(R \union Hand(vsync) \union Hand(render) \union {deferred}, {sent + 1})
    BY HeldFacts DEF Before, NoFrame
  <2>2. QED BY <1>2, <1>3, <2>1 DEF StreamOrder, Before
<1>6. TypeOK'
  <2>1. Overflow(pacingQ) \subseteq Nat
    BY <1>2, HeldFacts
  <2>2. freed' \subseteq Nat
    BY <1>3, <2>1 DEF TypeOK
  <2>3. Threads'
    BY DEF SubmitPaced, CanSubmit, TypeOK, Threads
  <2>4. pacingQ' \in Seq(Nat) /\ Len(pacingQ') <= MAX_QUEUED_FRAMES /\ sent' \in Nat
    BY <1>1, <1>2 DEF SubmitPaced
  <2>5. QED BY <2>2, <2>3, <2>4 DEF SubmitPaced, TypeOK, histories
<1>7. (TeardownIsQuiet /\ HandsMatch /\ DirectIsAlone /\ DecoderGone /\ ThreadsCreated)'
  BY DEF SubmitPaced, CanSubmit, TypeOK, Threads, queues, histories, TeardownIsQuiet,
         HandsMatch, DirectIsAlone, DecoderGone, ThreadsCreated, NoFrame
<1>8. QED BY <1>4, <1>5, <1>6, <1>7

\* The typed variables that the queue operations touch.
QueuesTyped ==
  /\ pacingQ \in Seq(Nat) /\ Len(pacingQ) <= MAX_QUEUED_FRAMES
  /\ renderQ \in Seq(Nat) /\ Len(renderQ) <= MAX_QUEUED_FRAMES
  /\ freed \subseteq Nat

\* The V-sync thread takes the oldest frame of the pacing queue, and what it
\* had in hand is freed.
LEMMA TakePacing ==
  ASSUME IInv, pacingQ # <<>>, pacingQ' = Tail(pacingQ), renderQ' = renderQ,
         Hand(vsync)' = {Head(pacingQ)}, freed' = freed \union Hand(vsync),
         Hand(decoder)' = Hand(decoder), Hand(decoder) = {},
         Hand(render)' = Hand(render), deferred' = deferred, sent' = sent
  PROVE  FramesAccountedFor' /\ StreamOrder' /\ QueuesTyped'
<1> DEFINE P == InQueue(pacingQ)  R == InQueue(renderQ)  h == Head(pacingQ)
<1> USE DEF IInv
<1>1. /\ Tail(pacingQ) \in Seq(Nat) /\ Len(Tail(pacingQ)) = Len(pacingQ) - 1
      /\ h \in P /\ InQueue(Tail(pacingQ)) = P \ {h}
      /\ Increasing(Tail(pacingQ)) /\ Before({h}, InQueue(Tail(pacingQ)))
  BY TailFacts DEF TypeOK, StreamOrder
<1>2. P' = P \ {h} /\ R' = R /\ Increasing(pacingQ') /\ Increasing(renderQ')
  BY <1>1 DEF StreamOrder
<1>3. FramesAccountedFor'
  <2>1. Hand(vsync) \intersect (P \union R \union Hand(render)
            \union ({deferred} \ {NoFrame})) = {}
    BY HeldFacts DEF StreamOrder, Before
  <2>2. Held' = Held \ Hand(vsync)
    BY <1>1, <1>2, <2>1, HeldFacts DEF Held
  <2>3. QED BY <2>2, HeldFacts DEF FramesAccountedFor
<1>4. StreamOrder'
  BY <1>1, <1>2 DEF StreamOrder, Before
<1>5. QueuesTyped'
  <2>1. freed' \subseteq Nat
    BY <1>3, HeldFacts DEF FramesAccountedFor
  <2>2. QED BY <1>1, <2>1, LimitAssumption DEF QueuesTyped, TypeOK
<1>6. QED BY <1>3, <1>4, <1>5

\* The V-sync thread frees what it had in hand and takes nothing.
LEMMA FreePacing ==
  ASSUME IInv, pacingQ' = pacingQ, renderQ' = renderQ,
         Hand(vsync)' = {}, freed' = freed \union Hand(vsync),
         Hand(decoder)' = Hand(decoder), Hand(decoder) = {},
         Hand(render)' = Hand(render), deferred' = deferred, sent' = sent
  PROVE  FramesAccountedFor' /\ StreamOrder' /\ QueuesTyped'
<1> DEFINE P == InQueue(pacingQ)  R == InQueue(renderQ)
<1> USE DEF IInv
<1>1. P' = P /\ R' = R
  OBVIOUS
<1>2. Hand(vsync) \intersect (P \union R \union Hand(render)
          \union ({deferred} \ {NoFrame})) = {}
  BY HeldFacts DEF StreamOrder, Before
<1>3. Held' = Held \ Hand(vsync)
  BY <1>1, <1>2 DEF Held
<1>4. FramesAccountedFor'
  BY <1>3, HeldFacts DEF FramesAccountedFor
<1>5. StreamOrder'
  BY <1>1 DEF StreamOrder, Before
<1>6. QueuesTyped'
  <2>1. freed' \subseteq Nat
    BY <1>4, HeldFacts DEF FramesAccountedFor
  <2>2. QED BY <2>1 DEF QueuesTyped, TypeOK
<1>7. QED BY <1>4, <1>5, <1>6

\* The V-sync thread moves a frame from the pacing to the render queue, and
\* what it had in hand is freed, like the frame that overflows.
LEMMA MoveToRender ==
  ASSUME IInv, pacingQ # <<>>, pacingQ' = Tail(pacingQ),
         renderQ' = Enqueue(renderQ, Head(pacingQ)),
         Hand(vsync)' = {}, freed' = freed \union Hand(vsync) \union Overflow(renderQ),
         Hand(decoder)' = Hand(decoder), Hand(decoder) = {},
         Hand(render)' = Hand(render), deferred' = deferred, sent' = sent
  PROVE  FramesAccountedFor' /\ StreamOrder' /\ QueuesTyped'
<1> DEFINE P == InQueue(pacingQ)  R == InQueue(renderQ)  h == Head(pacingQ)
<1> USE DEF IInv
<1>1. /\ Tail(pacingQ) \in Seq(Nat) /\ Len(Tail(pacingQ)) = Len(pacingQ) - 1
      /\ h \in P /\ InQueue(Tail(pacingQ)) = P \ {h}
      /\ Increasing(Tail(pacingQ)) /\ Before({h}, InQueue(Tail(pacingQ)))
  BY TailFacts DEF TypeOK, StreamOrder
<1>2. renderQ \in Seq(Nat) /\ Len(renderQ) <= MAX_QUEUED_FRAMES /\ Increasing(renderQ)
      /\ h \in Nat /\ Before(R, {h})
  BY <1>1, HeldFacts DEF TypeOK, StreamOrder, Before
<1>3. /\ Enqueue(renderQ, h) \in Seq(Nat)
      /\ Len(Enqueue(renderQ, h)) <= MAX_QUEUED_FRAMES
      /\ InQueue(Enqueue(renderQ, h)) = (R \ Overflow(renderQ)) \union {h}
      /\ Overflow(renderQ) \subseteq R
      /\ Before(Overflow(renderQ), InQueue(Enqueue(renderQ, h)))
      /\ Increasing(Enqueue(renderQ, h))
  BY <1>2, EnqueueFacts
<1>4. P' = P \ {h} /\ R' = (R \ Overflow(renderQ)) \union {h}
      /\ Increasing(pacingQ') /\ Increasing(renderQ')
  BY <1>1, <1>3
<1>5. FramesAccountedFor'
  <2> DEFINE Gone == Hand(vsync) \union Overflow(renderQ)
  <2>1. Hand(vsync) \intersect (P \union R \union Hand(render)
            \union ({deferred} \ {NoFrame})) = {}
    BY HeldFacts DEF StreamOrder, Before
  <2>2. Overflow(renderQ) \intersect (P \union Hand(render)
            \union ({deferred} \ {NoFrame})) = {}
    BY <1>3, HeldFacts DEF StreamOrder, Before
  <2>3. Held' = Held \ Gone
    BY <1>1, <1>3, <1>4, <2>1, <2>2 DEF Held
  <2>4. Gone \subseteq Held /\ freed' = freed \union Gone
    BY <1>3 DEF Held
  <2> HIDE DEF Gone
  <2>5. QED BY <2>3, <2>4 DEF FramesAccountedFor
<1>6. StreamOrder'
  BY <1>1, <1>3, <1>4 DEF StreamOrder, Before
<1>7. QueuesTyped'
  <2>1. freed' \subseteq Nat
    BY <1>5, HeldFacts DEF FramesAccountedFor
  <2>2. QED BY <1>1, <1>3, <2>1, LimitAssumption DEF QueuesTyped, TypeOK
<1>8. QED BY <1>5, <1>6, <1>7

\* The renderer's thread takes the oldest frame of the render queue, and what
\* it had in hand is freed.
LEMMA TakeRender ==
  ASSUME IInv, renderQ # <<>>, renderQ' = Tail(renderQ), pacingQ' = pacingQ,
         Hand(render)' = {Head(renderQ)}, freed' = freed \union Hand(render),
         Hand(decoder)' = Hand(decoder), Hand(vsync)' = Hand(vsync),
         deferred' = deferred, sent' = sent
  PROVE  FramesAccountedFor' /\ StreamOrder' /\ QueuesTyped'
<1> DEFINE P == InQueue(pacingQ)  R == InQueue(renderQ)  h == Head(renderQ)
<1> USE DEF IInv
<1>1. /\ Tail(renderQ) \in Seq(Nat) /\ Len(Tail(renderQ)) = Len(renderQ) - 1
      /\ h \in R /\ InQueue(Tail(renderQ)) = R \ {h}
      /\ Increasing(Tail(renderQ)) /\ Before({h}, InQueue(Tail(renderQ)))
  BY TailFacts DEF TypeOK, StreamOrder
<1>2. P' = P /\ R' = R \ {h} /\ Increasing(pacingQ') /\ Increasing(renderQ')
  BY <1>1 DEF StreamOrder
<1>3. Hand(decoder) = {}
  BY DEF DirectIsAlone, HandsMatch, Hand
<1>4. FramesAccountedFor'
  <2>1. Hand(render) \intersect (P \union R \union Hand(vsync)
            \union ({deferred} \ {NoFrame})) = {}
    BY HeldFacts DEF StreamOrder, Before
  <2>2. Held' = Held \ Hand(render)
    BY <1>1, <1>2, <1>3, <2>1 DEF Held
  <2>3. QED BY <2>2, HeldFacts DEF FramesAccountedFor
<1>5. StreamOrder'
  BY <1>1, <1>2 DEF StreamOrder, Before
<1>6. QueuesTyped'
  <2>1. freed' \subseteq Nat
    BY <1>4, HeldFacts DEF FramesAccountedFor
  <2>2. QED BY <1>1, <2>1, LimitAssumption DEF QueuesTyped, TypeOK
<1>7. QED BY <1>4, <1>5, <1>6

\* The renderer's thread frees what it had in hand and takes nothing.
LEMMA FreeRender ==
  ASSUME IInv, renderQ' = renderQ, pacingQ' = pacingQ,
         Hand(render)' = {}, freed' = freed \union Hand(render),
         Hand(decoder)' = Hand(decoder), Hand(vsync)' = Hand(vsync),
         deferred' = deferred, sent' = sent
  PROVE  FramesAccountedFor' /\ StreamOrder' /\ QueuesTyped'
<1> DEFINE P == InQueue(pacingQ)  R == InQueue(renderQ)
<1> USE DEF IInv
<1>1. P' = P /\ R' = R
  OBVIOUS
<1>2. Hand(render) # {} => Hand(decoder) = {}
  BY DEF DirectIsAlone, HandsMatch, Hand
<1>3. Hand(render) \intersect (P \union R \union Hand(vsync)
          \union ({deferred} \ {NoFrame})) = {}
  BY HeldFacts DEF StreamOrder, Before
<1>4. Held' = Held \ Hand(render)
  BY <1>1, <1>2, <1>3 DEF Held
<1>5. FramesAccountedFor'
  BY <1>4, HeldFacts DEF FramesAccountedFor
<1>6. StreamOrder'
  BY <1>1 DEF StreamOrder, Before
<1>7. QueuesTyped'
  <2>1. freed' \subseteq Nat
    BY <1>5, HeldFacts DEF FramesAccountedFor
  <2>2. QED BY <2>1 DEF QueuesTyped, TypeOK
<1>8. QED BY <1>5, <1>6, <1>7

-----------------------------------------------------------------------------
(* The invariant, action by action *)

\* What is left of the invariant once the frames are accounted for.
Control ==
  /\ mode \in Modes /\ stopping \in BOOLEAN
  /\ pacingHistory \in Seq(Nat) /\ Len(pacingHistory) <= PacingWindow
  /\ renderHistory \in Seq(Nat) /\ Len(renderHistory) <= RenderWindow
  /\ deferred \in Nat /\ frameReady \in Nat /\ sent \in Nat /\ shown \in Nat
  /\ Threads
  /\ TeardownIsQuiet /\ HandsMatch /\ DirectIsAlone /\ DecoderGone
  /\ ThreadsCreated

LEMMA InvSplit ==
  /\ IInv => Control
  /\ FramesAccountedFor' /\ StreamOrder' /\ QueuesTyped' /\ Control' => IInv'
BY DEF IInv, TypeOK, QueuesTyped, Control

LEMMA SubmitUnpacedKeepsInv ==
  ASSUME IInv, SubmitUnpaced
  PROVE  IInv'
<1> DEFINE P == InQueue(pacingQ)  R == InQueue(renderQ)
<1> USE DEF IInv
<1>1. renderQ \in Seq(Nat) /\ Len(renderQ) <= MAX_QUEUED_FRAMES /\ sent + 1 \in Nat
      /\ Increasing(renderQ) /\ Before(R, {sent + 1})
  BY HeldFacts DEF TypeOK, StreamOrder
<1>2. /\ Enqueue(renderQ, sent + 1) \in Seq(Nat)
      /\ Len(Enqueue(renderQ, sent + 1)) <= MAX_QUEUED_FRAMES
      /\ InQueue(Enqueue(renderQ, sent + 1)) = (R \ Overflow(renderQ)) \union {sent + 1}
      /\ Overflow(renderQ) \subseteq R
      /\ Before(Overflow(renderQ), InQueue(Enqueue(renderQ, sent + 1)))
      /\ Increasing(Enqueue(renderQ, sent + 1))
  BY <1>1, EnqueueFacts
<1>3. pacingQ = <<>> /\ Hand(vsync) = {} /\ P = {}
  BY DEF SubmitUnpaced, ThreadsCreated, HandsMatch, Hand, InQueue
<1>4. /\ R' = (R \ Overflow(renderQ)) \union {sent + 1}
      /\ P' = {} /\ Hand(vsync)' = {} /\ Hand(render)' = Hand(render)
      /\ Hand(decoder)' = {} /\ Hand(decoder) = {} /\ deferred' = deferred
      /\ freed' = freed \union Overflow(renderQ) /\ sent' = sent + 1
      /\ Increasing(renderQ') /\ Increasing(pacingQ')
  BY <1>2, <1>3 DEF SubmitUnpaced, CanSubmit, HandsMatch, TypeOK, Threads, Hand,
                    NoFrame, Increasing
<1>5. FramesAccountedFor'
  <2>1. Overflow(renderQ) \intersect (Hand(render) \union ({deferred} \ {NoFrame})) = {}
    BY <1>2, HeldFacts DEF StreamOrder, Before
  <2>2. sent + 1 \notin freed /\ sent + 1 \notin Held
    BY HeldFacts DEF FramesAccountedFor
  <2>3. Held' = (Held \ Overflow(renderQ)) \union {sent + 1}
    BY <1>2, <1>3, <1>4, <2>1, HeldFacts DEF Held
  <2>4. Overflow(renderQ) \subseteq Held
    BY <1>2 DEF Held
  <2>5. 1..(sent + 1) = (1..sent) \union {sent + 1}
    BY HeldFacts
  <2>6. QED BY <1>4, <2>2, <2>3, <2>4, <2>5 DEF FramesAccountedFor
<1>6. StreamOrder'
  <2>1. Before(Hand(render) \union {deferred}, {sent + 1})
    BY HeldFacts DEF Before, NoFrame
  <2>2. QED BY <1>2, <1>3, <1>4, <2>1 DEF StreamOrder, Before
<1>7. QueuesTyped'
  <2>1. freed' \subseteq Nat
    BY <1>4, <1>5, HeldFacts DEF FramesAccountedFor
  <2>2. QED BY <1>2, <2>1 DEF SubmitUnpaced, QueuesTyped, TypeOK
<1>8. Control'
  <2>1. Threads'
    BY DEF SubmitUnpaced, CanSubmit, TypeOK, Threads
  <2>2. QED BY <2>1 DEF SubmitUnpaced, CanSubmit, TypeOK, histories, Control,
          TeardownIsQuiet, HandsMatch, DirectIsAlone, DecoderGone, ThreadsCreated, NoFrame
<1>9. QED BY <1>5, <1>6, <1>7, <1>8, InvSplit

LEMMA SubmitDirectKeepsInv ==
  ASSUME IInv, SubmitDirect
  PROVE  IInv'
<1> USE DEF IInv
<1>1. /\ Hand(vsync) = {} /\ Hand(render) = {} /\ Hand(decoder) = {}
      /\ InQueue(pacingQ) = {} /\ InQueue(renderQ) = {} /\ deferred = NoFrame
  BY DEF SubmitDirect, CanSubmit, DirectIsAlone, HandsMatch, Hand, InQueue
<1>2. /\ Hand(vsync)' = {} /\ Hand(render)' = {} /\ Hand(decoder)' = {sent + 1}
      /\ InQueue(pacingQ)' = {} /\ InQueue(renderQ)' = {} /\ deferred' = NoFrame
      /\ sent' = sent + 1 /\ freed' = freed /\ sent \in Nat
      /\ Increasing(pacingQ)' /\ Increasing(renderQ)'
  BY <1>1, HeldFacts DEF SubmitDirect, Hand, InQueue, queues, NoFrame, StreamOrder, Increasing
<1>3. FramesAccountedFor'
  BY <1>1, <1>2 DEF FramesAccountedFor, Held
<1>4. StreamOrder'
  BY <1>2 DEF StreamOrder, Before
<1>5. QueuesTyped'
  BY DEF SubmitDirect, queues, QueuesTyped, TypeOK
<1>6. Control'
  <2>1. Threads'
    BY <1>2 DEF SubmitDirect, CanSubmit, TypeOK, Threads
  <2>2. QED BY <1>2, <2>1 DEF SubmitDirect, CanSubmit, TypeOK, histories, queues, Control,
          TeardownIsQuiet, HandsMatch, DirectIsAlone, DecoderGone, ThreadsCreated, NoFrame
<1>7. QED BY <1>3, <1>4, <1>5, <1>6, InvSplit

LEMMA DeliverDirectKeepsInv ==
  ASSUME IInv, DeliverDirect
  PROVE  IInv'
<1> USE DEF IInv
<1>1. /\ Hand(vsync) = {} /\ Hand(render) = {} /\ Hand(decoder) = {decoder.frame}
      /\ InQueue(pacingQ) = {} /\ InQueue(renderQ) = {} /\ deferred = NoFrame
  BY DEF DeliverDirect, DirectIsAlone, HandsMatch, Hand, InQueue
<1>2. /\ Hand(vsync)' = {} /\ Hand(render)' = {} /\ Hand(decoder)' = {}
      /\ InQueue(pacingQ)' = {} /\ InQueue(renderQ)' = {} /\ deferred' = NoFrame
      /\ sent' = sent /\ freed' = freed \union Hand(decoder)
      /\ Increasing(pacingQ)' /\ Increasing(renderQ)'
  BY <1>1 DEF DeliverDirect, Hand, InQueue, queues, NoFrame, StreamOrder, Increasing
<1>3. FramesAccountedFor'
  BY <1>1, <1>2 DEF FramesAccountedFor, Held
<1>4. StreamOrder'
  BY <1>2 DEF StreamOrder, Before
<1>5. QueuesTyped'
  BY DEF DeliverDirect, queues, QueuesTyped, TypeOK, Threads
<1>6. Control'
  <2>1. Threads'
    BY DEF DeliverDirect, TypeOK, Threads, NoFrame
  <2>2. QED BY <1>2, <2>1 DEF DeliverDirect, TypeOK, Threads, histories, queues, Control,
          TeardownIsQuiet, HandsMatch, DirectIsAlone, DecoderGone, ThreadsCreated, NoFrame
<1>7. QED BY <1>3, <1>4, <1>5, <1>6, InvSplit

\* Both ends of the trimming loop of handleVsync().
LEMMA TrimPacingKeepsInv ==
  ASSUME IInv, NEW target \in Nat, TrimPacing(target, Hand(vsync)), vsync.pc # "none",
         Control, UNCHANGED <<mode, stopping, renderHistory, deferred, decoder, render,
                              dtor, frameReady, sent, shown>>,
         dtor \notin {"stopRender", "joinRender", "drain", "done"},
         pacingHistory' \in Seq(Nat), Len(pacingHistory') <= PacingWindow
  PROVE  IInv'
<1>1. /\ Hand(decoder)' = Hand(decoder) /\ Hand(decoder) = {}
      /\ Hand(render)' = Hand(render) /\ mode.vsync /\ ~mode.direct /\ decoder.pc # "new"
  BY DEF Control, DirectIsAlone, ThreadsCreated, HandsMatch, Hand
<1>2. FramesAccountedFor' /\ StreamOrder' /\ QueuesTyped' /\ Threads'
      /\ (vsync.frame # NoFrame <=> vsync.pc = "dropping")' /\ vsync'.pc # "none"
      /\ vsync'.pc # "exited"
  <2>1. CASE Len(pacingQ) > target
    <3>0. pacingQ \in Seq(Nat) /\ pacingQ # <<>> /\ Increasing(pacingQ)
      BY <2>1 DEF IInv, TypeOK, StreamOrder
    <3>1. pacingQ # <<>> /\ Head(pacingQ) \in InQueue(pacingQ)
      BY <3>0, TailFacts
    <3>2. Head(pacingQ) \in Nat /\ Head(pacingQ) # NoFrame
      BY <3>1, HeldFacts DEF NoFrame
    <3>3. /\ vsync' = [pc |-> "dropping", frame |-> Head(pacingQ), target |-> target]
          /\ pacingQ' = Tail(pacingQ) /\ renderQ' = renderQ
          /\ freed' = freed \union Hand(vsync)
      BY <2>1, LimitAssumption DEF TrimPacing, IInv, TypeOK
    <3>4. Hand(vsync)' = {Head(pacingQ)}
      BY <3>2, <3>3 DEF Hand
    <3>5. FramesAccountedFor' /\ StreamOrder' /\ QueuesTyped'
      BY <1>1, <3>1, <3>3, <3>4, TakePacing
    <3>6. QED BY <3>2, <3>3, <3>5 DEF Threads, Control
  <2>2. CASE Len(pacingQ) <= target /\ pacingQ = <<>>
    <3>1. /\ vsync' = [pc |-> "waitFrame", frame |-> NoFrame, target |-> 0]
          /\ pacingQ' = pacingQ /\ renderQ' = renderQ
          /\ freed' = freed \union Hand(vsync)
      BY <2>2, LimitAssumption DEF TrimPacing, IInv, TypeOK, queues
    <3>2. Hand(vsync)' = {}
      BY <3>1 DEF Hand
    <3>3. FramesAccountedFor' /\ StreamOrder' /\ QueuesTyped'
      BY <1>1, <3>1, <3>2, FreePacing
    <3>4. QED BY <3>1, <3>3 DEF Threads, Control, NoFrame
  <2>3. CASE Len(pacingQ) <= target /\ pacingQ # <<>>
    <3>1. /\ vsync' = [pc |-> "notify", frame |-> NoFrame, target |-> 0]
          /\ pacingQ' = Tail(pacingQ) /\ renderQ' = Enqueue(renderQ, Head(pacingQ))
          /\ freed' = freed \union Hand(vsync) \union Overflow(renderQ)
      BY <2>3, LimitAssumption DEF TrimPacing, IInv, TypeOK
    <3>2. Hand(vsync)' = {}
      BY <3>1 DEF Hand
    <3>3. FramesAccountedFor' /\ StreamOrder' /\ QueuesTyped'
      BY <1>1, <2>3, <3>1, <3>2, MoveToRender
    <3>4. QED BY <3>1, <3>3 DEF Threads, Control, NoFrame
  <2>4. QED BY <2>1, <2>2, <2>3, LimitAssumption DEF IInv, TypeOK
<1>3. Control'
  BY <1>1, <1>2 DEF Control, TeardownIsQuiet, HandsMatch, DirectIsAlone, DecoderGone,
                    ThreadsCreated
<1>4. QED BY <1>2, <1>3, InvSplit

LEMMA VsyncKeepsInv ==
  ASSUME IInv, Vsync
  PROVE  IInv'
<1> USE DEF IInv
<1>0. Control BY InvSplit
<1>1. CASE VsyncTick \/ VsyncTimeout \/ VsyncNotify
  BY <1>1, QuietStepKeepsInv DEF QuietStep
<1>2. CASE HandleVsync
  <2>1. PacingTarget \in Nat /\ Hand(vsync) = {}
    BY <1>2 DEF HandleVsync, PacingTarget, HandsMatch, Hand
  <2>2. pacingHistory' \in Seq(Nat) /\ Len(pacingHistory') <= PacingWindow
    BY <1>2, RecordFacts, LimitAssumption DEF HandleVsync, TypeOK
  <2>3. dtor \notin {"stopRender", "joinRender", "drain", "done"}
    BY <1>2 DEF HandleVsync, TeardownIsQuiet
  <2>4. TrimPacing(PacingTarget, Hand(vsync))
    BY <1>2, <2>1 DEF HandleVsync
  <2>5. vsync.pc # "none" /\ UNCHANGED <<mode, stopping, renderHistory, deferred,
            decoder, render, dtor, frameReady, sent, shown>>
    BY <1>2 DEF HandleVsync
  <2>6. QED BY <1>0, <2>1, <2>2, <2>3, <2>4, <2>5, TrimPacingKeepsInv
<1>3. CASE VsyncDropped
  <2>1. vsync.target \in Nat /\ Hand(vsync) = {vsync.frame}
    BY <1>3 DEF VsyncDropped, TypeOK, Threads, HandsMatch, Hand
  <2>2. pacingHistory' \in Seq(Nat) /\ Len(pacingHistory') <= PacingWindow
    BY <1>3 DEF VsyncDropped, TypeOK, histories
  <2>3. dtor \notin {"stopRender", "joinRender", "drain", "done"}
    BY <1>3 DEF VsyncDropped, TeardownIsQuiet
  <2>4. TrimPacing(vsync.target, Hand(vsync))
    BY <1>3, <2>1 DEF VsyncDropped
  <2>5. vsync.pc # "none" /\ UNCHANGED <<mode, stopping, renderHistory, deferred,
            decoder, render, dtor, frameReady, sent, shown>>
    BY <1>3 DEF VsyncDropped, histories
  <2>6. QED BY <1>0, <2>1, <2>2, <2>3, <2>4, <2>5, TrimPacingKeepsInv
<1>4. CASE VsyncWoken
  <2>1. /\ Hand(vsync) = {} /\ Hand(decoder)' = Hand(decoder) /\ Hand(decoder) = {}
        /\ Hand(render)' = Hand(render) /\ Hand(vsync)' = {}
        /\ deferred' = deferred /\ sent' = sent
    BY <1>4 DEF VsyncWoken, DirectIsAlone, ThreadsCreated, HandsMatch, Hand, TypeOK, Threads
  <2>2. FramesAccountedFor' /\ StreamOrder' /\ QueuesTyped'
    <3>1. CASE ~stopping /\ pacingQ # <<>>
      <4>1. /\ pacingQ' = Tail(pacingQ) /\ renderQ' = Enqueue(renderQ, Head(pacingQ))
            /\ freed' = freed \union Hand(vsync) \union Overflow(renderQ)
        BY <1>4, <2>1, <3>1 DEF VsyncWoken
      <4>2. QED BY <2>1, <3>1, <4>1, MoveToRender
    <3>2. CASE stopping \/ pacingQ = <<>>
      <4>1. pacingQ' = pacingQ /\ renderQ' = renderQ /\ freed' = freed \union Hand(vsync)
        BY <1>4, <2>1, <3>2 DEF VsyncWoken, queues
      <4>2. QED BY <2>1, <4>1, FreePacing
    <3>3. QED BY <3>1, <3>2
  <2>3. Threads' /\ vsync'.frame = vsync.frame /\ vsync'.pc \in {"tick", "notify", "crashed"}
    BY <1>4 DEF VsyncWoken, TypeOK, Threads
  <2>4. Control'
    BY <1>0, <1>4, <2>3 DEF VsyncWoken, Control, TeardownIsQuiet, HandsMatch,
       DirectIsAlone, DecoderGone, ThreadsCreated, histories, NoFrame
  <2>5. QED BY <2>2, <2>4, InvSplit
<1>5. QED BY <1>1, <1>2, <1>3, <1>4 DEF Vsync

\* Both ends of the trimming loop of renderFrame().
LEMMA TrimRenderKeepsInv ==
  ASSUME IInv, NEW target \in Nat, TrimRender(target, Hand(render)),
         render.pc \in {"trim", "dropping"},
         UNCHANGED <<mode, stopping, pacingQ, pacingHistory, deferred, decoder, vsync,
                     dtor, frameReady, sent, shown>>,
         renderHistory' \in Seq(Nat), Len(renderHistory') <= RenderWindow
  PROVE  IInv'
<1>0. Control BY InvSplit
<1>1. /\ Hand(decoder)' = Hand(decoder) /\ Hand(vsync)' = Hand(vsync)
  BY DEF Hand
<1>2. FramesAccountedFor' /\ StreamOrder' /\ QueuesTyped' /\ Threads'
      /\ (render.frame # NoFrame <=> render.pc \in {"rendering", "rendered", "dropping"})'
      /\ (renderQ' # <<>> => renderQ # <<>>) /\ (render.frame # NoFrame)' = (Len(renderQ) > target)
  <2>1. CASE Len(renderQ) > target
    <3>1. renderQ \in Seq(Nat) /\ renderQ # <<>> /\ Increasing(renderQ)
      BY <2>1 DEF IInv, TypeOK, StreamOrder
    <3>2. Head(renderQ) \in InQueue(renderQ)
      BY <3>1, TailFacts
    <3>3. Head(renderQ) \in Nat /\ Head(renderQ) # NoFrame
      BY <3>2, HeldFacts DEF NoFrame
    <3>4. /\ render' = [pc |-> "dropping", frame |-> Head(renderQ), target |-> target]
          /\ renderQ' = Tail(renderQ)
          /\ freed' = freed \union Hand(render)
      BY <2>1, <3>1 DEF TrimRender
    <3>5. Hand(render)' = {Head(renderQ)}
      BY <3>3, <3>4 DEF Hand
    <3>6. FramesAccountedFor' /\ StreamOrder' /\ QueuesTyped'
      BY <1>1, <3>1, <3>4, <3>5, TakeRender
    <3>7. QED BY <2>1, <3>1, <3>3, <3>4, <3>6, <1>0 DEF Threads, Control
  <2>2. CASE ~(Len(renderQ) > target)
    <3>1. /\ render' = [pc |-> IF mode.thread THEN "await" ELSE "idle",
                        frame |-> NoFrame, target |-> 0]
          /\ renderQ' = renderQ
          /\ freed' = freed \union Hand(render)
      BY <2>2 DEF TrimRender
    <3>2. Hand(render)' = {}
      BY <3>1 DEF Hand
    <3>3. FramesAccountedFor' /\ StreamOrder' /\ QueuesTyped'
      BY <1>1, <3>1, <3>2, FreeRender
    <3>4. QED BY <2>2, <3>1, <3>3, <1>0 DEF Threads, Control, NoFrame
  <2>3. QED BY <2>1, <2>2
<1>3. mode.direct => renderQ = <<>> /\ Len(renderQ) = 0
  BY <1>0 DEF Control, DirectIsAlone
<1>4. Control'
  BY <1>0, <1>1, <1>2, <1>3 DEF Control, TeardownIsQuiet, HandsMatch, DirectIsAlone,
     DecoderGone, ThreadsCreated
<1>5. QED BY <1>2, <1>4, InvSplit

LEMMA RenderKeepsInv ==
  ASSUME IInv, Render
  PROVE  IInv'
<1> USE DEF IInv
<1>0. Control BY InvSplit
<1>1. CASE RenderSleep \/ RenderFrame
  BY <1>1, QuietStepKeepsInv DEF QuietStep
<1>2. CASE RenderCheck \/ RenderOnMainThread
  <2>1. /\ Hand(render) = {} /\ Hand(decoder)' = Hand(decoder) /\ Hand(vsync)' = Hand(vsync)
        /\ deferred' = deferred /\ sent' = sent /\ pacingQ' = pacingQ /\ freed' = freed
    BY <1>2 DEF RenderCheck, RenderOnMainThread, HandsMatch, Hand
  <2>2. CASE renderQ' = renderQ
    <3>1. render'.frame = render.frame /\ Threads' /\ frameReady' \in Nat
          /\ render'.pc \in {"exited", "prewait", "idle"}
          /\ (render.pc = "exited" => render'.pc = "exited")
          /\ render.pc \in {"await", "woken", "idle"}
      <4>1. CASE renderQ = <<>>
        <5>1. CASE RenderCheck
          BY <5>1, <4>1 DEF RenderCheck, TypeOK, Threads
        <5>2. CASE RenderOnMainThread
          BY <5>2, <4>1 DEF RenderOnMainThread, TypeOK, Threads
        <5>3. QED BY <5>1, <5>2, <1>2
      <4>2. CASE renderQ # <<>>
        <5>1. Tail(renderQ) # renderQ
          BY <4>2, TailFacts DEF TypeOK, StreamOrder
        <5>2. QED BY <1>2, <2>2, <4>2, <5>1 DEF RenderCheck, RenderOnMainThread, TypeOK,
                  Threads
      <4>3. QED BY <4>1, <4>2
    <3>2. Hand(render)' = {}
      BY <2>1, <3>1 DEF Hand
    <3>3. FramesAccountedFor' /\ StreamOrder' /\ QueuesTyped'
      BY <2>1, <2>2, <3>2, FreeRender
    <3>4. Control'
      BY <1>0, <1>2, <2>2, <3>1 DEF RenderCheck, RenderOnMainThread, Control,
         TeardownIsQuiet, HandsMatch, DirectIsAlone, DecoderGone, ThreadsCreated, histories
    <3>5. QED BY <3>3, <3>4, InvSplit
  <2>3. CASE renderQ' # renderQ
    <3>1. /\ renderQ # <<>> /\ renderQ' = Tail(renderQ)
          /\ render' = [render EXCEPT !.pc = "rendering", !.frame = Head(renderQ)]
          /\ frameReady' \in Nat /\ render.pc \in {"await", "woken", "idle"}
      BY <1>2, <2>3 DEF RenderCheck, RenderOnMainThread, TypeOK
    <3>2. Head(renderQ) \in InQueue(renderQ)
      BY <3>1, TailFacts DEF TypeOK, StreamOrder
    <3>3. Head(renderQ) \in Nat /\ Head(renderQ) # NoFrame
      BY <3>2, HeldFacts DEF NoFrame
    <3>4. render'.frame = Head(renderQ) /\ render'.pc = "rendering" /\ Threads'
      BY <1>2, <3>1, <3>3 DEF RenderCheck, RenderOnMainThread, TypeOK, Threads
    <3>5. Hand(render)' = {Head(renderQ)}
      BY <3>3, <3>4 DEF Hand
    <3>6. FramesAccountedFor' /\ StreamOrder' /\ QueuesTyped'
      BY <2>1, <3>1, <3>5, TakeRender
    <3>7. Control'
      BY <1>0, <1>2, <3>1, <3>3, <3>4 DEF RenderCheck, RenderOnMainThread, Control,
         TeardownIsQuiet, HandsMatch, DirectIsAlone, DecoderGone, ThreadsCreated, histories
    <3>8. QED BY <3>6, <3>7, InvSplit
  <2>4. QED BY <2>2, <2>3
<1>3. CASE DeferFree
  <2>1. /\ Hand(render) = {render.frame} /\ render.frame \in Nat /\ render.frame # NoFrame
        /\ Hand(render)' = {} /\ Hand(decoder)' = Hand(decoder) /\ Hand(vsync)' = Hand(vsync)
        /\ deferred' = render.frame /\ sent' = sent
        /\ InQueue(pacingQ)' = InQueue(pacingQ) /\ InQueue(renderQ)' = InQueue(renderQ)
        /\ Increasing(pacingQ)' /\ Increasing(renderQ)'
        /\ freed' = freed \union ({deferred} \ {NoFrame})
    BY <1>3 DEF DeferFree, HandsMatch, Hand, TypeOK, Threads, queues, StreamOrder, InQueue,
                Increasing
  <2>2. Hand(decoder) = {}
    BY <2>1 DEF DirectIsAlone, HandsMatch, Hand
  <2>3. FramesAccountedFor'
    <3>1. ({deferred} \ {NoFrame}) \intersect (InQueue(pacingQ) \union InQueue(renderQ)
              \union Hand(vsync) \union Hand(render)) = {}
      BY HeldFacts DEF StreamOrder, Before
    <3>2. Held' = Held \ ({deferred} \ {NoFrame})
      BY <2>1, <2>2, <3>1 DEF Held
    <3>3. QED BY <2>1, <3>2, HeldFacts DEF FramesAccountedFor
  <2>4. StreamOrder'
    BY <2>1 DEF StreamOrder, Before
  <2>5. QueuesTyped'
    <3>1. freed' \subseteq Nat
      BY <2>1, <2>3, HeldFacts DEF FramesAccountedFor
    <3>2. QED BY <1>3, <3>1 DEF DeferFree, queues, QueuesTyped, TypeOK
  <2>6. Threads' /\ render'.pc = "trim" /\ render'.frame = NoFrame
    BY <1>3 DEF DeferFree, TypeOK, Threads, NoFrame
  <2>7. Control'
    BY <1>0, <1>3, <2>1, <2>6 DEF DeferFree, Control, TeardownIsQuiet, HandsMatch,
       DirectIsAlone, DecoderGone, ThreadsCreated, histories, queues, NoFrame
  <2>8. QED BY <2>3, <2>4, <2>5, <2>7, InvSplit
<1>4. CASE RenderTrim
  <2>1. RenderTarget \in Nat /\ Hand(render) = {}
    BY <1>4 DEF RenderTrim, RenderTarget, HandsMatch, Hand
  <2>2. renderHistory' \in Seq(Nat) /\ Len(renderHistory') <= RenderWindow
    BY <1>4, RecordFacts, LimitAssumption DEF RenderTrim, TypeOK
  <2>3. TrimRender(RenderTarget, Hand(render))
    BY <1>4, <2>1 DEF RenderTrim
  <2>4. render.pc \in {"trim", "dropping"} /\ UNCHANGED <<mode, stopping, pacingQ,
            pacingHistory, deferred, decoder, vsync, dtor, frameReady, sent, shown>>
    BY <1>4 DEF RenderTrim
  <2>5. QED BY <2>1, <2>2, <2>3, <2>4, TrimRenderKeepsInv
<1>5. CASE RenderDropped
  <2>1. render.target \in Nat /\ Hand(render) = {render.frame}
    BY <1>5 DEF RenderDropped, TypeOK, Threads, HandsMatch, Hand
  <2>2. renderHistory' \in Seq(Nat) /\ Len(renderHistory') <= RenderWindow
    BY <1>5 DEF RenderDropped, TypeOK, histories
  <2>3. TrimRender(render.target, Hand(render))
    BY <1>5, <2>1 DEF RenderDropped
  <2>4. render.pc \in {"trim", "dropping"} /\ UNCHANGED <<mode, stopping, pacingQ,
            pacingHistory, deferred, decoder, vsync, dtor, frameReady, sent, shown>>
    BY <1>5 DEF RenderDropped, histories
  <2>5. QED BY <2>1, <2>2, <2>3, <2>4, TrimRenderKeepsInv
<1>6. QED BY <1>1, <1>2, <1>3, <1>4, <1>5 DEF Render

LEMMA DrainKeepsInv ==
  ASSUME IInv, Drain
  PROVE  IInv'
<1> USE DEF IInv
<1>0. Control BY InvSplit
<1>1. /\ Hand(decoder) = {} /\ Hand(vsync) = {} /\ Hand(render) = {}
  BY DEF Drain, TeardownIsQuiet, DecoderGone, HandsMatch, Hand
<1>2. /\ Hand(decoder)' = {} /\ Hand(vsync)' = {} /\ Hand(render)' = {} /\ deferred' = NoFrame
      /\ InQueue(pacingQ)' = {} /\ InQueue(renderQ)' = {} /\ pacingQ' = <<>> /\ renderQ' = <<>>
      /\ Increasing(pacingQ)' /\ Increasing(renderQ)' /\ sent' = sent
      /\ freed' = freed \union Held
  BY <1>1 DEF Drain, Hand, InQueue, Increasing, Held
<1>3. FramesAccountedFor' /\ freed' = 1..sent
  BY <1>2 DEF FramesAccountedFor, Held
<1>4. StreamOrder'
  BY <1>2 DEF StreamOrder, Before
<1>5. QueuesTyped'
  BY <1>2, <1>3, HeldFacts, LimitAssumption DEF QueuesTyped
<1>6. Control'
  BY <1>0, <1>2, <1>3 DEF Drain, Control, Threads, TeardownIsQuiet, HandsMatch,
     DirectIsAlone, DecoderGone, ThreadsCreated, histories, NoFrame
<1>7. QED BY <1>3, <1>4, <1>5, <1>6, InvSplit

LEMMA InitInv == Init => IInv
<1> SUFFICES ASSUME Init PROVE IInv
  OBVIOUS
<1> USE DEF Init
<1>1. /\ InQueue(pacingQ) = {} /\ InQueue(renderQ) = {} /\ Hand(decoder) = {}
      /\ Hand(vsync) = {} /\ Hand(render) = {} /\ deferred = NoFrame
      /\ sent = 0 /\ freed = {} /\ Increasing(pacingQ) /\ Increasing(renderQ)
  BY DEF InQueue, Hand, Increasing
<1>2. FramesAccountedFor
  BY <1>1 DEF FramesAccountedFor, Held
<1>3. StreamOrder
  BY <1>1 DEF StreamOrder, Before
<1>4. Threads
  BY DEF Threads, NoFrame
<1>5. <<>> \in Seq(Nat) /\ Len(<<>>) = 0 /\ mode \in Modes
      /\ (mode.direct => ~mode.vsync)
  BY DEF PossibleModes
<1>6. TypeOK
  <2>1. /\ MAX_QUEUED_FRAMES >= 0 /\ PacingWindow >= 0 /\ RenderWindow >= 0
    BY LimitAssumption
  <2>2. /\ pacingQ = <<>> /\ renderQ = <<>> /\ pacingHistory = <<>> /\ renderHistory = <<>>
    OBVIOUS
  <2>3. /\ stopping \in BOOLEAN /\ deferred \in Nat
        /\ frameReady \in Nat /\ sent \in Nat /\ shown \in Nat /\ freed \subseteq Nat
    BY DEF NoFrame
  <2> HIDE DEF Init
  <2>4. QED BY <1>4, <1>5, <2>1, <2>2, <2>3 DEF TypeOK
<1>7. TeardownIsQuiet /\ HandsMatch /\ DirectIsAlone /\ DecoderGone /\ ThreadsCreated
  BY <1>5 DEF TeardownIsQuiet, HandsMatch, DirectIsAlone, DecoderGone, ThreadsCreated
<1>8. QED BY <1>2, <1>3, <1>6, <1>7 DEF IInv

LEMMA NextInv == IInv /\ [Next]_vars => IInv'
<1> SUFFICES ASSUME IInv, [Next]_vars PROVE IInv'
  OBVIOUS
<1>1. CASE Initialize \/ StopRequested \/ StopVsync \/ JoinVsync \/ StopRender \/ JoinRender
  BY <1>1, QuietStepKeepsInv DEF QuietStep
<1>2. CASE Decoder
  BY <1>2, QuietStepKeepsInv, SubmitPacedKeepsInv, SubmitUnpacedKeepsInv,
     SubmitDirectKeepsInv, DeliverDirectKeepsInv DEF QuietStep, Decoder
<1>3. CASE Vsync
  BY <1>3, VsyncKeepsInv
<1>4. CASE Render
  BY <1>4, RenderKeepsInv
<1>5. CASE Drain
  BY <1>5, DrainKeepsInv
<1>6. CASE UNCHANGED vars
  <2>1. FramesStay
    BY <1>6 DEF vars, FramesStay, queues, histories
  <2>2. FramesAccountedFor' /\ StreamOrder'
    BY <2>1, FramesStayFacts DEF IInv
  <2>3. QED BY <1>6, <2>2 DEF vars, IInv, TypeOK, Threads, TeardownIsQuiet, HandsMatch,
            DirectIsAlone, DecoderGone, ThreadsCreated
<1>7. QED BY <1>1, <1>2, <1>3, <1>4, <1>5, <1>6 DEF Next, Dtor

-----------------------------------------------------------------------------
(* The theorems *)

LEMMA InvHolds == Spec => []IInv
BY InitInv, NextInv, PTL DEF Spec

\* pacer.cpp keeps the types of its members, and neither queue outgrows
\* MAX_QUEUED_FRAMES, whatever the interleaving of its threads.
THEOREM TypeCorrect == Spec => []TypeOK
<1>1. IInv => TypeOK BY DEF IInv
<1>2. QED BY <1>1, InvHolds, PTL

\* No frame submitted to the Pacer is leaked, freed twice or used after it
\* was freed.
THEOREM NoFrameIsLost == Spec => []FramesAccountedFor
<1>1. IInv => FramesAccountedFor BY DEF IInv
<1>2. QED BY <1>1, InvHolds, PTL

\* The frames in the Pacer lie in stream order from the pacing queue to the
\* frame whose release is deferred.
THEOREM FramesInOrder == Spec => []StreamOrder
<1>1. IInv => StreamOrder BY DEF IInv
<1>2. QED BY <1>1, InvHolds, PTL

\* Both together: no drop rule and no interleaving misplaces a frame.
THEOREM FramesAreKept == Spec => []FramesKept
<1>1. IInv => FramesKept BY DEF IInv, FramesKept
<1>2. QED BY <1>1, InvHolds, PTL

\* ~Pacer() frees what is left only after both threads have ended, and then
\* every submitted frame has been freed.
THEOREM TeardownIsSafe == Spec => []TeardownIsQuiet
<1>1. IInv => TeardownIsQuiet BY DEF IInv
<1>2. QED BY <1>1, InvHolds, PTL

-----------------------------------------------------------------------------
(* A renderer without a thread is told of every frame *)

\* Frames that are announced or about to be.
Pending(thread) == IF thread.pc = "notify" THEN 1 ELSE 0
Announced == frameReady + Pending(decoder) + Pending(vsync)

LEMMA QueueLengths ==
  ASSUME NEW q \in Seq(Nat)
  PROVE  /\ \A f \in Nat : Len(Enqueue(q, f)) <= Len(q) + 1 /\ Len(Enqueue(q, f)) \in Nat
         /\ q # <<>> => /\ Len(Tail(q)) = Len(q) - 1 /\ Tail(q) \in Seq(Nat)
                        /\ Head(q) \in Nat
         /\ q = <<>> => Len(q) = 0
<1>1. q # <<>> => Len(Tail(q)) = Len(q) - 1 /\ Tail(q) \in Seq(Nat) /\ Head(q) \in Nat
  OBVIOUS
<1>2. Len(q) \in Nat /\ (q = <<>> => Len(q) = 0)
  OBVIOUS
<1>3. ASSUME NEW f \in Nat
      PROVE  Len(Enqueue(q, f)) <= Len(q) + 1 /\ Len(Enqueue(q, f)) \in Nat
  <2>1. CASE Len(q) = MAX_QUEUED_FRAMES
    <3>1. q # <<>>
      BY <1>2, <2>1, LimitAssumption
    <3>2. Len(Append(Tail(q), f)) = Len(Tail(q)) + 1
      BY <1>1, <3>1
    <3>. QED BY <1>1, <1>2, <2>1, <3>1, <3>2 DEF Enqueue
  <2>2. CASE Len(q) # MAX_QUEUED_FRAMES
    <3>1. Len(Append(q, f)) = Len(q) + 1
      OBVIOUS
    <3>. QED BY <1>2, <2>2, <3>1 DEF Enqueue
  <2>. QED BY <2>1, <2>2
<1>. QED BY <1>1, <1>2, <1>3

\* No step leaves more frames behind than it announces.
LEMMA AnnouncedNext ==
  ASSUME IInv, IInv', QueuedFramesAreAnnounced, [Next]_vars
  PROVE  QueuedFramesAreAnnounced'
<1>. SUFFICES ASSUME ~mode.thread, ~mode'.thread
     PROVE  Len(renderQ') <= Announced'
  <2>1. mode' = mode
    BY DEF Next, vars, Initialize, Decoder, SubmitPaced, WakeVsync, SubmitUnpaced,
           SubmitDirect, DeliverDirect, DecoderNotify, Vsync, VsyncTick, HandleVsync,
           VsyncDropped, VsyncTimeout, VsyncWoken, VsyncNotify, Render, RenderCheck,
           RenderSleep, RenderOnMainThread, RenderFrame, DeferFree, RenderTrim,
           RenderDropped, Dtor, StopRequested, StopVsync, JoinVsync, StopRender,
           JoinRender, Drain
  <2>. QED BY <2>1 DEF QueuedFramesAreAnnounced, Announced, Pending
<1>1. Len(renderQ) <= Announced
  BY DEF QueuedFramesAreAnnounced, Announced, Pending
<1>2. /\ renderQ \in Seq(Nat) /\ Len(renderQ) \in Nat /\ Len(renderQ') \in Nat
      /\ pacingQ \in Seq(Nat) /\ frameReady \in Nat /\ frameReady' \in Nat /\ sent \in Nat
  <2>1. /\ renderQ \in Seq(Nat) /\ renderQ' \in Seq(Nat) /\ pacingQ \in Seq(Nat)
        /\ frameReady \in Nat /\ frameReady' \in Nat /\ sent \in Nat
    BY DEF IInv, TypeOK
  <2>. QED BY <2>1
<1>a. Announced = frameReady + Pending(decoder) + Pending(vsync)
  BY DEF Announced
<1>b. Announced' = frameReady' + Pending(decoder') + Pending(vsync')
  BY DEF Announced
<1>c. \A t : Pending(t) \in Nat
  BY DEF Pending
<1>d. Announced \in Nat /\ Announced' \in Nat
  BY <1>2, <1>a, <1>b, <1>c
<1>3. ASSUME renderQ' = renderQ, frameReady' = frameReady,
             decoder.pc = "notify" => decoder'.pc = "notify",
             vsync.pc = "notify" => vsync'.pc = "notify"
      PROVE  Len(renderQ') <= Announced'
  BY <1>1, <1>2, <1>3 DEF Announced, Pending
<1>4. ASSUME NEW f \in Nat, renderQ' = Enqueue(renderQ, f), frameReady' = frameReady,
             \/ decoder.pc # "notify" /\ decoder'.pc = "notify" /\ vsync' = vsync
             \/ vsync.pc # "notify" /\ vsync'.pc = "notify" /\ decoder' = decoder
      PROVE  Len(renderQ') <= Announced'
  <2>1. Len(renderQ') <= Len(renderQ) + 1
    BY <1>2, <1>4, QueueLengths
  <2>. QED BY <1>1, <1>2, <1>4, <2>1 DEF Announced, Pending
<1>5. ASSUME renderQ' = renderQ, frameReady' = frameReady + 1,
             \/ decoder.pc = "notify" /\ decoder'.pc # "notify" /\ vsync' = vsync
             \/ vsync.pc = "notify" /\ vsync'.pc # "notify" /\ decoder' = decoder
      PROVE  Len(renderQ') <= Announced'
  BY <1>1, <1>2, <1>5 DEF Announced, Pending
<1>6. ASSUME UNCHANGED <<decoder, vsync>>,
             \/ renderQ # <<>> /\ renderQ' = Tail(renderQ)
             \/ renderQ = <<>> /\ renderQ' = <<>>,
             \/ frameReady' = frameReady
             \/ frameReady > 0 /\ frameReady' = frameReady - 1
      PROVE  Len(renderQ') <= Announced'
  <2>1. CASE renderQ # <<>> /\ renderQ' = Tail(renderQ)
    <3>1. Len(renderQ') = Len(renderQ) - 1
      BY <1>2, <2>1, QueueLengths
    <3>2. Announced' >= Announced - 1
      BY <1>2, <1>6, <1>a, <1>b, <1>c
    <3>. QED BY <1>1, <1>2, <1>d, <3>1, <3>2
  <2>2. CASE renderQ' = <<>>
    <3>1. Len(renderQ') = 0
      BY <2>2
    <3>. QED BY <1>d, <3>1
  <2>. QED BY <1>6, <2>1, <2>2
<1>. USE DEF queues, IInv, TypeOK, Threads
<1>7. CASE Decoder
  <2>1. CASE SubmitPaced
    BY <1>3, <2>1 DEF SubmitPaced, CanSubmit
  <2>2. CASE WakeVsync
    BY <1>3, <2>2 DEF WakeVsync
  <2>3. CASE SubmitUnpaced
    BY <1>4, <2>3 DEF SubmitUnpaced, CanSubmit
  <2>4. CASE SubmitDirect
    BY <1>3, <2>4 DEF SubmitDirect, CanSubmit
  <2>5. CASE DeliverDirect
    BY <1>3, <2>5 DEF DeliverDirect
  <2>6. CASE DecoderNotify
    BY <1>5, <2>6 DEF DecoderNotify, NotifyRenderer
  <2>. QED BY <1>7, <2>1, <2>2, <2>3, <2>4, <2>5, <2>6 DEF Decoder
<1>8. CASE Vsync
  <2>1. ASSUME NEW target, NEW reclaimed, TrimPacing(target, reclaimed),
               vsync.pc # "notify", UNCHANGED <<decoder, frameReady>>
        PROVE  Len(renderQ') <= Announced'
    <3>1. CASE renderQ' = renderQ
      BY <1>3, <2>1, <3>1
    <3>2. CASE /\ pacingQ # <<>> /\ renderQ' = Enqueue(renderQ, Head(pacingQ))
               /\ vsync'.pc = "notify"
      <4>1. Head(pacingQ) \in Nat
        BY <1>2, <3>2, QueueLengths
      <4>. QED BY <1>4, <2>1, <3>2, <4>1
    <3>. QED BY <2>1, <3>1, <3>2 DEF TrimPacing
  <2>2. CASE VsyncTick \/ VsyncTimeout
    BY <1>3, <2>2 DEF VsyncTick, VsyncTimeout
  <2>3. CASE HandleVsync
    BY <2>1, <2>3 DEF HandleVsync
  <2>4. CASE VsyncDropped
    BY <2>1, <2>4 DEF VsyncDropped
  <2>5. CASE VsyncWoken
    <3>1. CASE renderQ' = renderQ
      BY <1>3, <2>5, <3>1 DEF VsyncWoken
    <3>2. CASE /\ pacingQ # <<>> /\ renderQ' = Enqueue(renderQ, Head(pacingQ))
               /\ vsync'.pc = "notify"
      <4>1. Head(pacingQ) \in Nat
        BY <1>2, <3>2, QueueLengths
      <4>. QED BY <1>4, <2>5, <3>2, <4>1 DEF VsyncWoken
    <3>. QED BY <2>5, <3>1, <3>2 DEF VsyncWoken
  <2>6. CASE VsyncNotify
    BY <1>5, <2>6 DEF VsyncNotify, NotifyRenderer
  <2>. QED BY <1>8, <2>2, <2>3, <2>4, <2>5, <2>6 DEF Vsync
<1>9. CASE Render
  <2>1. CASE RenderSleep \/ RenderFrame \/ DeferFree
    BY <1>3, <2>1 DEF RenderSleep, RenderFrame, DeferFree
  <2>2. CASE RenderCheck
    BY <1>3, <1>6, <2>2 DEF RenderCheck
  <2>3. CASE RenderOnMainThread
    BY <1>6, <2>3 DEF RenderOnMainThread
  <2>4. ASSUME NEW target \in Nat, NEW reclaimed, TrimRender(target, reclaimed),
               UNCHANGED <<decoder, vsync, frameReady>>
        PROVE  Len(renderQ') <= Announced'
    <3>1. renderQ = <<>> => Len(renderQ) = 0
      OBVIOUS
    <3>2. renderQ' = renderQ \/ (renderQ # <<>> /\ renderQ' = Tail(renderQ))
      BY <1>2, <2>4, <3>1 DEF TrimRender
    <3>. QED BY <1>3, <1>6, <2>4, <3>2
  <2>5. CASE RenderTrim
    <3>1. RenderTarget \in Nat
      BY DEF RenderTarget
    <3>. QED BY <2>4, <2>5, <3>1 DEF RenderTrim
  <2>6. CASE RenderDropped
    BY <2>4, <2>6 DEF RenderDropped
  <2>. QED BY <1>9, <2>1, <2>2, <2>3, <2>5, <2>6 DEF Render
<1>10. CASE Dtor
  <2>1. CASE StopRequested \/ StopVsync \/ JoinVsync \/ StopRender \/ JoinRender
    BY <1>3, <2>1 DEF StopRequested, StopVsync, JoinVsync, StopRender, JoinRender
  <2>2. CASE Drain
    <3>1. Len(renderQ') = 0
      BY <2>2 DEF Drain
    <3>. QED BY <1>d, <3>1
  <2>. QED BY <1>10, <2>1, <2>2 DEF Dtor
<1>11. CASE Initialize
  BY <1>3, <1>11 DEF Initialize, ThreadsCreated
<1>12. CASE UNCHANGED vars
  BY <1>3, <1>12 DEF vars
<1>. QED BY <1>7, <1>8, <1>9, <1>10, <1>11, <1>12 DEF Next

\* However the drops and the two places that push SDL_CODE_FRAME_READY
\* interleave, a renderer on the main thread is told of every queued frame.
THEOREM FramesAnnounced == Spec => []QueuedFramesAreAnnounced
<1>1. Init => QueuedFramesAreAnnounced
  BY DEF Init, QueuedFramesAreAnnounced
<1>2. IInv /\ IInv' /\ QueuedFramesAreAnnounced /\ [Next]_vars => QueuedFramesAreAnnounced'
  BY AnnouncedNext
<1>. QED BY <1>1, <1>2, InvHolds, PTL DEF Spec

\* The queues of pacer.cpp:25 stay within their limits, and a main-thread
\* renderer keeps an event (pacer.cpp:212) for every frame in them.
THEOREM PacerIsConsistent == Spec => []Consistent
<1>1. TypeOK /\ QueuedFramesAreAnnounced => Consistent
  BY DEF Consistent
<1>. QED BY <1>1, TypeCorrect, FramesAnnounced, PTL

-----------------------------------------------------------------------------
(* The Pacer implements FramePipe *)

\* What is still to be shown: all frames but the one on screen, which is in the
\* hand of the renderer first and deferred then.
Coming == InQueue(pacingQ) \union InQueue(renderQ) \union Hand(decoder) \union Hand(vsync)
            \union (IF render.pc = "rendered" THEN {} ELSE Hand(render))

\* The screen shows an older frame than all that are still to come.
ScreenFits ==
  /\ shown <= sent
  /\ Before({shown}, Coming)
  /\ render.pc = "rendered" => render.frame = shown
  /\ stopping => dtor # "live"

\* A step that shows nothing.
Unseen ==
  /\ shown' = shown
  /\ \/ sent' = sent /\ Coming' \subseteq Coming
     \/ sent' = sent + 1 /\ Coming' \subseteq Coming \union {sent + 1}
  /\ render'.pc = "rendered" => render.pc = "rendered" /\ render'.frame = render.frame
  /\ stopping' => dtor' # "live"

LEMMA UnseenKeepsScreen ==
  ASSUME IInv, ScreenFits, Unseen
  PROVE  ScreenFits'
<1>1. sent \in Nat /\ shown \in Nat
  BY DEF IInv, TypeOK
<1>2. Before({shown}, Coming \union {sent + 1})
  BY <1>1 DEF ScreenFits, Before
<1>. QED BY <1>1, <1>2 DEF Unseen, ScreenFits, Before

\* What the Pacer holds is what was not freed.
LEMMA HeldIsNotFreed ==
  /\ IInv => Held = (1..sent) \ freed /\ freed \subseteq 1..sent
  /\ IInv' => Held' = (1..sent') \ freed' /\ freed' \subseteq 1..sent'
  BY DEF IInv, FramesAccountedFor

Mapped == [Pipe!Next]_(Pipe!pipe)

LEMMA LosingMapped ==
  ASSUME IInv, IInv', NEW lost, lost \subseteq Held \ {shown}, freed' = freed \union lost,
         sent' = sent, UNCHANGED <<shown, stopping>>
  PROVE  Mapped
<1>1. Held' = Held \ lost
  BY HeldIsNotFreed
<1>2. CASE lost = {}
  BY <1>1, <1>2 DEF Mapped, Pipe!pipe
<1>3. CASE lost # {}
  <2>1. Pipe!Drop(lost) /\ lost \in SUBSET Held
    BY <1>1, <1>3 DEF Pipe!Drop
  <2>. QED BY <2>1 DEF Mapped, Pipe!Next
<1>. QED BY <1>2, <1>3

LEMMA SendingMapped ==
  ASSUME IInv, IInv', NEW lost, lost \subseteq Held \ {shown}, freed' = freed \union lost,
         sent' = sent + 1, UNCHANGED <<shown, stopping>>, ~stopping
  PROVE  Mapped
<1>0. sent \in Nat
  BY DEF IInv, TypeOK
<1>1. 1..(sent + 1) = (1..sent) \union {sent + 1} /\ sent + 1 \notin 1..sent
  BY <1>0
<1>2. Held' = (Held \ lost) \union {sent'}
  BY <1>1, HeldIsNotFreed
<1>3. Pipe!Send(lost) /\ lost \in SUBSET Held
  BY <1>2 DEF Pipe!Send
<1>. QED BY <1>3 DEF Mapped, Pipe!Next

\* Frames that are still to come can be dropped.
LEMMA ComingIsHeld ==
  ASSUME IInv, ScreenFits
  PROVE  Coming \subseteq Held \ {shown}
<1>1. Coming \subseteq Held
  BY HeldFacts DEF Coming
<1>2. shown \in Nat /\ Held \subseteq Nat
  BY HeldFacts DEF IInv, TypeOK
<1>. QED BY <1>1, <1>2 DEF ScreenFits, Before

Fits == ScreenFits' /\ Mapped

\* Steps that move no frame, the one that shows one left aside.
LEMMA QuietStepFits ==
  ASSUME IInv, ScreenFits, QuietStep, ~RenderFrame
  PROVE  Fits
<1>1. /\ UNCHANGED <<queues, sent, shown, freed, deferred>>
      /\ decoder'.frame = decoder.frame /\ vsync'.frame = vsync.frame
      /\ render'.frame = render.frame
      /\ render'.pc = "rendered" <=> render.pc = "rendered"
      /\ \/ UNCHANGED stopping /\ (dtor' = dtor \/ (dtor # "live" /\ dtor' # "live"))
         \/ stopping' = TRUE /\ dtor' # "live"
  <2>. USE DEF IInv, TypeOK, Threads, queues
  <2>1. CASE Initialize
    BY <2>1 DEF Initialize, ThreadsCreated
  <2>2. CASE WakeVsync
    BY <2>2 DEF WakeVsync
  <2>3. CASE DecoderNotify
    BY <2>3 DEF DecoderNotify, NotifyRenderer
  <2>4. CASE VsyncTick
    BY <2>4 DEF VsyncTick
  <2>5. CASE VsyncTimeout
    BY <2>5 DEF VsyncTimeout
  <2>6. CASE VsyncNotify
    BY <2>6 DEF VsyncNotify, NotifyRenderer
  <2>7. CASE RenderSleep
    BY <2>7 DEF RenderSleep
  <2>8. CASE StopRequested
    BY <2>8 DEF StopRequested
  <2>9. CASE StopVsync
    BY <2>9 DEF StopVsync
  <2>10. CASE JoinVsync
    BY <2>10 DEF JoinVsync
  <2>11. CASE StopRender
    BY <2>11 DEF StopRender
  <2>12. CASE JoinRender
    BY <2>12 DEF JoinRender
  <2>. QED BY <2>1, <2>2, <2>3, <2>4, <2>5, <2>6, <2>7, <2>8, <2>9, <2>10, <2>11, <2>12
           DEF QuietStep
<1>2. /\ InQueue(pacingQ)' = InQueue(pacingQ) /\ InQueue(renderQ)' = InQueue(renderQ)
      /\ Hand(decoder)' = Hand(decoder) /\ Hand(vsync)' = Hand(vsync)
      /\ Hand(render)' = Hand(render) /\ deferred' = deferred
  BY <1>1 DEF queues, InQueue, Hand
<1>3. Held' = Held /\ Coming' = Coming
  BY <1>1, <1>2 DEF Held, Coming
<1>4. ScreenFits'
  <2>1. Unseen
    BY <1>1, <1>3 DEF Unseen, ScreenFits
  <2>. QED BY <2>1, UnseenKeepsScreen
<1>5. CASE UNCHANGED stopping
  BY <1>1, <1>3, <1>4, <1>5 DEF Fits, Mapped, Pipe!pipe
<1>6. CASE stopping' = TRUE
  BY <1>1, <1>3, <1>4, <1>6 DEF Fits, Mapped, Pipe!Next, Pipe!Close
<1>. QED BY <1>1, <1>5, <1>6

\* A frame reaches the screen, and is the oldest of all there are but the one
\* before it.
LEMMA RenderFrameFits ==
  ASSUME IInv, ScreenFits, RenderFrame
  PROVE  Fits
<1>1. /\ render.frame \in Hand(render) /\ render.frame \in Nat /\ render.frame # NoFrame
      /\ Hand(decoder) = {} /\ render.frame \in Coming /\ render.frame \in Held
  BY DEF RenderFrame, IInv, TypeOK, Threads, HandsMatch, DirectIsAlone, Hand, Coming, Held
<1>2. /\ InQueue(pacingQ)' = InQueue(pacingQ) /\ InQueue(renderQ)' = InQueue(renderQ)
      /\ Hand(decoder)' = {} /\ Hand(vsync)' = Hand(vsync)
      /\ Hand(render)' = Hand(render) /\ deferred' = deferred
      /\ render'.pc = "rendered" /\ render'.frame = render.frame
      /\ shown' = render.frame /\ sent' = sent /\ stopping' = stopping /\ dtor' = dtor
  BY <1>1 DEF RenderFrame, queues, InQueue, Hand, IInv, TypeOK, Threads
<1>3. Held' = Held
  BY <1>1, <1>2 DEF Held
<1>4. ScreenFits'
  <2>1. Before({render.frame}, Coming')
    BY <1>1, <1>2 DEF IInv, StreamOrder, Before, Coming
  <2>2. render.frame <= sent
    BY <1>1, HeldFacts
  <2>. QED BY <1>2, <2>1, <2>2 DEF ScreenFits
<1>5. Pipe!Show(render.frame)
  <2>1. shown < render.frame
    BY <1>1 DEF ScreenFits, Before
  <2>. QED BY <1>1, <1>2, <1>3, <2>1 DEF Pipe!Show
<1>. QED BY <1>1, <1>4, <1>5 DEF Fits, Mapped, Pipe!Next

\* submitFrame(): the frame that lost its place was not yet shown.
LEMMA SubmitFits ==
  ASSUME IInv, IInv', ScreenFits, SubmitPaced \/ SubmitUnpaced \/ SubmitDirect
  PROVE  Fits
<1>0. sent \in Nat /\ ~stopping /\ stopping' = stopping /\ dtor' = dtor
  BY DEF SubmitPaced, SubmitUnpaced, SubmitDirect, CanSubmit, ScreenFits, IInv, TypeOK
<1>1. \E lost \in SUBSET Coming :
        /\ freed' = freed \union lost /\ sent' = sent + 1 /\ shown' = shown
        /\ Coming' \subseteq Coming \union {sent + 1}
        /\ render'.pc = render.pc /\ render'.frame = render.frame
  <2>1. CASE SubmitPaced
    <3>1. /\ Overflow(pacingQ) \subseteq InQueue(pacingQ)
          /\ InQueue(pacingQ)' \subseteq InQueue(pacingQ) \union {sent + 1}
      BY <2>1, HeldFacts, EnqueueFacts, <1>0 DEF SubmitPaced, IInv, TypeOK, StreamOrder
    <3>2. /\ InQueue(renderQ)' = InQueue(renderQ) /\ Hand(vsync)' = Hand(vsync)
          /\ Hand(render)' = Hand(render) /\ Hand(decoder)' = Hand(decoder)
      BY <2>1 DEF SubmitPaced, Hand, InQueue, IInv, TypeOK, Threads
    <3>. QED BY <2>1, <3>1, <3>2 DEF SubmitPaced, Coming
  <2>2. CASE SubmitUnpaced
    <3>1. /\ Overflow(renderQ) \subseteq InQueue(renderQ)
          /\ InQueue(renderQ)' \subseteq InQueue(renderQ) \union {sent + 1}
      BY <2>2, HeldFacts, EnqueueFacts, <1>0 DEF SubmitUnpaced, IInv, TypeOK, StreamOrder
    <3>2. /\ InQueue(pacingQ)' = InQueue(pacingQ) /\ Hand(vsync)' = Hand(vsync)
          /\ Hand(render)' = Hand(render) /\ Hand(decoder)' = Hand(decoder)
      BY <2>2 DEF SubmitUnpaced, Hand, InQueue, IInv, TypeOK, Threads
    <3>. QED BY <2>2, <3>1, <3>2 DEF SubmitUnpaced, Coming
  <2>3. CASE SubmitDirect
    <3>1. /\ InQueue(pacingQ)' = InQueue(pacingQ) /\ Hand(vsync)' = Hand(vsync)
          /\ InQueue(renderQ)' = InQueue(renderQ)
          /\ Hand(render)' = Hand(render) /\ Hand(decoder)' \subseteq {sent + 1}
          /\ freed' = freed \union {}
      BY <2>3 DEF SubmitDirect, Hand, InQueue, queues
    <3>. QED BY <2>3, <3>1 DEF SubmitDirect, Coming
  <2>. QED BY <2>1, <2>2, <2>3
<1>2. PICK lost \in SUBSET Coming :
        /\ freed' = freed \union lost /\ sent' = sent + 1 /\ shown' = shown
        /\ Coming' \subseteq Coming \union {sent + 1}
        /\ render'.pc = render.pc /\ render'.frame = render.frame
  BY <1>1
<1>3. ScreenFits'
  <2>1. Unseen
    BY <1>0, <1>2 DEF Unseen, ScreenFits
  <2>. QED BY <2>1, UnseenKeepsScreen
<1>4. Mapped
  <2>1. lost \subseteq Held \ {shown}
    BY <1>2, ComingIsHeld
  <2>. QED BY <1>0, <1>2, <2>1, SendingMapped
<1>. QED BY <1>3, <1>4 DEF Fits

\* The sink takes the frame over.
LEMMA DeliverDirectFits ==
  ASSUME IInv, IInv', ScreenFits, DeliverDirect
  PROVE  Fits
<1>1. /\ decoder.frame \in Hand(decoder) /\ decoder.frame \in Coming
      /\ decoder.frame \in Held /\ mode.direct
  BY DEF DeliverDirect, IInv, HandsMatch, DirectIsAlone, Hand, Coming, Held
<1>2. Coming' = {} /\ render' = render /\ render.pc # "rendered"
  BY <1>1 DEF DeliverDirect, IInv, HandsMatch, DirectIsAlone, Hand, Coming, InQueue, queues,
              NoFrame
<1>3. ScreenFits'
  <2>1. decoder.frame <= sent
    BY <1>1, HeldFacts
  <2>. QED BY <1>2, <2>1 DEF ScreenFits, DeliverDirect, Before
<1>4. Pipe!HandOver(decoder.frame)
  <2>1. shown < decoder.frame
    BY <1>1 DEF ScreenFits, Before
  <2>2. Held' = Held \ {decoder.frame}
    BY HeldIsNotFreed DEF DeliverDirect
  <2>. QED BY <1>1, <2>1, <2>2 DEF Pipe!HandOver, DeliverDirect
<1>. QED BY <1>1, <1>3, <1>4 DEF Fits, Mapped, Pipe!Next

\* Steps that drop frames before they were shown, or none.
LEMMA DroppingFits ==
  ASSUME IInv, IInv', ScreenFits, NEW lost, lost \subseteq Coming,
         freed' = freed \union lost, sent' = sent, Coming' \subseteq Coming,
         render'.pc = "rendered" => render.pc = "rendered" /\ render'.frame = render.frame,
         UNCHANGED <<shown, stopping, dtor>>
  PROVE  Fits
<1>1. Unseen
  BY DEF Unseen, ScreenFits
<1>2. lost \subseteq Held \ {shown}
  BY ComingIsHeld
<1>3. Mapped
  BY <1>2, LosingMapped
<1>. QED BY <1>1, <1>3, UnseenKeepsScreen DEF Fits

\* What the V-sync thread can drop or move from the pacing queue.
LEMMA TrimPacingDrops ==
  ASSUME IInv, NEW target \in Nat, NEW reclaimed, reclaimed = Hand(vsync),
         TrimPacing(target, reclaimed), UNCHANGED <<decoder, render>>
  PROVE  \E lost \in SUBSET Coming : freed' = freed \union lost /\ Coming' \subseteq Coming
<1>1. /\ pacingQ \in Seq(Nat) /\ Increasing(pacingQ)
      /\ renderQ \in Seq(Nat) /\ Increasing(renderQ) /\ Len(renderQ) <= MAX_QUEUED_FRAMES
  BY DEF IInv, TypeOK, StreamOrder
<1>2. Hand(decoder)' = Hand(decoder) /\ Hand(render)' = Hand(render) /\ render' = render
  BY DEF Hand
<1>3. CASE pacingQ' = Tail(pacingQ) /\ pacingQ # <<>> /\ renderQ' = renderQ
           /\ vsync'.frame = Head(pacingQ) /\ freed' = freed \union reclaimed
  <2>1. InQueue(pacingQ)' \subseteq InQueue(pacingQ) /\ Head(pacingQ) \in InQueue(pacingQ)
    BY <1>1, <1>3, TailFacts DEF InQueue
  <2>2. Hand(vsync)' \subseteq InQueue(pacingQ) /\ InQueue(renderQ)' = InQueue(renderQ)
    BY <1>3, <2>1 DEF Hand, InQueue
  <2>. QED BY <1>2, <1>3, <2>1, <2>2 DEF Coming
<1>4. CASE queues' = queues /\ vsync'.frame = NoFrame /\ freed' = freed \union reclaimed
  <2>1. /\ InQueue(pacingQ)' = InQueue(pacingQ) /\ InQueue(renderQ)' = InQueue(renderQ)
        /\ Hand(vsync)' = {}
    BY <1>4 DEF queues, InQueue, Hand
  <2>. QED BY <1>2, <1>4, <2>1 DEF Coming
<1>5. CASE /\ pacingQ' = Tail(pacingQ) /\ pacingQ # <<>>
           /\ renderQ' = Enqueue(renderQ, Head(pacingQ)) /\ vsync'.frame = NoFrame
           /\ freed' = freed \union reclaimed \union Overflow(renderQ)
  <2>1. /\ InQueue(pacingQ)' \subseteq InQueue(pacingQ) /\ Head(pacingQ) \in InQueue(pacingQ)
        /\ Head(pacingQ) \in Nat
    BY <1>1, <1>5, TailFacts DEF InQueue
  <2>2. Before(InQueue(renderQ), {Head(pacingQ)})
    BY <2>1 DEF IInv, StreamOrder, Before
  <2>3. /\ Overflow(renderQ) \subseteq InQueue(renderQ)
        /\ InQueue(renderQ)' \subseteq InQueue(renderQ) \union InQueue(pacingQ)
    BY <1>1, <1>5, <2>1, <2>2, EnqueueFacts
  <2>4. Hand(vsync)' = {}
    BY <1>5 DEF Hand
  <2> DEFINE lost == reclaimed \union Overflow(renderQ)
  <2>5. lost \subseteq Coming /\ Coming' \subseteq Coming
    BY <1>2, <2>1, <2>3, <2>4 DEF Coming
  <2>6. freed' = freed \union lost
    BY <1>5
  <2>. QED BY <2>5, <2>6
<1>6. pacingQ = <<>> => Len(pacingQ) = 0
  OBVIOUS
<1>7. CASE Len(pacingQ) > target
  <2>1. pacingQ # <<>>
    BY <1>6, <1>7
  <2>2. /\ pacingQ' = Tail(pacingQ) /\ renderQ' = renderQ
        /\ vsync'.frame = Head(pacingQ) /\ freed' = freed \union reclaimed
    BY <1>1, <1>7 DEF TrimPacing
  <2>. QED BY <1>3, <2>1, <2>2
<1>8. CASE ~(Len(pacingQ) > target)
  <2>1. CASE pacingQ = <<>>
    <3>1. queues' = queues /\ vsync'.frame = NoFrame /\ freed' = freed \union reclaimed
      BY <1>1, <1>8, <2>1 DEF TrimPacing, queues
    <3>. QED BY <1>4, <3>1
  <2>2. CASE pacingQ # <<>>
    <3>1. /\ pacingQ' = Tail(pacingQ) /\ vsync'.frame = NoFrame
          /\ renderQ' = Enqueue(renderQ, Head(pacingQ))
          /\ freed' = freed \union reclaimed \union Overflow(renderQ)
      BY <1>1, <1>8, <2>2 DEF TrimPacing
    <3>. QED BY <1>5, <2>2, <3>1
  <2>. QED BY <2>1, <2>2
<1>. QED BY <1>7, <1>8

\* The V-sync thread drops what is in excess and moves one frame on.
LEMMA VsyncFits ==
  ASSUME IInv, IInv', ScreenFits, HandleVsync \/ VsyncDropped \/ VsyncWoken
  PROVE  Fits
<1>1. /\ UNCHANGED <<decoder, render>>
      /\ sent' = sent /\ UNCHANGED <<shown, stopping, dtor>>
  BY DEF HandleVsync, VsyncDropped, VsyncWoken
<1>2. \E lost \in SUBSET Coming : freed' = freed \union lost /\ Coming' \subseteq Coming
  <2>1. CASE HandleVsync
    <3>1. Hand(vsync) = {} /\ TrimPacing(PacingTarget, {}) /\ PacingTarget \in Nat
      BY <2>1 DEF HandleVsync, IInv, HandsMatch, Hand, PacingTarget
    <3>. QED BY <1>1, <3>1, TrimPacingDrops
  <2>2. CASE VsyncDropped
    <3>1. TrimPacing(vsync.target, {vsync.frame}) /\ {vsync.frame} = Hand(vsync)
          /\ vsync.target \in Nat
      BY <2>2 DEF VsyncDropped, IInv, HandsMatch, Hand, TypeOK, Threads
    <3>. QED BY <1>1, <3>1, TrimPacingDrops
  <2>3. CASE VsyncWoken
    <3>1. vsync.frame = NoFrame /\ vsync'.frame = NoFrame
      BY <2>3 DEF VsyncWoken, IInv, HandsMatch, TypeOK, Threads
    <3>2. CASE pacingQ # <<>> /\ pacingQ' = Tail(pacingQ)
               /\ renderQ' = Enqueue(renderQ, Head(pacingQ))
               /\ freed' = freed \union Overflow(renderQ)
      <4>0. /\ pacingQ \in Seq(Nat) /\ Increasing(pacingQ)
            /\ renderQ \in Seq(Nat) /\ Increasing(renderQ) /\ Len(renderQ) <= MAX_QUEUED_FRAMES
        BY DEF IInv, TypeOK, StreamOrder
      <4>1. /\ InQueue(pacingQ)' \subseteq InQueue(pacingQ)
            /\ Head(pacingQ) \in InQueue(pacingQ) /\ Head(pacingQ) \in Nat
        BY <3>2, <4>0, TailFacts DEF InQueue
      <4>2. Before(InQueue(renderQ), {Head(pacingQ)})
        BY <4>1 DEF IInv, StreamOrder, Before
      <4>3. /\ Overflow(renderQ) \subseteq InQueue(renderQ)
            /\ InQueue(renderQ)' \subseteq InQueue(renderQ) \union InQueue(pacingQ)
        BY <3>2, <4>0, <4>1, <4>2, EnqueueFacts
      <4>4. Hand(vsync)' = {} /\ Hand(decoder)' = Hand(decoder) /\ Hand(render)' = Hand(render)
        BY <1>1, <3>1 DEF Hand
      <4>. QED BY <1>1, <3>2, <4>1, <4>3, <4>4 DEF Coming
    <3>3. CASE UNCHANGED <<queues, freed>>
      <4>1. /\ InQueue(pacingQ)' = InQueue(pacingQ) /\ InQueue(renderQ)' = InQueue(renderQ)
            /\ Hand(vsync)' = {} /\ Hand(decoder)' = Hand(decoder)
            /\ Hand(render)' = Hand(render)
        BY <1>1, <3>1, <3>3 DEF queues, InQueue, Hand
      <4> DEFINE lost == {}
      <4>2. freed' = freed \union lost /\ Coming' \subseteq Coming /\ lost \in SUBSET Coming
        BY <1>1, <3>3, <4>1 DEF Coming
      <4>. HIDE DEF lost
      <4>. QED BY <4>2
    <3>. QED BY <2>3, <3>2, <3>3 DEF VsyncWoken
  <2>. QED BY <2>1, <2>2, <2>3
<1>. QED BY <1>1, <1>2, DroppingFits

\* The renderer takes the next frame, or none.
LEMMA TakingFits ==
  ASSUME IInv, IInv', ScreenFits, RenderCheck \/ RenderOnMainThread
  PROVE  Fits
<1>1. /\ UNCHANGED <<pacingQ, decoder, vsync, freed>>
      /\ sent' = sent /\ UNCHANGED <<shown, stopping, dtor>>
      /\ render.frame = NoFrame
  BY DEF RenderCheck, RenderOnMainThread, IInv, HandsMatch
<1>2. /\ InQueue(pacingQ)' = InQueue(pacingQ) /\ Hand(vsync)' = Hand(vsync)
      /\ Hand(decoder)' = Hand(decoder)
  BY <1>1 DEF InQueue, Hand
<1>3. /\ render'.pc # "rendered"
      /\ \/ renderQ' = renderQ /\ render'.frame = NoFrame
         \/ renderQ # <<>> /\ renderQ' = Tail(renderQ) /\ render'.frame = Head(renderQ)
  BY <1>1 DEF RenderCheck, RenderOnMainThread, IInv, TypeOK, Threads
<1>4. InQueue(renderQ)' \union Hand(render)' \subseteq InQueue(renderQ)
  <2>1. CASE renderQ' = renderQ /\ render'.frame = NoFrame
    BY <2>1 DEF InQueue, Hand
  <2>2. CASE renderQ # <<>> /\ renderQ' = Tail(renderQ) /\ render'.frame = Head(renderQ)
    BY <2>2, TailFacts DEF InQueue, Hand, IInv, TypeOK, StreamOrder
  <2>. QED BY <1>3, <2>1, <2>2
<1> DEFINE lost == {}
<1>5. Coming' \subseteq Coming /\ freed' = freed \union lost /\ lost \subseteq Coming
  BY <1>1, <1>2, <1>4 DEF Coming
<1>. HIDE DEF lost
<1>. QED BY <1>1, <1>3, <1>5, DroppingFits

\* The frame before the one on screen is freed.
LEMMA DeferFreeFits ==
  ASSUME IInv, IInv', ScreenFits, DeferFree
  PROVE  Fits
<1>1. /\ UNCHANGED <<queues, decoder, vsync>>
      /\ sent' = sent /\ UNCHANGED <<shown, stopping, dtor>>
      /\ render.pc = "rendered" /\ render'.pc = "trim" /\ render'.frame = NoFrame
      /\ freed' = freed \union ({deferred} \ {NoFrame})
  BY DEF DeferFree, IInv, TypeOK, Threads
<1>2. Coming' \subseteq Coming
  <2>1. /\ InQueue(pacingQ)' = InQueue(pacingQ) /\ InQueue(renderQ)' = InQueue(renderQ)
        /\ Hand(vsync)' = Hand(vsync) /\ Hand(decoder)' = Hand(decoder) /\ Hand(render)' = {}
    BY <1>1 DEF queues, InQueue, Hand
  <2>. QED BY <1>1, <2>1 DEF Coming
<1>3. deferred # shown
  <2>1. render.frame = shown /\ render.frame \in Hand(render)
    BY <1>1 DEF ScreenFits, IInv, HandsMatch, Hand
  <2>2. deferred < render.frame
    BY <2>1 DEF IInv, StreamOrder, Before
  <2>. QED BY <2>1, <2>2 DEF IInv, TypeOK
<1>4. ({deferred} \ {NoFrame}) \subseteq Held \ {shown}
  BY <1>3 DEF Held
<1>5. Mapped
  BY <1>1, <1>4, LosingMapped
<1>6. Unseen
  BY <1>1, <1>2 DEF Unseen, ScreenFits
<1>. QED BY <1>5, <1>6, UnseenKeepsScreen DEF Fits

\* The renderer drops what is in excess.
LEMMA TrimRenderFits ==
  ASSUME IInv, IInv', ScreenFits, RenderTrim \/ RenderDropped
  PROVE  Fits
<1>1. /\ UNCHANGED <<pacingQ, decoder, vsync>>
      /\ sent' = sent /\ UNCHANGED <<shown, stopping, dtor>>
      /\ render.pc # "rendered" /\ freed' = freed \union Hand(render)
  BY DEF RenderTrim, RenderDropped, TrimRender, IInv, HandsMatch, Hand
<1>2. /\ render'.pc # "rendered"
      /\ \/ renderQ' = renderQ /\ render'.frame = NoFrame
         \/ renderQ # <<>> /\ renderQ' = Tail(renderQ) /\ render'.frame = Head(renderQ)
  <2>1. \E target \in Nat : \E reclaimed : TrimRender(target, reclaimed)
    <3>1. RenderTarget \in Nat
      BY DEF RenderTarget
    <3>2. render.target \in Nat
      BY DEF IInv, TypeOK, Threads
    <3>. QED BY <3>1, <3>2 DEF RenderTrim, RenderDropped
  <2>2. renderQ = <<>> => Len(renderQ) = 0
    OBVIOUS
  <2>. QED BY <2>1, <2>2 DEF TrimRender
<1>3. InQueue(renderQ)' \union Hand(render)' \subseteq InQueue(renderQ)
  <2>1. CASE renderQ' = renderQ /\ render'.frame = NoFrame
    BY <2>1 DEF InQueue, Hand
  <2>2. CASE renderQ # <<>> /\ renderQ' = Tail(renderQ) /\ render'.frame = Head(renderQ)
    BY <2>2, TailFacts DEF InQueue, Hand, IInv, TypeOK, StreamOrder
  <2>. QED BY <1>2, <2>1, <2>2
<1>4. /\ InQueue(pacingQ)' = InQueue(pacingQ) /\ Hand(vsync)' = Hand(vsync)
      /\ Hand(decoder)' = Hand(decoder)
  BY <1>1 DEF InQueue, Hand
<1>5. Coming' \subseteq Coming /\ Hand(render) \subseteq Coming
  BY <1>1, <1>3, <1>4 DEF Coming
<1>. QED BY <1>1, <1>2, <1>5, DroppingFits

\* ~Pacer() gives everything back.
LEMMA DrainFits ==
  ASSUME IInv, IInv', ScreenFits, Drain
  PROVE  Fits
<1>1. /\ dtor = "drain" /\ dtor' = "done" /\ stopping
      /\ UNCHANGED <<sent, shown, stopping, decoder, vsync, render>>
      /\ pacingQ' = <<>> /\ renderQ' = <<>>
  BY DEF Drain, IInv, DecoderGone
<1>2. Held' = {}
  <2>1. freed' = 1..sent'
    BY <1>1 DEF IInv, TeardownIsQuiet
  <2>. QED BY <2>1, HeldIsNotFreed
<1>3. Mapped
  BY <1>1, <1>2 DEF Mapped, Pipe!Next, Pipe!Drain
<1>4. Unseen
  <2>1. InQueue(pacingQ)' = {} /\ InQueue(renderQ)' = {}
    BY <1>1 DEF InQueue
  <2>2. Hand(decoder)' = Hand(decoder) /\ Hand(vsync)' = Hand(vsync)
        /\ Hand(render)' = Hand(render)
    BY <1>1 DEF Hand
  <2>3. Coming' \subseteq Coming
    BY <1>1, <2>1, <2>2 DEF Coming
  <2>. QED BY <1>1, <2>3 DEF Unseen
<1>. QED BY <1>3, <1>4, UnseenKeepsScreen DEF Fits

\* Every step of the Pacer is a step of FramePipe or a stutter.
LEMMA NextFits ==
  ASSUME IInv, IInv', ScreenFits, [Next]_vars
  PROVE  Fits
<1>1. CASE QuietStep
  BY <1>1, QuietStepFits, RenderFrameFits
<1>2. CASE Decoder /\ ~QuietStep
  BY <1>2, SubmitFits, DeliverDirectFits DEF Decoder, QuietStep
<1>3. CASE Vsync /\ ~QuietStep
  BY <1>3, VsyncFits DEF Vsync, QuietStep
<1>4. CASE Render /\ ~QuietStep
  BY <1>4, TakingFits, DeferFreeFits, TrimRenderFits, RenderFrameFits DEF Render, QuietStep
<1>5. CASE Dtor /\ ~QuietStep
  BY <1>5, DrainFits DEF Dtor, QuietStep
<1>6. CASE Initialize /\ ~QuietStep
  BY <1>6 DEF QuietStep
<1>7. CASE UNCHANGED vars
  <2>1. /\ UNCHANGED <<decoder, vsync, render, pacingQ, renderQ, deferred, freed>>
        /\ sent' = sent /\ UNCHANGED <<shown, stopping, dtor>>
    BY <1>7 DEF vars, queues
  <2>2. Coming' = Coming
    BY <2>1 DEF Coming, InQueue, Hand
  <2> DEFINE lost == {}
  <2>3. freed' = freed \union lost /\ render' = render /\ lost \subseteq Coming
    BY <2>1
  <2>. HIDE DEF lost
  <2>. QED BY <2>1, <2>2, <2>3, DroppingFits
<1>. QED BY <1>1, <1>2, <1>3, <1>4, <1>5, <1>6, <1>7 DEF Next

\* Whatever the threads' interleaving and the drops, the Pacer does what
\* FramePipe promises: what is shown is shown in stream order, and the frame on
\* screen keeps its buffer until a newer one has replaced it (renderFrame() with
\* m_DeferredFreeFrame, and ~Pacer()).
THEOREM PacerImplementsPipe == Spec => KeepsPromise
<1>1. Init => ScreenFits /\ Pipe!Init
  BY DEF Init, ScreenFits, Pipe!Init, Coming, Held, Hand, InQueue, NoFrame, Before
<1>2. IInv /\ IInv' /\ ScreenFits /\ [Next]_vars => ScreenFits' /\ [Pipe!Next]_(Pipe!pipe)
  BY NextFits DEF Fits, Mapped
<1>. QED BY <1>1, <1>2, InvHolds, PTL DEF Spec, KeepsPromise, Pipe!Spec
=============================================================================
