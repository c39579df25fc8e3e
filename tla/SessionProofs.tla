---------------------------- MODULE SessionProofs ----------------------------
(***************************************************************************)
(* Proofs about Session.tla, for any number of sessions: one cleanup each, *)
(* callbacks that find their session, parts given back in order, the       *)
(* contract with the pages, and queued events that still fit.              *)
(*                                                                         *)
(* All of it follows from the life of each session (Life), which relates   *)
(* its fields to what the rest of the program holds of it: whether it is   *)
(* the active one, where the main thread is for it (where) and which calls *)
(* are queued for it (calls).  A step of one session leaves the lives of   *)
(* the others alone, so that each action is looked at once.                *)
(*                                                                         *)
(* That the queue never holds a call twice (Once) and nothing after        *)
(* readyForDeletion (ReadyLast) is what lets a set stand for the queue.    *)
(*                                                                         *)
(* Everything here assumes []Apart: no signal comes between the main        *)
(* thread's tests in stopSession() or the reset handler and what they do.  *)
(* The code does not enforce that, so Apart stands in every theorem, where *)
(* it keeps the state each test found until the step that relies on it.    *)
(*                                                                         *)
(* SDL's queue is another matter (FlushInv): its barriers are counted, and *)
(* what SDL_FlushEvent() leaves of it is found by induction over it.       *)
(***************************************************************************)
EXTENDS Session, FiniteSetTheorems, WellFoundedInduction, TLAPS

FieldsType ==
  [page : Pages, conn : {"none", "starting", "connected", "finished"},
   link : {"none", "up", "stopped"}, success : BOOLEAN,
   interrupted : BOOLEAN, unexpected : BOOLEAN,
   terminated : {"no", "graceful", "error"}, streaming : BOOLEAN,
   cleaned : BOOLEAN, decoder : {"none", "ok", "faulted"},
   input : BOOLEAN, flushing : Int, shouldExit : BOOLEAN,
   tasks : Seq(Tasks)]
Places ==
  {"idle", "acquire", "creating", "loop", "stopping", "resetting", "recreating"}
Events == [kind : Kinds, session : Sessions]

Typed ==
  /\ scene \in BOOLEAN
  /\ sess \in [Sessions -> FieldsType]
  /\ active \in Sessions \cup {None}
  /\ main \in [pc : Places,
               session : Sessions \cup {None}]
  /\ main.pc = "idle" <=> main.session = None
  /\ queue \in Seq(Events)
  /\ semaphore = IF active = None THEN 1 ELSE 0

-----------------------------------------------------------------------------
(* The queue *)

Once == \A i, j \in 1..Len(queue) : queue[i] = queue[j] => i = j
ReadyLast ==
  \A i, j \in 1..Len(queue) : queue[i] = Event("ready", queue[j].session) => j <= i

Calls(s) == {k \in Kinds : \E i \in 1..Len(queue) : queue[i] = Event(k, s)}
Where(s) == IF main.session = s THEN main.pc ELSE "idle"

-----------------------------------------------------------------------------
(* The life of a session with the fields r *)

\* Its cleanup has begun; it is over; the page has been told.
Ended(r) == r.tasks # <<>>
Over(r) == Ended(r) /\ r.tasks[1].pc = "done"
Told(r) == /\ Ended(r) /\ r.tasks[1].pc # "queued"
           /\ r.tasks[1].quit => r.tasks[1].pc \in {"ended", "done"}

\* Nothing has happened before start().
BeforeStart(r, holds, where, calls) ==
  r.page \in {"new", "initialized"} =>
    /\ r.conn = "none" /\ r.link = "none" /\ ~r.success /\ r.terminated = "no"
    /\ ~r.streaming /\ ~r.cleaned /\ r.decoder = "none" /\ ~r.input /\ ~Ended(r)
    /\ ~holds /\ calls = {}
    /\ where = "idle" \/ (where = "acquire" /\ r.page = "initialized")

\* From then on the session holds the semaphore until its cleanup is over.
Holding(r, holds, where) ==
  r.page \in {"open", "popped"} =>
    (holds <=> ~Over(r)) /\ where # "acquire" /\ r.conn # "none"

\* The connection thread runs, then exec() is queued, once.
Connecting(r, where, calls) ==
  /\ r.conn \in {"starting", "connected"} =>
       /\ ~Ended(r) /\ "exec" \notin calls /\ ~r.streaming /\ where = "idle"
       /\ ~r.success
  /\ r.conn = "starting" => r.link = "none"
  /\ r.conn = "connected" => r.link = "up"
  /\ r.success => r.link # "none" /\ r.conn = "finished"
  /\ r.link = "up" => ~Ended(r) \/ r.tasks[1].pc \in {"queued", "notified"}
  /\ r.link = "stopped" => Ended(r)
  /\ "exec" \in calls =>
       r.conn = "finished" /\ ~Ended(r) /\ ~r.streaming /\ where = "idle"

\* A stream runs in the SDL loop, or in scene mode until stopSession().
Streaming(sc, r, where) ==
  /\ where = "loop" => ~sc /\ ~Ended(r) /\ r.success /\ r.page = "open"
  /\ where \in {"creating", "stopping", "resetting", "recreating"} =>
       sc /\ r.streaming /\ ~r.cleaned /\ r.page = "open"
  /\ where \in {"creating", "recreating"} => r.decoder = "none"
  /\ r.streaming => sc /\ r.success /\ (Ended(r) => r.cleaned)
  /\ r.cleaned => Ended(r)
  /\ r.decoder # "none" => /\ ~Ended(r) /\ r.success /\ r.input
                           /\ sc => r.streaming
                           /\ ~sc => where = "loop"

\* One cleanup, after which nothing of the stream is left.
Ending(sc, r, where) ==
  /\ Ended(r) => /\ Len(r.tasks) = 1 /\ ~r.input /\ r.conn = "finished"
                 /\ where = "idle" /\ (sc => r.cleaned)
                 /\ r.page \in {"open", "popped"}
  /\ ~Ended(r) /\ r.page = "open" => r.input
  /\ r.page = "popped" => Told(r)

\* What the calls that are queued tell.
Queued(sc, r, where, calls) ==
  /\ "finished" \in calls <=> r.page = "open" /\ Told(r)
  /\ "ready" \in calls <=> Over(r)
  /\ "terminated" \in calls => sc /\ r.terminated # "no"
  /\ "reset" \in calls => sc /\ (r.decoder = "faulted" \/ r.cleaned)
  /\ where = "resetting" => r.decoder = "faulted" /\ "reset" \notin calls

Life(sc, r, holds, where, calls) ==
  /\ BeforeStart(r, holds, where, calls) /\ Holding(r, holds, where)
  /\ Connecting(r, where, calls) /\ Streaming(sc, r, where)
  /\ Ending(sc, r, where) /\ Queued(sc, r, where, calls)

Lives == \A s \in Sessions : Life(scene, sess[s], active = s, Where(s), Calls(s))

\* One page is open, and it holds the reference to SDL video and the bridge.
OnePage ==
  \A s, t \in Sessions :
    sess[s].page \in {"initialized", "open"} /\ sess[t].page \in {"initialized", "open"}
      => s = t
WithVideo(s) == sess[s].page # "new" /\ ~Ended(sess[s])
VideoCounted == sdl.refs = IF \E s \in Sessions : WithVideo(s) THEN 1 ELSE 0
Shaped(q) == q = [refs |-> q.refs, events |-> q.events]

\* The signal thread in stopSession() was right to go there.
SignalFits ==
  signal.pc = "stopping" =>
    LET r == sess[signal.session] IN
      /\ signal.session \in Sessions /\ scene
      /\ r.streaming /\ ~r.cleaned /\ r.decoder # "none"

IInv == Typed /\ Once /\ ReadyLast /\ Lives
PartsInv ==
  OnePage /\ Shaped(sdl) /\ VideoCounted /\ BridgeFollowsStream /\ SignalFits

-----------------------------------------------------------------------------
(* A call is queued, or taken *)

LEMMA PostAddsCall ==
  ASSUME queue \in Seq(Events), Once, ReadyLast, NEW k \in Kinds, NEW s \in Sessions,
         k \notin Calls(s), "ready" \notin Calls(s), Post(k, s)
  PROVE  /\ queue' \in Seq(Events) /\ Once' /\ ReadyLast'
         /\ Calls(s)' = Calls(s) \cup {k}
         /\ \A t \in Sessions \ {s} : Calls(t)' = Calls(t)
<1>. DEFINE e == Event(k, s)
            n == Len(queue)
<1>1. e \in Events /\ e.kind = k /\ e.session = s
  BY DEF Event, Events
<1>2. /\ queue' = Append(queue, e) /\ n \in Nat
      /\ queue' \in Seq(Events) /\ Len(queue') = n + 1
      /\ \A i \in 1..n : queue'[i] = queue[i]
      /\ queue'[n + 1] = e
  BY <1>1 DEF Post
<1>3. \A i \in 1..n : queue[i] # e /\ queue[i] # Event("ready", s)
  BY DEF Calls, Kinds
<1>4. \A i \in 1..n : queue[i] \in Events
  BY <1>2
<1>5. 1..(n + 1) = (1..n) \cup {n + 1}
  BY <1>2
<1>. HIDE DEF n, e
<1>6. Once'
  <2>. SUFFICES ASSUME NEW i \in 1..(n + 1), NEW j \in 1..(n + 1), queue'[i] = queue'[j]
                PROVE  i = j
    BY <1>2 DEF Once
  <2>. QED BY <1>2, <1>3, <1>5 DEF Once, n
<1>7. ReadyLast'
  <2>. SUFFICES ASSUME NEW i \in 1..(n + 1), NEW j \in 1..(n + 1),
                       queue'[i] = Event("ready", queue'[j].session)
                PROVE  j <= i
    BY <1>2 DEF ReadyLast
  <2>1. CASE i = n + 1
    BY <1>2, <2>1
  <2>2. CASE i \in 1..n /\ j \in 1..n
    BY <1>2, <2>2 DEF ReadyLast, n
  <2>3. CASE i \in 1..n /\ j = n + 1
    BY <1>1, <1>2, <1>3, <2>3
  <2>. QED BY <1>5, <2>1, <2>2, <2>3
<1>8. ASSUME NEW t \in Sessions, NEW h \in Kinds
      PROVE  (\E i \in 1..(n + 1) : queue'[i] = Event(h, t))
               <=> (\E i \in 1..n : queue[i] = Event(h, t)) \/ e = Event(h, t)
  BY <1>2, <1>5
<1>9. \A t \in Sessions, h \in Kinds : e = Event(h, t) <=> h = k /\ t = s
  BY DEF e, Event
<1>10. \A t \in Sessions : Calls(t)' = Calls(t) \cup (IF t = s THEN {k} ELSE {})
  BY <1>2, <1>8, <1>9 DEF Calls, n
<1>. QED BY <1>2, <1>6, <1>7, <1>10

LEMMA TakeRemovesCall ==
  ASSUME queue \in Seq(Events), Once, ReadyLast, NEW k \in Kinds, NEW s \in Sessions,
         queue # <<>>, Head(queue) = Event(k, s), queue' = Tail(queue)
  PROVE  /\ queue' \in Seq(Events) /\ Once' /\ ReadyLast'
         /\ k \in Calls(s) /\ Calls(s)' = Calls(s) \ {k}
         /\ \A t \in Sessions \ {s} : Calls(t)' = Calls(t)
         /\ k = "ready" => Calls(s) = {"ready"}
<1>. DEFINE e == Event(k, s)
            n == Len(queue)
<1>1. /\ n \in Nat /\ n >= 1 /\ queue[1] = e
      /\ queue' \in Seq(Events) /\ Len(queue') = n - 1
      /\ \A i \in 1..(n - 1) : queue'[i] = queue[i + 1] /\ i + 1 \in 1..n
      /\ \A i \in 2..n : i - 1 \in 1..(n - 1) /\ queue[i] = queue'[i - 1]
  OBVIOUS
<1>2. 1..n = {1} \cup 2..n
  BY <1>1
<1>3. \A i \in 2..n : queue[i] # e
  BY <1>1 DEF Once
<1>. HIDE DEF n, e
<1>4. Once'
  <2>. SUFFICES ASSUME NEW i \in 1..(n - 1), NEW j \in 1..(n - 1), queue'[i] = queue'[j]
                PROVE  i = j
    BY <1>1 DEF Once
  <2>1. i + 1 = j + 1
    BY <1>1 DEF Once, n
  <2>. QED BY <2>1
<1>5. ReadyLast'
  <2>. SUFFICES ASSUME NEW i \in 1..(n - 1), NEW j \in 1..(n - 1),
                       queue'[i] = Event("ready", queue'[j].session)
                PROVE  j <= i
    BY <1>1 DEF ReadyLast
  <2>1. j + 1 <= i + 1
    BY <1>1 DEF ReadyLast, n
  <2>. QED BY <2>1
<1>6. ASSUME NEW t \in Sessions, NEW h \in Kinds
      PROVE  (\E i \in 1..(n - 1) : queue'[i] = Event(h, t))
               <=> \E i \in 2..n : queue[i] = Event(h, t)
  BY <1>1
<1>7. \A t \in Sessions, h \in Kinds : e = Event(h, t) <=> h = k /\ t = s
  BY DEF e, Event
<1>8. \A t \in Sessions : Calls(t)' = Calls(t) \ (IF t = s THEN {k} ELSE {})
  BY <1>1, <1>2, <1>3, <1>6, <1>7 DEF Calls, n
<1>9. k \in Calls(s)
  BY <1>1, <1>2 DEF Calls, n, e
<1>10. ASSUME k = "ready", NEW h \in Calls(s) PROVE h = "ready"
  <2>1. PICK j \in 1..n : queue[j] = Event(h, s)
    BY DEF Calls, n
  <2>2. queue[j].session = s
    BY <2>1 DEF Event
  <2>3. j = 1
    BY <1>1, <1>2, <1>10, <2>2 DEF ReadyLast, n, e
  <2>. QED BY <1>1, <1>10, <2>1, <2>3 DEF e, Event
<1>. QED BY <1>1, <1>4, <1>5, <1>8, <1>9, <1>10

-----------------------------------------------------------------------------
(* What a step of one session has to show *)

\* The other lives are left alone.
LEMMA OneMoves ==
  ASSUME Typed, Lives, NEW s \in Sessions, NEW r \in FieldsType,
         sess' = [sess EXCEPT ![s] = r], scene' = scene,
         Life(scene, r, active' = s, Where(s)', Calls(s)'),
         \A t \in Sessions \ {s} : /\ (active' = t) = (active = t)
                                   /\ Where(t)' = Where(t) /\ Calls(t)' = Calls(t)
  PROVE  sess' \in [Sessions -> FieldsType] /\ Lives'
<1>1. sess' \in [Sessions -> FieldsType] /\ sess'[s] = r
  BY DEF Typed
<1>2. ASSUME NEW t \in Sessions \ {s}
      PROVE  Life(scene, sess'[t], active' = t, Where(t)', Calls(t)')
  <2>1. sess'[t] = sess[t]
    BY DEF Typed
  <2>. QED BY <2>1 DEF Lives
<1>. QED BY <1>1, <1>2 DEF Lives

\* A session that may be ended: its connection was established or has failed,
\* and nothing of its end is under way.
MayEnd(sc, q, calls) ==
  /\ q \in FieldsType /\ q.page = "open" /\ ~Ended(q)
  /\ q.conn = "finished" /\ (q.success => q.link # "none")
  /\ (sc => q.cleaned) /\ (q.streaming => sc /\ q.success)
  /\ "exec" \notin calls /\ "finished" \notin calls /\ "ready" \notin calls
  /\ "terminated" \in calls => sc /\ q.terminated # "no"
  /\ "reset" \in calls => sc

\* Its cleanup makes it an ending one.
LEMMA CleanupLife ==
  ASSUME NEW sc \in BOOLEAN, NEW q, NEW calls, MayEnd(sc, q, calls)
  PROVE  /\ Dispatch(Torn(q)) \in FieldsType
         /\ Life(sc, Dispatch(Torn(q)), TRUE, "idle", calls)
         /\ Ended(Dispatch(Torn(q)))
<1>. DEFINE r == Dispatch(Torn(q))
            task == [pc |-> "queued", quit |-> FALSE]
<1>1. task \in Tasks
  BY DEF Tasks
<1>2. Append(q.tasks, task) = <<task>> /\ <<task>> \in Seq(Tasks)
  <2>1. q.tasks = <<>>
    BY DEF MayEnd, Ended
  <2>2. <<>> \in Seq(Tasks) /\ Append(<<>>, task) \in Seq(Tasks)
    BY <1>1
  <2>3. Append(<<>>, task) = <<task>>
    BY <2>2
  <2>. QED BY <2>1, <2>2, <2>3
<1>3. r \in FieldsType
  BY <1>2 DEF MayEnd, FieldsType, Dispatch, Torn
<1>4. /\ r.tasks = <<task>> /\ r.page = "open" /\ r.conn = "finished" /\ r.link = q.link
      /\ r.success = q.success /\ r.terminated = q.terminated
      /\ r.streaming = q.streaming /\ r.cleaned = q.cleaned /\ r.decoder = "none"
      /\ r.input = FALSE
  BY <1>2 DEF MayEnd, FieldsType, Dispatch, Torn
<1>5. Len(r.tasks) = 1 /\ r.tasks[1].pc = "queued" /\ r.tasks # <<>>
  BY <1>2, <1>4
<1>6. r.link \in {"none", "up", "stopped"}
  BY <1>3 DEF FieldsType
<1>. HIDE DEF r, task
<1>7. Ended(r) /\ ~Over(r) /\ ~Told(r)
  BY <1>5 DEF Ended, Over, Told
<1>8. BeforeStart(r, TRUE, "idle", calls) /\ Holding(r, TRUE, "idle")
  BY <1>4, <1>7 DEF BeforeStart, Holding
<1>9. Connecting(r, "idle", calls)
  BY <1>4, <1>5, <1>7 DEF Connecting, MayEnd
<1>10. Streaming(sc, r, "idle") /\ Ending(sc, r, "idle")
  BY <1>4, <1>5, <1>7 DEF Streaming, Ending, MayEnd
<1>11. Queued(sc, r, "idle", calls)
  BY <1>4, <1>7 DEF Queued, MayEnd
<1>. QED BY <1>3, <1>7, <1>8, <1>9, <1>10, <1>11 DEF r, Life

LEMMA InitLives == Init => IInv
<1>. SUFFICES ASSUME Init PROVE IInv
  OBVIOUS
<1>1. <<>> \in Seq(Tasks) /\ Fresh \in FieldsType
  BY DEF Fresh, FieldsType, Pages
<1>2. sess \in [Sessions -> FieldsType] /\ queue \in Seq(Events)
  BY <1>1 DEF Init
<1>3. Typed
  BY <1>2 DEF Init, Typed, Places
<1>4. Once /\ ReadyLast /\ \A s \in Sessions : Calls(s) = {}
  BY DEF Init, Once, ReadyLast, Calls
<1>5. ASSUME NEW s \in Sessions PROVE Life(scene, sess[s], active = s, Where(s), Calls(s))
  <2>1. sess[s] = Fresh /\ active # s /\ Where(s) = "idle" /\ Calls(s) = {}
    BY <1>4, NoneAssumption DEF Init, Where
  <2>. QED BY <2>1 DEF Life, BeforeStart, Holding, Connecting, Streaming, Ending, Queued,
                       Fresh, Ended, Over, Told
<1>. QED BY <1>3, <1>4, <1>5 DEF IInv, Lives

-----------------------------------------------------------------------------
(* The kinds of steps *)

IdleMain == [pc |-> "idle", session |-> None]

\* The main thread stays, or goes to w for s.
MainGoes(s, w) ==
  \/ main' = main /\ w = Where(s)
  \/ /\ main.session \in {s, None}
     /\ \/ w = "idle" /\ main' = IdleMain
        \/ w \in Places \ {"idle"} /\ main' = [pc |-> w, session |-> s]

LEMMA MainIsTyped ==
  ASSUME Typed, NEW s \in Sessions, NEW w, MainGoes(s, w)
  PROVE  /\ main' \in [pc : Places,
                       session : Sessions \cup {None}]
         /\ main'.pc = "idle" <=> main'.session = None
         /\ Where(s)' = w /\ \A t \in Sessions \ {s} : Where(t)' = Where(t)
<1>1. CASE main' = main /\ w = Where(s)
  BY <1>1 DEF Typed, Where
<1>2. CASE main.session \in {s, None} /\ w = "idle" /\ main' = IdleMain
  BY <1>2, NoneAssumption DEF Typed, Where, IdleMain, Places
<1>3. CASE /\ main.session \in {s, None} /\ w \in Places \ {"idle"}
           /\ main' = [pc |-> w, session |-> s]
  BY <1>3, NoneAssumption DEF Typed, Where, Places
<1>. QED BY <1>1, <1>2, <1>3 DEF MainGoes

\* Only the fields of s change.
LEMMA QuietStep ==
  ASSUME IInv, NEW s \in Sessions, NEW r \in FieldsType, NEW w,
         sess' = [sess EXCEPT ![s] = r], MainGoes(s, w),
         UNCHANGED <<scene, active, semaphore, queue>>,
         Life(scene, r, active = s, w, Calls(s))
  PROVE  IInv'
<1>1. \A t \in Sessions : Calls(t)' = Calls(t)
  BY DEF Calls
<1>2. /\ main' \in [pc : Places,
                     session : Sessions \cup {None}]
      /\ main'.pc = "idle" <=> main'.session = None
      /\ Where(s)' = w /\ \A t \in Sessions \ {s} : Where(t)' = Where(t)
  BY MainIsTyped DEF IInv
<1>3. sess' \in [Sessions -> FieldsType] /\ Lives'
  BY <1>2, <1>1, OneMoves DEF IInv
<1>4. Once' /\ ReadyLast'
  BY DEF IInv, Once, ReadyLast
<1>5. Typed'
  BY <1>2, <1>3 DEF IInv, Typed
<1>. QED BY <1>3, <1>4, <1>5 DEF IInv

\* ... and a call is queued for it,
LEMMA PostingStep ==
  ASSUME IInv, NEW s \in Sessions, NEW r \in FieldsType, NEW k \in Kinds,
         sess' = [sess EXCEPT ![s] = r], Post(k, s),
         UNCHANGED <<scene, active, semaphore, main>>,
         k \notin Calls(s), "ready" \notin Calls(s),
         Life(scene, r, active = s, Where(s), Calls(s) \cup {k})
  PROVE  IInv'
<1>1. /\ queue' \in Seq(Events) /\ Once' /\ ReadyLast'
      /\ Calls(s)' = Calls(s) \cup {k}
      /\ \A t \in Sessions \ {s} : Calls(t)' = Calls(t)
  BY PostAddsCall DEF IInv, Typed
<1>2. \A t \in Sessions : Where(t)' = Where(t)
  BY DEF Where
<1>3. sess' \in [Sessions -> FieldsType] /\ Lives'
  BY <1>1, <1>2, OneMoves DEF IInv
<1>4. Typed'
  BY <1>1, <1>3 DEF IInv, Typed
<1>. QED BY <1>1, <1>3, <1>4 DEF IInv

\* ... or taken.
LEMMA TakingStep ==
  ASSUME IInv, NEW s \in Sessions, NEW r \in FieldsType, NEW k \in Kinds, NEW w,
         sess' = [sess EXCEPT ![s] = r], Take(k, s), MainGoes(s, w),
         UNCHANGED <<scene, active, semaphore>>,
         Life(scene, r, active = s, w, Calls(s) \ {k})
  PROVE  IInv'
<1>1. /\ queue' \in Seq(Events) /\ Once' /\ ReadyLast'
      /\ Calls(s)' = Calls(s) \ {k}
      /\ \A t \in Sessions \ {s} : Calls(t)' = Calls(t)
  BY TakeRemovesCall DEF IInv, Typed, Take
<1>2. sess' \in [Sessions -> FieldsType] /\ Lives'
  BY <1>1, MainIsTyped, OneMoves DEF IInv
<1>3. Typed'
  BY <1>1, <1>2, MainIsTyped DEF IInv, Typed
<1>. QED BY <1>1, <1>2, <1>3 DEF IInv

\* The facts an action starts from.
LEMMA LifeOf ==
  ASSUME IInv, NEW s \in Sessions
  PROVE  /\ sess[s] \in FieldsType
         /\ Life(scene, sess[s], active = s, Where(s), Calls(s))
         /\ scene \in BOOLEAN /\ s # None
  BY NoneAssumption DEF IInv, Typed, Lives

LEMMA WhereAt ==
  ASSUME NEW s \in Sessions
  PROVE  /\ Idle(s) => Where(s) = "idle" /\ main.session = None /\ main = IdleMain
         /\ \A pc : At(pc, s) => Where(s) = pc /\ main.session = s
         /\ \A k : Take(k, s) => Idle(s)
  BY NoneAssumption DEF Idle, At, Take, Where, IdleMain

LEMMA TakenCall ==
  ASSUME IInv, NEW s \in Sessions, NEW k \in Kinds, Take(k, s)
  PROVE  k \in Calls(s) /\ (k = "ready" => Calls(s) = {"ready"})
  BY TakeRemovesCall DEF IInv, Typed, Take

-----------------------------------------------------------------------------
(* Starting a session *)

LEMMA InitializeKeeps ==
  ASSUME IInv, NEW s \in Sessions, Initialize(s) \/ StartTimer(s)
  PROVE  IInv'
<1>. DEFINE r == [sess[s] EXCEPT !.page = "initialized"]
            w == IF scene \/ StartTimer(s) THEN "acquire" ELSE "idle"
<1>1. /\ sess[s] \in FieldsType
      /\ BeforeStart(sess[s], active = s, Where(s), Calls(s))
      /\ sess[s].page \in {"new", "initialized"} /\ Idle(s)
  BY LifeOf DEF Life, Initialize, StartTimer
<1>2. r \in FieldsType /\ r.page = "initialized"
      /\ sess' = [sess EXCEPT ![s] = r]
      /\ UNCHANGED <<scene, active, semaphore, queue>>
  <2>1. CASE Initialize(s)
    BY <1>1, <2>1 DEF Initialize, FieldsType, Pages, IInv, Typed
  <2>2. CASE StartTimer(s)
    <3>1. r = sess[s]
      BY <1>1, <2>2 DEF StartTimer, FieldsType
    <3>. QED BY <1>1, <2>2, <3>1 DEF StartTimer, IInv, Typed
  <2>. QED BY <2>1, <2>2
<1>3. MainGoes(s, w)
  BY <1>1, WhereAt DEF MainGoes, Initialize, StartTimer, IdleMain, Places
<1>4. /\ r.conn = "none" /\ r.link = "none" /\ ~r.success /\ r.terminated = "no"
      /\ ~r.streaming /\ ~r.cleaned /\ r.decoder = "none" /\ ~r.input /\ ~Ended(r)
      /\ active # s /\ Calls(s) = {} /\ w \in {"idle", "acquire"}
  BY <1>1 DEF BeforeStart, FieldsType, Ended
<1>5. Life(scene, r, active = s, w, Calls(s))
  <2>. HIDE DEF r, w
  <2>. QED BY <1>2, <1>4 DEF Life, BeforeStart, Holding, Connecting, Streaming, Ending,
                             Queued, Over, Told
<1>. HIDE DEF r, w
<1>. QED BY <1>2, <1>3, <1>5, QuietStep

LEMMA StartKeeps ==
  ASSUME IInv, NEW s \in Sessions, Start(s)
  PROVE  IInv'
<1>. DEFINE r == [sess[s] EXCEPT !.page = "open", !.input = TRUE, !.conn = "starting"]
<1>1. /\ sess[s] \in FieldsType /\ Where(s) = "acquire" /\ main.session = s
      /\ Life(scene, sess[s], active = s, Where(s), Calls(s))
  BY LifeOf, WhereAt DEF Start
<1>2. sess[s].page \in {"new", "initialized"}
  BY <1>1 DEF Life, Holding, FieldsType, Pages
<1>3. /\ r \in FieldsType /\ sess' = [sess EXCEPT ![s] = r] /\ scene' = scene
      /\ active' = s /\ UNCHANGED queue
  BY <1>1 DEF Start, FieldsType, Pages
<1>4. active = None /\ semaphore' = 0
  BY DEF Start, IInv, Typed
<1>5. MainGoes(s, "idle")
  BY <1>1 DEF MainGoes, Start, Return, IdleMain
<1>6. \A t \in Sessions : Calls(t)' = Calls(t)
  BY <1>3 DEF Calls
<1>7. /\ r.conn = "starting" /\ r.link = "none" /\ ~r.success /\ r.terminated = "no"
      /\ ~r.streaming /\ ~r.cleaned /\ r.decoder = "none" /\ r.input /\ ~Ended(r)
      /\ r.page = "open" /\ Calls(s) = {}
  BY <1>1, <1>2 DEF Life, BeforeStart, FieldsType, Ended
<1>. HIDE DEF r
<1>8. Life(scene, r, TRUE, "idle", Calls(s))
  BY <1>7 DEF Life, BeforeStart, Holding, Connecting, Streaming, Ending, Queued, Over, Told
<1>9. Where(s)' = "idle" /\ \A t \in Sessions \ {s} : Where(t)' = Where(t)
  BY <1>5, MainIsTyped DEF IInv
<1>10. (active' = s) = TRUE /\ \A t \in Sessions \ {s} : (active' = t) = (active = t)
  BY <1>3, <1>4, NoneAssumption
<1>11. Life(scene, r, active' = s, Where(s)', Calls(s)')
  BY <1>9, <1>10, <1>6, <1>8
<1>12. sess' \in [Sessions -> FieldsType] /\ Lives'
  BY <1>9, <1>10, <1>11, <1>3, <1>6, OneMoves DEF IInv
<1>13. Typed' /\ Once' /\ ReadyLast'
  BY <1>3, <1>4, <1>5, <1>12, MainIsTyped, NoneAssumption
  DEF IInv, Typed, Once, ReadyLast
<1>. QED BY <1>12, <1>13 DEF IInv

-----------------------------------------------------------------------------
(* The connection *)

\* A session that holds the semaphore and was not ended shows its page.
LEMMA NotEndedIsOpen ==
  ASSUME IInv, NEW s \in Sessions, ~Ended(sess[s]),
         sess[s].conn # "none" \/ Calls(s) # {} \/ active = s
  PROVE  /\ sess[s].page = "open" /\ (active = s) = TRUE
         /\ "ready" \notin Calls(s) /\ "finished" \notin Calls(s)
  BY LifeOf DEF Life, BeforeStart, Holding, Ending, Queued, Told, Over, FieldsType, Pages

LEMMA ConnectionKeeps ==
  ASSUME IInv, NEW s \in Sessions,
         ConnectionFailed(s) \/ ConnectionUp(s) \/ ConnectionReturned(s)
  PROVE  IInv'
<1>1. /\ sess[s] \in FieldsType
      /\ Life(scene, sess[s], active = s, Where(s), Calls(s))
      /\ sess[s].conn \in {"starting", "connected"}
  BY LifeOf DEF ConnectionFailed, ConnectionUp, ConnectionReturned
<1>2. /\ ~Ended(sess[s]) /\ "exec" \notin Calls(s) /\ Where(s) = "idle"
      /\ ~sess[s].streaming /\ ~sess[s].success
  BY <1>1 DEF Life, Connecting
<1>3. /\ sess[s].page = "open" /\ (active = s) = TRUE
      /\ "ready" \notin Calls(s) /\ "finished" \notin Calls(s)
  BY <1>1, <1>2, NotEndedIsOpen
<1>4. CASE ConnectionFailed(s)
  <2>. DEFINE r == [sess[s] EXCEPT !.conn = "finished"]
  <2>1. /\ r \in FieldsType /\ sess' = [sess EXCEPT ![s] = r] /\ Post("exec", s)
        /\ UNCHANGED <<scene, active, semaphore, main>>
    BY <1>1, <1>4 DEF ConnectionFailed, PostExec, FieldsType
  <2>2. Life(scene, r, active = s, Where(s), Calls(s) \cup {"exec"})
    BY <1>1, <1>2, <1>3, <1>4
    DEF ConnectionFailed, Life, BeforeStart, Holding, Connecting, Streaming, Ending,
        Queued, Over, Told, Ended, FieldsType
  <2>. QED BY <1>2, <1>3, <2>1, <2>2, PostingStep DEF Kinds
<1>5. CASE ConnectionUp(s)
  <2>. DEFINE r == [sess[s] EXCEPT !.conn = "connected", !.link = "up"]
  <2>1. /\ r \in FieldsType /\ sess' = [sess EXCEPT ![s] = r]
        /\ UNCHANGED <<scene, active, semaphore, main, queue>>
    BY <1>1, <1>5 DEF ConnectionUp, FieldsType
  <2>2. Life(scene, r, active = s, Where(s), Calls(s))
    BY <1>1, <1>2, <1>3, <1>5
    DEF ConnectionUp, Life, BeforeStart, Holding, Connecting, Streaming, Ending,
        Queued, Over, Told, Ended, FieldsType
  <2>. QED BY <2>1, <2>2, QuietStep DEF MainGoes
<1>6. CASE ConnectionReturned(s)
  <2>. DEFINE r == [sess[s] EXCEPT !.conn = "finished", !.success = TRUE]
  <2>1. /\ r \in FieldsType /\ sess' = [sess EXCEPT ![s] = r] /\ Post("exec", s)
        /\ UNCHANGED <<scene, active, semaphore, main>>
    BY <1>1, <1>6 DEF ConnectionReturned, PostExec, FieldsType
  <2>2. Life(scene, r, active = s, Where(s), Calls(s) \cup {"exec"})
    BY <1>1, <1>2, <1>3, <1>6
    DEF ConnectionReturned, Life, BeforeStart, Holding, Connecting, Streaming, Ending,
        Queued, Over, Told, Ended, FieldsType
  <2>. QED BY <1>2, <1>3, <2>1, <2>2, PostingStep DEF Kinds
<1>. QED BY <1>4, <1>5, <1>6

\* The host ends the connection.
LEMMA TerminationKeeps ==
  ASSUME IInv, NEW s \in Sessions, ClConnectionTerminated(s)
  PROVE  IInv'
<1>1. /\ sess[s] \in FieldsType /\ scene \in BOOLEAN
      /\ Life(scene, sess[s], active = s, Where(s), Calls(s))
      /\ sess[s].link = "up" /\ sess[s].terminated = "no"
  BY LifeOf DEF ClConnectionTerminated
<1>2. PICK code \in {"graceful", "error"} :
        sess' = [sess EXCEPT ![s].terminated = code,
                             ![s].unexpected = @ \/ code = "error"]
  BY DEF ClConnectionTerminated
<1>. DEFINE r == [sess[s] EXCEPT !.terminated = code,
                                 !.unexpected = @ \/ code = "error"]
<1>3. r \in FieldsType /\ sess' = [sess EXCEPT ![s] = r]
  BY <1>1, <1>2 DEF FieldsType, IInv, Typed
<1>4. "terminated" \notin Calls(s) /\ "ready" \notin Calls(s)
  BY <1>1 DEF Life, Connecting, Queued, Over
<1>5. /\ \A f \in {"page", "conn", "link", "success", "streaming", "cleaned", "decoder",
                  "input", "tasks"} : r[f] = sess[s][f]
      /\ r.terminated = code
  BY <1>1 DEF FieldsType
<1>. HIDE DEF r
<1>6. /\ Life(scene, r, active = s, Where(s), Calls(s))
      /\ scene => Life(scene, r, active = s, Where(s), Calls(s) \cup {"terminated"})
  <2>1. sess[s].page \in {"open", "popped"}
    BY <1>1 DEF Life, BeforeStart, FieldsType, Pages
  <2>. QED BY <1>1, <1>2, <1>4, <1>5, <2>1
       DEF Life, BeforeStart, Holding, Connecting, Streaming, Ending, Queued, Over, Told,
           Ended
<1>7. CASE scene /\ Post("terminated", s)
  BY <1>3, <1>4, <1>6, <1>7, PostingStep DEF ClConnectionTerminated, Kinds
<1>8. CASE UNCHANGED queue
  BY <1>3, <1>6, <1>8, QuietStep DEF ClConnectionTerminated, MainGoes
<1>. QED BY <1>7, <1>8 DEF ClConnectionTerminated

-----------------------------------------------------------------------------
(* The end of a stream *)

\* stopSession() begins the cleanup of a stream that runs, and of no other.
StreamRuns(q) == q.streaming /\ ~q.cleaned

LEMMA StreamMayEnd ==
  ASSUME NEW sc \in BOOLEAN, NEW q \in FieldsType, NEW holds, NEW where, NEW calls,
         Life(sc, q, holds, where, calls), StreamRuns(q)
  PROVE  /\ MayEnd(sc, [q EXCEPT !.cleaned = TRUE], calls)
         /\ holds /\ sc /\ ~Ended(q) /\ q.page = "open"
<1>1. /\ ~Ended(q) /\ q.success /\ sc /\ q.conn = "finished" /\ q.link # "none"
      /\ "exec" \notin calls
  BY DEF Life, Streaming, StreamRuns, Connecting
<1>2. q.page = "open" /\ holds
  BY <1>1 DEF Life, BeforeStart, Holding, Ending, Told, Over, FieldsType, Pages
<1>3. "finished" \notin calls /\ "ready" \notin calls
  BY <1>1 DEF Life, Queued, Told, Over
<1>4. "terminated" \in calls => q.terminated # "no"
  BY DEF Life, Queued
<1>. DEFINE c == [q EXCEPT !.cleaned = TRUE]
<1>5. /\ c \in FieldsType /\ c.cleaned /\ c.page = q.page /\ c.tasks = q.tasks
      /\ c.conn = q.conn /\ c.link = q.link /\ c.success = q.success
      /\ c.streaming = q.streaming /\ c.terminated = q.terminated
  BY DEF FieldsType
<1>. HIDE DEF c
<1>6. MayEnd(sc, c, calls)
  BY <1>1, <1>2, <1>3, <1>4, <1>5 DEF MayEnd, Ended
<1>. QED BY <1>1, <1>2, <1>6 DEF c

\* What the tests of stopSession() lead to.
LEMMA StopSessionLife ==
  ASSUME Typed, NEW s \in Sessions, NEW where \in {"idle", "creating", "recreating"},
         NEW calls, Life(scene, sess[s], active = s, where, calls), Where(s) = where,
         sess[s].page \in {"open", "popped"}, main.session \in {s, None}, StopSession(s)
  PROVE  \E r \in FieldsType : \E w :
           /\ sess' = [sess EXCEPT ![s] = r] /\ MainGoes(s, w)
           /\ Life(scene, r, active = s, w, calls)
<1>. scene \in BOOLEAN /\ sess[s] \in FieldsType /\ sess = [sess EXCEPT ![s] = sess[s]]
  BY DEF Typed
<1>1. CASE StreamRuns(sess[s])
  <2>1. UNCHANGED sess /\ MainGoes(s, "stopping")
    BY <1>1 DEF StopSession, StreamRuns, CleanupBegun, MainGoes, Places
  <2>2. scene /\ ~Ended(sess[s]) /\ sess[s].page = "open" /\ sess[s].success
    BY <1>1, StreamMayEnd DEF Life, Streaming, StreamRuns
  <2>3. Life(scene, sess[s], active = s, "stopping", calls)
    BY <1>1, <2>2
    DEF Life, BeforeStart, Holding, Connecting, Streaming, Ending, Queued, StreamRuns
  <2>. QED BY <2>1, <2>3
<1>2. CASE ~StreamRuns(sess[s])
  <2>1. where = "idle"
    BY <1>2 DEF Life, Streaming, StreamRuns
  <2>. DEFINE r == [sess[s] EXCEPT !.interrupted = TRUE]
  <2>2. \/ sess' = [sess EXCEPT ![s] = sess[s]]
        \/ sess' = [sess EXCEPT ![s] = r]
    BY <1>2 DEF StopSession, StreamRuns, CleanupBegun, Typed
  <2>3. MainGoes(s, "idle")
    BY <1>2, <2>1 DEF StopSession, StreamRuns, CleanupBegun, Return, MainGoes, IdleMain
  <2>4. /\ r \in FieldsType
        /\ \A f \in {"page", "conn", "link", "success", "terminated", "streaming",
                     "cleaned", "decoder", "input", "tasks"} : r[f] = sess[s][f]
    BY DEF FieldsType
  <2>. HIDE DEF r
  <2>5. Life(scene, r, active = s, "idle", calls)
    BY <2>1, <2>4
    DEF Life, BeforeStart, Holding, Connecting, Streaming, Ending, Queued, Over, Told, Ended
  <2>. QED BY <2>1, <2>2, <2>3, <2>4, <2>5
<1>. QED BY <1>1, <1>2

LEMMA UserStopKeeps ==
  ASSUME IInv, NEW s \in Sessions, UserStop(s)
  PROVE  IInv'
<1>1. /\ sess[s] \in FieldsType /\ Where(s) = "idle" /\ main.session = None
      /\ Life(scene, sess[s], active = s, "idle", Calls(s))
  BY LifeOf, WhereAt DEF UserStop
<1>2. UNCHANGED <<scene, active, semaphore, queue>>
  BY DEF UserStop
<1>3. PICK r \in FieldsType : \E w :
         /\ sess' = [sess EXCEPT ![s] = r] /\ MainGoes(s, w)
         /\ Life(scene, r, active = s, w, Calls(s))
  BY <1>1, StopSessionLife DEF UserStop, IInv
<1>. QED BY <1>2, <1>3, QuietStep

\* ... and the cleanup that follows.
LEMMA StopStreamKeeps ==
  ASSUME IInv, NEW s \in Sessions, StopStream(s)
  PROVE  IInv'
<1>. DEFINE r == Dispatch(Torn([sess[s] EXCEPT !.cleaned = TRUE]))
<1>1. /\ sess[s] \in FieldsType /\ Where(s) = "stopping" /\ main.session = s
      /\ Life(scene, sess[s], active = s, "stopping", Calls(s)) /\ scene \in BOOLEAN
  BY LifeOf, WhereAt DEF StopStream
<1>2. StreamRuns(sess[s])
  BY <1>1 DEF Life, Streaming, StreamRuns
<1>3. MayEnd(scene, [sess[s] EXCEPT !.cleaned = TRUE], Calls(s)) /\ (active = s) = TRUE
  BY <1>1, <1>2, StreamMayEnd
<1>4. r \in FieldsType /\ Life(scene, r, active = s, "idle", Calls(s))
  BY <1>1, <1>3, CleanupLife
<1>5. sess' = [sess EXCEPT ![s] = r]
  BY DEF StopStream, EndStream
<1>6. MainGoes(s, "idle") /\ UNCHANGED <<scene, active, semaphore, queue>>
  BY <1>1 DEF StopStream, MainGoes, Return, IdleMain
<1>. HIDE DEF r
<1>. QED BY <1>4, <1>5, <1>6, QuietStep

\* exec() without a connection.
LEMMA ExecFailedKeeps ==
  ASSUME IInv, NEW s \in Sessions, ExecFailed(s)
  PROVE  IInv'
<1>. DEFINE c == [sess[s] EXCEPT !.cleaned = @ \/ scene]
            r == Dispatch(Torn(c))
            calls == Calls(s) \ {"exec"}
<1>1. /\ sess[s] \in FieldsType /\ Where(s) = "idle" /\ scene \in BOOLEAN
      /\ Life(scene, sess[s], active = s, "idle", Calls(s))
      /\ "exec" \in Calls(s)
  BY LifeOf, WhereAt, TakenCall DEF ExecFailed, Kinds
<1>2. /\ ~Ended(sess[s]) /\ sess[s].conn = "finished" /\ ~sess[s].streaming
  BY <1>1 DEF Life, Connecting
<1>3. /\ sess[s].page = "open" /\ (active = s) = TRUE
      /\ "ready" \notin Calls(s) /\ "finished" \notin Calls(s)
  BY <1>1, <1>2, NotEndedIsOpen
<1>4. /\ c \in FieldsType /\ (scene => c.cleaned)
      /\ \A f \in {"page", "conn", "link", "success", "terminated", "streaming",
                   "tasks"} : c[f] = sess[s][f]
  BY <1>1 DEF FieldsType
<1>5. MayEnd(scene, c, calls)
  <2>. HIDE DEF c
  <2>. QED BY <1>1, <1>2, <1>3, <1>4 DEF MayEnd, Ended, ExecFailed, Life, Queued
<1>6. r \in FieldsType /\ Life(scene, r, TRUE, "idle", calls)
  BY <1>1, <1>5, CleanupLife
<1>7. Take("exec", s) /\ MainGoes(s, "idle") /\ UNCHANGED <<scene, active, semaphore>>
  BY <1>1 DEF ExecFailed, MainGoes
<1>8. sess' = [sess EXCEPT ![s] = r]
  BY DEF ExecFailed, IInv, Typed
<1>. HIDE DEF c, r
<1>9. Life(scene, r, active = s, "idle", calls)
  BY <1>3, <1>6
<1>. QED BY <1>6, <1>7, <1>9, <1>8, TakingStep DEF Kinds

\* exec() in scene mode.
LEMMA ExecSceneKeeps ==
  ASSUME IInv, NEW s \in Sessions, ExecScene(s)
  PROVE  IInv'
<1>. DEFINE r == [sess[s] EXCEPT !.streaming = TRUE]
            calls == Calls(s) \ {"exec"}
<1>1. /\ sess[s] \in FieldsType /\ Where(s) = "idle" /\ main.session = None
      /\ Life(scene, sess[s], active = s, "idle", Calls(s))
      /\ "exec" \in Calls(s) /\ scene /\ sess[s].success
  BY LifeOf, WhereAt, TakenCall DEF ExecScene, Kinds
<1>2. /\ ~Ended(sess[s]) /\ sess[s].conn = "finished" /\ ~sess[s].streaming
      /\ ~sess[s].cleaned /\ sess[s].decoder = "none"
  BY <1>1 DEF Life, Connecting, Streaming
<1>3. /\ sess[s].page = "open" /\ (active = s) = TRUE
      /\ "ready" \notin Calls(s) /\ "finished" \notin Calls(s)
  BY <1>1, <1>2, NotEndedIsOpen
<1>4. r \in FieldsType /\ sess' = [sess EXCEPT ![s] = r]
  BY <1>1, <1>2 DEF ExecScene, FieldsType, IInv, Typed
<1>5. Life(scene, r, active = s, "creating", calls)
  BY <1>1, <1>2, <1>3
  DEF Life, BeforeStart, Holding, Connecting, Streaming, Ending, Queued, Over, Told,
        Ended, FieldsType, Pages
<1>6. MainGoes(s, "creating") /\ Take("exec", s) /\ UNCHANGED <<scene, active, semaphore>>
  BY <1>1, <1>2 DEF ExecScene, MainGoes, Places
<1>. HIDE DEF r
<1>. QED BY <1>4, <1>5, <1>6, TakingStep DEF Kinds

LEMMA ExecSceneDecoderKeeps ==
  ASSUME IInv, NEW s \in Sessions, ExecSceneDecoder(s)
  PROVE  IInv'
<1>1. /\ sess[s] \in FieldsType /\ Where(s) = "creating" /\ main.session = s
      /\ Life(scene, sess[s], active = s, "creating", Calls(s))
  BY LifeOf, WhereAt DEF ExecSceneDecoder
<1>2. UNCHANGED <<scene, active, semaphore, queue>>
  BY DEF ExecSceneDecoder
<1>3. /\ scene /\ sess[s].streaming /\ ~sess[s].cleaned /\ sess[s].page = "open"
      /\ ~Ended(sess[s]) /\ "exec" \notin Calls(s) /\ sess[s].success /\ sess[s].input
      /\ sess[s].conn = "finished" /\ "reset" \notin Calls(s)
  BY <1>1 DEF Life, Streaming, Connecting, Ending, Queued
<1>4. CASE StopSession(s)
  <2>1. PICK r \in FieldsType : \E w :
           /\ sess' = [sess EXCEPT ![s] = r] /\ MainGoes(s, w)
           /\ Life(scene, r, active = s, w, Calls(s))
    BY <1>1, <1>3, <1>4, StopSessionLife DEF IInv
  <2>. QED BY <1>2, <2>1, QuietStep
<1>5. CASE sess' = [sess EXCEPT ![s].decoder = "ok", ![s].unexpected = FALSE] /\ Return
  <2>. DEFINE r == [sess[s] EXCEPT !.decoder = "ok", !.unexpected = FALSE]
  <2>1. r \in FieldsType /\ sess' = [sess EXCEPT ![s] = r]
    BY <1>1, <1>5 DEF FieldsType, IInv, Typed
  <2>2. Life(scene, r, active = s, "idle", Calls(s))
    BY <1>1, <1>3
    DEF Life, BeforeStart, Holding, Connecting, Streaming, Ending, Queued, Over, Told,
        Ended, FieldsType, Pages
  <2>3. MainGoes(s, "idle")
    BY <1>1, <1>5 DEF MainGoes, Return, IdleMain
  <2>. HIDE DEF r
  <2>. QED BY <1>2, <2>1, <2>2, <2>3, QuietStep
<1>. QED BY <1>4, <1>5 DEF ExecSceneDecoder

\* exec() with a window, which may not come to be.
LEMMA ExecWindowKeeps ==
  ASSUME IInv, NEW s \in Sessions, ExecWindow(s)
  PROVE  IInv'
<1>. DEFINE calls == Calls(s) \ {"exec"}
<1>1. /\ sess[s] \in FieldsType /\ Where(s) = "idle" /\ main.session = None
      /\ Life(scene, sess[s], active = s, "idle", Calls(s))
      /\ "exec" \in Calls(s) /\ scene = FALSE /\ sess[s].success
      /\ Take("exec", s) /\ UNCHANGED <<scene, active, semaphore>>
  BY LifeOf, WhereAt, TakenCall DEF ExecWindow, Kinds
<1>2. /\ ~Ended(sess[s]) /\ sess[s].conn = "finished" /\ ~sess[s].streaming
      /\ sess[s].decoder = "none"
  BY <1>1 DEF Life, Connecting, Streaming
<1>3. /\ sess[s].page = "open" /\ (active = s) = TRUE
      /\ "ready" \notin Calls(s) /\ "finished" \notin Calls(s)
  BY <1>1, <1>2, NotEndedIsOpen
<1>4. CASE sess' = [sess EXCEPT ![s].unexpected = FALSE]
           /\ main' = [pc |-> "loop", session |-> s]
  <2>. DEFINE r == [sess[s] EXCEPT !.unexpected = FALSE]
  <2>1. r \in FieldsType /\ sess' = [sess EXCEPT ![s] = r]
    BY <1>1, <1>4 DEF FieldsType, IInv, Typed
  <2>2. Life(scene, r, active = s, "loop", calls)
    BY <1>1, <1>2, <1>3
    DEF Life, BeforeStart, Holding, Connecting, Streaming, Ending, Queued, Over, Told,
        Ended, FieldsType, Pages
  <2>3. MainGoes(s, "loop")
    BY <1>1, <1>4 DEF MainGoes, Places
  <2>. HIDE DEF r
  <2>. QED BY <1>1, <2>1, <2>2, <2>3, TakingStep DEF Kinds
<1>5. CASE sess' = [sess EXCEPT ![s] = Dispatch(Torn(@))] /\ main' = main
  <2>. DEFINE r == Dispatch(Torn(sess[s]))
  <2>1. MayEnd(scene, sess[s], calls)
    BY <1>1, <1>2, <1>3 DEF MayEnd, Ended, Life, Queued, Connecting
  <2>2. r \in FieldsType /\ Life(scene, r, active = s, "idle", calls)
    BY <1>1, <1>3, <2>1, CleanupLife
  <2>3. sess' = [sess EXCEPT ![s] = r] /\ MainGoes(s, "idle")
    BY <1>1, <1>5 DEF MainGoes, IInv, Typed
  <2>. HIDE DEF r
  <2>. QED BY <1>1, <2>2, <2>3, TakingStep DEF Kinds
<1>. QED BY <1>4, <1>5 DEF ExecWindow

\* Terminations and resets that come through the queue.
LEMMA HandleTerminationKeeps ==
  ASSUME IInv, NEW s \in Sessions, HandleSceneConnectionTermination(s)
  PROVE  IInv'
<1>. DEFINE calls == Calls(s) \ {"terminated"}
<1>1. /\ sess[s] \in FieldsType /\ Where(s) = "idle" /\ main.session = None
      /\ Life(scene, sess[s], active = s, "idle", Calls(s))
      /\ "terminated" \in Calls(s)
  BY LifeOf, WhereAt, TakenCall DEF HandleSceneConnectionTermination, Kinds
<1>2. sess[s].page \in {"open", "popped"}
  BY <1>1 DEF Life, BeforeStart, FieldsType, Pages
<1>3. Life(scene, sess[s], active = s, "idle", calls)
  BY <1>1, <1>2 DEF Life, BeforeStart, Holding, Connecting, Streaming, Ending, Queued
<1>4. PICK r \in FieldsType : \E w :
         /\ sess' = [sess EXCEPT ![s] = r] /\ MainGoes(s, w)
         /\ Life(scene, r, active = s, w, calls)
  BY <1>1, <1>2, <1>3, StopSessionLife DEF HandleSceneConnectionTermination, IInv
<1>5. Take("terminated", s) /\ UNCHANGED <<scene, active, semaphore>>
  BY DEF HandleSceneConnectionTermination
<1>. QED BY <1>4, <1>5, TakingStep DEF Kinds

LEMMA HandleResetKeeps ==
  ASSUME IInv, NEW s \in Sessions, HandleSceneDecoderReset(s)
  PROVE  IInv'
<1>. DEFINE calls == Calls(s) \ {"reset"}
            w == IF sess[s].cleaned THEN "idle" ELSE "resetting"
<1>1. /\ sess[s] \in FieldsType /\ Where(s) = "idle" /\ main.session = None
      /\ Life(scene, sess[s], active = s, "idle", Calls(s)) /\ sess[s].cleaned \in BOOLEAN
      /\ "reset" \in Calls(s)
  BY LifeOf, WhereAt, TakenCall DEF HandleSceneDecoderReset, Kinds, FieldsType
<1>2. sess[s].page \in {"open", "popped"}
  BY <1>1 DEF Life, BeforeStart, FieldsType, Pages
<1>3. /\ Take("reset", s) /\ UNCHANGED <<scene, active, semaphore>>
      /\ sess' = [sess EXCEPT ![s] = sess[s]]
  BY DEF HandleSceneDecoderReset, IInv, Typed
<1>4. MainGoes(s, w)
  BY <1>1 DEF HandleSceneDecoderReset, ResetStillWanted, MainGoes, Places
<1>5. Life(scene, sess[s], active = s, w, calls)
  <2>1. CASE sess[s].cleaned
    BY <1>1, <1>2, <2>1
    DEF Life, BeforeStart, Holding, Connecting, Streaming, Ending, Queued
  <2>2. CASE ~sess[s].cleaned
    <3>1. /\ scene /\ sess[s].decoder = "faulted" /\ ~Ended(sess[s]) /\ sess[s].success
          /\ sess[s].input /\ sess[s].streaming
      BY <1>1, <2>2 DEF Life, Queued, Streaming
    <3>2. sess[s].page = "open" /\ sess[s].conn = "finished" /\ "exec" \notin Calls(s)
      BY <1>1, <1>2, <3>1 DEF Life, Connecting, Ending, Told
    <3>. QED BY <1>1, <1>2, <2>2, <3>1, <3>2
         DEF Life, BeforeStart, Holding, Connecting, Streaming, Ending, Queued
  <2>. QED BY <1>1, <2>1, <2>2
<1>. HIDE DEF w
<1>. QED BY <1>1, <1>3, <1>4, <1>5, TakingStep DEF Kinds

LEMMA DeleteDecoderKeeps ==
  ASSUME IInv, NEW s \in Sessions, DeleteDecoder(s)
  PROVE  IInv'
<1>. DEFINE r == [sess[s] EXCEPT !.decoder = "none"]
<1>1. /\ sess[s] \in FieldsType /\ Where(s) = "resetting" /\ main.session = s
      /\ Life(scene, sess[s], active = s, "resetting", Calls(s))
  BY LifeOf, WhereAt DEF DeleteDecoder
<1>2. r \in FieldsType /\ sess' = [sess EXCEPT ![s] = r]
  BY <1>1 DEF DeleteDecoder, FieldsType, IInv, Typed
<1>3. Life(scene, r, active = s, "recreating", Calls(s))
  BY <1>1
  DEF Life, BeforeStart, Holding, Connecting, Streaming, Ending, Queued, Over, Told,
      Ended, FieldsType, Pages
<1>4. MainGoes(s, "recreating") /\ UNCHANGED <<scene, active, semaphore, queue>>
  BY <1>1 DEF DeleteDecoder, MainGoes, Places
<1>. HIDE DEF r
<1>. QED BY <1>2, <1>3, <1>4, QuietStep

LEMMA RecreateDecoderKeeps ==
  ASSUME IInv, NEW s \in Sessions, RecreateDecoder(s)
  PROVE  IInv'
<1>1. /\ sess[s] \in FieldsType /\ Where(s) = "recreating" /\ main.session = s
      /\ Life(scene, sess[s], active = s, "recreating", Calls(s))
  BY LifeOf, WhereAt DEF RecreateDecoder
<1>2. UNCHANGED <<scene, active, semaphore, queue>>
  BY DEF RecreateDecoder
<1>3. /\ scene /\ sess[s].streaming /\ ~sess[s].cleaned /\ sess[s].page = "open"
      /\ ~Ended(sess[s]) /\ "exec" \notin Calls(s) /\ sess[s].success /\ sess[s].input
      /\ sess[s].conn = "finished" /\ "reset" \notin Calls(s)
  BY <1>1 DEF Life, Streaming, Connecting, Ending, Queued
<1>4. CASE StopSession(s)
  <2>1. PICK r \in FieldsType : \E w :
           /\ sess' = [sess EXCEPT ![s] = r] /\ MainGoes(s, w)
           /\ Life(scene, r, active = s, w, Calls(s))
    BY <1>1, <1>3, <1>4, StopSessionLife DEF IInv
  <2>. QED BY <1>2, <2>1, QuietStep
<1>5. CASE sess' = [sess EXCEPT ![s].decoder = "ok"] /\ Return
  <2>. DEFINE r == [sess[s] EXCEPT !.decoder = "ok"]
  <2>1. r \in FieldsType /\ sess' = [sess EXCEPT ![s] = r]
    BY <1>1, <1>5 DEF FieldsType, IInv, Typed
  <2>2. Life(scene, r, active = s, "idle", Calls(s))
    BY <1>1, <1>3
    DEF Life, BeforeStart, Holding, Connecting, Streaming, Ending, Queued, Over, Told,
        Ended, FieldsType, Pages
  <2>3. MainGoes(s, "idle")
    BY <1>1, <1>5 DEF MainGoes, Return, IdleMain
  <2>. HIDE DEF r
  <2>. QED BY <1>2, <2>1, <2>2, <2>3, QuietStep
<1>. QED BY <1>4, <1>5 DEF RecreateDecoder

-----------------------------------------------------------------------------
(* The page is told *)

LEMMA FinishedKeeps ==
  ASSUME IInv, NEW s \in Sessions, SessionFinished(s)
  PROVE  IInv'
<1>. DEFINE calls == Calls(s) \ {"finished"}
            r == [sess[s] EXCEPT !.page = "popped"]
<1>1. /\ sess[s] \in FieldsType /\ Where(s) = "idle"
      /\ Life(scene, sess[s], active = s, "idle", Calls(s))
      /\ "finished" \in Calls(s)
  BY LifeOf, WhereAt, TakenCall DEF SessionFinished, Kinds
<1>2. sess[s].page = "open" /\ Told(sess[s]) /\ Ended(sess[s])
  BY <1>1 DEF Life, Queued, Told
<1>3. r \in FieldsType /\ sess' = [sess EXCEPT ![s] = r]
  BY <1>1 DEF SessionFinished, FieldsType, Pages, IInv, Typed
<1>4. Life(scene, r, active = s, "idle", calls)
  BY <1>1, <1>2
  DEF Life, BeforeStart, Holding, Connecting, Streaming, Ending, Queued, Over, Told,
        Ended, FieldsType, Pages
<1>5. MainGoes(s, "idle") /\ Take("finished", s) /\ UNCHANGED <<scene, active, semaphore>>
  BY <1>1 DEF SessionFinished, MainGoes
<1>. HIDE DEF r
<1>. QED BY <1>3, <1>4, <1>5, TakingStep DEF Kinds

\* The last call of a session: after it nothing is queued for it.
LEMMA ReadyKeeps ==
  ASSUME IInv, NEW s \in Sessions, SessionReadyForDeletion(s)
  PROVE  IInv' /\ sess[s].page = "popped"
<1>1. /\ sess[s] \in FieldsType /\ Where(s) = "idle"
      /\ Life(scene, sess[s], active = s, "idle", Calls(s))
      /\ Calls(s) = {"ready"}
  BY LifeOf, WhereAt, TakenCall DEF SessionReadyForDeletion, Kinds
<1>2. /\ Over(sess[s]) /\ sess[s].page = "popped" /\ active # s
  <2>1. Over(sess[s]) /\ Told(sess[s]) /\ sess[s].page \in {"open", "popped"}
    BY <1>1 DEF Life, Queued, Over, Told, Ending, Ended
  <2>2. sess[s].page # "open"
    BY <1>1, <2>1 DEF Life, Queued
  <2>. QED BY <1>1, <2>1, <2>2 DEF Life, Holding
<1>3. Fresh \in FieldsType /\ sess' = [sess EXCEPT ![s] = Fresh]
  <2>1. <<>> \in Seq(Tasks)
    OBVIOUS
  <2>. QED BY <2>1 DEF SessionReadyForDeletion, Fresh, FieldsType, Pages
<1>4. Life(scene, Fresh, active = s, "idle", {})
  BY <1>2
  DEF Life, BeforeStart, Holding, Connecting, Streaming, Ending, Queued, Over, Told,
      Ended, Fresh
<1>5. /\ MainGoes(s, "idle") /\ Take("ready", s) /\ UNCHANGED <<scene, active, semaphore>>
      /\ Calls(s) \ {"ready"} = {}
  BY <1>1 DEF SessionReadyForDeletion, MainGoes
<1>. QED BY <1>2, <1>3, <1>4, <1>5, TakingStep DEF Kinds

-----------------------------------------------------------------------------
(* The SDL event loop *)

InLoop(s) == At("loop", s)

\* In the loop the session may be ended at any time.
LEMMA LoopMayEnd ==
  ASSUME IInv, NEW s \in Sessions, InLoop(s)
  PROVE  /\ sess[s] \in FieldsType /\ Where(s) = "loop" /\ main.session = s
         /\ Life(scene, sess[s], active = s, "loop", Calls(s))
         /\ MayEnd(scene, sess[s], Calls(s)) /\ (active = s) = TRUE
         /\ scene = FALSE /\ sess[s].input /\ sess[s].success
         /\ MainGoes(s, "idle") \/ ~Return
<1>1. /\ sess[s] \in FieldsType /\ Where(s) = "loop" /\ main.session = s
      /\ Life(scene, sess[s], active = s, "loop", Calls(s)) /\ scene \in BOOLEAN
  BY LifeOf, WhereAt DEF InLoop
<1>2. /\ scene = FALSE /\ ~Ended(sess[s]) /\ sess[s].success /\ sess[s].page = "open"
      /\ sess[s].conn = "finished" /\ sess[s].link # "none" /\ ~sess[s].streaming
      /\ "exec" \notin Calls(s) /\ sess[s].input
  BY <1>1 DEF Life, Streaming, Connecting, Ending
<1>3. (active = s) = TRUE /\ "ready" \notin Calls(s) /\ "finished" \notin Calls(s)
  BY <1>2, NotEndedIsOpen
<1>4. MayEnd(scene, sess[s], Calls(s))
  BY <1>1, <1>2, <1>3 DEF MayEnd, Life, Queued
<1>5. MainGoes(s, "idle") \/ ~Return
  BY <1>1 DEF MainGoes, Return, IdleMain
<1>. QED BY <1>1, <1>2, <1>3, <1>4, <1>5

\* Counting barriers and the decoder's replacement leave the life as it is.
LEMMA LoopFieldsKeep ==
  ASSUME IInv, NEW s \in Sessions, InLoop(s), NEW n \in Int, NEW b \in BOOLEAN,
         NEW d \in {sess[s].decoder, "ok"}
  PROVE  LET r == [sess[s] EXCEPT !.flushing = n, !.shouldExit = b, !.decoder = d]
         IN  r \in FieldsType /\ Life(scene, r, active = s, "loop", Calls(s))
<1>. DEFINE r == [sess[s] EXCEPT !.flushing = n, !.shouldExit = b, !.decoder = d]
<1>1. /\ sess[s] \in FieldsType /\ Where(s) = "loop"
      /\ Life(scene, sess[s], active = s, "loop", Calls(s))
      /\ scene = FALSE /\ sess[s].input /\ sess[s].success /\ MayEnd(scene, sess[s], Calls(s))
  BY LoopMayEnd
<1>2. r \in FieldsType
  BY <1>1 DEF FieldsType
<1>3. /\ r.page = sess[s].page /\ r.conn = sess[s].conn /\ r.link = sess[s].link
      /\ r.success = sess[s].success /\ r.terminated = sess[s].terminated
      /\ r.streaming = sess[s].streaming /\ r.cleaned = sess[s].cleaned
      /\ r.input = sess[s].input /\ r.tasks = sess[s].tasks
  BY <1>1 DEF FieldsType
<1>. HIDE DEF r
<1>4. Life(scene, r, active = s, "loop", Calls(s))
  BY <1>1, <1>3
  DEF MayEnd, Life, BeforeStart, Holding, Connecting, Streaming, Ending, Queued, Over,
      Told, Ended
<1>. QED BY <1>2, <1>4 DEF r

LEMMA LoopEndKeeps ==
  ASSUME IInv, NEW s \in Sessions, InLoop(s), NEW n \in Int, NEW q,
         DispatchDeferredCleanup(s, [sess[s] EXCEPT !.flushing = n], q),
         UNCHANGED <<scene, active, semaphore, queue>>
  PROVE  IInv'
<1>. DEFINE c == [sess[s] EXCEPT !.flushing = n]
            r == Dispatch(Torn(c))
<1>1. /\ sess[s] \in FieldsType /\ scene \in BOOLEAN
      /\ MayEnd(scene, sess[s], Calls(s)) /\ (active = s) = TRUE
      /\ MainGoes(s, "idle")
  BY LoopMayEnd, LifeOf DEF DispatchDeferredCleanup
<1>2. /\ c \in FieldsType /\ c.page = sess[s].page /\ c.conn = sess[s].conn
      /\ c.link = sess[s].link /\ c.success = sess[s].success
      /\ c.terminated = sess[s].terminated /\ c.streaming = sess[s].streaming
      /\ c.cleaned = sess[s].cleaned /\ c.tasks = sess[s].tasks
  BY <1>1 DEF FieldsType
<1>3. sess' = [sess EXCEPT ![s] = r]
  BY DEF DispatchDeferredCleanup
<1>. HIDE DEF c
<1>4. MayEnd(scene, c, Calls(s))
  BY <1>1, <1>2 DEF MayEnd, Ended
<1>5. r \in FieldsType /\ Life(scene, r, TRUE, "idle", Calls(s))
  BY <1>1, <1>4, CleanupLife
<1>6. Life(scene, r, active = s, "idle", Calls(s))
  BY <1>1, <1>5
<1>. HIDE DEF r
<1>. QED BY <1>1, <1>3, <1>5, <1>6, QuietStep

LEMMA LoopStepKeeps ==
  ASSUME IInv, NEW s \in Sessions,
         \/ LoopQuit(s) \/ LoopBarrier(s) \/ LoopWindowIgnored(s) \/ LoopRecreate(s)
         \/ LoopUserQuit(s) \/ WindowEvent(s)
  PROVE  IInv'
<1>1. InLoop(s) /\ UNCHANGED <<scene, active, semaphore, queue>>
  BY DEF InLoop, LoopQuit, LoopBarrier, LoopWindowIgnored, LoopRecreate, LoopUserQuit,
         WindowEvent
<1>2. sess[s] \in FieldsType /\ sess[s].flushing \in Int /\ sess[s].shouldExit \in BOOLEAN
  BY LifeOf DEF FieldsType
<1>3. ASSUME main' = main, NEW n \in Int, NEW b \in BOOLEAN, NEW d \in {sess[s].decoder, "ok"},
             sess' = [sess EXCEPT ![s] = [sess[s] EXCEPT !.flushing = n, !.shouldExit = b,
                                                         !.decoder = d]]
      PROVE  IInv'
  <2>. DEFINE r == [sess[s] EXCEPT !.flushing = n, !.shouldExit = b, !.decoder = d]
  <2>1. r \in FieldsType /\ Life(scene, r, active = s, "loop", Calls(s))
    BY <1>1, LoopFieldsKeep
  <2>2. sess' = [sess EXCEPT ![s] = r]
    BY <1>3
  <2>. HIDE DEF r
  <2>3. MainGoes(s, "loop")
    BY <1>1, <1>3, LoopMayEnd DEF MainGoes
  <2>. QED BY <1>1, <2>1, <2>2, <2>3, QuietStep
<1>4. CASE LoopQuit(s)
  <2>1. [sess[s] EXCEPT !.flushing = sess[s].flushing] = sess[s]
    BY <1>2 DEF FieldsType
  <2>. QED BY <1>1, <1>2, <1>4, <2>1, LoopEndKeeps DEF LoopQuit
<1>5. CASE LoopBarrier(s)
  <2>1. sess[s].flushing - 1 \in Int
    BY <1>2
  <2>2. sess' = [sess EXCEPT ![s] = [sess[s] EXCEPT !.flushing = sess[s].flushing - 1,
                   !.shouldExit = sess[s].shouldExit, !.decoder = sess[s].decoder]]
    BY <1>2, <1>5 DEF LoopBarrier, FieldsType, IInv, Typed
  <2>. QED BY <1>2, <1>3, <1>5, <2>1, <2>2 DEF LoopBarrier
<1>6. CASE LoopWindowIgnored(s) \/ WindowEvent(s)
  <2>1. sess' = [sess EXCEPT ![s] = [sess[s] EXCEPT !.flushing = sess[s].flushing,
                   !.shouldExit = sess[s].shouldExit, !.decoder = sess[s].decoder]]
    BY <1>2, <1>6 DEF LoopWindowIgnored, WindowEvent, FieldsType, IInv, Typed
  <2>. QED BY <1>2, <1>3, <1>6, <2>1 DEF LoopWindowIgnored, WindowEvent
<1>7. CASE LoopUserQuit(s)
  <2>1. PICK b \in BOOLEAN :
          sess' = [sess EXCEPT ![s] = [sess[s] EXCEPT !.flushing = sess[s].flushing,
                     !.decoder = sess[s].decoder, !.shouldExit = b]]
    <3>1. CASE sess' = sess
      <4>1. [sess[s] EXCEPT !.flushing = sess[s].flushing, !.decoder = sess[s].decoder,
                            !.shouldExit = sess[s].shouldExit] = sess[s]
        BY <1>2 DEF FieldsType
      <4>2. sess' = [sess EXCEPT ![s] = sess[s]]
        BY <3>1 DEF IInv, Typed
      <4>. QED BY <1>2, <4>1, <4>2
    <3>2. CASE sess' = [sess EXCEPT ![s].shouldExit = TRUE]
      BY <1>2, <3>2 DEF FieldsType, IInv, Typed
    <3>. QED BY <1>7, <3>1, <3>2 DEF LoopUserQuit
  <2>2. [sess[s] EXCEPT !.flushing = sess[s].flushing, !.decoder = sess[s].decoder,
                        !.shouldExit = b]
          = [sess[s] EXCEPT !.flushing = sess[s].flushing, !.shouldExit = b,
                            !.decoder = sess[s].decoder]
    BY <1>2 DEF FieldsType
  <2>. QED BY <1>2, <1>3, <1>7, <2>1, <2>2 DEF LoopUserQuit
<1>8. CASE LoopRecreate(s)
  <2>1. sess[s].flushing + 1 \in Int
    BY <1>2
  <2>2. Flushing(sess[s]) = [sess[s] EXCEPT !.flushing = sess[s].flushing + 1]
    BY DEF Flushing
  <2>3. CASE /\ sess' = [sess EXCEPT ![s] = [Flushing(sess[s]) EXCEPT !.decoder = "ok"]]
             /\ main' = main
    <3>1. [Flushing(sess[s]) EXCEPT !.decoder = "ok"]
            = [sess[s] EXCEPT !.flushing = sess[s].flushing + 1,
                              !.shouldExit = sess[s].shouldExit, !.decoder = "ok"]
      BY <1>2, <2>2 DEF FieldsType
    <3>. QED BY <1>2, <1>3, <2>1, <2>3, <3>1
  <2>4. CASE \E q : DispatchDeferredCleanup(s, Flushing(sess[s]), q)
    BY <1>1, <2>1, <2>2, <2>4, LoopEndKeeps
  <2>. QED BY <1>8, <2>3, <2>4 DEF LoopRecreate
<1>. QED BY <1>4, <1>5, <1>6, <1>7, <1>8

\* The decoder thread asks for its replacement.
LEMMA RequestResetKeeps ==
  ASSUME IInv, NEW s \in Sessions, RequestDecoderReset(s)
  PROVE  IInv'
<1>. DEFINE r == [sess[s] EXCEPT !.decoder = "faulted"]
<1>1. /\ sess[s] \in FieldsType /\ sess[s].decoder = "ok" /\ scene \in BOOLEAN
      /\ Life(scene, sess[s], active = s, Where(s), Calls(s))
  BY LifeOf DEF RequestDecoderReset
<1>2. r \in FieldsType /\ sess' = [sess EXCEPT ![s] = r]
  BY <1>1 DEF RequestDecoderReset, GivesUp, FieldsType, IInv, Typed
<1>3. /\ ~Ended(sess[s]) /\ ~sess[s].cleaned /\ sess[s].conn # "none"
      /\ "reset" \notin Calls(s) /\ "ready" \notin Calls(s)
  BY <1>1 DEF Life, Streaming, Queued, Over, Connecting
<1>4. /\ Life(scene, r, active = s, Where(s), Calls(s))
      /\ scene => Life(scene, r, active = s, Where(s), Calls(s) \cup {"reset"})
  BY <1>1, <1>3
  DEF Life, BeforeStart, Holding, Connecting, Streaming, Ending, Queued, Over, Told,
        Ended, FieldsType, Pages
<1>. HIDE DEF r
<1>5. CASE scene /\ Post("reset", s)
  BY <1>2, <1>3, <1>4, <1>5, PostingStep DEF RequestDecoderReset, Kinds
<1>6. CASE UNCHANGED queue
  BY <1>2, <1>4, <1>6, QuietStep DEF RequestDecoderReset, MainGoes
<1>. QED BY <1>5, <1>6 DEF RequestDecoderReset

-----------------------------------------------------------------------------
(* DeferredSessionCleanupTask *)

LEMMA TaskTyped ==
  ASSUME IInv, NEW s \in Sessions, NEW i \in 1..2, NEW pc, TaskAt(s, i, pc)
  PROVE  sess[s].tasks[i] \in Tasks
<1>1. sess[s].tasks \in Seq(Tasks) /\ i \in 1..Len(sess[s].tasks)
  BY LifeOf DEF FieldsType, TaskAt
<1>. QED BY <1>1

\* The one task of a session goes on, and with it the link to the host.
Moved(q, i, t, l) == [q EXCEPT !.tasks = [q.tasks EXCEPT ![i] = t], !.link = l]
SameStream(r, q) ==
  /\ r.page = q.page /\ r.conn = q.conn /\ r.success = q.success
  /\ r.terminated = q.terminated /\ r.streaming = q.streaming /\ r.cleaned = q.cleaned
  /\ r.decoder = q.decoder /\ r.input = q.input

LEMMA OneTask ==
  ASSUME IInv, NEW s \in Sessions, NEW i \in 1..2, NEW pc, TaskAt(s, i, pc)
  PROVE  /\ i = 1 /\ Ended(sess[s]) /\ sess[s].tasks[1].pc = pc
         /\ Len(sess[s].tasks) = 1 /\ Where(s) = "idle"
         /\ sess[s].page \in {"open", "popped"}
<1>1. sess[s] \in FieldsType /\ sess[s].tasks \in Seq(Tasks) /\ i \in 1..Len(sess[s].tasks)
      /\ sess[s].tasks[i].pc = pc
  BY LifeOf DEF FieldsType, TaskAt
<1>2. Ended(sess[s])
  BY <1>1 DEF Ended
<1>3. Len(sess[s].tasks) = 1 /\ Where(s) = "idle" /\ sess[s].page \in {"open", "popped"}
  BY <1>2, LifeOf DEF Life, Ending
<1>. QED BY <1>1, <1>2, <1>3

LEMMA OnlyTaskReplaced ==
  ASSUME NEW w \in Seq(Tasks), Len(w) = 1, NEW t \in Tasks
  PROVE  LET u == [w EXCEPT ![1] = t]
         IN  u \in Seq(Tasks) /\ Len(u) = 1 /\ u[1] = t /\ u # <<>>
<1>. DEFINE u == [w EXCEPT ![1] = t]
<1>1. u \in Seq(Tasks) /\ Len(u) = 1 /\ u[1] = t
  OBVIOUS
<1>2. u # <<>>
  BY <1>1
<1>. QED BY <1>1, <1>2

LEMMA MovedFields ==
  ASSUME NEW q \in FieldsType, Len(q.tasks) = 1, NEW t \in Tasks,
         NEW l \in {"none", "up", "stopped"}
  PROVE  /\ Moved(q, 1, t, l) \in FieldsType /\ SameStream(Moved(q, 1, t, l), q)
         /\ Len(Moved(q, 1, t, l).tasks) = 1 /\ Moved(q, 1, t, l).tasks[1] = t
         /\ Ended(Moved(q, 1, t, l)) /\ Moved(q, 1, t, l).link = l
<1>. DEFINE u == [q.tasks EXCEPT ![1] = t]
            r == Moved(q, 1, t, l)
<1>1. q.tasks \in Seq(Tasks)
  BY DEF FieldsType
<1>2. u \in Seq(Tasks) /\ Len(u) = 1 /\ u[1] = t /\ u # <<>>
  BY <1>1, OnlyTaskReplaced
<1>3. r = [q EXCEPT !.tasks = u, !.link = l]
  BY DEF Moved
<1>. HIDE DEF u, r
<1>4. r \in FieldsType /\ r.tasks = u /\ r.link = l /\ SameStream(r, q)
  BY <1>2, <1>3 DEF FieldsType, SameStream
<1>. QED BY <1>2, <1>4 DEF Ended, r

LEMMA TaskNotifyKeeps ==
  ASSUME IInv, NEW s \in Sessions, TaskNotify(s)
  PROVE  IInv'
<1>. DEFINE quit == ~sess[s].unexpected /\ quitAppAfter
            t == [pc |-> "notified", quit |-> quit]
<1>1. PICK i \in 1..2 :
        /\ TaskAt(s, i, "queued") /\ sess' = [sess EXCEPT ![s].tasks[i] = t]
        /\ quit = TRUE \/ quit = FALSE
        /\ IF quit THEN UNCHANGED queue ELSE Post("finished", s)
        /\ UNCHANGED <<scene, active, semaphore, main>>
  BY DEF TaskNotify
<1>. DEFINE r == Moved(sess[s], i, t, sess[s].link)
<1>2. /\ sess[s] \in FieldsType /\ scene \in BOOLEAN
      /\ Life(scene, sess[s], active = s, Where(s), Calls(s))
      /\ sess[s].link \in {"none", "up", "stopped"}
  BY LifeOf DEF FieldsType
<1>3. t \in Tasks /\ t.pc = "notified" /\ t.quit = quit
  BY <1>1 DEF Tasks
<1>4. sess' = [sess EXCEPT ![s] = r]
  BY <1>1, <1>2 DEF FieldsType, IInv, Typed, Moved
<1>. HIDE DEF t
<1>5. /\ i = 1 /\ Ended(sess[s]) /\ sess[s].tasks[1].pc = "queued"
       /\ Len(sess[s].tasks) = 1 /\ Where(s) = "idle"
       /\ sess[s].page \in {"open", "popped"}
  BY <1>1, OneTask
<1>6. /\ r \in FieldsType /\ SameStream(r, sess[s])
      /\ Len(r.tasks) = 1 /\ r.tasks[1] = t /\ Ended(r) /\ r.link = sess[s].link
  BY <1>2, <1>3, <1>5, MovedFields
<1>. HIDE DEF r
<1>7. ~Told(sess[s]) /\ ~Over(sess[s]) /\ ~Over(r) /\ (Told(r) <=> ~quit)
  BY <1>3, <1>5, <1>6 DEF Told, Over
<1>8. sess[s].page = "open" /\ "finished" \notin Calls(s) /\ "ready" \notin Calls(s)
  BY <1>2, <1>5, <1>6, <1>7 DEF Life, Ending, Queued
<1>. HIDE DEF quit
<1>9. /\ quit => Life(scene, r, active = s, Where(s), Calls(s))
      /\ ~quit => Life(scene, r, active = s, Where(s), Calls(s) \cup {"finished"})
  BY <1>2, <1>3, <1>5, <1>6, <1>7, <1>8
  DEF Life, BeforeStart, Holding, Connecting, Streaming, Ending, Queued, SameStream
<1>10. CASE quit
  BY <1>1, <1>4, <1>5, <1>6, <1>9, <1>10, QuietStep DEF MainGoes
<1>11. CASE ~quit
  BY <1>1, <1>4, <1>5, <1>6, <1>8, <1>9, <1>11, PostingStep DEF Kinds
<1>. QED BY <1>10, <1>11

LEMMA TaskStopKeeps ==
  ASSUME IInv, NEW s \in Sessions, TaskStopConnection(s)
  PROVE  IInv'
<1>1. PICK i \in 1..2 :
        /\ TaskAt(s, i, "notified")
        /\ sess' = [sess EXCEPT ![s].tasks[i].pc = "stopped", ![s].link = "stopped"]
  BY DEF TaskStopConnection
<1>. DEFINE t == [sess[s].tasks[i] EXCEPT !.pc = "stopped"]
            r == Moved(sess[s], i, t, "stopped")
<1>2. /\ sess[s] \in FieldsType /\ Life(scene, sess[s], active = s, Where(s), Calls(s))
  BY LifeOf
<1>3. t \in Tasks /\ t.pc = "stopped" /\ t.quit = sess[s].tasks[i].quit
  BY <1>1, TaskTyped DEF Tasks
<1>4. sess' = [sess EXCEPT ![s] = r]
  BY <1>1, <1>2 DEF FieldsType, IInv, Typed, Moved
<1>. HIDE DEF t
<1>5. /\ i = 1 /\ Ended(sess[s]) /\ sess[s].tasks[1].pc = "notified"
       /\ Len(sess[s].tasks) = 1 /\ Where(s) = "idle"
       /\ sess[s].page \in {"open", "popped"}
  BY <1>1, OneTask
<1>6. /\ r \in FieldsType /\ SameStream(r, sess[s])
      /\ Len(r.tasks) = 1 /\ r.tasks[1] = t /\ Ended(r) /\ r.link = "stopped"
  BY <1>2, <1>3, <1>5, MovedFields
<1>. HIDE DEF r
<1>7. ~Over(sess[s]) /\ ~Over(r) /\ (Told(r) <=> Told(sess[s]))
  BY <1>3, <1>5, <1>6 DEF Told, Over
<1>8. Life(scene, r, active = s, Where(s), Calls(s))
  BY <1>2, <1>3, <1>5, <1>6, <1>7
  DEF Life, BeforeStart, Holding, Connecting, Streaming, Ending, Queued, SameStream
<1>. QED BY <1>4, <1>6, <1>8, QuietStep DEF TaskStopConnection, MainGoes

LEMMA TaskQuitAppKeeps ==
  ASSUME IInv, NEW s \in Sessions, TaskQuitApp(s)
  PROVE  IInv'
<1>1. PICK i \in 1..2 :
        /\ TaskAt(s, i, "stopped") /\ sess' = [sess EXCEPT ![s].tasks[i].pc = "ended"]
        /\ IF sess[s].tasks[i].quit THEN Post("finished", s) ELSE UNCHANGED queue
        /\ UNCHANGED <<scene, active, semaphore, main>>
  BY DEF TaskQuitApp
<1>. DEFINE t == [sess[s].tasks[i] EXCEPT !.pc = "ended"]
            r == Moved(sess[s], i, t, sess[s].link)
<1>2. /\ sess[s] \in FieldsType /\ Life(scene, sess[s], active = s, Where(s), Calls(s))
      /\ sess[s].link \in {"none", "up", "stopped"} /\ scene \in BOOLEAN
  BY LifeOf DEF FieldsType
<1>3. t \in Tasks /\ t.pc = "ended" /\ t.quit = sess[s].tasks[i].quit
  BY <1>1, TaskTyped DEF Tasks
<1>4. sess' = [sess EXCEPT ![s] = r]
  BY <1>1, <1>2 DEF FieldsType, IInv, Typed, Moved
<1>. HIDE DEF t
<1>5. /\ i = 1 /\ Ended(sess[s]) /\ sess[s].tasks[1].pc = "stopped"
       /\ Len(sess[s].tasks) = 1 /\ Where(s) = "idle"
       /\ sess[s].page \in {"open", "popped"}
  BY <1>1, OneTask
<1>6. /\ r \in FieldsType /\ SameStream(r, sess[s])
      /\ Len(r.tasks) = 1 /\ r.tasks[1] = t /\ Ended(r) /\ r.link = sess[s].link
  BY <1>2, <1>3, <1>5, MovedFields
<1>. HIDE DEF r
<1>. DEFINE quit == sess[s].tasks[1].quit
<1>7. ~Over(sess[s]) /\ ~Over(r) /\ Told(r) /\ (Told(sess[s]) <=> ~quit)
  BY <1>3, <1>5, <1>6 DEF Told, Over
<1>8. /\ quit => sess[s].page = "open" /\ "finished" \notin Calls(s)
      /\ "ready" \notin Calls(s)
  BY <1>2, <1>5, <1>6, <1>7 DEF Life, Ending, Queued
<1>. HIDE DEF quit
<1>9. /\ ~quit => Life(scene, r, active = s, Where(s), Calls(s))
      /\ quit => Life(scene, r, active = s, Where(s), Calls(s) \cup {"finished"})
  BY <1>2, <1>3, <1>5, <1>6, <1>7, <1>8
  DEF Life, BeforeStart, Holding, Connecting, Streaming, Ending, Queued, SameStream
<1>10. CASE ~quit
  BY <1>1, <1>4, <1>5, <1>6, <1>9, <1>10, QuietStep DEF MainGoes, quit
<1>11. CASE quit
  BY <1>1, <1>4, <1>5, <1>6, <1>8, <1>9, <1>11, PostingStep DEF Kinds, quit
<1>. QED BY <1>10, <1>11

\* The destructor gives the semaphore back and nobody is active.
LEMMA TaskDoneKeeps ==
  ASSUME IInv, NEW s \in Sessions, TaskDone(s)
  PROVE  IInv'
<1>1. PICK i \in 1..2 :
        /\ TaskAt(s, i, "ended") /\ sess' = [sess EXCEPT ![s].tasks[i].pc = "done"]
        /\ active' = None /\ semaphore' = semaphore + 1 /\ Post("ready", s)
        /\ UNCHANGED <<scene, main>>
  BY DEF TaskDone, Finishable, Release
<1>. DEFINE t == [sess[s].tasks[i] EXCEPT !.pc = "done"]
            r == Moved(sess[s], i, t, sess[s].link)
<1>2. /\ sess[s] \in FieldsType /\ Life(scene, sess[s], active = s, Where(s), Calls(s))
      /\ sess[s].link \in {"none", "up", "stopped"} /\ scene \in BOOLEAN
  BY LifeOf DEF FieldsType
<1>3. t \in Tasks /\ t.pc = "done" /\ t.quit = sess[s].tasks[i].quit
  BY <1>1, TaskTyped DEF Tasks
<1>4. sess' = [sess EXCEPT ![s] = r]
  BY <1>1, <1>2 DEF FieldsType, IInv, Typed, Moved
<1>. HIDE DEF t
<1>5. /\ i = 1 /\ Ended(sess[s]) /\ sess[s].tasks[1].pc = "ended"
       /\ Len(sess[s].tasks) = 1 /\ Where(s) = "idle"
       /\ sess[s].page \in {"open", "popped"}
  BY <1>1, OneTask
<1>6. /\ r \in FieldsType /\ SameStream(r, sess[s])
      /\ Len(r.tasks) = 1 /\ r.tasks[1] = t /\ Ended(r) /\ r.link = sess[s].link
  BY <1>2, <1>3, <1>5, MovedFields
<1>. HIDE DEF r
<1>7. ~Over(sess[s]) /\ Over(r) /\ Told(r) /\ Told(sess[s])
  BY <1>3, <1>5, <1>6 DEF Told, Over
<1>8. "ready" \notin Calls(s) /\ active = s /\ semaphore = 0
  BY <1>2, <1>5, <1>6, <1>7, NoneAssumption DEF Life, Holding, Queued, IInv, Typed
<1>9. Life(scene, r, FALSE, Where(s), Calls(s) \cup {"ready"})
  BY <1>2, <1>3, <1>5, <1>6, <1>7, <1>8
  DEF Life, BeforeStart, Holding, Connecting, Streaming, Ending, Queued, SameStream
<1>10. /\ queue' \in Seq(Events) /\ Once' /\ ReadyLast'
      /\ Calls(s)' = Calls(s) \cup {"ready"}
      /\ \A u \in Sessions \ {s} : Calls(u)' = Calls(u)
  BY <1>1, <1>8, PostAddsCall DEF IInv, Typed, Kinds
<1>11. (active' = s) = FALSE /\ scene' = scene /\ Where(s)' = Where(s)
  BY <1>1, <1>8, NoneAssumption DEF Where
<1>12. \A u \in Sessions \ {s} : /\ (active' = u) = (active = u)
                                 /\ Where(u)' = Where(u) /\ Calls(u)' = Calls(u)
  BY <1>1, <1>8, <1>10, NoneAssumption DEF Where
<1>13. Life(scene, r, active' = s, Where(s)', Calls(s)')
  BY <1>9, <1>10, <1>11
<1>14. sess' \in [Sessions -> FieldsType] /\ Lives'
  BY <1>4, <1>6, <1>11, <1>13, <1>12, OneMoves DEF IInv
<1>15. Typed'
  BY <1>1, <1>8, <1>10, <1>14 DEF IInv, Typed
<1>. QED BY <1>10, <1>14, <1>15 DEF IInv

-----------------------------------------------------------------------------
(* The signal thread *)

LEMMA InterruptKeeps ==
  ASSUME IInv, Interrupt
  PROVE  IInv'
<1>. DEFINE s == active
<1>1. s \in Sessions
  BY DEF Interrupt, IInv, Typed
<1>2. PICK term \in BOOLEAN :
        sess' = [sess EXCEPT ![s].interrupted = TRUE, ![s].shouldExit = @ \/ term]
  BY DEF Interrupt
<1>. DEFINE r == [sess[s] EXCEPT !.interrupted = TRUE, !.shouldExit = @ \/ term]
<1>3. /\ sess[s] \in FieldsType
      /\ Life(scene, sess[s], active = s, Where(s), Calls(s))
  BY <1>1, LifeOf
<1>4. /\ r \in FieldsType
      /\ \A f \in {"page", "conn", "link", "success", "terminated", "streaming", "cleaned",
                   "decoder", "input", "tasks"} : r[f] = sess[s][f]
  BY <1>3 DEF FieldsType
<1>5. sess' = [sess EXCEPT ![s] = r]
  BY <1>1, <1>2 DEF IInv, Typed
<1>. HIDE DEF r
<1>6. Life(scene, r, active = s, Where(s), Calls(s))
  BY <1>3, <1>4
  DEF Life, BeforeStart, Holding, Connecting, Streaming, Ending, Queued, Over, Told, Ended
<1>7. MainGoes(s, Where(s)) /\ UNCHANGED <<scene, active, semaphore, queue>>
  BY DEF MainGoes, Interrupt
<1>. QED BY <1>1, <1>4, <1>5, <1>6, <1>7, QuietStep

LEMMA InterruptStopsKeeps ==
  ASSUME IInv, SignalFits, Apart, InterruptStops
  PROVE  IInv'
<1>. DEFINE s == signal.session
            r == Dispatch(Torn([sess[s] EXCEPT !.cleaned = TRUE]))
<1>1. s \in Sessions /\ scene /\ StreamRuns(sess[s]) /\ sess[s].decoder # "none"
  BY DEF InterruptStops, SignalFits, StreamRuns
<1>2. /\ sess[s] \in FieldsType /\ scene \in BOOLEAN
      /\ Life(scene, sess[s], active = s, Where(s), Calls(s))
  BY <1>1, LifeOf
<1>3. MayEnd(scene, [sess[s] EXCEPT !.cleaned = TRUE], Calls(s)) /\ (active = s) = TRUE
  BY <1>1, <1>2, StreamMayEnd
<1>4. Where(s) = "idle"
  <2>1. /\ Where(s) # "loop" /\ Where(s) # "creating" /\ Where(s) # "acquire"
        /\ Where(s) # "recreating"
    BY <1>1, <1>2, <1>3, StreamMayEnd DEF Life, Streaming, Holding
  <2>2. Where(s) # "stopping" /\ Where(s) # "resetting"
    BY DEF Where, Apart, InterruptStops
  <2>. QED BY <2>1, <2>2 DEF Where, IInv, Typed, Places
<1>5. r \in FieldsType /\ Life(scene, r, TRUE, "idle", Calls(s))
  BY <1>2, <1>3, CleanupLife
<1>6. Life(scene, r, active = s, "idle", Calls(s))
  BY <1>3, <1>5
<1>7. sess' = [sess EXCEPT ![s] = r]
  BY DEF InterruptStops, EndStream
<1>8. MainGoes(s, "idle") /\ UNCHANGED <<scene, active, semaphore, queue>>
  BY <1>4 DEF MainGoes, InterruptStops
<1>. HIDE DEF r
<1>. QED BY <1>1, <1>5, <1>6, <1>7, <1>8, QuietStep

-----------------------------------------------------------------------------
(* Parts and pages *)

AtStart == main.pc = "acquire"
NoneEnded(s) == ~Ended(sess[s])

\* A page sees where start() is, its page and whether the session was ended.
LEMMA PhaseSeen ==
  ASSUME NEW s \in Sessions
  PROVE  Phase(s) = IF main = [pc |-> "acquire", session |-> s] THEN "waiting"
                    ELSE IF sess[s].page = "popped" THEN "finished"
                    ELSE IF sess[s].page # "open" THEN "none"
                    ELSE IF Ended(sess[s]) THEN "ending" ELSE "open"
  BY DEF Phase, Ended

LEMMA ResponsiveSeen ==
  ASSUME ~AtStart
  PROVE  Contract!Responsive
  BY PhaseSeen DEF Contract!Responsive, AtStart

\* Where the others stay where they are, one session's phase changes.
LEMMA OnePhase ==
  ASSUME NEW s \in Sessions, \A t \in Sessions \ {s} : Phase(t)' = Phase(t)
  PROVE  [t \in Sessions |-> Phase(t)]'
           = [[t \in Sessions |-> Phase(t)] EXCEPT ![s] = Phase(s)']
  OBVIOUS

\* At most one stream runs, that of the active session.
LEMMA RunningIsActive ==
  ASSUME IInv, NEW s \in Sessions, StreamRuns(sess[s])
  PROVE  /\ active = s /\ sess[s].page = "open" /\ NoneEnded(s) /\ scene
         /\ "exec" \notin Calls(s)
<1>1. MayEnd(scene, [sess[s] EXCEPT !.cleaned = TRUE], Calls(s)) /\ (active = s) = TRUE
      /\ scene /\ ~Ended(sess[s]) /\ sess[s].page = "open"
  BY LifeOf, StreamMayEnd
<1>. QED BY <1>1 DEF MayEnd, NoneEnded

\* A step inside the life of a session: nothing a page or another part sees.
LEMMA InsideStep ==
  ASSUME IInv, PartsInv, NEW s \in Sessions, NEW r, sess' = [sess EXCEPT ![s] = r],
         r.page = sess[s].page, Ended(r) <=> Ended(sess[s]),
         StreamRuns(r) <=> StreamRuns(sess[s]),
         sess[s].decoder = "none" \/ r.decoder # "none" \/ signal.pc # "stopping",
         UNCHANGED <<scene, bridge, active>>, Shaped(sdl)', sdl'.refs = sdl.refs,
         signal' = signal \/ SignalFits',
         main' = main \/ (~AtStart /\ ~AtStart')
  PROVE  PartsInv' /\ UNCHANGED Contract!vars
<1>1. sess'[s] = r /\ \A t \in Sessions \ {s} : sess'[t] = sess[t]
  BY DEF IInv, Typed
<1>2. \A t \in Sessions :
        /\ sess'[t].page = sess[t].page
        /\ Ended(sess'[t]) <=> Ended(sess[t])
        /\ StreamRuns(sess'[t]) <=> StreamRuns(sess[t])
  BY <1>1
<1>3. OnePage' /\ VideoCounted'
  BY <1>2 DEF PartsInv, OnePage, VideoCounted, WithVideo
<1>4. BridgeFollowsStream'
  BY <1>2 DEF PartsInv, BridgeFollowsStream, StreamRuns
<1>5. SignalFits'
  <2>1. CASE signal' = signal
    BY <1>1, <1>2, <2>1 DEF PartsInv, SignalFits, StreamRuns
  <2>. QED BY <2>1 DEF SignalFits
<1>6. ASSUME NEW t \in Sessions PROVE Phase(t)' = Phase(t)
  <2>1. (main' = [pc |-> "acquire", session |-> t]) <=> (main = [pc |-> "acquire", session |-> t])
    BY DEF AtStart
  <2>. QED BY <1>2, <2>1 DEF Phase, Ended
<1>7. UNCHANGED Contract!vars
  BY <1>6 DEF Contract!vars
<1>. QED BY <1>3, <1>4, <1>5, <1>7 DEF PartsInv

\* While the session of the page is not running a stream that can be decoded,
\* the signal thread is not in stopSession().
LEMMA SignalElsewhere ==
  ASSUME IInv, PartsInv, NEW s \in Sessions, sess[s].page = "open",
         ~StreamRuns(sess[s]) \/ sess[s].decoder = "none" \/ scene = FALSE
  PROVE  signal.pc # "stopping"
<1>. SUFFICES ASSUME signal.pc = "stopping" PROVE FALSE
  OBVIOUS
<1>. DEFINE t == signal.session
<1>1. t \in Sessions /\ StreamRuns(sess[t]) /\ sess[t].decoder # "none" /\ scene
  BY DEF PartsInv, SignalFits, StreamRuns
<1>2. sess[t].page = "open"
  BY <1>1, RunningIsActive
<1>3. t = s
  BY <1>1, <1>2 DEF PartsInv, OnePage
<1>. QED BY <1>1, <1>3

LEMMA DispatchFields ==
  ASSUME NEW c \in FieldsType
  PROVE  LET r == Dispatch(Torn(c))
         IN  /\ r.page = c.page /\ r.streaming = c.streaming /\ r.cleaned = c.cleaned
             /\ Ended(r)
<1>1. c.tasks \in Seq(Tasks)
  BY DEF FieldsType
<1>2. Dispatch(Torn(c)).tasks = Append(c.tasks, [pc |-> "queued", quit |-> FALSE])
  BY DEF Dispatch, Torn, FieldsType
<1>3. Append(c.tasks, [pc |-> "queued", quit |-> FALSE]) # <<>>
  BY <1>1
<1>. QED BY <1>2, <1>3 DEF Dispatch, Torn, FieldsType, Ended

LEMMA OthersHaveNoVideo ==
  ASSUME IInv, OnePage, NEW s \in Sessions, sess[s].page \in {"initialized", "open"}
  PROVE  \A t \in Sessions \ {s} : ~WithVideo(t)
<1>. SUFFICES ASSUME NEW t \in Sessions \ {s}, WithVideo(t) PROVE FALSE
  OBVIOUS
<1>1. sess[t] \in FieldsType /\ Ending(scene, sess[t], Where(t))
  BY LifeOf DEF Life
<1>2. sess[t].page \in {"initialized", "open"}
  BY <1>1 DEF WithVideo, Ending, Told, FieldsType, Pages
<1>. QED BY <1>2 DEF OnePage

\* The end of a stream: its parts are given back.
LEMMA EndStep ==
  ASSUME IInv, PartsInv, NEW s \in Sessions, NEW c \in FieldsType,
         sess' = [sess EXCEPT ![s] = Dispatch(Torn(c))],
         sess[s].page = "open", c.page = "open", ~Ended(sess[s]), ~StreamRuns(c),
         NEW q, Shaped(q), q.refs = sdl.refs, sdl' = QuitVideo(q),
         bridge' = FALSE \/ (bridge' = bridge /\ ~StreamRuns(sess[s])),
         signal'.pc # "stopping", UNCHANGED <<scene, active>>, ~AtStart, ~AtStart'
  PROVE  PartsInv' /\ Contract!Next
<1>. DEFINE r == Dispatch(Torn(c))
<1>1. r.page = "open" /\ Ended(r) /\ ~StreamRuns(r)
  BY DispatchFields DEF StreamRuns
<1>. HIDE DEF r
<1>2. sess'[s] = r /\ \A t \in Sessions \ {s} : sess'[t] = sess[t]
  BY DEF IInv, Typed, r
<1>3. OnePage'
  BY <1>1, <1>2 DEF PartsInv, OnePage
<1>4. Shaped(sdl)' /\ VideoCounted'
  <2>1. WithVideo(s) /\ \A t \in Sessions : ~WithVideo(t)'
    BY <1>1, <1>2, OthersHaveNoVideo DEF WithVideo, PartsInv
  <2>2. q.refs = 1
    BY <2>1 DEF PartsInv, VideoCounted
  <2>3. sdl' = [refs |-> 0, events |-> <<>>]
    BY <2>2 DEF QuitVideo
  <2>. QED BY <2>1, <2>3 DEF Shaped, VideoCounted
<1>5. ASSUME NEW t \in Sessions \ {s}, StreamRuns(sess[t]) PROVE FALSE
  <2>1. sess[t].page = "open"
    BY <1>5, RunningIsActive
  <2>. QED BY <2>1 DEF PartsInv, OnePage
<1>6. BridgeFollowsStream'
  <2>1. \A t \in Sessions : ~StreamRuns(sess'[t])
    BY <1>1, <1>2, <1>5
  <2>2. bridge' = FALSE
    BY <1>5 DEF PartsInv, BridgeFollowsStream, StreamRuns
  <2>. QED BY <2>1, <2>2 DEF BridgeFollowsStream, StreamRuns
<1>7. \A t \in Sessions \ {s} : Phase(t)' = Phase(t)
  BY <1>2 DEF Phase, AtStart
<1>8. Phase(s) = "open" /\ Phase(s)' = "ending"
  BY <1>1, <1>2 DEF Phase, Ended, AtStart
<1>9. Contract!End(s)
  BY <1>7, <1>8, OnePhase, ResponsiveSeen DEF Contract!End, Contract!Goes
<1>. QED BY <1>3, <1>4, <1>6, <1>9 DEF PartsInv, Contract!Next, SignalFits

-----------------------------------------------------------------------------
(* ... in the steps of the main thread *)

Fits == PartsInv' /\ [Contract!Next]_(Contract!vars)

\* What the parts see of a session's fields.
SameParts(r, q) ==
  \A f \in {"page", "tasks", "streaming", "cleaned"} : r[f] = q[f]

\* References survive what happens to the events.
LEMMA EventsOnly ==
  ASSUME NEW q, Shaped(q), NEW e
  PROVE  /\ Shaped(Push(q, e)) /\ Push(q, e).refs = q.refs
         /\ Shaped(FlushResets(q)) /\ FlushResets(q).refs = q.refs
         /\ Shaped([q EXCEPT !.events = Tail(@)])
         /\ [q EXCEPT !.events = Tail(@)].refs = q.refs
<1>. DEFINE T(f) == [q EXCEPT !.events = f]
<1>1. \A f : T(f) = [refs |-> q.refs, events |-> f]
  BY DEF Shaped
<1>2. \A f : Shaped(T(f)) /\ T(f).refs = q.refs
  BY <1>1 DEF Shaped
<1>. HIDE DEF T
<1>3. /\ Push(q, e) = q \/ Push(q, e) = T(Append(q.events, e))
      /\ \E f : FlushResets(q) = T(f)
      /\ [q EXCEPT !.events = Tail(@)] = T(Tail(q.events))
  BY DEF Push, FlushResets, T
<1>. QED BY <1>2, <1>3

\* Nothing that anybody else sees happens.
LEMMA NothingSeen ==
  ASSUME PartsInv, UNCHANGED <<scene, sess, active, main, sdl, bridge, signal>>
  PROVE  Fits
<1>1. PartsInv' /\ \A t \in Sessions : Phase(t)' = Phase(t)
  BY DEF PartsInv, OnePage, Shaped, VideoCounted, WithVideo, BridgeFollowsStream,
         SignalFits, Phase
<1>. QED BY <1>1 DEF Fits, Contract!vars

\* A step of the main thread that deletes no decoder of a stream.
LEMMA MainInside ==
  ASSUME IInv, PartsInv, NEW s \in Sessions, NEW r, sess' = [sess EXCEPT ![s] = r],
         SameParts(r, sess[s]), r.decoder # "none" \/ signal.pc # "stopping",
         UNCHANGED <<scene, active, sdl, bridge, signal>>, ~AtStart, ~AtStart'
  PROVE  Fits
<1>1. /\ r.page = sess[s].page
      /\ Ended(r) <=> Ended(sess[s])
      /\ StreamRuns(r) <=> StreamRuns(sess[s])
  BY DEF SameParts, Ended, StreamRuns
<1>2. Shaped(sdl)' /\ sdl'.refs = sdl.refs
  BY DEF PartsInv, Shaped
<1>. QED BY <1>1, <1>2, InsideStep DEF Fits

\* The tests of stopSession().
LEMMA StopSessionFits ==
  ASSUME IInv, PartsInv, NEW s \in Sessions, StopSession(s), ~AtStart, ~AtStart',
         UNCHANGED <<scene, active, signal>>
  PROVE  Fits
<1>. DEFINE i == [sess[s] EXCEPT !.interrupted = TRUE]
<1>1. SameParts(sess[s], sess[s]) /\ SameParts(i, sess[s]) /\ i.decoder = sess[s].decoder
  BY LifeOf DEF FieldsType, SameParts
<1>2. UNCHANGED <<bridge, sdl>>
  BY DEF StopSession
<1>. HIDE DEF i
<1>3. CASE sess' = [sess EXCEPT ![s] = i]
  <2>1. /\ i.page = sess[s].page
        /\ Ended(i) <=> Ended(sess[s])
        /\ StreamRuns(i) <=> StreamRuns(sess[s])
    BY <1>1 DEF SameParts, Ended, StreamRuns
  <2>2. Shaped(sdl)' /\ sdl'.refs = sdl.refs
    BY <1>2 DEF PartsInv, Shaped
  <2>. QED BY <1>1, <1>2, <1>3, <2>1, <2>2, InsideStep DEF Fits
<1>4. CASE sess' = sess
  <2>1. \A t \in Sessions : Phase(t)' = Phase(t)
    BY <1>4 DEF Phase, AtStart
  <2>2. PartsInv'
    BY <1>2, <1>4 DEF PartsInv, OnePage, Shaped, VideoCounted, WithVideo,
       BridgeFollowsStream, SignalFits
  <2>. QED BY <2>1, <2>2 DEF Fits, Contract!vars
<1>. QED BY <1>3, <1>4 DEF StopSession, i

LEMMA StopStreamFits ==
  ASSUME IInv, PartsInv, Apart, NEW s \in Sessions, StopStream(s)
  PROVE  Fits
<1>. DEFINE d == [sess[s] EXCEPT !.cleaned = TRUE]
<1>1. /\ sess[s] \in FieldsType /\ Life(scene, sess[s], active = s, Where(s), Calls(s))
      /\ Where(s) = "stopping"
  BY LifeOf, WhereAt DEF StopStream
<1>2. StreamRuns(sess[s])
  BY <1>1 DEF Life, Streaming, StreamRuns
<1>3. sess[s].page = "open" /\ ~Ended(sess[s])
  BY <1>2, RunningIsActive DEF NoneEnded
<1>4. d \in FieldsType /\ d.page = sess[s].page /\ d.cleaned
  BY <1>1 DEF FieldsType
<1>5. /\ sess' = [sess EXCEPT ![s] = Dispatch(Torn(d))]
      /\ bridge' = FALSE /\ sdl' = QuitVideo(sdl) /\ Shaped(sdl)
      /\ ~AtStart /\ ~AtStart' /\ UNCHANGED <<scene, active>>
  BY DEF StopStream, EndStream, DisabledBridge, PartsInv, At, Return, AtStart
<1>6. signal'.pc # "stopping"
  BY DEF StopStream, At, Apart
<1>. HIDE DEF d
<1>. QED BY <1>3, <1>4, <1>5, <1>6, EndStep DEF Fits, StreamRuns

LEMMA StopsFit ==
  ASSUME IInv, PartsInv, NEW s \in Sessions,
         UserStop(s) \/ HandleSceneConnectionTermination(s)
  PROVE  Fits
<1>1. /\ StopSession(s) /\ ~AtStart /\ ~AtStart' /\ UNCHANGED <<scene, active, signal>>
  BY DEF UserStop, HandleSceneConnectionTermination, Take, Idle, AtStart, StopSession, Return
<1>. QED BY <1>1, StopSessionFits

LEMMA ResetFits ==
  ASSUME IInv, PartsInv, Apart, NEW s \in Sessions,
         HandleSceneDecoderReset(s) \/ DeleteDecoder(s) \/ RecreateDecoder(s)
  PROVE  Fits
<1>1. /\ sess[s] \in FieldsType /\ ~AtStart /\ ~AtStart'
      /\ UNCHANGED <<scene, active, signal>>
  BY LifeOf DEF HandleSceneDecoderReset, DeleteDecoder, RecreateDecoder, Take, Idle, At,
     Return, StopSession, AtStart
<1>. DEFINE n == [sess[s] EXCEPT !.decoder = "none"]
            o == [sess[s] EXCEPT !.decoder = "ok"]
<1>2. /\ SameParts(sess[s], sess[s]) /\ SameParts(n, sess[s]) /\ SameParts(o, sess[s])
      /\ o.decoder = "ok"
  BY <1>1 DEF FieldsType, SameParts
<1>3. CASE HandleSceneDecoderReset(s)
  <2>1. UNCHANGED <<sess, sdl, bridge>>
    BY <1>3 DEF HandleSceneDecoderReset
  <2>2. \A t \in Sessions : Phase(t)' = Phase(t)
    BY <1>1, <2>1 DEF Phase, AtStart
  <2>3. PartsInv'
    BY <1>1, <2>1 DEF PartsInv, OnePage, Shaped, VideoCounted, WithVideo,
       BridgeFollowsStream, SignalFits
  <2>. QED BY <1>1, <2>2, <2>3 DEF Fits, Contract!vars
<1>4. CASE DeleteDecoder(s)
  <2>1. sess' = [sess EXCEPT ![s] = n] /\ UNCHANGED <<sdl, bridge>>
    BY <1>4 DEF DeleteDecoder
  <2>2. signal.pc # "stopping"
    BY <1>4 DEF DeleteDecoder, At, Apart
  <2>. HIDE DEF n
  <2>. QED BY <1>1, <1>2, <2>1, <2>2, MainInside
<1>5. CASE RecreateDecoder(s)
  <2>1. CASE sess' = [sess EXCEPT ![s] = o] /\ UNCHANGED <<sdl, bridge>>
    <3>. HIDE DEF o
    <3>. QED BY <1>1, <1>2, <2>1, MainInside
  <2>2. CASE StopSession(s)
    BY <1>1, <2>2, StopSessionFits
  <2>. QED BY <1>5, <2>1, <2>2 DEF RecreateDecoder
<1>. QED BY <1>3, <1>4, <1>5

\* exec() finds its session connected or failed, and not yet streaming.
LEMMA ExecFinds ==
  ASSUME IInv, PartsInv, NEW s \in Sessions, Take("exec", s)
  PROVE  /\ sess[s] \in FieldsType /\ sess[s].page = "open" /\ ~Ended(sess[s])
         /\ ~sess[s].streaming /\ ~sess[s].cleaned /\ signal.pc # "stopping"
         /\ ~AtStart /\ main.session = None
<1>1. /\ sess[s] \in FieldsType /\ Life(scene, sess[s], active = s, Where(s), Calls(s))
      /\ "exec" \in Calls(s)
  BY LifeOf, TakenCall DEF Kinds
<1>2. ~Ended(sess[s]) /\ sess[s].conn = "finished" /\ ~sess[s].streaming /\ ~sess[s].cleaned
  BY <1>1 DEF Life, Connecting, Streaming
<1>3. sess[s].page = "open"
  BY <1>1, <1>2, NotEndedIsOpen
<1>4. signal.pc # "stopping"
  BY <1>2, <1>3, SignalElsewhere DEF StreamRuns
<1>. QED BY <1>1, <1>2, <1>3, <1>4 DEF Take, Idle, AtStart

LEMMA ExecFailedFits ==
  ASSUME IInv, PartsInv, NEW s \in Sessions, ExecFailed(s)
  PROVE  Fits
<1>. DEFINE c == [sess[s] EXCEPT !.cleaned = sess[s].cleaned \/ scene]
<1>1. /\ sess[s] \in FieldsType /\ sess[s].page = "open" /\ ~Ended(sess[s])
      /\ ~sess[s].streaming /\ signal'.pc # "stopping" /\ ~AtStart /\ ~AtStart'
      /\ scene \in BOOLEAN /\ UNCHANGED <<scene, active, bridge>>
  BY ExecFinds, LifeOf DEF ExecFailed, AtStart
<1>2. /\ c \in FieldsType /\ c.page = sess[s].page /\ c.streaming = sess[s].streaming
  BY <1>1 DEF FieldsType
<1>3. /\ sess' = [sess EXCEPT ![s] = Dispatch(Torn(c))]
      /\ sdl' = QuitVideo(sdl) /\ Shaped(sdl)
  BY DEF ExecFailed, QuitVideoOnFailure, PartsInv, IInv, Typed
<1>. HIDE DEF c
<1>. QED BY <1>1, <1>2, <1>3, EndStep DEF Fits, StreamRuns

LEMMA ExecSceneFits ==
  ASSUME IInv, PartsInv, NEW s \in Sessions, ExecScene(s)
  PROVE  Fits
<1>. DEFINE r == [sess[s] EXCEPT !.streaming = TRUE]
<1>1. /\ sess[s] \in FieldsType /\ sess[s].page = "open" /\ ~Ended(sess[s])
      /\ ~sess[s].streaming /\ ~sess[s].cleaned /\ signal.pc # "stopping"
      /\ ~AtStart /\ main.session = None
  BY ExecFinds DEF ExecScene
<1>2. /\ sess' = [sess EXCEPT ![s] = r] /\ bridge' = TRUE
      /\ main' = [pc |-> "creating", session |-> s]
      /\ UNCHANGED <<scene, active, sdl, signal>>
  BY <1>1 DEF ExecScene, IInv, Typed
<1>3. /\ r.page = "open" /\ r.tasks = sess[s].tasks /\ r.streaming /\ ~r.cleaned
  BY <1>1 DEF FieldsType
<1>. HIDE DEF r
<1>4. sess'[s] = r /\ \A t \in Sessions \ {s} : sess'[t] = sess[t]
  BY <1>2 DEF IInv, Typed
<1>5. OnePage' /\ Shaped(sdl)' /\ VideoCounted' /\ SignalFits'
  BY <1>1, <1>2, <1>3, <1>4 DEF PartsInv, OnePage, Shaped, VideoCounted, WithVideo, Ended,
     SignalFits
<1>6. BridgeFollowsStream'
  BY <1>2, <1>3, <1>4 DEF BridgeFollowsStream
<1>7. \A t \in Sessions : Phase(t)' = Phase(t)
  BY <1>1, <1>2, <1>3, <1>4 DEF Phase, AtStart
<1>. QED BY <1>2, <1>5, <1>6, <1>7 DEF Fits, Contract!vars, PartsInv

LEMMA ExecSceneDecoderFits ==
  ASSUME IInv, PartsInv, NEW s \in Sessions, ExecSceneDecoder(s)
  PROVE  Fits
<1>1. /\ sess[s] \in FieldsType /\ Life(scene, sess[s], active = s, Where(s), Calls(s))
      /\ Where(s) = "creating"
  BY LifeOf, WhereAt DEF ExecSceneDecoder
<1>2. /\ ~AtStart /\ ~AtStart' /\ UNCHANGED <<scene, active, signal>>
  BY DEF ExecSceneDecoder, At, Return, StopSession, AtStart
<1>3. signal.pc # "stopping"
  BY <1>1, SignalElsewhere DEF Life, Streaming
<1>4. CASE sess' = [sess EXCEPT ![s].decoder = "ok", ![s].unexpected = FALSE]
           /\ UNCHANGED <<bridge, sdl>>
  <2>. DEFINE r == [sess[s] EXCEPT !.decoder = "ok", !.unexpected = FALSE]
  <2>1. /\ sess' = [sess EXCEPT ![s] = r] /\ r.page = sess[s].page
        /\ r.tasks = sess[s].tasks /\ r.streaming = sess[s].streaming
        /\ r.cleaned = sess[s].cleaned
    BY <1>1, <1>4 DEF IInv, Typed, FieldsType
  <2>2. Shaped(sdl)' /\ sdl'.refs = sdl.refs /\ UNCHANGED <<scene, bridge, active>>
    BY <1>2, <1>4 DEF PartsInv, Shaped
  <2>. HIDE DEF r
  <2>. QED BY <1>2, <1>3, <2>1, <2>2, InsideStep DEF Fits, StreamRuns, Ended
<1>5. CASE StopSession(s)
  BY <1>2, <1>5, StopSessionFits
<1>. QED BY <1>4, <1>5 DEF ExecSceneDecoder

LEMMA ExecWindowFits ==
  ASSUME IInv, PartsInv, NEW s \in Sessions, ExecWindow(s)
  PROVE  Fits
<1>1. /\ sess[s] \in FieldsType /\ sess[s].page = "open" /\ ~Ended(sess[s])
      /\ ~sess[s].streaming /\ signal.pc # "stopping" /\ ~AtStart
      /\ UNCHANGED <<scene, active, bridge, signal>>
  BY ExecFinds DEF ExecWindow
<1>2. CASE /\ sess' = [sess EXCEPT ![s].unexpected = FALSE]
           /\ sdl' = Push(sdl, "window") /\ main' = [pc |-> "loop", session |-> s]
  <2>. DEFINE r == [sess[s] EXCEPT !.unexpected = FALSE]
  <2>1. /\ sess' = [sess EXCEPT ![s] = r] /\ r.page = sess[s].page
        /\ r.tasks = sess[s].tasks /\ r.streaming = sess[s].streaming
        /\ r.cleaned = sess[s].cleaned
    BY <1>1, <1>2 DEF IInv, Typed, FieldsType
  <2>2. Shaped(sdl)' /\ sdl'.refs = sdl.refs /\ ~AtStart'
    BY <1>2, EventsOnly DEF PartsInv, AtStart
  <2>. HIDE DEF r
  <2>. QED BY <1>1, <1>2, <2>1, <2>2, InsideStep DEF Fits, StreamRuns, Ended
<1>3. CASE /\ sess' = [sess EXCEPT ![s] = Dispatch(Torn(@))]
           /\ sdl' = QuitVideo(sdl) /\ main' = main
  <2>1. sess' = [sess EXCEPT ![s] = Dispatch(Torn(sess[s]))] /\ Shaped(sdl) /\ ~AtStart'
    BY <1>1, <1>3 DEF IInv, Typed, PartsInv, AtStart
  <2>. QED BY <1>1, <1>3, <2>1, EndStep DEF Fits, StreamRuns
<1>. QED BY <1>1, <1>2, <1>3 DEF ExecWindow

-----------------------------------------------------------------------------
(* ... where a page opens, is told, or goes *)

LEMMA InitializeFits ==
  ASSUME IInv, PartsInv, NEW s \in Sessions, Initialize(s)
  PROVE  Fits
<1>. DEFINE r == [sess[s] EXCEPT !.page = "initialized"]
<1>1. /\ sess[s] \in FieldsType /\ Life(scene, sess[s], active = s, Where(s), Calls(s))
      /\ sess[s].page = "new" /\ \A t \in Sessions : sess[t].page \in {"new", "popped"}
      /\ main = IdleMain /\ s # None /\ scene \in BOOLEAN
      /\ UNCHANGED <<scene, active, bridge, signal>>
  BY LifeOf, WhereAt DEF Initialize
<1>2. /\ sess' = [sess EXCEPT ![s] = r] /\ sdl' = [sdl EXCEPT !.refs = @ + 1]
      /\ main' = IF scene THEN [pc |-> "acquire", session |-> s] ELSE main
  BY <1>1 DEF Initialize, IInv, Typed
<1>3. /\ ~Ended(sess[s]) /\ r.page = "initialized" /\ r.tasks = sess[s].tasks
      /\ r.streaming = sess[s].streaming /\ r.cleaned = sess[s].cleaned
      /\ r.decoder = sess[s].decoder
  BY <1>1 DEF Life, BeforeStart, FieldsType
<1>. HIDE DEF r
<1>4. sess'[s] = r /\ \A t \in Sessions \ {s} : sess'[t] = sess[t]
  BY <1>2 DEF IInv, Typed
<1>5. OnePage' /\ SignalFits'
  BY <1>1, <1>3, <1>4 DEF PartsInv, OnePage, SignalFits
<1>6. BridgeFollowsStream'
  BY <1>1, <1>3, <1>4 DEF PartsInv, BridgeFollowsStream
<1>7. \A t \in Sessions : ~WithVideo(t)
  <2>. SUFFICES ASSUME NEW t \in Sessions PROVE ~WithVideo(t)
    OBVIOUS
  <2>1. Ending(scene, sess[t], Where(t)) /\ sess[t].page \in {"new", "popped"}
    BY <1>1, LifeOf DEF Life
  <2>. QED BY <2>1 DEF WithVideo, Ending, Told
<1>8. Shaped(sdl)' /\ VideoCounted'
  <2>1. WithVideo(s)'
    BY <1>3, <1>4 DEF WithVideo, Ended
  <2>2. sdl.refs = 0 /\ Shaped(sdl)
    BY <1>7 DEF PartsInv, VideoCounted
  <2>3. sdl' = [refs |-> 1, events |-> sdl.events]
    BY <1>2, <2>2 DEF Shaped
  <2>. QED BY <2>1, <2>3 DEF Shaped, VideoCounted
<1>9. \A t \in Sessions \ {s} : Phase(t)' = Phase(t)
  BY <1>1, <1>2, <1>4 DEF Phase, IdleMain
<1>10. Phase(s) = "none"
  BY <1>1 DEF Phase, IdleMain
<1>11. Phase(s)' = IF scene THEN "waiting" ELSE "none"
  BY <1>1, <1>2, <1>3, <1>4 DEF Phase, IdleMain
<1>12. [Contract!Next]_(Contract!vars)
  <2>1. CASE scene
    <3>1. Contract!Open(s)
      BY <1>1, <1>9, <1>10, <1>11, <2>1, OnePhase, ResponsiveSeen
      DEF Contract!Open, Contract!Goes, AtStart, IdleMain
    <3>. QED BY <3>1 DEF Contract!Next
  <2>2. CASE ~scene
    <3>1. \A t \in Sessions : Phase(t)' = Phase(t)
      BY <1>9, <1>10, <1>11, <2>2
    <3>. QED BY <1>1, <3>1 DEF Contract!vars
  <2>. QED BY <2>1, <2>2
<1>. QED BY <1>5, <1>6, <1>8, <1>12 DEF Fits, PartsInv

LEMMA StartTimerFits ==
  ASSUME IInv, PartsInv, NEW s \in Sessions, StartTimer(s)
  PROVE  Fits
<1>1. /\ main = IdleMain /\ s # None /\ sess[s].page = "initialized"
      /\ main' = [pc |-> "acquire", session |-> s]
      /\ UNCHANGED <<scene, sess, active, sdl, bridge, signal>>
  BY LifeOf, WhereAt DEF StartTimer
<1>2. PartsInv'
  BY <1>1 DEF PartsInv, OnePage, Shaped, VideoCounted, WithVideo, BridgeFollowsStream,
     SignalFits
<1>3. \A t \in Sessions \ {s} : Phase(t)' = Phase(t)
  BY <1>1 DEF Phase, IdleMain
<1>4. Phase(s) = "none" /\ Phase(s)' = "waiting"
  BY <1>1 DEF Phase, IdleMain
<1>5. Contract!Open(s)
  BY <1>1, <1>3, <1>4, OnePhase, ResponsiveSeen
  DEF Contract!Open, Contract!Goes, AtStart, IdleMain
<1>. QED BY <1>2, <1>5 DEF Fits, Contract!Next

LEMMA StartFits ==
  ASSUME IInv, PartsInv, NEW s \in Sessions, Start(s)
  PROVE  Fits
<1>. DEFINE r == [sess[s] EXCEPT !.page = "open", !.input = TRUE, !.conn = "starting"]
<1>1. /\ sess[s] \in FieldsType /\ Life(scene, sess[s], active = s, Where(s), Calls(s))
      /\ Where(s) = "acquire" /\ main = [pc |-> "acquire", session |-> s] /\ s # None
      /\ active = None /\ active' = s /\ main' = IdleMain
      /\ UNCHANGED <<scene, sdl, bridge, signal>>
  BY LifeOf, WhereAt DEF Start, Return, At, IdleMain, IInv, Typed
<1>2. sess[s].page = "initialized" /\ ~Ended(sess[s])
  BY <1>1 DEF Life, BeforeStart, Holding, Ending, FieldsType, Pages
<1>3. /\ sess' = [sess EXCEPT ![s] = r] /\ r.page = "open" /\ r.tasks = sess[s].tasks
      /\ r.streaming = sess[s].streaming /\ r.cleaned = sess[s].cleaned
      /\ r.decoder = sess[s].decoder
  BY <1>1 DEF Start, FieldsType, IInv, Typed
<1>. HIDE DEF r
<1>4. sess'[s] = r /\ \A t \in Sessions \ {s} : sess'[t] = sess[t]
  BY <1>3 DEF IInv, Typed
<1>5. OnePage' /\ SignalFits' /\ Shaped(sdl)'
  BY <1>1, <1>2, <1>3, <1>4 DEF PartsInv, OnePage, SignalFits, Shaped
<1>6. VideoCounted' /\ BridgeFollowsStream'
  <2>1. \A t \in Sessions : WithVideo(t)' <=> WithVideo(t)
    BY <1>2, <1>3, <1>4 DEF WithVideo, Ended
  <2>. QED BY <1>1, <1>3, <1>4, <2>1 DEF PartsInv, VideoCounted, BridgeFollowsStream
<1>7. \A t \in Sessions \ {s} : Phase(t)' = Phase(t)
  BY <1>1, <1>4 DEF Phase, IdleMain
<1>8. Phase(s) = "waiting" /\ Phase(s)' = "open"
  BY <1>1, <1>2, <1>3, <1>4 DEF Phase, IdleMain, Ended
<1>9. Contract!Begin(s)
  BY <1>1, <1>7, <1>8, OnePhase DEF Contract!Begin, Contract!Goes
<1>. QED BY <1>5, <1>6, <1>9 DEF Fits, Contract!Next, PartsInv

\* A session that has ended leaves OnePage, the video count and the bridge.
LEMMA EndedGoes ==
  ASSUME IInv, PartsInv, NEW s \in Sessions, NEW r, Ended(sess[s]),
         sess' = [sess EXCEPT ![s] = r], r.page \notin {"initialized", "open"},
         r.page = "new" \/ Ended(r), ~StreamRuns(r),
         UNCHANGED <<scene, sdl, bridge, signal, main>>
  PROVE  PartsInv' /\ \A t \in Sessions \ {s} : Phase(t)' = Phase(t)
<1>1. sess'[s] = r /\ \A t \in Sessions \ {s} : sess'[t] = sess[t]
  BY DEF IInv, Typed
<1>2. ~StreamRuns(sess[s])
  BY RunningIsActive DEF NoneEnded
<1>3. OnePage' /\ SignalFits' /\ Shaped(sdl)'
  BY <1>1, <1>2 DEF PartsInv, OnePage, SignalFits, Shaped, StreamRuns
<1>4. \A t \in Sessions : WithVideo(t)' <=> WithVideo(t)
  BY <1>1 DEF WithVideo
<1>5. VideoCounted' /\ BridgeFollowsStream'
  BY <1>1, <1>2, <1>4 DEF PartsInv, VideoCounted, BridgeFollowsStream, StreamRuns
<1>6. \A t \in Sessions \ {s} : Phase(t)' = Phase(t)
  BY <1>1 DEF Phase
<1>. QED BY <1>3, <1>5, <1>6 DEF PartsInv

LEMMA FinishedFits ==
  ASSUME IInv, PartsInv, NEW s \in Sessions, SessionFinished(s)
  PROVE  Fits
<1>. DEFINE r == [sess[s] EXCEPT !.page = "popped"]
<1>1. /\ sess[s] \in FieldsType /\ Life(scene, sess[s], active = s, Where(s), Calls(s))
      /\ "finished" \in Calls(s) /\ main = IdleMain /\ s # None
      /\ UNCHANGED <<scene, active, main, sdl, bridge, signal>>
  BY LifeOf, WhereAt, TakenCall DEF SessionFinished, Kinds
<1>2. sess[s].page = "open" /\ Ended(sess[s]) /\ ~StreamRuns(sess[s])
  BY <1>1, RunningIsActive DEF Life, Queued, Told, NoneEnded
<1>3. /\ sess' = [sess EXCEPT ![s] = r] /\ r.page = "popped" /\ r.tasks = sess[s].tasks
      /\ r.streaming = sess[s].streaming /\ r.cleaned = sess[s].cleaned
  BY <1>1 DEF SessionFinished, FieldsType, IInv, Typed
<1>. HIDE DEF r
<1>4. PartsInv' /\ \A t \in Sessions \ {s} : Phase(t)' = Phase(t)
  BY <1>1, <1>2, <1>3, EndedGoes DEF Ended, StreamRuns
<1>5. sess'[s] = r
  BY <1>3 DEF IInv, Typed
<1>6. Phase(s) = "ending" /\ Phase(s)' = "finished"
  BY <1>1, <1>2, <1>3, <1>5 DEF Phase, IdleMain, Ended
<1>7. Contract!Finish(s)
  BY <1>1, <1>4, <1>6, OnePhase, ResponsiveSeen
  DEF Contract!Finish, Contract!Goes, AtStart, IdleMain
<1>. QED BY <1>4, <1>7 DEF Fits, Contract!Next

LEMMA ReadyFits ==
  ASSUME IInv, PartsInv, NEW s \in Sessions, SessionReadyForDeletion(s)
  PROVE  Fits
<1>1. /\ sess[s] \in FieldsType /\ Life(scene, sess[s], active = s, Where(s), Calls(s))
      /\ "ready" \in Calls(s) /\ main = IdleMain /\ s # None /\ sess[s].page = "popped"
      /\ sess' = [sess EXCEPT ![s] = Fresh]
      /\ UNCHANGED <<scene, active, main, sdl, bridge, signal>>
  BY LifeOf, WhereAt, TakenCall, ReadyKeeps DEF SessionReadyForDeletion, Kinds
<1>2. Ended(sess[s]) /\ active # s
  BY <1>1 DEF Life, Queued, Over, Holding
<1>3. Fresh.page = "new" /\ ~StreamRuns(Fresh)
  BY DEF Fresh, StreamRuns
<1>4. PartsInv' /\ \A t \in Sessions \ {s} : Phase(t)' = Phase(t)
  BY <1>1, <1>2, <1>3, EndedGoes
<1>5. sess'[s] = Fresh
  BY <1>1 DEF IInv, Typed
<1>6. Phase(s) = "finished" /\ Phase(s)' = "none"
  BY <1>1, <1>3, <1>5 DEF Phase, IdleMain
<1>7. Contract!Delete(s)
  BY <1>1, <1>2, <1>4, <1>6, OnePhase, ResponsiveSeen
  DEF Contract!Delete, Contract!Goes, AtStart, IdleMain
<1>. QED BY <1>4, <1>7 DEF Fits, Contract!Next

-----------------------------------------------------------------------------
(* ... inside a session *)

\* What a page, the bridge and the signal thread see of the fields.
SameSight(r, q) ==
  /\ r.page = q.page /\ r.tasks = q.tasks /\ r.streaming = q.streaming
  /\ r.cleaned = q.cleaned /\ r.decoder = q.decoder

LEMMA UnseenFits ==
  ASSUME IInv, PartsInv, NEW s \in Sessions, NEW r, sess' = [sess EXCEPT ![s] = r],
         SameSight(r, sess[s]), Shaped(sdl)', sdl'.refs = sdl.refs,
         UNCHANGED <<scene, active, main, bridge, signal>>
  PROVE  Fits
<1>1. /\ r.page = sess[s].page
      /\ Ended(r) <=> Ended(sess[s])
      /\ StreamRuns(r) <=> StreamRuns(sess[s])
      /\ sess[s].decoder = "none" \/ r.decoder # "none"
  BY DEF SameSight, Ended, StreamRuns
<1>. QED BY <1>1, InsideStep DEF Fits

LEMMA ConnectionFits ==
  ASSUME IInv, PartsInv, NEW s \in Sessions, ConnectionStep(s)
  PROVE  Fits
<1>1. sess[s] \in FieldsType
  BY LifeOf
<1>2. Shaped(sdl)' /\ sdl'.refs = sdl.refs /\ UNCHANGED <<scene, active, main, bridge, signal>>
  BY DEF ConnectionStep, ConnectionFailed, ConnectionUp, ConnectionReturned, PartsInv, Shaped
<1>3. \E r : sess' = [sess EXCEPT ![s] = r] /\ SameSight(r, sess[s])
  <2>. DEFINE f == [sess[s] EXCEPT !.conn = "finished"]
              u == [sess[s] EXCEPT !.conn = "connected", !.link = "up"]
              v == [sess[s] EXCEPT !.conn = "finished", !.success = TRUE]
  <2>1. SameSight(f, sess[s]) /\ SameSight(u, sess[s]) /\ SameSight(v, sess[s])
    BY <1>1 DEF SameSight, FieldsType
  <2>2. \/ sess' = [sess EXCEPT ![s] = f] \/ sess' = [sess EXCEPT ![s] = u]
        \/ sess' = [sess EXCEPT ![s] = v]
    BY DEF ConnectionStep, ConnectionFailed, ConnectionUp, ConnectionReturned, IInv, Typed
  <2>. HIDE DEF f, u, v
  <2>. QED BY <2>1, <2>2
<1>. QED BY <1>2, <1>3, UnseenFits

LEMMA TerminationFits ==
  ASSUME IInv, PartsInv, NEW s \in Sessions, ClConnectionTerminated(s)
  PROVE  Fits
<1>1. sess[s] \in FieldsType
  BY LifeOf
<1>2. Shaped(sdl)' /\ sdl'.refs = sdl.refs /\ UNCHANGED <<scene, active, main, bridge, signal>>
  <2>1. Shaped(sdl) /\ Shaped(Push(sdl, "quit")) /\ Push(sdl, "quit").refs = sdl.refs
    BY EventsOnly DEF PartsInv
  <2>2. sdl' = sdl \/ sdl' = Push(sdl, "quit")
    BY DEF ClConnectionTerminated, TerminationPush
  <2>3. Shaped(sdl)' /\ sdl'.refs = sdl.refs
    BY <2>1, <2>2 DEF Shaped
  <2>. QED BY <2>3 DEF ClConnectionTerminated
<1>3. PICK code \in {"graceful", "error"} :
        sess' = [sess EXCEPT ![s].terminated = code, ![s].unexpected = @ \/ code = "error"]
  BY DEF ClConnectionTerminated
<1>. DEFINE r == [sess[s] EXCEPT !.terminated = code, !.unexpected = @ \/ code = "error"]
<1>4. sess' = [sess EXCEPT ![s] = r] /\ SameSight(r, sess[s])
  BY <1>1, <1>3 DEF SameSight, FieldsType, IInv, Typed
<1>. HIDE DEF r
<1>. QED BY <1>2, <1>4, UnseenFits

\* The decoder thread's request: the decoder stays, faulted.
LEMMA RequestResetFits ==
  ASSUME IInv, PartsInv, NEW s \in Sessions, RequestDecoderReset(s)
  PROVE  Fits
<1>. DEFINE r == [sess[s] EXCEPT !.decoder = "faulted"]
<1>1. sess[s] \in FieldsType
  BY LifeOf
<1>2. /\ sess' = [sess EXCEPT ![s] = r] /\ r.page = sess[s].page /\ r.tasks = sess[s].tasks
      /\ r.streaming = sess[s].streaming /\ r.cleaned = sess[s].cleaned
      /\ r.decoder # "none"
  BY <1>1 DEF RequestDecoderReset, GivesUp, FieldsType, IInv, Typed
<1>3. Shaped(sdl)' /\ sdl'.refs = sdl.refs /\ UNCHANGED <<scene, active, main, bridge, signal>>
  <2>1. Shaped(sdl) /\ Shaped(Push(sdl, "reset")) /\ Push(sdl, "reset").refs = sdl.refs
    BY EventsOnly DEF PartsInv
  <2>2. sdl' = sdl \/ sdl' = Push(sdl, "reset")
    BY DEF RequestDecoderReset
  <2>3. Shaped(sdl)' /\ sdl'.refs = sdl.refs
    BY <2>1, <2>2 DEF Shaped
  <2>. QED BY <2>3 DEF RequestDecoderReset
<1>. HIDE DEF r
<1>. QED BY <1>2, <1>3, InsideStep DEF Fits, Ended, StreamRuns

LEMMA LoopFits ==
  ASSUME IInv, PartsInv, NEW s \in Sessions,
         \/ LoopQuit(s) \/ LoopBarrier(s) \/ LoopWindowIgnored(s) \/ LoopRecreate(s)
         \/ LoopUserQuit(s) \/ WindowEvent(s)
  PROVE  Fits
<1>1. InLoop(s) /\ UNCHANGED <<scene, active, bridge, signal>>
  BY DEF LoopQuit, LoopBarrier, LoopWindowIgnored, LoopRecreate, LoopUserQuit, WindowEvent,
         InLoop
<1>2. /\ sess[s] \in FieldsType /\ scene = FALSE /\ sess[s].page = "open" /\ ~Ended(sess[s])
      /\ ~sess[s].streaming /\ ~AtStart /\ signal.pc # "stopping"
  <2>1. /\ sess[s] \in FieldsType /\ scene = FALSE /\ MayEnd(scene, sess[s], Calls(s))
    BY <1>1, LoopMayEnd
  <2>2. sess[s].page = "open" /\ ~Ended(sess[s]) /\ ~sess[s].streaming
    BY <2>1 DEF MayEnd
  <2>. QED BY <1>1, <2>1, <2>2, SignalElsewhere DEF InLoop, At, AtStart
<1>3. Shaped(Rest) /\ Rest.refs = sdl.refs
  BY EventsOnly DEF Rest, PartsInv
<1>4. ASSUME NEW c \in FieldsType, c.page = "open", ~StreamRuns(c), NEW q, Shaped(q),
             q.refs = sdl.refs, DispatchDeferredCleanup(s, c, q)
      PROVE  Fits
  BY <1>1, <1>2, <1>4, EndStep DEF Fits, DispatchDeferredCleanup, Return, AtStart, StreamRuns
<1>5. CASE LoopQuit(s)
  BY <1>2, <1>3, <1>4, <1>5 DEF LoopQuit, StreamRuns
<1>6. CASE LoopBarrier(s)
  <2>. DEFINE r == [sess[s] EXCEPT !.flushing = @ - 1]
  <2>1. sess' = [sess EXCEPT ![s] = r] /\ SameSight(r, sess[s])
    BY <1>2, <1>6 DEF LoopBarrier, SameSight, FieldsType, IInv, Typed
  <2>. HIDE DEF r
  <2>. QED BY <1>3, <1>6, <2>1, UnseenFits DEF LoopBarrier
<1>7. CASE LoopWindowIgnored(s) \/ WindowEvent(s)
  <2>1. /\ sess' = [sess EXCEPT ![s] = sess[s]] /\ SameSight(sess[s], sess[s])
        /\ UNCHANGED <<scene, active, main, bridge, signal>>
    BY <1>7 DEF LoopWindowIgnored, WindowEvent, SameSight, IInv, Typed
  <2>2. Shaped(sdl)' /\ sdl'.refs = sdl.refs
    BY <1>3, <1>7, EventsOnly DEF LoopWindowIgnored, WindowEvent, PartsInv
  <2>. QED BY <2>1, <2>2, UnseenFits
<1>8. CASE LoopUserQuit(s)
  <2>. DEFINE r == [sess[s] EXCEPT !.shouldExit = TRUE]
  <2>1. SameSight(r, sess[s]) /\ SameSight(sess[s], sess[s])
    BY <1>2 DEF SameSight, FieldsType
  <2>2. sess' = [sess EXCEPT ![s] = r] \/ sess' = [sess EXCEPT ![s] = sess[s]]
    BY <1>8 DEF LoopUserQuit, IInv, Typed
  <2>3. Shaped(sdl)' /\ sdl'.refs = sdl.refs /\ UNCHANGED <<scene, active, main, bridge, signal>>
    BY <1>8, EventsOnly DEF LoopUserQuit, PartsInv
  <2>. HIDE DEF r
  <2>. QED BY <2>1, <2>2, <2>3, UnseenFits
<1>9. CASE LoopRecreate(s)
  <2>. DEFINE q == FlushResets(Push(Rest, "barrier"))
              c == Flushing(sess[s])
              r == [c EXCEPT !.decoder = "ok"]
  <2>1. Shaped(q) /\ q.refs = sdl.refs
    BY <1>3, EventsOnly
  <2>2. /\ c \in FieldsType /\ c.page = "open" /\ ~StreamRuns(c)
        /\ r.page = sess[s].page /\ r.tasks = sess[s].tasks
        /\ r.streaming = sess[s].streaming /\ r.cleaned = sess[s].cleaned
    BY <1>2 DEF Flushing, FieldsType, StreamRuns
  <2>. HIDE DEF q, c, r
  <2>3. CASE sess' = [sess EXCEPT ![s] = r] /\ sdl' = q /\ main' = main
    BY <1>1, <1>2, <2>1, <2>2, <2>3, InsideStep DEF Fits, Ended, StreamRuns
  <2>4. CASE DispatchDeferredCleanup(s, c, q)
    BY <1>4, <2>1, <2>2, <2>4
  <2>. QED BY <1>9, <2>3, <2>4 DEF LoopRecreate, q, c, r
<1>. QED BY <1>5, <1>6, <1>7, <1>8, <1>9

\* Every step of the cleanup task moves the only task on.
LEMMA TaskMoves ==
  ASSUME IInv, NEW s \in Sessions,
         TaskNotify(s) \/ TaskStopConnection(s) \/ TaskQuitApp(s) \/ TaskDone(s)
  PROVE  \E t \in Tasks, l \in {"none", "up", "stopped"} :
           /\ sess' = [sess EXCEPT ![s] = Moved(sess[s], 1, t, l)]
           /\ Len(sess[s].tasks) = 1 /\ Ended(sess[s])
<1>. DEFINE Goes(i) ==
       \/ \E quit \in BOOLEAN :
            sess' = [sess EXCEPT ![s].tasks[i] = [pc |-> "notified", quit |-> quit]]
       \/ sess' = [sess EXCEPT ![s].tasks[i].pc = "stopped", ![s].link = "stopped"]
       \/ \E new \in {"ended", "done"} : sess' = [sess EXCEPT ![s].tasks[i].pc = new]
<1>1. PICK i \in 1..2, pc \in {"queued", "notified", "stopped", "ended"} :
        TaskAt(s, i, pc) /\ Goes(i)
  <2>1. CASE TaskNotify(s)
    BY <2>1 DEF TaskNotify
  <2>2. CASE TaskStopConnection(s)
    BY <2>2 DEF TaskStopConnection
  <2>3. CASE TaskQuitApp(s)
    BY <2>3 DEF TaskQuitApp
  <2>4. CASE TaskDone(s)
    BY <2>4 DEF TaskDone, Finishable
  <2>. HIDE DEF Goes
  <2>. QED BY <2>1, <2>2, <2>3, <2>4
<1>2. /\ sess[s] \in FieldsType /\ sess[s].link \in {"none", "up", "stopped"}
      /\ i = 1 /\ Ended(sess[s]) /\ Len(sess[s].tasks) = 1 /\ sess[s].tasks[i] \in Tasks
  BY <1>1, LifeOf, OneTask, TaskTyped DEF FieldsType
<1>3. ASSUME NEW quit \in BOOLEAN,
             sess' = [sess EXCEPT ![s].tasks[i] = [pc |-> "notified", quit |-> quit]]
      PROVE  /\ [pc |-> "notified", quit |-> quit] \in Tasks
             /\ sess' = [sess EXCEPT ![s] = Moved(sess[s], 1,
                           [pc |-> "notified", quit |-> quit], sess[s].link)]
  BY <1>2, <1>3 DEF Tasks, FieldsType, IInv, Typed, Moved
<1>. DEFINE t(new) == [sess[s].tasks[i] EXCEPT !.pc = new]
<1>4. t("stopped") \in Tasks /\ t("ended") \in Tasks /\ t("done") \in Tasks
  BY <1>2 DEF Tasks
<1>5. CASE sess' = [sess EXCEPT ![s].tasks[i].pc = "stopped", ![s].link = "stopped"]
  <2>1. sess' = [sess EXCEPT ![s] = Moved(sess[s], 1, t("stopped"), "stopped")]
    BY <1>2, <1>5 DEF FieldsType, IInv, Typed, Moved
  <2>. QED BY <1>2, <1>4, <2>1
<1>6. ASSUME NEW new \in {"ended", "done"}, sess' = [sess EXCEPT ![s].tasks[i].pc = new]
      PROVE  sess' = [sess EXCEPT ![s] = Moved(sess[s], 1, t(new), sess[s].link)]
  BY <1>2, <1>6 DEF FieldsType, IInv, Typed, Moved
<1>. HIDE DEF t
<1>. QED BY <1>1, <1>2, <1>3, <1>4, <1>5, <1>6

LEMMA TaskFits ==
  ASSUME IInv, PartsInv, NEW s \in Sessions,
         TaskNotify(s) \/ TaskStopConnection(s) \/ TaskQuitApp(s)
  PROVE  Fits
<1>1. PICK t \in Tasks, l \in {"none", "up", "stopped"} :
        /\ sess' = [sess EXCEPT ![s] = Moved(sess[s], 1, t, l)]
        /\ Len(sess[s].tasks) = 1 /\ Ended(sess[s])
  BY TaskMoves
<1>. DEFINE r == Moved(sess[s], 1, t, l)
<1>2. SameStream(r, sess[s]) /\ Ended(r)
  BY <1>1, LifeOf, MovedFields
<1>3. /\ Shaped(sdl)' /\ sdl'.refs = sdl.refs
      /\ UNCHANGED <<scene, active, main, bridge, signal>>
  BY DEF PartsInv, Shaped, TaskNotify, TaskStopConnection, TaskQuitApp
<1>. HIDE DEF r
<1>. QED BY <1>1, <1>2, <1>3, InsideStep DEF Fits, StreamRuns, SameStream, r

\* The destructor of the task: the session is no longer the active one.
LEMMA TaskDoneFits ==
  ASSUME IInv, PartsInv, NEW s \in Sessions, TaskDone(s)
  PROVE  Fits
<1>1. PICK t \in Tasks, l \in {"none", "up", "stopped"} :
        /\ sess' = [sess EXCEPT ![s] = Moved(sess[s], 1, t, l)]
        /\ Len(sess[s].tasks) = 1 /\ Ended(sess[s])
  BY TaskMoves
<1>. DEFINE r == Moved(sess[s], 1, t, l)
<1>2. SameStream(r, sess[s]) /\ Ended(r) /\ sess' = [sess EXCEPT ![s] = r]
  BY <1>1, LifeOf, MovedFields
<1>3. active' = None /\ UNCHANGED <<scene, main, sdl, bridge, signal>>
  BY DEF TaskDone
<1>4. active = s /\ sess[s].page \in {"open", "popped"} /\ Where(s) = "idle"
  <2>1. PICK i \in 1..2 : TaskAt(s, i, "ended")
    BY DEF TaskDone, Finishable
  <2>2. ~Over(sess[s]) /\ sess[s].page \in {"open", "popped"} /\ Where(s) = "idle"
    BY <2>1, OneTask DEF Over
  <2>. QED BY <2>2, LifeOf DEF Life, Holding
<1>. HIDE DEF r
<1>5. sess'[s] = r /\ \A u \in Sessions \ {s} : sess'[u] = sess[u]
  BY <1>2 DEF IInv, Typed
<1>6. \A u \in Sessions :
        /\ sess'[u].page = sess[u].page
        /\ Ended(sess'[u]) <=> Ended(sess[u])
        /\ sess'[u].streaming = sess[u].streaming /\ sess'[u].cleaned = sess[u].cleaned
        /\ sess'[u].decoder = sess[u].decoder
  BY <1>1, <1>2, <1>5 DEF SameStream
<1>7. PartsInv'
  BY <1>3, <1>6 DEF PartsInv, OnePage, Shaped, VideoCounted, WithVideo, BridgeFollowsStream,
     SignalFits
<1>8. \A u \in Sessions : Phase(u)' = Phase(u)
  BY <1>3, <1>6 DEF Phase, Ended
<1>9. Phase(s) \in {"ending", "finished"}
  BY <1>1, <1>4 DEF Phase, Where, Ended
<1>10. Contract!Release(s)
  BY <1>3, <1>4, <1>8, <1>9 DEF Contract!Release
<1>. QED BY <1>7, <1>10 DEF Fits, Contract!Next

LEMMA InterruptFits ==
  ASSUME IInv, PartsInv, Interrupt
  PROVE  Fits
<1>. DEFINE s == active
<1>1. s \in Sessions /\ sess[s] \in FieldsType
  BY LifeOf DEF Interrupt, IInv, Typed
<1>2. PICK term \in BOOLEAN :
        sess' = [sess EXCEPT ![s].interrupted = TRUE, ![s].shouldExit = @ \/ term]
  BY DEF Interrupt
<1>. DEFINE r == [sess[s] EXCEPT !.interrupted = TRUE, !.shouldExit = @ \/ term]
<1>3. sess' = [sess EXCEPT ![s] = r] /\ SameSight(r, sess[s])
  BY <1>1, <1>2 DEF SameSight, FieldsType, IInv, Typed
<1>. HIDE DEF r
<1>4. sess'[s] = r
  BY <1>1, <1>3 DEF IInv, Typed
<1>5. Shaped(sdl)' /\ sdl'.refs = sdl.refs
  <2>1. Shaped(sdl) /\ Shaped(Push(sdl, "quit")) /\ Push(sdl, "quit").refs = sdl.refs
    BY EventsOnly DEF PartsInv
  <2>2. sdl' = sdl \/ sdl' = Push(sdl, "quit")
    BY DEF Interrupt
  <2>. QED BY <2>1, <2>2 DEF Shaped
<1>6. SignalFits'
  <2>1. signal'.session = s /\ (signal'.pc = "stopping" =>
          scene /\ sess[s].decoder # "none" /\ sess[s].streaming /\ ~sess[s].cleaned)
    BY DEF Interrupt
  <2>2. scene' = scene
    BY DEF Interrupt
  <2>. QED BY <1>1, <1>3, <1>4, <2>1, <2>2 DEF SignalFits, SameSight
<1>7. /\ r.page = sess[s].page
      /\ Ended(r) <=> Ended(sess[s])
      /\ StreamRuns(r) <=> StreamRuns(sess[s])
      /\ sess[s].decoder = "none" \/ r.decoder # "none"
  BY <1>3 DEF SameSight, Ended, StreamRuns
<1>8. UNCHANGED <<scene, active, main, bridge>>
  BY DEF Interrupt
<1>. QED BY <1>1, <1>3, <1>5, <1>6, <1>7, <1>8, InsideStep DEF Fits

LEMMA InterruptStopsFits ==
  ASSUME IInv, PartsInv, InterruptStops
  PROVE  Fits
<1>. DEFINE s == signal.session
            c == [sess[s] EXCEPT !.cleaned = TRUE]
<1>1. s \in Sessions /\ StreamRuns(sess[s])
  BY DEF InterruptStops, PartsInv, SignalFits, StreamRuns
<1>2. /\ sess[s] \in FieldsType /\ Life(scene, sess[s], active = s, Where(s), Calls(s))
      /\ sess[s].page = "open" /\ ~Ended(sess[s])
  BY <1>1, LifeOf, RunningIsActive DEF NoneEnded
<1>3. c \in FieldsType /\ c.page = "open" /\ ~StreamRuns(c)
  BY <1>2 DEF FieldsType, StreamRuns
<1>4. /\ sess' = [sess EXCEPT ![s] = Dispatch(Torn(c))] /\ bridge' = FALSE
      /\ sdl' = QuitVideo(sdl) /\ Shaped(sdl) /\ signal'.pc # "stopping"
      /\ UNCHANGED <<scene, active, main>>
  BY DEF InterruptStops, EndStream, DisabledBridge, PartsInv
<1>5. ~AtStart
  <2>. SUFFICES ASSUME main.pc = "acquire" PROVE FALSE
    BY DEF AtStart
  <2>. DEFINE t == main.session
  <2>1. t \in Sessions
    BY DEF IInv, Typed
  <2>2. /\ Life(scene, sess[t], active = t, Where(t), Calls(t)) /\ Where(t) = "acquire"
        /\ sess[t] \in FieldsType
    BY <2>1, LifeOf DEF Where
  <2>3. sess[t].page = "initialized"
    BY <2>2 DEF Life, BeforeStart, Holding, FieldsType, Pages
  <2>. QED BY <1>1, <1>2, <2>1, <2>3 DEF PartsInv, OnePage
<1>6. ~AtStart'
  BY <1>4, <1>5 DEF AtStart
<1>. HIDE DEF c
<1>. QED BY <1>1, <1>2, <1>3, <1>4, <1>5, <1>6, EndStep DEF Fits

-----------------------------------------------------------------------------
(* The invariant *)

LEMMA InitParts == Init => PartsInv /\ Contract!Init
<1>. SUFFICES ASSUME Init PROVE PartsInv /\ Contract!Init
  OBVIOUS
<1>1. \A s \in Sessions : sess[s].page = "new" /\ ~sess[s].streaming
  BY DEF Init, Fresh
<1>2. PartsInv
  BY <1>1 DEF Init, PartsInv, OnePage, Shaped, VideoCounted, WithVideo, BridgeFollowsStream,
     SignalFits
<1>3. \A s \in Sessions : Phase(s) = "none"
  BY <1>1 DEF Init, Phase
<1>. QED BY <1>2, <1>3 DEF Contract!Init, Init

LEMMA StutterKeeps ==
  ASSUME IInv, PartsInv, UNCHANGED vars
  PROVE  IInv' /\ Fits
<1>1. UNCHANGED <<scene, sess, active, semaphore, main, queue, sdl, bridge, signal>>
  BY DEF vars
<1>2. Fits
  BY <1>1, NothingSeen
<1>3. Typed' /\ Once' /\ ReadyLast'
  BY <1>1 DEF IInv, Typed, Once, ReadyLast
<1>4. ASSUME NEW s \in Sessions
      PROVE  /\ sess'[s] = sess[s] /\ scene' = scene /\ (active' = s) = (active = s)
             /\ Where(s)' = Where(s) /\ Calls(s)' = Calls(s)
  BY <1>1 DEF Where, Calls
<1>5. Lives'
  BY <1>4 DEF IInv, Lives
<1>. QED BY <1>2, <1>3, <1>5 DEF IInv

LEMMA NextKeeps ==
  ASSUME IInv, PartsInv, Apart, [Next]_vars
  PROVE  IInv' /\ Fits
<1>1. ASSUME NEW s \in Sessions, MainStep(s) PROVE IInv' /\ Fits
  <2>1. CASE StartTimer(s) \/ Start(s)
    BY <2>1, InitializeKeeps, StartKeeps, StartTimerFits, StartFits
  <2>2. CASE ExecFailed(s) \/ ExecScene(s)
    BY <2>2, ExecFailedKeeps, ExecSceneKeeps, ExecFailedFits, ExecSceneFits
  <2>3. CASE ExecSceneDecoder(s) \/ ExecWindow(s)
    BY <2>3, ExecSceneDecoderKeeps, ExecWindowKeeps, ExecSceneDecoderFits, ExecWindowFits
  <2>4. CASE HandleSceneConnectionTermination(s) \/ StopStream(s)
    BY <2>4, HandleTerminationKeeps, StopsFit, StopStreamKeeps, StopStreamFits
  <2>7. CASE HandleSceneDecoderReset(s) \/ DeleteDecoder(s) \/ RecreateDecoder(s)
    BY <2>7, HandleResetKeeps, DeleteDecoderKeeps, RecreateDecoderKeeps, ResetFits
  <2>5. CASE SessionFinished(s) \/ SessionReadyForDeletion(s)
    BY <2>5, FinishedKeeps, ReadyKeeps, FinishedFits, ReadyFits
  <2>6. CASE LoopQuit(s) \/ LoopBarrier(s) \/ LoopWindowIgnored(s) \/ LoopRecreate(s)
    BY <2>6, LoopStepKeeps, LoopFits
  <2>. QED BY <1>1, <2>1, <2>2, <2>3, <2>4, <2>5, <2>6, <2>7 DEF MainStep
<1>2. ASSUME NEW s \in Sessions, UserStep(s) PROVE IInv' /\ Fits
  BY <1>2, InitializeKeeps, InitializeFits, UserStopKeeps, StopsFit, LoopStepKeeps, LoopFits
  DEF UserStep
<1>3. ASSUME NEW s \in Sessions, ConnectionStep(s) PROVE IInv' /\ Fits
  BY <1>3, ConnectionKeeps, ConnectionFits DEF ConnectionStep
<1>4. ASSUME NEW s \in Sessions, TaskStep(s) PROVE IInv' /\ Fits
  BY <1>4, TaskNotifyKeeps, TaskStopKeeps, TaskQuitAppKeeps, TaskDoneKeeps, TaskFits,
     TaskDoneFits DEF TaskStep
<1>5. ASSUME NEW s \in Sessions, ClConnectionTerminated(s) \/ RequestDecoderReset(s)
      PROVE IInv' /\ Fits
  BY <1>5, TerminationKeeps, RequestResetKeeps, TerminationFits, RequestResetFits
<1>6. CASE Interrupt \/ InterruptStops
  BY <1>6, InterruptKeeps, InterruptStopsKeeps, InterruptFits, InterruptStopsFits
  DEF PartsInv
<1>7. CASE UNCHANGED vars
  BY <1>7, StutterKeeps
<1>. QED BY <1>1, <1>2, <1>3, <1>4, <1>5, <1>6, <1>7 DEF Next, Exited

LEMMA Inductive == Spec /\ []Apart => [](IInv /\ PartsInv)
<1>1. Init => IInv /\ PartsInv
  BY InitLives, InitParts
<1>2. IInv /\ PartsInv /\ Apart /\ [Next]_vars => (IInv /\ PartsInv)'
  BY NextKeeps DEF Fits
<1>. QED BY <1>1, <1>2, PTL DEF Spec

-----------------------------------------------------------------------------
(* What follows *)

\* No session's cleanup is dispatched twice, however many ends coincide: a
\* failed connection, the user, the host, the decoder, and a signal that does
\* not come while the main thread is itself in stopSession() or the reset
\* handler (Apart; when it does, there can be two).
THEOREM CleanupHappensOnce == Spec /\ []Apart => []CleanupOnce
<1>1. IInv => CleanupOnce
  <2>. SUFFICES ASSUME IInv, NEW s \in Sessions PROVE Len(sess[s].tasks) <= 1
    BY DEF CleanupOnce
  <2>1. Ended(sess[s]) => Len(sess[s].tasks) = 1
    BY LifeOf DEF Life, Ending
  <2>2. CASE Ended(sess[s])
    <3>1. Len(sess[s].tasks) = 1
      BY <2>1, <2>2
    <3>. QED BY <3>1
  <2>3. CASE sess[s].tasks = <<>>
    <3>1. Len(sess[s].tasks) = 0
      BY <2>3
    <3>. QED BY <3>1
  <2>. QED BY <2>2, <2>3 DEF Ended
<1>. QED BY <1>1, Inductive, PTL

\* s_ActiveSession is the session of every callback and connection thread
\* (under Apart, as all of these).
THEOREM CallbacksAreSeen == Spec /\ []Apart => []CallbacksSeeTheirSession
<1>1. IInv => CallbacksSeeTheirSession
  <2>. SUFFICES ASSUME IInv, NEW s \in Sessions,
                       sess[s].link = "up" \/ sess[s].conn \in {"starting", "connected"}
                PROVE  active = s
    BY DEF CallbacksSeeTheirSession
  <2>1. sess[s] \in FieldsType /\ Life(scene, sess[s], active = s, Where(s), Calls(s))
    BY LifeOf
  <2>2. ~Over(sess[s]) /\ sess[s].page \in {"open", "popped"}
    BY <2>1 DEF Life, BeforeStart, Connecting, Over, FieldsType, Pages
  <2>. QED BY <2>1, <2>2 DEF Life, Holding
<1>. QED BY <1>1, Inductive, PTL

\* No call is queued for a session object that was deleted or not yet started,
\* whatever threads queued it.
THEOREM CallsFindTheirSession == Spec /\ []Apart => []QueuedCallsFindTheirSession
<1>1. IInv => QueuedCallsFindTheirSession
  <2>. SUFFICES ASSUME IInv, NEW i \in DOMAIN queue
                PROVE  sess[queue[i].session].page \in {"open", "popped"}
    BY DEF QueuedCallsFindTheirSession
  <2>1. queue[i] \in Events /\ i \in 1..Len(queue)
    BY DEF IInv, Typed
  <2>. DEFINE s == queue[i].session
  <2>2. queue[i] = Event(queue[i].kind, s) /\ queue[i].kind \in Kinds /\ s \in Sessions
    BY <2>1 DEF Events, Event
  <2>. HIDE DEF s
  <2>3. Calls(s) # {}
    BY <2>1, <2>2 DEF Calls
  <2>4. sess[s] \in FieldsType /\ Life(scene, sess[s], active = s, Where(s), Calls(s))
    BY <2>2, LifeOf
  <2>. QED BY <2>3, <2>4 DEF Life, BeforeStart, FieldsType, Pages, s
<1>. QED BY <1>1, Inductive, PTL

\* Parts are given back in order, in any number of sessions, by every end but
\* that of a signal inside stopSession() or the reset handler of the main
\* thread, which Apart leaves out and which can leave a decoder behind.
THEOREM PartsAreGivenBackInOrder == Spec /\ []Apart => []GivenBackInOrder
<1>1. IInv /\ PartsInv => GivenBackInOrder
  <2>. SUFFICES ASSUME IInv, PartsInv PROVE GivenBackInOrder
    OBVIOUS
  <2>1. DecoderNeedsConnection /\ DecoderNeedsInput
    <3>. SUFFICES ASSUME NEW s \in Sessions, sess[s].decoder # "none"
                  PROVE  sess[s].link = "up" /\ sess[s].input
      BY DEF DecoderNeedsConnection, DecoderNeedsInput
    <3>. QED BY LifeOf DEF Life, Streaming, Connecting, FieldsType
  <2>2. InputGoneBeforeNavigation
    <3>. SUFFICES ASSUME NEW s \in Sessions, sess[s].page = "popped" PROVE ~sess[s].input
      BY DEF InputGoneBeforeNavigation
    <3>. QED BY LifeOf DEF Life, Ending, Told
  <2>3. VideoBalanced
    <3>. DEFINE V == {s \in Sessions : sess[s].page # "new" /\ sess[s].tasks = <<>>}
    <3>1. \A s \in Sessions : s \in V <=> WithVideo(s)
      BY DEF WithVideo, Ended
    <3>2. CASE \E s \in Sessions : WithVideo(s)
      <4>1. PICK s \in Sessions : WithVideo(s)
        BY <3>2
      <4>2. sess[s].page \in {"initialized", "open"}
        BY <4>1, LifeOf DEF Life, WithVideo, Ending, Told, FieldsType, Pages
      <4>3. V = {s}
        BY <3>1, <4>1, <4>2, OthersHaveNoVideo DEF PartsInv
      <4>. QED BY <3>2, <4>3, FS_Singleton DEF VideoBalanced, PartsInv, VideoCounted
    <3>3. CASE ~\E s \in Sessions : WithVideo(s)
      <4>1. V = {}
        BY <3>1, <3>3
      <4>. QED BY <3>3, <4>1, FS_EmptySet DEF VideoBalanced, PartsInv, VideoCounted
    <3>. QED BY <3>2, <3>3
  <2>. QED BY <2>1, <2>2, <2>3 DEF GivenBackInOrder, PartsInv
<1>. QED BY <1>1, Inductive, PTL

\* Sessions implement the contract with their pages: one at a time is the
\* active one, and its end is announced to a GUI thread that is not blocked
\* (under Apart).
THEOREM ContractIsKept == Spec /\ []Apart => KeepsContract
<1>1. Init => Contract!Init
  BY InitParts
<1>2. IInv /\ PartsInv /\ Apart /\ [Next]_vars => [Contract!Next]_(Contract!vars)
  BY NextKeeps DEF Fits
<1>. QED BY <1>1, <1>2, Inductive, PTL DEF Spec, KeepsContract, Contract!Spec

-----------------------------------------------------------------------------
(* Induction and recursion over 0..n *)

\* A set of naturals has a least element: what induction is done with here.
LEMMA LeastOf ==
  ASSUME NEW T \in SUBSET Nat, T # {}
  PROVE  \E m \in T : \A k \in T : m <= k
<1>. DEFINE R == {ss \in Nat \X Nat : ss[1] < ss[2]}
<1>1. IsWellFoundedOn(R, Nat)
  BY NatLessThanWellFounded DEF OpToRel
<1>2. \E x \in T : \A y \in T : ~ (<<y, x>> \in R)
  <2>. HIDE DEF R
  <2>. QED BY <1>1, WFMin
<1>3. PICK x \in T : \A y \in T : ~ (<<y, x>> \in R)
  BY <1>2
<1>4. ASSUME NEW y \in T PROVE x <= y
  <2>1. ~ (<<y, x>> \in R) /\ <<y, x>>[1] = y /\ <<y, x>>[2] = x /\ <<y, x>> \in Nat \X Nat
    BY <1>3
  <2>2. ~ (y < x)
    BY <2>1, Zenon
  <2>. QED BY <2>2
<1>. QED BY <1>4

\* What holds of 0 and of k whenever it holds of k - 1 holds up to any n.
LEMMA Counting ==
  ASSUME NEW n \in Nat, NEW T, 0 \in T, \A k \in 1..n : k - 1 \in T => k \in T
  PROVE  0..n \subseteq T
<1>. DEFINE M == {k \in 0..n : k \notin T}
<1>. SUFFICES ASSUME M # {} PROVE FALSE
  OBVIOUS
<1>1. PICK m \in M : \A k \in M : m <= k
  <2>1. M \in SUBSET Nat
    OBVIOUS
  <2>. HIDE DEF M
  <2>. QED BY <2>1, LeastOf
<1>2. m \in 1..n /\ m - 1 \in 0..n /\ m - 1 \in T
  BY <1>1
<1>. QED BY <1>2

\* There is a function that does one step after the other.
LEMMA Iteration ==
  ASSUME NEW S, NEW x \in S, NEW n \in Nat, NEW step \in [1..n -> [S -> S]]
  PROVE  \E f \in [0..n -> S] : f[0] = x /\ \A i \in 1..n : f[i] = step[i][f[i - 1]]
<1>. DEFINE Upto(k, f) == f[0] = x /\ \A i \in 1..k : f[i] = step[i][f[i - 1]]
            T == {k \in 0..n : \E f \in [0..k -> S] : Upto(k, f)}
<1>1. 0 \in T
  <2>. DEFINE f == [i \in 0..0 |-> x]
  <2>1. f \in [0..0 -> S] /\ Upto(0, f)
    OBVIOUS
  <2>. HIDE DEF f
  <2>. QED BY <2>1
<1>2. ASSUME NEW k \in 1..n, k - 1 \in T PROVE k \in T
  <2>1. PICK f \in [0..(k - 1) -> S] : Upto(k - 1, f)
    BY <1>2
  <2>. DEFINE y == step[k][f[k - 1]]
              g == [i \in 0..k |-> IF i = k THEN y ELSE f[i]]
  <2>2. y \in S
    OBVIOUS
  <2>3. g \in [0..k -> S] /\ g[k] = y /\ \A i \in 0..(k - 1) : g[i] = f[i]
    BY <2>2
  <2>4. Upto(k, g)
    <3>. HIDE DEF g
    <3>1. g[0] = x
      BY <2>1, <2>3
    <3>2. ASSUME NEW i \in 1..k PROVE g[i] = step[i][g[i - 1]]
      BY <2>1, <2>3
    <3>. QED BY <3>1, <3>2
  <2>. HIDE DEF g
  <2>. QED BY <2>3, <2>4
<1>3. 0..n \subseteq T
  <2>. HIDE DEF T
  <2>. QED BY <1>1, <1>2, Counting
<1>. QED BY <1>3

-----------------------------------------------------------------------------
(* SDL's events *)

SdlEvents == {"quit", "window", "barrier", "reset"}
Has(events, e) == \E i \in DOMAIN events : events[i] = e
Barriers(events) == Cardinality({i \in DOMAIN events : events[i] = "barrier"})

\* One event more at the end, or one less at the front.
LEMMA EventAppended ==
  ASSUME NEW q \in Seq(SdlEvents), NEW e \in SdlEvents
  PROVE  /\ Append(q, e) \in Seq(SdlEvents)
         /\ Has(Append(q, e), "reset") <=> Has(q, "reset") \/ e = "reset"
         /\ Barriers(q) \in Nat
         /\ Barriers(Append(q, e)) = Barriers(q) + (IF e = "barrier" THEN 1 ELSE 0)
<1>. DEFINE n == Len(q)
            p == Append(q, e)
            B == {i \in DOMAIN q : q[i] = "barrier"}
            C == {i \in DOMAIN p : p[i] = "barrier"}
<1>1. /\ n \in Nat /\ p \in Seq(SdlEvents) /\ DOMAIN q = 1..n /\ DOMAIN p = 1..(n + 1)
      /\ p[n + 1] = e /\ \A i \in 1..n : p[i] = q[i]
  OBVIOUS
<1>2. 1..(n + 1) = (1..n) \cup {n + 1} /\ n + 1 \notin 1..n
  BY <1>1
<1>. HIDE DEF n, p
<1>3. Has(p, "reset") <=> Has(q, "reset") \/ e = "reset"
  BY <1>1, <1>2 DEF Has
<1>4. C = IF e = "barrier" THEN B \cup {n + 1} ELSE B
  BY <1>1, <1>2
<1>5. IsFiniteSet(B) /\ Cardinality(B) \in Nat /\ n + 1 \notin B
  <2>1. B \subseteq 1..n /\ IsFiniteSet(1..n)
    BY <1>1, FS_Interval
  <2>. QED BY <1>2, <2>1, FS_Subset, FS_CardinalityType
<1>6. Cardinality(C) = Cardinality(B) + (IF e = "barrier" THEN 1 ELSE 0)
  <2>. HIDE DEF B, C
  <2>1. Cardinality(B \cup {n + 1}) = Cardinality(B) + 1
    BY <1>5, FS_AddElement
  <2>. QED BY <1>4, <1>5, <2>1
<1>7. Barriers(q) = Cardinality(B) /\ Barriers(p) = Cardinality(C)
  BY DEF Barriers
<1>. HIDE DEF B, C
<1>. QED BY <1>1, <1>3, <1>5, <1>6, <1>7 DEF p

LEMMA EventTaken ==
  ASSUME NEW q \in Seq(SdlEvents), q # <<>>
  PROVE  /\ Tail(q) \in Seq(SdlEvents) /\ Head(q) \in SdlEvents
         /\ Has(Tail(q), "reset") => Has(q, "reset")
         /\ Barriers(Tail(q)) \in Nat
         /\ Barriers(q) = Barriers(Tail(q)) + (IF Head(q) = "barrier" THEN 1 ELSE 0)
<1>. DEFINE n == Len(q)
            p == Tail(q)
            B == {i \in DOMAIN q : q[i] = "barrier"}
            C == {i \in DOMAIN p : p[i] = "barrier"}
            D == B \ {1}
            f == [i \in C |-> i + 1]
<1>1. /\ n \in Nat \ {0} /\ p \in Seq(SdlEvents) /\ DOMAIN q = 1..n /\ DOMAIN p = 1..(n - 1)
      /\ Head(q) = q[1] /\ \A i \in 1..(n - 1) : p[i] = q[i + 1]
  OBVIOUS
<1>2. \A i \in 2..n : i - 1 \in 1..(n - 1) /\ q[i] = p[i - 1]
  BY <1>1
<1>. HIDE DEF n, p
<1>3. Has(p, "reset") => Has(q, "reset")
  BY <1>1 DEF Has
<1>4. C \subseteq Nat /\ D \subseteq Nat
  BY <1>1
<1>5. f \in Bijection(C, D)
  <2>1. f \in [C -> D] /\ \A i, j \in C : f[i] = f[j] => i = j
    BY <1>1
  <2>2. ASSUME NEW j \in D PROVE \E i \in C : f[i] = j
    <3>1. j \in 2..n /\ q[j] = "barrier"
      BY <1>1
    <3>2. j - 1 \in C /\ f[j - 1] = j
      BY <1>1, <1>2, <3>1
    <3>. QED BY <3>2
  <2>. HIDE DEF f, C, D
  <2>. QED BY <2>1, <2>2 DEF Bijection, Injection, Surjection, IsInjective
<1>6. IsFiniteSet(B) /\ IsFiniteSet(C)
  <2>1. B \subseteq 1..n /\ C \subseteq 1..n
    BY <1>1
  <2>2. IsFiniteSet(1..n)
    BY <1>1, FS_Interval
  <2>. HIDE DEF B, C
  <2>. QED BY <2>1, <2>2, FS_Subset
<1>7. Cardinality(C) = Cardinality(D) /\ Cardinality(C) \in Nat
  <2>. HIDE DEF f, C, D
  <2>1. ExistsBijection(C, D)
    BY <1>5 DEF ExistsBijection
  <2>. QED BY <1>6, <2>1, FS_Bijection, FS_CardinalityType
<1>8. Cardinality(B) = Cardinality(D) + (IF Head(q) = "barrier" THEN 1 ELSE 0)
  <2>1. 1 \in B <=> Head(q) = "barrier"
    BY <1>1
  <2>2. Cardinality(B) \in Nat
    BY <1>6, FS_CardinalityType
  <2>3. CASE 1 \in B
    <3>1. Cardinality(D) = Cardinality(B) - 1
      BY <1>6, <2>3, FS_RemoveElement
    <3>. QED BY <2>1, <2>2, <2>3, <3>1
  <2>4. CASE 1 \notin B
    <3>1. D = B
      BY <2>4
    <3>. QED BY <2>1, <2>2, <2>4, <3>1
  <2>. QED BY <2>3, <2>4
<1>9. Barriers(q) = Cardinality(B) /\ Barriers(p) = Cardinality(C)
  BY DEF Barriers
<1>. HIDE DEF B, C, D
<1>10. p \in Seq(SdlEvents) /\ Head(q) \in SdlEvents
  BY DEF p
<1>. QED BY <1>3, <1>7, <1>8, <1>9, <1>10 DEF p

\* SDL_FlushEvent() leaves all but the requests, and every barrier.
LEMMA UnflushedIs ==
  ASSUME NEW q
  PROVE  q \in Seq(SdlEvents) =>
           LET u == Unflushed(q)
           IN  /\ u \in [0..Len(q) -> Seq(SdlEvents)] /\ u[0] = <<>>
               /\ \A i \in 1..Len(q) :
                    u[i] = IF q[i] = "reset" THEN u[i - 1] ELSE Append(u[i - 1], q[i])
<1>. DEFINE n == Len(q)
            S == Seq(SdlEvents)
            u == Unflushed(q)
            step == [i \in 1..n |-> [p \in S |-> IF q[i] = "reset" THEN p ELSE Append(p, q[i])]]
            Follows(g) == g = [i \in 0..n |-> IF i = 0 THEN <<>>
                              ELSE IF q[i] = "reset" THEN g[i - 1] ELSE Append(g[i - 1], q[i])]
            Q == q \in S
<1>1. Q => /\ n \in Nat /\ <<>> \in S /\ \A i \in 1..n : q[i] \in SdlEvents
           /\ \A p \in S, i \in 1..n : Append(p, q[i]) \in S
           /\ \A i \in 1..n : i \in 0..n /\ i - 1 \in 0..n /\ i # 0
  OBVIOUS
<1>. SUFFICES ASSUME Q
              PROVE  /\ u \in [0..n -> S] /\ u[0] = <<>>
                     /\ \A i \in 1..n : u[i] = IF q[i] = "reset" THEN u[i - 1]
                                               ELSE Append(u[i - 1], q[i])
  OBVIOUS
<1>. HIDE DEF Q, n, S
<1>2. Follows(u)
  <2>1. step \in [1..n -> [S -> S]]
    BY <1>1
  <2>2. PICK f \in [0..n -> S] : f[0] = <<>> /\ \A i \in 1..n : f[i] = step[i][f[i - 1]]
    <3>1. n \in Nat /\ <<>> \in S
      BY <1>1
    <3>. HIDE DEF step
    <3>. QED BY <2>1, <3>1, Iteration
  <2>3. \A i \in 1..n : f[i] = IF q[i] = "reset" THEN f[i - 1] ELSE Append(f[i - 1], q[i])
    BY <1>1, <2>2
  <2>4. Follows(f)
    <3>1. f = [i \in 0..n |-> f[i]]
      BY <2>2
    <3>2. ASSUME NEW i \in 0..n
          PROVE  f[i] = IF i = 0 THEN <<>>
                        ELSE IF q[i] = "reset" THEN f[i - 1] ELSE Append(f[i - 1], q[i])
      <4>1. i = 0 \/ i \in 1..n
        BY <1>1
      <4>. QED BY <1>1, <2>2, <2>3, <4>1
    <3>. QED BY <3>1, <3>2
  <2>5. u = CHOOSE g : Follows(g)
    BY DEF Unflushed, n
  <2>. HIDE DEF Follows, u
  <2>. QED BY <2>4, <2>5
<1>. HIDE DEF u
<1>3. u[0] = <<>> /\ 0 \in 0..n
  BY <1>1, <1>2
<1>4. ASSUME NEW i \in 1..n
      PROVE  u[i] = IF q[i] = "reset" THEN u[i - 1] ELSE Append(u[i - 1], q[i])
  BY <1>1, <1>2
<1>5. 0..n \subseteq {i \in 0..n : u[i] \in S}
  <2>. DEFINE T == {i \in 0..n : u[i] \in S}
  <2>1. 0 \in T /\ \A k \in 1..n : k - 1 \in T => k \in T
    BY <1>1, <1>3, <1>4
  <2>2. n \in Nat
    BY <1>1
  <2>3. 0..n \subseteq T
    <3>. HIDE DEF T
    <3>. QED BY <2>1, <2>2, Counting
  <2>. QED BY <2>3
<1>6. u \in [0..n -> S]
  BY <1>2, <1>5
<1>. QED BY <1>3, <1>4, <1>6

LEMMA Flushed ==
  ASSUME NEW q \in Seq(SdlEvents)
  PROVE  LET p == Unflushed(q)[Len(q)]
         IN  p \in Seq(SdlEvents) /\ ~Has(p, "reset") /\ Barriers(p) = Barriers(q)
<1>. DEFINE n == Len(q)
            u == Unflushed(q)
            B(k) == {i \in 1..k : q[i] = "barrier"}
            T == {k \in 0..n : ~Has(u[k], "reset") /\ Barriers(u[k]) = Cardinality(B(k))}
<1>1. n \in Nat /\ DOMAIN q = 1..n /\ \A i \in 1..n : q[i] \in SdlEvents
  OBVIOUS
<1>2. /\ u \in [0..n -> Seq(SdlEvents)] /\ u[0] = <<>>
      /\ \A i \in 1..n : u[i] = IF q[i] = "reset" THEN u[i - 1] ELSE Append(u[i - 1], q[i])
  BY UnflushedIs
<1>. HIDE DEF u, n
<1>3. 0 \in T
  <2>1. B(0) = {} /\ u[0] = <<>> /\ 0 \in 0..n
    BY <1>1, <1>2
  <2>2. ~Has(<<>>, "reset") /\ Barriers(<<>>) = 0
    <3>1. {i \in DOMAIN << >> : << >>[i] = "barrier"} = {}
      OBVIOUS
    <3>. QED BY <3>1, FS_EmptySet DEF Has, Barriers
  <2>3. Cardinality(B(0)) = 0
    <3>. HIDE DEF B
    <3>. QED BY <2>1, FS_EmptySet
  <2>. HIDE DEF B
  <2>. QED BY <2>1, <2>2, <2>3
<1>4. ASSUME NEW k \in 1..n, k - 1 \in T PROVE k \in T
  <2>1. /\ u[k - 1] \in Seq(SdlEvents) /\ q[k] \in SdlEvents /\ k \in 0..n
        /\ ~Has(u[k - 1], "reset") /\ Barriers(u[k - 1]) = Cardinality(B(k - 1))
    BY <1>1, <1>2, <1>4
  <2>2. IsFiniteSet(B(k - 1)) /\ k \notin B(k - 1) /\ Cardinality(B(k - 1)) \in Nat
    <3>1. IsFiniteSet(1..(k - 1)) /\ B(k - 1) \subseteq 1..(k - 1) /\ k \notin B(k - 1)
      BY <1>1, FS_Interval
    <3>. HIDE DEF B
    <3>. QED BY <3>1, FS_Subset, FS_CardinalityType
  <2>3. B(k) = IF q[k] = "barrier" THEN B(k - 1) \cup {k} ELSE B(k - 1)
    <3>1. 1..k = (1..(k - 1)) \cup {k}
      BY <1>1
    <3>. QED BY <3>1
  <2>. HIDE DEF B
  <2>4. Cardinality(B(k - 1) \cup {k}) = Cardinality(B(k - 1)) + 1
    BY <2>2, FS_AddElement
  <2>5. CASE q[k] = "reset"
    <3>1. u[k] = u[k - 1] /\ B(k) = B(k - 1)
      BY <1>2, <2>3, <2>5
    <3>. QED BY <2>1, <3>1
  <2>6. CASE q[k] # "reset"
    <3>1. u[k] = Append(u[k - 1], q[k])
      BY <1>2, <2>6
    <3>2. /\ ~Has(u[k], "reset")
          /\ Barriers(u[k]) = Barriers(u[k - 1]) + (IF q[k] = "barrier" THEN 1 ELSE 0)
          /\ Barriers(u[k - 1]) \in Nat
      BY <2>1, <2>6, <3>1, EventAppended
    <3>3. Barriers(u[k]) = Cardinality(B(k))
      BY <2>1, <2>2, <2>3, <2>4, <3>2
    <3>. QED BY <2>1, <3>2, <3>3
  <2>. QED BY <2>5, <2>6
<1>5. n \in T
  <2>. HIDE DEF T
  <2>1. 0..n \subseteq T
    BY <1>1, <1>3, <1>4, Counting
  <2>. QED BY <1>1, <2>1
<1>6. {i \in DOMAIN q : q[i] = "barrier"} = B(n)
  BY <1>1
<1>7. u[n] \in Seq(SdlEvents)
  BY <1>1, <1>2
<1>. QED BY <1>5, <1>6, <1>7 DEF Barriers, u, n

-----------------------------------------------------------------------------
(* What is queued for the loop *)

InTheLoop == main.pc = "loop"

\* A barrier is in the queue for every flush that goes on, a request to replace
\* the decoder only after that decoder gave up.
LoopMatches(r) ==
  /\ r.flushing = Barriers(sdl.events)
  /\ Has(sdl.events, "reset") => r.decoder = "faulted"

FlushInv ==
  /\ sdl.events \in Seq(SdlEvents)
  /\ \A s \in Sessions : /\ sess[s].flushing \in Nat
                         /\ Where(s) = "loop" \/ Ended(sess[s]) \/ sess[s].flushing = 0
                         /\ Where(s) = "loop" => LoopMatches(sess[s])
  /\ ~InTheLoop => Barriers(sdl.events) = 0 /\ ~Has(sdl.events, "reset")

OthersTyped ==
  /\ bridge \in BOOLEAN /\ quitAppAfter \in BOOLEAN /\ exiting \in BOOLEAN
  /\ signal \in [pc : {"idle", "stopping"}, session : Sessions \cup {None}]

\* SDL's video subsystem has one user at most: giving it back empties the queue.
LEMMA QuitEmpties ==
  ASSUME NEW q, q.refs <= 1
  PROVE  QuitVideo(q) = [refs |-> 0, events |-> <<>>]
  BY DEF QuitVideo

LEMMA NoEvents ==
  <<>> \in Seq(SdlEvents) /\ Barriers(<<>>) = 0 /\ ~Has(<<>>, "reset")
<1>1. {i \in DOMAIN <<>> : <<>>[i] = "barrier"} = {}
  OBVIOUS
<1>. QED BY <1>1, FS_EmptySet DEF Barriers, Has

\* What happens to the events at most outside of the loop.
LEMMA EventPushed ==
  ASSUME sdl.events \in Seq(SdlEvents), Shaped(sdl), NEW e \in SdlEvents
  PROVE  LET q == Push(sdl, e)
         IN  /\ q.events \in Seq(SdlEvents)
             /\ Has(q.events, "reset") => Has(sdl.events, "reset") \/ e = "reset"
             /\ e # "barrier" => Barriers(q.events) = Barriers(sdl.events)
             /\ sdl.refs # 0 => Barriers(q.events) =
                                  Barriers(sdl.events) + (IF e = "barrier" THEN 1 ELSE 0)
             /\ Barriers(sdl.events) \in Nat
<1>. DEFINE v == sdl.events
            w == Append(v, e)
            p == Push(sdl, e).events
<1>1. p = IF sdl.refs = 0 THEN v ELSE w
  BY DEF Push, Shaped
<1>2. /\ w \in Seq(SdlEvents)
      /\ Has(w, "reset") <=> Has(v, "reset") \/ e = "reset"
      /\ Barriers(v) \in Nat
      /\ Barriers(w) = Barriers(v) + (IF e = "barrier" THEN 1 ELSE 0)
  BY EventAppended
<1>3. v \in Seq(SdlEvents)
  OBVIOUS
<1>. HIDE DEF v, w, p
<1>4. /\ p \in Seq(SdlEvents)
      /\ Has(p, "reset") => Has(v, "reset") \/ e = "reset"
      /\ e # "barrier" => Barriers(p) = Barriers(v)
      /\ sdl.refs # 0 => Barriers(p) = Barriers(v) + (IF e = "barrier" THEN 1 ELSE 0)
  <2>1. CASE sdl.refs = 0
    BY <1>1, <1>3, <2>1
  <2>2. CASE sdl.refs # 0
    <3>1. p = w
      BY <1>1, <2>2
    <3>2. e # "barrier" => Barriers(w) = Barriers(v)
      BY <1>2
    <3>. QED BY <1>2, <3>1, <3>2
  <2>. QED BY <2>1, <2>2
<1>. QED BY <1>2, <1>4 DEF v, p

\* A step that leaves the loop and what is flushed in it alone.
Steady(s) ==
  /\ sess'[s].flushing = sess[s].flushing \/ (sess'[s].flushing = 0 /\ Where(s) # "loop")
  /\ Ended(sess[s]) => Ended(sess'[s]) \/ sess'[s].flushing = 0
  /\ Where(s) = "loop" => sess'[s].decoder \in {sess[s].decoder, "faulted"}
Nothing == [refs |-> 0, events |-> <<>>]

LEMMA AsideKeeps ==
  ASSUME IInv, IInv', FlushInv, Shaped(sdl), \A s \in Sessions : Steady(s),
         main' = main \/ (~InTheLoop /\ ~InTheLoop'),
         \/ sdl'.events = sdl.events
         \/ sdl' = Push(sdl, "quit") \/ sdl' = Push(sdl, "window")
         \/ ~InTheLoop /\ sdl' = Nothing
         \/ /\ sdl' = Push(sdl, "reset") /\ InTheLoop
            /\ sess'[main.session].decoder = "faulted"
  PROVE  FlushInv'
<1>. DEFINE G == /\ sdl'.events \in Seq(SdlEvents)
                 /\ InTheLoop => Barriers(sdl'.events) = Barriers(sdl.events)
                 /\ ~InTheLoop => Barriers(sdl'.events) = 0 /\ ~Has(sdl'.events, "reset")
                 /\ InTheLoop /\ Has(sdl'.events, "reset")
                      => Has(sdl.events, "reset") \/ sess'[main.session].decoder = "faulted"
<1>1. G
  <2>1. CASE sdl'.events = sdl.events
    BY <2>1 DEF FlushInv
  <2>2. CASE sdl' = Push(sdl, "quit")
    BY <2>2, EventPushed DEF FlushInv, SdlEvents
  <2>3. CASE sdl' = Push(sdl, "window")
    BY <2>3, EventPushed DEF FlushInv, SdlEvents
  <2>4. CASE ~InTheLoop /\ sdl' = Nothing
    BY <2>4, NoEvents DEF Nothing
  <2>5. CASE /\ sdl' = Push(sdl, "reset") /\ InTheLoop
             /\ sess'[main.session].decoder = "faulted"
    BY <2>5, EventPushed DEF FlushInv, SdlEvents
  <2>. HIDE DEF G
  <2>. QED BY <2>1, <2>2, <2>3, <2>4, <2>5
<1>2. ASSUME NEW s \in Sessions
      PROVE  /\ sess'[s].flushing \in Nat
             /\ Where(s)' = "loop" \/ Ended(sess'[s]) \/ sess'[s].flushing = 0
             /\ Where(s)' = "loop" => LoopMatches(sess[s])'
  <2>1. Where(s)' = "loop" <=> Where(s) = "loop"
    BY DEF Where, InTheLoop
  <2>2. Steady(s) /\ sess[s].flushing \in Nat
        /\ (Where(s) = "loop" \/ Ended(sess[s]) \/ sess[s].flushing = 0)
        /\ (Where(s) = "loop" => LoopMatches(sess[s]))
    BY DEF FlushInv
  <2>3. Where(s) = "loop" => main.session = s /\ InTheLoop
    BY DEF Where, InTheLoop
  <2>. QED BY <1>1, <2>1, <2>2, <2>3 DEF Steady, LoopMatches
<1>3. InTheLoop' <=> InTheLoop
  BY DEF InTheLoop
<1>. QED BY <1>1, <1>2, <1>3 DEF FlushInv

LEMMA OthersSteady ==
  ASSUME IInv, NEW s \in Sessions, NEW r, sess' = [sess EXCEPT ![s] = r],
         r.flushing = sess[s].flushing \/ (r.flushing = 0 /\ Where(s) # "loop"),
         Ended(sess[s]) => Ended(r) \/ r.flushing = 0,
         Where(s) = "loop" => r.decoder \in {sess[s].decoder, "faulted"}
  PROVE  \A t \in Sessions : Steady(t)
<1>1. sess'[s] = r /\ \A t \in Sessions \ {s} : sess'[t] = sess[t]
  BY DEF IInv, Typed
<1>. QED BY <1>1 DEF Steady

LEMMA AllSteady ==
  ASSUME sess' = sess
  PROVE  \A t \in Sessions : Steady(t)
  BY DEF Steady

LEMMA OneReference == ASSUME PartsInv PROVE sdl.refs <= 1 /\ Shaped(sdl)
  BY DEF PartsInv, VideoCounted

\* An end: the cleanup is dispatched.
LEMMA EndsSteady ==
  ASSUME IInv, NEW s \in Sessions, Where(s) # "loop", NEW c \in FieldsType,
         c.flushing = sess[s].flushing, sess' = [sess EXCEPT ![s] = Dispatch(Torn(c))]
  PROVE  \A t \in Sessions : Steady(t)
<1>. DEFINE r == Dispatch(Torn(c))
<1>1. Ended(r)
  BY DispatchFields
<1>2. r.flushing = c.flushing
  BY DEF Dispatch, Torn, FieldsType
<1>. HIDE DEF r
<1>. QED BY <1>1, <1>2, OthersSteady DEF r

LEMMA StopSteady ==
  ASSUME IInv, NEW s \in Sessions, Where(s) # "loop", StopSession(s)
  PROVE  (\A t \in Sessions : Steady(t)) /\ sdl' = sdl
<1>. DEFINE r == [sess[s] EXCEPT !.interrupted = TRUE]
<1>1. r.flushing = sess[s].flushing /\ r.tasks = sess[s].tasks
  BY LifeOf DEF FieldsType
<1>2. (sess' = sess \/ sess' = [sess EXCEPT ![s] = r]) /\ sdl' = sdl
  BY DEF StopSession
<1>. HIDE DEF r
<1>. QED BY <1>1, <1>2, OthersSteady, AllSteady DEF Ended

LEMMA ElsewhereIs ==
  ASSUME IInv, NEW s \in Sessions
  PROVE  /\ sess[s] \in FieldsType
         /\ Idle(s) => ~InTheLoop /\ Where(s) # "loop"
         /\ \A pc \in Places \ {"loop"} : At(pc, s) => ~InTheLoop /\ Where(s) # "loop"
         /\ Return => ~InTheLoop'
<1>1. sess[s] \in FieldsType
  BY LifeOf
<1>. QED BY <1>1 DEF Idle, At, Return, InTheLoop, Where

\* The steps of the main thread outside of the loop.
LEMMA OutsideKeeps ==
  ASSUME IInv, IInv', PartsInv, FlushInv, NEW s \in Sessions,
         \/ Initialize(s) \/ StartTimer(s) \/ Start(s)
         \/ UserStop(s) \/ StopStream(s) \/ ExecSceneDecoder(s)
         \/ HandleSceneConnectionTermination(s)
         \/ HandleSceneDecoderReset(s) \/ DeleteDecoder(s) \/ RecreateDecoder(s)
         \/ ExecFailed(s) \/ ExecScene(s)
         \/ SessionFinished(s) \/ SessionReadyForDeletion(s)
  PROVE  FlushInv'
<1>. DEFINE Aside == (\A t \in Sessions : Steady(t)) /\ (sdl'.events = sdl.events \/ sdl' = Nothing)
<1>1. sess[s] \in FieldsType /\ sess \in [Sessions -> FieldsType]
  BY ElsewhereIs DEF IInv, Typed
<1>2. ~InTheLoop /\ Where(s) # "loop" /\ ~InTheLoop'
  <2>1. Idle(s) \/ \E pc \in Places \ {"loop"} : At(pc, s)
    BY DEF Places, StopStream, DeleteDecoder, RecreateDecoder, Initialize, StartTimer, Start, UserStop, ExecSceneDecoder,
       HandleSceneConnectionTermination, HandleSceneDecoderReset, ExecFailed, ExecScene,
       SessionFinished, SessionReadyForDeletion, Take
  <2>2. \/ main' = main \/ Return
        \/ \E pc \in Places \ {"loop"} : main' = [pc |-> pc, session |-> s]
    BY DEF Places, StopStream, DeleteDecoder, RecreateDecoder, StopSession, Initialize, StartTimer, Start, UserStop, ExecSceneDecoder,
       HandleSceneConnectionTermination, HandleSceneDecoderReset, ExecFailed, ExecScene,
       SessionFinished, SessionReadyForDeletion
  <2>3. ~InTheLoop /\ Where(s) # "loop"
    BY <2>1, ElsewhereIs
  <2>. QED BY <2>2, <2>3, ElsewhereIs DEF InTheLoop
<1>3. ASSUME Initialize(s) \/ StartTimer(s) \/ Start(s) PROVE Aside
  <2>1. CASE Initialize(s)
    <3>. DEFINE r == [sess[s] EXCEPT !.page = "initialized"]
    <3>1. sess' = [sess EXCEPT ![s] = r] /\ r.flushing = sess[s].flushing /\ r.tasks = sess[s].tasks
      BY <1>1, <2>1 DEF Initialize, FieldsType
    <3>2. sdl'.events = sdl.events
      BY <2>1, OneReference DEF Initialize, Shaped
    <3>. HIDE DEF r
    <3>. QED BY <1>2, <3>1, <3>2, OthersSteady DEF Ended
  <2>2. CASE StartTimer(s)
    BY <2>2, AllSteady DEF StartTimer
  <2>3. CASE Start(s)
    <3>. DEFINE r == [sess[s] EXCEPT !.page = "open", !.input = TRUE, !.conn = "starting"]
    <3>1. sess' = [sess EXCEPT ![s] = r] /\ r.flushing = sess[s].flushing /\ r.tasks = sess[s].tasks
      BY <1>1, <2>3 DEF Start, FieldsType
    <3>. HIDE DEF r
    <3>. QED BY <1>2, <2>3, <3>1, OthersSteady DEF Ended, Start
  <2>. HIDE DEF Aside
  <2>. QED BY <1>3, <2>1, <2>2, <2>3
<1>4. ASSUME StopSession(s) PROVE Aside
  BY <1>2, <1>4, StopSteady
<1>5. ASSUME ~StopSession(s),
             ExecSceneDecoder(s) \/ DeleteDecoder(s) \/ RecreateDecoder(s)
      PROVE  Aside
  <2>. DEFINE r == [sess[s] EXCEPT !.decoder = "ok", !.unexpected = FALSE]
              n == [sess[s] EXCEPT !.decoder = "none"]
              o == [sess[s] EXCEPT !.decoder = "ok"]
  <2>1. \A q \in {r, n, o} : q.flushing = sess[s].flushing /\ q.tasks = sess[s].tasks
    BY <1>1 DEF FieldsType
  <2>2. (\E q \in {r, n, o} : sess' = [sess EXCEPT ![s] = q]) /\ sdl' = sdl
    BY <1>1, <1>5 DEF ExecSceneDecoder, DeleteDecoder, RecreateDecoder
  <2>. HIDE DEF r, n, o
  <2>. QED BY <1>2, <2>1, <2>2, OthersSteady DEF Ended
<1>9. ASSUME HandleSceneDecoderReset(s) PROVE Aside
  BY <1>9, AllSteady DEF HandleSceneDecoderReset
<1>10. ASSUME StopStream(s) PROVE Aside
  <2>. DEFINE c == [sess[s] EXCEPT !.cleaned = TRUE]
  <2>1. c \in FieldsType /\ c.flushing = sess[s].flushing
    BY <1>1 DEF FieldsType
  <2>2. sess' = [sess EXCEPT ![s] = Dispatch(Torn(c))] /\ sdl' = QuitVideo(sdl)
    BY <1>10 DEF StopStream, EndStream
  <2>. HIDE DEF c
  <2>3. sdl' = Nothing
    BY <2>2, OneReference, QuitEmpties DEF Nothing
  <2>. QED BY <1>2, <2>1, <2>2, <2>3, EndsSteady
<1>6. ASSUME ExecFailed(s) \/ ExecScene(s) PROVE Aside
  <2>1. CASE ExecFailed(s)
    <3>. DEFINE c == [sess[s] EXCEPT !.cleaned = @ \/ scene]
    <3>1. c \in FieldsType /\ c.flushing = sess[s].flushing
      BY <1>1 DEF FieldsType, IInv, Typed
    <3>2. sess' = [sess EXCEPT ![s] = Dispatch(Torn(c))] /\ sdl' = QuitVideo(sdl)
      BY <2>1 DEF ExecFailed, QuitVideoOnFailure
    <3>. HIDE DEF c
    <3>3. sdl' = Nothing
      BY <3>2, OneReference, QuitEmpties DEF Nothing
    <3>. QED BY <1>2, <3>1, <3>2, <3>3, EndsSteady
  <2>2. CASE ExecScene(s) /\ sess' = sess
    BY <2>2, AllSteady DEF ExecScene
  <2>3. CASE ExecScene(s) /\ sess' = [sess EXCEPT ![s].streaming = TRUE]
    <3>. DEFINE r == [sess[s] EXCEPT !.streaming = TRUE]
    <3>1. sess' = [sess EXCEPT ![s] = r] /\ r.flushing = sess[s].flushing /\ r.tasks = sess[s].tasks
      BY <1>1, <2>3 DEF FieldsType
    <3>. HIDE DEF r
    <3>. QED BY <1>2, <2>3, <3>1, OthersSteady DEF Ended, ExecScene
  <2>. HIDE DEF Aside
  <2>. QED BY <1>6, <2>1, <2>2, <2>3 DEF ExecScene
<1>7. ASSUME SessionFinished(s) \/ SessionReadyForDeletion(s) PROVE Aside
  <2>1. CASE SessionFinished(s)
    <3>. DEFINE r == [sess[s] EXCEPT !.page = "popped"]
    <3>1. sess' = [sess EXCEPT ![s] = r] /\ r.flushing = sess[s].flushing /\ r.tasks = sess[s].tasks
      BY <1>1, <2>1 DEF SessionFinished, FieldsType
    <3>. HIDE DEF r
    <3>. QED BY <1>2, <2>1, <3>1, OthersSteady DEF Ended, SessionFinished
  <2>2. CASE SessionReadyForDeletion(s)
    <3>1. Fresh.flushing = 0
      BY DEF Fresh
    <3>. QED BY <1>2, <2>2, <3>1, OthersSteady DEF SessionReadyForDeletion
  <2>. HIDE DEF Aside
  <2>. QED BY <1>7, <2>1, <2>2
<1>8. Aside
  <2>. HIDE DEF Aside
  <2>1. UserStop(s) \/ HandleSceneConnectionTermination(s) => StopSession(s)
    BY DEF UserStop, HandleSceneConnectionTermination
  <2>. QED BY <1>3, <1>4, <1>5, <1>6, <1>7, <1>9, <1>10, <2>1
<1>. QED BY <1>2, <1>8, AsideKeeps, OneReference

\* The connection, its listener, the pool: they do not know of the loop.
LEMMA ThreadsKeep ==
  ASSUME IInv, IInv', PartsInv, FlushInv, NEW s \in Sessions,
         ConnectionStep(s) \/ TaskStep(s) \/ ClConnectionTerminated(s)
  PROVE  FlushInv'
<1>. DEFINE Aside == /\ \A t \in Sessions : Steady(t)
                     /\ sdl' = sdl \/ sdl' = Push(sdl, "quit")
<1>1. sess[s] \in FieldsType /\ sess \in [Sessions -> FieldsType]
  BY ElsewhereIs DEF IInv, Typed
<1>2. ASSUME ConnectionStep(s) PROVE Aside
  <2>1. PICK r \in FieldsType : /\ sess' = [sess EXCEPT ![s] = r]
                                /\ r.flushing = sess[s].flushing /\ r.tasks = sess[s].tasks
                                /\ r.decoder = sess[s].decoder
    <3>. DEFINE r1 == [sess[s] EXCEPT !.conn = "finished"]
                r2 == [sess[s] EXCEPT !.conn = "connected", !.link = "up"]
                r3 == [sess[s] EXCEPT !.conn = "finished", !.success = TRUE]
    <3>1. sess' = [sess EXCEPT ![s] = r1] \/ sess' = [sess EXCEPT ![s] = r2]
          \/ sess' = [sess EXCEPT ![s] = r3]
      BY <1>1, <1>2 DEF ConnectionStep, ConnectionFailed, ConnectionUp, ConnectionReturned
    <3>. DEFINE Kept(r) == /\ r \in FieldsType /\ r.flushing = sess[s].flushing
                           /\ r.tasks = sess[s].tasks /\ r.decoder = sess[s].decoder
    <3>2. Kept(r1)
      BY <1>1 DEF FieldsType
    <3>3. Kept(r2)
      BY <1>1 DEF FieldsType
    <3>4. Kept(r3)
      BY <1>1 DEF FieldsType
    <3>. HIDE DEF r1, r2, r3
    <3>. QED BY <3>1, <3>2, <3>3, <3>4
  <2>2. sdl' = sdl
    BY <1>2 DEF ConnectionStep, ConnectionFailed, ConnectionUp, ConnectionReturned
  <2>. QED BY <2>1, <2>2, OthersSteady DEF Ended
<1>3. ASSUME TaskStep(s) PROVE Aside
  <2>1. PICK t \in Tasks, l \in {"none", "up", "stopped"} :
          /\ sess' = [sess EXCEPT ![s] = Moved(sess[s], 1, t, l)]
          /\ Len(sess[s].tasks) = 1 /\ Ended(sess[s])
    BY <1>3, TaskMoves DEF TaskStep
  <2>. DEFINE r == Moved(sess[s], 1, t, l)
  <2>2. Ended(r)
    BY <1>1, <2>1, MovedFields
  <2>3. r.flushing = sess[s].flushing /\ r.decoder = sess[s].decoder
    BY <1>1 DEF Moved, FieldsType
  <2>4. sdl' = sdl
    BY <1>3 DEF TaskStep, TaskNotify, TaskStopConnection, TaskQuitApp, TaskDone
  <2>. HIDE DEF r
  <2>. QED BY <2>1, <2>2, <2>3, <2>4, OthersSteady DEF r
<1>4. ASSUME ClConnectionTerminated(s) PROVE Aside
  <2>1. PICK code \in {"graceful", "error"} :
          sess' = [sess EXCEPT ![s].terminated = code, ![s].unexpected = @ \/ code = "error"]
    BY <1>4 DEF ClConnectionTerminated
  <2>. DEFINE r == [sess[s] EXCEPT !.terminated = code, !.unexpected = @ \/ code = "error"]
  <2>2. /\ sess' = [sess EXCEPT ![s] = r]
        /\ r.flushing = sess[s].flushing /\ r.decoder = sess[s].decoder
        /\ r.tasks = sess[s].tasks
    BY <1>1, <2>1 DEF FieldsType
  <2>3. sdl' = sdl \/ sdl' = Push(sdl, "quit")
    BY <1>4 DEF ClConnectionTerminated, TerminationPush
  <2>. HIDE DEF r
  <2>. QED BY <2>2, <2>3, OthersSteady DEF Ended
<1>5. main' = main
  BY DEF ConnectionStep, ConnectionFailed, ConnectionUp, ConnectionReturned, TaskStep,
     TaskNotify, TaskStopConnection, TaskQuitApp, TaskDone, ClConnectionTerminated
<1>6. Aside
  <2>. HIDE DEF Aside
  <2>. QED BY <1>2, <1>3, <1>4
<1>. QED BY <1>5, <1>6, AsideKeeps, OneReference

\* A decoder gives up, in the loop or for the Qt queue.
LEMMA GivingUpKeeps ==
  ASSUME IInv, IInv', PartsInv, FlushInv, NEW s \in Sessions, RequestDecoderReset(s)
  PROVE  FlushInv'
<1>1. sess[s] \in FieldsType /\ sess \in [Sessions -> FieldsType]
  BY ElsewhereIs DEF IInv, Typed
<1>. DEFINE r == [sess[s] EXCEPT !.decoder = "faulted"]
<1>2. /\ sess' = [sess EXCEPT ![s] = r] /\ r.flushing = sess[s].flushing
      /\ r.tasks = sess[s].tasks /\ r.decoder = "faulted"
  BY <1>1 DEF RequestDecoderReset, GivesUp, FieldsType
<1>. HIDE DEF r
<1>3. \A t \in Sessions : Steady(t)
  BY <1>2, OthersSteady DEF Ended
<1>4. sess'[s].decoder = "faulted"
  BY <1>1, <1>2
<1>5. main' = main
  BY DEF RequestDecoderReset
<1>6. CASE scene
  <2>1. sdl' = sdl
    BY <1>6 DEF RequestDecoderReset
  <2>. QED BY <1>3, <1>5, <2>1, AsideKeeps, OneReference
<1>7. CASE ~scene
  <2>1. sdl' = Push(sdl, "reset")
    BY <1>7 DEF RequestDecoderReset
  <2>2. Life(scene, sess[s], active = s, Where(s), Calls(s))
    BY LifeOf
  <2>3. Where(s) = "loop"
    BY <1>7, <2>2 DEF Life, Streaming, RequestDecoderReset
  <2>4. InTheLoop /\ main.session = s
    BY <2>3 DEF Where, InTheLoop
  <2>. QED BY <1>3, <1>4, <1>5, <2>1, <2>4, AsideKeeps, OneReference
<1>. QED BY <1>6, <1>7

\* The signal thread.
LEMMA SignalKeeps ==
  ASSUME IInv, IInv', PartsInv, FlushInv, Interrupt \/ InterruptStops
  PROVE  FlushInv'
<1>1. ASSUME Interrupt PROVE FlushInv'
  <2>. DEFINE s == active
  <2>1. s \in Sessions /\ sess[s] \in FieldsType /\ sess \in [Sessions -> FieldsType]
    BY <1>1, LifeOf DEF Interrupt, IInv, Typed
  <2>2. PICK term \in BOOLEAN :
          sess' = [sess EXCEPT ![s].interrupted = TRUE, ![s].shouldExit = @ \/ term]
    BY <1>1 DEF Interrupt
  <2>. DEFINE r == [sess[s] EXCEPT !.interrupted = TRUE, !.shouldExit = @ \/ term]
  <2>3. sess' = [sess EXCEPT ![s] = r] /\ SameSight(r, sess[s])
    BY <2>1, <2>2 DEF SameSight, FieldsType
  <2>6. r.flushing = sess[s].flushing
    BY <2>1 DEF FieldsType
  <2>4. (sdl' = sdl \/ sdl' = Push(sdl, "quit")) /\ main' = main
    BY <1>1 DEF Interrupt
  <2>. HIDE DEF r, s
  <2>5. \A t \in Sessions : Steady(t)
    BY <2>1, <2>3, <2>6, OthersSteady DEF Ended, SameSight
  <2>. QED BY <2>4, <2>5, AsideKeeps, OneReference
<1>2. ASSUME InterruptStops PROVE FlushInv'
  <2>. DEFINE s == signal.session
              c == [sess[s] EXCEPT !.cleaned = TRUE]
  <2>1. s \in Sessions /\ scene
    BY <1>2 DEF InterruptStops, PartsInv, SignalFits
  <2>2. sess[s] \in FieldsType
    BY <2>1, LifeOf
  <2>3. ~InTheLoop
    <3>. SUFFICES ASSUME InTheLoop PROVE FALSE
      OBVIOUS
    <3>. DEFINE t == main.session
    <3>1. t \in Sessions /\ Where(t) = "loop"
      BY DEF IInv, Typed, InTheLoop, Where
    <3>. HIDE DEF t
    <3>. QED BY <2>1, <3>1, LifeOf DEF Life, Streaming
  <2>4. Where(s) # "loop"
    BY <2>3 DEF Where, InTheLoop
  <2>5. c \in FieldsType /\ c.flushing = sess[s].flushing
    BY <2>2 DEF FieldsType
  <2>6. /\ sess' = [sess EXCEPT ![s] = Dispatch(Torn(c))]
        /\ sdl' = QuitVideo(sdl) /\ main' = main
    BY <1>2 DEF InterruptStops, EndStream
  <2>7. sdl' = Nothing
    BY <2>6, OneReference, QuitEmpties DEF Nothing
  <2>. HIDE DEF c, s
  <2>8. \A t \in Sessions : Steady(t)
    BY <2>1, <2>4, <2>5, <2>6, EndsSteady
  <2>. QED BY <2>3, <2>6, <2>7, <2>8, AsideKeeps, OneReference
<1>. QED BY <1>1, <1>2

\* In the loop: the session goes on, or ends.
LEMMA LoopGoesOn ==
  ASSUME IInv, FlushInv, NEW s \in Sessions, InLoop(s), main' = main,
         NEW r, sess' = [sess EXCEPT ![s] = r], sdl'.events \in Seq(SdlEvents),
         Barriers(sdl'.events) \in Nat, r.flushing = Barriers(sdl'.events),
         Has(sdl'.events, "reset") => r.decoder = "faulted"
  PROVE  FlushInv'
<1>1. InTheLoop /\ InTheLoop' /\ main.session = s
  BY DEF InLoop, At, InTheLoop
<1>2. sess'[s] = r /\ \A t \in Sessions \ {s} : sess'[t] = sess[t]
  BY DEF IInv, Typed
<1>3. \A t \in Sessions \ {s} : Where(t)' # "loop" /\ Where(t) # "loop"
  BY <1>1 DEF Where
<1>4. \A t \in Sessions \ {s} : /\ sess[t].flushing \in Nat
                                /\ Ended(sess[t]) \/ sess[t].flushing = 0
  BY <1>3 DEF FlushInv
<1>5. Where(s)' = "loop"
  BY <1>1 DEF Where, InTheLoop
<1>. QED BY <1>1, <1>2, <1>3, <1>4, <1>5 DEF FlushInv, LoopMatches

LEMMA LoopEnds ==
  ASSUME IInv, FlushInv, NEW s \in Sessions, InLoop(s), NEW c \in FieldsType,
         c.flushing \in Nat, NEW q, q.refs <= 1, DispatchDeferredCleanup(s, c, q)
  PROVE  FlushInv'
<1>. DEFINE r == Dispatch(Torn(c))
<1>1. InTheLoop /\ main.session = s /\ ~InTheLoop'
  BY DEF InLoop, At, InTheLoop, DispatchDeferredCleanup, Return
<1>2. Ended(r)
  BY DispatchFields
<1>3. r.flushing = c.flushing
  BY DEF Dispatch, Torn, FieldsType
<1>4. sess' = [sess EXCEPT ![s] = r] /\ sdl' = Nothing
  BY QuitEmpties DEF DispatchDeferredCleanup, Nothing
<1>. HIDE DEF r
<1>5. sess'[s] = r /\ \A t \in Sessions \ {s} : sess'[t] = sess[t]
  BY <1>4 DEF IInv, Typed
<1>6. \A t \in Sessions : Where(t)' # "loop"
  BY <1>1 DEF Where, InTheLoop
<1>7. \A t \in Sessions \ {s} : /\ sess[t].flushing \in Nat
                                /\ Ended(sess[t]) \/ sess[t].flushing = 0
  BY <1>1 DEF FlushInv, Where
<1>. QED BY <1>1, <1>2, <1>3, <1>4, <1>5, <1>6, <1>7, NoEvents DEF FlushInv, Nothing

\* exec() enters the loop, or finds no window.
LEMMA EnteringKeeps ==
  ASSUME IInv, IInv', PartsInv, FlushInv, NEW s \in Sessions, ExecWindow(s)
  PROVE  FlushInv'
<1>1. sess[s] \in FieldsType /\ ~Ended(sess[s]) /\ sess \in [Sessions -> FieldsType]
  BY ExecFinds DEF ExecWindow, IInv, Typed
<1>2. ~InTheLoop /\ \A t \in Sessions : Where(t) # "loop"
  BY DEF ExecWindow, Take, Idle, InTheLoop, Where
<1>3. CASE /\ sess' = [sess EXCEPT ![s].unexpected = FALSE] /\ sdl' = Push(sdl, "window")
           /\ main' = [pc |-> "loop", session |-> s]
  <2>. DEFINE r == [sess[s] EXCEPT !.unexpected = FALSE]
  <2>1. sess' = [sess EXCEPT ![s] = r] /\ r.flushing = sess[s].flushing
    BY <1>1, <1>3 DEF FieldsType
  <2>2. r.flushing = 0
    BY <1>1, <1>2, <2>1 DEF FlushInv
  <2>. HIDE DEF r
  <2>3. sess'[s] = r /\ \A t \in Sessions \ {s} : sess'[t] = sess[t]
    BY <1>1, <2>1
  <2>4. /\ sdl'.events \in Seq(SdlEvents) /\ Barriers(sdl'.events) = 0
        /\ ~Has(sdl'.events, "reset")
    BY <1>2, <1>3, EventPushed, OneReference DEF FlushInv, SdlEvents
  <2>5. InTheLoop' /\ \A t \in Sessions \ {s} : Where(t)' # "loop"
    BY <1>3 DEF InTheLoop, Where
  <2>6. \A t \in Sessions \ {s} : /\ sess[t].flushing \in Nat
                                  /\ Ended(sess[t]) \/ sess[t].flushing = 0
    BY <1>2 DEF FlushInv
  <2>7. Where(s)' = "loop"
    BY <1>3 DEF Where
  <2>. QED BY <2>2, <2>3, <2>4, <2>5, <2>6, <2>7 DEF FlushInv, LoopMatches
<1>4. CASE sess' = [sess EXCEPT ![s] = Dispatch(Torn(@))] /\ sdl' = QuitVideo(sdl) /\ main' = main
  <2>1. sess' = [sess EXCEPT ![s] = Dispatch(Torn(sess[s]))]
    BY <1>4
  <2>2. sdl' = Nothing
    BY <1>4, OneReference, QuitEmpties DEF Nothing
  <2>3. \A t \in Sessions : Steady(t)
    BY <1>1, <1>2, <2>1, EndsSteady
  <2>. QED BY <1>2, <1>4, <2>2, <2>3, AsideKeeps, OneReference
<1>. QED BY <1>3, <1>4 DEF ExecWindow

LEMMA LoopKeeps ==
  ASSUME IInv, IInv', PartsInv, FlushInv, NEW s \in Sessions,
         \/ LoopQuit(s) \/ LoopBarrier(s) \/ LoopWindowIgnored(s) \/ LoopRecreate(s)
         \/ LoopUserQuit(s) \/ WindowEvent(s)
  PROVE  FlushInv'
<1>. DEFINE q == sdl.events
<1>1. InLoop(s)
  BY DEF InLoop, LoopQuit, LoopBarrier, LoopWindowIgnored, LoopRecreate, LoopUserQuit,
         WindowEvent
<1>2. /\ sess[s] \in FieldsType /\ sess \in [Sessions -> FieldsType]
      /\ Where(s) = "loop" /\ main.session = s /\ InTheLoop
      /\ ~Ended(sess[s]) /\ sess[s].page = "open"
  BY <1>1, LoopMayEnd DEF IInv, Typed, MayEnd, InTheLoop, Where
<1>3. sdl.refs = 1 /\ Shaped(sdl)
  BY <1>2 DEF PartsInv, VideoCounted, WithVideo
<1>4. /\ q \in Seq(SdlEvents) /\ sess[s].flushing \in Nat
      /\ sess[s].flushing = Barriers(q)
      /\ Has(q, "reset") => sess[s].decoder = "faulted"
  <2>1. Where(s) = "loop"
    BY <1>2
  <2>. QED BY <2>1 DEF FlushInv, LoopMatches
<1>5. Rest.refs = 1 /\ Rest.events = Tail(q) /\ Shaped(Rest)
  <2>1. sdl = [refs |-> sdl.refs, events |-> sdl.events]
    BY <1>3 DEF Shaped
  <2>2. \A e : [sdl EXCEPT !.events = e] = [refs |-> sdl.refs, events |-> e]
    BY <2>1
  <2>3. Rest = [refs |-> sdl.refs, events |-> Tail(q)]
    BY <2>2 DEF Rest
  <2>. QED BY <1>3, <2>3 DEF Shaped
<1>6. CASE LoopQuit(s)
  BY <1>1, <1>2, <1>4, <1>5, <1>6, LoopEnds DEF LoopQuit
<1>7. CASE LoopBarrier(s)
  <2>. DEFINE r == [sess[s] EXCEPT !.flushing = @ - 1]
  <2>1. /\ sess' = [sess EXCEPT ![s] = r] /\ r.flushing = sess[s].flushing - 1
        /\ r.decoder = sess[s].decoder
    BY <1>2, <1>7 DEF LoopBarrier, FieldsType
  <2>2. sdl'.events = Tail(q) /\ q # <<>> /\ Head(q) = "barrier" /\ main' = main
    BY <1>5, <1>7 DEF LoopBarrier, NextIs
  <2>. HIDE DEF r, q
  <2>3. /\ Tail(q) \in Seq(SdlEvents) /\ Barriers(Tail(q)) \in Nat
        /\ Barriers(q) = Barriers(Tail(q)) + 1
        /\ Has(Tail(q), "reset") => Has(q, "reset")
    BY <1>4, <2>2, EventTaken
  <2>4. r.flushing = Barriers(Tail(q))
    BY <1>4, <2>1, <2>3
  <2>. QED BY <1>1, <1>4, <2>1, <2>2, <2>3, <2>4, LoopGoesOn
<1>8. CASE LoopWindowIgnored(s)
  <2>1. sess' = [sess EXCEPT ![s] = sess[s]]
    BY <1>2, <1>8 DEF LoopWindowIgnored
  <2>2. sdl'.events = Tail(q) /\ q # <<>> /\ Head(q) = "window" /\ main' = main
    BY <1>5, <1>8 DEF LoopWindowIgnored, NextIs
  <2>. HIDE DEF q
  <2>3. /\ Tail(q) \in Seq(SdlEvents) /\ Barriers(Tail(q)) \in Nat
        /\ Barriers(q) = Barriers(Tail(q))
        /\ Has(Tail(q), "reset") => Has(q, "reset")
    BY <1>4, <2>2, EventTaken
  <2>. QED BY <1>1, <1>4, <2>1, <2>2, <2>3, LoopGoesOn
<1>9. CASE LoopRecreate(s)
  <2>. DEFINE p == Push(Rest, "barrier")
              f == FlushResets(p)
              r == Flushing(sess[s])
  <2>1. q # <<>> /\ Head(q) \in {"reset", "window"}
    BY <1>9 DEF LoopRecreate, NextIs
  <2>2. p.refs = 1 /\ p.events = Append(Tail(q), "barrier") /\ Shaped(p)
    <3>1. Rest = [refs |-> 1, events |-> Tail(q)]
      BY <1>5 DEF Shaped
    <3>2. \A e : [Rest EXCEPT !.events = e] = [refs |-> 1, events |-> e]
      BY <3>1
    <3>3. p = [refs |-> 1, events |-> Append(Tail(q), "barrier")]
      BY <1>5, <3>2 DEF Push
    <3>. QED BY <3>3 DEF Shaped
  <2>3. /\ Tail(q) \in Seq(SdlEvents) /\ Barriers(Tail(q)) \in Nat
        /\ Barriers(q) = Barriers(Tail(q))
    <3>. HIDE DEF q
    <3>. QED BY <1>4, <2>1, EventTaken
  <2>4. p.events \in Seq(SdlEvents) /\ Barriers(p.events) = Barriers(q) + 1
    <3>1. "barrier" \in SdlEvents
      BY DEF SdlEvents
    <3>. DEFINE w == Tail(q)
    <3>2. w \in Seq(SdlEvents) /\ p.events = Append(w, "barrier") /\ Barriers(w) = Barriers(q)
      BY <2>2, <2>3
    <3>. HIDE DEF p, q, w
    <3>3. /\ Append(w, "barrier") \in Seq(SdlEvents)
          /\ Barriers(Append(w, "barrier")) = Barriers(w) + 1
      BY <3>1, <3>2, EventAppended
    <3>. QED BY <3>2, <3>3
  <2>. HIDE DEF p
  <2>5. f.refs = 1 /\ f.events = Unflushed(p.events)[Len(p.events)]
    BY <2>2 DEF FlushResets, Shaped
  <2>6. /\ f.events \in Seq(SdlEvents) /\ ~Has(f.events, "reset")
        /\ Barriers(f.events) = Barriers(q) + 1
    BY <2>4, <2>5, Flushed
  <2>7. r.flushing = Barriers(q) + 1 /\ r \in FieldsType /\ Barriers(q) + 1 \in Nat
    <3>1. sess[s] \in FieldsType
      BY <1>2
    <3>2. r \in FieldsType /\ r.flushing = sess[s].flushing + 1
      BY <3>1 DEF Flushing, FieldsType
    <3>. QED BY <1>4, <3>2
  <2>8. CASE sess' = [sess EXCEPT ![s] = [r EXCEPT !.decoder = "ok"]] /\ sdl' = f /\ main' = main
    <3>1. [r EXCEPT !.decoder = "ok"].flushing = r.flushing
      BY <2>7 DEF FieldsType
    <3>. HIDE DEF f, r, q
    <3>. QED BY <1>1, <2>6, <2>7, <2>8, <3>1, LoopGoesOn
  <2>9. CASE DispatchDeferredCleanup(s, r, f)
    <3>1. f.refs <= 1
      BY <2>5
    <3>. HIDE DEF f, r, q
    <3>. QED BY <1>1, <2>7, <2>9, <3>1, LoopEnds
  <2>. QED BY <1>9, <2>8, <2>9 DEF LoopRecreate, p
<1>10. CASE LoopUserQuit(s)
  <2>1. \A t \in Sessions : Steady(t)
    <3>1. CASE sess' = sess
      BY <3>1, AllSteady
    <3>2. CASE sess' = [sess EXCEPT ![s].shouldExit = TRUE]
      <4>. DEFINE r == [sess[s] EXCEPT !.shouldExit = TRUE]
      <4>1. /\ sess' = [sess EXCEPT ![s] = r] /\ r.flushing = sess[s].flushing
            /\ r.tasks = sess[s].tasks /\ r.decoder = sess[s].decoder
        BY <1>2, <3>2 DEF FieldsType
      <4>. HIDE DEF r
      <4>. QED BY <4>1, OthersSteady DEF Ended
    <3>. QED BY <1>10, <3>1, <3>2 DEF LoopUserQuit
  <2>. QED BY <1>3, <1>10, <2>1, AsideKeeps DEF LoopUserQuit
<1>11. CASE WindowEvent(s)
  BY <1>3, <1>11, AllSteady, AsideKeeps DEF WindowEvent
<1>. QED BY <1>6, <1>7, <1>8, <1>9, <1>10, <1>11

LEMMA OthersStayTyped ==
  ASSUME OthersTyped, IInv, [Next]_vars
  PROVE  OthersTyped'
<1>1. bridge' \in BOOLEAN
  <2>1. \A s \in Sessions : StopSession(s) \/ StopStream(s) => bridge' \in BOOLEAN
    BY DEF StopSession, StopStream, EndStream, DisabledBridge, OthersTyped
  <2>2. CASE InterruptStops
    BY <2>2 DEF InterruptStops, EndStream, DisabledBridge
  <2>3. ASSUME NEW s \in Sessions, MainStep(s) \/ UserStep(s) PROVE bridge' \in BOOLEAN
    BY <2>1, <2>3 DEF OthersTyped, MainStep, UserStep, DeleteDecoder, RecreateDecoder,
       StartTimer, Start, ExecFailed,
       ExecScene, ExecSceneDecoder, ExecWindow, HandleSceneConnectionTermination,
       HandleSceneDecoderReset, SessionFinished, SessionReadyForDeletion, LoopQuit,
       LoopBarrier, LoopWindowIgnored, LoopRecreate, Initialize, UserStop, LoopUserQuit,
       WindowEvent
  <2>4. ASSUME NEW s \in Sessions,
               \/ ConnectionStep(s) \/ TaskStep(s)
               \/ ClConnectionTerminated(s) \/ RequestDecoderReset(s)
        PROVE  bridge' = bridge
    BY <2>4 DEF ConnectionStep, ConnectionFailed, ConnectionUp, ConnectionReturned, TaskStep,
       TaskNotify, TaskStopConnection, TaskQuitApp, TaskDone, ClConnectionTerminated,
       RequestDecoderReset
  <2>5. CASE Interrupt \/ UNCHANGED vars
    BY <2>5 DEF Interrupt, vars, OthersTyped
  <2>. QED BY <2>2, <2>3, <2>4, <2>5 DEF Next, Exited, OthersTyped
<1>2. quitAppAfter' \in BOOLEAN /\ exiting' \in BOOLEAN
  <2>1. ASSUME NEW s \in Sessions, MainStep(s) \/ UserStep(s)
        PROVE  quitAppAfter' \in {quitAppAfter, TRUE} /\ exiting' = exiting
    BY <2>1 DEF MainStep, UserStep, StopStream, DeleteDecoder, RecreateDecoder, StartTimer, Start, ExecFailed,
       ExecScene, ExecSceneDecoder, ExecWindow, HandleSceneConnectionTermination,
       HandleSceneDecoderReset, SessionFinished, SessionReadyForDeletion, LoopQuit,
       LoopBarrier, LoopWindowIgnored, LoopRecreate, Initialize, UserStop, LoopUserQuit,
       WindowEvent
  <2>2. ASSUME NEW s \in Sessions, TaskQuitApp(s)
        PROVE  quitAppAfter' = quitAppAfter /\ exiting' \in BOOLEAN
    BY <2>2 DEF TaskQuitApp, OthersTyped
  <2>3. ASSUME NEW s \in Sessions,
               \/ ConnectionStep(s) \/ TaskNotify(s) \/ TaskStopConnection(s) \/ TaskDone(s)
               \/ ClConnectionTerminated(s) \/ RequestDecoderReset(s)
        PROVE  UNCHANGED <<quitAppAfter, exiting>>
    BY <2>3 DEF ConnectionStep, ConnectionFailed, ConnectionUp, ConnectionReturned,
       TaskNotify, TaskStopConnection, TaskDone, ClConnectionTerminated, RequestDecoderReset
  <2>4. CASE Interrupt \/ InterruptStops \/ UNCHANGED vars
    BY <2>4 DEF Interrupt, InterruptStops, vars, OthersTyped
  <2>. QED BY <2>1, <2>2, <2>3, <2>4 DEF Next, Exited, OthersTyped, TaskStep
<1>3. signal' \in [pc : {"idle", "stopping"}, session : Sessions \cup {None}]
  <2>1. CASE Interrupt
    BY <2>1 DEF Interrupt, IInv, Typed
  <2>2. CASE InterruptStops
    BY <2>2 DEF InterruptStops, OthersTyped
  <2>3. ASSUME NEW s \in Sessions, MainStep(s) \/ UserStep(s)
        PROVE  signal' = signal
    BY <2>3 DEF MainStep, UserStep, StopStream, DeleteDecoder, RecreateDecoder, StartTimer, Start, ExecFailed,
       ExecScene, ExecSceneDecoder, ExecWindow, HandleSceneConnectionTermination,
       HandleSceneDecoderReset, SessionFinished, SessionReadyForDeletion, LoopQuit,
       LoopBarrier, LoopWindowIgnored, LoopRecreate, Initialize, UserStop, LoopUserQuit,
       WindowEvent
  <2>4. ASSUME NEW s \in Sessions,
               \/ ConnectionStep(s) \/ TaskStep(s)
               \/ ClConnectionTerminated(s) \/ RequestDecoderReset(s)
        PROVE  signal' = signal
    BY <2>4 DEF ConnectionStep, ConnectionFailed, ConnectionUp, ConnectionReturned, TaskStep,
       TaskNotify, TaskStopConnection, TaskQuitApp, TaskDone, ClConnectionTerminated,
       RequestDecoderReset
  <2>5. CASE UNCHANGED vars
    BY <2>5 DEF vars, OthersTyped
  <2>. QED BY <2>1, <2>2, <2>3, <2>4, <2>5 DEF Next, Exited, OthersTyped
<1>. QED BY <1>1, <1>2, <1>3 DEF OthersTyped

LEMMA FlushStaysKept ==
  ASSUME IInv, PartsInv, Apart, FlushInv, [Next]_vars
  PROVE  FlushInv'
<1>1. IInv'
  BY NextKeeps
<1>2. ASSUME NEW s \in Sessions, MainStep(s) \/ UserStep(s) PROVE FlushInv'
  BY <1>1, <1>2, OutsideKeeps, EnteringKeeps, LoopKeeps DEF MainStep, UserStep
<1>3. ASSUME NEW s \in Sessions,
             \/ ConnectionStep(s) \/ TaskStep(s)
             \/ ClConnectionTerminated(s) \/ RequestDecoderReset(s)
      PROVE  FlushInv'
  BY <1>1, <1>3, ThreadsKeep, GivingUpKeeps
<1>4. CASE Interrupt \/ InterruptStops
  BY <1>1, <1>4, SignalKeeps
<1>5. CASE UNCHANGED vars
  BY <1>1, <1>5, AllSteady, AsideKeeps, OneReference DEF vars
<1>. QED BY <1>2, <1>3, <1>4, <1>5 DEF Next, Exited

LEMMA FlushInductive == Spec /\ []Apart => [](FlushInv /\ OthersTyped)
<1>1. Init => FlushInv /\ OthersTyped
  <2>. SUFFICES ASSUME Init PROVE FlushInv /\ OthersTyped
    OBVIOUS
  <2>1. \A s \in Sessions : sess[s].flushing = 0 /\ Where(s) = "idle"
    BY DEF Init, Fresh, Where
  <2>2. sdl.events = <<>> /\ ~InTheLoop
    BY DEF Init, InTheLoop
  <2>3. FlushInv
    BY <2>1, <2>2, NoEvents DEF FlushInv
  <2>. QED BY <2>3 DEF Init, OthersTyped
<1>2. IInv /\ PartsInv /\ Apart /\ FlushInv /\ OthersTyped /\ [Next]_vars
        => (FlushInv /\ OthersTyped)'
  BY FlushStaysKept, OthersStayTyped
<1>. QED BY <1>1, <1>2, Inductive, PTL DEF Spec

LEMMA AllTyped ==
  ASSUME IInv, PartsInv, FlushInv, OthersTyped
  PROVE  TypeOK
<1>1. ASSUME NEW s \in Sessions PROVE sess[s] \in Fields
  <2>1. sess[s] \in FieldsType /\ sess[s].flushing \in Nat
    BY LifeOf DEF FlushInv
  <2>. QED BY <2>1 DEF Fields, FieldsType
<1>2. sess \in [Sessions -> Fields]
  BY <1>1 DEF IInv, Typed
<1>3. sdl \in [refs : Nat, events : Seq({"quit", "window", "barrier", "reset"})]
  BY DEF PartsInv, VideoCounted, Shaped, FlushInv, SdlEvents
<1>4. semaphore \in {0, 1} /\ queue \in Seq([kind : Kinds, session : Sessions])
  BY DEF IInv, Typed, Events
<1>. QED BY <1>2, <1>3, <1>4 DEF TypeOK, IInv, Typed, OthersTyped, Places

LEMMA QueuesFit ==
  ASSUME IInv, FlushInv
  PROVE  ResetsAreWanted /\ FlushBalanced
<1>1. main.pc = "loop" => main.session \in Sessions /\ Where(main.session) = "loop"
  BY DEF IInv, Typed, Where
<1>2. ASSUME NEW i \in DOMAIN sdl.events, sdl.events[i] = "reset", main.pc = "loop"
      PROVE  sess[main.session].decoder = "faulted"
  <2>1. Has(sdl.events, "reset")
    BY <1>2 DEF Has
  <2>. QED BY <1>1, <1>2, <2>1 DEF FlushInv, LoopMatches
<1>3. ASSUME NEW s \in Sessions, NEW i \in DOMAIN queue, queue[i] = Event("reset", s),
             ~sess[s].cleaned
      PROVE  sess[s].decoder = "faulted"
  <2>1. "reset" \in Calls(s)
    BY <1>3 DEF Calls, Kinds, IInv, Typed
  <2>. QED BY <1>3, <2>1, LifeOf DEF Life, Queued
<1>4. FlushBalanced
  BY <1>1 DEF FlushBalanced, Barriers, FlushInv, LoopMatches
<1>. QED BY <1>2, <1>3, <1>4 DEF ResetsAreWanted

\* What is queued for a session still fits it when it is taken: a request to
\* replace the decoder is of the decoder that is there, and window events are
\* dropped exactly as long as a barrier is on its way; every field has its type.
THEOREM SessionIsConsistent == Spec /\ []Apart => []Consistent
<1>1. IInv /\ PartsInv /\ FlushInv /\ OthersTyped /\ QueuedCallsFindTheirSession => Consistent
  BY AllTyped, QueuesFit DEF Consistent
<1>. QED BY <1>1, Inductive, FlushInductive, CallsFindTheirSession, PTL
=============================================================================
