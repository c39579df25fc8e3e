------------------------- MODULE ComputerManagerProofs -------------------------
(***************************************************************************)
(* Proofs about ComputerManager.tla, for any number of NvComputer objects  *)
(* and polling threads: references are given back once, the known host is  *)
(* polled by one thread exactly while somebody wants it, one taken out of  *)
(* the list only until its deletion has saved the list, and no thread      *)
(* works on an object that was deleted.                                    *)
(*                                                                         *)
(* TypeOK and RefsBalanced are inductive together.  PollingFits is not:    *)
(* that no thread outlives its object rests on what the deletion still     *)
(* holds (Lives), and "one thread" is followed as a set, not a cardinality *)
(* (OnePollsKnown).                                                        *)
(***************************************************************************)
EXTENDS ComputerManager, FiniteSetTheorems, TLAPS

ThreadsTyped ==
  thread \in [Threads -> [at : {"none", "loop", "asking", "apps"}, of : Computers \cup {None},
                         interrupted : BOOLEAN]]

Alive(c) == c \in Computers /\ computer[c].exists

\* Who may still use an object: the list, its threads, and a deletion, which
\* takes the object from the list first and frees it last.
Lives ==
  /\ known # None => Alive(known)
  /\ \A t \in Threads : thread[t].at # "none" => Alive(thread[t].of)
  /\ addTask.at = "notify" => addTask.of \in Computers
  /\ deletion.at = "queued" => known # None /\ deletion.of = known
  /\ deletion.at \in {"saving", "waiting"} => Alive(deletion.of) /\ deletion.of # known

\* PolledWhileWanted without cardinalities.
OnePollsKnown ==
  /\ known # None /\ pollingRef > 0 => \E t \in Threads : Active(known) = {t}
  /\ known # None /\ pollingRef = 0 => Active(known) = {}
  /\ \A c \in Computers \ {known} : Active(c) # {} =>
       /\ deletion.at = "saving" /\ deletion.of = c
       /\ \E t \in Threads : Active(c) = {t}

IInv == TypeOK /\ RefsBalanced /\ Lives /\ OnePollsKnown

-----------------------------------------------------------------------------
(* What the steps do to the set of threads that go on *)

Looping(c) == [at |-> "loop", of |-> c, interrupted |-> FALSE]

\* A thread that starts joins the active ones of its object.
LEMMA StartAddsOne ==
  ASSUME TypeOK, NEW c \in Computers, NEW t \in Threads,
         thread' = [thread EXCEPT ![t] = Looping(c)]
  PROVE  /\ Active(c)' = Active(c) \cup {t}
         /\ \A d \in Computers \ {c} : Active(d)' = Active(d) \ {t}
  BY NoneIsNothing DEF TypeOK, Active, Looping

\* An interruption leaves an object without active threads, the others with
\* theirs.
LEMMA InterruptionLeavesNone ==
  ASSUME TypeOK, NEW c \in Computers, thread' = InterruptedOf(c)
  PROVE  /\ Active(c)' = {}
         /\ \A d \in Computers \ {c} : Active(d)' = Active(d)
  BY NoneIsNothing DEF TypeOK, Active, InterruptedOf, Interrupted

\* A step of a thread that neither starts nor interrupts it.
LEMMA GoingOnKeepsActive ==
  ASSUME TypeOK, NEW t \in Threads, NEW next,
         thread' = [thread EXCEPT ![t].at = next]
  PROVE  \A c \in Computers : Active(c)' = Active(c)
  BY DEF TypeOK, Active

\* startPollingComputer() for an object without active threads starts one
\* if polling is wanted, and does nothing else.
LEMMA StartPollingStartsOne ==
  ASSUME NEW c \in Computers, NEW n \in Nat, Active(c) = {},
         StartPollingComputer(c, n)
  PROVE  \/ n = 0 /\ UNCHANGED thread
         \/ /\ n > 0
            /\ \E t \in Threads : /\ thread[t].at = "none"
                                  /\ thread' = [thread EXCEPT ![t] = Looping(c)]
  BY NoneIsNothing DEF StartPollingComputer, PollingWanted, IsActive, Looping

\* What one more or one less polling reference does to the threads.
LEMMA StartPollingFits ==
  ASSUME TypeOK, Lives, OnePollsKnown, StartPolling,
         UNCHANGED <<known, computer, deletion>>
  PROVE  OnePollsKnown' /\ ThreadsTyped'
         /\ \A t \in Threads : thread'[t].at # "none" => Alive(thread'[t].of)
<1>1. pollingRef \in Nat /\ pollingRef' = pollingRef + 1
  BY DEF TypeOK, StartPolling
<1>2. CASE pollingRef > 0 \/ known = None
  <2>1. UNCHANGED thread
    BY <1>2 DEF StartPolling, StartPollingComputer
  <2>2. \A c \in Computers : Active(c)' = Active(c)
    BY <2>1 DEF Active
  <2>. QED BY <1>1, <1>2, <2>1, <2>2 DEF TypeOK, ThreadsTyped, Lives, OnePollsKnown, Alive
<1>3. CASE pollingRef = 0 /\ known # None
  <2>1. known \in Computers /\ Active(known) = {} /\ StartPollingComputer(known, 1)
    BY <1>3 DEF TypeOK, OnePollsKnown, StartPolling
  <2>2. PICK t \in Threads : thread' = [thread EXCEPT ![t] = Looping(known)]
    BY <2>1, StartPollingStartsOne
  <2>3. /\ Active(known)' = Active(known) \cup {t}
        /\ \A d \in Computers \ {known} : Active(d)' = Active(d) \ {t}
    BY <2>1, <2>2, StartAddsOne
  <2>4. OnePollsKnown'
    <3>1. Active(known)' = {t} /\ known' = known /\ pollingRef' > 0
      BY <1>1, <1>3, <2>1, <2>3
    <3>2. ASSUME NEW d \in Computers \ {known}, Active(d)' # {}
          PROVE  /\ deletion.at = "saving" /\ deletion.of = d
                 /\ \E u \in Threads : Active(d)' = {u}
      <4>1. Active(d)' = Active(d) \ {t} /\ Active(d) # {}
        BY <2>3, <3>2
      <4>. QED BY <3>2, <4>1 DEF OnePollsKnown
    <3>. QED BY <3>1, <3>2 DEF OnePollsKnown
  <2>5. ThreadsTyped'
    BY <2>1, <2>2 DEF TypeOK, ThreadsTyped, Looping
  <2>6. \A u \in Threads : thread'[u].at # "none" => Alive(thread'[u].of)
    BY <1>3, <2>1, <2>2, <2>5 DEF ThreadsTyped, TypeOK, Lives, Alive, Looping
  <2>. QED BY <2>4, <2>5, <2>6
<1>. QED BY <1>1, <1>2, <1>3

LEMMA StopPollingFits ==
  ASSUME TypeOK, Lives, OnePollsKnown, StopPollingAsync, pollingRef > 0,
         UNCHANGED <<known, computer, deletion>>
  PROVE  OnePollsKnown' /\ ThreadsTyped'
         /\ \A t \in Threads : thread'[t].at # "none" => Alive(thread'[t].of)
<1>1. pollingRef \in Nat /\ pollingRef' = pollingRef - 1 /\ pollingRef' \in Nat
  BY DEF TypeOK, StopPollingAsync
<1>2. CASE pollingRef' > 0 \/ known = None
  <2>1. thread' = thread
    BY <1>1, <1>2 DEF StopPollingAsync, LastGone, InterruptedOf, TypeOK
  <2>2. \A c \in Computers : Active(c)' = Active(c)
    BY <2>1 DEF Active
  <2>. QED BY <1>1, <1>2, <2>1, <2>2 DEF TypeOK, ThreadsTyped, Lives, OnePollsKnown, Alive
<1>3. CASE pollingRef' = 0 /\ known # None
  <2>1. known \in Computers /\ thread' = InterruptedOf(known)
    BY <1>3 DEF TypeOK, StopPollingAsync, LastGone
  <2>2. /\ Active(known)' = {}
        /\ \A d \in Computers \ {known} : Active(d)' = Active(d)
    BY <2>1, InterruptionLeavesNone
  <2>3. OnePollsKnown'
    BY <1>3, <2>2 DEF OnePollsKnown
  <2>4. ThreadsTyped'
    BY <2>1 DEF TypeOK, ThreadsTyped, InterruptedOf, Interrupted
  <2>5. \A t \in Threads : thread'[t].at = thread[t].at /\ thread'[t].of = thread[t].of
    BY <2>1 DEF TypeOK, InterruptedOf, Interrupted
  <2>. QED BY <2>3, <2>4, <2>5 DEF Lives, Alive
<1>. QED BY <1>1, <1>2, <1>3

\* A step that leaves references, threads and the list alone.
LEMMA NobodyStartsOrStops ==
  ASSUME OnePollsKnown, UNCHANGED <<pollingRef, known, thread>>,
         deletion.at # "saving" \/ UNCHANGED deletion
  PROVE  OnePollsKnown'
  BY DEF OnePollsKnown, Active

-----------------------------------------------------------------------------
(* The inductive invariant *)

LEMMA InitHolds == Init => IInv
<1>. SUFFICES ASSUME Init PROVE IInv
  OBVIOUS
<1>1. TypeOK /\ RefsBalanced
  <2>1. RefsBalanced
    BY DEF Init, RefsBalanced
  <2>2. computer \in [Computers -> [exists : BOOLEAN, online : BOOLEAN]]
    BY DEF Init, NoComputer
  <2>3. ThreadsTyped
    BY DEF Init, ThreadsTyped, NoThread
  <2>4. /\ addTask \in [at : {"none", "fetch", "fold", "notify"}, of : Computers \cup {None}]
        /\ deletion \in [at : {"none", "queued", "saving", "waiting"}, of : Computers \cup {None}]
    BY DEF Init, NoTask
  <2>5. window \in BOOLEAN /\ signalled \subseteq Computers
    BY DEF Init
  <2>6. pollingRef \in 0..2
    BY DEF Init
  <2>. QED BY <2>1, <2>2, <2>3, <2>4, <2>5, <2>6 DEF Init, TypeOK, ThreadsTyped
<1>2. Lives
  BY <1>1 DEF Init, TypeOK, Lives, Alive, NoComputer, NoThread, NoTask
<1>3. \A c \in Computers : Active(c) = {}
  BY NoneIsNothing DEF Init, Active, NoThread
<1>. QED BY <1>1, <1>2, <1>3 DEF IInv, OnePollsKnown, Init, TypeOK

\* The window and the seeker take references and give them back.
LEMMA WishesKeep ==
  ASSUME IInv, WindowActive \/ WindowGone \/ Seek \/ SeekerGivesUp
  PROVE  IInv'
<1>. USE DEF IInv
<1>1. UNCHANGED <<known, computer, signalled, deletion>> /\ addTask'.of = addTask.of
  BY DEF WindowActive, WindowGone, Seek, SeekerGivesUp, tasks, TypeOK
<1>2. CASE WindowActive \/ Seek
  <2>1. StartPolling
    BY <1>2 DEF WindowActive, Seek
  <2>2. /\ OnePollsKnown' /\ ThreadsTyped'
        /\ \A t \in Threads : thread'[t].at # "none" => Alive(thread'[t].of)
    BY <1>1, <2>1, StartPollingFits
  <2>3. pollingRef' = pollingRef + 1
    BY <2>1 DEF StartPolling
  <2>4. RefsBalanced' /\ pollingRef' \in 0..2 /\ window' \in BOOLEAN
        /\ seeker' \in {"idle", "queued", "seeking", "grace"}
    <3>1. \/ ~window /\ window' = TRUE /\ UNCHANGED seeker
          \/ seeker = "idle" /\ seeker' = "queued" /\ UNCHANGED window
      BY <1>2 DEF WindowActive, Seek
    <3>2. window' \in BOOLEAN /\ seeker' \in {"idle", "queued", "seeking", "grace"}
      BY <3>1 DEF TypeOK
    <3>3. RefsBalanced'
      BY <2>3, <3>1 DEF RefsBalanced, TypeOK
    <3>. QED BY <3>2, <3>3 DEF RefsBalanced
  <2>5. addTask'.at \in {addTask.at, "fetch"}
        /\ addTask' \in [at : {"none", "fetch", "fold", "notify"}, of : Computers \cup {None}]
    BY <1>2 DEF WindowActive, Seek, TypeOK, tasks
  <2>6. TypeOK'
    BY <1>1, <2>2, <2>4, <2>5 DEF TypeOK, ThreadsTyped
  <2>7. Lives'
    BY <1>1, <2>2, <2>5 DEF Lives, Alive
  <2>. QED BY <2>2, <2>4, <2>6, <2>7
<1>3. CASE WindowGone \/ SeekerGivesUp
  <2>1. StopPollingAsync /\ pollingRef > 0
    BY <1>3 DEF WindowGone, SeekerGivesUp, RefsBalanced, TypeOK
  <2>2. /\ OnePollsKnown' /\ ThreadsTyped'
        /\ \A t \in Threads : thread'[t].at # "none" => Alive(thread'[t].of)
    BY <1>1, <2>1, StopPollingFits
  <2>3. pollingRef' = pollingRef - 1
    BY <2>1 DEF StopPollingAsync
  <2>4. RefsBalanced' /\ pollingRef' \in 0..2 /\ window' \in BOOLEAN
        /\ seeker' \in {"idle", "queued", "seeking", "grace"}
    <3>1. \/ window /\ window' = FALSE /\ UNCHANGED seeker
          \/ seeker # "idle" /\ seeker' = "idle" /\ UNCHANGED window
      BY <1>3 DEF WindowGone, SeekerGivesUp
    <3>2. window' \in BOOLEAN /\ seeker' \in {"idle", "queued", "seeking", "grace"}
      BY <3>1 DEF TypeOK
    <3>3. RefsBalanced'
      BY <2>3, <3>1 DEF RefsBalanced, TypeOK
    <3>. QED BY <3>2, <3>3 DEF RefsBalanced
  <2>5. UNCHANGED addTask
    BY <1>3 DEF WindowGone, SeekerGivesUp, tasks
  <2>6. TypeOK'
    BY <1>1, <2>2, <2>4, <2>5 DEF TypeOK, ThreadsTyped
  <2>7. Lives'
    BY <1>1, <2>2, <2>5 DEF Lives, Alive
  <2>. QED BY <2>2, <2>4, <2>6, <2>7
<1>. QED BY <1>2, <1>3

\* The seeker's check, and a signal that may end its search.
LEMMA SeekerCheckKeeps == ASSUME IInv, SeekerCheck PROVE IInv'
<1>1. UNCHANGED <<pollingRef, window, known, computer, thread, signalled, addTask, deletion>>
  BY DEF SeekerCheck, tasks
<1>2. seeker = "queued" /\ seeker' \in {"grace", "seeking"}
  BY DEF SeekerCheck, FoundWarm
<1>3. TypeOK' /\ RefsBalanced'
  BY <1>1, <1>2 DEF IInv, TypeOK, RefsBalanced
<1>4. Lives'
  BY <1>1 DEF IInv, Lives, Alive
<1>. QED BY <1>1, <1>3, <1>4, NobodyStartsOrStops DEF IInv

LEMMA SignalKeeps ==
  ASSUME IInv, NEW c \in Computers, HandleComputerStateChanged(c) \/ HandleDangling(c)
  PROVE  IInv'
<1>. USE DEF IInv
<1>1. UNCHANGED <<window, known, computer, addTask, deletion>> /\ signalled' \subseteq Computers
  BY DEF HandleComputerStateChanged, HandleDangling, wants, tasks, TypeOK
<1>2. CASE UNCHANGED <<seeker, pollingRef, thread>>
  <2>1. TypeOK' /\ RefsBalanced'
    BY <1>1, <1>2 DEF TypeOK, RefsBalanced
  <2>2. Lives'
    BY <1>1, <1>2 DEF Lives, Alive
  <2>. QED BY <1>1, <1>2, <2>1, <2>2, NobodyStartsOrStops
<1>3. CASE ~UNCHANGED <<seeker, pollingRef, thread>>
  <2>1. seeker # "idle" /\ seeker' = "idle" /\ StopPollingAsync
    BY <1>3 DEF HandleComputerStateChanged, HandleDangling, wants, SeekerUpdated, NotFoundYet
  <2>2. pollingRef > 0 /\ pollingRef' = pollingRef - 1
    BY <2>1 DEF RefsBalanced, TypeOK, StopPollingAsync
  <2>3. /\ OnePollsKnown' /\ ThreadsTyped'
        /\ \A t \in Threads : thread'[t].at # "none" => Alive(thread'[t].of)
    BY <1>1, <2>1, <2>2, StopPollingFits
  <2>4. RefsBalanced' /\ pollingRef' \in 0..2
    BY <1>1, <2>1, <2>2 DEF RefsBalanced, TypeOK
  <2>5. TypeOK'
    BY <1>1, <2>1, <2>3, <2>4 DEF TypeOK, ThreadsTyped
  <2>6. Lives'
    BY <1>1, <2>3 DEF Lives, Alive
  <2>. QED BY <2>3, <2>4, <2>5, <2>6
<1>. QED BY <1>2, <1>3

\* The polling threads go on or end.
LEMMA ThreadStepKeeps ==
  ASSUME IInv, NEW t \in Threads, ThreadStep(t)
  PROVE  IInv'
<1>. USE DEF IInv
<1>1. /\ UNCHANGED <<pollingRef, window, seeker, known, addTask, deletion>>
      /\ thread[t].at # "none" /\ thread[t].of \in Computers
  BY DEF ThreadStep, ThreadEnds, Ask, Apply, FetchApps, wants, tasks, Lives, Alive
<1>2. RefsBalanced'
  BY <1>1 DEF RefsBalanced
<1>3. CASE ThreadEnds(t)
  <2>1. thread' = [thread EXCEPT ![t] = NoThread] /\ thread[t].interrupted
        /\ UNCHANGED <<computer, signalled>>
    BY <1>3 DEF ThreadEnds, SeesInterruption
  <2>2. ThreadsTyped'
    BY <2>1 DEF TypeOK, ThreadsTyped, NoThread
  <2>3. \A c \in Computers : Active(c)' = Active(c)
    BY <2>1, NoneIsNothing DEF TypeOK, Active, NoThread
  <2>4. TypeOK' /\ Lives'
    BY <1>1, <2>1, <2>2 DEF TypeOK, ThreadsTyped, Lives, Alive, NoThread
  <2>5. OnePollsKnown'
    BY <1>1, <2>3 DEF OnePollsKnown, TypeOK
  <2>. QED BY <1>2, <2>4, <2>5
<1>4. CASE Ask(t) \/ Apply(t) \/ FetchApps(t)
  <2>1. PICK next \in {"loop", "asking", "apps"} : thread' = [thread EXCEPT ![t].at = next]
    BY <1>4 DEF Ask, Apply, FetchApps
  <2>2. \A c \in Computers : Active(c)' = Active(c)
    BY <2>1, GoingOnKeepsActive
  <2>3. /\ computer' \in [Computers -> [exists : BOOLEAN, online : BOOLEAN]]
        /\ \A c \in Computers : computer'[c].exists = computer[c].exists
    <3>1. \/ computer' = computer
          \/ \E answered \in BOOLEAN :
               computer' = [computer EXCEPT ![thread[t].of].online = answered]
      BY <1>4 DEF Ask, Apply, FetchApps
    <3>2. CASE computer' = computer
      BY <3>2 DEF TypeOK
    <3>3. ASSUME NEW answered \in BOOLEAN,
                 computer' = [computer EXCEPT ![thread[t].of].online = answered]
          PROVE  /\ computer' \in [Computers -> [exists : BOOLEAN, online : BOOLEAN]]
                 /\ \A c \in Computers : computer'[c].exists = computer[c].exists
      BY <1>1, <3>3 DEF TypeOK
    <3>. QED BY <3>1, <3>2, <3>3
  <2>4. signalled' \subseteq Computers
    BY <1>1, <1>4 DEF Ask, Apply, FetchApps, Signal, TypeOK
  <2>5. ThreadsTyped' /\ \A u \in Threads : thread'[u].of = thread[u].of
                      /\ (thread'[u].at # "none" => thread[u].at # "none")
    BY <1>1, <2>1 DEF TypeOK, ThreadsTyped
  <2>6. TypeOK' /\ Lives'
    BY <1>1, <2>3, <2>4, <2>5 DEF TypeOK, ThreadsTyped, Lives, Alive
  <2>7. OnePollsKnown'
    BY <1>1, <2>2 DEF OnePollsKnown, TypeOK
  <2>. QED BY <1>2, <2>6, <2>7
<1>. QED BY <1>3, <1>4 DEF ThreadStep

\* PendingAddTask: a new object is polled if somebody wants that.
LEMMA AddTaskKeeps ==
  ASSUME IInv, AddNewHost \/ AddTaskStep
  PROVE  IInv'
<1>. USE DEF IInv
<1>1. UNCHANGED <<pollingRef, window, seeker, deletion>>
  BY DEF AddNewHost, AddTaskStep, AddTaskFetch, AddTaskFold, AddTaskNotify, wants, tasks
<1>2. RefsBalanced'
  BY <1>1 DEF RefsBalanced
<1>3. CASE AddNewHost \/ AddTaskFetch \/ AddTaskNotify
  <2>1. UNCHANGED <<known, computer, thread>> /\ addTask'.at # "notify"
    <3>1. UNCHANGED <<known, computer, thread>>
      BY <1>3 DEF AddNewHost, AddTaskFetch, AddTaskNotify, wants
    <3>2. \/ \E next \in {"fetch", "none", "fold"} : addTask' = [addTask EXCEPT !.at = next]
          \/ addTask' = NoTask
      BY <1>3 DEF AddNewHost, AddTaskFetch, AddTaskNotify
    <3>. QED BY <3>1, <3>2 DEF TypeOK, NoTask
  <2>2. /\ addTask' \in [at : {"none", "fetch", "fold", "notify"}, of : Computers \cup {None}]
        /\ signalled' \subseteq Computers
    BY <1>3 DEF AddNewHost, AddTaskFetch, AddTaskNotify, Signal, TypeOK, Lives, NoTask
  <2>3. TypeOK' /\ Lives'
    BY <1>1, <2>1, <2>2 DEF TypeOK, Lives, Alive
  <2>. QED BY <1>1, <1>2, <2>1, <2>3, NobodyStartsOrStops
<1>4. CASE AddTaskFold /\ known # None
  <2>1. UNCHANGED <<known, thread, signalled>> /\ known \in Computers
    BY <1>4 DEF AddTaskFold, TypeOK
  <2>2. computer' = [computer EXCEPT ![known].online = TRUE]
    BY <1>4 DEF AddTaskFold
  <2>3. addTask' \in {NoTask, [at |-> "notify", of |-> known]}
    BY <1>4 DEF AddTaskFold
  <2>4. TypeOK'
    <3>1. computer' \in [Computers -> [exists : BOOLEAN, online : BOOLEAN]]
      BY <2>1, <2>2 DEF TypeOK
    <3>2. addTask' \in [at : {"none", "fetch", "fold", "notify"}, of : Computers \cup {None}]
      BY <2>1, <2>3 DEF NoTask
    <3>. QED BY <1>1, <2>1, <3>1, <3>2 DEF TypeOK
  <2>5. Lives'
    BY <1>1, <2>1, <2>2, <2>3 DEF TypeOK, Lives, Alive, NoTask
  <2>. QED BY <1>1, <1>2, <2>1, <2>4, <2>5, NobodyStartsOrStops
<1>5. CASE AddTaskFold /\ known = None
  <2>1. PICK c \in Computers :
          /\ ~computer[c].exists /\ known' = c
          /\ computer' = [computer EXCEPT ![c].exists = TRUE, ![c].online = TRUE]
          /\ addTask' = [at |-> "notify", of |-> c]
          /\ StartPollingComputer(c, pollingRef)
    BY <1>5 DEF AddTaskFold
  <2>2. c # None /\ Active(c) = {} /\ pollingRef \in Nat /\ UNCHANGED signalled
    <3>1. ~(deletion.at = "saving" /\ deletion.of = c)
      BY <2>1 DEF Lives, Alive
    <3>. QED BY <1>5, <3>1, NoneIsNothing DEF AddTaskFold, OnePollsKnown, TypeOK
  <2>3. /\ computer' \in [Computers -> [exists : BOOLEAN, online : BOOLEAN]]
        /\ computer'[c].exists
        /\ \A d \in Computers \ {c} : computer'[d] = computer[d]
    BY <2>1 DEF TypeOK
  <2>4. ThreadsTyped' /\ \A u \in Threads : (thread[u].at # "none" => Alive(thread[u].of))'
    <3>1. CASE UNCHANGED thread
      BY <2>3, <3>1 DEF TypeOK, ThreadsTyped, Lives, Alive
    <3>2. CASE \E t \in Threads : thread' = [thread EXCEPT ![t] = Looping(c)]
      <4>1. PICK t \in Threads : thread' = [thread EXCEPT ![t] = Looping(c)]
        BY <3>2
      <4>2. ThreadsTyped'
        BY <4>1 DEF TypeOK, ThreadsTyped, Looping
      <4>. QED BY <2>3, <4>1, <4>2 DEF TypeOK, ThreadsTyped, Lives, Alive, Looping
    <3>. QED BY <2>1, <2>2, <3>1, <3>2, StartPollingStartsOne
  <2>5. TypeOK'
    BY <1>1, <2>1, <2>2, <2>3, <2>4 DEF TypeOK, ThreadsTyped
  <2>6. Lives'
    BY <1>1, <1>5, <2>1, <2>2, <2>3, <2>4 DEF TypeOK, Lives, Alive
  <2>7. OnePollsKnown'
    <3>1. \A d \in Computers : Active(d) # {} =>
            /\ deletion.at = "saving" /\ deletion.of = d
            /\ \E u \in Threads : Active(d) = {u}
      BY <1>5, NoneIsNothing DEF OnePollsKnown
    <3>2. CASE pollingRef = 0 /\ UNCHANGED thread
      BY <1>1, <2>1, <2>2, <3>1, <3>2 DEF OnePollsKnown, Active
    <3>3. CASE pollingRef > 0 /\ \E t \in Threads : thread' = [thread EXCEPT ![t] = Looping(c)]
      <4>1. PICK t \in Threads : thread' = [thread EXCEPT ![t] = Looping(c)]
        BY <3>3
      <4>2. /\ Active(c)' = Active(c) \cup {t}
            /\ \A d \in Computers \ {c} : Active(d)' = Active(d) \ {t}
        BY <4>1, StartAddsOne
      <4>3. Active(c)' = {t} /\ known' = c /\ pollingRef' = pollingRef
        BY <1>1, <2>1, <2>2, <4>2
      <4>4. ASSUME NEW d \in Computers \ {c}, Active(d)' # {}
            PROVE  /\ deletion.at = "saving" /\ deletion.of = d
                   /\ \E u \in Threads : Active(d)' = {u}
        <5>1. Active(d)' = Active(d) \ {t} /\ Active(d) # {}
          BY <4>2, <4>4
        <5>. QED BY <3>1, <4>4, <5>1
      <4>. QED BY <1>1, <3>3, <4>3, <4>4 DEF OnePollsKnown
    <3>. QED BY <2>1, <2>2, <3>2, <3>3, StartPollingStartsOne
  <2>. QED BY <1>2, <2>5, <2>6, <2>7
<1>. QED BY <1>3, <1>4, <1>5 DEF AddTaskStep

\* Deleting a host: its thread goes on when it leaves the list, is interrupted
\* once the list is saved, and gone with the others when the host is freed.
LEMMA DeletionKeeps ==
  ASSUME IInv, DeleteHost \/ DeletionStep
  PROVE  IInv'
<1>. USE DEF IInv
<1>1. UNCHANGED <<pollingRef, window, seeker, signalled, addTask>>
  BY DEF DeleteHost, DeletionStep, DeletionTakes, DeletionInterrupts, DeletionFrees, wants,
         tasks
<1>2. RefsBalanced'
  BY <1>1 DEF RefsBalanced
<1>3. CASE DeleteHost
  <2>1. UNCHANGED <<known, computer, thread>> /\ known # None
        /\ deletion' = [at |-> "queued", of |-> known] /\ deletion.at = "none"
    BY <1>3 DEF DeleteHost
  <2>2. TypeOK' /\ Lives'
    BY <1>1, <2>1 DEF TypeOK, Lives, Alive
  <2>. QED BY <1>1, <1>2, <2>1, <2>2, NobodyStartsOrStops
<1>4. CASE DeletionTakes
  <2>1. PICK c \in Computers : c = known
    BY <1>4 DEF DeletionTakes, Lives, TypeOK
  <2>2. /\ deletion.of = c /\ known' = None
        /\ UNCHANGED <<thread, computer>>
        /\ deletion' = [deletion EXCEPT !.at = "saving"] /\ deletion.at = "queued"
    BY <1>4, <2>1 DEF DeletionTakes, Lives, TypeOK
  <2>3. TypeOK'
    BY <1>1, <2>2 DEF TypeOK
  <2>4. Lives'
    BY <1>1, <2>1, <2>2, NoneIsNothing DEF TypeOK, Lives, Alive
  <2>5. deletion'.at = "saving" /\ deletion'.of = c
    BY <2>2 DEF TypeOK
  <2>6. \A d \in Computers : Active(d)' = Active(d)
    BY <2>2 DEF Active
  <2>7. ASSUME NEW d \in Computers, Active(d) # {}
        PROVE  d = c /\ \E t \in Threads : Active(d) = {t}
    <3>1. d = c
      BY <2>1, <2>2, <2>7 DEF OnePollsKnown
    <3>2. known # None
      BY <2>1, NoneIsNothing
    <3>3. pollingRef > 0
      BY <2>1, <2>7, <3>1, <3>2 DEF OnePollsKnown, TypeOK
    <3>. QED BY <2>1, <3>1, <3>2, <3>3 DEF OnePollsKnown
  <2>8. OnePollsKnown'
    BY <2>2, <2>5, <2>6, <2>7 DEF OnePollsKnown
  <2>. QED BY <1>2, <2>3, <2>4, <2>8
<1>6. CASE DeletionInterrupts
  <2>1. PICK c \in Computers : c = deletion.of /\ c # known
    BY <1>6 DEF DeletionInterrupts, Lives, Alive
  <2>2. /\ thread' = InterruptedOf(c) /\ UNCHANGED <<known, computer>>
        /\ deletion' = [deletion EXCEPT !.at = "waiting"] /\ deletion.at = "saving"
    BY <1>6, <2>1 DEF DeletionInterrupts, EntryDeleted
  <2>3. /\ Active(c)' = {}
        /\ \A d \in Computers \ {c} : Active(d)' = Active(d)
    BY <2>2, InterruptionLeavesNone
  <2>4. ThreadsTyped' /\ \A u \in Threads : thread'[u].of = thread[u].of
                                            /\ thread'[u].at = thread[u].at
    <3>1. ThreadsTyped'
      BY <2>2 DEF TypeOK, ThreadsTyped, InterruptedOf, Interrupted
    <3>2. ASSUME NEW u \in Threads
          PROVE  thread'[u].of = thread[u].of /\ thread'[u].at = thread[u].at
      BY <2>2 DEF TypeOK, InterruptedOf, Interrupted
    <3>. QED BY <3>1, <3>2
  <2>5. TypeOK'
    BY <1>1, <2>2, <2>4 DEF TypeOK, ThreadsTyped
  <2>6. Lives'
    BY <1>1, <2>1, <2>2, <2>4 DEF TypeOK, Lives, Alive
  <2>7. \A d \in Computers \ {known} : Active(d)' = {}
    BY <2>1, <2>3 DEF OnePollsKnown
  <2>8. known # None => Active(known)' = Active(known)
    <3>1. known # None => known \in Computers \ {c}
      BY <2>1 DEF TypeOK
    <3>. QED BY <2>2, <2>3, <3>1 DEF Active
  <2>9. OnePollsKnown'
    BY <1>1, <2>2, <2>7, <2>8 DEF OnePollsKnown
  <2>. QED BY <1>2, <2>5, <2>6, <2>9
<1>5. CASE DeletionFrees
  <2>1. /\ deletion.of \in Computers /\ deletion.of # known /\ deletion' = NoTask
        /\ computer' = [computer EXCEPT ![deletion.of] = NoComputer]
        /\ \A t \in Threads : thread[t].of # deletion.of
        /\ UNCHANGED <<known, thread>> /\ deletion.at = "waiting"
    BY <1>5 DEF DeletionFrees, AllEnded, Lives, Alive
  <2>2. TypeOK'
    BY <1>1, <2>1 DEF TypeOK, NoComputer, NoTask
  <2>3. Lives'
    BY <1>1, <2>1 DEF TypeOK, Lives, Alive, NoTask
  <2>. QED BY <1>1, <1>2, <2>1, <2>2, <2>3, NobodyStartsOrStops
<1>. QED BY <1>3, <1>4, <1>5, <1>6 DEF DeletionStep

LEMMA NextKeeps == IInv /\ [Next]_vars => IInv'
<1>. SUFFICES ASSUME IInv, [Next]_vars PROVE IInv'
  OBVIOUS
<1>1. CASE UNCHANGED vars
  <2>1. TypeOK' /\ RefsBalanced' /\ Lives'
    BY <1>1 DEF vars, IInv, TypeOK, RefsBalanced, Lives, Alive
  <2>2. OnePollsKnown'
    BY <1>1, NobodyStartsOrStops DEF vars, IInv
  <2>. QED BY <2>1, <2>2 DEF IInv
<1>2. CASE \E t \in Threads : ThreadStep(t)
  BY <1>2, ThreadStepKeeps
<1>3. CASE AddTaskStep \/ AddNewHost
  BY <1>3, AddTaskKeeps
<1>4. CASE DeletionStep \/ DeleteHost
  BY <1>4, DeletionKeeps
<1>5. CASE SeekerCheck
  BY <1>5, SeekerCheckKeeps
<1>6. CASE SeekerGivesUp \/ WindowActive \/ WindowGone \/ Seek
  BY <1>6, WishesKeep
<1>7. CASE MainStep
  BY <1>7, SignalKeeps DEF MainStep
<1>. QED BY <1>1, <1>2, <1>3, <1>4, <1>5, <1>6, <1>7 DEF Next, SeekerStep, UserStep

LEMMA InvariantHolds == Spec => []IInv
  BY InitHolds, NextKeeps, PTL DEF Spec

-----------------------------------------------------------------------------
(* The theorems *)

\* Every polling reference is given back once (stopPollingAsync()), whichever
\* of timeout, event and check ends the search, for any number of objects.
THEOREM ReferencesAreBalanced == Spec => []Consistent
<1>1. IInv => Consistent
  BY DEF IInv, Consistent
<1>. QED BY <1>1, InvariantHolds, PTL

\* The known host is polled by one thread exactly while somebody wants it; one
\* that was taken out of the list by at most one, and only until its deletion has
\* saved the list; and no thread works on a deleted object (startPolling(),
\* DeferredHostDeletionTask, ~ComputerPollingEntry()), for any number of threads
\* and objects.
THEOREM PollingFitsTheWishes == Spec => []PollingFits
<1>1. IInv => PollingFits
  <2>. SUFFICES ASSUME IInv PROVE PollingFits
    OBVIOUS
  <2>1. pollingRef \in Nat
    BY DEF IInv, TypeOK
  <2>2. ASSUME known # None
        PROVE  Cardinality(Active(known)) = (IF pollingRef > 0 THEN 1 ELSE 0)
    <3>1. CASE pollingRef > 0
      BY <2>2, <3>1, FS_Singleton DEF IInv, OnePollsKnown
    <3>2. CASE pollingRef = 0
      BY <2>2, <3>2, FS_EmptySet DEF IInv, OnePollsKnown
    <3>. QED BY <2>1, <3>1, <3>2
  <2>3. PolledWhileWanted
    <3>1. \A c \in Computers \ {known} : Active(c) # {} =>
            /\ deletion.at = "saving" /\ deletion.of = c
            /\ Cardinality(Active(c)) = 1
      BY FS_Singleton DEF IInv, OnePollsKnown
    <3>. QED BY <2>2, <3>1 DEF PolledWhileWanted
  <2>4. ThreadsOwnTheirComputer
    BY DEF IInv, Lives, Alive, ThreadsOwnTheirComputer
  <2>. QED BY <2>3, <2>4 DEF PollingFits
<1>. QED BY <1>1, InvariantHolds, PTL
=============================================================================
