---------------------------- MODULE ComputerManager ----------------------------
(***************************************************************************)
(* app/backend/computermanager.cpp with ComputerPollingEntry and           *)
(* ComputerSeeker: who wants hosts polled, the polling threads, adding and *)
(* deleting a host.  What the host answers is refined in AppQuit.tla.      *)
(*                                                                         *)
(* There is one PC on the network.  Its NvComputer may be deleted and made *)
(* again while tasks and queued signals still hold the old object.  The    *)
(* main thread, polling threads and pool tasks interleave; a section under *)
(* m_Lock or NvComputer::lock is one step.  An interrupted thread finishes *)
(* its round, and applies its answer, beside the one that replaces it.     *)
(***************************************************************************)
EXTENDS Naturals, FiniteSets

CONSTANTS
  Computers, \* NvComputer objects, reused after their deletion
  Threads,   \* PcMonitorThread objects, reused when finished
  None

ASSUME NoneIsNothing == None \notin Computers /\ None \notin Threads

VARIABLES
  pollingRef, \* m_PollingRef
  window,     \* pollingActive of main.qml
  seeker,     \* ComputerSeeker: its check is queued, it seeks, it has found
              \* a host and keeps its reference for a while
  known,      \* m_KnownHosts: the object for the PC, or None
  computer,   \* the fields of each object
  thread,     \* the polling threads
  signalled,  \* objects with a computerStateChanged queued for the main thread
  addTask,    \* PendingAddTask
  deletion    \* DeferredHostDeletionTask

vars == <<pollingRef, window, seeker, known, computer, thread, signalled,
          addTask, deletion>>
wants == <<pollingRef, window, seeker>>
tasks == <<addTask, deletion>>

NoComputer == [exists |-> FALSE, online |-> FALSE]
NoThread == [at |-> "none", of |-> None, interrupted |-> FALSE]
NoTask == [at |-> "none", of |-> None]

\* The hosts of the last run are in the list, and nothing is known of them.
Init ==
  /\ pollingRef = 0 /\ window = FALSE /\ seeker = "idle"
  /\ known \in Computers \cup {None}
  /\ computer = [c \in Computers |-> [NoComputer EXCEPT !.exists = (c = known)]]
  /\ thread = [t \in Threads |-> NoThread]
  /\ signalled = {}
  /\ addTask = NoTask /\ deletion = NoTask

-----------------------------------------------------------------------------
(* Polling references *)

Active(c) == {t \in Threads : thread[t].of = c /\ ~thread[t].interrupted}

\* startPollingComputer()
IsActive(c) == Active(c) # {}
PollingWanted(n) == n > 0

StartPollingComputer(c, n) ==
  IF c = None \/ ~PollingWanted(n) \/ IsActive(c) THEN UNCHANGED thread
  ELSE \E t \in {u \in Threads : thread[u].at = "none"} :
         thread' = [thread EXCEPT ![t] = [at |-> "loop", of |-> c, interrupted |-> FALSE]]

StartPolling == /\ pollingRef' = pollingRef + 1
                /\ IF pollingRef > 0 THEN UNCHANGED thread
                   ELSE StartPollingComputer(known, 1)

\* ComputerPollingEntry::interrupt(): told to stop, not waited for.
Interrupted(t) == [t EXCEPT !.interrupted = TRUE]
InterruptedOf(c) == [t \in Threads |-> IF c # None /\ thread[t].of = c
                                       THEN Interrupted(thread[t]) ELSE thread[t]]

\* The last reference interrupts the threads.
LastGone(n) == n = 0

StopPollingAsync ==
  /\ pollingRef' = pollingRef - 1
  /\ thread' = IF LastGone(pollingRef') THEN InterruptedOf(known) ELSE thread

\* main.qml: the window gets active; gets hidden or is inactive for long.
WindowActive ==
  /\ ~window /\ window' = TRUE
  /\ StartPolling
  /\ UNCHANGED <<seeker, known, computer, signalled, tasks>>

WindowGone ==
  /\ window /\ window' = FALSE
  /\ StopPollingAsync
  /\ UNCHANGED <<seeker, known, computer, signalled, tasks>>

-----------------------------------------------------------------------------
(* ComputerSeeker *)

\* start(): a PendingAddTask, a polling reference and a check queued.
Seek ==
  /\ seeker = "idle" /\ addTask.at = "none"
  /\ seeker' = "queued"
  /\ addTask' = [addTask EXCEPT !.at = "fetch"]
  /\ StartPolling
  /\ UNCHANGED <<window, known, computer, signalled, deletion>>

\* The check finds a host that is online already: its reference is given back
\* five seconds later.
FoundWarm == "grace"

SeekerCheck ==
  /\ seeker = "queued"
  /\ seeker' = IF known # None /\ computer[known].online THEN FoundWarm ELSE "seeking"
  /\ UNCHANGED <<pollingRef, window, known, computer, thread, signalled, tasks>>

\* The five seconds, or the timeout, are over.
SeekerGivesUp ==
  /\ seeker # "idle" /\ seeker' = "idle"
  /\ StopPollingAsync
  /\ UNCHANGED <<window, known, computer, signalled, tasks>>

\* onComputerUpdated(): found by an event, the reference is given back at once.
\* A variant does not look whether it has been given back.
EvenWhenFound == TRUE
NotFoundYet == seeker \in {"queued", "seeking"}

SeekerUpdated(c) ==
  IF NotFoundYet /\ computer[c].online
  THEN seeker' = "idle" /\ StopPollingAsync
  ELSE UNCHANGED <<seeker, pollingRef, thread>>

-----------------------------------------------------------------------------
(* State changes *)

\* A change is signalled to the main thread.  (One signal per object is kept:
\* a second one finds the same state.)
Signal(c, changed) == signalled' = IF changed THEN signalled \cup {c} ELSE signalled

HandleComputerStateChanged(c) ==
  /\ c \in signalled /\ signalled' = signalled \ {c}
  /\ computer[c].exists
  /\ SeekerUpdated(c)
  /\ UNCHANGED <<window, known, computer, tasks>>

\* ... for an object deleted meanwhile.  The code reads freed memory; the
\* model goes on as if it found nothing to do.
HandleDangling(c) ==
  /\ c \in signalled /\ signalled' = signalled \ {c}
  /\ ~computer[c].exists
  /\ UNCHANGED <<wants, known, computer, thread, tasks>>

-----------------------------------------------------------------------------
(* PcMonitorThread *)

\* An interruption is seen at the head of the loop and before each request.
SeesInterruption(t) == thread[t].interrupted

ThreadEnds(t) ==
  /\ thread[t].at \in {"loop", "asking"} /\ SeesInterruption(t)
  /\ thread' = [thread EXCEPT ![t] = NoThread]
  /\ UNCHANGED <<wants, known, computer, signalled, tasks>>

\* A request is sent; the thread may be interrupted while it waits ...
Ask(t) ==
  /\ thread[t].at = "loop" /\ ~SeesInterruption(t)
  /\ thread' = [thread EXCEPT ![t].at = "asking"]
  /\ UNCHANGED <<wants, known, computer, signalled, tasks>>

\* ... and after the last one the outcome is applied.  A change is announced
\* before the app list is fetched, when that is empty or old.
Apply(t) ==
  /\ thread[t].at = "asking"
  /\ LET c == thread[t].of
     IN \E answered \in BOOLEAN :
          /\ computer' = [computer EXCEPT ![c].online = answered]
          /\ Signal(c, answered # computer[c].online)
          /\ \E next \in IF answered THEN {"loop", "apps"} ELSE {"loop"} :
               thread' = [thread EXCEPT ![t].at = next]
  /\ UNCHANGED <<wants, known, tasks>>

\* updateAppList(), which may fail or bring nothing new.
FetchApps(t) ==
  /\ thread[t].at = "apps" /\ thread' = [thread EXCEPT ![t].at = "loop"]
  /\ \E changed \in BOOLEAN : Signal(thread[t].of, changed)
  /\ UNCHANGED <<wants, known, computer, tasks>>

-----------------------------------------------------------------------------
(* PendingAddTask, from mDNS, the user or a seeker *)

AddNewHost ==
  /\ addTask.at = "none" /\ addTask' = [addTask EXCEPT !.at = "fetch"]
  /\ UNCHANGED <<wants, known, computer, thread, signalled, deletion>>

AddTaskFetch ==
  /\ addTask.at = "fetch"
  /\ \E next \in {"none", "fold"} : addTask' = [addTask EXCEPT !.at = next]
  /\ UNCHANGED <<wants, known, computer, thread, signalled, deletion>>

\* With m_Lock: the answer is folded into the known object, or a new one is
\* stored and polled.
AddTaskFold ==
  /\ addTask.at = "fold"
  /\ \/ /\ known # None
        /\ computer' = [computer EXCEPT ![known].online = TRUE]
        /\ addTask' = IF computer[known].online THEN NoTask
                      ELSE [at |-> "notify", of |-> known]
        /\ UNCHANGED <<known, thread>>
     \/ /\ known = None
        /\ \E c \in Computers \ signalled :
             /\ ~computer[c].exists
             /\ known' = c
             /\ computer' = [computer EXCEPT ![c].exists = TRUE, ![c].online = TRUE]
             /\ addTask' = [at |-> "notify", of |-> c]
             /\ StartPollingComputer(c, pollingRef)
  /\ UNCHANGED <<wants, signalled, deletion>>

\* ... after the lock was released.
AddTaskNotify ==
  /\ addTask.at = "notify" /\ addTask' = NoTask
  /\ Signal(addTask.of, TRUE)
  /\ UNCHANGED <<wants, known, computer, thread, deletion>>

-----------------------------------------------------------------------------
(* DeferredHostDeletionTask *)

DeleteHost ==
  /\ deletion.at = "none" /\ known # None
  /\ deletion' = [at |-> "queued", of |-> known]
  /\ UNCHANGED <<wants, known, computer, thread, signalled, addTask>>

\* With m_Lock the host and its polling entry are taken from their lists; its
\* thread goes on while the list is saved, and no reference reaches it.
DeletionTakes ==
  /\ deletion.at = "queued"
  /\ deletion' = [deletion EXCEPT !.at = "saving"]
  /\ known' = None
  /\ UNCHANGED <<wants, computer, thread, signalled, addTask>>

\* After saveHosts(), without m_Lock, the destructor of the entry interrupts the
\* thread ...  A variant leaves it alone.
LeftRunning(c) == thread
EntryDeleted(c) == InterruptedOf(c)

DeletionInterrupts ==
  /\ deletion.at = "saving"
  /\ deletion' = [deletion EXCEPT !.at = "waiting"]
  /\ thread' = EntryDeleted(deletion.of)
  /\ UNCHANGED <<wants, known, computer, signalled, addTask>>

\* ... and waits for all of them; last, the object is deleted.  A variant
\* waits only for the active one, which the interruption has moved away.
OnlyActiveEnded(c) == Active(c) = {}
AllEnded(c) == \A t \in Threads : thread[t].of # c

DeletionFrees ==
  /\ deletion.at = "waiting" /\ AllEnded(deletion.of)
  /\ computer' = [computer EXCEPT ![deletion.of] = NoComputer]
  /\ deletion' = NoTask
  /\ UNCHANGED <<wants, known, thread, signalled, addTask>>

-----------------------------------------------------------------------------
ThreadStep(t) == ThreadEnds(t) \/ Ask(t) \/ Apply(t) \/ FetchApps(t)
AddTaskStep == AddTaskFetch \/ AddTaskFold \/ AddTaskNotify
DeletionStep == DeletionTakes \/ DeletionInterrupts \/ DeletionFrees
SeekerStep == SeekerCheck \/ SeekerGivesUp
MainStep == \E c \in Computers : HandleComputerStateChanged(c) \/ HandleDangling(c)
UserStep == WindowActive \/ WindowGone \/ Seek \/ AddNewHost \/ DeleteHost

Next == \/ \E t \in Threads : ThreadStep(t)
        \/ AddTaskStep \/ DeletionStep \/ SeekerStep \/ MainStep \/ UserStep

Spec == Init /\ [][Next]_vars

\* Threads, tasks, timers and the event loop go on; users need not.
Fairness ==
  /\ \A t \in Threads : WF_vars(ThreadStep(t))
  /\ WF_vars(AddTaskStep) /\ WF_vars(DeletionStep)
  /\ WF_vars(SeekerStep) /\ WF_vars(MainStep)
FairSpec == Spec /\ Fairness

-----------------------------------------------------------------------------
(* Safety *)

\* The state has the types of the code's fields.
TypeOK ==
  /\ pollingRef \in 0..2 /\ window \in BOOLEAN
  /\ seeker \in {"idle", "queued", "seeking", "grace"}
  /\ known \in Computers \cup {None}
  /\ computer \in [Computers -> [exists : BOOLEAN, online : BOOLEAN]]
  /\ thread \in [Threads -> [at : {"none", "loop", "asking", "apps"},
                             of : Computers \cup {None}, interrupted : BOOLEAN]]
  /\ signalled \subseteq Computers
  /\ addTask \in [at : {"none", "fetch", "fold", "notify"}, of : Computers \cup {None}]
  /\ deletion \in [at : {"none", "queued", "saving", "waiting"}, of : Computers \cup {None}]

\* Every polling reference is given back once, whichever of timeout, event and
\* check ends the search (the assertion in stopPollingAsync()).
RefsBalanced ==
  pollingRef = (IF window THEN 1 ELSE 0) + (IF seeker # "idle" THEN 1 ELSE 0)

\* The main thread's bookkeeping is consistent: references match those who
\* hold them, in every order of clicks, timeouts and events.
Consistent == TypeOK /\ RefsBalanced

\* The known host is polled by one thread that goes on, exactly while somebody
\* wants it.  A host that was taken out of the list may still be polled, by one
\* thread, until its deletion has saved the list; then no thread of it goes on.
PolledWhileWanted ==
  /\ known # None => Cardinality(Active(known)) = (IF pollingRef > 0 THEN 1 ELSE 0)
  /\ \A c \in Computers \ {known} : Active(c) # {} =>
       /\ deletion.at = "saving" /\ deletion.of = c
       /\ Cardinality(Active(c)) = 1

\* No polling thread works on a deleted object (the comments in run() of
\* DeferredHostDeletionTask).
ThreadsOwnTheirComputer ==
  \A t \in Threads : thread[t].at # "none" => computer[thread[t].of].exists

\* The threads fit the wishes of the main thread and the lives of the hosts,
\* however adding, deleting and interrupting interleave.
PollingFits == PolledWhileWanted /\ ThreadsOwnTheirComputer

-----------------------------------------------------------------------------
(* Liveness *)

\* A deletion is not held up for good by the polling it has to stop.
DeletionEnds == (deletion.at # "none") ~> (deletion.at = "none")

\* Polling nobody wants any more comes to its end.
PollingDiesDown == <>[](pollingRef = 0) => <>[](\A t \in Threads : thread[t].at = "none")

\* Interrupted threads do end, for whoever waits for that and for good
\* (PcMonitorThread::run(), ~ComputerPollingEntry()).
PollingEnds == DeletionEnds /\ PollingDiesDown
=============================================================================
