----------------------------- MODULE HostStore -----------------------------
(***************************************************************************)
(* How ComputerManager keeps the list of hosts across runs of the program  *)
(* (app/backend/computermanager.cpp).                                      *)
(*                                                                         *)
(* Pool tasks and polling threads change the list; the main thread hears   *)
(* of changes through queued signals and requests a flush when a host      *)
(* differs from what was last serialized; the delayed flush thread writes  *)
(* backup, then primary, then removes the backup.  QSettings is external:  *)
(* its contents may reach the disk at any moment, each time all at once.   *)
(* The program may crash between any two steps.                            *)
(*                                                                         *)
(* What is serialized of a host is a number, 0 for a host that is not      *)
(* there.  An array whose size has not been written counts as empty.       *)
(***************************************************************************)
EXTENDS Naturals

CONSTANTS
  Host,
  MaxValue,  \* bound of the model: states a host goes through
  MaxEdits   \* bound of the model: changes of the list

ASSUME BoundAssumption == MaxValue \in Nat /\ MaxEdits \in Nat

VARIABLES
  life,           \* "down", "running", "leaving" (exec() has returned), "quitting"
  known,          \* m_KnownHosts with what would be serialized of each host
  lastSerialized, \* m_LastSerializedHosts
  needsFlush,     \* m_NeedsDelayedFlush
  interrupted,    \* requestInterruption()
  flusher,        \* where the delayed flush thread is
  deletion,       \* a DeferredHostDeletionTask has to save the hosts
  signals,        \* hosts with a computerStateChanged() queued or about to be
  settings,       \* QSettings: backup and primary array
  disk,           \* the settings file
  edits,          \* bound: changes of the list so far
  durable,        \* history: hosts in a complete primary array, not deleted since
  gone            \* history: hosts without which a flush finished, not added since

memory == <<known, lastSerialized, needsFlush, interrupted, flusher, deletion, signals>>
history == <<durable, gone>>
vars == <<life, memory, settings, disk, edits, history>>

Empty == [h \in Host |-> 0]
Listed(array) == {h \in Host : array[h] > 0}

\* The constructor prefers a backup that has hosts.  A variant never looks.
LoadedPrimary(file) == file.primary
Loaded(file) == IF file.backup # Empty THEN file.backup ELSE file.primary

Init ==
  /\ life = "down"
  /\ \E array \in [Host -> 0..MaxValue] :
       disk = [backup |-> Empty, primary |-> array]
  /\ settings = disk
  /\ known = Empty /\ lastSerialized = Empty
  /\ needsFlush = FALSE /\ interrupted = FALSE
  /\ flusher = "none" /\ deletion = FALSE /\ signals = {}
  /\ edits = 0
  /\ durable = Listed(disk.primary) /\ gone = Host \ Listed(disk.primary)

-----------------------------------------------------------------------------
(* The program's life *)

Memory(hosts, thread) ==
  /\ known' = hosts /\ lastSerialized' = hosts
  /\ needsFlush' = FALSE /\ interrupted' = FALSE
  /\ flusher' = thread /\ deletion' = FALSE /\ signals' = {}

\* The constructor loads the hosts and starts the flush thread.
Restart ==
  /\ life = "down"
  /\ life' = "running"
  /\ Memory(Loaded(disk), "test")
  /\ durable' = durable \cap Listed(disk.primary)
  /\ UNCHANGED <<settings, disk, edits, gone>>

\* A crash, or a kill.
Crash ==
  /\ life # "down"
  /\ life' = "down"
  /\ Memory(Empty, "none")
  /\ settings' = disk
  /\ UNCHANGED <<disk, edits, history>>

\* exec() returns: the main thread delivers no signals any more.
ExecReturns ==
  /\ life = "running"
  /\ life' = "leaving"
  /\ UNCHANGED <<memory, settings, disk, edits, history>>

\* wakeOne() reaches a thread that waits.
Woken == IF flusher = "wait" THEN "test" ELSE flusher

\* The destructor, after the pool is idle: interruption and wakeup without the
\* mutex ...
Destroy ==
  /\ life = "leaving" /\ ~deletion
  /\ life' = "quitting"
  /\ interrupted' = TRUE
  /\ flusher' = Woken
  /\ UNCHANGED <<known, lastSerialized, needsFlush, deletion, signals, settings,
                 disk, edits, history>>

\* ... then the flush thread is joined.
Exit ==
  /\ life = "quitting" /\ flusher = "exited"
  /\ life' = "down"
  /\ Memory(Empty, "none")
  /\ disk' = settings
  /\ UNCHANGED <<settings, edits, history>>

-----------------------------------------------------------------------------
(* Changes of the list *)

Edit == edits < MaxEdits /\ edits' = edits + 1

\* A poll, an mDNS answer, a pairing or a rename changes a host; the signal
\* follows.
Changed(h) ==
  /\ Edit
  /\ life # "down" /\ known[h] > 0
  /\ \E v \in 1..MaxValue : v # known[h] /\ known' = [known EXCEPT ![h] = v]
  /\ signals' = signals \cup {h}
  /\ UNCHANGED <<life, lastSerialized, needsFlush, interrupted, flusher, deletion,
                 settings, disk, history>>

\* PendingAddTask adds a new host.
Added(h) ==
  /\ Edit
  /\ life \in {"running", "leaving"} /\ known[h] = 0 /\ MaxValue > 0
  /\ known' = [known EXCEPT ![h] = 1]
  /\ signals' = signals \cup {h}
  /\ gone' = gone \ {h}
  /\ UNCHANGED <<life, lastSerialized, needsFlush, interrupted, flusher, deletion,
                 settings, disk, durable>>

\* DeferredHostDeletionTask takes a host off the list ...
Unlisted(h) ==
  /\ Edit
  /\ life \in {"running", "leaving"} /\ ~deletion /\ known[h] > 0
  /\ known' = [known EXCEPT ![h] = 0]
  /\ deletion' = TRUE
  /\ signals' = signals \ {h}
  /\ durable' = durable \ {h}
  /\ UNCHANGED <<life, lastSerialized, needsFlush, interrupted, flusher, settings,
                 disk, gone>>

\* saveHosts(), under m_DelayedFlushMutex.  A variant wakes nobody.
MutexFree == flusher \notin {"copy", "sleepy"}
SaveWithoutWaking == MutexFree /\ needsFlush' = TRUE /\ UNCHANGED flusher
SaveHosts ==
  /\ MutexFree
  /\ needsFlush' = TRUE
  /\ flusher' = Woken

\* ... and saves the new list.
DeletionSaved ==
  /\ life \in {"running", "leaving"} /\ deletion
  /\ SaveHosts
  /\ deletion' = FALSE
  /\ UNCHANGED <<life, known, lastSerialized, interrupted, signals, settings, disk,
                 edits, history>>

\* Whether saveHost() finds something to save.  A variant looks for new hosts
\* only.
IsNew(h) == lastSerialized[h] = 0
Differs(h) == lastSerialized[h] # known[h]

\* handleComputerStateChanged(), by way of saveHost().
StateChanged(h) ==
  /\ life = "running" /\ h \in signals /\ MutexFree
  /\ signals' = signals \ {h}
  /\ IF Differs(h) THEN SaveHosts ELSE UNCHANGED <<needsFlush, flusher>>
  /\ UNCHANGED <<life, known, lastSerialized, interrupted, deletion, settings, disk,
                 edits, history>>

-----------------------------------------------------------------------------
(* DelayedFlushThread::run() *)

\* Where the test under the mutex leads.
Tested == IF needsFlush THEN "copy" ELSE IF interrupted THEN "exited" ELSE "sleepy"

\* The flag is reset before the flush.
ResetPoint == "copy"

FlusherStep(from, to) ==
  /\ life # "down"
  /\ flusher = from /\ flusher' = to
  /\ needsFlush' = (needsFlush /\ from # ResetPoint)
  /\ UNCHANGED <<life, known, interrupted, deletion, signals, edits>>

Test ==
  /\ FlusherStep("test", Tested)
  /\ UNCHANGED <<lastSerialized, settings, disk, durable, gone>>

\* The condition variable gives the mutex up; wakeups before are lost.
Sleep ==
  /\ FlusherStep("sleepy", "wait")
  /\ UNCHANGED <<lastSerialized, settings, disk, durable, gone>>

\* The flag is reset and the list copied, still under the mutex.
CopyHosts ==
  /\ FlusherStep("copy", "beginBackup")
  /\ lastSerialized' = known
  /\ UNCHANGED <<settings, disk, durable, gone>>

\* What a loop over m_KnownHosts writes.
List == known

\* An array being written has no size; endArray() gives it one.
Write(from, array, content, to) ==
  /\ FlusherStep(from, to)
  /\ settings' = [settings EXCEPT ![array] = content]
  /\ UNCHANGED <<lastSerialized, disk, durable, gone>>

BeginBackup   == Write("beginBackup", "backup", Empty, "endBackup")
EndBackup     == Write("endBackup", "backup", List, "removePrimary")
RemovePrimary == Write("removePrimary", "primary", Empty, "endPrimary")
EndPrimary    == Write("endPrimary", "primary", List, "removeBackup")

\* A variant keeps the backup.
BackupKept == Write("removeBackup", "backup", settings.backup, "destroySettings")
RemoveBackup == Write("removeBackup", "backup", Empty, "destroySettings")

\* ~QSettings() writes the file; the loop starts again.
FlushDone ==
  /\ FlusherStep("destroySettings", "test")
  /\ disk' = settings
  /\ durable' = Listed(settings.primary) \cap Listed(known)
  /\ gone' = Host \ (Listed(settings.primary) \cup Listed(known))
  /\ UNCHANGED <<lastSerialized, settings>>

\* Another QSettings object, or a timer of this one, writes the file.
Sync ==
  /\ life # "down" /\ disk # settings
  /\ disk' = settings
  /\ UNCHANGED <<life, memory, settings, edits, history>>

Flush ==
  \/ Test \/ Sleep \/ CopyHosts \/ BeginBackup \/ EndBackup
  \/ RemovePrimary \/ EndPrimary \/ RemoveBackup \/ FlushDone

Next ==
  \/ Restart \/ Crash \/ ExecReturns \/ Destroy \/ Exit
  \/ \E h \in Host : Changed(h) \/ Added(h) \/ Unlisted(h) \/ StateChanged(h)
  \/ DeletionSaved \/ Flush \/ Sync

Spec == Init /\ [][Next]_vars

\* The flush thread runs, the main thread delivers signals and the deletion
\* task gets the mutex sooner or later.
FairSpec ==
  /\ Spec
  /\ WF_vars(Flush) /\ SF_vars(DeletionSaved)
  /\ \A h \in Host : SF_vars(StateChanged(h))

-----------------------------------------------------------------------------
Array == [Host -> 0..MaxValue]

TypeOK ==
  /\ life \in {"down", "running", "leaving", "quitting"}
  /\ known \in Array /\ lastSerialized \in Array
  /\ needsFlush \in BOOLEAN /\ interrupted \in BOOLEAN /\ deletion \in BOOLEAN
  /\ flusher \in {"none", "test", "sleepy", "wait", "copy", "beginBackup", "endBackup",
                  "removePrimary", "endPrimary", "removeBackup", "destroySettings",
                  "exited"}
  /\ signals \subseteq Host
  /\ settings \in [backup : Array, primary : Array]
  /\ disk \in [backup : Array, primary : Array]
  /\ edits \in 0..MaxEdits
  /\ durable \subseteq Host /\ gone \subseteq Host

Restarts == life = "down" /\ life' = "running"

\* A host that was saved and not deleted is there after a restart, wherever a
\* crash has hit the flush.
HostsSurvive == [][Restarts => durable \subseteq Listed(known')]_vars

\* A host whose deletion was saved does not come back.
DeletedStaysDeleted == [][Restarts => gone \cap Listed(known') = {}]_vars

\* When nobody has anything to do, no change has slipped between the copy, the
\* flag and the flush: the copy is what the program knows, and the settings hold
\* just its hosts.
SavedWhenQuiet ==
  life = "running" /\ flusher = "wait" /\ signals = {} /\ ~deletion
    => lastSerialized = known /\ Listed(Loaded(settings)) = Listed(known)

\* The flush thread leaves when asked to, and has done its work (the assertions
\* of ~ComputerManager() and of run()).
FlushedAtExit == flusher = "exited" => interrupted /\ ~needsFlush

\* No change is lost between the main thread and the flush thread, neither
\* while the program runs nor at its end.
NoChangeLost == TypeOK /\ SavedWhenQuiet /\ FlushedAtExit

\* A host added or deleted is added or deleted on disk in the end, unless the
\* program is left before or the list goes on changing.
SameHosts == Listed(Loaded(disk)) = Listed(known)
ChangesReachDisk == (life = "running" /\ ~SameHosts) ~> (life # "running" \/ SameHosts)
=============================================================================
