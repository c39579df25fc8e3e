-------------------------- MODULE HostStoreProofs --------------------------
(***************************************************************************)
(* Proofs about HostStore for all sets of hosts and any number of changes, *)
(* crashes and restarts.                                                   *)
(***************************************************************************)
EXTENDS HostStore, TLAPS

(* The interruption is asked for only while the program quits; a program   *)
(* that is down has nothing but its file; the thread exits with its work   *)
(* done.                                                                   *)
ProgramPhases ==
  /\ life \in {"running", "leaving"} => ~interrupted
  /\ life = "down" => settings = disk /\ flusher = "none"
  /\ life # "down" => flusher # "none"
  /\ flusher \in {"sleepy", "wait"} => ~needsFlush
  /\ flusher = "copy" => needsFlush
  /\ flusher = "destroySettings" => settings.backup = Empty
  /\ FlushedAtExit

(* At every place of the flush thread, a durable host is in the primary    *)
(* array or in the backup that is read before it.                          *)
BackupKeeps(file) == file.backup # Empty => durable \subseteq Listed(file.backup)

KeptByFlush ==
  /\ life # "down" => durable \subseteq Listed(known)
  /\ BackupKeeps(settings)
  /\ flusher \in {"removePrimary", "endPrimary"} => durable \subseteq Listed(settings.backup)
  /\ flusher \notin {"none", "removePrimary", "endPrimary"}
       => durable \subseteq Listed(settings.primary)
  /\ durable \subseteq Listed(Loaded(disk))

(* A host whose deletion was saved is in no array, and not in the list.    *)
Forgotten ==
  /\ gone \cap Listed(known) = {}
  /\ gone \cap Listed(settings.primary) = {}
  /\ gone \cap Listed(settings.backup) = {}
  /\ gone \cap Listed(disk.primary) = {}
  /\ gone \cap Listed(disk.backup) = {}

(* What the copy or the settings lack while the program runs is announced  *)
(* by a signal, a deletion in progress or the flag.                        *)
Pending == deletion \/ needsFlush
AheadOf(h, array) ==
  ((known[h] > 0) # (array[h] > 0))
    => Pending \/ (h \in signals /\ lastSerialized[h] = 0)

ChangesTracked ==
  life = "running" =>
    /\ signals \subseteq Listed(known)
    /\ \A h \in Host :
         /\ known[h] # lastSerialized[h] => Pending \/ h \in signals
         /\ known[h] = 0 /\ lastSerialized[h] > 0 => Pending
         /\ flusher \in {"removeBackup", "destroySettings"} => AheadOf(h, settings.primary)
         /\ flusher \in {"test", "sleepy", "wait", "copy"} => AheadOf(h, Loaded(settings))

IInv == TypeOK /\ ProgramPhases /\ KeptByFlush /\ Forgotten /\ ChangesTracked

-----------------------------------------------------------------------------
LEMMA EmptyListsNone == Listed(Empty) = {}
BY DEF Listed, Empty

LEMMA EmptyType == Empty \in Array
BY BoundAssumption DEF Empty, Array

LEMMA LoadedType ==
  ASSUME NEW file \in [backup : Array, primary : Array]
  PROVE  Loaded(file) \in Array
BY DEF Loaded

LEMMA ChangeType ==
  ASSUME NEW array \in Array, NEW h \in Host, NEW v \in 0..MaxValue
  PROVE  [array EXCEPT ![h] = v] \in Array
BY DEF Array

\* Only the host that is changed enters or leaves the list.
LEMMA ChangeListed ==
  ASSUME NEW array \in Array, NEW h \in Host, NEW v \in 0..MaxValue
  PROVE  Listed([array EXCEPT ![h] = v])
           = IF v > 0 THEN Listed(array) \cup {h} ELSE Listed(array) \ {h}
<1>1. \A x \in Host : [array EXCEPT ![h] = v][x] = IF x = h THEN v ELSE array[x]
  BY DEF Array
<1>2. CASE v > 0
  BY <1>1, <1>2 DEF Listed
<1>3. CASE ~(v > 0)
  BY <1>1, <1>3 DEF Listed
<1> QED BY <1>2, <1>3

-----------------------------------------------------------------------------
(* Types *)

LEMMA TypeInit == Init => TypeOK
<1> SUFFICES ASSUME Init PROVE TypeOK
  OBVIOUS
<1>1. PICK array \in Array : disk = [backup |-> Empty, primary |-> array]
  BY DEF Init, Array
<1>2. disk \in [backup : Array, primary : Array] /\ settings = disk
  BY <1>1, EmptyType DEF Init
<1>3. edits \in 0..MaxEdits
  BY BoundAssumption DEF Init
<1>4. durable \subseteq Host /\ gone \subseteq Host
  BY DEF Init, Listed
<1> QED BY <1>2, <1>3, <1>4, EmptyType DEF Init, TypeOK

LEMMA TypeStep == TypeOK /\ [Next]_vars => TypeOK'
<1> SUFFICES ASSUME TypeOK, [Next]_vars PROVE TypeOK'
  OBVIOUS
<1> USE DEF TypeOK
<1>1. CASE Restart
  BY <1>1, LoadedType DEF Restart, Memory
<1>2. CASE Crash
  BY <1>2, EmptyType DEF Crash, Memory, history
<1>3. CASE ExecReturns
  BY <1>3 DEF ExecReturns, memory, history
<1>4. CASE Destroy
  BY <1>4 DEF Destroy, Woken, history
<1>5. CASE Exit
  BY <1>5, EmptyType DEF Exit, Memory, history
<1>6. ASSUME NEW h \in Host, Changed(h) PROVE TypeOK'
  <2>1. PICK v \in 1..MaxValue : known' = [known EXCEPT ![h] = v]
    BY <1>6 DEF Changed
  <2>2. known' \in Array
    <3>1. v \in 0..MaxValue
      BY BoundAssumption
    <3> QED BY <2>1, <3>1, ChangeType
  <2>3. edits' \in 0..MaxEdits
    BY <1>6, BoundAssumption DEF Changed, Edit
  <2> QED BY <1>6, <2>2, <2>3 DEF Changed, history
<1>7. ASSUME NEW h \in Host, Added(h) PROVE TypeOK'
  <2>1. known' \in Array
    <3>1. 1 \in 0..MaxValue
      BY <1>7, BoundAssumption DEF Added
    <3> QED BY <1>7, <3>1, ChangeType DEF Added
  <2>2. edits' \in 0..MaxEdits
    BY <1>7, BoundAssumption DEF Added, Edit
  <2> QED BY <1>7, <2>1, <2>2 DEF Added
<1>8. ASSUME NEW h \in Host, Unlisted(h) PROVE TypeOK'
  <2>1. known' \in Array
    <3>1. 0 \in 0..MaxValue
      BY <1>8, BoundAssumption DEF Unlisted
    <3> QED BY <1>8, <3>1, ChangeType DEF Unlisted
  <2>2. edits' \in 0..MaxEdits
    BY <1>8, BoundAssumption DEF Unlisted, Edit
  <2> QED BY <1>8, <2>1, <2>2 DEF Unlisted
<1>9. ASSUME NEW h \in Host, StateChanged(h) PROVE TypeOK'
  BY <1>9 DEF StateChanged, SaveHosts, Woken, history
<1>10. CASE DeletionSaved
  BY <1>10 DEF DeletionSaved, SaveHosts, Woken, history
<1>11. CASE Test
  BY <1>11 DEF Test, Tested, FlusherStep
<1>12. CASE Sleep
  BY <1>12 DEF Sleep, FlusherStep
<1>13. CASE CopyHosts
  BY <1>13 DEF CopyHosts, FlusherStep
<1>14. CASE BeginBackup
  BY <1>14, EmptyType DEF BeginBackup, Write, FlusherStep
<1>15. CASE EndBackup
  BY <1>15 DEF EndBackup, List, Write, FlusherStep
<1>16. CASE RemovePrimary
  BY <1>16, EmptyType DEF RemovePrimary, Write, FlusherStep
<1>17. CASE EndPrimary
  BY <1>17 DEF EndPrimary, List, Write, FlusherStep
<1>18. CASE RemoveBackup
  BY <1>18, EmptyType DEF RemoveBackup, Write, FlusherStep
<1>19. CASE FlushDone
  BY <1>19 DEF FlushDone, FlusherStep, Listed
<1>20. CASE Sync
  BY <1>20 DEF Sync, memory, history
<1>21. CASE UNCHANGED vars
  BY <1>21 DEF vars, memory, history
<1> QED
  BY <1>1, <1>2, <1>3, <1>4, <1>5, <1>6, <1>7, <1>8, <1>9, <1>10, <1>11, <1>12, <1>13,
     <1>14, <1>15, <1>16, <1>17, <1>18, <1>19, <1>20, <1>21 DEF Next, Flush

-----------------------------------------------------------------------------
(* Phases of the program *)

LEMMA PhasesStep ==
  TypeOK /\ ProgramPhases /\ [Next]_vars => ProgramPhases'
<1> SUFFICES ASSUME TypeOK, ProgramPhases, [Next]_vars PROVE ProgramPhases'
  OBVIOUS
<1> USE DEF ProgramPhases, FlushedAtExit, TypeOK
<1>1. CASE Restart
  BY <1>1 DEF Restart, Memory
<1>2. CASE Crash
  BY <1>2 DEF Crash, Memory, history
<1>3. CASE ExecReturns
  BY <1>3 DEF ExecReturns, memory, history
<1>4. CASE Destroy
  BY <1>4 DEF Destroy, Woken, history
<1>5. CASE Exit
  BY <1>5 DEF Exit, Memory, history
<1>6. ASSUME NEW h \in Host, Changed(h) PROVE ProgramPhases'
  BY <1>6 DEF Changed, history
<1>7. ASSUME NEW h \in Host, Added(h) PROVE ProgramPhases'
  BY <1>7 DEF Added
<1>8. ASSUME NEW h \in Host, Unlisted(h) PROVE ProgramPhases'
  BY <1>8 DEF Unlisted
<1>9. ASSUME NEW h \in Host, StateChanged(h) PROVE ProgramPhases'
  BY <1>9 DEF StateChanged, SaveHosts, MutexFree, Woken, history
<1>10. CASE DeletionSaved
  BY <1>10 DEF DeletionSaved, SaveHosts, MutexFree, Woken, history
<1>11. CASE Test
  BY <1>11 DEF Test, Tested, FlusherStep, ResetPoint
<1>12. CASE Sleep
  BY <1>12 DEF Sleep, FlusherStep, ResetPoint
<1>13. CASE CopyHosts
  BY <1>13 DEF CopyHosts, FlusherStep, ResetPoint
<1>14. CASE BeginBackup
  BY <1>14 DEF BeginBackup, Write, FlusherStep, ResetPoint
<1>15. CASE EndBackup
  BY <1>15 DEF EndBackup, List, Write, FlusherStep, ResetPoint
<1>16. CASE RemovePrimary
  BY <1>16 DEF RemovePrimary, Write, FlusherStep, ResetPoint
<1>17. CASE EndPrimary
  BY <1>17 DEF EndPrimary, List, Write, FlusherStep, ResetPoint
<1>18. CASE RemoveBackup
  BY <1>18 DEF RemoveBackup, Write, FlusherStep, ResetPoint
<1>19. CASE FlushDone
  BY <1>19 DEF FlushDone, FlusherStep, ResetPoint
<1>20. CASE Sync
  BY <1>20 DEF Sync, memory, history
<1>21. CASE UNCHANGED vars
  BY <1>21 DEF vars, memory, history
<1> QED
  BY <1>1, <1>2, <1>3, <1>4, <1>5, <1>6, <1>7, <1>8, <1>9, <1>10, <1>11,
     <1>12, <1>13, <1>14, <1>15, <1>16, <1>17, <1>18, <1>19, <1>20, <1>21 DEF Next, Flush

-----------------------------------------------------------------------------
(* Deleted hosts *)

LEMMA ForgottenStep ==
  TypeOK /\ ProgramPhases /\ Forgotten /\ [Next]_vars => Forgotten'
<1> SUFFICES ASSUME TypeOK /\ ProgramPhases, Forgotten, [Next]_vars PROVE Forgotten'
  OBVIOUS
<1> USE DEF Forgotten, ProgramPhases
<1>1. CASE Restart
  BY <1>1 DEF Restart, Memory, Listed, Empty, Loaded
<1>2. CASE Crash
  BY <1>2 DEF Crash, Memory, history, Listed, Empty, Loaded
<1>3. CASE ExecReturns
  BY <1>3 DEF ExecReturns, memory, history
<1>4. CASE Destroy
  BY <1>4 DEF Destroy, Woken, history
<1>5. CASE Exit
  BY <1>5 DEF Exit, Memory, history, Listed, Empty, Loaded
<1>6. ASSUME NEW h \in Host, Changed(h) PROVE Forgotten'
  BY <1>6 DEF Changed, history, Listed
<1>7. ASSUME NEW h \in Host, Added(h) PROVE Forgotten'
  BY <1>7 DEF Added, Listed
<1>8. ASSUME NEW h \in Host, Unlisted(h) PROVE Forgotten'
  BY <1>8 DEF Unlisted, Listed
<1>9. ASSUME NEW h \in Host, StateChanged(h) PROVE Forgotten'
  BY <1>9 DEF StateChanged, SaveHosts, MutexFree, Woken, history
<1>10. CASE DeletionSaved
  BY <1>10 DEF DeletionSaved, SaveHosts, MutexFree, Woken, history
<1>11. CASE Test
  BY <1>11 DEF Test, Tested, FlusherStep, ResetPoint
<1>12. CASE Sleep
  BY <1>12 DEF Sleep, FlusherStep, ResetPoint
<1>13. CASE CopyHosts
  BY <1>13 DEF CopyHosts, FlusherStep, ResetPoint
<1>14. CASE BeginBackup
  BY <1>14 DEF BeginBackup, Write, FlusherStep, ResetPoint, Listed, Empty, Loaded
<1>15. CASE EndBackup
  BY <1>15 DEF EndBackup, List, Write, FlusherStep, ResetPoint
<1>16. CASE RemovePrimary
  BY <1>16 DEF RemovePrimary, Write, FlusherStep, ResetPoint, Listed, Empty, Loaded
<1>17. CASE EndPrimary
  BY <1>17 DEF EndPrimary, List, Write, FlusherStep, ResetPoint
<1>18. CASE RemoveBackup
  BY <1>18 DEF RemoveBackup, Write, FlusherStep, ResetPoint, Listed, Empty, Loaded
<1>19. CASE FlushDone
  BY <1>19 DEF FlushDone, FlusherStep, ResetPoint, Listed, Empty, Loaded
<1>20. CASE Sync
  BY <1>20 DEF Sync, memory, history
<1>21. CASE UNCHANGED vars
  BY <1>21 DEF vars, memory, history
<1> QED
  BY <1>1, <1>2, <1>3, <1>4, <1>5, <1>6, <1>7, <1>8, <1>9, <1>10, <1>11,
     <1>12, <1>13, <1>14, <1>15, <1>16, <1>17, <1>18, <1>19, <1>20, <1>21 DEF Next, Flush

-----------------------------------------------------------------------------
(* Saved hosts *)

LEMMA KeptStep ==
  TypeOK /\ ProgramPhases /\ KeptByFlush /\ [Next]_vars => KeptByFlush'
<1> SUFFICES ASSUME TypeOK /\ ProgramPhases, KeptByFlush, [Next]_vars PROVE KeptByFlush'
  OBVIOUS
<1> USE DEF KeptByFlush, BackupKeeps, ProgramPhases
<1>1. CASE Restart
  BY <1>1 DEF Restart, Memory
<1>2. CASE Crash
  BY <1>2 DEF Crash, Memory, history, Listed, Empty, Loaded
<1>3. CASE ExecReturns
  BY <1>3 DEF ExecReturns, memory, history
<1>4. CASE Destroy
  BY <1>4 DEF Destroy, Woken, history
<1>5. CASE Exit
  BY <1>5 DEF Exit, Memory, history, Listed, Empty, Loaded
<1>6. ASSUME NEW h \in Host, Changed(h) PROVE KeptByFlush'
  BY <1>6 DEF Changed, history, Listed
<1>7. ASSUME NEW h \in Host, Added(h) PROVE KeptByFlush'
  BY <1>7 DEF Added, Listed
<1>8. ASSUME NEW h \in Host, Unlisted(h) PROVE KeptByFlush'
  BY <1>8 DEF Unlisted, Listed
<1>9. ASSUME NEW h \in Host, StateChanged(h) PROVE KeptByFlush'
  BY <1>9 DEF StateChanged, SaveHosts, MutexFree, Woken, history
<1>10. CASE DeletionSaved
  BY <1>10 DEF DeletionSaved, SaveHosts, MutexFree, Woken, history
<1>11. CASE Test
  BY <1>11 DEF Test, Tested, FlusherStep, ResetPoint
<1>12. CASE Sleep
  BY <1>12 DEF Sleep, FlusherStep, ResetPoint
<1>13. CASE CopyHosts
  BY <1>13 DEF CopyHosts, FlusherStep, ResetPoint
<1>14. CASE BeginBackup
  BY <1>14 DEF BeginBackup, Write, FlusherStep, ResetPoint
<1>15. CASE EndBackup
  BY <1>15 DEF TypeOK, EndBackup, List, Write, FlusherStep, ResetPoint, Listed
<1>16. CASE RemovePrimary
  BY <1>16 DEF RemovePrimary, Write, FlusherStep, ResetPoint
<1>17. CASE EndPrimary
  BY <1>17 DEF TypeOK, EndPrimary, List, Write, FlusherStep, ResetPoint, Listed
<1>18. CASE RemoveBackup
  BY <1>18 DEF TypeOK, RemoveBackup, Write, FlusherStep, ResetPoint, Listed, Empty, Loaded
<1>19. CASE FlushDone
  BY <1>19 DEF FlushDone, FlusherStep, ResetPoint, Listed, Empty, Loaded
<1>20. CASE Sync
  BY <1>20 DEF Sync, memory, history, Listed, Empty, Loaded
<1>21. CASE UNCHANGED vars
  BY <1>21 DEF vars, memory, history
<1> QED
  BY <1>1, <1>2, <1>3, <1>4, <1>5, <1>6, <1>7, <1>8, <1>9, <1>10, <1>11,
     <1>12, <1>13, <1>14, <1>15, <1>16, <1>17, <1>18, <1>19, <1>20, <1>21 DEF Next, Flush

-----------------------------------------------------------------------------
(* Changes *)

LEMMA TrackedStep ==
  TypeOK /\ ProgramPhases /\ ChangesTracked /\ [Next]_vars => ChangesTracked'
<1> SUFFICES ASSUME TypeOK /\ ProgramPhases, ChangesTracked, [Next]_vars PROVE ChangesTracked'
  OBVIOUS
<1> USE DEF TypeOK, Array, ChangesTracked, Pending, AheadOf, Listed
<1>1. CASE Restart
  BY <1>1 DEF Restart, Memory, ProgramPhases, Loaded, Empty
<1>2. CASE Crash
  BY <1>2 DEF Crash
<1>3. CASE ExecReturns
  BY <1>3 DEF ExecReturns
<1>4. CASE Destroy
  BY <1>4 DEF Destroy
<1>5. CASE Exit
  BY <1>5 DEF Exit
<1>6. ASSUME NEW h \in Host, Changed(h) PROVE ChangesTracked'
  BY <1>6 DEF Changed, history
<1>7. ASSUME NEW h \in Host, Added(h) PROVE ChangesTracked'
  BY <1>7 DEF Added
<1>8. ASSUME NEW h \in Host, Unlisted(h) PROVE ChangesTracked'
  BY <1>8 DEF Unlisted
<1>9. ASSUME NEW h \in Host, StateChanged(h) PROVE ChangesTracked'
  <2>1. CASE Differs(h)
    BY <1>9, <2>1 DEF StateChanged, SaveHosts, MutexFree, Woken, history
  <2>2. CASE ~Differs(h)
    BY <1>9, <2>2 DEF StateChanged, Differs, history
  <2> QED BY <2>1, <2>2
<1>10. CASE DeletionSaved
  BY <1>10 DEF DeletionSaved, SaveHosts, MutexFree, Woken, history
<1>11. CASE Test
  BY <1>11 DEF Test, Tested, FlusherStep, ResetPoint
<1>12. CASE Sleep
  BY <1>12 DEF Sleep, FlusherStep, ResetPoint
<1>13. CASE CopyHosts
  BY <1>13 DEF CopyHosts, FlusherStep, ResetPoint
<1>14. CASE BeginBackup
  BY <1>14 DEF BeginBackup, Write, FlusherStep, ResetPoint
<1>15. CASE EndBackup
  BY <1>15 DEF EndBackup, List, Write, FlusherStep, ResetPoint
<1>16. CASE RemovePrimary
  BY <1>16 DEF RemovePrimary, Write, FlusherStep, ResetPoint
<1>17. CASE EndPrimary
  BY <1>17 DEF EndPrimary, List, Write, FlusherStep, ResetPoint
<1>18. CASE RemoveBackup
  BY <1>18 DEF RemoveBackup, Write, FlusherStep, ResetPoint
<1>19. CASE FlushDone
  BY <1>19 DEF FlushDone, FlusherStep, ResetPoint, ProgramPhases, Loaded, Empty
<1>20. CASE Sync
  BY <1>20 DEF Sync, memory, history
<1>21. CASE UNCHANGED vars
  BY <1>21 DEF vars, memory, history
<1> QED
  BY <1>1, <1>2, <1>3, <1>4, <1>5, <1>6, <1>7, <1>8, <1>9, <1>10, <1>11,
     <1>12, <1>13, <1>14, <1>15, <1>16, <1>17, <1>18, <1>19, <1>20, <1>21 DEF Next, Flush

-----------------------------------------------------------------------------
(* The theorems *)

THEOREM InductiveInvariant == Spec => []IInv
<1>1. Init => IInv
  <2> SUFFICES ASSUME Init PROVE IInv
    OBVIOUS
  <2>1. TypeOK
    BY TypeInit
  <2>2. ProgramPhases
    BY DEF Init, ProgramPhases, FlushedAtExit
  <2>3. known = Empty /\ settings = disk /\ disk.backup = Empty
    BY DEF Init
  <2>4. KeptByFlush
    BY <2>3, EmptyListsNone DEF Init, KeptByFlush, BackupKeeps, Loaded
  <2>5. Forgotten
    BY <2>3, EmptyListsNone DEF Init, Forgotten
  <2>6. ChangesTracked
    BY DEF Init, ChangesTracked
  <2> QED BY <2>1, <2>2, <2>4, <2>5, <2>6 DEF IInv
<1>2. IInv /\ [Next]_vars => IInv'
  BY TypeStep, PhasesStep, ForgottenStep, KeptStep, TrackedStep DEF IInv
<1> QED BY <1>1, <1>2, PTL DEF Spec

\* The state of ComputerManager, of its flush thread and of the settings stays
\* well-formed.
THEOREM TypeCorrect == Spec => []TypeOK
<1>1. IInv => TypeOK
  BY DEF IInv
<1> QED BY <1>1, InductiveInvariant, PTL

\* The assertions of run() and ~ComputerManager() never fire: the flush thread
\* exits only when asked to, and leaves no request behind.
THEOREM ExitIsClean == Spec => []FlushedAtExit
<1>1. IInv => FlushedAtExit
  BY DEF IInv, ProgramPhases
<1> QED BY <1>1, InductiveInvariant, PTL

\* No change slips past the copy, the flag and the flush.
THEOREM NoChangeIsMissed == Spec => []SavedWhenQuiet
<1>1. IInv => SavedWhenQuiet
  <2> SUFFICES ASSUME IInv, life = "running", flusher = "wait", signals = {}, ~deletion
               PROVE  lastSerialized = known /\ Listed(Loaded(settings)) = Listed(known)
    BY DEF SavedWhenQuiet
  <2>1. ~Pending
    BY DEF IInv, ProgramPhases, Pending
  <2>2. \A h \in Host : lastSerialized[h] = known[h]
    BY <2>1 DEF IInv, ChangesTracked
  <2>3. \A h \in Host : (known[h] > 0) = (Loaded(settings)[h] > 0)
    BY <2>1 DEF IInv, ChangesTracked, AheadOf
  <2>4. lastSerialized = known
    BY <2>2 DEF IInv, TypeOK, Array
  <2>5. Listed(Loaded(settings)) = Listed(known)
    BY <2>3 DEF Listed
  <2> QED BY <2>4, <2>5
<1> QED BY <1>1, InductiveInvariant, PTL

\* Only a start of the program restarts it.
LEMMA RestartsOnly == [Next]_vars /\ Restarts => known' = Loaded(disk)
BY DEF Next, Flush, Restarts, Restart, Memory, Crash, ExecReturns, Destroy, Exit, Changed,
       Added, Unlisted, StateChanged, DeletionSaved, Test, Sleep, CopyHosts, FlusherStep,
       BeginBackup, EndBackup, RemovePrimary, EndPrimary, RemoveBackup, Write, FlushDone,
       Sync, vars

\* Together: no change is lost between the threads, in a well-formed state.
THEOREM NoChangeIsLost == Spec => []NoChangeLost
BY TypeCorrect, NoChangeIsMissed, ExitIsClean, PTL DEF NoChangeLost

\* A saved host is there after every restart, wherever a crash has hit the
\* flush: the backup is read before the primary array and holds every durable
\* host while the primary array is written.
THEOREM SavedHostsSurvive == Spec => HostsSurvive
<1>1. IInv /\ [Next]_vars => [Restarts => durable \subseteq Listed(known')]_vars
  BY RestartsOnly DEF IInv, KeptByFlush
<1> QED BY <1>1, InductiveInvariant, PTL DEF Spec, HostsSurvive

\* A host whose deletion was saved never comes back out of the backup.
THEOREM DeletionsAreFinal == Spec => DeletedStaysDeleted
<1>1. IInv /\ [Next]_vars => [Restarts => gone \cap Listed(known') = {}]_vars
  BY RestartsOnly DEF IInv, Forgotten, Loaded
<1> QED BY <1>1, InductiveInvariant, PTL DEF Spec, DeletedStaysDeleted
=============================================================================
