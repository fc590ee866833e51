------------------------- MODULE UpdateInstallProofs -------------------------
(***************************************************************************)
(* Proofs about UpdateInstall, for any set of updaters and any number of   *)
(* failures and crashes.                                                   *)
(***************************************************************************)
EXTENDS UpdateInstall, TLAPS

(* Next, one updater at a time.                                            *)
LEMMA NextCases ==
  ASSUME Next
  PROVE  \/ \E u \in Updaters :
              \/ Begin(u)
              \/ Locate(u)
              \/ Acquire(u)
              \/ Busy(u)
              \/ Check(u)
              \/ Stop(u)
              \/ Inspect(u)
              \/ SetAside(u)
              \/ Install(u)
              \/ Sync(u)
              \/ StartService(u)
              \/ Unhealthy(u)
              \/ Rollback(u)
              \/ RestoreRemove(u)
              \/ RestoreRename(u)
              \/ RestoreSync(u)
              \/ Restart(u)
              \/ RestartAfterFailure(u)
              \/ Unstage(u)
              \/ Unlock(u)
              \/ Healthy(u)
              \/ Crash(u)
         \/ DeleteStaleLock \/ WindsDown \/ KeepAlive
BY DEF Next, Running, Forward, Back

(* A fault is counted within the bound.                                    *)
LEMMA FaultCounts ==
  ASSUME TypeOK
  PROVE  Fault => faults' \in 0 .. MaxFaults
BY UpdateAssumption DEF TypeOK, Fault

(* Calls of the file system keep the types of what they change.              *)
LEMMA FileCalls ==
  ASSUME dir \in [Paths -> Files \cup {None}], name \in [Files -> Paths]
  PROVE  LET typed == /\ dir' \in [Paths -> Files \cup {None}]
                      /\ name' \in [Files -> Paths]
         IN  /\ UNCHANGED files => typed
             /\ \A p \in Paths : Remove(p) => typed
             /\ \A f \in Files, p, q \in Paths : Move(f, p, q) => typed
             /\ \A f \in Files, p \in Paths : Create(f, p) => typed
BY DEF files, Remove, Move, Create

(* current_exe() and backup_path() stay among the paths.                   *)
LEMMA PathsKnown ==
  /\ Binary \in Paths /\ Backup \in Paths
  /\ \A p \in Paths : Gone(p) \in Paths /\ BackupOf(p) \in Paths
BY DEF Paths, Gone, BackupOf, Binary, Backup

(* What a start of the service runs.                                       *)
LEMMA StartedType ==
  ASSUME TypeOK
  PROVE  Started \in Files \cup {None}
BY PathsKnown DEF TypeOK, Started

(* Every step keeps the types.                                             *)
LEMMA TypeStep ==
  ASSUME TypeOK, Begun, Next
  PROVE  TypeOK'
<1>1. ASSUME NEW u \in Updaters, Begin(u) PROVE TypeOK'
  BY <1>1, FaultCounts, FileCalls, PathsKnown, StartedType DEF Begin, Goto, TypeOK,
      Begun, me, host, service, Holding, Phases, Files
<1>2. ASSUME NEW u \in Updaters, Locate(u) PROVE TypeOK'
  BY <1>2, FaultCounts, FileCalls, PathsKnown, StartedType DEF Locate, Goto, TypeOK,
      Begun, me, host, service, Holding, Phases, Files
<1>3. ASSUME NEW u \in Updaters, Acquire(u) PROVE TypeOK'
  BY <1>3, FaultCounts, FileCalls, PathsKnown, StartedType DEF Acquire, Goto, Ending,
      TypeOK, Begun, me, host, service, Holding, Phases, Files
<1>4. ASSUME NEW u \in Updaters, Busy(u) PROVE TypeOK'
  BY <1>4, FaultCounts, FileCalls, PathsKnown, StartedType DEF Busy, Goto, Ending,
      TypeOK, Begun, me, host, service, Holding, Phases, Files
<1>5. ASSUME NEW u \in Updaters, Check(u) PROVE TypeOK'
  BY <1>5, FaultCounts, FileCalls, PathsKnown, StartedType DEF Check, Goto, Ending,
      TypeOK, Begun, me, host, service, Holding, Phases, Files
<1>6. ASSUME NEW u \in Updaters, Stop(u) PROVE TypeOK'
  BY <1>6, FaultCounts, FileCalls, PathsKnown, StartedType DEF Stop, Goto, Ending,
      StopsOk, Ended, Signalled, StopFails, TypeOK, Begun, me, host, service, Holding,
      Phases, Files
<1>7. ASSUME NEW u \in Updaters, Inspect(u) PROVE TypeOK'
  BY <1>7, FaultCounts, FileCalls, PathsKnown, StartedType DEF Inspect, Goto, Ending,
      FailAndRestart, TypeOK, Begun, me, host, service, Holding, Phases, Files
<1>8. ASSUME NEW u \in Updaters, SetAside(u) PROVE TypeOK'
  BY <1>8, FaultCounts, FileCalls, PathsKnown, StartedType DEF SetAside, Goto, Ending,
      FailAndRestart, TypeOK, Begun, me, host, service, Holding, Phases, Files
<1>9. ASSUME NEW u \in Updaters, Install(u) PROVE TypeOK'
  BY <1>9, FaultCounts, FileCalls, PathsKnown, StartedType DEF Install, Goto, TypeOK,
      Begun, me, host, service, Holding, Phases, Files
<1>10. ASSUME NEW u \in Updaters, Sync(u) PROVE TypeOK'
  BY <1>10, FaultCounts, FileCalls, PathsKnown, StartedType DEF Sync, Goto, Ending,
      TypeOK, Begun, me, host, service, Holding, Phases, Files
<1>11. ASSUME NEW u \in Updaters, StartService(u) PROVE TypeOK'
  BY <1>11, FaultCounts, FileCalls, PathsKnown, StartedType DEF StartService, Goto,
      StartsOk, StartFails, TypeOK, Begun, me, host, service, Holding, Phases, Files
<1>12. ASSUME NEW u \in Updaters, Unhealthy(u) PROVE TypeOK'
  BY <1>12, FaultCounts, FileCalls, PathsKnown, StartedType DEF Unhealthy, Goto, TypeOK,
      Begun, me, host, service, Holding, Phases, Files
<1>13. ASSUME NEW u \in Updaters, Rollback(u) PROVE TypeOK'
  BY <1>13, FaultCounts, FileCalls, PathsKnown, StartedType DEF Rollback, Goto, Ending,
      StopsOk, Ended, Signalled, StopFails, TypeOK, Begun, me, host, service, Holding,
      Phases, Files
<1>14. ASSUME NEW u \in Updaters, RestoreRemove(u) PROVE TypeOK'
  BY <1>14, FaultCounts, FileCalls, PathsKnown, StartedType DEF RestoreRemove, Goto,
      Ending, RestoreFails, TypeOK, Begun, me, host, service, Holding, Phases, Files
<1>15. ASSUME NEW u \in Updaters, RestoreRename(u) PROVE TypeOK'
  BY <1>15, FaultCounts, FileCalls, PathsKnown, StartedType DEF RestoreRename, Goto,
      Ending, RestoreFails, TypeOK, Begun, me, host, service, Holding, Phases, Files
<1>16. ASSUME NEW u \in Updaters, RestoreSync(u) PROVE TypeOK'
  BY <1>16, FaultCounts, FileCalls, PathsKnown, StartedType DEF RestoreSync, Goto,
      Ending, RestoreFails, TypeOK, Begun, me, host, service, Holding, Phases, Files
<1>17. ASSUME NEW u \in Updaters, Restart(u) PROVE TypeOK'
  BY <1>17, FaultCounts, FileCalls, PathsKnown, StartedType DEF Restart, Goto, Ending,
      StartsOk, StartFails, TypeOK, Begun, me, host, service, Holding, Phases, Files
<1>18. ASSUME NEW u \in Updaters, RestartAfterFailure(u) PROVE TypeOK'
  BY <1>18, FaultCounts, FileCalls, PathsKnown, StartedType DEF RestartAfterFailure,
      Goto, StartsOk, StartFails, TypeOK, Begun, me, host, service, Holding, Phases,
      Files
<1>19. ASSUME NEW u \in Updaters, Unstage(u) PROVE TypeOK'
  BY <1>19, FaultCounts, FileCalls, PathsKnown, StartedType DEF Unstage, Goto, Ending,
      TypeOK, Begun, me, host, service, Holding, Phases, Files
<1>20. ASSUME NEW u \in Updaters, Unlock(u) PROVE TypeOK'
  BY <1>20, FaultCounts, FileCalls, PathsKnown, StartedType DEF Unlock, Goto, TypeOK,
      Begun, me, host, service, Holding, Phases, Files
<1>21. ASSUME NEW u \in Updaters, Healthy(u) PROVE TypeOK'
  BY <1>21, FaultCounts, FileCalls, PathsKnown, StartedType DEF Healthy, Goto, Ending,
      TypeOK, Begun, me, host, service, Holding, Phases, Files
<1>22. ASSUME NEW u \in Updaters, Crash(u) PROVE TypeOK'
  BY <1>22, FaultCounts, FileCalls, PathsKnown, StartedType DEF Crash, Goto, TypeOK,
      Begun, me, host, service, Holding, Phases, Files
<1>23. CASE DeleteStaleLock
  BY <1>23, FaultCounts, FileCalls, PathsKnown, StartedType DEF DeleteStaleLock, TypeOK,
      Begun, me, host, service, Holding, Phases, Files
<1>24. CASE WindsDown
  BY <1>24, FileCalls DEF WindsDown, TypeOK, me, host
<1>25. CASE KeepAlive
  BY <1>25, FileCalls, PathsKnown DEF KeepAlive, TypeOK, me, host
<1> QED BY <1>1, <1>2, <1>3, <1>4, <1>5, <1>6, <1>7, <1>8, <1>9, <1>10, <1>11, <1>12,
    <1>13, <1>14, <1>15, <1>16, <1>17, <1>18, <1>19, <1>20, <1>21, <1>22, <1>23,
    <1>24, <1>25, NextCases

(* Every step keeps what has begun.                                        *)
LEMMA BegunStep ==
  ASSUME TypeOK, Begun, Next
  PROVE  Begun'
<1>1. ASSUME NEW u \in Updaters, Begin(u) PROVE Begun'
  BY <1>1, UpdateAssumption, PathsKnown DEF Begin, Goto, TypeOK, Begun, me, host,
      service, Holding, Files
<1>2. ASSUME NEW u \in Updaters, Locate(u) PROVE Begun'
  BY <1>2, UpdateAssumption, PathsKnown DEF Locate, Goto, TypeOK, Begun, me, host,
      service, Holding, Files
<1>3. ASSUME NEW u \in Updaters, Acquire(u) PROVE Begun'
  BY <1>3, UpdateAssumption, PathsKnown DEF Acquire, Goto, Ending, TypeOK, Begun, me,
      host, service, Holding, Files
<1>4. ASSUME NEW u \in Updaters, Busy(u) PROVE Begun'
  BY <1>4, UpdateAssumption, PathsKnown DEF Busy, Goto, Ending, TypeOK, Begun, me, host,
      service, Holding, Files
<1>5. ASSUME NEW u \in Updaters, Check(u) PROVE Begun'
  BY <1>5, UpdateAssumption, PathsKnown DEF Check, Goto, Ending, TypeOK, Begun, me,
      host, service, Holding, Files
<1>6. ASSUME NEW u \in Updaters, Stop(u) PROVE Begun'
  BY <1>6, UpdateAssumption, PathsKnown DEF Stop, Goto, Ending, StopsOk, Ended,
      Signalled, StopFails, TypeOK, Begun, me, host, service, Holding, Files
<1>7. ASSUME NEW u \in Updaters, Inspect(u) PROVE Begun'
  BY <1>7, UpdateAssumption, PathsKnown DEF Inspect, Goto, Ending, FailAndRestart,
      TypeOK, Begun, me, host, service, Holding, Files
<1>8. ASSUME NEW u \in Updaters, SetAside(u) PROVE Begun'
  BY <1>8, UpdateAssumption, PathsKnown DEF SetAside, Goto, Ending, FailAndRestart,
      TypeOK, Begun, me, host, service, Holding, Files
<1>9. ASSUME NEW u \in Updaters, Install(u) PROVE Begun'
  BY <1>9, UpdateAssumption, PathsKnown DEF Install, Goto, TypeOK, Begun, me, host,
      service, Holding, Files
<1>10. ASSUME NEW u \in Updaters, Sync(u) PROVE Begun'
  BY <1>10, UpdateAssumption, PathsKnown DEF Sync, Goto, Ending, TypeOK, Begun, me,
      host, service, Holding, Files
<1>11. ASSUME NEW u \in Updaters, StartService(u) PROVE Begun'
  BY <1>11, UpdateAssumption, PathsKnown DEF StartService, Goto, StartsOk, StartFails,
      TypeOK, Begun, me, host, service, Holding, Files
<1>12. ASSUME NEW u \in Updaters, Unhealthy(u) PROVE Begun'
  BY <1>12, UpdateAssumption, PathsKnown DEF Unhealthy, Goto, TypeOK, Begun, me, host,
      service, Holding, Files
<1>13. ASSUME NEW u \in Updaters, Rollback(u) PROVE Begun'
  BY <1>13, UpdateAssumption, PathsKnown DEF Rollback, Goto, Ending, StopsOk, Ended,
      Signalled, StopFails, TypeOK, Begun, me, host, service, Holding, Files
<1>14. ASSUME NEW u \in Updaters, RestoreRemove(u) PROVE Begun'
  BY <1>14, UpdateAssumption, PathsKnown DEF RestoreRemove, Goto, Ending, RestoreFails,
      TypeOK, Begun, me, host, service, Holding, Files
<1>15. ASSUME NEW u \in Updaters, RestoreRename(u) PROVE Begun'
  BY <1>15, UpdateAssumption, PathsKnown DEF RestoreRename, Goto, Ending, RestoreFails,
      TypeOK, Begun, me, host, service, Holding, Files
<1>16. ASSUME NEW u \in Updaters, RestoreSync(u) PROVE Begun'
  BY <1>16, UpdateAssumption, PathsKnown DEF RestoreSync, Goto, Ending, RestoreFails,
      TypeOK, Begun, me, host, service, Holding, Files
<1>17. ASSUME NEW u \in Updaters, Restart(u) PROVE Begun'
  BY <1>17, UpdateAssumption, PathsKnown DEF Restart, Goto, Ending, StartsOk,
      StartFails, TypeOK, Begun, me, host, service, Holding, Files
<1>18. ASSUME NEW u \in Updaters, RestartAfterFailure(u) PROVE Begun'
  BY <1>18, UpdateAssumption, PathsKnown DEF RestartAfterFailure, Goto, StartsOk,
      StartFails, TypeOK, Begun, me, host, service, Holding, Files
<1>19. ASSUME NEW u \in Updaters, Unstage(u) PROVE Begun'
  BY <1>19, UpdateAssumption, PathsKnown DEF Unstage, Goto, Ending, TypeOK, Begun, me,
      host, service, Holding, Files
<1>20. ASSUME NEW u \in Updaters, Unlock(u) PROVE Begun'
  BY <1>20, UpdateAssumption, PathsKnown DEF Unlock, Goto, TypeOK, Begun, me, host,
      service, Holding, Files
<1>21. ASSUME NEW u \in Updaters, Healthy(u) PROVE Begun'
  BY <1>21, UpdateAssumption, PathsKnown DEF Healthy, Goto, Ending, TypeOK, Begun, me,
      host, service, Holding, Files
<1>22. ASSUME NEW u \in Updaters, Crash(u) PROVE Begun'
  BY <1>22, UpdateAssumption, PathsKnown DEF Crash, Goto, TypeOK, Begun, me, host,
      service, Holding, Files
<1>23. CASE DeleteStaleLock
  BY <1>23, UpdateAssumption, PathsKnown DEF DeleteStaleLock, TypeOK, Begun, me, host,
      service, Holding, Files
<1>24. CASE WindsDown \/ KeepAlive
  BY <1>24 DEF WindsDown, KeepAlive, Begun, me
<1> QED BY <1>1, <1>2, <1>3, <1>4, <1>5, <1>6, <1>7, <1>8, <1>9, <1>10, <1>11, <1>12,
    <1>13, <1>14, <1>15, <1>16, <1>17, <1>18, <1>19, <1>20, <1>21, <1>22, <1>23,
    <1>24, NextCases

(* Every step keeps the lock exclusive.                                    *)
LEMMA ExclusiveStep ==
  ASSUME TypeOK, Exclusive, Next
  PROVE  Exclusive'
<1>1. ASSUME NEW u \in Updaters, Begin(u) PROVE Exclusive'
  BY <1>1, UpdateAssumption DEF Begin, Goto, TypeOK, Exclusive, me, host, service,
      Holding, Files
<1>2. ASSUME NEW u \in Updaters, Locate(u) PROVE Exclusive'
  BY <1>2, UpdateAssumption DEF Locate, Goto, TypeOK, Exclusive, me, host, service,
      Holding, Files
<1>3. ASSUME NEW u \in Updaters, Acquire(u) PROVE Exclusive'
  BY <1>3, UpdateAssumption DEF Acquire, Goto, Ending, Fault, TypeOK, Exclusive, me,
      host, service, Holding, Files
<1>4. ASSUME NEW u \in Updaters, Busy(u) PROVE Exclusive'
  BY <1>4, UpdateAssumption DEF Busy, Goto, Ending, Fault, TypeOK, Exclusive, me, host,
      service, Holding, Files
<1>5. ASSUME NEW u \in Updaters, Check(u) PROVE Exclusive'
  BY <1>5, UpdateAssumption DEF Check, Goto, Ending, Fault, TypeOK, Exclusive, me, host,
      service, Holding, Files
<1>6. ASSUME NEW u \in Updaters, Stop(u) PROVE Exclusive'
  BY <1>6, UpdateAssumption DEF Stop, Goto, Ending, Fault, StopsOk, Ended, Signalled,
      StopFails, TypeOK, Exclusive, me, host, service, Holding, Files
<1>7. ASSUME NEW u \in Updaters, Inspect(u) PROVE Exclusive'
  BY <1>7, UpdateAssumption DEF Inspect, Goto, Ending, Fault, FailAndRestart, Remove,
      BackupOf, Gone, TypeOK, Exclusive, me, host, service, Holding, Files
<1>8. ASSUME NEW u \in Updaters, SetAside(u) PROVE Exclusive'
  BY <1>8, UpdateAssumption DEF SetAside, Goto, Ending, Fault, FailAndRestart, Move,
      BackupOf, Gone, TypeOK, Exclusive, me, host, service, Holding, Files
<1>9. ASSUME NEW u \in Updaters, Install(u) PROVE Exclusive'
  BY <1>9, UpdateAssumption DEF Install, Goto, Fault, Create, TypeOK, Exclusive, me,
      host, service, Holding, Files
<1>10. ASSUME NEW u \in Updaters, Sync(u) PROVE Exclusive'
  BY <1>10, UpdateAssumption DEF Sync, Goto, Ending, Fault, TypeOK, Exclusive, me, host,
      service, Holding, Files
<1>11. ASSUME NEW u \in Updaters, StartService(u) PROVE Exclusive'
  BY <1>11, UpdateAssumption DEF StartService, Goto, Fault, StartsOk, StartFails,
      Started, TypeOK, Exclusive, me, host, service, Holding, Files
<1>12. ASSUME NEW u \in Updaters, Unhealthy(u) PROVE Exclusive'
  BY <1>12, UpdateAssumption DEF Unhealthy, Goto, TypeOK, Exclusive, me, host, service,
      Holding, Files
<1>13. ASSUME NEW u \in Updaters, Rollback(u) PROVE Exclusive'
  BY <1>13, UpdateAssumption DEF Rollback, Goto, Ending, Fault, StopsOk, Ended,
      Signalled, StopFails, TypeOK, Exclusive, me, host, service, Holding, Files
<1>14. ASSUME NEW u \in Updaters, RestoreRemove(u) PROVE Exclusive'
  BY <1>14, UpdateAssumption DEF RestoreRemove, Goto, Ending, Fault, Remove,
      RestoreFails, TypeOK, Exclusive, me, host, service, Holding, Files
<1>15. ASSUME NEW u \in Updaters, RestoreRename(u) PROVE Exclusive'
  BY <1>15, UpdateAssumption DEF RestoreRename, Goto, Ending, Fault, Move, RestoreFails,
      BackupOf, Gone, TypeOK, Exclusive, me, host, service, Holding, Files
<1>16. ASSUME NEW u \in Updaters, RestoreSync(u) PROVE Exclusive'
  BY <1>16, UpdateAssumption DEF RestoreSync, Goto, Ending, Fault, RestoreFails, TypeOK,
      Exclusive, me, host, service, Holding, Files
<1>17. ASSUME NEW u \in Updaters, Restart(u) PROVE Exclusive'
  BY <1>17, UpdateAssumption DEF Restart, Goto, Ending, Fault, StartsOk, StartFails,
      Started, TypeOK, Exclusive, me, host, service, Holding, Files
<1>18. ASSUME NEW u \in Updaters, RestartAfterFailure(u) PROVE Exclusive'
  BY <1>18, UpdateAssumption DEF RestartAfterFailure, Goto, Fault, StartsOk, StartFails,
      Started, TypeOK, Exclusive, me, host, service, Holding, Files
<1>19. ASSUME NEW u \in Updaters, Unstage(u) PROVE Exclusive'
  BY <1>19, UpdateAssumption DEF Unstage, Goto, Ending, Fault, TypeOK, Exclusive, me,
      host, service, Holding, Files
<1>20. ASSUME NEW u \in Updaters, Unlock(u) PROVE Exclusive'
  BY <1>20, UpdateAssumption DEF Unlock, Goto, Fault, TypeOK, Exclusive, me, host,
      service, Holding, Files
<1>21. ASSUME NEW u \in Updaters, Healthy(u) PROVE Exclusive'
  BY <1>21, UpdateAssumption DEF Healthy, Goto, Ending, TypeOK, Exclusive, me, host,
      service, Holding, Files
<1>22. ASSUME NEW u \in Updaters, Crash(u) PROVE Exclusive'
  BY <1>22, UpdateAssumption DEF Crash, Goto, Fault, TypeOK, Exclusive, me, host,
      service, Holding, Files
<1>23. CASE DeleteStaleLock
  BY <1>23, UpdateAssumption DEF DeleteStaleLock, TypeOK, Exclusive, me, host, service,
      Holding, Files
<1>24. CASE WindsDown \/ KeepAlive
  BY <1>24 DEF WindsDown, KeepAlive, Exclusive
<1> QED BY <1>1, <1>2, <1>3, <1>4, <1>5, <1>6, <1>7, <1>8, <1>9, <1>10, <1>11, <1>12,
    <1>13, <1>14, <1>15, <1>16, <1>17, <1>18, <1>19, <1>20, <1>21, <1>22, <1>23,
    <1>24, NextCases

(* A step of install_staged() and of the way back is the lock's owner's.    *)
Inner(u) ==
  \/ Check(u)
  \/ Stop(u)
  \/ Inspect(u)
  \/ SetAside(u)
  \/ Install(u)
  \/ Sync(u)
  \/ StartService(u)
  \/ Unhealthy(u)
  \/ Healthy(u)
  \/ Rollback(u)
  \/ RestoreRemove(u)
  \/ RestoreRename(u)
  \/ RestoreSync(u)
  \/ Restart(u)
  \/ RestartAfterFailure(u)
  \/ Unstage(u)

Outer(u) == Begin(u) \/ Locate(u) \/ Acquire(u) \/ Busy(u) \/ Unlock(u) \/ Crash(u)

(* The lock's owner leaves alone the lock and what it knows.               *)
LEMMA InnerFrame ==
  ASSUME Exclusive, NEW u \in Updaters, Inner(u)
  PROVE  lock = u /\ UNCHANGED <<lock, managed, target, found>>
<1>1. CASE Check(u)
  BY <1>1 DEF Check, Goto, Ending, Exclusive, Holding, me, host, service
<1>2. CASE Stop(u)
  BY <1>2 DEF Stop, Goto, Ending, StopsOk, Ended, Signalled, StopFails, Exclusive,
      Holding, me, host, service
<1>3. CASE Inspect(u)
  BY <1>3 DEF Inspect, Goto, Ending, FailAndRestart, Remove, BackupOf, Gone, Exclusive,
      Holding, me, host, service
<1>4. CASE SetAside(u)
  BY <1>4 DEF SetAside, Goto, Ending, FailAndRestart, Move, BackupOf, Gone, Exclusive,
      Holding, me, host, service
<1>5. CASE Install(u)
  BY <1>5 DEF Install, Goto, Create, Exclusive, Holding, me, host, service
<1>6. CASE Sync(u)
  BY <1>6 DEF Sync, Goto, Ending, Exclusive, Holding, me, host, service
<1>7. CASE StartService(u)
  BY <1>7 DEF StartService, Goto, StartsOk, StartFails, Started, Exclusive, Holding, me,
      host, service
<1>8. CASE Unhealthy(u)
  BY <1>8 DEF Unhealthy, Goto, Exclusive, Holding, me, host, service
<1>9. CASE Healthy(u)
  BY <1>9 DEF Healthy, Goto, Ending, Exclusive, Holding, me, host, service
<1>10. CASE Rollback(u)
  BY <1>10 DEF Rollback, Goto, Ending, StopsOk, Ended, Signalled, StopFails, Exclusive,
      Holding, me, host, service
<1>11. CASE RestoreRemove(u)
  BY <1>11 DEF RestoreRemove, Goto, Ending, Remove, RestoreFails, Exclusive, Holding,
      me, host, service
<1>12. CASE RestoreRename(u)
  BY <1>12 DEF RestoreRename, Goto, Ending, Move, RestoreFails, BackupOf, Gone,
      Exclusive, Holding, me, host, service
<1>13. CASE RestoreSync(u)
  BY <1>13 DEF RestoreSync, Goto, Ending, RestoreFails, Exclusive, Holding, me, host,
      service
<1>14. CASE Restart(u)
  BY <1>14 DEF Restart, Goto, Ending, StartsOk, StartFails, Started, Exclusive, Holding,
      me, host, service
<1>15. CASE RestartAfterFailure(u)
  BY <1>15 DEF RestartAfterFailure, Goto, StartsOk, StartFails, Started, Exclusive,
      Holding, me, host, service
<1>16. CASE Unstage(u)
  BY <1>16 DEF Unstage, Goto, Ending, Exclusive, Holding, me, host, service
<1> QED BY <1>1, <1>2, <1>3, <1>4, <1>5, <1>6, <1>7, <1>8, <1>9, <1>10, <1>11, <1>12,
    <1>13, <1>14, <1>15, <1>16 DEF Inner

(* What the two renames of the installer do to the two paths.              *)
LEMMA MoveEffect ==
  /\ BackupOf(Binary) = Backup
  /\ \A f : Move(f, Binary, Backup) => dir'[Binary] = None /\ dir'[Backup] = f
  /\ \A f : Move(f, Backup, Binary) => dir'[Binary] = f
BY DEF BackupOf, Gone, Move, Binary, Backup, Paths

(* A call of the service manager leaves no process that is signalled or due *)
(* to start but as launchd does.                                            *)
LEMMA CallsServiced ==
  ASSUME TypeOK, Serviced, UNCHANGED manager
  PROVE  /\ StopsOk \/ StopFails => Serviced'
         /\ \A u \in Updaters : StartsOk(u) \/ StartFails(u) => Serviced'
         /\ UNCHANGED service => Serviced'
<1>1. UNCHANGED service => Serviced'
  BY DEF service, Serviced
<1>2. StopsOk => Serviced'
  BY DEF StopsOk, Ended, Signalled, Serviced, TypeOK
<1>3. ASSUME NEW u \in Updaters, StartsOk(u) PROVE Serviced'
  BY <1>3 DEF StartsOk, Started, Serviced, TypeOK
<1> QED BY <1>1, <1>2, <1>3 DEF StopFails, StartFails

(* Every step keeps the service as its manager leaves it.                   *)
LEMMA ServicedStep ==
  ASSUME TypeOK, Serviced, Next
  PROVE  Serviced'
<1>1. ASSUME NEW u \in Updaters,
             Begin(u) \/ Locate(u) \/ Acquire(u) \/ Busy(u) \/ Check(u) \/ Inspect(u)
             \/ SetAside(u) \/ Install(u) \/ Sync(u)
      PROVE  Serviced'
  BY <1>1, CallsServiced
     DEF Begin, Locate, Acquire, Busy, Check, Inspect, SetAside, Install, Sync, host
<1>2. ASSUME NEW u \in Updaters,
             Healthy(u) \/ Unhealthy(u) \/ RestoreRemove(u) \/ RestoreRename(u)
             \/ RestoreSync(u) \/ Unstage(u) \/ Unlock(u) \/ Crash(u)
      PROVE  Serviced'
  BY <1>2, CallsServiced
     DEF Healthy, Unhealthy, RestoreRemove, RestoreRename, RestoreSync, Unstage, Unlock,
         Crash, host
<1>3. ASSUME NEW u \in Updaters, Stop(u) \/ Rollback(u) PROVE Serviced'
  BY <1>3, CallsServiced DEF Stop, Rollback, host, service
<1>4. ASSUME NEW u \in Updaters, StartService(u) \/ Restart(u) \/ RestartAfterFailure(u)
      PROVE  Serviced'
  BY <1>4, CallsServiced DEF StartService, Restart, RestartAfterFailure, host, service
<1>5. CASE DeleteStaleLock
  BY <1>5, CallsServiced DEF DeleteStaleLock, host
<1>6. CASE WindsDown \/ KeepAlive
  BY <1>6 DEF WindsDown, KeepAlive, Serviced, host, TypeOK
<1> QED BY <1>1, <1>2, <1>3, <1>4, <1>5, <1>6, NextCases

(* What an answered stop leaves, and an answered start after one.           *)
LEMMA StopEffect ==
  ASSUME UNCHANGED manager, StopsOk
  PROVE  Stopped'
BY DEF StopsOk, Ended, Stopped

LEMMA StartEffect ==
  ASSUME TypeOK, Serviced, Stopped, NEW u \in Updaters, StartsOk(u),
         UNCHANGED <<dir, manager>>
  PROVE  RunsTheBinary(u)'
<1>1. CASE daemon = None
  BY <1>1 DEF StartsOk, Started, Serviced, RunsTheBinary
<1>2. CASE daemon # None
  <2>1. manager' = "launchd"
    BY <1>2 DEF Stopped, TypeOK
  <2>2. missed'[u] = TRUE
    BY <1>2 DEF StartsOk, TypeOK
  <2> QED BY <2>1, <2>2 DEF RunsTheBinary
<1> QED BY <1>1, <1>2

(* What the disk and the service hold in each phase, and the binary that    *)
(* was found.  Under each action: its effect on the updater's own data,     *)
(* then what each part of the invariant needs of it.                        *)
LEMMA InnerStep ==
  ASSUME TypeOK, Serviced, NEW u \in Updaters, Inner(u), OnPath(u), DiskIn(u),
         found[u] # None => found[u] \in {dir[Binary], dir[Backup]},
         managed[u] => ServiceIn(u)
  PROVE  /\ DiskIn(u)'
         /\ (found[u] # None => found[u] \in {dir[Binary], dir[Backup]})'
         /\ managed[u] => ServiceIn(u)'
<1>1. CASE Check(u)
  <2>1. pc[u] = "check" /\ UNCHANGED <<dir, found, had, manager, rolling, service>>
    BY <1>1 DEF Check, me, host, service, files
  <2>2. \/ pc'[u] = "stop"
        \/ pc'[u] = "unstage" /\ outcome'[u] = "error"
    BY <1>1 DEF Check, Goto, Ending, TypeOK, files, me, host, service
  <2>3. DiskIn(u)'
    BY <2>1, <2>2 DEF DiskIn, Restored, Installed, SetApart
  <2>4. (found[u] # None => found[u] \in {dir[Binary], dir[Backup]})'
    BY <2>1, <2>2 DEF DiskIn, Restored, Installed, SetApart
  <2>5. managed[u] => ServiceIn(u)'
    BY <2>1, <2>2 DEF ServiceIn, RunsTheBinary, Stopped, service
  <2> QED BY <2>3, <2>4, <2>5
<1>2. CASE Stop(u)
  <2>1. pc[u] = "stop" /\ UNCHANGED <<dir, found, had, manager, rolling>>
    BY <1>2 DEF Stop, me, host, service, files
  <2>2. \/ pc'[u] = "inspect" /\ (managed[u] => Stopped')
        \/ pc'[u] = "unstage" /\ outcome'[u] = "error"
    BY <1>2, StopEffect DEF Stop, Goto, Ending, StopFails, TypeOK, host
  <2>3. DiskIn(u)'
    BY <2>1, <2>2 DEF DiskIn, Restored, Installed, SetApart
  <2>4. (found[u] # None => found[u] \in {dir[Binary], dir[Backup]})'
    BY <2>1, <2>2 DEF DiskIn, Restored, Installed, SetApart
  <2>5. managed[u] => ServiceIn(u)'
    BY <2>1, <2>2 DEF ServiceIn, RunsTheBinary, Stopped, service
  <2> QED BY <2>3, <2>4, <2>5
<1>3. CASE Inspect(u)
  <2>1. pc[u] = "inspect" /\ UNCHANGED <<found, manager, rolling, service>>
    BY <1>3 DEF Inspect, me, host, service, files
  <2>2. \/ pc'[u] = "aside"
        \/ pc'[u] = "restarted" /\ outcome'[u] = "error"
    BY <1>3, UpdateAssumption DEF Inspect, Goto, Ending, FailAndRestart, Remove,
        BackupOf, Gone, TypeOK, OnPath, Binary, Backup, Paths, Files, files, me, host,
        service
  <2>3. had'[u] <=> dir[Binary] # None
    BY <1>3 DEF Inspect, Goto, Ending, FailAndRestart, Remove, BackupOf, Gone, TypeOK,
        OnPath, Binary, Backup, Paths, Files, files
  <2>4. dir'[Binary] = dir[Binary]
    BY <1>3 DEF Inspect, Goto, Ending, FailAndRestart, Remove, BackupOf, Gone, TypeOK,
        OnPath, Binary, Backup, Paths, Files, files
  <2>5. DiskIn(u)'
    BY <2>1, <2>2, <2>3, <2>4 DEF DiskIn, Restored, Installed, SetApart
  <2>6. (found[u] # None => found[u] \in {dir[Binary], dir[Backup]})'
    BY <2>1, <2>2, <2>3, <2>4 DEF DiskIn, Restored, Installed, SetApart
  <2>7. managed[u] => ServiceIn(u)'
    BY <2>1, <2>2, <2>3, <2>4 DEF ServiceIn, RunsTheBinary, Stopped, service
  <2> QED BY <2>5, <2>6, <2>7
<1>4. CASE SetAside(u)
  <2>1. pc[u] = "aside" /\ UNCHANGED <<found, had, manager, rolling, service>>
    BY <1>4 DEF SetAside, me, host, service, files
  <2>2. \/ /\ pc'[u] = "install" /\ had[u] /\ dir[Binary] # None
           /\ dir'[Binary] = None /\ dir'[Backup] = dir[Binary]
        \/ pc'[u] = "install" /\ ~had[u] /\ dir' = dir
        \/ pc'[u] = "restarted" /\ outcome'[u] = "error" /\ dir' = dir
    BY <1>4, MoveEffect DEF SetAside, Goto, Ending, FailAndRestart, TypeOK, OnPath,
        files, me, host, service
  <2>3. DiskIn(u)'
    BY <2>1, <2>2 DEF DiskIn, Restored, Installed, SetApart
  <2>4. (found[u] # None => found[u] \in {dir[Binary], dir[Backup]})'
    BY <2>1, <2>2 DEF DiskIn, Restored, Installed, SetApart
  <2>5. managed[u] => ServiceIn(u)'
    BY <2>1, <2>2 DEF ServiceIn, RunsTheBinary, Stopped, service
  <2> QED BY <2>3, <2>4, <2>5
<1>5. CASE Install(u)
  <2>1. pc[u] = "install" /\ UNCHANGED <<found, had, manager, rolling, service>>
    BY <1>5 DEF Install, me, host, service, files
  <2>2. \/ pc'[u] = "sync" /\ dir'[Binary] = u /\ dir'[Backup] = dir[Backup]
        \/ pc'[u] = "remove" /\ dir' = dir
    BY <1>5, UpdateAssumption DEF Install, Goto, Create, TypeOK, OnPath, Binary, Backup,
        Paths, Files, files, me, host, service
  <2>3. DiskIn(u)'
    BY <2>1, <2>2 DEF DiskIn, Restored, Installed, SetApart
  <2>4. (found[u] # None => found[u] \in {dir[Binary], dir[Backup]})'
    BY <2>1, <2>2 DEF DiskIn, Restored, Installed, SetApart
  <2>5. managed[u] => ServiceIn(u)'
    BY <2>1, <2>2 DEF ServiceIn, RunsTheBinary, Stopped, service
  <2> QED BY <2>3, <2>4, <2>5
<1>6. CASE Sync(u)
  <2>1. pc[u] = "sync" /\ UNCHANGED <<dir, found, had, manager, rolling, service>>
    BY <1>6 DEF Sync, me, host, service, files
  <2>2. \/ pc'[u] = "start"
        \/ pc'[u] = "unstage" /\ outcome'[u] = "ok" /\ ~managed[u]
        \/ pc'[u] = "remove"
    BY <1>6 DEF Sync, Goto, Ending, TypeOK, files, me, host, service
  <2>3. DiskIn(u)'
    BY <2>1, <2>2 DEF DiskIn, Restored, Installed, SetApart
  <2>4. (found[u] # None => found[u] \in {dir[Binary], dir[Backup]})'
    BY <2>1, <2>2 DEF DiskIn, Restored, Installed, SetApart
  <2>5. managed[u] => ServiceIn(u)'
    BY <2>1, <2>2 DEF ServiceIn, RunsTheBinary, Stopped, service
  <2> QED BY <2>3, <2>4, <2>5
<1>7. CASE StartService(u)
  <2>1. pc[u] = "start" /\ UNCHANGED <<dir, found, had, manager, rolling>>
    BY <1>7 DEF StartService, me, host, service, files
  <2>2. StartsOk(u) /\ managed[u] => RunsTheBinary(u)'
    BY <1>7, <2>1, StartEffect DEF StartService, ServiceIn, host
  <2>3. \/ pc'[u] = "health" /\ (managed[u] => RunsTheBinary(u)')
        \/ pc'[u] = "rollback"
    BY <1>7, <2>2 DEF StartService, Goto, TypeOK
  <2>4. DiskIn(u)'
    BY <2>1, <2>3 DEF DiskIn, Restored, Installed, SetApart
  <2>5. (found[u] # None => found[u] \in {dir[Binary], dir[Backup]})'
    BY <2>1, <2>3 DEF DiskIn, Restored, Installed, SetApart
  <2>6. managed[u] => ServiceIn(u)'
    BY <2>1, <2>3 DEF ServiceIn
  <2> QED BY <2>4, <2>5, <2>6
<1>8. CASE Unhealthy(u)
  <2>1. pc[u] = "health" /\ UNCHANGED <<dir, found, had, manager, rolling, service>>
    BY <1>8 DEF Unhealthy, me, host, service, files
  <2>2. pc'[u] = "rollback"
    BY <1>8 DEF Unhealthy, Goto, TypeOK, files, me, host, service
  <2>3. DiskIn(u)'
    BY <2>1, <2>2 DEF DiskIn, Restored, Installed, SetApart
  <2>4. (found[u] # None => found[u] \in {dir[Binary], dir[Backup]})'
    BY <2>1, <2>2 DEF DiskIn, Restored, Installed, SetApart
  <2>5. managed[u] => ServiceIn(u)'
    BY <2>1, <2>2 DEF ServiceIn, RunsTheBinary, Stopped, service
  <2> QED BY <2>3, <2>4, <2>5
<1>9. CASE Healthy(u)
  <2>1. pc[u] = "health" /\ UNCHANGED <<dir, found, had, manager, rolling, service>>
    BY <1>9 DEF Healthy, me, host, service, files
  <2>2. \/ pc'[u] = "unstage" /\ outcome'[u] = "ok"
        \/ pc'[u] = "rollback"
    BY <1>9 DEF Healthy, Goto, Ending, TypeOK, files, me, host, service
  <2>3. DiskIn(u)'
    BY <2>1, <2>2 DEF DiskIn, Restored, Installed, SetApart
  <2>4. (found[u] # None => found[u] \in {dir[Binary], dir[Backup]})'
    BY <2>1, <2>2 DEF DiskIn, Restored, Installed, SetApart
  <2>5. managed[u] => ServiceIn(u)'
    BY <2>1, <2>2 DEF ServiceIn, RunsTheBinary, Stopped, service
  <2> QED BY <2>3, <2>4, <2>5
<1>10. CASE Rollback(u)
  <2>1. pc[u] = "rollback" /\ UNCHANGED <<dir, found, had, manager>>
    BY <1>10 DEF Rollback, me, host, service, files
  <2>2. \/ pc'[u] = "remove" /\ Stopped'
        \/ pc'[u] = "unstage" /\ outcome'[u] = "rollback_failed"
    BY <1>10, StopEffect DEF Rollback, Goto, Ending, StopFails, TypeOK, host
  <2>3. rolling'[u]
    BY <1>10 DEF Rollback, Goto, Ending, StopsOk, Ended, Signalled, StopFails, TypeOK,
        files
  <2>4. DiskIn(u)'
    BY <2>1, <2>2, <2>3 DEF DiskIn, Restored, Installed, SetApart
  <2>5. (found[u] # None => found[u] \in {dir[Binary], dir[Backup]})'
    BY <2>1, <2>2, <2>3 DEF DiskIn, Restored, Installed, SetApart
  <2>6. managed[u] => ServiceIn(u)'
    BY <2>1, <2>2, <2>3 DEF ServiceIn, RunsTheBinary, Stopped, service
  <2> QED BY <2>4, <2>5, <2>6
<1>11. CASE RestoreRemove(u)
  <2>1. pc[u] = "remove" /\ UNCHANGED <<found, had, manager, rolling, service>>
    BY <1>11 DEF RestoreRemove, me, host, service, files
  <2>2. \/ pc'[u] = "rename" /\ dir'[Binary] = None /\ dir'[Backup] = dir[Backup]
        \/ /\ pc'[u] = (IF rolling[u] THEN "unstage" ELSE "restarted")
           /\ outcome'[u] = "rollback_failed" /\ dir' = dir
    BY <1>11, UpdateAssumption DEF RestoreRemove, Goto, Ending, Remove, RestoreFails,
        TypeOK, OnPath, Binary, Backup, Paths, Files, files, me, host, service
  <2>3. DiskIn(u)'
    BY <2>1, <2>2 DEF DiskIn, Restored, Installed, SetApart
  <2>4. (found[u] # None => found[u] \in {dir[Binary], dir[Backup]})'
    BY <2>1, <2>2 DEF DiskIn, Restored, Installed, SetApart
  <2>5. managed[u] => ServiceIn(u)'
    BY <2>1, <2>2 DEF ServiceIn, RunsTheBinary, Stopped, service
  <2> QED BY <2>3, <2>4, <2>5
<1>12. CASE RestoreRename(u)
  <2>1. pc[u] = "rename" /\ UNCHANGED <<found, had, manager, rolling, service>>
    BY <1>12 DEF RestoreRename, me, host, service, files
  <2>2. \/ pc'[u] = "resync" /\ had[u] /\ dir'[Binary] = dir[Backup]
        \/ pc'[u] = "resync" /\ ~had[u] /\ dir' = dir
        \/ /\ pc'[u] = (IF rolling[u] THEN "unstage" ELSE "restarted")
           /\ outcome'[u] = "rollback_failed" /\ dir' = dir
    BY <1>12, MoveEffect DEF RestoreRename, Goto, Ending, RestoreFails, TypeOK, OnPath,
        files, me, host, service
  <2>3. DiskIn(u)'
    BY <2>1, <2>2 DEF DiskIn, Restored, Installed, SetApart
  <2>4. (found[u] # None => found[u] \in {dir[Binary], dir[Backup]})'
    BY <2>1, <2>2 DEF DiskIn, Restored, Installed, SetApart
  <2>5. managed[u] => ServiceIn(u)'
    BY <2>1, <2>2 DEF ServiceIn, RunsTheBinary, Stopped, service
  <2> QED BY <2>3, <2>4, <2>5
<1>13. CASE RestoreSync(u)
  <2>1. pc[u] = "resync" /\ UNCHANGED <<dir, found, had, manager, rolling, service>>
    BY <1>13 DEF RestoreSync, me, host, service, files
  <2>2. \/ pc'[u] = "restarted" /\ outcome'[u] = "error" /\ ~rolling[u]
        \/ pc'[u] = "restart" /\ rolling[u]
        \/ /\ pc'[u] = (IF rolling[u] THEN "unstage" ELSE "restarted")
           /\ outcome'[u] = "rollback_failed"
    BY <1>13 DEF RestoreSync, Goto, Ending, RestoreFails, TypeOK, files, me, host,
        service
  <2>3. DiskIn(u)'
    BY <2>1, <2>2 DEF DiskIn, Restored, Installed, SetApart
  <2>4. (found[u] # None => found[u] \in {dir[Binary], dir[Backup]})'
    BY <2>1, <2>2 DEF DiskIn, Restored, Installed, SetApart
  <2>5. managed[u] => ServiceIn(u)'
    BY <2>1, <2>2 DEF ServiceIn, RunsTheBinary, Stopped, service
  <2> QED BY <2>3, <2>4, <2>5
<1>14. CASE Restart(u)
  <2>1. pc[u] = "restart" /\ UNCHANGED <<dir, found, had, manager, rolling>>
    BY <1>14 DEF Restart, me, host, service, files
  <2>2. StartsOk(u) /\ managed[u] /\ rolling[u] => RunsTheBinary(u)'
    BY <1>14, <2>1, StartEffect DEF Restart, ServiceIn, host
  <2>3. \/ /\ pc'[u] = "unstage" /\ outcome'[u] = "error"
           /\ managed[u] /\ rolling[u] => RunsTheBinary(u)'
        \/ pc'[u] = "unstage" /\ outcome'[u] = "rollback_failed"
    BY <1>14, <2>2 DEF Restart, Goto, Ending, TypeOK
  <2>4. DiskIn(u)'
    BY <2>1, <2>3 DEF DiskIn, Restored, Installed, SetApart
  <2>5. (found[u] # None => found[u] \in {dir[Binary], dir[Backup]})'
    BY <2>1, <2>3 DEF DiskIn, Restored, Installed, SetApart
  <2>6. managed[u] => ServiceIn(u)'
    BY <2>1, <2>3 DEF ServiceIn
  <2> QED BY <2>4, <2>5, <2>6
<1>15. CASE RestartAfterFailure(u)
  <2>1. pc[u] = "restarted" /\ UNCHANGED <<dir, found, had, manager, rolling>>
    BY <1>15 DEF RestartAfterFailure, me, host, service, files
  <2>2. pc'[u] = "unstage" /\ outcome'[u] = outcome[u]
    BY <1>15 DEF RestartAfterFailure, Goto, StartsOk, StartFails, Started, TypeOK,
        files, me, host, service
  <2>3. DiskIn(u)'
    BY <2>1, <2>2 DEF DiskIn, Restored, Installed, SetApart
  <2>4. (found[u] # None => found[u] \in {dir[Binary], dir[Backup]})'
    BY <2>1, <2>2 DEF DiskIn, Restored, Installed, SetApart
  <2>5. managed[u] => ServiceIn(u)'
    BY <2>1, <2>2 DEF ServiceIn, DiskIn, RunsTheBinary, Stopped
  <2> QED BY <2>3, <2>4, <2>5
<1>16. CASE Unstage(u)
  <2>1. pc[u] = "unstage" /\ UNCHANGED <<dir, found, had, manager, rolling, service>>
    BY <1>16 DEF Unstage, me, host, service, files
  <2>2. \/ pc'[u] = "unlock" /\ outcome'[u] = outcome[u]
        \/ /\ pc'[u] = "unlock"
           /\ outcome'[u] = (IF outcome[u] = "ok" THEN "error" ELSE "rollback_failed")
    BY <1>16 DEF Unstage, Goto, Ending, TypeOK, files, me, host, service
  <2>3. DiskIn(u)'
    BY <2>1, <2>2 DEF DiskIn, Restored, Installed, SetApart
  <2>4. (found[u] # None => found[u] \in {dir[Binary], dir[Backup]})'
    BY <2>1, <2>2 DEF DiskIn, Restored, Installed, SetApart
  <2>5. managed[u] => ServiceIn(u)'
    BY <2>1, <2>2 DEF ServiceIn, RunsTheBinary, Stopped, service
  <2> QED BY <2>3, <2>4, <2>5
<1> QED BY <1>1, <1>2, <1>3, <1>4, <1>5, <1>6, <1>7, <1>8, <1>9, <1>10, <1>11, <1>12,
    <1>13, <1>14, <1>15, <1>16 DEF Inner

(* What the invariant says of the lock's owner w.                           *)
Owned(w) ==
  /\ OnPath(w) => DiskIn(w)
  /\ OnPath(w) /\ found[w] # None => found[w] \in {dir[Binary], dir[Backup]}
  /\ OnPath(w) /\ managed[w] => ServiceIn(w)

(* The invariant, told of the lock's owner.                                *)
LEMMA InvIsOwned ==
  Inv <=> TypeOK /\ Begun /\ Exclusive /\ Serviced
          /\ \A w \in Updaters : lock = w => Owned(w)
BY DEF Inv, Owned, PreviousSurvives

(* A step of an updater that has not the lock, of one that takes it or      *)
(* leaves it, and a crash: nothing on the disk or in the service changes.   *)
LEMMA OuterStep ==
  ASSUME TypeOK, Begun, Exclusive, NEW u \in Updaters, Outer(u), NEW w \in Updaters,
         lock' = w, lock = w => Owned(w)
  PROVE  Owned(w)'
<1>1. CASE Acquire(u)
  <2>1. w = u /\ UNCHANGED <<dir, host, service, rolling, target>>
    BY <1>1, UpdateAssumption DEF Acquire, files
  <2>2. /\ found'[u] = dir[Binary] /\ pc'[u] \in {"check", "unlock"}
        /\ pc'[u] = "unlock" => outcome'[u] = "error"
    BY <1>1 DEF Acquire, Goto, Ending, TypeOK
  <2>3. ~rolling[u]
    BY <1>1 DEF Acquire, Begun
  <2> QED
    BY <2>1, <2>2, <2>3 DEF Owned, OnPath, DiskIn, ServiceIn, RunsTheBinary, Restored,
         Installed
<1>2. CASE Unlock(u)
  <2>1. lock = u /\ lock' = u
    BY <1>2, UpdateAssumption DEF Unlock, Exclusive, Holding, Files
  <2>2. w = u /\ pc'[u] = "done" /\ UNCHANGED <<dir, target, found, managed>>
    BY <1>2, <2>1 DEF Unlock, Goto, TypeOK, files, me, host, service
  <2> QED BY <2>1, <2>2 DEF Owned, OnPath, DiskIn, ServiceIn
<1>3. CASE Crash(u)
  <2>1. /\ lock = w
        /\ UNCHANGED <<dir, target, found, had, rolling, outcome>>
        /\ UNCHANGED <<managed, manager, daemon, winding, missed>>
    BY <1>3 DEF Crash, files, me, host, service
  <2>2. CASE w = u
    <3>1. pc'[u] = "dead"
      BY <1>3 DEF Crash, Goto, TypeOK
    <3> QED BY <2>1, <2>2, <3>1 DEF Owned, OnPath, DiskIn, ServiceIn
  <2>3. CASE w # u
    <3>1. pc'[w] = pc[w]
      BY <1>3, <2>3 DEF Crash, Goto, TypeOK
    <3> QED
      BY <2>1, <3>1 DEF Owned, OnPath, DiskIn, ServiceIn, RunsTheBinary, Stopped,
          Restored, Installed, SetApart
  <2> QED BY <2>2, <2>3
<1>4. CASE Begin(u) \/ Locate(u) \/ Busy(u)
  <2>1. /\ lock = w
        /\ UNCHANGED <<dir, found, managed, had, rolling>>
        /\ UNCHANGED <<manager, daemon, winding, missed>>
    BY <1>4 DEF Begin, Locate, Busy, files, me, host, service
  <2>2. w # u
    BY <1>4, <2>1 DEF Begin, Locate, Busy, Exclusive, Holding
  <2>3. pc'[w] = pc[w] /\ target'[w] = target[w] /\ outcome'[w] = outcome[w]
    BY <1>4, <2>2 DEF Begin, Locate, Busy, Goto, Ending, TypeOK, me, host, service
  <2> QED
    BY <2>1, <2>3 DEF Owned, OnPath, DiskIn, ServiceIn, RunsTheBinary, Stopped,
        Restored, Installed, SetApart
<1> QED BY <1>1, <1>2, <1>3, <1>4 DEF Outer

(* A step of launchd and of the process it runs: what the updater has put   *)
(* in place and started is neither ended nor replaced.                      *)
LEMMA LaunchdStep ==
  ASSUME TypeOK, Serviced, WindsDown \/ KeepAlive, NEW w \in Updaters,
         lock' = w, lock = w => Owned(w)
  PROVE  Owned(w)'
<1>1. /\ lock = w /\ manager = "launchd"
      /\ UNCHANGED <<dir, managed, manager, missed>>
      /\ UNCHANGED <<pc, target, found, had, rolling, outcome>>
  BY DEF WindsDown, KeepAlive, Serviced, files, host, me
<1>2. RunsTheBinary(w) => RunsTheBinary(w)'
  BY <1>1 DEF WindsDown, KeepAlive, RunsTheBinary
<1>3. Stopped'
  BY <1>1 DEF Stopped
<1>4. OnPath(w)' = OnPath(w) /\ DiskIn(w)' = DiskIn(w)
  BY <1>1 DEF OnPath, DiskIn, Restored, Installed, SetApart
<1>5. ServiceIn(w) => ServiceIn(w)'
  BY <1>1, <1>2, <1>3 DEF ServiceIn
<1> QED BY <1>1, <1>4, <1>5 DEF Owned

(* The inductive invariant: types, the exclusion of the lock, and for its   *)
(* owner what the disk holds and the service runs in each phase: under a    *)
(* manager whose stop waits, nothing between the stop and the start; under  *)
(* launchd, what it made of a stop that does not wait.                      *)
THEOREM InvCorrect == Spec => []Inv
<1>1. Init => Inv
  <2> SUFFICES ASSUME Init PROVE Inv
    OBVIOUS
  <2>1. TypeOK
    <3>1. 0 \in 0 .. MaxFaults
      BY UpdateAssumption
    <3> QED BY <3>1, PathsKnown DEF Init, TypeOK, Files, Phases
  <2>2. Begun /\ Exclusive /\ Serviced
    BY UpdateAssumption DEF Init, Begun, Exclusive, Serviced, Holding, Files
  <2>3. \A w \in Updaters : lock # w
    BY UpdateAssumption DEF Init, Files
  <2> QED BY <2>1, <2>2, <2>3, InvIsOwned
<1>2. Inv /\ [Next]_vars => Inv'
  <2> SUFFICES ASSUME Inv, [Next]_vars PROVE Inv'
    OBVIOUS
  <2>0. /\ TypeOK /\ Begun /\ Exclusive /\ Serviced
        /\ \A w \in Updaters : lock = w => Owned(w)
    BY InvIsOwned
  <2>1. CASE Next
    <3>1. TypeOK' /\ Begun' /\ Exclusive' /\ Serviced'
      BY <2>0, <2>1, TypeStep, BegunStep, ExclusiveStep, ServicedStep
    <3>2. ASSUME NEW w \in Updaters, lock' = w PROVE Owned(w)'
      <4>1. CASE \E u \in Updaters : Inner(u)
        <5>1. PICK u \in Updaters : Inner(u)
          BY <4>1
        <5>2. lock = u /\ UNCHANGED <<lock, managed, target, found>>
          BY <2>0, <5>1, InnerFrame
        <5>3. w = u
          BY <3>2, <5>2
        <5> QED
          BY <2>0, <5>1, <5>2, <5>3, InnerStep DEF Owned, OnPath
      <4>2. CASE \E u \in Updaters : Outer(u)
        BY <2>0, <3>2, <4>2, OuterStep
      <4>3. CASE DeleteStaleLock
        BY <3>2, <4>3, UpdateAssumption DEF DeleteStaleLock, Files
      <4>4. CASE WindsDown \/ KeepAlive
        BY <2>0, <3>2, <4>4, LaunchdStep
      <4> QED BY <2>1, <4>1, <4>2, <4>3, <4>4, NextCases DEF Inner, Outer
    <3> QED BY <3>1, <3>2 DEF Inv, Owned, PreviousSurvives
  <2>2. CASE UNCHANGED vars
    BY <2>2 DEF vars, files, me, host, service, Inv, TypeOK, Begun, Exclusive,
        PreviousSurvives, OnPath, DiskIn, Serviced, ServiceIn, RunsTheBinary, Stopped,
        Restored, Installed, SetApart
  <2> QED BY <2>1, <2>2
<1> QED BY <1>1, <1>2, PTL DEF Spec

(* However many updaters run and whatever fails or crashes, the binary that *)
(* an update found is on the host as long as its lock file is: set aside,   *)
(* restored or never touched (install.rs:111-166, 217-244).                 *)
THEOREM PreviousSurvivesHolds == Spec => []PreviousSurvives
<1>1. Inv => PreviousSurvives
  BY DEF Inv
<1> QED BY <1>1, InvCorrect, PTL

(* Ok means the new binary is in place and the old one is its backup; an    *)
(* error other than Rollback means that, or the old one is in place         *)
(* (install.rs:57-67, 191-215).                                             *)
THEOREM OutcomeHolds == Spec => []OutcomeTellsTheDisk
<1>1. Inv => OutcomeTellsTheDisk
  BY DEF Inv, Exclusive, Holding, DiskIn, OutcomeTellsTheDisk
<1> QED BY <1>1, InvCorrect, PTL

(* After an update or a complete rollback the service runs the binary that  *)
(* is in place and nobody is ending it, when the service manager's stop     *)
(* waits for the process (systemd, OpenRC), and under launchd, whose stop   *)
(* only signals it, when the last start() found no process left             *)
(* (install.rs:167-187, 196-215; service.rs:405-410).                       *)
THEOREM ServiceHolds == Spec => []ServiceRunsTheBinary
<1>1. Inv => ServiceRunsTheBinary
  BY DEF Inv, Exclusive, Holding, ServiceIn, ServiceRunsTheBinary
<1> QED BY <1>1, InvCorrect, PTL

(* The order of the phases of an update: what runs them is a function       *)
(* without loops, but for the wait in healthy() (install.rs:57-215).        *)
Rank ==
  [idle |-> 0, locate |-> 1, lock |-> 2, check |-> 3, stop |-> 4, inspect |-> 5,
   aside |-> 6, install |-> 7, sync |-> 8, start |-> 9, health |-> 10, rollback |-> 11,
   remove |-> 12, rename |-> 13, resync |-> 14, restart |-> 15, restarted |-> 15,
   unstage |-> 16, unlock |-> 17, done |-> 18, dead |-> 18]

(* One updater goes on, the operator deletes a lock file, or launchd ends or *)
(* starts the service, which moves no update.                               *)
GoesOn(u) ==
  /\ Rank[pc[u]] < Rank[pc'[u]]
  /\ \A w \in Updaters \ {u} : pc'[w] = pc[w]
Unlocks == lock # None /\ lock' = None /\ pc' = pc
Serves  == manager = "launchd" /\ UNCHANGED <<pc, lock, dir>>
Onward  == Unlocks \/ Serves \/ \E u \in Updaters : GoesOn(u)

(* A step of an updater raises the rank of its own phase.                   *)
LEMMA StepRaises ==
  ASSUME TypeOK, NEW u \in Updaters,
         Begin(u) \/ Running(u) \/ Healthy(u) \/ Crash(u)
  PROVE  GoesOn(u)
<1>1. ASSUME NEW phase, Goto(u, phase), Rank[pc[u]] < Rank[phase]
      PROVE  GoesOn(u)
  BY <1>1 DEF TypeOK, Goto, GoesOn
<1>2. CASE Begin(u) \/ Locate(u) \/ Acquire(u) \/ Busy(u) \/ Check(u) \/ Stop(u)
  BY <1>1, <1>2 DEF Begin, Locate, Acquire, Busy, Check, Stop, Rank
<1>3. CASE Inspect(u) \/ SetAside(u) \/ Install(u) \/ Sync(u)
  BY <1>1, <1>3 DEF Inspect, SetAside, Install, Sync, FailAndRestart, Rank
<1>4. CASE StartService(u) \/ Healthy(u) \/ Unhealthy(u) \/ Rollback(u)
  BY <1>1, <1>4 DEF StartService, Healthy, Unhealthy, Rollback, Rank
<1>5. CASE RestoreRemove(u) \/ RestoreRename(u) \/ RestoreSync(u)
  BY <1>1, <1>5 DEF RestoreRemove, RestoreRename, RestoreSync, RestoreFails, Rank
<1>6. CASE Restart(u) \/ RestartAfterFailure(u) \/ Unstage(u) \/ Unlock(u)
  BY <1>1, <1>6 DEF Restart, RestartAfterFailure, Unstage, Unlock, Rank
<1>7. CASE Crash(u)
  <2>1. pc[u] \in Phases \ {"idle", "done", "dead"}
    BY <1>7 DEF Crash, TypeOK
  <2>2. Rank[pc[u]] < Rank["dead"]
    BY <2>1 DEF Phases, Holding, Rank
  <2> QED BY <1>1, <1>7, <2>2 DEF Crash
<1> QED BY <1>2, <1>3, <1>4, <1>5, <1>6, <1>7 DEF Running, Forward, Back

(* No step of an update goes back or is taken twice, whatever fails, and no *)
(* updater moves another, nor do the operator and the service manager: each *)
(* has at most 18 steps.  So no update runs for ever; that it does not stop *)
(* on its way is UpdateEnds (install.rs:57-215).                            *)
THEOREM UpdatesGoOnward == Spec => [][Onward]_vars
<1>1. Inv /\ [Next]_vars => [Onward]_vars
  <2> SUFFICES ASSUME Inv, Next PROVE Onward
    OBVIOUS
  <2>1. ASSUME NEW u \in Updaters, Begin(u) \/ Running(u) \/ Healthy(u) \/ Crash(u)
        PROVE  Onward
    BY <2>1, StepRaises DEF Inv, Onward
  <2>2. CASE DeleteStaleLock
    BY <2>2 DEF DeleteStaleLock, Onward, Unlocks
  <2>3. CASE WindsDown \/ KeepAlive
    BY <2>3 DEF WindsDown, KeepAlive, Inv, Serviced, Onward, Serves, files
  <2> QED BY <2>1, <2>2, <2>3 DEF Next
<1> QED BY <1>1, InvCorrect, PTL DEF Spec
==============================================================================
