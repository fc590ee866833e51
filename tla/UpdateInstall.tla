---------------------------- MODULE UpdateInstall ----------------------------
(***************************************************************************)
(* `maskman update` once it has chosen a release: any number of updaters   *)
(* on one host, the lock file between them, the renames that replace the   *)
(* binary, the service that is stopped and started around them, and the    *)
(* way back when a step fails.  A process may crash between two steps.     *)
(* systemd's and OpenRC's stop ends the service; launchd's only signals it.*)
(*                                                                         *)
(* A file is named after the updater that staged it; Old is the binary the *)
(* host began with.  dir says which file a path holds, name where a file   *)
(* is or was last: current_exe() follows a running binary when another     *)
(* updater renames it, and appends " (deleted)" when it is removed.        *)
(***************************************************************************)
EXTENDS Naturals, FiniteSets

CONSTANTS
  Updaters,    \* processes that run `maskman update`
  Old,         \* the binary installed at first
  None,
  VersionOf,   \* the version of each file
  MaxFaults    \* bound on the steps that fail and the processes that crash

Files == Updaters \cup {Old}

Binary  == "maskman"
Backup  == "maskman.previous"
Paths   == {Binary, Backup, "maskman (deleted)", "maskman (deleted).previous",
            "maskman.previous (deleted)"}

\* A command is started from Binary, so its file was last at Binary or Backup.
Gone(p) == IF p = Binary THEN "maskman (deleted)" ELSE "maskman.previous (deleted)"

ASSUME UpdateAssumption ==
  /\ Old \notin Updaters /\ None \notin Files \cup Paths
  /\ VersionOf \in [Files -> Nat]
  /\ MaxFaults \in Nat

\* with_extension("previous") replaces what follows the last dot, or adds it.
BackupOf(p) == IF p = Gone(Binary) THEN "maskman (deleted).previous" ELSE Backup

VARIABLES
  dir,      \* the file at each path, or None
  name,     \* the path at which a file is, or was when it was removed
  lock,     \* whose .maskman-update.lock exists, or None
  managed,  \* whether each updater has a ServiceController: the service is
            \* installed and the command was given its configuration
  manager,  \* "waits" when the service manager's stop returns once the process
            \* has ended (systemd, OpenRC), "launchd" when it only signals it
  daemon,   \* the file the service's process was started from, or None
  winding,  \* whether that process was signalled and has not ended
  due,      \* whether launchd is about to start the service by itself
  pc,       \* what each updater does next
  exe,      \* the file each updater runs from
  target,   \* its binary_path
  had,      \* its had_binary
  rolling,  \* whether it is in rollback()
  outcome,  \* what install_verified has to return so far
  found,    \* history: the binary each updater found when it got the lock
  missed,   \* history: whether each updater's last start of the service found a
            \* process, and so changed nothing
  faults    \* failures and crashes so far

files   == <<dir, name>>
host    == <<managed, manager>>
service == <<daemon, winding, due, missed>>
me      == <<exe, target, found>>
vars    == <<dir, name, lock, managed, manager, daemon, winding, due, missed, pc, exe,
             target, had, rolling, outcome, found, faults>>

Holding == {"check", "stop", "inspect", "aside", "install", "sync", "start", "health",
            "rollback", "remove", "rename", "resync", "restart", "restarted",
            "unstage", "unlock"}
Phases  == {"idle", "locate", "lock", "done", "dead"} \cup Holding

TypeOK ==
  /\ dir \in [Paths -> Files \cup {None}] /\ name \in [Files -> Paths]
  /\ lock \in Updaters \cup {None}
  /\ managed \in [Updaters -> BOOLEAN] /\ manager \in {"waits", "launchd"}
  /\ daemon \in Files \cup {None}
  /\ winding \in BOOLEAN /\ due \in BOOLEAN /\ missed \in [Updaters -> BOOLEAN]
  /\ pc \in [Updaters -> Phases] /\ exe \in [Updaters -> Files \cup {None}]
  /\ target \in [Updaters -> Paths \cup {None}]
  /\ had \in [Updaters -> BOOLEAN] /\ rolling \in [Updaters -> BOOLEAN]
  /\ outcome \in [Updaters -> {"none", "ok", "error", "rollback_failed"}]
  /\ found \in [Updaters -> Files \cup {None}]
  /\ faults \in 0 .. MaxFaults

Init ==
  /\ dir = [p \in Paths |-> IF p = Binary THEN Old ELSE None]
  /\ name = [f \in Files |-> Binary]
  /\ lock = None
  /\ managed \in [Updaters -> BOOLEAN] /\ manager \in {"waits", "launchd"}
  /\ daemon \in {Old, None} /\ winding = FALSE /\ due = FALSE
  /\ missed = [u \in Updaters |-> FALSE]
  /\ pc = [u \in Updaters |-> "idle"]
  /\ exe = [u \in Updaters |-> None]
  /\ target = [u \in Updaters |-> None]
  /\ had = [u \in Updaters |-> FALSE]
  /\ rolling = [u \in Updaters |-> FALSE]
  /\ outcome = [u \in Updaters |-> "none"]
  /\ found = [u \in Updaters |-> None]
  /\ faults = 0

Goto(u, phase)    == pc' = [pc EXCEPT ![u] = phase]
Ending(u, result) == outcome' = [outcome EXCEPT ![u] = result]
Fault             == faults < MaxFaults /\ faults' = faults + 1

(* File system calls. *)
Remove(p)   == dir' = [dir EXCEPT ![p] = None] /\ UNCHANGED name
Move(f, p, q) ==
  /\ dir' = [x \in Paths |-> IF x = q THEN f ELSE IF x = p THEN None ELSE dir[x]]
  /\ name' = [name EXCEPT ![f] = q]
Create(f, p) ==
  /\ dir' = [dir EXCEPT ![p] = f]
  /\ name' = [name EXCEPT ![f] = p]

(* Calls of the service manager.  A call that fails may have done its work. *)

\* systemctl stop and rc-service stop return when the process has ended;
\* launchctl kill returns once it is signalled, and the supervisor may give its
\* worker five seconds before it ends.
Ended     == daemon' = None /\ UNCHANGED <<winding, due>>
Signalled == winding' = (daemon # None) /\ UNCHANGED <<daemon, due>>
StopsOk   == (IF manager = "launchd" THEN Signalled ELSE Ended) /\ UNCHANGED missed

\* launchctl kill may also refuse when there is no process.
StopFails ==
  \/ Fault /\ (StopsOk \/ UNCHANGED service)
  \/ manager = "launchd" /\ daemon = None /\ UNCHANGED <<service, faults>>

\* No manager starts a second process: kickstart has no -k here.
Started == IF daemon = None THEN dir[Binary] ELSE daemon
StartsOk(u) ==
  /\ daemon' = Started
  /\ due' = (due /\ daemon' = None)
  /\ missed' = [missed EXCEPT ![u] = daemon # None]
  /\ UNCHANGED winding
StartFails(u) == Fault /\ (StartsOk(u) \/ UNCHANGED service)

-----------------------------------------------------------------------------
(* From the command to the lock.                                            *)

Begin(u) ==
  /\ pc[u] = "idle" /\ dir[Binary] # None
  /\ exe' = [exe EXCEPT ![u] = dir[Binary]]
  /\ Goto(u, "locate")
  /\ UNCHANGED <<files, lock, host, service, target, had, rolling, outcome, found,
                 faults>>

\* After the download: current_exe().
Locate(u) ==
  /\ pc[u] = "locate"
  /\ LET p == name[exe[u]]
     IN  target' = [target EXCEPT ![u] = IF dir[p] = exe[u] THEN p ELSE Gone(p)]
  /\ Goto(u, "lock")
  /\ UNCHANGED <<files, lock, host, service, exe, had, rolling, outcome, found, faults>>

(* Mutant: the lock file is opened whether it exists or not.               *)
AcquireRegardless(u) ==
  /\ pc[u] = "lock"
  /\ lock' = u
  /\ found' = [found EXCEPT ![u] = dir[Binary]]
  /\ Goto(u, "check")
  /\ UNCHANGED <<files, host, service, exe, target, had, rolling, outcome, faults>>

Acquire(u) ==
  /\ pc[u] = "lock" /\ lock = None
  /\ lock' = u
  /\ found' = [found EXCEPT ![u] = dir[Binary]]
  /\ \/ Goto(u, "check") /\ UNCHANGED <<outcome, faults>>
     \* The staging directory cannot be made.
     \/ Fault /\ Goto(u, "unlock") /\ Ending(u, "error")
  /\ UNCHANGED <<files, host, service, exe, target, had, rolling>>

Busy(u) ==
  /\ pc[u] = "lock"
  /\ \/ lock # None /\ UNCHANGED faults
     \/ Fault  \* of the file system
  /\ Goto(u, "done") /\ Ending(u, "error")
  /\ UNCHANGED <<files, lock, host, service, me, had, rolling>>

-----------------------------------------------------------------------------
(* install_staged().                                                        *)

\* Unpack into the stage, run the staged binary, look at both paths.
Check(u) ==
  /\ pc[u] = "check"
  /\ \/ Goto(u, "stop") /\ UNCHANGED <<outcome, faults>>
     \/ Fault /\ Goto(u, "unstage") /\ Ending(u, "error")
  /\ UNCHANGED <<files, lock, host, service, me, had, rolling>>

\* A stop that fails ends the update; nothing starts the service again.
Stop(u) ==
  /\ pc[u] = "stop"
  /\ \/ ~managed[u] /\ Goto(u, "inspect") /\ UNCHANGED <<service, outcome, faults>>
     \/ managed[u] /\ StopsOk /\ Goto(u, "inspect") /\ UNCHANGED <<outcome, faults>>
     \/ managed[u] /\ StopFails /\ Goto(u, "unstage") /\ Ending(u, "error")
  /\ UNCHANGED <<files, lock, host, me, had, rolling>>

\* A failure before the new binary is in place: restart_after_failure follows.
FailAndRestart(u) == Goto(u, "restarted") /\ Ending(u, "error")

\* Look at the binary again and make room for its backup.
Inspect(u) ==
  /\ pc[u] = "inspect"
  /\ had' = [had EXCEPT ![u] = dir[target[u]] # None]
  /\ \/ /\ Goto(u, "aside")
        /\ IF had'[u] THEN Remove(BackupOf(target[u])) ELSE UNCHANGED files
        /\ UNCHANGED <<outcome, faults>>
     \/ Fault /\ FailAndRestart(u) /\ UNCHANGED files
  /\ UNCHANGED <<lock, host, service, me, rolling>>

(* Mutant: the binary is removed where it should be renamed.               *)
SetAsideRemoves(u) ==
  /\ pc[u] = "aside" /\ Goto(u, "install")
  /\ IF had[u] THEN Remove(target[u]) ELSE UNCHANGED files
  /\ UNCHANGED <<lock, host, service, me, had, rolling, outcome, faults>>

SetAside(u) ==
  /\ pc[u] = "aside"
  /\ LET p == target[u]
     IN  \/ ~had[u] /\ Goto(u, "install") /\ UNCHANGED <<files, outcome, faults>>
         \/ /\ had[u] /\ dir[p] # None
            /\ Move(dir[p], p, BackupOf(p))
            /\ Goto(u, "install") /\ UNCHANGED <<outcome, faults>>
         \* The backup just removed was the binary itself.
         \/ /\ had[u] /\ dir[p] = None
            /\ FailAndRestart(u) /\ UNCHANGED <<files, faults>>
         \/ had[u] /\ Fault /\ FailAndRestart(u) /\ UNCHANGED files
  /\ UNCHANGED <<lock, host, service, me, had, rolling>>

Install(u) ==
  /\ pc[u] = "install"
  /\ \/ Create(u, target[u]) /\ Goto(u, "sync") /\ UNCHANGED faults
     \/ Fault /\ Goto(u, "remove") /\ UNCHANGED files
  /\ UNCHANGED <<lock, host, service, me, had, rolling, outcome>>

Sync(u) ==
  /\ pc[u] = "sync"
  /\ \/ managed[u] /\ Goto(u, "start") /\ UNCHANGED <<outcome, faults>>
     \/ ~managed[u] /\ Goto(u, "unstage") /\ Ending(u, "ok") /\ UNCHANGED faults
     \/ Fault /\ Goto(u, "remove") /\ UNCHANGED outcome
  /\ UNCHANGED <<files, lock, host, service, me, had, rolling>>

StartService(u) ==
  /\ pc[u] = "start"
  /\ \/ StartsOk(u) /\ Goto(u, "health") /\ UNCHANGED faults
     \/ StartFails(u) /\ Goto(u, "rollback")
  /\ UNCHANGED <<files, lock, host, me, had, rolling, outcome>>

\* healthy() answers: ready with the release's version, or another version.
Healthy(u) ==
  /\ pc[u] = "health" /\ daemon # None
  /\ IF VersionOf[daemon] = VersionOf[u]
     THEN Goto(u, "unstage") /\ Ending(u, "ok")
     ELSE Goto(u, "rollback") /\ UNCHANGED outcome
  /\ UNCHANGED <<files, lock, host, service, me, had, rolling, faults>>

(* Mutant: no deadline; only a service that has stopped is given up.       *)
UnhealthyWhenStopped(u) ==
  /\ pc[u] = "health" /\ daemon = None
  /\ Goto(u, "rollback")
  /\ UNCHANGED <<files, lock, host, service, me, had, rolling, outcome, faults>>

\* The deadline passes, or the status request is answered with an error.
Unhealthy(u) ==
  /\ pc[u] = "health"
  /\ Goto(u, "rollback")
  /\ UNCHANGED <<files, lock, host, service, me, had, rolling, outcome, faults>>

-----------------------------------------------------------------------------
(* The way back.  rolling tells rollback() from the restore after a failed  *)
(* rename or sync, which restarts the service whatever the restore did.     *)

(* Mutant: the new service is not stopped before the old binary is back.   *)
RollbackWithoutStop(u) ==
  /\ pc[u] = "rollback" /\ Goto(u, "remove")
  /\ rolling' = [rolling EXCEPT ![u] = TRUE]
  /\ UNCHANGED <<files, lock, host, service, me, had, outcome, faults>>

Rollback(u) ==
  /\ pc[u] = "rollback"
  /\ rolling' = [rolling EXCEPT ![u] = TRUE]
  /\ \/ StopsOk /\ Goto(u, "remove") /\ UNCHANGED <<outcome, faults>>
     \/ StopFails /\ Goto(u, "unstage") /\ Ending(u, "rollback_failed")
  /\ UNCHANGED <<files, lock, host, me, had>>

(* Mutant: the first error is returned whatever the restore did.           *)
RestoreFailsQuietly(u) ==
  /\ Ending(u, "error")
  /\ Goto(u, IF rolling[u] THEN "unstage" ELSE "restarted")

RestoreFails(u) ==
  /\ Ending(u, "rollback_failed")
  /\ Goto(u, IF rolling[u] THEN "unstage" ELSE "restarted")

RestoreRemove(u) ==
  /\ pc[u] = "remove"
  /\ \/ Remove(target[u]) /\ Goto(u, "rename") /\ UNCHANGED <<outcome, faults>>
     \/ Fault /\ RestoreFails(u) /\ UNCHANGED files
  /\ UNCHANGED <<lock, host, service, me, had, rolling>>

RestoreRename(u) ==
  /\ pc[u] = "rename"
  /\ LET p == target[u]  b == BackupOf(p)
     IN  \/ ~had[u] /\ Goto(u, "resync") /\ UNCHANGED <<files, outcome, faults>>
         \/ /\ had[u] /\ dir[b] # None
            /\ Move(dir[b], b, p)
            /\ Goto(u, "resync") /\ UNCHANGED <<outcome, faults>>
         \/ had[u] /\ Fault /\ RestoreFails(u) /\ UNCHANGED files
  /\ UNCHANGED <<lock, host, service, me, had, rolling>>

RestoreSync(u) ==
  /\ pc[u] = "resync"
  /\ \/ /\ ~rolling[u] /\ Goto(u, "restarted") /\ Ending(u, "error")
        /\ UNCHANGED faults
     \/ rolling[u] /\ Goto(u, "restart") /\ UNCHANGED <<outcome, faults>>
     \/ Fault /\ RestoreFails(u)
  /\ UNCHANGED <<files, lock, host, service, me, had, rolling>>

\* The last call of rollback().
Restart(u) ==
  /\ pc[u] = "restart"
  /\ Goto(u, "unstage")
  /\ \/ StartsOk(u) /\ Ending(u, "error") /\ UNCHANGED faults
     \/ StartFails(u) /\ Ending(u, "rollback_failed")
  /\ UNCHANGED <<files, lock, host, me, had, rolling>>

\* restart_after_failure(): what start() answers is ignored.
RestartAfterFailure(u) ==
  /\ pc[u] = "restarted"
  /\ Goto(u, "unstage")
  /\ \/ ~managed[u] /\ UNCHANGED <<service, faults>>
     \/ managed[u] /\ StartsOk(u) /\ UNCHANGED faults
     \/ managed[u] /\ StartFails(u)
  /\ UNCHANGED <<files, lock, host, me, had, rolling, outcome>>

-----------------------------------------------------------------------------
(* The end of install_verified(), and of processes.                         *)

Unstage(u) ==
  /\ pc[u] = "unstage"
  /\ Goto(u, "unlock")
  /\ \/ UNCHANGED <<outcome, faults>>
     \/ Fault /\ Ending(u, IF outcome[u] = "ok" THEN "error" ELSE "rollback_failed")
  /\ UNCHANGED <<files, lock, host, service, me, had, rolling>>

\* The drop of the lock ignores a failure to remove its file.
Unlock(u) ==
  /\ pc[u] = "unlock"
  /\ Goto(u, "done")
  /\ \/ lock' = None /\ UNCHANGED faults
     \/ Fault /\ UNCHANGED lock
  /\ UNCHANGED <<files, host, service, me, had, rolling, outcome>>

Crash(u) ==
  /\ pc[u] \notin {"idle", "done", "dead"}
  /\ Fault
  /\ Goto(u, "dead")
  /\ UNCHANGED <<files, lock, host, service, me, had, rolling, outcome>>

\* The process that launchd signalled ends.  KeepAlive with SuccessfulExit false
\* has launchd start the service again when the supervisor did not end well: it
\* had to kill its worker, or its cleanup failed.
WindsDown ==
  /\ winding
  /\ daemon' = None /\ winding' = FALSE
  /\ due' \in BOOLEAN
  /\ UNCHANGED <<files, lock, host, missed, pc, me, had, rolling, outcome, faults>>

KeepAlive ==
  /\ due /\ daemon = None /\ dir[Binary] # None
  /\ daemon' = dir[Binary] /\ due' = FALSE
  /\ UNCHANGED <<files, lock, host, winding, missed, pc, me, had, rolling, outcome,
                 faults>>

\* The operator deletes a lock file whose process has ended.
DeleteStaleLock ==
  /\ lock # None /\ pc[lock] \in {"done", "dead"}
  /\ lock' = None
  /\ UNCHANGED <<files, host, service, pc, me, had, rolling, outcome, faults>>

Forward(u) == Locate(u) \/ Acquire(u) \/ Busy(u) \/ Check(u) \/ Stop(u) \/ Inspect(u)
              \/ SetAside(u) \/ Install(u) \/ Sync(u) \/ StartService(u) \/ Unhealthy(u)
Back(u)    == Rollback(u) \/ RestoreRemove(u) \/ RestoreRename(u) \/ RestoreSync(u)
              \/ Restart(u) \/ RestartAfterFailure(u) \/ Unstage(u) \/ Unlock(u)

\* A process that has begun goes on; no service has to become healthy, and no
\* signalled process has to end.
Running(u) == Forward(u) \/ Back(u)

Next ==
  \/ \E u \in Updaters : Begin(u) \/ Running(u) \/ Healthy(u) \/ Crash(u)
  \/ DeleteStaleLock
  \/ WindsDown
  \/ KeepAlive

Spec     == Init /\ [][Next]_vars
FairSpec == Spec /\ \A u \in Updaters : WF_vars(Running(u))

-----------------------------------------------------------------------------
(* Properties.                                                              *)

\* An updater whose binary_path is the path the service and the operator use.
OnPath(u) == target[u] = Binary

\* From the moment an updater has the lock until the lock file is gone, the
\* binary it found is on the host, at its place or as the backup: whatever
\* fails and wherever the process ends (install.rs:111-166, 217-244).
PreviousSurvives ==
  \A u \in Updaters :
    lock = u /\ OnPath(u) /\ found[u] # None => found[u] \in {dir[Binary], dir[Backup]}

Installed(u) == dir[Binary] = u /\ (found[u] # None => dir[Backup] = found[u])
Restored(u)  == dir[Binary] = found[u]

\* What install_verified returns agrees with the disk.  Ok: the new binary is
\* in place and the one it found is its backup.  An error that is not
\* Rollback: that, or the binary it found is in place (install.rs:57-67,
\* 146-166, 191-215).
OutcomeTellsTheDisk ==
  \A u \in Updaters :
    pc[u] = "unlock" /\ OnPath(u) =>
      /\ outcome[u] = "ok" => Installed(u)
      /\ outcome[u] = "error" => Installed(u) \/ Restored(u)

\* What start() was to bring about: the service runs the binary that is in
\* place, and nobody is ending it.  Under launchd a start that found a process
\* says nothing: the one that stop() had signalled, or that launchd started again
\* when it ended, may have been there.
RunsTheBinary(u) ==
  \/ daemon = dir[Binary] /\ ~winding
  \/ manager = "launchd" /\ missed[u]

\* An update that ends well, and a rollback that does not report a failure,
\* leave the service running the binary that is in place (install.rs:167-187,
\* 196-215).  Under launchd that is so only when the last start() found no
\* process: stop() is `launchctl kill SIGTERM` and start() is `kickstart`
\* without -k (service.rs:405-410), so the binary that was to be replaced, or
\* nothing, may be what runs after either.
ServiceRunsTheBinary ==
  \A u \in Updaters :
    pc[u] = "unlock" /\ OnPath(u) /\ managed[u]
      /\ (outcome[u] = "ok" \/ (outcome[u] = "error" /\ rolling[u]))
    => RunsTheBinary(u)

\* Every update ends, also when the service never becomes healthy and when
\* the lock file of a dead process is in the way (install.rs:72-87, 170-187).
UpdateEnds ==
  \A u \in Updaters : pc[u] = "locate" ~> pc[u] \in {"done", "dead"}

\* release/runbook.md:101-105: the updater "keeps one backup at
\* <binary-path>.previous".  When no update is under way and one has
\* succeeded in replacing a binary, its backup is there.
BackupKept ==
  lock = None /\ (\E u \in Updaters : outcome[u] = "ok" /\ had[u] /\ OnPath(u))
  => dir[Backup] # None

-----------------------------------------------------------------------------
(* The inductive invariant of the proofs.                                   *)

\* What an updater runs and replaces is known from the moment it is needed.
Begun ==
  \A u \in Updaters :
    /\ pc[u] = "locate" => exe[u] # None
    /\ pc[u] \in Holding \cup {"lock"} => target[u] # None
    /\ pc[u] \in {"idle", "locate", "lock"} => ~rolling[u]

\* The lock file excludes: who is between Acquire and Unlock made it, and who
\* made it has passed Acquire.
Exclusive ==
  \A u \in Updaters :
    /\ pc[u] \in Holding => lock = u
    /\ lock = u => pc[u] \in Holding \cup {"done", "dead"}

\* The backup is the binary that was found, when there was one.
SetApart(u) ==
  /\ had[u] <=> found[u] # None
  /\ found[u] # None => dir[Backup] = found[u]

\* What the disk holds in each phase of an updater that has the lock.
DiskIn(u) ==
  /\ pc[u] \in {"check", "stop", "inspect", "aside", "resync", "restart"} => Restored(u)
  /\ pc[u] = "aside" => (had[u] <=> found[u] # None)
  /\ pc[u] \in {"install", "rename"} => dir[Binary] = None /\ SetApart(u)
  /\ pc[u] \in {"sync", "start", "health", "rollback"} => dir[Binary] = u /\ SetApart(u)
  /\ pc[u] = "remove" => dir[Binary] \in {None, u} /\ SetApart(u)
  /\ pc[u] = "restarted" => outcome[u] # "ok" /\ (outcome[u] = "error" => Restored(u))
  /\ pc[u] \in {"unstage", "unlock"} =>
       /\ outcome[u] = "ok" => Installed(u)
       /\ outcome[u] = "error" => Installed(u) \/ Restored(u)

\* Only launchd leaves a signalled process behind or starts one by itself.
Serviced ==
  /\ winding \/ due => manager = "launchd"
  /\ winding => daemon # None
  /\ due => daemon = None

\* After a stop of a manager that waits.
Stopped == manager = "waits" => daemon = None

\* What the service runs in each phase, when the updater controls it.
ServiceIn(u) ==
  /\ pc[u] \in {"check", "stop", "inspect", "aside", "install", "sync", "start",
                 "health", "restarted"} => ~rolling[u]
  /\ pc[u] \in {"inspect", "aside", "install", "sync", "start"} => Stopped
  /\ pc[u] = "health" => RunsTheBinary(u)
  /\ pc[u] \in {"remove", "rename", "resync", "restart"} /\ rolling[u] => Stopped
  /\ pc[u] \in {"unstage", "unlock"} =>
       /\ outcome[u] = "ok" => ~rolling[u] /\ RunsTheBinary(u)
       /\ outcome[u] = "error" /\ rolling[u] => RunsTheBinary(u)

Inv ==
  /\ TypeOK
  /\ Begun
  /\ Exclusive
  /\ Serviced
  /\ \A u \in Updaters : lock = u /\ OnPath(u) => DiskIn(u)
  /\ PreviousSurvives
  /\ \A u \in Updaters : lock = u /\ managed[u] /\ OnPath(u) => ServiceIn(u)
=============================================================================
