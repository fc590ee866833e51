--------------------------- MODULE ResourceJournal ---------------------------
(***************************************************************************)
(* The resource journal of maskman-platform (journal.rs), the startup that *)
(* changes the host under it (resources.rs, forwarding.rs, nat.rs, tun.rs, *)
(* linux.rs), and the cleanups that undo the changes: of a failed start,   *)
(* of a shutdown and of the operator's command.                            *)
(*                                                                         *)
(* The process may crash between any two steps, every call of the          *)
(* operating system may fail, and a persist may fail before or after its   *)
(* rename has replaced the file.                                           *)
(***************************************************************************)
EXTENDS Integers, Sequences, FiniteSets

CONSTANTS
  Resources,   \* what a start changes on the host
  KindOf,      \* the kind of each
  Plan,        \* the order in which prepare() applies them
  MaxFaults    \* bound: failures, crashes and reboots in a behaviour

Kinds == {"sysctl", "nat", "tun", "route"}

(* No resource is applied twice, and the TUN device comes before the       *)
(* routes over it.                                                         *)
ASSUME PlanAssumption ==
  /\ KindOf \in [Resources -> Kinds]
  /\ Plan \in Seq(Resources)
  /\ \A i, j \in DOMAIN Plan : Plan[i] = Plan[j] => i = j
  /\ \A i, j \in DOMAIN Plan :
       i < j /\ KindOf[Plan[i]] = "route" => KindOf[Plan[j]] # "tun"

ASSUME FaultsAssumption == MaxFaults \in Nat

VARIABLES
  pc,         \* what the process is doing
  by,         \* whose process it is: "server" or "operator"
  at,         \* the position in Plan of the resource prepare() is at
  memory,     \* the NetworkJournal of the process
  file,       \* its file; a file that does not exist loads as an empty journal
  undo,       \* the entries a cleanup has yet to undo
  host,       \* the resources whose change is in effect on the host
  abandoned,  \* history: those whose record was removed while it was pending
  renumbered, \* the interface index in the file's routes is another link's
  faults      \* failures, crashes and reboots so far

vars == <<pc, by, at, memory, file, undo, host, abandoned, renumbered, faults>>

Pending(r) == [resource |-> r, state |-> "pending"]
Active(r)  == [resource |-> r, state |-> "active"]
Entry == [resource : Resources, state : {"pending", "active"}]

Recorded(journal) == {journal[i].resource : i \in DOMAIN journal}
PendingIn(journal) ==
  {journal[i].resource : i \in {j \in DOMAIN journal : journal[j].state = "pending"}}
ActiveIn(journal) ==
  {journal[i].resource : i \in {j \in DOMAIN journal : journal[j].state = "active"}}

OfKind(kind) == {r \in Resources : KindOf[r] = kind}

(* The kernel removes a TUN device and its routes with the last descriptor *)
(* of the device.                                                          *)
Transient == OfKind("tun") \cup OfKind("route")

Phases ==
  {"stopped", "prepare", "apply", "promote", "checkpoint", "running",
   "rollback", "failed", "load", "undo"}

Init ==
  /\ pc = "stopped" /\ by = "server"
  /\ at = 1
  /\ memory = <<>> /\ file = <<>> /\ undo = <<>>
  /\ host = {} /\ abandoned = {}
  /\ renumbered = FALSE
  /\ faults = 0

Fault == faults < MaxFaults /\ faults' = faults + 1

(* The process ends; a server closes its TUN device.                       *)
Exit ==
  /\ pc' = "stopped"
  /\ memory' = <<>> /\ undo' = <<>>
  /\ host' = IF by = "server" THEN host \ Transient ELSE host

------------------------------------------------------------------------------
(* Startup: prepare() of resources.rs.                                     *)

(* prepare() refuses to start while the journal has entries.               *)
Start ==
  /\ pc = "stopped"
  /\ file = <<>>
  /\ pc' = "prepare" /\ by' = "server" /\ at' = 1 /\ memory' = <<>>
  /\ renumbered' = FALSE
  /\ UNCHANGED <<file, undo, host, abandoned, faults>>

Current == Plan[at]
Preparing == pc = "prepare" /\ at <= Len(Plan)

(* enable_forwarding leaves alone a sysctl that is on already.             *)
AlreadyForwarding == KindOf[Current] = "sysctl" /\ Current \in host

(* enable_forwarding goes through all its sysctls before prepare() goes on. *)
MoreForwarding ==
  /\ at < Len(Plan)
  /\ KindOf[Current] = "sysctl" /\ KindOf[Plan[at + 1]] = "sysctl"

StepDone ==
  /\ pc' = IF MoreForwarding THEN "prepare" ELSE "checkpoint"
  /\ at' = IF MoreForwarding THEN at + 1 ELSE at

SkipForwarding ==
  /\ Preparing
  /\ AlreadyForwarding
  /\ StepDone
  /\ UNCHANGED <<by, memory, file, undo, host, abandoned, renumbered, faults>>

(* Where a failure leads: a failed enable_forwarding rolls back first.     *)
FailurePhase == IF KindOf[Current] = "sysctl" THEN "rollback" ELSE "failed"

(* NetworkJournal::prepare.                                                *)
Prepare ==
  /\ Preparing
  /\ ~AlreadyForwarding
  /\ pc' = "apply"
  /\ memory' = Append(memory, Pending(Current))
  /\ file' = memory'
  /\ abandoned' = abandoned \ {Current}
  /\ UNCHANGED <<by, at, undo, host, renumbered, faults>>

(* What comes before it fails, or its persist does, before or after the    *)
(* rename: the entry is popped.                                            *)
PrepareFails ==
  /\ Preparing
  /\ Fault
  /\ pc' = FailurePhase
  /\ file' \in IF AlreadyForwarding THEN {file} ELSE {file, Append(memory, Pending(Current))}
  /\ UNCHANGED <<by, at, memory, undo, host, abandoned, renumbered>>

(* The sysctl write, the nft command, the TUN device, the route.           *)
Apply ==
  /\ pc = "apply"
  /\ pc' = "promote"
  /\ host' = host \cup {Current}
  /\ UNCHANGED <<by, at, memory, file, undo, abandoned, renumbered, faults>>

(* A failed write changes nothing, and the descriptor of a device that     *)
(* cannot be set up is closed; a command or a netlink request may have     *)
(* done its work when it fails, and the old table of nft may be gone.      *)
ApplyFails ==
  /\ pc = "apply"
  /\ Fault
  /\ pc' = FailurePhase
  /\ host' \in CASE KindOf[Current] = "nat"   -> {host \ {Current}, host \cup {Current}}
                 [] KindOf[Current] = "route" -> {host, host \cup {Current}}
                 [] OTHER                     -> {host}
  /\ UNCHANGED <<by, at, memory, file, undo, abandoned, renumbered>>

Promoted(journal) == [journal EXCEPT ![Len(journal)] = Active(journal[Len(journal)].resource)]

(* NetworkJournal::promote_last.                                           *)
Promote ==
  /\ pc = "promote"
  /\ StepDone
  /\ memory' = Promoted(memory)
  /\ file' = memory'
  /\ UNCHANGED <<by, undo, host, abandoned, renumbered, faults>>

(* Its persist fails: the entry is pending again in memory, and a TUN      *)
(* device is closed with its descriptor.                                   *)
PromoteFails ==
  /\ pc = "promote"
  /\ Fault
  /\ pc' = FailurePhase
  /\ file' \in {file, Promoted(memory)}
  /\ host' = host \ ({Current} \cap OfKind("tun"))
  /\ UNCHANGED <<by, at, memory, undo, abandoned, renumbered>>

(* prepare() persists the journal again after each step of its own.        *)
Checkpoint ==
  /\ pc = "checkpoint"
  /\ file' = memory
  /\ at' = at + 1
  /\ pc' = "prepare"
  /\ UNCHANGED <<by, memory, undo, host, abandoned, renumbered, faults>>

(* Or the runtime refuses the new TUN device, which is closed.             *)
CheckpointFails ==
  /\ pc = "checkpoint"
  /\ Fault
  /\ pc' = "failed"
  /\ file' \in {file, memory}
  /\ host' \in {host, host \ ({Current} \cap OfKind("tun"))}
  /\ UNCHANGED <<by, at, memory, undo, abandoned, renumbered>>

Run ==
  /\ pc = "prepare"
  /\ at > Len(Plan)
  /\ pc' = "running"
  /\ UNCHANGED <<by, at, memory, file, undo, host, abandoned, renumbered, faults>>

------------------------------------------------------------------------------
(* A start that failed.                                                    *)

(* rollback_sysctls: each restore may fail, and its failure is ignored.    *)
Rollback ==
  /\ pc = "rollback"
  /\ pc' = "failed"
  /\ \E restored \in SUBSET (ActiveIn(memory) \cap OfKind("sysctl")) : host' = host \ restored
  /\ UNCHANGED <<by, at, memory, file, undo, abandoned, renumbered, faults>>

(* cleanup_failed_start keeps a journal that has a pending entry.          *)
KeepEvidence ==
  /\ pc = "failed"
  /\ PendingIn(file) # {}
  /\ Exit
  /\ UNCHANGED <<by, at, file, abandoned, renumbered, faults>>

(* Mutant: the journal of a failed start is always cleaned up.             *)
CleanFailedStartAlways ==
  /\ pc = "failed"
  /\ pc' = "load"
  /\ UNCHANGED <<by, at, memory, file, undo, host, abandoned, renumbered, faults>>

CleanFailedStart ==
  /\ pc = "failed"
  /\ PendingIn(file) = {}
  /\ pc' = "load"
  /\ UNCHANGED <<by, at, memory, file, undo, host, abandoned, renumbered, faults>>

------------------------------------------------------------------------------
(* cleanup() of journal.rs.                                                *)

(* The server's end: cleanup() follows the worker's exit.                  *)
Shutdown ==
  /\ pc = "running"
  /\ pc' = "load"
  /\ UNCHANGED <<by, at, memory, file, undo, host, abandoned, renumbered, faults>>

(* maskman cleanup, run while no server runs.                              *)
OperatorCleanup ==
  /\ pc = "stopped"
  /\ file # <<>>
  /\ pc' = "load" /\ by' = "operator"
  /\ UNCHANGED <<at, memory, file, undo, host, abandoned, renumbered, faults>>

Load ==
  /\ pc = "load"
  /\ pc' = "undo"
  /\ undo' = file
  /\ UNCHANGED <<by, at, memory, file, host, abandoned, renumbered, faults>>

LoadFails ==
  /\ pc \in {"failed", "load"}
  /\ Fault
  /\ Exit
  /\ UNCHANGED <<by, at, file, abandoned, renumbered>>

(* Mutant: entries are undone in the order in which they were recorded.    *)
UndoEntryForward ==
  /\ pc = "undo"
  /\ undo # <<>>
  /\ host' = IF Head(undo).state = "active" THEN host \ {Head(undo).resource} ELSE host
  /\ undo' = Tail(undo)
  /\ UNCHANGED <<pc, by, at, memory, file, abandoned, renumbered, faults>>

Last(journal) == journal[Len(journal)]

(* remove_route finds a link of another owner under the route's index.     *)
Foreign(entry) ==
  entry.state = "active" /\ KindOf[entry.resource] = "route" /\ renumbered

(* The last entry left: a pending one is passed over.  What is gone        *)
(* already counts as undone.                                               *)
UndoEntry ==
  /\ pc = "undo"
  /\ undo # <<>>
  /\ ~Foreign(Last(undo))
  /\ host' = IF Last(undo).state = "active" THEN host \ {Last(undo).resource} ELSE host
  /\ undo' = SubSeq(undo, 1, Len(undo) - 1)
  /\ UNCHANGED <<pc, by, at, memory, file, abandoned, renumbered, faults>>

(* Mutant: an entry that cannot be undone is passed over.                  *)
UndoFailsIgnored ==
  /\ pc = "undo"
  /\ undo # <<>>
  /\ Last(undo).state = "active"
  /\ Fault
  /\ undo' = SubSeq(undo, 1, Len(undo) - 1)
  /\ UNCHANGED <<pc, by, at, memory, file, host, abandoned, renumbered>>

RefuseForeign ==
  /\ pc = "undo"
  /\ undo # <<>>
  /\ Foreign(Last(undo))
  /\ Exit
  /\ UNCHANGED <<by, at, file, abandoned, renumbered, faults>>

(* The first failure ends the cleanup; the file stays as it is.            *)
UndoFails ==
  /\ pc = "undo"
  /\ undo # <<>>
  /\ Last(undo).state = "active"
  /\ Fault
  /\ Exit
  /\ UNCHANGED <<by, at, file, abandoned, renumbered>>

(* Mutant: the file is kept when its entries are undone.                   *)
RemoveFileForgotten ==
  /\ pc = "undo"
  /\ undo = <<>>
  /\ Exit
  /\ UNCHANGED <<by, at, file, abandoned, renumbered, faults>>

RemoveFile ==
  /\ pc = "undo"
  /\ undo = <<>>
  /\ Exit
  /\ file' = <<>>
  /\ abandoned' = abandoned \cup PendingIn(file)
  /\ UNCHANGED <<by, at, renumbered, faults>>

RemoveFails ==
  /\ pc = "undo"
  /\ undo = <<>>
  /\ Fault
  /\ Exit
  /\ UNCHANGED <<by, at, file, abandoned, renumbered>>

------------------------------------------------------------------------------
(* Crashes.                                                                *)

(* A worker may outlive its supervisor, and with it the TUN device.        *)
Crash ==
  /\ pc # "stopped"
  /\ Fault
  /\ pc' = "stopped"
  /\ memory' = <<>> /\ undo' = <<>>
  /\ host' \in IF by = "operator" THEN {host}
               ELSE IF pc = "running" THEN {host, host \ Transient}
               ELSE {host \ Transient}
  /\ UNCHANGED <<by, at, file, abandoned, renumbered>>

(* A reboot leaves nothing but the file, and may number the links anew.    *)
Reboot ==
  /\ Fault
  /\ pc' = "stopped"
  /\ memory' = <<>> /\ undo' = <<>>
  /\ host' = {}
  /\ renumbered' \in BOOLEAN
  /\ UNCHANGED <<by, at, file, abandoned>>

WorkerExits ==
  /\ pc = "stopped"
  /\ host \cap Transient # {}
  /\ host' = host \ Transient
  /\ UNCHANGED <<pc, by, at, memory, file, undo, abandoned, renumbered, faults>>

------------------------------------------------------------------------------
(* What the processes do when nothing fails.                               *)
Progress ==
  \/ Start \/ SkipForwarding \/ Prepare \/ Apply \/ Promote \/ Checkpoint \/ Run
  \/ Rollback \/ KeepEvidence \/ CleanFailedStart
  \/ OperatorCleanup \/ Load \/ UndoEntry \/ RefuseForeign \/ RemoveFile

Failure ==
  \/ PrepareFails \/ ApplyFails \/ PromoteFails \/ CheckpointFails
  \/ LoadFails \/ UndoFails \/ RemoveFails \/ Crash \/ Reboot

Next == Progress \/ Failure \/ Shutdown \/ WorkerExits

Spec == Init /\ [][Next]_vars

(* The service manager starts the server again, and the operator runs      *)
(* maskman cleanup when it refuses to start.                               *)
FairSpec == Spec /\ WF_vars(Progress)

------------------------------------------------------------------------------
TypeOK ==
  /\ pc \in Phases
  /\ by \in {"server", "operator"}
  /\ at \in 1 .. Len(Plan) + 1
  /\ memory \in Seq(Entry) /\ file \in Seq(Entry) /\ undo \in Seq(Entry)
  /\ host \subseteq Resources
  /\ abandoned \subseteq Resources
  /\ renumbered \in BOOLEAN
  /\ faults \in 0 .. MaxFaults

(* Every change in effect on the host is in the journal's file, whatever   *)
(* crashed or failed, unless an operator's cleanup removed its record      *)
(* while it was pending.                                                   *)
Tracked == host \subseteq Recorded(file) \cup abandoned

(* What prepare() knows of its journal: every step before the one under    *)
(* way is active in it, and that one is its last entry.                    *)
StartByPhase ==
  /\ pc \in {"apply", "promote", "checkpoint"} => at <= Len(Plan)
  /\ pc \in {"prepare", "checkpoint", "running"} => PendingIn(memory) = {}
  /\ pc \in {"apply", "promote"} =>
       /\ memory # <<>>
       /\ Last(memory) = Pending(Current)
       /\ \A i \in 1 .. Len(memory) - 1 : memory[i].state = "active"

(* What a cleanup has left to undo is a prefix of the file, and what is    *)
(* still on the host is there, or pending, or had no record before.        *)
CleanupByPhase ==
  /\ pc \in {"load", "undo"} /\ by = "server" => PendingIn(file) = {}
  /\ pc = "undo" =>
       /\ Len(undo) <= Len(file)
       /\ \A i \in DOMAIN undo : undo[i] = file[i]
       /\ host \subseteq Recorded(undo) \cup PendingIn(file) \cup abandoned

(* The server's own cleanups never remove the record of a change whose     *)
(* outcome is unknown (cleanup_failed_start).                              *)
EvidenceKeptByServer == [][by = "server" => abandoned' \subseteq abandoned]_vars

(* No cleanup removes a TUN device while a route over it is left: cleanup  *)
(* undoes the journal in reverse, and stops at the first failure.          *)
RoutesGoBeforeTun ==
  [][\A r \in OfKind("tun") :
       pc = "undo" /\ pc' = "undo" /\ r \in host /\ r \notin host'
         => host \cap OfKind("route") = {}]_vars

(* A start never inherits the entries of an earlier one, and what it has   *)
(* done so far is in the file, but for the last entry of a step that       *)
(* failed.                                                                 *)
FileFollowsMemory ==
  /\ pc \in {"prepare", "apply", "promote", "checkpoint", "running"} => file = memory
  /\ pc \in {"rollback", "failed"} =>
       \/ file = memory
       \/ file = Append(memory, Pending(Current))
       \/ memory # <<>> /\ file = Promoted(memory)

FileInv == TypeOK /\ FileFollowsMemory /\ StartByPhase /\ CleanupByPhase /\ Tracked

(* The journal is written in the order of the plan: every journal that a   *)
(* crash can leave has its routes behind its TUN device.                   *)
RoutesLast(journal) ==
  \A i, j \in DOMAIN journal :
    i < j /\ KindOf[journal[i].resource] = "route" => KindOf[journal[j].resource] # "tun"

Steps(n) == {Plan[k] : k \in 1 .. n}

PlanFollowed ==
  /\ pc = "prepare" => Recorded(memory) \subseteq Steps(at - 1)
  /\ pc \in {"apply", "promote", "checkpoint"} => Recorded(memory) \subseteq Steps(at)
  /\ RoutesLast(file)

(* A TUN device or a route is never left on the host under a pending       *)
(* entry or under none: the kernel takes it with the server that was not   *)
(* done with it.                                                           *)
TransientByPhase ==
  /\ pc \notin {"stopped", "load", "undo"} => by = "server"
  /\ host \cap Transient \subseteq Recorded(file)
  /\ pc \in {"stopped", "load"} => host \cap Transient \subseteq ActiveIn(file)
  /\ pc = "undo" => host \cap Transient \subseteq ActiveIn(undo)

(* The inductive invariant.                                                *)
Inv == FileInv /\ PlanFollowed /\ TransientByPhase

Blocked == renumbered /\ ActiveIn(file) \cap OfKind("route") # {}

(* Whatever fails, as long as failures end, the server runs again: no      *)
(* journal is ever left that neither start nor cleanup can get past, but   *)
(* one whose routes name the link of another owner.                        *)
Recovers == pc = "stopped" ~> pc = "running" \/ Blocked

==============================================================================
