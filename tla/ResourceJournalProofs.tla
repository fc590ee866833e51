------------------------ MODULE ResourceJournalProofs ------------------------
(***************************************************************************)
(* Proofs about ResourceJournal, for every plan and any number of faults.  *)
(***************************************************************************)
EXTENDS ResourceJournal, SequenceTheorems, TLAPS

(* What the operators on journals preserve.                                *)
LEMMA PrefixOfPlan ==
  ASSUME at \in 1 .. Len(Plan)
  PROVE  /\ Current \in Resources /\ KindOf[Current] \in Kinds
         /\ Pending(Current) \in Entry
<1>1. Current \in Resources
  BY PlanAssumption DEF Current
<1> QED BY <1>1, PlanAssumption DEF Pending, Entry

LEMMA RecordedType ==
  ASSUME NEW journal \in Seq(Entry)
  PROVE  /\ Recorded(journal) \subseteq Resources
         /\ PendingIn(journal) \subseteq Recorded(journal)
<1>1. \A i \in DOMAIN journal : journal[i] \in Entry
  OBVIOUS
<1>2. Recorded(journal) \subseteq Resources
  BY <1>1 DEF Recorded, Entry
<1>3. PendingIn(journal) \subseteq Recorded(journal)
  BY DEF Recorded, PendingIn
<1> QED BY <1>2, <1>3

LEMMA PendingInEmpty ==
  ASSUME NEW journal \in Seq(Entry)
  PROVE  PendingIn(journal) = {} <=> \A i \in 1 .. Len(journal) : journal[i].state = "active"
<1>1. \A i \in 1 .. Len(journal) : journal[i] \in Entry
  OBVIOUS
<1>2. DOMAIN journal = 1 .. Len(journal)
  OBVIOUS
<1>3. \A i \in 1 .. Len(journal) :
        journal[i].state = "active" \/ journal[i].state = "pending"
  BY <1>1 DEF Entry
<1>4. ASSUME PendingIn(journal) = {}, NEW i \in 1 .. Len(journal)
      PROVE  journal[i].state = "active"
  <2>1. CASE journal[i].state = "pending"
    <3>1. journal[i].resource \in PendingIn(journal)
      BY <1>2, <2>1 DEF PendingIn
    <3> QED BY <1>4, <3>1
  <2> QED BY <1>3, <2>1
<1>5. ASSUME \A i \in 1 .. Len(journal) : journal[i].state = "active"
      PROVE  PendingIn(journal) = {}
  BY <1>2, <1>5 DEF PendingIn
<1> QED BY <1>4, <1>5

LEMMA AppendPending ==
  ASSUME NEW journal \in Seq(Entry), NEW r \in Resources
  PROVE  LET longer == Append(journal, Pending(r)) IN
         /\ longer \in Seq(Entry) /\ longer # <<>>
         /\ Last(longer) = Pending(r)
         /\ Len(longer) = Len(journal) + 1
         /\ \A i \in 1 .. Len(journal) : longer[i] = journal[i]
         /\ Recorded(longer) = Recorded(journal) \cup {r}
<1> DEFINE longer == Append(journal, Pending(r))
<1>1. Pending(r) \in Entry
  BY DEF Pending, Entry
<1>2. /\ longer \in Seq(Entry) /\ longer # <<>>
      /\ Len(longer) = Len(journal) + 1
      /\ longer[Len(journal) + 1] = Pending(r)
      /\ \A i \in 1 .. Len(journal) : longer[i] = journal[i]
  BY <1>1
<1>3. \A i \in 1 .. Len(longer) : i \in 1 .. Len(journal) \/ i = Len(journal) + 1
  BY <1>2
<1>4. Recorded(longer) = Recorded(journal) \cup {r}
  BY <1>2, <1>3 DEF Recorded, Pending
<1> QED BY <1>2, <1>4 DEF Last

LEMMA PromotedKeeps ==
  ASSUME NEW journal \in Seq(Entry), journal # <<>>
  PROVE  LET done == Promoted(journal) IN
         /\ done \in Seq(Entry) /\ done # <<>>
         /\ Len(done) = Len(journal)
         /\ done[Len(done)].state = "active"
         /\ \A i \in 1 .. Len(journal) - 1 : done[i] = journal[i]
         /\ Recorded(done) = Recorded(journal)
<1> DEFINE done == Promoted(journal)
<1>1. Len(journal) \in 1 .. Len(journal) /\ journal[Len(journal)] \in Entry
  OBVIOUS
<1>2. /\ DOMAIN done = 1 .. Len(journal)
      /\ done[Len(journal)] = Active(journal[Len(journal)].resource)
      /\ \A i \in 1 .. Len(journal) - 1 : done[i] = journal[i]
  BY <1>1 DEF Promoted
<1>3. done[Len(journal)] \in Entry /\ done[Len(journal)].state = "active"
      /\ done[Len(journal)].resource = journal[Len(journal)].resource
  BY <1>1, <1>2 DEF Entry, Active
<1>4. \A i \in 1 .. Len(journal) :
        done[i] \in Entry /\ done[i].resource = journal[i].resource
  <2> TAKE i \in 1 .. Len(journal)
  <2>1. CASE i = Len(journal)
    BY <1>3, <2>1
  <2>2. CASE i \in 1 .. Len(journal) - 1
    BY <1>2, <2>2
  <2> QED BY <2>1, <2>2
<1>5. done \in Seq(Entry) /\ Len(done) = Len(journal) /\ done # <<>>
  <2>1. done \in [1 .. Len(journal) -> Entry]
    BY <1>2, <1>4 DEF Promoted
  <2> QED BY <1>1, <2>1
<1>6. Recorded(done) = Recorded(journal)
  BY <1>2, <1>4, <1>5 DEF Recorded
<1> QED BY <1>2, <1>3, <1>5, <1>6

LEMMA ShorterByOne ==
  ASSUME NEW journal \in Seq(Entry), journal # <<>>
  PROVE  LET shorter == SubSeq(journal, 1, Len(journal) - 1) IN
         /\ shorter \in Seq(Entry)
         /\ Len(shorter) = Len(journal) - 1
         /\ \A i \in 1 .. Len(shorter) : shorter[i] = journal[i]
         /\ Recorded(journal) = Recorded(shorter) \cup {Last(journal).resource}
         /\ Last(journal) \in Entry
<1> DEFINE shorter == SubSeq(journal, 1, Len(journal) - 1)
<1>1. Len(journal) \in Nat \ {0} /\ \A i \in 1 .. Len(journal) : journal[i] \in Entry
  OBVIOUS
<1>2. /\ shorter \in Seq(Entry)
      /\ Len(shorter) = Len(journal) - 1
      /\ \A i \in 1 .. Len(journal) - 1 : shorter[i] = journal[i]
  <2>1. ASSUME NEW n \in Nat, n = Len(journal) - 1
        PROVE  /\ SubSeq(journal, 1, n) \in Seq(Entry)
               /\ Len(SubSeq(journal, 1, n)) = n
               /\ \A i \in 1 .. n : SubSeq(journal, 1, n)[i] = journal[i]
    <3>1. 1 \in Int /\ n \in Int /\ \A i \in 1 .. n : journal[i] \in Entry
      BY <1>1, <2>1
    <3>2. /\ SubSeq(journal, 1, n) \in Seq(Entry)
          /\ Len(SubSeq(journal, 1, n)) = IF 1 <= n THEN n - 1 + 1 ELSE 0
          /\ \A i \in 1 .. n - 1 + 1 : SubSeq(journal, 1, n)[i] = journal[1 + i - 1]
      BY <3>1, SubSeqProperties
    <3> DEFINE shortened == SubSeq(journal, 1, n)
    <3> HIDE DEF shortened
    <3>3. /\ shortened \in Seq(Entry)
          /\ Len(shortened) = IF 1 <= n THEN n - 1 + 1 ELSE 0
          /\ \A i \in 1 .. n - 1 + 1 : shortened[i] = journal[1 + i - 1]
      BY <3>2 DEF shortened
    <3>4. Len(shortened) = n
      BY <3>3
    <3>5. \A i \in 1 .. n : shortened[i] = journal[i]
      BY <3>3
    <3> QED BY <3>3, <3>4, <3>5 DEF shortened
  <2>2. Len(journal) - 1 \in Nat
    BY <1>1
  <2> QED BY <2>1, <2>2, Zenon
<1>3. /\ DOMAIN journal = 1 .. Len(journal)
      /\ DOMAIN shorter = 1 .. Len(shorter)
      /\ 1 .. Len(journal) = 1 .. Len(shorter) \cup {Len(journal)}
  BY <1>1, <1>2
<1> HIDE DEF shorter
<1>4. Recorded(journal) = Recorded(shorter) \cup {Last(journal).resource}
  BY <1>2, <1>3 DEF Recorded, Last
<1> QED BY <1>1, <1>2, <1>4 DEF Last, shorter

------------------------------------------------------------------------------
(* The type of every variable.                                             *)
LEMMA TypeInit == Init => TypeOK
<1>1. Len(Plan) \in Nat
  BY PlanAssumption
<1>2. Init => renumbered \in BOOLEAN
  BY DEF Init
<1>3. <<>> \in Seq(Entry)
  OBVIOUS
<1> QED BY <1>1, <1>2, <1>3, FaultsAssumption DEF Init, TypeOK, Phases

LEMMA FaultType ==
  ASSUME faults \in 0 .. MaxFaults, Fault
  PROVE  faults' \in 0 .. MaxFaults
BY FaultsAssumption DEF Fault

(* A process that ends, whatever ended it.                                 *)
LEMMA StoppedType ==
  ASSUME TypeOK, pc' = "stopped", memory' = <<>>, undo' = <<>>,
         file' \in Seq(Entry), host' \subseteq host, by' = by, at' = at,
         abandoned' \subseteq Resources, renumbered' \in BOOLEAN,
         faults' \in 0 .. MaxFaults
  PROVE  TypeOK'
BY DEF TypeOK, Phases

LEMMA ExitStops ==
  ASSUME Exit
  PROVE  pc' = "stopped" /\ memory' = <<>> /\ undo' = <<>> /\ host' \subseteq host
BY DEF Exit

LEMMA StartType ==
  ASSUME TypeOK, StartByPhase,
         \/ Start \/ SkipForwarding \/ Prepare \/ PrepareFails \/ Apply \/ ApplyFails
         \/ Promote \/ PromoteFails \/ Checkpoint \/ CheckpointFails \/ Run
  PROVE  TypeOK'
<1>1. /\ Len(Plan) \in Nat
      /\ at \in 1 .. Len(Plan) + 1
      /\ memory \in Seq(Entry) /\ file \in Seq(Entry)
  BY PlanAssumption DEF TypeOK
<1>2. CASE Start
  <2>1. renumbered' \in BOOLEAN
    BY <1>2 DEF Start
  <2>2. <<>> \in Seq(Entry)
    OBVIOUS
  <2> QED BY <1>1, <1>2, <2>1, <2>2 DEF Start, TypeOK, Phases
<1>3. CASE Run
  BY <1>3 DEF Run, TypeOK, Phases
<1>4. ASSUME Preparing \/ pc \in {"apply", "promote", "checkpoint"}
      PROVE  /\ at <= Len(Plan)
             /\ Current \in Resources
             /\ Append(memory, Pending(Current)) \in Seq(Entry)
             /\ FailurePhase \in Phases
             /\ at + 1 \in 1 .. Len(Plan) + 1
  <2>1. at <= Len(Plan)
    BY <1>4 DEF Preparing, StartByPhase
  <2>2. at \in 1 .. Len(Plan) /\ at + 1 \in 1 .. Len(Plan) + 1
    BY <1>1, <2>1
  <2> QED BY <1>1, <2>1, <2>2, PrefixOfPlan, AppendPending DEF FailurePhase, Phases
<1>5. ASSUME pc = "promote" PROVE Promoted(memory) \in Seq(Entry)
  BY <1>1, <1>5, PromotedKeeps DEF StartByPhase
<1>6. CASE SkipForwarding
  BY <1>1, <1>4, <1>6 DEF SkipForwarding, StepDone, TypeOK, Phases
<1>7. CASE Prepare
  BY <1>1, <1>4, <1>7 DEF Prepare, TypeOK, Phases
<1>8. CASE PrepareFails
  BY <1>1, <1>4, <1>8, FaultType DEF PrepareFails, TypeOK
<1>9. CASE Apply
  BY <1>1, <1>4, <1>9 DEF Apply, TypeOK, Phases
<1>10. CASE ApplyFails
  <2>1. host' \subseteq host \cup {Current}
    BY <1>10 DEF ApplyFails
  <2> QED BY <1>1, <1>4, <1>10, <2>1, FaultType DEF ApplyFails, TypeOK
<1>11. CASE Promote
  BY <1>1, <1>4, <1>5, <1>11 DEF Promote, StepDone, TypeOK, Phases
<1>12. CASE PromoteFails
  BY <1>1, <1>4, <1>5, <1>12, FaultType DEF PromoteFails, TypeOK
<1>13. CASE Checkpoint
  BY <1>1, <1>4, <1>13 DEF Checkpoint, TypeOK, Phases
<1>14. CASE CheckpointFails
  BY <1>1, <1>4, <1>14, FaultType DEF CheckpointFails, TypeOK, Phases
<1> QED BY <1>2, <1>3, <1>6, <1>7, <1>8, <1>9, <1>10, <1>11, <1>12, <1>13, <1>14

LEMMA CleanupType ==
  ASSUME TypeOK,
         \/ Rollback \/ CleanFailedStart \/ Shutdown \/ OperatorCleanup
         \/ Load \/ UndoEntry
  PROVE  TypeOK'
<1>1. CASE Rollback
  <2>1. host' \subseteq host
    BY <1>1 DEF Rollback
  <2> QED BY <1>1, <2>1 DEF Rollback, TypeOK, Phases
<1>2. CASE CleanFailedStart
  BY <1>2 DEF CleanFailedStart, TypeOK, Phases
<1>3. CASE Shutdown
  BY <1>3 DEF Shutdown, TypeOK, Phases
<1>4. CASE OperatorCleanup
  BY <1>4 DEF OperatorCleanup, TypeOK, Phases
<1>5. CASE Load
  BY <1>5 DEF Load, TypeOK, Phases
<1>6. CASE UndoEntry
  <2>1. undo' \in Seq(Entry)
    BY <1>6, ShorterByOne DEF UndoEntry, TypeOK
  <2>2. host' \subseteq host
    BY <1>6 DEF UndoEntry
  <2> QED BY <1>6, <2>1, <2>2 DEF UndoEntry, TypeOK
<1> QED BY <1>1, <1>2, <1>3, <1>4, <1>5, <1>6

LEMMA EndType ==
  ASSUME TypeOK,
         \/ KeepEvidence \/ LoadFails \/ RefuseForeign \/ UndoFails
         \/ RemoveFile \/ RemoveFails \/ Crash \/ Reboot \/ WorkerExits
  PROVE  TypeOK'
<1>1. faults \in 0 .. MaxFaults /\ file \in Seq(Entry) /\ <<>> \in Seq(Entry)
      /\ abandoned \subseteq Resources /\ renumbered \in BOOLEAN
  BY DEF TypeOK
<1>2. CASE KeepEvidence
  BY <1>1, <1>2, ExitStops, StoppedType DEF KeepEvidence
<1>3. CASE LoadFails
  BY <1>1, <1>3, ExitStops, StoppedType, FaultType DEF LoadFails
<1>4. CASE RefuseForeign
  BY <1>1, <1>4, ExitStops, StoppedType DEF RefuseForeign
<1>5. CASE UndoFails
  BY <1>1, <1>5, ExitStops, StoppedType, FaultType DEF UndoFails
<1>6. CASE RemoveFile
  <2>1. abandoned' \subseteq Resources
    BY <1>1, <1>6, RecordedType DEF RemoveFile
  <2> QED BY <1>1, <1>6, <2>1, ExitStops, StoppedType DEF RemoveFile
<1>7. CASE RemoveFails
  BY <1>1, <1>7, ExitStops, StoppedType, FaultType DEF RemoveFails
<1>8. CASE Crash
  <2>1. host' \subseteq host
    BY <1>8 DEF Crash
  <2> QED BY <1>1, <1>8, <2>1, StoppedType, FaultType DEF Crash
<1>9. CASE Reboot
  BY <1>1, <1>9, StoppedType, FaultType DEF Reboot
<1>10. CASE WorkerExits
  BY <1>10 DEF WorkerExits, TypeOK
<1> QED BY <1>2, <1>3, <1>4, <1>5, <1>6, <1>7, <1>8, <1>9, <1>10

------------------------------------------------------------------------------
(* The journal against the host.                                           *)

(* A stopped process owes the invariant its record of the host only.       *)
LEMMA StoppedSafe ==
  ASSUME Tracked, pc' = "stopped", host' \subseteq host, file' = file, abandoned' = abandoned
  PROVE  FileFollowsMemory' /\ StartByPhase' /\ CleanupByPhase' /\ Tracked'
BY DEF Tracked, FileFollowsMemory, StartByPhase, CleanupByPhase, Recorded

LEMMA EndSafe ==
  ASSUME FileInv,
         \/ KeepEvidence \/ LoadFails \/ RefuseForeign \/ UndoFails
         \/ RemoveFails \/ Crash \/ Reboot
  PROVE  FileFollowsMemory' /\ StartByPhase' /\ CleanupByPhase' /\ Tracked'
<1>1. Tracked
  BY DEF FileInv
<1>2. CASE KeepEvidence
  BY <1>1, <1>2, ExitStops, StoppedSafe DEF KeepEvidence
<1>3. CASE LoadFails
  BY <1>1, <1>3, ExitStops, StoppedSafe DEF LoadFails
<1>4. CASE RefuseForeign
  BY <1>1, <1>4, ExitStops, StoppedSafe DEF RefuseForeign
<1>5. CASE UndoFails
  BY <1>1, <1>5, ExitStops, StoppedSafe DEF UndoFails
<1>6. CASE RemoveFails
  BY <1>1, <1>6, ExitStops, StoppedSafe DEF RemoveFails
<1>7. CASE Crash
  <2>1. host' \subseteq host
    BY <1>7 DEF Crash
  <2> QED BY <1>1, <1>7, <2>1, StoppedSafe DEF Crash
<1>8. CASE Reboot
  BY <1>1, <1>8, StoppedSafe DEF Reboot
<1> QED BY <1>2, <1>3, <1>4, <1>5, <1>6, <1>7, <1>8

(* The end of a cleanup: what the removed file recorded is off the host,   *)
(* or was pending.                                                         *)
LEMMA RemoveFileSafe ==
  ASSUME FileInv, RemoveFile
  PROVE  FileFollowsMemory' /\ StartByPhase' /\ CleanupByPhase' /\ Tracked'
<1>1. host \subseteq Recorded(undo) \cup PendingIn(file) \cup abandoned
  BY DEF FileInv, CleanupByPhase, RemoveFile
<1>2. Recorded(<<>>) = {}
  BY DEF Recorded
<1>3. host' \subseteq host /\ pc' = "stopped"
  BY ExitStops DEF RemoveFile
<1>4. host' \subseteq abandoned'
  BY <1>1, <1>2, <1>3 DEF RemoveFile
<1> QED BY <1>3, <1>4 DEF Tracked, FileFollowsMemory, StartByPhase, CleanupByPhase

(* Startup, as far as a step's persisted intent: the intent is on record   *)
(* before the host changes.                                                *)
LEMMA PrepareSafe ==
  ASSUME FileInv, Start \/ SkipForwarding \/ Prepare \/ PrepareFails \/ Run
  PROVE  FileFollowsMemory' /\ StartByPhase' /\ CleanupByPhase' /\ Tracked'
<1>1. /\ memory \in Seq(Entry) /\ file \in Seq(Entry)
      /\ at \in 1 .. Len(Plan) + 1
      /\ Len(Plan) \in Nat /\ Len(memory) \in Nat
  BY PlanAssumption DEF FileInv, TypeOK
<1>2. host \subseteq Recorded(file) \cup abandoned
  BY DEF FileInv, Tracked
<1>3. CASE Start
  <2>1. PendingIn(<<>>) = {}
    BY DEF PendingIn
  <2>2. pc' = "prepare" /\ file' = <<>> /\ memory' = <<>> /\ host' = host /\ abandoned' = abandoned
        /\ file = <<>>
    BY <1>3 DEF Start
  <2> QED BY <1>2, <2>1, <2>2 DEF Tracked, FileFollowsMemory, StartByPhase, CleanupByPhase
<1>4. ASSUME Preparing
      PROVE  /\ file = memory
             /\ at \in 1 .. Len(Plan)
             /\ PendingIn(memory) = {}
             /\ \A i \in 1 .. Len(memory) : memory[i].state = "active"
             /\ Current \in Resources
  <2>1. file = memory /\ PendingIn(memory) = {} /\ at \in 1 .. Len(Plan)
    BY <1>1, <1>4 DEF Preparing, FileInv, FileFollowsMemory, StartByPhase
  <2> QED BY <1>1, <2>1, PendingInEmpty, PrefixOfPlan
<1>5. CASE SkipForwarding
  <2>1. file' = memory' /\ memory' = memory /\ pc' \in {"prepare", "checkpoint"}
        /\ host' = host /\ abandoned' = abandoned /\ file' = file
        /\ PendingIn(memory) = {}
    BY <1>4, <1>5 DEF SkipForwarding, StepDone
  <2>2. pc' = "checkpoint" => at' <= Len(Plan)
    BY <1>1, <1>4, <1>5 DEF SkipForwarding, StepDone
  <2> QED BY <1>2, <2>1, <2>2 DEF Tracked, FileFollowsMemory, StartByPhase, CleanupByPhase
<1>6. CASE Prepare
  <2>1. /\ Preparing /\ pc' = "apply" /\ at' = at
        /\ memory' = Append(memory, Pending(Current)) /\ file' = memory'
        /\ host' = host /\ abandoned' = abandoned \ {Current}
    BY <1>6 DEF Prepare
  <2>2. Current' = Current
    BY <2>1 DEF Current
  <2>3. /\ memory' # <<>> /\ Last(memory') = Pending(Current)
        /\ Len(memory') - 1 = Len(memory)
        /\ \A i \in 1 .. Len(memory) : memory'[i] = memory[i]
        /\ Recorded(memory') = Recorded(memory) \cup {Current}
    BY <1>1, <1>4, <2>1, AppendPending
  <2>4. StartByPhase'
    BY <1>1, <1>4, <2>1, <2>2, <2>3 DEF StartByPhase, Last, Pending
  <2>5. Tracked'
    BY <1>2, <1>4, <2>1, <2>3 DEF Tracked
  <2> QED BY <2>1, <2>4, <2>5 DEF FileFollowsMemory, CleanupByPhase
<1>7. CASE PrepareFails
  <2>1. /\ Preparing /\ pc' \in {"rollback", "failed"} /\ at' = at /\ memory' = memory
        /\ file' = file \/ file' = Append(memory, Pending(Current))
        /\ host' = host /\ abandoned' = abandoned
    BY <1>7 DEF PrepareFails, FailurePhase
  <2>2. Current' = Current /\ Pending(Current)' = Pending(Current)
    BY <2>1 DEF Current, Pending
  <2>3. Recorded(file) \subseteq Recorded(file')
    BY <1>1, <1>4, <2>1, AppendPending
  <2> QED BY <1>2, <1>4, <2>1, <2>2, <2>3 DEF Tracked, FileFollowsMemory, StartByPhase, CleanupByPhase
<1>8. CASE Run
  BY <1>2, <1>8 DEF Run, FileInv, Tracked, FileFollowsMemory, StartByPhase, CleanupByPhase
<1> QED BY <1>3, <1>5, <1>6, <1>7, <1>8

(* Startup from the change of the host to its record.                      *)
LEMMA ApplySafe ==
  ASSUME FileInv,
         \/ Apply \/ ApplyFails \/ Promote \/ PromoteFails
         \/ Checkpoint \/ CheckpointFails
  PROVE  FileFollowsMemory' /\ StartByPhase' /\ CleanupByPhase' /\ Tracked'
<1>1. /\ memory \in Seq(Entry) /\ file \in Seq(Entry)
      /\ at \in 1 .. Len(Plan) + 1
      /\ Len(Plan) \in Nat /\ Len(memory) \in Nat
  BY PlanAssumption DEF FileInv, TypeOK
<1>2. host \subseteq Recorded(file) \cup abandoned
  BY DEF FileInv, Tracked
<1>3. ASSUME pc \in {"apply", "promote"}
      PROVE  /\ file = memory /\ memory # <<>> /\ at <= Len(Plan)
             /\ \A i \in 1 .. Len(memory) - 1 : memory[i].state = "active"
             /\ Current \in Recorded(file)
  <2>1. /\ file = memory /\ memory # <<>> /\ at <= Len(Plan)
        /\ Last(memory) = Pending(Current)
        /\ \A i \in 1 .. Len(memory) - 1 : memory[i].state = "active"
    BY <1>3 DEF FileInv, FileFollowsMemory, StartByPhase
  <2>2. Len(memory) \in DOMAIN memory /\ memory[Len(memory)].resource = Current
    BY <1>1, <2>1 DEF Last, Pending
  <2> QED BY <2>1, <2>2 DEF Recorded
<1>4. CASE Apply
  <2>1. /\ pc' = "promote" /\ host' = host \cup {Current} /\ at' = at
        /\ memory' = memory /\ file' = file /\ abandoned' = abandoned
        /\ pc = "apply"
    BY <1>4 DEF Apply
  <2>2. Tracked'
    BY <1>2, <1>3, <2>1 DEF Tracked
  <2>3. StartByPhase'
    BY <2>1 DEF FileInv, StartByPhase, Current
  <2> QED BY <1>3, <2>1, <2>2, <2>3 DEF FileFollowsMemory, CleanupByPhase
<1>5. CASE ApplyFails
  <2>1. /\ pc' \in {"rollback", "failed"} /\ host' \subseteq host \cup {Current}
        /\ memory' = memory /\ file' = file /\ abandoned' = abandoned
        /\ pc = "apply"
    BY <1>5 DEF ApplyFails, FailurePhase
  <2> QED BY <1>2, <1>3, <2>1 DEF Tracked, FileFollowsMemory, StartByPhase, CleanupByPhase
<1>6. ASSUME pc = "promote"
      PROVE  /\ Recorded(Promoted(memory)) = Recorded(memory)
             /\ Promoted(memory) \in Seq(Entry)
             /\ PendingIn(Promoted(memory)) = {}
  <2> DEFINE done == Promoted(memory)
  <2>1. /\ done \in Seq(Entry) /\ Len(done) = Len(memory)
        /\ done[Len(done)].state = "active"
        /\ \A i \in 1 .. Len(memory) - 1 : done[i] = memory[i]
        /\ Recorded(done) = Recorded(memory)
    BY <1>1, <1>3, <1>6, PromotedKeeps
  <2> HIDE DEF done
  <2>2. \A i \in 1 .. Len(done) : i \in 1 .. Len(memory) - 1 \/ i = Len(done)
    BY <1>1, <2>1
  <2>3. \A i \in 1 .. Len(done) : done[i].state = "active"
    BY <1>3, <1>6, <2>1, <2>2
  <2>4. PendingIn(done) = {}
    BY <2>1, <2>3, PendingInEmpty
  <2> QED BY <2>1, <2>4 DEF done
<1>7. CASE Promote
  <2>1. /\ pc = "promote" /\ pc' \in {"prepare", "checkpoint"}
        /\ memory' = Promoted(memory) /\ file' = memory'
        /\ host' = host /\ abandoned' = abandoned
        /\ pc' = "checkpoint" => at' = at
    BY <1>7 DEF Promote, StepDone
  <2> QED BY <1>2, <1>3, <1>6, <2>1 DEF Tracked, FileFollowsMemory, StartByPhase, CleanupByPhase
<1>8. CASE PromoteFails
  <2>1. /\ pc = "promote" /\ pc' \in {"rollback", "failed"}
        /\ file' = file \/ file' = Promoted(memory)
        /\ memory' = memory /\ host' \subseteq host /\ abandoned' = abandoned
    BY <1>8 DEF PromoteFails, FailurePhase
  <2>2. Promoted(memory)' = Promoted(memory)
    BY <2>1 DEF Promoted, Active
  <2>3. Recorded(file') = Recorded(file)
    BY <1>3, <1>6, <2>1
  <2> QED BY <1>2, <1>3, <2>1, <2>2, <2>3
    DEF Tracked, FileFollowsMemory, StartByPhase, CleanupByPhase
<1>9. ASSUME pc = "checkpoint" PROVE file = memory /\ PendingIn(memory) = {}
  BY <1>9 DEF FileInv, FileFollowsMemory, StartByPhase
<1>10. CASE Checkpoint
  <2>1. pc = "checkpoint" /\ pc' = "prepare" /\ file' = memory /\ memory' = memory
        /\ host' = host /\ abandoned' = abandoned
    BY <1>10 DEF Checkpoint
  <2> QED BY <1>2, <1>9, <2>1 DEF Tracked, FileFollowsMemory, StartByPhase, CleanupByPhase
<1>11. CASE CheckpointFails
  <2>1. pc = "checkpoint" /\ pc' = "failed" /\ (file' = memory \/ file' = file)
        /\ memory' = memory /\ host' \subseteq host /\ abandoned' = abandoned
    BY <1>11 DEF CheckpointFails
  <2> QED BY <1>2, <1>9, <2>1 DEF Tracked, FileFollowsMemory, StartByPhase, CleanupByPhase
<1> QED BY <1>4, <1>5, <1>7, <1>8, <1>10, <1>11

(* Cleanups up to the removal of the file.                                 *)
LEMMA CleanupSafe ==
  ASSUME FileInv,
         \/ Rollback \/ CleanFailedStart \/ Shutdown \/ OperatorCleanup
         \/ Load \/ UndoEntry \/ WorkerExits
  PROVE  FileFollowsMemory' /\ StartByPhase' /\ CleanupByPhase' /\ Tracked'
<1>1. memory \in Seq(Entry) /\ file \in Seq(Entry) /\ undo \in Seq(Entry)
  BY DEF FileInv, TypeOK
<1>2. host \subseteq Recorded(file) \cup abandoned
  BY DEF FileInv, Tracked
<1>3. CASE Rollback
  <2>1. /\ pc = "rollback" /\ pc' = "failed" /\ host' \subseteq host
        /\ at' = at /\ memory' = memory /\ file' = file /\ abandoned' = abandoned
    BY <1>3 DEF Rollback
  <2>2. FileFollowsMemory'
    BY <2>1 DEF FileInv, FileFollowsMemory, Current, Promoted
  <2> QED BY <1>2, <2>1, <2>2 DEF Tracked, StartByPhase, CleanupByPhase
<1>4. CASE CleanFailedStart
  <2>1. pc' = "load" /\ PendingIn(file) = {}
        /\ host' = host /\ file' = file /\ abandoned' = abandoned
    BY <1>4 DEF CleanFailedStart
  <2> QED BY <1>2, <2>1 DEF Tracked, FileFollowsMemory, StartByPhase, CleanupByPhase
<1>5. CASE Shutdown
  <2>1. pc' = "load" /\ PendingIn(file) = {}
        /\ host' = host /\ file' = file /\ abandoned' = abandoned
    BY <1>5 DEF Shutdown, FileInv, FileFollowsMemory, StartByPhase
  <2> QED BY <1>2, <2>1 DEF Tracked, FileFollowsMemory, StartByPhase, CleanupByPhase
<1>6. CASE OperatorCleanup
  <2>1. pc' = "load" /\ by' = "operator"
        /\ host' = host /\ file' = file /\ abandoned' = abandoned
    BY <1>6 DEF OperatorCleanup
  <2> QED BY <1>2, <2>1 DEF Tracked, FileFollowsMemory, StartByPhase, CleanupByPhase
<1>7. CASE Load
  <2>1. pc' = "undo" /\ undo' = file /\ by' = by /\ pc = "load"
        /\ host' = host /\ file' = file /\ abandoned' = abandoned
    BY <1>7 DEF Load
  <2>2. CleanupByPhase'
    BY <1>1, <1>2, <2>1 DEF FileInv, CleanupByPhase
  <2> QED BY <1>2, <2>1, <2>2 DEF Tracked, FileFollowsMemory, StartByPhase
<1>8. CASE UndoEntry
  <2>1. /\ pc = "undo" /\ pc' = "undo" /\ undo # <<>> /\ by' = by
        /\ file' = file /\ abandoned' = abandoned
        /\ undo' = SubSeq(undo, 1, Len(undo) - 1)
        /\ host' = IF Last(undo).state = "active" THEN host \ {Last(undo).resource} ELSE host
    BY <1>8 DEF UndoEntry
  <2>2. /\ undo' \in Seq(Entry) /\ Len(undo') = Len(undo) - 1
        /\ \A i \in 1 .. Len(undo') : undo'[i] = undo[i]
        /\ Recorded(undo) = Recorded(undo') \cup {Last(undo).resource}
        /\ Last(undo) \in Entry
    BY <1>1, <2>1, ShorterByOne
  <2>3. /\ Len(undo) <= Len(file)
        /\ \A i \in DOMAIN undo : undo[i] = file[i]
        /\ host \subseteq Recorded(undo) \cup PendingIn(file) \cup abandoned
        /\ by = "server" => PendingIn(file) = {}
    BY <2>1 DEF FileInv, CleanupByPhase
  <2>4. Len(undo) \in DOMAIN undo /\ Len(undo) \in DOMAIN file
        /\ DOMAIN undo' = 1 .. Len(undo')
        /\ \A i \in DOMAIN undo' : i \in DOMAIN undo
        /\ Len(undo') <= Len(file)
    BY <1>1, <2>1, <2>2, <2>3
  <2>5. Last(undo).state = "pending" => Last(undo).resource \in PendingIn(file)
    BY <2>3, <2>4 DEF PendingIn, Last
  <2>6. host' \subseteq Recorded(undo') \cup PendingIn(file) \cup abandoned
    <3>1. CASE Last(undo).state = "active"
      BY <2>1, <2>2, <2>3, <3>1
    <3>2. CASE Last(undo).state = "pending"
      BY <2>1, <2>2, <2>3, <2>5, <3>2
    <3> QED BY <2>2, <3>1, <3>2 DEF Entry
  <2>7. CleanupByPhase'
    BY <2>1, <2>2, <2>3, <2>4, <2>6 DEF CleanupByPhase
  <2>8. Tracked'
    BY <1>2, <2>1 DEF Tracked
  <2> QED BY <2>1, <2>7, <2>8 DEF FileFollowsMemory, StartByPhase
<1>9. CASE WorkerExits
  BY <1>2, <1>9 DEF WorkerExits, Tracked, FileFollowsMemory, StartByPhase, CleanupByPhase
<1> QED BY <1>3, <1>4, <1>5, <1>6, <1>7, <1>8, <1>9

(* A start, a failure of any step, a crash, a reboot or a cleanup keeps    *)
(* the inductive invariant.                                                *)
THEOREM FileInvCorrect == Spec => []FileInv
<1>1. Init => FileInv
  <2> SUFFICES ASSUME Init PROVE FileInv
    OBVIOUS
  <2>1. pc = "stopped" /\ host = {}
    BY DEF Init
  <2>2. FileFollowsMemory /\ StartByPhase /\ CleanupByPhase /\ Tracked
    BY <2>1 DEF FileFollowsMemory, StartByPhase, CleanupByPhase, Tracked
  <2> QED BY <2>2, TypeInit DEF FileInv
<1>2. FileInv /\ [Next]_vars => FileInv'
  <2> SUFFICES ASSUME FileInv, [Next]_vars PROVE FileInv'
    OBVIOUS
  <2>1. TypeOK /\ StartByPhase
    BY DEF FileInv
  <2>2. CASE Next
    <3>1. TypeOK'
      BY <2>1, <2>2, StartType, CleanupType, EndType DEF Next, Progress, Failure
    <3>2. FileFollowsMemory' /\ StartByPhase' /\ CleanupByPhase' /\ Tracked'
      BY <2>2, EndSafe, RemoveFileSafe, PrepareSafe, ApplySafe, CleanupSafe
      DEF Next, Progress, Failure
    <3> QED BY <3>1, <3>2 DEF FileInv
  <2>3. CASE UNCHANGED vars
    BY <2>3 DEF vars, FileInv, TypeOK, FileFollowsMemory, StartByPhase, CleanupByPhase,
                Tracked, Current, Promoted
  <2> QED BY <2>2, <2>3
<1> QED BY <1>1, <1>2, PTL DEF Spec

(* Whatever is on the host is in the journal's file, or an operator's      *)
(* cleanup passed over its pending entry: for any plan, any number of      *)
(* failures, crashes and reboots, between any two steps.                   *)
THEOREM TrackedHolds == Spec => []Tracked
<1>1. FileInv => Tracked
  BY DEF FileInv
<1> QED BY <1>1, FileInvCorrect, PTL

(* A start never works on the entries of an earlier one, and its file      *)
(* never lags behind by more than the entry of the step that failed.       *)
THEOREM FileFollowsMemoryHolds == Spec => []FileFollowsMemory
<1>1. FileInv => FileFollowsMemory
  BY DEF FileInv
<1> QED BY <1>1, FileInvCorrect, PTL

(* Only the operator's cleanup removes the record of a change whose        *)
(* outcome is unknown.                                                     *)
THEOREM EvidenceIsKept == Spec => EvidenceKeptByServer
<1>1. FileInv /\ [Next]_vars => [by = "server" => abandoned' \subseteq abandoned]_vars
  <2> SUFFICES ASSUME FileInv, Next, by = "server" PROVE abandoned' \subseteq abandoned
    OBVIOUS
  <2>1. CASE RemoveFile
    <3>1. PendingIn(file) = {}
      BY <2>1 DEF RemoveFile, FileInv, CleanupByPhase
    <3> QED BY <2>1, <3>1 DEF RemoveFile
  <2>2. CASE ~RemoveFile
    BY <2>2 DEF Next, Progress, Failure, Start, SkipForwarding, Prepare, Apply, Promote,
      Checkpoint, Run, Rollback, KeepEvidence, CleanFailedStart, OperatorCleanup, Load,
      UndoEntry, RefuseForeign, PrepareFails, ApplyFails, PromoteFails, CheckpointFails,
      LoadFails, UndoFails, RemoveFails, Crash, Reboot, Shutdown, WorkerExits
  <2> QED BY <2>1, <2>2
<1> QED BY <1>1, FileInvCorrect, PTL DEF Spec, EvidenceKeptByServer

------------------------------------------------------------------------------
(* The order of the journal, and what of the TUN device and its routes can *)
(* be on the host.                                                         *)

(* What the operators on journals keep of the order and of the active      *)
(* entries.                                                                *)
LEMMA ActiveRecorded ==
  ASSUME NEW journal \in Seq(Entry)
  PROVE  /\ ActiveIn(journal) \subseteq Recorded(journal)
         /\ PendingIn(journal) = {} => ActiveIn(journal) = Recorded(journal)
<1>1. ActiveIn(journal) \subseteq Recorded(journal)
  BY DEF ActiveIn, Recorded
<1>2. ASSUME PendingIn(journal) = {} PROVE Recorded(journal) \subseteq ActiveIn(journal)
  <2>1. \A i \in DOMAIN journal : journal[i].state = "active"
    BY <1>2, PendingInEmpty
  <2> QED BY <2>1 DEF ActiveIn, Recorded
<1> QED BY <1>1, <1>2

LEMMA SameOrder ==
  ASSUME NEW journal \in Seq(Entry), NEW other \in Seq(Entry),
         Len(other) <= Len(journal),
         \A i \in 1 .. Len(other) : other[i].resource = journal[i].resource,
         RoutesLast(journal)
  PROVE  RoutesLast(other)
BY DEF RoutesLast

LEMMA PromotedOrder ==
  ASSUME NEW journal \in Seq(Entry), journal # <<>>
  PROVE  RoutesLast(journal) => RoutesLast(Promoted(journal))
<1> DEFINE done == Promoted(journal)
<1>1. /\ done \in Seq(Entry) /\ Len(done) = Len(journal)
      /\ \A i \in 1 .. Len(journal) - 1 : done[i] = journal[i]
  BY PromotedKeeps
<1>2. Len(journal) \in 1 .. Len(journal)
  OBVIOUS
<1>3. done[Len(journal)].resource = journal[Len(journal)].resource
  BY <1>2 DEF Promoted, Active
<1> HIDE DEF done
<1>4. \A i \in 1 .. Len(done) : done[i].resource = journal[i].resource
  <2> TAKE i \in 1 .. Len(done)
  <2>1. CASE i = Len(journal)
    BY <1>3, <2>1
  <2>2. CASE i \in 1 .. Len(journal) - 1
    BY <1>1, <2>2
  <2> QED BY <1>1, <2>1, <2>2
<1> QED BY <1>1, <1>4, SameOrder DEF done

(* The next resource of the plan goes behind those before it.              *)
LEMMA AppendOrder ==
  ASSUME NEW journal \in Seq(Entry), RoutesLast(journal),
         at \in 1 .. Len(Plan),
         Recorded(journal) \subseteq Steps(at - 1)
  PROVE  RoutesLast(Append(journal, Pending(Current)))
<1> DEFINE longer == Append(journal, Pending(Current))
<1>1. Plan \in Seq(Resources) /\ Current \in Resources
  BY PlanAssumption, PrefixOfPlan
<1>2. /\ longer \in Seq(Entry) /\ Last(longer) = Pending(Current)
      /\ Len(longer) = Len(journal) + 1
      /\ \A i \in 1 .. Len(journal) : longer[i] = journal[i]
  BY <1>1, AppendPending
<1> HIDE DEF longer
<1>3. SUFFICES ASSUME NEW i \in 1 .. Len(longer), NEW j \in 1 .. Len(longer), i < j,
                      KindOf[longer[i].resource] = "route"
               PROVE  KindOf[longer[j].resource] # "tun"
  BY <1>2 DEF RoutesLast, longer
<1>4. i \in 1 .. Len(journal) /\ longer[i] = journal[i]
  BY <1>2, <1>3
<1>5. CASE j = Len(longer)
  <2>1. longer[j].resource = Plan[at]
    BY <1>2, <1>5 DEF Last, Pending, Current
  <2>2. journal[i].resource \in Recorded(journal)
    BY <1>4 DEF Recorded
  <2>3. PICK k \in 1 .. at - 1 : journal[i].resource = Plan[k]
    BY <2>2 DEF Steps
  <2>4. k \in DOMAIN Plan /\ at \in DOMAIN Plan /\ k < at
    BY <1>1, <2>3
  <2>5. KindOf[Plan[k]] = "route"
    BY <1>3, <1>4, <2>3
  <2> QED BY <2>1, <2>4, <2>5, PlanAssumption
<1>6. CASE j # Len(longer)
  <2>1. j \in 1 .. Len(journal) /\ longer[j] = journal[j]
    BY <1>2, <1>6
  <2> QED BY <1>3, <1>4, <2>1 DEF RoutesLast
<1> QED BY <1>5, <1>6

LEMMA ShorterActive ==
  ASSUME NEW journal \in Seq(Entry), journal # <<>>,
         NEW r \in ActiveIn(journal),
         Last(journal).state = "active" => r # Last(journal).resource
  PROVE  r \in ActiveIn(SubSeq(journal, 1, Len(journal) - 1))
<1> DEFINE shorter == SubSeq(journal, 1, Len(journal) - 1)
<1>1. /\ shorter \in Seq(Entry)
      /\ Len(shorter) = Len(journal) - 1
      /\ \A i \in 1 .. Len(shorter) : shorter[i] = journal[i]
  BY ShorterByOne
<1> HIDE DEF shorter
<1>2. PICK i \in 1 .. Len(journal) : journal[i].state = "active" /\ journal[i].resource = r
  BY DEF ActiveIn
<1>3. i # Len(journal)
  BY <1>2 DEF Last
<1>4. i \in 1 .. Len(shorter)
  BY <1>1, <1>2, <1>3
<1>5. i \in DOMAIN shorter /\ shorter[i] = journal[i]
  BY <1>1, <1>4
<1>6. r \in ActiveIn(shorter)
  BY <1>2, <1>5 DEF ActiveIn
<1> QED BY <1>6 DEF shorter

(* A process that ends leaves its file as it is, and a server takes its    *)
(* device and routes along unless its journal has nothing pending.         *)
LEMMA StoppedRoutes ==
  ASSUME Inv, pc' = "stopped", file' = file, host' \subseteq host,
         host' \cap Transient \subseteq ActiveIn(file)
  PROVE  PlanFollowed' /\ TransientByPhase'
<1>1. /\ PlanFollowed' = RoutesLast(file)
      /\ host' \cap Transient \subseteq Recorded(file)
  BY DEF Inv, PlanFollowed, TransientByPhase, RoutesLast
<1>2. PlanFollowed'
  BY <1>1 DEF Inv, PlanFollowed
<1>3. TransientByPhase'
  BY <1>1 DEF TransientByPhase, Transient, OfKind, Recorded, ActiveIn
<1> QED BY <1>2, <1>3

LEMMA CleanupActive ==
  ASSUME Inv, pc \in {"load", "undo"}
  PROVE  host \cap Transient \subseteq ActiveIn(file)
<1>1. CASE pc = "load"
  BY <1>1 DEF Inv, TransientByPhase
<1>2. CASE pc = "undo"
  <2>1. /\ undo \in Seq(Entry) /\ file \in Seq(Entry)
        /\ host \cap Transient \subseteq ActiveIn(undo)
        /\ Len(undo) <= Len(file)
        /\ \A i \in DOMAIN undo : undo[i] = file[i]
    BY <1>2 DEF Inv, FileInv, TypeOK, CleanupByPhase, TransientByPhase
  <2>2. ActiveIn(undo) \subseteq ActiveIn(file)
    <3>1. \A i \in DOMAIN undo : i \in DOMAIN file
      BY <2>1
    <3> QED BY <2>1, <3>1 DEF ActiveIn
  <2> QED BY <2>1, <2>2
<1> QED BY <1>1, <1>2

LEMMA EndRoutes ==
  ASSUME Inv,
         \/ KeepEvidence \/ LoadFails \/ RefuseForeign \/ UndoFails
         \/ RemoveFails \/ Crash \/ Reboot
  PROVE  PlanFollowed' /\ TransientByPhase'
<1>1. ASSUME by = "server", host' \subseteq host \ Transient
      PROVE  host' \subseteq host /\ host' \cap Transient \subseteq ActiveIn(file)
  BY <1>1
<1>2. ASSUME Exit, pc = "failed" \/ pc \in {"load", "undo"}
      PROVE  /\ pc' = "stopped" /\ host' \subseteq host
             /\ host' \cap Transient \subseteq ActiveIn(file)
  <2>1. /\ pc' = "stopped" /\ host' \subseteq host
        /\ by = "server" => host' = host \ Transient
    BY <1>2 DEF Exit
  <2>2. CASE pc = "failed"
    <3>1. by = "server"
      BY <2>2 DEF Inv, TransientByPhase
    <3> QED BY <1>1, <2>1, <3>1
  <2>3. CASE pc \in {"load", "undo"}
    BY <2>1, <2>3, CleanupActive
  <2> QED BY <1>2, <2>1, <2>2, <2>3
<1>3. CASE KeepEvidence
  BY <1>2, <1>3, StoppedRoutes DEF KeepEvidence
<1>4. CASE LoadFails
  BY <1>2, <1>4, StoppedRoutes DEF LoadFails
<1>5. CASE RefuseForeign
  BY <1>2, <1>5, StoppedRoutes DEF RefuseForeign
<1>6. CASE UndoFails
  BY <1>2, <1>6, StoppedRoutes DEF UndoFails
<1>7. CASE RemoveFails
  BY <1>2, <1>7, StoppedRoutes DEF RemoveFails
<1>8. CASE Crash
  <2>1. pc # "stopped" /\ pc' = "stopped" /\ file' = file /\ host' \subseteq host
    BY <1>8 DEF Crash
  <2>2. host' \cap Transient \subseteq ActiveIn(file)
    <3>1. CASE by = "operator"
      <4>1. pc \in {"load", "undo"}
        BY <2>1, <3>1 DEF Inv, TransientByPhase
      <4> QED BY <2>1, <4>1, CleanupActive
    <3>2. CASE by # "operator" /\ pc = "running"
      <4>1. file \in Seq(Entry) /\ PendingIn(file) = {}
        BY <3>2 DEF Inv, FileInv, TypeOK, FileFollowsMemory, StartByPhase
      <4>2. host \cap Transient \subseteq Recorded(file)
        BY DEF Inv, TransientByPhase
      <4> QED BY <2>1, <4>1, <4>2, ActiveRecorded
    <3>3. CASE by # "operator" /\ pc # "running"
      BY <1>8, <3>3 DEF Crash
    <3> QED BY <3>1, <3>2, <3>3
  <2> QED BY <2>1, <2>2, StoppedRoutes
<1>9. CASE Reboot
  <2>1. pc' = "stopped" /\ file' = file /\ host' = {}
    BY <1>9 DEF Reboot
  <2> QED BY <2>1, StoppedRoutes
<1> QED BY <1>3, <1>4, <1>5, <1>6, <1>7, <1>8, <1>9

(* A cleanup that removes the file has undone every entry in it that was   *)
(* active, and no device or route had any other.                           *)
LEMMA RemoveFileRoutes ==
  ASSUME Inv, RemoveFile
  PROVE  PlanFollowed' /\ TransientByPhase'
<1>1. ActiveIn(<<>>) = {} /\ RoutesLast(<<>>)
  BY DEF ActiveIn, RoutesLast
<1>2. /\ pc' = "stopped" /\ file' = <<>> /\ host' \subseteq host
      /\ host \cap Transient = {}
  BY <1>1 DEF RemoveFile, Exit, Inv, TransientByPhase
<1> QED BY <1>1, <1>2 DEF PlanFollowed, TransientByPhase, Transient, OfKind, RoutesLast

(* Startup.                                                                *)
LEMMA PrepareRoutes ==
  ASSUME Inv, Start \/ SkipForwarding \/ Prepare \/ PrepareFails \/ Run
  PROVE  PlanFollowed' /\ TransientByPhase'
<1>1. /\ memory \in Seq(Entry) /\ file \in Seq(Entry)
      /\ at \in 1 .. Len(Plan) + 1
      /\ Len(Plan) \in Nat /\ RoutesLast(file)
      /\ host \cap Transient \subseteq Recorded(file)
      /\ pc = "prepare" =>
           /\ by = "server" /\ file = memory
           /\ Recorded(memory) \subseteq Steps(at - 1)
  BY PlanAssumption
  DEF Inv, FileInv, TypeOK, FileFollowsMemory, PlanFollowed, TransientByPhase
<1>2. CASE Start
  <2>1. /\ pc' = "prepare" /\ by' = "server" /\ file' = file /\ host' = host
        /\ memory' = <<>> /\ at' = 1
    BY <1>2 DEF Start
  <2>2. Recorded(<<>>) = {}
    BY DEF Recorded
  <2> QED BY <1>1, <2>1, <2>2
      DEF PlanFollowed, TransientByPhase, RoutesLast, Recorded, Transient, OfKind
<1>3. CASE SkipForwarding
  <2>1. /\ pc = "prepare" /\ pc' \in {"prepare", "checkpoint"} /\ by' = by
        /\ memory' = memory /\ file' = file /\ host' = host
        /\ IF pc' = "prepare" THEN at' = at + 1 ELSE at' = at
    BY <1>3 DEF SkipForwarding, Preparing, StepDone
  <2>2. 1 .. at - 1 \subseteq 1 .. at /\ at + 1 - 1 = at
    BY <1>1
  <2>3. /\ Recorded(memory) \subseteq Steps(at) /\ Recorded(memory)' = Recorded(memory)
        /\ RoutesLast(file)'
    BY <1>1, <2>1, <2>2 DEF Recorded, RoutesLast, Steps
  <2>4. IF pc' = "prepare" THEN at' - 1 = at ELSE at' = at
    BY <1>1, <2>1
  <2>5. PlanFollowed'
    BY <2>1, <2>3, <2>4 DEF PlanFollowed
  <2> QED BY <1>1, <2>1, <2>5 DEF TransientByPhase, Recorded, Transient, OfKind
<1>4. CASE Prepare
  <2>1. /\ pc = "prepare" /\ at \in 1 .. Len(Plan) /\ pc' = "apply" /\ by' = by /\ at' = at
        /\ memory' = Append(memory, Pending(Current)) /\ file' = memory' /\ host' = host
    BY <1>1, <1>4 DEF Prepare, Preparing
  <2>2. Recorded(memory') = Recorded(memory) \cup {Current}
    BY <1>1, <2>1, PrefixOfPlan, AppendPending
  <2>3. Recorded(memory') \subseteq Steps(at)
    BY <1>1, <2>1, <2>2 DEF Current, Steps
  <2>4. RoutesLast(file')
    BY <1>1, <2>1, AppendOrder
  <2>5. PlanFollowed'
    BY <2>1, <2>3, <2>4 DEF PlanFollowed
  <2> QED BY <1>1, <2>1, <2>2, <2>5 DEF TransientByPhase, Transient, OfKind
<1>5. CASE PrepareFails
  <2>1. /\ pc = "prepare" /\ at \in 1 .. Len(Plan) /\ pc' \in {"rollback", "failed"} /\ by' = by
        /\ file' = file \/ file' = Append(memory, Pending(Current))
        /\ host' = host
    BY <1>1, <1>5 DEF PrepareFails, Preparing, FailurePhase
  <2>2. Recorded(file) \subseteq Recorded(file')
    BY <1>1, <2>1, PrefixOfPlan, AppendPending
  <2>3. RoutesLast(file')
    BY <1>1, <2>1, AppendOrder
  <2>4. PlanFollowed'
    BY <2>1, <2>3 DEF PlanFollowed
  <2> QED BY <1>1, <2>1, <2>2, <2>4 DEF TransientByPhase, Transient, OfKind
<1>6. CASE Run
  BY <1>1, <1>6 DEF Run, PlanFollowed, TransientByPhase, RoutesLast, Recorded, Transient, OfKind
<1> QED BY <1>2, <1>3, <1>4, <1>5, <1>6

LEMMA ApplyRoutes ==
  ASSUME Inv,
         \/ Apply \/ ApplyFails \/ Promote \/ PromoteFails
         \/ Checkpoint \/ CheckpointFails
  PROVE  PlanFollowed' /\ TransientByPhase'
<1>1. /\ memory \in Seq(Entry) /\ file = memory
      /\ at \in 1 .. Len(Plan)
      /\ RoutesLast(file) /\ by = "server"
      /\ host \cap Transient \subseteq Recorded(file)
      /\ Recorded(memory) \subseteq Steps(at)
  BY PlanAssumption
  DEF Inv, FileInv, TypeOK, FileFollowsMemory, StartByPhase, PlanFollowed, TransientByPhase,
      Apply, ApplyFails, Promote, PromoteFails, Checkpoint, CheckpointFails
<1>2. ASSUME pc \in {"apply", "promote"} PROVE memory # <<>> /\ Current \in Recorded(file)
  <2>1. memory # <<>> /\ Last(memory) = Pending(Current)
    BY <1>2 DEF Inv, FileInv, StartByPhase
  <2>2. Len(memory) \in DOMAIN memory /\ memory[Len(memory)].resource = Current
    BY <1>1, <2>1 DEF Last, Pending
  <2> QED BY <1>1, <2>1, <2>2 DEF Recorded
<1>3. ASSUME pc = "promote"
      PROVE  /\ Recorded(Promoted(memory)) = Recorded(memory)
             /\ RoutesLast(Promoted(memory))
  BY <1>1, <1>2, <1>3, PromotedKeeps, PromotedOrder
<1>4. CASE Apply \/ ApplyFails
  <2>1. /\ pc = "apply" /\ pc' \in {"promote", "rollback", "failed"}
        /\ by' = by /\ at' = at
        /\ memory' = memory /\ file' = file
        /\ host' \subseteq host \cup {Current}
    BY <1>4 DEF Apply, ApplyFails, FailurePhase
  <2>2. PlanFollowed'
    BY <1>1, <2>1 DEF PlanFollowed, RoutesLast, Recorded, Steps
  <2> QED BY <1>1, <1>2, <2>1, <2>2 DEF TransientByPhase, Transient, OfKind, Recorded
<1>5. CASE Promote
  <2>1. /\ pc = "promote" /\ pc' \in {"prepare", "checkpoint"} /\ by' = by
        /\ memory' = Promoted(memory) /\ file' = memory' /\ host' = host
        /\ IF pc' = "prepare" THEN at' = at + 1 ELSE at' = at
    BY <1>5 DEF Promote, StepDone
  <2>2. at + 1 - 1 = at
    BY <1>1
  <2>3. Recorded(memory') = Recorded(memory) /\ RoutesLast(file')
    BY <1>3, <2>1
  <2>4. PlanFollowed'
    BY <1>1, <2>1, <2>2, <2>3 DEF PlanFollowed
  <2> QED BY <1>1, <2>1, <2>3, <2>4 DEF TransientByPhase, Transient, OfKind
<1>6. CASE PromoteFails
  <2>1. /\ pc = "promote" /\ pc' \in {"rollback", "failed"} /\ by' = by
        /\ file' = file \/ file' = Promoted(memory)
        /\ host' \subseteq host
    BY <1>6 DEF PromoteFails, FailurePhase
  <2>2. Recorded(file') = Recorded(file) /\ RoutesLast(file')
    BY <1>1, <1>3, <2>1
  <2>3. PlanFollowed'
    BY <2>1, <2>2 DEF PlanFollowed
  <2> QED BY <1>1, <2>1, <2>2, <2>3 DEF TransientByPhase, Transient, OfKind
<1>7. CASE Checkpoint
  <2>1. /\ pc' = "prepare" /\ by' = by /\ at' = at + 1
        /\ memory' = memory /\ file' = file /\ host' = host
    BY <1>1, <1>7 DEF Checkpoint
  <2>2. at' - 1 = at
    BY <1>1, <2>1
  <2>3. Recorded(memory)' = Recorded(memory) /\ RoutesLast(file)'
    BY <1>1, <2>1 DEF Recorded, RoutesLast
  <2>4. PlanFollowed'
    BY <1>1, <2>1, <2>2, <2>3 DEF PlanFollowed
  <2> QED BY <1>1, <2>1, <2>4 DEF TransientByPhase, Transient, OfKind, Recorded
<1>8. CASE CheckpointFails
  <2>1. pc' = "failed" /\ by' = by /\ file' = file /\ host' \subseteq host
    BY <1>1, <1>8 DEF CheckpointFails
  <2> QED BY <1>1, <2>1 DEF PlanFollowed, RoutesLast, TransientByPhase, Transient, OfKind, Recorded
<1> QED BY <1>4, <1>5, <1>6, <1>7, <1>8

(* Cleanups up to the removal of the file.                                 *)
LEMMA CleanupRoutes ==
  ASSUME Inv,
         \/ Rollback \/ CleanFailedStart \/ Shutdown \/ OperatorCleanup
         \/ Load \/ UndoEntry \/ WorkerExits
  PROVE  PlanFollowed' /\ TransientByPhase'
<1>1. /\ memory \in Seq(Entry) /\ file \in Seq(Entry) /\ undo \in Seq(Entry)
      /\ RoutesLast(file) /\ file' = file
      /\ host \cap Transient \subseteq Recorded(file)
      /\ pc \notin {"stopped", "load", "undo"} => by = "server"
  BY DEF Inv, FileInv, TypeOK, PlanFollowed, TransientByPhase, Rollback, CleanFailedStart,
         Shutdown, OperatorCleanup, Load, UndoEntry, WorkerExits
<1>2. CASE Rollback
  <2>1. pc = "rollback" /\ pc' = "failed" /\ by' = by /\ host' \subseteq host
    BY <1>2 DEF Rollback
  <2> QED BY <1>1, <2>1 DEF PlanFollowed, RoutesLast, TransientByPhase, Transient, OfKind, Recorded
<1>3. CASE CleanFailedStart \/ Shutdown
  <2>1. pc' = "load" /\ host' = host /\ PendingIn(file) = {}
    BY <1>3 DEF CleanFailedStart, Shutdown, Inv, FileInv, FileFollowsMemory, StartByPhase
  <2>2. host \cap Transient \subseteq ActiveIn(file)
    BY <1>1, <2>1, ActiveRecorded
  <2> QED BY <1>1, <2>1, <2>2
      DEF PlanFollowed, RoutesLast, TransientByPhase, Transient, OfKind, Recorded, ActiveIn
<1>4. CASE OperatorCleanup
  <2>1. pc = "stopped" /\ pc' = "load" /\ host' = host
    BY <1>4 DEF OperatorCleanup
  <2>2. host \cap Transient \subseteq ActiveIn(file)
    BY <2>1 DEF Inv, TransientByPhase
  <2> QED BY <1>1, <2>1, <2>2
      DEF PlanFollowed, RoutesLast, TransientByPhase, Transient, OfKind, Recorded, ActiveIn
<1>5. CASE Load
  <2>1. pc = "load" /\ pc' = "undo" /\ undo' = file /\ host' = host
    BY <1>5 DEF Load
  <2>2. host \cap Transient \subseteq ActiveIn(file)
    BY <2>1, CleanupActive
  <2> QED BY <1>1, <2>1, <2>2
      DEF PlanFollowed, RoutesLast, TransientByPhase, Transient, OfKind, Recorded, ActiveIn
<1>6. CASE UndoEntry
  <2>1. /\ pc = "undo" /\ pc' = "undo" /\ undo # <<>>
        /\ undo' = SubSeq(undo, 1, Len(undo) - 1)
        /\ host' = IF Last(undo).state = "active" THEN host \ {Last(undo).resource} ELSE host
    BY <1>6 DEF UndoEntry
  <2>2. host \cap Transient \subseteq ActiveIn(undo)
    BY <2>1 DEF Inv, TransientByPhase
  <2>3. ASSUME NEW r \in host' \cap Transient PROVE r \in ActiveIn(undo')
    <3>1. r \in ActiveIn(undo) /\ (Last(undo).state = "active" => r # Last(undo).resource)
      BY <2>1, <2>2, <2>3
    <3> QED BY <1>1, <2>1, <3>1, ShorterActive
  <2>4. host' \cap Transient \subseteq Recorded(file)
    BY <1>1, <2>1
  <2> QED BY <1>1, <2>1, <2>3, <2>4
      DEF PlanFollowed, RoutesLast, TransientByPhase, Transient, OfKind, Recorded
<1>7. CASE WorkerExits
  <2>1. pc = "stopped" /\ pc' = "stopped" /\ host' \subseteq host \ Transient
    BY <1>7 DEF WorkerExits
  <2> QED BY <1>1, <2>1 DEF PlanFollowed, RoutesLast, TransientByPhase, Transient, OfKind
<1> QED BY <1>2, <1>3, <1>4, <1>5, <1>6, <1>7

(* The order of the journal and the place of the device and its routes are *)
(* kept with the rest, by every step of a start, a cleanup or a failure.   *)
THEOREM InvCorrect == Spec => []Inv
<1>1. Init => PlanFollowed /\ TransientByPhase
  <2> SUFFICES ASSUME Init PROVE PlanFollowed /\ TransientByPhase
    OBVIOUS
  <2>1. pc = "stopped" /\ host = {} /\ file = <<>>
    BY DEF Init
  <2> QED BY <2>1 DEF PlanFollowed, TransientByPhase, RoutesLast
<1>2. PlanFollowed /\ TransientByPhase /\ FileInv /\ [Next]_vars => (PlanFollowed /\ TransientByPhase)'
  <2> SUFFICES ASSUME Inv, [Next]_vars PROVE PlanFollowed' /\ TransientByPhase'
    BY DEF Inv
  <2>1. CASE Next
    BY <2>1, EndRoutes, RemoveFileRoutes, PrepareRoutes, ApplyRoutes, CleanupRoutes
    DEF Next, Progress, Failure
  <2>2. CASE UNCHANGED vars
    BY <2>2 DEF vars, Inv, PlanFollowed, TransientByPhase, RoutesLast, Recorded, ActiveIn,
                Transient, OfKind
  <2> QED BY <2>1, <2>2
<1>3. Spec => [](PlanFollowed /\ TransientByPhase)
  BY <1>1, <1>2, FileInvCorrect, PTL DEF Spec
<1>4. FileInv /\ PlanFollowed /\ TransientByPhase => Inv
  BY DEF Inv
<1> QED BY <1>3, <1>4, FileInvCorrect, PTL

(* A cleanup never takes the TUN device while a route over it is left,     *)
(* whatever crashed, failed or was pending before it: for any plan that    *)
(* has the device before its routes.                                       *)
THEOREM RoutesGoFirst == Spec => RoutesGoBeforeTun
<1>1. Inv /\ [Next]_vars =>
        [\A r \in OfKind("tun") :
           pc = "undo" /\ pc' = "undo" /\ r \in host /\ r \notin host'
             => host \cap OfKind("route") = {}]_vars
  <2> SUFFICES ASSUME Inv, Next, NEW r \in OfKind("tun"),
                      pc = "undo", pc' = "undo", r \in host, r \notin host',
                      NEW route \in OfKind("route"), route \in host
               PROVE  FALSE
    OBVIOUS
  <2>1. UndoEntry
    BY DEF Next, Progress, Failure, Start, SkipForwarding, Prepare, Apply, Promote,
      Checkpoint, Run, Rollback, KeepEvidence, CleanFailedStart, OperatorCleanup, Load,
      RefuseForeign, RemoveFile, PrepareFails, ApplyFails, PromoteFails, CheckpointFails,
      LoadFails, UndoFails, RemoveFails, Crash, Reboot, Shutdown, WorkerExits, Exit
  <2>2. /\ undo \in Seq(Entry) /\ file \in Seq(Entry) /\ undo # <<>>
        /\ Len(undo) <= Len(file)
        /\ \A i \in DOMAIN undo : undo[i] = file[i]
        /\ RoutesLast(file)
        /\ host \cap Transient \subseteq ActiveIn(undo)
    BY <2>1 DEF UndoEntry, Inv, FileInv, TypeOK, CleanupByPhase, PlanFollowed, TransientByPhase
  <2>3. Last(undo).resource = r
    BY <2>1 DEF UndoEntry
  <2>4. PICK i \in 1 .. Len(undo) : undo[i].resource = route
    BY <2>2 DEF ActiveIn, Transient
  <2>5. KindOf[r] = "tun" /\ KindOf[route] = "route"
    BY DEF OfKind
  <2>6. i < Len(undo)
    BY <2>2, <2>3, <2>4, <2>5 DEF Last
  <2>7. /\ i \in DOMAIN file /\ Len(undo) \in DOMAIN file
        /\ file[i].resource = route /\ file[Len(undo)].resource = r
    BY <2>2, <2>3, <2>4, <2>6 DEF Last
  <2> QED BY <2>2, <2>5, <2>6, <2>7 DEF RoutesLast
<1> QED BY <1>1, InvCorrect, PTL DEF Spec, RoutesGoBeforeTun

------------------------------------------------------------------------------
(* How far it is to a server that runs: a start that goes through its plan, *)
(* before it a cleanup that goes through the file, and before that the end *)
(* of a start that failed.                                                 *)
Starting ==
  4 * (Len(Plan) + 1 - at)
    + IF pc = "prepare" THEN 4 ELSE IF pc = "apply" THEN 3 ELSE IF pc = "promote" THEN 2 ELSE 1
Cleaning ==
  IF pc = "undo" THEN Len(undo) + 1
  ELSE Len(file)
         + IF pc = "load" THEN 2 ELSE IF pc = "stopped" THEN 3 ELSE IF pc = "failed" THEN 4 ELSE 5
WholeStart == 4 * Len(Plan) + 5
ToDo ==
  IF pc = "running" THEN 0
  ELSE IF pc \in {"prepare", "apply", "promote", "checkpoint"} THEN Starting
  ELSE IF pc = "stopped" /\ file = <<>> THEN WholeStart
  ELSE WholeStart + Cleaning

(* What the distances are made of.                                        *)
LEMMA ToDoTypes ==
  ASSUME TypeOK
  PROVE  /\ at \in Nat /\ Len(Plan) \in Nat /\ 1 <= at /\ at <= Len(Plan) + 1
         /\ Len(file) \in Nat /\ Len(undo) \in Nat
         /\ file # <<>> <=> Len(file) > 0
         /\ undo # <<>> <=> Len(undo) > 0
<1>1. Len(Plan) \in Nat
  BY PlanAssumption
<1>2. at \in 1 .. Len(Plan) + 1
  BY DEF TypeOK
<1> QED BY <1>1, <1>2, EmptySeq, LenProperties DEF TypeOK

LEMMA ToDoNatural ==
  ASSUME TypeOK
  PROVE  ToDo \in Nat
<1>1. Starting \in Nat /\ Cleaning \in Nat /\ WholeStart \in Nat
  BY ToDoTypes DEF Starting, Cleaning, WholeStart
<1> QED BY <1>1 DEF ToDo

(* The steps of a start.                                                   *)
LEMMA StartingLess ==
  ASSUME TypeOK, StartByPhase,
         Start \/ SkipForwarding \/ Prepare \/ Apply \/ Promote \/ Checkpoint \/ Run
  PROVE  ToDo' < ToDo
<1> USE ToDoTypes DEF ToDo, Starting, WholeStart
<1>1. CASE Start
  BY <1>1 DEF Start
<1>2. ASSUME pc \in {"prepare", "promote"}, at <= Len(Plan), StepDone
      PROVE  ToDo' < ToDo
  <2>1. \/ pc' = "checkpoint" /\ at' = at
        \/ pc' = "prepare" /\ at' = at + 1
    BY <1>2 DEF StepDone
  <2>2. pc' = "checkpoint" /\ at' = at => ToDo' < ToDo
    BY <1>2
  <2>3. pc' = "prepare" /\ at' = at + 1 => ToDo' < ToDo
    BY <1>2
  <2> QED BY <2>1, <2>2, <2>3
<1>3. CASE SkipForwarding
  BY <1>2, <1>3 DEF SkipForwarding, Preparing
<1>4. CASE Prepare
  BY <1>4 DEF Prepare, Preparing
<1>5. CASE Apply
  BY <1>5 DEF Apply
<1>6. CASE Promote
  BY <1>2, <1>6 DEF Promote, StartByPhase
<1>7. CASE Checkpoint
  BY <1>7 DEF Checkpoint, StartByPhase
<1>8. CASE Run
  BY <1>8 DEF Run
<1> QED BY <1>1, <1>3, <1>4, <1>5, <1>6, <1>7, <1>8

(* A cleanup that refuses a link of another owner is blocked.              *)
LEMMA ForeignBlocks ==
  ASSUME TypeOK, CleanupByPhase, RefuseForeign
  PROVE  Blocked
<1> DEFINE k == Len(undo)
<1>1. pc = "undo" /\ undo # <<>> /\ Foreign(undo[k])
  BY DEF RefuseForeign, Last
<1>2. k \in Nat /\ k > 0 /\ k \in DOMAIN undo
  BY <1>1, ToDoTypes, LenProperties DEF TypeOK
<1>3. undo[k] = file[k] /\ k \in DOMAIN file
  BY <1>1, <1>2, ToDoTypes, LenProperties DEF CleanupByPhase, TypeOK
<1>4. file[k] \in Entry
  BY <1>3 DEF TypeOK
<1>5. /\ renumbered /\ file[k].state = "active"
      /\ KindOf[file[k].resource] = "route" /\ file[k].resource \in Resources
  BY <1>1, <1>3, <1>4 DEF Foreign, Entry
<1>6. file[k].resource \in ActiveIn(file) \cap OfKind("route")
  BY <1>3, <1>5 DEF ActiveIn, OfKind
<1> QED BY <1>5, <1>6 DEF Blocked

(* The steps of a cleanup, and of the end of a start that failed.          *)
LEMMA CleaningLess ==
  ASSUME TypeOK,
         Rollback \/ KeepEvidence \/ CleanFailedStart \/ OperatorCleanup \/ Load \/ UndoEntry
           \/ RemoveFile
  PROVE  ToDo' < ToDo
<1> USE ToDoTypes DEF ToDo, Cleaning, WholeStart
<1>1. CASE Rollback
  BY <1>1 DEF Rollback
<1>2. CASE KeepEvidence
  BY <1>2 DEF KeepEvidence, Exit
<1>3. CASE CleanFailedStart
  BY <1>3 DEF CleanFailedStart
<1>4. CASE OperatorCleanup
  BY <1>4 DEF OperatorCleanup
<1>5. CASE Load
  BY <1>5 DEF Load
<1>6. CASE UndoEntry
  <2>1. Len(undo') = Len(undo) - 1
    BY <1>6, ShorterByOne DEF UndoEntry, TypeOK
  <2>2. pc = "undo" /\ pc' = "undo"
    BY <1>6 DEF UndoEntry
  <2> QED BY <2>1, <2>2
<1>7. CASE RemoveFile
  BY <1>7 DEF RemoveFile, Exit
<1> QED BY <1>1, <1>2, <1>3, <1>4, <1>5, <1>6, <1>7

(* From wherever a crash or a failure left the journal, each step that does *)
(* not fail brings a running server nearer, through cleanup and start: they *)
(* never undo each other's work, but for a cleanup that is refused a route *)
(* over another owner's link.  With the bound on failures this is the      *)
(* argument of Recovers, but for the steps being taken (resources.rs       *)
(* prepare, cleanup_failed_start; journal.rs cleanup).                     *)
THEOREM RecoveryComesNearer ==
  Spec => /\ [](ToDo \in Nat)
          /\ [][Progress => Blocked \/ ToDo' < ToDo]_vars
<1>1. FileInv /\ [Next]_vars => [Progress => Blocked \/ ToDo' < ToDo]_vars
  BY StartingLess, ForeignBlocks, CleaningLess DEF FileInv, Progress
<1>2. FileInv => ToDo \in Nat
  BY ToDoNatural DEF FileInv
<1> QED BY <1>1, <1>2, FileInvCorrect, PTL DEF Spec
==============================================================================
