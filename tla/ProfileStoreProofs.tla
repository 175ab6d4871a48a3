------------------------- MODULE ProfileStoreProofs -------------------------
(***************************************************************************)
(* The Profile store implements the register of CheckpointRegister, for    *)
(* all payloads and any number of faults and power failures.               *)
(*                                                                         *)
(* The register speaks of what loads would find on every disk a power      *)
(* failure may leave.  The invariant below says what those disks have in   *)
(* common: StoreInv relates the entries as they are seen to the entries as *)
(* they are durable, step by step through commitSnapshot.                  *)
(***************************************************************************)
EXTENDS ProfileStore, TLAPS

-----------------------------------------------------------------------------
(* The invariant.                                                          *)

SaveSteps == {"checkpoints", "write", "rename", "syncCheckpoints", "pointer",
              "syncProfile", "clean"}
Published == {"syncProfile", "clean"}
Unpublished == Saving /\ op.at \notin Published

Pointers == {seen.ptr, durable.ptr}

\* Payloads come in order.
OrderInv == \A u \in used, w \in Versions \ used : u < w

\* Pointers name payloads the store was handed, and directories that were
\* removed have been there.
PointerInv ==
  /\ Pointers \subseteq used \cup {None}
  /\ \A d \in former : d.dir /\ d.ptr \in used \cup {None}

\* A Profile that is gone has left nothing but `former`.
GoneInv == ~seen.dir => seen = Empty /\ durable = Empty /\ promised = None

\* What commitSnapshot has written and synchronised when it is at a step.
SaveInv == Saving =>
  /\ op.at \in SaveSteps /\ seen.dir
  /\ version \in used /\ \A u \in used : u <= version
  /\ op.at # "checkpoints" => seen.cps
  /\ op.at \notin {"checkpoints", "write"} => version \in intact
  /\ op.at \notin {"checkpoints", "write", "rename"} => version \in seen.snaps
  /\ op.at \notin {"checkpoints", "write", "rename", "syncCheckpoints"}
       => version \in durable.snaps
  /\ op.at \in Published => seen.ptr = version
  /\ op.at = "clean" => durable.ptr = version /\ durable.cps
  /\ Unpublished
       => version \notin Pointers /\ \A d \in former : d.ptr # version
  /\ op.kind = "create"
       => promised = None /\ (Unpublished => Pointers = {None})
  /\ op.kind = "checkpoint" => seen.cps

\* Quarantine and Prune take a Profile apart that is promised no more.
TakenInv == op.kind \in {"quarantine", "prune"} => promised = None

\* Both pointers of a promised Profile name snapshots that are complete on
\* every disk a power failure may leave, and not older than the promise.
PromiseInv == promised # None =>
  /\ seen.dir /\ seen.cps /\ durable.cps
  /\ \A p \in Pointers : /\ p \in seen.snaps \cap durable.snaps \cap intact
                         /\ promised <= p

StoreInv ==
  /\ TypeOK
  /\ OrderInv /\ PointerInv /\ GoneInv /\ SaveInv /\ TakenInv /\ PromiseInv
-----------------------------------------------------------------------------
(* Disks.                                                                  *)

\* A disk without the Profile.
LEMMA EmptyDisk ==
  /\ Empty \in Disk
  /\ Empty.dir = FALSE /\ Empty.cps = FALSE
  /\ Empty.ptr = None /\ Empty.snaps = {}
BY DEF Disk, Empty

\* What a power failure leaves has the entries as they were seen or durable.
LEMMA MixedDisk ==
  TypeOK => \A d \in Mixed :
    /\ d \in Disk
    /\ d.dir \in {seen.dir, durable.dir}
    /\ d.cps \in {seen.cps, durable.cps}
    /\ d.ptr \in Pointers
    /\ seen.snaps \cap durable.snaps \subseteq d.snaps
BY DEF Disk, Mixed, TypeOK, Pointers
-----------------------------------------------------------------------------
(* The invariant is inductive, conjunct by conjunct.                       *)

\* The disks keep their type.
LEMMA DiskStep ==
  StoreInv /\ [Next]_vars
    => seen' \in Disk /\ durable' \in Disk /\ former' \subseteq Disk
<1> SUFFICES ASSUME StoreInv, [Next]_vars
             PROVE  /\ seen' \in Disk /\ durable' \in Disk
                    /\ former' \subseteq Disk
  OBVIOUS
<1> USE StoreAssumption
<1>1. /\ seen \in Disk /\ durable \in Disk /\ former \subseteq Disk
      /\ Empty \in Disk /\ Kept \subseteq Disk
  BY EmptyDisk, MixedDisk DEF StoreInv, TypeOK, Kept
<1>2. CASE Leave
  BY <1>1, <1>2 DEF Leave
<1>3. CASE NewStore \/ CloseStore \/ Checkpoint \/ Load \/ WritePending
          \/ QuarantineInvalidState \/ QuarantineSync \/ QuarantineReport
          \/ QuarantineFails \/ Prune \/ PruneSync \/ PruneFails \/ GrowOld
          \/ Damage \/ ProcessEnds
  BY <1>1, <1>3 DEF Stop, OpenThen, Quarantine, CommitStep, disk, NewStore, CloseStore,
      Checkpoint, Load, WritePending, QuarantineInvalidState, QuarantineSync,
      QuarantineReport, QuarantineFails, Prune, PruneSync, PruneFails,
      GrowOld, Damage, ProcessEnds
<1>4. CASE Create
  BY <1>1, <1>4 DEF Create, Disk
<1>5. CASE MakeCheckpoints
  BY <1>1, <1>5 DEF MakeCheckpoints, CommitStep, Disk
<1>6. CASE RenamePending
  BY <1>1, <1>6
     DEF RenamePending, CommitStep, Disk, TypeOK, StoreInv, SaveInv, Saving
<1>7. CASE SyncCheckpoints
  BY <1>1, <1>7 DEF SyncCheckpoints, CommitStep, Disk
<1>8. CASE PublishPointer
  BY <1>1, <1>8 DEF PublishPointer, CommitStep, Disk, TypeOK, StoreInv
<1>9. CASE SyncProfile
  BY <1>1, <1>9 DEF SyncProfile, CommitStep, Disk
<1>10. CASE CleanAndReturn
  BY <1>1, <1>10 DEF CleanAndReturn, Disk
<1>11. CASE CommitFails
  BY <1>1, <1>2, <1>11 DEF CommitFails, Disk
<1>12. CASE QuarantineMove
  BY <1>1, <1>2, <1>12 DEF QuarantineMove
<1>13. CASE PruneEntry
  BY <1>1, <1>13 DEF PruneEntry, Disk
<1>14. CASE PruneDirectory
  BY <1>1, <1>2, <1>14 DEF PruneDirectory
<1>15. CASE SyncProfiles
  BY <1>1, <1>15 DEF SyncProfiles, Disk
<1>16. CASE PowerFails
  BY <1>1, <1>16 DEF PowerFails, Undone
<1>17. CASE UNCHANGED vars
  BY <1>1, <1>17 DEF vars, disk
<1> QED BY <1>3, <1>4, <1>5, <1>6, <1>7, <1>8, <1>9, <1>10, <1>11, <1>12,
  <1>13, <1>14, <1>15, <1>16, <1>17
  DEF Next

\* The directories by DiskStep, the rest variable by variable.
LEMMA TypeStep == StoreInv /\ [Next]_vars => TypeOK'
<1> SUFFICES ASSUME StoreInv, [Next]_vars
             PROVE  TypeOK'
  OBVIOUS
<1> USE StoreAssumption
<1>0. TypeOK
  BY DEF StoreInv
<1>1. {seen', durable'} \cup former' \subseteq Disk
  BY DiskStep
<1>2. op' \in [kind : Kinds, at : Steps] /\ result' \in Results
  <2>1. CASE NewStore \/ CloseStore \/ SyncProfiles \/ GrowOld \/ UNCHANGED vars
    BY <1>0, <2>1 DEF NewStore, CloseStore, SyncProfiles, GrowOld, vars, call, TypeOK
  <2>2. CASE Create \/ Checkpoint \/ Load
    BY <1>0, <2>2 DEF Create, Checkpoint, Load, OpenThen, Quarantine, Go, Return, Idle, Kinds,
       Steps, Results, TypeOK
  <2>3. CASE \/ MakeCheckpoints \/ WritePending \/ RenamePending
             \/ SyncCheckpoints \/ PublishPointer \/ SyncProfile
    BY <1>0, <2>3 DEF MakeCheckpoints, WritePending, RenamePending, SyncCheckpoints, PublishPointer,
       SyncProfile, CommitStep, Go, After, At, Steps, TypeOK
  <2>4. CASE \/ CleanAndReturn \/ CommitFails \/ QuarantineReport
             \/ QuarantineFails \/ PruneSync \/ PruneFails
    BY <1>0, <2>4 DEF CleanAndReturn, CommitFails, QuarantineReport, QuarantineFails, PruneSync,
       PruneFails, Return, Idle, Kinds, Steps, Results, TypeOK
  <2>5. CASE \/ QuarantineInvalidState \/ QuarantineMove \/ QuarantineSync
             \/ Prune \/ PruneEntry \/ PruneDirectory
    BY <1>0, <2>5 DEF QuarantineInvalidState, QuarantineMove, QuarantineSync, Quarantine, Prune,
       PruneEntry, PruneDirectory, Go, call, Kinds, Steps, TypeOK
  <2>6. CASE Damage \/ ProcessEnds \/ PowerFails
    BY <1>0, <2>6 DEF Damage, ProcessEnds, PowerFails, Stop, call, Idle, Kinds, Steps, Results,
       TypeOK
  <2> QED BY <2>1, <2>2, <2>3, <2>4, <2>5, <2>6 DEF Next
<1>3. /\ intact' \cup used' \subseteq Versions
      /\ {version', promised'} \subseteq Versions \cup {None}
  <2>1. CASE NewStore \/ CloseStore \/ SyncProfiles \/ GrowOld \/ UNCHANGED vars
    BY <1>0, <2>1 DEF NewStore, CloseStore, SyncProfiles, GrowOld, vars, disk, call, env, TypeOK
  <2>2. CASE Create \/ Checkpoint \/ Load
    BY <1>0, <2>2 DEF Create, Checkpoint, Load, OpenThen, Quarantine, Return, NextVersion, disk, env,
       TypeOK
  <2>3. CASE \/ MakeCheckpoints \/ WritePending \/ RenamePending
             \/ SyncCheckpoints \/ PublishPointer \/ SyncProfile
    BY <1>0, <2>3 DEF MakeCheckpoints, WritePending, RenamePending, SyncCheckpoints, PublishPointer,
       SyncProfile, CommitStep, StoreInv, SaveInv, Saving, At, TypeOK
  <2>4. CASE \/ CleanAndReturn \/ CommitFails \/ QuarantineReport
             \/ QuarantineFails \/ PruneSync \/ PruneFails
    BY <1>0, <2>4 DEF CleanAndReturn, CommitFails, QuarantineReport, QuarantineFails, PruneSync,
       PruneFails, Return, StoreInv, SaveInv, Saving, At, disk, env, TypeOK
  <2>5. CASE \/ QuarantineInvalidState \/ QuarantineMove \/ QuarantineSync
             \/ Prune \/ PruneEntry \/ PruneDirectory
    BY <1>0, <2>5 DEF QuarantineInvalidState, QuarantineMove, QuarantineSync, Quarantine, Prune,
       PruneEntry, PruneDirectory, call, disk, env, TypeOK
  <2>6. CASE Damage \/ ProcessEnds \/ PowerFails
    BY <1>0, <2>6 DEF Damage, ProcessEnds, PowerFails, Stop, call, TypeOK
  <2> QED BY <2>1, <2>2, <2>3, <2>4, <2>5, <2>6 DEF Next
<1>4. old' \in BOOLEAN /\ open' \in BOOLEAN
  <2>1. CASE NewStore \/ CloseStore \/ SyncProfiles \/ GrowOld \/ UNCHANGED vars
    BY <1>0, <2>1 DEF NewStore, CloseStore, SyncProfiles, GrowOld, vars, env, TypeOK
  <2>2. CASE Create \/ Checkpoint \/ Load
    BY <1>0, <2>2 DEF Create, Checkpoint, Load, env, TypeOK
  <2>3. CASE \/ MakeCheckpoints \/ WritePending \/ RenamePending
             \/ SyncCheckpoints \/ PublishPointer \/ SyncProfile
    BY <1>0, <2>3 DEF MakeCheckpoints, WritePending, RenamePending, SyncCheckpoints, PublishPointer,
       SyncProfile, CommitStep, TypeOK
  <2>4. CASE \/ CleanAndReturn \/ CommitFails \/ QuarantineReport
             \/ QuarantineFails \/ PruneSync \/ PruneFails
    BY <1>0, <2>4 DEF CleanAndReturn, CommitFails, QuarantineReport, QuarantineFails, PruneSync,
       PruneFails, env, TypeOK
  <2>5. CASE \/ QuarantineInvalidState \/ QuarantineMove \/ QuarantineSync
             \/ Prune \/ PruneEntry \/ PruneDirectory
    BY <1>0, <2>5 DEF QuarantineInvalidState, QuarantineMove, QuarantineSync, Prune, PruneEntry,
       PruneDirectory, env, TypeOK
  <2>6. CASE Damage \/ ProcessEnds \/ PowerFails
    BY <1>0, <2>6 DEF Damage, ProcessEnds, PowerFails, Stop, TypeOK
  <2> QED BY <2>1, <2>2, <2>3, <2>4, <2>5, <2>6 DEF Next
<1>5. faults' \in 0..MaxFaults /\ crashes' \in 0..MaxCrashes
  <2>1. CASE NewStore \/ CloseStore \/ SyncProfiles \/ GrowOld \/ UNCHANGED vars
    BY <1>0, <2>1 DEF NewStore, CloseStore, SyncProfiles, GrowOld, vars, env, TypeOK
  <2>2. CASE Create \/ Checkpoint \/ Load
    BY <1>0, <2>2 DEF Create, Checkpoint, Load, OpenThen, Fault, env, TypeOK
  <2>3. CASE \/ MakeCheckpoints \/ WritePending \/ RenamePending
             \/ SyncCheckpoints \/ PublishPointer \/ SyncProfile
    BY <1>0, <2>3 DEF MakeCheckpoints, WritePending, RenamePending, SyncCheckpoints, PublishPointer,
       SyncProfile, CommitStep, TypeOK
  <2>4. CASE \/ CleanAndReturn \/ CommitFails \/ QuarantineReport
             \/ QuarantineFails \/ PruneSync \/ PruneFails
    BY <1>0, <2>4 DEF CleanAndReturn, CommitFails, QuarantineReport, QuarantineFails, PruneSync,
       PruneFails, Fault, env, TypeOK
  <2>5. CASE \/ QuarantineInvalidState \/ QuarantineMove \/ QuarantineSync
             \/ Prune \/ PruneEntry \/ PruneDirectory
    BY <1>0, <2>5 DEF QuarantineInvalidState, QuarantineMove, QuarantineSync, Prune, PruneEntry,
       PruneDirectory, Fault, env, TypeOK
  <2>6. CASE Damage \/ ProcessEnds \/ PowerFails
    BY <1>0, <2>6 DEF Damage, ProcessEnds, PowerFails, Fault, Stop, TypeOK
  <2> QED BY <2>1, <2>2, <2>3, <2>4, <2>5, <2>6 DEF Next
<1> QED BY <1>1, <1>2, <1>3, <1>4, <1>5 DEF TypeOK

\* A payload is handed over when all smaller ones have been.
LEMMA OrderStep == StoreInv /\ [Next]_vars => OrderInv'
<1> SUFFICES ASSUME StoreInv, [Next]_vars
             PROVE  OrderInv'
  OBVIOUS
<1> USE StoreAssumption
<1>1. used' = used \/ \E v \in NextVersion : used' = used \cup {v}
  <2>1. CASE Create \/ Checkpoint
    BY <2>1 DEF Create, Checkpoint
  <2>2. CASE NewStore \/ CloseStore \/ Load \/ PruneEntry \/ SyncProfiles \/ GrowOld \/ Damage
    BY <2>2 DEF NewStore, CloseStore, Load, PruneEntry, SyncProfiles, GrowOld, Damage, call
  <2>3. CASE MakeCheckpoints \/ WritePending \/ RenamePending \/ SyncCheckpoints \/ PublishPointer \/ SyncProfile
    BY <2>3 DEF MakeCheckpoints, WritePending, RenamePending, SyncCheckpoints, PublishPointer,
                SyncProfile, CommitStep
  <2>4. CASE \/ CleanAndReturn \/ CommitFails \/ QuarantineInvalidState \/ QuarantineMove
             \/ QuarantineSync \/ QuarantineReport \/ QuarantineFails
             \/ Prune \/ PruneDirectory \/ PruneSync \/ PruneFails
    BY <2>4 DEF CleanAndReturn, CommitFails, QuarantineInvalidState, QuarantineMove, QuarantineSync,
                QuarantineReport, QuarantineFails, Prune, PruneDirectory, PruneSync, PruneFails
  <2>5. CASE ProcessEnds \/ PowerFails \/ UNCHANGED vars
    BY <2>5 DEF ProcessEnds, PowerFails, Stop, vars, call
  <2> QED BY <2>1, <2>2, <2>3, <2>4, <2>5 DEF Next
<1>2. OrderInv /\ used \subseteq Versions /\ Versions \subseteq Nat
  BY DEF StoreInv, TypeOK
<1>3. CASE used' = used
  BY <1>2, <1>3 DEF OrderInv
<1>4. ASSUME NEW v \in NextVersion, used' = used \cup {v} PROVE OrderInv'
  BY <1>2, <1>4 DEF NextVersion, OrderInv
<1> QED BY <1>1, <1>3, <1>4

\* Only PublishPointer brings a name into a pointer, the version being saved;
\* a power failure brings back one that was seen or durable.
LEMMA PointerStep == StoreInv /\ [Next]_vars => PointerInv'
<1> SUFFICES ASSUME StoreInv, [Next]_vars
             PROVE  PointerInv'
  OBVIOUS
<1> USE StoreAssumption
<1>a. \A d \in Kept : d.dir /\ d.ptr \in used \cup {None}
  BY MixedDisk DEF Kept, StoreInv, PointerInv
<1>b. Empty.ptr = None
  BY EmptyDisk
<1>1. CASE NewStore
  BY <1>1 DEF NewStore, Pointers, disk, call, StoreInv, PointerInv
<1>2. CASE CloseStore
  BY <1>2 DEF CloseStore, Pointers, disk, call, StoreInv, PointerInv
<1>3. CASE Create
  BY <1>3 DEF Create, Empty, Pointers, StoreInv, PointerInv
<1>4. CASE Checkpoint
  BY <1>4 DEF Checkpoint, Pointers, disk, StoreInv, PointerInv
<1>5. CASE Load
  BY <1>5 DEF Load, Pointers, disk, StoreInv, PointerInv
<1>6. CASE MakeCheckpoints
  BY <1>6 DEF MakeCheckpoints, CommitStep, Pointers, StoreInv, PointerInv
<1>7. CASE WritePending
  BY <1>7 DEF WritePending, CommitStep, Pointers, StoreInv, PointerInv
<1>8. CASE RenamePending
  BY <1>8 DEF RenamePending, CommitStep, Pointers, StoreInv, PointerInv
<1>9. CASE SyncCheckpoints
  BY <1>9 DEF SyncCheckpoints, CommitStep, Pointers, StoreInv, PointerInv
<1>10. CASE PublishPointer
  BY <1>10
     DEF PublishPointer, CommitStep, Pointers, StoreInv, PointerInv, SaveInv
<1>11. CASE SyncProfile
  BY <1>11 DEF SyncProfile, CommitStep, Pointers, StoreInv, PointerInv
<1>12. CASE CleanAndReturn
  BY <1>12 DEF CleanAndReturn, TypeOK, Disk, Pointers, StoreInv, PointerInv
<1>13. CASE CommitFails
  <2>1. CASE Leave
    BY <1>a, <1>b, <1>13, <2>1
       DEF CommitFails, Leave, StoreInv, PointerInv, Pointers
  <2>2. CASE /\ seen' = [seen EXCEPT !.snaps = @ \ {version}]
             /\ UNCHANGED <<durable, former>>
    BY <1>13, <2>2
       DEF CommitFails, StoreInv, PointerInv, Pointers, TypeOK, Disk
  <2>3. CASE UNCHANGED <<seen, durable, former>>
    BY <1>13, <2>3 DEF CommitFails, StoreInv, PointerInv, Pointers
  <2> QED BY <1>13, <2>1, <2>2, <2>3 DEF CommitFails
<1>14. CASE QuarantineInvalidState
  BY <1>14 DEF QuarantineInvalidState, Pointers, disk, StoreInv, PointerInv
<1>15. CASE QuarantineMove \/ PruneDirectory
  BY <1>a, <1>b, <1>15
     DEF QuarantineMove, PruneDirectory, Leave, StoreInv, PointerInv, Pointers
<1>16. CASE QuarantineSync
  BY <1>16 DEF QuarantineSync, Pointers, StoreInv, PointerInv
<1>17. CASE QuarantineReport
  BY <1>17 DEF QuarantineReport, Pointers, disk, StoreInv, PointerInv
<1>18. CASE QuarantineFails
  BY <1>18 DEF QuarantineFails, Pointers, disk, StoreInv, PointerInv
<1>19. CASE Prune
  BY <1>19 DEF Prune, Pointers, disk, StoreInv, PointerInv
<1>20. CASE PruneEntry
  <2>1. seen'.ptr \in {seen.ptr, None}
    BY <1>20 DEF PruneEntry, StoreInv, TypeOK, Disk
  <2>2. UNCHANGED <<durable, former, used>>
    BY <1>20 DEF PruneEntry, call
  <2> QED BY <2>1, <2>2 DEF StoreInv, PointerInv, Pointers
<1>21. CASE PruneSync
  BY <1>21 DEF PruneSync, Pointers, StoreInv, PointerInv
<1>22. CASE PruneFails
  BY <1>22 DEF PruneFails, Pointers, disk, StoreInv, PointerInv
<1>23. CASE SyncProfiles
  BY <1>23 DEF SyncProfiles, Pointers, call, StoreInv, PointerInv
<1>24. CASE GrowOld
  BY <1>24 DEF GrowOld, Pointers, disk, call, StoreInv, PointerInv
<1>25. CASE Damage
  BY <1>25 DEF Damage, Pointers, call, StoreInv, PointerInv
<1>26. CASE ProcessEnds
  BY <1>26 DEF ProcessEnds, Stop, Pointers, StoreInv, PointerInv
<1>27. CASE PowerFails
  <2>1. PICK d \in Kept \cup Undone :
          seen' = d /\ durable' = d /\ former' = {} /\ used' = used
    BY <1>27 DEF PowerFails, Stop
  <2>2. d.ptr \in used \cup {None}
    BY <1>a, <1>b, <2>1 DEF Undone, StoreInv, PointerInv
  <2>3. /\ seen'.ptr = d.ptr /\ durable'.ptr = d.ptr
        /\ former' = {} /\ used' = used
    BY <2>1
  <2>4. Pointers' \subseteq used' \cup {None}
    BY <2>2, <2>3 DEF Pointers
  <2>5. \A c \in former' : FALSE
    BY <2>3
  <2> QED BY <2>4, <2>5 DEF PointerInv
<1>28. CASE UNCHANGED vars
  BY <1>28 DEF vars, disk, call, env, StoreInv, PointerInv, Pointers
<1> QED BY <1>1, <1>2, <1>3, <1>4, <1>5, <1>6, <1>7, <1>8, <1>9, <1>10, <1>11,
  <1>12, <1>13, <1>14, <1>15, <1>16, <1>17, <1>18, <1>19, <1>20, <1>21, <1>22,
  <1>23, <1>24, <1>25, <1>26, <1>27, <1>28
  DEF Next

\* A Profile goes by Leave, which forgets all of it, or by a power failure that
\* kept no directory, and then the promise ends with it.
LEMMA GoneStep == StoreInv /\ [Next]_vars => GoneInv'
<1> SUFFICES ASSUME StoreInv, [Next]_vars
             PROVE  GoneInv'
  OBVIOUS
<1> USE StoreAssumption
<1>1. CASE NewStore
  BY <1>1 DEF NewStore, disk, StoreInv, GoneInv
<1>2. CASE CloseStore
  BY <1>2 DEF CloseStore, disk, StoreInv, GoneInv
<1>3. CASE Create
  BY <1>3 DEF Create, Empty, GoneInv
<1>4. CASE Checkpoint
  BY <1>4 DEF Checkpoint, disk, StoreInv, GoneInv
<1>5. CASE Load
  BY <1>5 DEF Load, disk, StoreInv, GoneInv
<1>6. CASE MakeCheckpoints
  BY <1>6 DEF MakeCheckpoints, CommitStep, StoreInv, GoneInv, SaveInv
<1>7. CASE WritePending
  BY <1>7 DEF WritePending, CommitStep, StoreInv, GoneInv
<1>8. CASE RenamePending
  BY <1>8 DEF RenamePending, CommitStep, StoreInv, GoneInv, SaveInv
<1>9. CASE SyncCheckpoints
  BY <1>9 DEF SyncCheckpoints, CommitStep, StoreInv, GoneInv, SaveInv
<1>10. CASE PublishPointer
  BY <1>10 DEF PublishPointer, CommitStep, StoreInv, GoneInv, SaveInv
<1>11. CASE SyncProfile
  BY <1>11 DEF SyncProfile, CommitStep, StoreInv, GoneInv, SaveInv
<1>12. CASE CleanAndReturn
  BY <1>12 DEF CleanAndReturn, StoreInv, GoneInv, SaveInv
<1>13. CASE CommitFails
  BY <1>13 DEF CommitFails, Leave, TypeOK, Disk, StoreInv, GoneInv, SaveInv
<1>14. CASE QuarantineInvalidState
  BY <1>14 DEF QuarantineInvalidState, disk, StoreInv, GoneInv
<1>15. CASE QuarantineMove
  BY <1>15 DEF QuarantineMove, Quarantining, Leave, StoreInv, GoneInv, TakenInv
<1>16. CASE QuarantineSync
  BY <1>16 DEF QuarantineSync, env, StoreInv, GoneInv
<1>17. CASE QuarantineReport
  BY <1>17 DEF QuarantineReport, disk, env, StoreInv, GoneInv
<1>18. CASE QuarantineFails
  BY <1>18 DEF QuarantineFails, disk, StoreInv, GoneInv
<1>19. CASE Prune
  BY <1>19 DEF Prune, disk, GoneInv
<1>20. CASE PruneEntry
  <2>1. CASE seen.dir
    <3>1. seen'.dir
      BY <1>20, <2>1 DEF PruneEntry, StoreInv, TypeOK, Disk
    <3> QED BY <3>1 DEF GoneInv
  <2>2. CASE ~seen.dir
    <3>1. /\ seen \in Disk /\ seen.ptr = None
          /\ seen.snaps = {} /\ seen.cps = FALSE
      BY <2>2, EmptyDisk DEF StoreInv, GoneInv
    <3>2. seen' # seen
      BY <1>20 DEF PruneEntry
    <3>3. [seen EXCEPT !.ptr = None] = seen
      BY <3>1 DEF Disk
    <3>4. [seen EXCEPT !.snaps = {}] = seen
      BY <3>1 DEF Disk
    <3>5. [seen EXCEPT !.cps = FALSE, !.snaps = {}] = seen
      BY <3>1 DEF Disk
    <3> QED BY <1>20, <3>2, <3>3, <3>4, <3>5, Zenon DEF PruneEntry
  <2> QED BY <2>1, <2>2
<1>21. CASE PruneDirectory
  BY <1>21 DEF PruneDirectory, Leave, env, StoreInv, GoneInv, PromiseInv
<1>22. CASE PruneSync
  BY <1>22 DEF PruneSync, env, StoreInv, GoneInv
<1>23. CASE PruneFails
  BY <1>23 DEF PruneFails, disk, StoreInv, GoneInv
<1>24. CASE SyncProfiles
  <2>1. /\ durable' = [durable EXCEPT !.dir = seen.dir]
        /\ seen' = seen /\ promised' = promised
    BY <1>24 DEF SyncProfiles, env
  <2>2. durable \in Disk
    BY DEF StoreInv, TypeOK
  <2>3. ~seen.dir => durable' = durable
    BY <2>1, <2>2, EmptyDisk DEF StoreInv, GoneInv, Disk
  <2> QED BY <2>1, <2>3, Zenon DEF StoreInv, GoneInv
<1>25. CASE GrowOld
  BY <1>25 DEF GrowOld, disk, StoreInv, GoneInv
<1>26. CASE Damage
  BY <1>26 DEF Damage, StoreInv, GoneInv
<1>27. CASE ProcessEnds
  BY <1>27 DEF ProcessEnds, StoreInv, GoneInv
<1>28. CASE PowerFails
  <2>1. PICK d \in Kept \cup Undone :
          /\ seen' = d /\ durable' = d
          /\ d \in Kept \/ (d \in Undone /\ promised' = None)
    BY <1>28 DEF PowerFails, Stop
  <2>2. CASE d.dir
    BY <2>1, <2>2 DEF GoneInv
  <2>3. CASE ~d.dir
    <3>1. d = Empty /\ promised' = None
      BY <2>1, <2>3 DEF Kept, Undone, StoreInv, PointerInv
    <3> QED BY <2>1, <3>1 DEF GoneInv
  <2> QED BY <2>2, <2>3
<1>29. CASE UNCHANGED vars
  BY <1>29 DEF vars, disk, call, env, StoreInv, GoneInv
<1> QED BY <1>1, <1>2, <1>3, <1>4, <1>5, <1>6, <1>7, <1>8, <1>9, <1>10, <1>11,
  <1>12, <1>13, <1>14, <1>15, <1>16, <1>17, <1>18, <1>19, <1>20, <1>21, <1>22,
  <1>23, <1>24, <1>25, <1>26, <1>27, <1>28, <1>29
  DEF Next

\* Each step of commitSnapshot finds what the steps before it left: nothing
\* else runs between them, and whatever fails ends the save.
LEMMA SaveStep == StoreInv /\ [Next]_vars => SaveInv'
<1> SUFFICES ASSUME StoreInv, [Next]_vars
             PROVE  SaveInv'
  OBVIOUS
<1> USE StoreAssumption
<1>1. CASE NewStore
  BY <1>1
     DEF NewStore, Saving, Unpublished, Pointers, disk, call, StoreInv, SaveInv
<1>2. CASE CloseStore
  BY <1>2
     DEF CloseStore, Saving, Unpublished, Pointers, disk, call, StoreInv,
         SaveInv
<1>3. CASE Create
  BY <1>3
     DEF Create, Idle, NextVersion, Return, Go, TypeOK, Saving, SaveSteps,
         Published, Pointers, Empty, env, StoreInv, SaveInv, OrderInv,
         PointerInv, GoneInv
<1>4. CASE Checkpoint
  BY <1>4
     DEF Checkpoint, NextVersion, OpenThen, Quarantine, Loadable, Return, Idle,
         Go, TypeOK, Saving, SaveSteps, Published, Pointers, disk, StoreInv, SaveInv,
         OrderInv, PointerInv
<1>5. CASE Load
  BY <1>5 DEF Load, Idle, OpenThen, Quarantine, Return, Go, Saving, SaveInv
<1>6. CASE MakeCheckpoints
  BY <1>6
     DEF MakeCheckpoints, CommitStep, Go, After, SaveSteps, Published,
         Unpublished, Pointers, At, StoreInv, SaveInv
<1>7. CASE WritePending
  BY <1>7
     DEF WritePending, CommitStep, Go, After, SaveSteps, Published,
         Unpublished, Pointers, At, StoreInv, SaveInv
<1>8. CASE RenamePending
  BY <1>8
     DEF RenamePending, CommitStep, Go, After, SaveSteps, Published,
         Unpublished, Pointers, At, StoreInv, SaveInv
<1>9. CASE SyncCheckpoints
  BY <1>9
     DEF SyncCheckpoints, CommitStep, Go, After, SaveSteps, Published,
         Unpublished, Pointers, At, StoreInv, SaveInv
<1>10. CASE PublishPointer
  BY <1>10
     DEF PublishPointer, CommitStep, Go, After, SaveSteps, Published,
         Unpublished, At, StoreInv, SaveInv
<1>11. CASE SyncProfile
  BY <1>11
     DEF SyncProfile, CommitStep, Go, After, SaveSteps, Published, Unpublished,
         At, StoreInv, SaveInv
<1>12. CASE CleanAndReturn
  BY <1>12 DEF CleanAndReturn, Return, Idle, Saving, SaveInv
<1>13. CASE CommitFails
  BY <1>13 DEF CommitFails, Return, Idle, Saving, SaveInv
<1>14. CASE QuarantineInvalidState
  BY <1>14 DEF QuarantineInvalidState, Quarantine, Go, Saving, SaveInv
<1>15. CASE QuarantineMove
  BY <1>15 DEF QuarantineMove, Quarantining, Go, Saving, SaveInv
<1>16. CASE QuarantineSync
  BY <1>16 DEF QuarantineSync, Quarantining, Go, Saving, SaveInv
<1>17. CASE QuarantineReport
  BY <1>17 DEF QuarantineReport, Return, Idle, Saving, SaveInv
<1>18. CASE QuarantineFails
  BY <1>18 DEF QuarantineFails, Return, Idle, Saving, SaveInv
<1>19. CASE Prune
  BY <1>19 DEF Prune, Go, Saving, SaveInv
<1>20. CASE PruneEntry
  BY <1>20 DEF PruneEntry, Saving, call, SaveInv
<1>21. CASE PruneDirectory
  BY <1>21 DEF PruneDirectory, Go, Saving, SaveInv
<1>22. CASE PruneSync
  BY <1>22 DEF PruneSync, Return, Idle, Saving, SaveInv
<1>23. CASE PruneFails
  BY <1>23 DEF PruneFails, Return, Idle, Saving, SaveInv
<1>24. CASE SyncProfiles
  BY <1>24
     DEF SyncProfiles, Saving, Unpublished, Pointers, call, env, StoreInv,
         SaveInv
<1>25. CASE GrowOld
  BY <1>25
     DEF GrowOld, Saving, Unpublished, Pointers, disk, call, StoreInv, SaveInv
<1>26. CASE Damage
  BY <1>26 DEF Damage, Idle, Saving, call, SaveInv
<1>27. CASE ProcessEnds
  BY <1>27 DEF ProcessEnds, Stop, Idle, Saving, SaveInv
<1>28. CASE PowerFails
  BY <1>28 DEF PowerFails, Stop, Idle, Saving, SaveInv
<1>29. CASE UNCHANGED vars
  BY <1>29
     DEF vars, disk, call, env, StoreInv, SaveInv, Saving, At, Unpublished,
         Published, Pointers
<1> QED BY <1>1, <1>2, <1>3, <1>4, <1>5, <1>6, <1>7, <1>8, <1>9, <1>10, <1>11,
  <1>12, <1>13, <1>14, <1>15, <1>16, <1>17, <1>18, <1>19, <1>20, <1>21, <1>22,
  <1>23, <1>24, <1>25, <1>26, <1>27, <1>28, <1>29
  DEF Next

\* What is taken apart did not load, see PromiseInv, or is promised no more; a
\* Profile that is given up loses its promise as it is moved.
LEMMA TakenStep == StoreInv /\ [Next]_vars => TakenInv'
<1> SUFFICES ASSUME StoreInv, [Next]_vars
             PROVE  TakenInv'
  OBVIOUS
<1> USE StoreAssumption
<1>1. CASE op' = Idle
  BY <1>1 DEF Idle, TakenInv
<1>2. CASE promised' = None
  BY <1>2 DEF TakenInv
<1>3. CASE op' = op /\ promised' = promised
  BY <1>3 DEF TakenInv, StoreInv
<1>4. CASE Create
  BY <1>1, <1>4 DEF Create, Go, Return, TakenInv
<1>5. CASE Checkpoint \/ Load
  <2>1. Loadable(seen) = Torn => promised = None
    BY DEF Loadable, Pointers, StoreInv, PromiseInv, TypeOK, Disk
  <2>2. promised' = promised
    BY <1>5 DEF Checkpoint, Load
  <2>3. \/ op' = Idle \/ op' = [kind |-> "checkpoint", at |-> "checkpoints"]
        \/ op' = [kind |-> "discard", at |-> "move"] \/ Loadable(seen) = Torn
    BY <1>5 DEF Checkpoint, Load, OpenThen, Quarantine, Go, Return
  <2> QED BY <1>1, <2>1, <2>2, <2>3 DEF TakenInv
<1>6. CASE MakeCheckpoints \/ WritePending \/ RenamePending \/ SyncCheckpoints \/ PublishPointer \/ SyncProfile
  <2>1. Saving /\ \E step \in SaveSteps : op' = [kind |-> op.kind, at |-> After(step)]
    BY <1>6 DEF MakeCheckpoints, WritePending, RenamePending, SyncCheckpoints, PublishPointer,
                SyncProfile, CommitStep, Go, SaveSteps
  <2> QED BY <2>1 DEF Saving, TakenInv
<1>7. CASE \/ CleanAndReturn \/ CommitFails \/ QuarantineReport \/ QuarantineFails
           \/ PruneSync \/ PruneFails \/ ProcessEnds \/ PowerFails
  BY <1>1, <1>7 DEF CleanAndReturn, CommitFails, QuarantineReport, QuarantineFails,
                    PruneSync, PruneFails, ProcessEnds, PowerFails, Stop, Return
<1>8. CASE Prune \/ Damage
  BY <1>2, <1>8 DEF Prune, Damage
<1>9. CASE QuarantineSync \/ PruneEntry \/ PruneDirectory
  BY <1>9 DEF QuarantineSync, Quarantining, PruneEntry, PruneDirectory, Go, call, env, StoreInv,
              TakenInv
<1>11. CASE QuarantineInvalidState
  BY <1>11 DEF QuarantineInvalidState, Quarantine, Go, TakenInv
<1>12. CASE QuarantineMove
  BY <1>12 DEF QuarantineMove, Quarantining, Go, StoreInv, TakenInv
<1>10. CASE NewStore \/ CloseStore \/ SyncProfiles \/ GrowOld \/ UNCHANGED vars
  BY <1>3, <1>10 DEF NewStore, CloseStore, SyncProfiles, GrowOld, vars, call, env
<1> QED BY <1>4, <1>5, <1>6, <1>7, <1>8, <1>9, <1>10, <1>11, <1>12 DEF Next

\* A save is acknowledged at its step "clean", where SaveInv has the snapshot
\* and the pointer durable.  Until the next pointer is durable too, no snapshot
\* but the one being saved is removed.
LEMMA PromiseStep == StoreInv /\ [Next]_vars => PromiseInv'
<1> SUFFICES ASSUME StoreInv, [Next]_vars
             PROVE  PromiseInv'
  OBVIOUS
<1> USE StoreAssumption
<1>1. CASE NewStore
  BY <1>1 DEF NewStore, Pointers, disk, StoreInv, PromiseInv
<1>2. CASE CloseStore
  BY <1>2 DEF CloseStore, Pointers, disk, StoreInv, PromiseInv
<1>3. CASE Create
  BY <1>3 DEF Create, Pointers, env, StoreInv, PromiseInv
<1>4. CASE Checkpoint
  BY <1>4 DEF Checkpoint, Pointers, disk, StoreInv, PromiseInv
<1>5. CASE Load
  BY <1>5 DEF Load, Pointers, disk, StoreInv, PromiseInv
<1>6. CASE MakeCheckpoints
  BY <1>6 DEF MakeCheckpoints, CommitStep, Pointers, StoreInv, PromiseInv
<1>7. CASE WritePending
  BY <1>7 DEF WritePending, CommitStep, Pointers, StoreInv, PromiseInv
<1>8. CASE RenamePending
  BY <1>8 DEF RenamePending, CommitStep, Pointers, StoreInv, PromiseInv
<1>9. CASE SyncCheckpoints
  BY <1>9 DEF SyncCheckpoints, CommitStep, Pointers, StoreInv, PromiseInv
<1>10. CASE PublishPointer
  BY <1>10
     DEF PublishPointer, CommitStep, TypeOK, Pointers, At, StoreInv,
         PromiseInv, SaveInv, PointerInv
<1>11. CASE SyncProfile
  BY <1>11 DEF SyncProfile, CommitStep, Pointers, StoreInv, PromiseInv
<1>12. CASE CleanAndReturn
  BY <1>12
     DEF CleanAndReturn, TypeOK, Disk, Pointers, Unpublished, At, StoreInv,
         PromiseInv, SaveInv
<1>13. CASE CommitFails
  BY <1>13
     DEF CommitFails, TypeOK, Disk, Pointers, Published, Unpublished, StoreInv,
         PromiseInv, SaveInv
<1>14. CASE QuarantineInvalidState
  BY <1>14 DEF QuarantineInvalidState, Pointers, disk, StoreInv, PromiseInv
<1>15. CASE QuarantineMove
  BY <1>15 DEF QuarantineMove, Quarantining, StoreInv, PromiseInv, TakenInv
<1>16. CASE QuarantineSync
  BY <1>16 DEF QuarantineSync, Pointers, env, StoreInv, PromiseInv
<1>17. CASE QuarantineReport
  BY <1>17 DEF QuarantineReport, Pointers, disk, env, StoreInv, PromiseInv
<1>18. CASE QuarantineFails
  BY <1>18 DEF QuarantineFails, Pointers, disk, StoreInv, PromiseInv
<1>19. CASE Prune
  BY <1>19 DEF Prune, PromiseInv
<1>20. CASE PruneEntry
  BY <1>20 DEF PruneEntry, env, StoreInv, PromiseInv, TakenInv
<1>21. CASE PruneDirectory
  BY <1>21 DEF PruneDirectory, env, StoreInv, PromiseInv
<1>22. CASE PruneSync
  BY <1>22 DEF PruneSync, env, StoreInv, PromiseInv, TakenInv
<1>23. CASE PruneFails
  BY <1>23 DEF PruneFails, StoreInv, PromiseInv, TakenInv
<1>24. CASE SyncProfiles
  BY <1>24 DEF SyncProfiles, Pointers, env, StoreInv, PromiseInv
<1>25. CASE GrowOld
  BY <1>25 DEF GrowOld, Pointers, disk, StoreInv, PromiseInv
<1>26. CASE Damage
  BY <1>26 DEF Damage, PromiseInv
<1>27. CASE ProcessEnds
  BY <1>27 DEF ProcessEnds, Stop, Pointers, StoreInv, PromiseInv
<1>28. CASE PowerFails
  <2>1. PICK d \in Kept \cup Undone :
          /\ seen' = d /\ durable' = d
          /\ \/ d \in Kept /\ promised' = promised
             \/ d \in Undone /\ promised' = None
    BY <1>28 DEF PowerFails, Stop
  <2>2. intact' = intact
    BY <1>28 DEF PowerFails, Stop
  <2>3. CASE d \in Kept /\ promised' # None
    <3>1. /\ d.dir /\ d.cps /\ d.ptr \in Pointers
          /\ seen.snaps \cap durable.snaps \subseteq d.snaps
      BY <2>1, <2>3, MixedDisk DEF Kept, StoreInv, PromiseInv
    <3> QED BY <2>1, <2>2, <2>3, <3>1 DEF PromiseInv, Pointers, StoreInv
  <2>4. CASE promised' = None
    BY <2>4 DEF PromiseInv
  <2> QED BY <2>1, <2>3, <2>4
<1>29. CASE UNCHANGED vars
  BY <1>29 DEF vars, disk, call, env, StoreInv, PromiseInv, Pointers
<1> QED BY <1>1, <1>2, <1>3, <1>4, <1>5, <1>6, <1>7, <1>8, <1>9, <1>10, <1>11,
  <1>12, <1>13, <1>14, <1>15, <1>16, <1>17, <1>18, <1>19, <1>20, <1>21, <1>22,
  <1>23, <1>24, <1>25, <1>26, <1>27, <1>28, <1>29
  DEF Next

LEMMA StoreInvStep == StoreInv /\ [Next]_vars => StoreInv'
BY TypeStep, OrderStep, PointerStep, GoneStep, SaveStep, TakenStep, PromiseStep
   DEF StoreInv

LEMMA StoreInvInit == Init => StoreInv
<1> SUFFICES ASSUME Init
             PROVE  StoreInv
  OBVIOUS
<1>0. op \in [kind : Kinds, at : Steps] /\ result \in Results
  BY DEF Init, Idle, Kinds, Steps, Results
<1>a. {seen, durable} \cup former \subseteq Disk
  BY EmptyDisk DEF Init
<1>b. old \in BOOLEAN /\ open \in BOOLEAN
  BY DEF Init
<1>c. faults \in 0..MaxFaults /\ crashes \in 0..MaxCrashes
  BY StoreAssumption DEF Init
<1>d. /\ intact \cup used \subseteq Versions
      /\ {version, promised} \subseteq Versions \cup {None}
  BY DEF Init
<1>1. TypeOK
  BY <1>0, <1>a, <1>b, <1>c, <1>d DEF TypeOK
<1>2. OrderInv /\ PointerInv
  BY EmptyDisk DEF Init, OrderInv, PointerInv, Pointers
<1>3. GoneInv /\ SaveInv /\ TakenInv /\ PromiseInv
  BY DEF Init, GoneInv, SaveInv, TakenInv, PromiseInv, Saving, Idle
<1> QED BY <1>1, <1>2, <1>3 DEF StoreInv

\* The invariant holds in every state of the store, for all payloads and any
\* number of failed calls, process ends and power failures.
THEOREM Invariance == Spec => []StoreInv
BY StoreInvInit, StoreInvStep, PTL DEF Spec

\* Type correctness of the store's directories and of the operation under way.
THEOREM TypeCorrect == Spec => []TypeOK
<1>1. StoreInv => TypeOK
  BY DEF StoreInv
<1> QED BY <1>1, Invariance, PTL

-----------------------------------------------------------------------------
(* What loads find.                                                        *)

\* Loadable, with the intact snapshots as a parameter.
LoadOf(d, i) ==
  IF ~d.dir THEN None
  ELSE IF d.ptr # None /\ d.cps /\ d.ptr \in d.snaps \cap i THEN d.ptr
  ELSE Torn

\* The disks a power failure may make of the entries seen, s, and durable, t.
KeptOf(s, t) ==
  {d \in [dir : {s.dir, t.dir}, cps : {s.cps, t.cps}, ptr : {s.ptr, t.ptr},
          snaps : {n \in SUBSET (s.snaps \cup t.snaps) :
                     s.snaps \cap t.snaps \subseteq n}] : d.dir}

\* Pointer p names a snapshot that is in checkpoints/ and intact.
Complete(p, c, n, i) == p # None /\ c /\ p \in n \cap i

\* A load may find what one of the pointers names if it may be there, and a
\* torn Profile if it may be missing.
FoundOf(s, t, i) ==
  {x \in Versions \cup {Torn} :
     /\ s.dir \/ t.dir
     /\ \E p \in {s.ptr, t.ptr}, c \in {s.cps, t.cps} :
          \/ x = p /\ Complete(p, c, s.snaps \cup t.snaps, i)
          \/ x = Torn /\ ~Complete(p, c, s.snaps \cap t.snaps, i)}

\* What loads find on the directories that may come back, or without any.
LostOf(f, s, t, i) ==
  {LoadOf(d, i) : d \in f} \cup (IF s.dir /\ t.dir THEN {} ELSE {None})

\* What loads find on the disks a power failure may keep, entry by entry.
LEMMA Found ==
  ASSUME NEW s \in Disk, NEW t \in Disk, NEW i
  PROVE  {LoadOf(d, i) : d \in KeptOf(s, t)} = FoundOf(s, t, i)
<1> USE StoreAssumption
<1>1. ASSUME NEW d \in KeptOf(s, t)
      PROVE  LoadOf(d, i) \in FoundOf(s, t, i)
  <2>1. /\ d.dir /\ (s.dir \/ t.dir)
        /\ d.ptr \in {s.ptr, t.ptr} /\ d.cps \in {s.cps, t.cps}
        /\ d.snaps \subseteq s.snaps \cup t.snaps
        /\ s.snaps \cap t.snaps \subseteq d.snaps
    BY <1>1 DEF KeptOf, Disk
  <2>2. CASE Complete(d.ptr, d.cps, d.snaps, i)
    <3>1. LoadOf(d, i) = d.ptr /\ d.ptr \in Versions
      BY <2>1, <2>2 DEF LoadOf, Complete, Disk
    <3>2. Complete(d.ptr, d.cps, s.snaps \cup t.snaps, i)
      BY <2>1, <2>2 DEF Complete
    <3> QED BY <2>1, <3>1, <3>2 DEF FoundOf
  <2>3. CASE ~Complete(d.ptr, d.cps, d.snaps, i)
    <3>1. LoadOf(d, i) = Torn
      BY <2>1, <2>3 DEF LoadOf, Complete
    <3>2. ~Complete(d.ptr, d.cps, s.snaps \cap t.snaps, i)
      BY <2>1, <2>3 DEF Complete
    <3> QED BY <2>1, <3>1, <3>2 DEF FoundOf
  <2> QED BY <2>2, <2>3
<1>2. ASSUME NEW x \in FoundOf(s, t, i)
      PROVE  \E d \in KeptOf(s, t) : x = LoadOf(d, i)
  <2>1. PICK p \in {s.ptr, t.ptr}, c \in {s.cps, t.cps} :
          \/ x = p /\ Complete(p, c, s.snaps \cup t.snaps, i)
          \/ x = Torn /\ ~Complete(p, c, s.snaps \cap t.snaps, i)
    BY <1>2 DEF FoundOf
  <2>2. s.dir \/ t.dir
    BY <1>2 DEF FoundOf
  <2> DEFINE d(n) == [dir |-> TRUE, cps |-> c, ptr |-> p, snaps |-> n]
  <2>3. ASSUME NEW n, n \subseteq s.snaps \cup t.snaps,
               s.snaps \cap t.snaps \subseteq n
        PROVE  d(n) \in KeptOf(s, t)
    BY <2>1, <2>2, <2>3 DEF KeptOf, Disk
  <2>4. CASE x = p /\ Complete(p, c, s.snaps \cup t.snaps, i)
    <3>1. d(s.snaps \cup t.snaps) \in KeptOf(s, t)
      BY <2>3
    <3>2. x = LoadOf(d(s.snaps \cup t.snaps), i)
      BY <2>4 DEF LoadOf, Complete
    <3> QED BY <3>1, <3>2
  <2>5. CASE x = Torn /\ ~Complete(p, c, s.snaps \cap t.snaps, i)
    <3>1. d(s.snaps \cap t.snaps) \in KeptOf(s, t)
      BY <2>3
    <3>2. x = LoadOf(d(s.snaps \cap t.snaps), i)
      BY <2>5 DEF LoadOf, Complete
    <3> QED BY <3>1, <3>2
  <2> QED BY <2>1, <2>4, <2>5
<1> QED BY <1>1, <1>2

\* The variables of the register in these terms, in a state and in the next.
\* With the disk as a parameter the two differ in nothing but primes.
LEMMA Mapping ==
  /\ stored = LoadOf(seen, intact)
  /\ recent = {LoadOf(d, intact) : d \in KeptOf(seen, durable)}
  /\ whole = {LoadOf(d, intact) : d \in Undone}
  BY DEF stored, recent, whole, Loadable, LoadOf, Kept, Mixed, KeptOf

LEMMA MappingPrime ==
  /\ stored' = LoadOf(seen', intact')
  /\ recent' = {LoadOf(d, intact') : d \in KeptOf(seen', durable')}
  /\ whole' = {LoadOf(d, intact') : d \in Undone'}
  BY DEF stored, recent, whole, Loadable, LoadOf, Kept, Mixed, KeptOf

LEMMA MappingNow ==
  ASSUME TypeOK
  PROVE  /\ stored = LoadOf(seen, intact)
         /\ recent = FoundOf(seen, durable, intact)
         /\ whole = LostOf(former, seen, durable, intact)
<1>1. seen \in Disk /\ durable \in Disk
  BY DEF TypeOK
<1>2. {LoadOf(d, intact) : d \in Undone}
        = LostOf(former, seen, durable, intact)
  <2>1. LoadOf(Empty, intact) = None
    BY EmptyDisk DEF LoadOf
  <2>2. FALSE \in {seen.dir, durable.dir} <=> ~(seen.dir /\ durable.dir)
    BY <1>1 DEF Disk
  <2> QED BY <2>1, <2>2 DEF Undone, LostOf
<1> QED BY <1>1, <1>2, Mapping, Found

LEMMA MappingNext ==
  ASSUME TypeOK'
  PROVE  /\ stored' = LoadOf(seen', intact')
         /\ recent' = FoundOf(seen', durable', intact')
         /\ whole' = LostOf(former', seen', durable', intact')
<1>1. seen' \in Disk /\ durable' \in Disk
  BY DEF TypeOK
<1>2. {LoadOf(d, intact') : d \in Undone'}
        = LostOf(former', seen', durable', intact')
  <2>1. LoadOf(Empty, intact') = None
    BY EmptyDisk DEF LoadOf
  <2>2. FALSE \in {seen'.dir, durable'.dir} <=> ~(seen'.dir /\ durable'.dir)
    BY <1>1 DEF Disk
  <2> QED BY <2>1, <2>2 DEF Undone, LostOf
<1> QED BY <1>1, <1>2, MappingPrime, Found

\* Every step of the store is a step of the register, or leaves it as it is.
LEMMA RefineStep ==
  StoreInv /\ StoreInv' /\ [Next]_vars
    => [Register!RegNext]_(Register!regVars)
<1> SUFFICES ASSUME StoreInv, StoreInv', [Next]_vars
             PROVE  [Register!RegNext]_(Register!regVars)
  OBVIOUS
<1> USE StoreAssumption
<1>1. TypeOK /\ TypeOK'
  BY DEF StoreInv
<1>2. seen \in Disk /\ durable \in Disk /\ seen' \in Disk /\ durable' \in Disk
  BY <1>1 DEF TypeOK
<1>3. /\ stored = LoadOf(seen, intact) /\ stored' = LoadOf(seen', intact')
      /\ recent = FoundOf(seen, durable, intact)
      /\ recent' = FoundOf(seen', durable', intact')
      /\ whole = LostOf(former, seen, durable, intact)
      /\ whole' = LostOf(former', seen', durable', intact')
  BY <1>1, MappingNow, MappingNext
<1>4. ASSUME UNCHANGED <<disk, promised>> PROVE UNCHANGED Register!regVars
  BY <1>4, <1>3 DEF disk, Register!regVars
<1>5. ASSUME former' \subseteq former,
             \A d \in former : LoadOf(d, intact') = LoadOf(d, intact),
             seen'.dir = seen.dir, durable'.dir = durable.dir
      PROVE  whole' \subseteq whole
  BY <1>3, <1>5 DEF LostOf
<1>6. ASSUME stored' = stored, promised' = promised,
             recent' \subseteq recent, whole' \subseteq whole
      PROVE  [Register!RegNext]_(Register!regVars)
  BY <1>6 DEF Register!RegNext, Register!Settle
<1>7. ASSUME promised = None, promised' = None, stored' \in {None, Torn},
             recent' \subseteq recent \cup {Torn},
             whole' \subseteq whole \cup recent \cup {None, Torn}
      PROVE  [Register!RegNext]_(Register!regVars)
  BY <1>7 DEF Register!RegNext, Register!Scrap, Register!Undo
<1>8. ASSUME promised' = None, stored' \in {stored, None, Torn},
             recent' \subseteq recent \cup {Torn},
             whole' \subseteq whole \cup recent \cup {None, Torn}
      PROVE  [Register!RegNext]_(Register!regVars)
  BY <1>8 DEF Register!RegNext, Register!Lose, Register!Undo
<1>9. ASSUME Leave, intact' = intact
      PROVE  /\ stored' = None /\ recent' = {}
             /\ whole' \subseteq whole \cup recent \cup {None}
  <2>1. /\ Empty.dir = FALSE /\ seen' = Empty /\ durable' = Empty
        /\ former' = former \cup Kept
    BY <1>9, EmptyDisk DEF Leave
  <2>2. stored' = None
    BY <1>3, <2>1 DEF LoadOf
  <2>3. recent' = {}
    BY <1>3, <2>1 DEF FoundOf
  <2>4. \A d \in Kept : LoadOf(d, intact) \in recent
    BY Mapping DEF Kept, KeptOf, Mixed
  <2> QED BY <1>3, <1>9, <2>1, <2>2, <2>3, <2>4 DEF LostOf
<1>10. CASE NewStore \/ CloseStore \/ Checkpoint \/ Load \/ QuarantineReport
           \/ QuarantineInvalidState \/ QuarantineFails \/ PruneFails \/ GrowOld
  BY <1>10, <1>4
     DEF NewStore, CloseStore, Checkpoint, Load, QuarantineReport, QuarantineInvalidState,
         QuarantineFails, PruneFails, GrowOld, disk, env
<1>11. CASE MakeCheckpoints \/ WritePending
  <2>1. stored' = stored
    BY <1>11, <1>3, <1>2
       DEF MakeCheckpoints, WritePending, CommitStep, LoadOf, StoreInv,
           SaveInv, Saving, At, Unpublished, Published, Pointers, Disk
  <2>2. recent' = recent
    <3>1. /\ seen'.dir = seen.dir /\ seen'.ptr = seen.ptr
          /\ seen'.snaps = seen.snaps /\ durable' = durable
      BY <1>11, <1>2 DEF MakeCheckpoints, WritePending, Disk
    <3>2. \/ seen'.cps = seen.cps /\ intact' = intact
          \/ Pointers = {None}
          \/ /\ seen'.cps = seen.cps
             /\ intact' = intact \cup {version} /\ version \notin Pointers
      <4>1. CASE MakeCheckpoints
        BY <4>1, <1>2
           DEF MakeCheckpoints, CommitStep, StoreInv, SaveInv, Saving, At,
               Unpublished, Published, Disk
      <4>2. CASE WritePending
        BY <4>2, <1>2
           DEF WritePending, CommitStep, StoreInv, SaveInv, At, Unpublished,
               Published
      <4> QED BY <1>11, <4>1, <4>2
    <3> QED BY <1>3, <3>1, <3>2 DEF FoundOf, Complete, Pointers
  <2>3. /\ former' = former
        /\ \A d \in former : LoadOf(d, intact') = LoadOf(d, intact)
    BY <1>11
       DEF MakeCheckpoints, WritePending, CommitStep, LoadOf, StoreInv,
           SaveInv, Saving, At, Unpublished, Published
  <2>4. seen'.dir = seen.dir /\ durable'.dir = durable.dir
    BY <1>11, <1>2 DEF MakeCheckpoints, WritePending, Disk
  <2>5. promised' = promised
    BY <1>11 DEF MakeCheckpoints, WritePending, CommitStep
  <2> QED BY <1>6, <1>5, <2>1, <2>2, <2>3, <2>4, <2>5
<1>12. CASE RenamePending
  <2>1. stored' = stored
    BY <1>12, <1>3, <1>2
       DEF RenamePending, CommitStep, LoadOf, StoreInv, SaveInv, Saving, At,
           Unpublished, Published, Pointers, Disk
  <2>2. recent' \subseteq recent
    <3>1. /\ seen'.dir = seen.dir /\ seen'.ptr = seen.ptr /\ seen'.cps = seen.cps
          /\ seen'.snaps = seen.snaps \cup {version}
          /\ durable' = durable /\ intact' = intact
      BY <1>12, <1>2 DEF RenamePending, Disk
    <3>2. version \notin Pointers
      BY <1>12 DEF RenamePending, CommitStep, StoreInv, SaveInv, At,
           Unpublished, Published
    <3> QED BY <1>3, <3>1, <3>2 DEF FoundOf, Complete, Pointers
  <2>3. /\ seen'.dir = seen.dir /\ durable'.dir = durable.dir
        /\ former' = former /\ intact' = intact
    BY <1>12, <1>2 DEF RenamePending, CommitStep, Disk
  <2>4. /\ promised' = promised
        /\ \A d \in former : LoadOf(d, intact') = LoadOf(d, intact)
    BY <1>12, <2>3 DEF RenamePending, CommitStep
  <2> QED BY <1>6, <1>5, <2>1, <2>2, <2>3, <2>4
<1>13. CASE SyncCheckpoints \/ SyncProfile
  <2>1. stored' = stored
    BY <1>13, <1>3, <1>2
       DEF SyncCheckpoints, SyncProfile, CommitStep, LoadOf, Disk
  <2>2. recent' \subseteq recent
    <3>1. CASE SyncCheckpoints
      BY <3>1, <1>3, <1>2
         DEF SyncCheckpoints, CommitStep, FoundOf, Complete, Disk
    <3>2. CASE SyncProfile
      BY <3>2, <1>3, <1>2 DEF SyncProfile, CommitStep, FoundOf, Complete, Disk
    <3> QED BY <1>13, <3>1, <3>2
  <2>3. /\ seen'.dir = seen.dir /\ durable'.dir = durable.dir
        /\ former' = former /\ intact' = intact
    BY <1>13, <1>2 DEF SyncCheckpoints, SyncProfile, CommitStep, Disk
  <2>4. /\ promised' = promised
        /\ \A d \in former : LoadOf(d, intact') = LoadOf(d, intact)
    BY <1>13, <2>3 DEF SyncCheckpoints, SyncProfile, CommitStep
  <2> QED BY <1>6, <1>5, <2>1, <2>2, <2>3, <2>4
<1>14. CASE PublishPointer
  <2>1. stored' = version /\ version \in Versions
    BY <1>14, <1>3, <1>2
       DEF PublishPointer, CommitStep, LoadOf, StoreInv, SaveInv, Saving, At,
           Disk, TypeOK
  <2>2. \A w \in ({stored} \cup recent) \cap Versions : w < version
    BY <1>14, <1>3, <1>2
       DEF PublishPointer, CommitStep, LoadOf, FoundOf, Complete, StoreInv,
           SaveInv, Saving, At, Unpublished, Published, Pointers, PointerInv,
           Disk, TypeOK
  <2>3. recent' \subseteq recent \cup {version} \cup Register!Unsaved
    BY <1>14, <1>3, <1>2
       DEF PublishPointer, CommitStep, FoundOf, Complete, StoreInv, SaveInv,
           Saving, At, Unpublished, Published, Pointers, PromiseInv, Disk,
           Register!Unsaved
  <2>4. /\ seen'.dir = seen.dir /\ durable'.dir = durable.dir
        /\ former' = former /\ intact' = intact
    BY <1>14, <1>2 DEF PublishPointer, CommitStep, Disk
  <2>5. promised' = promised /\ whole' \subseteq whole
    BY <1>14, <1>5, <2>4 DEF PublishPointer, CommitStep
  <2>6. Register!Publish
    BY <2>1, <2>2, <2>3, <2>5 DEF Register!Publish
  <2> QED BY <2>6 DEF Register!RegNext
<1>15. CASE CleanAndReturn
  <2>1. stored' = version /\ stored = version /\ version \in Versions
    BY <1>15, <1>3, <1>2
       DEF CleanAndReturn, LoadOf, StoreInv, SaveInv, Saving, At, Published,
           Disk, TypeOK
  <2>2. recent' = {version}
    BY <1>15, <1>3, <1>2
       DEF CleanAndReturn, FoundOf, Complete, StoreInv, SaveInv, Saving, At,
           Published, Disk, TypeOK
  <2>3. /\ seen'.dir = seen.dir /\ durable'.dir = durable.dir
        /\ former' = former /\ intact' = intact
    BY <1>15, <1>2 DEF CleanAndReturn, Disk
  <2>4. promised' = version /\ whole' \subseteq whole
    BY <1>15, <1>5, <2>3 DEF CleanAndReturn
  <2>5. Register!Acknowledge
    BY <2>1, <2>2, <2>4 DEF Register!Acknowledge
  <2> QED BY <2>5 DEF Register!RegNext
<1>16. CASE Create
  <2>1. CASE seen.dir
    BY <1>16, <2>1, <1>4 DEF Create, disk, env
  <2>2. CASE ~seen.dir
    <3>1. /\ promised = None /\ promised' = None
          /\ seen = Empty /\ durable = Empty
          /\ durable' = durable /\ former' = former /\ intact' = intact
          /\ seen' = [Empty EXCEPT !.dir = TRUE]
      BY <1>16, <2>2 DEF Create, StoreInv, GoneInv, env
    <3>2. stored' = Torn
      BY <1>3, <1>2, <3>1, EmptyDisk DEF LoadOf, Disk
    <3>3. recent' \subseteq {Torn}
      BY <1>3, <1>2, <3>1, EmptyDisk DEF FoundOf, Complete, Disk
    <3>4. whole' \subseteq whole \cup {None}
      BY <1>3, <3>1 DEF LostOf
    <3> QED BY <1>7, <3>1, <3>2, <3>3, <3>4
  <2> QED BY <2>1, <2>2
<1>17. CASE CommitFails
  <2>1. promised' = promised /\ intact' = intact
    BY <1>17 DEF CommitFails
  <2>2. CASE UNCHANGED <<seen, durable, former>>
    BY <2>1, <2>2, <1>4 DEF disk
  <2>3. CASE op.kind = "create" /\ Leave
    <3>1. promised = None
      BY <1>17, <2>3 DEF CommitFails, StoreInv, SaveInv, Saving
    <3> QED BY <1>7, <1>9, <2>1, <2>3, <3>1
  <2>4. CASE /\ op.at \notin {"clean", "syncProfile"}
             /\ seen' = [seen EXCEPT !.snaps = @ \ {version}]
             /\ UNCHANGED <<durable, former>>
    <3>1. stored' = stored
      BY <1>17, <2>1, <2>4, <1>3, <1>2
         DEF CommitFails, LoadOf, StoreInv, SaveInv, Saving, Unpublished,
             Published, Pointers, Disk
    <3>2. recent' \subseteq recent
      <4>1. version \notin Pointers
        BY <1>17, <2>4 DEF CommitFails, StoreInv, SaveInv, Unpublished, Published
      <4>2. /\ seen'.dir = seen.dir /\ seen'.ptr = seen.ptr /\ seen'.cps = seen.cps
            /\ seen'.snaps = seen.snaps \ {version}
        BY <2>4, <1>2 DEF Disk
      <4>3. FoundOf(seen', durable, intact) \subseteq FoundOf(seen, durable, intact)
        BY <4>1, <4>2 DEF FoundOf, Complete, Pointers
      <4> QED BY <2>1, <2>4, <4>3, <1>3
    <3>3. seen'.dir = seen.dir /\ durable'.dir = durable.dir
      BY <2>4, <1>2 DEF Disk
    <3>4. \A d \in former : LoadOf(d, intact') = LoadOf(d, intact)
      BY <2>1
    <3> QED BY <1>6, <1>5, <2>1, <2>4, <3>1, <3>2, <3>3, <3>4
  <2> QED BY <1>17, <2>2, <2>3, <2>4 DEF CommitFails, Saving
<1>18. CASE Prune
  BY <1>18, <1>3, <1>8 DEF Prune, disk
<1>19. CASE QuarantineMove \/ PruneDirectory
  <2>1. Leave /\ intact' = intact /\ promised' = None
    BY <1>19 DEF QuarantineMove, Quarantining, PruneDirectory, env, StoreInv, TakenInv
  <2> QED BY <1>8, <1>9, <2>1
<1>20. CASE QuarantineSync \/ PruneSync
  <2>1. /\ seen' = seen /\ durable' = durable /\ former' = {}
        /\ intact' = intact /\ promised' = promised
    BY <1>20 DEF QuarantineSync, PruneSync, env
  <2> QED BY <1>6, <1>5, <1>3, <2>1
<1>21. CASE PruneEntry
  <2>1. /\ promised = None /\ promised' = None /\ durable' = durable
        /\ former' = former /\ intact' = intact
    BY <1>21 DEF PruneEntry, env, StoreInv, TakenInv
  <2>2. stored' \in {None, Torn}
    BY <1>21, <1>3, <1>2 DEF PruneEntry, LoadOf, Disk
  <2>3. recent' \subseteq recent \cup {Torn}
    <3>1. seen'.dir = seen.dir /\ seen'.snaps \subseteq seen.snaps
      BY <1>21, <1>2 DEF PruneEntry, Disk
    <3>2. seen'.ptr \in {seen.ptr, None}
      BY <1>21, <1>2 DEF PruneEntry, Disk
    <3>3. seen'.cps \in {seen.cps, FALSE}
      BY <1>21, <1>2 DEF PruneEntry, Disk
    <3>4. FoundOf(seen', durable, intact) \subseteq FoundOf(seen, durable, intact) \cup {Torn}
      BY <3>1, <3>2, <3>3 DEF FoundOf, Complete
    <3> QED BY <2>1, <3>4, <1>3
  <2>4. seen'.dir = seen.dir
    BY <1>21, <1>2 DEF PruneEntry, Disk
  <2>5. whole' \subseteq whole
    BY <2>1, <2>4, <1>5
  <2> QED BY <1>7, <2>1, <2>2, <2>3, <2>5
<1>22. CASE SyncProfiles
  <2>1. /\ durable' = [durable EXCEPT !.dir = seen.dir] /\ seen' = seen
        /\ former' = {} /\ intact' = intact /\ promised' = promised
    BY <1>22 DEF SyncProfiles, env
  <2>2. stored' = stored
    BY <2>1, <1>3
  <2>3. recent' \subseteq recent
    <3>1. CASE seen.dir
      BY <2>1, <3>1, <1>3, <1>2 DEF FoundOf, Disk
    <3>2. CASE ~seen.dir
      BY <2>1, <3>2, <1>3, <1>2 DEF FoundOf, Disk
    <3> QED BY <3>1, <3>2
  <2>4. whole' \subseteq whole
    BY <2>1, <1>3, <1>2 DEF LostOf, Disk
  <2> QED BY <1>6, <2>1, <2>2, <2>3, <2>4
<1>23. CASE Damage
  <2>1. /\ seen' = seen /\ durable' = durable /\ former' = former
        /\ intact' = intact \ {seen.ptr} /\ promised' = None
    BY <1>23 DEF Damage
  <2>2. stored' \in {stored, Torn}
    BY <2>1, <1>3, <1>2 DEF LoadOf, Disk
  <2>3. recent' \subseteq recent \cup {Torn}
    BY <2>1, <1>3, <1>2 DEF FoundOf, Complete, Disk
  <2>4. \A d \in former : LoadOf(d, intact') \in {LoadOf(d, intact), Torn}
    BY <2>1 DEF LoadOf
  <2>5. whole' \subseteq whole \cup {Torn}
    BY <2>1, <2>4, <1>3 DEF LostOf
  <2> QED BY <1>8, <2>1, <2>2, <2>3, <2>5
<1>24. CASE ProcessEnds
  BY <1>24, <1>4 DEF ProcessEnds, Stop, disk
<1>25. CASE PowerFails
  <2>1. PICK k \in Kept \cup Undone :
          /\ seen' = k /\ durable' = k /\ former' = {}
          /\ \/ k \in Kept /\ promised' = promised
             \/ k \in Undone /\ promised' = None
    BY <1>25 DEF PowerFails
  <2>2. intact' = intact
    BY <1>25 DEF PowerFails, Stop
  <2>3. stored' = LoadOf(k, intact)
    BY <2>1, <2>2, <1>3
  <2>4. k.dir => stored' # None /\ recent' = {stored'} /\ whole' = {}
    <3>1. ASSUME k.dir PROVE stored' \in Versions \cup {Torn}
      BY <2>1, <2>3, <3>1, <1>2 DEF LoadOf, Disk
    <3>2. ASSUME k.dir PROVE recent' = {stored'}
      BY <2>1, <2>2, <2>3, <3>1, <3>2, <1>3, <1>2
         DEF LoadOf, FoundOf, Complete, Disk
    <3>3. ASSUME k.dir PROVE whole' = {}
      BY <2>1, <3>3, <1>3 DEF LostOf
    <3> QED BY <3>1, <3>2, <3>3
  <2>5. ~k.dir => stored' = None /\ recent' = {} /\ whole' = {None}
    BY <2>1, <2>3, <1>3 DEF LoadOf, FoundOf, LostOf
  <2>6. CASE k \in Kept /\ promised' = promised
    <3>1. k.dir /\ LoadOf(k, intact) \in recent
      BY <2>6, Mapping DEF Kept, KeptOf, Mixed
    <3>2. Register!PowerFailure
      BY <2>3, <2>4, <2>6, <3>1 DEF Register!PowerFailure
    <3> QED BY <3>2 DEF Register!RegNext
  <2>7. CASE k \in Undone /\ promised' = None
    <3>1. LoadOf(k, intact) \in whole
      BY <2>7, Mapping
    <3>2. Register!PowerFailure
      BY <2>3, <2>4, <2>5, <2>7, <3>1 DEF Register!PowerFailure
    <3> QED BY <3>2 DEF Register!RegNext
  <2> QED BY <2>1, <2>6, <2>7
<1>26. CASE UNCHANGED vars
  BY <1>26, <1>4 DEF vars, disk, env
<1> QED BY <1>10, <1>11, <1>12, <1>13, <1>14, <1>15, <1>16, <1>17, <1>18,
  <1>19, <1>20, <1>21, <1>22, <1>23, <1>24, <1>25, <1>26
  DEF Next

LEMMA RefineInit == Init => Register!RegInit
<1> SUFFICES ASSUME Init
             PROVE  Register!RegInit
  OBVIOUS
<1>1. TypeOK
  BY StoreInvInit DEF StoreInv
<1>2. /\ stored = LoadOf(Empty, {})
      /\ recent = FoundOf(Empty, Empty, {})
      /\ whole = LostOf({}, Empty, Empty, {})
  BY <1>1, MappingNow DEF Init
<1>3. stored = None /\ recent = {} /\ whole = {None} /\ promised = None
  BY <1>2, EmptyDisk DEF Init, LoadOf, FoundOf, LostOf
<1> QED BY <1>3 DEF Register!RegInit

\* The store implements the register (commitSnapshot, Quarantine and
\* PruneInactive with the fsyncs they make): a save becomes visible at once, is
\* acknowledged only when no power failure takes it back, and nothing but
\* damage, expiry or the undoing of an unsynced Profile ends what it promises.
THEOREM Implementation == Spec => StoreIsRegister
<1>1. Spec => []StoreInv
  BY Invariance
<1>2. Init => Register!RegInit
  BY RefineInit
<1>3. StoreInv /\ StoreInv' /\ [Next]_vars
        => [Register!RegNext]_(Register!regVars)
  BY RefineStep
<1> QED BY <1>1, <1>2, <1>3, PTL DEF Spec, StoreIsRegister, Register!RegSpec

LEMMA NeverOlderHolds == StoreInv => SavedNeverOlder
<1> SUFFICES ASSUME StoreInv, promised # None,
                    NEW s \in {stored} \cup recent
             PROVE  Register!NotOlder(s, promised)
  BY DEF SavedNeverOlder, Register!NeverOlder
<1>1. TypeOK /\ PromiseInv /\ PointerInv
  BY DEF StoreInv
<1>2. \A p \in Pointers :
        p \in Versions /\ p \in seen.snaps \cap durable.snaps \cap intact
        /\ promised <= p
  BY <1>1 DEF PromiseInv, TypeOK, Disk
<1>3. stored = seen.ptr
  BY <1>1, <1>2, StoreAssumption, MappingNow
     DEF LoadOf, PromiseInv, Pointers, TypeOK, Disk
<1>4. recent \subseteq Pointers
  BY <1>1, <1>2, StoreAssumption, MappingNow
     DEF FoundOf, Complete, PromiseInv, Pointers, TypeOK, Disk
<1> QED BY <1>2, <1>3, <1>4 DEF Register!NotOlder, Pointers

\* What Checkpoint or Create acknowledged is what a later load finds, or
\* something newer, on every disk a power failure may keep of the Profile.
THEOREM NothingSavedIsLost == Spec => []SavedNeverOlder
BY NeverOlderHolds, Invariance, PTL

\* handleOpenError quarantines no Profile whose last save was acknowledged, but
\* for a file it could not read.
THEOREM NoSavedQuarantined == Spec => SavedNotQuarantined
<1>1. StoreInv /\ [Next]_vars
        => [QuarantineMove /\ op.kind = "quarantine" => promised = None]_vars
  BY DEF StoreInv, TakenInv
<1> QED BY <1>1, Invariance, PTL DEF Spec, SavedNotQuarantined

\* A Profile directory that is durable comes after every one that was removed:
\* the fsync of profiles/ that made it so has taken those away.
SyncedInv == durable.dir => former = {}

LEMMA SyncedStep == StoreInv /\ SyncedInv /\ [Next]_vars => SyncedInv'
<1> SUFFICES ASSUME StoreInv, SyncedInv, [Next]_vars
             PROVE  SyncedInv'
  OBVIOUS
<1>1. durable \in Disk
  BY DEF StoreInv, TypeOK
<1>2. CASE former' = {}
  BY <1>2 DEF SyncedInv
<1>3. CASE durable' = Empty
  BY <1>3, EmptyDisk DEF SyncedInv
<1>4. CASE former' = former /\ durable'.dir = durable.dir
  BY <1>4 DEF SyncedInv
<1>5. CASE SyncCheckpoints \/ SyncProfile
  BY <1>1, <1>4, <1>5 DEF SyncCheckpoints, SyncProfile, CommitStep, Disk
<1>6. CASE CleanAndReturn
  BY <1>1, <1>4, <1>6 DEF CleanAndReturn, Disk
<1>7. CASE CommitFails \/ QuarantineMove \/ PruneDirectory
  BY <1>3, <1>4, <1>7 DEF CommitFails, QuarantineMove, PruneDirectory, Leave
<1>8. CASE QuarantineSync \/ PruneSync \/ SyncProfiles \/ PowerFails
  BY <1>2, <1>8 DEF QuarantineSync, PruneSync, SyncProfiles, PowerFails
<1>9. CASE NewStore \/ CloseStore \/ Create \/ Checkpoint \/ Load
           \/ MakeCheckpoints \/ WritePending \/ RenamePending \/ PublishPointer
  BY <1>4, <1>9 DEF NewStore, CloseStore, Create, Checkpoint, Load, MakeCheckpoints,
     WritePending, RenamePending, PublishPointer, CommitStep, disk
<1>10. CASE QuarantineInvalidState \/ QuarantineReport \/ QuarantineFails \/ Prune
            \/ PruneEntry \/ PruneFails \/ GrowOld \/ Damage \/ ProcessEnds
            \/ UNCHANGED vars
  BY <1>4, <1>10 DEF QuarantineInvalidState, QuarantineReport, QuarantineFails, Prune,
     PruneEntry, PruneFails, GrowOld, Damage, ProcessEnds, disk, vars
<1> QED BY <1>5, <1>6, <1>7, <1>8, <1>9, <1>10 DEF Next

\* The last acknowledged version is promised still, and a load finds it or a
\* later one.
PromiseSurvives ==
  promised' = promised /\ stored' \in Versions /\ promised <= stored'

LEMMA SyncedPowerFailure ==
  StoreInv /\ SyncedInv /\ [Next]_vars
    => [PowerFails /\ promised # None /\ durable.dir => PromiseSurvives]_vars
<1> SUFFICES ASSUME StoreInv, SyncedInv, [Next]_vars,
                    PowerFails, promised # None, durable.dir
             PROVE  PromiseSurvives
  OBVIOUS
<1>1. seen \in Disk /\ durable \in Disk /\ seen.dir
  BY DEF StoreInv, TypeOK, PromiseInv
<1>2. Undone = {}
  BY <1>1 DEF Undone, SyncedInv, Disk
<1>3. promised' = promised
  BY <1>2 DEF PowerFails
<1>4. SavedNeverOlder'
  <2>1. StoreInv'
    BY StoreInvStep
  <2> QED BY <2>1, NeverOlderHolds, PTL
<1>5. stored' \in Versions /\ promised' <= stored'
  BY <1>3, <1>4 DEF SavedNeverOlder, Register!NeverOlder, Register!NotOlder
<1> QED BY <1>3, <1>5 DEF PromiseSurvives

\* What commitSnapshot and atomicWriteFile do guarantee of a saved Profile
\* (new_profile shows what they do not): once profiles/ was synced since the
\* Profile directory was made, a power failure leaves the acknowledged version
\* of it, or a later one, for the next load.
THEOREM SyncedProfileSurvives ==
  Spec => [][PowerFails /\ promised # None /\ durable.dir => PromiseSurvives]_vars
<1>1. Init => SyncedInv
  BY EmptyDisk DEF Init, SyncedInv
<1> QED BY <1>1, SyncedStep, SyncedPowerFailure, Invariance, PTL DEF Spec
=============================================================================
