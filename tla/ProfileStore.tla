---------------------------- MODULE ProfileStore ----------------------------
(***************************************************************************)
(* The encrypted store of one Profile (browserprofile/store.go, payload.go)*)
(* down to the directories it writes: <root>/profiles/<digest> holds the   *)
(* pointer current.json and the directory checkpoints/, which holds one    *)
(* directory per committed snapshot.  Every operation runs under store.mu, *)
(* so steps of two operations never interleave; a failed system call, the  *)
(* end of the process and a power failure can come between any two of them.*)
(*                                                                         *)
(* What a system call wrote is `seen`; what a power failure cannot take    *)
(* away is `durable`, which an fsync of the directory brings up to date.   *)
(* A power failure keeps, entry by entry, the one or the other, or brings  *)
(* back a `former` Profile directory whose removal was not synced.         *)
(***************************************************************************)
EXTENDS Naturals, FiniteSets

CONSTANTS
  Versions,     \* payloads in the order the engine hands them to the store
  None, Torn,   \* see CheckpointRegister
  MaxFaults,    \* bound on failed system calls and on damage to the medium
  MaxCrashes    \* bound on process ends and power failures

ASSUME StoreAssumption ==
  /\ Versions \subseteq Nat
  /\ None \notin Versions /\ Torn \notin Versions /\ None # Torn
  /\ MaxFaults \in Nat /\ MaxCrashes \in Nat

VARIABLES
  seen,       \* directory entries as the running system sees them
  durable,    \* the same as the last fsync of each directory left them
  former,     \* directories removed since profiles/ was last synced
  intact,     \* snapshots whose metadata and payload authenticate
  op,         \* the operation under way: its kind and the step it is at
  version,    \* the payload it saves, or None
  used,       \* payloads handed to the store so far
  result,     \* what the last operation returned
  promised,   \* ghost: the version whose save was acknowledged last
  old,        \* the pointer was not written since the retention period
  open,       \* the process holds the manager lock
  faults, crashes

disk == <<seen, durable, former, intact>>
call == <<op, version, used, result>>
env == <<promised, old, open, faults, crashes>>
vars == <<disk, call, env>>

Disk == [dir : BOOLEAN,                     \* entry of the Profile in profiles/
         cps : BOOLEAN,                     \* entry checkpoints/
         ptr : Versions \cup {None},        \* entry current.json
         snaps : SUBSET Versions]           \* entries of checkpoints/

Empty == [dir |-> FALSE, cps |-> FALSE, ptr |-> None, snaps |-> {}]

\* What openSnapshot and the decryption of the payload make of a disk.
Loadable(d) ==
  IF ~d.dir THEN None
  ELSE IF d.ptr # None /\ d.cps /\ d.ptr \in d.snaps \cap intact THEN d.ptr
  ELSE Torn

\* The disks a power failure may leave: each entry as seen or as durable ...
Mixed ==
  [dir : {seen.dir, durable.dir},
   cps : {seen.cps, durable.cps},
   ptr : {seen.ptr, durable.ptr},
   snaps : {s \in SUBSET (seen.snaps \cup durable.snaps) :
              (seen.snaps \cap durable.snaps) \subseteq s}]

\* ... of this Profile directory, ...
Kept == {d \in Mixed : d.dir}

\* ... or none of it.
Undone == former \cup (IF FALSE \in {seen.dir, durable.dir} THEN {Empty} ELSE {})

\* The Profile directory leaves profiles/, which is not synced yet.
Leave ==
  /\ seen' = Empty /\ durable' = Empty
  /\ former' = former \cup Kept

Kinds == {"idle", "create", "checkpoint", "load", "quarantine", "discard",
          "prune"}
Steps == {"-", "checkpoints", "write", "rename", "syncCheckpoints", "pointer",
          "syncProfile", "clean", "move", "syncMove", "report", "remove",
          "syncRemoved"}
Results == {"-", "ok", "exists", "notFound", "corrupt", "quarantined", "error"}

Idle == [kind |-> "idle", at |-> "-"]
At(step) == op.at = step
Saving == op.kind \in {"create", "checkpoint"}

\* Of a Profile that does not load ("quarantine"), or that would, had it been
\* read or found valid ("discard").
Quarantining == op.kind \in {"quarantine", "discard"}

\* Mutant of After: the old snapshots go before the pointer is durable.
AfterCleanFirst(step) ==
  CASE step = "checkpoints" -> "write"
    [] step = "write" -> "rename"
    [] step = "rename" -> "syncCheckpoints"
    [] step = "syncCheckpoints" -> "pointer"
    [] step = "pointer" -> "clean"
    [] step = "syncProfile" -> "clean"

\* Mutant of After: the snapshot is published before checkpoints/ is synced.
AfterPointerFirst(step) ==
  CASE step = "checkpoints" -> "write"
    [] step = "write" -> "rename"
    [] step = "rename" -> "pointer"
    [] step = "syncCheckpoints" -> "pointer"
    [] step = "pointer" -> "syncProfile"
    [] step = "syncProfile" -> "clean"

\* The order in which commitSnapshot publishes a snapshot.
After(step) ==
  CASE step = "checkpoints" -> "write"
    [] step = "write" -> "rename"
    [] step = "rename" -> "syncCheckpoints"
    [] step = "syncCheckpoints" -> "pointer"
    [] step = "pointer" -> "syncProfile"
    [] step = "syncProfile" -> "clean"

Go(kind, step) == op' = [kind |-> kind, at |-> step]
Return(r) == op' = Idle /\ result' = r /\ version' = None

\* The n-th payload is the n-th version: a later save has a later payload.
NextVersion == {v \in Versions \ used : \A w \in Versions \ used : v <= w}

Init ==
  /\ seen = Empty /\ durable = Empty /\ former = {} /\ intact = {}
  /\ op = Idle /\ version = None /\ used = {} /\ result = "-"
  /\ promised = None /\ old = FALSE /\ open = FALSE
  /\ faults = 0 /\ crashes = 0

\* A system call fails, or the medium does.
Fault == faults < MaxFaults /\ faults' = faults + 1
-----------------------------------------------------------------------------
(* Opening and closing the store.                                          *)

\* NewStore: the private directories exist and the manager lock is ours.
NewStore ==
  /\ ~open
  /\ open' = TRUE
  /\ UNCHANGED <<disk, call, promised, old, faults, crashes>>

CloseStore ==
  /\ open /\ op = Idle
  /\ open' = FALSE
  /\ UNCHANGED <<disk, call, promised, old, faults, crashes>>
-----------------------------------------------------------------------------
(* Create and Checkpoint.                                                  *)

\* Create refuses a Profile directory that exists, or makes it.
Create ==
  /\ open /\ op = Idle
  /\ \E v \in NextVersion :
       /\ used' = used \cup {v}
       /\ IF seen.dir
          THEN Return("exists") /\ UNCHANGED seen
          ELSE /\ seen' = [Empty EXCEPT !.dir = TRUE]
               /\ Go("create", "checkpoints")
               /\ version' = v
               /\ UNCHANGED result
  /\ UNCHANGED <<durable, former, intact, env>>

Quarantine(kind) == Go(kind, "move") /\ version' = None /\ UNCHANGED result

\* Checkpoint and Load open and authenticate the snapshot the pointer names.
\* A file that cannot be read passes for one that is corrupt, and a whole
\* Profile goes to quarantine; a missing key generation, and an error of the
\* caller's writer, are errors.
OpenThen(Proceed) ==
  \/ /\ CASE Loadable(seen) = None -> Return("notFound")
           [] Loadable(seen) = Torn -> Quarantine("quarantine")
           [] OTHER -> Proceed
     /\ UNCHANGED faults
  \/ /\ Loadable(seen) \in Versions /\ Fault
     /\ Quarantine("discard")
  \/ Return("error") /\ Fault

Checkpoint ==
  /\ open /\ op = Idle
  /\ \E v \in NextVersion :
       /\ used' = used \cup {v}
       /\ OpenThen(Go("checkpoint", "checkpoints") /\ version' = v
                     /\ UNCHANGED result)
  /\ UNCHANGED <<disk, promised, old, open, crashes>>

Load ==
  /\ open /\ op = Idle
  /\ OpenThen(Return("ok"))
  /\ UNCHANGED <<disk, used, promised, old, open, crashes>>

\* A step of commitSnapshot that succeeds.
CommitStep(step) ==
  /\ Saving /\ At(step)
  /\ Go(op.kind, After(step))
  /\ UNCHANGED <<former, version, used, result, promised, open, faults, crashes>>

MakeCheckpoints ==
  /\ CommitStep("checkpoints")
  /\ seen' = [seen EXCEPT !.cps = TRUE]
  /\ UNCHANGED <<durable, intact, old>>

\* The pending directory is written and synced, file by file and as a whole.
WritePending ==
  /\ CommitStep("write")
  /\ intact' = intact \cup {version}
  /\ UNCHANGED <<seen, durable, old>>

RenamePending ==
  /\ CommitStep("rename")
  /\ seen' = [seen EXCEPT !.snaps = @ \cup {version}]
  /\ UNCHANGED <<durable, intact, old>>

SyncCheckpoints ==
  /\ CommitStep("syncCheckpoints")
  /\ durable' = [durable EXCEPT !.snaps = seen.snaps]
  /\ UNCHANGED <<seen, intact, old>>

\* atomicWriteFile: the rename of the temporary pointer.
PublishPointer ==
  /\ CommitStep("pointer")
  /\ seen' = [seen EXCEPT !.ptr = version]
  /\ old' = FALSE
  /\ UNCHANGED <<durable, intact>>

SyncProfile ==
  /\ CommitStep("syncProfile")
  /\ durable' = [durable EXCEPT !.ptr = seen.ptr, !.cps = seen.cps]
  /\ UNCHANGED <<seen, intact, old>>

\* removeOldCheckpoints ignores every error, its fsync's included.
CleanAndReturn ==
  /\ Saving /\ At("clean")
  /\ \E keep \in SUBSET seen.snaps :
       /\ version \in keep
       /\ seen' = [seen EXCEPT !.snaps = keep]
       /\ durable' \in {durable, [durable EXCEPT !.snaps = keep]}
  /\ promised' = version
  /\ Return("ok")
  /\ UNCHANGED <<former, intact, used, old, open, faults, crashes>>

\* A step fails.  Before the pointer is published the snapshot is removed
\* again, by Create with the Profile directory; the removals may fail too.
\* After it nothing is undone, and the caller gets the error all the same.
CommitFails ==
  /\ Saving /\ op.at # "clean" /\ Fault
  /\ \/ UNCHANGED <<seen, durable, former>>
     \/ /\ op.at # "syncProfile"
        /\ IF op.kind = "create" THEN Leave
           ELSE /\ seen' = [seen EXCEPT !.snaps = @ \ {version}]
                /\ UNCHANGED <<durable, former>>
  /\ Return("error")
  /\ UNCHANGED <<intact, used, promised, old, open, crashes>>
-----------------------------------------------------------------------------
(* Quarantine.                                                             *)

\* The engine found the decrypted state of the loaded Profile invalid.
QuarantineInvalidState ==
  /\ open /\ op = Idle /\ seen.dir /\ Fault
  /\ Quarantine("discard")
  /\ UNCHANGED <<disk, used, promised, old, open, crashes>>

\* The Profile directory is renamed into quarantine/.
QuarantineMove ==
  /\ Quarantining /\ At("move")
  /\ Leave
  /\ promised' = IF op.kind = "discard" THEN None ELSE promised
  /\ Go(op.kind, "syncMove")
  /\ UNCHANGED <<intact, version, used, result, old, open, faults, crashes>>

\* profiles/ and quarantine/ are synced.
QuarantineSync ==
  /\ Quarantining /\ At("syncMove")
  /\ former' = {}
  /\ Go(op.kind, "report")
  /\ UNCHANGED <<seen, durable, intact, version, used, result, env>>

\* Checksums, report and read-only modes.
QuarantineReport ==
  /\ Quarantining /\ At("report")
  /\ Return("quarantined")
  /\ UNCHANGED <<disk, used, env>>

\* The cause is returned with the error of the quarantine.
QuarantineFails ==
  /\ Quarantining /\ Fault
  /\ Return("corrupt")
  /\ UNCHANGED <<disk, used, promised, old, open, crashes>>
-----------------------------------------------------------------------------
(* PruneInactive.                                                          *)

\* A well-formed Profile (its metadata is read, its payload is not) whose
\* pointer is older than the retention period is removed ...
Prune ==
  /\ open /\ op = Idle /\ old
  /\ seen.dir /\ seen.cps /\ seen.ptr # None /\ seen.ptr \in seen.snaps
  /\ Go("prune", "remove")
  /\ promised' = None
  /\ UNCHANGED <<disk, version, used, result, old, open, faults, crashes>>

\* ... entry by entry (RemoveAll), the directory last, ...
PruneEntry ==
  /\ op.kind = "prune" /\ At("remove")
  /\ seen' \in {[seen EXCEPT !.ptr = None],
                [seen EXCEPT !.snaps = {}],
                [seen EXCEPT !.cps = FALSE, !.snaps = {}]} \ {seen}
  /\ UNCHANGED <<durable, former, intact, call, env>>

PruneDirectory ==
  /\ op.kind = "prune" /\ At("remove")
  /\ seen.ptr = None /\ ~seen.cps
  /\ Leave
  /\ Go("prune", "syncRemoved")
  /\ UNCHANGED <<intact, version, used, result, env>>

\* ... and profiles/ is synced.
PruneSync ==
  /\ op.kind = "prune" /\ At("syncRemoved")
  /\ former' = {}
  /\ Return("ok")
  /\ UNCHANGED <<seen, durable, intact, used, env>>

PruneFails ==
  /\ op.kind = "prune" /\ Fault
  /\ Return("error")
  /\ UNCHANGED <<disk, used, promised, old, open, crashes>>
-----------------------------------------------------------------------------
(* The environment.                                                        *)

\* The quarantine or the expiry of another Profile syncs profiles/.
SyncProfiles ==
  /\ open /\ op = Idle
  /\ durable' = [durable EXCEPT !.dir = seen.dir]
  /\ former' = {}
  /\ UNCHANGED <<seen, intact, call, env>>

\* The retention period passes.
GrowOld ==
  /\ op = Idle /\ ~old /\ seen.ptr # None
  /\ old' = TRUE
  /\ UNCHANGED <<disk, call, promised, open, faults, crashes>>

\* A committed snapshot no longer authenticates.
Damage ==
  /\ op = Idle /\ seen.ptr \in intact /\ Fault
  /\ intact' = intact \ {seen.ptr}
  /\ promised' = None
  /\ UNCHANGED <<seen, durable, former, call, old, open, crashes>>

Stop ==
  /\ crashes < MaxCrashes /\ crashes' = crashes + 1
  /\ open' = FALSE /\ op' = Idle /\ version' = None /\ result' = "-"
  /\ UNCHANGED <<intact, used, old, faults>>

\* The process ends: the kernel keeps what was written and drops the lock.
ProcessEnds == open /\ Stop /\ UNCHANGED <<seen, durable, former, promised>>

PowerFails ==
  /\ Stop
  /\ \E d \in Kept \cup Undone :
       /\ seen' = d /\ durable' = d /\ former' = {}
       /\ \/ d \in Kept /\ UNCHANGED promised
          \/ d \in Undone /\ promised' = None

Next ==
  \/ NewStore \/ CloseStore
  \/ Create \/ Checkpoint \/ Load
  \/ MakeCheckpoints \/ WritePending \/ RenamePending \/ SyncCheckpoints
  \/ PublishPointer \/ SyncProfile \/ CleanAndReturn \/ CommitFails
  \/ QuarantineInvalidState \/ QuarantineMove \/ QuarantineSync
  \/ QuarantineReport \/ QuarantineFails
  \/ Prune \/ PruneEntry \/ PruneDirectory \/ PruneSync \/ PruneFails
  \/ SyncProfiles \/ GrowOld \/ Damage \/ ProcessEnds \/ PowerFails

Spec == Init /\ [][Next]_vars
-----------------------------------------------------------------------------
(* Properties.                                                             *)

TypeOK ==
  /\ {seen, durable} \cup former \subseteq Disk
  /\ intact \cup used \subseteq Versions
  /\ op \in [kind : Kinds, at : Steps]
  /\ {version, promised} \subseteq Versions \cup {None}
  /\ result \in Results
  /\ old \in BOOLEAN /\ open \in BOOLEAN
  /\ faults \in 0..MaxFaults /\ crashes \in 0..MaxCrashes

\* The refinement mapping: the register shows what a load would return, and
\* may fall back to what a load would return after a power failure.
stored == Loadable(seen)
recent == {Loadable(d) : d \in Kept}
whole == {Loadable(d) : d \in Undone}

Register == INSTANCE CheckpointRegister

\* The store implements the register: a save is atomic under failed calls,
\* process ends and power failures, acknowledged only when it is safe, and
\* a Profile with an acknowledged save never reads as torn or as an older one.
StoreIsRegister == Register!RegSpec

\* Whatever a power failure keeps of a Profile with an acknowledged save, a load
\* then finds that version or a later one, never a torn Profile.
SavedNeverOlder == Register!NeverOlder

\* A power failure does not undo a Profile whose first save was acknowledged,
\* which the engine makes so that it may call the Profile durable.
DurableOnceSaved == [][PowerFails /\ promised # None => stored' # None]_vars

\* A Profile whose last save was acknowledged does not read as torn: it is moved
\* to quarantine only when an open could not read it, or the engine found its
\* state invalid.  What is quarantined for what it is was never saved, or was
\* damaged, whatever failed, ended or lost power before.
SavedNotQuarantined ==
  [][QuarantineMove /\ op.kind = "quarantine" => promised = None]_vars
=============================================================================
