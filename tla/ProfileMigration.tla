--------------------------- MODULE ProfileMigration ---------------------------
(***************************************************************************)
(* The offline conversion of one Profile from a store of contract 1 to a   *)
(* new store of contract 2 (migration.go, migration_linux.go,              *)
(* migration_fs_linux.go).  A marker in the new store keeps the Runtime    *)
(* out until the copy, its retention time and a receipt are durable;       *)
(* "finalize" resumes an execution that was cut off after its receipt,     *)
(* "check" only looks.  The tool may be killed and the power may fail      *)
(* between any two steps; the old store keeps working in between.          *)
(***************************************************************************)
EXTENDS Naturals

CONSTANTS
  MaxVersion,   \* bound: versions the old store saves
  MaxFaults,    \* bound: steps of the tool that fail or are killed
  MaxCrashes    \* bound: power failures

VARIABLES
  source,    \* version of the Profile in the old store; the request names 1
  target,    \* the new store as programs see it
  synced,    \* ... and as a power failure may leave it
  tool,      \* the migration: mode, where it is, what it has verified
  runtime,   \* whether the Runtime works on the new store
  expired,   \* the retention time of the request lies further back than a request may
  faults, crashes

migVars == <<source, target, synced, tool, runtime, expired, faults, crashes>>

\* The Profile of the new store: half written, a copy of version v of the
\* source, without or with its retention time, or what the Runtime has made of
\* it since ("advanced").
NoCopy == [state |-> "none", of |-> 0]
Copy(state, v) == [state |-> state, of |-> v]
Copies == [state : {"none", "partial", "copied", "retained", "advanced"},
           of : 0..MaxVersion]
Store == [published : BOOLEAN, marker : BOOLEAN, profile : Copies, receipt : BOOLEAN]
Nothing == [published |-> FALSE, marker |-> FALSE, profile |-> NoCopy, receipt |-> FALSE]

Idle == [mode |-> "-", at |-> "idle"]
At(step) == tool.at = step
Go(step) == tool' = [tool EXCEPT !.at = step]
Same == UNCHANGED <<runtime, expired, crashes, faults>>

\* migrationMarkerGuard: what NewStore opens.
Usable(s) == s.published /\ ~s.marker

\* openMigrationSnapshot and verify: the source is the one of the request.
SourceAsRequested == source = 1

\* verifyMigrationSource, after the key and the lock: the same again.
SourceUnchanged == SourceAsRequested

-----------------------------------------------------------------------------
(* Both stores are locked from here to the end of the call.                *)

\* migrationLock: the old store is closed to its Runtime during a call.
SourceUnlocked == At("idle")

\* validateMigrationRequest, whatever the mode: a retention time of more than
\* thirty days ago is refused.  The source must be the one of the request.
Open(mode) ==
  /\ At("idle") /\ ~expired /\ SourceAsRequested
  /\ mode # "execute" => target.published /\ ~runtime
  /\ tool' = [mode |-> mode, at |-> "opened"]
  /\ UNCHANGED <<source, target, synced>> /\ Same

\* reserveMigration: a directory with marker and lock is synchronised, then
\* renamed to its place unless something is there; the parent comes last.
Reserve ==
  /\ At("opened") /\ tool.mode = "execute"
  /\ ~target.published
  /\ target' = [Nothing EXCEPT !.published = TRUE, !.marker = TRUE]
  /\ synced' \in {[Nothing EXCEPT !.marker = TRUE], target'}
  /\ Go(IF synced'.published THEN "reserved" ELSE "failed")
  /\ UNCHANGED source /\ Same

\* Create of the reserved store, reading the source; failures keep the part.
Convert ==
  /\ At("reserved")
  /\ \/ target' = [target EXCEPT !.profile = Copy("copied", source)] /\ Go("converted")
     \/ target' = [target EXCEPT !.profile = Copy("partial", source)] /\ Go("failed")
  /\ UNCHANGED <<source, synced>> /\ Same

\* The copy is decrypted and compared, the source looked at again, the time
\* set, and the inventory checked.
Retain ==
  /\ At("converted") /\ SourceUnchanged
  /\ target' = [target EXCEPT !.profile.state = "retained"]
  /\ Go("retained")
  /\ UNCHANGED <<source, synced>> /\ Same

WriteReceipt ==
  /\ At("retained")
  /\ target' = [target EXCEPT !.receipt = TRUE]
  /\ Go("receipted")
  /\ UNCHANGED <<source, synced>> /\ Same

\* Mutant of Verify: finalize stops where check does.
VerifyOnly ==
  /\ At("opened") /\ tool.mode \in {"check", "finalize"}
  /\ target.receipt /\ target.profile = Copy("retained", source)
  /\ Go("done")
  /\ UNCHANGED <<source, target, synced>> /\ Same

\* verifyMigration: the target carries the receipt of this operation and the
\* very copy it describes.
Verify ==
  /\ At("opened") /\ tool.mode \in {"check", "finalize"}
  /\ target.receipt /\ target.profile = Copy("retained", source)
  /\ SourceUnchanged
  /\ Go(IF tool.mode = "finalize" /\ target.marker THEN "receipted" ELSE "done")
  /\ UNCHANGED <<source, target, synced>> /\ Same

\* Mutant of TreeSynced: the Profile is left to the store's own writes.
TreeSyncedNot == [target EXCEPT !.profile = synced.profile]

\* What syncMigrationTree makes durable.
TreeSynced == target

SyncTree ==
  /\ At("receipted")
  /\ synced' = TreeSynced
  /\ Go(IF tool.mode = "execute" THEN "durable" ELSE "checked")
  /\ UNCHANGED <<source, target>> /\ Same

\* An execution looks at the source once more.
CheckSourceAgain ==
  /\ At("durable") /\ SourceUnchanged
  /\ Go("checked")
  /\ UNCHANGED <<source, target, synced>> /\ Same

\* activateMigration: the marker goes, last of all.
Activate ==
  /\ At("checked")
  /\ target' = [target EXCEPT !.marker = FALSE]
  /\ Go("activated")
  /\ UNCHANGED <<source, synced>> /\ Same

SyncActivation ==
  /\ At("activated")
  /\ synced' = target
  /\ Go("done")
  /\ UNCHANGED <<source, target>> /\ Same

\* The call returns and the locks are free; nothing is removed.
Return ==
  /\ tool.at \in {"done", "failed"}
  /\ tool' = Idle
  /\ UNCHANGED <<source, target, synced>> /\ Same

\* A precondition that does not hold ends the call.
Reject ==
  /\ \/ At("opened") /\ tool.mode = "execute" /\ target.published
     \/ /\ At("opened") /\ tool.mode # "execute"
        /\ ~(target.receipt /\ target.profile = Copy("retained", source))
  /\ Go("failed")
  /\ UNCHANGED <<source, target, synced>> /\ Same

\* A step fails, the context ends, or the tool is killed: the rest is not done.
Interrupt ==
  /\ ~At("idle") /\ faults < MaxFaults
  /\ tool' = Idle /\ faults' = faults + 1
  /\ UNCHANGED <<source, target, synced, runtime, expired, crashes>>
-----------------------------------------------------------------------------
(* The world around the tool.                                              *)

\* A Runtime opens the old store, saves a checkpoint and ends.
UseSource ==
  /\ SourceUnlocked /\ source < MaxVersion
  /\ source' = source + 1
  /\ UNCHANGED <<target, synced, tool>> /\ Same

StartRuntime ==
  /\ At("idle") /\ ~runtime /\ Usable(target)
  /\ runtime' = TRUE
  /\ UNCHANGED <<source, target, synced, tool, expired, faults, crashes>>

\* The Runtime saves in the new store, with the store's own synchronisation.
UseTarget ==
  /\ runtime
  /\ target' = [target EXCEPT !.profile = Copy("advanced", 0)]
  /\ synced' = [synced EXCEPT !.profile = Copy("advanced", 0)]
  /\ UNCHANGED <<source, tool>> /\ Same

StopRuntime ==
  /\ runtime /\ runtime' = FALSE
  /\ UNCHANGED <<source, target, synced, tool, expired, faults, crashes>>

\* migrationRetention passes; a call that has been admitted goes on.
RetentionPasses ==
  /\ ~expired /\ expired' = TRUE
  /\ UNCHANGED <<source, target, synced, tool, runtime, faults, crashes>>

\* Of what was not synchronised, a power failure keeps some and loses some.
PowerFails ==
  /\ crashes < MaxCrashes /\ crashes' = crashes + 1
  /\ target' \in {s \in Store : \A item \in DOMAIN s :
                    s[item] \in {target[item], synced[item]}}
  /\ synced' = target'
  /\ tool' = Idle /\ runtime' = FALSE
  /\ UNCHANGED <<source, expired, faults>>

MigInit ==
  /\ source = 1
  /\ target = Nothing /\ synced = Nothing
  /\ tool = Idle /\ runtime = FALSE /\ expired = FALSE
  /\ faults = 0 /\ crashes = 0

ToolStep ==
  \/ Reserve \/ Convert \/ Retain \/ WriteReceipt \/ Verify
  \/ SyncTree \/ CheckSourceAgain \/ Activate \/ SyncActivation \/ Return \/ Reject

MigNext ==
  \/ \E mode \in {"execute", "check", "finalize"} : Open(mode)
  \/ ToolStep \/ Interrupt
  \/ UseSource \/ StartRuntime \/ UseTarget \/ StopRuntime
  \/ RetentionPasses \/ PowerFails

\* The operator finalizes again until it worked.
MigFairness == WF_migVars(ToolStep) /\ SF_migVars(Open("finalize"))

MigSpec == MigInit /\ [][MigNext]_migVars /\ MigFairness
-----------------------------------------------------------------------------
MigTypeOK ==
  /\ source \in 1..MaxVersion
  /\ target \in Store /\ synced \in Store
  /\ tool \in [mode : {"-", "execute", "check", "finalize"},
               at : {"idle", "opened", "reserved", "converted", "retained",
                     "receipted", "durable", "checked", "activated", "done",
                     "failed"}]
  /\ {runtime, expired} \subseteq BOOLEAN
  /\ faults \in 0..MaxFaults /\ crashes \in 0..MaxCrashes

\* Whatever was cut off and wherever the power failed, a store the Runtime may
\* open holds the whole Profile with its retention time.
UsableIsWhole ==
  Usable(target) => target.profile.state \in {"retained", "advanced"}

\* The marker is removed only as long as the old store has not gone on: no
\* saved state is left behind in it by a late finalize.
NothingLeftBehind ==
  (target.published /\ target.marker /\ Usable(target'))
    => source = target.profile.of \/ crashes' # crashes

\* Both, of every step; the new store is not usable at first.
MigrationKeeps == [][UsableIsWhole' /\ NothingLeftBehind]_migVars

\* An execution that was cut off after its receipt and its copy became durable
\* is brought to its end by finalize, unless the old store was used since, the
\* retention window has closed, or a Runtime has worked in the new store.  The
\* last is a dead end: the marker goes, a Runtime saves, a power failure brings
\* the marker back, and finalize refuses the advanced Profile for ever.
FinalizeCompletes ==
  (synced.published /\ synced.receipt /\ synced.profile = Copy("retained", 1))
    ~> (~target.marker \/ source # 1 \/ expired \/ target.profile.state = "advanced")
=============================================================================
