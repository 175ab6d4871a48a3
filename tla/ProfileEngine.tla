---------------------------- MODULE ProfileEngine ----------------------------
(***************************************************************************)
(* The engine that owns one Browser Profile at a time (profile_engine.go): *)
(* it loads a saved Profile into the work directory, runs a Browser on it, *)
(* and saves it before another Profile takes its place.  Every operation   *)
(* runs under engine.mu, so an operation is one step here; inside it each  *)
(* call may fail, and an operator returns the SET of its outcomes.         *)
(* ProfileStore models the store below it; here a save is atomic but its   *)
(* error may hide that it took effect, as CheckpointRegister allows.  A    *)
(* file that cannot be read passes for one that is corrupt, in the store   *)
(* and in the validation of the work directory, and its Profile goes to    *)
(* quarantine, however whole it is.                                        *)
(***************************************************************************)
EXTENDS Naturals

CONSTANTS
  Sessions,     \* Browser Sessions with their epoch
  ProfileOf,    \* the Profile a Session uses: its agent and principal
  Epochs,       \* control epochs
  Images,       \* Browser versions of the images that may run
  Labels,       \* egress labels, standing for the whole generation binding
  None, Torn    \* no Profile; a Profile the store does not accept

VARIABLES
  engine,   \* what the fields of ProfileEngine hold, see EngineState
  stored,   \* the store: the last saved version of each Profile
  stale,    \* Profiles not saved for the retention period
  proved,   \* ghost: the running Browser passed a preflight on the active Profile
  image     \* Browser version and label of the running image

engVars == <<engine, stored, stale, proved, image>>

Profiles == {ProfileOf[s] : s \in Sessions}
Owners == [session : Sessions, epoch : Epochs]

\* A saved Profile: the Browser version and label it was saved under (version
\* 0: a Profile without an environment record) and whether its state is valid.
Saved == [env : Images \cup {0}, label : Labels, valid : BOOLEAN]

ActiveProfile ==
  [profile : Profiles, owner : Owners, exists : BOOLEAN, upgrade : BOOLEAN,
   adopt : BOOLEAN, validated : BOOLEAN, process : BOOLEAN]

EngineState ==
  [active : ActiveProfile \cup {None},
   ops : Owners \cup {None},            \* what the ops observer is shown
   work : SUBSET Profiles,              \* whose plaintext the directory holds
   workValid : BOOLEAN,                 \* ... and whether it is well-formed
   closed : BOOLEAN]

\* An outcome of a call: the engine and the store after it, and whether it
\* returned an error.
Out(e, st, ok) == [engine |-> e, stored |-> st, ok |-> ok]
Ok(e, st) == Out(e, st, TRUE)
Err(e, st) == Out(e, st, FALSE)

\* Mutant of Published: the Browser of an unproved image is observed too.
PublishedEarly(e) ==
  [e EXCEPT !.ops =
     IF ~e.closed /\ e.active # None /\ e.active.process
     THEN e.active.owner ELSE None]

\* Mutant of Published: the whole active Profile is published.
PublishedProfile(e) ==
  [e EXCEPT !.ops =
     IF ~e.closed /\ e.active # None /\ e.active.process /\ e.active.validated
     THEN e.active ELSE None]

\* publishOpsSnapshotLocked
Published(e) ==
  [e EXCEPT !.ops =
     IF ~e.closed /\ e.active # None /\ e.active.process /\ e.active.validated
     THEN e.active.owner ELSE None]

\* Mutant of Reset: the directory is kept.
ResetNothing(e) == e

\* resetProfileWorkDirectory.  Where its error is ignored, the next activation
\* clears the directory again or fails (Cleared).
Reset(e) == [e EXCEPT !.work = {}, !.workValid = TRUE]

\* discardActive: the Profile is let go without a save.
Discarded(e) == Reset([e EXCEPT !.active = None, !.ops = None])

\* A store whose Profile p was moved to quarantine, or could not be.
Quarantined(st, p) == {st, [st EXCEPT ![p] = None]}
-----------------------------------------------------------------------------
(* checkpointActive                                                        *)

\* The save reaches the store: done, refused or failed without a trace, or
\* reported as failed although the new version is there.
SaveOutcomes(e, st) ==
  LET a == e.active
      new == [env |-> image.env, label |-> image.label, valid |-> TRUE]
      saved == [st EXCEPT ![a.profile] = new]
      done == [e EXCEPT !.active.exists = TRUE, !.active.upgrade = FALSE,
                        !.active.validated = TRUE, !.active.adopt = FALSE]
      accepts == IF a.exists THEN st[a.profile] \notin {None, Torn}
                 ELSE st[a.profile] = None
  IN  IF accepts
      THEN {Ok(done, saved), Err(e, saved), Err(e, st),
            Err(e, [st EXCEPT ![a.profile] = IF a.exists THEN None ELSE Torn])}
      ELSE IF a.exists /\ st[a.profile] = Torn
           THEN {Err(e, t) : t \in Quarantined(st, a.profile)}
           ELSE {Err(e, st)}

\* The caller lets go of the saved Profile, or keeps it.
Released(o, retain) ==
  IF ~o.ok \/ retain THEN {o}
  ELSE LET e == [o.engine EXCEPT !.active = None, !.ops = None]
       IN {Ok(Reset(e), o.stored), Err(e, o.stored)}

\* Mutant of MaySave: only the adoption of an environment waits for preflight.
MaySaveUpgrade(a) == a.validated \/ ~a.adopt

\* An upgraded or adopted Profile that no preflight proved is not saved.
MaySave(a) == a.validated \/ ~(a.upgrade \/ a.adopt)

CheckpointActive(e, st, retain) ==
  LET a == e.active
      stopped == [e EXCEPT !.active.process = FALSE,
                           !.ops = IF a.process THEN None ELSE @]
  IN  IF a = None THEN {Ok(e, st)}
      ELSE IF ~MaySave(a)
      THEN {Err(Discarded(e), st)}
           \cup (IF a.upgrade THEN {Ok(Discarded(e), st)} ELSE {})
      ELSE (IF a.process THEN {Err([e EXCEPT !.ops = None], st)} ELSE {})
           \cup {Err(stopped, st)}
           \cup {Err(Reset([stopped EXCEPT !.active = None]), t) :
                   t \in IF a.exists THEN Quarantined(st, a.profile) ELSE {st}}
           \cup (IF e.workValid
                 THEN UNION {Released(o, retain) : o \in SaveOutcomes(stopped, st)}
                 ELSE {})
-----------------------------------------------------------------------------
(* activate                                                                *)

Begun(e, id, exists, upgrade, adopt) ==
  Published([e EXCEPT
    !.active = [profile |-> ProfileOf[id.session], owner |-> id,
                exists |-> exists, upgrade |-> upgrade, adopt |-> adopt,
                validated |-> FALSE, process |-> FALSE],
    !.work = @ \cup {ProfileOf[id.session]},
    !.workValid = TRUE])

\* Profile p was not read, or what was read is not valid.
Refused(engines, st, p) == {Err(e, t) : e \in engines, t \in Quarantined(st, p)}

\* The saved Profile against the running image: mismatched bindings and newer
\* Browsers are refused, a Profile without a record is adopted.
Loaded(e, st, id) ==
  LET p == ProfileOf[id.session]
      s == st[p]
      half == [e EXCEPT !.work = @ \cup {p}]
  IN  CASE s = None -> {Err(e, st), Ok(Begun(e, id, FALSE, FALSE, FALSE), st)}
        [] s = Torn -> Refused({e}, st, p)
        [] s \notin {None, Torn} ->
             {Err(half, st)} \cup Refused({e, Reset(half)}, st, p) \cup
             (IF ~s.valid THEN {}
              ELSE IF s.env = 0 THEN {Ok(Begun(e, id, TRUE, FALSE, TRUE), st)}
              ELSE IF s.label # image.label \/ s.env > image.env
              THEN {Err(Reset(half), st)}
              ELSE {Ok(Begun(e, id, TRUE, image.env > s.env, FALSE), st)})

\* PruneInactive, then the work directory is cleared; both may fail.
Cleared(o) ==
  LET pruned == [p \in Profiles |-> IF p \in stale THEN None ELSE o.stored[p]]
  IN {Err(o.engine, o.stored), Err(o.engine, pruned), Ok(Reset(o.engine), pruned)}

Activate(id) ==
  LET a == engine.active
      left == CheckpointActive(engine, stored, FALSE)
      cleared == {o \in left : ~o.ok} \cup
                 UNION {Cleared(o) : o \in {l \in left : l.ok}}
  IN  IF a # None /\ a.profile = ProfileOf[id.session]
         /\ a.owner.session = id.session
      THEN {Ok(Published([engine EXCEPT !.active.owner = id]), stored)}
      ELSE {o \in cleared : ~o.ok} \cup
           UNION {Loaded(o.engine, o.stored, id) : o \in {c \in cleared : c.ok}}
-----------------------------------------------------------------------------
(* Execute                                                                 *)

\* ensureProcess: the Browser runs.
WithProcess(e) ==
  IF e.active.process THEN e ELSE Published([e EXCEPT !.active.process = TRUE])

\* A Browser that acts may leave state the validator refuses.
Acted(e) == {e, [e EXCEPT !.workValid = FALSE]}

\* upgradeFailure: a Browser that fails its first preflight on a Profile of an
\* older version is dropped, and the saved Profile stays as it was.
UpgradeFailure(e, st) == {Err(IF e.active.upgrade THEN Discarded(e) ELSE e, st)}

Preflight(e, st) ==
  LET checked == Published([WithProcess(e) EXCEPT !.active.validated = TRUE])
  IN  UpgradeFailure(e, st) \cup UpgradeFailure(WithProcess(e), st)
      \cup {Err(Discarded(e), st)}
      \cup (IF checked.active.exists THEN {Ok(checked, st)}
            ELSE UNION {IF ~o.ok THEN {o}
                        ELSE {Ok(WithProcess(o.engine), o.stored),
                              Err(WithProcess(o.engine), o.stored), Err(o.engine, o.stored)}
                          : o \in CheckpointActive(checked, st, TRUE)})

\* Both run the Browser's own checkpoint before the engine's.
Checkpointed(e, st, retain) ==
  {Err(e, st)} \cup CheckpointActive(e, st, retain)

Run(kind, e, st) ==
  CASE kind = "preflight" -> Preflight(e, st)
    [] kind = "checkpoint" -> {Err(e, st)} \cup Checkpointed(WithProcess(e), st, TRUE)
    [] kind = "close" -> Checkpointed(e, st, FALSE)
    [] kind = "act" -> {Err(e, st)} \cup
         {Out(f, st, ok) : f \in Acted(WithProcess(e)), ok \in BOOLEAN}

\* A close of another attachment than the active one changes nothing.
ForeignClose(kind, id) ==
  kind = "close" /\ (engine.active = None \/ engine.active.owner # id)

Became(o) ==
  /\ engine' = o.engine
  /\ stored' = o.stored
  /\ stale' = {p \in stale : o.stored[p] = stored[p]}

\* The environment of the preflight matched the image's.
Proves(kind, before, r) ==
  /\ kind = "preflight" /\ r.engine.active # None
  /\ r.ok \/ (r.engine.active.validated /\ ~before.active.validated)

SameActivation(e) ==
  engine.active # None /\ e.active # None
  /\ e.active.owner.session = engine.active.owner.session

Execute ==
  /\ ~engine.closed
  /\ \E id \in Owners, kind \in {"preflight", "checkpoint", "close", "act"} :
       /\ ~ForeignClose(kind, id)
       /\ \E o \in Activate(id) :
            IF ~o.ok
            THEN Became(o) /\ proved' = (proved /\ SameActivation(o.engine))
            ELSE \E r \in Run(kind, o.engine, o.stored) :
                   /\ Became(r)
                   /\ proved' = (Proves(kind, o.engine, r)
                                  \/ (proved /\ SameActivation(r.engine)))
  /\ UNCHANGED image

\* ExecuteViewer: a human of the active attachment takes over with a later
\* epoch, and stays with that epoch.
ExecuteViewer ==
  /\ ~engine.closed /\ engine.active # None /\ engine.active.process
  /\ \E id \in Owners :
       /\ id.session = engine.active.owner.session
       /\ id.epoch >= engine.active.owner.epoch
       /\ \E e \in Acted(Published([engine EXCEPT !.active.owner = id])) : engine' = e
  /\ UNCHANGED <<stored, stale, proved, image>>

\* AbortActive, called by the backend selector.
AbortActive ==
  /\ ~engine.closed
  /\ engine' = Discarded(engine)
  /\ proved' = FALSE
  /\ UNCHANGED <<stored, stale, image>>

\* Close saves the active Profile and removes the work directory.
Close ==
  /\ ~engine.closed
  /\ \E o \in CheckpointActive([engine EXCEPT !.closed = TRUE, !.ops = None],
                               stored, FALSE) :
       Became([o EXCEPT !.engine = Reset(o.engine)])
  /\ UNCHANGED <<proved, image>>

\* The Runtime ends and starts again, perhaps with another image: the work
\* directory is cleared (NewProfileEngine) and what was not saved is lost.
Restart ==
  /\ image' \in [env : Images, label : Labels]
  /\ engine' = [active |-> None, ops |-> None, work |-> {},
                workValid |-> TRUE, closed |-> FALSE]
  /\ proved' = FALSE
  /\ UNCHANGED <<stored, stale>>

\* Time passes without a save.
GrowStale ==
  /\ \E p \in Profiles \ stale : stored[p] # None /\ stale' = stale \cup {p}
  /\ UNCHANGED <<engine, stored, proved, image>>

EngInit ==
  /\ engine = [active |-> None, ops |-> None, work |-> {},
               workValid |-> TRUE, closed |-> FALSE]
  /\ stored \in [Profiles -> {None, Torn}
                   \cup [env : {0}, label : Labels, valid : BOOLEAN]]
  /\ stale = {}
  /\ proved = FALSE
  /\ image \in [env : Images, label : Labels]

EngNext ==
  \/ Execute
  \/ ExecuteViewer
  \/ AbortActive
  \/ Close
  \/ Restart
  \/ GrowStale

EngSpec == EngInit /\ [][EngNext]_engVars
-----------------------------------------------------------------------------
(* Properties.                                                             *)

EngTypeOK ==
  /\ engine \in EngineState
  /\ stored \in [Profiles -> Saved \cup {None, Torn}]
  /\ stale \subseteq Profiles
  /\ proved \in BOOLEAN
  /\ image \in [env : Images, label : Labels]

\* The plaintext of one Profile is never in the work directory of another.
WorkOfActive ==
  engine.active # None => engine.work \subseteq {engine.active.profile}

\* The ops observer is shown only the Browser that runs for the present owner,
\* and none that upgrades or adopts a Profile before its preflight passed.
ObservedIsActive ==
  engine.ops # None =>
    /\ engine.active # None
    /\ engine.ops = engine.active.owner
    /\ engine.active.process
    /\ (engine.active.upgrade \/ engine.active.adopt) => proved

IsSaved(s) == s \notin {None, Torn}

\* A saved Profile is overwritten under another Browser version only after
\* that version passed a preflight on it, and never by an older one: upgrades
\* that fail, downgrades and restarts of either image keep what was saved
\* (what expired is gone before the new Profile is begun).
UpgradeProved == [][
  \A p \in Profiles \ stale :
    (IsSaved(stored[p]) /\ IsSaved(stored'[p]) /\ stored'[p].env # stored[p].env)
      => proved /\ stored'[p].env > stored[p].env]_engVars
=============================================================================
