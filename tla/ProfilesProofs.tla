--------------------------- MODULE ProfilesProofs ---------------------------
(***************************************************************************)
(* The Profile engine above the Profile store, for all Sessions, Profiles, *)
(* control epochs, Browser versions and labels.                            *)
(*                                                                         *)
(* An operation of the engine is one step that makes several calls, each   *)
(* with many outcomes.  Each operator of ProfileEngine that returns        *)
(* outcomes has a lemma here that says of every outcome what EngInv needs: *)
(* that the engine still fits the store (Fit), and how what is saved may   *)
(* have changed (Evolves).  The lemmas follow the calls: a save, a         *)
(* checkpoint, an activation, a preflight, a run, an operation.            *)
(***************************************************************************)
EXTENDS MCProfiles, ProfileStoreProofs

-----------------------------------------------------------------------------
(* The invariant.                                                          *)

\* Whatever the store may hold.
Stored == [Engine!Profiles -> Engine!Saved \union {None, Torn}]

\* The Profile was saved by an older Browser, or by one that left no record.
Flagged(a) == a.upgrade \/ a.adopt

\* The work directory holds the plaintext of the active Profile only.
WorkOk(e) == e.active # None => e.work \subseteq {e.active.profile}

\* The observer is shown the active Profile's owner, while its Browser runs.
OpsOk(e) ==
  e.ops # None => /\ e.active # None /\ e.ops = e.active.owner
                  /\ e.active.process /\ e.active.validated

\* The active Profile is saved under the running version, or flagged and saved
\* under none that is newer.
StoreOk(e, st) ==
  e.active # None /\ e.active.exists /\ Engine!IsSaved(st[e.active.profile]) =>
    IF Flagged(e.active) THEN st[e.active.profile].env <= image.env
    ELSE st[e.active.profile].env = image.env

ImageOk == image \in [env: Images, label: Labels]

\* An engine that fits the store below it.
Fit(e, st) ==
  /\ e \in Engine!EngineState /\ st \in Stored
  /\ WorkOk(e) /\ OpsOk(e) /\ StoreOk(e, st)

\* b is the active Profile a, a step later.
Carries(a, b) ==
  /\ b.profile = a.profile /\ b.owner = a.owner
  /\ Flagged(b) => Flagged(a)
  /\ b.validated /\ Flagged(b) => a.validated

\* What an operation on e that ends in o may do to what is saved.
Evolves(e, st, o) ==
  \A p \in Engine!Profiles \ stale: Engine!IsSaved(st[p]) =>
    /\ o.ok => Engine!IsSaved(o.stored[p])
    /\ Engine!IsSaved(o.stored[p]) /\ o.stored[p].env # st[p].env =>
         /\ e.active # None /\ e.active.exists /\ e.active.validated /\ Flagged(e.active)
         /\ o.stored[p].env > st[p].env

-----------------------------------------------------------------------------
(* The parts of the engine.                                                *)

LEMMA ActiveFields ==
  ASSUME NEW a \in Engine!ActiveProfile
  PROVE  /\ a # None
         /\ a.profile \in Engine!Profiles /\ a.owner \in Engine!Owners /\ a.owner # None
         /\ a.exists \in BOOLEAN /\ a.upgrade \in BOOLEAN /\ a.adopt \in BOOLEAN
         /\ a.validated \in BOOLEAN /\ a.process \in BOOLEAN
BY EngineAssumption DEF Engine!ActiveProfile

LEMMA EngineFields ==
  ASSUME NEW e \in Engine!EngineState
  PROVE  /\ e.active # None => e.active \in Engine!ActiveProfile
         /\ e.ops # None => e.ops \in Engine!Owners
         /\ e.work \in SUBSET Engine!Profiles /\ e.workValid \in BOOLEAN
         /\ e.closed \in BOOLEAN
BY DEF Engine!EngineState

LEMMA PublishedFit ==
  ASSUME NEW e \in Engine!EngineState, NEW st \in Stored, WorkOk(e), StoreOk(e, st)
  PROVE  /\ Fit(Engine!Published(e), st)
         /\ Engine!Published(e).active = e.active /\ Engine!Published(e).work = e.work
         /\ Engine!Published(e).closed = e.closed
<1> DEFINE o == IF ~ e.closed /\ e.active # None /\ e.active.process /\ e.active.validated
                THEN e.active.owner ELSE None
           f == Engine!Published(e)
<1>1. f = [e EXCEPT !.ops = o] BY DEF Engine!Published
<1>2. o \in Engine!Owners \union {None} BY EngineFields, ActiveFields
<1>3. /\ f \in Engine!EngineState /\ f.active = e.active /\ f.work = e.work
      /\ f.closed = e.closed /\ f.ops = o
  BY <1>1, <1>2 DEF Engine!EngineState
<1>4. o # None => e.active # None /\ e.active.process /\ e.active.validated /\ o = e.active.owner
  OBVIOUS
<1> HIDE DEF f, o
<1>5. WorkOk(f) BY <1>3 DEF WorkOk
<1>6. OpsOk(f) BY <1>3, <1>4 DEF OpsOk
<1>7. StoreOk(f, st) BY <1>3 DEF StoreOk
<1> QED BY <1>3, <1>5, <1>6, <1>7 DEF Fit, f

LEMMA ActiveGone ==
  ASSUME NEW e \in Engine!EngineState
  PROVE  /\ [e EXCEPT !.active = None] \in Engine!EngineState
         /\ [e EXCEPT !.active = None].active = None
         /\ [e EXCEPT !.active = None].ops = e.ops
         /\ [e EXCEPT !.active = None, !.ops = None] \in Engine!EngineState
         /\ [e EXCEPT !.active = None, !.ops = None].active = None
         /\ [e EXCEPT !.active = None, !.ops = None].ops = None
         /\ [e EXCEPT !.ops = None] \in Engine!EngineState
         /\ [e EXCEPT !.ops = None].active = e.active
         /\ [e EXCEPT !.ops = None].work = e.work
         /\ [e EXCEPT !.ops = None].ops = None
BY DEF Engine!EngineState

LEMMA ResetFields ==
  ASSUME NEW e \in Engine!EngineState
  PROVE  /\ Engine!Reset(e) \in Engine!EngineState
         /\ Engine!Reset(e).active = e.active /\ Engine!Reset(e).ops = e.ops
         /\ Engine!Reset(e).work = {}
BY DEF Engine!EngineState, Engine!Reset

\* Nothing is claimed of an engine without an active Profile but its type.
LEMMA EmptyFit ==
  ASSUME NEW e \in Engine!EngineState, e.active = None, e.ops = None, NEW st \in Stored
  PROVE  Fit(e, st)
BY DEF Fit, WorkOk, OpsOk, StoreOk

LEMMA DiscardedFit ==
  ASSUME NEW e \in Engine!EngineState, NEW st \in Stored
  PROVE  /\ Fit(Engine!Discarded(e), st) /\ Engine!Discarded(e).active = None
<1> DEFINE f == [e EXCEPT !.active = None, !.ops = None]
<1>1. f \in Engine!EngineState /\ f.active = None /\ f.ops = None
  BY ActiveGone
<1>2. Engine!Discarded(e) = Engine!Reset(f)
  BY DEF Engine!Discarded
<1> HIDE DEF f
<1>3. /\ Engine!Discarded(e) \in Engine!EngineState
      /\ Engine!Discarded(e).active = None /\ Engine!Discarded(e).ops = None
  BY <1>1, <1>2, ResetFields
<1> QED BY <1>3, EmptyFit

LEMMA CarriesSelf == \A a: Carries(a, a)
BY DEF Carries

\* The same store, or less of it.
LEMMA EvolvesLess ==
  ASSUME NEW e, NEW st \in Stored, NEW o,
         \A p \in Engine!Profiles \ stale: o.stored[p] = st[p] \/ (~ o.ok /\ o.stored[p] \in {None, Torn})
  PROVE  Evolves(e, st, o)
BY DEF Evolves, Engine!IsSaved

LEMMA OutFields ==
  ASSUME NEW e, NEW st
  PROVE  /\ Engine!Ok(e, st).engine = e /\ Engine!Ok(e, st).stored = st
         /\ Engine!Ok(e, st).ok
         /\ Engine!Err(e, st).engine = e /\ Engine!Err(e, st).stored = st
         /\ ~ Engine!Err(e, st).ok
         /\ \A ok \in BOOLEAN:
              Engine!Out(e, st, ok).engine = e /\ Engine!Out(e, st, ok).stored = st /\ (Engine!Out(e, st, ok).ok <=> ok)
BY DEF Engine!Ok, Engine!Err, Engine!Out

LEMMA QuarantinedStore ==
  ASSUME NEW st \in Stored, NEW p \in Engine!Profiles, NEW t \in Engine!Quarantined(st, p)
  PROVE  /\ t \in Stored
         /\ \A q \in Engine!Profiles: t[q] = st[q] \/ t[q] = None
BY DEF Engine!Quarantined, Stored

LEMMA DoneFields ==
  ASSUME NEW a \in Engine!ActiveProfile
  PROVE  LET c == [a EXCEPT !.exists = TRUE, !.upgrade = FALSE, !.validated = TRUE, !.adopt = FALSE]
         IN  /\ c.process = a.process /\ c.profile = a.profile /\ c.owner = a.owner
             /\ c.exists
             /\ c.validated /\ ~ Flagged(c)
BY DEF Engine!ActiveProfile, Flagged

-----------------------------------------------------------------------------
(* A save and a checkpoint (Checkpoint, checkpointActive).                 *)

LEMMA SavedEnv ==
  ASSUME NEW st \in Stored, NEW p \in Engine!Profiles, Engine!IsSaved(st[p])
  PROVE  st[p] \in Engine!Saved /\ st[p].env \in Nat
<1>1. st[p] \in Engine!Saved BY DEF Stored, Engine!IsSaved
<1>2. st[p].env \in Images \union {0} BY <1>1 DEF Engine!Saved
<1>3. Images \subseteq Nat BY EngineAssumption
<1>4. \A n \in Images \union {0}: n \in Nat BY <1>3
<1> QED BY <1>1, <1>2, <1>4, Zenon

LEMMA SaveFit ==
  ASSUME ImageOk, NEW e, NEW st, Fit(e, st), e.active # None, Engine!MaySave(e.active),
         NEW o \in Engine!SaveOutcomes(e, st)
  PROVE  /\ Fit(o.engine, o.stored) /\ Evolves(e, st, o)
         /\ o.engine.active # None /\ Carries(e.active, o.engine.active)
<1> DEFINE a == e.active
           p == a.profile
           new == [env |-> image.env, label |-> image.label, valid |-> TRUE]
           kept == [st EXCEPT ![p] = new]
           torn == [st EXCEPT ![p] = Torn]
           b == [a EXCEPT !.exists = TRUE, !.upgrade = FALSE, !.validated = TRUE, !.adopt = FALSE]
           done == [e EXCEPT !.active.exists = TRUE, !.active.upgrade = FALSE,
                             !.active.validated = TRUE, !.active.adopt = FALSE]
<1>1. /\ e \in Engine!EngineState /\ st \in Stored /\ WorkOk(e) /\ OpsOk(e)
      /\ StoreOk(e, st)
      /\ a \in Engine!ActiveProfile /\ p \in Engine!Profiles /\ image.env \in Nat
  BY EngineFields, ActiveFields, EngineAssumption DEF Fit, ImageOk
<1>2. done = [e EXCEPT !.active = b] BY <1>1 DEF Engine!EngineState, Engine!ActiveProfile
<1>3a. b \in Engine!ActiveProfile BY <1>1 DEF Engine!ActiveProfile
<1>3. /\ done \in Engine!EngineState /\ done.active = b /\ done.work = e.work
      /\ done.ops = e.ops
      /\ b \in Engine!ActiveProfile
  <2> HIDE DEF b
  <2> QED BY <1>1, <1>2, <1>3a DEF Engine!EngineState
<1>4. /\ b.process = a.process /\ b.profile = p /\ b.owner = a.owner /\ b.validated
      /\ ~ Flagged(b)
  BY <1>1, DoneFields
<1>5. /\ kept \in Stored /\ kept[p].env = image.env /\ torn \in Stored /\ torn[p] = Torn
      /\ \A q \in Engine!Profiles: q # p => kept[q] = st[q] /\ torn[q] = st[q]
      /\ Engine!IsSaved(kept[p])
  <2>1. new \in Engine!Saved /\ new.env = image.env BY DEF ImageOk, Engine!Saved
  <2>2. new # None /\ new # Torn BY <2>1, EngineAssumption
  <2> HIDE DEF new, p
  <2> QED BY <1>1, <2>1, <2>2 DEF Stored, Engine!IsSaved
<1> DEFINE accepts == IF a.exists THEN st[p] \notin {None, Torn} ELSE st[p] = None
<1>6. \/ accepts /\ (o = Engine!Ok(done, kept) \/ o = Engine!Err(e, kept))
      \/ o = Engine!Err(e, st)
      \/ accepts /\ ~ a.exists /\ o = Engine!Err(e, torn)
      \/ \E t \in Engine!Quarantined(st, p): o = Engine!Err(e, t)
  <2>1. [st EXCEPT ![p] = None] \in Engine!Quarantined(st, p) BY DEF Engine!Quarantined
  <2>2. /\ a.exists => [st EXCEPT ![p] = IF a.exists THEN None ELSE Torn] = [st EXCEPT ![p] = None]
        /\ ~ a.exists => [st EXCEPT ![p] = IF a.exists THEN None ELSE Torn] = torn
    OBVIOUS
  <2>3. CASE accepts
    <3>1. o \in {Engine!Ok(done, kept), Engine!Err(e, kept), Engine!Err(e, st),
                 Engine!Err(e, [st EXCEPT ![p] = IF a.exists THEN None ELSE Torn])}
      BY <2>3 DEF Engine!SaveOutcomes
    <3> HIDE DEF a, p, done, kept, torn, accepts
    <3> QED BY <2>1, <2>2, <2>3, <3>1
  <2>4. CASE ~ accepts
    BY <2>4 DEF Engine!SaveOutcomes
  <2> QED BY <2>3, <2>4
<1> HIDE DEF a, p, b, done, kept, torn, new
<1>7. Fit(done, kept)
  <2>1. done.active # None /\ a # None BY <1>1, <1>3, ActiveFields
  <2>2. WorkOk(done) BY <1>1, <1>3, <1>4, <2>1 DEF WorkOk, a, p
  <2>3. OpsOk(done) BY <1>1, <1>3, <1>4, <2>1 DEF OpsOk, a
  <2>4. StoreOk(done, kept) BY <1>3, <1>4, <1>5, <2>1 DEF StoreOk
  <2> QED BY <1>3, <1>5, <2>2, <2>3, <2>4 DEF Fit
<1>8. ASSUME NEW t \in Stored, t[p] \in {st[p], None, Torn} \/ t[p].env = image.env PROVE Fit(e, t)
  <2>1. StoreOk(e, t) BY <1>1, <1>8 DEF StoreOk, Engine!IsSaved, a, p
  <2> QED BY <1>1, <1>8, <2>1 DEF Fit
<1>9. CASE accepts /\ (o = Engine!Ok(done, kept) \/ o = Engine!Err(e, kept))
  <2>1. o.stored = kept /\ o.engine \in {done, e} BY <1>9, OutFields
  <2>2. Fit(o.engine, o.stored) BY <1>5, <1>7, <1>8, <2>1
  <2>3. Evolves(e, st, o)
    <3> SUFFICES ASSUME NEW q \in Engine!Profiles, Engine!IsSaved(st[q])
                 PROVE  /\ Engine!IsSaved(kept[q])
                        /\ kept[q].env # st[q].env =>
                              /\ e.active # None /\ e.active.exists /\ e.active.validated
                              /\ Flagged(e.active)
                              /\ kept[q].env > st[q].env
      BY <2>1 DEF Evolves
    <3>1. CASE q # p BY <1>5, <3>1
    <3>2. CASE q = p
      <4>1. a.exists BY <1>9, <3>2 DEF Engine!IsSaved
      <4>2. st[p].env \in Nat BY <1>1, <3>2, SavedEnv
      <4>3. IF Flagged(a) THEN st[p].env <= image.env ELSE st[p].env = image.env
        BY <1>1, <3>2, <4>1 DEF StoreOk, a, p
      <4>4. Flagged(a) => a.validated BY DEF Engine!MaySave, Flagged, a
      <4> QED BY <1>1, <1>5, <3>2, <4>1, <4>2, <4>3, <4>4 DEF a
    <3> QED BY <3>1, <3>2
  <2>4. o.engine.active \in {a, b} BY <1>3, <2>1 DEF a
  <2> QED BY <1>1, <1>3, <1>4, <2>2, <2>3, <2>4, ActiveFields DEF Carries, a, p
<1>10. ASSUME NEW t \in Stored, o = Engine!Err(e, t),
              \A q \in Engine!Profiles: t[q] \in {st[q], None, Torn}
       PROVE  /\ Fit(o.engine, o.stored) /\ Evolves(e, st, o)
              /\ o.engine.active # None /\ Carries(e.active, o.engine.active)
  <2>1. o.engine = e /\ o.stored = t /\ ~ o.ok BY <1>10, OutFields
  <2>2. Fit(e, t) BY <1>1, <1>8, <1>10
  <2>3. Evolves(e, st, o) BY <1>1, <1>10, <2>1, EvolvesLess
  <2> QED BY <2>1, <2>2, <2>3, CarriesSelf
<1>11. CASE o = Engine!Err(e, st) BY <1>1, <1>10, <1>11
<1>12. CASE accepts /\ ~ a.exists /\ o = Engine!Err(e, torn)
  <2>1. \A q \in Engine!Profiles: torn[q] \in {st[q], None, Torn} BY <1>5
  <2> QED BY <1>5, <1>10, <1>12, <2>1
<1>13. CASE \E t \in Engine!Quarantined(st, p): o = Engine!Err(e, t)
  BY <1>1, <1>10, <1>13, QuarantinedStore
<1> QED BY <1>6, <1>9, <1>11, <1>12, <1>13

\* What a checkpoint leaves: the Profile let go, saved and let go, or kept.
LEMMA ReleasedFit ==
  ASSUME NEW e \in Engine!EngineState, NEW st \in Stored, NEW retain \in BOOLEAN,
         Fit(e, st), NEW o, o = Engine!Ok(e, st) \/ o = Engine!Err(e, st),
         NEW r \in Engine!Released(o, retain)
  PROVE  /\ Fit(r.engine, r.stored) /\ r.stored = st
         /\ r.engine.active # None => r.engine = e
         /\ r.ok => o.ok
         /\ r.ok /\ ~ retain => r.engine.active = None
         /\ retain => r.engine = e
<1>1. o.engine = e /\ o.stored = st BY OutFields
<1> DEFINE f == [e EXCEPT !.active = None, !.ops = None]
<1>2. /\ f \in Engine!EngineState /\ f.active = None /\ f.ops = None
      /\ Engine!Reset(f) \in Engine!EngineState
      /\ Engine!Reset(f).active = None /\ Engine!Reset(f).ops = None
  <2>1. f \in Engine!EngineState /\ f.active = None /\ f.ops = None
    BY ActiveGone
  <2> HIDE DEF f
  <2> QED BY <2>1, ResetFields
<1>3. Fit(f, st) /\ Fit(Engine!Reset(f), st) BY <1>2, EmptyFit
<1>4. CASE ~ o.ok \/ retain
  <2>1. r = o BY <1>4 DEF Engine!Released
  <2> QED BY <1>1, <1>4, <2>1
<1>5. CASE ~ (~ o.ok \/ retain)
  <2>1. r = Engine!Ok(Engine!Reset(f), st) \/ r = Engine!Err(f, st)
    BY <1>1, <1>5 DEF Engine!Released
  <2> HIDE DEF f
  <2> QED BY <1>2, <1>3, <1>5, <2>1, OutFields
<1> QED BY <1>4, <1>5

\* Evolves speaks of the flags of the active Profile only.
LEMMA EvolvesSame ==
  ASSUME NEW e, NEW f, NEW st, NEW o, NEW r, Evolves(f, st, o),
         f.active # None => /\ e.active # None /\ e.active.exists = f.active.exists
                            /\ f.active.validated => e.active.validated
                            /\ Flagged(f.active) => Flagged(e.active),
         r.stored = o.stored, r.ok => o.ok
  PROVE  Evolves(e, st, r)
BY DEF Evolves

LEMMA StoppedFields ==
  ASSUME NEW e, NEW st, Fit(e, st), e.active # None
  PROVE  LET a == e.active
             f == [e EXCEPT !.active.process = FALSE, !.ops = IF a.process THEN None ELSE @]
         IN  /\ f \in Engine!EngineState /\ f.active = [a EXCEPT !.process = FALSE]
             /\ f.active \in Engine!ActiveProfile
             /\ f.ops = None /\ f.work = e.work
<1> DEFINE a == e.active
           o == IF a.process THEN None ELSE e.ops
           b == [a EXCEPT !.process = FALSE]
           f == [e EXCEPT !.active.process = FALSE, !.ops = IF a.process THEN None ELSE @]
<1>1. e \in Engine!EngineState /\ a \in Engine!ActiveProfile /\ OpsOk(e)
  BY EngineFields DEF Fit
<1>2. o = None BY <1>1 DEF OpsOk
<1>3. b \in Engine!ActiveProfile BY <1>1 DEF Engine!ActiveProfile
<1>4. f = [e EXCEPT !.active = b, !.ops = o]
  BY <1>1 DEF Engine!EngineState, Engine!ActiveProfile
<1> HIDE DEF b, o
<1>5. /\ [e EXCEPT !.active = b, !.ops = None] \in Engine!EngineState
      /\ [e EXCEPT !.active = b, !.ops = None].active = b
      /\ [e EXCEPT !.active = b, !.ops = None].ops = None
      /\ [e EXCEPT !.active = b, !.ops = None].work = e.work
  BY <1>1, <1>3 DEF Engine!EngineState
<1> QED BY <1>2, <1>3, <1>4, <1>5 DEF b

LEMMA StoppedFit ==
  ASSUME NEW e, NEW st, Fit(e, st), e.active # None
  PROVE  LET a == e.active
             f == [e EXCEPT !.active.process = FALSE, !.ops = IF a.process THEN None ELSE @]
         IN  /\ Fit(f, st) /\ f.active # None /\ f.ops = None
             /\ f.active.exists = a.exists /\ f.active.profile = a.profile
             /\ f.active.upgrade = a.upgrade /\ f.active.adopt = a.adopt
             /\ f.active.validated = a.validated /\ f.active.owner = a.owner
             /\ Carries(a, f.active)
<1> DEFINE a == e.active
           f == [e EXCEPT !.active.process = FALSE, !.ops = IF a.process THEN None ELSE @]
<1>1. /\ e \in Engine!EngineState /\ st \in Stored /\ WorkOk(e) /\ StoreOk(e, st)
      /\ a \in Engine!ActiveProfile
  BY EngineFields DEF Fit
<1>2. /\ f \in Engine!EngineState /\ f.active = [a EXCEPT !.process = FALSE]
      /\ f.active \in Engine!ActiveProfile
      /\ f.ops = None /\ f.work = e.work
  BY StoppedFields
<1> HIDE DEF f
<1>3. /\ f.active # None
      /\ f.active.exists = a.exists /\ f.active.profile = a.profile
      /\ f.active.upgrade = a.upgrade /\ f.active.adopt = a.adopt
      /\ f.active.validated = a.validated /\ f.active.owner = a.owner
  <2> HIDE DEF a
  <2>1. f.active # None BY <1>2, ActiveFields
  <2> QED BY <1>1, <1>2, <2>1 DEF Engine!ActiveProfile
<1>4. WorkOk(f) BY <1>1, <1>2, <1>3 DEF WorkOk
<1>5. OpsOk(f) BY <1>2 DEF OpsOk
<1>6. StoreOk(f, st) BY <1>1, <1>3 DEF StoreOk, Flagged
<1>7. Carries(a, f.active) BY <1>3 DEF Carries, Flagged
<1> QED BY <1>1, <1>2, <1>3, <1>4, <1>5, <1>6, <1>7 DEF Fit, f

\* checkpointActive, whether the Profile is kept or let go.
LEMMA CheckpointFit ==
  ASSUME ImageOk, NEW e, NEW st, Fit(e, st), NEW retain \in BOOLEAN,
         NEW o \in Engine!CheckpointActive(e, st, retain)
  PROVE  /\ Fit(o.engine, o.stored) /\ Evolves(e, st, o)
         /\ o.engine.active # None => e.active # None /\ Carries(e.active, o.engine.active)
         /\ o.ok /\ ~ retain => o.engine.active = None
         /\ o.ok /\ retain /\ e.active # None /\ Engine!MaySave(e.active) => o.engine.active # None
<1> DEFINE a == e.active
           f == [e EXCEPT !.active.process = FALSE, !.ops = IF a.process THEN None ELSE @]
<1>1. e \in Engine!EngineState /\ st \in Stored /\ WorkOk(e) /\ OpsOk(e) /\ StoreOk(e, st)
  BY DEF Fit
<1>2. CASE a = None
  <2>1. o = Engine!Ok(e, st) BY <1>2 DEF Engine!CheckpointActive
  <2>2. o.engine = e /\ o.stored = st BY <2>1, OutFields
  <2>3. Evolves(e, st, o) BY <1>1, <2>2, EvolvesLess
  <2> QED BY <1>2, <2>2, <2>3
<1>3. CASE a # None /\ ~ Engine!MaySave(a)
  <2>1. o = Engine!Err(Engine!Discarded(e), st) \/ o = Engine!Ok(Engine!Discarded(e), st)
    BY <1>3 DEF Engine!CheckpointActive
  <2>2. o.engine = Engine!Discarded(e) /\ o.stored = st BY <2>1, OutFields
  <2>3. Evolves(e, st, o) BY <1>1, <2>2, EvolvesLess
  <2> QED BY <1>1, <1>3, <2>2, <2>3, DiscardedFit
<1>4. CASE a # None /\ Engine!MaySave(a)
  <2>1. /\ Fit(f, st) /\ f.active # None /\ f.ops = None
        /\ f.active.exists = a.exists /\ f.active.profile = a.profile
        /\ f.active.upgrade = a.upgrade /\ f.active.adopt = a.adopt
        /\ f.active.validated = a.validated /\ f.active.owner = a.owner
        /\ Carries(a, f.active)
    BY <1>4, StoppedFit
  <2>2. \/ o = Engine!Err([e EXCEPT !.ops = None], st)
        \/ o = Engine!Err(f, st)
        \/ \E x \in Engine!SaveOutcomes(f, st): o \in Engine!Released(x, retain)
        \/ \E t \in (IF a.exists THEN Engine!Quarantined(st, a.profile) ELSE {st}):
              o = Engine!Err(Engine!Reset([f EXCEPT !.active = None]), t)
    BY <1>4 DEF Engine!CheckpointActive
  <2> HIDE DEF f
  <2>3. CASE o = Engine!Err([e EXCEPT !.ops = None], st)
    <3> DEFINE g == [e EXCEPT !.ops = None]
    <3>1. g \in Engine!EngineState /\ g.active = a /\ g.work = e.work /\ g.ops = None
      BY <1>1, ActiveGone
    <3> HIDE DEF g
    <3>2. Fit(g, st) BY <1>1, <3>1 DEF Fit, WorkOk, OpsOk, StoreOk
    <3>3. o.engine = g /\ o.stored = st /\ ~ o.ok BY <2>3, OutFields DEF g
    <3>4. Evolves(e, st, o) BY <1>1, <3>3, EvolvesLess
    <3> QED BY <1>4, <3>1, <3>2, <3>3, <3>4, CarriesSelf
  <2>4. CASE o = Engine!Err(f, st)
    <3>1. o.engine = f /\ o.stored = st /\ ~ o.ok BY <2>4, OutFields
    <3>2. Evolves(e, st, o) BY <1>1, <3>1, EvolvesLess
    <3> QED BY <1>4, <2>1, <3>1, <3>2
  <2>5. ASSUME NEW x \in Engine!SaveOutcomes(f, st), o \in Engine!Released(x, retain)
        PROVE  /\ Fit(o.engine, o.stored) /\ Evolves(e, st, o)
               /\ o.engine.active # None => Carries(a, o.engine.active)
               /\ o.ok /\ ~ retain => o.engine.active = None
               /\ o.ok /\ retain => o.engine.active # None
    <3>1. Engine!MaySave(f.active) BY <1>4, <2>1 DEF Engine!MaySave
    <3>2. /\ Fit(x.engine, x.stored) /\ Evolves(f, st, x)
          /\ x.engine.active # None /\ Carries(f.active, x.engine.active)
      BY <2>1, <2>5, <3>1, SaveFit
    <3>3. x.engine \in Engine!EngineState /\ x.stored \in Stored BY <3>2 DEF Fit
    <3>4. x = Engine!Ok(x.engine, x.stored) \/ x = Engine!Err(x.engine, x.stored)
      BY <2>5 DEF Engine!SaveOutcomes, Engine!Ok, Engine!Err, Engine!Out
    <3>5. /\ Fit(o.engine, o.stored) /\ o.stored = x.stored
          /\ o.engine.active # None => o.engine = x.engine
          /\ o.ok => x.ok
          /\ o.ok /\ ~ retain => o.engine.active = None
          /\ retain => o.engine = x.engine
      BY <2>5, <3>2, <3>3, <3>4, ReleasedFit
    <3>6. Evolves(e, st, o) BY <1>4, <2>1, <3>2, <3>5, EvolvesSame DEF Flagged
    <3>7. o.engine.active # None => Carries(a, o.engine.active)
      BY <2>1, <3>2, <3>5 DEF Carries
    <3> QED BY <3>2, <3>5, <3>6, <3>7
  <2>6. ASSUME NEW t \in (IF a.exists THEN Engine!Quarantined(st, a.profile) ELSE {st}),
               o = Engine!Err(Engine!Reset([f EXCEPT !.active = None]), t)
        PROVE  /\ Fit(o.engine, o.stored) /\ Evolves(e, st, o) /\ o.engine.active = None
               /\ ~ o.ok
    <3> DEFINE g == Engine!Reset([f EXCEPT !.active = None])
    <3>1. /\ f \in Engine!EngineState /\ a.profile \in Engine!Profiles
      BY <1>1, <1>4, <2>1, EngineFields, ActiveFields DEF Fit
    <3>2. g \in Engine!EngineState /\ g.active = None /\ g.ops = None
      BY <2>1, <3>1, ActiveGone, ResetFields
    <3>3. t \in Stored /\ \A q \in Engine!Profiles: t[q] = st[q] \/ t[q] = None
      BY <1>1, <3>1, QuarantinedStore
    <3> HIDE DEF g
    <3>4. o.engine = g /\ o.stored = t /\ ~ o.ok BY <2>6, OutFields DEF g
    <3>5. Evolves(e, st, o) BY <1>1, <3>3, <3>4, EvolvesLess
    <3> QED BY <3>2, <3>3, <3>4, <3>5, EmptyFit
  <2> QED BY <1>4, <2>2, <2>3, <2>4, <2>5, <2>6
<1> QED BY <1>2, <1>3, <1>4

-----------------------------------------------------------------------------
(* An activation (activate).                                               *)

LEMMA BegunFit ==
  ASSUME NEW e \in Engine!EngineState, e.work = {}, NEW id \in Engine!Owners, NEW st \in Stored,
         NEW x \in BOOLEAN, NEW u \in BOOLEAN, NEW d \in BOOLEAN, ProfileOf[id.session] \in Engine!Profiles,
         x /\ Engine!IsSaved(st[ProfileOf[id.session]]) =>
           /\ u \/ d => st[ProfileOf[id.session]].env <= image.env
           /\ u \/ d \/ st[ProfileOf[id.session]].env = image.env
  PROVE  /\ Fit(Engine!Begun(e, id, x, u, d), st)
         /\ Engine!Begun(e, id, x, u, d).active # None
         /\ Engine!Begun(e, id, x, u, d).active.owner = id
         /\ ~ Engine!Begun(e, id, x, u, d).active.validated
<1> DEFINE p == ProfileOf[id.session]
           a == [profile |-> p, owner |-> id, exists |-> x, upgrade |-> u, adopt |-> d,
                 validated |-> FALSE, process |-> FALSE]
           g == [e EXCEPT !.active = a, !.work = @ \union {p}, !.workValid = TRUE]
<1>1. a \in Engine!ActiveProfile BY DEF Engine!ActiveProfile
<1>2. Engine!Begun(e, id, x, u, d) = Engine!Published(g) BY DEF Engine!Begun
<1>3. /\ a.profile = p /\ a.owner = id /\ a.exists = x /\ ~ a.validated /\ (Flagged(a) <=> u \/ d)
      /\ a # None
  BY <1>1, ActiveFields DEF Flagged
<1>4. g \in Engine!EngineState /\ g.active = a /\ g.work = {p}
  <2> HIDE DEF a
  <2> QED BY <1>1 DEF Engine!EngineState
<1> HIDE DEF g, a
<1>5. WorkOk(g) BY <1>3, <1>4 DEF WorkOk
<1>6. StoreOk(g, st) BY <1>3, <1>4 DEF StoreOk
<1> QED BY <1>2, <1>3, <1>4, <1>5, <1>6, PublishedFit

LEMMA OwnerProfile ==
  ASSUME NEW id \in Engine!Owners
  PROVE  id.session \in Sessions /\ ProfileOf[id.session] \in Engine!Profiles
BY DEF Engine!Owners, Engine!Profiles

LEMMA RefusedAnswers ==
  ASSUME NEW engines, NEW st, NEW p, NEW o \in Engine!Refused(engines, st, p)
  PROVE  \E f \in engines, t \in Engine!Quarantined(st, p): o = Engine!Err(f, t)
BY DEF Engine!Refused

LEMMA LoadedFit ==
  ASSUME ImageOk, NEW e \in Engine!EngineState, e.active = None, e.ops = None, e.work = {},
         NEW st \in Stored, NEW id \in Engine!Owners, NEW o \in Engine!Loaded(e, st, id)
  PROVE  /\ Fit(o.engine, o.stored) /\ Evolves(e, st, o)
         /\ o.ok => /\ o.engine.active # None /\ o.engine.active.owner = id
                    /\ ~ o.engine.active.validated
         /\ ~ o.ok => o.engine.active = None
<1> DEFINE p == ProfileOf[id.session]
           s == st[p]
           half == [e EXCEPT !.work = @ \union {p}]
<1>1. p \in Engine!Profiles BY OwnerProfile
<1>2. /\ half \in Engine!EngineState /\ half.active = None /\ half.ops = None
  BY <1>1 DEF Engine!EngineState
<1>3. /\ Engine!Reset(half) \in Engine!EngineState
      /\ Engine!Reset(half).active = None /\ Engine!Reset(half).ops = None
  BY <1>2, ResetFields
<1>4. \/ s = None /\ o = Engine!Ok(Engine!Begun(e, id, FALSE, FALSE, FALSE), st)
      \/ \E t \in Engine!Quarantined(st, p), f \in {e, half, Engine!Reset(half)}: o = Engine!Err(f, t)
      \/ s \notin {None, Torn} /\ s.env = 0 /\ o = Engine!Ok(Engine!Begun(e, id, TRUE, FALSE, TRUE), st)
      \/ /\ s \notin {None, Torn} /\ ~ s.env > image.env
         /\ o = Engine!Ok(Engine!Begun(e, id, TRUE, image.env > s.env, FALSE), st)
  <2>1. st \in Engine!Quarantined(st, p) BY DEF Engine!Quarantined
  <2>2. s = None \/ s = Torn \/ s \notin {None, Torn} OBVIOUS
  <2>3. None # Torn BY EngineAssumption
  <2>4. CASE s = None
    <3>1. o = Engine!Err(e, st) \/ o = Engine!Ok(Engine!Begun(e, id, FALSE, FALSE, FALSE), st)
      BY <2>3, <2>4 DEF Engine!Loaded
    <3> HIDE DEF half, s
    <3> QED BY <2>1, <2>4, <3>1
  <2>5. CASE s = Torn
    <3>1. o \in Engine!Refused({e}, st, p) BY <2>3, <2>5 DEF Engine!Loaded
    <3>2. PICK t \in Engine!Quarantined(st, p): o = Engine!Err(e, t)
      BY <3>1 DEF Engine!Refused
    <3> QED BY <3>2
  <2>6. CASE s \notin {None, Torn}
    <3> DEFINE Read == IF ~ s.valid THEN {}
                       ELSE IF s.env = 0 THEN {Engine!Ok(Engine!Begun(e, id, TRUE, FALSE, TRUE), st)}
                       ELSE IF s.label # image.label \/ s.env > image.env
                       THEN {Engine!Err(Engine!Reset(half), st)}
                       ELSE {Engine!Ok(Engine!Begun(e, id, TRUE, image.env > s.env, FALSE), st)}
    <3>1. \/ o = Engine!Err(half, st)
          \/ o \in Engine!Refused({e, Engine!Reset(half)}, st, p)
          \/ o \in Read
      BY <2>6 DEF Engine!Loaded
    <3>2. CASE o = Engine!Err(half, st) BY <2>1, <3>2
    <3>3. CASE o \in Engine!Refused({e, Engine!Reset(half)}, st, p)
      <4> DEFINE both == {e, Engine!Reset(half)}
      <4>1. o \in Engine!Refused(both, st, p) BY <3>3
      <4> HIDE DEF both, half, s, p
      <4>2. PICK f \in both, t \in Engine!Quarantined(st, p): o = Engine!Err(f, t)
        BY <4>1, RefusedAnswers
      <4> QED BY <4>2 DEF both
    <3>4. CASE o \in Read
      <4>1. \/ o = Engine!Err(Engine!Reset(half), st)
            \/ s.env = 0 /\ o = Engine!Ok(Engine!Begun(e, id, TRUE, FALSE, TRUE), st)
            \/ ~ s.env > image.env /\ o = Engine!Ok(Engine!Begun(e, id, TRUE, image.env > s.env, FALSE), st)
        <5> HIDE DEF half, s
        <5> QED BY <3>4
      <4> HIDE DEF half, s
      <4> QED BY <2>1, <2>6, <4>1
    <3> QED BY <3>1, <3>2, <3>3, <3>4
  <2> QED BY <2>2, <2>4, <2>5, <2>6
<1> HIDE DEF half
<1> DEFINE Good(g) == Fit(g, st) /\ g.active # None /\ g.active.owner = id /\ ~ g.active.validated
<1>a. ASSUME NEW g, Good(g), o = Engine!Ok(g, st)
      PROVE  /\ Fit(o.engine, o.stored) /\ Evolves(e, st, o) /\ o.ok
             /\ o.engine.active # None /\ o.engine.active.owner = id
             /\ ~ o.engine.active.validated
  <2>1. o.engine = g /\ o.stored = st /\ o.ok BY <1>a, OutFields
  <2>2. Evolves(e, st, o) BY <2>1, EvolvesLess
  <2> QED BY <1>a, <2>1, <2>2
<1>5. CASE s = None /\ o = Engine!Ok(Engine!Begun(e, id, FALSE, FALSE, FALSE), st)
  <2> DEFINE g == Engine!Begun(e, id, FALSE, FALSE, FALSE)
  <2>1. Good(g) BY <1>1, BegunFit, Zenon
  <2> HIDE DEF g, Good
  <2> QED BY <1>5, <1>a, <2>1 DEF g
<1>6. CASE \E t \in Engine!Quarantined(st, p), f \in {e, half, Engine!Reset(half)}: o = Engine!Err(f, t)
  <2>1. PICK t \in Engine!Quarantined(st, p), f \in {e, half, Engine!Reset(half)}: o = Engine!Err(f, t)
    BY <1>6
  <2>2. t \in Stored /\ \A q \in Engine!Profiles: t[q] = st[q] \/ t[q] = None
    BY <1>1, QuarantinedStore
  <2>3. o.engine = f /\ o.stored = t /\ ~ o.ok BY <2>1, OutFields
  <2>4. Evolves(e, st, o) BY <2>2, <2>3, EvolvesLess
  <2>5. f \in Engine!EngineState /\ f.active = None /\ f.ops = None BY <1>2, <1>3
  <2> QED BY <2>2, <2>3, <2>4, <2>5, EmptyFit
<1>7. CASE s \notin {None, Torn} /\ s.env = 0 /\ o = Engine!Ok(Engine!Begun(e, id, TRUE, FALSE, TRUE), st)
  <2> DEFINE g == Engine!Begun(e, id, TRUE, FALSE, TRUE)
  <2>1. image.env \in Nat BY EngineAssumption DEF ImageOk
  <2>2. s.env <= image.env BY <1>7, <2>1
  <2>3. Good(g) BY <1>1, <2>2, BegunFit, Zenon
  <2> HIDE DEF g, Good
  <2> QED BY <1>7, <1>a, <2>3 DEF g
<1>8. CASE /\ s \notin {None, Torn} /\ ~ s.env > image.env
           /\ o = Engine!Ok(Engine!Begun(e, id, TRUE, image.env > s.env, FALSE), st)
  <2>1. image.env \in Nat BY EngineAssumption DEF ImageOk
  <2>2. s.env \in Nat BY <1>1, <1>8, SavedEnv DEF Engine!IsSaved
  <2>3. CASE image.env > s.env
    <3> DEFINE g == Engine!Begun(e, id, TRUE, TRUE, FALSE)
    <3>1. s.env <= image.env BY <2>1, <2>2, <2>3
    <3>2. Good(g) BY <1>1, <3>1, BegunFit, Zenon
    <3>3. g = Engine!Begun(e, id, TRUE, image.env > s.env, FALSE) BY <2>3 DEF Engine!Begun
    <3> HIDE DEF g, Good
    <3> QED BY <1>8, <1>a, <3>2, <3>3
  <2>4. CASE s.env = image.env
    <3> DEFINE g == Engine!Begun(e, id, TRUE, FALSE, FALSE)
    <3>1. Good(g) BY <1>1, <2>4, BegunFit, Zenon
    <3>2. (image.env > s.env) = FALSE BY <2>1, <2>4
    <3>3. g = Engine!Begun(e, id, TRUE, image.env > s.env, FALSE) BY <3>2 DEF Engine!Begun
    <3> HIDE DEF g, Good
    <3> QED BY <1>8, <1>a, <3>1, <3>3
  <2>5. \A m, n \in Nat: ~ n > m => m > n \/ n = m OBVIOUS
  <2> HIDE DEF s, Good
  <2>6. image.env > s.env \/ s.env = image.env BY <1>8, <2>1, <2>2, <2>5, Zenon
  <2> QED BY <2>3, <2>4, <2>6
<1> HIDE DEF Good
<1> QED BY <1>4, <1>5, <1>6, <1>7, <1>8

\* What a checkpoint that succeeded left is pruned and cleared.
LEMMA ClearedFit ==
  ASSUME NEW l, Fit(l.engine, l.stored), l.engine.active = None, NEW c \in Engine!Cleared(l)
  PROVE  /\ Fit(c.engine, c.stored) /\ c.engine.active = None /\ c.engine.ops = None
         /\ \A p \in Engine!Profiles \ stale: c.stored[p] = l.stored[p]
         /\ c.ok => c.engine.work = {}
<1> DEFINE pruned == [p \in Engine!Profiles |-> IF p \in stale THEN None ELSE l.stored[p]]
<1>1. /\ l.engine \in Engine!EngineState /\ l.stored \in Stored /\ l.engine.ops = None
  BY DEF Fit, OpsOk
<1>2. pruned \in Stored /\ \A p \in Engine!Profiles \ stale: pruned[p] = l.stored[p]
  BY <1>1 DEF Stored
<1>3. /\ Engine!Reset(l.engine) \in Engine!EngineState /\ Engine!Reset(l.engine).work = {}
      /\ Engine!Reset(l.engine).active = None /\ Engine!Reset(l.engine).ops = None
  BY <1>1, ResetFields
<1>4. \/ c = Engine!Err(l.engine, l.stored)
      \/ c = Engine!Err(l.engine, pruned)
      \/ c = Engine!Ok(Engine!Reset(l.engine), pruned)
  BY DEF Engine!Cleared
<1> HIDE DEF pruned
<1>5. /\ c.engine \in {l.engine, Engine!Reset(l.engine)} /\ c.stored \in {l.stored, pruned}
      /\ c.ok => c.engine = Engine!Reset(l.engine)
  BY <1>4, OutFields
<1>6. /\ c.engine \in Engine!EngineState /\ c.engine.active = None /\ c.engine.ops = None
      /\ c.stored \in Stored
  BY <1>1, <1>2, <1>3, <1>5
<1> QED BY <1>1, <1>2, <1>3, <1>5, <1>6, EmptyFit

\* The owner of the active Profile changes within its Session.
LEMMA OwnedFit ==
  ASSUME NEW e, NEW st, Fit(e, st), e.active # None, NEW id \in Engine!Owners
  PROVE  LET f == Engine!Published([e EXCEPT !.active.owner = id])
         IN  /\ Fit(f, st) /\ f.active # None /\ f.active.owner = id
             /\ f.active.profile = e.active.profile /\ f.active.exists = e.active.exists
             /\ f.active.validated = e.active.validated
             /\ (Flagged(f.active) <=> Flagged(e.active))
<1> DEFINE a == e.active
           b == [a EXCEPT !.owner = id]
           g == [e EXCEPT !.active.owner = id]
<1>1. /\ e \in Engine!EngineState /\ st \in Stored /\ WorkOk(e) /\ StoreOk(e, st)
      /\ a \in Engine!ActiveProfile
  BY EngineFields DEF Fit
<1>2. b \in Engine!ActiveProfile BY <1>1 DEF Engine!ActiveProfile
<1>3. g = [e EXCEPT !.active = b] BY <1>1 DEF Engine!EngineState, Engine!ActiveProfile
<1>4. /\ b.owner = id /\ b.profile = a.profile /\ b.exists = a.exists
      /\ b.validated = a.validated /\ (Flagged(b) <=> Flagged(a)) /\ b # None
  <2>1. b # None BY <1>2, ActiveFields
  <2> HIDE DEF a
  <2> QED BY <1>1, <2>1 DEF Engine!ActiveProfile, Flagged
<1> HIDE DEF b
<1>5. g \in Engine!EngineState /\ g.active = b /\ g.work = e.work
  BY <1>1, <1>2, <1>3 DEF Engine!EngineState
<1> HIDE DEF g
<1>6. WorkOk(g) BY <1>1, <1>4, <1>5 DEF WorkOk
<1>7. StoreOk(g, st) BY <1>1, <1>4, <1>5 DEF StoreOk
<1>8. Fit(Engine!Published(g), st) /\ Engine!Published(g).active = b
  BY <1>1, <1>5, <1>6, <1>7, PublishedFit
<1> QED BY <1>4, <1>8 DEF g

\* The active Profile goes on under the owner id, or another one was begun.
GoesOn(e, f, id) ==
  /\ e.active # None /\ e.active.owner.session = id.session
  /\ f.active.exists = e.active.exists /\ f.active.validated = e.active.validated
  /\ Flagged(f.active) <=> Flagged(e.active)

LEMMA ActivateFit ==
  ASSUME ImageOk, Fit(engine, saved), NEW id \in Engine!Owners, NEW o \in Engine!Activate(id)
  PROVE  /\ Fit(o.engine, o.stored) /\ Evolves(engine, saved, o)
         /\ o.ok => /\ o.engine.active # None /\ o.engine.active.owner = id
                    /\ GoesOn(engine, o.engine, id) \/ ~ o.engine.active.validated
         /\ ~ o.ok /\ o.engine.active # None =>
              engine.active # None /\ Carries(engine.active, o.engine.active)
<1> DEFINE a == engine.active
           left == Engine!CheckpointActive(engine, saved, FALSE)
           cleared == {l \in left: ~ l.ok} \union UNION {Engine!Cleared(l): l \in {x \in left: x.ok}}
           same == a # None /\ a.profile = ProfileOf[id.session] /\ a.owner.session = id.session
<1>1. saved \in Stored BY DEF Fit
<1>2. CASE same
  <2> DEFINE f == Engine!Published([engine EXCEPT !.active.owner = id])
  <2>1. o = Engine!Ok(f, saved) BY <1>2 DEF Engine!Activate
  <2>2. /\ Fit(f, saved) /\ f.active # None /\ f.active.owner = id
        /\ f.active.profile = a.profile /\ f.active.exists = a.exists
        /\ f.active.validated = a.validated /\ (Flagged(f.active) <=> Flagged(a))
    BY <1>2, OwnedFit
  <2> HIDE DEF f
  <2>3. o.engine = f /\ o.stored = saved /\ o.ok BY <2>1, OutFields
  <2>4. Evolves(engine, saved, o) BY <1>1, <2>3, EvolvesLess
  <2>5. GoesOn(engine, f, id) BY <1>2, <2>2 DEF GoesOn
  <2> QED BY <2>2, <2>3, <2>4, <2>5
<1>3. ASSUME NEW l \in left
      PROVE  /\ Fit(l.engine, l.stored) /\ Evolves(engine, saved, l)
             /\ l.engine.active # None => a # None /\ Carries(a, l.engine.active)
             /\ l.ok => l.engine.active = None
  BY <1>3, CheckpointFit
<1>4. ASSUME NEW c \in cleared
      PROVE  /\ Fit(c.engine, c.stored) /\ Evolves(engine, saved, c)
             /\ c.engine.active # None => a # None /\ Carries(a, c.engine.active)
             /\ c.ok => c.engine.active = None /\ c.engine.ops = None /\ c.engine.work = {}
  <2>1. CASE c \in left /\ ~ c.ok BY <1>3, <2>1
  <2>2. ASSUME NEW l \in left, l.ok, c \in Engine!Cleared(l)
        PROVE  /\ Fit(c.engine, c.stored) /\ Evolves(engine, saved, c)
               /\ c.engine.active = None /\ c.engine.ops = None
               /\ c.ok => c.engine.work = {}
    <3>1. Fit(l.engine, l.stored) /\ Evolves(engine, saved, l) /\ l.engine.active = None
      BY <1>3, <2>2
    <3> HIDE DEF left
    <3>2. /\ Fit(c.engine, c.stored) /\ c.engine.active = None /\ c.engine.ops = None
          /\ \A p \in Engine!Profiles \ stale: c.stored[p] = l.stored[p]
          /\ c.ok => c.engine.work = {}
      BY <2>2, <3>1, ClearedFit
    <3>3. Evolves(engine, saved, c) BY <2>2, <3>1, <3>2 DEF Evolves
    <3> QED BY <3>2, <3>3
  <2>3. \/ c \in left /\ ~ c.ok
        \/ \E l \in left: l.ok /\ c \in Engine!Cleared(l)
    <3> HIDE DEF left
    <3> QED BY <1>4
  <2> HIDE DEF left
  <2> QED BY <2>1, <2>2, <2>3
<1>5. CASE ~ same
  <2>1. \/ o \in cleared /\ ~ o.ok
        \/ \E c \in cleared: c.ok /\ o \in Engine!Loaded(c.engine, c.stored, id)
    <3>1. o \in {c \in cleared: ~ c.ok} \union
               UNION {Engine!Loaded(c.engine, c.stored, id): c \in {x \in cleared: x.ok}}
      BY <1>5 DEF Engine!Activate
    <3> HIDE DEF cleared
    <3> QED BY <3>1
  <2> HIDE DEF cleared, same
  <2>2. CASE o \in cleared /\ ~ o.ok BY <1>4, <2>2
  <2>3. ASSUME NEW c \in cleared, c.ok, o \in Engine!Loaded(c.engine, c.stored, id)
        PROVE  /\ Fit(o.engine, o.stored) /\ Evolves(engine, saved, o)
               /\ o.ok => /\ o.engine.active # None /\ o.engine.active.owner = id
                          /\ ~ o.engine.active.validated
               /\ ~ o.ok => o.engine.active = None
    <3>1. /\ c.engine \in Engine!EngineState /\ c.stored \in Stored
          /\ c.engine.active = None /\ c.engine.ops = None /\ c.engine.work = {}
          /\ Evolves(engine, saved, c)
      BY <1>4, <2>3 DEF Fit
    <3>2. /\ Fit(o.engine, o.stored) /\ Evolves(c.engine, c.stored, o)
          /\ o.ok => /\ o.engine.active # None /\ o.engine.active.owner = id
                     /\ ~ o.engine.active.validated
          /\ ~ o.ok => o.engine.active = None
      BY <2>3, <3>1, LoadedFit
    <3>3. Evolves(engine, saved, o)
      <4> SUFFICES ASSUME NEW p \in Engine!Profiles \ stale, Engine!IsSaved(saved[p])
                   PROVE  /\ o.ok => Engine!IsSaved(o.stored[p])
                          /\ Engine!IsSaved(o.stored[p]) /\ o.stored[p].env # saved[p].env =>
                               /\ a # None /\ a.exists /\ a.validated /\ Flagged(a)
                               /\ o.stored[p].env > saved[p].env
        BY DEF Evolves
      <4>1. /\ Engine!IsSaved(c.stored[p])
            /\ c.stored[p].env # saved[p].env =>
                 /\ a # None /\ a.exists /\ a.validated /\ Flagged(a)
                 /\ c.stored[p].env > saved[p].env
        BY <2>3, <3>1 DEF Evolves
      <4>2. /\ o.ok => Engine!IsSaved(o.stored[p])
            /\ Engine!IsSaved(o.stored[p]) => o.stored[p].env = c.stored[p].env
        BY <3>1, <3>2, <4>1 DEF Evolves
      <4> QED BY <4>1, <4>2
    <3> QED BY <3>2, <3>3
  <2> QED BY <2>1, <2>2, <2>3
<1> QED BY <1>2, <1>5

-----------------------------------------------------------------------------
(* The operations on an active Profile (preflight, checkpoint, act).       *)

\* The two engines have the same active Profile but for its process, and its proof.
Keeps(e, f) ==
  /\ f.active # None /\ f.active.owner = e.active.owner
  /\ f.active.exists = e.active.exists /\ (Flagged(f.active) <=> Flagged(e.active))

LEMMA WithProcessFit ==
  ASSUME NEW e, NEW st, Fit(e, st), e.active # None
  PROVE  /\ Fit(Engine!WithProcess(e), st) /\ Keeps(e, Engine!WithProcess(e))
         /\ Engine!WithProcess(e).active.validated = e.active.validated
<1> DEFINE a == e.active
           b == [a EXCEPT !.process = TRUE]
           g == [e EXCEPT !.active.process = TRUE]
<1>1. /\ e \in Engine!EngineState /\ st \in Stored /\ WorkOk(e) /\ StoreOk(e, st)
      /\ a \in Engine!ActiveProfile
  BY EngineFields DEF Fit
<1>2. b \in Engine!ActiveProfile BY <1>1 DEF Engine!ActiveProfile
<1>3. g = [e EXCEPT !.active = b] BY <1>1 DEF Engine!EngineState, Engine!ActiveProfile
<1>4. /\ b.owner = a.owner /\ b.profile = a.profile /\ b.exists = a.exists
      /\ b.validated = a.validated /\ (Flagged(b) <=> Flagged(a)) /\ b # None
  <2>1. b # None BY <1>2, ActiveFields
  <2> HIDE DEF a
  <2> QED BY <1>1, <2>1 DEF Engine!ActiveProfile, Flagged
<1> HIDE DEF b
<1>5. g \in Engine!EngineState /\ g.active = b /\ g.work = e.work
  BY <1>1, <1>2, <1>3 DEF Engine!EngineState
<1> HIDE DEF g
<1>6. WorkOk(g) BY <1>1, <1>4, <1>5 DEF WorkOk
<1>7. StoreOk(g, st) BY <1>1, <1>4, <1>5 DEF StoreOk
<1>8. Fit(Engine!Published(g), st) /\ Engine!Published(g).active = b
  BY <1>1, <1>5, <1>6, <1>7, PublishedFit
<1>9. CASE a.process
  <2>1. Engine!WithProcess(e) = e BY <1>9 DEF Engine!WithProcess
  <2> QED BY <2>1 DEF Keeps
<1>10. CASE ~ a.process
  <2>1. Engine!WithProcess(e) = Engine!Published(g) BY <1>10 DEF Engine!WithProcess, g
  <2> QED BY <1>4, <1>8, <2>1 DEF Keeps
<1> QED BY <1>9, <1>10

LEMMA CheckedFit ==
  ASSUME NEW e, NEW st, Fit(e, st), e.active # None
  PROVE  LET f == Engine!Published([e EXCEPT !.active.validated = TRUE])
         IN  Fit(f, st) /\ Keeps(e, f) /\ f.active.validated
<1> DEFINE a == e.active
           b == [a EXCEPT !.validated = TRUE]
           g == [e EXCEPT !.active.validated = TRUE]
<1>1. /\ e \in Engine!EngineState /\ st \in Stored /\ WorkOk(e) /\ StoreOk(e, st)
      /\ a \in Engine!ActiveProfile
  BY EngineFields DEF Fit
<1>2. b \in Engine!ActiveProfile BY <1>1 DEF Engine!ActiveProfile
<1>3. g = [e EXCEPT !.active = b] BY <1>1 DEF Engine!EngineState, Engine!ActiveProfile
<1>4. /\ b.owner = a.owner /\ b.profile = a.profile /\ b.exists = a.exists
      /\ b.validated /\ (Flagged(b) <=> Flagged(a)) /\ b # None
  <2>1. b # None BY <1>2, ActiveFields
  <2> HIDE DEF a
  <2> QED BY <1>1, <2>1 DEF Engine!ActiveProfile, Flagged
<1> HIDE DEF b
<1>5. g \in Engine!EngineState /\ g.active = b /\ g.work = e.work
  BY <1>1, <1>2, <1>3 DEF Engine!EngineState
<1> HIDE DEF g
<1>6. WorkOk(g) BY <1>1, <1>4, <1>5 DEF WorkOk
<1>7. StoreOk(g, st) BY <1>1, <1>4, <1>5 DEF StoreOk
<1>8. Fit(Engine!Published(g), st) /\ Engine!Published(g).active = b
  BY <1>1, <1>5, <1>6, <1>7, PublishedFit
<1> QED BY <1>4, <1>8 DEF Keeps, g

LEMMA ActedFit ==
  ASSUME NEW e, NEW st, Fit(e, st), NEW f \in Engine!Acted(e)
  PROVE  Fit(f, st) /\ f.active = e.active
<1>1. e \in Engine!EngineState /\ st \in Stored /\ WorkOk(e) /\ OpsOk(e) /\ StoreOk(e, st)
  BY DEF Fit
<1> DEFINE g == [e EXCEPT !.workValid = FALSE]
<1>2. /\ g \in Engine!EngineState /\ g.active = e.active /\ g.work = e.work /\ g.ops = e.ops
  BY <1>1 DEF Engine!EngineState
<1>3. f = e \/ f = g BY DEF Engine!Acted
<1> HIDE DEF g
<1>4. f \in Engine!EngineState /\ f.active = e.active /\ f.work = e.work /\ f.ops = e.ops
  BY <1>1, <1>2, <1>3
<1>5. WorkOk(f) BY <1>1, <1>4 DEF WorkOk
<1>6. OpsOk(f) BY <1>1, <1>4 DEF OpsOk
<1>7. StoreOk(f, st) BY <1>1, <1>4 DEF StoreOk
<1> QED BY <1>1, <1>4, <1>5, <1>6, <1>7 DEF Fit

\* What an operation on the active Profile of e leaves of it.
Leaves(e, f) ==
  f.active # None => /\ f.active.owner = e.active.owner
                     /\ Flagged(f.active) => Flagged(e.active)

\* The answer keeps what is saved.
LEMMA SameFit ==
  ASSUME NEW e, NEW f, NEW st, Fit(f, st), Leaves(e, f), NEW r,
         r.engine = f /\ r.stored = st
  PROVE  Fit(r.engine, r.stored) /\ Evolves(e, st, r) /\ Leaves(e, r.engine)
<1>1. st \in Stored BY DEF Fit
<1> QED BY <1>1, EvolvesLess

LEMMA PreflightFit ==
  ASSUME ImageOk, NEW e, NEW st, Fit(e, st), e.active # None, NEW r \in Engine!Preflight(e, st)
  PROVE  Fit(r.engine, r.stored) /\ Evolves(e, st, r) /\ Leaves(e, r.engine)
<1> DEFINE w == Engine!WithProcess(e)
           checked == Engine!Published([w EXCEPT !.active.validated = TRUE])
           Later(o) == {Engine!Ok(Engine!WithProcess(o.engine), o.stored),
                        Engine!Err(Engine!WithProcess(o.engine), o.stored),
                        Engine!Err(o.engine, o.stored)}
<1>1. Fit(w, st) /\ Keeps(e, w) /\ w.active # None BY WithProcessFit DEF Keeps
<1>2. Fit(checked, st) /\ Keeps(w, checked) /\ checked.active.validated
  <2> HIDE DEF w
  <2> QED BY <1>1, CheckedFit
<1>3. Keeps(e, checked) BY <1>1, <1>2 DEF Keeps
<1>4. \/ r \in Engine!UpgradeFailure(e, st)
      \/ r \in Engine!UpgradeFailure(w, st)
      \/ r = Engine!Err(Engine!Discarded(e), st)
      \/ checked.active.exists /\ r = Engine!Ok(checked, st)
      \/ /\ ~ checked.active.exists
         /\ \E o \in Engine!CheckpointActive(checked, st, TRUE):
              IF ~ o.ok THEN r = o ELSE r \in Later(o)
  <2>1. r \in Engine!UpgradeFailure(e, st) \union Engine!UpgradeFailure(w, st)
                \union {Engine!Err(Engine!Discarded(e), st)}
                \union (IF checked.active.exists THEN {Engine!Ok(checked, st)}
                        ELSE UNION {IF ~ o.ok THEN {o} ELSE Later(o):
                                     o \in Engine!CheckpointActive(checked, st, TRUE)})
    BY DEF Engine!Preflight
  <2> HIDE DEF w, checked, Later
  <2> QED BY <2>1
<1>5. e \in Engine!EngineState /\ w \in Engine!EngineState /\ st \in Stored
  BY <1>1 DEF Fit
<1> HIDE DEF w, checked
<1>6. ASSUME NEW f \in {e, w}, r \in Engine!UpgradeFailure(f, st)
      PROVE  Fit(r.engine, r.stored) /\ Evolves(e, st, r) /\ Leaves(e, r.engine)
  <2>1. /\ Fit(Engine!Discarded(f), st) /\ Engine!Discarded(f).active = None
    BY <1>5, DiscardedFit
  <2>2. Fit(f, st) /\ Leaves(e, f) BY <1>1 DEF Keeps, Leaves
  <2>3. r.engine \in {f, Engine!Discarded(f)} /\ r.stored = st
    BY <1>6, OutFields DEF Engine!UpgradeFailure
  <2>4. Leaves(e, Engine!Discarded(f)) BY <2>1 DEF Leaves
  <2> QED BY <2>1, <2>2, <2>3, <2>4, SameFit
<1>7. CASE r = Engine!Err(Engine!Discarded(e), st)
  <2>1. /\ Fit(Engine!Discarded(e), st) /\ Engine!Discarded(e).active = None
    BY <1>5, DiscardedFit
  <2>2. r.engine = Engine!Discarded(e) /\ r.stored = st BY <1>7, OutFields
  <2>3. Leaves(e, Engine!Discarded(e)) BY <2>1 DEF Leaves
  <2> QED BY <2>1, <2>2, <2>3, SameFit
<1>8. CASE r = Engine!Ok(checked, st)
  <2>1. r.engine = checked /\ r.stored = st BY <1>8, OutFields
  <2>2. Leaves(e, checked) BY <1>3 DEF Keeps, Leaves
  <2> QED BY <1>2, <2>1, <2>2, SameFit
<1>9. ASSUME ~ checked.active.exists, NEW o \in Engine!CheckpointActive(checked, st, TRUE),
             IF ~ o.ok THEN r = o ELSE r \in Later(o)
      PROVE  Fit(r.engine, r.stored) /\ Evolves(e, st, r) /\ Leaves(e, r.engine)
  <2>1. checked.active # None /\ Engine!MaySave(checked.active)
    BY <1>2 DEF Keeps, Engine!MaySave
  <2>2. /\ Fit(o.engine, o.stored) /\ Evolves(checked, st, o)
        /\ o.engine.active # None => Carries(checked.active, o.engine.active)
        /\ o.ok => o.engine.active # None
    BY <1>2, <1>9, <2>1, CheckpointFit
  <2>3. Evolves(e, st, o) BY <1>9, <2>2 DEF Evolves
  <2>4. Leaves(e, o.engine) BY <1>3, <2>2 DEF Carries, Keeps, Leaves
  <2>5. CASE ~ o.ok BY <1>9, <2>2, <2>3, <2>4, <2>5
  <2>6. CASE o.ok
    <3> DEFINE f == Engine!WithProcess(o.engine)
    <3>1. Fit(f, o.stored) /\ Keeps(o.engine, f) BY <2>2, <2>6, WithProcessFit
    <3>2. Leaves(e, f) BY <2>4, <2>2, <2>6, <3>1 DEF Keeps, Leaves
    <3>3. \/ r = Engine!Ok(f, o.stored) \/ r = Engine!Err(f, o.stored) \/ r = Engine!Err(o.engine, o.stored)
      BY <1>9, <2>6
    <3> HIDE DEF f
    <3>4. r.engine \in {f, o.engine} /\ r.stored = o.stored BY <3>3, OutFields
    <3>5. Evolves(e, st, r) BY <2>3, <2>6, <3>4 DEF Evolves
    <3> QED BY <2>2, <2>4, <3>1, <3>2, <3>4, <3>5
  <2> QED BY <2>5, <2>6
<1> HIDE DEF Later
<1> QED BY <1>4, <1>6, <1>7, <1>8, <1>9

LEMMA RunFit ==
  ASSUME ImageOk, NEW e, NEW st, Fit(e, st), e.active # None,
         NEW kind \in {"preflight", "checkpoint", "close", "act"}, NEW r \in Engine!Run(kind, e, st)
  PROVE  /\ Fit(r.engine, r.stored) /\ Evolves(e, st, r) /\ Leaves(e, r.engine)
         /\ /\ kind # "preflight" /\ r.engine.active # None
            /\ r.engine.active.validated /\ Flagged(r.engine.active)
            => e.active.validated
<1> DEFINE w == Engine!WithProcess(e)
           Good == /\ Fit(r.engine, r.stored) /\ Evolves(e, st, r) /\ Leaves(e, r.engine)
                   /\ /\ r.engine.active # None
                      /\ r.engine.active.validated /\ Flagged(r.engine.active)
                      => e.active.validated
<1>1. /\ Fit(w, st) /\ Keeps(e, w) /\ w.active.validated = e.active.validated
      /\ w.active # None
  BY WithProcessFit DEF Keeps
<1>2. st \in Stored /\ Leaves(e, e) /\ Leaves(e, w) BY <1>1 DEF Fit, Leaves, Keeps
<1> HIDE DEF w
<1>3. CASE r = Engine!Err(e, st)
  <2>1. r.engine = e /\ r.stored = st BY <1>3, OutFields
  <2> QED BY <1>2, <2>1, SameFit
<1>4. ASSUME NEW f \in {e, w}, NEW retain \in BOOLEAN, r \in Engine!Checkpointed(f, st, retain)
      PROVE  Good
  <2>1. Fit(f, st) /\ Leaves(e, f) /\ (f.active.validated => e.active.validated) /\ f.active # None
    BY <1>1, <1>2
  <2>2. r = Engine!Err(f, st) \/ r \in Engine!CheckpointActive(f, st, retain)
    BY <1>4 DEF Engine!Checkpointed
  <2>3. CASE r = Engine!Err(f, st)
    <3>1. r.engine = f /\ r.stored = st BY <2>3, OutFields
    <3> QED BY <2>1, <3>1, SameFit
  <2>4. CASE r \in Engine!CheckpointActive(f, st, retain)
    <3>1. /\ Fit(r.engine, r.stored) /\ Evolves(f, st, r)
          /\ r.engine.active # None => Carries(f.active, r.engine.active)
      BY <2>1, <2>4, CheckpointFit
    <3>2. Evolves(e, st, r) BY <1>1, <2>1, <3>1, EvolvesSame DEF Keeps
    <3>3. Leaves(e, r.engine) BY <2>1, <3>1 DEF Carries, Leaves
    <3> QED BY <2>1, <3>1, <3>2, <3>3 DEF Carries
  <2> QED BY <2>2, <2>3, <2>4
<1>5. CASE kind = "preflight"
  <2>1. r \in Engine!Preflight(e, st) BY <1>5 DEF Engine!Run
  <2> QED BY <1>5, <2>1, PreflightFit
<1>6. CASE kind = "checkpoint"
  <2>0. /\ Engine!Run(kind, e, st) = {Engine!Err(e, st)} \union Engine!Checkpointed(w, st, TRUE)
    BY <1>6 DEF Engine!Run, w
  <2>1. r = Engine!Err(e, st) \/ r \in Engine!Checkpointed(w, st, TRUE)
    BY <2>0
  <2> HIDE DEF Good
  <2>2. r \in Engine!Checkpointed(w, st, TRUE) => Good BY <1>4
  <2> QED BY <1>3, <2>1, <2>2 DEF Good
<1>7. CASE kind = "close"
  <2>0. Engine!Run(kind, e, st) = Engine!Checkpointed(e, st, FALSE) BY <1>7 DEF Engine!Run
  <2>1. r \in Engine!Checkpointed(e, st, FALSE) BY <2>0
  <2> QED BY <1>4, <2>1
<1>8. CASE kind = "act"
  <2>1. \/ r = Engine!Err(e, st)
        \/ \E f \in Engine!Acted(w), ok \in BOOLEAN: r = Engine!Out(f, st, ok)
    BY <1>8 DEF Engine!Run, w
  <2>2. ASSUME NEW f \in Engine!Acted(w), NEW ok \in BOOLEAN, r = Engine!Out(f, st, ok)
        PROVE  Good
    <3>1. Fit(f, st) /\ f.active = w.active BY <1>1, <2>2, ActedFit
    <3>2. r.engine = f /\ r.stored = st BY <2>2 DEF Engine!Out
    <3>3. Leaves(e, f) BY <1>2, <3>1 DEF Leaves
    <3> QED BY <1>1, <3>1, <3>2, <3>3, SameFit
  <2> QED BY <1>3, <2>1, <2>2
<1> QED BY <1>5, <1>6, <1>7, <1>8

-----------------------------------------------------------------------------
(* The invariant of the engine, one lemma per operation.                   *)

\* A version newer than the saved one is saved under a proof only.
PrOk ==
  engine.active # None /\ engine.active.validated /\ Flagged(engine.active) => proved

EngInv ==
  /\ ImageOk /\ Fit(engine, saved)
  /\ stale \subseteq Engine!Profiles /\ proved \in BOOLEAN
  /\ PrOk

\* The body of UpgradeProved.
Upgrades ==
  \A p \in Engine!Profiles \ stale:
    Engine!IsSaved(saved[p]) /\ Engine!IsSaved(saved'[p]) /\ saved'[p].env # saved[p].env
      => proved /\ saved'[p].env > saved[p].env

LEMMA EngInvInit == Engine!EngInit => EngInv
<1> SUFFICES ASSUME Engine!EngInit PROVE EngInv
  OBVIOUS
<1>1. /\ engine \in Engine!EngineState /\ engine.active = None /\ engine.ops = None
  BY DEF Engine!EngInit, Engine!EngineState
<1>2. saved \in Stored
  BY DEF Engine!EngInit, Stored, Engine!Saved
<1>3. Fit(engine, saved) BY <1>1, <1>2, EmptyFit
<1> QED BY <1>1, <1>3 DEF Engine!EngInit, EngInv, ImageOk, PrOk

\* Fit of the next state from Fit of an outcome under the same image.
LEMMA FitNext ==
  ASSUME NEW e, NEW st, Fit(e, st), engine' = e, saved' = st, image' = image
  PROVE  Fit(engine, saved)'
BY DEF Fit, WorkOk, OpsOk, StoreOk, Stored

\* The store an operation leaves, from what it evolved from.
LEMMA UpgradesOf ==
  ASSUME EngInv, NEW o, Evolves(engine, saved, o), saved' = o.stored
  PROVE  Upgrades
BY DEF EngInv, PrOk, Evolves, Upgrades

LEMMA ExecuteStep ==
  ASSUME EngInv, Engine!Execute
  PROVE  EngInv' /\ Upgrades
<1>1. PICK id \in Engine!Owners, kind \in {"preflight", "checkpoint", "close", "act"} :
        \E o \in Engine!Activate(id):
           IF ~ o.ok
           THEN Engine!Became(o) /\ proved' = (proved /\ Engine!SameActivation(o.engine))
           ELSE \E r \in Engine!Run(kind, o.engine, o.stored):
                  /\ Engine!Became(r)
                  /\ proved' = (Engine!Proves(kind, o.engine, r)
                                 \/ (proved /\ Engine!SameActivation(r.engine)))
  BY DEF Engine!Execute
<1>2. PICK o \in Engine!Activate(id):
           IF ~ o.ok
           THEN Engine!Became(o) /\ proved' = (proved /\ Engine!SameActivation(o.engine))
           ELSE \E r \in Engine!Run(kind, o.engine, o.stored):
                  /\ Engine!Became(r)
                  /\ proved' = (Engine!Proves(kind, o.engine, r)
                                 \/ (proved /\ Engine!SameActivation(r.engine)))
  BY <1>1
<1>3. ImageOk /\ image' = image /\ ImageOk' BY DEF EngInv, ImageOk, Engine!Execute
<1>4. /\ Fit(engine, saved) /\ stale \subseteq Engine!Profiles /\ proved \in BOOLEAN /\ PrOk
      /\ saved \in Stored
  BY DEF EngInv, Fit
<1>5. /\ Fit(o.engine, o.stored) /\ Evolves(engine, saved, o)
      /\ o.ok => /\ o.engine.active # None /\ o.engine.active.owner = id
                 /\ GoesOn(engine, o.engine, id) \/ ~ o.engine.active.validated
      /\ ~ o.ok /\ o.engine.active # None =>
           engine.active # None /\ Carries(engine.active, o.engine.active)
  BY <1>3, <1>4, ActivateFit
<1>6. ASSUME NEW r, Engine!Became(r), Fit(r.engine, r.stored)
      PROVE  /\ engine' = r.engine /\ saved' = r.stored
             /\ Fit(engine, saved)' /\ stale' \subseteq Engine!Profiles
  <2>1. engine' = r.engine /\ saved' = r.stored /\ stale' \subseteq stale
    BY <1>6 DEF Engine!Became
  <2> QED BY <1>3, <1>4, <1>6, <2>1, FitNext
<1>7. CASE ~ o.ok
  <2>1. Engine!Became(o) /\ proved' = (proved /\ Engine!SameActivation(o.engine))
    BY <1>2, <1>7
  <2>2. /\ engine' = o.engine /\ saved' = o.stored
        /\ Fit(engine, saved)' /\ stale' \subseteq Engine!Profiles
    BY <1>5, <1>6, <2>1
  <2>3. proved' \in BOOLEAN BY <2>1 DEF Engine!SameActivation
  <2>4. PrOk'
    <3> SUFFICES ASSUME o.engine.active # None, o.engine.active.validated, Flagged(o.engine.active)
                 PROVE  proved'
      BY <2>2 DEF PrOk, Flagged
    <3>1. /\ engine.active # None /\ Flagged(engine.active) /\ engine.active.validated
          /\ o.engine.active.owner = engine.active.owner
      BY <1>5, <1>7 DEF Carries
    <3>2. proved BY <1>4, <3>1 DEF PrOk
    <3>3. Engine!SameActivation(o.engine) BY <3>1 DEF Engine!SameActivation
    <3> QED BY <2>1, <3>2, <3>3
  <2>5. Upgrades BY <1>5, <2>2, UpgradesOf
  <2> QED BY <1>3, <2>2, <2>3, <2>4, <2>5 DEF EngInv
<1>8. CASE o.ok
  <2>1. PICK r \in Engine!Run(kind, o.engine, o.stored):
          /\ Engine!Became(r)
          /\ proved' = (Engine!Proves(kind, o.engine, r)
                         \/ (proved /\ Engine!SameActivation(r.engine)))
    BY <1>2, <1>8
  <2> DEFINE e == o.engine
             f == r.engine
  <2>2. /\ Fit(r.engine, r.stored) /\ Evolves(e, o.stored, r) /\ Leaves(e, f)
        /\ /\ kind # "preflight" /\ f.active # None
           /\ f.active.validated /\ Flagged(f.active)
           => e.active.validated
    BY <1>3, <1>5, <1>8, RunFit
  <2>3. /\ engine' = f /\ saved' = r.stored
        /\ Fit(engine, saved)' /\ stale' \subseteq Engine!Profiles
    BY <1>6, <2>1, <2>2
  <2>4. proved' \in BOOLEAN BY <2>1 DEF Engine!SameActivation, Engine!Proves
  <2> HIDE DEF e, f
  <2>5. ASSUME e.active.validated, Flagged(e.active)
        PROVE  /\ proved /\ engine.active # None /\ engine.active.validated
               /\ Flagged(engine.active)
               /\ e.active.owner = id /\ engine.active.owner.session = id.session
               /\ engine.active.exists = e.active.exists
    <3>1. GoesOn(engine, e, id) /\ e.active.owner = id BY <1>5, <1>8, <2>5 DEF e
    <3>2. /\ engine.active # None /\ engine.active.validated /\ Flagged(engine.active)
          /\ engine.active.owner.session = id.session
          /\ engine.active.exists = e.active.exists
      BY <2>5, <3>1 DEF GoesOn
    <3> QED BY <1>4, <3>1, <3>2 DEF PrOk
  <2>6. PrOk'
    <3> SUFFICES ASSUME f.active # None, f.active.validated, Flagged(f.active)
                 PROVE  proved'
      BY <2>3 DEF PrOk, Flagged
    <3>1. Flagged(e.active) /\ f.active.owner = e.active.owner BY <2>2 DEF Leaves
    <3>2. CASE e.active.validated
      <4>1. /\ proved /\ engine.active # None
            /\ f.active.owner.session = engine.active.owner.session
        BY <2>5, <3>1, <3>2
      <4>2. Engine!SameActivation(r.engine) BY <4>1 DEF Engine!SameActivation, f
      <4> QED BY <2>1, <4>1, <4>2
    <3>3. CASE ~ e.active.validated
      <4>1. kind = "preflight" BY <2>2, <3>3
      <4>2. Engine!Proves(kind, o.engine, r) BY <3>3, <4>1 DEF Engine!Proves, e, f
      <4> QED BY <2>1, <4>2
    <3> QED BY <3>2, <3>3
  <2>7. Upgrades
    <3> SUFFICES ASSUME NEW p \in Engine!Profiles \ stale, Engine!IsSaved(saved[p]),
                        Engine!IsSaved(r.stored[p]), r.stored[p].env # saved[p].env
                 PROVE  proved /\ r.stored[p].env > saved[p].env
      BY <2>3 DEF Upgrades
    <3>1. /\ Engine!IsSaved(o.stored[p])
          /\ o.stored[p].env # saved[p].env =>
               /\ engine.active # None /\ engine.active.validated /\ Flagged(engine.active)
               /\ o.stored[p].env > saved[p].env
      BY <1>5, <1>8 DEF Evolves
    <3>2. r.stored[p].env # o.stored[p].env =>
            e.active.validated /\ Flagged(e.active) /\ r.stored[p].env > o.stored[p].env
      BY <2>2, <3>1 DEF Evolves
    <3>3. proved BY <1>4, <2>5, <3>1, <3>2 DEF PrOk
    <3>4. o.stored \in Stored /\ r.stored \in Stored BY <1>5, <2>2 DEF Fit
    <3>5. saved[p].env \in Nat /\ o.stored[p].env \in Nat /\ r.stored[p].env \in Nat
      BY <1>4, <3>1, <3>4, SavedEnv
    <3>6. \A i, j, k \in Nat: (j # i => j > i) /\ (k # j => k > j) /\ k # i => k > i
      OBVIOUS
    <3> QED BY <3>1, <3>2, <3>3, <3>5, <3>6
  <2> QED BY <1>3, <2>3, <2>4, <2>6, <2>7 DEF EngInv
<1> QED BY <1>7, <1>8

LEMMA ExecuteViewerStep ==
  ASSUME EngInv, Engine!ExecuteViewer
  PROVE  EngInv' /\ Upgrades
<1>1. PICK id \in Engine!Owners:
        /\ id.session = engine.active.owner.session
        /\ \E e \in Engine!Acted(Engine!Published([engine EXCEPT !.active.owner = id])): engine' = e
  BY DEF Engine!ExecuteViewer
<1> DEFINE f == Engine!Published([engine EXCEPT !.active.owner = id])
<1>2. /\ engine.active # None /\ saved' = saved /\ stale' = stale /\ proved' = proved
      /\ image' = image
      /\ Fit(engine, saved) /\ saved \in Stored /\ PrOk
  BY DEF Engine!ExecuteViewer, EngInv, Fit
<1>3. /\ Fit(f, saved) /\ f.active # None
      /\ f.active.validated = engine.active.validated
      /\ (Flagged(f.active) <=> Flagged(engine.active))
  BY <1>2, OwnedFit
<1> HIDE DEF f
<1>4. PICK e \in Engine!Acted(f): engine' = e BY <1>1 DEF f
<1>5. Fit(e, saved) /\ e.active = f.active BY <1>3, <1>4, ActedFit
<1>6. Fit(engine, saved)' BY <1>2, <1>4, <1>5, FitNext
<1>7. PrOk' BY <1>2, <1>3, <1>4, <1>5 DEF PrOk, Flagged
<1>8. Upgrades BY <1>2 DEF Upgrades
<1> QED BY <1>2, <1>6, <1>7, <1>8 DEF EngInv, ImageOk

LEMMA AbortStep ==
  ASSUME EngInv, Engine!AbortActive
  PROVE  EngInv' /\ Upgrades
<1>1. /\ engine' = Engine!Discarded(engine) /\ proved' = FALSE
      /\ saved' = saved /\ stale' = stale /\ image' = image
  BY DEF Engine!AbortActive
<1>2. engine \in Engine!EngineState /\ saved \in Stored BY DEF EngInv, Fit
<1>3. Fit(Engine!Discarded(engine), saved) /\ Engine!Discarded(engine).active = None
  BY <1>2, DiscardedFit
<1>4. Fit(engine, saved)' BY <1>1, <1>3, FitNext
<1>5. PrOk' BY <1>1, <1>3 DEF PrOk
<1>6. Upgrades BY <1>1 DEF Upgrades
<1> QED BY <1>1, <1>4, <1>5, <1>6 DEF EngInv, ImageOk

\* The outcomes of a checkpoint are answers, whose engine may be replaced.
IsAnswer(o) == \E e, st: o = Engine!Ok(e, st) \/ o = Engine!Err(e, st)

LEMMA CheckpointAnswer ==
  ASSUME NEW e, NEW st, NEW retain \in BOOLEAN, NEW o \in Engine!CheckpointActive(e, st, retain)
  PROVE  IsAnswer(o)
<1>1. ASSUME NEW f, NEW x \in Engine!SaveOutcomes(f, st) PROVE IsAnswer(x)
  BY <1>1 DEF Engine!SaveOutcomes, IsAnswer
<1>2. ASSUME NEW x, IsAnswer(x), NEW y \in Engine!Released(x, retain) PROVE IsAnswer(y)
  BY <1>2 DEF Engine!Released, IsAnswer
<1> DEFINE a == e.active
           f == [e EXCEPT !.active.process = FALSE, !.ops = IF a.process THEN None ELSE @]
<1>3. \/ IsAnswer(o)
      \/ \E x \in Engine!SaveOutcomes(f, st): o \in Engine!Released(x, retain)
  BY DEF Engine!CheckpointActive, IsAnswer
<1> QED BY <1>1, <1>2, <1>3

LEMMA AnswerEngine ==
  ASSUME NEW o, IsAnswer(o), NEW f
  PROVE  [o EXCEPT !.engine = f].engine = f /\ [o EXCEPT !.engine = f].stored = o.stored
BY DEF IsAnswer, Engine!Ok, Engine!Err, Engine!Out

LEMMA CloseStep ==
  ASSUME EngInv, Engine!Close
  PROVE  EngInv' /\ Upgrades
<1> DEFINE c == [engine EXCEPT !.closed = TRUE, !.ops = None]
<1>1. PICK o \in Engine!CheckpointActive(c, saved, FALSE):
        Engine!Became([o EXCEPT !.engine = Engine!Reset(o.engine)])
  BY DEF Engine!Close
<1>2. /\ proved' = proved /\ image' = image /\ proved \in BOOLEAN /\ ImageOk /\ PrOk
      /\ stale \subseteq Engine!Profiles
      /\ engine \in Engine!EngineState /\ saved \in Stored
      /\ WorkOk(engine) /\ OpsOk(engine) /\ StoreOk(engine, saved)
  BY DEF Engine!Close, EngInv, Fit
<1>3. /\ c \in Engine!EngineState /\ c.active = engine.active /\ c.work = engine.work
      /\ c.ops = None
  BY <1>2 DEF Engine!EngineState
<1> HIDE DEF c
<1>4. Fit(c, saved) BY <1>2, <1>3 DEF Fit, WorkOk, OpsOk, StoreOk
<1>5. /\ Fit(o.engine, o.stored) /\ Evolves(c, saved, o)
      /\ o.engine.active # None => c.active # None /\ Carries(c.active, o.engine.active)
      /\ o.ok => o.engine.active = None
  BY <1>2, <1>4, CheckpointFit
<1> DEFINE f == Engine!Reset(o.engine)
<1>6. /\ f \in Engine!EngineState /\ f.active = o.engine.active /\ f.ops = o.engine.ops
      /\ f.work = {}
  BY <1>5, ResetFields DEF Fit
<1> HIDE DEF f
<1>7. Fit(f, o.stored) BY <1>5, <1>6 DEF Fit, WorkOk, OpsOk, StoreOk
<1>8. engine' = f /\ saved' = o.stored /\ stale' \subseteq stale
  <2>1. IsAnswer(o) BY CheckpointAnswer
  <2>2. /\ [o EXCEPT !.engine = f].engine = f
        /\ [o EXCEPT !.engine = f].stored = o.stored
    BY <2>1, AnswerEngine
  <2> QED BY <1>1, <2>2 DEF Engine!Became, f
<1>9. Fit(engine, saved)' BY <1>2, <1>7, <1>8, FitNext
<1>10. PrOk' BY <1>2, <1>3, <1>5, <1>6, <1>8 DEF PrOk, Carries, Flagged
<1>11. Evolves(engine, saved, o) BY <1>3, <1>5 DEF Evolves
<1>12. Upgrades BY <1>8, <1>11, UpgradesOf
<1> QED BY <1>2, <1>8, <1>9, <1>10, <1>12 DEF EngInv, ImageOk

LEMMA RestartStep ==
  ASSUME EngInv, Engine!Restart
  PROVE  EngInv' /\ Upgrades
<1>1. /\ engine' = [active |-> None, ops |-> None, work |-> {}, workValid |-> TRUE, closed |-> FALSE]
      /\ proved' = FALSE /\ saved' = saved /\ stale' = stale /\ ImageOk'
  BY DEF Engine!Restart, ImageOk
<1>2. /\ engine' \in Engine!EngineState /\ engine'.active = None /\ engine'.ops = None
  BY <1>1 DEF Engine!EngineState
<1>3. saved' \in Stored BY <1>1 DEF EngInv, Fit
<1>4. Fit(engine, saved)' BY <1>2, <1>3 DEF Fit, WorkOk, OpsOk, StoreOk, Stored
<1>5. PrOk' BY <1>2 DEF PrOk
<1>6. Upgrades BY <1>1 DEF Upgrades
<1> QED BY <1>1, <1>4, <1>5, <1>6 DEF EngInv

LEMMA GrowStaleStep ==
  ASSUME EngInv, Engine!GrowStale
  PROVE  EngInv' /\ Upgrades
<1>1. PICK p \in Engine!Profiles \ stale: stale' = stale \union {p}
  BY DEF Engine!GrowStale
<1>2. engine' = engine /\ saved' = saved /\ proved' = proved /\ image' = image
  BY DEF Engine!GrowStale
<1>3. Fit(engine, saved)' BY <1>2, FitNext DEF EngInv
<1>4. Upgrades BY <1>2 DEF Upgrades
<1>5. PrOk' BY <1>2 DEF EngInv, PrOk, Flagged
<1> QED BY <1>1, <1>2, <1>3, <1>4, <1>5 DEF EngInv, ImageOk

LEMMA EngInvStep ==
  ASSUME EngInv, Engine!EngNext
  PROVE  EngInv' /\ Upgrades
BY ExecuteStep, ExecuteViewerStep, AbortStep, CloseStep, RestartStep, GrowStaleStep
   DEF Engine!EngNext

LEMMA EngInvSame ==
  ASSUME EngInv, UNCHANGED engineVars
  PROVE  EngInv' /\ Upgrades
<1>1. /\ engine' = engine /\ saved' = saved /\ stale' = stale /\ proved' = proved
      /\ image' = image
  BY DEF engineVars
<1>2. Fit(engine, saved)' BY <1>1, FitNext DEF EngInv
<1>3. Upgrades BY <1>1 DEF Upgrades
<1>4. PrOk' BY <1>1 DEF EngInv, PrOk, Flagged
<1> QED BY <1>1, <1>2, <1>3, <1>4 DEF EngInv, ImageOk

ProfilesInv == StoreInv /\ EngInv

LEMMA ProfilesInvInit == ProfilesInit => ProfilesInv
BY StoreInvInit, EngInvInit DEF ProfilesInit, ProfilesInv

LEMMA ProfilesInvStep == ProfilesInv /\ [ProfilesNext]_profilesVars => ProfilesInv' /\ Upgrades
<1> SUFFICES ASSUME ProfilesInv, [ProfilesNext]_profilesVars PROVE ProfilesInv' /\ Upgrades
  OBVIOUS
<1>1. StoreInv /\ EngInv BY DEF ProfilesInv
<1>2. CASE Next /\ UNCHANGED <<part, engineVars>>
  <2>1. StoreInv' BY <1>1, <1>2, StoreInvStep
  <2>2. EngInv' /\ Upgrades BY <1>1, <1>2, EngInvSame
  <2> QED BY <2>1, <2>2 DEF ProfilesInv
<1>3. CASE Engine!EngNext /\ UNCHANGED <<part, vars>>
  <2>1. StoreInv' BY <1>1, <1>3, StoreInvStep
  <2>2. EngInv' /\ Upgrades BY <1>1, <1>3, EngInvStep
  <2> QED BY <2>1, <2>2 DEF ProfilesInv
<1>4. CASE UNCHANGED profilesVars
  <2>1. UNCHANGED vars /\ UNCHANGED engineVars BY <1>4 DEF profilesVars
  <2>2. StoreInv' BY <1>1, <2>1, StoreInvStep
  <2>3. EngInv' /\ Upgrades BY <1>1, <2>1, EngInvSame
  <2> QED BY <2>2, <2>3 DEF ProfilesInv
<1> QED BY <1>2, <1>3, <1>4 DEF ProfilesNext

-----------------------------------------------------------------------------
(* The theorems.                                                           *)

\* The store and the engine above it keep their invariants.
THEOREM ProfilesInvariance == ProfilesSpec => []ProfilesInv
BY ProfilesInvInit, ProfilesInvStep, PTL DEF ProfilesSpec

\* Type correctness of the store's directories and of what the engine and the
\* saved Profiles hold.
THEOREM ProfilesTypeCorrect == ProfilesSpec => []ProfilesTypeOK
<1>1. ProfilesInv => ProfilesTypeOK
  BY DEF ProfilesInv, StoreInv, EngInv, Fit, Stored, ImageOk, ProfilesTypeOK,
     Engine!EngTypeOK
<1> QED BY <1>1, ProfilesInvariance, PTL

\* Whatever fails in activate, checkpointActive or Close, the work directory
\* never holds the plaintext of a Profile beside the active one.
THEOREM OneProfileInWork == ProfilesSpec => []WorkOfActive
<1>1. ProfilesInv => WorkOfActive
  BY DEF ProfilesInv, EngInv, Fit, WorkOk, WorkOfActive, Engine!WorkOfActive
<1> QED BY <1>1, ProfilesInvariance, PTL

\* publishOpsSnapshotLocked: the operations observer is shown the present owner
\* of a running Browser, and of an upgraded or adopted Profile only after its
\* preflight passed.
THEOREM ObservedBrowserRuns == ProfilesSpec => []ObservedIsActive
<1>1. ProfilesInv => ObservedIsActive
  BY DEF ProfilesInv, EngInv, Fit, OpsOk, PrOk, Flagged, ObservedIsActive,
     Engine!ObservedIsActive
<1> QED BY <1>1, ProfilesInvariance, PTL

\* No operation, whatever fails in it, saves a Profile under another Browser
\* version than it was saved under, unless that version is newer and passed a
\* preflight on it (Activate's comparison with the image, MaySave).  What had
\* expired is gone before another Profile is begun.
THEOREM UpgradesAreProved == ProfilesSpec => UpgradeProved
<1>1. ProfilesInv /\ [ProfilesNext]_profilesVars => [Upgrades]_(Engine!engVars)
  BY ProfilesInvStep
<1> QED BY <1>1, ProfilesInvariance, PTL
     DEF ProfilesSpec, UpgradeProved, Engine!UpgradeProved, Upgrades, Engine!Profiles

\* The store beneath the engine makes steps of its own only.
LEMMA StoreBeneath == ProfilesSpec => Spec
<1>1. ProfilesInit => Init
  BY DEF ProfilesInit
<1>2. [ProfilesNext]_profilesVars => [Next]_vars
  BY DEF ProfilesNext, profilesVars
<1> QED BY <1>1, <1>2, PTL DEF ProfilesSpec, Spec

\* Beneath the engine, too, the store implements the register the engine is
\* built on: saves are atomic and are acknowledged only when they are safe.
THEOREM RegisterBeneath == ProfilesSpec => StoreIsRegister
BY StoreBeneath, Implementation, PTL

\* So no load of the engine finds a Profile with an acknowledged save torn or
\* older than that save, whatever a power failure keeps of it ...
THEOREM NothingLostBeneath == ProfilesSpec => []SavedNeverOlder
BY StoreBeneath, NothingSavedIsLost, PTL

\* ... and a Profile with an acknowledged save that is moved to quarantine
\* loads: the store moves it because a read failed, or because the engine asks.
THEOREM NoneQuarantinedBeneath == ProfilesSpec => SavedNotQuarantined
BY StoreBeneath, NoSavedQuarantined, PTL
=============================================================================
