------------------------------ MODULE MCProfiles ------------------------------
(***************************************************************************)
(* The Profile store and, above it, the Profile engine, for TLC.  They     *)
(* share the Profile only through the promise of CheckpointRegister, which *)
(* ProfileStore is checked against and ProfileEngine is built on; so no    *)
(* behaviour moves both: `part` says which one this behaviour moves.       *)
(***************************************************************************)
EXTENDS ProfileStore, TLC

CONSTANTS s1, s3, p1, p2, Sessions, ProfileOf, Epochs, Images, Labels

VARIABLES part, engine, saved, stale, proved, image

Engine == INSTANCE ProfileEngine WITH stored <- saved

\* The values that stand for nothing are none of the engine's.
ASSUME EngineAssumption ==
  /\ Images \subseteq Nat
  /\ None # Torn /\ None \notin Engine!Owners \union Engine!ActiveProfile
  /\ None \notin Engine!Saved /\ Torn \notin Engine!Saved

engineVars == <<engine, saved, stale, proved, image>>
profilesVars == <<part, vars, engineVars>>

\* Two Sessions of two Profiles.
MCProfileOf == (s1 :> p1) @@ (s3 :> p2)

\* The engine of a behaviour that moves the store is not started.
EngineRests ==
  /\ \A p \in Engine!Profiles : saved[p] = None
  /\ \A i \in Images, l \in Labels : image.env <= i /\ image.label <= l

ProfilesInit ==
  /\ part \in {"store", "engine"}
  /\ Init
  /\ Engine!EngInit
  /\ part = "engine" \/ EngineRests

ProfilesNext ==
  \/ part = "store" /\ Next /\ UNCHANGED <<part, engineVars>>
  \/ part = "engine" /\ Engine!EngNext /\ UNCHANGED <<part, vars>>

ProfilesSpec == ProfilesInit /\ [][ProfilesNext]_profilesVars
-----------------------------------------------------------------------------
\* The types of the store and of the engine.
ProfilesTypeOK == TypeOK /\ Engine!EngTypeOK

\* The properties of the engine, see ProfileEngine.tla: the work directory
\* holds the plaintext of the active Profile only,
WorkOfActive == Engine!WorkOfActive

\* the operations observer is shown the present owner's running Browser only,
ObservedIsActive == Engine!ObservedIsActive

\* and a saved Profile changes its Browser version only after a preflight.
UpgradeProved == Engine!UpgradeProved
=============================================================================
