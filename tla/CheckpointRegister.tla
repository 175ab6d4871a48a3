------------------------- MODULE CheckpointRegister -------------------------
(***************************************************************************)
(* What the Profile store promises of one Profile, without its files: a    *)
(* register that shows the version saved last and that a power failure may *)
(* take back no further than the version acknowledged last.  It shows a    *)
(* torn Profile only as long as no save of it was acknowledged.  One thing *)
(* is not promised: the directory of a new Profile is not synchronised     *)
(* with its first save, so a power failure may undo the Profile as a whole.*)
(***************************************************************************)
EXTENDS Naturals

CONSTANTS
  Versions,   \* the payloads handed to the store, numbered in order
  None,       \* no Profile
  Torn        \* a Profile directory that no load accepts

VARIABLES
  stored,     \* what a load finds now
  recent,     \* what it may find after a power failure that keeps the Profile
  whole,      \* what it may find after one that undoes the Profile
  promised    \* the version whose save was acknowledged last, or None

regVars == <<stored, recent, whole, promised>>

Shown == Versions \cup {None, Torn}

\* A load after an acknowledged save finds that version or a later one.
NotOlder(s, p) == s \in {v \in Versions : v >= p}

\* What a save may leave behind as long as none was acknowledged.
Unsaved == IF promised = None THEN {Torn} ELSE {}

RegInit == stored = None /\ recent = {} /\ whole = {None} /\ promised = None

\* A later version becomes visible; until it is settled the old one may return.
Publish ==
  /\ \E v \in Versions :
       /\ \A w \in ({stored} \cup recent) \cap Versions : w < v
       /\ stored' = v
       /\ recent' \subseteq recent \cup {v} \cup Unsaved
  /\ whole' \subseteq whole
  /\ UNCHANGED promised

\* A save is acknowledged only when no power failure takes it back.
Acknowledge ==
  /\ stored \in Versions
  /\ promised' = stored
  /\ recent' = {stored}
  /\ whole' \subseteq whole
  /\ UNCHANGED stored

\* The Profile is taken apart, or a new one is begun.
Undo ==
  /\ recent' \subseteq recent \cup {Torn}
  /\ whole' \subseteq whole \cup recent \cup {None, Torn}

\* Work on a Profile no save of which was acknowledged.
Scrap == promised = None /\ stored' \in {None, Torn} /\ Undo /\ UNCHANGED promised

\* Part of the uncertainty goes away.
Settle ==
  /\ recent' \subseteq recent /\ whole' \subseteq whole
  /\ UNCHANGED <<stored, promised>>

\* The Profile expires, is damaged, or is given up: found invalid, or whole but
\* not read.  The promise ends.
Lose == promised' = None /\ stored' \in {stored, None, Torn} /\ Undo

\* The machine stops and starts.
PowerFailure ==
  \/ /\ stored' \in recent /\ recent' = {stored'} /\ whole' = {}
     /\ UNCHANGED promised
  \/ /\ stored' \in whole /\ promised' = None
     /\ \/ stored' = None /\ recent' = {} /\ whole' = {None}
        \/ stored' # None /\ recent' = {stored'} /\ whole' = {}

RegNext ==
  \/ Publish
  \/ Acknowledge
  \/ Scrap
  \/ Settle
  \/ Lose
  \/ PowerFailure

RegSpec == RegInit /\ [][RegNext]_regVars
-----------------------------------------------------------------------------
(* What the register guarantees to a caller.                               *)

RegTypeOK ==
  /\ stored \in Shown
  /\ recent \in SUBSET (Versions \cup {Torn})
  /\ whole \in SUBSET Shown
  /\ promised \in Versions \cup {None}

\* As long as the Profile exists, what a load finds is never torn and never
\* older than the version acknowledged last, power failures included.
NeverOlder ==
  promised # None => \A s \in {stored} \cup recent : NotOlder(s, promised)
=============================================================================
