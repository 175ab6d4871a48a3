--------------------------- MODULE BackendSelector ---------------------------
(***************************************************************************)
(* The choice between official Chrome and the isolated Chromium            *)
(* (backend_selector.go, official_chrome_backend.go).  A preflight selects *)
(* one backend for a Session generation; later attachments of it follow.   *)
(* Execute, ExecuteViewer and the first half of Close hold selector.mu,    *)
(* so each is one step; the two backends are closed after it is released,  *)
(* and the operations observer reads the published snapshot without it.    *)
(***************************************************************************)
EXTENDS Naturals

CONSTANTS
  Generations,   \* Sessions with their epoch
  Attachments,   \* attachments; the Run of an attachment is its own
  None

VARIABLES
  selected,   \* the backend in use
  locked,     \* the requested mode its evidence records
  scope,      \* the identity the selector serves
  held,       \* the identity each backend has a live Session of
  shown,      \* the snapshot of the operations observer
  official,   \* whether official Chrome is available here
  life        \* "open", "closing" (the backends still open), or "closed"

selVars == <<selected, locked, scope, held, shown, official, life>>
choice == <<selected, locked, scope>>

Backends == {"official", "isolated"}
Modes == {"native", "auto", "isolated"}    \* canonicalBackendMode
Ids == [gen : Generations, att : Attachments]

Matches(id) == scope = id                                  \* matches
SameGeneration(id) == scope # None /\ scope.gen = id.gen   \* sameGeneration
\* Mutant of NewGeneration: another attachment counts as another Session.
NewAttachment(id) == ~Matches(id)

NewGeneration(id) == ~SameGeneration(id)                   \* isNewGeneration

\* isEquivalentModeContinuation: a new attachment that asks for the same mode.
SameMode(id, kind, mode) ==
  kind = "preflight" /\ mode = locked /\ SameGeneration(id) /\ ~Matches(id)

\* Mutant of Shown: the whole identity is published.
ShownScope(s, id) == IF s = None THEN None ELSE [backend |-> s, att |-> id]

\* publishOpsSnapshotLocked
Shown(s, id) == IF s = None THEN None ELSE [backend |-> s, att |-> id.att]

\* What a backend, a ProfileEngine, holds after a request: see ProfileEngine.
Answers(b, id, kind) ==
  LET failed == {[ok |-> FALSE, holds |-> h] : h \in {held[b], id, None}}
  IN  IF kind # "close" THEN {[ok |-> TRUE, holds |-> id]} \cup failed
      ELSE IF held[b] # id THEN {[ok |-> TRUE, holds |-> held[b]]}
      ELSE {[ok |-> TRUE, holds |-> None]}
           \cup {[ok |-> FALSE, holds |-> h] : h \in {id, None}}

\* Mutant of Aborted: the failed backend keeps the Session it had begun.
AbortedNothing(h, b) == h

\* AbortStartup (AbortActive of the engine): the Session is gone even if the
\* clean-up reports an error.
Aborted(h, b) == [h EXCEPT ![b] = None]

Select(b, mode, id) ==
  /\ selected' = b /\ locked' = mode /\ scope' = id
  /\ shown' = Shown(b, id)

\* Nothing is selected, and s0 stays published.
NoneSelected(s0) ==
  /\ selected' = None /\ locked' = None /\ scope' = None
  /\ shown' = s0

SelectNone == NoneSelected(None)

\* selectBackend: a preflight on one backend, aborted if it fails or its Profile
\* evidence does not match; h0 and the snapshot s0 are what the steps before it
\* left.
Started(h0, s0, b, mode, id) ==
  \E a \in Answers(b, id, "preflight") :
    \/ a.ok /\ held' = [h0 EXCEPT ![b] = id] /\ Select(b, mode, id)
    \/ /\ a.ok => b = "official"
       /\ held' = Aborted([h0 EXCEPT ![b] = a.holds], b) /\ NoneSelected(s0)

\* selectAuto: official Chrome first; if it fails and could be cleaned up, the
\* isolated backend.
StartedAuto(h0, s0, id) ==
  \/ ~official /\ Started(h0, s0, "isolated", "auto", id)
  \/ official /\ Started(h0, s0, "official", "auto", id)
  \/ official /\ \E a \in Answers("official", id, "preflight") :
       /\ ~a.ok
       /\ Started(Aborted([h0 EXCEPT !["official"] = a.holds], "official"), s0,
                  "isolated", "auto", id)

\* The first selection, by mode; without a mode the isolated backend.
FirstSelection(h0, s0, id, mode) ==
  \/ mode \in {"isolated", None} /\ Started(h0, s0, "isolated", "isolated", id)
  \/ mode = "native" /\ official /\ Started(h0, s0, "official", "native", id)
  \/ mode = "native" /\ ~official /\ held' = h0 /\ NoneSelected(s0)
  \/ mode = "auto" /\ StartedAuto(h0, s0, id)
-----------------------------------------------------------------------------
(* Execute, one action per path through it.                                *)

\* A new attachment goes to the selected backend and takes the scope with it;
\* if its preflight fails the selection ends.  It also ends if the Profile
\* evidence of official Chrome does not match, and then the observer keeps the
\* snapshot of the selection that ended.
ExecuteRotated(id, kind, mode) ==
  /\ selected # None /\ ~Matches(id)
  /\ mode = None \/ SameMode(id, kind, mode)
  /\ \E a \in Answers(selected, id, kind) :
       LET h == [held EXCEPT ![selected] = a.holds] IN
       \/ a.ok /\ held' = h /\ Select(selected, locked, id)
       \/ ~a.ok /\ kind # "preflight" /\ held' = h
            /\ UNCHANGED <<choice, shown>>
       \/ ~a.ok /\ kind = "preflight"
            /\ held' = Aborted(h, selected)
            /\ (SelectNone \/ UNCHANGED <<choice, shown>>)
       \/ a.ok /\ kind = "preflight" /\ selected = "official"
            /\ held' = Aborted(h, selected)
            /\ NoneSelected(shown)

\* An explicit mode is for another Session only: what is held is aborted and
\* the backend chosen again.
ExecuteNewGeneration(id, kind, mode) ==
  /\ selected # None /\ mode # None
  /\ kind = "preflight" /\ NewGeneration(id)
  /\ \/ FirstSelection(Aborted(held, selected), None, id, mode)
     \/ held' = Aborted(held, selected) /\ UNCHANGED <<choice, shown>>

ExecuteInScope(id, kind) ==
  /\ selected # None /\ Matches(id)
  /\ \E a \in Answers(selected, id, kind) :
       /\ held' = [held EXCEPT ![selected] = a.holds]
       /\ UNCHANGED <<choice, shown>>

ExecuteFirst(id, mode) ==
  /\ selected = None
  /\ FirstSelection(held, shown, id, mode)

Execute ==
  /\ life = "open"
  /\ \E id \in Ids, kind \in {"preflight", "act", "close"},
        mode \in Modes \cup {None} :
       /\ mode # None => kind = "preflight"
       /\ \/ ExecuteRotated(id, kind, mode)
          \/ ExecuteNewGeneration(id, kind, mode)
          \/ mode = None /\ ExecuteInScope(id, kind)
          \/ kind = "preflight" /\ ExecuteFirst(id, mode)
  /\ UNCHANGED <<official, life>>

\* ExecuteViewer: the human of the scope works in the selected backend.
ExecuteViewer ==
  /\ life = "open" /\ selected # None
  /\ held[selected] # None /\ held[selected].gen = scope.gen
  /\ held' = [held EXCEPT ![selected] = scope]
  /\ UNCHANGED <<choice, shown, official, life>>

Close ==
  /\ life = "open"
  /\ life' = "closing"
  /\ SelectNone
  /\ UNCHANGED <<held, official>>

\* Each backend is closed in turn; a failed save may leave its Session behind.
CloseBackends ==
  /\ life = "closing"
  /\ life' = "closed"
  /\ held' \in [Backends -> Ids \cup {None}]
  /\ \A b \in Backends : held'[b] \in {held[b], None}
  /\ UNCHANGED <<choice, shown, official>>

\* The Runtime ends and starts again (NewBackendSelector).
Restart ==
  /\ life = "closed"
  /\ life' = "open"
  /\ SelectNone
  /\ held' = [b \in Backends |-> None]
  /\ official' \in BOOLEAN

SelInit ==
  /\ selected = None /\ locked = None /\ scope = None
  /\ shown = None
  /\ held = [b \in Backends |-> None]
  /\ official \in BOOLEAN
  /\ life = "open"

SelNext == Execute \/ ExecuteViewer \/ Close \/ CloseBackends \/ Restart

SelSpec == SelInit /\ [][SelNext]_selVars
-----------------------------------------------------------------------------
SelTypeOK ==
  /\ selected \in Backends \cup {None}
  /\ locked \in Modes \cup {None}
  /\ scope \in Ids \cup {None}
  /\ held \in [Backends -> Ids \cup {None}]
  /\ shown \in [backend : Backends, att : Attachments] \cup {None}
  /\ official \in BOOLEAN
  /\ life \in {"open", "closing", "closed"}

\* Only the selected backend has a live Session: whatever failed, fell back,
\* was rotated or replaced before, no second Browser is left running.
OneLiveBackend ==
  life = "open" => \A b \in Backends : held[b] # None => selected = b

\* The observer is shown the selected backend for the Run of the attachment the
\* selector serves, and no other; or, left behind by a rotated preflight whose
\* Profile evidence did not match, a backend that has no Session to observe.
ShownIsSelected ==
  shown # None => \/ selected = shown.backend /\ scope.att = shown.att
                  \/ selected = None /\ held[shown.backend] = None

\* A Session that lives in one backend is not continued in the other, whatever
\* mode a later attachment names, as long as the selector still serves it.  (A
\* late close of another Session moves the scope away: see the README.)
SessionKeepsBackend == [][
  \A b, c \in Backends :
    (b # c /\ held[b] # None /\ held'[c] # None /\ scope.gen = held[b].gen)
      => held'[c].gen # held[b].gen]_selVars
=============================================================================
