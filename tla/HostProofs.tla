----------------------------- MODULE HostProofs -----------------------------
(***************************************************************************)
(* The components of the plugin host and of the Browser Runtime that have  *)
(* a module of their own, for all values of their constants.  Each has an  *)
(* inductive invariant, a lemma that it holds initially and one that every *)
(* step keeps it; the theorems are about the composition, in which a step  *)
(* of the system is a step of one component and a stutter of the others.   *)
(***************************************************************************)
EXTENDS MCHost, McpServerProofs, Sequences, FiniteSetTheorems, TLAPS

-----------------------------------------------------------------------------
(* The backend selector.                                                   *)

\* At most one backend has a live Session: the selected one as long as the
\* selector is open, and the one it left behind while it closes.
OneLiveInv ==
  /\ held \in [Backends -> Ids \cup {None}]
  /\ selected \in Backends \cup {None}
  /\ selected # None => scope \in Ids
  /\ \A b, c \in Backends : held[b] # None /\ held[c] # None => b = c
  /\ OneLiveBackend

\* No backend has a live Session of what is in h.
NoneLive(h) == \A b \in Backends : h[b] = None

\* What a request makes of the backends: the selected one moves on, or one is
\* chosen when none is live, or nothing is left.
MovesOn ==
  /\ \E b \in Backends, h \in Ids \cup {None} :
       /\ selected = b
       /\ held' = [held EXCEPT ![b] = h]
       /\ h # None => selected' = b /\ scope' \in Ids
  /\ selected' \in {selected, None}
  /\ selected' # None => scope' \in Ids

Chooses(id) ==
  \E b \in Backends :
    /\ selected' = b /\ scope' = id
    /\ held' \in [Backends -> Ids \cup {None}]
    /\ held'[b] = id /\ \A c \in Backends \ {b} : held'[c] = None

GivesUp ==
  /\ held' \in [Backends -> Ids \cup {None}] /\ NoneLive(held')
  /\ selected' \in Backends \cup {None}
  /\ selected' # None => scope' \in Ids

\* A preflight with nothing live ends with its backend alone live, or with none.
LEMMA StartedKind ==
  ASSUME NEW h0 \in [Backends -> Ids \cup {None}], NoneLive(h0), NEW s0,
         NEW id \in Ids, NEW b \in Backends, NEW mode,
         Started(h0, s0, b, mode, id)
  PROVE  Chooses(id) \/ GivesUp
<1> USE SelectorAssumption
<1>1. PICK a \in Answers(b, id, "preflight") :
        \/ held' = [h0 EXCEPT ![b] = id] /\ Select(b, mode, id)
        \/ held' = Aborted([h0 EXCEPT ![b] = a.holds], b) /\ NoneSelected(s0)
  BY DEF Started
<1>2. CASE held' = [h0 EXCEPT ![b] = id] /\ Select(b, mode, id)
  BY <1>2 DEF Select, Chooses, NoneLive
<1>3. CASE held' = Aborted([h0 EXCEPT ![b] = a.holds], b) /\ NoneSelected(s0)
  <2>1. held' = [h0 EXCEPT ![b] = None] /\ selected' = None
    BY <1>3 DEF Aborted, NoneSelected
  <2> QED BY <2>1 DEF GivesUp, NoneLive
<1> QED BY <1>1, <1>2, <1>3

LEMMA FirstKind ==
  ASSUME NEW h0 \in [Backends -> Ids \cup {None}], NoneLive(h0), NEW s0,
         NEW id \in Ids, NEW mode, FirstSelection(h0, s0, id, mode)
  PROVE  Chooses(id) \/ GivesUp
<1> USE SelectorAssumption
<1> USE DEF Backends
<1>1. CASE mode = "native" /\ ~official /\ held' = h0 /\ NoneSelected(s0)
  BY <1>1 DEF NoneSelected, GivesUp, NoneLive
<1>2. CASE StartedAuto(h0, s0, id)
  <2>1. CASE \/ Started(h0, s0, "isolated", "auto", id)
             \/ Started(h0, s0, "official", "auto", id)
    BY StartedKind, <2>1
  <2>2. ASSUME NEW a \in Answers("official", id, "preflight"),
               Started(Aborted([h0 EXCEPT !["official"] = a.holds], "official"), s0,
                       "isolated", "auto", id)
        PROVE  Chooses(id) \/ GivesUp
    <3> DEFINE h == [h0 EXCEPT !["official"] = None]
    <3>1. h \in [Backends -> Ids \cup {None}] /\ NoneLive(h)
      BY DEF NoneLive
    <3>2. Aborted([h0 EXCEPT !["official"] = a.holds], "official") = h
      BY DEF Aborted
    <3>3. Started(h, s0, "isolated", "auto", id)
      BY <2>2, <3>2
    <3> HIDE DEF h
    <3> QED BY StartedKind, <3>1, <3>3
  <2> QED BY <1>2, <2>1, <2>2 DEF StartedAuto
<1>3. CASE \/ Started(h0, s0, "isolated", "isolated", id)
           \/ Started(h0, s0, "official", "native", id)
  BY StartedKind, <1>3
<1> QED BY <1>1, <1>2, <1>3 DEF FirstSelection

LEMMA ExecuteKind ==
  ASSUME OneLiveInv, Execute
  PROVE  \/ MovesOn
         \/ \E id \in Ids : Chooses(id)
              /\ (selected # None => scope.gen # id.gen)
         \/ GivesUp
<1> USE SelectorAssumption
<1>1. PICK id \in Ids, kind \in {"preflight", "act", "close"},
           mode \in Modes \cup {None} :
        \/ ExecuteRotated(id, kind, mode)
        \/ ExecuteNewGeneration(id, kind, mode)
        \/ ExecuteInScope(id, kind)
        \/ ExecuteFirst(id, mode)
  BY DEF Execute
<1>2. \A b \in Backends, k \in {"preflight", "act", "close"} :
        \A a \in Answers(b, id, k) : a.holds \in Ids \cup {None}
  BY DEF Answers, OneLiveInv
<1>3. CASE ExecuteRotated(id, kind, mode)
  <2>1. PICK a \in Answers(selected, id, kind) :
          LET h == [held EXCEPT ![selected] = a.holds] IN
          \/ a.ok /\ held' = h /\ Select(selected, locked, id)
          \/ ~a.ok /\ kind # "preflight" /\ held' = h
               /\ UNCHANGED <<choice, shown>>
          \/ ~a.ok /\ kind = "preflight"
               /\ held' = Aborted(h, selected)
               /\ (SelectNone \/ UNCHANGED <<choice, shown>>)
          \/ held' = Aborted(h, selected) /\ NoneSelected(shown)
    BY <1>3 DEF ExecuteRotated
  <2>2. selected \in Backends /\ scope \in Ids /\ a.holds \in Ids \cup {None}
    BY <1>2, <1>3 DEF ExecuteRotated, OneLiveInv
  <2>3. CASE held' = [held EXCEPT ![selected] = a.holds]
             /\ (Select(selected, locked, id) \/ UNCHANGED <<choice, shown>>)
    BY <2>2, <2>3 DEF MovesOn, Select, choice
  <2>4. CASE held' = Aborted([held EXCEPT ![selected] = a.holds], selected)
             /\ (SelectNone \/ NoneSelected(shown) \/ UNCHANGED <<choice, shown>>)
    <3>1. held' = [held EXCEPT ![selected] = None]
      BY <2>4 DEF Aborted
    <3> QED BY <2>2, <2>4, <3>1 DEF MovesOn, SelectNone, NoneSelected, choice
  <2> QED BY <2>1, <2>3, <2>4
<1>4. CASE ExecuteNewGeneration(id, kind, mode)
  <2>1. /\ selected \in Backends /\ scope \in Ids
        /\ scope.gen # id.gen /\ life = "open"
    BY <1>4 DEF ExecuteNewGeneration, NewGeneration, SameGeneration,
                      OneLiveInv, Execute
  <2>2. /\ Aborted(held, selected) \in [Backends -> Ids \cup {None}]
        /\ NoneLive(Aborted(held, selected))
    BY <2>1 DEF Aborted, NoneLive, OneLiveInv, OneLiveBackend
  <2>3. CASE FirstSelection(Aborted(held, selected), None, id, mode)
    BY FirstKind, <2>1, <2>2, <2>3
  <2>4. CASE held' = Aborted(held, selected) /\ UNCHANGED <<choice, shown>>
    BY <2>1, <2>2, <2>4 DEF GivesUp, choice
  <2> QED BY <1>4, <2>3, <2>4 DEF ExecuteNewGeneration
<1>5. CASE ExecuteInScope(id, kind)
  BY <1>2, <1>5 DEF ExecuteInScope, OneLiveInv, MovesOn, choice
<1>6. CASE ExecuteFirst(id, mode)
  <2>1. /\ selected = None /\ NoneLive(held)
        /\ held \in [Backends -> Ids \cup {None}]
    BY <1>6 DEF ExecuteFirst, Execute, OneLiveInv, OneLiveBackend,
                      NoneLive
  <2> QED BY FirstKind, <1>6, <2>1 DEF ExecuteFirst
<1> QED BY <1>1, <1>3, <1>4, <1>5, <1>6

LEMMA OneLiveStep == OneLiveInv /\ [SelNext]_selVars => OneLiveInv'
<1> USE SelectorAssumption
<1> SUFFICES ASSUME OneLiveInv, [SelNext]_selVars
             PROVE  OneLiveInv'
  OBVIOUS
<1>1. CASE Execute
  <2>1. life' = "open" /\ life = "open"
    BY <1>1 DEF Execute
  <2>2. CASE MovesOn
    BY <2>1, <2>2 DEF MovesOn, OneLiveInv, OneLiveBackend
  <2>3. ASSUME NEW id \in Ids, Chooses(id)
        PROVE  OneLiveInv'
    BY <2>1, <2>3 DEF Chooses, OneLiveInv, OneLiveBackend
  <2>4. CASE GivesUp
    BY <2>1, <2>4 DEF GivesUp, NoneLive, OneLiveInv, OneLiveBackend
  <2> QED BY ExecuteKind, <1>1, <2>2, <2>3, <2>4
<1>2. CASE ExecuteViewer
  BY <1>2 DEF ExecuteViewer, choice, OneLiveInv, OneLiveBackend
<1>3. CASE Close
  BY <1>3 DEF Close, SelectNone, NoneSelected, OneLiveInv, OneLiveBackend
<1>4. CASE CloseBackends
  BY <1>4 DEF CloseBackends, choice, OneLiveInv, OneLiveBackend
<1>5. CASE Restart
  BY <1>5 DEF Restart, SelectNone, NoneSelected, OneLiveInv, OneLiveBackend
<1>6. CASE UNCHANGED selVars
  BY <1>6 DEF selVars, OneLiveInv, OneLiveBackend
<1> QED BY <1>1, <1>2, <1>3, <1>4, <1>5, <1>6 DEF SelNext

LEMMA SessionStays ==
  OneLiveInv /\ [SelNext]_selVars =>
    [\A b, c \in Backends :
       (b # c /\ held[b] # None /\ held'[c] # None /\ scope.gen = held[b].gen)
         => held'[c].gen # held[b].gen]_selVars
<1> USE SelectorAssumption
<1> SUFFICES ASSUME OneLiveInv, SelNext,
                    NEW b \in Backends, NEW c \in Backends,
                    b # c, held[b] # None, held'[c] # None,
                    scope.gen = held[b].gen
             PROVE  held'[c].gen # held[b].gen
  OBVIOUS
<1>1. held[c] = None
  BY DEF OneLiveInv
<1>2. CASE Execute
  <2>1. selected = b
    BY <1>2 DEF Execute, OneLiveInv, OneLiveBackend
  <2>2. ~MovesOn
    BY <1>1, <2>1 DEF MovesOn, OneLiveInv
  <2>3. ASSUME NEW id \in Ids, Chooses(id), scope.gen # id.gen
        PROVE  held'[c].gen # held[b].gen
    BY <2>3 DEF Chooses
  <2>4. ~GivesUp
    BY DEF GivesUp, NoneLive
  <2> QED BY ExecuteKind, <1>2, <2>1, <2>2, <2>3, <2>4
<1>3. CASE ExecuteViewer
  BY <1>1, <1>3 DEF ExecuteViewer, OneLiveInv, OneLiveBackend
<1>4. CASE Close \/ CloseBackends \/ Restart
  BY <1>1, <1>4 DEF Close, CloseBackends, Restart
<1> QED BY <1>2, <1>3, <1>4 DEF SelNext

\* The snapshot for the observer is published with every choice; a rotated
\* preflight that ends the selection may leave it as it was.
ShownInv ==
  /\ selected # None => locked \in Modes /\ shown = Shown(selected, scope)
  /\ selected = None => /\ locked = None /\ scope = None
                        /\ life = "open" \/ shown = None
  /\ shown \in [backend : Backends, att : Attachments] \cup {None}
  /\ official \in BOOLEAN
  /\ life \in {"open", "closing", "closed"}

SelectorInv == OneLiveInv /\ ShownInv

\* What a request makes of the choice.
Shows ==
  \/ \E s0 \in {None, shown} : NoneSelected(s0)
  \/ UNCHANGED <<choice, shown>>
  \/ \E b \in Backends, mode \in Modes, id \in Ids : Select(b, mode, id)

LEMMA StartedShows ==
  ASSUME NEW h0, NEW s0 \in {None, shown}, NEW b \in Backends, NEW mode \in Modes,
         NEW id \in Ids, Started(h0, s0, b, mode, id)
  PROVE  Shows
BY DEF Started, Shows

LEMMA FirstShows ==
  ASSUME NEW h0, NEW s0 \in {None, shown}, NEW id \in Ids, NEW mode,
         FirstSelection(h0, s0, id, mode)
  PROVE  Shows
<1> USE DEF Backends, Modes
<1>1. CASE StartedAuto(h0, s0, id)
  <2>1. ASSUME NEW h, NEW b \in Backends, Started(h, s0, b, "auto", id)
        PROVE  Shows
    BY <2>1, StartedShows
  <2> QED BY <1>1, <2>1 DEF StartedAuto
<1>2. CASE \/ Started(h0, s0, "isolated", "isolated", id)
           \/ Started(h0, s0, "official", "native", id)
  BY <1>2, StartedShows
<1>3. CASE NoneSelected(s0)
  BY <1>3 DEF Shows
<1> QED BY <1>1, <1>2, <1>3 DEF FirstSelection

LEMMA ExecuteShows == ASSUME SelectorInv, Execute PROVE Shows
<1>1. PICK id \in Ids, kind \in {"preflight", "act", "close"},
           mode \in Modes \cup {None} :
        \/ ExecuteRotated(id, kind, mode)
        \/ ExecuteNewGeneration(id, kind, mode)
        \/ ExecuteInScope(id, kind)
        \/ ExecuteFirst(id, mode)
  BY DEF Execute
<1>2. CASE ExecuteRotated(id, kind, mode)
  <2>1. selected \in Backends /\ locked \in Modes
    BY <1>2 DEF ExecuteRotated, SelectorInv, OneLiveInv, ShownInv
  <2>2. \/ Select(selected, locked, id) \/ UNCHANGED <<choice, shown>>
        \/ NoneSelected(None) \/ NoneSelected(shown)
    BY <1>2 DEF ExecuteRotated, SelectNone
  <2> QED BY <2>1, <2>2 DEF Shows
<1>3. CASE ExecuteNewGeneration(id, kind, mode)
  <2>1. \/ FirstSelection(Aborted(held, selected), None, id, mode)
        \/ UNCHANGED <<choice, shown>>
    BY <1>3 DEF ExecuteNewGeneration
  <2> QED BY <2>1, FirstShows DEF Shows
<1>4. CASE ExecuteInScope(id, kind)
  BY <1>4 DEF ExecuteInScope, Shows
<1>5. CASE ExecuteFirst(id, mode)
  BY <1>5, FirstShows DEF ExecuteFirst
<1> QED BY <1>1, <1>2, <1>3, <1>4, <1>5

LEMMA SelectorInit == SelInit => SelectorInv
BY DEF SelInit, SelectorInv, ShownInv, Shown, OneLiveInv, OneLiveBackend

LEMMA SelectorStep == SelectorInv /\ [SelNext]_selVars => SelectorInv'
<1> SUFFICES ASSUME SelectorInv, [SelNext]_selVars
             PROVE  ShownInv'
  BY OneLiveStep DEF SelectorInv
<1> USE SelectorAssumption DEF ShownInv
<1>1. /\ official \in BOOLEAN /\ life \in {"open", "closing", "closed"}
      /\ shown \in [backend : Backends, att : Attachments] \cup {None}
  BY DEF SelectorInv
<1>2. CASE Execute
  <2>1. Shows /\ official' = official /\ life' = "open"
    BY <1>2, ExecuteShows DEF Execute
  <2>2. ASSUME NEW s0 \in {None, shown}, NoneSelected(s0)
        PROVE  ShownInv'
    BY <1>1, <2>1, <2>2 DEF NoneSelected
  <2>3. CASE UNCHANGED <<choice, shown>>
    <3>1. selected' = selected /\ locked' = locked /\ scope' = scope /\ shown' = shown
      BY <2>3 DEF choice
    <3> QED BY <1>1, <2>1, <3>1 DEF SelectorInv, Shown
  <2>4. ASSUME NEW b \in Backends, NEW mode \in Modes, NEW id \in Ids, Select(b, mode, id)
        PROVE  ShownInv'
    <3>1. selected' = b /\ locked' = mode /\ scope' = id /\ b # None
      BY <2>4 DEF Select
    <3>2. shown' = [backend |-> b, att |-> id.att] /\ id.att \in Attachments
      BY <2>4, <3>1 DEF Select, Shown, Ids
    <3>3. shown' = Shown(selected', scope')
      BY <3>1, <3>2 DEF Shown
    <3> QED BY <1>1, <2>1, <3>1, <3>2, <3>3 DEF Shown
  <2> QED BY <2>1, <2>2, <2>3, <2>4 DEF Shows
<1>3. CASE Close \/ Restart
  BY <1>1, <1>3 DEF Close, Restart, SelectNone, NoneSelected
<1>4. CASE ExecuteViewer \/ CloseBackends \/ UNCHANGED selVars
  <2>1. /\ selected' = selected /\ locked' = locked /\ scope' = scope /\ shown' = shown
        /\ official' = official
        /\ life' = life \/ (life = "closing" /\ life' = "closed")
    BY <1>4 DEF ExecuteViewer, CloseBackends, selVars, choice
  <2> QED BY <1>1, <2>1 DEF SelectorInv, Shown
<1> QED BY <1>2, <1>3, <1>4 DEF SelNext

LEMMA SelectorTyped == SelectorInv => SelTypeOK /\ OneBackendShown
<1> SUFFICES ASSUME SelectorInv PROVE SelTypeOK /\ OneBackendShown
  OBVIOUS
<1> USE SelectorAssumption DEF SelectorInv, OneLiveInv, ShownInv
<1>1. CASE selected # None
  BY <1>1 DEF Shown, ShownIsSelected, SelTypeOK, OneBackendShown
<1>2. CASE selected = None
  BY <1>2 DEF ShownIsSelected, OneLiveBackend, SelTypeOK, OneBackendShown
<1> QED BY <1>1, <1>2

-----------------------------------------------------------------------------
(* The supervisor of the engine process.                                   *)

Steps == {"idle", "counted", "entered", "writing", "waiting", "leaving", "unlocking"}
Samples == [started : Nat, inFlight : BOOLEAN]

EngineTypes ==
  /\ Engine!ProcTypeOK
  /\ procCounters \in [started : Nat, inFlight : 0..1]
  /\ observer \in [at : {"idle", "before", "capture", "after", "reported"},
                   before : Samples, after : Samples, executing : BOOLEAN]

\* Only a request that waits has asked anything, it is the last one, and no
\* line there is answers a request that is still owed.
AnswerInv ==
  /\ reply.to = reply.answer
  /\ call.at \in {"counted", "entered", "writing"} => nextID < MaxCalls
  /\ process.asked \subseteq {nextID}
  /\ call.at # "waiting" => process.asked = {}
  /\ \A i \in 1..Len(process.lines) :
       /\ process.lines[i].id <= nextID
       /\ nextID \in process.asked => process.lines[i].id # nextID

\* The counters say whether an action is between its entry and its exit; an
\* instant without an action during a capture shows in the numbers of started
\* actions, or in none being in flight.
CountInv ==
  /\ procCounters.inFlight =
       IF call.kind = "action" /\ call.at \in {"entered", "writing", "waiting", "leaving"}
       THEN 1 ELSE 0
  /\ observer.at \in {"capture", "after"} => observer.before.started <= procCounters.started
  /\ observer.at = "capture" /\ idleSeen /\ call.kind = "action"
       => observer.before.started < procCounters.started
  /\ observer.at = "after" /\ observer.after.inFlight /\ idleSeen
       => observer.before.started < procCounters.started
  /\ observer.executing => observer.at = "reported" /\ ~idleSeen

EngineInv == EngineTypes /\ AnswerInv /\ CountInv

ProcessRecords ==
  [runs : BOOLEAN, alive : BOOLEAN, asked : SUBSET (1..MaxCalls), lines : Seq(Engine!Line)]

LEMMA ProcessMade ==
  /\ Engine!NoProcess \in ProcessRecords /\ Engine!NewProcess \in ProcessRecords
  /\ Engine!NoProcess.asked = {} /\ Engine!NewProcess.asked = {}
  /\ Engine!NoProcess.lines = <<>> /\ Engine!NewProcess.lines = <<>>
<1>1. <<>> \in Seq(Engine!Line) /\ {} \in SUBSET (1..MaxCalls)
  OBVIOUS
<1>2. Engine!NoProcess \in ProcessRecords
  BY <1>1 DEF Engine!NoProcess, ProcessRecords
<1>3. Engine!NewProcess \in ProcessRecords
  BY <1>1 DEF Engine!NewProcess, ProcessRecords
<1> QED BY <1>2, <1>3 DEF Engine!NoProcess, Engine!NewProcess

LEMMA EngineInit == Engine!ProcInit => EngineInv
<1> USE McpAssumption, EngineAssumption
<1> SUFFICES ASSUME Engine!ProcInit PROVE EngineInv
  OBVIOUS
<1> USE DEF Engine!ProcInit, Engine!Idle, Engine!NoProcess, Engine!NoSample
<1>1. EngineTypes
  <2>1. process \in ProcessRecords
    BY ProcessMade DEF Engine!NoProcess
  <2>2. /\ observer \in [at : {"idle", "before", "capture", "after", "reported"},
                         before : Samples, after : Samples, executing : BOOLEAN]
        /\ idleSeen \in BOOLEAN /\ procClosed \in BOOLEAN
    BY DEF Samples
  <2> QED BY <2>1, <2>2 DEF EngineTypes, Engine!ProcTypeOK, ProcessRecords
<1>2. AnswerInv
  BY DEF AnswerInv
<1>3. CountInv
  BY DEF CountInv
<1> QED BY <1>1, <1>2, <1>3 DEF EngineInv

\* What an action of the call, of the process or of the observer leaves alone.
LEMMA EngineTypesStep == EngineInv /\ [Engine!ProcNext]_engineVars => EngineTypes'
<1> USE McpAssumption, EngineAssumption
<1> SUFFICES ASSUME EngineInv, [Engine!ProcNext]_engineVars
             PROVE  EngineTypes'
  OBVIOUS
<1> USE DEF EngineInv, EngineTypes, Engine!ProcTypeOK, Engine!At, Engine!Go,
            Engine!caller, Engine!watcher
<1>0. process \in ProcessRecords
  BY DEF ProcessRecords
<1>1. CASE Engine!Begin \/ Engine!CountInFlight \/ Engine!Refuse \/ Engine!Leave
           \/ Engine!Unlock
  <2>1. call' \in [kind : {"-", "action", "viewer"}, at : Steps]
    BY <1>1 DEF Engine!Begin, Engine!CountInFlight, Engine!Refuse, Engine!Leave,
                Engine!Unlock, Engine!Idle, Steps
  <2>2. procCounters' \in [started : Nat, inFlight : 0..1]
    <3>1. CASE Engine!CountInFlight
      BY <3>1 DEF Engine!CountInFlight, Engine!Acting, CountInv
    <3>2. CASE Engine!Leave
      BY <3>2 DEF Engine!Leave, Engine!Acting, CountInv
    <3> QED BY <1>1, <3>1, <3>2 DEF Engine!Begin, Engine!Refuse, Engine!Unlock
  <2>3. idleSeen' \in BOOLEAN
    BY <1>1 DEF Engine!Begin, Engine!CountInFlight, Engine!Refuse, Engine!Leave,
                Engine!Unlock, Engine!SeeIdle
  <2>4. UNCHANGED <<process, nextID, reply, observer, strays, procClosed>>
    BY <1>1 DEF Engine!Begin, Engine!CountInFlight, Engine!Refuse, Engine!Leave,
                Engine!Unlock
  <2> QED BY <2>1, <2>2, <2>3, <2>4 DEF Steps
<1>2. CASE Engine!Written \/ Engine!WriteFails \/ Engine!SendFails
  <2>1. nextID' \in 1..MaxCalls /\ nextID' = nextID + 1
    BY <1>2 DEF Engine!Written, Engine!WriteFails, Engine!SendFails, AnswerInv
  <2>2. process' \in ProcessRecords
    <3>1. CASE Engine!Written
      <4>1. process' = [process EXCEPT !.asked = @ \cup {nextID'}]
        BY <3>1 DEF Engine!Written
      <4> QED BY <1>0, <2>1, <4>1 DEF ProcessRecords
    <3>2. CASE Engine!WriteFails \/ Engine!SendFails
      BY <3>2, ProcessMade DEF Engine!WriteFails, Engine!SendFails, Engine!Reset
    <3> QED BY <1>2, <3>1, <3>2
  <2>3. call' \in [kind : {"-", "action", "viewer"}, at : Steps]
    BY <1>2 DEF Engine!Written, Engine!WriteFails, Engine!SendFails, Steps
  <2>4. UNCHANGED <<reply, procCounters, observer, idleSeen, strays, procClosed>>
    BY <1>2 DEF Engine!Written, Engine!WriteFails, Engine!SendFails
  <2> QED BY <2>1, <2>2, <2>3, <2>4 DEF Steps, ProcessRecords
<1>7. CASE Engine!Send
  <2>1. process' \in ProcessRecords
    BY <1>0, <1>7, ProcessMade DEF Engine!Send
  <2>2. call' \in [kind : {"-", "action", "viewer"}, at : Steps]
    BY <1>7 DEF Engine!Send, Steps
  <2>3. UNCHANGED <<nextID, reply, procCounters, observer, idleSeen, strays, procClosed>>
    BY <1>7 DEF Engine!Send
  <2> QED BY <2>1, <2>2, <2>3 DEF Steps, ProcessRecords
<1>3. CASE Engine!Read \/ Engine!ReadFails \/ Engine!TimeOut
  <2>1. \/ process' = [process EXCEPT !.lines = Tail(@)] /\ process.lines # <<>>
        \/ process' = Engine!NoProcess
    BY <1>3 DEF Engine!Read, Engine!ReadFails, Engine!TimeOut, Engine!Reset
  <2>5. process.lines # <<>> => Tail(process.lines) \in Seq(Engine!Line)
    OBVIOUS
  <2>6. process' \in ProcessRecords
    BY <1>0, <2>1, <2>5, ProcessMade DEF ProcessRecords
  <2>2. reply' \in [to : 0..MaxCalls, answer : 0..MaxCalls]
    BY <1>3 DEF Engine!Read, Engine!ReadFails, Engine!TimeOut, Engine!Accepts, Engine!Line
  <2>3. call' \in [kind : {"-", "action", "viewer"}, at : Steps]
    BY <1>3 DEF Engine!Read, Engine!ReadFails, Engine!TimeOut, Steps
  <2>4. UNCHANGED <<nextID, procCounters, observer, idleSeen, strays, procClosed>>
    BY <1>3 DEF Engine!Read, Engine!ReadFails, Engine!TimeOut
  <2> QED BY <2>2, <2>3, <2>4, <2>6 DEF Steps, ProcessRecords
<1>4. CASE Engine!Close \/ Engine!Answer \/ Engine!Stray \/ Engine!Die
  <2>1. process' \in ProcessRecords
    <3>1. CASE Engine!Close
      BY <3>1, ProcessMade DEF Engine!Close
    <3>2. CASE Engine!Answer
      <4>1. PICK id \in process.asked, shape \in {"ok", "error", "invalid"} :
              process' = [process EXCEPT !.asked = @ \ {id},
                            !.lines = Append(@, [id |-> id, shape |-> shape])]
        BY <3>2 DEF Engine!Answer
      <4>2. [id |-> id, shape |-> shape] \in Engine!Line
        BY <4>1 DEF Engine!Line
      <4>3. Append(process.lines, [id |-> id, shape |-> shape]) \in Seq(Engine!Line)
        BY <4>2
      <4> QED BY <1>0, <4>1, <4>3 DEF ProcessRecords
    <3>3. CASE Engine!Stray
      <4>1. PICK id \in (0..nextID) \ process.asked :
              process' = [process EXCEPT !.lines = Append(@, [id |-> id, shape |-> "ok"])]
        BY <3>3 DEF Engine!Stray
      <4>2. [id |-> id, shape |-> "ok"] \in Engine!Line
        BY <4>1 DEF Engine!Line
      <4>3. Append(process.lines, [id |-> id, shape |-> "ok"]) \in Seq(Engine!Line)
        BY <4>2
      <4> QED BY <1>0, <4>1, <4>3 DEF ProcessRecords
    <3>4. CASE Engine!Die
      BY <1>0, <3>4 DEF Engine!Die, ProcessRecords
    <3> QED BY <1>4, <3>1, <3>2, <3>3, <3>4
  <2>2. strays' \in 0..MaxStray /\ procClosed' \in BOOLEAN
    <3>1. CASE Engine!Close
      BY <3>1 DEF Engine!Close
    <3>2. CASE Engine!Stray
      BY <3>2, EngineAssumption DEF Engine!Stray
    <3> QED BY <1>4, <3>1, <3>2 DEF Engine!Answer, Engine!Die
  <2>3. UNCHANGED <<call, nextID, reply, procCounters, observer, idleSeen>>
    BY <1>4 DEF Engine!Close, Engine!Answer, Engine!Stray, Engine!Die
  <2> QED BY <2>1, <2>2, <2>3 DEF ProcessRecords
<1>5. CASE Engine!ObserveBefore \/ Engine!ObserveCapture \/ Engine!ObserveAfter
           \/ Engine!ObserveReport \/ Engine!ObserveEnd
  <2>0. Engine!InFlight \in BOOLEAN
    BY DEF Engine!InFlight
  <2> USE DEF Engine!Observes, Engine!FirstLoad, Engine!SecondLoad, Engine!NoSample, Samples
  <2>1. CASE Engine!ObserveBefore
    BY <2>0, <2>1 DEF Engine!ObserveBefore
  <2>2. CASE Engine!ObserveCapture
    BY <2>2 DEF Engine!ObserveCapture
  <2>3. CASE Engine!ObserveAfter
    BY <2>0, <2>3 DEF Engine!ObserveAfter
  <2>4. CASE Engine!ObserveReport
    BY <2>4 DEF Engine!ObserveReport, Engine!Executing
  <2>5. CASE Engine!ObserveEnd
    BY <2>5 DEF Engine!ObserveEnd
  <2> QED BY <1>5, <2>1, <2>2, <2>3, <2>4, <2>5
<1>6. CASE UNCHANGED engineVars
  BY <1>6 DEF engineVars
<1> QED BY <1>1, <1>2, <1>3, <1>4, <1>5, <1>6, <1>7 DEF Engine!ProcNext, Engine!CallStep

LEMMA AnswerStep == EngineInv /\ [Engine!ProcNext]_engineVars => AnswerInv'
<1> USE McpAssumption
<1> SUFFICES ASSUME EngineInv, [Engine!ProcNext]_engineVars
             PROVE  AnswerInv'
  OBVIOUS
<1> USE DEF EngineInv, EngineTypes, Engine!ProcTypeOK, AnswerInv, Engine!At, Engine!Go,
            Engine!caller, Engine!watcher
<1>1. CASE Engine!Begin \/ Engine!CountInFlight \/ Engine!Refuse \/ Engine!Leave
           \/ Engine!Unlock
  <2>1. UNCHANGED <<process, nextID, reply>>
    BY <1>1 DEF Engine!Begin, Engine!CountInFlight, Engine!Refuse, Engine!Leave,
                Engine!Unlock
  <2>2. /\ call.at # "waiting" /\ call'.at # "waiting"
        /\ call'.at \in {"counted", "entered", "writing"} => nextID < MaxCalls
    BY <1>1 DEF Engine!Begin, Engine!CountInFlight, Engine!Refuse, Engine!Leave,
                Engine!Unlock, Engine!Idle
  <2> QED BY <2>1, <2>2
<1>2. CASE Engine!Send
  <2>1. process' \in {process, Engine!NewProcess} /\ UNCHANGED <<nextID, reply>>
        /\ call.at = "entered" /\ call'.at = "writing"
    BY <1>2 DEF Engine!Send
  <2> QED BY <2>1, ProcessMade
<1>10. CASE Engine!Written
  <2>1. process.asked = {} /\ process \in ProcessRecords
    BY <1>10 DEF Engine!Written, ProcessRecords
  <2>2. process' = [process EXCEPT !.asked = @ \cup {nextID'}]
    BY <1>10 DEF Engine!Written
  <2>3. call'.at = "waiting" /\ nextID' = nextID + 1 /\ reply' = reply
    BY <1>10 DEF Engine!Written
  <2>4. process'.asked = {nextID'} /\ process'.lines = process.lines
    BY <2>1, <2>2 DEF ProcessRecords
  <2>5. \A i \in 1..Len(process.lines) : process.lines[i].id \in Nat
    <3>1. process.lines \in Seq(Engine!Line)
      BY <2>1 DEF ProcessRecords
    <3>2. \A i \in 1..Len(process.lines) : process.lines[i] \in Engine!Line
      BY <3>1
    <3>3. \A line \in Engine!Line : line.id \in Nat
      BY DEF Engine!Line
    <3> QED BY <3>2, <3>3
  <2> QED BY <2>3, <2>4, <2>5
<1>3. CASE Engine!WriteFails \/ Engine!SendFails \/ Engine!ReadFails \/ Engine!TimeOut
  <2>1. process' = Engine!NoProcess /\ reply' = reply /\ call'.at = "leaving"
    BY <1>3 DEF Engine!WriteFails, Engine!SendFails, Engine!ReadFails, Engine!TimeOut, Engine!Reset
  <2> QED BY <2>1, ProcessMade
<1>4. CASE Engine!Read
  <2>1. call.at = "waiting" /\ call'.at = "leaving" /\ nextID' = nextID
        /\ process.lines # <<>>
    BY <1>4 DEF Engine!Read
  <2>2. CASE Engine!Accepts(Head(process.lines), nextID)
    <3>1. /\ reply' = [to |-> nextID, answer |-> Head(process.lines).id]
          /\ process' = [process EXCEPT !.lines = Tail(@)]
      BY <1>4, <2>2 DEF Engine!Read
    <3>2. Head(process.lines) = process.lines[1] /\ 1 \in 1..Len(process.lines)
      BY <2>1
    <3>3. process.lines[1].id = nextID
      BY <2>2, <3>2 DEF Engine!Accepts
    <3>4. nextID \notin process.asked
      BY <3>2, <3>3
    <3>5. process'.asked = {} /\ process'.lines = Tail(process.lines)
      BY <3>1, <3>4
    <3>6. \A i \in 1..Len(Tail(process.lines)) :
            Tail(process.lines)[i] = process.lines[i + 1] /\ i + 1 \in 1..Len(process.lines)
      BY <2>1
    <3> QED BY <2>1, <3>1, <3>2, <3>3, <3>5, <3>6
  <2>3. CASE ~Engine!Accepts(Head(process.lines), nextID)
    BY <1>4, <2>1, <2>3, ProcessMade DEF Engine!Read, Engine!Reset
  <2> QED BY <2>2, <2>3
<1>5. CASE Engine!Close
  BY <1>5, ProcessMade DEF Engine!Close
<1>6. CASE Engine!Answer
  <2>1. PICK id \in process.asked, shape \in {"ok", "error", "invalid"} :
          process' = [process EXCEPT !.asked = @ \ {id},
                        !.lines = Append(@, [id |-> id, shape |-> shape])]
    BY <1>6 DEF Engine!Answer
  <2> DEFINE line == [id |-> id, shape |-> shape]
  <2>2. line.id = nextID /\ process'.asked = {}
        /\ process'.lines = Append(process.lines, line)
    BY <2>1
  <2>3. UNCHANGED <<call, nextID, reply>>
    BY <1>6 DEF Engine!Answer
  <2> HIDE DEF line
  <2>4. \A i \in 1..Len(process'.lines) :
          process'.lines[i] = IF i <= Len(process.lines) THEN process.lines[i] ELSE line
    BY <2>2
  <2> QED BY <2>2, <2>3, <2>4
<1>7. CASE Engine!Stray
  <2>1. PICK id \in (0..nextID) \ process.asked :
          process' = [process EXCEPT !.lines = Append(@, [id |-> id, shape |-> "ok"])]
    BY <1>7 DEF Engine!Stray
  <2> DEFINE line == [id |-> id, shape |-> "ok"]
  <2>2. line.id = id /\ process'.asked = process.asked
        /\ process'.lines = Append(process.lines, line)
    BY <2>1
  <2>3. UNCHANGED <<call, nextID, reply>>
    BY <1>7 DEF Engine!Stray
  <2> HIDE DEF line
  <2>4. \A i \in 1..Len(process'.lines) :
          process'.lines[i] = IF i <= Len(process.lines) THEN process.lines[i] ELSE line
    BY <2>2
  <2> QED BY <2>2, <2>3, <2>4
<1>8. CASE Engine!Die
  BY <1>8 DEF Engine!Die
<1>9. CASE \/ Engine!ObserveBefore \/ Engine!ObserveCapture \/ Engine!ObserveAfter
           \/ Engine!ObserveReport \/ Engine!ObserveEnd \/ UNCHANGED engineVars
  <2>1. UNCHANGED <<call, process, nextID, reply>>
    BY <1>9 DEF Engine!ObserveBefore, Engine!ObserveCapture, Engine!ObserveAfter,
                Engine!ObserveReport, Engine!ObserveEnd, engineVars
  <2> QED BY <2>1
<1> QED BY <1>1, <1>2, <1>3, <1>4, <1>5, <1>6, <1>7, <1>8, <1>9, <1>10
        DEF Engine!ProcNext, Engine!CallStep

LEMMA CountStep == EngineInv /\ [Engine!ProcNext]_engineVars => CountInv'
<1> SUFFICES ASSUME EngineInv, [Engine!ProcNext]_engineVars
             PROVE  CountInv'
  OBVIOUS
<1> USE DEF EngineInv, EngineTypes, Engine!ProcTypeOK, CountInv, Samples, Engine!At,
            Engine!Go, Engine!Acting, Engine!caller, Engine!watcher
<1>1. CASE Engine!Begin
  BY <1>1 DEF Engine!Begin, Engine!SeeIdle
<1>2. CASE Engine!CountInFlight \/ Engine!Leave
  BY <1>2 DEF Engine!CountInFlight, Engine!Leave
<1>3. CASE Engine!Unlock
  BY <1>3 DEF Engine!Unlock, Engine!Idle, Engine!SeeIdle
<1>4. CASE \/ Engine!Refuse \/ Engine!Send \/ Engine!SendFails
           \/ Engine!Written \/ Engine!WriteFails
           \/ Engine!Read \/ Engine!ReadFails \/ Engine!TimeOut
  <2>1. /\ UNCHANGED <<procCounters, observer, idleSeen>> /\ call'.kind = call.kind
        /\ {call.at, call'.at} \subseteq {"entered", "writing", "waiting", "leaving"}
    BY <1>4 DEF Engine!Refuse, Engine!Send, Engine!SendFails, Engine!Written,
                Engine!WriteFails, Engine!Read, Engine!ReadFails, Engine!TimeOut
  <2> QED BY <2>1
<1>5. CASE Engine!Close \/ Engine!Answer \/ Engine!Stray \/ Engine!Die \/ UNCHANGED engineVars
  <2>1. UNCHANGED <<call, procCounters, observer, idleSeen>>
    BY <1>5 DEF Engine!Close, Engine!Answer, Engine!Stray, Engine!Die, engineVars
  <2> QED BY <2>1
<1>6. CASE Engine!ObserveBefore \/ Engine!ObserveEnd
  BY <1>6 DEF Engine!ObserveBefore, Engine!ObserveEnd
<1>7. CASE Engine!ObserveCapture
  BY <1>7 DEF Engine!ObserveCapture, Engine!Observes, Engine!SecondLoad
<1>8. CASE Engine!ObserveAfter
  <2>1. /\ observer.at = "capture" /\ observer'.at = "after"
        /\ observer'.before = observer.before /\ observer'.executing = observer.executing
        /\ observer'.after.inFlight = Engine!InFlight
        /\ UNCHANGED <<call, procCounters, idleSeen>>
    BY <1>8 DEF Engine!ObserveAfter, Engine!Observes, Engine!FirstLoad
  <2>2. Engine!InFlight => call.kind = "action"
    BY DEF Engine!InFlight
  <2> QED BY <2>1, <2>2
<1>9. CASE Engine!ObserveReport
  <2>1. /\ observer.at = "after" /\ observer'.at = "reported"
        /\ observer'.executing => /\ observer.after.inFlight
                                  /\ observer.before.started = procCounters.started
        /\ UNCHANGED <<call, procCounters, idleSeen>>
    BY <1>9 DEF Engine!ObserveReport, Engine!Observes, Engine!SecondLoad, Engine!Executing
  <2> QED BY <2>1
<1> QED BY <1>1, <1>2, <1>3, <1>4, <1>5, <1>6, <1>7, <1>8, <1>9
        DEF Engine!ProcNext, Engine!CallStep

LEMMA EngineStep == EngineInv /\ [Engine!ProcNext]_engineVars => EngineInv'
BY EngineTypesStep, AnswerStep, CountStep DEF EngineInv

\* The components' Cardinality is the one the theorems about it speak of.
LEMMA SameCardinality ==
  \A S : /\ Engine!Cardinality(S) = Cardinality(S)
         /\ Egress!Cardinality(S) = Cardinality(S)
         /\ Journal!Cardinality(S) = Cardinality(S)
BY DEF Engine!Cardinality, Egress!Cardinality, Journal!Cardinality, Cardinality

LEMMA EngineAnswers == EngineInv => OwnAnswer /\ ClaimSpansAction
<1> SUFFICES ASSUME EngineInv PROVE OwnAnswer /\ ClaimSpansAction
  OBVIOUS
<1>1. process.asked \in {{}, {nextID}}
  BY DEF EngineInv, AnswerInv
<1>2. Cardinality({}) = 0 /\ Cardinality({nextID}) = 1
  BY FS_EmptySet, FS_Singleton
<1>3. Cardinality(process.asked) <= 1
  BY <1>1, <1>2
<1>4. OwnAnswer
  BY <1>3, SameCardinality DEF EngineInv, AnswerInv, OwnAnswer,
              Engine!AnswersOwnRequest, Engine!OneRequestOwed
<1>5. ClaimSpansAction
  BY DEF EngineInv, CountInv, ClaimSpansAction, Engine!ClaimSpansAction
<1> QED BY <1>4, <1>5

-----------------------------------------------------------------------------
(* Agent Mode.                                                             *)

\* The service has a worker until the worker's goroutine has let go of it, and
\* the goroutine has the lock until Start has returned; a disable enables
\* nothing, and ends well only with no worker left, while an enable that goes on
\* has saved the configuration.
WorkerInv ==
  /\ Mode!ModeTypeOK
  /\ worker <=> modeRun \in {"running", "stopped"}
  /\ modeRun = "running" <=> lock = "worker"
  /\ modeTool.op = "disable" => pc["tool"] \notin {"enable", "enableWait"}
  /\ modeTool.op = "disable" /\ pc["tool"] = "returned" => ~worker
  /\ modeTool.op = "enable" /\ pc["tool"] # "idle" => enabled
  /\ Mode!ToolTold

LEMMA ModeStart == Mode!ModeInit => WorkerInv
<1> SUFFICES ASSUME Mode!ModeInit PROVE WorkerInv
  OBVIOUS
<1> USE DEF Mode!ModeInit, Mode!NoOp, Mode!Callers
<1>1. Mode!ModeTypeOK
  BY DEF Mode!ModeTypeOK
<1>2. pc["tool"] = "idle" /\ modeTool.op = "none"
  OBVIOUS
<1> QED BY <1>1, <1>2 DEF WorkerInv, Mode!ToolTold

ModeSteps == {"idle", "enable", "enableWait", "disable", "drain", "disableWait",
              "disableFailed", "returned", "failed"}

\* The part of the types that is not about flags.
ModePlaces ==
  /\ pc \in [Mode!Callers -> ModeSteps]
  /\ lifecycle \in Mode!Callers \cup {"free"}
  /\ modeRun \in {"running", "stopped", "cleared", "ended"}
  /\ status \in {"stopped", "starting", "ready", "draining", "error"}
  /\ lock \in {"free", "worker", "leaked", "other"}

LEMMA ModePlacesStep == ModePlaces /\ [Mode!ModeNext]_modeVars => ModePlaces'
<1> SUFFICES ASSUME ModePlaces, [Mode!ModeNext]_modeVars
             PROVE  ModePlaces'
  OBVIOUS
<1> USE DEF ModePlaces, ModeSteps, Mode!Callers, Mode!Move, Mode!Returns, Mode!service
<1>1. CASE Mode!StartUp \/ Mode!StartTool
  <2>1. pc' \in {pc, [pc EXCEPT !["tool"] = "disable"], [pc EXCEPT !["tool"] = "enable"],
                [pc EXCEPT !["tool"] = "returned"]}
    BY <1>1 DEF Mode!StartUp, Mode!StartTool, Mode!EnableStep
  <2>2. UNCHANGED <<lifecycle, modeRun, status, lock>>
    BY <1>1 DEF Mode!StartUp, Mode!StartTool
  <2> QED BY <2>1, <2>2
<1>2. CASE Mode!EndTool \/ Mode!Shutdown \/ Mode!EnableRejected \/ Mode!EnableUnbuilt
  <2>1. UNCHANGED <<lifecycle, modeRun, status, lock>>
    BY <1>2 DEF Mode!EndTool, Mode!Shutdown, Mode!EnableRejected, Mode!EnableUnbuilt
  <2>2. \E c \in Mode!Callers, step \in ModeSteps : pc' = [pc EXCEPT ![c] = step]
    BY <1>2 DEF Mode!EndTool, Mode!Shutdown, Mode!EnableRejected, Mode!EnableUnbuilt
  <2> QED BY <2>1, <2>2
<1>3. CASE Mode!EnableUnresolved
  BY <1>3 DEF Mode!EnableUnresolved
<1>4. CASE Mode!EnableLaunches
  BY <1>4 DEF Mode!EnableLaunches
<1>5. CASE Mode!EnableWaits
  BY <1>5 DEF Mode!EnableWaits
<1>6. ASSUME NEW c \in Mode!Callers, Mode!DisableStep(c)
      PROVE  ModePlaces'
  <2>1. UNCHANGED <<modeRun, lock>> /\ lifecycle' \in {lifecycle, c, "free"}
        /\ status' \in {status, "draining"}
    BY <1>6 DEF Mode!DisableStep, Mode!DisableNothing, Mode!DisableBegins, Mode!DisableDrained,
                Mode!DisableEnds, Mode!DisableTimesOut
  <2>2. \E step \in ModeSteps : pc' = [pc EXCEPT ![c] = step]
    BY <1>6 DEF Mode!DisableStep, Mode!DisableNothing, Mode!DisableBegins, Mode!DisableDrained,
                Mode!DisableEnds, Mode!DisableTimesOut
  <2> QED BY <2>1, <2>2
<1>7. CASE Mode!WorkerReady \/ Mode!WorkerStops \/ Mode!WorkerClears \/ Mode!WorkerEnds
           \/ Mode!OtherHost \/ UNCHANGED modeVars
  BY <1>7 DEF Mode!WorkerReady, Mode!WorkerStops, Mode!WorkerClears, Mode!WorkerEnds,
              Mode!OtherHost, modeVars
<1> QED BY <1>1, <1>2, <1>3, <1>4, <1>5, <1>6, <1>7 DEF Mode!ModeNext

\* The flags.
ModeFlags == {worker, cancelled, ready, enabled, starting} \subseteq BOOLEAN
ToolRecords == [op : {"none", "startup", "enable", "disable"}, ok : BOOLEAN]

LEMMA ModeFlagsStep ==
  ModeFlags /\ modeTool \in ToolRecords /\ [Mode!ModeNext]_modeVars
    => ModeFlags' /\ modeTool' \in ToolRecords
<1> SUFFICES ASSUME ModeFlags, modeTool \in ToolRecords, [Mode!ModeNext]_modeVars
             PROVE  ModeFlags' /\ modeTool' \in ToolRecords
  OBVIOUS
<1> USE DEF ModeFlags, Mode!service
<1>1. CASE Mode!StartUp \/ Mode!StartTool
  <2>1. UNCHANGED <<worker, cancelled, ready>> /\ enabled' \in BOOLEAN /\ starting' \in BOOLEAN
    BY <1>1 DEF Mode!StartUp, Mode!StartTool
  <2>2. \E op \in {"startup", "enable", "disable"}, ok \in BOOLEAN :
          modeTool' = [op |-> op, ok |-> ok]
    BY <1>1 DEF Mode!StartUp, Mode!StartTool
  <2> QED BY <2>1, <2>2 DEF ToolRecords
<1>2. CASE Mode!EndTool
  <2>1. UNCHANGED <<worker, cancelled, ready, starting>> /\ enabled' \in BOOLEAN
    BY <1>2 DEF Mode!EndTool
  <2>2. \E ok \in BOOLEAN : modeTool' = [modeTool EXCEPT !.ok = ok]
    BY <1>2 DEF Mode!EndTool
  <2> QED BY <2>1, <2>2 DEF ToolRecords
<1>3. CASE Mode!Shutdown \/ Mode!EnableRejected \/ Mode!EnableUnresolved \/ Mode!EnableUnbuilt
           \/ UNCHANGED modeVars
  BY <1>3 DEF Mode!Shutdown, Mode!EnableRejected, Mode!EnableUnresolved, Mode!EnableUnbuilt,
              modeVars
<1>4. CASE Mode!EnableLaunches
  BY <1>4 DEF Mode!EnableLaunches
<1>5. CASE Mode!EnableWaits
  <2>1. UNCHANGED <<worker, cancelled, ready, enabled, starting>>
    BY <1>5 DEF Mode!EnableWaits
  <2>2. \E ok \in BOOLEAN : modeTool' = [modeTool EXCEPT !.ok = ok]
    BY <1>5 DEF Mode!EnableWaits
  <2> QED BY <2>1, <2>2 DEF ToolRecords
<1>6. ASSUME NEW c \in Mode!Callers, Mode!DisableStep(c)
      PROVE  ModeFlags' /\ modeTool' \in ToolRecords
  <2>1. UNCHANGED <<modeTool, worker, ready, enabled, starting>> /\ cancelled' \in BOOLEAN
    BY <1>6 DEF Mode!DisableStep, Mode!DisableNothing, Mode!DisableBegins, Mode!DisableDrained,
                Mode!DisableEnds, Mode!DisableTimesOut
  <2> QED BY <2>1
<1>7. CASE Mode!WorkerReady \/ Mode!WorkerStops \/ Mode!WorkerClears \/ Mode!WorkerEnds
           \/ Mode!OtherHost
  BY <1>7 DEF Mode!WorkerReady, Mode!WorkerStops, Mode!WorkerClears, Mode!WorkerEnds,
              Mode!OtherHost
<1> QED BY <1>1, <1>2, <1>3, <1>4, <1>5, <1>6, <1>7 DEF Mode!ModeNext

LEMMA ModeTypeStep == WorkerInv /\ [Mode!ModeNext]_modeVars => Mode!ModeTypeOK'
<1>1. Mode!ModeTypeOK <=> ModePlaces /\ ModeFlags /\ modeTool \in ToolRecords
  BY DEF Mode!ModeTypeOK, ModePlaces, ModeFlags, ToolRecords, ModeSteps
<1>2. (Mode!ModeTypeOK <=> ModePlaces /\ ModeFlags /\ modeTool \in ToolRecords)'
  BY DEF Mode!ModeTypeOK, ModePlaces, ModeFlags, ToolRecords, ModeSteps
<1> QED BY <1>1, <1>2, ModePlacesStep, ModeFlagsStep DEF WorkerInv

LEMMA ModeStep == WorkerInv /\ [Mode!ModeNext]_modeVars => WorkerInv'
<1> SUFFICES ASSUME WorkerInv, [Mode!ModeNext]_modeVars
             PROVE  WorkerInv'
  OBVIOUS
<1>0. Mode!ModeTypeOK'
  BY ModeTypeStep
<1> USE DEF WorkerInv, Mode!ModeTypeOK, Mode!Callers, Mode!Move, Mode!Returns, Mode!service
<1>1. CASE Mode!StartUp \/ Mode!StartTool
  <2>1. UNCHANGED <<worker, modeRun, lock>>
    BY <1>1 DEF Mode!StartUp, Mode!StartTool
  <2>2. CASE Mode!StartUp
    <3>1. modeTool'.op = "startup"
      BY <2>2 DEF Mode!StartUp
    <3> QED BY <1>0, <2>1, <3>1 DEF Mode!ToolTold
  <2>3. CASE modeTool' = [op |-> "disable", ok |-> TRUE]
             /\ pc' = [pc EXCEPT !["tool"] = "disable"]
    <3>1. modeTool'.op = "disable" /\ pc'["tool"] = "disable"
      BY <2>3
    <3> QED BY <1>0, <2>1, <3>1 DEF Mode!ToolTold
  <2>4. CASE modeTool' = [op |-> "enable", ok |-> TRUE] /\ enabled'
    <3>1. modeTool'.op = "enable"
      BY <2>4
    <3> QED BY <1>0, <2>1, <2>4, <3>1 DEF Mode!ToolTold
  <2>5. CASE modeTool' = [op |-> "enable", ok |-> FALSE] /\ pc["tool"] = "idle" /\ pc' = pc
    <3>1. modeTool'.op = "enable" /\ modeTool'.ok = FALSE /\ pc'["tool"] = "idle"
      BY <2>5
    <3> QED BY <1>0, <2>1, <3>1 DEF Mode!ToolTold
  <2> QED BY <1>1, <2>2, <2>3, <2>4, <2>5 DEF Mode!StartTool
<1>2. CASE Mode!EndTool
  BY <1>0, <1>2 DEF Mode!EndTool, Mode!ToolTold
<1>3. CASE Mode!Shutdown
  BY <1>0, <1>3 DEF Mode!Shutdown, Mode!ToolTold
<1>4. CASE Mode!EnableRejected \/ Mode!EnableUnresolved \/ Mode!EnableUnbuilt
           \/ Mode!EnableLaunches
  BY <1>0, <1>4 DEF Mode!EnableRejected, Mode!EnableUnresolved, Mode!EnableUnbuilt,
                    Mode!EnableLaunches, Mode!ToolTold
<1>5. CASE Mode!EnableWaits
  BY <1>0, <1>5 DEF Mode!EnableWaits, Mode!ToolTold
<1>6. ASSUME NEW c \in Mode!Callers, Mode!DisableStep(c)
      PROVE  WorkerInv'
  <2>1. CASE Mode!DisableNothing(c)
    BY <1>0, <1>6, <2>1 DEF Mode!DisableNothing, Mode!DisableOk, Mode!ToolTold
  <2>2. CASE Mode!DisableBegins(c)
    BY <1>0, <1>6, <2>2 DEF Mode!DisableBegins, Mode!ToolTold
  <2>3. CASE Mode!DisableDrained(c)
    BY <1>0, <1>6, <2>3 DEF Mode!DisableDrained, Mode!ToolTold
  <2>4. CASE Mode!DisableEnds(c)
    BY <1>0, <1>6, <2>4 DEF Mode!DisableEnds, Mode!DisableOk, Mode!WorkerEnded, Mode!ToolTold
  <2>5. CASE Mode!DisableTimesOut(c)
    BY <1>0, <1>6, <2>5 DEF Mode!DisableTimesOut, Mode!ToolTold
  <2> QED BY <1>6, <2>1, <2>2, <2>3, <2>4, <2>5 DEF Mode!DisableStep
<1>7. CASE Mode!WorkerReady \/ Mode!WorkerStops \/ Mode!WorkerClears \/ Mode!WorkerEnds
           \/ Mode!OtherHost \/ UNCHANGED modeVars
  BY <1>0, <1>7 DEF Mode!WorkerReady, Mode!WorkerStops, Mode!WorkerClears,
                    Mode!WorkerEnds, Mode!OtherHost, Mode!ToolTold, modeVars
<1> QED BY <1>1, <1>2, <1>3, <1>4, <1>5, <1>6, <1>7 DEF Mode!ModeNext

LEMMA ModeTold == WorkerInv => ModeTruthful
BY DEF WorkerInv, ModeTruthful, Mode!WorkerHoldsLock

-----------------------------------------------------------------------------
(* The egress gateway.                                                     *)

\* The addresses of a request were all found public before one is dialled, and
\* the destination is the one dialled last.
GatewayInv ==
  /\ Egress!GatewayTypeOK
  /\ at \in {"resolved", "connected", "tunnel", "closing"} =>
       addresses # <<>> /\ \A i \in DOMAIN addresses : addresses[i] \in Public
  /\ at \in {"received", "resolved"} => dialled = None /\ reached = {}
  /\ at = "received" => dials = 0
  /\ at \in {"connected", "tunnel", "closing"} => dialled # None
  /\ dials <= Len(addresses)
  /\ dialled # None => dialled \in Public /\ \E i \in 1..dials : dialled = addresses[i]
  /\ reached \subseteq {dialled}

LEMMA LookupsAreShort ==
  \A s \in Egress!Lookups : /\ s \in Seq(Egress!Addresses) /\ Len(s) \in 0..2
                            /\ DOMAIN s = 1..Len(s)
<1> SUFFICES ASSUME NEW s \in Egress!Lookups
             PROVE  /\ s \in Seq(Egress!Addresses) /\ Len(s) \in 0..2
                    /\ DOMAIN s = 1..Len(s)
  OBVIOUS
<1>1. CASE s = <<>>
  BY <1>1
<1>2. ASSUME NEW a \in Egress!Addresses, s = <<a>>
      PROVE  s \in Seq(Egress!Addresses) /\ Len(s) = 1
  BY <1>2
<1>3. CASE s \in Egress!Addresses \X Egress!Addresses
  <2>1. PICK a \in Egress!Addresses, b \in Egress!Addresses : s = <<a, b>>
    BY <1>3
  <2>2. <<a, b>> \in Seq(Egress!Addresses) /\ Len(<<a, b>>) = 2
    OBVIOUS
  <2> QED BY <2>1, <2>2
<1>4. s \in Seq(Egress!Addresses) /\ Len(s) \in 0..2
  BY <1>1, <1>2, <1>3 DEF Egress!Lookups
<1> QED BY <1>4

LEMMA GatewayInit == Egress!GatewayInit => GatewayInv
<1>1. <<>> \in Egress!Lookups
  BY DEF Egress!Lookups
<1> QED BY <1>1 DEF Egress!GatewayInit, GatewayInv, Egress!GatewayTypeOK

LEMMA GatewayStep == GatewayInv /\ [Egress!GatewayNext]_egressVars => GatewayInv'
<1> SUFFICES ASSUME GatewayInv, [Egress!GatewayNext]_egressVars
             PROVE  GatewayInv'
  OBVIOUS
<1> USE EgressAssumption DEF GatewayInv, Egress!GatewayTypeOK
<1>0. /\ addresses \in Seq(Egress!Addresses) /\ Len(addresses) \in 0..2
      /\ DOMAIN addresses = 1..Len(addresses)
  BY LookupsAreShort
<1>1. CASE Egress!Receive
  <2>1. <<>> \in Egress!Lookups
    BY DEF Egress!Lookups
  <2>2. addresses' = <<>> /\ dials' = 0 /\ dialled' = None /\ reached' = {} /\ at' = "received"
        /\ method' \in {"CONNECT", "plain"} /\ tunnel' = tunnel
    BY <1>1 DEF Egress!Receive
  <2> QED BY <2>1, <2>2
<1>2. CASE Egress!Resolve
  <2>1. UNCHANGED <<method, dials, dialled, tunnel, reached>> /\ at = "received"
    BY <1>2 DEF Egress!Resolve
  <2>2. CASE at' = "idle" /\ addresses' = addresses
    BY <2>1, <2>2
  <2>3. ASSUME NEW answer \in Egress!Lookups, Egress!Resolved(answer), at' = "resolved",
               addresses' = answer
        PROVE  GatewayInv'
    <3>1. Len(answer) \in 0..2
      BY LookupsAreShort
    <3> QED BY <2>1, <2>3, <3>1 DEF Egress!Resolved
  <2> QED BY <1>2, <2>2, <2>3 DEF Egress!Resolve
<1>3. CASE Egress!Dial
  <2>1. /\ at = "resolved" /\ dials' = dials + 1 /\ dials < Len(addresses)
        /\ UNCHANGED <<method, addresses, tunnel, reached>>
    BY <1>0, <1>3 DEF Egress!Dial, Egress!Attempts
  <2>2. CASE at' = "connected" /\ dialled' = addresses[dials + 1]
    <3>1. dials + 1 \in DOMAIN addresses /\ dials + 1 \in 1..dials'
      BY <1>0, <2>1
    <3>2. dialled' \in Public /\ dialled' \in Egress!Addresses
      BY <2>1, <2>2, <3>1 DEF Egress!Addresses
    <3> QED BY <1>0, <2>1, <2>2, <3>1, <3>2
  <2>3. CASE UNCHANGED <<dialled, at>>
    BY <1>0, <2>1, <2>3
  <2> QED BY <1>3, <2>2, <2>3 DEF Egress!Dial, Egress!Destinations
<1>4. CASE Egress!Unavailable
  BY <1>4 DEF Egress!Unavailable
<1>5. CASE Egress!RoundTrip
  BY <1>5 DEF Egress!RoundTrip
<1>6. CASE Egress!Hijack
  BY <1>6 DEF Egress!Hijack
<1>7. CASE Egress!CopyUp
  BY <1>7 DEF Egress!CopyUp
<1>8. CASE Egress!CopyEnds
  BY <1>8 DEF Egress!CopyEnds
<1>9. CASE UNCHANGED egressVars
  BY <1>9 DEF egressVars
<1> QED BY <1>1, <1>2, <1>3, <1>4, <1>5, <1>6, <1>7, <1>8, <1>9 DEF Egress!GatewayNext

LEMMA GatewayReaches == GatewayInv => OneValidatedDestination
<1> SUFFICES ASSUME GatewayInv PROVE OneValidatedDestination
  OBVIOUS
<1>1. reached \in {{}, {dialled}}
  BY DEF GatewayInv
<1>2. Cardinality({}) = 0 /\ Cardinality({dialled}) = 1
  BY FS_EmptySet, FS_Singleton
<1>3. Egress!Cardinality(reached) <= 1
  BY <1>1, <1>2, SameCardinality
<1>4. dialled # None => dialled \in Public /\ \E i \in 1..dials : dialled = addresses[i]
  BY DEF GatewayInv
<1> QED BY <1>3, <1>4 DEF OneValidatedDestination, Egress!OneValidatedDestination

-----------------------------------------------------------------------------
(* The mutation journal.                                                   *)

JournalInv ==
  /\ journalCounters \in [Journal!Codes \cup {"completed"} -> Nat]
  /\ entries \in Nat /\ dropped \in Nat /\ requests \in Nat
  /\ JournalAccounts

\* What a record adds: of an answer that reports a mutation request at least
\* one outcome is counted.
LEMMA OutcomeCounted ==
  ASSUME NEW batch \in Journal!Batches, NEW seen \in 0..1, NEW failed \in Journal!FailedAt(batch)
  PROVE  /\ Journal!Completed(batch, failed, seen) \in Nat
         /\ Journal!Failing(batch, failed, seen) \in 0..1
         /\ seen <= Journal!Completed(batch, failed, seen)
                      + Journal!Failing(batch, failed, seen)
<1> DEFINE counted == {i \in DOMAIN batch :
                          Journal!Counts(batch, i, failed, seen) /\ i # failed}
<1>1. DOMAIN batch = 1..Len(batch) /\ Len(batch) \in 1..2
  <2>1. ASSUME NEW a, batch = <<a>>
        PROVE  DOMAIN batch = 1..Len(batch) /\ Len(batch) = 1
    BY <2>1
  <2>2. ASSUME NEW a, NEW b, batch = <<a, b>>
        PROVE  DOMAIN batch = 1..Len(batch) /\ Len(batch) = 2
    BY <2>2
  <2> QED BY <2>1, <2>2 DEF Journal!Batches
<1>2. \A i \in DOMAIN batch : batch[i] = "potential" \/ batch[i] = "other"
  <2>1. ASSUME NEW a \in Journal!ActionKinds, batch = <<a>>
        PROVE  \A i \in DOMAIN batch : batch[i] \in Journal!ActionKinds
    BY <2>1
  <2>2. ASSUME NEW a \in Journal!ActionKinds, NEW b \in Journal!ActionKinds, batch = <<a, b>>
        PROVE  \A i \in DOMAIN batch : batch[i] \in Journal!ActionKinds
    BY <2>2
  <2>3. \A i \in DOMAIN batch : batch[i] \in Journal!ActionKinds
    BY <2>1, <2>2 DEF Journal!Batches
  <2> QED BY <2>3 DEF Journal!ActionKinds
<1>3. IsFiniteSet(counted)
  <2>1. IsFiniteSet(DOMAIN batch)
    BY <1>1, FS_Interval
  <2> QED BY <2>1, FS_Subset
<1>4. /\ Cardinality(counted) \in Nat
      /\ counted # {} => Cardinality(counted) >= 1
  <2> HIDE DEF counted
  <2>1. Cardinality(counted) \in Nat
    BY <1>3, FS_CardinalityType
  <2>2. counted # {} => Cardinality(counted) # 0
    BY <1>3, FS_EmptySet
  <2> QED BY <2>1, <2>2
<1> DEFINE whole == IF Journal!CountsBatch(batch, failed, seen) THEN 1 ELSE 0
<1>5. Journal!Completed(batch, failed, seen) = Cardinality(counted) + whole
  BY SameCardinality DEF Journal!Completed
<1>6. whole \in 0..1
  OBVIOUS
<1>7. Journal!Failing(batch, failed, seen) \in 0..1
  BY DEF Journal!Failing
<1>8. CASE seen = 0
  <2> HIDE DEF counted, whole
  <2> QED BY <1>4, <1>5, <1>6, <1>7, <1>8
<1>9. CASE seen = 1 /\ failed # 0
  <2>1. failed \in 1..2 /\ failed \in DOMAIN batch
    BY <1>1, <1>9 DEF Journal!FailedAt
  <2>2. Journal!Counts(batch, failed, failed, seen)
    BY <1>9, <2>1 DEF Journal!Counts
  <2>3. Journal!Failing(batch, failed, seen) = 1
    BY <1>9, <2>2 DEF Journal!Failing
  <2> HIDE DEF counted, whole
  <2> QED BY <1>4, <1>5, <1>6, <1>9, <2>3
<1>10. CASE seen = 1 /\ failed = 0
  <2>1. 1 \in DOMAIN batch
    BY <1>1
  <2>2. CASE Len(batch) = 1 \/ batch[1] = "potential"
    <3>1. Journal!Counts(batch, 1, failed, seen)
      BY <1>10, <2>2 DEF Journal!Counts
    <3>2. 1 \in counted
      BY <1>10, <2>1, <3>1
    <3>3. Cardinality(counted) >= 1
      BY <1>4, <3>2
    <3> HIDE DEF counted, whole
    <3> QED BY <1>4, <1>5, <1>6, <1>7, <1>10, <3>3
  <2>3. CASE Len(batch) # 1 /\ batch[1] = "other"
    <3>1. Journal!CountsBatch(batch, failed, seen)
      BY <1>1, <1>10, <2>1, <2>3 DEF Journal!CountsBatch
    <3>2. whole = 1
      BY <3>1
    <3> HIDE DEF counted, whole
    <3> QED BY <1>4, <1>5, <1>7, <1>10, <3>2
  <2> QED BY <1>2, <2>1, <2>2, <2>3
<1> QED BY <1>8, <1>9, <1>10

LEMMA JournalStart == Journal!JournalInit => JournalInv
BY DEF Journal!JournalInit, JournalInv, JournalAccounts, Journal!JournalAccounts,
       Journal!Codes

LEMMA JournalStep == JournalInv /\ [Journal!JournalNext]_journalVars => JournalInv'
<1> SUFFICES ASSUME JournalInv, [Journal!JournalNext]_journalVars
             PROVE  JournalInv'
  OBVIOUS
<1>1. CASE Journal!Record
  <2>0. PICK batch \in Journal!Batches, seen \in 0..1, code \in Journal!Codes :
          \E failed \in Journal!FailedAt(batch) :
            LET done == Journal!Completed(batch, failed, seen)
                lost == Journal!Failing(batch, failed, seen)
            IN /\ journalCounters' =
                    [journalCounters EXCEPT !.completed = @ + done, ![code] = @ + lost]
               /\ Journal!AppendBounded(done + lost)
               /\ requests' = requests + seen
    BY <1>1 DEF Journal!Record
  <2>1. PICK failed \in Journal!FailedAt(batch) :
          LET done == Journal!Completed(batch, failed, seen)
              lost == Journal!Failing(batch, failed, seen)
          IN /\ journalCounters' =
                  [journalCounters EXCEPT !.completed = @ + done, ![code] = @ + lost]
             /\ Journal!AppendBounded(done + lost)
             /\ requests' = requests + seen
    BY <2>0
  <2> DEFINE done == Journal!Completed(batch, failed, seen)
             lost == Journal!Failing(batch, failed, seen)
  <2>2. done \in Nat /\ lost \in 0..1 /\ seen <= done + lost
    BY OutcomeCounted
  <2>3. journalCounters' =
          [journalCounters EXCEPT !.completed = @ + done, ![code] = @ + lost]
    BY <2>1
  <2>4. Journal!AppendBounded(done + lost)
    BY <2>1
  <2>5. requests' = requests + seen
    BY <2>1
  <2> HIDE DEF done, lost
  <2>6. PICK kept \in 0..(done + lost) :
          entries' = entries + kept /\ dropped' = dropped + ((done + lost) - kept)
    BY <2>4 DEF Journal!AppendBounded
  <2> DEFINE sum == journalCounters.completed + journalCounters.failed
                      + journalCounters.unknown + journalCounters.originBlocked
  <2>7. /\ journalCounters.completed \in Nat /\ journalCounters.failed \in Nat
        /\ journalCounters.unknown \in Nat /\ journalCounters.originBlocked \in Nat
    BY DEF JournalInv, Journal!Codes
  <2>8. /\ journalCounters' \in [Journal!Codes \cup {"completed"} -> Nat]
        /\ sum' = sum + done + lost
    <3> USE DEF JournalInv, Journal!Codes
    <3> DEFINE first == [journalCounters EXCEPT !["completed"] = @ + done]
    <3>1. /\ first \in [Journal!Codes \cup {"completed"} -> Nat]
          /\ first["completed"] = journalCounters["completed"] + done
          /\ \A f \in Journal!Codes : first[f] = journalCounters[f]
      BY <2>2
    <3>2. journalCounters' = [first EXCEPT ![code] = @ + lost]
      BY <2>3
    <3> HIDE DEF first
    <3>3. /\ journalCounters' \in [Journal!Codes \cup {"completed"} -> Nat]
          /\ journalCounters'[code] = first[code] + lost
          /\ \A f \in (Journal!Codes \cup {"completed"}) \ {code} :
               journalCounters'[f] = first[f]
      BY <2>2, <3>1, <3>2
    <3>4. /\ journalCounters'["completed"] = journalCounters["completed"] + done
          /\ journalCounters'[code] = journalCounters[code] + lost
          /\ \A f \in Journal!Codes \ {code} : journalCounters'[f] = journalCounters[f]
      BY <3>1, <3>3
    <3>5. sum' = sum + done + lost
      <4>1. CASE code = "unknown"
        BY <2>2, <2>7, <3>4, <4>1
      <4>2. CASE code = "originBlocked"
        BY <2>2, <2>7, <3>4, <4>2
      <4>3. CASE code = "failed"
        BY <2>2, <2>7, <3>4, <4>3
      <4> QED BY <4>1, <4>2, <4>3
    <3> QED BY <3>3, <3>5
  <2>9. entries + dropped = sum /\ requests <= sum /\ sum \in Nat
    BY <2>7 DEF JournalInv, JournalAccounts, Journal!JournalAccounts
  <2>10. entries \in Nat /\ dropped \in Nat /\ requests \in Nat
    BY DEF JournalInv
  <2> HIDE DEF sum
  <2>11. /\ entries' \in Nat /\ dropped' \in Nat /\ requests' \in Nat
         /\ entries' + dropped' = sum' /\ requests' <= sum'
    BY <2>2, <2>5, <2>6, <2>8, <2>9, <2>10
  <2> QED BY <2>8, <2>11 DEF sum, JournalInv, JournalAccounts, Journal!JournalAccounts
<1>2. CASE UNCHANGED journalVars
  BY <1>2 DEF journalVars, JournalInv, JournalAccounts, Journal!JournalAccounts
<1> QED BY <1>1, <1>2 DEF Journal!JournalNext

-----------------------------------------------------------------------------
(* Observation.                                                            *)

\* A capture asks for a frame of its own attempt, and a frame that is published
\* is the one that was asked for.
FrameInv ==
  /\ Watch!ObsTypeOK
  /\ \A s \in Watch!Starts :
       /\ stream[s].at \in {"asked", "publishing"} => stream[s].snap = stream[s].attempt
       /\ stream[s].at = "publishing" => stream[s].reply = stream[s].snap

StreamRecords ==
  [at : {"none", "connecting", "starting", "select", "capturing",
         "asked", "publishing", "farewell", "closing", "leaving", "gone"},
   attempt : 0..MaxAttempt, alive : BOOLEAN,
   snap : 0..MaxAttempt, final : BOOLEAN, reply : Watch!NoReply..Watch!Failed]

\* What a step makes of one stream: it may take it anywhere, but a frame is
\* asked for as of the attempt and published as it was asked for, and only Exit
\* ends a stream.
Proper(x, y) ==
  /\ y \in StreamRecords
  /\ y.at \in {"asked", "publishing"} => y.snap = y.attempt
  /\ y.at = "publishing" => y.reply = y.snap
  /\ y.at = "gone" => x.at = "gone"

\* A step of the stream or of its handler moves the stream alone.
LEMMA StreamMoves ==
  ASSUME FrameInv, NEW s \in Watch!Starts,
         \/ Watch!Expire(s) \/ Watch!Done(s) \/ Watch!Dismissed(s) \/ Watch!Tick(s)
         \/ Watch!TakeFinal(s) \/ Watch!HandlerStep(s) \/ Watch!Connect(s) \/ Watch!SendStarted(s)
         \/ Watch!Capture(s) \/ Watch!ObserveFails(s) \/ Watch!Retry(s)
         \/ Watch!Receive(s) \/ Watch!Acknowledged(s) \/ Watch!CloseStream(s)
  PROVE  /\ \E y : Proper(stream[s], y) /\ stream' = [stream EXCEPT ![s] = y]
         /\ UNCHANGED <<lease, starts, interval, run>>
<1> USE ObservationAssumption
<1> DEFINE x == stream[s]
<1>0. x \in StreamRecords
  BY DEF FrameInv, Watch!ObsTypeOK, StreamRecords
<1>1. /\ x.at \in {"asked", "publishing"} => x.snap = x.attempt
      /\ x.at = "publishing" => x.reply = x.snap
      /\ run \in 1..MaxAttempt
  BY DEF FrameInv, Watch!ObsTypeOK
<1>2. stream = [stream EXCEPT ![s] = x] /\ Proper(x, x)
  BY <1>0, <1>1 DEF FrameInv, Watch!ObsTypeOK, Proper
<1>3. Watch!NoReply \in Watch!NoReply..Watch!Failed /\ 0 \in 0..MaxAttempt
  BY DEF Watch!NoReply, Watch!Failed
<1> USE DEF Watch!scene, Watch!wire, Watch!Is
<1>4. CASE Watch!Expire(s)
  <2> DEFINE y == [x EXCEPT !.alive = FALSE]
  <2>1. stream' = [stream EXCEPT ![s] = y] /\ UNCHANGED <<lease, starts, interval, run>>
    BY <1>4 DEF Watch!Expire
  <2>2. Proper(x, y)
    BY <1>0, <1>1 DEF Proper, StreamRecords
  <2> QED BY <2>1, <2>2
<1>5. ASSUME NEW to \in {"select", "farewell", "closing", "leaving", "starting", "capturing"},
             Watch!Move(s, to), UNCHANGED <<lease, starts, interval, run>>
      PROVE  /\ \E y : Proper(stream[s], y) /\ stream' = [stream EXCEPT ![s] = y]
             /\ UNCHANGED <<lease, starts, interval, run>>
  <2> DEFINE y == [x EXCEPT !.at = to]
  <2>1. stream' = [stream EXCEPT ![s] = y]
    BY <1>5 DEF Watch!Move
  <2>2. Proper(x, y)
    BY <1>0, <1>1 DEF Proper, StreamRecords
  <2> QED BY <1>5, <2>1, <2>2
<1>6. ASSUME NEW to \in {"select", "closing"},
             Watch!Back(s, to), UNCHANGED <<lease, starts, interval, run>>
      PROVE  /\ \E y : Proper(stream[s], y) /\ stream' = [stream EXCEPT ![s] = y]
             /\ UNCHANGED <<lease, starts, interval, run>>
  <2> DEFINE y == [x EXCEPT !.at = to, !.snap = 0, !.final = FALSE, !.reply = Watch!NoReply]
  <2>1. stream' = [stream EXCEPT ![s] = y]
    BY <1>6 DEF Watch!Back
  <2>2. Proper(x, y)
    BY <1>0, <1>1, <1>3 DEF Proper, StreamRecords
  <2> QED BY <1>6, <2>1, <2>2
<1>7. CASE \/ Watch!Done(s) \/ Watch!Dismissed(s) \/ Watch!SendStarted(s)
           \/ Watch!CloseStream(s) \/ Watch!Connect(s)
  <2>1. CASE Watch!Done(s)
    <3>1. CASE Watch!Owned(s)
      BY <1>5, <2>1, <3>1 DEF Watch!Done
    <3>2. CASE ~Watch!Owned(s)
      BY <1>5, <2>1, <3>2 DEF Watch!Done
    <3> QED BY <3>1, <3>2
  <2>2. CASE \/ Watch!Dismissed(s) \/ Watch!SendStarted(s) \/ Watch!CloseStream(s)
             \/ Watch!Connect(s)
    BY <1>5, <2>2 DEF Watch!Dismissed, Watch!SendStarted, Watch!CloseStream, Watch!Connect
  <2> QED BY <1>7, <2>1, <2>2
<1>8. ASSUME NEW last \in BOOLEAN,
             stream' = [stream EXCEPT ![s].at = "capturing", ![s].final = last],
             UNCHANGED <<lease, starts, interval, run>>
      PROVE  /\ \E y : Proper(stream[s], y) /\ stream' = [stream EXCEPT ![s] = y]
             /\ UNCHANGED <<lease, starts, interval, run>>
  <2> DEFINE y == [x EXCEPT !.at = "capturing", !.final = last]
  <2>1. stream' = [stream EXCEPT ![s] = y]
    BY <1>8
  <2>2. Proper(x, y)
    BY <1>0, <1>1 DEF Proper, StreamRecords
  <2> QED BY <1>8, <2>1, <2>2
<1>9. CASE Watch!Tick(s) \/ Watch!TakeFinal(s)
  BY <1>8, <1>9 DEF Watch!Tick, Watch!TakeFinal
<1>10. CASE Watch!Capture(s)
  <2>1. UNCHANGED <<lease, starts, interval, run>>
    BY <1>10 DEF Watch!Capture
  <2>2. CASE Watch!Ends(s)
    BY <1>6, <2>1, <2>2 DEF Watch!Ends
  <2>3. CASE ~Watch!Ends(s)
    <3> DEFINE y == [x EXCEPT !.at = "asked", !.snap = run, !.reply = Watch!NoReply]
    <3>1. /\ run = x.attempt
          /\ stream' = [stream EXCEPT ![s] = y]
      BY <1>10, <2>3 DEF Watch!Capture, Watch!Names
    <3>2. Proper(x, y)
      BY <1>0, <1>1, <1>3, <3>1 DEF Proper, StreamRecords
    <3> QED BY <2>1, <3>1, <3>2
  <2> QED BY <2>2, <2>3
<1>11. CASE Watch!ObserveFails(s) \/ Watch!Acknowledged(s) \/ Watch!Retry(s)
  BY <1>5, <1>6, <1>11 DEF Watch!ObserveFails, Watch!Acknowledged, Watch!Retry, Watch!Ends
<1>12. CASE Watch!Receive(s)
  <2>1. UNCHANGED <<lease, starts, interval, run>>
    BY <1>12 DEF Watch!Receive
  <2>2. CASE Watch!Ends(s)
    BY <1>6, <2>1, <2>2 DEF Watch!Ends
  <2>3. CASE ~Watch!Ends(s)
    <3> DEFINE y == [x EXCEPT !.at = "publishing"]
    <3>1. /\ x.at = "asked" /\ x.reply = x.snap
          /\ stream' = [stream EXCEPT ![s] = y]
      BY <1>12, <2>3 DEF Watch!Receive, Watch!Foreign, Watch!Move
    <3>2. Proper(x, y)
      BY <1>0, <1>1, <3>1 DEF Proper, StreamRecords
    <3> QED BY <2>1, <3>1, <3>2
  <2> QED BY <2>2, <2>3
<1>13. ASSUME NEW r \in 0..Watch!Failed, Watch!Answers(s, r),
              UNCHANGED <<lease, starts, interval, run>>
       PROVE  /\ \E y : Proper(stream[s], y) /\ stream' = [stream EXCEPT ![s] = y]
              /\ UNCHANGED <<lease, starts, interval, run>>
  <2>1. CASE stream' = stream
    BY <1>2, <1>13, <2>1
  <2>2. CASE x.at = "asked" /\ stream' = [stream EXCEPT ![s].reply = r]
    <3> DEFINE y == [x EXCEPT !.reply = r]
    <3>1. stream' = [stream EXCEPT ![s] = y]
      BY <2>2
    <3>2. Proper(x, y)
      BY <1>0, <1>1, <1>13, <2>2 DEF Proper, StreamRecords, Watch!NoReply
    <3> QED BY <1>13, <3>1, <3>2
  <2> QED BY <1>13, <2>1, <2>2 DEF Watch!Answers
<1>14. CASE Watch!HandlerStep(s)
  <2>1. Watch!Outcomes \subseteq 0..Watch!Failed /\ Watch!Failed \in 0..Watch!Failed
    BY <1>1 DEF Watch!Outcomes, Watch!Transient, Watch!Failed
  <2>2. UNCHANGED <<lease, starts, interval, run>>
    BY <1>14 DEF Watch!HandlerStep, Watch!Admit, Watch!Observe, Watch!Refuse, Watch!ReadEnds
  <2>3. stream' = stream \/ \E r \in 0..Watch!Failed : Watch!Answers(s, r)
    BY <1>14, <2>1 DEF Watch!HandlerStep, Watch!Admit, Watch!Observe, Watch!Refuse,
                       Watch!ReadEnds
  <2> QED BY <1>2, <1>13, <2>2, <2>3
<1> QED BY <1>4, <1>7, <1>9, <1>10, <1>11, <1>12, <1>14

LEMMA ObservationInit == Watch!ObsInit => FrameInv
<1> USE ObservationAssumption
<1> SUFFICES ASSUME Watch!ObsInit PROVE FrameInv
  OBVIOUS
<1>1. Watch!Idle \in StreamRecords /\ Watch!Idle.at = "none"
  <2>1. Watch!NoReply \in Watch!NoReply..Watch!Failed /\ 0 \in 0..MaxAttempt
    BY DEF Watch!NoReply, Watch!Failed
  <2> QED BY <2>1 DEF Watch!Idle, StreamRecords
<1>2. stream \in [Watch!Starts -> StreamRecords]
  BY <1>1 DEF Watch!ObsInit
<1>3. \A s \in Watch!Starts : stream[s].at = "none"
  BY <1>1 DEF Watch!ObsInit
<1> QED BY <1>2, <1>3 DEF Watch!ObsInit, FrameInv, Watch!ObsTypeOK, StreamRecords

\* What else there is of an observation.
LEMMA WiresKept ==
  ASSUME FrameInv, [Watch!ObsNext]_observationVars
  PROVE  /\ inbox' \in [Watch!Starts -> BOOLEAN]
         /\ conn' \in [Watch!Starts -> {"none", "open", "admitted", "ended"}]
         /\ holder' \in Watch!Starts \cup {Watch!Free}
         /\ teardown' \in {"running", "asking", "closing", "over"}
<1> USE DEF FrameInv, Watch!ObsTypeOK, Watch!wire, Watch!scene
<1>1. CASE Watch!Start \/ Watch!Stop \/ Watch!Rotate \/ Watch!EndRun \/ Watch!CloseLease
           \/ UNCHANGED observationVars
  BY <1>1 DEF Watch!Start, Watch!Stop, Watch!Rotate, Watch!EndRun, Watch!CloseLease,
              observationVars
<1>2. ASSUME NEW s \in Watch!Starts,
             \/ Watch!Expire(s) \/ Watch!Done(s) \/ Watch!Dismissed(s) \/ Watch!Tick(s)
             \/ Watch!TakeFinal(s)
      PROVE  /\ UNCHANGED <<inbox, conn, holder>>
             /\ teardown' \in {"running", "asking", "closing", "over"}
  BY <1>2 DEF Watch!Expire, Watch!Done, Watch!Dismissed, Watch!Tick, Watch!TakeFinal
<1>3. ASSUME NEW s \in Watch!Starts, Watch!StreamStep(s)
      PROVE  /\ inbox' \in [Watch!Starts -> BOOLEAN]
             /\ conn' \in [Watch!Starts -> {"none", "open", "admitted", "ended"}]
             /\ UNCHANGED <<holder, teardown>>
  <2>1. CASE Watch!Connect(s)
    BY <2>1 DEF Watch!Connect
  <2>2. CASE Watch!Capture(s)
    BY <2>2 DEF Watch!Capture
  <2>3. CASE \/ Watch!SendStarted(s) \/ Watch!ObserveFails(s) \/ Watch!Retry(s)
             \/ Watch!Receive(s) \/ Watch!Acknowledged(s) \/ Watch!CloseStream(s)
             \/ Watch!Exit(s)
    BY <2>3 DEF Watch!SendStarted, Watch!ObserveFails, Watch!Retry, Watch!Receive,
                Watch!Acknowledged, Watch!CloseStream, Watch!Exit
  <2> QED BY <1>3, <2>1, <2>2, <2>3 DEF Watch!StreamStep
<1>4. ASSUME NEW s \in Watch!Starts, Watch!HandlerStep(s)
      PROVE  /\ inbox' \in [Watch!Starts -> BOOLEAN]
             /\ conn' \in [Watch!Starts -> {"none", "open", "admitted", "ended"}]
             /\ holder' \in Watch!Starts \cup {Watch!Free}
             /\ teardown' = teardown
  <2> USE DEF Watch!Answers, Watch!Ended, Watch!Released
  <2>1. CASE Watch!Admit(s)
    BY <1>4, <2>1 DEF Watch!Admit
  <2>2. CASE Watch!Observe(s)
    BY <1>4, <2>2 DEF Watch!Observe
  <2>3. CASE Watch!Refuse(s)
    BY <1>4, <2>3 DEF Watch!Refuse
  <2>4. CASE Watch!ReadEnds(s)
    BY <1>4, <2>4 DEF Watch!ReadEnds
  <2> QED BY <1>4, <2>1, <2>2, <2>3, <2>4 DEF Watch!HandlerStep
<1> QED BY <1>1, <1>2, <1>3, <1>4 DEF Watch!ObsNext

\* What NewerSurvives says of a step.
Spares ==
  \A s \in Watch!Starts : stream[s].at = "leaving" /\ stream'[s].at = "gone" /\ lease # s =>
    /\ lease' = lease
    /\ \A t \in Watch!Starts \ {s} : stream'[t].alive = stream[t].alive

LEMMA ObservationStep == FrameInv /\ [Watch!ObsNext]_observationVars => FrameInv' /\ Spares
<1> USE ObservationAssumption
<1> SUFFICES ASSUME FrameInv, [Watch!ObsNext]_observationVars
             PROVE  FrameInv' /\ Spares
  OBVIOUS
<1>0. /\ stream \in [Watch!Starts -> StreamRecords]
      /\ lease \in Watch!Starts \cup {Watch!Free} /\ starts \in 0..MaxStarts
      /\ run \in 1..MaxAttempt /\ interval \in Watch!Intervals
      /\ \A s \in Watch!Starts :
           /\ stream[s].at \in {"asked", "publishing"} => stream[s].snap = stream[s].attempt
           /\ stream[s].at = "publishing" => stream[s].reply = stream[s].snap
  BY DEF FrameInv, Watch!ObsTypeOK, StreamRecords
<1>1. ASSUME /\ stream' \in [Watch!Starts -> StreamRecords]
             /\ lease' \in Watch!Starts \cup {Watch!Free} /\ starts' \in 0..MaxStarts
             /\ run' \in 1..MaxAttempt /\ interval' \in Watch!Intervals,
             \A s \in Watch!Starts :
               /\ stream'[s].at \in {"asked", "publishing"}
                    => stream'[s].snap = stream'[s].attempt
               /\ stream'[s].at = "publishing" => stream'[s].reply = stream'[s].snap
      PROVE  FrameInv'
  BY <1>1, WiresKept DEF FrameInv, Watch!ObsTypeOK, StreamRecords
<1>2. ASSUME NEW s \in Watch!Starts, NEW y, Proper(stream[s], y),
             stream' = [stream EXCEPT ![s] = y],
             UNCHANGED <<lease, starts, interval, run>>
      PROVE  FrameInv' /\ Spares
  <2>1. stream'[s] = y /\ \A t \in Watch!Starts \ {s} : stream'[t] = stream[t]
    BY <1>0, <1>2
  <2>2. FrameInv'
    BY <1>0, <1>1, <1>2, <2>1 DEF Proper
  <2>3. Spares
    BY <1>2, <2>1 DEF Proper, Spares
  <2> QED BY <2>2, <2>3
<1>3. CASE Watch!Start
  <2>1. PICK a \in 1..run :
          stream' = [stream EXCEPT ![starts + 1] =
                       [Watch!Idle EXCEPT !.at = "connecting", !.attempt = a, !.alive = TRUE]]
    BY <1>3 DEF Watch!Start
  <2> DEFINE y == [Watch!Idle EXCEPT !.at = "connecting", !.attempt = a, !.alive = TRUE]
  <2>2. y \in StreamRecords /\ y.at = "connecting"
    <3>1. Watch!NoReply \in Watch!NoReply..Watch!Failed /\ 0 \in 0..MaxAttempt
      BY DEF Watch!NoReply, Watch!Failed
    <3>2. a \in 0..MaxAttempt
      BY <1>0
    <3> QED BY <3>1, <3>2 DEF Watch!Idle, StreamRecords
  <2>3. starts + 1 \in Watch!Starts /\ lease' = starts + 1 /\ starts' = starts + 1
        /\ UNCHANGED <<run, interval>>
    BY <1>0, <1>3 DEF Watch!Start, Watch!Starts, Watch!scene
  <2> DEFINE s == starts + 1
  <2>4. stream' = [stream EXCEPT ![s] = y] /\ s \in Watch!Starts
    BY <2>1, <2>3
  <2>5. starts' \in 0..MaxStarts /\ lease' \in Watch!Starts
    BY <2>3 DEF Watch!Starts
  <2> HIDE DEF y, s
  <2>6. stream'[s] = y /\ \A t \in Watch!Starts \ {s} : stream'[t] = stream[t]
    BY <1>0, <2>4
  <2>7. FrameInv'
    BY <1>0, <1>1, <2>2, <2>3, <2>4, <2>5, <2>6
  <2>8. Spares
    BY <2>2, <2>6 DEF Spares
  <2> QED BY <2>7, <2>8
<1>4. CASE Watch!Stop
  <2>1. /\ lease \in Watch!Starts /\ lease' = Watch!Free
        /\ stream' = [stream EXCEPT ![lease].alive = FALSE]
        /\ UNCHANGED <<starts, run, interval>>
    BY <1>0, <1>4 DEF Watch!Stop, Watch!Stopped, Watch!Owned, Watch!scene
  <2> DEFINE y == [stream[lease] EXCEPT !.alive = FALSE]
  <2>2. /\ stream'[lease] = y /\ y \in StreamRecords
        /\ \A t \in Watch!Starts \ {lease} : stream'[t] = stream[t]
    BY <1>0, <2>1 DEF StreamRecords
  <2>3. /\ y.at = stream[lease].at /\ y.snap = stream[lease].snap
        /\ y.attempt = stream[lease].attempt /\ y.reply = stream[lease].reply
    BY <1>0, <2>1 DEF StreamRecords
  <2>4. stream' \in [Watch!Starts -> StreamRecords]
    BY <1>0, <2>1, <2>2
  <2> HIDE DEF y
  <2>5. FrameInv'
    BY <1>0, <1>1, <2>1, <2>2, <2>3, <2>4
  <2>6. Spares
    BY <2>2, <2>3 DEF Spares
  <2> QED BY <2>5, <2>6
<1>5. CASE Watch!Rotate \/ Watch!EndRun \/ Watch!CloseLease \/ UNCHANGED observationVars
  <2>1. UNCHANGED <<stream, lease, starts, interval>> /\ run' \in 1..MaxAttempt
    BY <1>0, <1>5 DEF Watch!Rotate, Watch!EndRun, Watch!CloseLease, Watch!wire, observationVars
  <2>2. FrameInv'
    BY <1>0, <1>1, <2>1
  <2>3. Spares
    BY <2>1 DEF Spares
  <2> QED BY <2>2, <2>3
<1>6. ASSUME NEW s \in Watch!Starts, Watch!Exit(s)
      PROVE  FrameInv' /\ Spares
  <2> DEFINE gone == [Watch!Idle EXCEPT !.at = "gone"]
             left == [stream EXCEPT ![s] = gone]
  <2>1. gone \in StreamRecords /\ gone.at = "gone" /\ ~gone.alive
    <3>1. Watch!NoReply \in Watch!NoReply..Watch!Failed /\ 0 \in 0..MaxAttempt
      BY DEF Watch!NoReply, Watch!Failed
    <3> QED BY <3>1 DEF Watch!Idle, StreamRecords
  <2>2. /\ stream[s].at = "leaving" /\ Watch!Stopped(s, left)
        /\ UNCHANGED <<starts, run, interval>>
    BY <1>6 DEF Watch!Exit, Watch!Is, Watch!scene
  <2> HIDE DEF gone
  <2>3. /\ left \in [Watch!Starts -> StreamRecords] /\ left[s] = gone
        /\ \A t \in Watch!Starts \ {s} : left[t] = stream[t]
    BY <1>0, <1>6, <2>1
  <2> HIDE DEF left
  <2>4. /\ stream'[s].at = "gone" /\ stream' \in [Watch!Starts -> StreamRecords]
        /\ \A t \in Watch!Starts \ {s} : stream'[t] = stream[t]
        /\ lease' \in {lease, Watch!Free} /\ (lease # s => lease' = lease)
    <3>1. CASE Watch!Owned(s)
      <4> DEFINE end == [left[s] EXCEPT !.alive = FALSE]
      <4>1. lease = s /\ lease' = Watch!Free /\ stream' = [left EXCEPT ![s] = end]
        BY <2>2, <3>1 DEF Watch!Stopped, Watch!Owned
      <4>2. end \in StreamRecords /\ end.at = "gone"
        BY <2>1, <2>3 DEF StreamRecords
      <4> HIDE DEF end
      <4> QED BY <2>3, <4>1, <4>2
    <3>2. CASE ~Watch!Owned(s)
      BY <2>1, <2>2, <2>3, <3>2 DEF Watch!Stopped
    <3> QED BY <3>1, <3>2
  <2>5. FrameInv'
    BY <1>0, <1>1, <2>2, <2>4
  <2>6. Spares
    BY <2>2, <2>4 DEF Spares
  <2> QED BY <2>5, <2>6
<1>7. ASSUME NEW s \in Watch!Starts,
             \/ Watch!Expire(s) \/ Watch!Done(s) \/ Watch!Dismissed(s) \/ Watch!Tick(s)
             \/ Watch!TakeFinal(s) \/ (Watch!StreamStep(s) /\ ~Watch!Exit(s)) \/ Watch!HandlerStep(s)
      PROVE  FrameInv' /\ Spares
  <2>1. \/ Watch!Expire(s) \/ Watch!Done(s) \/ Watch!Dismissed(s) \/ Watch!Tick(s)
        \/ Watch!TakeFinal(s)
        \/ Watch!HandlerStep(s) \/ Watch!Connect(s) \/ Watch!SendStarted(s)
        \/ Watch!Capture(s) \/ Watch!ObserveFails(s) \/ Watch!Retry(s)
        \/ Watch!Receive(s) \/ Watch!Acknowledged(s) \/ Watch!CloseStream(s)
    BY <1>7 DEF Watch!StreamStep
  <2>2. PICK y : Proper(stream[s], y) /\ stream' = [stream EXCEPT ![s] = y]
                 /\ UNCHANGED <<lease, starts, interval, run>>
    BY <2>1, StreamMoves
  <2> QED BY <1>2, <2>2
<1> QED BY <1>3, <1>4, <1>5, <1>6, <1>7 DEF Watch!ObsNext, Watch!StreamStep

LEMMA FramesOfAttempt == FrameInv => FrameOfAttempt
BY DEF FrameInv, FrameOfAttempt, Watch!FrameOfAttempt, Watch!Is

-----------------------------------------------------------------------------
(* ProfileMigration: why a store that opens is whole.  What a power        *)
(* failure may leave is never ahead of what programs see, a marker that    *)
(* programs see has been synchronised, and a step of the tool knows what   *)
(* the steps before it have done and made durable.                         *)

Whole(s) == s.profile.state \in {"retained", "advanced"}

\* What the tool has done where it is.
ToolInv ==
  /\ migTool.at = "opened" /\ migTool.mode # "execute" => target.published /\ ~runtime
  /\ migTool.at \in {"reserved", "converted", "retained"} =>
       target.published /\ synced.published /\ target.marker
  /\ migTool.at \in {"converted", "retained", "receipted", "durable", "checked", "activated"}
       => target.profile.of = source
  /\ migTool.at = "converted" => target.profile.state = "copied"
  /\ migTool.at \in {"retained", "receipted", "durable", "checked", "activated"}
       => target.profile.state = "retained"
  /\ migTool.at = "receipted" => target.published /\ target.marker /\ target.receipt
  /\ migTool.at \in {"durable", "checked"} =>
       target.published /\ target.marker /\ synced = target
  /\ migTool.at = "activated" =>
       /\ target.published /\ ~target.marker /\ synced.published
       /\ synced.profile = target.profile

\* What the two states of the new store have to do with each other, and when
\* the Runtime may work on it.
StoreInv ==
  /\ synced.published => target.published
  /\ target.marker => synced.marker
  /\ target.published /\ (~target.marker \/ ~synced.marker) => Whole(target) /\ Whole(synced)
  /\ target.published /\ ~synced.published => target.marker /\ ~target.receipt
  /\ runtime => /\ target.published /\ ~target.marker
                /\ migTool.at \in {"idle", "opened", "failed"}
                /\ migTool.at = "opened" => migTool.mode = "execute"

MigInv == Migration!MigTypeOK /\ StoreInv /\ ToolInv

\* What MigrationKeeps says of a step.
Keeps == Migration!UsableIsWhole' /\ Migration!NothingLeftBehind

LEMMA MigrationStart == Migration!MigInit => MigInv
<1> USE MigrationAssumption
<1> SUFFICES ASSUME Migration!MigInit
             PROVE  MigInv
  OBVIOUS
<1>1. Migration!Nothing \in Migration!Store
  BY DEF Migration!Nothing, Migration!Store, Migration!NoCopy, Migration!Copies
<1>2. /\ ~target.published /\ ~synced.published /\ ~target.marker
      /\ ~runtime /\ ~expired /\ migTool = Migration!Idle
  BY DEF Migration!MigInit, Migration!Nothing
<1>3. /\ source \in 1..MaxVersion
      /\ faults \in 0..MaxFaults /\ crashes \in 0..MaxCrashes
  BY SMT DEF Migration!MigInit
<1>4. /\ migTool \in [mode : {"-", "execute", "check", "finalize"},
                      at : {"idle", "opened", "reserved", "converted", "retained",
                            "receipted", "durable", "checked", "activated", "done",
                            "failed"}]
      /\ migTool.at = "idle"
  BY <1>2 DEF Migration!Idle
<1>5. Migration!MigTypeOK
  BY <1>1, <1>2, <1>3, <1>4 DEF Migration!MigInit, Migration!MigTypeOK
<1> QED BY <1>2, <1>4, <1>5 DEF MigInv, StoreInv, ToolInv

\* A step of the tool.  The marker goes only where the tool has made the very
\* copy it verified durable.
LEMMA ToolKeeps ==
  MigInv /\ Migration!ToolStep => MigInv' /\ Migration!NothingLeftBehind
<1> SUFFICES ASSUME MigInv, Migration!ToolStep
             PROVE  MigInv' /\ Migration!NothingLeftBehind
  OBVIOUS
<1> USE MigrationAssumption
<1> USE DEF MigInv, StoreInv, ToolInv, Whole, Migration!MigTypeOK, Migration!Store,
            Migration!Copies, Migration!At, Migration!Go, Migration!Same, Migration!Idle,
            Migration!Usable, Migration!NothingLeftBehind
<1>1. CASE Migration!Reserve
  <2> DEFINE new == [Migration!Nothing EXCEPT !.published = TRUE, !.marker = TRUE]
             parent == [Migration!Nothing EXCEPT !.marker = TRUE]
  <2>1. new \in Migration!Store /\ parent \in Migration!Store
    <3>1. Migration!Nothing \in Migration!Store
      BY DEF Migration!Nothing, Migration!NoCopy
    <3>2. ASSUME NEW s \in Migration!Store
          PROVE  /\ [s EXCEPT !.marker = TRUE] \in Migration!Store
                 /\ [s EXCEPT !.published = TRUE, !.marker = TRUE] \in Migration!Store
      BY <3>2
    <3> QED BY <3>1, <3>2
  <2>2. /\ target' = new /\ synced' \in {parent, new}
        /\ UNCHANGED <<source, runtime, expired, faults, crashes>>
    BY <1>1 DEF Migration!Reserve
  <2>3. /\ migTool'.mode = migTool.mode /\ migTool'.at \in {"reserved", "failed"}
        /\ migTool' = [migTool EXCEPT !.at = migTool'.at]
    BY <1>1 DEF Migration!Reserve
  <2> HIDE DEF new, parent, Migration!Store
  <2>4. Migration!MigTypeOK'
    BY <2>1, <2>2, <2>3
  <2> USE DEF new, parent, Migration!Store
  <2>5. StoreInv'
    BY <1>1 DEF Migration!Reserve, Migration!Nothing
  <2>6. ToolInv'
    BY <1>1 DEF Migration!Reserve, Migration!Nothing
  <2>7. Migration!NothingLeftBehind
    BY <1>1 DEF Migration!Reserve, Migration!Nothing
  <2> QED BY <2>4, <2>5, <2>6, <2>7
<1>2. CASE Migration!Convert
  BY <1>2 DEF Migration!Convert, Migration!Copy
<1>3. CASE Migration!Retain
  BY <1>3 DEF Migration!Retain, Migration!SourceAsRequested, Migration!SourceUnchanged
<1>4. CASE Migration!WriteReceipt
  BY <1>4 DEF Migration!WriteReceipt
<1>5. CASE Migration!Verify
  BY <1>5 DEF Migration!Verify, Migration!Copy, Migration!SourceAsRequested,
              Migration!SourceUnchanged
<1>6. CASE Migration!SyncTree
  BY <1>6 DEF Migration!SyncTree, Migration!TreeSynced
<1>7. CASE Migration!Activate
  BY <1>7 DEF Migration!Activate
<1>8. CASE Migration!SyncActivation
  BY <1>8 DEF Migration!SyncActivation
<1>9. CASE Migration!CheckSourceAgain \/ Migration!Return \/ Migration!Reject
  BY <1>9 DEF Migration!CheckSourceAgain, Migration!Return, Migration!Reject
<1> QED BY <1>1, <1>2, <1>3, <1>4, <1>5, <1>6, <1>7, <1>8, <1>9
       DEF Migration!ToolStep

\* A step of the world around it: a power failure leaves each item of the new
\* store as it is seen or as it was synchronised, and either will do.
LEMMA WorldKeeps ==
  ASSUME MigInv,
         \/ \E mode \in {"execute", "check", "finalize"} : Migration!Open(mode)
         \/ Migration!Interrupt \/ Migration!UseSource \/ Migration!StartRuntime
         \/ Migration!UseTarget \/ Migration!StopRuntime
         \/ Migration!RetentionPasses \/ Migration!PowerFails
         \/ UNCHANGED migrationVars
  PROVE  MigInv' /\ Migration!NothingLeftBehind
<1> USE MigrationAssumption
<1> USE DEF MigInv, StoreInv, ToolInv, Whole, Migration!MigTypeOK, Migration!Store,
            Migration!Copies, Migration!At, Migration!Go, Migration!Same, Migration!Idle,
            Migration!Usable, Migration!NothingLeftBehind
<1>1. CASE Migration!UseSource
  BY <1>1 DEF Migration!UseSource, Migration!SourceUnlocked
<1>2. CASE Migration!StartRuntime
  BY <1>2 DEF Migration!StartRuntime
<1>3. CASE Migration!UseTarget
  BY <1>3 DEF Migration!UseTarget, Migration!Copy
<1>4. CASE Migration!PowerFails
  <2>1. target' \in Migration!Store /\ synced' \in Migration!Store
    BY <1>4 DEF Migration!PowerFails
  <2>2. crashes' \in 0..MaxCrashes /\ faults' \in 0..MaxFaults
    BY <1>4 DEF Migration!PowerFails
  <2>3. {runtime', expired'} \subseteq BOOLEAN /\ source' \in 1..MaxVersion
    BY <1>4 DEF Migration!PowerFails
  <2>4. Migration!MigTypeOK'
    BY <1>4, <2>1, <2>2, <2>3 DEF Migration!PowerFails
  <2>5. StoreInv'
    BY <1>4 DEF Migration!PowerFails
  <2>6. ToolInv'
    BY <1>4 DEF Migration!PowerFails
  <2>7. Migration!NothingLeftBehind
    BY <1>4 DEF Migration!PowerFails
  <2> QED BY <2>4, <2>5, <2>6, <2>7
<1>5. CASE Migration!Interrupt \/ Migration!StopRuntime
  <2>1. faults' \in 0..MaxFaults
    BY <1>5 DEF Migration!Interrupt, Migration!StopRuntime
  <2>2. {runtime', expired'} \subseteq BOOLEAN
    BY <1>5 DEF Migration!Interrupt, Migration!StopRuntime
  <2>3. Migration!MigTypeOK'
    BY <1>5, <2>1, <2>2 DEF Migration!Interrupt, Migration!StopRuntime
  <2>4. StoreInv'
    BY <1>5 DEF Migration!Interrupt, Migration!StopRuntime
  <2>5. ToolInv'
    BY <1>5 DEF Migration!Interrupt, Migration!StopRuntime
  <2>6. Migration!NothingLeftBehind
    BY <1>5 DEF Migration!Interrupt, Migration!StopRuntime
  <2> QED BY <2>3, <2>4, <2>5, <2>6
<1>6. ASSUME NEW mode \in {"execute", "check", "finalize"}, Migration!Open(mode)
      PROVE  MigInv' /\ Migration!NothingLeftBehind
  BY <1>6 DEF Migration!Open
<1>7. CASE UNCHANGED migrationVars
  BY <1>7 DEF migrationVars
<1>8. CASE Migration!RetentionPasses
  BY <1>8 DEF Migration!RetentionPasses
<1> QED BY <1>1, <1>2, <1>3, <1>4, <1>5, <1>6, <1>7, <1>8

LEMMA MigrationStep == MigInv /\ [Migration!MigNext]_migrationVars => MigInv' /\ Keeps
<1> SUFFICES ASSUME MigInv, [Migration!MigNext]_migrationVars
             PROVE  MigInv' /\ Keeps
  OBVIOUS
<1>1. MigInv' /\ Migration!NothingLeftBehind
  BY ToolKeeps, WorldKeeps DEF Migration!MigNext
<1>2. Migration!UsableIsWhole'
  BY <1>1 DEF MigInv, StoreInv, Whole, Migration!UsableIsWhole, Migration!Usable
<1> QED BY <1>1, <1>2 DEF Keeps

-----------------------------------------------------------------------------
(* The composition.  A step of the system is a step of one component, or of *)
(* none, and a stutter of the others.                                      *)

LEMMA OneMoves ==
  [HostNext]_hostVars =>
    /\ UNCHANGED part
    /\ [SelNext]_selVars
    /\ [Engine!ProcNext]_engineVars
    /\ [Mode!ModeNext]_modeVars
    /\ [McpNext]_mcpVars
    /\ [Migration!MigNext]_migrationVars
    /\ [Egress!GatewayNext]_egressVars
    /\ [Journal!JournalNext]_journalVars
    /\ [Watch!ObsNext]_observationVars
<1> USE DEF Rest
<1>1. CASE part = "selector" /\ SelNext /\ Rest("selector")
  BY <1>1
<1>2. CASE part = "engine" /\ Engine!ProcNext /\ Rest("engine")
  BY <1>2
<1>3. CASE part = "mode" /\ Mode!ModeNext /\ Rest("mode")
  BY <1>3
<1>4. CASE part = "mcp" /\ McpNext /\ Rest("mcp")
  BY <1>4
<1>5. CASE part = "migration" /\ Migration!MigNext /\ Rest("migration")
  BY <1>5
<1>6. CASE part = "egress" /\ Egress!GatewayNext /\ Rest("egress")
  BY <1>6
<1>7. CASE part = "journal" /\ Journal!JournalNext /\ Rest("journal")
  BY <1>7
<1>8. CASE part = "observation" /\ Watch!ObsNext /\ Rest("observation")
  BY <1>8
<1>9. CASE UNCHANGED hostVars
  BY <1>9 DEF hostVars
<1> QED BY <1>1, <1>2, <1>3, <1>4, <1>5, <1>6, <1>7, <1>8, <1>9 DEF HostNext

HostInv ==
  /\ part \in Parts
  /\ SelectorInv /\ EngineInv /\ WorkerInv /\ ConnectionInv
  /\ MigInv /\ GatewayInv /\ JournalInv /\ FrameInv

LEMMA HostStart == HostInit => HostInv
<1> SUFFICES ASSUME HostInit PROVE HostInv
  OBVIOUS
<1>1. /\ part \in Parts /\ SelInit /\ Engine!ProcInit /\ Mode!ModeInit /\ McpInit
      /\ Migration!MigInit /\ Egress!GatewayInit /\ Journal!JournalInit /\ Watch!ObsInit
  BY DEF HostInit
<1>2. ConnectionInv
  BY <1>1, McpAssumption, ConnectionInit
<1> QED BY <1>1, <1>2, SelectorInit, EngineInit, ModeStart, MigrationStart, GatewayInit,
           JournalStart, ObservationInit DEF HostInv

LEMMA HostStep == HostInv /\ [HostNext]_hostVars => HostInv'
<1> SUFFICES ASSUME HostInv, [HostNext]_hostVars
             PROVE  HostInv'
  OBVIOUS
<1>1. ConnectionInv /\ [McpNext]_mcpVars => ConnectionInv'
  BY McpAssumption, ConnectionStep
<1> QED BY <1>1, OneMoves, SelectorStep, EngineStep, ModeStep, MigrationStep, GatewayStep,
           JournalStep, ObservationStep DEF HostInv

LEMMA HostKept == HostSpec => []HostInv
BY HostStart, HostStep, PTL DEF HostSpec

\* Every variable of every component stays in its type: the counters of the
\* engine in step with its requests, the cancel functions of the MCP server in
\* step with its calls, the lease of the observer one of its streams.
THEOREM HostTypeCorrect == HostSpec => []HostTypeOK
<1>1. HostInv => HostTypeOK
  <2> SUFFICES ASSUME HostInv PROVE HostTypeOK
    OBVIOUS
  <2>1. McpTypeOK
    BY McpAssumption, ConnectionTyped DEF HostInv
  <2> QED BY <2>1, SelectorTyped
          DEF HostInv, HostTypeOK, EngineInv, EngineTypes, WorkerInv, MigInv, GatewayInv,
              FrameInv
<1> QED BY <1>1, HostKept, PTL

\* Selector.Execute and the observer's snapshot: of the backends only the
\* selected one has a live Session, whichever start or abort fails in between,
\* and what is shown is the backend of the Run the selector serves.
THEOREM OneBackend == HostSpec => []OneBackendShown
<1>1. HostInv => OneBackendShown
  BY SelectorTyped DEF HostInv
<1> QED BY <1>1, HostKept, PTL

\* Selector.Execute: a Session that has begun in one backend is not continued
\* in the other, whatever mode a later attachment of its Run asks for.
THEOREM KeptInBackend == HostSpec => SessionKeepsBackend
<1>1. HostInv /\ [HostNext]_hostVars =>
        [\A b, c \in Backends :
           (b # c /\ held[b] # None /\ held'[c] # None /\ scope.gen = held[b].gen)
             => held'[c].gen # held[b].gen]_selVars
  BY OneMoves, SessionStays DEF HostInv, SelectorInv
<1> QED BY <1>1, HostKept, PTL DEF HostSpec, SessionKeepsBackend

\* ProcessEngine (process_engine.go): a caller is given the answer to the request it wrote, and
\* no request is written to a process that still owes one, though calls
\* time out, processes end and lines come late or unasked.
THEOREM AnswersOfTheCaller == HostSpec => []OwnAnswer
<1>1. HostInv => OwnAnswer
  BY EngineAnswers DEF HostInv
<1> QED BY <1>1, HostKept, PTL

\* ProfileEngine.ObserveOps: a frame is reported as taken during an action only
\* if an action held the engine from the start of the capture to its end, though
\* the observer takes no lock.
THEOREM ClaimsAreTrue == HostSpec => []ClaimSpansAction
<1>1. HostInv => ClaimSpansAction
  BY EngineAnswers DEF HostInv
<1> QED BY <1>1, HostKept, PTL

\* Service.Enable, Disable and the worker's own end (agent/service.go): a worker
\* runs under the lock of its state directory only, and what a tool call
\* reported is what is there, though a shutdown takes no agentMu.
THEOREM ModeIsTold == HostSpec => []ModeTruthful
<1>1. HostInv => ModeTruthful
  BY ModeTold DEF HostInv
<1> QED BY <1>1, HostKept, PTL

\* The egress gateway: whatever a name resolves to when, a request connects only
\* to addresses that were validated for it, and one destination at most is given
\* bytes of it.
THEOREM OneDestination == HostSpec => []OneValidatedDestination
<1>1. HostInv => OneValidatedDestination
  BY GatewayReaches DEF HostInv
<1> QED BY <1>1, HostKept, PTL

\* browser_mutation_journal.go: an outcome that was counted is an entry of the
\* journal or counted among the dropped ones, and no more records saw mutation
\* requests than there are outcomes.
THEOREM JournalComplete == HostSpec => []JournalAccounts
<1>1. HostInv => JournalAccounts
  BY DEF HostInv, JournalInv
<1> QED BY <1>1, HostKept, PTL

\* The observation stream publishes a frame under the attempt it was taken of,
\* though the Run moves to another attempt around the capture.
THEOREM FrameIsOfAttempt == HostSpec => []FrameOfAttempt
<1>1. HostInv => FrameOfAttempt
  BY FramesOfAttempt DEF HostInv
<1> QED BY <1>1, HostKept, PTL

\* The exit of an observation that was replaced leaves the newer one and its
\* lease alone.
THEOREM NewerObservationSurvives == HostSpec => NewerSurvives
<1>1. HostInv /\ [HostNext]_hostVars =>
        [\A s \in Watch!Starts :
           Watch!Is(s, "leaving") /\ Watch!Is(s, "gone")' /\ lease # s =>
             /\ lease' = lease
             /\ \A t \in Watch!Starts \ {s} :
                  stream'[t].alive = stream[t].alive]_(Watch!obsVars)
  BY OneMoves, ObservationStep DEF HostInv, Spares, Watch!Is
<1> QED BY <1>1, HostKept, PTL DEF HostSpec, NewerSurvives, Watch!NewerSurvives

\* migration.go: whichever step of a conversion fails or is cut off by a power
\* failure, the Runtime can open the new store only when the whole Profile and
\* its retention time are in it, and only a copy of what the old store holds
\* then is activated.
THEOREM MigrationIsSafe == HostSpec => MigrationKeeps
<1>1. HostInv /\ [HostNext]_hostVars => [Keeps]_(Migration!migVars)
  BY OneMoves, MigrationStep DEF HostInv
<1> QED BY <1>1, HostKept, PTL DEF HostSpec, MigrationKeeps, Migration!MigrationKeeps, Keeps

\* Of a behaviour of the composition the MCP server sees steps of its own.
LEMMA McpOfHost == HostSpec => McpSteps
<1>1. HostInit => McpInit
  BY DEF HostInit
<1>2. [HostNext]_hostVars => [McpNext]_mcpVars
  BY OneMoves
<1> QED BY <1>1, <1>2, PTL DEF HostSpec, McpSteps

\* The Browser MCP server beside the other components: once a connection has
\* closed its attachment no call of it reaches the Browser.
THEOREM SilentInHost == HostSpec => NothingAfterClose
BY McpOfHost, StepsSilent, PTL

\* And the evidence of every Session epoch it answers for is delivered, or in an
\* answer that waits while another overtakes it.
THEOREM EvidenceInHost == HostSpec => []EpochEvidenced
<1>1. MaxCalls \in Nat /\ MaxEpoch \in Nat \ {0}
  BY McpAssumption
<1> QED BY <1>1, McpOfHost, StepsEvidenced, PTL
=============================================================================
