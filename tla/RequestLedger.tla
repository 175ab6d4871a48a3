---------------------------- MODULE RequestLedger ----------------------------
(***************************************************************************)
(* The ledger the Browser Runtime keeps of the requests it has admitted    *)
(* (packages/browser-runtime/browserruntime/connection.go): one scope at a *)
(* time, with the request ids it has seen, its action, Viewer and close    *)
(* budgets, and the budgets of clicks the Engine blocked, which outlive a  *)
(* rotation inside one Run.                                                *)
(*                                                                         *)
(* The server handles one connection at a time, but the Agent changes the  *)
(* active lease between the validation of a request and its reservation,   *)
(* and a close of an already revoked identity is admitted at any time.     *)
(* The lease files are BrowserLease's subject; here they are what the      *)
(* ledger can tell apart: the scope last activated, whether its lease is   *)
(* in place, and the scopes revoked.                                       *)
(***************************************************************************)
EXTENDS Integers, FiniteSets

CONSTANTS
  Scopes,         \* identities: Run, attachment, session and control epoch
  Runs,           \* provider Runs
  Navigations,    \* Browser session and session epoch
  RunOf,          \* the Run of a scope
  NavigationOf,   \* the Browser session and session epoch of a scope
  HumanScopes,    \* the scopes whose controller is the human
  Ids,            \* request ids
  None,
  HumanControl,   \* ServerOptions.HumanControlAvailable
  MaxRequests,    \* ServerOptions.MaxRequests
  MaxViewer,      \* maxViewerRequestsPerEpoch
  MaxClose,       \* maxCloseAttemptsPerAttachment
  MaxNavigationClicks,  \* maxBlockedClicksPerNavigation
  MaxRunClicks,   \* maxBlockedClicksPerRun
  MaxBatch,       \* bound: actions in a batch (the code: 8)
  MaxInstance,    \* bound: Engine processes
  MaxGeneration,  \* bound: navigations of one Engine process
  MaxDisplaced    \* bound: late closes and restarts

ASSUME ScopesAssumption ==
  /\ RunOf \in [Scopes -> Runs] /\ NavigationOf \in [Scopes -> Navigations]
  /\ HumanScopes \subseteq Scopes
  /\ None \notin Scopes /\ None \notin Runs /\ None \notin Navigations
ASSUME LimitsAssumption ==
  /\ HumanControl \in BOOLEAN
  /\ MaxRequests \in Nat /\ MaxViewer \in Nat /\ MaxClose \in Nat
  /\ MaxNavigationClicks \in Nat /\ MaxRunClicks \in Nat
  /\ MaxBatch \in Nat \ {0} /\ MaxInstance \in Nat \ {0}
  /\ MaxGeneration \in Nat \ {0} /\ MaxDisplaced \in Nat

VARIABLES
  latest,         \* the scope activated last, or None
  live,           \* its lease is in place and has not expired
  used,           \* scopes activated so far
  revoked,        \* scopes in the revocation index
  seenScope, seen, actionCount, viewerCount, closeCount, terminal,
  clickRun, clickNavigation, clickInstance, clickGeneration,
  blockedRunCount, blockedNavigationCount,
  srv,            \* the request being handled
  engine,         \* instance and navigation generation of the Engine process
  spent, times, viewed, closed, blocked, dead,  \* history since `displaced`
  displaced       \* late closes and restarts so far

leaseVars   == <<latest, live, used, revoked>>
budgetVars  == <<seenScope, seen, actionCount, viewerCount, closeCount, terminal>>
clickVars   == <<clickRun, clickNavigation, clickInstance, clickGeneration,
                 blockedRunCount, blockedNavigationCount>>
historyVars == <<spent, times, viewed, closed, blocked, dead, displaced>>
vars == <<leaseVars, budgetVars, clickVars, srv, engine, historyVars>>

Kinds == {"act", "click", "checkpoint", "close", "viewer"}
Request == [scope: Scopes, id: Ids, kind: Kinds, cost: 1..MaxBatch]
Phases == {"idle", "validated", "revoke", "execute", "challenge"}

\* Only a close is handled after its identity was revoked.
Idle == [phase |-> "idle", req |-> None, late |-> FALSE]
Handling ==
  {Idle} \union {h \in [phase: Phases \ {"idle"}, req: Request, late: BOOLEAN]:
                    h.late => h.req.kind = "close"}

NothingSpent  == [s \in Scopes |-> 0]
NothingSeen   == [s \in Scopes |-> [i \in Ids |-> 0]]
NothingBlocked == [r \in Runs |-> 0]

Init ==
  /\ latest = None /\ live = FALSE /\ used = {} /\ revoked = {}
  /\ seenScope = None /\ seen = {} /\ actionCount = 0 /\ viewerCount = 0
  /\ closeCount = 0 /\ terminal = FALSE
  /\ clickRun = None /\ clickNavigation = None /\ clickInstance = 0
  /\ clickGeneration = 0 /\ blockedRunCount = 0 /\ blockedNavigationCount = 0
  /\ srv = Idle
  /\ engine = [instance |-> 1, generation |-> 1]
  /\ spent = NothingSpent /\ viewed = NothingSpent /\ closed = NothingSpent
  /\ times = NothingSeen /\ blocked = NothingBlocked
  /\ dead = {} /\ displaced = 0

(***************************************************************************)
(* The Agent's side, as BrowserLease has it: acquire, Rotate and every     *)
(* transition publish a scope nobody used before, or the last one again    *)
(* after a write that failed; a Run that was left never comes back.        *)
(***************************************************************************)
Activate(s) ==
  /\ s = latest \/ (/\ s \notin used
                    /\ \/ latest # None /\ RunOf[s] = RunOf[latest]
                       \/ \A u \in used: RunOf[u] # RunOf[s])
  /\ ~ (s = latest /\ live)
  /\ latest' = s /\ live' = TRUE /\ used' = used \union {s}
  /\ UNCHANGED <<revoked, budgetVars, clickVars, srv, engine, historyVars>>

\* The lease is closed, taken back, or expires.
Deactivate ==
  /\ live
  /\ live' = FALSE
  /\ UNCHANGED <<latest, used, revoked, budgetVars, clickVars, srv, engine, historyVars>>

(***************************************************************************)
(* handleConnection and handleViewerConnection up to the reservation: a    *)
(* close of a revoked identity is not validated again. A refused request   *)
(* changes nothing.                                                        *)
(***************************************************************************)
\* Mutant: any request of a revoked identity skips the validation.
LateOfAnyKind(req) == req.scope \in revoked

Late(req) == req.kind = "close" /\ req.scope \in revoked
Valid(s) == live /\ s = latest /\ s \notin revoked

\* The ledger holds another scope, or clicks of another Run.
Elsewhere(s) == seenScope # s \/ clickRun # RunOf[s]

Validate(req) ==
  /\ srv.phase = "idle"
  /\ req.kind # "act" => req.cost = 1
  /\ req.kind = "viewer" => req.scope \in HumanScopes
  /\ Late(req) \/ Valid(req.scope)
  /\ Late(req) /\ Elsewhere(req.scope) => displaced < MaxDisplaced
  /\ srv' = [phase |-> "validated", req |-> req, late |-> Late(req)]
  /\ UNCHANGED <<leaseVars, budgetVars, clickVars, engine, historyVars>>

(***************************************************************************)
(* The Engine. A process keeps its instance for life and its navigation    *)
(* generation only grows; a new process gets a later instance, starts at   *)
(* generation 1 and may have navigated, or have been replaced in its turn, *)
(* before the ledger first sees an answer (process_engine.go,              *)
(* ensureProcess).                                                         *)
(***************************************************************************)
Engines == [instance: 1..MaxInstance, generation: 1..MaxGeneration]

Follows(e, before) ==
  \/ e.instance = before.instance /\ e.generation >= before.generation
  \/ e.instance > before.instance

(***************************************************************************)
(* What the ledger holds once it has turned to the scope of a request.     *)
(***************************************************************************)
SeenIn(s)     == IF s = seenScope THEN seen ELSE {}
ActionsIn(s)  == IF s = seenScope THEN actionCount ELSE 0
ViewersIn(s)  == IF s = seenScope THEN viewerCount ELSE 0
ClosesIn(s)   == IF s = seenScope THEN closeCount ELSE 0
\* Mutant: only a close beyond the budget makes a scope terminal.
TerminalPastCloses(s) == ClosesIn(s) > MaxClose

TerminalIn(s) == s = seenScope /\ terminal

\* prepareClickScopeLocked; the Run count survives a rotation of the Run.
SameClickScope(s) == clickRun = RunOf[s] /\ clickNavigation = NavigationOf[s]

\* Mutant: a rotation starts the Run's count again.
NavigationBlockedOnly(s) == IF SameClickScope(s) THEN blockedRunCount ELSE 0

RunBlockedIn(s) == IF clickRun = RunOf[s] THEN blockedRunCount ELSE 0
NavigationBlockedIn(s) == IF SameClickScope(s) THEN blockedNavigationCount ELSE 0

PrepareClickScope(s) ==
  /\ clickRun' = RunOf[s] /\ clickNavigation' = NavigationOf[s]
  /\ blockedRunCount' = RunBlockedIn(s)
  /\ blockedNavigationCount' = NavigationBlockedIn(s)
  /\ clickInstance' = IF SameClickScope(s) THEN clickInstance ELSE 0
  /\ clickGeneration' = IF SameClickScope(s) THEN clickGeneration ELSE 0

PrepareClicksFor(req) ==
  IF req.kind = "viewer" THEN UNCHANGED clickVars ELSE PrepareClickScope(req.scope)

(***************************************************************************)
(* reserveRequest and reserveViewerRequest.                                *)
(***************************************************************************)
\* Mutant: the Viewer does not look the request id up.
ReplayedByAction(req) == req.kind # "viewer" /\ req.id \in SeenIn(req.scope)

Replayed(req) == req.id \in SeenIn(req.scope)

\* Mutant: a batch is weighed as one action.
ExhaustedByRequests(req) ==
  CASE req.kind = "viewer" -> ViewersIn(req.scope) >= MaxViewer
    [] req.kind = "close"  -> ClosesIn(req.scope) >= MaxClose
    [] OTHER -> TerminalIn(req.scope) \/ ActionsIn(req.scope) + 1 > MaxRequests

Exhausted(req) ==
  CASE req.kind = "viewer" -> ViewersIn(req.scope) >= MaxViewer
    [] req.kind = "close"  -> ClosesIn(req.scope) >= MaxClose
    [] OTHER -> \/ TerminalIn(req.scope)
                \/ ActionsIn(req.scope) + req.cost > MaxRequests

ClickExhausted(req) ==
  /\ req.kind = "click"
  /\ \/ NavigationBlockedIn(req.scope) >= MaxNavigationClicks
     \/ RunBlockedIn(req.scope) >= MaxRunClicks

\* A late close that turns the ledger away from another scope starts the
\* history of the budgets again, one that turns it away from another Run that
\* of the blocked clicks.
Displaces(s) == srv.late /\ seenScope # s
DisplacesRun(s) == srv.late /\ clickRun # RunOf[s]

Since(history, nothing, s) == IF Displaces(s) THEN nothing ELSE history

Displacing(s) ==
  /\ blocked' = IF DisplacesRun(s) THEN NothingBlocked ELSE blocked
  /\ displaced' = displaced + (IF Displaces(s) \/ DisplacesRun(s) THEN 1 ELSE 0)

\* Refused: the ledger has turned to the scope all the same, and a close too
\* many makes it terminal.
ReserveRefused ==
  LET req == srv.req  s == srv.req.scope IN
  /\ srv.phase = "validated"
  /\ Replayed(req) \/ Exhausted(req)
  /\ seenScope' = s /\ seen' = SeenIn(s)
  /\ actionCount' = ActionsIn(s) /\ viewerCount' = ViewersIn(s)
  /\ closeCount' = ClosesIn(s)
  /\ terminal' = (TerminalIn(s) \/ (~ Replayed(req) /\ req.kind = "close"))
  /\ PrepareClicksFor(req)
  /\ srv' = Idle
  /\ spent' = Since(spent, NothingSpent, s)
  /\ times' = Since(times, NothingSeen, s)
  /\ viewed' = Since(viewed, NothingSpent, s)
  /\ closed' = Since(closed, NothingSpent, s)
  /\ dead' = Since(dead, {}, s) \union (IF terminal' THEN {s} ELSE {})
  /\ Displacing(s)
  /\ UNCHANGED <<leaseVars, engine>>

\* Admitted and charged; a click without retry budget is charged and refused.
Reserve ==
  LET req == srv.req  s == srv.req.scope  kind == srv.req.kind IN
  /\ srv.phase = "validated"
  /\ ~ Replayed(req) /\ ~ Exhausted(req)
  /\ seenScope' = s /\ seen' = SeenIn(s) \union {req.id}
  /\ actionCount' = ActionsIn(s) + (IF kind \in {"viewer", "close"} THEN 0 ELSE req.cost)
  /\ viewerCount' = ViewersIn(s) + (IF kind = "viewer" THEN 1 ELSE 0)
  /\ closeCount' = ClosesIn(s) + (IF kind = "close" THEN 1 ELSE 0)
  /\ terminal' = (TerminalIn(s) \/ (kind = "close" /\ ClosesIn(s) + 1 = MaxClose))
  /\ PrepareClicksFor(req)
  /\ srv' = IF ClickExhausted(req) THEN Idle
            ELSE [srv EXCEPT !.phase = IF kind = "close" /\ ~ srv.late
                                       THEN "revoke" ELSE "execute"]
  /\ spent' = [Since(spent, NothingSpent, s) EXCEPT ![s] =
                 IF kind \in {"viewer", "close"} THEN @ ELSE @ + req.cost]
  /\ times' = [Since(times, NothingSeen, s) EXCEPT ![s][req.id] = @ + 1]
  /\ viewed' = [Since(viewed, NothingSpent, s) EXCEPT ![s] =
                  IF kind = "viewer" THEN @ + 1 ELSE @]
  /\ closed' = [Since(closed, NothingSpent, s) EXCEPT ![s] =
                  IF kind = "close" THEN @ + 1 ELSE @]
  /\ dead' = Since(dead, {}, s) \union (IF terminal' THEN {s} ELSE {})
  /\ Displacing(s)
  /\ UNCHANGED <<leaseVars, engine>>

(***************************************************************************)
(* FileLease.Revoke, for a close and for a required challenge: only the    *)
(* active lease can be revoked; the index is written before the lease is   *)
(* removed, and either write can fail.                                     *)
(***************************************************************************)
Revoke(s) ==
  \/ s \in revoked /\ UNCHANGED leaseVars
  \/ /\ s \notin revoked /\ live /\ s = latest
     /\ revoked' = revoked \union {s} /\ live' = FALSE
     /\ UNCHANGED <<latest, used>>

RevokeFails(s) ==
  /\ s \notin revoked
  /\ \/ UNCHANGED leaseVars
     \/ /\ live /\ s = latest
        /\ revoked' = revoked \union {s}
        /\ UNCHANGED <<latest, live, used>>

RevokeClose ==
  /\ srv.phase = "revoke"
  /\ \/ Revoke(srv.req.scope) /\ srv' = [srv EXCEPT !.phase = "execute"]
     \/ RevokeFails(srv.req.scope) /\ srv' = Idle
  /\ UNCHANGED <<budgetVars, clickVars, engine, historyVars>>

(***************************************************************************)
(* The answer of the Engine. The server has handled no other request since *)
(* the reservation turned the click budget to this scope, so turning it    *)
(* again, as the code does, changes nothing.                               *)
(***************************************************************************)
RefusesEngine(e) == e.instance = clickInstance /\ e.generation < clickGeneration
SameNavigation(e) == e.instance = clickInstance /\ e.generation = clickGeneration
NavigationBlockedAfter(e) == IF SameNavigation(e) THEN blockedNavigationCount ELSE 0

\* Mutant: the ledger keeps the highest generation, whatever the process.
AcceptEngineAnyInstance(e, more) ==
  /\ clickInstance' = e.instance
  /\ clickGeneration' = IF e.generation > clickGeneration THEN e.generation
                         ELSE clickGeneration
  /\ blockedNavigationCount' = NavigationBlockedAfter(e) + more
  /\ blockedRunCount' = blockedRunCount + more
  /\ UNCHANGED <<clickRun, clickNavigation>>

\* acceptEngineStateLocked, with `more` blocked clicks.
AcceptEngine(e, more) ==
  IF RefusesEngine(e) THEN UNCHANGED clickVars
  ELSE /\ clickInstance' = e.instance /\ clickGeneration' = e.generation
       /\ blockedNavigationCount' = NavigationBlockedAfter(e) + more
       /\ blockedRunCount' = blockedRunCount + more
       /\ UNCHANGED <<clickRun, clickNavigation>>

ResetClickNavigation ==
  /\ clickInstance' = 0 /\ clickGeneration' = 0 /\ blockedNavigationCount' = 0
  /\ UNCHANGED <<clickRun, clickNavigation, blockedRunCount>>

Executing(kinds) ==
  /\ srv.phase = "execute" /\ srv.req.kind \in kinds
  /\ UNCHANGED <<leaseVars, budgetVars>>

\* An observation; a close and the Viewer leave the click budget alone.
ExecuteOk(e) ==
  /\ Executing(Kinds) /\ Follows(e, engine)
  /\ engine' = e /\ srv' = Idle
  /\ CASE srv.req.kind \in {"close", "viewer"} -> UNCHANGED clickVars
       [] srv.req.kind = "checkpoint" /\ ~ RefusesEngine(e) -> ResetClickNavigation
       [] OTHER -> AcceptEngine(e, 0)
  /\ UNCHANGED historyVars

\* The Engine blocked a click: recordBlockedClick.
ExecuteBlocked(e) ==
  /\ Executing({"click"}) /\ Follows(e, engine)
  /\ engine' = e /\ srv' = Idle
  /\ AcceptEngine(e, 1)
  /\ blocked' = [blocked EXCEPT ![RunOf[srv.req.scope]] = @ + 1]
  /\ UNCHANGED <<spent, times, viewed, closed, dead, displaced>>

\* Any other failure, with or without the loss of the process.
ExecuteFailed(e, reset) ==
  /\ Executing(Kinds) /\ Follows(e, engine)
  /\ engine' = e /\ srv' = Idle
  /\ IF reset /\ srv.req.kind # "viewer" THEN ResetClickNavigation
     ELSE UNCHANGED clickVars
  /\ UNCHANGED historyVars

\* A challenge nobody can answer: closeRequiredChallenge fences the scope,
\* closes the Engine's attachment and makes the scope terminal.
ExecuteChallenge(e) ==
  /\ ~ HumanControl
  /\ Executing(Kinds \ {"viewer"}) /\ Follows(e, engine)
  /\ engine' = e /\ srv' = [srv EXCEPT !.phase = "challenge"]
  /\ UNCHANGED <<clickVars, historyVars>>

CloseChallenge(e) ==
  /\ srv.phase = "challenge" /\ Follows(e, engine)
  /\ srv' = Idle
  /\ \/ /\ Revoke(srv.req.scope)
        /\ engine' = e
        /\ terminal' = TRUE /\ dead' = dead \union {srv.req.scope}
     \/ /\ RevokeFails(srv.req.scope)
        /\ UNCHANGED <<engine, terminal, dead>>
  /\ UNCHANGED <<seenScope, seen, actionCount, viewerCount, closeCount, clickVars,
                 spent, times, viewed, closed, blocked, displaced>>

(***************************************************************************)
(* The Runtime process restarts: ledger and Engine start again, the lease  *)
(* and the revocations are on disk.                                        *)
(***************************************************************************)
Restart ==
  /\ displaced < MaxDisplaced
  /\ seenScope' = None /\ seen' = {} /\ actionCount' = 0 /\ viewerCount' = 0
  /\ closeCount' = 0 /\ terminal' = FALSE
  /\ clickRun' = None /\ clickNavigation' = None /\ clickInstance' = 0
  /\ clickGeneration' = 0 /\ blockedRunCount' = 0 /\ blockedNavigationCount' = 0
  /\ srv' = Idle
  /\ engine' = [instance |-> 1, generation |-> 1]
  /\ spent' = NothingSpent /\ viewed' = NothingSpent /\ closed' = NothingSpent
  /\ times' = NothingSeen /\ blocked' = NothingBlocked
  /\ dead' = {} /\ displaced' = displaced + 1
  /\ UNCHANGED leaseVars

ExecuteStep ==
  \E e \in Engines:
    \/ ExecuteOk(e) \/ ExecuteBlocked(e) \/ ExecuteChallenge(e) \/ CloseChallenge(e)
    \/ \E reset \in BOOLEAN: ExecuteFailed(e, reset)

Next ==
  \/ \E s \in Scopes: Activate(s)
  \/ Deactivate
  \/ \E req \in Request: Validate(req)
  \/ Reserve \/ ReserveRefused \/ RevokeClose \/ ExecuteStep
  \/ Restart

Spec == Init /\ [][Next]_vars
-----------------------------------------------------------------------------
\* The types of the ledger, the request in hand and the histories
\* (server.go, Server).
TypeOK ==
  /\ latest \in Scopes \union {None} /\ live \in BOOLEAN
  /\ used \subseteq Scopes /\ revoked \subseteq Scopes
  /\ seenScope \in Scopes \union {None} /\ seen \subseteq Ids
  /\ actionCount \in Nat /\ viewerCount \in Nat /\ closeCount \in Nat
  /\ terminal \in BOOLEAN
  /\ clickRun \in Runs \union {None} /\ clickNavigation \in Navigations \union {None}
  /\ clickInstance \in Nat /\ clickGeneration \in Nat
  /\ blockedRunCount \in Nat /\ blockedNavigationCount \in Nat
  /\ srv \in Handling
  /\ engine \in Engines
  /\ spent \in [Scopes -> Nat] /\ viewed \in [Scopes -> Nat] /\ closed \in [Scopes -> Nat]
  /\ times \in [Scopes -> [Ids -> Nat]] /\ blocked \in [Runs -> Nat]
  /\ dead \subseteq Scopes /\ displaced \in Nat

\* However requests, rotations and refusals interleave, a scope is charged no
\* more actions (each action of a batch one), Viewer requests and closes than
\* reserveRequest and reserveViewerRequest allow, since the ledger was last
\* displaced.
BudgetHolds ==
  \A s \in Scopes: /\ spent[s] <= MaxRequests
                   /\ viewed[s] <= MaxViewer
                   /\ closed[s] <= MaxClose

\* A request id is admitted once in its scope, whatever kinds of request carry
\* it, since the ledger was last displaced: a late close of another scope and a
\* restart of the Runtime empty the map (reserveRequest, reserveViewerRequest
\* and the map they share).
NoReplay == \A s \in Scopes, i \in Ids: times[s][i] <= 1

\* A scope that ran out of closes, or whose challenge was closed, has no other
\* action charged until the ledger is displaced by a late close of another
\* scope, or the Runtime restarts (Server.terminal in reserveRequest).
TerminalIsFinal ==
  [][\A s \in Scopes: spent'[s] > spent[s] => s \notin dead]_vars

\* The Engine blocks at most maxBlockedClicksPerRun single clicks of a Run,
\* across the rotations, control epochs and Engine processes of that Run
\* (prepareClickScopeLocked keeps the Run count), until a late close of another
\* Run displaces the count, or the Runtime restarts.
BlockedClicksBounded == \A r \in Runs: blocked[r] <= MaxRunClicks

\* The ledger never knows a later navigation of the running Engine process
\* than the process has reached, so acceptEngineStateLocked never turns down
\* the answer of an Engine that counts correctly.
EngineInStep == ~ RefusesEngine(engine)

\* docs/isolated-browser.md:198 "Late actions ... cannot affect a replacement
\* connection": no request turns the ledger from the scope now active to an
\* older one, forgetting its request ids and budgets.
LateCloseIsInert ==
  [][seenScope = latest /\ latest # None /\ latest' = latest
       => seenScope' \in {latest, None}]_vars
=============================================================================
