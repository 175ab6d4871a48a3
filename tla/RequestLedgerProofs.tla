------------------------ MODULE RequestLedgerProofs ------------------------
(***************************************************************************)
(* For every value of the constants: the types of the ledger, that its     *)
(* budgets hold, that a request id is admitted once, that a terminal scope *)
(* stays terminal, that the clicks the Engine blocks are bounded per Run   *)
(* and that the ledger stays in step with the Engine.                      *)
(*                                                                         *)
(* None of these is inductive: the ledger remembers one scope only, so a   *)
(* count is right only if no scope comes back once the ledger has left it. *)
(* ScopesLeft and RunsLeft say which scopes and Runs can still come.       *)
(***************************************************************************)
EXTENDS RequestLedger, TLAPS

\* The scopes a request that is not late can still turn the ledger to.
Pending(s) == srv.phase = "validated" /\ ~ srv.late /\ s = srv.req.scope
MayCome(s) == s = latest \/ s \notin used \/ Pending(s)

\* The same of Runs, for the click budget.
PendingRun(r) ==
  /\ srv.phase = "validated" /\ ~ srv.late
  /\ r = RunOf[srv.req.scope]
RunMayCome(r) ==
  \/ latest # None /\ r = RunOf[latest]
  \/ \A u \in used: RunOf[u] # r
  \/ PendingRun(r)

Untouched(s) ==
  /\ spent[s] = 0 /\ viewed[s] = 0 /\ closed[s] = 0
  /\ \A i \in Ids: times[s][i] = 0
  /\ s \notin dead

\* What the ledger has counted covers what was charged to its scope.
Counted ==
  seenScope # None =>
    /\ spent[seenScope] <= actionCount /\ actionCount <= MaxRequests
    /\ viewed[seenScope] <= viewerCount /\ viewerCount <= MaxViewer
    /\ closed[seenScope] <= closeCount /\ closeCount <= MaxClose
    /\ \A i \in Ids: times[seenScope][i] <= (IF i \in seen THEN 1 ELSE 0)
    /\ seenScope \in dead => terminal

ScopesLeft ==
  /\ \A s \in Scopes: s # seenScope /\ MayCome(s) => Untouched(s)
  /\ srv.phase = "validated" /\ ~ srv.late /\ srv.req.scope # latest
       => seenScope # latest

ClicksCounted ==
  clickRun # None =>
    blocked[clickRun] <= blockedRunCount /\ blockedRunCount <= MaxRunClicks

RunsLeft ==
  /\ \A r \in Runs: r # clickRun /\ RunMayCome(r) => blocked[r] = 0
  /\ srv.phase = "validated" /\ ~ srv.late /\ RunOf[srv.req.scope] # RunOf[latest]
       => clickRun # RunOf[latest]

\* Scopes in use, and the request in hand against the ledger.
InUse ==
  /\ seenScope \in used \union {None}
  /\ latest \in used \union {None}
  /\ revoked \subseteq used
  /\ clickRun = None \/ \E u \in used: clickRun = RunOf[u]
  /\ srv.phase # "idle" => srv.req.scope \in used
  /\ srv.phase \in {"revoke", "execute", "challenge"} => seenScope = srv.req.scope
  /\ srv.phase = "revoke" => srv.req.kind = "close"

BudgetInv == Counted /\ ScopesLeft /\ BudgetHolds /\ NoReplay

\* A click is executed only while the Run has budget left.
ClickInv ==
  /\ ClicksCounted /\ RunsLeft /\ BlockedClicksBounded
  /\ srv.phase = "execute" /\ srv.req.kind = "click"
       => clickRun = RunOf[srv.req.scope] /\ blockedRunCount < MaxRunClicks

EngineInv ==
  /\ clickInstance <= engine.instance
  /\ clickInstance = engine.instance => clickGeneration <= engine.generation

-----------------------------------------------------------------------------
\* The request in hand is a request.
LEMMA InHand ==
  ASSUME TypeOK, srv.phase # "idle"
  PROVE  /\ srv.req \in Request /\ srv.late \in BOOLEAN
         /\ srv.phase \in Phases \ {"idle"}
         /\ srv = [phase |-> srv.phase, req |-> srv.req, late |-> srv.late]
         /\ srv.late => srv.req.kind = "close"
         /\ srv.req.scope \in Scopes /\ srv.req.id \in Ids
         /\ srv.req.kind \in Kinds /\ srv.req.cost \in 1..MaxBatch
BY DEF TypeOK, Handling, Idle, Request, Phases

\* What moving the request in hand to another phase keeps.
LEMMA InHandMoved ==
  ASSUME TypeOK, srv.phase # "idle", NEW p \in Phases, srv' = [srv EXCEPT !.phase = p]
  PROVE  srv'.phase = p /\ srv'.req = srv.req /\ srv'.late = srv.late
BY InHand

\* The click budget keeps its types whichever scope it is prepared for.
LEMMA ClicksPreparedType ==
  ASSUME TypeOK, NEW s \in Scopes, PrepareClickScope(s) \/ UNCHANGED clickVars
  PROVE  /\ clickRun' \in Runs \union {None}
         /\ clickNavigation' \in Navigations \union {None}
         /\ clickInstance' \in Nat /\ clickGeneration' \in Nat
         /\ blockedRunCount' \in Nat /\ blockedNavigationCount' \in Nat
BY ScopesAssumption DEF TypeOK, PrepareClickScope, clickVars, RunBlockedIn,
   NavigationBlockedIn, SameClickScope

\* And whatever the Engine answers.
LEMMA ClicksAnsweredType ==
  ASSUME TypeOK, NEW e \in Engines, NEW more \in {0, 1},
         AcceptEngine(e, more) \/ ResetClickNavigation \/ UNCHANGED clickVars
  PROVE  /\ clickRun' \in Runs \union {None}
         /\ clickNavigation' \in Navigations \union {None}
         /\ clickInstance' \in Nat /\ clickGeneration' \in Nat
         /\ blockedRunCount' \in Nat /\ blockedNavigationCount' \in Nat
BY DEF TypeOK, AcceptEngine, ResetClickNavigation, clickVars, Engines,
   NavigationBlockedAfter

\* What the server and the Engine start from.
LEMMA FreshType ==
  /\ NothingSpent \in [Scopes -> Nat] /\ NothingSeen \in [Scopes -> [Ids -> Nat]]
  /\ NothingBlocked \in [Runs -> Nat]
  /\ Idle \in Handling
  /\ [instance |-> 1, generation |-> 1] \in Engines
BY LimitsAssumption DEF NothingSpent, NothingSeen, NothingBlocked, Handling, Engines

LEMMA InitType == Init => TypeOK
<1> SUFFICES ASSUME Init PROVE TypeOK
  OBVIOUS
<1>1. /\ spent \in [Scopes -> Nat] /\ viewed \in [Scopes -> Nat]
      /\ closed \in [Scopes -> Nat] /\ times \in [Scopes -> [Ids -> Nat]]
      /\ blocked \in [Runs -> Nat] /\ srv \in Handling /\ engine \in Engines
  BY FreshType DEF Init
<1> QED BY <1>1 DEF Init, TypeOK

\* What a reservation leaves of the history has its type.
LEMMA SinceType ==
  ASSUME TypeOK, NEW s \in Scopes
  PROVE  /\ Since(spent, NothingSpent, s) \in [Scopes -> Nat]
         /\ Since(viewed, NothingSpent, s) \in [Scopes -> Nat]
         /\ Since(closed, NothingSpent, s) \in [Scopes -> Nat]
         /\ Since(times, NothingSeen, s) \in [Scopes -> [Ids -> Nat]]
         /\ Since(dead, {}, s) \subseteq Scopes
<1>1. NothingSpent \in [Scopes -> Nat] BY DEF NothingSpent
<1>2. NothingSeen \in [Scopes -> [Ids -> Nat]] BY DEF NothingSeen
<1> QED BY <1>1, <1>2 DEF Since, TypeOK

LEMMA StepType == TypeOK /\ [Next]_vars => TypeOK'
<1> SUFFICES ASSUME TypeOK, [Next]_vars PROVE TypeOK'
  OBVIOUS
<1> USE ScopesAssumption, LimitsAssumption
<1>1. ASSUME NEW s \in Scopes, Activate(s) PROVE TypeOK'
  BY <1>1 DEF Activate, TypeOK, budgetVars, clickVars, historyVars
<1>2. CASE Deactivate
  BY <1>2 DEF Deactivate, TypeOK, budgetVars, clickVars, historyVars
<1>3. ASSUME NEW req \in Request, Validate(req) PROVE TypeOK'
  <2>1. srv' \in Handling
    BY <1>3 DEF Validate, Handling, Late, Phases
  <2> QED BY <2>1, <1>3 DEF Validate, TypeOK, leaseVars, budgetVars, clickVars, historyVars
<1>4. CASE Reserve
  <2> DEFINE s == srv.req.scope
  <2>1. srv.phase = "validated" BY <1>4 DEF Reserve
  <2>2. s \in Scopes /\ srv.req.id \in Ids /\ srv.req.cost \in Nat
        /\ srv \in Handling
    BY <2>1, InHand DEF TypeOK
  <2>3. srv' \in Handling
    <3>1. srv = [phase |-> srv.phase, req |-> srv.req, late |-> srv.late]
      BY <2>1, InHand
    <3>2. CASE srv' = Idle
      BY <3>2 DEF Handling
    <3>3. CASE srv' # Idle
      <4>1. PICK p \in {"revoke", "execute"}: srv' = [srv EXCEPT !.phase = p]
        BY <1>4, <3>3 DEF Reserve
      <4>2. srv' = [phase |-> p, req |-> srv.req, late |-> srv.late]
        BY <3>1, <4>1
      <4> QED BY <4>2, <2>1, InHand DEF Handling, Phases
    <3> QED BY <3>2, <3>3
  <2>4. /\ clickRun' \in Runs \union {None}
        /\ clickNavigation' \in Navigations \union {None}
        /\ clickInstance' \in Nat /\ clickGeneration' \in Nat
        /\ blockedRunCount' \in Nat /\ blockedNavigationCount' \in Nat
    BY <1>4, <2>2, ClicksPreparedType DEF Reserve, PrepareClicksFor
  <2> DEFINE before == Since(spent, NothingSpent, s)
             watching == Since(viewed, NothingSpent, s)
             ended == Since(closed, NothingSpent, s)
             counts == Since(times, NothingSeen, s)
  <2>a. /\ before \in [Scopes -> Nat] /\ watching \in [Scopes -> Nat]
        /\ ended \in [Scopes -> Nat] /\ counts \in [Scopes -> [Ids -> Nat]]
        /\ Since(dead, {}, s) \subseteq Scopes
    BY <2>2, SinceType
  <2>b. /\ spent' = [before EXCEPT ![s] = IF srv.req.kind \in {"viewer", "close"} THEN @ ELSE @ + srv.req.cost]
        /\ viewed' = [watching EXCEPT ![s] = IF srv.req.kind = "viewer" THEN @ + 1 ELSE @]
        /\ closed' = [ended EXCEPT ![s] = IF srv.req.kind = "close" THEN @ + 1 ELSE @]
        /\ times' = [counts EXCEPT ![s][srv.req.id] = @ + 1]
    BY <1>4 DEF Reserve
  <2>5. spent' \in [Scopes -> Nat] /\ viewed' \in [Scopes -> Nat] /\ closed' \in [Scopes -> Nat]
    <3> HIDE DEF before, watching, ended
    <3>1. spent' \in [Scopes -> Nat] BY <2>2, <2>a, <2>b
    <3>2. viewed' \in [Scopes -> Nat] BY <2>2, <2>a, <2>b
    <3>3. closed' \in [Scopes -> Nat] BY <2>2, <2>a, <2>b
    <3> QED BY <3>1, <3>2, <3>3
  <2>6. times' \in [Scopes -> [Ids -> Nat]]
    <3> HIDE DEF counts
    <3>1. counts[s] \in [Ids -> Nat] BY <2>2, <2>a
    <3>2. [counts[s] EXCEPT ![srv.req.id] = @ + 1] \in [Ids -> Nat] BY <2>2, <3>1
    <3>3. times' = [counts EXCEPT ![s] = [counts[s] EXCEPT ![srv.req.id] = @ + 1]] BY <2>b
    <3> QED BY <2>2, <2>a, <3>2, <3>3
  <2>7. /\ seenScope' \in Scopes \union {None} /\ seen' \subseteq Ids
        /\ actionCount' \in Nat /\ viewerCount' \in Nat /\ closeCount' \in Nat
        /\ terminal' \in BOOLEAN /\ dead' \subseteq Scopes
    <3>1. SeenIn(s) \subseteq Ids /\ TerminalIn(s) \in BOOLEAN
      BY DEF TypeOK, SeenIn, TerminalIn
    <3>2. ActionsIn(s) \in Nat /\ ViewersIn(s) \in Nat /\ ClosesIn(s) \in Nat
      BY DEF TypeOK, ActionsIn, ViewersIn, ClosesIn
    <3>3. seenScope' = s /\ seen' = SeenIn(s) \union {srv.req.id}
      BY <1>4 DEF Reserve
    <3>4. /\ actionCount' = ActionsIn(s) + (IF srv.req.kind \in {"viewer", "close"} THEN 0 ELSE srv.req.cost)
          /\ viewerCount' = ViewersIn(s) + (IF srv.req.kind = "viewer" THEN 1 ELSE 0)
          /\ closeCount' = ClosesIn(s) + (IF srv.req.kind = "close" THEN 1 ELSE 0)
      BY <1>4 DEF Reserve
    <3>5. terminal' \in BOOLEAN
      BY <1>4 DEF Reserve
    <3>6. dead' \subseteq Scopes
      BY <1>4, <2>2, <2>a DEF Reserve
    <3>7. actionCount' \in Nat /\ viewerCount' \in Nat /\ closeCount' \in Nat
      BY <2>2, <3>2, <3>4
    <3> QED BY <2>2, <3>1, <3>3, <3>5, <3>6, <3>7
  <2>8. blocked' \in [Runs -> Nat] /\ displaced' \in Nat
    <3>1. Displacing(s) BY <1>4 DEF Reserve
    <3>2. blocked' = blocked \/ blocked' = NothingBlocked BY <3>1 DEF Displacing
    <3>3. displaced' = displaced + 0 \/ displaced' = displaced + 1 BY <3>1 DEF Displacing
    <3>4. NothingBlocked \in [Runs -> Nat] BY DEF NothingBlocked
    <3>5. blocked \in [Runs -> Nat] /\ displaced \in Nat BY DEF TypeOK
    <3> QED BY <3>2, <3>3, <3>4, <3>5
  <2> QED BY <1>4, <2>3, <2>4, <2>5, <2>6, <2>7, <2>8 DEF Reserve, TypeOK, leaseVars
<1>5. CASE ReserveRefused
  <2> DEFINE s == srv.req.scope
  <2>1. s \in Scopes BY <1>5, InHand DEF ReserveRefused
  <2>2. srv' \in Handling BY <1>5 DEF ReserveRefused, Handling
  <2>3. /\ clickRun' \in Runs \union {None}
        /\ clickNavigation' \in Navigations \union {None}
        /\ clickInstance' \in Nat /\ clickGeneration' \in Nat
        /\ blockedRunCount' \in Nat /\ blockedNavigationCount' \in Nat
    BY <1>5, <2>1, ClicksPreparedType DEF ReserveRefused, PrepareClicksFor
  <2>4. /\ seenScope' \in Scopes \union {None} /\ seen' \subseteq Ids
        /\ actionCount' \in Nat /\ viewerCount' \in Nat /\ closeCount' \in Nat
        /\ terminal' \in BOOLEAN /\ dead' \subseteq Scopes
    BY <1>5, <2>1, SinceType DEF ReserveRefused, TypeOK, SeenIn, ActionsIn, ViewersIn,
       ClosesIn, TerminalIn
  <2>5. /\ spent' \in [Scopes -> Nat] /\ viewed' \in [Scopes -> Nat]
        /\ closed' \in [Scopes -> Nat] /\ times' \in [Scopes -> [Ids -> Nat]]
    BY <1>5, <2>1, SinceType DEF ReserveRefused
  <2>6. blocked' \in [Runs -> Nat] /\ displaced' \in Nat
    BY <1>5 DEF ReserveRefused, Displacing, NothingBlocked, TypeOK
  <2> QED BY <1>5, <2>2, <2>3, <2>4, <2>5, <2>6 DEF ReserveRefused, TypeOK, leaseVars
<1>6. CASE RevokeClose
  <2>1. srv' \in Handling
    <3>1. srv = [phase |-> srv.phase, req |-> srv.req, late |-> srv.late]
      BY <1>6, InHand DEF RevokeClose
    <3>2. CASE srv' = [srv EXCEPT !.phase = "execute"]
      <4>1. srv' = [phase |-> "execute", req |-> srv.req, late |-> srv.late]
        BY <3>1, <3>2
      <4> QED BY <4>1, <1>6, InHand DEF RevokeClose, Handling, Phases
    <3> QED BY <1>6, <3>2 DEF RevokeClose, Handling
  <2>2. revoked' \subseteq Scopes /\ live' \in BOOLEAN /\ UNCHANGED <<latest, used>>
    BY <1>6, InHand DEF RevokeClose, Revoke, RevokeFails, TypeOK, leaseVars
  <2> QED BY <1>6, <2>1, <2>2 DEF RevokeClose, TypeOK, budgetVars, clickVars, historyVars
<1>7. ASSUME NEW e \in Engines, ExecuteOk(e) PROVE TypeOK'
  <2>1. /\ clickRun' \in Runs \union {None}
        /\ clickNavigation' \in Navigations \union {None}
        /\ clickInstance' \in Nat /\ clickGeneration' \in Nat
        /\ blockedRunCount' \in Nat /\ blockedNavigationCount' \in Nat
    BY <1>7, ClicksAnsweredType DEF ExecuteOk
  <2> QED BY <1>7, <2>1 DEF ExecuteOk, Executing, TypeOK, Handling, leaseVars, budgetVars,
         historyVars
<1>8. ASSUME NEW e \in Engines, ExecuteBlocked(e) PROVE TypeOK'
  <2>1. srv.req.scope \in Scopes
    BY <1>8, InHand DEF ExecuteBlocked, Executing
  <2>2. /\ clickRun' \in Runs \union {None}
        /\ clickNavigation' \in Navigations \union {None}
        /\ clickInstance' \in Nat /\ clickGeneration' \in Nat
        /\ blockedRunCount' \in Nat /\ blockedNavigationCount' \in Nat
    BY <1>8, ClicksAnsweredType DEF ExecuteBlocked
  <2> QED BY <1>8, <2>1, <2>2 DEF ExecuteBlocked, Executing, TypeOK, Handling, leaseVars,
         budgetVars
<1>9. ASSUME NEW e \in Engines, NEW reset \in BOOLEAN, ExecuteFailed(e, reset)
      PROVE TypeOK'
  <2>1. /\ clickRun' \in Runs \union {None}
        /\ clickNavigation' \in Navigations \union {None}
        /\ clickInstance' \in Nat /\ clickGeneration' \in Nat
        /\ blockedRunCount' \in Nat /\ blockedNavigationCount' \in Nat
    BY <1>9, ClicksAnsweredType DEF ExecuteFailed
  <2> QED BY <1>9, <2>1 DEF ExecuteFailed, Executing, TypeOK, Handling, leaseVars,
         budgetVars, historyVars
<1>10. ASSUME NEW e \in Engines, ExecuteChallenge(e) PROVE TypeOK'
  <2>1. srv' \in Handling
    <3>1. srv' = [phase |-> "challenge", req |-> srv.req, late |-> srv.late]
      BY <1>10, InHand DEF ExecuteChallenge, Executing
    <3> QED BY <1>10, <3>1, InHand DEF ExecuteChallenge, Executing, Handling, Phases
  <2> QED BY <1>10, <2>1 DEF ExecuteChallenge, Executing, TypeOK, leaseVars, budgetVars,
         clickVars, historyVars
<1>11. ASSUME NEW e \in Engines, CloseChallenge(e) PROVE TypeOK'
  <2>1. srv.req.scope \in Scopes
    BY <1>11, InHand DEF CloseChallenge
  <2>2. revoked' \subseteq Scopes /\ live' \in BOOLEAN /\ UNCHANGED <<latest, used>>
    BY <1>11, <2>1 DEF CloseChallenge, Revoke, RevokeFails, TypeOK, leaseVars
  <2> QED BY <1>11, <2>1, <2>2 DEF CloseChallenge, TypeOK, Handling, clickVars
<1>12. CASE Restart
  <2>1. /\ spent' \in [Scopes -> Nat] /\ viewed' \in [Scopes -> Nat]
        /\ closed' \in [Scopes -> Nat] /\ times' \in [Scopes -> [Ids -> Nat]]
        /\ blocked' \in [Runs -> Nat] /\ srv' \in Handling /\ engine' \in Engines
    BY <1>12, FreshType DEF Restart
  <2>2. /\ seenScope' = None /\ seen' = {} /\ actionCount' = 0 /\ viewerCount' = 0
        /\ closeCount' = 0 /\ terminal' = FALSE
        /\ clickRun' = None /\ clickNavigation' = None /\ clickInstance' = 0
        /\ clickGeneration' = 0 /\ blockedRunCount' = 0 /\ blockedNavigationCount' = 0
        /\ dead' = {} /\ displaced' = displaced + 1
    BY <1>12 DEF Restart
  <2>3. latest' = latest /\ live' = live /\ used' = used /\ revoked' = revoked
    BY <1>12 DEF Restart, leaseVars
  <2>4. seenScope' \in Scopes \union {None} /\ seen' \subseteq Ids /\ dead' \subseteq Scopes
        /\ terminal' \in BOOLEAN
    BY <2>2
  <2>7. displaced' \in Nat
    BY <2>2 DEF TypeOK
  <2>5. clickRun' \in Runs \union {None} /\ clickNavigation' \in Navigations \union {None}
    BY <2>2
  <2>6. /\ clickInstance' \in Nat /\ clickGeneration' \in Nat /\ actionCount' \in Nat
        /\ viewerCount' \in Nat /\ closeCount' \in Nat
        /\ blockedRunCount' \in Nat /\ blockedNavigationCount' \in Nat
    BY <2>2
  <2> QED BY <2>1, <2>3, <2>4, <2>5, <2>6, <2>7 DEF TypeOK
<1>13. CASE UNCHANGED vars
  BY <1>13 DEF vars, TypeOK, leaseVars, budgetVars, clickVars, historyVars
<1> QED
  BY <1>1, <1>2, <1>3, <1>4, <1>5, <1>6, <1>7, <1>8, <1>9, <1>10, <1>11, <1>12, <1>13
  DEF Next, ExecuteStep

\* The ledger, the request in hand and the histories keep their types.
THEOREM TypeCorrect == Spec => []TypeOK
BY InitType, StepType, PTL DEF Spec
-----------------------------------------------------------------------------
LEMMA InUseStep == TypeOK /\ InUse /\ [Next]_vars => InUse'
<1> SUFFICES ASSUME TypeOK, InUse, [Next]_vars PROVE InUse'
  OBVIOUS
<1> USE ScopesAssumption
<1>1. ASSUME NEW s \in Scopes, Activate(s) PROVE InUse'
  BY <1>1 DEF Activate, InUse, budgetVars, clickVars
<1>2. CASE Deactivate
  BY <1>2 DEF Deactivate, InUse, budgetVars, clickVars
<1>3. ASSUME NEW req \in Request, Validate(req) PROVE InUse'
  <2>1. req.scope \in used
    BY <1>3 DEF Validate, Valid, Late, InUse, Request
  <2> QED BY <1>3, <2>1 DEF Validate, InUse, leaseVars, budgetVars, clickVars
<1>4. CASE Reserve
  <2>1. srv.phase = "validated" /\ srv.req.scope \in used
        /\ srv = [phase |-> srv.phase, req |-> srv.req, late |-> srv.late]
    BY <1>4, InHand DEF Reserve, InUse
  <2>2. \/ srv' = Idle
        \/ /\ srv'.req = srv.req
           /\ srv'.phase \in {"revoke", "execute"}
           /\ srv'.phase = "revoke" => srv.req.kind = "close"
    <3> DEFINE p == IF srv.req.kind = "close" /\ ~ srv.late THEN "revoke" ELSE "execute"
    <3>1. srv' = Idle \/ srv' = [srv EXCEPT !.phase = p]
      BY <1>4 DEF Reserve
    <3>2. p \in Phases /\ p \in {"revoke", "execute"}
          /\ (p = "revoke" => srv.req.kind = "close")
      BY DEF Phases
    <3>3. CASE srv' = [srv EXCEPT !.phase = p]
      <4> HIDE DEF p
      <4>1. srv'.phase = p /\ srv'.req = srv.req
        BY <3>3, <3>2, <2>1, InHandMoved
      <4> QED BY <4>1, <3>2
    <3> QED BY <3>1, <3>3
  <2>3. clickRun' = clickRun \/ clickRun' = RunOf[srv.req.scope]
    BY <1>4 DEF Reserve, PrepareClicksFor, PrepareClickScope, clickVars
  <2>4. seenScope' = srv.req.scope /\ UNCHANGED leaseVars
    BY <1>4 DEF Reserve
  <2> QED
    <3>1. CASE srv' = Idle BY <3>1, <2>1, <2>3, <2>4 DEF InUse, Idle, leaseVars
    <3>2. CASE srv' # Idle
      <4>1. UNCHANGED <<latest, used, revoked>> BY <2>4 DEF leaseVars
      <4>2. /\ seenScope' \in used' \union {None} /\ latest' \in used' \union {None}
            /\ revoked' \subseteq used'
            /\ clickRun' = None \/ \E u \in used': clickRun' = RunOf[u]
        BY <4>1, <2>1, <2>3, <2>4 DEF InUse
      <4>3. /\ srv'.req.scope \in used' /\ seenScope' = srv'.req.scope
            /\ srv'.phase = "revoke" => srv'.req.kind = "close"
        BY <3>2, <2>1, <2>2, <2>4, <4>1
      <4> QED BY <4>2, <4>3 DEF InUse
    <3> QED BY <3>1, <3>2
<1>5. CASE ReserveRefused
  <2>1. srv.req.scope \in used /\ srv' = Idle
    BY <1>5 DEF ReserveRefused, InUse
  <2>2. clickRun' = clickRun \/ clickRun' = RunOf[srv.req.scope]
    BY <1>5 DEF ReserveRefused, PrepareClicksFor, PrepareClickScope, clickVars
  <2>3. seenScope' = srv.req.scope /\ UNCHANGED leaseVars
    BY <1>5 DEF ReserveRefused
  <2> QED BY <2>1, <2>2, <2>3 DEF InUse, Idle, leaseVars
<1>6. CASE RevokeClose
  <2>1. srv.phase = "revoke" /\ srv.req.scope \in used /\ seenScope = srv.req.scope
        /\ srv = [phase |-> srv.phase, req |-> srv.req, late |-> srv.late]
    BY <1>6, InHand DEF RevokeClose, InUse
  <2>2. srv' = Idle \/ (srv'.req = srv.req /\ srv'.phase = "execute")
    <3>1. srv' = Idle \/ srv' = [srv EXCEPT !.phase = "execute"]
      BY <1>6 DEF RevokeClose
    <3> QED BY <2>1, <3>1, InHandMoved DEF Phases
  <2>3. revoked' \subseteq used /\ UNCHANGED <<latest, used, seenScope, clickRun>>
    BY <1>6, <2>1 DEF RevokeClose, Revoke, RevokeFails, InUse, leaseVars, budgetVars,
       clickVars
  <2> QED BY <2>1, <2>2, <2>3 DEF InUse, Idle
<1>7. ASSUME NEW e \in Engines, ExecuteOk(e) PROVE InUse'
  <2>1. srv' = Idle /\ UNCHANGED <<leaseVars, budgetVars>> /\ clickRun' = clickRun
    BY <1>7 DEF ExecuteOk, Executing, AcceptEngine, ResetClickNavigation, clickVars
  <2> QED BY <2>1 DEF InUse, Idle, leaseVars, budgetVars
<1>8. ASSUME NEW e \in Engines, ExecuteBlocked(e) PROVE InUse'
  <2>1. srv' = Idle /\ UNCHANGED <<leaseVars, budgetVars>> /\ clickRun' = clickRun
    BY <1>8 DEF ExecuteBlocked, Executing, AcceptEngine, clickVars
  <2> QED BY <2>1 DEF InUse, Idle, leaseVars, budgetVars
<1>9. ASSUME NEW e \in Engines, NEW reset \in BOOLEAN, ExecuteFailed(e, reset)
      PROVE InUse'
  <2>1. srv' = Idle /\ UNCHANGED <<leaseVars, budgetVars>> /\ clickRun' = clickRun
    BY <1>9 DEF ExecuteFailed, Executing, ResetClickNavigation, clickVars
  <2> QED BY <2>1 DEF InUse, Idle, leaseVars, budgetVars
<1>10. ASSUME NEW e \in Engines, ExecuteChallenge(e) PROVE InUse'
  <2>1. srv'.phase = "challenge" /\ srv'.req = srv.req
    BY <1>10, InHand DEF ExecuteChallenge, Executing
  <2> QED BY <1>10, <2>1 DEF ExecuteChallenge, Executing, InUse, leaseVars, budgetVars,
         clickVars
<1>11. ASSUME NEW e \in Engines, CloseChallenge(e) PROVE InUse'
  <2>1. srv' = Idle /\ UNCHANGED <<seenScope, clickRun>> /\ srv.req.scope \in used
    BY <1>11 DEF CloseChallenge, InUse, clickVars
  <2>2. revoked' \subseteq used /\ UNCHANGED <<latest, used>>
    BY <1>11, <2>1 DEF CloseChallenge, Revoke, RevokeFails, InUse, leaseVars
  <2> QED BY <2>1, <2>2 DEF InUse, Idle
<1>12. CASE Restart
  BY <1>12 DEF Restart, InUse, Idle, leaseVars
<1>13. CASE UNCHANGED vars
  BY <1>13 DEF vars, InUse, leaseVars, budgetVars, clickVars
<1> QED
  BY <1>1, <1>2, <1>3, <1>4, <1>5, <1>6, <1>7, <1>8, <1>9, <1>10, <1>11, <1>12, <1>13
  DEF Next, ExecuteStep

LEMMA InUseAlways == Spec => []InUse
<1>1. Init => InUse BY DEF Init, InUse, Idle
<1> QED BY <1>1, InUseStep, TypeCorrect, PTL DEF Spec
-----------------------------------------------------------------------------
\* Steps that leave the budgets and their history alone, and let no new
\* request in.
LEMMA BudgetQuiet ==
  ASSUME BudgetInv,
         UNCHANGED <<budgetVars, spent, times, viewed, closed, dead, latest, used>>,
         srv' = srv \/ srv'.phase # "validated"
  PROVE  BudgetInv'
<1>1. Counted' /\ BudgetHolds' /\ NoReplay'
  BY DEF BudgetInv, Counted, BudgetHolds, NoReplay, budgetVars
<1>2. \A s \in Scopes: MayCome(s)' => MayCome(s)
  BY DEF MayCome, Pending
<1>3. ScopesLeft'
  BY <1>2 DEF BudgetInv, ScopesLeft, Untouched, budgetVars
<1> QED BY <1>1, <1>3 DEF BudgetInv

\* What the ledger holds for the scope of the request in hand, once it has
\* turned to it, covers the history; no other scope that may come was touched.
LEMMA Turned ==
  ASSUME TypeOK, InUse, BudgetInv, srv.phase = "validated",
         NEW s, s = srv.req.scope
  PROVE  /\ Since(spent, NothingSpent, s)[s] <= ActionsIn(s) /\ ActionsIn(s) <= MaxRequests
         /\ Since(viewed, NothingSpent, s)[s] <= ViewersIn(s) /\ ViewersIn(s) <= MaxViewer
         /\ Since(closed, NothingSpent, s)[s] <= ClosesIn(s) /\ ClosesIn(s) <= MaxClose
         /\ \A i \in Ids: Since(times, NothingSeen, s)[s][i]
                            <= (IF i \in SeenIn(s) THEN 1 ELSE 0)
         /\ s \in Since(dead, {}, s) => TerminalIn(s)
         /\ \A t \in Scopes: t # s /\ (t = latest \/ t \notin used) =>
              /\ Since(spent, NothingSpent, s)[t] = 0
              /\ Since(viewed, NothingSpent, s)[t] = 0
              /\ Since(closed, NothingSpent, s)[t] = 0
              /\ \A i \in Ids: Since(times, NothingSeen, s)[t][i] = 0
              /\ t \notin Since(dead, {}, s)
         /\ \A t \in Scopes:
              /\ Since(spent, NothingSpent, s)[t] <= MaxRequests
              /\ Since(viewed, NothingSpent, s)[t] <= MaxViewer
              /\ Since(closed, NothingSpent, s)[t] <= MaxClose
              /\ \A i \in Ids: Since(times, NothingSeen, s)[t][i] <= 1
<1> USE LimitsAssumption
<1>1. s \in Scopes /\ s \in used /\ srv.late \in BOOLEAN
  BY InHand DEF InUse
<1>2. CASE Displaces(s)
  BY <1>1, <1>2 DEF Since, Displaces, NothingSpent, NothingSeen, ActionsIn, ViewersIn, ClosesIn,
     SeenIn, TerminalIn
<1>3. CASE ~ Displaces(s) /\ s = seenScope
  <2>1. /\ spent[s] <= ActionsIn(s) /\ ActionsIn(s) <= MaxRequests
        /\ viewed[s] <= ViewersIn(s) /\ ViewersIn(s) <= MaxViewer
        /\ closed[s] <= ClosesIn(s) /\ ClosesIn(s) <= MaxClose
        /\ \A i \in Ids: times[s][i] <= (IF i \in SeenIn(s) THEN 1 ELSE 0)
        /\ s \in dead => TerminalIn(s)
    BY <1>1, <1>3, ScopesAssumption DEF BudgetInv, Counted, ActionsIn, ViewersIn, ClosesIn,
       SeenIn, TerminalIn
  <2>2. \A t \in Scopes: t # s /\ (t = latest \/ t \notin used) => Untouched(t)
    BY <1>3 DEF BudgetInv, ScopesLeft, MayCome
  <2> QED BY <1>1, <1>3, <2>1, <2>2 DEF Since, Untouched, BudgetInv, BudgetHolds, NoReplay
<1>4. CASE ~ Displaces(s) /\ s # seenScope
  <2>1. ~ srv.late BY <1>1, <1>4 DEF Displaces
  <2>2. Untouched(s)
    BY <1>1, <1>4, <2>1 DEF BudgetInv, ScopesLeft, MayCome, Pending
  <2>3. ASSUME NEW t \in Scopes, t # s, t = latest \/ t \notin used
        PROVE  Untouched(t)
    <3>1. t # seenScope
      <4>1. CASE t = latest
        BY <4>1, <2>1, <2>3 DEF BudgetInv, ScopesLeft
      <4>2. CASE t \notin used
        BY <4>2, ScopesAssumption DEF InUse
      <4> QED BY <2>3, <4>1, <4>2
    <3> QED BY <2>3, <3>1 DEF BudgetInv, ScopesLeft, MayCome
  <2>4. /\ ActionsIn(s) = 0 /\ ViewersIn(s) = 0 /\ ClosesIn(s) = 0
        /\ SeenIn(s) = {} /\ ~ TerminalIn(s)
    BY <1>4 DEF ActionsIn, ViewersIn, ClosesIn, SeenIn, TerminalIn
  <2> QED BY <1>1, <1>4, <2>2, <2>3, <2>4
         DEF Since, Untouched, BudgetInv, BudgetHolds, NoReplay
<1> QED BY <1>2, <1>3, <1>4

\* Admitted or refused, a request leaves the ledger covering the history.
LEMMA BudgetReserve ==
  ASSUME TypeOK, InUse, BudgetInv, Reserve
  PROVE  BudgetInv'
<1> DEFINE s == srv.req.scope
           id == srv.req.id
           charged == IF srv.req.kind \in {"viewer", "close"} THEN 0 ELSE srv.req.cost
           watched == IF srv.req.kind = "viewer" THEN 1 ELSE 0
           closing == IF srv.req.kind = "close" THEN 1 ELSE 0
<1> USE LimitsAssumption
<1>1. /\ srv.phase = "validated" /\ s \in Scopes /\ id \in Ids /\ s \in used
      /\ srv.req.cost \in Nat /\ srv.req.kind \in Kinds
  BY InHand DEF Reserve, InUse
<1>2. srv'.phase # "validated"
  <2>1. srv' = Idle \/ \E p \in {"revoke", "execute"}: srv' = [srv EXCEPT !.phase = p]
    BY DEF Reserve
  <2> QED BY <1>1, <2>1, InHandMoved DEF Phases, Idle
<1>3. /\ Since(spent, NothingSpent, s) \in [Scopes -> Nat]
      /\ Since(viewed, NothingSpent, s) \in [Scopes -> Nat]
      /\ Since(closed, NothingSpent, s) \in [Scopes -> Nat]
      /\ Since(times, NothingSeen, s) \in [Scopes -> [Ids -> Nat]]
      /\ ActionsIn(s) \in Nat /\ ViewersIn(s) \in Nat /\ ClosesIn(s) \in Nat
  BY <1>1, SinceType DEF ActionsIn, ViewersIn, ClosesIn, TypeOK
<1>4. /\ seenScope' = s /\ seen' = SeenIn(s) \union {id} /\ id \notin SeenIn(s)
      /\ actionCount' = ActionsIn(s) + charged
      /\ viewerCount' = ViewersIn(s) + watched
      /\ closeCount' = ClosesIn(s) + closing
      /\ TerminalIn(s) => terminal'
      /\ UNCHANGED <<latest, used>>
  BY DEF Reserve, Replayed, leaseVars
<1>5. actionCount' <= MaxRequests /\ viewerCount' <= MaxViewer /\ closeCount' <= MaxClose
  <2>1. ActionsIn(s) <= MaxRequests /\ ViewersIn(s) <= MaxViewer /\ ClosesIn(s) <= MaxClose
    BY <1>1, Turned
  <2>2. CASE srv.req.kind = "viewer"
    <3>1. ~ (ViewersIn(s) >= MaxViewer)
      BY <2>2 DEF Reserve, Exhausted
    <3> QED BY <2>1, <2>2, <3>1, <1>3, <1>4
  <2>3. CASE srv.req.kind = "close"
    <3>1. ~ (ClosesIn(s) >= MaxClose)
      BY <2>3 DEF Reserve, Exhausted
    <3> QED BY <2>1, <2>3, <3>1, <1>3, <1>4
  <2>4. CASE srv.req.kind \notin {"viewer", "close"}
    <3>1. ActionsIn(s) + srv.req.cost <= MaxRequests
      <4>1. ~ (ActionsIn(s) + srv.req.cost > MaxRequests)
        BY <2>4, <1>1 DEF Reserve, Exhausted, Kinds
      <4> QED BY <4>1, <1>1, <1>3
    <3> QED BY <2>1, <2>4, <3>1, <1>3, <1>4
  <2> QED BY <2>2, <2>3, <2>4
<1>6. /\ spent' = [Since(spent, NothingSpent, s) EXCEPT ![s] = @ + charged]
      /\ viewed' = [Since(viewed, NothingSpent, s) EXCEPT ![s] = @ + watched]
      /\ closed' = [Since(closed, NothingSpent, s) EXCEPT ![s] = @ + closing]
  <2> DEFINE before == Since(spent, NothingSpent, s)
             watching == Since(viewed, NothingSpent, s)
             ended == Since(closed, NothingSpent, s)
  <2>1. spent' = [before EXCEPT ![s] = IF srv.req.kind \in {"viewer", "close"} THEN @ ELSE @ + srv.req.cost]
    BY DEF Reserve
  <2>2. viewed' = [watching EXCEPT ![s] = IF srv.req.kind = "viewer" THEN @ + 1 ELSE @]
    BY DEF Reserve
  <2>3. closed' = [ended EXCEPT ![s] = IF srv.req.kind = "close" THEN @ + 1 ELSE @]
    BY DEF Reserve
  <2>4. before[s] \in Nat /\ watching[s] \in Nat /\ ended[s] \in Nat
    BY <1>1, <1>3
  <2>5. (IF srv.req.kind \in {"viewer", "close"} THEN before[s] ELSE before[s] + srv.req.cost) = before[s] + charged
    <3> HIDE DEF before
    <3> QED BY <2>4
  <2>6. (IF srv.req.kind = "viewer" THEN watching[s] + 1 ELSE watching[s]) = watching[s] + watched
    <3> HIDE DEF watching
    <3> QED BY <2>4
  <2>7. (IF srv.req.kind = "close" THEN ended[s] + 1 ELSE ended[s]) = ended[s] + closing
    <3> HIDE DEF ended
    <3> QED BY <2>4
  <2> HIDE DEF before, watching, ended, charged, watched, closing
  <2> QED BY <2>1, <2>2, <2>3, <2>5, <2>6, <2>7 DEF before, watching, ended
<1>7. times' = [Since(times, NothingSeen, s) EXCEPT ![s][id] = @ + 1]
  BY DEF Reserve
<1>8. dead' = Since(dead, {}, s) \union (IF terminal' THEN {s} ELSE {})
  BY DEF Reserve
<1> HIDE DEF s, id, charged, watched, closing
<1>9. charged \in Nat /\ watched \in Nat /\ closing \in Nat
  BY <1>1 DEF charged, watched, closing
<1>10. Counted'
  <2>1. spent'[s] <= actionCount' /\ viewed'[s] <= viewerCount' /\ closed'[s] <= closeCount'
    BY <1>1, <1>3, <1>4, <1>6, <1>9, Turned DEF s
  <2>2. \A i \in Ids: times'[s][i] <= (IF i \in seen' THEN 1 ELSE 0)
    BY <1>1, <1>3, <1>4, <1>7, Turned DEF s
  <2>3. s \in dead' => terminal'
    BY <1>1, <1>4, <1>8, Turned DEF s
  <2> QED BY <1>4, <1>5, <2>1, <2>2, <2>3 DEF Counted
<1>11. ASSUME NEW t \in Scopes, t # s, t = latest \/ t \notin used
       PROVE  Untouched(t)'
  <2>0. /\ Since(spent, NothingSpent, s)[t] = 0 /\ Since(viewed, NothingSpent, s)[t] = 0
        /\ Since(closed, NothingSpent, s)[t] = 0
        /\ \A i \in Ids: Since(times, NothingSeen, s)[t][i] = 0
    BY <1>1, <1>11, Turned DEF s
  <2>1. /\ spent'[t] = 0 /\ viewed'[t] = 0 /\ closed'[t] = 0
        /\ \A i \in Ids: times'[t][i] = 0
    BY <1>1, <1>3, <1>6, <1>7, <1>11, <2>0
  <2>2. t \notin dead'
    BY <1>1, <1>8, <1>11, Turned DEF s
  <2> QED BY <2>1, <2>2 DEF Untouched
<1>12. ScopesLeft'
  BY <1>2, <1>4, <1>11 DEF ScopesLeft, MayCome, Pending
<1>13. BudgetHolds'
  <2>1. ASSUME NEW t \in Scopes
        PROVE  spent'[t] <= MaxRequests /\ viewed'[t] <= MaxViewer /\ closed'[t] <= MaxClose
    <3>1. CASE t = s
      BY <3>1, <1>1, <1>3, <1>4, <1>5, <1>6, <1>9, Turned DEF s
    <3>2. CASE t # s
      BY <3>2, <1>1, <1>3, <1>6, Turned DEF s
    <3> QED BY <3>1, <3>2
  <2> QED BY <2>1 DEF BudgetHolds
<1>14. NoReplay'
  <2>1. /\ \A i \in Ids: Since(times, NothingSeen, s)[s][i] <= (IF i \in SeenIn(s) THEN 1 ELSE 0)
        /\ \A t \in Scopes, i \in Ids: Since(times, NothingSeen, s)[t][i] <= 1
    BY <1>1, Turned DEF s
  <2>2. Since(times, NothingSeen, s)[s][id] = 0 BY <1>1, <1>3, <1>4, <2>1
  <2> HIDE DEF Since, SeenIn
  <2> QED BY <1>1, <1>3, <1>7, <2>1, <2>2 DEF NoReplay
<1> QED BY <1>10, <1>12, <1>13, <1>14 DEF BudgetInv

LEMMA BudgetRefused ==
  ASSUME TypeOK, InUse, BudgetInv, ReserveRefused
  PROVE  BudgetInv'
<1> DEFINE s == srv.req.scope
<1> USE LimitsAssumption
<1>1. srv.phase = "validated" /\ s \in Scopes /\ s \in used
  BY InHand DEF ReserveRefused, InUse
<1>2. /\ seenScope' = s /\ seen' = SeenIn(s) /\ actionCount' = ActionsIn(s)
      /\ viewerCount' = ViewersIn(s) /\ closeCount' = ClosesIn(s)
      /\ TerminalIn(s) => terminal'
      /\ srv' = Idle /\ UNCHANGED <<latest, used>>
  BY DEF ReserveRefused, leaseVars
<1>3. /\ spent' = Since(spent, NothingSpent, s) /\ viewed' = Since(viewed, NothingSpent, s)
      /\ closed' = Since(closed, NothingSpent, s) /\ times' = Since(times, NothingSeen, s)
      /\ dead' = Since(dead, {}, s) \union (IF terminal' THEN {s} ELSE {})
  BY DEF ReserveRefused
<1>4. Counted'
  BY <1>1, <1>2, <1>3, Turned DEF Counted
<1>5. \A t \in Scopes: t # s /\ (t = latest \/ t \notin used) => Untouched(t)'
  BY <1>1, <1>3, Turned DEF Untouched
<1>6. ScopesLeft'
  BY <1>2, <1>5 DEF ScopesLeft, MayCome, Pending, Idle
<1>7. BudgetHolds' /\ NoReplay'
  BY <1>1, <1>3, Turned DEF BudgetHolds, NoReplay
<1> QED BY <1>4, <1>6, <1>7 DEF BudgetInv

LEMMA BudgetStep == TypeOK /\ InUse /\ BudgetInv /\ [Next]_vars => BudgetInv'
<1> SUFFICES ASSUME TypeOK, InUse, BudgetInv, [Next]_vars PROVE BudgetInv'
  OBVIOUS
<1> USE ScopesAssumption, LimitsAssumption
<1>1. ASSUME NEW s \in Scopes, Activate(s) PROVE BudgetInv'
  <2>1. Counted' /\ BudgetHolds' /\ NoReplay'
    BY <1>1 DEF Activate, BudgetInv, Counted, BudgetHolds, NoReplay, budgetVars, historyVars
  <2>2. \A t \in Scopes: MayCome(t)' => MayCome(t)
    BY <1>1 DEF Activate, MayCome, Pending
  <2>3. \A t \in Scopes: t # seenScope' /\ MayCome(t)' => Untouched(t)'
    BY <1>1, <2>2 DEF Activate, BudgetInv, ScopesLeft, Untouched, budgetVars, historyVars
  <2>4. s # latest => seenScope # s
    BY <1>1 DEF Activate, InUse
  <2>5. ScopesLeft'
    BY <1>1, <2>3, <2>4 DEF Activate, BudgetInv, ScopesLeft, budgetVars
  <2> QED BY <2>1, <2>5 DEF BudgetInv
<1>2. CASE Deactivate
  BY <1>2, BudgetQuiet DEF Deactivate, historyVars
<1>3. ASSUME NEW req \in Request, Validate(req) PROVE BudgetInv'
  <2>1. Counted' /\ BudgetHolds' /\ NoReplay'
    BY <1>3 DEF Validate, BudgetInv, Counted, BudgetHolds, NoReplay, budgetVars, historyVars
  <2>2. ~ Late(req) => req.scope = latest
    BY <1>3 DEF Validate, Valid
  <2>3. \A t \in Scopes: MayCome(t)' => MayCome(t)
    BY <1>3, <2>2 DEF Validate, MayCome, Pending, leaseVars
  <2>4. ScopesLeft'
    BY <1>3, <2>2, <2>3 DEF Validate, BudgetInv, ScopesLeft, Untouched, budgetVars,
       historyVars, leaseVars
  <2> QED BY <2>1, <2>4 DEF BudgetInv
<1>4. CASE Reserve BY <1>4, BudgetReserve
<1>5. CASE ReserveRefused BY <1>5, BudgetRefused
<1>6. CASE RevokeClose
  <2>1. srv.phase = "revoke" BY <1>6 DEF RevokeClose
  <2>2. srv'.phase # "validated"
    <3>1. srv' = Idle \/ srv' = [srv EXCEPT !.phase = "execute"]
      BY <1>6 DEF RevokeClose
    <3> QED BY <2>1, <3>1, InHandMoved DEF Phases, Idle
  <2>3. UNCHANGED <<latest, used>>
    BY <1>6 DEF RevokeClose, Revoke, RevokeFails, leaseVars
  <2> QED BY <1>6, <2>2, <2>3, BudgetQuiet DEF RevokeClose, historyVars
<1>7. ASSUME NEW e \in Engines, ExecuteOk(e) PROVE BudgetInv'
  BY <1>7, BudgetQuiet DEF ExecuteOk, Executing, Idle, leaseVars, historyVars
<1>8. ASSUME NEW e \in Engines, ExecuteBlocked(e) PROVE BudgetInv'
  BY <1>8, BudgetQuiet DEF ExecuteBlocked, Executing, Idle, leaseVars
<1>9. ASSUME NEW e \in Engines, NEW reset \in BOOLEAN, ExecuteFailed(e, reset)
      PROVE BudgetInv'
  BY <1>9, BudgetQuiet DEF ExecuteFailed, Executing, Idle, leaseVars, historyVars
<1>10. ASSUME NEW e \in Engines, ExecuteChallenge(e) PROVE BudgetInv'
  <2>1. srv'.phase = "challenge"
    BY <1>10, InHandMoved DEF ExecuteChallenge, Executing, Phases
  <2> QED BY <1>10, <2>1, BudgetQuiet DEF ExecuteChallenge, Executing, leaseVars, historyVars
<1>11. ASSUME NEW e \in Engines, CloseChallenge(e) PROVE BudgetInv'
  <2>1. seenScope = srv.req.scope /\ srv.req.scope \in Scopes
    BY <1>11, InHand DEF CloseChallenge, InUse
  <2>2. UNCHANGED <<latest, used, seenScope, seen, actionCount, viewerCount, closeCount,
                    spent, times, viewed, closed>>
    BY <1>11 DEF CloseChallenge, Revoke, RevokeFails, leaseVars
  <2>3. /\ dead' \subseteq dead \union {seenScope}
        /\ \/ terminal' = terminal /\ dead' = dead
           \/ terminal'
    BY <1>11, <2>1 DEF CloseChallenge
  <2>4. Counted' /\ BudgetHolds' /\ NoReplay'
    BY <2>2, <2>3 DEF BudgetInv, Counted, BudgetHolds, NoReplay
  <2>5. srv'.phase # "validated" BY <1>11 DEF CloseChallenge, Idle
  <2>6. \A t \in Scopes: MayCome(t)' => MayCome(t)
    BY <2>2, <2>5 DEF MayCome, Pending
  <2>7. ScopesLeft'
    BY <2>2, <2>3, <2>5, <2>6 DEF BudgetInv, ScopesLeft, Untouched
  <2> QED BY <2>4, <2>7 DEF BudgetInv
<1>12. CASE Restart
  <2>1. seenScope' = None /\ srv' = Idle
    BY <1>12 DEF Restart
  <2>2. \A t \in Scopes: Untouched(t)'
    BY <1>12 DEF Restart, Untouched, NothingSpent, NothingSeen
  <2> QED BY <2>1, <2>2 DEF BudgetInv, Counted, ScopesLeft, BudgetHolds, NoReplay, Untouched,
         Idle
<1>13. CASE UNCHANGED vars
  BY <1>13, BudgetQuiet DEF vars, leaseVars, historyVars
<1> QED
  BY <1>1, <1>2, <1>3, <1>4, <1>5, <1>6, <1>7, <1>8, <1>9, <1>10, <1>11, <1>12, <1>13
  DEF Next, ExecuteStep

LEMMA BudgetInit == Init => BudgetInv
BY LimitsAssumption DEF Init, BudgetInv, Counted, ScopesLeft, Untouched, BudgetHolds,
   NoReplay, NothingSpent, NothingSeen, Idle

LEMMA BudgetAlways == Spec => []BudgetInv
BY BudgetInit, BudgetStep, TypeCorrect, InUseAlways, PTL DEF Spec

\* However requests, rotations and late closes interleave, no scope is charged
\* beyond the budgets of the ledger.
THEOREM BudgetsHold == Spec => []BudgetHolds
<1>1. BudgetInv => BudgetHolds BY DEF BudgetInv
<1> QED BY <1>1, BudgetAlways, PTL

\* A request id is admitted at most once in its scope.
THEOREM NothingReplayed == Spec => []NoReplay
<1>1. BudgetInv => NoReplay BY DEF BudgetInv
<1> QED BY <1>1, BudgetAlways, PTL

\* An action is charged to no terminal scope.
NotCharged == \A s \in Scopes: spent'[s] > spent[s] => s \notin dead

LEMMA TerminalStep ==
  ASSUME TypeOK, InUse, BudgetInv, [Next]_vars
  PROVE  [NotCharged]_vars
<1> USE LimitsAssumption
<1> SUFFICES ASSUME NEW s \in Scopes, spent'[s] > spent[s] PROVE s \notin dead
  BY DEF NotCharged
<1>1. spent[s] \in Nat BY DEF TypeOK
<1>2. CASE UNCHANGED spent BY <1>1, <1>2
<1>3. CASE Reserve
  <2>1. srv.phase = "validated" /\ srv.req.scope \in Scopes
        /\ (srv.late => srv.req.kind = "close")
    BY <1>3, InHand DEF Reserve
  <2>2. CASE s # srv.req.scope
    <3>1. spent'[s] = 0 \/ spent'[s] = spent[s]
      BY <1>3, <2>1, <2>2, SinceType DEF Reserve, Since, NothingSpent
    <3> QED BY <1>1, <3>1
  <2>3. CASE s = srv.req.scope /\ srv.req.kind \in {"viewer", "close"}
    <3>1. spent'[s] = 0 \/ spent'[s] = spent[s]
      BY <1>3, <2>1, <2>3, SinceType DEF Reserve, Since, NothingSpent
    <3> QED BY <1>1, <3>1
  <2>4. CASE s = srv.req.scope /\ srv.req.kind \notin {"viewer", "close"}
    <3>1. ~ TerminalIn(s)
      BY <1>3, <2>4 DEF Reserve, Exhausted
    <3>2. Since(dead, {}, s) = dead
      BY <2>1, <2>4 DEF Since, Displaces
    <3> QED BY <2>1, <2>4, <3>1, <3>2, Turned
  <2> QED BY <2>2, <2>3, <2>4
<1>4. CASE ReserveRefused
  <2>1. spent'[s] = 0 \/ spent'[s] = spent[s]
    BY <1>4 DEF ReserveRefused, Since, NothingSpent
  <2> QED BY <1>1, <2>1
<1>5. CASE Restart
  <2>1. spent'[s] = 0 BY <1>5 DEF Restart, NothingSpent
  <2> QED BY <1>1, <2>1
<1>6. \/ UNCHANGED spent \/ Reserve \/ ReserveRefused \/ Restart
  BY DEF Next, ExecuteStep, Activate, Deactivate, Validate, RevokeClose, ExecuteOk,
     ExecuteBlocked, ExecuteFailed, ExecuteChallenge, CloseChallenge, historyVars, vars
<1> QED BY <1>2, <1>3, <1>4, <1>5, <1>6

\* A scope that became terminal is never charged another action.
THEOREM TerminalStays == Spec => TerminalIsFinal
<1>1. [][NotCharged]_vars <=> TerminalIsFinal
  BY PTL DEF NotCharged, TerminalIsFinal
<1> QED BY <1>1, TerminalStep, TypeCorrect, InUseAlways, BudgetAlways, PTL DEF Spec

\* A step that turns a ledger of the active scope to another scope.
TurnsAway ==
  /\ latest # None /\ seenScope = latest
  /\ latest' = latest /\ seenScope' \notin {latest, None}

LEMMA TurnStep == BudgetInv /\ [Next]_vars => [TurnsAway => srv.late]_vars
<1> SUFFICES ASSUME BudgetInv, [Next]_vars, TurnsAway
             PROVE  srv.late
  OBVIOUS
<1>1. seenScope = latest /\ seenScope' # seenScope /\ seenScope' # None
  BY DEF TurnsAway
<1>2. CASE Reserve \/ ReserveRefused
  <2>1. srv.phase = "validated" /\ srv.req.scope # latest
    BY <1>1, <1>2 DEF Reserve, ReserveRefused
  <2> QED BY <1>1, <2>1 DEF BudgetInv, ScopesLeft
<1>3. \/ Reserve \/ ReserveRefused
      \/ seenScope' = seenScope \/ seenScope' = None
  BY DEF Next, ExecuteStep, Activate, Deactivate, Validate, RevokeClose, ExecuteOk,
     ExecuteBlocked, ExecuteFailed, ExecuteChallenge, CloseChallenge, Executing,
     Restart, budgetVars, vars
<1> QED BY <1>1, <1>2, <1>3

\* What reserveRequest and the validation do guarantee of the ledger (late_close
\* shows what they do not): while the active scope stays the same, no request
\* but a close handled after its identity was revoked turns the ledger away
\* from it, whatever was validated before a rotation and reserved after it.
THEOREM OnlyLateCloseTurns == Spec => [][TurnsAway => srv.late]_vars
BY TurnStep, BudgetAlways, PTL DEF Spec
-----------------------------------------------------------------------------
\* An Engine that follows the one the ledger is in step with is not refused.
LEMMA Followed ==
  ASSUME TypeOK, EngineInv, NEW e \in Engines, Follows(e, engine)
  PROVE  /\ ~ RefusesEngine(e)
         /\ clickInstance <= e.instance
         /\ clickInstance = e.instance => clickGeneration <= e.generation
BY DEF TypeOK, EngineInv, Follows, RefusesEngine, Engines

\* Whatever an execution makes of the click budget, the ledger stays in step.
LEMMA InStepAfter ==
  ASSUME TypeOK, EngineInv, NEW e \in Engines, Follows(e, engine), engine' = e,
         NEW more \in {0, 1},
         AcceptEngine(e, more) \/ ResetClickNavigation \/ UNCHANGED clickVars
  PROVE  EngineInv'
BY Followed DEF EngineInv, AcceptEngine, ResetClickNavigation, clickVars, Engines, TypeOK

LEMMA EngineStep == TypeOK /\ EngineInv /\ [Next]_vars => EngineInv'
<1> SUFFICES ASSUME TypeOK, EngineInv, [Next]_vars PROVE EngineInv'
  OBVIOUS
<1> USE LimitsAssumption
<1>1. ASSUME NEW s \in Scopes, Activate(s) PROVE EngineInv'
  BY <1>1 DEF Activate, EngineInv, clickVars
<1>2. CASE Deactivate
  BY <1>2 DEF Deactivate, EngineInv, clickVars
<1>3. ASSUME NEW req \in Request, Validate(req) PROVE EngineInv'
  BY <1>3 DEF Validate, EngineInv, clickVars
<1>4. CASE Reserve \/ ReserveRefused
  <2>1. engine' = engine /\ (UNCHANGED clickVars \/ PrepareClickScope(srv.req.scope))
    BY <1>4 DEF Reserve, ReserveRefused, PrepareClicksFor
  <2> QED BY <2>1 DEF PrepareClickScope, EngineInv, clickVars, TypeOK, Engines
<1>5. CASE RevokeClose
  BY <1>5 DEF RevokeClose, EngineInv, clickVars
<1>6. ASSUME NEW e \in Engines, ExecuteOk(e) PROVE EngineInv'
  BY <1>6, InStepAfter DEF ExecuteOk
<1>7. ASSUME NEW e \in Engines, ExecuteBlocked(e) PROVE EngineInv'
  BY <1>7, InStepAfter DEF ExecuteBlocked
<1>8. ASSUME NEW e \in Engines, NEW reset \in BOOLEAN, ExecuteFailed(e, reset)
      PROVE EngineInv'
  BY <1>8, InStepAfter DEF ExecuteFailed
<1>9. ASSUME NEW e \in Engines, ExecuteChallenge(e) PROVE EngineInv'
  BY <1>9, InStepAfter DEF ExecuteChallenge
<1>10. ASSUME NEW e \in Engines, CloseChallenge(e) PROVE EngineInv'
  <2>1. CASE engine' = e
    BY <1>10, <2>1, InStepAfter DEF CloseChallenge
  <2>2. CASE UNCHANGED engine
    BY <1>10, <2>2 DEF CloseChallenge, EngineInv, clickVars
  <2> QED BY <1>10, <2>1, <2>2 DEF CloseChallenge
<1>11. CASE Restart
  BY <1>11 DEF Restart, EngineInv
<1>12. CASE UNCHANGED vars
  BY <1>12 DEF vars, EngineInv, clickVars
<1> QED
  BY <1>1, <1>2, <1>3, <1>4, <1>5, <1>6, <1>7, <1>8, <1>9, <1>10, <1>11, <1>12
  DEF Next, ExecuteStep

LEMMA EngineAlways == Spec => []EngineInv
<1>1. Init => EngineInv BY DEF Init, EngineInv
<1> QED BY <1>1, EngineStep, TypeCorrect, PTL DEF Spec

\* The ledger never turns down an Engine that counts its navigations.
THEOREM LedgerInStep == Spec => []EngineInStep
<1>1. TypeOK /\ EngineInv => EngineInStep
  BY DEF TypeOK, EngineInv, EngineInStep, RefusesEngine, Engines
<1> QED BY <1>1, EngineAlways, TypeCorrect, PTL
-----------------------------------------------------------------------------
\* Steps that leave the Run's count and its history alone, and let no new
\* request in and none be executed.
LEMMA ClicksQuiet ==
  ASSUME ClickInv, UNCHANGED <<clickRun, blockedRunCount, blocked, latest, used>>,
         srv' = srv \/ srv'.phase \notin {"validated", "execute"}
  PROVE  ClickInv'
<1>1. \A r \in Runs: RunMayCome(r)' => RunMayCome(r)
  BY DEF RunMayCome, PendingRun
<1>2. ClicksCounted' /\ BlockedClicksBounded'
  BY DEF ClickInv, ClicksCounted, BlockedClicksBounded
<1>3. RunsLeft'
  BY <1>1 DEF ClickInv, RunsLeft
<1> QED BY <1>2, <1>3 DEF ClickInv

\* A reservation that prepared the click budget for its Run.
LEMMA ClicksTurned ==
  ASSUME TypeOK, InUse, ClickInv, srv.phase = "validated", srv'.phase # "validated",
         PrepareClickScope(srv.req.scope), Displacing(srv.req.scope),
         UNCHANGED <<latest, used>>
  PROVE  ClicksCounted' /\ RunsLeft' /\ BlockedClicksBounded'
<1> DEFINE s == srv.req.scope
           r == RunOf[s]
<1> USE ScopesAssumption, LimitsAssumption
<1>1. s \in Scopes /\ r \in Runs /\ s \in used /\ r # None
  BY InHand DEF InUse
<1>2. clickRun' = r /\ blockedRunCount' = RunBlockedIn(s)
  BY DEF PrepareClickScope
<1>3. RunBlockedIn(s) \in Nat /\ RunBlockedIn(s) <= MaxRunClicks
  BY <1>1 DEF ClickInv, ClicksCounted, RunBlockedIn, TypeOK
<1>4. blocked' = NothingBlocked \/ (blocked' = blocked /\ ~ DisplacesRun(s))
  BY DEF Displacing
<1>5. CASE blocked' = NothingBlocked
  BY <1>1, <1>2, <1>3, <1>5 DEF ClicksCounted, RunsLeft, BlockedClicksBounded, NothingBlocked
<1>6. CASE blocked' = blocked /\ ~ DisplacesRun(s)
  <2>1. blocked[r] <= RunBlockedIn(s)
    <3>1. CASE clickRun = r
      BY <3>1, <1>1 DEF ClickInv, ClicksCounted, RunBlockedIn
    <3>2. CASE clickRun # r
      <4>1. RunMayCome(r) BY <1>6, <3>2 DEF DisplacesRun, RunMayCome, PendingRun
      <4> QED BY <1>1, <3>2, <4>1 DEF ClickInv, RunsLeft, RunBlockedIn
    <3> QED BY <3>1, <3>2
  <2>2. ASSUME NEW q \in Runs, q # r, RunMayCome(q)'
        PROVE  blocked[q] = 0
    <3>1. RunMayCome(q)
      BY <2>2 DEF RunMayCome, PendingRun
    <3>2. q # clickRun
      <4>1. CASE latest # None /\ q = RunOf[latest]
        <5>1. clickRun = r \/ ~ srv.late
          BY <1>6 DEF DisplacesRun
        <5>2. ~ srv.late => clickRun # RunOf[latest]
          BY <4>1, <2>2 DEF ClickInv, RunsLeft
        <5> QED BY <4>1, <2>2, <5>1, <5>2
      <4>2. CASE \A u \in used: RunOf[u] # q
        BY <4>2 DEF InUse
      <4> QED BY <2>2, <4>1, <4>2 DEF RunMayCome, PendingRun
    <3> QED BY <2>2, <3>1, <3>2 DEF ClickInv, RunsLeft
  <2>3. ClicksCounted' /\ BlockedClicksBounded'
    BY <1>2, <1>3, <1>6, <2>1 DEF ClickInv, ClicksCounted, BlockedClicksBounded
  <2> QED BY <1>2, <1>6, <2>2, <2>3 DEF RunsLeft
<1> QED BY <1>4, <1>5, <1>6

LEMMA ClickStep == TypeOK /\ InUse /\ EngineInv /\ ClickInv /\ [Next]_vars => ClickInv'
<1> SUFFICES ASSUME TypeOK, InUse, EngineInv, ClickInv, [Next]_vars PROVE ClickInv'
  OBVIOUS
<1> USE ScopesAssumption, LimitsAssumption
<1>1. ASSUME NEW s \in Scopes, Activate(s) PROVE ClickInv'
  <2>1. \/ s = latest
        \/ latest # None /\ RunOf[s] = RunOf[latest]
        \/ \A u \in used: RunOf[u] # RunOf[s]
    BY <1>1 DEF Activate
  <2>2. \A r \in Runs: RunMayCome(r)' => RunMayCome(r)
    BY <1>1, <2>1 DEF Activate, RunMayCome, PendingRun
  <2>3. UNCHANGED <<clickRun, blockedRunCount, blocked, srv>> /\ latest' = s
    BY <1>1 DEF Activate, clickVars, historyVars
  <2>4. (\A u \in used: RunOf[u] # RunOf[s]) => clickRun # RunOf[s]
    BY DEF InUse
  <2>5. RunsLeft'
    BY <2>1, <2>2, <2>3, <2>4 DEF ClickInv, RunsLeft
  <2> QED BY <2>3, <2>5 DEF ClickInv, ClicksCounted, BlockedClicksBounded
<1>2. CASE Deactivate
  BY <1>2, ClicksQuiet DEF Deactivate, clickVars, historyVars
<1>3. ASSUME NEW req \in Request, Validate(req) PROVE ClickInv'
  <2>1. /\ UNCHANGED <<clickRun, blockedRunCount, blocked, latest, used>>
        /\ srv'.phase = "validated" /\ srv'.req = req /\ srv'.late = Late(req)
        /\ req.scope \in Scopes
    BY <1>3 DEF Validate, leaseVars, clickVars, historyVars, Request
  <2>2. ~ Late(req) => req.scope = latest
    BY <1>3 DEF Validate, Valid
  <2>3. \A r \in Runs: RunMayCome(r)' => RunMayCome(r)
    BY <2>1, <2>2 DEF RunMayCome, PendingRun
  <2>4. RunsLeft'
    BY <2>1, <2>2, <2>3 DEF ClickInv, RunsLeft
  <2> QED BY <2>1, <2>4 DEF ClickInv, ClicksCounted, BlockedClicksBounded
<1>4. CASE Reserve
  <2>1. srv.phase = "validated" /\ srv.req.scope \in Scopes /\ UNCHANGED <<latest, used>>
        /\ (srv.late => srv.req.kind = "close")
    BY <1>4, InHand DEF Reserve, leaseVars
  <2>2. \/ srv' = Idle
        \/ /\ srv'.phase \in {"revoke", "execute"} /\ srv'.req = srv.req
           /\ ~ ClickExhausted(srv.req)
    <3>1. \/ srv' = Idle
          \/ \E p \in {"revoke", "execute"}:
               srv' = [srv EXCEPT !.phase = p] /\ ~ ClickExhausted(srv.req)
      BY <1>4 DEF Reserve
    <3> QED BY <2>1, <3>1, InHandMoved DEF Phases
  <2>3. CASE srv.req.kind = "viewer"
    <3>1. UNCHANGED <<clickRun, blockedRunCount, blocked>>
      BY <1>4, <2>1, <2>3 DEF Reserve, PrepareClicksFor, Displacing, DisplacesRun, clickVars
    <3>2. \A r \in Runs: RunMayCome(r)' => RunMayCome(r)
      BY <2>1, <2>2 DEF RunMayCome, PendingRun, Idle
    <3>3. RunsLeft'
      BY <2>1, <2>2, <3>1, <3>2 DEF ClickInv, RunsLeft, Idle
    <3> QED BY <2>2, <2>3, <3>1, <3>3 DEF ClickInv, ClicksCounted, BlockedClicksBounded, Idle
  <2>4. CASE srv.req.kind # "viewer"
    <3>1. PrepareClickScope(srv.req.scope) /\ Displacing(srv.req.scope)
      BY <1>4, <2>4 DEF Reserve, PrepareClicksFor
    <3>2. srv'.phase # "validated" BY <2>2 DEF Idle
    <3>3. srv'.phase = "execute" /\ srv'.req.kind = "click"
            => clickRun' = RunOf[srv'.req.scope] /\ blockedRunCount' < MaxRunClicks
      <4>1. RunBlockedIn(srv.req.scope) \in Nat BY DEF RunBlockedIn, TypeOK
      <4> QED BY <2>2, <3>1, <4>1 DEF PrepareClickScope, ClickExhausted, Idle
    <3> QED BY <2>1, <3>1, <3>2, <3>3, ClicksTurned DEF ClickInv
  <2> QED BY <2>3, <2>4
<1>5. CASE ReserveRefused
  <2>1. srv.phase = "validated" /\ srv.req.scope \in Scopes /\ UNCHANGED <<latest, used>>
        /\ (srv.late => srv.req.kind = "close") /\ srv' = Idle
    BY <1>5, InHand DEF ReserveRefused, leaseVars
  <2>2. CASE srv.req.kind = "viewer"
    <3>1. UNCHANGED <<clickRun, blockedRunCount, blocked>>
      BY <1>5, <2>1, <2>2 DEF ReserveRefused, PrepareClicksFor, Displacing, DisplacesRun,
         clickVars
    <3> QED BY <2>1, <3>1, ClicksQuiet DEF Idle
  <2>3. CASE srv.req.kind # "viewer"
    <3>1. PrepareClickScope(srv.req.scope) /\ Displacing(srv.req.scope)
      BY <1>5, <2>3 DEF ReserveRefused, PrepareClicksFor
    <3> QED BY <2>1, <3>1, ClicksTurned DEF ClickInv, Idle
  <2> QED BY <2>2, <2>3
<1>6. CASE RevokeClose
  <2>1. UNCHANGED <<clickRun, blockedRunCount, blocked, latest, used>>
    BY <1>6 DEF RevokeClose, Revoke, RevokeFails, leaseVars, clickVars, historyVars
  <2>2. srv.phase = "revoke" /\ srv.req.kind = "close"
    BY <1>6 DEF RevokeClose, InUse
  <2>3. srv' = Idle \/ (srv'.phase = "execute" /\ srv'.req = srv.req)
    <3>1. srv' = Idle \/ srv' = [srv EXCEPT !.phase = "execute"]
      BY <1>6 DEF RevokeClose
    <3> QED BY <2>2, <3>1, InHandMoved DEF Phases
  <2>4. CASE srv' = Idle
    BY <2>1, <2>4, ClicksQuiet DEF Idle
  <2>5. CASE srv'.phase = "execute" /\ srv'.req = srv.req
    <3>1. \A r \in Runs: RunMayCome(r)' => RunMayCome(r)
      BY <2>1, <2>5 DEF RunMayCome, PendingRun
    <3>2. RunsLeft' BY <2>1, <2>5, <3>1 DEF ClickInv, RunsLeft
    <3> QED BY <2>1, <2>2, <2>5, <3>2 DEF ClickInv, ClicksCounted, BlockedClicksBounded
  <2> QED BY <2>3, <2>4, <2>5
<1>7. ASSUME NEW e \in Engines, ExecuteOk(e) PROVE ClickInv'
  <2>1. UNCHANGED <<clickRun, blockedRunCount, blocked, latest, used>> /\ srv' = Idle
    BY <1>7 DEF ExecuteOk, Executing, AcceptEngine, ResetClickNavigation, leaseVars, clickVars,
       historyVars, TypeOK
  <2> QED BY <2>1, ClicksQuiet DEF Idle
<1>8. ASSUME NEW e \in Engines, ExecuteBlocked(e) PROVE ClickInv'
  <2> DEFINE r == RunOf[srv.req.scope]
  <2>1. /\ clickRun = r /\ blockedRunCount < MaxRunClicks /\ r \in Runs
        /\ srv.phase = "execute"
    BY <1>8, InHand DEF ExecuteBlocked, Executing, ClickInv
  <2>2. clickRun' = clickRun /\ srv' = Idle /\ UNCHANGED <<latest, used>>
    BY <1>8 DEF ExecuteBlocked, Executing, AcceptEngine, clickVars, leaseVars
  <2>3. blocked' = [blocked EXCEPT ![r] = @ + 1]
    BY <1>8 DEF ExecuteBlocked
  <2>4. blockedRunCount' = blockedRunCount + 1
    BY <1>8, Followed DEF ExecuteBlocked, AcceptEngine
  <2>5. RunsLeft'
    <3>1. \A q \in Runs: RunMayCome(q)' => RunMayCome(q)
      BY <2>2 DEF RunMayCome, PendingRun, Idle
    <3> QED BY <2>1, <2>2, <2>3, <3>1 DEF ClickInv, RunsLeft, Idle, TypeOK
  <2>6. ClicksCounted' /\ BlockedClicksBounded'
    BY <2>1, <2>2, <2>3, <2>4 DEF ClickInv, ClicksCounted, BlockedClicksBounded, TypeOK
  <2> QED BY <2>2, <2>5, <2>6 DEF ClickInv, Idle
<1>9. ASSUME NEW e \in Engines, NEW reset \in BOOLEAN, ExecuteFailed(e, reset)
      PROVE ClickInv'
  <2>1. UNCHANGED <<clickRun, blockedRunCount, blocked, latest, used>> /\ srv' = Idle
    BY <1>9 DEF ExecuteFailed, Executing, ResetClickNavigation, leaseVars, clickVars, historyVars
  <2> QED BY <2>1, ClicksQuiet DEF Idle
<1>10. ASSUME NEW e \in Engines, ExecuteChallenge(e) PROVE ClickInv'
  <2>1. srv'.phase = "challenge"
    BY <1>10, InHandMoved DEF ExecuteChallenge, Executing, Phases
  <2> QED BY <1>10, <2>1, ClicksQuiet DEF ExecuteChallenge, Executing, leaseVars, clickVars,
         historyVars
<1>11. ASSUME NEW e \in Engines, CloseChallenge(e) PROVE ClickInv'
  <2>1. UNCHANGED <<clickRun, blockedRunCount, blocked, latest, used>> /\ srv' = Idle
    BY <1>11 DEF CloseChallenge, Revoke, RevokeFails, leaseVars, clickVars
  <2> QED BY <2>1, ClicksQuiet DEF Idle
<1>12. CASE Restart
  BY <1>12 DEF Restart, ClickInv, ClicksCounted, RunsLeft, BlockedClicksBounded,
     NothingBlocked, Idle
<1>13. CASE UNCHANGED vars
  BY <1>13, ClicksQuiet DEF vars, leaseVars, clickVars, historyVars
<1> QED
  BY <1>1, <1>2, <1>3, <1>4, <1>5, <1>6, <1>7, <1>8, <1>9, <1>10, <1>11, <1>12, <1>13
  DEF Next, ExecuteStep

LEMMA ClickInit == Init => ClickInv
BY ScopesAssumption, LimitsAssumption DEF Init, ClickInv, ClicksCounted, RunsLeft,
   BlockedClicksBounded, NothingBlocked, Idle

\* The clicks of a Run the Engine blocked stay within the Run's budget, across
\* its rotations, control epochs and Engine processes.
THEOREM ClicksBounded == Spec => []BlockedClicksBounded
<1>1. ClickInv => BlockedClicksBounded BY DEF ClickInv
<1> QED BY <1>1, ClickInit, ClickStep, TypeCorrect, InUseAlways, EngineAlways, PTL DEF Spec
=============================================================================
