---------------------------- MODULE BrowserLease ----------------------------
(***************************************************************************)
(* The lease that lets one provider Run drive the isolated Browser, and    *)
(* the fencing of everything that still holds an older one.                *)
(*                                                                         *)
(* Three parties share four kinds of owner-only files:                     *)
(*   - the Agent process, whose provider Runs acquire, rotate, pause and   *)
(*     close a browserRunLease (packages/agent-adapters/agentexec);        *)
(*   - the clients it hands out, which keep a snapshot of the per-Run file *)
(*     (packages/browser-runtime/browserclient);                           *)
(*   - the Browser Runtime process, which serves one connection at a time, *)
(*     validates the snapshot against the active file and the revocation   *)
(*     index, and runs the Engine (packages/browser-runtime/browserruntime)*)
(* The Agent writes three files one after the other under a flock that the *)
(* Runtime takes only to revoke; the Runtime reads them without it.        *)
(***************************************************************************)
EXTENDS Integers, Sequences, FiniteSets

CONSTANTS
  Runs,                 \* provider Runs
  Sessions,             \* conversations, one session-state file each
  SessionOf,            \* the conversation a Run belongs to
  None,                 \* no file, no holder, no operation
  HumanControl,         \* ServerOptions.HumanControlAvailable
  CleanupMayFail,       \* Close() may fail to remove a lease file
  Bumps,                \* session epochs one acquire may skip (the code: 0 to 2)
  MaxEpoch,             \* bound: session and control epochs
  MaxAttachments,       \* bound: attachment UUIDs drawn
  MaxQueue,             \* bound: connections waiting in the listen backlog
  MaxRevocations,       \* maxRevocations
  MaxTime,              \* bound: clock ticks
  MaxFaults,            \* bound: I/O operations that fail
  MaxCrashes            \* bound: crashes of either process

ASSUME RunsAssumption == SessionOf \in [Runs -> Sessions]
ASSUME FlagAssumption == HumanControl \in BOOLEAN /\ CleanupMayFail \in BOOLEAN
ASSUME BoundsAssumption ==
  /\ Bumps \subseteq Nat /\ MaxEpoch \in Nat /\ MaxAttachments \in Nat /\ MaxQueue \in Nat
  /\ MaxRevocations \in Nat \ {0}
  /\ MaxTime \in Nat /\ MaxFaults \in Nat /\ MaxCrashes \in Nat

VARIABLES
  now,            \* wall clock
  sessionFile,    \* sessions/<hash>.json: the epochs last persisted
  activeFile,     \* active-lease.json, or None
  runFile,        \* runs/<run>.json, or None
  revocations,    \* revoked-leases.v1.json
  authority,      \* holder of .browser-lease-authority.lock
  rootLock,       \* Run holding the in-process lock of the lease root
  lease,          \* browserRunLease of each Run, or None
  op,             \* the persist() in progress, or None
  pc,             \* per Run: provider Run, human-control loop, tool call
  delegate,       \* client snapshot the MCP broker of each Run holds
  queue,          \* requests connected but not yet accepted
  srv,            \* the connection being handled
  owner,          \* activeBrowserProfile.owner of the Engine, or None
  attachments,    \* attachment UUIDs drawn so far
  executed,       \* history: identity of the last operation the page saw
  everRevoked,    \* history: identities whose closure was made durable
  faults, crashes \* budget spent

agentVars  == <<rootLock, lease, op, pc, delegate, attachments>>
fileVars   == <<sessionFile, activeFile, runFile>>
serverVars == <<revocations, srv, owner, executed, everRevoked>>
envVars    == <<now, faults, crashes>>
vars == <<agentVars, fileVars, serverVars, envVars, authority, queue>>

(***************************************************************************)
(* Identities, leases and requests.                                        *)
(***************************************************************************)
Controllers == {"agent", "none", "human"}
Threads == {"main", "control", "tool"}
Kinds == {"act", "preflight", "close", "enter", "input", "exit"}
ViewerKinds == {"enter", "input", "exit"}

Identity == [run: Runs, session: Sessions, sessionEpoch: 1..MaxEpoch,
             attachment: 1..MaxAttachments, controlEpoch: 1..MaxEpoch,
             controller: Controllers]

Lease == [id: Identity, expiresAt: 1..(MaxTime + 1)]
Holder == [id: Identity, expiresAt: 1..(MaxTime + 1),
           used: BOOLEAN, selected: BOOLEAN, closed: BOOLEAN]
Request == [kind: Kinds, id: Identity, thread: Threads]

MainPcs == {"idle", "preflight", "preflightWait", "preflightOk", "preflightFailed",
            "running", "rotating", "closing", "fromNone", "fromHuman", "toAgent", "closeSend", "closeWait",
            "fence", "fencing", "leaseClose", "done"}
ControlPcs == {"off", "idle", "claiming", "enter", "viewerWait", "exitWait",
               "exited", "releasing", "resuming", "resumed", "closing", "fromNone", "fromHuman", "toAgent",
               "closeSend", "closeWait", "leaseClose", "terminated"}
ToolPcs == {"idle", "challenged", "pausing", "paused"}
ServerPcs == {"idle", "revoke", "remove", "execute",
              "challengeRevoke", "challengeRemove", "challengeClose"}
PcsOf(t) == CASE t = "main" -> MainPcs [] t = "control" -> ControlPcs [] t = "tool" -> ToolPcs

\* A persist() on its way: whose, on which thread, what for, and how far it is.
Operation == [run: Runs, thread: Threads, kind: {"acquire", "rotate", "transition"},
              step: {"lock", "state", "active", "run"}, undo: Identity,
              okPc: MainPcs \union ControlPcs \union ToolPcs,
              failPc: MainPcs \union ControlPcs \union ToolPcs]

ASSUME NoneAssumption ==
  None \notin Runs \union Identity \union Lease \union Holder \union Request \union Operation

\* browserIdentityHash: everything but the controller.
Hash(id) == <<id.run, id.session, id.sessionEpoch, id.attachment, id.controlEpoch>>
Hashes == Runs \X Sessions \X (1..MaxEpoch) \X (1..MaxAttachments) \X (1..MaxEpoch)

SameButControl(a, b) ==
  /\ a.run = b.run /\ a.session = b.session
  /\ a.sessionEpoch = b.sessionEpoch /\ a.attachment = b.attachment

SameActiveAttachment(a, b) == SameButControl(a, b) /\ a.controlEpoch = b.controlEpoch

Expired(l) == l.expiresAt <= now

(***************************************************************************)
(* The revocation index.                                                   *)
(***************************************************************************)
\* readRevocations: an entry lives until the lease it closes expires.
Retained == {entry \in revocations: ~ Expired(entry)}

IsRevoked(id) == \E entry \in Retained: entry.hash = Hash(id)

Closure(id, expiresAt) == [hash |-> Hash(id), revokedAt |-> now, expiresAt |-> expiresAt]

\* olderRevocation; among entries of one instant the hash decides, which says
\* nothing about them.
Oldest == {entry \in Retained: \A other \in Retained: entry.revokedAt <= other.revokedAt}

\* Mutant: at the limit the new entry is the one that is dropped.
WithRevocationFull(id, expiresAt) ==
  IF Cardinality(Retained) >= MaxRevocations THEN {Retained}
  ELSE {Retained \union {Closure(id, expiresAt)}}

\* Revoke: drop the oldest entry at the limit, then add this one.
WithRevocation(id, expiresAt) ==
  LET kept == IF Cardinality(Retained) >= MaxRevocations
              THEN {Retained \ {entry}: entry \in Oldest} ELSE {Retained}
  IN  {entries \union {Closure(id, expiresAt)}: entries \in kept}

(***************************************************************************)
(* FileLease.Validate: revocation first, then the active file.             *)
(***************************************************************************)
\* Mutant: the control epoch is not compared.
ActiveVerdictAnyEpoch(id) ==
  CASE activeFile = None                  -> "unavailable"
    [] activeFile # None /\ Expired(activeFile) -> "expired"
    [] OTHER -> IF SameButControl(activeFile.id, id)
                   /\ activeFile.id.controller = id.controller
                THEN "ok" ELSE "mismatch"

\* Mutant: any lease of the same Run and conversation will do.
ActiveVerdictOfRun(id) ==
  CASE activeFile = None                  -> "unavailable"
    [] activeFile # None /\ Expired(activeFile) -> "expired"
    [] OTHER -> IF activeFile.id.run = id.run /\ activeFile.id.session = id.session
                THEN "ok" ELSE "mismatch"

ActiveVerdict(id) ==
  CASE activeFile = None                  -> "unavailable"
    [] activeFile # None /\ Expired(activeFile) -> "expired"
    [] OTHER ->
         IF ~ SameButControl(activeFile.id, id) THEN "mismatch"
         ELSE IF activeFile.id.controlEpoch # id.controlEpoch THEN "stale"
         ELSE IF activeFile.id.controller # id.controller THEN "mismatch"
         ELSE "ok"

\* Mutant: the revocation index is not read.
ValidateActiveOnly(id) == ActiveVerdict(id)

Validate(id) == IF IsRevoked(id) THEN "mismatch" ELSE ActiveVerdict(id)

(***************************************************************************)
(* Initial state: no Agent has run yet, the Runtime is up and idle.        *)
(***************************************************************************)
IdleServer == [pc |-> "idle", req |-> None]

Init ==
  /\ now = 0
  /\ sessionFile = [s \in Sessions |-> [sessionEpoch |-> 0, controlEpoch |-> 0]]
  /\ activeFile = None
  /\ runFile = [r \in Runs |-> None]
  /\ revocations = {}
  /\ authority = "free"
  /\ rootLock = None
  /\ lease = [r \in Runs |-> None]
  /\ op = None
  /\ pc = [r \in Runs |-> [main |-> "idle", control |-> "off", tool |-> "idle"]]
  /\ delegate = [r \in Runs |-> None]
  /\ queue = <<>>
  /\ srv = IdleServer
  /\ owner = None
  /\ attachments = 0
  /\ executed = None
  /\ everRevoked = {}
  /\ faults = 0
  /\ crashes = 0

(***************************************************************************)
(* persist(): the session state, the active lease and the per-Run lease,   *)
(* in that order, under the authority lock. A transition undoes its change *)
(* in memory when any of the three fails; acquire and Rotate do not.       *)
(***************************************************************************)
\* lease.mu is held for the whole of persist(): nobody else touches lease r.
LeaseFree(r) == op # None => op.run # r

\* The caller has changed lease r in memory and waits for the flock.
StartPersist(r, t, kind, id, okPc, failPc) ==
  /\ op = None
  /\ lease' = [lease EXCEPT ![r].id = id]
  /\ op' = [run |-> r, thread |-> t, kind |-> kind, step |-> "lock",
            undo |-> lease[r].id, okPc |-> okPc, failPc |-> failPc]

LockPersist ==
  /\ op # None /\ op.step = "lock" /\ authority = "free"
  /\ authority' = "agent"
  /\ op' = [op EXCEPT !.step = "state"]
  /\ UNCHANGED <<rootLock, lease, pc, delegate, attachments, fileVars,
                 serverVars, envVars, queue>>

\* The value persist() writes to the active and the per-Run file.
Envelope(r) == [id |-> lease[r].id, expiresAt |-> lease[r].expiresAt]
StateOf(id) == [sessionEpoch |-> id.sessionEpoch, controlEpoch |-> id.controlEpoch]

\* Mutant: the session state is persisted after the leases that carry it.
WriteStepStateLast ==
  CASE op.step = "state" ->
         /\ activeFile' = Envelope(op.run)
         /\ UNCHANGED <<sessionFile, runFile>>
    [] op.step = "active" ->
         /\ runFile' = [runFile EXCEPT ![op.run] = Envelope(op.run)]
         /\ UNCHANGED <<sessionFile, activeFile>>
    [] op.step = "run" ->
         /\ sessionFile' = [sessionFile EXCEPT
                              ![lease[op.run].id.session] = StateOf(lease[op.run].id)]
         /\ UNCHANGED <<activeFile, runFile>>

WriteStep ==
  CASE op.step = "state" ->
         /\ sessionFile' = [sessionFile EXCEPT
                              ![lease[op.run].id.session] = StateOf(lease[op.run].id)]
         /\ UNCHANGED <<activeFile, runFile>>
    [] op.step = "active" ->
         /\ activeFile' = Envelope(op.run)
         /\ UNCHANGED <<sessionFile, runFile>>
    [] op.step = "run" ->
         /\ runFile' = [runFile EXCEPT ![op.run] = Envelope(op.run)]
         /\ UNCHANGED <<sessionFile, activeFile>>

\* One atomic replacement succeeds.
PersistWrite ==
  /\ op # None /\ op.step \in {"state", "active"}
  /\ WriteStep
  /\ op' = [op EXCEPT !.step = IF @ = "state" THEN "active" ELSE "run"]
  /\ UNCHANGED <<rootLock, lease, pc, delegate, attachments, serverVars,
                 envVars, authority, queue>>

PersistDone ==
  /\ op # None /\ op.step = "run"
  /\ WriteStep
  /\ op' = None
  /\ authority' = "free"
  /\ pc' = [pc EXCEPT ![op.run][op.thread] = op.okPc]
  /\ UNCHANGED <<rootLock, lease, delegate, attachments, serverVars, envVars, queue>>

\* A replacement fails, with the new file in place or not. After the last one
\* removeActiveIfCurrent takes the active file back, unless that fails too.
PersistFail(replaced, kept) ==
  /\ op # None
  /\ faults < MaxFaults
  /\ op.step = "lock" => ~ replaced
  /\ kept => op.step = "run" /\ faults + 1 < MaxFaults
  /\ faults' = IF kept THEN faults + 2 ELSE faults + 1
  /\ IF replaced /\ op.step # "run"
     THEN WriteStep
     ELSE /\ UNCHANGED sessionFile
          /\ runFile' = IF replaced THEN [runFile EXCEPT ![op.run] = Envelope(op.run)]
                        ELSE runFile
          /\ activeFile' = IF op.step = "run" /\ ~ kept THEN None ELSE activeFile
  /\ lease' = [lease EXCEPT ![op.run] =
                 CASE op.kind = "transition" -> [@ EXCEPT !.id = op.undo]
                   [] op.kind = "rotate"     -> @
                   [] op.kind = "acquire"    -> None]
  /\ rootLock' = IF op.kind = "acquire" THEN None ELSE rootLock
  /\ pc' = [pc EXCEPT ![op.run][op.thread] = op.failPc]
  /\ op' = None
  /\ authority' = IF op.step = "lock" THEN authority ELSE "free"
  /\ UNCHANGED <<delegate, attachments, serverVars, now, crashes, queue>>

(***************************************************************************)
(* acquireBrowserRunLease.                                                 *)
(***************************************************************************)
\* Mutant: the control epoch is not raised.
SameControlEpoch(s) == sessionFile[s].controlEpoch

NextControlEpoch(s) == sessionFile[s].controlEpoch + 1

\* A state file of version 1, another Runtime session or another policy each
\* raise the session epoch; a new conversation starts at 1.
Acquire(r, bump, expiresAt) ==
  LET s == SessionOf[r]
      epoch == IF sessionFile[s].sessionEpoch = 0 THEN 1
               ELSE sessionFile[s].sessionEpoch + bump
      id == [run |-> r, session |-> s, sessionEpoch |-> epoch,
             attachment |-> attachments + 1,
             controlEpoch |-> NextControlEpoch(s),
             controller |-> "agent"]
  IN /\ pc[r].main = "idle" /\ rootLock = None /\ op = None
     /\ attachments < MaxAttachments
     /\ id.controlEpoch <= MaxEpoch /\ epoch <= MaxEpoch
     /\ expiresAt > now
     /\ rootLock' = r
     /\ attachments' = attachments + 1
     /\ lease' = [lease EXCEPT ![r] = [id |-> id, expiresAt |-> expiresAt,
                    used |-> FALSE, selected |-> FALSE, closed |-> FALSE]]
     /\ op' = [run |-> r, thread |-> "main", kind |-> "acquire", step |-> "lock",
               undo |-> id, okPc |-> "preflight", failPc |-> "done"]
     /\ UNCHANGED <<pc, delegate, fileVars, serverVars, envVars, authority, queue>>

(***************************************************************************)
(* Clients: New() reads the per-Run file, Execute() sends one request.     *)
(***************************************************************************)
CanSnapshot(r) == runFile[r] # None /\ ~ Expired(runFile[r])

Send(request) ==
  /\ Len(queue) < MaxQueue
  /\ queue' = Append(queue, request)

\* browserClient() inside preflightBrowserRuntimeMode, or its failure.
SendPreflight(r) ==
  /\ pc[r].main = "preflight" /\ LeaseFree(r) /\ ~ lease[r].closed
  /\ CanSnapshot(r)
  /\ lease' = [lease EXCEPT ![r].used = TRUE, ![r].selected = FALSE]
  /\ Send([kind |-> "preflight", id |-> runFile[r].id, thread |-> "main"])
  /\ pc' = [pc EXCEPT ![r].main = "preflightWait"]
  /\ UNCHANGED <<rootLock, op, delegate, attachments, fileVars, serverVars,
                 envVars, authority>>

\* The lease is closed, its file is missing or expired, or nobody listens.
PreflightUnsent(r) ==
  /\ pc[r].main = "preflight" /\ LeaseFree(r)
  /\ lease' = [lease EXCEPT ![r].used = @ \/ ~ lease[r].closed, ![r].selected = FALSE]
  /\ pc' = [pc EXCEPT ![r].main = "closing"]
  /\ UNCHANGED <<rootLock, op, delegate, attachments, fileVars, serverVars,
                 envVars, authority, queue>>

PreflightSettled(r) ==
  /\ pc[r].main \in {"preflightOk", "preflightFailed"} /\ LeaseFree(r)
  /\ lease' = [lease EXCEPT ![r].selected = (pc[r].main = "preflightOk")]
  /\ pc' = IF pc[r].main = "preflightOk"
           THEN [pc EXCEPT ![r].main = "running",      \* go humanControl.run(ctx)
                           ![r].control = IF @ = "off" THEN "idle" ELSE @]
           ELSE [pc EXCEPT ![r].main = "closing"]
  /\ UNCHANGED <<rootLock, op, delegate, attachments, fileVars, serverVars,
                 envVars, authority, queue>>

\* The MCP server asks the broker for an executor on a new connection; a call
\* that resumes after human control takes one screenshot the same way.
TakeDelegate(r) ==
  /\ pc[r].main = "running" /\ LeaseFree(r) /\ ~ lease[r].closed
  /\ CanSnapshot(r) /\ delegate[r] # runFile[r]
  /\ lease' = [lease EXCEPT ![r].used = TRUE]
  /\ delegate' = [delegate EXCEPT ![r] = runFile[r]]
  /\ UNCHANGED <<rootLock, op, pc, attachments, fileVars, serverVars, envVars,
                 authority, queue>>

\* A tool call: any action, or the close the Agent may also ask for.
ToolCall(r, kind) ==
  /\ pc[r].main = "running" /\ delegate[r] # None /\ ~ Expired(delegate[r])
  /\ Send([kind |-> kind, id |-> delegate[r].id, thread |-> "tool"])
  /\ UNCHANGED <<agentVars, fileVars, serverVars, envVars, authority>>

(***************************************************************************)
(* Rotate: a new attachment under a higher session and control epoch, not  *)
(* taken back in memory when it cannot be persisted.                       *)
(***************************************************************************)
Rotated(id) == [id EXCEPT !.sessionEpoch = @ + 1, !.controlEpoch = @ + 1,
                          !.controller = "agent", !.attachment = attachments + 1]

\* At a bound no attachment UUID is drawn and Rotate fails without a change.
CanRotate(r) ==
  /\ ~ lease[r].closed
  /\ attachments < MaxAttachments
  /\ lease[r].id.sessionEpoch < MaxEpoch /\ lease[r].id.controlEpoch < MaxEpoch

StartRotate(r, okPc, failPc) ==
  /\ LeaseFree(r) /\ CanRotate(r)
  /\ attachments' = attachments + 1
  /\ StartPersist(r, "main", "rotate", Rotated(lease[r].id), okPc, failPc)

\* The provider recovers its session: run.Browser.Rotate, then repreflight;
\* a failure of either ends the provider Run.
RotateRun(r) ==
  /\ pc[r].main = "running"
  /\ StartRotate(r, "preflight", "closing")
  /\ pc' = [pc EXCEPT ![r].main = "rotating"]
  /\ UNCHANGED <<rootLock, delegate, fileVars, serverVars, envVars, authority, queue>>

(***************************************************************************)
(* transitionController: one control epoch up, under another controller.   *)
(***************************************************************************)
\* Mutant: a closed lease still changes hands.
CanTransitionClosed(r, expected) ==
  /\ lease[r].id.controller = expected
  /\ lease[r].id.controlEpoch < MaxEpoch

CanTransition(r, expected) ==
  /\ ~ lease[r].closed
  /\ lease[r].id.controller = expected
  /\ lease[r].id.controlEpoch < MaxEpoch

StartTransition(r, t, expected, next, okPc, failPc) ==
  /\ LeaseFree(r) /\ CanTransition(r, expected)
  /\ StartPersist(r, t, "transition",
       [lease[r].id EXCEPT !.controlEpoch = @ + 1, !.controller = next],
       okPc, failPc)

\* pauseAndWait on BROWSER_CHALLENGE_REQUIRED; "paused" is control.paused, which
\* a cancelled wait leaves set.  The code sets it before lease.Pause(); the lease
\* is still the agent's then, so of the commands only a terminate gets through,
\* and it closes the lease, which PauseRefused finds.
Pause(r) ==
  /\ pc[r].tool = "challenged" /\ lease[r] # None
  /\ StartTransition(r, "tool", "agent", "none", "paused", "idle")
  /\ pc' = [pc EXCEPT ![r].tool = "pausing"]
  /\ UNCHANGED <<rootLock, delegate, attachments, fileVars, serverVars,
                 envVars, authority, queue>>

PauseRefused(r) ==
  /\ pc[r].tool = "challenged" /\ lease[r] # None /\ LeaseFree(r)
  /\ ~ CanTransition(r, "agent")
  /\ pc' = [pc EXCEPT ![r].tool = "idle"]
  /\ UNCHANGED <<rootLock, lease, op, delegate, attachments, fileVars, serverVars,
                 envVars, authority, queue>>

\* The command loop of the human-control goroutine takes one command at a time.
Commandable(r) == pc[r].control = "idle" /\ lease[r] # None /\ LeaseFree(r)

Claim(r) ==
  /\ Commandable(r)
  /\ StartTransition(r, "control", "none", "human", "enter", "idle")
  /\ pc' = [pc EXCEPT ![r].control = "claiming"]
  /\ UNCHANGED <<rootLock, delegate, attachments, fileVars, serverVars,
                 envVars, authority, queue>>

\* viewerClient() and one Viewer request; whatever Enter answers, control stays
\* with the human.
SendViewer(r, kind, wait) ==
  /\ LeaseFree(r) /\ ~ lease[r].closed /\ CanSnapshot(r)
  /\ runFile[r].id.controller = "human"      \* ViewerRequest.Validate in the client
  /\ lease' = [lease EXCEPT ![r].used = TRUE]
  /\ Send([kind |-> kind, id |-> runFile[r].id, thread |-> "control"])
  /\ pc' = [pc EXCEPT ![r].control = wait]
  /\ UNCHANGED <<rootLock, op, delegate, attachments, fileVars, serverVars,
                 envVars, authority>>

Enter(r) == pc[r].control = "enter" /\ SendViewer(r, "enter", "viewerWait")
Input(r) == Commandable(r) /\ SendViewer(r, "input", "viewerWait")
Release(r) == Commandable(r) /\ SendViewer(r, "exit", "exitWait")

\* No client, no longer human in the lease file, or nobody listens.
EnterUnsent(r) ==
  /\ pc[r].control = "enter" /\ lease[r] # None /\ LeaseFree(r)
  /\ pc' = [pc EXCEPT ![r].control = "idle"]
  /\ lease' = [lease EXCEPT ![r].used = @ \/ ~ lease[r].closed]
  /\ UNCHANGED <<rootLock, op, delegate, attachments, fileVars, serverVars,
                 envVars, authority, queue>>

\* release() after a successful Exit; the transition may find another controller.
Released(r) ==
  /\ pc[r].control = "exited" /\ lease[r] # None /\ LeaseFree(r)
  /\ IF CanTransition(r, "human")
     THEN /\ StartTransition(r, "control", "human", "none", "idle", "idle")
          /\ pc' = [pc EXCEPT ![r].control = "releasing"]
     ELSE /\ pc' = [pc EXCEPT ![r].control = "idle"]
          /\ UNCHANGED <<lease, op>>
  /\ UNCHANGED <<rootLock, delegate, attachments, fileVars, serverVars,
                 envVars, authority, queue>>

Resume(r) ==
  /\ Commandable(r)
  /\ StartTransition(r, "control", "none", "agent", "resumed", "idle")
  /\ pc' = [pc EXCEPT ![r].control = "resuming"]
  /\ UNCHANGED <<rootLock, delegate, attachments, fileVars, serverVars,
                 envVars, authority, queue>>

\* resume() and terminate() wake the paused tool call.
Wake(r) ==
  /\ pc[r].control \in {"resumed", "terminated"}
  /\ pc' = [pc EXCEPT ![r].control = "idle",
                      ![r].tool = IF @ = "paused" THEN "idle" ELSE @]
  /\ UNCHANGED <<rootLock, lease, op, delegate, attachments, fileVars, serverVars,
                 envVars, authority, queue>>

(***************************************************************************)
(* closeBrowserRuntime, run by the provider Run ("main") when it ends and  *)
(* by terminate() ("control"); the Run fences a failure with Rotate, and   *)
(* both then close the lease.                                              *)
(***************************************************************************)
\* Mutant: a failed close is sent again.
AfterFailureRetry(t) == "closeSend"

AfterFailure(t) == IF t = "main" THEN "fence" ELSE "leaseClose"

\* The base provider returns, or a terminate command arrives.
EndRun(r) ==
  /\ pc[r].main = "running"
  /\ pc' = [pc EXCEPT ![r].main = "closing"]
  /\ UNCHANGED <<rootLock, lease, op, delegate, attachments, fileVars, serverVars,
                 envVars, authority, queue>>

Terminate(r) ==
  /\ Commandable(r) /\ ~ lease[r].closed
  /\ pc' = [pc EXCEPT ![r].control = "closing"]
  /\ UNCHANGED <<rootLock, lease, op, delegate, attachments, fileVars, serverVars,
                 envVars, authority, queue>>

\* A Run closes its broker first. The guards of closeBrowserRuntime, and the
\* identity it goes by from then on: the lease is unlocked in between.
BeginClose(r, t) ==
  /\ pc[r][t] = "closing" /\ LeaseFree(r)
  /\ delegate' = IF t = "main" THEN [delegate EXCEPT ![r] = None] ELSE delegate
  /\ pc' = [pc EXCEPT ![r][t] =
              IF ~ lease[r].used \/ lease[r].closed \/ ~ lease[r].selected
              THEN "leaseClose"
              ELSE CASE lease[r].id.controller = "agent" -> "closeSend"
                     [] lease[r].id.controller = "none"  -> "fromNone"
                     [] lease[r].id.controller = "human" -> "fromHuman"]
  /\ UNCHANGED <<rootLock, lease, op, attachments, fileVars, serverVars,
                 envVars, authority, queue>>

\* Control returns to the agent, unless the controller is another one by now.
ReturnToAgent(r, t) ==
  LET expected == IF pc[r][t] = "fromNone" THEN "none" ELSE "human"
  IN /\ pc[r][t] \in {"fromNone", "fromHuman"} /\ LeaseFree(r)
     /\ IF CanTransition(r, expected)
        THEN /\ StartTransition(r, t, expected, "agent", "closeSend", AfterFailure(t))
             /\ pc' = [pc EXCEPT ![r][t] = "toAgent"]
        ELSE /\ pc' = [pc EXCEPT ![r][t] = AfterFailure(t)]
             /\ UNCHANGED <<lease, op>>
     /\ UNCHANGED <<rootLock, delegate, attachments, fileVars, serverVars,
                    envVars, authority, queue>>

CloseSend(r, t) ==
  /\ pc[r][t] = "closeSend"
  /\ IF CanSnapshot(r)
     THEN /\ Send([kind |-> "close", id |-> runFile[r].id, thread |-> t])
          /\ pc' = [pc EXCEPT ![r][t] = "closeWait"]
     ELSE /\ pc' = [pc EXCEPT ![r][t] = AfterFailure(t)]
          /\ UNCHANGED queue
  /\ UNCHANGED <<rootLock, lease, op, delegate, attachments, fileVars, serverVars,
                 envVars, authority>>

\* No connection, or no answer before the deadline and its grace: the outcome
\* is unknown.
Waiting == [main    |-> {"preflightWait", "closeSend", "closeWait"},
            control |-> {"viewerWait", "exitWait", "closeSend", "closeWait"},
            tool    |-> {}]

AfterTimeout(t, at) ==
  CASE at = "preflightWait" -> "preflightFailed"
    [] at \in {"closeSend", "closeWait"} -> AfterFailure(t)
    [] OTHER -> "idle"

Timeout(r, t) ==
  /\ pc[r][t] \in Waiting[t]
  /\ pc' = [pc EXCEPT ![r][t] = AfterTimeout(t, @)]
  /\ UNCHANGED <<rootLock, lease, op, delegate, attachments, fileVars, serverVars,
                 envVars, authority, queue>>

\* closeBrowserRuntimeWithFailureFence.
Fence(r) ==
  /\ pc[r].main = "fence" /\ LeaseFree(r)
  /\ IF CanRotate(r)
     THEN /\ StartRotate(r, "leaseClose", "leaseClose")
          /\ pc' = [pc EXCEPT ![r].main = "fencing"]
     ELSE /\ pc' = [pc EXCEPT ![r].main = "leaseClose"]
          /\ UNCHANGED <<lease, op, attachments>>
  /\ UNCHANGED <<rootLock, delegate, fileVars, serverVars, envVars, authority, queue>>

AfterLeaseClose(t) == IF t = "main" THEN "done" ELSE "terminated"

\* browserRunLease.Close: both removals under the flock; the root lock is
\* released whether or not they succeed, `closed` is set only when they do.
LeaseClose(r, t, runRemoved, activeRemoved) ==
  LET ours == activeFile # None /\ activeFile.id = lease[r].id
      clean == runRemoved /\ activeRemoved
  IN /\ pc[r][t] = "leaseClose" /\ LeaseFree(r)
     /\ IF lease[r].closed
        THEN /\ clean
             /\ UNCHANGED <<runFile, activeFile, lease, rootLock>>
        ELSE /\ authority = "free"
             /\ clean \/ CleanupMayFail
             /\ ~ activeRemoved => ours
             /\ runFile' = IF runRemoved THEN [runFile EXCEPT ![r] = None] ELSE runFile
             /\ activeFile' = IF ours /\ activeRemoved THEN None ELSE activeFile
             /\ lease' = [lease EXCEPT ![r].closed = clean]
             /\ rootLock' = IF rootLock = r THEN None ELSE rootLock
     /\ pc' = [pc EXCEPT ![r][t] = AfterLeaseClose(t)]
     /\ UNCHANGED <<op, delegate, attachments, sessionFile, serverVars, envVars,
                    authority, queue>>

(***************************************************************************)
(* The Runtime: Server.handleConnection and handleViewerConnection, one    *)
(* connection at a time.                                                   *)
(***************************************************************************)
\* The answer reaches the goroutine that still waits for this request.
AfterReply(t, kind, result) ==
  CASE kind = "preflight" -> IF result = "ok" THEN "preflightOk" ELSE "preflightFailed"
    [] kind = "close" -> IF result \in {"ok", "mismatch", "stale"} THEN "leaseClose"
                         ELSE AfterFailure(t)
    [] kind = "exit" -> IF result = "ok" THEN "exited" ELSE "idle"
    [] OTHER -> "idle"

WaitsFor(r, t, kind) ==
  pc[r][t] = CASE kind = "preflight" -> "preflightWait"
               [] kind = "close" -> "closeWait"
               [] kind = "exit" -> "exitWait"
               [] OTHER -> "viewerWait"

Reply(req, result) ==
  pc' = IF req.thread = "tool"
        THEN IF result = "challenge" /\ delegate[req.id.run] # None
                  /\ pc[req.id.run].tool = "idle"
             THEN [pc EXCEPT ![req.id.run].tool = "challenged"] ELSE pc
        ELSE IF WaitsFor(req.id.run, req.thread, req.kind)
             THEN [pc EXCEPT ![req.id.run][req.thread] =
                                AfterReply(req.thread, req.kind, result)]
             ELSE pc

serverFrame == <<rootLock, lease, op, delegate, attachments, sessionFile, runFile>>

\* A close of a revoked identity is a retry and skips the validation.
Retry(req) == req.kind = "close" /\ IsRevoked(req.id)

Admit ==
  LET req == Head(queue) IN
  /\ srv.pc = "idle" /\ queue # <<>>
  /\ Retry(req) \/ Validate(req.id) = "ok"
  /\ queue' = Tail(queue)
  /\ srv' = [pc |-> IF req.kind = "close" /\ ~ IsRevoked(req.id) THEN "revoke" ELSE "execute",
             req |-> req]
  /\ UNCHANGED <<serverFrame, pc, activeFile, revocations, owner, executed,
                 everRevoked, envVars, authority>>

\* Refused by the lease, or by the deadline or a request limit.
Refuse(reason) ==
  LET req == Head(queue) IN
  /\ srv.pc = "idle" /\ queue # <<>>
  /\ reason = "limit" \/ (~ Retry(req) /\ Validate(req.id) = reason /\ reason # "ok")
  /\ queue' = Tail(queue)
  /\ Reply(req, reason)
  /\ UNCHANGED <<serverFrame, activeFile, serverVars, envVars, authority>>

\* Revoke, under the flock: a new closure is granted to the active identity
\* only. The index may not be replaced; one replaced although the write reports
\* a failure is RevokeRemove(FALSE).
Revoke ==
  LET id == srv.req.id
      closing == srv.pc = "revoke"
      verdict == ActiveVerdict(id)
      Refused(reason) ==
        /\ Reply(srv.req, reason) /\ srv' = IdleServer
        /\ UNCHANGED <<revocations, everRevoked, authority>>
  IN /\ srv.pc \in {"revoke", "challengeRevoke"} /\ authority = "free"
     /\ \/ /\ IsRevoked(id)
           /\ srv' = [srv EXCEPT !.pc = IF closing THEN "execute" ELSE "challengeClose"]
           /\ UNCHANGED <<pc, revocations, everRevoked, authority, faults>>
        \/ /\ ~ IsRevoked(id) /\ verdict = "ok"
           /\ revocations' \in WithRevocation(id, activeFile.expiresAt)
           /\ everRevoked' = everRevoked \union {Hash(id)}
           /\ authority' = "runtime"
           /\ srv' = [srv EXCEPT !.pc = IF closing THEN "remove" ELSE "challengeRemove"]
           /\ UNCHANGED <<pc, faults>>
        \/ /\ ~ IsRevoked(id) /\ verdict # "ok"
           /\ Refused(verdict)
           /\ UNCHANGED faults
        \/ /\ ~ IsRevoked(id) /\ verdict = "ok" /\ faults < MaxFaults
           /\ Refused("failed")
           /\ faults' = faults + 1
     /\ UNCHANGED <<serverFrame, activeFile, owner, executed, now, crashes, queue>>

\* os.Remove of the active lease ends Revoke; a failure is answered at once.
RevokeRemove(removed) ==
  /\ srv.pc \in {"remove", "challengeRemove"}
  /\ removed \/ faults < MaxFaults
  /\ faults' = IF removed THEN faults ELSE faults + 1
  /\ activeFile' = IF removed THEN None ELSE activeFile
  /\ authority' = "free"
  /\ IF removed
     THEN /\ srv' = [srv EXCEPT !.pc = IF @ = "remove" THEN "execute" ELSE "challengeClose"]
          /\ UNCHANGED pc
     ELSE /\ Reply(srv.req, "failed")
          /\ srv' = IdleServer
  /\ UNCHANGED <<serverFrame, revocations, owner, executed, everRevoked, now,
                 crashes, queue>>

(***************************************************************************)
(* ProfileEngine.Execute and ExecuteViewer, reduced to who owns the page.  *)
(***************************************************************************)
\* activate() rebinds the page to the caller, or fails with the page as it was
\* or let go of; the Engine process then refuses an action that does not carry
\* agent control.
ExecuteAct(result) ==
  /\ srv.pc = "execute" /\ srv.req.kind \in {"act", "preflight"}
  /\ result = "challenge" => srv.req.kind = "act"
  /\ result # "failed" => srv.req.id.controller = "agent"
  /\ \/ /\ owner' = srv.req.id
        /\ executed' = IF srv.req.id.controller = "agent" THEN srv.req.id ELSE executed
     \/ /\ result = "failed"
        /\ owner' \in {owner, None}
        /\ UNCHANGED executed
  /\ IF result = "challenge" /\ ~ HumanControl
     THEN srv' = [srv EXCEPT !.pc = "challengeRevoke"] /\ UNCHANGED pc
     ELSE srv' = IdleServer /\ Reply(srv.req, result)
  /\ UNCHANGED <<serverFrame, activeFile, revocations, everRevoked, envVars,
                 authority, queue>>

\* Mutant: the page belongs to an older control epoch only.
OwnedByOlder(id) ==
  owner # None /\ SameButControl(owner, id) /\ owner.controlEpoch < id.controlEpoch

OwnedBy(id) == owner # None /\ SameActiveAttachment(owner, id)

\* Checkpoint and tear down, if the caller owns the page; a failed checkpoint
\* leaves it in place.
ExecuteClose(result) ==
  /\ srv.pc = "execute" /\ srv.req.kind = "close"
  /\ ~ OwnedBy(srv.req.id) => result = "ok"
  /\ owner' = IF OwnedBy(srv.req.id) /\ result = "ok" THEN None ELSE owner
  /\ srv' = IdleServer
  /\ Reply(srv.req, result)
  /\ UNCHANGED <<serverFrame, activeFile, revocations, executed, everRevoked,
                 envVars, authority, queue>>

\* closeRequiredChallenge: the close runs after the revocation, its result is
\* ignored and the challenge is answered.
ChallengeClose(closed) ==
  /\ srv.pc = "challengeClose"
  /\ owner' = IF OwnedBy(srv.req.id) /\ closed THEN None ELSE owner
  /\ srv' = IdleServer
  /\ Reply(srv.req, "failed")
  /\ UNCHANGED <<serverFrame, activeFile, revocations, executed, everRevoked,
                 envVars, authority, queue>>

ViewerAllowed(req) ==
  /\ owner # None /\ SameButControl(owner, req.id)
  /\ IF req.kind = "enter" THEN req.id.controlEpoch > owner.controlEpoch
     ELSE req.id.controlEpoch = owner.controlEpoch

\* controlState of the Engine process: the human who entered goes on, nobody
\* else does.
PageAllows(req) == req.kind = "enter" \/ executed = req.id

ExecuteViewer(result) ==
  /\ srv.pc = "execute" /\ srv.req.kind \in ViewerKinds
  /\ ~ ViewerAllowed(srv.req) \/ ~ PageAllows(srv.req) => result = "failed"
  /\ owner' = IF ViewerAllowed(srv.req) THEN srv.req.id ELSE owner
  /\ executed' = IF ViewerAllowed(srv.req) /\ PageAllows(srv.req) THEN srv.req.id
                 ELSE executed
  /\ srv' = IdleServer
  /\ Reply(srv.req, result)
  /\ UNCHANGED <<serverFrame, activeFile, revocations, everRevoked, envVars,
                 authority, queue>>

(***************************************************************************)
(* Time and crashes. The kernel drops a flock with its holder.             *)
(***************************************************************************)
Tick ==
  /\ now < MaxTime
  /\ now' = now + 1
  /\ UNCHANGED <<agentVars, fileVars, serverVars, faults, crashes, authority, queue>>

\* Requests already written to the socket are still read by the Runtime.
AgentCrash ==
  /\ crashes < MaxCrashes
  /\ crashes' = crashes + 1
  /\ \E r \in Runs: lease[r] # None
  /\ rootLock' = None
  /\ lease' = [r \in Runs |-> None]
  /\ op' = None
  /\ pc' = [r \in Runs |-> [main |-> IF pc[r].main = "idle" /\ rootLock # r THEN "idle" ELSE "done",
                            control |-> "off", tool |-> "idle"]]
  /\ delegate' = [r \in Runs |-> None]
  /\ authority' = IF authority = "agent" THEN "free" ELSE authority
  /\ UNCHANGED <<attachments, fileVars, serverVars, now, faults, queue>>

RuntimeCrash ==
  /\ crashes < MaxCrashes
  /\ crashes' = crashes + 1
  /\ srv # IdleServer \/ owner # None \/ queue # <<>>
  /\ srv' = IdleServer
  /\ owner' = None
  /\ queue' = <<>>
  /\ authority' = IF authority = "runtime" THEN "free" ELSE authority
  /\ UNCHANGED <<agentVars, fileVars, revocations, executed, everRevoked, now, faults>>

\* Every Run that was asked for has ended; the next may never come.
Stopped ==
  /\ \A r \in Runs: pc[r].main \in {"idle", "done"} /\ pc[r].control \in {"off", "idle"}
  /\ queue = <<>> /\ srv = IdleServer /\ op = None
  /\ UNCHANGED vars

PersistStep ==
  \/ LockPersist \/ PersistWrite \/ PersistDone
  \/ \E replaced, kept \in BOOLEAN: PersistFail(replaced, kept)

RunStep(r) ==
  \/ \E bump \in Bumps, e \in 1..(MaxTime + 1): Acquire(r, bump, e)
  \/ SendPreflight(r) \/ PreflightUnsent(r) \/ PreflightSettled(r)
  \/ TakeDelegate(r) \/ \E kind \in {"act", "close"}: ToolCall(r, kind)
  \/ RotateRun(r) \/ EndRun(r) \/ Fence(r)
  \/ \E t \in {"main", "control"}:
       \/ BeginClose(r, t) \/ ReturnToAgent(r, t) \/ CloseSend(r, t) \/ Timeout(r, t)
       \/ \E runRemoved, activeRemoved \in BOOLEAN: LeaseClose(r, t, runRemoved, activeRemoved)

ControlStep(r) ==
  \/ Pause(r) \/ PauseRefused(r)
  \/ Claim(r) \/ Enter(r) \/ EnterUnsent(r) \/ Input(r)
  \/ Release(r) \/ Released(r) \/ Resume(r) \/ Wake(r) \/ Terminate(r)

ServerStep ==
  \/ Admit
  \/ \E reason \in {"unavailable", "expired", "mismatch", "stale", "limit"}: Refuse(reason)
  \/ Revoke \/ \E removed \in BOOLEAN: RevokeRemove(removed)
  \/ \E result \in {"ok", "failed", "challenge"}: ExecuteAct(result)
  \/ \E result \in {"ok", "failed"}: ExecuteClose(result) \/ ExecuteViewer(result)
  \/ \E closed \in BOOLEAN: ChallengeClose(closed)

Next ==
  \/ PersistStep
  \/ \E r \in Runs: RunStep(r) \/ ControlStep(r)
  \/ ServerStep
  \/ Tick \/ AgentCrash \/ RuntimeCrash
  \/ Stopped

Spec == Init /\ [][Next]_vars

(***************************************************************************)
(* What must hold.                                                         *)
(***************************************************************************)
\* Every variable stays in its range: the fields of browserRunLease,
\* browserSessionState and Server.
TypeOK ==
  /\ now \in 0..MaxTime
  /\ sessionFile \in [Sessions -> [sessionEpoch: 0..MaxEpoch, controlEpoch: 0..MaxEpoch]]
  /\ activeFile \in Lease \union {None}
  /\ runFile \in [Runs -> Lease \union {None}]
  /\ revocations \subseteq [hash: Hashes, revokedAt: 0..MaxTime, expiresAt: 1..(MaxTime + 1)]
  /\ everRevoked \subseteq Hashes
  /\ authority \in {"free", "agent", "runtime"}
  /\ rootLock \in Runs \union {None}
  /\ lease \in [Runs -> Holder \union {None}]
  /\ op \in Operation \union {None}
  /\ pc \in [Runs -> [main: MainPcs, control: ControlPcs, tool: ToolPcs]]
  /\ delegate \in [Runs -> Lease \union {None}]
  /\ queue \in Seq(Request)
  /\ srv \in [pc: ServerPcs, req: Request \union {None}]
  /\ owner \in Identity \union {None}
  /\ executed \in Identity \union {None}
  /\ attachments \in 0..MaxAttachments

\* Every identity that has left the Agent's memory, whoever holds it now.
Outstanding ==
  LET files == {activeFile} \union {runFile[r]: r \in Runs} \union {delegate[r]: r \in Runs}
      requests == {queue[i]: i \in DOMAIN queue} \union {srv.req}
  IN  {x.id: x \in (files \union requests) \ {None}} \union ({owner, executed} \ {None})

\* Two attachments never carry the same session and control epoch: whatever
\* crashed or failed in between, acquire and Rotate do not reuse a pair that
\* someone may still hold: the session state, which a restarted Agent reads, is
\* persisted before the leases that carry its epochs.
EpochsNotReused ==
  \A a, b \in Outstanding:
    /\ a.session = b.session
    /\ a.sessionEpoch = b.sessionEpoch
    /\ a.controlEpoch = b.controlEpoch
    => a.attachment = b.attachment

\* A request whose identity was durably revoked reaches the Engine only as a
\* close, for as long as anybody may send it: also after the index dropped its
\* entry, and when the removal of the active lease failed or never happened.
RevokedNotExecuted ==
  srv.pc = "execute" /\ srv.req.kind # "close" => Hash(srv.req.id) \notin everRevoked

\* The lease still lying in the active file is either open or its closure is
\* still in the revocation index.
ClosureOutlivesLease ==
  activeFile # None /\ ~ Expired(activeFile) /\ Hash(activeFile.id) \in everRevoked
    => IsRevoked(activeFile.id)

\* What the page sees is ordered: an operation of an older attachment, of an
\* older control epoch, or of another controller in the same epoch never
\* follows a newer one, although requests queue behind a Rotate, a transition
\* or the next Run.
NotOlder(new, old) ==
  \/ new.attachment > old.attachment
  \/ /\ new.attachment = old.attachment
     /\ \/ new.controlEpoch > old.controlEpoch
        \/ new.controlEpoch = old.controlEpoch /\ new.controller = old.controller
ExecutedInOrder ==
  [][executed # None => NotOlder(executed', executed)]_executed

\* While a Run holds the lease root, no other Run's lease is the active one:
\* a late cleanup or command of an earlier Run does not displace it.  (Unless
\* that Run could not remove its lease files: see CleanupMayFail.)
Driving == {"preflightWait", "preflightOk", "running"}
ActiveLeaseOfHolder ==
  rootLock # None /\ pc[rootLock].main \in Driving /\ activeFile # None
    => activeFile.id.run = rootLock

\* A successful close the ending Run waited for leaves no page bound to the
\* attachment that was closed ("the close below checkpoints and tears the
\* Engine down", browser_run.go:205).
CloseTearsDown ==
  [][(/\ srv.pc = "execute" /\ srv.req.kind = "close" /\ srv.req.thread = "main"
      /\ srv'.pc = "idle" /\ pc' # pc
      /\ pc'[srv.req.id.run].main = "leaseClose")
     => owner' = None \/ owner'.attachment # srv.req.id.attachment]_vars

\* Closing durably revokes the attachment: no later control epoch of it reaches
\* the Engine (docs/isolated-browser.md:197).
AttachmentStaysClosed ==
  srv.pc = "execute" /\ srv.req.kind # "close"
    => \A hash \in everRevoked: hash[4] # srv.req.id.attachment

(***************************************************************************)
(* Liveness. The Run's own goroutine, its command loop, their deadlines and *)
(* the Runtime's single connection keep moving; tools, users, crashes and   *)
(* faults do not have to.                                                   *)
(***************************************************************************)
CloseStep(r, t) ==
  \/ BeginClose(r, t) \/ ReturnToAgent(r, t) \/ CloseSend(r, t) \/ Timeout(r, t)
  \/ \E runRemoved, activeRemoved \in BOOLEAN: LeaseClose(r, t, runRemoved, activeRemoved)

MainStep(r) ==
  PreflightUnsent(r) \/ PreflightSettled(r) \/ Fence(r) \/ CloseStep(r, "main")

LoopStep(r) ==
  EnterUnsent(r) \/ Released(r) \/ Wake(r) \/ CloseStep(r, "control")

Fairness ==
  /\ WF_vars(PersistStep)
  /\ WF_vars(ServerStep)
  /\ \A r \in Runs: WF_vars(MainStep(r)) /\ WF_vars(LoopStep(r))

FairSpec == Spec /\ Fairness

\* Once the provider returned or the preflight failed, the Run ends and gives
\* the lease root back, even if the Runtime never answers or holds the flock
\* when it is needed, the command loop is closing the lease as well, and the
\* lease files cannot be written or removed.
ClosingEnds ==
  \A r \in Runs: pc[r].main = "closing" ~> pc[r].main = "done" /\ rootLock # r
=============================================================================
