# Verification of the OpenLinker plugin

TLA+ specifications of `openlinker-plugin`, their TLC configurations and TLAPS
proofs. The subject is the part of the repository that can go wrong without a
test noticing: the isolated Browser, which one provider Run at a time may drive,
whose Runs crash, time out, are rotated and taken over by a human while their
requests are still on the way.

Paths below are relative to `src/`; `browserruntime/`, `browserclient/`,
`browserplugin/`, `browserprofile/` are under `packages/browser-runtime/` and
`agentexec/`, `agent/` under `packages/agent-adapters/`.

## 1. Inventory

| component | state | operations | what makes it correct |
|---|---|---|---|
| Browser run lease `agentexec/browser_run.go` | `browserRunLease` in memory; `sessions/<hash>.json`, `active-lease.json`, `runs/<run>.json` on disk; the in-process lock of a lease root; the flock `.browser-lease-authority.lock` | acquire, persist, Rotate, Pause and the other controller transitions, closeBrowserRuntime, Close | epochs are never reused, one Run's lease is the active one, a Run that ends gives the root back |
| Human control `agentexec/browser_human_control.go` | `paused`, `resumed`, `terminal`, the frame stream | pauseAndWait, claim, input, release, resume, terminate | the Agent and the human never drive the page in the same epoch; a paused call is woken |
| Tool broker `agentexec/browser_tool_broker_unix.go` | the executor (delegate) of a Run | start, serve, Close | the delegate dies with its Run |
| Browser client `browserclient/` | one snapshot of the per-Run file | New, Execute, ExecuteViewer | an expired lease sends nothing; an unanswered request has an unknown outcome |
| Lease validation and revocation `browserruntime/lease.go`, `revocation.go` | `revoked-leases.v1.json` | Validate, IsRevoked, Revoke | a closed identity never acts again |
| Runtime server `browserruntime/server.go`, `connection.go` | the request ledger: scope, ids, budgets, terminal flag, blocked clicks | handleConnection, handleViewerConnection, closeRequiredChallenge, reserve... | budgets hold, ids are not replayed, terminal is final |
| Profile engine `browserruntime/profile_engine.go` | the active Profile: owner, process, flags; the work directory | Execute, ExecuteViewer, activate, checkpointActive, Close, AbortActive | a close saves and tears down the page of its caller; a failed step leaves a state that can go on |
| Process engine `browserruntime/process_engine.go` | one Chromium process | Execute, ensureProcess, closeProcess | a broken process is replaced, answers match requests |
| Profile store `browserprofile/store.go` | per Profile: checkpoints, `current.json`; quarantine | Create, Checkpoint, Load, PruneInactive, QuarantineInvalidState | at every crash the last committed checkpoint is readable |
| Profile migration `browserprofile/migration*.go` | pending marker, old and new layout | migrate, resume | idempotent after a crash at any step |
| Backend selector `browserruntime/backend_selector.go` | selected backend and scope | Execute, ExecuteViewer, Close | a scope is served by one backend |
| MCP server `browserplugin/server.go` | client per connection, calls in flight | Serve, cancel | a cancelled call is answered once |
| Operations observer `browserruntime/ops_observer*.go` | the lease of one listener | Admit, AdmitRequest, Release | one listener, sequence numbers increase |
| Agent service `agent/service.go` | worker, cancel, done, status, worker lock | Enable, Disable, OnReady, worker exit | lock and status agree with the worker |
| Browser engine (TypeScript) `browser-engine/src` | page, navigation generation, origin budget, page continuation | one per protocol action | generation grows, budgets hold |
| Egress gateway, network policy | resolver cache | dial, resolve | only allowed addresses are dialled |
| Observation `agentexec/browser_observation.go` | the observation's lease, its stream, the Run's identity, the final frame | start, stop, expiry, capture, publish, rotation, end of the Run | a frame belongs to its attempt; a late exit ends only its own observation; every observation ends |
| Mutation journal `agentexec/browser_mutation_journal.go` | counters, bounded entries | record | every outcome is accounted for |
| Plugin host `pluginbridge/server.go` | the operation under `agentMu` | the enable and disable tools, start-up, shutdown | a tool reports what is there |

Configuration, provider adapters, commands, native Chrome extension, client-mode
selection, skill files, deployment and scripts keep no shared state and are
listed in `PROJECT.json` as not modelled.

**Interactions.** A provider Run acquires the lease and hands the MCP broker a
client made from its per-Run file. The client writes one request per connection
to a Unix socket; the Runtime accepts one connection at a time, validates the
identity in the request against the active file and the revocation index,
charges the ledger, revokes (for a close) and calls the Engine. The Agent writes
the files under a flock the Runtime takes only to revoke: it reads them without
it. Human-control commands arrive in a goroutine of their own which moves the
same lease.

**What is hard.** Three files are written one after the other and either process
may die in between; a request may be queued for as long as the one before it
takes, while the lease moves on; a timed-out close may still be executed; the
command loop and the provider Run close, rotate and fence the same lease;
closures outlive the lease only in an index of bounded size; the ledger follows
whatever scope was admitted last. Below the Runtime, a Profile is saved by a
dozen file operations and directory syncs, any of which may fail or be the last
before a power failure; an operations observer looks at Engine, selector and
Profile without taking their locks; a pipe to the engine process may carry the
answer to a request that was given up. Beside it, three goroutines start and stop
one Runtime Worker, tool calls of one MCP connection race its close, and an
observation's streams outlive the commands that started them.

## 2. Modules

### `BrowserLease` (instances: `MCBrowserLease`)

The run lease, human control, the clients, and the Runtime's validation,
revocation and ownership of the page.

| in the model | in the code |
|---|---|
| `sessionFile`, `activeFile`, `runFile`, `revocations` | the four owner-only files |
| `authority`, `rootLock` | the flock; `lockBrowserRoot` |
| `lease[r]` | `browserRunLease` (identity, expiry, runtimeUsed, backend # nil, closed) |
| `op` | the `persist()` in progress: lock, session state, active lease, per-Run lease, each its own step |
| `pc[r].main / control / tool` | the provider Run's goroutine, the command loop, the MCP call in `pauseAndWait` |
| `delegate[r]`, `queue` | the broker's client; connections in the listen backlog |
| `srv`, `owner` | the connection in `handleConnection`; `activeBrowserProfile.owner` |
| `PageAllows` | the control state the TypeScript engine checks before it acts on the page |
| `executed`, `everRevoked` | history only |

A persist step may fail before or after the file was replaced (`PersistFail`);
each caller undoes what the code undoes: a transition its memory, Rotate
nothing, acquire everything. Either process may crash between any two steps; the
kernel drops its flock. An identity carries what the code compares: the
revocation hash has everything but the controller, the active check compares
attachment, then control epoch, then controller. Policy fields and principal are
fixed per conversation and appear only as the session epochs an acquire skips.

### `RequestLedger` (instances: `MCRequestLedger`)

The ledger of `connection.go`: a scope is Run, attachment and both epochs;
`seenScope`, `seen`, `actionCount`, `viewerCount`, `closeCount`, `terminal` and
the click fields are the fields of `Server`. One request goes through validation,
reservation, revocation and execution in separate steps, and the Agent may
activate or drop a lease between any two. The lease is reduced to what the
ledger can tell apart (`latest`, `live`, `revoked`); revocations never expire
here, which only adds behaviours (more late closes). The Engine is any process
whose instance is constant and whose navigation generation does not decrease; the
first answer of a later process has a later instance and any generation.

`spent`, `viewed`, `closed`, `times`, `blocked`, `dead` count independently of
the ledger what it admitted; "at most" and "never" in the properties are said of
them. They start again when a late close or a restart of
the Runtime displaces the ledger: from there on the code starts new budgets, and
finding 3 is about exactly that.

### `BrowserLeaseProofs`, `BrowserLeaseOrderProofs`, `BrowserLeaseCloseProofs`, `RequestLedgerProofs`, `ProfileStoreProofs`, `ProfilesProofs`, `McpServerProofs`, `HostProofs`

Theorems about the module each is named after (`ProfilesProofs`: about
`ProfileEngine` and the store it drives, composed in `MCProfiles`; `HostProofs`: about
the components composed in `MCHost`), for all values
of its constants, see section 5.

### `ProfileStore` and its abstract specification `CheckpointRegister`

`CheckpointRegister` is what the store promises of one Profile: a register that
shows the version saved last; a save becomes visible at once (`Publish`), is
acknowledged only when no power failure can take it back (`Acknowledge`), and a
Profile is never torn or older than its last acknowledged save (`NeverOlder`) as
long as it exists. What the store does not promise is in it as well: `whole`, for
`Create` never syncs `profiles/`, so that a power failure may undo a new Profile
as a whole (finding 5).

`ProfileStore` is one action per file operation of `store.go` and `payload.go`.
Its state is the set of directory entries as the running system sees them
(`seen`), as the last fsync of each directory left them (`durable`), the removed
directories that may come back (`former`), and the operation under way. A power
failure keeps each entry as seen or as durable, independently. Every call may
fail; `CommitFails` undoes what `commitSnapshot` and `Create` undo, or fails to.
Before the pointer is published the snapshot is removed again; after it nothing
is, although the caller gets an error. A payload is a number: the order in which
the engine handed it over. The code calls every read of an open that fails a
corrupt Profile (`store.go:370-412`, `payload.go:80-97`), and so does `OpenThen`: a
Profile it cannot read goes to quarantine although it is intact (operation
`discard`), where a torn one goes there by operation `quarantine`. `stored`, `recent`
and `whole`, defined as what a load would return now and after a power failure, are the refinement mapping.

### `ProfileEngine`

The engine above the store: one operation under `engine.mu` is one step, and
inside it every call may fail, so that an operation is an operator that returns
the set of its outcomes (`Execute`, `ExecuteViewer`, `AbortActive`, `Close`,
`Restart`). `engine` has the fields of the struct (`active`, its owner, process,
`exists`, `upgrade`, `adopt`, `validated`), the work directory and the snapshot
the observer reads; `image` is the Browser build, which a restart may change. The
store is the register: a save is atomic, and its error may hide that it took
effect. Worth knowing when reading it: `checkpointActive` sets
`preflightValidated` for every checkpoint (`profile_engine.go:665`), a save
whose last directory sync failed leaves `exists` false, and a load or a validation
whose read failed puts an intact Profile into quarantine (`Loaded`, `SaveOutcomes`).

### `ProfileMigration`

Execute, check and finalize over the marker, the copied Profile, its retention
time, the receipt and the activation of the new store; `target` is the store as
programs see it and `synced` as a power failure leaves it. The old store goes on
working, the Runtime may be started on the new one as soon as the marker allows,
the retention window may close (`expired`, after which finalize is refused), and
the tool may be killed anywhere.

### `BackendSelector`, `ProcessEngine`

`BackendSelector` has the selected backend, the requested mode its evidence
records, the scope, and per backend the Session it has alive (external: a backend
call may fail), and the snapshot the observer is shown. A rotated preflight whose
Profile evidence does not match gives up the choice and leaves that snapshot as it
was (`backend_selector.go:150-156`). `ProcessEngine` has the request that holds `engine.mu`, the pipe
of the engine process (a sequence of lines and the requests it has not answered)
and the observer's three samples beside it. The write of a request line is a step
of its own (`writing`), for it holds `mu` and has no deadline (`process_engine.go:203`,
`346`). The process is external: it answers, answers wrongly, writes a line nobody
asked for, stays silent, stops reading or ends.

### `AgentMode`

The tool call, the start-up and the shutdown as callers of Enable and Disable,
the two mutexes, the worker goroutine with OnReady, and the lock of the state
directory that another host may hold. Saving the configuration may fail before or
after the file has changed (`pluginbridge/server.go:297-319`; the error of the save
after a failed enable is dropped), and the goroutine of the start-up may get
`agentMu` after a tool that disabled the mode. What the worker does inside is external.

### `McpServer`

The loop of `Serve`, a goroutine per request, `actionMu`, the cancel functions,
`pending`, and the attachment evidence with the epoch it speaks of. An answer is
built (`Emit`: it `carries` evidence or not) and later delivered, in any order:
requests end through one channel (`browserplugin/server.go:217-235`). Only a delivered
answer has told the client (`told`).

### `Observation`

Start commands, streams, connections of the Runtime's observer and its one lease,
captures, the final frame and the end of the Run. A stream is the goroutine of one
start command, `conn` the Runtime's handler of its connection. A stream that still
owns the observation at the end of its context first sends a stopped event with a
context that does not end (`browser_observation.go:214-220`; step `farewell`).
Sequence numbers
and the request bound are a refusal that may happen at any request.

### `MutationJournal`, `EgressGateway`

The journal's counters and bounded entries by what a Browser answer reports: the
TypeScript engine leaves the count of mutation requests out of several failures
(`engine.ts:338-341`, `371-413`), and what it leaves out nobody records. The index of a
failed action is one of the batch because the engine's loop puts it there; Go checks
only that it is below eight (`browserprotocol/validation.go:360`). And one
proxied request through resolution, validation, dialling with its bounded
retries, a plain round trip or a tunnel.

### Composition

`BrowserLease` composes the Agent's, the human's and the Runtime's side in one
module, for they share the files. `MCProfiles` and `MCHost` put components
that share nothing into one specification: `part` says which of them a behaviour
moves, since interleaving independent components adds states and no behaviour. In
`MCProfiles` the engine and the store meet at `CheckpointRegister`: the store is
shown to implement it and the engine is built on it. In `MCHost` conditions
of several components share a WF or SF; because only one component moves, each is
the fairness of one of its actions, as stated in its module. `MCHost` extends
`McpServer` and `BackendSelector`, so that the properties it checks are the very
definitions the theorems state, and instantiates the other modules.

## 3. Runs

| run | question | result |
|---|---|---|
| `lease_faults` | two Runs, no human control, one crash and one I/O failure anywhere | all six properties hold |
| `lease_human` | one Run through a whole claim and release by a human, calls queued, the lease may expire | `ExecutedInOrder` holds |
| `lease_runs` | two Runs with human control, a rotation, one I/O failure at any write | the active lease belongs to the holder of the root |
| `lease_liveness` | a Run under human control whose cleanup may fail, fair | a closing Run ends |
| `ledger` | budgets, replay, clicks, terminal | all six properties hold |
| `profiles` | the store file by file; the engine with two Sessions of two Profiles and two Browser builds | the store implements the register; all seven properties hold |
| `host` | selector, process engine, Agent Mode, MCP server, migration, egress, journal, observation | all sixteen properties hold |
| `close_after_human` | does a successful close tear the page down? | violated, finding 1 |
| `attachment_reopened` | does a close revoke the attachment? | violated, finding 2 |
| `late_close` | is a late close inert? | violated, finding 3 |
| `observation_idle` | does an observer that waits keep its stream? | violated, finding 4 |
| `new_profile` | does a new Profile survive a power failure after its first save? | violated, finding 5 |

The properties, by hazard:

- `EpochsNotReused`: crashes and failures inside `persist()`. The session file is
  written first, so that a restarted Agent, which knows nothing else, never hands
  out an epoch pair somebody holds.
- `ExecutedInOrder`: what the page sees is ordered by attachment, control epoch
  and controller, although the check and the execution are separate steps and
  the lease moves under queued requests.
- `RevokedNotExecuted`, `ClosureOutlivesLease`: a closure survives the eviction
  of its entry, its expiry, and a crash before the active file is removed.
- `ActiveLeaseOfHolder`: late commands and cleanups of an ended Run.
- `CloseTearsDown`: a close that reports success has taken the page down. It holds
  without human control and fails with it (finding 1). `AttachmentStaysClosed` is
  stated by the run of finding 2 only.
- `ClosingEnds`: the lease root is given back by every Run that lives, whatever
  the Runtime, the command loop and the removal of its files do; a crash of the
  Agent frees the root by itself and is not in that run.
- `BudgetHolds`, `NoReplay`, `TerminalIsFinal`, `BlockedClicksBounded`,
  `EngineInStep`: the ledger under rotations, replays, late closes, restarts and
  Engine restarts.
- `StoreIsRegister`: failed syncs after a pointer was published, crashes between
  the creation of a Profile and its first pointer, power failures anywhere: never
  torn, never older than the last acknowledged save (`SavedNeverOlder` says it of
  every disk a power failure may leave). `SavedNotQuarantined`: a Profile that an open
  finds torn was never saved, or was damaged. An intact one is put
  aside only after a failed read, or when the engine found its state invalid.
- `WorkOfActive`: the work directory is emptied after the Profile is let go of,
  and that may fail; the decrypted files of one Profile are still never there when
  another one is active. `ObservedIsActive`: what the observer reads without the
  mutex. `UpgradeProved`: every checkpoint marks the Profile as validated, and yet
  none is saved under another build before a preflight of it.
- `OneBackendShown`, `SessionKeepsBackend`: a preflight that falls back, rotates or
  is aborted leaves one live backend, the one the observer is shown. The one
  exception is part of `ShownIsSelected`: the snapshot a rotated preflight leaves
  behind is of a backend that has no Session.
- `OwnAnswer`: the answer of a request that timed out, or a line nobody asked for,
  is never given to the next caller. `ClaimSpansAction`: two counters sampled
  around a capture never turn the gap between two actions into one.
- `ModeTruthful`, `CancelledEnds`: Disable decides by a status that OnReady may be
  changing; the lock of the state directory is leaked by one path of Enable. What is
  promised is what a tool call that *succeeded* said: a failed one may have changed
  the file, or not.
- `NothingAfterClose`, `EpochEvidenced`, `RequestsEnd`: calls waiting behind a
  close, evidence read before its mutex is taken, answers that overtake the one
  with the evidence, the input that ends with calls in flight. An overtaking answer
  finds the evidence complete and on its way, and nothing pending means it arrived.
- `MigrationKeeps`, `FinalizeCompletes`: kills and power failures around the
  removal of the marker. The second names its exceptions one by one; the last, a
  Runtime that worked in the new store before the marker came back, is a dead end,
  see section 6.
- `FrameOfAttempt`, `NewerSurvives`, `RequestsEnd` again: a capture under way while
  the Run moves on, a displaced stream that exits late, both sides giving up.
- `OneValidatedDestination`, `JournalAccounts`: a name that resolves differently
  the next time, a batch that fails in the middle; no answer that *reports* a
  mutation request goes unrecorded.

**Bounds.** Two Runs are enough for one Run's leftovers to meet its successor;
they share one conversation, because two conversations share no epoch. Epochs up
to 3 allow a transition and a rotation after an acquire, 4 a whole claim and
release. Two attachments are one rotation or one successor. `MaxQueue = 1` lets
one request wait while another is handled, which is enough for a stale one to
follow a newer one. `MaxRevocations = 1` makes every second closure evict the
first. `Bumps` are the epochs an acquire skips when the policy changed: {1} where
crashes matter. One crash and one failure, at any step. `MaxTime = 1` separates
before and after expiry and is used in `lease_human`. The larger products (two
Runs with a failing cleanup, one Run with human control and a crash at any write)
have too many states for a run of minutes.
For the ledger: two scopes of one Run (the second human) under budgets of 1 to 3,
batches of 2, two Engine processes with two navigations, one displacement; the
late-close run adds the scope of another Run. Runs of one conversation, and
request ids, are interchangeable, so symmetry is used in the safety runs and not
in the liveness run.
For the store: three payloads (an acknowledged one, one that failed half-way, one
after it), two faults and two crashes, so that a failed sync is followed by a
power failure, a retry and another power failure. For the engine: two Sessions of
two Profiles, control epochs 1 and 2, two Browser builds; its failures are
unbounded. For the host: two generations with two attachments each, two engine
requests and one stray line, two calls with two ids and two epochs, two versions in
a migration with two faults and two crashes, two public addresses and a private
one, three records for two entries. For observations: two starts, so that a new
one displaces a running one, and two attempts.

**Fairness.** `lease_liveness`: weak fairness of the persist in progress (file
operations end), the Runtime's handling of the one connection (its Engine call
has a deadline), the provider Run's goroutine once it has to close, and the
command loop's own continuation. `Timeout` belongs to the fair steps because
every client call has a deadline (15 s for a close). Tool calls, users' commands,
sending the preflight, crashes and I/O failures are not fair: they may never
happen. The number of epochs is bounded, so a user cannot transition the lease
for ever in the model; in the code the mutex of the lease, which is fair to
waiters, plays that part.
`host`: weak fairness of the steps of a request to the engine (a read has a
deadline, and a process that does not answer is killed) without the write of the
line, which only the end of the process is sure to end; of the steps of the
migration tool, of the worker goroutine after its cancellation, of Disable and the
end of the tool that waits for it (Drain has a timeout), of `Serve` and of the
steps of an accepted MCP call (the client answers or times out). Strong fairness
of `Open("finalize")`: an operator who was told of a migration that was cut off
runs finalize again until it worked, as long as the retention window is open;
faults and crashes are bounded. The window need not close.
Also in `host`, for observations: weak fairness of expiry, of the streams and of the
handlers, whose waits have deadlines, with one exception: the acknowledgement of a
stopped event (`Dismissed`), which has no fairness; strong fairness of `Done(s)`: a stream takes the end of
its context in a `select` that may also have a tick to take, and Go chooses
between ready cases at random, so an end that is offered again and again is taken.
`RequestsEnd` therefore lets a request rest in a write to a process that lives, and a
stream in `farewell`.

**Deadlock** is checked in all lease, ledger and profile runs: `Stopped` lets
`BrowserLease` stutter only when every Run has ended and no request is left. It is
not checked in `host` and `observation_idle`, whose components really come to rest: an
input that has ended, a bridge that was shut down, an observation that is over, a
journal whose bounded records are used up. What must not get stuck there is stated
by `RequestsEnd`, `CancelledEnds` and `FinalizeCompletes`.

## 4. Findings

1. `close_after_human`: `closeBrowserRuntime` first moves control back to the
   agent (`browser_run.go:442-450`), which raises the control epoch. The close
   carries the new epoch, the Engine's owner the old one, and
   `ProfileEngine.Execute` (`profile_engine.go:146-148`) answers a close by
   anybody but the owner with success and does nothing. The Profile of a Run that
   ends during human control is not checkpointed and its Chromium goes on until
   another Session is activated. The comment at `browser_run.go:204-205` counts
   on the opposite.
2. `attachment_reopened`: a revocation names one control epoch. A challenge
   answered just before a tool call closes the attachment lets Pause publish the
   same attachment at the next epoch; `docs/isolated-browser.md:197-198` says a
   close revokes the attachment.
3. `late_close`: a close of a revoked identity is admitted at any time and turns
   the ledger to its scope. The active scope's next request turns it back, with
   no ids seen and full budgets, and a Run's blocked clicks are forgotten if the
   late close was another Run's; `docs/isolated-browser.md:198-200` says late
   actions cannot affect a replacement connection.
4. `observation_idle`: between two requests the Runtime's handler waits for
   `MaxOpsObserverDeadline`, two seconds (`ops_observer.go:204`,
   `browserprotocol/ops_observer.go:20`), and then drops the connection and its
   lease. The Worker accepts capture intervals of up to five seconds
   (`browserextension/observer_bridge.go:46`) and waits for the platform's
   acknowledgement between two captures. The comment at `ops_observer.go:281-284`
   says that the lease is kept alive so that an observer can wait on the same
   stream. The observation then ends by itself (`RequestsEnd`): what is lost
   is the stream, not the Runtime's lease.
5. `new_profile`: `Create` makes the Profile directory (`store.go:159`) and
   `commitSnapshot` syncs `checkpoints/` and the Profile directory, but nothing
   syncs `profiles/`, whose entry names the new directory, until a quarantine or an
   expiry happens to. A power failure after the first save was acknowledged, and
   the preflight answered ready, may leave no Profile. The comment at
   `profile_engine.go:187-189` makes that first save so that the Profile is durable.

## 5. Proofs

### The run lease

Three modules, each extending the one before. `BrowserLeaseProofs` has
`TypeCorrect`; `BrowserLeaseOrderProofs` has `EpochsFresh` (`EpochsNotReused`) and
`PageOrder` (`ExecutedInOrder`); `BrowserLeaseCloseProofs` has `RevokedStayOut`
(`RevokedNotExecuted`), `ClosureKept` (`ClosureOutlivesLease`), `HolderIsActive`
(`ActiveLeaseOfHolder`) and `CloseTearsPageDown` (`CloseTearsDown`). They hold for any number of Runs, requests, crashes, faults,
clock ticks, rotations and controller transitions; a run has two Runs and a
handful of each.

What the runs state relates files, memory and requests that move independently.
The invariant that carries them is built in layers, each used by the next:

- `ShapeInv`: types, and what a step of `persist()`, of the Runtime's handler or of
  a Run that is not there looks like. One lemma per action says which files,
  leases and requests it changes; everything above cites these lemmas.
- `LockInv`: a root lock belongs to the one open lease, only an open lease is
  persisted, whoever writes holds the flock; a transition under way has moved the
  control epoch one up from what it would undo.
- `EpochInv`: the session file is written first, so it is never behind any copy of
  an identity (`SessionFirst`, `SessionAhead`); copies come from what was persisted,
  are not ahead of the lease or of what its undo would restore, and two of one
  epoch are the same (`CopiesPersisted`, `CopiesBehind`, `CopiesBehindUndo`,
  `CopiesDistinct`). That is `EpochsNotReused` across crashes: the file an acquire
  reads has everything that was ever published.
- `AgeInv` orders what the Runtime sees: the active file, the request at the
  Engine, the last page operation and the page's owner never run behind one
  another. With `HumanInv` (a claim is bound to its epoch, a viewer request comes
  from a claim, and a firm transition is not undone) it gives `ExecutedInOrder`.
- `RevokeInv`: a request past the revocation check is not covered by the index
  unless it is the close that revoked it (`Covered`), entries of one attachment
  expire together (`SameExpiry`), and a closure is behind the open lease or covers
  whatever that lease persists next (`ClosureAhead`).
- `RunInv` ties the active file to the holder of the root; `AgentInv` says that
  without human control an attachment has one identity only.

Two hypotheses are needed, and each is needed for a reason the model shows. All but
`TypeCorrect` assume `~CleanupMayFail`: when `Close` fails to remove its files it
has already given up the root lock, and a Run that was not marked closed can
persist its lease once more after the next Run took the root, see section 6.
`CloseTearsPageDown` assumes `~HumanControl`: with it the property is false, which
the run `close_after_human` shows (finding 1).

### The request ledger

`RequestLedgerProofs` proves, from the two assumptions of `RequestLedger` and
nothing else, that `Spec` implies `[]TypeOK`, `[]BudgetHolds`, `[]NoReplay`,
`[]EngineInStep`, `[]BlockedClicksBounded` and the action property
`TerminalIsFinal`, for any finite or infinite sets of scopes, Runs, conversations
and request ids, any mapping between them and any limits. `OnlyLateCloseTurns` is
the other side of finding 3: as long as the active scope stays the same, nothing
but a late close turns the ledger away from it, whatever was validated before a
rotation and reserved after it.

None of the invariants is inductive alone. The argument goes in layers, each
using the ones before as facts in every state:

- *Types*, first, so that every later step may use them.
- *In use* (`InUse`): every scope the ledger or a request speaks of was activated
  before, and every scope of an earlier Run is behind: a Run that was left never
  comes back. Without it, the history of a Run could resume after the ledger
  forgot it.
- *Budgets* (`BudgetInv`): for the scope in the ledger, the ledger's counters
  equal the history; every other scope has been left for good or has no history
  yet (`Counted`, `ScopesLeft`). A request that turns the ledger therefore either
  meets a fresh scope or displaces the ledger, which resets the history. That a
  request validated before a rotation is reserved only while the ledger is not yet
  at the new scope, the second half of `ScopesLeft`, is also `OnlyLateCloseTurns`.
- *Terminal*: a step that charges a scope passed `Exhausted`, hence the ledger's
  flag is down, hence the scope is not `dead`.
- *Engine* (`EngineInv`): the ledger's instance and generation are 0 or not ahead
  of the running process.
- *Clicks* (`ClickInv`): the Run count equals the history of the Run in the
  ledger, and a click that executes had budget left. This layer needs the Engine
  layer: if the ledger could refuse an answer, a blocked click would go
  uncounted.

Each layer has one lemma per group of actions (what turning the ledger does, what
an Engine answer does, what leaves the layer alone), a step theorem, and a
temporal theorem combining them.

### The Profile store and the engine above it

`ProfileStoreProofs` proves, from `StoreAssumption` alone, that `ProfileStore`'s
`Spec` implements the register (`StoreIsRegister`) and implies `[]TypeOK`,
`[]SavedNeverOlder` and `SavedNotQuarantined`, for any payloads and any number of
faults, process ends and power failures; the `profiles` run has three payloads
and two of each.

The register speaks of what a load would find on each of the many disks a power
failure may leave, which change with every entry written. `StoreInv` speaks
of the two sets of entries they are made of, `seen` and `durable`, instead:

- `SaveInv` follows `commitSnapshot`: at each step the entries the steps before it
  wrote are there, and those it synced are durable; until the pointer is
  published, no pointer names the version being saved, so removing the snapshot
  of a failed save takes nothing from anyone.
- `PromiseInv`: as long as a save is promised, both pointers, the one seen and the
  durable one, name snapshots that are seen, durable and intact, and not older
  than the promise. The step `clean` establishes it from `SaveInv`; it is why the
  old snapshots may go only when the new pointer is durable.
- `GoneInv`, `TakenInv`, `PointerInv`, `OrderInv`: a Profile that is gone has left
  nothing but `former` directories; what is taken apart is promised no more;
  pointers name payloads the store was handed; payloads come in order.

`StoreInv` is preserved conjunct by conjunct, one lemma each with one step per
action (`TypeStep` to `PromiseStep`). Then `Found` says, entry by entry, what loads
find on the disks a power failure may keep, and `RefineStep` maps every step of
the store to a step of the register or to none.

`SyncedProfileSurvives` is the other side of finding 5: once `profiles/` was synced
since the Profile directory was made, a power failure neither ends the promise nor
leaves a load anything older than it. Besides `StoreInv` it needs `SyncedInv`: a
durable Profile directory has no removed one waiting to come back, because the
fsync that made it durable took those away.

`ProfilesProofs` proves, from `StoreAssumption` and `EngineAssumption` (the values
that say "none" and "torn" are none of the values they stand beside, versions are
numbers), that the composition implies `[]ProfilesTypeOK`, `[]WorkOfActive`,
`[]ObservedIsActive` and the action property `UpgradeProved`. `WorkOfActive` is about
two components: what is in the work directory is the Profile the engine believes
active, at every step of the store's save or load below it. By `StoreBeneath` the
store makes steps of its own only in the composition, which therefore implies
`StoreIsRegister`, `[]SavedNeverOlder` and `SavedNotQuarantined` as well: with these
`ProfilesProofs` states every property of the run `profiles` about the
specification that run checks.

- `EngInv` fits engine and store together: `WorkOk` and `OpsOk` say whose process runs
  where and what a pending observer was told, `StoreOk` that the active Profile is
  saved under the running version, or is flagged for upgrade or adoption and saved
  under none newer. Without `StoreOk` an activation could find a version it would
  refuse, having cleared the one before.
- `PrOk`: a Profile that was validated while flagged was proved, which is
  `UpgradeProved`.
- `Evolves` is all the engine knows of the store: how an operation changes what is
  saved. There is one lemma per set of outcomes (`SaveOutcomes`, `CheckpointActive`,
  `Loaded`, `Activate`, `Preflight`, `Run`), then one per action. The store's half
  is `StoreInv` of `ProfileStoreProofs`, cited and not repeated.

### The components of the host

`McpServerProofs` proves `NothingAfterClose` and `[]EpochEvidenced`
(`EvidenceGivenInTime`) of one connection of the MCP server, for any number of requests,
request ids and Session epochs; the second needs `MaxEpoch` to be at least 1, as
there is an epoch from the first attachment on.

- `MutexInv`: a call that is inside `actionMu` is the one the mutex names, and none
  is inside once `closed` is set: the call that sets it leaves in the same step. A
  call that was waiting then finds `closed` when its turn comes; that is why the
  flag is read under the mutex.
- `EvidenceInv`: where a call is tells which epoch it has seen, and evidence that
  was emitted was told to the client or is carried by an answer that waits to be
  delivered (`Given`). An answer with a result then always belongs to such an epoch,
  whoever took the evidence.

`PendingInv` counts: the requests under way are the ones `Serve` has still to wait
for, and each has its cancel function under its id, so that answering one removes
that of no other.

`HostProofs` is about `HostSpec`, the specification the run `host` checks, and about
that of every component in it. It proves all the invariants and action properties
of that run: `[]HostTypeOK`, `[]OneBackendShown`, `SessionKeepsBackend`,
`[]OwnAnswer`, `[]ClaimSpansAction`, `[]ModeTruthful`, `[]OneValidatedDestination`,
`[]JournalAccounts`, `[]FrameOfAttempt`, `NewerSurvives` and `MigrationKeeps`, and by
`McpOfHost` the two of `McpServer` (`SilentInHost`, `EvidenceInHost`). The values of the
constants are any: the bounds on calls, epochs, versions, faults, power failures,
tunnel dials, stray lines, starts and attempts are numbers (those that count
something that is there from the beginning at least 1), and `None` is none of the
identities, backends and addresses it stands beside (the `ASSUME`s of `MCHost`,
which TLC evaluates in the run).

`OneMoves` says that a step of the host is a step of one component, or of none,
and a stutter of all others; `HostInv` is the conjunction of an inductive invariant
per component, each with a lemma for the initial states and one for a step:

- `SelectorInv` is `OneLiveInv` and `ShownInv`. `OneLiveInv` adds to `OneLiveBackend`
  that even while the selector closes at most one backend holds a live Session.
  Every request then does one of three things to the backends: the selected one
  moves on, one is chosen while none is live, or nothing is left (`MovesOn`,
  `Chooses`, `GivesUp`), and none of them continues a Session elsewhere. `ShownInv`:
  what the observer is shown is made anew from every choice, and a snapshot left
  behind without one is of a backend whose Session was aborted with it.
- `EngineInv`: only a request that waits has asked the process anything, it is the
  last one numbered, and no line in the pipe carries the id of a request that is
  owed (`AnswerInv`); and an instant without an action during a capture has left
  its trace in one of the two counters, whichever is sampled first (`CountInv`).
- `WorkerInv`: the lock of the state directory is the worker's exactly while its
  goroutine runs, a disable has returned well only when the service has let go of
  the worker, and an enable that goes on has saved the configuration. What the
  tools told follows for the calls that succeeded (`ToolTold`).
- `MigInv`: what a power failure may leave is never ahead of what programs see, a
  marker that programs see has been made durable, and a store that may turn out
  without a marker, now or after a power failure, is whole in both (`StoreInv`);
  where the tool is tells what it has verified and synchronised (`ToolInv`).
- `GatewayInv`: the addresses of a request were all found public before one is
  dialled. `JournalInv`: of a batch whose answer reports a mutation request
  at least one outcome is counted (`OutcomeCounted`). `FrameInv`: a capture asks for
  a frame of its own attempt, and a frame that is published was asked for.

### What is only model-checked

Liveness is out of the prover's reach: `RequestsEnd`, `CancelledEnds`,
`FinalizeCompletes` and `ClosingEnds` are checked by TLC on
the instances of section 3, and so are the five violations of section 4. With
`CleanupMayFail` or `HumanControl` the theorems of the run lease that exclude it say
nothing; `lease_liveness` runs with the first, `lease_human` and `lease_runs` with the
second. Every invariant and every action property of a passing run is otherwise
stated by a theorem about the specification that run checks.

## 6. Not modelled

`BrowserLease` leaves out the pruning of old session files, permission and
ownership checks of files, the frame stream, the content of policies, and the
checkpoint inside a close (it succeeds or fails; `ProfileEngine` has it). A
request whose sender gave up may still be admitted: the code allows that for
cancelled calls, and refuses those past their deadline. The client snapshot kept
by the MCP server after a resume is not followed either: `TakeDelegate` lets the
snapshot be refreshed at any time, or never, and a stale one only makes the
Runtime refuse its requests. `CleanupMayFail` lets a removal in `Close` fail; with
two Runs the lease that was not marked closed can still be moved by the command
loop after the root lock was given up, and neither `ActiveLeaseOfHolder` nor
`EpochsNotReused` holds: the next Run acquires, and then the first Run's lease is
persisted and writes its session file over. No
document promises otherwise, so no run states it: the runs with two Runs switch it
off, `lease_liveness` with one Run switches it on, the theorems of section 5
assume it off, and the hazard is listed in `PROJECT.json`.
In `pauseAndWait` the code sets `control.paused` before `lease.Pause` and makes
`resumed` (`browser_human_control.go:103-119`), so a terminate may run between the two
and close `resumed` first (`345-348`); if Pause then fails, `resumed` is closed a second
time, which panics. `Pause` of the model is one step; a process that ends there is
its `AgentCrash`. `ClosingEnds` has no crashes, and `lease_human` no I/O faults: an
epoch that a failed transition took back and another controller got is covered by
the theorem `PageOrder` and by no run.
`AgentMode`: whether a Disable cancels or drains follows from the status it read
before OnReady may change it; the properties hold for either, and none bounds how
long the Drain of a worker that is not ready waits.
`RequestLedger` leaves out the fields that only fill error messages, malformed
requests, Engines that report generation 0, and the clicks inside a batch, which
the code neither counts nor refuses.
`ProfileStore` has one Profile (operations of two Profiles share the mutex and
`profiles/`, whose sync by another Profile is `SyncProfiles`) and reduces
encryption to whether a load accepts what it reads. It lets a directory entry be
lost independently of every other, which is more than file systems do. In
`ProfileEngine` an operation is one step: `ObservedIsActive` is about what a lock-free
read finds between operations, not inside one.
`ProfileMigration`: an execution that was cut off can get beyond finalize in three
ways. The old store was used since; the thirty days of the retention window are over
(`migration.go:170`); or the marker was removed, a Runtime saved into the new store,
and a power failure brought the marker back, after which finalize refuses the
advanced Profile for ever (`migration_linux.go:485-494`, `548`). All three need an
operator, and `FinalizeCompletes` names them.
`BackendSelector`: a late close of another scope moves the selector to that scope,
as `backend_selector_test.go:281` expects; `SessionKeepsBackend` therefore speaks
of the Session the selector serves.
`ProcessEngine`: a process that lives and does not read blocks the write of a
request longer than the pipe, and with it everyone who waits for `mu`.
`Observation`: as long as the stopped event is not acknowledged the stream stays in
`farewell` and the observation busy, until a stop command; the comment at
`browser_observation.go:215-216` says that the event cannot block the teardown.
`McpServer` and `Observation` abstract a request's content; cancelling a call, and
sequence numbers and request bounds of the observer, are failures that may happen
anyway.
`EgressGateway` has the address ranges as a set of public addresses and leaves out
the encrypted DNS transport and the byte limits.

Not modelled at all, because they keep no state that two steps share: the reading
and validation of configuration, the adapters of external provider processes
(parsers of one stream), field checks of the protocol, the TypeScript Browser
engine (it drives Chromium, of which there is no model to check it against; what
the Runtime relies on, its generation, is an assumption of `RequestLedger`, and its
check of the controller before it acts is `PageAllows` of `BrowserLease`), the
native Chrome extension, client modes and skill files, commands, deployment and
scripts.

## 7. Plan

Done, in the order of importance: `BrowserLease`; `RequestLedger` with its proofs;
`ProfileStore` with `CheckpointRegister` and the refinement; `ProfileEngine`;
`AgentMode`; `BackendSelector`, `ProcessEngine`; `McpServer`; `Observation`;
`ProfileMigration`, `EgressGateway`, `MutationJournal`.

Then the proofs about `ProfileStore`, about `BrowserLease`, about `ProfileEngine` on
its store, and about every component of `MCHost`.

Left: the origin budget and the page continuation of the TypeScript
engine; the frame stream to the human; clicks of a batch in the ledger.
