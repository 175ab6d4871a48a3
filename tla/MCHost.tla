-------------------------------- MODULE MCHost --------------------------------
(***************************************************************************)
(* The components of the plugin host and of the Browser Runtime that have  *)
(* a module of their own, for TLC.  They share no variable: a behaviour    *)
(* moves one of them, `part`, since moving several at once would only      *)
(* multiply their states.  A component at rest stays in one initial state. *)
(***************************************************************************)
EXTENDS McpServer, BackendSelector

CONSTANTS
  MaxStray,                              \* ProcessEngine
  MaxVersion, MaxFaults, MaxCrashes,     \* ProfileMigration
  Public, Private, MaxTunnelDials,       \* EgressGateway
  MaxEntries, MaxRecords,                \* MutationJournal
  MaxStarts, MaxAttempt,                 \* Observation
  g1, g2, a1, a2, k1, k2, u1, u2, v1     \* model values

VARIABLES
  part,
  call, process, nextID, reply, procCounters, observer, idleSeen, strays, procClosed,
  pc, modeTool, lifecycle, worker, modeRun, cancelled, ready, status, lock, enabled,
  starting,
  source, target, synced, migTool, runtime, expired, faults, crashes,
  method, at, addresses, dials, dialled, tunnel, reached,
  records, journalCounters, entries, dropped, requests,
  interval, lease, starts, stream, inbox, conn, holder, run, teardown

Engine == INSTANCE ProcessEngine WITH counters <- procCounters, closed <- procClosed
Mode == INSTANCE AgentMode WITH tool <- modeTool, run <- modeRun
Migration == INSTANCE ProfileMigration WITH tool <- migTool
Egress == INSTANCE EgressGateway
Journal == INSTANCE MutationJournal WITH counters <- journalCounters
Watch == INSTANCE Observation

Parts == {"selector", "engine", "mode", "mcp", "migration", "egress",
          "journal", "observation"}

\* What the proofs use of the values: the one that says there is none is none
\* of those it stands beside, and bounds are numbers.
ASSUME SelectorAssumption == None \notin Ids /\ None \notin Backends
ASSUME McpAssumption == MaxCalls \in Nat /\ MaxEpoch \in Nat \ {0}
ASSUME EngineAssumption == MaxStray \in Nat
ASSUME MigrationAssumption ==
  MaxVersion \in Nat \ {0} /\ MaxFaults \in Nat /\ MaxCrashes \in Nat
ASSUME EgressAssumption == None \notin Egress!Addresses /\ MaxTunnelDials \in Nat
ASSUME ObservationAssumption == MaxStarts \in Nat /\ MaxAttempt \in Nat \ {0}

engineVars ==
  <<call, process, nextID, reply, procCounters, observer, idleSeen, strays, procClosed>>
modeVars ==
  <<pc, modeTool, lifecycle, worker, modeRun, cancelled, ready, status, lock, enabled,
    starting>>
migrationVars == <<source, target, synced, migTool, runtime, expired, faults, crashes>>
egressVars == <<method, at, addresses, dials, dialled, tunnel, reached>>
journalVars == <<records, journalCounters, entries, dropped, requests>>
observationVars ==
  <<interval, lease, starts, stream, inbox, conn, holder, run, teardown>>

hostVars ==
  <<part, selVars, engineVars, modeVars, mcpVars,
    migrationVars, egressVars, journalVars, observationVars>>

\* Every component but p rests.
Rest(p) ==
  /\ UNCHANGED part
  /\ IF p = "selector" THEN TRUE ELSE UNCHANGED selVars
  /\ IF p = "engine" THEN TRUE ELSE UNCHANGED engineVars
  /\ IF p = "mode" THEN TRUE ELSE UNCHANGED modeVars
  /\ IF p = "mcp" THEN TRUE ELSE UNCHANGED mcpVars
  /\ IF p = "migration" THEN TRUE ELSE UNCHANGED migrationVars
  /\ IF p = "egress" THEN TRUE ELSE UNCHANGED egressVars
  /\ IF p = "journal" THEN TRUE ELSE UNCHANGED journalVars
  /\ IF p = "observation" THEN TRUE ELSE UNCHANGED observationVars

HostInit ==
  /\ part \in Parts
  /\ SelInit /\ (part = "selector" \/ ~official)
  /\ Engine!ProcInit
  /\ Mode!ModeInit /\ (part = "mode" \/ ~enabled)
  /\ McpInit /\ (part = "mcp" \/ supplier = "lease")
  /\ Migration!MigInit
  /\ Egress!GatewayInit
  /\ Journal!JournalInit
  /\ Watch!ObsInit /\ (part = "observation" \/ \A i \in Watch!Intervals : interval <= i)

HostNext ==
  \/ part = "selector" /\ SelNext /\ Rest("selector")
  \/ part = "engine" /\ Engine!ProcNext /\ Rest("engine")
  \/ part = "mode" /\ Mode!ModeNext /\ Rest("mode")
  \/ part = "mcp" /\ McpNext /\ Rest("mcp")
  \/ part = "migration" /\ Migration!MigNext /\ Rest("migration")
  \/ part = "egress" /\ Egress!GatewayNext /\ Rest("egress")
  \/ part = "journal" /\ Journal!JournalNext /\ Rest("journal")
  \/ part = "observation" /\ Watch!ObsNext /\ Rest("observation")

-----------------------------------------------------------------------------
(* The fairness of the components, see their modules.  Since one component *)
(* moves per behaviour, conditions of several share a WF or SF below: each *)
(* is the fairness of one action of the component that moves.              *)

Of(p, A) == part = p /\ A /\ Rest(p)

First ==
  \/ Of("engine", Engine!CallStep)
  \/ Of("migration", Migration!ToolStep)
  \/ Of("mode", Mode!WorkerGoes)
  \/ Of("mcp", ServeReturns)
  \/ Of("observation", \E s \in Watch!Starts : Watch!Expire(s))

Second(c) ==
  \/ Of("mode", Mode!DisableStep(IF c = 1 THEN "tool" ELSE "shutdown"))
  \/ Of("mcp", CallStep(c))
  \/ Of("observation", Watch!StreamStep(c))

Third(c) ==
  \/ c = 1 /\ Of("mode", Mode!EndTool)
  \/ Of("mcp", Deliver(c))
  \/ Of("observation", Watch!HandlerStep(c))

Often(c) ==
  \/ c = 1 /\ Of("migration", Migration!Open("finalize"))
  \/ Of("observation", Watch!Done(c))

HostFairness ==
  /\ WF_hostVars(First)
  /\ \A c \in 1..2 : /\ WF_hostVars(Second(c)) /\ WF_hostVars(Third(c))
                      /\ SF_hostVars(Often(c))

HostSpec == HostInit /\ [][HostNext]_hostVars /\ HostFairness
-----------------------------------------------------------------------------
(* The properties of the components, each stated with its reasons in the   *)
(* module of the component; those of McpServer and BackendSelector, which  *)
(* have proofs, are checked under the names they have there.               *)

\* The types of all of them.
HostTypeOK ==
  /\ part \in Parts
  /\ SelTypeOK /\ Engine!ProcTypeOK /\ Mode!ModeTypeOK /\ McpTypeOK
  /\ Migration!MigTypeOK /\ Egress!GatewayTypeOK
  /\ Watch!ObsTypeOK

\* Only the selected backend has a live Session, and the operations observer
\* is shown that backend for the Run the selector serves.
OneBackendShown == OneLiveBackend /\ ShownIsSelected

\* A caller of the engine is given the answer to its own request, and an
\* engine that still owes an answer is asked nothing.
OwnAnswer == Engine!AnswersOwnRequest /\ Engine!OneRequestOwed

\* A frame is reported as taken during an action only if it was.
ClaimSpansAction == Engine!ClaimSpansAction

\* What somebody waits for in the component that moves.
Waited ==
  \/ part = "engine" /\ call.at # "idle" /\ ~Engine!Writes
  \/ part = "mcp" /\ serve = "ended"
  \/ part = "observation" /\ \E s \in Watch!Starts :
       /\ ~Watch!Is(s, "none")
       /\ ~(Watch!Is(s, "gone") \/ Watch!Is(s, "farewell")) \/ holder = s

\* Every request to the engine ends or is being written to a process that lives,
\* the Browser MCP server returns from Serve when its input has ended, and every
\* observation gives the Runtime's one observer lease back and comes at least to
\* its stopped event.  One component moves per behaviour: this is CallsEnd,
\* ServeEnds and ObservationEnds.
RequestsEnd == Waited ~> ~Waited

\* A worker runs under the lock of its state directory only, and what a tool
\* call that succeeded said of Agent Mode is so.
ModeTruthful == Mode!WorkerHoldsLock /\ Mode!ToolTold

\* A worker that was asked to stop stops.
CancelledEnds == Mode!CancelledEnds

\* A store the Runtime may open holds the whole migrated Profile, and nothing
\* saved since is left behind in the old one.
MigrationKeeps == Migration!MigrationKeeps

\* A migration that was cut off is brought to its end by finalize.
FinalizeCompletes == Migration!FinalizeCompletes

\* A proxied request reaches one destination at most, and a validated one.
OneValidatedDestination == Egress!OneValidatedDestination

\* The journal accounts for every outcome of an action.
JournalAccounts == Journal!JournalAccounts

\* A frame is published under the attempt it was taken of.
FrameOfAttempt == Watch!FrameOfAttempt

\* A stream that exits late does not end a newer observation.
NewerSurvives == Watch!NewerSurvives
=============================================================================
