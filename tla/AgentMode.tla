------------------------------ MODULE AgentMode ------------------------------
(***************************************************************************)
(* Agent Mode: the Runtime Worker that a plugin host starts and stops      *)
(* (agent/service.go), and the bridge that asks for it                     *)
(* (pluginbridge/server.go).  Three goroutines meet in the service: a tool *)
(* call or the start-up of the bridge, which agentMu keeps apart; the      *)
(* shutdown of the bridge, which takes no agentMu; and the worker's own.   *)
(* lifecycleMu is held by Enable until the worker is launched and by       *)
(* Disable to its end.  What the worker does inside is external.           *)
(***************************************************************************)
EXTENDS Naturals

VARIABLES
  pc,         \* where each caller of the service is
  tool,       \* the operation under agentMu, and the outcome of the last one
  lifecycle,  \* who holds lifecycleMu
  worker,     \* service.worker is set
  run,        \* the worker goroutine
  cancelled,  \* its lifetime was cancelled
  ready,      \* OnReady was called
  status,     \* service.status.State
  lock,       \* the lock of the state directory
  enabled,    \* Agent Mode is enabled in the configuration
  starting    \* the start-up goroutine of an enabled host has still to run

modeVars == <<pc, tool, lifecycle, worker, run, cancelled, ready, status, lock,
              enabled, starting>>
service == <<worker, run, cancelled, ready, status, lock>>

Callers == {"tool", "shutdown"}
NoOp == [op |-> "none", ok |-> TRUE]
Move(c, step) == pc' = [pc EXCEPT ![c] = step]
Returns(c, ok) == Move(c, IF ok THEN "returned" ELSE "failed")
-----------------------------------------------------------------------------
(* The bridge: Serve, callTool and shutdown.                               *)

\* Where an enable begins: a worker that is ready already is left alone.
EnableStep == IF status = "ready" THEN "returned" ELSE "enable"

\* The goroutine of Serve that starts the worker of a host that was enabled when
\* it came up; it may get agentMu after tools that disabled it.
StartUp ==
  /\ pc["tool"] = "idle" /\ starting
  /\ starting' = FALSE
  /\ tool' = [op |-> "startup", ok |-> TRUE]
  /\ Move("tool", EnableStep)
  /\ UNCHANGED <<lifecycle, service, enabled>>

\* enable_agent_mode or disable_agent_mode gets agentMu, while Serve runs or, if
\* it waited there, while it shuts down.  An enable that cannot save the
\* configuration ends there, whether or not the file has changed.
StartTool ==
  /\ pc["tool"] = "idle"
  /\ pc["shutdown"] \notin {"returned", "failed"}
  /\ \/ /\ tool' = [op |-> "disable", ok |-> TRUE]
        /\ Move("tool", "disable") /\ UNCHANGED enabled
     \/ /\ tool' = [op |-> "enable", ok |-> TRUE]
        /\ Move("tool", EnableStep) /\ enabled' = TRUE
     \/ /\ tool' = [op |-> "enable", ok |-> FALSE]
        /\ enabled' \in {enabled, TRUE} /\ UNCHANGED pc
  /\ UNCHANGED <<lifecycle, service, starting>>

\* The operation ends.  A failed enable and a successful disable set the
\* configuration to disabled; if that cannot be saved the disable fails, and
\* the enable has failed already.
EndTool ==
  /\ pc["tool"] \in {"returned", "failed"}
  /\ LET ok == pc["tool"] = "returned" IN
     IF tool.op = "startup" \/ (tool.op = "enable" <=> ok)
     THEN tool' = [tool EXCEPT !.ok = ok] /\ UNCHANGED enabled
     ELSE \E saved \in BOOLEAN :
            /\ tool' = [tool EXCEPT !.ok = ok /\ saved]
            /\ enabled' \in (IF saved THEN {FALSE} ELSE {enabled, FALSE})
  /\ Move("tool", "idle")
  /\ UNCHANGED <<lifecycle, service, starting>>

\* The input ends or the context is done: shutdown disables without agentMu.
Shutdown ==
  /\ pc["shutdown"] = "idle"
  /\ Move("shutdown", "disable")
  /\ UNCHANGED <<tool, lifecycle, service, enabled, starting>>
-----------------------------------------------------------------------------
(* Enable.                                                                 *)

EnableRejected ==
  /\ pc["tool"] = "enable" /\ lifecycle = "free"
  /\ worker
  /\ Move("tool", "failed")
  /\ UNCHANGED <<tool, lifecycle, service, enabled, starting>>

\* resolveRuntime fails before it has the lock, for want of it, or gives it
\* back; a feature flag that cannot be parsed leaves the lock taken.
EnableUnresolved ==
  /\ pc["tool"] = "enable" /\ lifecycle = "free"
  /\ ~worker
  /\ status' = "error"
  /\ lock' \in {lock} \cup (IF lock = "free" THEN {"leaked"} ELSE {})
  /\ Move("tool", "failed")
  /\ UNCHANGED <<tool, lifecycle, worker, run, cancelled, ready, enabled, starting>>

\* NewRuntimeWorker fails.
EnableUnbuilt ==
  /\ pc["tool"] = "enable" /\ lifecycle = "free"
  /\ ~worker /\ lock = "free"
  /\ Move("tool", "failed")
  /\ UNCHANGED <<tool, lifecycle, service, enabled, starting>>

\* The worker is launched and lifecycleMu given back before the wait.
EnableLaunches ==
  /\ pc["tool"] = "enable" /\ lifecycle = "free"
  /\ ~worker /\ lock = "free"
  /\ worker' = TRUE /\ run' = "running" /\ lock' = "worker"
  /\ cancelled' = FALSE /\ ready' = FALSE /\ status' = "starting"
  /\ Move("tool", "enableWait")
  /\ UNCHANGED <<tool, lifecycle, enabled, starting>>

\* One of the three events of the select.
EnableWaits ==
  /\ pc["tool"] = "enableWait"
  /\ \/ ready /\ Returns("tool", TRUE)
     \/ run = "ended" /\ Returns("tool", FALSE)
     \/ Move("tool", "disable")              \* the caller's context ended
  /\ tool' = [tool EXCEPT !.ok = (pc'["tool"] = "returned")]
  /\ UNCHANGED <<lifecycle, service, enabled, starting>>
-----------------------------------------------------------------------------
(* Disable.                                                                *)

\* An Enable that disables because its context ended reports that error.
DisableOk(c) == c = "shutdown" \/ tool.ok

DisableNothing(c) ==
  /\ pc[c] = "disable" /\ lifecycle = "free"
  /\ ~worker
  /\ Returns(c, DisableOk(c))
  /\ UNCHANGED <<tool, lifecycle, service, enabled, starting>>

\* A worker that is not ready yet is cancelled at once, a ready one drained.
DisableBegins(c) ==
  /\ pc[c] = "disable" /\ lifecycle = "free"
  /\ worker
  /\ lifecycle' = c /\ status' = "draining"
  /\ IF status = "ready" THEN Move(c, "drain") /\ UNCHANGED cancelled
     ELSE Move(c, "disableWait") /\ cancelled' = TRUE
  /\ UNCHANGED <<tool, worker, run, ready, lock, enabled, starting>>

\* Drain returned, within its timeout or not.
DisableDrained(c) ==
  /\ pc[c] = "drain"
  /\ cancelled' = TRUE
  /\ pc' \in {[pc EXCEPT ![c] = "disableWait"], [pc EXCEPT ![c] = "disableFailed"]}
  /\ UNCHANGED <<tool, lifecycle, worker, run, ready, status, lock, enabled, starting>>

\* Mutant of WorkerEnded: it is enough that the worker was cancelled.
WorkerCancelled == cancelled

\* The channel done delivers.
WorkerEnded == run = "ended"

DisableEnds(c) ==
  /\ pc[c] \in {"disableWait", "disableFailed"} /\ WorkerEnded
  /\ \/ pc[c] = "disableWait" /\ Returns(c, DisableOk(c))
     \/ Returns(c, FALSE)                    \* the worker or the drain failed
  /\ lifecycle' = "free"
  /\ UNCHANGED <<tool, service, enabled, starting>>

\* The caller's context ends first: the worker is left to end by itself.
DisableTimesOut(c) ==
  /\ pc[c] \in {"disableWait", "disableFailed"}
  /\ Returns(c, FALSE)
  /\ lifecycle' = "free"
  /\ UNCHANGED <<tool, service, enabled, starting>>
-----------------------------------------------------------------------------
(* The goroutine of the worker.                                            *)

\* OnReady, at the first connection and at every later one.
WorkerReady ==
  /\ run = "running"
  /\ ready' = TRUE /\ status' = "ready"
  /\ UNCHANGED <<pc, tool, lifecycle, worker, run, cancelled, lock, enabled, starting>>

\* Start returns, cancelled or by itself, and only then the lock is released.
WorkerStops ==
  /\ run = "running"
  /\ run' = "stopped" /\ lock' = "free"
  /\ UNCHANGED <<pc, tool, lifecycle, worker, cancelled, ready, status, enabled, starting>>

\* Mutant of WorkerClears: done is closed before the service lets go.
WorkerClearsLate ==
  /\ run = "stopped"
  /\ run' = "ended"
  /\ UNCHANGED <<pc, tool, lifecycle, worker, cancelled, ready, status, lock, enabled, starting>>

\* The service lets go of it and its last state is published.
WorkerClears ==
  /\ run = "stopped"
  /\ run' = "cleared" /\ worker' = FALSE
  /\ status' \in {"stopped", "error"}
  /\ UNCHANGED <<pc, tool, lifecycle, cancelled, ready, lock, enabled, starting>>

WorkerEnds ==
  /\ run = "cleared"
  /\ run' = "ended"
  /\ UNCHANGED <<pc, tool, lifecycle, worker, cancelled, ready, status, lock, enabled, starting>>

\* Another process takes the state directory, and gives it back.
OtherHost ==
  /\ \/ lock = "free" /\ lock' = "other"
     \/ lock = "other" /\ lock' = "free"
  /\ UNCHANGED <<pc, tool, lifecycle, worker, run, cancelled, ready, status, enabled, starting>>

ModeInit ==
  /\ pc = [c \in Callers |-> "idle"]
  /\ tool = NoOp
  /\ lifecycle = "free"
  /\ worker = FALSE /\ run = "ended" /\ cancelled = FALSE /\ ready = FALSE
  /\ status = "stopped" /\ lock = "free"
  /\ enabled \in BOOLEAN /\ starting = enabled

DisableStep(c) ==
  \/ DisableNothing(c) \/ DisableBegins(c) \/ DisableDrained(c)
  \/ DisableEnds(c) \/ DisableTimesOut(c)

WorkerGoes == WorkerClears \/ WorkerEnds \/ (cancelled /\ WorkerStops)

ModeNext ==
  \/ StartUp \/ StartTool \/ EndTool \/ Shutdown
  \/ EnableRejected \/ EnableUnresolved \/ EnableUnbuilt \/ EnableLaunches \/ EnableWaits
  \/ \E c \in Callers : DisableStep(c)
  \/ WorkerReady \/ WorkerStops \/ WorkerClears \/ WorkerEnds
  \/ OtherHost

\* Drain has a timeout, and a worker whose lifetime is cancelled returns.
ModeFairness ==
  /\ WF_modeVars(WorkerGoes)
  /\ \A c \in Callers : WF_modeVars(DisableStep(c))
  /\ WF_modeVars(EndTool)

ModeSpec == ModeInit /\ [][ModeNext]_modeVars /\ ModeFairness
-----------------------------------------------------------------------------
ModeTypeOK ==
  /\ pc \in [Callers -> {"idle", "enable", "enableWait", "disable", "drain",
                          "disableWait", "disableFailed", "returned", "failed"}]
  /\ tool \in [op : {"none", "startup", "enable", "disable"}, ok : BOOLEAN]
  /\ lifecycle \in Callers \cup {"free"}
  /\ run \in {"running", "stopped", "cleared", "ended"}
  /\ status \in {"stopped", "starting", "ready", "draining", "error"}
  /\ lock \in {"free", "worker", "leaked", "other"}
  /\ {worker, cancelled, ready, enabled, starting} \subseteq BOOLEAN

\* A worker runs only under the lock of its state directory, however Enable,
\* Disable, shutdown and the worker's own end interleave: two hosts, or two
\* generations of one host, never serve from it at the same time.
WorkerHoldsLock == run = "running" => worker /\ lock = "worker"

\* What a tool call reported is what is there until the next operation: a
\* disable that succeeded has left no worker, although the shutdown and the
\* worker's own end work on the service without agentMu, and the configuration
\* is as the last successful call said.  A call that failed says nothing: its
\* writes may have failed too, and its worker may still be ending.
ToolTold ==
  (pc["tool"] = "idle" /\ tool.ok) =>
    /\ tool.op = "enable" => enabled
    /\ tool.op = "disable" => ~enabled /\ ~worker

\* A worker that was asked to stop stops, even if it becomes ready meanwhile
\* or its Disable gives up waiting.
CancelledEnds == cancelled ~> ~worker
=============================================================================
