---------------------------- MODULE ProcessEngine ----------------------------
(***************************************************************************)
(* The supervisor of the Browser engine process (process_engine.go): one   *)
(* request at a time, a line out and a line in.  A request that times out  *)
(* or is answered wrongly costs the process, so that no later request can  *)
(* read its answer.  The operations observer takes a frame without the     *)
(* lock and samples two atomic counters before and after it                *)
(* (profile_engine.go ObserveOps) to tell whether an action was running.   *)
(* The engine process itself is external: it may answer, answer wrongly,   *)
(* write a line nobody asked for, stay silent or end.                      *)
(***************************************************************************)
EXTENDS Naturals, Sequences, FiniteSets

CONSTANTS
  MaxCalls,    \* bound: requests, and actions begun
  MaxStray     \* bound: lines nobody asked for

VARIABLES
  call,      \* the request that holds engine.mu: kind and where it is
  process,   \* what engine.process refers to: see NoProcess
  nextID,    \* engine.nextID
  reply,     \* the answer returned last, and the request it was returned to
  counters,  \* actionsStarted, actionsInFlight
  observer,  \* the observer's call: where it is and what it has sampled
  idleSeen,  \* ghost: no action held the engine at some instant of the capture
  strays,    \* lines nobody asked for, so far
  closed

procVars == <<call, process, nextID, reply, counters, observer, idleSeen, strays, closed>>
caller == <<call, nextID, reply>>
watcher == <<observer, idleSeen>>

NoProcess == [runs |-> FALSE, alive |-> FALSE, asked |-> {}, lines |-> <<>>]
NewProcess == [runs |-> TRUE, alive |-> TRUE, asked |-> {}, lines |-> <<>>]
Line == [id : 0..MaxCalls, shape : {"ok", "error", "invalid"}]

Idle == [kind |-> "-", at |-> "idle"]
At(step) == call.at = step
Go(step) == call' = [call EXCEPT !.at = step]

\* An action holds the engine.
Acting == call.kind = "action"

\* Mutant of Reset: the process is kept.
ResetNothing(p) == p

\* closeProcess(false) of resetProcess: pipes closed, the group killed, its
\* unread output dropped with it.
Reset(p) == NoProcess

\* The ghost of the observer: an instant without an action during a capture.
SeeIdle == idleSeen' = (idleSeen \/ (observer.at = "capture" /\ call'.kind # "action"))
-----------------------------------------------------------------------------
(* Execute and ExecuteViewer.  An action is counted on its way in and out. *)

Begin ==
  /\ ~closed /\ At("idle")
  /\ nextID < MaxCalls /\ counters.started < MaxCalls
  /\ \E kind \in {"action", "viewer"} :
       /\ call' = [kind |-> kind, at |-> "counted"]
       /\ counters' = IF kind = "action"
                      THEN [counters EXCEPT !.started = @ + 1] ELSE counters
  /\ SeeIdle
  /\ UNCHANGED <<process, nextID, reply, observer, strays, closed>>

CountInFlight ==
  /\ At("counted") /\ Go("entered")
  /\ counters' = IF Acting THEN [counters EXCEPT !.inFlight = @ + 1] ELSE counters
  /\ UNCHANGED <<process, nextID, reply, watcher, strays, closed>>

\* The context ended already, or the process cannot be started.
Refuse ==
  /\ At("entered") /\ Go("leaving")
  /\ UNCHANGED <<process, nextID, reply, counters, watcher, strays, closed>>

\* ensureProcess; the write of the request line begins.  It has no deadline, and
\* a line may be longer than the pipe holds.
Send ==
  /\ At("entered") /\ Go("writing")
  /\ process' = IF process.runs THEN process ELSE NewProcess
  /\ UNCHANGED <<nextID, reply, counters, watcher, strays, closed>>

\* The line with its new action id is written.
Written ==
  /\ At("writing") /\ process.alive /\ Go("waiting")
  /\ nextID' = nextID + 1
  /\ process' = [process EXCEPT !.asked = @ \cup {nextID'}]
  /\ UNCHANGED <<reply, counters, watcher, strays, closed>>

\* The write fails, as it does once the process has ended.
WriteFails ==
  /\ At("writing") /\ Go("leaving")
  /\ nextID' = nextID + 1
  /\ process' = Reset(process)
  /\ UNCHANGED <<reply, counters, watcher, strays, closed>>

\* No deadline, or no encoding.
SendFails ==
  /\ At("entered") /\ Go("leaving")
  /\ nextID' = nextID + 1
  /\ process' = Reset(process)
  /\ UNCHANGED <<reply, counters, watcher, strays, closed>>

\* Mutant of Accepts: the action id is not compared.
AcceptsAny(line, id) == line.shape \in {"ok", "error"}

\* A line is an answer to request id (decodeEngineResponse and its viewer
\* twin): its contract and action id match and its payload is well-formed.
Accepts(line, id) == line.id = id /\ line.shape \in {"ok", "error"}

\* The reader has a line: a good one, the Browser's own failure included, is
\* returned; anything else costs the process.
Read ==
  /\ At("waiting") /\ process.lines # <<>> /\ Go("leaving")
  /\ LET line == Head(process.lines) IN
     IF Accepts(line, nextID)
     THEN /\ reply' = [to |-> nextID, answer |-> line.id]
          /\ process' = [process EXCEPT !.lines = Tail(@)]
     ELSE process' = Reset(process) /\ UNCHANGED reply
  /\ UNCHANGED <<nextID, counters, watcher, strays, closed>>

\* The pipe ended, or the line was too long.
ReadFails ==
  /\ At("waiting") /\ Go("leaving")
  /\ ~process.alive \/ process.lines # <<>>
  /\ process' = Reset(process)
  /\ UNCHANGED <<nextID, reply, counters, watcher, strays, closed>>

\* Mutant of TimeOut: the wait has no deadline.
NoTimeOut == FALSE

\* The deadline, before the line or just after it.
TimeOut ==
  /\ At("waiting") /\ Go("leaving")
  /\ process' = Reset(process)
  /\ UNCHANGED <<nextID, reply, counters, watcher, strays, closed>>

\* The deferred calls: the action is no longer in flight, then mu is free.
Leave ==
  /\ At("leaving") /\ Go("unlocking")
  /\ counters' = IF Acting THEN [counters EXCEPT !.inFlight = @ - 1] ELSE counters
  /\ UNCHANGED <<process, nextID, reply, watcher, strays, closed>>

Unlock ==
  /\ At("unlocking") /\ call' = Idle
  /\ SeeIdle
  /\ UNCHANGED <<process, nextID, reply, counters, observer, strays, closed>>

\* Close: closeProcess(true) lets the process end by itself, then kills it.
Close ==
  /\ ~closed /\ At("idle")
  /\ closed' = TRUE /\ process' = NoProcess
  /\ UNCHANGED <<caller, counters, watcher, strays>>
-----------------------------------------------------------------------------
(* The engine process.                                                     *)

Answer ==
  /\ process.alive
  /\ \E id \in process.asked, shape \in {"ok", "error", "invalid"} :
       process' = [process EXCEPT !.asked = @ \ {id},
                     !.lines = Append(@, [id |-> id, shape |-> shape])]
  /\ UNCHANGED <<caller, counters, watcher, strays, closed>>

Stray ==
  /\ process.alive /\ strays < MaxStray
  /\ strays' = strays + 1
  /\ \E id \in (0..nextID) \ process.asked :
       process' = [process EXCEPT !.lines = Append(@, [id |-> id, shape |-> "ok"])]
  /\ UNCHANGED <<caller, counters, watcher, closed>>

Die ==
  /\ process.alive
  /\ process' = [process EXCEPT !.alive = FALSE]
  /\ UNCHANGED <<caller, counters, watcher, strays, closed>>
-----------------------------------------------------------------------------
(* ObserveOps: ActionInFlightSample, the frame, ActionInFlightSample.  A   *)
(* sample loads the two counters one after the other.                      *)

Observes(step) == observer.at = step
InFlight == counters.inFlight > 0

\* The counter that a sample loads first: whether an action is in flight.
FirstLoad(sample) == [sample EXCEPT !.inFlight = InFlight]
SecondLoad(sample) == [sample EXCEPT !.started = counters.started]

NoSample == [started |-> 0, inFlight |-> FALSE]

\* Mutant of Executing: the numbers of started actions are not compared.
ExecutingEnds(before, after) == before.inFlight /\ after.inFlight

\* One action was in flight at both ends and none started in between.
Executing(before, after) ==
  before.inFlight /\ after.inFlight /\ before.started = after.started

ObserveBefore ==
  /\ Observes("idle")
  /\ observer' = [at |-> "before", before |-> FirstLoad(NoSample),
                  after |-> NoSample, executing |-> FALSE]
  /\ idleSeen' = FALSE
  /\ UNCHANGED <<caller, process, counters, strays, closed>>

ObserveCapture ==
  /\ Observes("before")
  /\ observer' = [observer EXCEPT !.at = "capture", !.before = SecondLoad(@)]
  /\ idleSeen' = ~Acting
  /\ UNCHANGED <<caller, process, counters, strays, closed>>

ObserveAfter ==
  /\ Observes("capture")
  /\ observer' = [observer EXCEPT !.at = "after", !.after = FirstLoad(@)]
  /\ UNCHANGED <<caller, process, counters, idleSeen, strays, closed>>

ObserveReport ==
  /\ Observes("after")
  /\ LET after == SecondLoad(observer.after) IN
     observer' = [observer EXCEPT !.at = "reported", !.after = after,
                    !.executing = Executing(observer.before, after)]
  /\ UNCHANGED <<caller, process, counters, idleSeen, strays, closed>>

\* The frame is delivered, or the capture failed or was busy.
ObserveEnd ==
  /\ observer.at \in {"capture", "reported"}
  /\ observer' = [at |-> "idle", before |-> NoSample, after |-> NoSample,
                  executing |-> FALSE]
  /\ idleSeen' = FALSE
  /\ UNCHANGED <<caller, process, counters, strays, closed>>

ProcInit ==
  /\ call = Idle
  /\ process = NoProcess
  /\ nextID = 0
  /\ reply = [to |-> 0, answer |-> 0]
  /\ counters = [started |-> 0, inFlight |-> 0]
  /\ observer = [at |-> "idle", before |-> NoSample, after |-> NoSample,
                 executing |-> FALSE]
  /\ idleSeen = FALSE
  /\ strays = 0
  /\ closed = FALSE

\* The steps of a call that does not wait, the deadline that ends a wait, and
\* the end of a process that ends a write.
CallStep ==
  \/ CountInFlight \/ Refuse \/ Send \/ SendFails \/ (~process.alive /\ WriteFails)
  \/ Read \/ ReadFails \/ TimeOut \/ Leave \/ Unlock

ProcNext ==
  \/ Begin \/ CallStep \/ Written \/ WriteFails \/ Close
  \/ Answer \/ Stray \/ Die
  \/ ObserveBefore \/ ObserveCapture \/ ObserveAfter \/ ObserveReport \/ ObserveEnd

ProcSpec == ProcInit /\ [][ProcNext]_procVars /\ WF_procVars(CallStep)
-----------------------------------------------------------------------------
ProcTypeOK ==
  /\ call \in [kind : {"-", "action", "viewer"},
               at : {"idle", "counted", "entered", "writing", "waiting", "leaving",
                     "unlocking"}]
  /\ process \in [runs : BOOLEAN, alive : BOOLEAN, asked : SUBSET (1..MaxCalls),
                  lines : Seq(Line)]
  /\ nextID \in 0..MaxCalls
  /\ reply \in [to : 0..MaxCalls, answer : 0..MaxCalls]
  /\ counters.started \in Nat /\ counters.inFlight \in 0..1
  /\ idleSeen \in BOOLEAN /\ closed \in BOOLEAN
  /\ strays \in 0..MaxStray

\* Whatever the engine process writes, late or unasked, a caller is given the
\* answer to its own request.
AnswersOwnRequest == reply.to = reply.answer

\* A process that still owes an answer is not asked again: a request that
\* timed out has cost its process.
OneRequestOwed == Cardinality(process.asked) <= 1

\* A frame is reported as taken during an action only if an action held the
\* engine at every instant from the start of the capture to its end.
ClaimSpansAction == observer.executing => ~idleSeen

\* A call writes to an engine process that lives, and may not read.
Writes == At("writing") /\ process.alive

\* Every call ends or writes to a process that lives: the deadline bounds the
\* wait for an engine that is silent, but not the write before it.
CallsEnd == call.at # "idle" ~> (call.at = "idle" \/ Writes)
=============================================================================
