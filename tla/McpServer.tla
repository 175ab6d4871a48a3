------------------------------ MODULE McpServer ------------------------------
(***************************************************************************)
(* The Browser MCP server (browserplugin/server.go) on one connection.     *)
(* Serve is one loop; every request runs in a goroutine of its own; tool   *)
(* calls meet at actionMu.  The answer to a tool call carries the          *)
(* attachment evidence of a Session epoch that has not been given yet.     *)
(* Cancelling a request by its id only makes it likelier to fail, which    *)
(* every request may.  The lease that supplies the evidence and the        *)
(* Browser client are external.                                            *)
(***************************************************************************)
EXTENDS Naturals, FiniteSets

CONSTANTS
  Keys,       \* JSON-RPC request ids
  MaxCalls,   \* bound: requests of a connection
  MaxEpoch    \* bound: control epochs of the Session

Calls == 1..MaxCalls
NoCall == 0

VARIABLES
  calls,      \* the requests: id, kind, where each is, the epoch it has seen
  cancels,    \* the call whose cancel function is registered under an id
  pending,    \* requests that Serve waits for
  serve,      \* "open", "ended" (the input has), or "returned"
  mutex,      \* the call that holds actionMu
  closed,     \* the attachment was closed by this connection
  direct,     \* no EvidenceSupplier: the epoch of the first preflight, or 0
  supplier,   \* where evidence comes from
  epoch,      \* the Session's control epoch
  evidence,   \* evidenceKey and evidenceEmitted
  carries,    \* the calls whose answer carries evidence
  told        \* ghost: the epochs whose evidence was delivered

mcpVars == <<calls, cancels, pending, serve, mutex, closed, direct, supplier,
             epoch, evidence, carries, told>>
attachment == <<mutex, closed, direct>>
session == <<supplier, epoch>>
proof == <<evidence, carries, told>>

Fresh == [key |-> "-", kind |-> "-", at |-> "none", seen |-> 0]
At(c, step) == calls[c].at = step
Go(c, step) == calls' = [calls EXCEPT ![c].at = step]
-----------------------------------------------------------------------------
(* Serve.                                                                  *)

Duplicate(key) == cancels[key] # NoCall

\* A request with an id; a duplicate is answered at once, as are lines that
\* are not JSON, and nothing else happens.
Request ==
  /\ serve = "open"
  /\ \E key \in Keys, kind \in {"control", "act", "close"} :
       LET c == 1 + Cardinality({d \in Calls : ~At(d, "none")}) IN
       /\ c \in Calls /\ ~Duplicate(key)
       /\ calls' = [calls EXCEPT ![c] = [Fresh EXCEPT !.key = key, !.kind = kind, !.at = "arrived"]]
       /\ cancels' = [cancels EXCEPT ![key] = c]
  /\ pending' = pending + 1
  /\ UNCHANGED <<serve, attachment, session, proof>>

\* The input ends: everything pending is waited for.
InputEnds ==
  /\ serve = "open"
  /\ serve' = "ended"
  /\ UNCHANGED <<calls, cancels, pending, attachment, session, proof>>

\* A completed request is answered.  The requests end through one channel, in
\* the order their goroutines get to it.
Deliver(c) ==
  /\ serve # "returned" /\ At(c, "answered")
  /\ Go(c, "done")
  /\ IF cancels[calls[c].key] # NoCall
     THEN /\ cancels' = [cancels EXCEPT ![calls[c].key] = NoCall]
          /\ pending' = pending - 1
     ELSE UNCHANGED <<cancels, pending>>
  /\ told' = IF c \in carries THEN told \cup {calls[c].seen} ELSE told
  /\ UNCHANGED <<serve, attachment, session, evidence, carries>>

ServeReturns ==
  /\ serve = "ended" /\ pending = 0
  /\ serve' = "returned"
  /\ UNCHANGED <<calls, cancels, pending, attachment, session, proof>>

\* The context ends, or the input or the output fails: the requests under way
\* are left to end by themselves.
Abandon ==
  /\ serve # "returned"
  /\ serve' = "returned"
  /\ UNCHANGED <<calls, cancels, pending, attachment, session, proof>>
-----------------------------------------------------------------------------
(* A request: handle, callBrowser and takeAttachmentEvidence.              *)

\* initialize, ping, tools/list and what is no tool call are answered at
\* once; arguments that validateToolArguments refuses make a failed result.
Handle(c) ==
  /\ At(c, "arrived")
  /\ IF calls[c].kind = "control" THEN Go(c, "answered")
     ELSE Go(c, "valid") \/ Go(c, "result")
  /\ UNCHANGED <<cancels, pending, serve, attachment, session, proof>>

\* Mutant of MayEnter: tool calls do not wait for each other.
MayEnterAny == TRUE

\* actionMu
MayEnter == mutex = NoCall

\* A closed attachment refuses.
Enter(c) ==
  /\ At(c, "valid") /\ MayEnter
  /\ \/ closed /\ Go(c, "result") /\ UNCHANGED mutex
     \/ ~closed /\ Go(c, "entered") /\ mutex' = c
  /\ UNCHANGED <<cancels, pending, serve, closed, direct, session, proof>>

Leave(c) == Go(c, "result") /\ mutex' = NoCall

\* browserClient: there is none yet and the factory fails.
NoClient(c) ==
  /\ At(c, "entered") /\ Leave(c)
  /\ UNCHANGED <<cancels, pending, serve, closed, direct, session, proof>>

\* ensureDirectEvidence: the first call without a supplier is preceded by a
\* preflight, whose identity is the evidence from then on.
Preflight(c) ==
  /\ At(c, "entered") /\ supplier = "direct" /\ direct = 0
  /\ \/ direct' = epoch /\ UNCHANGED <<calls, mutex>>
     \/ Leave(c) /\ UNCHANGED direct
  /\ UNCHANGED <<cancels, pending, serve, closed, session, proof>>

\* client.Execute of the action, the batch or the close.
Act(c) ==
  /\ At(c, "entered") /\ (supplier = "direct" => direct # 0)
  /\ Go(c, "sent")
  /\ UNCHANGED <<cancels, pending, serve, mutex, closed, direct, session, proof>>

\* The Browser answers, or fails; a close that succeeded closes.
Finish(c) ==
  /\ At(c, "sent") /\ Leave(c)
  /\ closed' \in {closed, closed \/ calls[c].kind = "close"}
  /\ UNCHANGED <<cancels, pending, serve, direct, session, proof>>

\* The evidence there is: nothing if the lease is not active or has none.
Snapshot(c) ==
  /\ At(c, "result")
  /\ \E seen \in IF supplier = "lease" THEN {0, epoch} ELSE {direct} :
       calls' = [calls EXCEPT ![c].at = IF seen = 0 THEN "answered" ELSE "seen",
                              ![c].seen = seen]
  /\ UNCHANGED <<cancels, pending, serve, attachment, session, proof>>

\* Mutant of Keyed: a new key does not start anew.
KeyedStale(e) == [key |-> e, emitted |-> evidence.emitted]

\* The bookkeeping for evidence of epoch e.
Keyed(e) == IF evidence.key = e THEN evidence ELSE [key |-> e, emitted |-> FALSE]

\* The answer is built; it reaches the client when it is delivered.
Emit(c) ==
  /\ At(c, "seen") /\ Go(c, "answered")
  /\ LET e == calls[c].seen IN
     /\ evidence' = [Keyed(e) EXCEPT !.emitted = TRUE]
     /\ carries' = IF Keyed(e).emitted THEN carries ELSE carries \cup {c}
  /\ UNCHANGED <<cancels, pending, serve, attachment, session, told>>

\* Human control, or a renewed lease: the Session gets a new control epoch.
Rotate ==
  /\ epoch < MaxEpoch
  /\ epoch' = epoch + 1
  /\ UNCHANGED <<calls, cancels, pending, serve, attachment, supplier, proof>>

McpInit ==
  /\ calls = [c \in Calls |-> Fresh]
  /\ cancels = [k \in Keys |-> NoCall]
  /\ pending = 0
  /\ serve = "open"
  /\ mutex = NoCall
  /\ closed = FALSE
  /\ direct = 0 /\ supplier \in {"lease", "direct"}
  /\ epoch = 1
  /\ evidence = [key |-> 0, emitted |-> FALSE]
  /\ carries = {} /\ told = {}

CallStep(c) ==
  \/ Handle(c) \/ Enter(c) \/ NoClient(c) \/ Preflight(c) \/ Act(c) \/ Finish(c)
  \/ Snapshot(c) \/ Emit(c)

McpNext ==
  \/ Request \/ InputEnds \/ ServeReturns \/ Abandon
  \/ \E c \in Calls : Deliver(c) \/ CallStep(c)
  \/ Rotate

\* The Browser client answers in time and the loop takes what is there.
McpFairness ==
  /\ WF_mcpVars(ServeReturns)
  /\ \A c \in Calls : WF_mcpVars(Deliver(c)) /\ WF_mcpVars(CallStep(c))

McpSpec == McpInit /\ [][McpNext]_mcpVars /\ McpFairness
-----------------------------------------------------------------------------
McpTypeOK ==
  /\ calls \in [Calls -> [key : Keys \cup {"-"}, kind : {"-", "control", "act", "close"},
                 at : {"none", "arrived", "valid", "entered", "sent", "result",
                       "seen", "answered", "done"},
                 seen : 0..MaxEpoch]]
  /\ cancels \in [Keys -> Calls \cup {NoCall}]
  /\ pending \in 0..MaxCalls
  /\ serve \in {"open", "ended", "returned"}
  /\ mutex \in Calls \cup {NoCall}
  /\ closed \in BOOLEAN
  /\ direct \in 0..MaxEpoch /\ epoch \in 1..MaxEpoch
  /\ evidence \in [key : 0..MaxEpoch, emitted : BOOLEAN]
  /\ carries \subseteq Calls /\ told \subseteq 1..MaxEpoch

\* Once a connection has closed its attachment no call of it reaches the
\* Browser, those that were waiting while the close ran included.
NothingAfterClose == [][
  closed => \A c \in Calls : At(c, "sent")' => At(c, "sent")]_mcpVars

\* The client can know the environment and policy of every result: while an
\* answer that saw an epoch may overtake the one that carries its evidence, that
\* one is complete and waits to be delivered; and once nothing is pending every
\* epoch that was answered for has its evidence delivered.
EpochEvidenced ==
  /\ \A c \in Calls : (calls[c].at \in {"answered", "done"} /\ calls[c].seen # 0)
       => \/ calls[c].seen \in told
          \/ \E d \in carries : At(d, "answered") /\ calls[d].seen = calls[c].seen
  /\ pending = 0 => \A c \in Calls :
       (At(c, "done") /\ calls[c].seen # 0) => calls[c].seen \in told

\* When the input ends Serve returns: the requests under way are
\* waited for and answered, and none is forgotten or counted twice.
ServeEnds == serve = "ended" ~> serve = "returned"
=============================================================================
