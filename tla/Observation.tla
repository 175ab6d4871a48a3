----------------------------- MODULE Observation -----------------------------
(***************************************************************************)
(* Authenticated observation of a Run.  The Worker (browser_observation.go)*)
(* turns start commands of Core into streams, at most one of which owns    *)
(* the observation; a stream has a connection of its own to the Runtime    *)
(* (ops_observer_unix.go, ops_observer.go), whose first request claims the *)
(* one Runtime-wide lease (ops_observer_lease.go).  Core and the Browser's *)
(* captures are external.                                                  *)
(* A start command and its lease are a number: lease ids are UUIDs and do  *)
(* not repeat.  An attempt stands for a Run id, a Session epoch and an     *)
(* attachment digest.                                                      *)
(***************************************************************************)
EXTENDS Naturals

CONSTANTS
  MaxStarts,   \* bound: start commands the Worker accepts
  MaxAttempt   \* bound: attempts (attachments) of the Run

\* Two of the intervals that ObserverBridgeCommand.Validate accepts: the usual
\* one and the longest; and MaxOpsObserverDeadline, all in milliseconds.
Intervals == {500, 5000}
ReadDeadline == 2000

Starts == 1..MaxStarts
Free == 0

\* What a handler can answer, besides a frame (the number of its attempt).
NoReply == 0
Transient == MaxAttempt + 1  \* observerEngineErrorIsTransient
Failed == MaxAttempt + 2

VARIABLES
  interval,  \* FrameIntervalMS of the start commands
  lease,     \* browserObservation.leaseID
  starts,    \* the start commands accepted
  stream,    \* the goroutine of each: where it is, what it was asked for
  inbox,     \* a request is on its way to the handler
  conn,      \* the handler of each connection
  holder,    \* OpsObserverLeaseManager.active
  run,       \* identitySnapshot: the Worker's attempt
  teardown   \* the Run's end: captureFinalFrame, then the lease is closed

obsVars == <<interval, lease, starts, stream, inbox, conn, holder, run, teardown>>
scene == <<interval, run, teardown>>
wire == <<inbox, conn, holder>>

Idle == [at |-> "none", attempt |-> 0, alive |-> FALSE,
         snap |-> 0, final |-> FALSE, reply |-> NoReply]
Is(s, step) == stream[s].at = step
Move(s, step) == stream' = [stream EXCEPT ![s].at = step]
-----------------------------------------------------------------------------
(* Commands.                                                               *)

\* A start while an observation is open changes nothing: a replay is left to
\* the stream that is opening, any other is refused as busy.
Start ==
  /\ lease = Free /\ starts < MaxStarts
  /\ \E a \in 1..run :
       stream' = [stream EXCEPT ![starts + 1] =
                    [Idle EXCEPT !.at = "connecting", !.attempt = a, !.alive = TRUE]]
  /\ starts' = starts + 1
  /\ lease' = starts + 1
  /\ UNCHANGED <<wire, scene>>

\* Mutant of Owned: an exiting stream clears whatever observation is open.
OwnedAny(s) == lease # Free

Owned(s) == lease = s /\ lease # Free

\* stopLease: the observation is given up, then the stream is cancelled.
Stopped(s, streams) ==
  IF Owned(s)
  THEN /\ lease' = Free
       /\ stream' = [streams EXCEPT ![lease].alive = FALSE]
  ELSE /\ stream' = streams
       /\ UNCHANGED lease

\* A stop command, which names a lease, and the end of the command loop.
Stop ==
  /\ lease # Free
  /\ Stopped(lease, stream)
  /\ UNCHANGED <<starts, wire, scene>>

\* LeaseExpiresAt, or the end of the parent context.
Expire(s) ==
  /\ stream[s].alive
  /\ stream' = [stream EXCEPT ![s].alive = FALSE]
  /\ UNCHANGED <<lease, starts, wire, scene>>
-----------------------------------------------------------------------------
(* The stream.                                                             *)

\* NewOpsObserverStream.
Connect(s) ==
  /\ Is(s, "connecting")
  /\ \/ Move(s, "starting") /\ conn' = [conn EXCEPT ![s] = "open"]
     \/ Move(s, "leaving") /\ UNCHANGED conn
  /\ UNCHANGED <<lease, starts, inbox, holder, scene>>

\* An event is sent for the owner only; its acknowledgement may not come.
SendStarted(s) ==
  /\ Is(s, "starting")
  /\ (Owned(s) /\ Move(s, "select")) \/ Move(s, "closing")
  /\ UNCHANGED <<lease, starts, wire, scene>>

\* The select: the context has ended, and the owner says so to Core ...
Done(s) ==
  /\ Is(s, "select") /\ ~stream[s].alive
  /\ Move(s, IF Owned(s) THEN "farewell" ELSE "closing")
  /\ UNCHANGED <<lease, starts, wire, scene>>

\* ... by a stopped event, which is sent with a context that never ends: only an
\* acknowledgement, or an error of the publisher, lets the stream go on ...
Dismissed(s) ==
  /\ Is(s, "farewell")
  /\ Move(s, "closing")
  /\ UNCHANGED <<lease, starts, wire, scene>>

\* ... or the interval has passed, and the handler's read deadline before it
\* if that is the shorter ...
Tick(s) ==
  /\ Is(s, "select")
  /\ interval > ReadDeadline => conn[s] = "ended"
  /\ stream' = [stream EXCEPT ![s].at = "capturing", ![s].final = FALSE]
  /\ UNCHANGED <<lease, starts, wire, scene>>

\* ... or the Run's end asks for a last frame.
TakeFinal(s) ==
  /\ Is(s, "select") /\ teardown = "asking"
  /\ stream' = [stream EXCEPT ![s].at = "capturing", ![s].final = TRUE]
  /\ teardown' = "closing"
  /\ UNCHANGED <<lease, starts, wire, interval, run>>

\* The capture is over; the loop goes on, or ends.
Back(s, step) ==
  stream' = [stream EXCEPT ![s].at = step, ![s].snap = 0, ![s].final = FALSE,
                           ![s].reply = NoReply]

Ends(s) == Back(s, "closing")

\* commandNamesLocalAttempt of an active Run.
Names(s) == teardown # "over" /\ run = stream[s].attempt

\* captureMarked up to the request.
Capture(s) ==
  /\ Is(s, "capturing")
  /\ IF Names(s) /\ conn[s] # "ended"
     THEN /\ stream' = [stream EXCEPT ![s].at = "asked", ![s].snap = run, ![s].reply = NoReply]
          /\ inbox' = [inbox EXCEPT ![s] = TRUE]
     ELSE Ends(s) /\ UNCHANGED inbox
  /\ UNCHANGED <<lease, starts, conn, holder, scene>>

\* The request cannot be sent, its deadline passes, the context ends under it
\* or the connection does: none is a transient answer.
ObserveFails(s) ==
  /\ Is(s, "asked") \/ Is(s, "capturing")
  /\ Ends(s)
  /\ UNCHANGED <<lease, starts, wire, scene>>

\* Busy and run-not-active: a final capture tries again within its window and
\* while its context lives.
Retry(s) ==
  /\ Is(s, "asked") /\ stream[s].reply = Transient
  /\ \/ Back(s, "select")
     \/ stream[s].final /\ stream[s].alive /\ Move(s, "capturing")
  /\ UNCHANGED <<lease, starts, wire, scene>>

\* Mutant of Foreign: the frame is not compared with the snapshot.
ForeignNot(s) == FALSE

\* capturedFrameIsForeign.
Foreign(s) == stream[s].reply # stream[s].snap

\* A frame: published if it is of the attempt and the stream is the owner.
Receive(s) ==
  /\ Is(s, "asked") /\ stream[s].reply \in 1..MaxAttempt
  /\ IF ~Foreign(s) /\ Owned(s)
     THEN Move(s, "publishing")
     ELSE Ends(s)
  /\ UNCHANGED <<lease, starts, wire, scene>>

\* The acknowledgement of Core, or none.
Acknowledged(s) ==
  /\ Is(s, "publishing")
  /\ Back(s, "select") \/ Ends(s)
  /\ UNCHANGED <<lease, starts, wire, scene>>

\* The deferred calls: stream.Close, then stopLease of the stream's own lease.
CloseStream(s) ==
  /\ Is(s, "closing")
  /\ Move(s, "leaving")
  /\ UNCHANGED <<lease, starts, wire, scene>>

Exit(s) ==
  /\ Is(s, "leaving")
  /\ Stopped(s, [stream EXCEPT ![s] = [Idle EXCEPT !.at = "gone"]])
  /\ UNCHANGED <<starts, wire, scene>>
-----------------------------------------------------------------------------
(* The Runtime's handler of a connection.                                  *)

\* An answer nobody waits for any more is lost.
Answers(s, r) ==
  /\ inbox' = [inbox EXCEPT ![s] = FALSE]
  /\ stream' = IF Is(s, "asked") THEN [stream EXCEPT ![s].reply = r] ELSE stream

Released(s) == IF holder = s THEN Free ELSE holder

\* A first request is admitted; while another observer holds the lease it
\* is answered with an error and the handler returns.
Admit(s) ==
  /\ inbox[s] /\ conn[s] = "open"
  /\ IF holder = Free
     THEN /\ holder' = s /\ conn' = [conn EXCEPT ![s] = "admitted"]
          /\ UNCHANGED <<inbox, stream>>
     ELSE /\ conn' = [conn EXCEPT ![s] = "ended"]
          /\ Answers(s, Failed) /\ UNCHANGED holder
  /\ UNCHANGED <<lease, starts, scene>>

\* ObserveOps: no active Run, an Engine that is busy, a capture that fails or
\* does not validate, or a frame of the Runtime's attempt, which the Worker has
\* had.
Outcomes == 1..run \cup {Transient, Failed}

Observe(s) ==
  /\ inbox[s] /\ conn[s] = "admitted"
  /\ \E r \in Outcomes : Answers(s, r)
  /\ UNCHANGED <<lease, starts, conn, holder, scene>>

\* Between requests a handler waits two seconds at most: while the Worker
\* waits for Core's acknowledgement, or for a longer interval, that may pass.
Unattended(s) ==
  \/ Is(s, "starting") \/ Is(s, "publishing") \/ Is(s, "farewell")
  \/ Is(s, "select") /\ interval > ReadDeadline

Hangup(s) == Is(s, "leaving") \/ Is(s, "gone")

Ended(s) ==
  /\ conn' = [conn EXCEPT ![s] = "ended"]
  /\ holder' = IF conn[s] = "admitted" THEN Released(s) ELSE holder

\* Validate and AdmitRequest: the lease has expired, or has had as many
\* requests as it may.
Refuse(s) ==
  /\ inbox[s] /\ conn[s] = "admitted"
  /\ Answers(s, Failed) /\ Ended(s)
  /\ UNCHANGED <<lease, starts, scene>>

\* The handler returns at the end of its connection or at the read deadline,
\* and releases its lease.
ReadEnds(s) ==
  /\ conn[s] \in {"open", "admitted"} /\ ~inbox[s]
  /\ Hangup(s) \/ Unattended(s)
  /\ Ended(s)
  /\ UNCHANGED <<lease, starts, stream, inbox, scene>>
-----------------------------------------------------------------------------
(* The Run.                                                                *)

\* Human control rotates the attachment.
Rotate ==
  /\ run < MaxAttempt
  /\ run' = run + 1
  /\ UNCHANGED <<interval, lease, starts, stream, wire, teardown>>

\* The Run ends: captureFinalFrame asks a stream there is.  The wait for it
\* is bounded (finalCaptureDeadline), so that it may or may not be over ...
EndRun ==
  /\ teardown = "running"
  /\ teardown' = IF lease = Free THEN "closing" ELSE "asking"
  /\ UNCHANGED <<interval, lease, starts, stream, wire, run>>

\* ... when the lease is closed.
CloseLease ==
  /\ teardown \in {"asking", "closing"}
  /\ teardown' = "over"
  /\ UNCHANGED <<interval, lease, starts, stream, wire, run>>

ObsInit ==
  /\ lease = Free /\ starts = 0
  /\ stream = [s \in Starts |-> Idle]
  /\ inbox = [s \in Starts |-> FALSE]
  /\ conn = [s \in Starts |-> "none"]
  /\ holder = Free
  /\ run = 1 /\ interval \in Intervals
  /\ teardown = "running"

StreamStep(s) ==
  \/ Connect(s) \/ SendStarted(s) \/ Capture(s) \/ ObserveFails(s) \/ Retry(s)
  \/ Receive(s) \/ Acknowledged(s) \/ CloseStream(s) \/ Exit(s)

HandlerStep(s) == Admit(s) \/ Observe(s) \/ Refuse(s) \/ ReadEnds(s)

ObsNext ==
  \/ Start \/ Stop
  \/ \E s \in Starts : \/ Expire(s) \/ Done(s) \/ Dismissed(s) \/ Tick(s) \/ TakeFinal(s)
                       \/ StreamStep(s) \/ HandlerStep(s)
  \/ Rotate \/ EndRun \/ CloseLease

\* Deadlines pass, goroutines run; a select that is offered the end of its
\* context again and again takes it, for it chooses at random.  Nothing bounds
\* the wait for the acknowledgement of a stopped event: Dismissed has no
\* fairness.
ObsFairness ==
  /\ WF_obsVars(\E s \in Starts : Expire(s))
  /\ \A s \in Starts : /\ SF_obsVars(Done(s)) /\ WF_obsVars(StreamStep(s))
                       /\ WF_obsVars(HandlerStep(s))

ObsSpec == ObsInit /\ [][ObsNext]_obsVars /\ ObsFairness
-----------------------------------------------------------------------------
ObsTypeOK ==
  /\ lease \in Starts \cup {Free} /\ starts \in 0..MaxStarts
  /\ stream \in [Starts -> [at : {"none", "connecting", "starting", "select", "capturing",
                                  "asked", "publishing", "farewell", "closing", "leaving", "gone"},
                            attempt : 0..MaxAttempt, alive : BOOLEAN,
                            snap : 0..MaxAttempt, final : BOOLEAN, reply : NoReply..Failed]]
  /\ inbox \in [Starts -> BOOLEAN]
  /\ conn \in [Starts -> {"none", "open", "admitted", "ended"}]
  /\ holder \in Starts \cup {Free}
  /\ run \in 1..MaxAttempt /\ interval \in Intervals
  /\ teardown \in {"running", "asking", "closing", "over"}

\* No frame of another attempt is attributed to an observation, however the
\* Worker and the Runtime move to another attempt around its capture.
FrameOfAttempt ==
  \A s \in Starts : Is(s, "publishing") => stream[s].reply = stream[s].attempt

\* A stream that exits late does not end the observation a newer start has
\* opened.
NewerSurvives == [][
  \A s \in Starts : Is(s, "leaving") /\ Is(s, "gone")' /\ lease # s =>
    /\ lease' = lease
    /\ \A t \in Starts \ {s} : stream'[t].alive = stream[t].alive]_obsVars

\* Every observation ends or comes to its stopped event, and gives the
\* Runtime's one lease back even while nobody acknowledges that event.
ObservationEnds ==
  \A s \in Starts : ~Is(s, "none") ~> ((Is(s, "gone") \/ Is(s, "farewell")) /\ holder # s)

\* The Runtime keeps the connection of an observer that waits for its next
\* capture: it is the observer that closes it.
WaitsOnTheSameStream == [][
  \A s \in Starts :
    Is(s, "select") /\ conn[s] # "ended" => conn'[s] # "ended"]_obsVars
=============================================================================
