--------------------------- MODULE McpServerProofs ---------------------------
(***************************************************************************)
(* What a connection of the Browser MCP server guarantees, for any number  *)
(* of requests, request ids and Session epochs.                            *)
(***************************************************************************)
EXTENDS McpServer, FiniteSetTheorems, TLAPS

-----------------------------------------------------------------------------
(* actionMu and the close.                                                 *)

\* What a connection keeps of its requests.
CallRecords ==
  [key : Keys \cup {"-"}, kind : {"-", "control", "act", "close"},
   at : {"none", "arrived", "valid", "entered", "sent", "result", "seen",
         "answered", "done"},
   seen : Nat]

CallInv == calls \in [Calls -> CallRecords] /\ epoch \in Nat /\ direct \in Nat

\* Records stay records.
LEMMA CallsStep == CallInv /\ [McpNext]_mcpVars => CallInv'
<1> SUFFICES ASSUME CallInv, [McpNext]_mcpVars
             PROVE  CallInv'
  OBVIOUS
<1> USE DEF CallInv, CallRecords, At, Go, attachment, session
<1>1. CASE Request
  <2>1. PICK key \in Keys, kind \in {"control", "act", "close"}, c \in Calls :
          calls' = [calls EXCEPT
                      ![c] = [Fresh EXCEPT !.key = key, !.kind = kind,
                                           !.at = "arrived"]]
    BY <1>1 DEF Request
  <2>2. [Fresh EXCEPT !.key = key, !.kind = kind, !.at = "arrived"]
          \in CallRecords
    BY DEF Fresh
  <2>3. epoch' = epoch /\ direct' = direct
    BY <1>1 DEF Request
  <2> QED BY <2>1, <2>2, <2>3
<1>2. CASE InputEnds \/ ServeReturns \/ Abandon \/ Rotate
  BY <1>2 DEF InputEnds, ServeReturns, Abandon, Rotate
<1>3. ASSUME NEW c \in Calls, Deliver(c)
      PROVE  CallInv'
  BY <1>3 DEF Deliver
<1>4. ASSUME NEW c \in Calls, CallStep(c)
      PROVE  CallInv'
  <2>1. CASE Handle(c) \/ Enter(c) \/ NoClient(c) \/ Act(c)
    BY <2>1 DEF Handle, Enter, NoClient, Act, Leave
  <2>2. CASE Preflight(c)
    BY <2>2 DEF Preflight, Leave
  <2>3. CASE Finish(c) \/ Emit(c)
    BY <2>3 DEF Finish, Emit, Leave
  <2>4. CASE Snapshot(c)
    <3>1. PICK n \in Nat :
            calls' = [calls EXCEPT
                        ![c].at = IF n = 0 THEN "answered" ELSE "seen",
                        ![c].seen = n]
      BY <2>4 DEF Snapshot
    <3>2. epoch' = epoch /\ direct' = direct
      BY <2>4 DEF Snapshot
    <3>3. [calls[c] EXCEPT !.at = IF n = 0 THEN "answered" ELSE "seen",
                           !.seen = n] \in CallRecords
      OBVIOUS
    <3>4. calls' = [calls EXCEPT
                      ![c] = [calls[c] EXCEPT
                                !.at = IF n = 0 THEN "answered" ELSE "seen",
                                !.seen = n]]
      BY <3>1
    <3> QED BY <3>2, <3>3, <3>4
  <2> QED BY <1>4, <2>1, <2>2, <2>3, <2>4 DEF CallStep
<1>5. CASE UNCHANGED mcpVars
  BY <1>5 DEF mcpVars
<1> QED BY <1>1, <1>2, <1>3, <1>4, <1>5 DEF McpNext

\* What the theorems use of the specification: nothing here needs fairness.
McpSteps == McpInit /\ [][McpNext]_mcpVars

LEMMA CallsKept == McpSteps => []CallInv
<1>1. McpInit => CallInv
  BY DEF McpInit, CallInv, CallRecords, Fresh
<1> QED BY <1>1, CallsStep, PTL DEF McpSteps

-----------------------------------------------------------------------------
(* actionMu and the close.                                                 *)

\* The calls between Enter and Leave.
Inside(c) == calls[c].at \in {"entered", "sent"}

\* actionMu is held by the call that is inside, and none is once the
\* attachment is closed: the call that closes it leaves in the same step.
MutexInv == \A c \in Calls : Inside(c) => mutex = c /\ ~closed

LEMMA StepsSilent == McpSteps => NothingAfterClose
<1>1. McpInit => MutexInv
  BY DEF McpInit, MutexInv, Inside, Fresh
<1>2. CallInv /\ MutexInv /\ [McpNext]_mcpVars => MutexInv'
  <2> SUFFICES ASSUME CallInv, MutexInv, [McpNext]_mcpVars
               PROVE  MutexInv'
    OBVIOUS
  <2> USE DEF CallInv, CallRecords, MutexInv, Inside, At, Go, attachment,
              session, proof
  <2>1. CASE Request
    BY <2>1 DEF Request, Fresh, Duplicate
  <2>2. CASE InputEnds \/ ServeReturns \/ Abandon \/ Rotate
    BY <2>2 DEF InputEnds, ServeReturns, Abandon, Rotate
  <2>3. ASSUME NEW c \in Calls, Deliver(c)
        PROVE  MutexInv'
    BY <2>3 DEF Deliver
  <2>4. ASSUME NEW c \in Calls, CallStep(c)
        PROVE  MutexInv'
    <3>1. CASE Handle(c)
      BY <3>1 DEF Handle
    <3>2. CASE Enter(c)
      <4>1. \A d \in Calls : ~Inside(d)
        BY <3>2 DEF Enter, MayEnter, NoCall, Calls
      <4>2. calls' \in {[calls EXCEPT ![c].at = "result"],
                       [calls EXCEPT ![c].at = "entered"]}
        BY <3>2 DEF Enter
      <4>3. closed' = closed /\ (calls'[c].at = "entered" => ~closed /\ mutex' = c)
        BY <3>2, <4>2 DEF Enter
      <4>4. \A d \in Calls \ {c} : calls'[d] = calls[d]
        BY <4>2
      <4>5. calls'[c].at \in {"result", "entered"}
        BY <4>2
      <4> QED BY <4>1, <4>3, <4>4, <4>5
    <3>3. CASE NoClient(c)
      BY <3>3 DEF NoClient, Leave
    <3>4. CASE Preflight(c)
      BY <3>4 DEF Preflight, Leave
    <3>5. CASE Act(c)
      BY <3>5 DEF Act
    <3>6. CASE Finish(c)
      BY <3>6 DEF Finish, Leave
    <3>7. CASE Snapshot(c)
      BY <3>7 DEF Snapshot
    <3>8. CASE Emit(c)
      BY <3>8 DEF Emit
    <3> QED BY <2>4, <3>1, <3>2, <3>3, <3>4, <3>5, <3>6, <3>7, <3>8 DEF CallStep
  <2>5. CASE UNCHANGED mcpVars
    BY <2>5 DEF mcpVars
  <2> QED BY <2>1, <2>2, <2>3, <2>4, <2>5 DEF McpNext
<1>3. CallInv /\ MutexInv /\ [McpNext]_mcpVars
        => [closed => \A c \in Calls : At(c, "sent")' => At(c, "sent")]_mcpVars
  <2> SUFFICES ASSUME CallInv, MutexInv, McpNext, closed,
                      NEW c \in Calls, At(c, "sent")', ~At(c, "sent")
               PROVE  FALSE
    OBVIOUS
  <2> USE DEF CallInv, CallRecords, MutexInv, Inside, At, Go, Leave
  <2>1. CASE Request
    BY <2>1 DEF Request, Fresh
  <2>2. CASE InputEnds \/ ServeReturns \/ Abandon \/ Rotate
    BY <2>2 DEF InputEnds, ServeReturns, Abandon, Rotate
  <2>3. ASSUME NEW d \in Calls, Deliver(d)
        PROVE  FALSE
    BY <2>3 DEF Deliver
  <2>4. ASSUME NEW d \in Calls, CallStep(d)
        PROVE  FALSE
    <3>1. CASE Act(d)
      BY <3>1 DEF Act
    <3>2. CASE Handle(d) \/ Enter(d) \/ Preflight(d)
      BY <3>2 DEF Handle, Enter, Preflight
    <3>3. CASE NoClient(d) \/ Finish(d)
      BY <3>3 DEF NoClient, Finish
    <3>4. CASE Snapshot(d)
      <4>1. PICK n \in Nat :
              calls' = [calls EXCEPT
                          ![d].at = IF n = 0 THEN "answered" ELSE "seen",
                          ![d].seen = n]
        BY <3>4 DEF Snapshot
      <4>2. calls'[d].at \in {"answered", "seen"}
        BY <4>1
      <4>3. c # d => calls'[c] = calls[c]
        BY <4>1
      <4> QED BY <4>2, <4>3
    <3>5. CASE Emit(d)
      BY <3>5 DEF Emit
    <3> QED BY <2>4, <3>1, <3>2, <3>3, <3>4, <3>5 DEF CallStep
  <2> QED BY <2>1, <2>2, <2>3, <2>4 DEF McpNext
<1> QED BY <1>1, <1>2, <1>3, CallsKept, PTL DEF McpSteps, NothingAfterClose

\* A call that waited at actionMu while the close ran finds `closed`, and
\* nothing of the connection reaches the Browser any more.
THEOREM SilentAfterClose == McpSpec => NothingAfterClose
BY StepsSilent, PTL DEF McpSpec, McpSteps

-----------------------------------------------------------------------------
(* The requests Serve waits for.                                           *)

Unfinished == {c \in Calls : calls[c].at \notin {"none", "done"}}
Taken == {c \in Calls : ~At(c, "none")}

\* Calls are taken in order; Serve counts those that are not finished, and each
\* has its cancel function under its id.
PendingInv ==
  /\ cancels \in [Keys -> Calls \cup {NoCall}]
  /\ \E n \in 0..MaxCalls : Taken = 1..n
  /\ pending = Cardinality(Unfinished)
  /\ \A c \in Unfinished : calls[c].key \in Keys /\ cancels[calls[c].key] = c

\* A call that goes on is neither taken again nor finished.
LEMMA PendingKept ==
  ASSUME PendingInv, UNCHANGED <<cancels, pending>>,
         \A c \in Calls :
           /\ calls'[c].key = calls[c].key
           /\ calls[c].at = "none" <=> calls'[c].at = "none"
           /\ calls[c].at = "done" <=> calls'[c].at = "done"
  PROVE  PendingInv'
<1>1. Unfinished' = Unfinished /\ Taken' = Taken
  BY DEF Unfinished, Taken, At
<1> QED BY <1>1 DEF PendingInv, Unfinished

LEMMA PendingStep ==
  ASSUME MaxCalls \in Nat
  PROVE  CallInv /\ PendingInv /\ [McpNext]_mcpVars => PendingInv'
<1> SUFFICES ASSUME CallInv, PendingInv, [McpNext]_mcpVars
             PROVE  PendingInv'
  OBVIOUS
<1> USE DEF CallInv, CallRecords
<1>0. IsFiniteSet(Calls) /\ IsFiniteSet(Unfinished)
  <2>1. IsFiniteSet(1..MaxCalls)
    BY FS_Interval
  <2> QED BY <2>1, FS_Subset DEF Calls, Unfinished
<1>1. CASE Request
  <2>1. PICK n \in 0..MaxCalls : Taken = 1..n
    BY DEF PendingInv
  <2>2. Cardinality(Taken) = n
    BY <2>1, FS_Interval
  <2>3. PICK key \in Keys, kind \in {"control", "act", "close"} :
          LET c == 1 + Cardinality({d \in Calls : ~At(d, "none")}) IN
          /\ c \in Calls /\ ~Duplicate(key)
          /\ calls' = [calls EXCEPT ![c] = [Fresh EXCEPT !.key = key, !.kind = kind,
                                                         !.at = "arrived"]]
          /\ cancels' = [cancels EXCEPT ![key] = c]
    BY <1>1 DEF Request
  <2> DEFINE c == 1 + n
             new == [Fresh EXCEPT !.key = key, !.kind = kind, !.at = "arrived"]
  <2>4. /\ c \in Calls /\ cancels[key] = NoCall
        /\ calls' = [calls EXCEPT ![c] = new]
        /\ cancels' = [cancels EXCEPT ![key] = c]
    <3>1. Cardinality({d \in Calls : ~At(d, "none")}) = n
      BY <2>2 DEF Taken
    <3> QED BY <2>3, <3>1 DEF Duplicate
  <2>5. pending' = pending + 1
    BY <1>1 DEF Request
  <2>6. c \notin Taken /\ c # NoCall
    BY <2>1, <2>4 DEF Calls, NoCall
  <2>7. new.key = key /\ new.at = "arrived"
    BY DEF Fresh
  <2> HIDE DEF c, new
  <2>8. /\ calls'[c].key = key /\ calls'[c].at = "arrived"
        /\ \A d \in Calls \ {c} : calls'[d] = calls[d]
    BY <2>4, <2>7
  <2>9. Taken' = Taken \cup {c} /\ Unfinished' = Unfinished \cup {c} /\ c \notin Unfinished
    BY <2>4, <2>6, <2>8 DEF Taken, Unfinished, At
  <2>10. Taken' = 1..c /\ c \in 0..MaxCalls
    BY <2>1, <2>4, <2>9 DEF c, Calls
  <2>11. Cardinality(Unfinished') = Cardinality(Unfinished) + 1
    BY <1>0, <2>9, FS_AddElement
  <2>12. \A d \in Unfinished' : calls'[d].key \in Keys /\ cancels'[calls'[d].key] = d
    <3>1. ASSUME NEW d \in Unfinished
          PROVE  calls'[d].key \in Keys /\ cancels'[calls'[d].key] = d
      <4>1. calls'[d] = calls[d] /\ calls[d].key \in Keys /\ cancels[calls[d].key] = d
        BY <2>8, <2>9, <3>1 DEF PendingInv, Unfinished
      <4>2. calls[d].key # key
        BY <2>4, <4>1, <3>1 DEF NoCall, Unfinished, Calls
      <4> QED BY <2>4, <4>1, <4>2 DEF PendingInv
    <3>2. calls'[c].key \in Keys /\ cancels'[calls'[c].key] = c
      BY <2>4, <2>8 DEF PendingInv
    <3> QED BY <2>9, <3>1, <3>2
  <2>13. cancels' \in [Keys -> Calls \cup {NoCall}]
    BY <2>4 DEF PendingInv
  <2> QED BY <2>5, <2>10, <2>11, <2>12, <2>13 DEF PendingInv
<1>2. CASE InputEnds \/ ServeReturns \/ Abandon \/ Rotate \/ UNCHANGED mcpVars
  <2>1. calls' = calls /\ cancels' = cancels /\ pending' = pending
    BY <1>2 DEF InputEnds, ServeReturns, Abandon, Rotate, mcpVars
  <2> QED BY <2>1, PendingKept
<1>3. ASSUME NEW c \in Calls, Deliver(c)
      PROVE  PendingInv'
  <2> DEFINE key == calls[c].key
  <2>1. calls[c].at = "answered" /\ calls' = [calls EXCEPT ![c].at = "done"]
    BY <1>3 DEF Deliver, At, Go
  <2>2. c \in Unfinished /\ key \in Keys /\ cancels[key] = c /\ c # NoCall
    BY <2>1 DEF Unfinished, PendingInv, Calls, NoCall
  <2>3. cancels' = [cancels EXCEPT ![key] = NoCall] /\ pending' = pending - 1
    BY <1>3, <2>2 DEF Deliver
  <2> HIDE DEF key
  <2>4. /\ calls'[c].at = "done"
        /\ \A d \in Calls : calls'[d].key = calls[d].key
        /\ \A d \in Calls \ {c} : calls'[d] = calls[d]
    BY <2>1
  <2>5. Taken' = Taken /\ Unfinished' = Unfinished \ {c}
    BY <2>1, <2>4 DEF Taken, Unfinished, At
  <2>6. Cardinality(Unfinished') = Cardinality(Unfinished) - 1
    BY <1>0, <2>2, <2>5, FS_RemoveElement
  <2>7. \A d \in Unfinished' : calls'[d].key \in Keys /\ cancels'[calls'[d].key] = d
    <3> SUFFICES ASSUME NEW d \in Unfinished, d # c
                 PROVE  calls[d].key \in Keys /\ cancels'[calls[d].key] = d
      BY <2>4, <2>5 DEF Unfinished
    <3>1. calls[d].key \in Keys /\ cancels[calls[d].key] = d
      BY DEF PendingInv
    <3> QED BY <2>2, <2>3, <3>1 DEF PendingInv
  <2>8. cancels' \in [Keys -> Calls \cup {NoCall}]
    BY <2>3 DEF PendingInv
  <2> QED BY <2>3, <2>5, <2>6, <2>7, <2>8 DEF PendingInv
<1>4. ASSUME NEW c \in Calls, CallStep(c)
      PROVE  PendingInv'
  <2>1. UNCHANGED <<cancels, pending>>
    BY <1>4 DEF CallStep, Handle, Enter, NoClient, Preflight, Act, Finish, Snapshot, Emit
  <2>2. \/ calls' = calls
        \/ /\ calls[c].at \notin {"none", "done"}
           /\ \E at \in {"answered", "valid", "result", "entered", "sent"} :
                calls' = [calls EXCEPT ![c].at = at]
        \/ /\ calls[c].at \notin {"none", "done"}
           /\ \E at \in {"answered", "seen"}, n \in Nat :
                calls' = [calls EXCEPT ![c].at = at, ![c].seen = n]
    <3> USE DEF At, Go, Leave
    <3>1. CASE Handle(c)
      BY <3>1 DEF Handle
    <3>2. CASE Enter(c)
      BY <3>2 DEF Enter
    <3>3. CASE NoClient(c) \/ Preflight(c)
      BY <3>3 DEF NoClient, Preflight
    <3>4. CASE Act(c) \/ Finish(c) \/ Emit(c)
      BY <3>4 DEF Act, Finish, Emit
    <3>5. CASE Snapshot(c)
      <4>1. PICK n \in Nat :
              calls' = [calls EXCEPT ![c].at = IF n = 0 THEN "answered" ELSE "seen",
                                     ![c].seen = n]
        BY <3>5 DEF Snapshot, session
      <4>2. CASE n = 0
        BY <3>5, <4>1, <4>2 DEF Snapshot
      <4>3. CASE n # 0
        BY <3>5, <4>1, <4>3 DEF Snapshot
      <4> QED BY <4>2, <4>3
    <3> QED BY <1>4, <3>1, <3>2, <3>3, <3>4, <3>5 DEF CallStep
  <2>3. \A d \in Calls :
          /\ calls'[d].key = calls[d].key
          /\ calls[d].at = "none" <=> calls'[d].at = "none"
          /\ calls[d].at = "done" <=> calls'[d].at = "done"
    BY <2>2
  <2> QED BY <2>1, <2>3, PendingKept
<1> QED BY <1>1, <1>2, <1>3, <1>4 DEF McpNext

-----------------------------------------------------------------------------
(* Attachment evidence.                                                    *)

Before == {"none", "arrived", "valid", "entered", "sent", "result"}
Epochs == 1..MaxEpoch

\* The evidence of an epoch was delivered, or is in an answer that waits.
Given(e) ==
  e \in told \/ \E d \in carries : calls[d].at = "answered" /\ calls[d].seen = e

\* Where a call is tells what it saw; what was emitted is given.
EvidenceInv ==
  /\ told \subseteq Epochs
  /\ carries \subseteq Calls
  /\ epoch \in Epochs /\ direct \in Epochs \cup {0}
  /\ evidence \in [key : Epochs \cup {0}, emitted : BOOLEAN]
  /\ evidence.emitted => evidence.key # 0 /\ Given(evidence.key)
  /\ \A d \in carries : calls[d].at \in {"answered", "done"} /\ calls[d].seen # 0
  /\ \A c \in Calls :
       /\ calls[c].seen \in Epochs \cup {0}
       /\ calls[c].at \in Before => calls[c].seen = 0
       /\ calls[c].at = "seen" => calls[c].seen # 0
       /\ calls[c].at \in {"answered", "done"} /\ calls[c].seen # 0
            => Given(calls[c].seen)

\* The record of a new request is one that no request has had.
LEMMA RequestNew ==
  ASSUME MaxCalls \in Nat, PendingInv, Request
  PROVE  \E c \in Calls, key \in Keys, kind \in {"control", "act", "close"} :
           /\ calls[c].at = "none"
           /\ calls' = [calls EXCEPT ![c] = [Fresh EXCEPT !.key = key, !.kind = kind,
                                                          !.at = "arrived"]]
<1>1. PICK n \in 0..MaxCalls : Taken = 1..n
  BY DEF PendingInv
<1>2. Cardinality({d \in Calls : ~At(d, "none")}) = n
  <2>1. Cardinality(Taken) = n
    BY <1>1, FS_Interval
  <2> QED BY <2>1 DEF Taken
<1>3. PICK key \in Keys, kind \in {"control", "act", "close"} :
        LET c == 1 + Cardinality({d \in Calls : ~At(d, "none")}) IN
        /\ c \in Calls
        /\ calls' = [calls EXCEPT ![c] = [Fresh EXCEPT !.key = key, !.kind = kind,
                                                       !.at = "arrived"]]
  BY DEF Request
<1>4. 1 + n \in Calls \ Taken
  BY <1>1, <1>2, <1>3
<1> QED BY <1>2, <1>3, <1>4 DEF Taken, At

LEMMA EvidenceStep ==
  ASSUME MaxCalls \in Nat, MaxEpoch \in Nat \ {0}
  PROVE  CallInv /\ PendingInv /\ EvidenceInv /\ [McpNext]_mcpVars => EvidenceInv'
<1> SUFFICES ASSUME CallInv, PendingInv, EvidenceInv, [McpNext]_mcpVars
             PROVE  EvidenceInv'
  OBVIOUS
<1> USE DEF CallInv, CallRecords, EvidenceInv, Given, Before
<1>1. CASE Request
  <2>1. PICK c \in Calls, key \in Keys, kind \in {"control", "act", "close"} :
          /\ calls[c].at = "none"
          /\ calls' = [calls EXCEPT ![c] = [Fresh EXCEPT !.key = key, !.kind = kind,
                                                         !.at = "arrived"]]
    BY <1>1, RequestNew
  <2>2. /\ calls'[c].at = "arrived" /\ calls'[c].seen = 0
        /\ \A d \in Calls \ {c} : calls'[d] = calls[d]
    BY <2>1 DEF Fresh
  <2>3. c \notin carries
    BY <2>1
  <2>4. UNCHANGED <<epoch, direct, evidence, carries, told>>
    BY <1>1 DEF Request, attachment, session, proof
  <2>5. \A e \in Epochs : Given(e) => Given(e)'
    BY <2>2, <2>3, <2>4
  <2> QED BY <2>2, <2>3, <2>4, <2>5 DEF Epochs
<1>2. CASE InputEnds \/ ServeReturns \/ Abandon
  <2>1. UNCHANGED <<calls, epoch, direct, evidence, carries, told>>
    BY <1>2 DEF InputEnds, ServeReturns, Abandon, attachment, session, proof
  <2> QED BY <2>1
<1>3. CASE Rotate
  BY <1>3 DEF Rotate, Epochs, attachment, session, proof
<1>4. ASSUME NEW c \in Calls, Deliver(c)
      PROVE  EvidenceInv'
  <2>1. calls[c].at = "answered" /\ calls' = [calls EXCEPT ![c].at = "done"]
    BY <1>4 DEF Deliver, At, Go
  <2>2. /\ UNCHANGED <<epoch, direct, evidence, carries>>
        /\ told' = IF c \in carries THEN told \cup {calls[c].seen} ELSE told
    BY <1>4 DEF Deliver, attachment, session
  <2>3. /\ calls'[c].at = "done"
        /\ \A d \in Calls : calls'[d].seen = calls[d].seen
        /\ \A d \in Calls \ {c} : calls'[d] = calls[d]
    BY <2>1
  <2>4. \A e \in Epochs : Given(e) => Given(e)'
    BY <2>2, <2>3
  <2>5. told' \subseteq Epochs
    <3>1. CASE c \in carries
      <4>1. calls[c].seen \in Epochs
        BY <3>1
      <4>2. told' = told \cup {calls[c].seen} /\ told \subseteq Epochs
        BY <2>2, <3>1
      <4> HIDE DEF CallInv, EvidenceInv
      <4> QED BY <4>1, <4>2
    <3>2. CASE c \notin carries
      BY <2>2, <3>2
    <3> QED BY <3>1, <3>2
  <2> QED BY <2>1, <2>2, <2>3, <2>4, <2>5 DEF Epochs
<1>5. ASSUME NEW c \in Calls, CallStep(c)
      PROVE  EvidenceInv'
  <2>1. CASE ~Emit(c)
    <3>1. /\ UNCHANGED <<evidence, carries, told>>
          /\ epoch' = epoch /\ direct' \in {direct, epoch}
      BY <1>5, <2>1 DEF CallStep, Handle, Enter, NoClient, Preflight, Act, Finish, Snapshot,
                        attachment, session, proof
    <3>2. /\ calls[c].at \in Before
          /\ \/ \E at \in {"arrived", "answered", "valid", "result", "entered", "sent"} :
                 calls' = [calls EXCEPT ![c].at = at]
             \/ \E at \in {"answered", "seen"}, n \in Epochs \cup {0} :
                  /\ at = IF n = 0 THEN "answered" ELSE "seen"
                  /\ calls' = [calls EXCEPT ![c].at = at, ![c].seen = n]
      <4> USE DEF At, Go, Leave
      <4>1. CASE Handle(c) \/ Enter(c)
        BY <4>1 DEF Handle, Enter
      <4>2. CASE NoClient(c) \/ Act(c) \/ Finish(c)
        BY <4>2 DEF NoClient, Act, Finish
      <4>3. CASE Preflight(c)
        <5>1. calls[c].at = "entered"
          BY <4>3 DEF Preflight
        <5>2. CASE calls' = calls
          <6>1. calls' = [calls EXCEPT ![c].at = calls[c].at]
            BY <5>2
          <6> QED BY <5>1, <6>1
        <5> QED BY <4>3, <5>1, <5>2 DEF Preflight
      <4>4. CASE Snapshot(c)
        <5>1. PICK n \in Epochs \cup {0} :
                calls' = [calls EXCEPT ![c].at = IF n = 0 THEN "answered" ELSE "seen",
                                       ![c].seen = n]
          <6>1. PICK n \in IF supplier = "lease" THEN {0, epoch} ELSE {direct} :
                  calls' = [calls EXCEPT ![c].at = IF n = 0 THEN "answered" ELSE "seen",
                                         ![c].seen = n]
            BY <4>4 DEF Snapshot
          <6>2. n \in {0, epoch, direct}
            BY <6>1
          <6>3. n \in Epochs \cup {0}
            BY <6>2
          <6> QED BY <6>1, <6>3
        <5>2. calls[c].at = "result"
          BY <4>4 DEF Snapshot
        <5>3. CASE n = 0
          BY <5>1, <5>2, <5>3
        <5>4. CASE n # 0
          BY <5>1, <5>2, <5>4
        <5> QED BY <5>3, <5>4
      <4> QED BY <1>5, <2>1, <4>1, <4>2, <4>3, <4>4 DEF CallStep
    <3>3. \A d \in Calls \ {c} : calls'[d] = calls[d]
      BY <3>2
    <3>4. /\ calls'[c].seen \in Epochs \cup {0}
          /\ calls'[c].at \in Before \cup {"answered"} => calls'[c].seen = 0
          /\ calls'[c].at \in Before \cup {"answered", "seen"}
          /\ calls'[c].at = "seen" => calls'[c].seen # 0
      BY <3>2
    <3>5. c \notin carries
      BY <3>2
    <3>6. \A e \in Epochs : Given(e) => Given(e)'
      BY <3>1, <3>3, <3>5
    <3> QED BY <3>1, <3>3, <3>4, <3>5, <3>6
  <2>2. CASE Emit(c)
    <3>1. PICK e \in Epochs : e = calls[c].seen
      BY <2>2 DEF Emit, At
    <3>2. e # 0
      BY DEF Epochs
    <3>3. calls[c].at = "seen" /\ calls' = [calls EXCEPT ![c].at = "answered"]
      BY <2>2 DEF Emit, At, Go
    <3>4. UNCHANGED <<epoch, direct, told>>
      BY <2>2 DEF Emit, attachment, session
    <3>5. evidence' = [key |-> e, emitted |-> TRUE]
      BY <2>2, <3>1 DEF Emit, Keyed
    <3>6. /\ calls'[c].at = "answered"
          /\ \A d \in Calls : calls'[d].seen = calls[d].seen
          /\ \A d \in Calls \ {c} : calls'[d] = calls[d]
      BY <3>3
    <3>7. c \notin carries
      BY <3>3
    <3>8. /\ carries' \in {carries, carries \cup {c}}
          /\ Given(e)'
      <4>1. CASE evidence.key = e /\ evidence.emitted
        <5>1. carries' = carries
          BY <2>2, <3>1, <4>1 DEF Emit, Keyed
        <5>2. Given(e)
          BY <4>1
        <5> QED BY <3>4, <3>6, <3>7, <5>1, <5>2
      <4>2. CASE ~(evidence.key = e /\ evidence.emitted)
        <5>1. carries' = carries \cup {c}
          BY <2>2, <3>1, <4>2 DEF Emit, Keyed
        <5> QED BY <3>1, <3>6, <5>1
      <4> QED BY <4>1, <4>2
    <3>9. \A f \in Epochs : Given(f) => Given(f)'
      BY <3>4, <3>6, <3>7, <3>8
    <3>10. calls'[c].seen = e
      BY <3>1, <3>6
    <3>11. /\ evidence' \in [key : Epochs \cup {0}, emitted : BOOLEAN]
           /\ evidence'.key # 0 /\ Given(evidence.key)'
      <4>1. evidence'.key = e
        BY <3>5
      <4> QED BY <3>1, <3>2, <3>5, <3>8, <4>1
    <3>12. /\ carries' \subseteq Calls /\ told' \subseteq Epochs
           /\ epoch' \in Epochs /\ direct' \in Epochs \cup {0}
      BY <3>4, <3>8
    <3>13. \A d \in carries' : calls'[d].at \in {"answered", "done"} /\ calls'[d].seen # 0
      BY <3>2, <3>6, <3>8, <3>10
    <3>14. ASSUME NEW d \in Calls
           PROVE  /\ calls'[d].seen \in Epochs \cup {0}
                  /\ calls'[d].at \in Before => calls'[d].seen = 0
                  /\ calls'[d].at = "seen" => calls'[d].seen # 0
                  /\ calls'[d].at \in {"answered", "done"} /\ calls'[d].seen # 0
                       => Given(calls[d].seen)'
      <4>1. CASE d = c
        BY <4>1, <3>1, <3>6, <3>8, <3>10
      <4>2. CASE d # c
        BY <4>2, <3>6, <3>9
      <4> QED BY <4>1, <4>2
    <3> HIDE DEF Given, Before
    <3> QED BY <3>11, <3>12, <3>13, <3>14
  <2> QED BY <2>1, <2>2
<1>6. CASE UNCHANGED mcpVars
  BY <1>6 DEF mcpVars
<1> QED BY <1>1, <1>2, <1>3, <1>4, <1>5, <1>6 DEF McpNext

\* Nothing pending means nothing waits to be delivered.
LEMMA EvidenceGiven ==
  ASSUME MaxCalls \in Nat, PendingInv, EvidenceInv
  PROVE  EpochEvidenced
<1>1. ASSUME pending = 0, NEW c \in Calls, calls[c].at = "done", calls[c].seen # 0
      PROVE  calls[c].seen \in told
  <2>1. IsFiniteSet(Unfinished)
    <3>1. IsFiniteSet(1..MaxCalls)
      BY FS_Interval
    <3> QED BY <3>1, FS_Subset DEF Unfinished, Calls
  <2>2. Unfinished = {}
    BY <1>1, <2>1, FS_EmptySet DEF PendingInv
  <2>3. \A d \in Calls : calls[d].at # "answered"
    BY <2>2 DEF Unfinished
  <2>4. Given(calls[c].seen) /\ carries \subseteq Calls
    BY <1>1 DEF EvidenceInv
  <2> QED BY <2>3, <2>4 DEF Given
<1>2. ASSUME NEW c \in Calls, calls[c].at \in {"answered", "done"}, calls[c].seen # 0
      PROVE  Given(calls[c].seen)
  BY <1>2 DEF EvidenceInv
<1> QED BY <1>1, <1>2 DEF EpochEvidenced, Given, At

LEMMA PendingInit ==
  ASSUME MaxCalls \in Nat, McpInit
  PROVE  PendingInv
<1>1. Unfinished = {} /\ Taken = 1..0
  BY DEF McpInit, Fresh, Unfinished, Taken, At
<1> QED BY <1>1, FS_EmptySet DEF PendingInv, McpInit

LEMMA StepsEvidenced ==
  ASSUME MaxCalls \in Nat, MaxEpoch \in Nat \ {0}
  PROVE  McpSteps => []EpochEvidenced
<1>1. McpInit => PendingInv /\ EvidenceInv
  <2>1. McpInit => EvidenceInv
    BY DEF McpInit, EvidenceInv, Given, Fresh, Before, Epochs
  <2> QED BY <2>1, PendingInit
<1>2. PendingInv /\ EvidenceInv => EpochEvidenced
  BY EvidenceGiven
<1> QED BY <1>1, <1>2, PendingStep, EvidenceStep, CallsKept, PTL DEF McpSteps

\* The bookkeeping of takeAttachmentEvidence and the channel of Serve: whichever
\* calls overtake each other between the snapshot of the lease and the answer,
\* or on the way to the client, the evidence of an epoch that was answered for
\* is delivered or in an answer that waits, and is delivered once nothing is
\* pending.
THEOREM EvidenceGivenInTime ==
  ASSUME MaxCalls \in Nat, MaxEpoch \in Nat \ {0}
  PROVE  McpSpec => []EpochEvidenced
BY StepsEvidenced, PTL DEF McpSpec, McpSteps
-----------------------------------------------------------------------------
(* Types.                                                                  *)

FlagInv ==
  /\ serve \in {"open", "ended", "returned"}
  /\ mutex \in Calls \cup {NoCall}
  /\ closed \in BOOLEAN

ConnectionInv == CallInv /\ PendingInv /\ EvidenceInv /\ FlagInv

LEMMA FlagStep == FlagInv /\ [McpNext]_mcpVars => FlagInv'
<1> SUFFICES ASSUME FlagInv, [McpNext]_mcpVars
             PROVE  FlagInv'
  OBVIOUS
<1> USE DEF FlagInv, attachment
<1>1. CASE Request \/ InputEnds \/ ServeReturns \/ Abandon \/ Rotate \/ UNCHANGED mcpVars
  BY <1>1 DEF Request, InputEnds, ServeReturns, Abandon, Rotate, mcpVars
<1>2. ASSUME NEW c \in Calls, Deliver(c) \/ CallStep(c)
      PROVE  FlagInv'
  <2>1. serve' = serve /\ mutex' \in {mutex, c, NoCall}
    BY <1>2 DEF Deliver, CallStep, Handle, Enter, NoClient, Preflight, Act, Finish,
                Snapshot, Emit, Leave
  <2>2. closed' \in BOOLEAN
    BY <1>2 DEF Deliver, CallStep, Handle, Enter, NoClient, Preflight, Act, Finish,
                Snapshot, Emit
  <2> QED BY <2>1, <2>2
<1> QED BY <1>1, <1>2 DEF McpNext

LEMMA ConnectionStep ==
  ASSUME MaxCalls \in Nat, MaxEpoch \in Nat \ {0}
  PROVE  ConnectionInv /\ [McpNext]_mcpVars => ConnectionInv'
BY CallsStep, PendingStep, EvidenceStep, FlagStep DEF ConnectionInv

LEMMA ConnectionInit ==
  ASSUME MaxCalls \in Nat, MaxEpoch \in Nat \ {0}
  PROVE  McpInit => ConnectionInv
<1> SUFFICES ASSUME McpInit PROVE ConnectionInv
  OBVIOUS
<1>1. CallInv
  BY DEF McpInit, CallInv, CallRecords, Fresh
<1>2. EvidenceInv
  BY DEF McpInit, EvidenceInv, Given, Fresh, Before, Epochs
<1>4. PendingInv
  BY PendingInit
<1>5. FlagInv
  BY DEF McpInit, FlagInv
<1> QED BY <1>1, <1>2, <1>4, <1>5 DEF ConnectionInv

LEMMA ConnectionTyped ==
  ASSUME MaxCalls \in Nat, MaxEpoch \in Nat \ {0}
  PROVE  ConnectionInv => McpTypeOK
<1> SUFFICES ASSUME ConnectionInv PROVE McpTypeOK
  OBVIOUS
<1>1. Cardinality(Unfinished) \in 0..MaxCalls
  <2>1. IsFiniteSet(1..MaxCalls) /\ Cardinality(1..MaxCalls) = MaxCalls
    BY FS_Interval
  <2>2. Unfinished \subseteq 1..MaxCalls
    BY DEF Unfinished, Calls
  <2>3. IsFiniteSet(Unfinished) /\ Cardinality(Unfinished) <= MaxCalls
    BY <2>1, <2>2, FS_Subset
  <2>4. Cardinality(Unfinished) \in Nat
    BY <2>3, FS_CardinalityType
  <2> QED BY <2>3, <2>4
<1>2. \A c \in Calls : calls[c].seen \in 0..MaxEpoch
  BY DEF ConnectionInv, EvidenceInv, Epochs
<1>3. calls \in [Calls -> [key : Keys \cup {"-"}, kind : {"-", "control", "act", "close"},
                 at : {"none", "arrived", "valid", "entered", "sent", "result",
                       "seen", "answered", "done"},
                 seen : 0..MaxEpoch]]
  BY <1>2 DEF ConnectionInv, CallInv, CallRecords
<1> QED BY <1>1, <1>3 DEF ConnectionInv, PendingInv, EvidenceInv, FlagInv, Epochs, McpTypeOK
=============================================================================
