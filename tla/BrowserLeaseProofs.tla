------------------------- MODULE BrowserLeaseProofs -------------------------
(***************************************************************************)
(* Types of the Browser run lease, for every value of the constants.       *)
(*                                                                         *)
(* TypeOK alone is not inductive: whether a goroutine may go on where a    *)
(* persist() sends it depends on which goroutine waits for which write,    *)
(* and a Run whose lease is not there must have nothing under way.         *)
(* ShapeInv adds these facts. The proof has one lemma per action; each     *)
(* also says which kind of step (StepKind) the action is, and              *)
(* BrowserLeaseOrderProofs and BrowserLeaseCloseProofs rest on the kinds.  *)
(***************************************************************************)
EXTENDS BrowserLease, TLAPS

-----------------------------------------------------------------------------
(* The control state.                                                       *)

PcSet == [Runs -> [main: MainPcs, control: ControlPcs, tool: ToolPcs]]
Leases == Lease \union {None}
Holders == Holder \union {None}

\* Neither the command loop nor the broker of a Run has started.
AtRest(r) == pc[r].control = "off" /\ pc[r].tool = "idle" /\ delegate[r] = None

\* What a persist() under way knows of the goroutine that waits for it: where the
\* goroutine goes on, and that only Acquire, before the Run has started, persists
\* from main "idle".
OpInv ==
  op # None =>
    /\ lease[op.run] # None
    /\ op.okPc \in PcsOf(op.thread) /\ op.failPc \in PcsOf(op.thread)
    /\ op.kind = "acquire" => pc[op.run].main = "idle" /\ op.thread = "main" /\ op.failPc = "done"
    /\ op.thread = "control" => op.okPc # "off" /\ op.failPc # "off"
    /\ op.thread = "main" => op.okPc # "idle" /\ op.failPc # "idle"

\* What the Runtime does with the request in its hands.
ServerInv ==
  /\ srv.pc = "idle" <=> srv.req = None
  /\ srv.pc \in {"revoke", "remove"} => srv.req.kind = "close"
  /\ srv.pc \in {"challengeRevoke", "challengeRemove", "challengeClose"} => srv.req.kind = "act"

\* A Run without a lease does nothing, nor does one whose lease is still being
\* acquired.
IdleInv ==
  \A r \in Runs :
    /\ lease[r] = None => pc[r].main \in {"idle", "done"} /\ AtRest(r)
    /\ pc[r].main = "idle" => AtRest(r)
    /\ pc[r].main = "idle" /\ lease[r] # None => op # None /\ op.run = r /\ op.kind = "acquire"

\* The types, and the control state they need to be preserved.
ShapeInv == TypeOK /\ OpInv /\ ServerInv /\ IdleInv

-----------------------------------------------------------------------------
(* Data.                                                                    *)

\* None is none of the values it stands beside.
LEMMA NoneIsNone ==
  /\ None \notin Runs /\ None \notin Identity /\ None \notin Lease
  /\ None \notin Holder /\ None \notin Request /\ None \notin Operation
BY NoneAssumption

\* One thread of one Run is set.
LEMMA PcUpdate ==
  ASSUME NEW p \in PcSet, NEW r \in Runs, NEW t \in Threads, NEW v \in PcsOf(t)
  PROVE  /\ [p EXCEPT ![r][t] = v] \in PcSet
         /\ [p EXCEPT ![r][t] = v][r][t] = v
         /\ \A q \in Runs, u \in Threads: q # r \/ u # t => [p EXCEPT ![r][t] = v][q][u] = p[q][u]
<1>1. CASE t = "main"  BY <1>1 DEF PcSet, PcsOf, Threads
<1>2. CASE t = "control"  BY <1>2 DEF PcSet, PcsOf, Threads
<1>3. CASE t = "tool"  BY <1>3 DEF PcSet, PcsOf, Threads
<1> QED BY <1>1, <1>2, <1>3 DEF Threads

\* The fields of identities and of leases, and their updates.
LEMMA IdentityFields ==
  ASSUME NEW a \in Identity
  PROVE  /\ a.run \in Runs /\ a.session \in Sessions /\ a.sessionEpoch \in 1..MaxEpoch
         /\ a.attachment \in 1..MaxAttachments /\ a.controlEpoch \in 1..MaxEpoch
         /\ a.controller \in Controllers
BY DEF Identity

LEMMA IdentityUpdate ==
  ASSUME NEW a \in Identity, NEW n \in 1..MaxEpoch, NEW c \in Controllers
  PROVE  [a EXCEPT !.controlEpoch = n, !.controller = c] \in Identity
BY DEF Identity

LEMMA HolderFields ==
  ASSUME NEW h \in Holder
  PROVE  /\ h.id \in Identity /\ h.expiresAt \in 1..(MaxTime + 1)
         /\ h.used \in BOOLEAN /\ h.selected \in BOOLEAN /\ h.closed \in BOOLEAN
BY DEF Holder

LEMMA HolderUpdate ==
  ASSUME NEW h \in Holder, NEW b \in BOOLEAN
  PROVE  /\ [h EXCEPT !.used = b] \in Holder
         /\ [h EXCEPT !.selected = b] \in Holder
         /\ [h EXCEPT !.closed = b] \in Holder
         /\ \A i \in Identity: [h EXCEPT !.id = i] \in Holder
BY DEF Holder

\* Types of what starts and of what writes a persist().
LEMMA StartPersistType ==
  ASSUME TypeOK, NEW r \in Runs, NEW t \in Threads,
         NEW kind \in {"acquire", "rotate", "transition"}, NEW id \in Identity,
         NEW okPc \in PcsOf(t), NEW failPc \in PcsOf(t), lease[r] # None,
         StartPersist(r, t, kind, id, okPc, failPc)
  PROVE  /\ lease' \in [Runs -> Holders]
         /\ op' \in Operation
<1>1. lease[r] \in Holder BY DEF TypeOK
<1>2. [lease[r] EXCEPT !.id = id] \in Holder BY <1>1, HolderUpdate
<1>3. lease' \in [Runs -> Holders] BY <1>2 DEF TypeOK, StartPersist, Holders
<1>4. okPc \in MainPcs \union ControlPcs \union ToolPcs /\ failPc \in MainPcs \union ControlPcs \union ToolPcs
  BY DEF PcsOf, Threads
<1>5. op' \in Operation
  BY <1>1, <1>4, HolderFields DEF StartPersist, Operation
<1> QED BY <1>3, <1>5

LEMMA EnvelopeType ==
  ASSUME TypeOK, NEW r \in Runs, lease[r] # None
  PROVE  Envelope(r) \in Lease
BY HolderFields DEF TypeOK, Envelope, Lease

LEMMA WriteStepType ==
  ASSUME TypeOK, op # None, lease[op.run] # None, op.step # "lock", WriteStep
  PROVE  /\ sessionFile' \in [Sessions -> [sessionEpoch: 0..MaxEpoch, controlEpoch: 0..MaxEpoch]]
         /\ activeFile' \in Leases
         /\ runFile' \in [Runs -> Leases]
<1>1. op \in Operation /\ op.run \in Runs /\ op.step \in {"state", "active", "run"}
  BY DEF TypeOK, Operation
<1>2. Envelope(op.run) \in Lease BY <1>1, EnvelopeType
<1>3. lease[op.run].id \in Identity BY <1>1, HolderFields DEF TypeOK
<1>4. StateOf(lease[op.run].id) \in [sessionEpoch: 0..MaxEpoch, controlEpoch: 0..MaxEpoch]
  BY <1>3, IdentityFields, BoundsAssumption DEF StateOf
<1>5. CASE op.step = "state" BY <1>3, <1>4, <1>5 DEF TypeOK, WriteStep, Leases
<1>6. CASE op.step = "active"
  <2>1. activeFile' = Envelope(op.run) /\ UNCHANGED <<sessionFile, runFile>> BY <1>6 DEF WriteStep
  <2> QED BY <1>2, <2>1 DEF TypeOK, Leases
<1>7. CASE op.step = "run"
  <2>1. runFile' = [runFile EXCEPT ![op.run] = Envelope(op.run)] /\ UNCHANGED <<sessionFile, activeFile>>
    BY <1>7 DEF WriteStep
  <2> QED BY <1>1, <1>2, <2>1 DEF TypeOK, Leases
<1> QED BY <1>1, <1>5, <1>6, <1>7

\* Where an answer sends the main goroutine.
ReplyMain == {"preflightOk", "preflightFailed", "leaseClose", "fence"}

\* What an answer may change.
LEMMA ReplyEffect ==
  ASSUME TypeOK, NEW req \in Request, NEW result, Reply(req, result)
  PROVE  /\ pc' \in PcSet
         /\ \A q \in Runs:
              /\ \/ pc'[q].main = pc[q].main
                 \/ pc[q].main \in {"preflightWait", "closeWait"} /\ pc'[q].main \in ReplyMain
              /\ \/ pc'[q].control = pc[q].control
                 \/ /\ pc[q].control \in {"viewerWait", "exitWait", "closeWait"}
                    /\ pc'[q].control \in {"idle", "exited", "leaseClose"}
              /\ \/ pc'[q].tool = pc[q].tool
                 \/ delegate[q] # None /\ pc[q].tool = "idle" /\ pc'[q].tool = "challenged"
<1> DEFINE r == req.id.run
           v == AfterReply(req.thread, req.kind, result)
<1>1. pc \in PcSet /\ r \in Runs /\ req.thread \in Threads /\ req.kind \in Kinds
  BY IdentityFields DEF TypeOK, PcSet, Request
<1>2. CASE pc' = pc BY <1>1, <1>2
<1>3. CASE req.thread = "tool" /\ pc' # pc
  <2>1. pc' = [pc EXCEPT ![r].tool = "challenged"] /\ delegate[r] # None /\ pc[r].tool = "idle"
    BY <1>3 DEF Reply
  <2> QED BY <1>1, <2>1 DEF PcSet, ToolPcs
<1>4. CASE req.thread = "main" /\ pc' # pc
  <2>1. WaitsFor(r, "main", req.kind) /\ pc' = [pc EXCEPT ![r].main = v]
    BY <1>1, <1>4 DEF Reply
  <2>2. pc[r].main \in {"preflightWait", "closeWait"} /\ v \in ReplyMain
    BY <1>1, <1>4, <2>1 DEF WaitsFor, AfterReply, AfterFailure, PcSet, MainPcs, Kinds, ReplyMain
  <2> HIDE DEF v, r
  <2> QED BY <1>1, <2>1, <2>2 DEF PcSet, MainPcs, ReplyMain
<1>5. CASE req.thread = "control" /\ pc' # pc
  <2>1. WaitsFor(r, "control", req.kind) /\ pc' = [pc EXCEPT ![r].control = v]
    BY <1>1, <1>5 DEF Reply
  <2>2. pc[r].control \in {"viewerWait", "exitWait", "closeWait"} /\ v \in {"idle", "exited", "leaseClose"}
    BY <1>1, <1>5, <2>1 DEF WaitsFor, AfterReply, AfterFailure, PcSet, ControlPcs, Kinds
  <2> HIDE DEF v, r
  <2> QED BY <1>1, <2>1, <2>2 DEF PcSet, ControlPcs
<1> QED BY <1>1, <1>2, <1>3, <1>4, <1>5 DEF Threads

-----------------------------------------------------------------------------
(* The kinds of step.                                                       *)

\* No lease appears or goes.
NoneKept == \A q \in Runs: lease'[q] = None <=> lease[q] = None
\* The leases keep all but their flags `used` and `selected`.
LeaseKept ==
  \A q \in Runs:
    \/ lease'[q] = lease[q]
    \/ /\ lease[q] # None /\ lease'[q] # None
       /\ lease'[q].id = lease[q].id /\ lease'[q].expiresAt = lease[q].expiresAt
       /\ lease'[q].closed = lease[q].closed
\* Only Runs that hold a lease and have started move, and they do not start again.
Moved ==
  \A q \in Runs:
    \/ pc'[q] = pc[q] /\ delegate'[q] = delegate[q]
    \/ lease[q] # None /\ pc[q].main # "idle" /\ pc'[q].main # "idle"

\* The threads that wait for a persist() of a transition.
Changing == {"claiming", "releasing", "resuming", "toAgent"}
\* No goroutine enters the page, leaves the wait for a persist(), or takes up a
\* tool call out of turn.
PcKept ==
  \A q \in Runs:
    /\ pc'[q].control = "enter" => pc[q].control = "enter"
    /\ pc[q].control \in Changing => pc'[q].control = pc[q].control
    /\ pc[q].tool = "idle" => pc'[q].tool = "idle"

\* What a Run or its broker sends is a copy of a file or of a snapshot of it.
SentBy(req) ==
  \/ \E r \in Runs: delegate[r] # None /\ req.id = delegate[r].id /\ req.kind \in {"act", "close"}
  \/ \E r \in Runs:
       /\ runFile[r] # None /\ req.id = runFile[r].id
       /\ req.kind \in ViewerKinds => req.id.controller = "human"
       /\ req.kind = "enter" => pc[r].control = "enter"

\* A step of an Agent goroutine that leaves identities, files and persist() alone.
AgentQuiet ==
  /\ op' = op /\ LeaseKept /\ PcKept
  /\ UNCHANGED <<rootLock, attachments, fileVars, serverVars, envVars, authority>>
  /\ queue' = queue \/ \E req \in Request: queue' = Append(queue, req) /\ SentBy(req)
  /\ \A q \in Runs: delegate'[q] \in {delegate[q], runFile[q], None}

\* A Rotate, or a transition, has changed the lease and waits for the flock.
RotateStarts(r) ==
  /\ PcKept
  /\ \E okPc, failPc \in MainPcs: StartRotate(r, okPc, failPc)
  /\ UNCHANGED <<rootLock, delegate, fileVars, serverVars, envVars, authority, queue>>
TransitionStarts(r) ==
  /\ \A q \in Runs: pc'[q].control = "enter" => pc[q].control = "enter"
  /\ \E t \in Threads, expected, next \in Controllers, okPc, failPc \in MainPcs \union ControlPcs \union ToolPcs:
       /\ StartTransition(r, t, expected, next, okPc, failPc)
       /\ t = "control" => pc'[r].control \in Changing
       /\ next = "human" => t = "control" /\ pc'[r].control = "claiming"
       /\ (okPc = "enter" => next = "human") /\ failPc # "enter"
       /\ expected = "agent" => pc[r].tool # "idle"
  /\ UNCHANGED <<rootLock, delegate, attachments, fileVars, serverVars, envVars, authority, queue>>
Begins(r) == lease[r] # None /\ (RotateStarts(r) \/ TransitionStarts(r))

\* A transition in the form TransitionStarts has.
LEMMA TransitionBegins ==
  ASSUME NEW r, NEW t \in Threads, NEW expected \in Controllers, NEW next \in Controllers,
         NEW okPc \in MainPcs \union ControlPcs \union ToolPcs,
         NEW failPc \in MainPcs \union ControlPcs \union ToolPcs,
         \A q \in Runs: pc'[q].control = "enter" => pc[q].control = "enter",
         StartTransition(r, t, expected, next, okPc, failPc),
         t = "control" => pc'[r].control \in Changing,
         next = "human" => t = "control" /\ pc'[r].control = "claiming",
         okPc = "enter" => next = "human", failPc # "enter",
         expected = "agent" => pc[r].tool # "idle",
         UNCHANGED <<rootLock, delegate, attachments, fileVars, serverVars, envVars, authority, queue>>
  PROVE  TransitionStarts(r)
BY DEF TransitionStarts

\* browserRunLease.Close of a lease that is not closed yet.
Closes(r) ==
  /\ lease[r] # None /\ ~ lease[r].closed /\ PcKept
  /\ \E t \in {"main", "control"}, runRemoved, activeRemoved \in BOOLEAN:
       LeaseClose(r, t, runRemoved, activeRemoved)

\* All that a step may do to the lease and to its copies.
StepKind ==
  \/ AgentQuiet
  \/ \E r \in Runs: Begins(r) \/ Closes(r) \/ \E bump \in Bumps, e \in 1..(MaxTime + 1): Acquire(r, bump, e)
  \/ PersistStep \/ ServerStep
  \/ Tick \/ AgentCrash \/ RuntimeCrash

-----------------------------------------------------------------------------
(* What keeps the shape.                                                    *)

\* Setting the flags of a lease.
LEMMA FlagsKept ==
  ASSUME TypeOK, NEW r \in Runs, lease[r] # None, NEW u \in BOOLEAN, NEW s \in BOOLEAN,
         \/ lease' = [lease EXCEPT ![r].used = u, ![r].selected = s]
         \/ lease' = [lease EXCEPT ![r].used = u]
         \/ lease' = [lease EXCEPT ![r].selected = s]
  PROVE  lease' \in [Runs -> Holders] /\ LeaseKept
<1>1. lease[r] \in Holder /\ lease \in [Runs -> Holders] BY DEF TypeOK, Holders
<1>2. lease'[r] \in Holder /\ lease'[r].id = lease[r].id
      /\ lease'[r].expiresAt = lease[r].expiresAt /\ lease'[r].closed = lease[r].closed
  <2>1. CASE lease' = [lease EXCEPT ![r].used = u, ![r].selected = s]
     BY <1>1, <2>1 DEF Holder
  <2>2. CASE lease' = [lease EXCEPT ![r].used = u]
     BY <1>1, <2>2 DEF Holder
  <2>3. CASE lease' = [lease EXCEPT ![r].selected = s]
     BY <1>1, <2>3 DEF Holder
  <2> QED BY <2>1, <2>2, <2>3
<1>3. lease' \in [Runs -> Holders] /\ \A q \in Runs: q # r => lease'[q] = lease[q]
  BY <1>1, <1>2 DEF Holders
<1>4. lease'[r] # None BY <1>2, NoneIsNone
<1> QED BY <1>1, <1>2, <1>3, <1>4 DEF LeaseKept

LEMMA KeepsNone == LeaseKept => NoneKept
BY DEF LeaseKept, NoneKept

\* A step that leaves the persist() alone and moves only Runs that may.
LEMMA KeepsShape ==
  ASSUME ShapeInv, NoneKept, Moved, op' = op
  PROVE  OpInv' /\ IdleInv'
<1>1. op # None => op.run \in Runs BY NoneIsNone DEF ShapeInv, TypeOK, Operation
<1>2. OpInv'
  BY <1>1 DEF ShapeInv, OpInv, NoneKept, Moved, IdleInv, AtRest
<1>3. IdleInv'
  BY <1>1 DEF ShapeInv, OpInv, NoneKept, Moved, IdleInv, AtRest
<1> QED BY <1>2, <1>3

\* A step that starts a persist() other than that of Acquire.
LEMMA StartsShape ==
  ASSUME ShapeInv, NoneKept, Moved, op = None, NEW r \in Runs, lease[r] # None,
         op' # None, op'.run = r, op'.kind # "acquire",
         op'.okPc \in PcsOf(op'.thread), op'.failPc \in PcsOf(op'.thread),
         op'.thread = "control" => op'.okPc # "off" /\ op'.failPc # "off",
         op'.thread = "main" => op'.okPc # "idle" /\ op'.failPc # "idle"
  PROVE  OpInv' /\ IdleInv'
<1>1. OpInv'
  BY DEF ShapeInv, OpInv, NoneKept
<1>2. IdleInv'
  BY DEF ShapeInv, NoneKept, Moved, IdleInv, AtRest
<1> QED BY <1>1, <1>2

LEMMA LockPersistShape ==
  ASSUME ShapeInv, LockPersist
  PROVE  ShapeInv'
<1> USE DEF ShapeInv
<1>1. op' \in Operation BY DEF LockPersist, TypeOK, Operation
<1>2. TypeOK'
  BY <1>1 DEF LockPersist, TypeOK, fileVars, serverVars, envVars
<1>3. OpInv'
  BY <1>1, NoneIsNone DEF LockPersist, TypeOK, OpInv, Operation
<1>4. ServerInv' BY DEF LockPersist, ServerInv, serverVars
<1>5. IdleInv' BY <1>1, NoneIsNone DEF LockPersist, TypeOK, Operation, IdleInv, AtRest
<1> QED BY <1>2, <1>3, <1>4, <1>5

\* One thread of a Run moves.
LEMMA ThreadMoves ==
  ASSUME TypeOK, NEW r \in Runs, NEW t \in Threads, NEW v \in PcsOf(t), t = "main" => v # "idle",
         lease[r] # None, pc[r].main # "idle", pc' = [pc EXCEPT ![r][t] = v],
         \A q \in Runs: q # r => delegate'[q] = delegate[q]
  PROVE  /\ pc' \in PcSet /\ Moved
         /\ (t = "control" => pc[r].control \notin Changing /\ v # "enter") /\ t # "tool" => PcKept
<1>1. pc \in PcSet BY DEF TypeOK, PcSet
<1>2. pc' \in PcSet BY <1>1, PcUpdate
<1>3. \A q \in Runs: q # r => pc'[q] = pc[q]  BY <1>1 DEF PcSet
<1>4. pc'[r].main # "idle"
  <2>1. CASE t = "main"  BY <1>1, <2>1 DEF PcSet
  <2>2. CASE t # "main"  BY <1>1, <2>2 DEF PcSet, Threads
  <2> QED BY <2>1, <2>2
<1>5. ASSUME t # "tool", t = "control" => pc[r].control \notin Changing /\ v # "enter"
      PROVE  PcKept
  <2>1. CASE t = "main"
    <3>1. pc'[r].control = pc[r].control /\ pc'[r].tool = pc[r].tool  BY <1>1, <2>1 DEF PcSet
    <3> QED BY <1>3, <3>1 DEF PcKept
  <2>2. CASE t = "control"
    <3>1. pc'[r].control = v /\ pc'[r].tool = pc[r].tool  BY <1>1, <2>2 DEF PcSet
    <3> QED BY <1>3, <1>5, <2>2, <3>1 DEF PcKept
  <2> QED BY <1>5, <2>1, <2>2 DEF Threads
<1> QED BY <1>2, <1>3, <1>4, <1>5 DEF Moved

\* The same, for a step that moves several goroutines of a Run at once.
LEMMA RunMoves ==
  ASSUME TypeOK, NEW r \in Runs, NEW p \in [main: MainPcs, control: ControlPcs, tool: ToolPcs],
         p.main # "idle", lease[r] # None, pc[r].main # "idle", pc' = [pc EXCEPT ![r] = p],
         delegate' = delegate
  PROVE  pc' \in PcSet /\ Moved
<1>1. pc \in PcSet BY DEF TypeOK, PcSet
<1>2. pc' \in PcSet BY <1>1 DEF PcSet
<1>3. pc'[r] = p /\ \A q \in Runs: q # r => pc'[q] = pc[q] BY <1>1 DEF PcSet
<1> QED BY <1>2, <1>3 DEF Moved

\* A persist() starts for a lease that is there, and leaves it there.
LEMMA StartPersistNone ==
  ASSUME TypeOK, NEW r \in Runs, NEW t, NEW kind, NEW okPc, NEW failPc, NEW id \in Identity,
         lease[r] # None, StartPersist(r, t, kind, id, okPc, failPc)
  PROVE  NoneKept
<1>1. lease[r] \in Holder /\ [lease[r] EXCEPT !.id = id] \in Holder BY HolderUpdate DEF TypeOK
<1>2. lease' = [lease EXCEPT ![r] = [lease[r] EXCEPT !.id = id]] BY DEF StartPersist
<1> QED BY <1>1, <1>2, NoneIsNone DEF NoneKept, TypeOK

\* A Rotate, and a transition, that starts.
LEMMA StartRotateShape ==
  ASSUME ShapeInv, NEW r \in Runs, NEW okPc \in MainPcs \ {"idle"}, NEW failPc \in MainPcs \ {"idle"},
         lease[r] # None, StartRotate(r, okPc, failPc), Moved
  PROVE  /\ lease' \in [Runs -> Holders] /\ NoneKept /\ attachments' \in 0..MaxAttachments
         /\ op' \in Operation /\ OpInv' /\ IdleInv'
<1> USE DEF ShapeInv
<1>1. lease[r] \in Holder /\ lease[r].id \in Identity BY HolderFields DEF TypeOK
<1>2. Rotated(lease[r].id) \in Identity /\ attachments' \in 0..MaxAttachments
  <2>1. /\ attachments' = attachments + 1 /\ attachments < MaxAttachments
        /\ lease[r].id.sessionEpoch < MaxEpoch /\ lease[r].id.controlEpoch < MaxEpoch
    BY DEF StartRotate, CanRotate
  <2>2. attachments' \in 1..MaxAttachments BY <2>1, BoundsAssumption DEF TypeOK
  <2>3. /\ lease[r].id.sessionEpoch + 1 \in 1..MaxEpoch
        /\ lease[r].id.controlEpoch + 1 \in 1..MaxEpoch
    BY <1>1, <2>1, IdentityFields, BoundsAssumption
  <2>4. Rotated(lease[r].id) = [lease[r].id EXCEPT !.sessionEpoch = lease[r].id.sessionEpoch + 1,
                                 !.controlEpoch = lease[r].id.controlEpoch + 1,
                                 !.controller = "agent", !.attachment = attachments']
    BY <2>1 DEF Rotated
  <2>5. Rotated(lease[r].id) \in Identity
    BY <1>1, <2>2, <2>3, <2>4 DEF Identity, Controllers
  <2>6. attachments' \in 0..MaxAttachments BY <2>2, BoundsAssumption
  <2> QED BY <2>5, <2>6
<1>3. StartPersist(r, "main", "rotate", Rotated(lease[r].id), okPc, failPc) BY DEF StartRotate
<1>4. lease' \in [Runs -> Holders] /\ op' \in Operation
  BY <1>2, <1>3, StartPersistType DEF PcsOf, Threads
<1>5. NoneKept
  BY <1>1, <1>2, <1>3, StartPersistNone
<1>6. OpInv' /\ IdleInv'
  BY <1>3, <1>4, <1>5, StartsShape, NoneIsNone DEF StartPersist, PcsOf
<1> QED BY <1>2, <1>4, <1>5, <1>6

LEMMA StartTransitionShape ==
  ASSUME ShapeInv, NEW r \in Runs, NEW t \in Threads, NEW expected, NEW next \in Controllers,
         NEW okPc \in PcsOf(t) \ {"off"}, NEW failPc \in PcsOf(t) \ {"off"},
         t = "main" => okPc # "idle" /\ failPc # "idle",
         lease[r] # None, StartTransition(r, t, expected, next, okPc, failPc), Moved
  PROVE  /\ lease' \in [Runs -> Holders] /\ NoneKept
         /\ op' \in Operation /\ OpInv' /\ IdleInv'
<1> USE DEF ShapeInv
<1> DEFINE id == [lease[r].id EXCEPT !.controlEpoch = @ + 1, !.controller = next]
<1>1. lease[r] \in Holder /\ lease[r].id \in Identity BY HolderFields DEF TypeOK
<1>2. id \in Identity
  <2>1. lease[r].id.controlEpoch + 1 \in 1..MaxEpoch
    BY <1>1, IdentityFields, BoundsAssumption DEF StartTransition, CanTransition
  <2> QED BY <1>1, <2>1, IdentityUpdate
<1>3. StartPersist(r, t, "transition", id, okPc, failPc) BY DEF StartTransition
<1> HIDE DEF id
<1>4. lease' \in [Runs -> Holders] /\ op' \in Operation
  BY <1>2, <1>3, StartPersistType
<1>5. NoneKept
  BY <1>1, <1>2, <1>3, StartPersistNone
<1>6. OpInv' /\ IdleInv'
  BY <1>3, <1>4, <1>5, StartsShape, NoneIsNone DEF StartPersist
<1> QED BY <1>4, <1>5, <1>6

\* An answer moves a Run only as Moved allows.
LEMMA ReplyMoved ==
  ASSUME ShapeInv, NEW req \in Request, NEW result, Reply(req, result), delegate' = delegate
  PROVE  pc' \in PcSet /\ Moved
<1> USE DEF ShapeInv
<1>1. pc' \in PcSet /\ pc \in PcSet BY ReplyEffect DEF TypeOK, PcSet
<1> SUFFICES ASSUME NEW q \in Runs, pc'[q] # pc[q]
             PROVE  lease[q] # None /\ pc[q].main # "idle" /\ pc'[q].main # "idle"
  BY <1>1 DEF Moved
<1>2. pc'[q].main # pc[q].main \/ pc'[q].control # pc[q].control \/ pc'[q].tool # pc[q].tool
  BY <1>1 DEF PcSet
<1>3. ~ AtRest(q) \/ pc[q].main \in {"preflightWait", "closeWait"} BY <1>2, ReplyEffect DEF AtRest
<1>4. lease[q] # None /\ pc[q].main # "idle" BY <1>3 DEF IdleInv
<1> QED BY <1>1, <1>4, ReplyEffect DEF ReplyMain

-----------------------------------------------------------------------------
(* The actions, one by one.                                                 *)

\* Each action keeps ShapeInv and is one of the kinds of StepKind.
LEMMA SendPreflightShape ==
  ASSUME ShapeInv, NEW r \in Runs, SendPreflight(r)
  PROVE  ShapeInv' /\ AgentQuiet
<1> USE DEF ShapeInv
<1>0. lease[r] \in Holder /\ lease[r] # None /\ pc[r].main # "idle"
  BY NoneIsNone DEF TypeOK, IdleInv, AtRest, SendPreflight
<1>1. lease' \in [Runs -> Holders] /\ LeaseKept
  BY <1>0, FlagsKept, HolderFields DEF SendPreflight
<1>2. pc' \in PcSet /\ Moved /\ op' = op
  <2>1. pc' = [pc EXCEPT ![r].main = "preflightWait"] /\ delegate' = delegate /\ op' = op
    BY DEF SendPreflight
  <2>2. "main" \in Threads /\ "preflightWait" \in PcsOf("main")
    BY DEF Threads, PcsOf, MainPcs
  <2> QED BY <1>0, <2>1, <2>2, ThreadMoves
<1>3. runFile[r] \in Lease
  BY DEF TypeOK, SendPreflight, CanSnapshot
<1>4. queue' \in Seq(Request)
  BY <1>3 DEF SendPreflight, Send, TypeOK, Lease, Request, Kinds, Threads
<1>20. TypeOK'
  BY <1>0, <1>1, <1>2, <1>3, <1>4, NoneIsNone
      DEF SendPreflight, TypeOK, fileVars, serverVars, envVars, PcSet, Holders
<1>21. OpInv' /\ IdleInv'
  BY <1>0, <1>1, <1>2, <1>3, <1>4, KeepsShape, KeepsNone
<1>22. ServerInv'
  BY DEF SendPreflight, ServerInv, fileVars, serverVars, envVars
<1>23. PcKept
  BY <1>0, ThreadMoves DEF SendPreflight, Threads, PcsOf, MainPcs, Changing
<1>24. \E req \in Request: queue' = Append(queue, req) /\ SentBy(req)
  BY <1>0, <1>3, NoneIsNone
      DEF SendPreflight, Send, SentBy, Request, Kinds, Threads, Lease, ViewerKinds, CanSnapshot
<1>25. AgentQuiet
  BY <1>0, <1>1, <1>2, <1>3, <1>4, <1>23, <1>24
      DEF SendPreflight, AgentQuiet, fileVars, serverVars, envVars, TypeOK
<1> QED BY <1>20, <1>21, <1>22, <1>25

LEMMA PreflightUnsentShape ==
  ASSUME ShapeInv, NEW r \in Runs, PreflightUnsent(r)
  PROVE  ShapeInv' /\ AgentQuiet
<1> USE DEF ShapeInv
<1>0. lease[r] \in Holder /\ lease[r] # None /\ pc[r].main # "idle"
  BY NoneIsNone DEF TypeOK, IdleInv, AtRest, PreflightUnsent
<1>1. lease' \in [Runs -> Holders] /\ LeaseKept
  BY <1>0, FlagsKept, HolderFields DEF PreflightUnsent
<1>2. pc' \in PcSet /\ Moved /\ op' = op
  <2>1. pc' = [pc EXCEPT ![r].main = "closing"] /\ delegate' = delegate /\ op' = op
    BY DEF PreflightUnsent
  <2>2. "main" \in Threads /\ "closing" \in PcsOf("main")
    BY DEF Threads, PcsOf, MainPcs
  <2> QED BY <1>0, <2>1, <2>2, ThreadMoves
<1>20. TypeOK'
  BY <1>0, <1>1, <1>2, NoneIsNone
      DEF PreflightUnsent, TypeOK, fileVars, serverVars, envVars, PcSet, Holders
<1>21. OpInv' /\ IdleInv'
  BY <1>0, <1>1, <1>2, KeepsShape, KeepsNone
<1>22. ServerInv'
  BY DEF PreflightUnsent, ServerInv, fileVars, serverVars, envVars
<1>23. PcKept
  BY <1>0, ThreadMoves DEF PreflightUnsent, Threads, PcsOf, MainPcs, Changing
<1>25. AgentQuiet
  BY <1>0, <1>1, <1>2, <1>23 DEF PreflightUnsent, AgentQuiet, fileVars, serverVars, envVars, TypeOK
<1> QED BY <1>20, <1>21, <1>22, <1>25

LEMMA PreflightSettledShape ==
  ASSUME ShapeInv, NEW r \in Runs, PreflightSettled(r)
  PROVE  ShapeInv' /\ AgentQuiet
<1> USE DEF ShapeInv
<1>0. lease[r] \in Holder /\ lease[r] # None /\ pc[r].main # "idle"
  BY NoneIsNone DEF TypeOK, IdleInv, AtRest, PreflightSettled
<1>1. lease' \in [Runs -> Holders] /\ LeaseKept
  BY <1>0, FlagsKept, HolderFields DEF PreflightSettled
<1>2. pc' \in PcSet /\ Moved /\ op' = op
  <2>1. op' = op /\ delegate' = delegate BY DEF PreflightSettled
  <2>2. CASE pc[r].main = "preflightOk"
    <3> DEFINE v == IF pc[r].control = "off" THEN "idle" ELSE pc[r].control
               p == [pc[r] EXCEPT !.main = "running", !.control = v]
    <3>1. pc[r] \in [main: MainPcs, control: ControlPcs, tool: ToolPcs] BY DEF TypeOK
    <3>2. p \in [main: MainPcs, control: ControlPcs, tool: ToolPcs]
      BY <3>1 DEF MainPcs, ControlPcs
    <3>3. pc' = [pc EXCEPT ![r] = p]
      BY <2>2 DEF PreflightSettled, TypeOK
    <3>4. p.main # "idle" BY <3>1
    <3> HIDE DEF p
    <3> QED BY <1>0, <2>1, <3>2, <3>3, <3>4, RunMoves
  <2>3. CASE pc[r].main # "preflightOk"
    <3>1. pc' = [pc EXCEPT ![r].main = "closing"] BY <2>3 DEF PreflightSettled
    <3>2. "main" \in Threads /\ "closing" \in PcsOf("main") BY DEF Threads, PcsOf, MainPcs
    <3> QED BY <1>0, <2>1, <3>1, <3>2, ThreadMoves
  <2> QED BY <2>2, <2>3
<1>20. TypeOK'
  BY <1>0, <1>1, <1>2, NoneIsNone
      DEF PreflightSettled, TypeOK, fileVars, serverVars, envVars, PcSet, Holders
<1>21. OpInv' /\ IdleInv'
  BY <1>0, <1>1, <1>2, KeepsShape, KeepsNone
<1>22. ServerInv'
  BY DEF PreflightSettled, ServerInv, fileVars, serverVars, envVars
<1>23. PcKept
  <2>1. CASE pc[r].main = "preflightOk"
    BY <2>1 DEF PreflightSettled, TypeOK, PcKept, Changing
  <2>2. CASE pc[r].main # "preflightOk"
    BY <1>0, <2>2, ThreadMoves DEF PreflightSettled, Threads, PcsOf, MainPcs
  <2> QED BY <2>1, <2>2
<1>25. AgentQuiet
  BY <1>0, <1>1, <1>2, <1>23 DEF PreflightSettled, AgentQuiet, fileVars, serverVars, envVars, TypeOK
<1> QED BY <1>20, <1>21, <1>22, <1>25

LEMMA TakeDelegateShape ==
  ASSUME ShapeInv, NEW r \in Runs, TakeDelegate(r)
  PROVE  ShapeInv' /\ AgentQuiet
<1> USE DEF ShapeInv
<1>0. lease[r] \in Holder /\ lease[r] # None /\ pc[r].main # "idle"
  BY NoneIsNone DEF TypeOK, IdleInv, AtRest, TakeDelegate
<1>1. lease' \in [Runs -> Holders] /\ LeaseKept
  BY <1>0, FlagsKept, HolderFields DEF TakeDelegate
<1>2. pc' \in PcSet /\ Moved /\ op' = op
  BY <1>0 DEF TakeDelegate, TypeOK, PcSet, MainPcs, ControlPcs, ToolPcs, Moved
<1>3. delegate' \in [Runs -> Leases]
  BY DEF TypeOK, TakeDelegate, Leases
<1>20. TypeOK'
  BY <1>0, <1>1, <1>2, <1>3, NoneIsNone
      DEF TakeDelegate, TypeOK, fileVars, serverVars, envVars, PcSet, Holders, Leases
<1>21. OpInv' /\ IdleInv'
  BY <1>0, <1>1, <1>2, <1>3, KeepsShape, KeepsNone
<1>22. ServerInv'
  BY DEF TakeDelegate, ServerInv, fileVars, serverVars, envVars
<1>23. PcKept
  BY DEF TakeDelegate, PcKept
<1>25. AgentQuiet
  BY <1>0, <1>1, <1>2, <1>3, <1>23
      DEF TakeDelegate, AgentQuiet, fileVars, serverVars, envVars, TypeOK
<1> QED BY <1>20, <1>21, <1>22, <1>25

LEMMA ToolCallShape ==
  ASSUME ShapeInv, NEW r \in Runs, NEW kind \in {"act", "close"}, ToolCall(r, kind)
  PROVE  ShapeInv' /\ AgentQuiet
<1> USE DEF ShapeInv
<1>0. delegate[r] \in Lease
  BY DEF TypeOK, ToolCall
<1>1. queue' \in Seq(Request)
  BY <1>0 DEF ToolCall, Send, TypeOK, Lease, Request, Kinds, Threads
<1>2. LeaseKept /\ Moved /\ op' = op
  BY DEF ToolCall, LeaseKept, Moved, agentVars
<1>20. TypeOK'
  BY <1>0, <1>1, <1>2, NoneIsNone DEF ToolCall, TypeOK, agentVars, fileVars, serverVars, envVars
<1>21. OpInv' /\ IdleInv'
  BY <1>0, <1>1, <1>2, KeepsShape, KeepsNone
<1>22. ServerInv'
  BY DEF ToolCall, ServerInv, agentVars, fileVars, serverVars, envVars
<1>23. PcKept
  BY DEF ToolCall, PcKept, agentVars
<1>24. \E req \in Request: queue' = Append(queue, req) /\ SentBy(req)
  BY <1>0 DEF ToolCall, Send, SentBy, Request, Kinds, Threads, Lease
<1>25. AgentQuiet
  BY <1>0, <1>1, <1>2, <1>23, <1>24
      DEF ToolCall, AgentQuiet, agentVars, fileVars, serverVars, envVars, TypeOK
<1> QED BY <1>20, <1>21, <1>22, <1>25

LEMMA RotateRunShape ==
  ASSUME ShapeInv, NEW r \in Runs, RotateRun(r)
  PROVE  ShapeInv' /\ Begins(r)
<1> USE DEF ShapeInv
<1>0. lease[r] \in Holder /\ lease[r] # None /\ pc[r].main # "idle"
  BY NoneIsNone DEF TypeOK, IdleInv, AtRest, RotateRun
<1>1. pc' \in PcSet /\ Moved
  <2>1. pc' = [pc EXCEPT ![r].main = "rotating"] /\ delegate' = delegate
    BY DEF RotateRun
  <2>2. "main" \in Threads /\ "rotating" \in PcsOf("main")
    BY DEF Threads, PcsOf, MainPcs
  <2> QED BY <1>0, <2>1, <2>2, ThreadMoves
<1>2. lease' \in [Runs -> Holders] /\ NoneKept /\ attachments' \in 0..MaxAttachments
      /\ op' \in Operation /\ OpInv' /\ IdleInv'
  BY <1>0, <1>1, StartRotateShape DEF RotateRun, MainPcs
<1>20. TypeOK'
  BY <1>0, <1>1, <1>2, NoneIsNone
      DEF RotateRun, TypeOK, fileVars, serverVars, envVars, PcSet, Holders
<1>22. ServerInv'
  BY DEF RotateRun, ServerInv, fileVars, serverVars, envVars
<1>23. PcKept
  BY <1>0, ThreadMoves DEF RotateRun, Threads, PcsOf, MainPcs
<1>25. Begins(r)
  BY <1>0, <1>23 DEF RotateRun, Begins, RotateStarts, MainPcs
<1> QED BY <1>0, <1>1, <1>2, <1>20, <1>22, <1>25

LEMMA EndRunShape ==
  ASSUME ShapeInv, NEW r \in Runs, EndRun(r)
  PROVE  ShapeInv' /\ AgentQuiet
<1> USE DEF ShapeInv
<1>0. lease[r] \in Holder /\ lease[r] # None /\ pc[r].main # "idle"
  BY NoneIsNone DEF TypeOK, IdleInv, AtRest, EndRun
<1>1. LeaseKept
  BY DEF EndRun, LeaseKept, fileVars, serverVars, envVars
<1>2. pc' \in PcSet /\ Moved /\ op' = op
  <2>1. pc' = [pc EXCEPT ![r].main = "closing"] /\ delegate' = delegate /\ op' = op
    BY DEF EndRun
  <2>2. "main" \in Threads /\ "closing" \in PcsOf("main")
    BY DEF Threads, PcsOf, MainPcs
  <2> QED BY <1>0, <2>1, <2>2, ThreadMoves
<1>20. TypeOK'
  BY <1>0, <1>1, <1>2, NoneIsNone DEF EndRun, TypeOK, fileVars, serverVars, envVars, PcSet
<1>21. OpInv' /\ IdleInv'
  BY <1>0, <1>1, <1>2, KeepsShape, KeepsNone
<1>22. ServerInv'
  BY DEF EndRun, ServerInv, fileVars, serverVars, envVars
<1>23. PcKept
  BY <1>0, ThreadMoves DEF EndRun, Threads, PcsOf, MainPcs, Changing
<1>25. AgentQuiet
  BY <1>0, <1>1, <1>2, <1>23 DEF EndRun, AgentQuiet, fileVars, serverVars, envVars, TypeOK
<1> QED BY <1>20, <1>21, <1>22, <1>25

LEMMA FenceShape ==
  ASSUME ShapeInv, NEW r \in Runs, Fence(r)
  PROVE  ShapeInv' /\ (AgentQuiet \/ Begins(r))
<1> USE DEF ShapeInv
<1>0. lease[r] \in Holder /\ lease[r] # None /\ pc[r].main # "idle"
  BY NoneIsNone DEF TypeOK, IdleInv, AtRest, Fence
<1>1. pc' \in PcSet /\ Moved
  BY <1>0, ThreadMoves DEF Fence, Threads, PcsOf, MainPcs
<1>2. lease' \in [Runs -> Holders] /\ attachments' \in 0..MaxAttachments
      /\ op' \in Operation \union {None} /\ OpInv' /\ IdleInv'
  <2>1. CASE CanRotate(r)
    BY <1>0, <1>1, <2>1, StartRotateShape DEF Fence, MainPcs
  <2>2. CASE ~ CanRotate(r)
    BY <1>1, <2>2, KeepsShape, KeepsNone DEF Fence, TypeOK, LeaseKept, Holders
  <2> QED BY <2>1, <2>2
<1>20. TypeOK'
  BY <1>0, <1>1, <1>2, NoneIsNone DEF Fence, TypeOK, fileVars, serverVars, envVars, PcSet, Holders
<1>22. ServerInv'
  BY DEF Fence, ServerInv, fileVars, serverVars, envVars
<1>23. PcKept
  BY <1>0, ThreadMoves DEF Fence, Threads, PcsOf, MainPcs
<1>25. AgentQuiet \/ Begins(r)
  <2>1. CASE CanRotate(r)
    BY <1>0, <1>23, <2>1 DEF Fence, Begins, RotateStarts, MainPcs
  <2>2. CASE ~ CanRotate(r)
    BY <1>0, <1>23, <2>2 DEF Fence, AgentQuiet, LeaseKept, TypeOK
  <2> QED BY <2>1, <2>2
<1> QED BY <1>0, <1>1, <1>2, <1>20, <1>22, <1>25

LEMMA PauseShape ==
  ASSUME ShapeInv, NEW r \in Runs, Pause(r)
  PROVE  ShapeInv' /\ Begins(r)
<1> USE DEF ShapeInv
<1>0. lease[r] \in Holder /\ lease[r] # None /\ pc[r].main # "idle"
  BY NoneIsNone DEF TypeOK, IdleInv, AtRest, Pause
<1>1. pc' \in PcSet /\ Moved
  <2>1. pc' = [pc EXCEPT ![r].tool = "pausing"] /\ delegate' = delegate
    BY DEF Pause
  <2>2. "tool" \in Threads /\ "pausing" \in PcsOf("tool")
    BY DEF Threads, PcsOf, ToolPcs
  <2> QED BY <1>0, <2>1, <2>2, ThreadMoves
<1>2. lease' \in [Runs -> Holders] /\ NoneKept /\ op' \in Operation /\ OpInv' /\ IdleInv'
  BY <1>0, <1>1, StartTransitionShape
      DEF Pause, Threads, Controllers, PcsOf, MainPcs, ControlPcs, ToolPcs
<1>20. TypeOK'
  BY <1>0, <1>1, <1>2, NoneIsNone DEF Pause, TypeOK, fileVars, serverVars, envVars, PcSet, Holders
<1>22. ServerInv'
  BY DEF Pause, ServerInv, fileVars, serverVars, envVars
<1>23. \A q \in Runs: pc'[q].control = "enter" => pc[q].control = "enter"
  BY DEF Pause, TypeOK
<1>24. StartTransition(r, "tool", "agent", "none", "paused", "idle")
  BY DEF Pause
<1>25. Begins(r)
  <2>1. pc[r].tool # "idle" BY DEF Pause, TypeOK, Changing
  <2>2. UNCHANGED <<rootLock, delegate, attachments, fileVars, serverVars, envVars, authority, queue>>
    BY DEF Pause
  <2>3. /\ "paused" \in MainPcs \union ControlPcs \union ToolPcs
        /\ "idle" \in MainPcs \union ControlPcs \union ToolPcs
        /\ "tool" \in Threads /\ "agent" \in Controllers /\ "none" \in Controllers
    BY DEF Threads, Controllers, MainPcs, ControlPcs, ToolPcs
  <2>4. TransitionStarts(r)
    BY <1>23, <1>24, <2>1, <2>2, <2>3, TransitionBegins
  <2> QED BY <1>0, <2>4 DEF Begins
<1> QED BY <1>0, <1>1, <1>2, <1>20, <1>22, <1>25

LEMMA ClaimShape ==
  ASSUME ShapeInv, NEW r \in Runs, Claim(r)
  PROVE  ShapeInv' /\ Begins(r)
<1> USE DEF ShapeInv
<1>0. lease[r] \in Holder /\ lease[r] # None /\ pc[r].main # "idle"
  BY NoneIsNone DEF TypeOK, IdleInv, AtRest, Claim, Commandable
<1>1. pc' \in PcSet /\ Moved
  BY <1>0, ThreadMoves DEF Claim, Threads, PcsOf, ControlPcs
<1>2. lease' \in [Runs -> Holders] /\ NoneKept /\ op' \in Operation /\ OpInv' /\ IdleInv'
  BY <1>0, <1>1, StartTransitionShape
      DEF Claim, Threads, Controllers, PcsOf, MainPcs, ControlPcs, ToolPcs
<1>20. TypeOK'
  BY <1>0, <1>1, <1>2, NoneIsNone DEF Claim, TypeOK, fileVars, serverVars, envVars, PcSet, Holders
<1>22. ServerInv'
  BY DEF Claim, ServerInv, fileVars, serverVars, envVars
<1>23. \A q \in Runs: pc'[q].control = "enter" => pc[q].control = "enter"
  BY DEF Claim, TypeOK
<1>24. StartTransition(r, "control", "none", "human", "enter", "idle")
  BY DEF Claim
<1>25. Begins(r)
  <2>1. pc'[r].control \in Changing /\ pc'[r].control = "claiming" BY DEF Claim, TypeOK, Changing
  <2>2. UNCHANGED <<rootLock, delegate, attachments, fileVars, serverVars, envVars, authority, queue>>
    BY DEF Claim
  <2>3. /\ "enter" \in MainPcs \union ControlPcs \union ToolPcs
        /\ "idle" \in MainPcs \union ControlPcs \union ToolPcs
        /\ "control" \in Threads /\ "none" \in Controllers /\ "human" \in Controllers
    BY DEF Threads, Controllers, MainPcs, ControlPcs, ToolPcs
  <2>4. TransitionStarts(r)
    BY <1>23, <1>24, <2>1, <2>2, <2>3, TransitionBegins
  <2> QED BY <1>0, <2>4 DEF Begins
<1> QED BY <1>0, <1>1, <1>2, <1>20, <1>22, <1>25

LEMMA ResumeShape ==
  ASSUME ShapeInv, NEW r \in Runs, Resume(r)
  PROVE  ShapeInv' /\ Begins(r)
<1> USE DEF ShapeInv
<1>0. lease[r] \in Holder /\ lease[r] # None /\ pc[r].main # "idle"
  BY NoneIsNone DEF TypeOK, IdleInv, AtRest, Resume, Commandable
<1>1. pc' \in PcSet /\ Moved
  BY <1>0, ThreadMoves DEF Resume, Threads, PcsOf, ControlPcs
<1>2. lease' \in [Runs -> Holders] /\ NoneKept /\ op' \in Operation /\ OpInv' /\ IdleInv'
  BY <1>0, <1>1, StartTransitionShape
      DEF Resume, Threads, Controllers, PcsOf, MainPcs, ControlPcs, ToolPcs
<1>20. TypeOK'
  BY <1>0, <1>1, <1>2, NoneIsNone DEF Resume, TypeOK, fileVars, serverVars, envVars, PcSet, Holders
<1>22. ServerInv'
  BY DEF Resume, ServerInv, fileVars, serverVars, envVars
<1>23. \A q \in Runs: pc'[q].control = "enter" => pc[q].control = "enter"
  BY DEF Resume, TypeOK
<1>24. StartTransition(r, "control", "none", "agent", "resumed", "idle")
  BY DEF Resume
<1>25. Begins(r)
  <2>1. pc'[r].control \in Changing BY DEF Resume, TypeOK, Changing
  <2>2. UNCHANGED <<rootLock, delegate, attachments, fileVars, serverVars, envVars, authority, queue>>
    BY DEF Resume
  <2>3. /\ "resumed" \in MainPcs \union ControlPcs \union ToolPcs
        /\ "idle" \in MainPcs \union ControlPcs \union ToolPcs
        /\ "control" \in Threads /\ "none" \in Controllers /\ "agent" \in Controllers
    BY DEF Threads, Controllers, MainPcs, ControlPcs, ToolPcs
  <2>4. TransitionStarts(r)
    BY <1>23, <1>24, <2>1, <2>2, <2>3, TransitionBegins
  <2> QED BY <1>0, <2>4 DEF Begins
<1> QED BY <1>0, <1>1, <1>2, <1>20, <1>22, <1>25

LEMMA PauseRefusedShape ==
  ASSUME ShapeInv, NEW r \in Runs, PauseRefused(r)
  PROVE  ShapeInv' /\ AgentQuiet
<1> USE DEF ShapeInv
<1>0. lease[r] \in Holder /\ lease[r] # None /\ pc[r].main # "idle"
  BY NoneIsNone DEF TypeOK, IdleInv, AtRest, PauseRefused
<1>1. LeaseKept
  BY DEF PauseRefused, LeaseKept, fileVars, serverVars, envVars
<1>2. pc' \in PcSet /\ Moved /\ op' = op
  <2>1. pc' = [pc EXCEPT ![r].tool = "idle"] /\ delegate' = delegate /\ op' = op
    BY DEF PauseRefused
  <2>2. "tool" \in Threads /\ "idle" \in PcsOf("tool")
    BY DEF Threads, PcsOf, ToolPcs
  <2> QED BY <1>0, <2>1, <2>2, ThreadMoves
<1>20. TypeOK'
  BY <1>0, <1>1, <1>2, NoneIsNone DEF PauseRefused, TypeOK, fileVars, serverVars, envVars, PcSet
<1>21. OpInv' /\ IdleInv'
  BY <1>0, <1>1, <1>2, KeepsShape, KeepsNone
<1>22. ServerInv'
  BY DEF PauseRefused, ServerInv, fileVars, serverVars, envVars
<1>23. PcKept
  BY DEF PauseRefused, TypeOK, PcKept, Changing
<1>25. AgentQuiet
  BY <1>0, <1>1, <1>2, <1>23 DEF PauseRefused, AgentQuiet, fileVars, serverVars, envVars, TypeOK
<1> QED BY <1>20, <1>21, <1>22, <1>25

LEMMA EnterShape ==
  ASSUME ShapeInv, NEW r \in Runs, Enter(r)
  PROVE  ShapeInv' /\ AgentQuiet
<1> USE DEF ShapeInv
<1>0. lease[r] \in Holder /\ lease[r] # None /\ pc[r].main # "idle"
  BY NoneIsNone DEF TypeOK, IdleInv, AtRest, Enter, SendViewer, Commandable
<1>1. lease' \in [Runs -> Holders] /\ LeaseKept
  BY <1>0, FlagsKept, HolderFields DEF Enter, SendViewer
<1>2. pc' \in PcSet /\ Moved /\ op' = op
  <2>1. pc' = [pc EXCEPT ![r].control = "viewerWait"] /\ delegate' = delegate /\ op' = op
    BY DEF Enter, SendViewer
  <2>2. "control" \in Threads /\ "viewerWait" \in PcsOf("control")
    BY DEF Threads, PcsOf, ControlPcs
  <2> QED BY <1>0, <2>1, <2>2, ThreadMoves
<1>3. runFile[r] \in Lease
  BY DEF TypeOK, Enter, SendViewer, CanSnapshot
<1>4. queue' \in Seq(Request)
  BY <1>3 DEF Enter, SendViewer, Send, TypeOK, Lease, Request, Kinds, Threads
<1>20. TypeOK'
  BY <1>0, <1>1, <1>2, <1>3, <1>4, NoneIsNone
      DEF Enter, SendViewer, TypeOK, fileVars, serverVars, envVars, PcSet, Holders
<1>21. OpInv' /\ IdleInv'
  BY <1>0, <1>1, <1>2, <1>3, <1>4, KeepsShape, KeepsNone
<1>22. ServerInv'
  BY DEF Enter, SendViewer, ServerInv, fileVars, serverVars, envVars
<1>23. PcKept
  BY <1>0, ThreadMoves DEF Enter, Threads, PcsOf, ControlPcs, Changing, SendViewer
<1>24. \E req \in Request: queue' = Append(queue, req) /\ SentBy(req)
  BY <1>3, NoneIsNone
      DEF Enter, SendViewer, CanSnapshot, Send, SentBy, Request, Kinds, Threads, Lease
<1>25. AgentQuiet
  BY <1>0, <1>1, <1>2, <1>3, <1>4, <1>23, <1>24
      DEF Enter, AgentQuiet, fileVars, serverVars, envVars, TypeOK, SendViewer
<1> QED BY <1>20, <1>21, <1>22, <1>25

LEMMA InputShape ==
  ASSUME ShapeInv, NEW r \in Runs, Input(r)
  PROVE  ShapeInv' /\ AgentQuiet
<1> USE DEF ShapeInv
<1>0. lease[r] \in Holder /\ lease[r] # None /\ pc[r].main # "idle"
  BY NoneIsNone DEF TypeOK, IdleInv, AtRest, Input, SendViewer, Commandable
<1>1. lease' \in [Runs -> Holders] /\ LeaseKept
  BY <1>0, FlagsKept, HolderFields DEF Input, SendViewer
<1>2. pc' \in PcSet /\ Moved /\ op' = op
  BY <1>0, ThreadMoves DEF Input, Threads, PcsOf, ControlPcs, SendViewer
<1>3. runFile[r] \in Lease
  BY DEF TypeOK, Input, SendViewer, CanSnapshot
<1>4. queue' \in Seq(Request)
  BY <1>3 DEF Input, SendViewer, Send, TypeOK, Lease, Request, Kinds, Threads
<1>20. TypeOK'
  BY <1>0, <1>1, <1>2, <1>3, <1>4, NoneIsNone
      DEF Input, SendViewer, TypeOK, fileVars, serverVars, envVars, PcSet, Holders
<1>21. OpInv' /\ IdleInv'
  BY <1>0, <1>1, <1>2, <1>3, <1>4, KeepsShape, KeepsNone
<1>22. ServerInv'
  BY DEF Input, SendViewer, ServerInv, fileVars, serverVars, envVars
<1>23. PcKept
  BY <1>0, ThreadMoves DEF Input, Threads, PcsOf, ControlPcs, Changing, SendViewer, Commandable
<1>24. \E req \in Request: queue' = Append(queue, req) /\ SentBy(req)
  BY <1>3, NoneIsNone
      DEF Input, SendViewer, CanSnapshot, Send, SentBy, Request, Kinds, Threads, Lease
<1>25. AgentQuiet
  BY <1>0, <1>1, <1>2, <1>3, <1>4, <1>23, <1>24
      DEF Input, AgentQuiet, fileVars, serverVars, envVars, TypeOK, SendViewer
<1> QED BY <1>20, <1>21, <1>22, <1>25

LEMMA ReleaseShape ==
  ASSUME ShapeInv, NEW r \in Runs, Release(r)
  PROVE  ShapeInv' /\ AgentQuiet
<1> USE DEF ShapeInv
<1>0. lease[r] \in Holder /\ lease[r] # None /\ pc[r].main # "idle"
  BY NoneIsNone DEF TypeOK, IdleInv, AtRest, Release, SendViewer, Commandable
<1>1. lease' \in [Runs -> Holders] /\ LeaseKept
  BY <1>0, FlagsKept, HolderFields DEF Release, SendViewer
<1>2. pc' \in PcSet /\ Moved /\ op' = op
  BY <1>0, ThreadMoves DEF Release, Threads, PcsOf, ControlPcs, SendViewer
<1>3. runFile[r] \in Lease
  BY DEF TypeOK, Release, SendViewer, CanSnapshot
<1>4. queue' \in Seq(Request)
  BY <1>3 DEF Release, SendViewer, Send, TypeOK, Lease, Request, Kinds, Threads
<1>20. TypeOK'
  BY <1>0, <1>1, <1>2, <1>3, <1>4, NoneIsNone
      DEF Release, SendViewer, TypeOK, fileVars, serverVars, envVars, PcSet, Holders
<1>21. OpInv' /\ IdleInv'
  BY <1>0, <1>1, <1>2, <1>3, <1>4, KeepsShape, KeepsNone
<1>22. ServerInv'
  BY DEF Release, SendViewer, ServerInv, fileVars, serverVars, envVars
<1>23. PcKept
  BY <1>0, ThreadMoves DEF Release, Threads, PcsOf, ControlPcs, Changing, SendViewer, Commandable
<1>24. \E req \in Request: queue' = Append(queue, req) /\ SentBy(req)
  BY <1>3, NoneIsNone
      DEF Release, SendViewer, CanSnapshot, Send, SentBy, Request, Kinds, Threads, Lease
<1>25. AgentQuiet
  BY <1>0, <1>1, <1>2, <1>3, <1>4, <1>23, <1>24
      DEF Release, AgentQuiet, fileVars, serverVars, envVars, TypeOK, SendViewer
<1> QED BY <1>20, <1>21, <1>22, <1>25

LEMMA EnterUnsentShape ==
  ASSUME ShapeInv, NEW r \in Runs, EnterUnsent(r)
  PROVE  ShapeInv' /\ AgentQuiet
<1> USE DEF ShapeInv
<1>0. lease[r] \in Holder /\ lease[r] # None /\ pc[r].main # "idle"
  BY NoneIsNone DEF TypeOK, IdleInv, AtRest, EnterUnsent
<1>1. lease' \in [Runs -> Holders] /\ LeaseKept
  BY <1>0, FlagsKept, HolderFields DEF EnterUnsent
<1>2. pc' \in PcSet /\ Moved /\ op' = op
  <2>1. pc' = [pc EXCEPT ![r].control = "idle"] /\ delegate' = delegate /\ op' = op
    BY DEF EnterUnsent
  <2>2. "control" \in Threads /\ "idle" \in PcsOf("control")
    BY DEF Threads, PcsOf, ControlPcs
  <2> QED BY <1>0, <2>1, <2>2, ThreadMoves
<1>20. TypeOK'
  BY <1>0, <1>1, <1>2, NoneIsNone
      DEF EnterUnsent, TypeOK, fileVars, serverVars, envVars, PcSet, Holders
<1>21. OpInv' /\ IdleInv'
  BY <1>0, <1>1, <1>2, KeepsShape, KeepsNone
<1>22. ServerInv'
  BY DEF EnterUnsent, ServerInv, fileVars, serverVars, envVars
<1>23. PcKept
  BY <1>0, ThreadMoves DEF EnterUnsent, Threads, PcsOf, ControlPcs, Changing
<1>25. AgentQuiet
  BY <1>0, <1>1, <1>2, <1>23 DEF EnterUnsent, AgentQuiet, fileVars, serverVars, envVars, TypeOK
<1> QED BY <1>20, <1>21, <1>22, <1>25

LEMMA ReleasedShape ==
  ASSUME ShapeInv, NEW r \in Runs, Released(r)
  PROVE  ShapeInv' /\ (AgentQuiet \/ Begins(r))
<1> USE DEF ShapeInv
<1>0. lease[r] \in Holder /\ lease[r] # None /\ pc[r].main # "idle"
  BY NoneIsNone DEF TypeOK, IdleInv, AtRest, Released
<1>1. pc' \in PcSet /\ Moved
  <2>1. CASE CanTransition(r, "human")
    BY <1>0, <2>1, ThreadMoves DEF Released, Threads, PcsOf, ControlPcs
  <2>2. CASE ~ CanTransition(r, "human")
    BY <1>0, <2>2, ThreadMoves DEF Released, Threads, PcsOf, ControlPcs
  <2> QED BY <2>1, <2>2
<1>2. lease' \in [Runs -> Holders] /\ op' \in Operation \union {None} /\ OpInv' /\ IdleInv'
  <2>1. CASE CanTransition(r, "human")
    BY <1>0, <1>1, <2>1, StartTransitionShape DEF Released, Threads, Controllers, PcsOf, ControlPcs
  <2>2. CASE ~ CanTransition(r, "human")
    BY <1>1, <2>2, KeepsShape, KeepsNone DEF Released, TypeOK, LeaseKept, Holders
  <2> QED BY <2>1, <2>2
<1>20. TypeOK'
  BY <1>0, <1>1, <1>2, NoneIsNone DEF Released, TypeOK, fileVars, serverVars, envVars, PcSet,
                                      Holders
<1>22. ServerInv'
  BY DEF Released, ServerInv, fileVars, serverVars, envVars
<1>25. AgentQuiet \/ Begins(r)
  <2>1. CASE CanTransition(r, "human")
    <3>1. \A q \in Runs: pc'[q].control = "enter" => pc[q].control = "enter"
      BY <2>1 DEF Released, TypeOK
    <3>2. StartTransition(r, "control", "human", "none", "idle", "idle")
      BY <2>1 DEF Released
    <3>3. pc'[r].control \in Changing BY <2>1 DEF Released, TypeOK, Changing
    <3>4. UNCHANGED <<rootLock, delegate, attachments, fileVars, serverVars, envVars, authority, queue>>
      BY <2>1 DEF Released
    <3>5. TransitionStarts(r)
      BY <3>1, <3>2, <3>3, <3>4 DEF TransitionStarts, Threads, Controllers, MainPcs
    <3> QED BY <1>0, <3>5 DEF Begins
  <2>2. CASE ~ CanTransition(r, "human")
    <3>1. PcKept BY <1>0, <2>2, ThreadMoves DEF Released, Threads, PcsOf, ControlPcs, Changing
    <3> QED BY <1>0, <2>2, <3>1 DEF Released, AgentQuiet, LeaseKept, TypeOK
  <2> QED BY <2>1, <2>2
<1> QED BY <1>0, <1>1, <1>2, <1>20, <1>22, <1>25

LEMMA WakeShape ==
  ASSUME ShapeInv, NEW r \in Runs, Wake(r)
  PROVE  ShapeInv' /\ AgentQuiet
<1> USE DEF ShapeInv
<1>0. lease[r] \in Holder /\ lease[r] # None /\ pc[r].main # "idle"
  BY NoneIsNone DEF TypeOK, IdleInv, AtRest, Wake
<1>1. LeaseKept
  BY DEF Wake, LeaseKept, fileVars, serverVars, envVars
<1>2. pc' \in PcSet /\ Moved /\ op' = op
  <2> DEFINE v == IF pc[r].tool = "paused" THEN "idle" ELSE pc[r].tool
             p == [pc[r] EXCEPT !.control = "idle", !.tool = v]
  <2>1. op' = op /\ delegate' = delegate BY DEF Wake
  <2>2. pc[r] \in [main: MainPcs, control: ControlPcs, tool: ToolPcs] BY DEF TypeOK
  <2>3. p \in [main: MainPcs, control: ControlPcs, tool: ToolPcs]
    BY <2>2 DEF ControlPcs, ToolPcs
  <2>4. pc' = [pc EXCEPT ![r] = p]
    BY DEF Wake, TypeOK
  <2>5. p.main # "idle" BY <1>0, <2>2
  <2> HIDE DEF p
  <2> QED BY <1>0, <2>1, <2>3, <2>4, <2>5, RunMoves
<1>20. TypeOK'
  BY <1>0, <1>1, <1>2, NoneIsNone DEF Wake, TypeOK, fileVars, serverVars, envVars, PcSet
<1>21. OpInv' /\ IdleInv'
  BY <1>0, <1>1, <1>2, KeepsShape, KeepsNone
<1>22. ServerInv'
  BY DEF Wake, ServerInv, fileVars, serverVars, envVars
<1>23. PcKept
  BY DEF Wake, TypeOK, PcKept, Changing
<1>25. AgentQuiet
  BY <1>0, <1>1, <1>2, <1>23 DEF Wake, AgentQuiet, fileVars, serverVars, envVars, TypeOK
<1> QED BY <1>20, <1>21, <1>22, <1>25

LEMMA TerminateShape ==
  ASSUME ShapeInv, NEW r \in Runs, Terminate(r)
  PROVE  ShapeInv' /\ AgentQuiet
<1> USE DEF ShapeInv
<1>0. lease[r] \in Holder /\ lease[r] # None /\ pc[r].main # "idle"
  BY NoneIsNone DEF TypeOK, IdleInv, AtRest, Terminate, Commandable
<1>1. LeaseKept
  BY DEF Terminate, LeaseKept, fileVars, serverVars, envVars
<1>2. pc' \in PcSet /\ Moved /\ op' = op
  BY <1>0, ThreadMoves DEF Terminate, Threads, PcsOf, ControlPcs
<1>20. TypeOK'
  BY <1>0, <1>1, <1>2, NoneIsNone DEF Terminate, TypeOK, fileVars, serverVars, envVars, PcSet
<1>21. OpInv' /\ IdleInv'
  BY <1>0, <1>1, <1>2, KeepsShape, KeepsNone
<1>22. ServerInv'
  BY DEF Terminate, ServerInv, fileVars, serverVars, envVars
<1>23. PcKept
  BY <1>0, ThreadMoves DEF Terminate, Threads, PcsOf, ControlPcs, Changing, Commandable
<1>25. AgentQuiet
  BY <1>0, <1>1, <1>2, <1>23 DEF Terminate, AgentQuiet, fileVars, serverVars, envVars, TypeOK
<1> QED BY <1>20, <1>21, <1>22, <1>25

LEMMA BeginCloseShape ==
  ASSUME ShapeInv, NEW r \in Runs, NEW t \in {"main", "control"}, BeginClose(r, t)
  PROVE  ShapeInv' /\ AgentQuiet
<1> USE DEF ShapeInv
<1>0. lease[r] \in Holder /\ lease[r] # None /\ pc[r].main # "idle"
  <2>1. CASE t = "main"  BY <2>1, NoneIsNone DEF TypeOK, IdleInv, AtRest, BeginClose
  <2>2. CASE t = "control"  BY <2>2, NoneIsNone DEF TypeOK, IdleInv, AtRest, BeginClose
  <2> QED BY <2>1, <2>2
<1>1. LeaseKept
  BY DEF BeginClose, LeaseKept, fileVars, serverVars, envVars
<1>2. PICK v \in {"leaseClose", "closeSend", "fromNone", "fromHuman"}: pc' = [pc EXCEPT ![r][t] = v]
  BY <1>0, HolderFields, IdentityFields DEF BeginClose, Controllers
<1>3. delegate' \in [Runs -> Leases] /\ \A q \in Runs: q # r => delegate'[q] = delegate[q]
  BY DEF BeginClose, TypeOK, Leases
<1>4. pc' \in PcSet /\ Moved /\ op' = op
  BY <1>0, <1>2, <1>3, ThreadMoves DEF BeginClose, Threads, PcsOf, MainPcs, ControlPcs
<1>20. TypeOK'
  BY <1>0, <1>1, <1>2, <1>3, <1>4, NoneIsNone
      DEF BeginClose, TypeOK, fileVars, serverVars, envVars, PcSet, Leases
<1>21. OpInv' /\ IdleInv'
  BY <1>0, <1>1, <1>2, <1>3, <1>4, KeepsShape, KeepsNone
<1>22. ServerInv'
  BY DEF BeginClose, ServerInv, fileVars, serverVars, envVars
<1>23. PcKept
  <2>1. t \in Threads /\ t # "tool" /\ v \in PcsOf(t) /\ v # "idle" /\ v # "enter"
    BY <1>2 DEF Threads, PcsOf, MainPcs, ControlPcs
  <2>2. t = "control" => pc[r].control \notin Changing
    BY DEF BeginClose, Changing
  <2> QED BY <1>0, <1>2, <1>3, <2>1, <2>2, ThreadMoves
<1>25. AgentQuiet
  BY <1>0, <1>1, <1>2, <1>3, <1>4, <1>23
      DEF BeginClose, AgentQuiet, fileVars, serverVars, envVars, TypeOK
<1> QED BY <1>20, <1>21, <1>22, <1>25

LEMMA ReturnToAgentShape ==
  ASSUME ShapeInv, NEW r \in Runs, NEW t \in {"main", "control"}, ReturnToAgent(r, t)
  PROVE  ShapeInv' /\ (AgentQuiet \/ Begins(r))
<1> USE DEF ShapeInv
<1>0. lease[r] \in Holder /\ lease[r] # None /\ pc[r].main # "idle"
  <2>1. CASE t = "main"  BY <2>1, NoneIsNone DEF TypeOK, IdleInv, AtRest, ReturnToAgent
  <2>2. CASE t = "control"  BY <2>2, NoneIsNone DEF TypeOK, IdleInv, AtRest, ReturnToAgent
  <2> QED BY <2>1, <2>2
<1>1. PICK v \in {"toAgent", AfterFailure(t)}: pc' = [pc EXCEPT ![r][t] = v]
  BY DEF ReturnToAgent
<1>2. pc' \in PcSet /\ Moved
  BY <1>0, <1>1, ThreadMoves DEF ReturnToAgent, Threads, PcsOf, MainPcs, ControlPcs, AfterFailure
<1>3. lease' \in [Runs -> Holders] /\ op' \in Operation \union {None} /\ OpInv' /\ IdleInv'
  <2> DEFINE expected == IF pc[r][t] = "fromNone" THEN "none" ELSE "human"
  <2>1. CASE CanTransition(r, expected)
    <3>1. StartTransition(r, t, expected, "agent", "closeSend", AfterFailure(t))
      BY <2>1 DEF ReturnToAgent
    <3>2. /\ "closeSend" \in PcsOf(t) \ {"off"} /\ AfterFailure(t) \in PcsOf(t) \ {"off"}
          /\ t = "main" => "closeSend" # "idle" /\ AfterFailure(t) # "idle"
          /\ "agent" \in Controllers /\ t \in Threads
      BY DEF PcsOf, MainPcs, ControlPcs, AfterFailure, Controllers, Threads
    <3> HIDE DEF expected
    <3> QED BY <1>0, <1>2, <3>1, <3>2, StartTransitionShape
  <2>2. CASE ~ CanTransition(r, expected)
    BY <1>2, <2>2, KeepsShape, KeepsNone DEF ReturnToAgent, TypeOK, LeaseKept, Holders
  <2> QED BY <2>1, <2>2
<1>20. TypeOK'
  BY <1>0, <1>1, <1>2, <1>3, NoneIsNone
      DEF ReturnToAgent, TypeOK, fileVars, serverVars, envVars, PcSet, Holders
<1>22. ServerInv'
  BY DEF ReturnToAgent, ServerInv, fileVars, serverVars, envVars
<1>25. AgentQuiet \/ Begins(r)
  <2> DEFINE expected == IF pc[r][t] = "fromNone" THEN "none" ELSE "human"
  <2>1. CASE CanTransition(r, expected)
    <3>1. StartTransition(r, t, expected, "agent", "closeSend", AfterFailure(t)) /\ pc' = [pc EXCEPT ![r][t] = "toAgent"]
      BY <2>1 DEF ReturnToAgent
    <3>2. expected \in Controllers /\ expected # "agent" BY DEF Controllers
    <3> HIDE DEF expected
    <3>3. \A q \in Runs: pc'[q].control = "enter" => pc[q].control = "enter"
      BY <3>1 DEF TypeOK
    <3>4. t = "control" => pc'[r].control \in Changing BY <3>1 DEF Changing, TypeOK
    <3>5. /\ t \in Threads /\ "agent" \in Controllers
          /\ {"closeSend", AfterFailure(t)} \subseteq MainPcs \union ControlPcs \union ToolPcs
          /\ AfterFailure(t) # "enter"
      BY DEF Threads, Controllers, MainPcs, ControlPcs, AfterFailure
    <3>6. UNCHANGED <<rootLock, delegate, attachments, fileVars, serverVars, envVars, authority, queue>>
      BY <2>1 DEF ReturnToAgent
    <3>7. TransitionStarts(r)
      BY <3>1, <3>2, <3>3, <3>4, <3>5, <3>6 DEF TransitionStarts
    <3> QED BY <1>0, <3>7 DEF Begins
  <2>2. CASE ~ CanTransition(r, expected)
    <3>1. PcKept
      BY <1>0, <1>1, <2>2, ThreadMoves
          DEF ReturnToAgent, Threads, PcsOf, MainPcs, ControlPcs, Changing, AfterFailure
    <3> QED BY <1>0, <2>2, <3>1 DEF ReturnToAgent, AgentQuiet, LeaseKept, TypeOK
  <2> QED BY <2>1, <2>2
<1> QED BY <1>0, <1>1, <1>2, <1>3, <1>20, <1>22, <1>25

LEMMA CloseSendShape ==
  ASSUME ShapeInv, NEW r \in Runs, NEW t \in {"main", "control"}, CloseSend(r, t)
  PROVE  ShapeInv' /\ AgentQuiet
<1> USE DEF ShapeInv
<1>0. lease[r] \in Holder /\ lease[r] # None /\ pc[r].main # "idle"
  <2>1. CASE t = "main"  BY <2>1, NoneIsNone DEF TypeOK, IdleInv, AtRest, CloseSend
  <2>2. CASE t = "control"  BY <2>2, NoneIsNone DEF TypeOK, IdleInv, AtRest, CloseSend
  <2> QED BY <2>1, <2>2
<1>1. LeaseKept
  BY DEF CloseSend, LeaseKept, fileVars, serverVars, envVars
<1>2. PICK v \in {"closeWait", AfterFailure(t)}: pc' = [pc EXCEPT ![r][t] = v]
  BY DEF CloseSend
<1>3. pc' \in PcSet /\ Moved /\ op' = op
  BY <1>0, <1>2, ThreadMoves DEF CloseSend, Threads, PcsOf, MainPcs, ControlPcs, AfterFailure
<1>4. queue' \in Seq(Request)
  <2>1. CASE CanSnapshot(r)
    <3>1. runFile[r] \in Lease BY <2>1 DEF TypeOK, CanSnapshot
    <3>2. [kind |-> "close", id |-> runFile[r].id, thread |-> t] \in Request
      BY <3>1 DEF Lease, Request, Kinds, Threads
    <3>3. queue' = Append(queue, [kind |-> "close", id |-> runFile[r].id, thread |-> t])
      BY <2>1 DEF CloseSend, Send
    <3> HIDE DEF Request
    <3>4. queue \in Seq(Request) BY DEF TypeOK
    <3> QED BY <3>2, <3>3, <3>4
  <2>2. CASE ~ CanSnapshot(r)  BY <2>2 DEF CloseSend, TypeOK
  <2> QED BY <2>1, <2>2
<1>20. TypeOK'
  BY <1>0, <1>1, <1>2, <1>3, <1>4, NoneIsNone
      DEF CloseSend, TypeOK, fileVars, serverVars, envVars, PcSet
<1>21. OpInv' /\ IdleInv'
  BY <1>0, <1>1, <1>2, <1>3, <1>4, KeepsShape, KeepsNone
<1>22. ServerInv'
  BY DEF CloseSend, ServerInv, fileVars, serverVars, envVars
<1>23. PcKept
  BY <1>0, <1>2, ThreadMoves
      DEF CloseSend, Threads, PcsOf, MainPcs, ControlPcs, Changing, AfterFailure
<1>24. queue' = queue \/ \E req \in Request: queue' = Append(queue, req) /\ SentBy(req)
  <2>1. CASE CanSnapshot(r)
    <3>1. runFile[r] \in Lease /\ runFile[r] # None BY <2>1 DEF TypeOK, CanSnapshot
    <3>2. [kind |-> "close", id |-> runFile[r].id, thread |-> t] \in Request
      BY <3>1 DEF Lease, Request, Kinds, Threads
    <3>3. SentBy([kind |-> "close", id |-> runFile[r].id, thread |-> t])
      BY <3>1 DEF SentBy, ViewerKinds
    <3>4. queue' = Append(queue, [kind |-> "close", id |-> runFile[r].id, thread |-> t])
      BY <2>1 DEF CloseSend, Send
    <3> QED BY <3>2, <3>3, <3>4
  <2>2. CASE ~ CanSnapshot(r)  BY <2>2 DEF CloseSend
  <2> QED BY <2>1, <2>2
<1>25. AgentQuiet
  BY <1>0, <1>1, <1>2, <1>3, <1>4, <1>23, <1>24
      DEF CloseSend, AgentQuiet, fileVars, serverVars, envVars, TypeOK
<1> QED BY <1>20, <1>21, <1>22, <1>25

LEMMA TimeoutShape ==
  ASSUME ShapeInv, NEW r \in Runs, NEW t \in {"main", "control"}, Timeout(r, t)
  PROVE  ShapeInv' /\ AgentQuiet
<1> USE DEF ShapeInv
<1>0. lease[r] \in Holder /\ lease[r] # None /\ pc[r].main # "idle"
  <2>1. CASE t = "main"  BY <2>1, NoneIsNone DEF TypeOK, IdleInv, AtRest, Timeout, Waiting
  <2>2. CASE t = "control"  BY <2>2, NoneIsNone DEF TypeOK, IdleInv, AtRest, Timeout, Waiting
  <2> QED BY <2>1, <2>2
<1>1. LeaseKept
  BY DEF Timeout, LeaseKept, fileVars, serverVars, envVars
<1>2. PICK v: v = AfterTimeout(t, pc[r][t]) /\ pc' = [pc EXCEPT ![r][t] = v]
  BY DEF Timeout, TypeOK
<1>3. pc' \in PcSet /\ Moved /\ op' = op
  <2>1. CASE t = "main"
    <3>1. v \in PcsOf(t) /\ v # "idle"
      BY <1>2, <2>1 DEF Timeout, PcsOf, MainPcs, AfterFailure, AfterTimeout, Waiting
    <3> QED BY <1>0, <1>2, <3>1, ThreadMoves DEF Timeout, Threads
  <2>2. CASE t = "control"
    <3>1. v \in PcsOf(t)
      BY <1>2, <2>2 DEF Timeout, PcsOf, ControlPcs, AfterFailure, AfterTimeout, Waiting
    <3> QED BY <1>0, <1>2, <2>2, <3>1, ThreadMoves DEF Timeout, Threads
  <2> QED BY <2>1, <2>2
<1>20. TypeOK'
  BY <1>0, <1>1, <1>2, <1>3, NoneIsNone DEF Timeout, TypeOK, fileVars, serverVars, envVars, PcSet
<1>21. OpInv' /\ IdleInv'
  BY <1>0, <1>1, <1>2, <1>3, KeepsShape, KeepsNone
<1>22. ServerInv'
  BY DEF Timeout, ServerInv, fileVars, serverVars, envVars
<1>23. PcKept
  <2>1. v \in PcsOf(t) /\ (t = "main" => v # "idle")
        /\ (t = "control" => pc[r].control \notin Changing /\ v # "enter")
    BY <1>2 DEF Timeout, PcsOf, MainPcs, ControlPcs, AfterFailure, AfterTimeout, Waiting, Changing
  <2> QED BY <1>0, <1>2, <2>1, ThreadMoves DEF Timeout, Threads
<1>25. AgentQuiet
  BY <1>0, <1>1, <1>2, <1>3, <1>23 DEF Timeout, AgentQuiet, fileVars, serverVars, envVars, TypeOK
<1> QED BY <1>20, <1>21, <1>22, <1>25

LEMMA LeaseCloseShape ==
  ASSUME ShapeInv, NEW r \in Runs, NEW t \in {"main", "control"}, NEW runRemoved \in BOOLEAN, NEW activeRemoved \in BOOLEAN, LeaseClose(r, t, runRemoved, activeRemoved)
  PROVE  ShapeInv' /\ PcKept /\ lease[r] # None /\ (lease[r].closed => AgentQuiet)
<1> USE DEF ShapeInv
<1>0. lease[r] \in Holder /\ lease[r] # None /\ pc[r].main # "idle"
  <2>1. CASE t = "main"  BY <2>1, NoneIsNone DEF TypeOK, IdleInv, AtRest, LeaseClose
  <2>2. CASE t = "control"  BY <2>2, NoneIsNone DEF TypeOK, IdleInv, AtRest, LeaseClose
  <2> QED BY <2>1, <2>2
<1>1. pc' = [pc EXCEPT ![r][t] = AfterLeaseClose(t)]
  BY DEF LeaseClose
<1>2. pc' \in PcSet /\ Moved /\ op' = op
  <2>1. t \in Threads /\ AfterLeaseClose(t) \in PcsOf(t) /\ AfterLeaseClose(t) # "idle"
    BY DEF Threads, AfterLeaseClose, PcsOf, MainPcs, ControlPcs
  <2>2. op' = op /\ delegate' = delegate BY DEF LeaseClose
  <2> QED BY <1>0, <1>1, <2>1, <2>2, ThreadMoves
<1>3. lease' \in [Runs -> Holders] /\ NoneKept
  <2>1. CASE lease[r].closed  BY <2>1 DEF LeaseClose, TypeOK, Holders, NoneKept
  <2>2. CASE ~ lease[r].closed
    <3>1. lease' = [lease EXCEPT ![r] = [lease[r] EXCEPT !.closed = runRemoved /\ activeRemoved]]
      BY <2>2 DEF LeaseClose
    <3>2. [lease[r] EXCEPT !.closed = runRemoved /\ activeRemoved] \in Holder
      BY <1>0, HolderUpdate
    <3> QED BY <1>0, <3>1, <3>2, NoneIsNone DEF TypeOK, Holders, NoneKept
  <2> QED BY <2>1, <2>2
<1>4. runFile' \in [Runs -> Leases] /\ activeFile' \in Leases /\ rootLock' \in Runs \union {None}
  BY DEF LeaseClose, TypeOK, Leases
<1>20. TypeOK'
  BY <1>0, <1>1, <1>2, <1>3, <1>4, NoneIsNone
      DEF LeaseClose, TypeOK, serverVars, envVars, PcSet, Holders, Leases
<1>21. OpInv' /\ IdleInv'
  BY <1>0, <1>1, <1>2, <1>3, <1>4, KeepsShape, KeepsNone
<1>22. ServerInv'
  BY DEF LeaseClose, ServerInv, serverVars, envVars
<1>23. PcKept
  BY <1>0, <1>1, ThreadMoves
      DEF LeaseClose, Threads, PcsOf, MainPcs, ControlPcs, Changing, AfterLeaseClose
<1>25. lease[r].closed => AgentQuiet
  <2> SUFFICES ASSUME lease[r].closed PROVE AgentQuiet
    OBVIOUS
  <2>1. UNCHANGED <<rootLock, lease, op, delegate, attachments, fileVars, serverVars, envVars, authority, queue>>
    BY DEF LeaseClose, fileVars
  <2>2. LeaseKept BY <2>1 DEF LeaseKept
  <2> QED BY <1>23, <2>1, <2>2 DEF AgentQuiet
<1> QED BY <1>20, <1>21, <1>22, <1>0, <1>23, <1>25

\* The Runtime.
LEMMA AdmitShape ==
  ASSUME ShapeInv, Admit
  PROVE  ShapeInv'
<1> USE DEF ShapeInv
<1>0. Head(queue) \in Request /\ Tail(queue) \in Seq(Request)
  BY DEF TypeOK, Admit
<1>1. srv'.pc \in {"revoke", "execute"} /\ srv'.req = Head(queue) /\ srv' = [pc |-> srv'.pc, req |-> Head(queue)]
      /\ (srv'.pc = "revoke" => Head(queue).kind = "close")
  BY DEF Admit
<1>2. srv' \in [pc: ServerPcs, req: Request \union {None}]
  BY <1>0, <1>1 DEF ServerPcs
<1>3. queue' \in Seq(Request)
  BY <1>0 DEF Admit
<1>4. LeaseKept /\ Moved /\ op' = op
  BY DEF Admit, LeaseKept, Moved, serverFrame
<1>20. TypeOK'
  BY <1>0, <1>1, <1>2, <1>3, <1>4, NoneIsNone DEF Admit, TypeOK, serverFrame, envVars
<1>21. OpInv' /\ IdleInv'
  BY <1>0, <1>1, <1>2, <1>3, <1>4, KeepsShape, KeepsNone
<1>22. ServerInv'
  BY <1>0, <1>1, NoneIsNone DEF ServerInv
<1> QED BY <1>20, <1>21, <1>22

LEMMA RefuseShape ==
  ASSUME ShapeInv, NEW reason, Refuse(reason)
  PROVE  ShapeInv'
<1> USE DEF ShapeInv
<1>0. Head(queue) \in Request /\ Tail(queue) \in Seq(Request)
  BY DEF TypeOK, Refuse
<1>1. pc' \in PcSet /\ Moved
  BY <1>0, ReplyMoved DEF Refuse, serverFrame
<1>2. LeaseKept /\ op' = op
  BY DEF Refuse, LeaseKept, serverVars, serverFrame, envVars
<1>20. TypeOK'
  BY <1>0, <1>1, <1>2, NoneIsNone DEF Refuse, TypeOK, serverVars, serverFrame, envVars, PcSet
<1>21. OpInv' /\ IdleInv'
  BY <1>0, <1>1, <1>2, KeepsShape, KeepsNone
<1>22. ServerInv'
  BY DEF Refuse, ServerInv, serverVars, serverFrame, envVars
<1> QED BY <1>20, <1>21, <1>22

LEMMA RevokeShape ==
  ASSUME ShapeInv, Revoke
  PROVE  ShapeInv'
<1> USE DEF ShapeInv
<1>0. srv.req \in Request
  BY NoneIsNone DEF TypeOK, ServerInv, Revoke
<1>1. pc' \in PcSet /\ Moved
  BY <1>0, ReplyMoved DEF Revoke, serverFrame, Moved, TypeOK, PcSet
<1>2. LeaseKept /\ op' = op
  BY DEF Revoke, LeaseKept, serverFrame
<1>3. srv' \in [pc: ServerPcs, req: Request \union {None}] /\ authority' \in {"free", "agent", "runtime"}
  <2>1. \/ srv' = IdleServer
        \/ \E p \in {"execute", "challengeClose", "remove", "challengeRemove"}: srv' = [srv EXCEPT !.pc = p]
    BY DEF Revoke
  <2>2. srv \in [pc: ServerPcs, req: Request \union {None}] BY DEF TypeOK
  <2>3. IdleServer \in [pc: ServerPcs, req: Request \union {None}] BY DEF IdleServer, ServerPcs
  <2>4. \A p \in ServerPcs: [srv EXCEPT !.pc = p] \in [pc: ServerPcs, req: Request \union {None}]
    BY <2>2
  <2>5. srv' \in [pc: ServerPcs, req: Request \union {None}]
    BY <2>1, <2>3, <2>4 DEF ServerPcs
  <2> QED BY <2>5 DEF Revoke, TypeOK
<1>4. everRevoked' \subseteq Hashes /\ revocations' \subseteq [hash: Hashes, revokedAt: 0..MaxTime, expiresAt: 1..(MaxTime + 1)]
  <2>1. CASE UNCHANGED <<revocations, everRevoked>>  BY <2>1 DEF TypeOK
  <2>2. CASE ~ UNCHANGED <<revocations, everRevoked>>
    <3>1. /\ revocations' \in WithRevocation(srv.req.id, activeFile.expiresAt)
          /\ everRevoked' = everRevoked \union {Hash(srv.req.id)}
          /\ ActiveVerdict(srv.req.id) = "ok"
      BY <2>2 DEF Revoke
    <3>2. activeFile \in Lease BY <3>1 DEF ActiveVerdict, TypeOK
    <3>3. Hash(srv.req.id) \in Hashes BY <1>0, IdentityFields DEF Request, Hash, Hashes
    <3>4. Closure(srv.req.id, activeFile.expiresAt)
            \in [hash: Hashes, revokedAt: 0..MaxTime, expiresAt: 1..(MaxTime + 1)]
      BY <3>2, <3>3 DEF Closure, Lease, TypeOK
    <3>5. revocations' \subseteq Retained \union {Closure(srv.req.id, activeFile.expiresAt)}
      BY <3>1 DEF WithRevocation
    <3> QED BY <3>1, <3>3, <3>4, <3>5 DEF Retained, TypeOK
  <2> QED BY <2>1, <2>2
<1>20. TypeOK'
  BY <1>0, <1>1, <1>2, <1>3, <1>4, NoneIsNone DEF Revoke, TypeOK, serverFrame, PcSet
<1>21. OpInv' /\ IdleInv'
  BY <1>0, <1>1, <1>2, <1>3, <1>4, KeepsShape, KeepsNone
<1>22. ServerInv'
  BY <1>0, NoneIsNone DEF Revoke, ServerInv, IdleServer, TypeOK
<1> QED BY <1>20, <1>21, <1>22

LEMMA RevokeRemoveShape ==
  ASSUME ShapeInv, NEW removed \in BOOLEAN, RevokeRemove(removed)
  PROVE  ShapeInv'
<1> USE DEF ShapeInv
<1>0. srv.req \in Request
  BY NoneIsNone DEF TypeOK, ServerInv, RevokeRemove
<1>1. pc' \in PcSet /\ Moved
  BY <1>0, ReplyMoved DEF RevokeRemove, serverFrame, Moved, TypeOK, PcSet
<1>2. LeaseKept /\ op' = op
  BY DEF RevokeRemove, LeaseKept, serverFrame
<1>3. srv' \in [pc: ServerPcs, req: Request \union {None}] /\ authority' = "free" /\ activeFile' \in Leases
  <2>1. srv' = IdleServer \/ \E p \in {"execute", "challengeClose"}: srv' = [srv EXCEPT !.pc = p]
    BY DEF RevokeRemove, TypeOK
  <2>2. srv' \in [pc: ServerPcs, req: Request \union {None}]
    BY <2>1 DEF TypeOK, ServerPcs, IdleServer
  <2> QED BY <2>2 DEF RevokeRemove, TypeOK, Leases
<1>20. TypeOK'
  BY <1>0, <1>1, <1>2, <1>3, NoneIsNone DEF RevokeRemove, TypeOK, serverFrame, PcSet, Leases
<1>21. OpInv' /\ IdleInv'
  BY <1>0, <1>1, <1>2, <1>3, KeepsShape, KeepsNone
<1>22. ServerInv'
  BY <1>0, NoneIsNone DEF RevokeRemove, ServerInv, IdleServer, TypeOK
<1> QED BY <1>20, <1>21, <1>22

LEMMA ExecuteActShape ==
  ASSUME ShapeInv, NEW result, ExecuteAct(result)
  PROVE  ShapeInv'
<1> USE DEF ShapeInv
<1>0. srv.req \in Request /\ srv.req.id \in Identity
  BY NoneIsNone DEF TypeOK, ServerInv, Request, ExecuteAct
<1>1. pc' \in PcSet /\ Moved
  BY <1>0, ReplyMoved DEF ExecuteAct, serverFrame, Moved, TypeOK, PcSet
<1>2. LeaseKept /\ op' = op
  BY DEF ExecuteAct, LeaseKept, serverFrame, envVars
<1>3. srv' \in [pc: ServerPcs, req: Request \union {None}]
  <2>1. srv \in [pc: ServerPcs, req: Request \union {None}] BY DEF TypeOK
  <2>2. srv' = IdleServer \/ srv' = [srv EXCEPT !.pc = "challengeRevoke"] BY DEF ExecuteAct
  <2>3. IdleServer \in [pc: ServerPcs, req: Request \union {None}] BY DEF IdleServer, ServerPcs
  <2>4. [srv EXCEPT !.pc = "challengeRevoke"] \in [pc: ServerPcs, req: Request \union {None}]
    BY <2>1 DEF ServerPcs
  <2> QED BY <2>2, <2>3, <2>4
<1>4. owner' \in Identity \union {None} /\ executed' \in Identity \union {None}
  BY <1>0 DEF ExecuteAct, TypeOK
<1>20. TypeOK'
  BY <1>0, <1>1, <1>2, <1>3, <1>4, NoneIsNone DEF ExecuteAct, TypeOK, serverFrame, envVars, PcSet
<1>21. OpInv' /\ IdleInv'
  BY <1>0, <1>1, <1>2, <1>3, <1>4, KeepsShape, KeepsNone
<1>22. ServerInv'
  <2>1. CASE srv' = IdleServer BY <2>1 DEF ServerInv, IdleServer
  <2>2. CASE srv' # IdleServer
    <3>1. srv' = [srv EXCEPT !.pc = "challengeRevoke"] /\ srv.req.kind = "act"
      BY <2>2 DEF ExecuteAct
    <3>2. srv'.pc = "challengeRevoke" /\ srv'.req = srv.req BY <3>1 DEF TypeOK
    <3> QED BY <1>0, <3>1, <3>2, NoneIsNone DEF ServerInv
  <2> QED BY <2>1, <2>2
<1> QED BY <1>20, <1>21, <1>22

LEMMA ExecuteCloseShape ==
  ASSUME ShapeInv, NEW result, ExecuteClose(result)
  PROVE  ShapeInv'
<1> USE DEF ShapeInv
<1>0. srv.req \in Request /\ srv.req.id \in Identity
  BY NoneIsNone DEF TypeOK, ServerInv, Request, ExecuteClose
<1>1. pc' \in PcSet /\ Moved
  BY <1>0, ReplyMoved DEF ExecuteClose, serverFrame, Moved, TypeOK, PcSet
<1>2. LeaseKept /\ op' = op
  BY DEF ExecuteClose, LeaseKept, serverFrame, envVars
<1>3. srv' \in [pc: ServerPcs, req: Request \union {None}]
  BY <1>0 DEF ExecuteClose, TypeOK, ServerPcs, IdleServer
<1>4. owner' \in Identity \union {None} /\ executed' \in Identity \union {None}
  BY <1>0 DEF ExecuteClose, TypeOK
<1>20. TypeOK'
  BY <1>0, <1>1, <1>2, <1>3, <1>4, NoneIsNone DEF ExecuteClose, TypeOK, serverFrame, envVars, PcSet
<1>21. OpInv' /\ IdleInv'
  BY <1>0, <1>1, <1>2, <1>3, <1>4, KeepsShape, KeepsNone
<1>22. ServerInv'
  BY <1>0, NoneIsNone DEF ExecuteClose, ServerInv, IdleServer, TypeOK
<1> QED BY <1>20, <1>21, <1>22

LEMMA ChallengeCloseShape ==
  ASSUME ShapeInv, NEW closed \in BOOLEAN, ChallengeClose(closed)
  PROVE  ShapeInv'
<1> USE DEF ShapeInv
<1>0. srv.req \in Request /\ srv.req.id \in Identity
  BY NoneIsNone DEF TypeOK, ServerInv, Request, ChallengeClose
<1>1. pc' \in PcSet /\ Moved
  BY <1>0, ReplyMoved DEF ChallengeClose, serverFrame, Moved, TypeOK, PcSet
<1>2. LeaseKept /\ op' = op
  BY DEF ChallengeClose, LeaseKept, serverFrame, envVars
<1>3. srv' \in [pc: ServerPcs, req: Request \union {None}]
  BY <1>0 DEF ChallengeClose, TypeOK, ServerPcs, IdleServer
<1>4. owner' \in Identity \union {None} /\ executed' \in Identity \union {None}
  BY <1>0 DEF ChallengeClose, TypeOK
<1>20. TypeOK'
  BY <1>0, <1>1, <1>2, <1>3, <1>4, NoneIsNone DEF ChallengeClose, TypeOK, serverFrame, envVars,
                                                  PcSet
<1>21. OpInv' /\ IdleInv'
  BY <1>0, <1>1, <1>2, <1>3, <1>4, KeepsShape, KeepsNone
<1>22. ServerInv'
  BY <1>0, NoneIsNone DEF ChallengeClose, ServerInv, IdleServer, TypeOK
<1> QED BY <1>20, <1>21, <1>22

LEMMA ExecuteViewerShape ==
  ASSUME ShapeInv, NEW result, ExecuteViewer(result)
  PROVE  ShapeInv'
<1> USE DEF ShapeInv
<1>0. srv.req \in Request /\ srv.req.id \in Identity
  BY NoneIsNone DEF TypeOK, ServerInv, Request, ExecuteViewer
<1>1. pc' \in PcSet /\ Moved
  BY <1>0, ReplyMoved DEF ExecuteViewer, serverFrame, Moved, TypeOK, PcSet
<1>2. LeaseKept /\ op' = op
  BY DEF ExecuteViewer, LeaseKept, serverFrame, envVars
<1>3. srv' \in [pc: ServerPcs, req: Request \union {None}]
  BY <1>0 DEF ExecuteViewer, TypeOK, ServerPcs, IdleServer
<1>4. owner' \in Identity \union {None} /\ executed' \in Identity \union {None}
  BY <1>0 DEF ExecuteViewer, TypeOK
<1>20. TypeOK'
  BY <1>0, <1>1, <1>2, <1>3, <1>4, NoneIsNone DEF ExecuteViewer, TypeOK, serverFrame, envVars, PcSet
<1>21. OpInv' /\ IdleInv'
  BY <1>0, <1>1, <1>2, <1>3, <1>4, KeepsShape, KeepsNone
<1>22. ServerInv'
  BY <1>0, NoneIsNone DEF ExecuteViewer, ServerInv, IdleServer, TypeOK
<1> QED BY <1>20, <1>21, <1>22

\* Time, ends of processes, and a system that has stopped.
LEMMA TickShape ==
  ASSUME ShapeInv, Tick
  PROVE  ShapeInv'
<1> USE DEF ShapeInv
<1>0. LeaseKept /\ Moved /\ op' = op
  BY DEF Tick, LeaseKept, Moved, agentVars
<1>1. now' \in 0..MaxTime
  BY BoundsAssumption DEF Tick, TypeOK
<1>20. TypeOK'
  BY <1>0, <1>1, NoneIsNone DEF Tick, TypeOK, agentVars, fileVars, serverVars
<1>21. OpInv' /\ IdleInv'
  BY <1>0, <1>1, KeepsShape, KeepsNone
<1>22. ServerInv'
  BY DEF Tick, ServerInv, agentVars, fileVars, serverVars
<1> QED BY <1>20, <1>21, <1>22

LEMMA RuntimeCrashShape ==
  ASSUME ShapeInv, RuntimeCrash
  PROVE  ShapeInv'
<1> USE DEF ShapeInv
<1>0. LeaseKept /\ Moved /\ op' = op
  BY DEF RuntimeCrash, LeaseKept, Moved, agentVars
<1>1. srv' \in [pc: ServerPcs, req: Request \union {None}] /\ queue' \in Seq(Request) /\ owner' = None
      /\ authority' \in {"free", "agent", "runtime"}
  BY DEF RuntimeCrash, IdleServer, ServerPcs, TypeOK
<1>20. TypeOK'
  BY <1>0, <1>1, NoneIsNone DEF RuntimeCrash, TypeOK, agentVars, fileVars
<1>21. OpInv' /\ IdleInv'
  BY <1>0, <1>1, KeepsShape, KeepsNone
<1>22. ServerInv'
  BY DEF RuntimeCrash, IdleServer, ServerInv
<1> QED BY <1>20, <1>21, <1>22

LEMMA StoppedShape ==
  ASSUME ShapeInv, Stopped
  PROVE  ShapeInv'
<1> USE DEF ShapeInv
<1>0. LeaseKept /\ Moved /\ op' = op
  BY DEF Stopped, vars, LeaseKept, Moved, agentVars
<1>20. TypeOK'
  BY <1>0, NoneIsNone DEF Stopped, TypeOK, vars, agentVars, fileVars, serverVars, envVars
<1>21. OpInv' /\ IdleInv'
  BY <1>0, KeepsShape, KeepsNone
<1>22. ServerInv'
  BY DEF Stopped, ServerInv, vars, agentVars, fileVars, serverVars, envVars
<1> QED BY <1>20, <1>21, <1>22

LEMMA AgentCrashShape ==
  ASSUME ShapeInv, AgentCrash
  PROVE  ShapeInv'
<1> USE DEF ShapeInv
<1>0. lease' = [q \in Runs |-> None] /\ delegate' = [q \in Runs |-> None] /\ op' = None /\ rootLock' = None
      /\ authority' \in {"free", "agent", "runtime"}
  BY DEF AgentCrash, TypeOK
<1>1. pc' \in PcSet /\ \A q \in Runs: pc'[q].main \in {"idle", "done"} /\ pc'[q].control = "off" /\ pc'[q].tool = "idle"
  BY DEF AgentCrash, PcSet, MainPcs, ControlPcs, ToolPcs
<1>2. OpInv' /\ IdleInv'
  BY <1>0, <1>1 DEF OpInv, IdleInv, AtRest
<1>20. TypeOK'
  BY <1>0, <1>1, <1>2, NoneIsNone DEF AgentCrash, TypeOK, fileVars, serverVars, PcSet
<1>22. ServerInv'
  BY DEF AgentCrash, ServerInv, fileVars, serverVars
<1> QED BY <1>0, <1>1, <1>2, <1>20, <1>22

\* Acquire and persist().
LEMMA AcquireShape ==
  ASSUME ShapeInv, NEW r \in Runs, NEW bump \in Bumps, NEW expiresAt \in 1..(MaxTime + 1), Acquire(r, bump, expiresAt)
  PROVE  ShapeInv' /\ op' \in Operation /\ lease'[r] # None
<1> USE DEF ShapeInv
<1>0. PICK id \in Identity:
        /\ lease' = [lease EXCEPT ![r] = [id |-> id, expiresAt |-> expiresAt,
                        used |-> FALSE, selected |-> FALSE, closed |-> FALSE]]
        /\ op' = [run |-> r, thread |-> "main", kind |-> "acquire", step |-> "lock",
                  undo |-> id, okPc |-> "preflight", failPc |-> "done"]
  <2> DEFINE s == SessionOf[r]
            epoch == IF sessionFile[s].sessionEpoch = 0 THEN 1 ELSE sessionFile[s].sessionEpoch + bump
            id == [run |-> r, session |-> s, sessionEpoch |-> epoch,
                   attachment |-> attachments + 1, controlEpoch |-> NextControlEpoch(s),
                   controller |-> "agent"]
  <2>1. s \in Sessions /\ sessionFile[s].sessionEpoch \in 0..MaxEpoch /\ sessionFile[s].controlEpoch \in 0..MaxEpoch
    BY RunsAssumption DEF TypeOK
  <2>2. attachments + 1 \in 1..MaxAttachments BY BoundsAssumption DEF TypeOK, Acquire
  <2>3. epoch <= MaxEpoch /\ NextControlEpoch(s) <= MaxEpoch BY DEF Acquire
  <2>4. epoch \in 1..MaxEpoch BY <2>1, <2>3, BoundsAssumption
  <2>5. NextControlEpoch(s) \in 1..MaxEpoch BY <2>1, <2>3, BoundsAssumption DEF NextControlEpoch
  <2>6. id \in Identity BY <2>1, <2>2, <2>4, <2>5 DEF Identity, Controllers
  <2>7. /\ lease' = [lease EXCEPT ![r] = [id |-> id, expiresAt |-> expiresAt,
                        used |-> FALSE, selected |-> FALSE, closed |-> FALSE]]
        /\ op' = [run |-> r, thread |-> "main", kind |-> "acquire", step |-> "lock",
                  undo |-> id, okPc |-> "preflight", failPc |-> "done"]
    BY DEF Acquire
  <2> QED BY <2>6, <2>7
<1>1. lease' \in [Runs -> Holders] /\ lease'[r] # None /\ \A q \in Runs: q # r => lease'[q] = lease[q]
  <2>1. [id |-> id, expiresAt |-> expiresAt, used |-> FALSE, selected |-> FALSE, closed |-> FALSE] \in Holder
    BY DEF Holder
  <2> QED BY <1>0, <2>1, NoneIsNone DEF TypeOK, Holders
<1>2. op' \in Operation
  BY <1>0 DEF Operation, Threads, MainPcs
<1>3. attachments' \in 0..MaxAttachments
  BY BoundsAssumption DEF Acquire, TypeOK
<1>4. rootLock' = r /\ pc' = pc /\ delegate' = delegate /\ pc[r].main = "idle" /\ op = None
  BY DEF Acquire
<1>5. OpInv'
  BY <1>0, <1>1, <1>4 DEF OpInv, PcsOf, MainPcs
<1>6. IdleInv'
  BY <1>0, <1>1, <1>2, <1>4, NoneIsNone DEF IdleInv, AtRest
<1>20. TypeOK'
  BY <1>0, <1>1, <1>2, <1>3, <1>4, <1>5, <1>6, NoneIsNone
      DEF Acquire, TypeOK, fileVars, serverVars, envVars, Holders
<1>22. ServerInv'
  BY DEF Acquire, ServerInv, fileVars, serverVars, envVars
<1> QED BY <1>0, <1>1, <1>2, <1>3, <1>4, <1>5, <1>6, <1>20, <1>22

LEMMA PersistWriteShape ==
  ASSUME ShapeInv, PersistWrite
  PROVE  ShapeInv'
<1> USE DEF ShapeInv
<1>0. /\ op \in Operation /\ op.run \in Runs /\ lease[op.run] # None /\ lease[op.run] \in Holder
      /\ op.thread \in Threads /\ op.okPc \in PcsOf(op.thread) /\ op.failPc \in PcsOf(op.thread)
  BY NoneIsNone DEF TypeOK, OpInv, Operation, PersistWrite
<1>1. sessionFile' \in [Sessions -> [sessionEpoch: 0..MaxEpoch, controlEpoch: 0..MaxEpoch]]
      /\ activeFile' \in Leases /\ runFile' \in [Runs -> Leases]
  BY <1>0, WriteStepType DEF PersistWrite
<1>2. op' \in Operation /\ op' # None /\ op'.run = op.run /\ op'.thread = op.thread /\ op'.kind = op.kind
      /\ op'.okPc = op.okPc /\ op'.failPc = op.failPc
  BY <1>0, NoneIsNone DEF PersistWrite, Operation
<1>3. OpInv' /\ IdleInv'
  BY <1>0, <1>2 DEF PersistWrite, OpInv, IdleInv, AtRest
<1>20. TypeOK'
  BY <1>0, <1>1, <1>2, <1>3, NoneIsNone DEF PersistWrite, TypeOK, serverVars, envVars, Leases
<1>22. ServerInv'
  BY DEF PersistWrite, ServerInv, serverVars, envVars
<1> QED BY <1>0, <1>1, <1>2, <1>3, <1>20, <1>22

\* The end of a persist(), whichever way, moves the thread that waited for it.
LEMMA PersistEnds ==
  ASSUME ShapeInv, op # None, op' = None, delegate' = delegate,
         NEW v \in PcsOf(op.thread), v = op.okPc \/ v = op.failPc,
         pc' = [pc EXCEPT ![op.run][op.thread] = v],
         \A q \in Runs: q # op.run => (lease'[q] = None <=> lease[q] = None),
         \/ lease'[op.run] # None
         \/ op.kind = "acquire" /\ v = "done"
  PROVE  pc' \in PcSet /\ OpInv' /\ IdleInv'
<1> USE DEF ShapeInv
<1>1. /\ op \in Operation /\ op.run \in Runs /\ lease[op.run] # None /\ op.thread \in Threads
  BY NoneIsNone DEF TypeOK, OpInv, Operation
<1>2. pc \in PcSet /\ pc' \in PcSet
  <2>1. pc \in PcSet BY DEF TypeOK, PcSet
  <2> QED BY <1>1, <2>1, PcUpdate
<1>3. \A q \in Runs: q # op.run => pc'[q] = pc[q]
  BY <1>1, <1>2 DEF PcSet
<1>4. OpInv' BY DEF OpInv
<1>5. CASE op.thread = "main"
  <2>1. pc'[op.run].main = v /\ v # "idle"  BY <1>1, <1>2, <1>5 DEF PcSet, OpInv
  <2>2. pc'[op.run].control = pc[op.run].control /\ pc'[op.run].tool = pc[op.run].tool
    BY <1>1, <1>2, <1>5 DEF PcSet
  <2>3. lease'[op.run] = None => v = "done" /\ AtRest(op.run)  BY <1>1 DEF OpInv, IdleInv
  <2>4. \A q \in Runs: AtRest(q) => AtRest(q)'  BY <1>3, <2>2 DEF AtRest
  <2>5. ASSUME NEW q \in Runs
        PROVE  /\ lease'[q] = None => pc'[q].main \in {"idle", "done"} /\ AtRest(q)'
               /\ pc'[q].main = "idle" => AtRest(q)' /\ lease'[q] = None
    <3>1. CASE q = op.run  BY <2>1, <2>3, <2>4, <3>1
    <3>2. CASE q # op.run  BY <1>3, <2>4, <3>2 DEF IdleInv
    <3> QED BY <3>1, <3>2
  <2> QED BY <1>2, <1>4, <2>5 DEF IdleInv
<1>6. CASE op.thread # "main"
  <2>1. pc'[op.run].main = pc[op.run].main  BY <1>1, <1>2, <1>6 DEF PcSet, Threads
  <2>2. op.kind # "acquire" /\ lease'[op.run] # None  BY <1>6 DEF OpInv
  <2>3. pc[op.run].main # "idle"  BY <1>1, <2>2 DEF IdleInv
  <2> QED BY <1>1, <1>2, <1>3, <1>4, <2>1, <2>2, <2>3 DEF IdleInv, AtRest
<1> QED BY <1>2, <1>4, <1>5, <1>6

LEMMA PersistDoneShape ==
  ASSUME ShapeInv, PersistDone
  PROVE  ShapeInv'
<1> USE DEF ShapeInv
<1>0. /\ op \in Operation /\ op.run \in Runs /\ lease[op.run] # None /\ lease[op.run] \in Holder
      /\ op.thread \in Threads /\ op.okPc \in PcsOf(op.thread) /\ op.failPc \in PcsOf(op.thread)
  BY NoneIsNone DEF TypeOK, OpInv, Operation, PersistDone
<1>1. sessionFile' \in [Sessions -> [sessionEpoch: 0..MaxEpoch, controlEpoch: 0..MaxEpoch]]
      /\ activeFile' \in Leases /\ runFile' \in [Runs -> Leases]
  BY <1>0, WriteStepType DEF PersistDone
<1>2. pc' \in PcSet /\ OpInv' /\ IdleInv'
  BY <1>0, PersistEnds DEF PersistDone
<1>20. TypeOK'
  BY <1>0, <1>1, <1>2, NoneIsNone DEF PersistDone, TypeOK, serverVars, envVars, PcSet, Leases
<1>22. ServerInv'
  BY DEF PersistDone, ServerInv, serverVars, envVars
<1> QED BY <1>0, <1>1, <1>2, <1>20, <1>22

LEMMA PersistFailShape ==
  ASSUME ShapeInv, NEW replaced \in BOOLEAN, NEW kept \in BOOLEAN, PersistFail(replaced, kept)
  PROVE  ShapeInv'
<1> USE DEF ShapeInv
<1>0. /\ op \in Operation /\ op.run \in Runs /\ lease[op.run] # None /\ lease[op.run] \in Holder
      /\ op.thread \in Threads /\ op.okPc \in PcsOf(op.thread) /\ op.failPc \in PcsOf(op.thread)
  BY NoneIsNone DEF TypeOK, OpInv, Operation, PersistFail
<1>1. sessionFile' \in [Sessions -> [sessionEpoch: 0..MaxEpoch, controlEpoch: 0..MaxEpoch]]
      /\ activeFile' \in Leases /\ runFile' \in [Runs -> Leases]
  <2>1. CASE replaced /\ op.step # "run"
    BY <1>0, <2>1, WriteStepType DEF PersistFail
  <2>2. CASE ~ (replaced /\ op.step # "run")
    <3>1. Envelope(op.run) \in Lease BY <1>0, EnvelopeType
    <3>2. UNCHANGED sessionFile /\ runFile' \in {runFile, [runFile EXCEPT ![op.run] = Envelope(op.run)]}
          /\ activeFile' \in {activeFile, None}
      BY <2>2 DEF PersistFail
    <3>3. runFile \in [Runs -> Leases] /\ activeFile \in Leases BY DEF TypeOK, Leases
    <3>4. [runFile EXCEPT ![op.run] = Envelope(op.run)] \in [Runs -> Leases]
      BY <1>0, <3>1, <3>3 DEF Leases
    <3>5. runFile' \in [Runs -> Leases] BY <3>2, <3>3, <3>4
    <3>6. activeFile' \in Leases BY <3>2, <3>3 DEF Leases
    <3> QED BY <3>2, <3>5, <3>6 DEF TypeOK
  <2> QED BY <2>1, <2>2
<1>2. PICK h \in Holders:
  /\ lease' = [lease EXCEPT ![op.run] = h]
  /\ h = None => op.kind = "acquire"
  <2> DEFINE h == CASE op.kind = "transition" -> [lease[op.run] EXCEPT !.id = op.undo]
                   [] op.kind = "rotate"     -> lease[op.run]
                   [] op.kind = "acquire"    -> None
  <2>1. op.undo \in Identity /\ op.kind \in {"acquire", "rotate", "transition"}
    BY <1>0 DEF Operation
  <2>2. lease' = [lease EXCEPT ![op.run] = h] BY DEF PersistFail
  <2>3. [lease[op.run] EXCEPT !.id = op.undo] \in Holder BY <1>0, <2>1, HolderUpdate
  <2>4. h \in Holders /\ (h = None => op.kind = "acquire")
    BY <1>0, <2>1, <2>3, NoneIsNone DEF Holders
  <2> QED BY <2>2, <2>4
<1>3. lease' \in [Runs -> Holders] /\ lease'[op.run] = h /\ \A q \in Runs: q # op.run => lease'[q] = lease[q]
  <2>1. lease \in [Runs -> Holders] BY DEF TypeOK, Holders
  <2> QED BY <1>0, <1>2, <2>1
<1>4. pc' \in PcSet /\ OpInv' /\ IdleInv'
  BY <1>0, <1>2, <1>3, PersistEnds DEF PersistFail, OpInv
<1>20. TypeOK'
  BY <1>0, <1>1, <1>2, <1>3, <1>4, NoneIsNone
      DEF PersistFail, TypeOK, serverVars, PcSet, Holders, Leases
<1>22. ServerInv'
  BY DEF PersistFail, ServerInv, serverVars
<1> QED BY <1>0, <1>1, <1>2, <1>3, <1>4, <1>20, <1>22

\* An answer marks a tool call only if it is a challenge.
LEMMA ReplyKeeps ==
  ASSUME TypeOK, NEW req \in Request, NEW result, Reply(req, result)
  PROVE  \A q \in Runs:
           /\ pc'[q].control = "enter" => pc[q].control = "enter"
           /\ pc[q].control \in Changing => pc'[q].control = pc[q].control
           /\ result # "challenge" /\ pc[q].tool = "idle" => pc'[q].tool = "idle"
<1>1. \A q \in Runs:
        /\ pc'[q].control = "enter" => pc[q].control = "enter"
        /\ pc[q].control \in Changing => pc'[q].control = pc[q].control
  BY ReplyEffect DEF Changing
<1>2. ASSUME result # "challenge", NEW q \in Runs, pc[q].tool = "idle" PROVE pc'[q].tool = "idle"
  <2>1. /\ req.id.run \in Runs /\ pc \in PcSet /\ req.thread \in Threads
    BY IdentityFields DEF Request, TypeOK, PcSet
  <2>2. CASE pc' = pc BY <1>2, <2>2
  <2>3. CASE pc' # pc
    <3>1. req.thread \in {"main", "control"} BY <1>2, <2>1, <2>3 DEF Reply, Threads
    <3> DEFINE v == AfterReply(req.thread, req.kind, result)
    <3>2. pc' = [pc EXCEPT ![req.id.run][req.thread] = v] BY <2>3, <3>1 DEF Reply
    <3> HIDE DEF v
    <3>3. CASE req.thread = "main"
      BY <1>2, <2>1, <3>2, <3>3 DEF PcSet
    <3>4. CASE req.thread = "control"
      BY <1>2, <2>1, <3>2, <3>4 DEF PcSet
    <3> QED BY <3>1, <3>3, <3>4
  <2> QED BY <2>2, <2>3
<1> QED BY <1>1, <1>2

-----------------------------------------------------------------------------
(* The steps together.                                                      *)

LEMMA PersistStepShape ==
  ASSUME ShapeInv, PersistStep
  PROVE  ShapeInv'
BY LockPersistShape, PersistWriteShape, PersistDoneShape, PersistFailShape DEF PersistStep

LEMMA ServerStepShape ==
  ASSUME ShapeInv, ServerStep
  PROVE  ShapeInv'
BY AdmitShape, RefuseShape, RevokeShape, RevokeRemoveShape, ExecuteActShape, ExecuteCloseShape,
   ExecuteViewerShape, ChallengeCloseShape DEF ServerStep

\* The steps of a Run, and of the command loop of its human control.
LEMMA RunStepShape ==
  ASSUME ShapeInv, NEW r \in Runs, RunStep(r)
  PROVE  ShapeInv' /\ StepKind
<1>1. CASE \E bump \in Bumps, e \in 1..(MaxTime + 1): Acquire(r, bump, e)
  BY <1>1, AcquireShape DEF StepKind
<1>2. CASE SendPreflight(r) \/ PreflightUnsent(r) \/ PreflightSettled(r) \/ TakeDelegate(r)
  BY <1>2, SendPreflightShape, PreflightUnsentShape, PreflightSettledShape, TakeDelegateShape
      DEF StepKind
<1>3. CASE \E kind \in {"act", "close"}: ToolCall(r, kind)
  BY <1>3, ToolCallShape DEF StepKind
<1>4. CASE RotateRun(r) \/ EndRun(r) \/ Fence(r)
  BY <1>4, RotateRunShape, EndRunShape, FenceShape DEF StepKind
<1>5. ASSUME NEW t \in {"main", "control"},
             BeginClose(r, t) \/ ReturnToAgent(r, t) \/ CloseSend(r, t) \/ Timeout(r, t)
      PROVE  ShapeInv' /\ StepKind
  BY <1>5, BeginCloseShape, ReturnToAgentShape, CloseSendShape, TimeoutShape DEF StepKind
<1>6. ASSUME NEW t \in {"main", "control"}, NEW runRemoved \in BOOLEAN, NEW activeRemoved \in BOOLEAN,
             LeaseClose(r, t, runRemoved, activeRemoved)
      PROVE  ShapeInv' /\ StepKind
  <2>1. /\ ShapeInv' /\ PcKept /\ lease[r] # None
        /\ lease[r].closed => AgentQuiet
    BY <1>6, LeaseCloseShape
  <2> QED BY <1>6, <2>1 DEF StepKind, Closes
<1> QED BY <1>1, <1>2, <1>3, <1>4, <1>5, <1>6 DEF RunStep

LEMMA ControlStepShape ==
  ASSUME ShapeInv, NEW r \in Runs, ControlStep(r)
  PROVE  ShapeInv' /\ StepKind
<1>1. CASE Pause(r) \/ PauseRefused(r) \/ Claim(r) \/ Released(r) \/ Resume(r)
  BY <1>1, PauseShape, PauseRefusedShape, ClaimShape, ReleasedShape, ResumeShape DEF StepKind
<1>2. CASE Enter(r) \/ EnterUnsent(r) \/ Input(r) \/ Release(r) \/ Wake(r) \/ Terminate(r)
  BY <1>2, EnterShape, EnterUnsentShape, InputShape, ReleaseShape, WakeShape, TerminateShape
      DEF StepKind
<1> QED BY <1>1, <1>2 DEF ControlStep

\* Every step keeps the shape and is one of the kinds of StepKind: what follows,
\* here and in the modules about single properties, speaks of those kinds
\* of step instead of the single actions.
LEMMA Steps ==
  ASSUME ShapeInv, [Next]_vars
  PROVE  ShapeInv' /\ StepKind
<1>1. CASE PersistStep BY <1>1, PersistStepShape DEF StepKind
<1>2. ASSUME NEW r \in Runs, RunStep(r) \/ ControlStep(r) PROVE ShapeInv' /\ StepKind
  BY <1>2, RunStepShape, ControlStepShape
<1>3. CASE ServerStep BY <1>3, ServerStepShape DEF StepKind
<1>4. CASE Tick \/ AgentCrash \/ RuntimeCrash
  BY <1>4, TickShape, AgentCrashShape, RuntimeCrashShape DEF StepKind
<1>5. CASE UNCHANGED vars
  <2>1. UNCHANGED <<agentVars, fileVars, serverVars, envVars, authority, queue>>
        /\ UNCHANGED <<rootLock, lease, op, pc, delegate, attachments>>
    BY <1>5 DEF vars, agentVars
  <2>2. LeaseKept /\ PcKept BY <2>1 DEF LeaseKept, PcKept
  <2>3. AgentQuiet BY <2>1, <2>2 DEF AgentQuiet
  <2>4. UNCHANGED vars => ShapeInv'
    BY DEF vars, agentVars, fileVars, serverVars, envVars, ShapeInv, TypeOK, OpInv, ServerInv,
           IdleInv, AtRest
  <2> QED BY <1>5, <2>3, <2>4 DEF StepKind
<1> QED BY <1>1, <1>2, <1>3, <1>4, <1>5 DEF Next, Stopped

LEMMA InitShape == Init => ShapeInv
<1> SUFFICES ASSUME Init PROVE ShapeInv
  OBVIOUS
<1>1. TypeOK
  <2>1. pc \in [Runs -> [main: MainPcs, control: ControlPcs, tool: ToolPcs]]
    BY DEF Init, MainPcs, ControlPcs, ToolPcs
  <2>2. sessionFile \in [Sessions -> [sessionEpoch: 0..MaxEpoch, controlEpoch: 0..MaxEpoch]]
    BY BoundsAssumption DEF Init
  <2>3. srv \in [pc: ServerPcs, req: Request \union {None}] BY DEF Init, IdleServer, ServerPcs
  <2>4. 0 \in 0..MaxTime /\ 0 \in 0..MaxAttachments BY BoundsAssumption
  <2>5. queue \in Seq(Request) BY DEF Init
  <2> QED BY <2>1, <2>2, <2>3, <2>4, <2>5 DEF Init, TypeOK
<1>2. OpInv /\ ServerInv /\ IdleInv BY DEF Init, OpInv, ServerInv, IdleInv, AtRest, IdleServer
<1> QED BY <1>1, <1>2 DEF ShapeInv

LEMMA Shape == Spec => []ShapeInv
<1>1. ShapeInv /\ [Next]_vars => ShapeInv' BY Steps
<1> QED BY InitShape, <1>1, PTL DEF Spec

\* The leases, the persist() under way, the files both processes share, the queue,
\* the request in the Runtime's hands, the revocation index and the state of every
\* goroutine stay in range, whatever fails, crashes or overlaps.
THEOREM TypeCorrect == Spec => []TypeOK
<1>1. ShapeInv => TypeOK BY DEF ShapeInv
<1> QED BY Shape, <1>1, PTL
=============================================================================
