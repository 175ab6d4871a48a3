---------------------- MODULE BrowserLeaseOrderProofs -----------------------
(***************************************************************************)
(* For every value of the constants, if removing files works: epochs are   *)
(* never reused for another attachment, and the page sees operations in    *)
(* the order of the control they were prepared under.                      *)
(*                                                                         *)
(* Two processes see an identity through copies: files, snapshots,         *)
(* requests under way and what the page saw (Copy). EpochInv relates all   *)
(* copies to the session file the next Run starts from, and to the open    *)
(* lease, which is ahead of them by the epoch that is being persisted.     *)
(* AgeInv and HumanInv then follow a request through the Runtime to the    *)
(* page.                                                                   *)
(*                                                                         *)
(* If Close could fail to remove a file, a lease would stay open when its  *)
(* Run has given up the root lock, and could write the session file back   *)
(* to epochs another Run has superseded: hence the hypothesis ~            *)
(* CleanupMayFail.                                                         *)
(***************************************************************************)
EXTENDS BrowserLeaseProofs

-----------------------------------------------------------------------------
(* The root lock, the flock and the lease that is persisted.                *)

\* A lease whose Close has not come through.
Open(r) == lease[r] # None /\ ~ lease[r].closed

\* The root lock belongs to the one open lease, only an open lease is persisted,
\* and the flock is held by whoever writes the files.  A transition under way has
\* moved the control epoch one up from the identity it would return to.
LockInv ==
  /\ \A r \in Runs: Open(r) => rootLock = r
  /\ rootLock # None => Open(rootLock)
  /\ op # None => Open(op.run)
  /\ authority = "agent" <=> op # None /\ op.step # "lock"
  /\ authority = "runtime" <=> srv.pc \in {"remove", "challengeRemove"}
  /\ \A r \in Runs: lease[r] # None => lease[r].id.run = r /\ lease[r].id.session = SessionOf[r]
  /\ op # None /\ op.kind = "transition" =>
       /\ SameButControl(op.undo, lease[op.run].id)
       /\ lease[op.run].id.controlEpoch = op.undo.controlEpoch + 1

\* Fields of a persist() and of a lease.
LEMMA OpFields ==
  ASSUME TypeOK, op # None
  PROVE  /\ op \in Operation /\ op.run \in Runs /\ op.thread \in Threads
         /\ op.kind \in {"acquire", "rotate", "transition"}
         /\ op.step \in {"lock", "state", "active", "run"} /\ op.undo \in Identity
BY DEF TypeOK, Operation

LEMMA LeaseFields ==
  ASSUME TypeOK, NEW r \in Runs, lease[r] # None
  PROVE  /\ lease[r] \in Holder /\ lease[r].id \in Identity
         /\ lease[r].expiresAt \in 1..(MaxTime + 1) /\ lease[r].closed \in BOOLEAN
BY HolderFields DEF TypeOK

\* Nobody else's lease changes, nor what this one does not name.
LeaseChanges(r, id) ==
  /\ \A q \in Runs: q # r => lease'[q] = lease[q]
  /\ lease'[r] # None /\ lease'[r].id = id
  /\ lease'[r].expiresAt = lease[r].expiresAt /\ lease'[r].closed = lease[r].closed

\* Setting the identity of a lease.
LEMMA IdChanges ==
  ASSUME TypeOK, NEW r \in Runs, lease[r] # None, NEW id \in Identity,
         lease' = [lease EXCEPT ![r].id = id]
  PROVE  LeaseChanges(r, id)
<1>1. lease' = [lease EXCEPT ![r] = [lease[r] EXCEPT !.id = id]] OBVIOUS
<1>2. lease[r] \in Holder /\ [lease[r] EXCEPT !.id = id] \in Holder BY HolderUpdate DEF TypeOK
<1>3. lease'[r] = [lease[r] EXCEPT !.id = id] /\ \A q \in Runs: q # r => lease'[q] = lease[q]
  BY <1>1 DEF TypeOK
<1>4. lease'[r].id = id /\ lease'[r].expiresAt = lease[r].expiresAt /\ lease'[r].closed = lease[r].closed
  BY <1>2, <1>3 DEF Holder
<1> QED BY <1>2, <1>3, <1>4, NoneIsNone DEF LeaseChanges

\* The two changes of an identity.
IsRotation(r, id) ==
  /\ attachments' = attachments + 1
  /\ id.run = lease[r].id.run /\ id.session = lease[r].id.session
  /\ id.sessionEpoch = lease[r].id.sessionEpoch + 1
  /\ id.controlEpoch = lease[r].id.controlEpoch + 1
  /\ id.attachment = attachments' /\ id.controller = "agent"
IsTransition(r, id) ==
  /\ attachments' = attachments
  /\ SameButControl(id, lease[r].id)
  /\ id.controlEpoch = lease[r].id.controlEpoch + 1

\* What Rotate and the transitions do to the lease.
LEMMA BeginEffect ==
  ASSUME ShapeInv, NEW r \in Runs, Begins(r)
  PROVE  /\ op = None /\ op' # None /\ op'.run = r /\ op'.step = "lock" /\ op'.undo = lease[r].id
         /\ Open(r) /\ LeaseChanges(r, lease'[r].id) /\ op'.failPc # "enter"
         /\ UNCHANGED <<rootLock, delegate, fileVars, serverVars, envVars, authority, queue>>
         /\ \A q \in Runs: pc'[q].control = "enter" => pc[q].control = "enter"
         /\ \/ /\ op'.kind = "rotate" /\ op'.thread = "main" /\ op'.okPc # "enter"
               /\ IsRotation(r, lease'[r].id) /\ PcKept
            \/ /\ op'.kind = "transition"
               /\ IsTransition(r, lease'[r].id)
               /\ op'.thread = "control" => pc'[r].control \in Changing
               /\ lease'[r].id.controller = "human" => op'.thread = "control" /\ pc'[r].control = "claiming"
               /\ op'.okPc = "enter" => lease'[r].id.controller = "human"
               /\ lease[r].id.controller = "agent" => pc[r].tool # "idle"
<1> USE DEF ShapeInv
<1>1. lease[r] \in Holder /\ lease[r].id \in Identity /\ lease[r] # None
  BY LeaseFields DEF Begins
<1>2. CASE RotateStarts(r)
  <2>1. PICK okPc \in MainPcs, failPc \in MainPcs: StartRotate(r, okPc, failPc)
    BY <1>2 DEF RotateStarts
  <2> DEFINE id == Rotated(lease[r].id)
  <2>2. /\ op = None /\ lease' = [lease EXCEPT ![r].id = id]
        /\ op' = [run |-> r, thread |-> "main", kind |-> "rotate", step |-> "lock",
                  undo |-> lease[r].id, okPc |-> okPc, failPc |-> failPc]
        /\ attachments' = attachments + 1 /\ ~ lease[r].closed
        /\ CanRotate(r)
    BY <2>1 DEF StartRotate, StartPersist, CanRotate
  <2>3. id \in Identity /\ IsRotation(r, id)
    <3>1. attachments' \in 1..MaxAttachments BY <2>2, BoundsAssumption DEF TypeOK, CanRotate
    <3>2. /\ lease[r].id.sessionEpoch + 1 \in 1..MaxEpoch
          /\ lease[r].id.controlEpoch + 1 \in 1..MaxEpoch
      BY <1>1, <2>2, IdentityFields, BoundsAssumption DEF CanRotate
    <3>3. id = [lease[r].id EXCEPT !.sessionEpoch = lease[r].id.sessionEpoch + 1,
                                   !.controlEpoch = lease[r].id.controlEpoch + 1,
                                   !.controller = "agent", !.attachment = attachments']
      BY <2>2 DEF Rotated
    <3> QED BY <1>1, <2>2, <3>1, <3>2, <3>3 DEF Identity, Controllers, IsRotation
  <2> HIDE DEF id
  <2>4. LeaseChanges(r, id) BY <1>1, <2>2, <2>3, IdChanges
  <2>5. lease'[r].id = id BY <2>4 DEF LeaseChanges
  <2>6. op'.okPc # "enter" /\ op'.failPc # "enter" BY <2>1, <2>2 DEF MainPcs
  <2>7. op' \in Operation /\ op' # None
    BY <1>1, <2>1, <2>2, NoneIsNone DEF Operation, Threads
  <2> QED BY <1>1, <1>2, <2>2, <2>3, <2>4, <2>5, <2>6, <2>7 DEF RotateStarts, PcKept, Open
<1>3. CASE TransitionStarts(r)
  <2>1. PICK t \in Threads, expected \in Controllers, next \in Controllers,
             okPc \in MainPcs \union ControlPcs \union ToolPcs,
             failPc \in MainPcs \union ControlPcs \union ToolPcs:
          /\ StartTransition(r, t, expected, next, okPc, failPc)
          /\ t = "control" => pc'[r].control \in Changing
          /\ next = "human" => t = "control" /\ pc'[r].control = "claiming"
          /\ (okPc = "enter" => next = "human") /\ failPc # "enter"
          /\ expected = "agent" => pc[r].tool # "idle"
    BY <1>3 DEF TransitionStarts
  <2> DEFINE id == [lease[r].id EXCEPT !.controlEpoch = @ + 1, !.controller = next]
  <2>2. /\ op = None /\ lease' = [lease EXCEPT ![r].id = id]
        /\ op' = [run |-> r, thread |-> t, kind |-> "transition", step |-> "lock",
                  undo |-> lease[r].id, okPc |-> okPc, failPc |-> failPc]
        /\ ~ lease[r].closed /\ lease[r].id.controller = expected
        /\ lease[r].id.controlEpoch < MaxEpoch
    BY <2>1 DEF StartTransition, StartPersist, CanTransition
  <2>3. id \in Identity /\ SameButControl(id, lease[r].id)
        /\ id.controlEpoch = lease[r].id.controlEpoch + 1 /\ id.controller = next
    <3>1. lease[r].id.controlEpoch + 1 \in 1..MaxEpoch
      BY <1>1, <2>2, IdentityFields, BoundsAssumption
    <3> QED BY <1>1, <3>1 DEF Identity, SameButControl
  <2> HIDE DEF id
  <2>4. LeaseChanges(r, id) BY <1>1, <2>2, <2>3, IdChanges
  <2>5. lease'[r].id = id BY <2>4 DEF LeaseChanges
  <2>6. IsTransition(r, id) BY <1>3, <2>3 DEF IsTransition, TransitionStarts
  <2>7. op' \in Operation /\ op' # None
    BY <1>1, <2>1, <2>2, NoneIsNone DEF Operation
  <2> QED BY <1>1, <1>3, <2>1, <2>2, <2>3, <2>4, <2>5, <2>6, <2>7 DEF TransitionStarts, Open
<1> QED BY <1>2, <1>3 DEF Begins

\* What Close does: the lease is closed and the root lock given up.  Only here
\* does it matter that removing the files works.
LEMMA CloseEffect ==
  ASSUME ShapeInv, ~ CleanupMayFail, NEW r \in Runs, Closes(r)
  PROVE  /\ authority = "free" /\ LeaseFree(r) /\ Open(r) /\ PcKept
         /\ \A q \in Runs: q # r => lease'[q] = lease[q]
         /\ lease'[r] # None /\ lease'[r].closed /\ lease'[r].id = lease[r].id
         /\ runFile' = [runFile EXCEPT ![r] = None]
         /\ activeFile' = IF activeFile # None /\ activeFile.id = lease[r].id THEN None ELSE activeFile
         /\ rootLock' = IF rootLock = r THEN None ELSE rootLock
         /\ UNCHANGED <<op, delegate, attachments, sessionFile, serverVars, envVars, authority, queue>>
<1> USE DEF ShapeInv
<1>1. lease[r] \in Holder BY LeaseFields DEF Closes
<1>2. PICK t \in {"main", "control"}: LeaseClose(r, t, TRUE, TRUE)
  <2>1. PICK t \in {"main", "control"}, runRemoved \in BOOLEAN, activeRemoved \in BOOLEAN:
          LeaseClose(r, t, runRemoved, activeRemoved)
    BY DEF Closes
  <2>2. ~ lease[r].closed BY DEF Closes
  <2>3. runRemoved /\ activeRemoved BY <2>1, <2>2 DEF LeaseClose
  <2>4. runRemoved = TRUE /\ activeRemoved = TRUE BY <2>3
  <2> QED BY <2>1, <2>4
<1>3. lease' = [lease EXCEPT ![r] = [lease[r] EXCEPT !.closed = TRUE]]
  BY <1>2 DEF LeaseClose, Closes
<1>4. [lease[r] EXCEPT !.closed = TRUE] \in Holder BY <1>1, HolderUpdate
<1>5. lease'[r] = [lease[r] EXCEPT !.closed = TRUE] /\ \A q \in Runs: q # r => lease'[q] = lease[q]
  BY <1>3 DEF TypeOK
<1>6. lease'[r] # None /\ lease'[r].closed /\ lease'[r].id = lease[r].id
  BY <1>1, <1>4, <1>5, NoneIsNone DEF Holder
<1> QED BY <1>2, <1>5, <1>6 DEF LeaseClose, Closes, Open

\* What remains of the lease when a replacement failed.
LEMMA FailEffect ==
  ASSUME ShapeInv, NEW replaced \in BOOLEAN, NEW kept \in BOOLEAN, PersistFail(replaced, kept)
  PROVE  /\ op # None /\ op' = None
         /\ \A q \in Runs: q # op.run => lease'[q] = lease[q]
         /\ \/ op.kind = "acquire" /\ lease'[op.run] = None /\ rootLock' = None
            \/ op.kind = "rotate" /\ lease'[op.run] = lease[op.run] /\ rootLock' = rootLock
            \/ op.kind = "transition" /\ LeaseChanges(op.run, op.undo) /\ rootLock' = rootLock
         /\ authority' = IF op.step = "lock" THEN authority ELSE "free"
         /\ UNCHANGED <<delegate, attachments, serverVars, now, queue>>
<1> USE DEF ShapeInv
<1>1. /\ op # None /\ op' = None /\ lease[op.run] # None
      /\ UNCHANGED <<delegate, attachments, serverVars, now, queue>>
      /\ authority' = IF op.step = "lock" THEN authority ELSE "free"
      /\ rootLock' = IF op.kind = "acquire" THEN None ELSE rootLock
  BY DEF PersistFail, OpInv
<1>2. /\ op.run \in Runs /\ op.kind \in {"acquire", "rotate", "transition"} /\ op.undo \in Identity
  BY <1>1, OpFields
<1>3. CASE op.kind = "acquire"
  <2>1. lease' = [lease EXCEPT ![op.run] = None] BY <1>3 DEF PersistFail
  <2> QED BY <1>1, <1>2, <1>3, <2>1 DEF TypeOK
<1>4. CASE op.kind = "rotate"
  <2>1. lease' = lease BY <1>4 DEF PersistFail, TypeOK
  <2> QED BY <1>1, <1>2, <1>4, <2>1
<1>5. CASE op.kind = "transition"
  <2>1. lease' = [lease EXCEPT ![op.run].id = op.undo] BY <1>5 DEF PersistFail
  <2>2. LeaseChanges(op.run, op.undo) BY <1>1, <1>2, <2>1, IdChanges
  <2> QED BY <1>1, <1>2, <1>5, <2>2 DEF LeaseChanges
<1> QED BY <1>2, <1>3, <1>4, <1>5

\* What Acquire does: a lease of a new attachment, under the root lock.
LEMMA AcquireEffect ==
  ASSUME ShapeInv, NEW r \in Runs, NEW bump \in Bumps, NEW e \in 1..(MaxTime + 1), Acquire(r, bump, e)
  PROVE  /\ op = None /\ op' # None /\ op'.run = r /\ op'.step = "lock" /\ op'.kind = "acquire"
         /\ op'.thread = "main" /\ op'.okPc # "enter" /\ op'.failPc # "enter"
         /\ rootLock = None /\ rootLock' = r /\ attachments' = attachments + 1
         /\ \A q \in Runs: q # r => lease'[q] = lease[q]
         /\ lease'[r] # None /\ lease'[r].closed = FALSE /\ lease'[r].expiresAt = e /\ e > now
         /\ lease'[r].id.run = r /\ lease'[r].id.session = SessionOf[r]
         /\ lease'[r].id.sessionEpoch >= sessionFile[SessionOf[r]].sessionEpoch
         /\ lease'[r].id.attachment = attachments'
         /\ lease'[r].id.controlEpoch = sessionFile[SessionOf[r]].controlEpoch + 1
         /\ lease'[r].id.controller = "agent"
         /\ UNCHANGED <<pc, delegate, fileVars, serverVars, envVars, authority, queue>>
<1> USE DEF ShapeInv
<1> DEFINE s == SessionOf[r]
           epoch == IF sessionFile[s].sessionEpoch = 0 THEN 1 ELSE sessionFile[s].sessionEpoch + bump
           id == [run |-> r, session |-> s, sessionEpoch |-> epoch,
                  attachment |-> attachments + 1, controlEpoch |-> NextControlEpoch(s),
                  controller |-> "agent"]
           h == [id |-> id, expiresAt |-> e, used |-> FALSE, selected |-> FALSE, closed |-> FALSE]
           o == [run |-> r, thread |-> "main", kind |-> "acquire", step |-> "lock",
                 undo |-> id, okPc |-> "preflight", failPc |-> "done"]
<1>1. s \in Sessions /\ sessionFile[s].sessionEpoch \in 0..MaxEpoch BY RunsAssumption DEF TypeOK
<1>2. epoch >= sessionFile[s].sessionEpoch BY <1>1, BoundsAssumption
<1>3. /\ lease' = [lease EXCEPT ![r] = h] /\ op' = o
      /\ op = None /\ rootLock = None /\ rootLock' = r /\ attachments' = attachments + 1 /\ e > now
      /\ UNCHANGED <<pc, delegate, fileVars, serverVars, envVars, authority, queue>>
  BY DEF Acquire
<1>4. lease'[r] = h /\ \A q \in Runs: q # r => lease'[q] = lease[q] BY <1>3 DEF TypeOK
<1>5. /\ h.id = id /\ h.closed = FALSE /\ h.expiresAt = e
      /\ id.run = r /\ id.session = s /\ id.sessionEpoch = epoch /\ id.attachment = attachments + 1
      /\ id.controlEpoch = NextControlEpoch(s) /\ id.controller = "agent"
  OBVIOUS
<1>6. /\ o.run = r /\ o.step = "lock" /\ o.kind = "acquire" /\ o.thread = "main"
      /\ o.okPc # "enter" /\ o.failPc # "enter"
  OBVIOUS
<1>7. op' # None /\ lease'[r] # None
  BY AcquireShape, NoneIsNone
<1> HIDE DEF epoch, id, h, o
<1> QED BY <1>2, <1>3, <1>4, <1>5, <1>6, <1>7 DEF NextControlEpoch

\* A persist() that goes on is still the same persist().
LEMMA LockPersistOp ==
  ASSUME TypeOK, LockPersist
  PROVE  /\ op # None /\ op' \in Operation /\ op' # None /\ op'.step = "state"
         /\ op'.run = op.run /\ op'.kind = op.kind /\ op'.undo = op.undo
         /\ op'.thread = op.thread /\ op'.okPc = op.okPc /\ op'.failPc = op.failPc
BY OpFields, NoneIsNone DEF LockPersist, Operation

LEMMA WriteOp ==
  ASSUME TypeOK, PersistWrite
  PROVE  /\ op # None /\ op' \in Operation /\ op' # None
         /\ op'.step = IF op.step = "state" THEN "active" ELSE "run"
         /\ op'.run = op.run /\ op'.kind = op.kind /\ op'.undo = op.undo
         /\ op'.thread = op.thread /\ op'.okPc = op.okPc /\ op'.failPc = op.failPc
BY OpFields, NoneIsNone DEF PersistWrite, Operation

-----------------------------------------------------------------------------
(* LockInv.                                                                 *)

\* The root lock.
LEMMA LockInit == Init => LockInv
BY NoneIsNone DEF Init, LockInv, Open, IdleServer

\* Nothing of what LockInv names moves, but for the part of the Runtime.
LEMMA LockStays ==
  ASSUME ShapeInv, LockInv, op' = op, LeaseKept, rootLock' = rootLock,
         authority' = "agent" <=> authority = "agent",
         authority' = "runtime" <=> srv'.pc \in {"remove", "challengeRemove"}
  PROVE  LockInv'
<1>1. \A q \in Runs: /\ Open(q)' <=> Open(q)
                     /\ lease'[q] # None => lease[q] # None /\ lease'[q].id = lease[q].id
  BY DEF LeaseKept, Open
<1>2. op # None => op.run \in Runs /\ lease'[op.run].id = lease[op.run].id
  BY OpFields DEF ShapeInv, LockInv, LeaseKept
<1>3. rootLock \in Runs \union {None} BY DEF ShapeInv, TypeOK
<1> QED BY <1>1, <1>2, <1>3 DEF LockInv

\* Every step keeps LockInv.
LEMMA LockStep ==
  ASSUME ShapeInv, ShapeInv', LockInv, StepKind, ~ CleanupMayFail
  PROVE  LockInv'
<1> USE DEF ShapeInv
<1>1. CASE AgentQuiet
  BY <1>1, LockStays DEF AgentQuiet, serverVars, LockInv
<1>2. ASSUME NEW r \in Runs, Begins(r) PROVE LockInv'
  <2>1. /\ op = None /\ op' # None /\ op'.run = r /\ op'.step = "lock" /\ op'.undo = lease[r].id
        /\ Open(r) /\ LeaseChanges(r, lease'[r].id)
        /\ UNCHANGED <<rootLock, authority, srv>>
        /\ op'.kind = "transition" => IsTransition(r, lease'[r].id)
        /\ lease'[r].id.run = lease[r].id.run /\ lease'[r].id.session = lease[r].id.session
    BY <1>2, BeginEffect DEF serverVars, IsTransition, IsRotation, SameButControl
  <2>2. \A q \in Runs: Open(q)' <=> Open(q)
    BY <2>1 DEF LeaseChanges, Open
  <2>3. rootLock \in Runs \union {None} BY DEF TypeOK
  <2>4. op'.kind = "transition" => /\ SameButControl(op'.undo, lease'[r].id)
                                   /\ lease'[r].id.controlEpoch = op'.undo.controlEpoch + 1
    BY <2>1 DEF IsTransition, SameButControl
  <2> QED BY <2>1, <2>2, <2>3, <2>4 DEF LockInv, LeaseChanges, Open
<1>3. ASSUME NEW r \in Runs, Closes(r) PROVE LockInv'
  <2>1. /\ authority = "free" /\ LeaseFree(r) /\ Open(r)
        /\ \A q \in Runs: q # r => lease'[q] = lease[q]
        /\ lease'[r] # None /\ lease'[r].closed /\ lease'[r].id = lease[r].id
        /\ rootLock' = IF rootLock = r THEN None ELSE rootLock
        /\ UNCHANGED <<op, srv, authority>>
    BY <1>3, CloseEffect DEF serverVars
  <2>2. rootLock = r /\ op = None BY <2>1, OpFields DEF LockInv, LeaseFree
  <2>3. \A q \in Runs: ~ Open(q)'  BY <2>1, <2>2 DEF LockInv, Open
  <2>4. \A q \in Runs: lease'[q] # None => lease[q] # None /\ lease'[q].id = lease[q].id
    BY <2>1 DEF Open
  <2>5. op' = None /\ rootLock' = None BY <2>1, <2>2
  <2> QED BY <2>1, <2>3, <2>4, <2>5 DEF LockInv
<1>4. ASSUME NEW r \in Runs, NEW bump \in Bumps, NEW e \in 1..(MaxTime + 1), Acquire(r, bump, e)
      PROVE  LockInv'
  <2>1. /\ op = None /\ op' # None /\ op'.run = r /\ op'.step = "lock" /\ op'.kind = "acquire"
        /\ rootLock = None /\ rootLock' = r
        /\ \A q \in Runs: q # r => lease'[q] = lease[q]
        /\ lease'[r] # None /\ lease'[r].closed = FALSE
        /\ lease'[r].id.run = r /\ lease'[r].id.session = SessionOf[r]
        /\ UNCHANGED <<srv, authority>>
    BY <1>4, AcquireEffect DEF serverVars
  <2>2. \A q \in Runs: ~ Open(q) BY <2>1, NoneIsNone DEF LockInv
  <2>3. \A q \in Runs: Open(q)' <=> q = r BY <2>1, <2>2 DEF Open
  <2> QED BY <2>1, <2>3 DEF LockInv
<1>5. CASE LockPersist
  <2>1. /\ op # None /\ op' # None /\ authority = "free" /\ authority' = "agent"
        /\ op'.run = op.run /\ op'.kind = op.kind /\ op'.undo = op.undo /\ op'.step = "state"
        /\ UNCHANGED <<rootLock, lease, srv>>
    BY <1>5, OpFields, LockPersistShape, LockPersistOp DEF LockPersist, Operation, serverVars
  <2> QED BY <2>1 DEF LockInv, Open
<1>6. CASE PersistWrite
  <2>1. /\ op # None /\ op' # None /\ op.step # "lock" /\ op'.step # "lock"
        /\ op'.run = op.run /\ op'.kind = op.kind /\ op'.undo = op.undo
        /\ UNCHANGED <<rootLock, lease, srv, authority>>
    BY <1>6, OpFields, WriteOp DEF PersistWrite, Operation, serverVars
  <2> QED BY <2>1 DEF LockInv, Open
<1>7. CASE PersistDone
  BY <1>7 DEF PersistDone, LockInv, Open, serverVars
<1>8. ASSUME NEW replaced \in BOOLEAN, NEW kept \in BOOLEAN, PersistFail(replaced, kept)
      PROVE  LockInv'
  <2>1. /\ op # None /\ op.run \in Runs /\ op' = None /\ srv' = srv
        /\ authority' = IF op.step = "lock" THEN authority ELSE "free"
        /\ \A q \in Runs: q # op.run => lease'[q] = lease[q]
        /\ rootLock = op.run
    BY <1>8, FailEffect, OpFields DEF serverVars, LockInv
  <2>2. CASE op.kind = "acquire"
    <3>1. lease'[op.run] = None /\ rootLock' = None BY <1>8, <2>2, FailEffect
    <3>2. \A q \in Runs: ~ Open(q)' BY <2>1, <3>1 DEF LockInv, Open
    <3> QED BY <2>1, <3>1, <3>2 DEF LockInv
  <2>3. CASE op.kind # "acquire"
    <3>1. /\ rootLock' = rootLock
          /\ \A q \in Runs: Open(q)' <=> Open(q)
          /\ lease'[op.run].id.run = lease[op.run].id.run /\ lease'[op.run].id.session = lease[op.run].id.session
      BY <1>8, <2>1, <2>3, FailEffect DEF LockInv, LeaseChanges, SameButControl, Open
    <3> QED BY <2>1, <3>1 DEF LockInv, Open
  <2> QED BY <2>2, <2>3
<1>9. CASE ServerStep
  <2>1. op' = op /\ lease' = lease /\ rootLock' = rootLock
    BY <1>9
        DEF ServerStep, Admit, Refuse, Revoke, RevokeRemove, ExecuteAct, ExecuteClose,
            ExecuteViewer, ChallengeClose, serverFrame
  <2>2. LeaseKept BY <2>1 DEF LeaseKept
  <2>3. /\ authority' = "agent" <=> authority = "agent"
        /\ authority' = "runtime" <=> srv'.pc \in {"remove", "challengeRemove"}
    <3>1. CASE Revoke BY <3>1 DEF Revoke, LockInv, IdleServer, TypeOK
    <3>2. CASE \E removed \in BOOLEAN: RevokeRemove(removed)
      BY <3>2 DEF RevokeRemove, LockInv, IdleServer, TypeOK
    <3>3. CASE authority' = authority /\ srv.pc \notin {"remove", "challengeRemove"}
               /\ srv'.pc \notin {"remove", "challengeRemove"}
      BY <3>3 DEF LockInv
    <3>4. CASE Admit \/ \E reason \in {"unavailable", "expired", "mismatch", "stale", "limit"}: Refuse(reason)
      BY <3>3, <3>4 DEF Admit, Refuse, serverVars
    <3>5. CASE \E result \in {"ok", "failed", "challenge"}: ExecuteAct(result)
      BY <3>3, <3>5 DEF ExecuteAct, IdleServer, TypeOK
    <3>6. CASE \/ \E result \in {"ok", "failed"}: ExecuteClose(result) \/ ExecuteViewer(result)
               \/ \E closed \in BOOLEAN: ChallengeClose(closed)
      BY <3>3, <3>6 DEF ExecuteClose, ExecuteViewer, ChallengeClose, IdleServer
    <3> QED BY <1>9, <3>1, <3>2, <3>4, <3>5, <3>6 DEF ServerStep
  <2> QED BY <2>1, <2>2, <2>3, LockStays
<1>10. CASE Tick
  <2>1. LeaseKept BY <1>10 DEF Tick, agentVars, LeaseKept
  <2> QED BY <1>10, <2>1, LockStays DEF Tick, agentVars, serverVars, LockInv
<1>11. CASE AgentCrash
  <2>1. \A q \in Runs: lease'[q] = None BY <1>11 DEF AgentCrash
  <2> QED BY <1>11, <2>1 DEF AgentCrash, LockInv, Open, serverVars
<1>12. CASE RuntimeCrash
  <2>1. LeaseKept BY <1>12 DEF RuntimeCrash, agentVars, LeaseKept
  <2> QED BY <1>12, <2>1, LockStays DEF RuntimeCrash, agentVars, IdleServer, LockInv
<1> QED BY <1>1, <1>2, <1>3, <1>4, <1>5, <1>6, <1>7, <1>8, <1>9, <1>10, <1>11, <1>12
       DEF StepKind, PersistStep

-----------------------------------------------------------------------------
(* Copies of identities outside the memory of the Agent.                    *)

\* a is an identity that has left the Agent's memory.
Copy(a) ==
  \/ activeFile # None /\ a = activeFile.id
  \/ \E r \in Runs: runFile[r] # None /\ a = runFile[r].id
  \/ \E r \in Runs: delegate[r] # None /\ a = delegate[r].id
  \/ \E i \in 1..Len(queue): a = queue[i].id
  \/ srv.req # None /\ a = srv.req.id
  \/ owner # None /\ a = owner
  \/ executed # None /\ a = executed

\* The identities EpochsNotReused speaks of are copies.
LEMMA OutstandingCopy ==
  ASSUME TypeOK, NEW a \in Outstanding
  PROVE  a \in Identity /\ Copy(a)
<1>1. \A i \in 1..Len(queue): queue[i] \in Request BY DEF TypeOK
<1>2. DOMAIN queue = 1..Len(queue) BY DEF TypeOK
<1>3. Copy(a)
  BY <1>1, <1>2 DEF Outstanding, Copy
<1>4. a \in Identity
  BY <1>1, <1>3, NoneIsNone DEF Copy, TypeOK, Lease, Request
<1> QED BY <1>3, <1>4

LEMMA CopyIdentity ==
  ASSUME TypeOK, NEW a, Copy(a)
  PROVE  a \in Identity
<1>1. \A i \in 1..Len(queue): queue[i] \in Request BY DEF TypeOK
<1> QED BY <1>1, NoneIsNone DEF Copy, TypeOK, Lease, Request

\* The identity that persist() is writing.
Written(a) == op # None /\ op.step \in {"active", "run"} /\ a = lease[op.run].id

\* What each of the three writes of a persist() leaves.
LEMMA WriteStepCopies ==
  ASSUME TypeOK, op # None, op.step \in {"state", "active", "run"}, WriteStep
  PROVE  /\ activeFile' = IF op.step = "active" THEN Envelope(op.run) ELSE activeFile
         /\ runFile' = IF op.step = "run" THEN [runFile EXCEPT ![op.run] = Envelope(op.run)] ELSE runFile
         /\ sessionFile' = IF op.step = "state"
                           THEN [sessionFile EXCEPT ![lease[op.run].id.session] = StateOf(lease[op.run].id)]
                           ELSE sessionFile
<1>1. CASE op.step = "state" BY <1>1 DEF WriteStep
<1>2. CASE op.step = "active" BY <1>2 DEF WriteStep
<1>3. CASE op.step = "run" BY <1>3 DEF WriteStep
<1> QED BY <1>1, <1>2, <1>3

\* Every file write of a persist(), whether it succeeds or not.
FileStep ==
  /\ op # None /\ (op' = None \/ op.step # "lock")
  /\ \/ activeFile' \in {activeFile, None}
     \/ op.step = "active" /\ activeFile' = Envelope(op.run)
  /\ \/ runFile' = runFile
     \/ op.step = "run" /\ runFile' = [runFile EXCEPT ![op.run] = Envelope(op.run)]
  /\ \/ sessionFile' = sessionFile
     \/ /\ op.step = "state"
        /\ sessionFile' = [sessionFile EXCEPT ![lease[op.run].id.session] = StateOf(lease[op.run].id)]
  /\ UNCHANGED <<delegate, attachments, serverVars, now, queue>>

\* All that happens to files is a FileStep.
LEMMA PersistFiles ==
  ASSUME ShapeInv, PersistWrite \/ PersistDone \/ \E replaced, kept \in BOOLEAN: PersistFail(replaced, kept)
  PROVE  FileStep
<1> USE DEF ShapeInv
<1>1. CASE PersistWrite \/ PersistDone
  <2>1. /\ op # None /\ op.step \in {"state", "active", "run"} /\ WriteStep
        /\ UNCHANGED <<delegate, attachments, serverVars, now, queue>>
    BY <1>1, OpFields DEF PersistWrite, PersistDone, envVars
  <2> QED BY <2>1, WriteStepCopies DEF FileStep
<1>3. ASSUME NEW replaced \in BOOLEAN, NEW kept \in BOOLEAN, PersistFail(replaced, kept)
      PROVE  FileStep
  <2>1. op # None /\ op' = None /\ UNCHANGED <<delegate, attachments, serverVars, now, queue>>
    BY <1>3 DEF PersistFail
  <2>2. CASE replaced /\ op.step # "run"
    <3>1. op.step \in {"lock", "state", "active", "run"} BY <2>1, OpFields
    <3>2. op.step \in {"state", "active", "run"} /\ WriteStep BY <1>3, <2>2, <3>1 DEF PersistFail
    <3> QED BY <2>1, <3>2, WriteStepCopies DEF FileStep
  <2>3. CASE ~ (replaced /\ op.step # "run")
    <3>1. /\ sessionFile' = sessionFile /\ activeFile' \in {activeFile, None}
          /\ runFile' = runFile \/ (replaced /\ runFile' = [runFile EXCEPT ![op.run] = Envelope(op.run)])
      BY <1>3, <2>3 DEF PersistFail
    <3> QED BY <2>1, <2>3, <3>1 DEF FileStep
  <2> QED BY <2>2, <2>3
<1> QED BY <1>1, <1>3

\* No step makes a copy but by writing a lease file.
LEMMA FileStepCopies ==
  ASSUME TypeOK, FileStep, NEW a, Copy(a)'
  PROVE  Copy(a) \/ Written(a)
<1>1. op.run \in Runs /\ op.step \in {"lock", "state", "active", "run"} BY OpFields DEF FileStep
<1>2. Envelope(op.run).id = lease[op.run].id BY DEF Envelope
<1>3. activeFile' # None => activeFile' = activeFile \/ (op.step = "active" /\ activeFile' = Envelope(op.run))
  BY DEF FileStep
<1>4. \A r \in Runs: runFile'[r] = runFile[r] \/ (op.step = "run" /\ runFile'[r] = Envelope(op.run))
  <2>1. CASE runFile' = runFile BY <2>1
  <2>2. CASE op.step = "run" /\ runFile' = [runFile EXCEPT ![op.run] = Envelope(op.run)]
    BY <1>1, <2>2 DEF TypeOK
  <2> QED BY <2>1, <2>2 DEF FileStep
<1>5. UNCHANGED <<delegate, queue, srv, owner, executed>> /\ op # None BY DEF FileStep, serverVars
<1> QED BY <1>1, <1>2, <1>3, <1>4, <1>5 DEF Copy, Written

LEMMA QueueCopies ==
  ASSUME TypeOK, NEW req \in Request, queue' = Append(queue, req), NEW i \in 1..Len(queue')
  PROVE  queue'[i] = req \/ (i \in 1..Len(queue) /\ queue'[i] = queue[i])
BY DEF TypeOK

LEMMA QuietCopies ==
  ASSUME TypeOK, AgentQuiet, NEW a, Copy(a)'
  PROVE  Copy(a)
<1>1. UNCHANGED <<activeFile, runFile, srv, owner, executed>>
  BY DEF AgentQuiet, fileVars, serverVars
<1>2. \A q \in Runs: delegate'[q] \in {delegate[q], runFile[q], None} BY DEF AgentQuiet
<1>3. ASSUME NEW i \in 1..Len(queue'), a = queue'[i].id PROVE Copy(a)
  <2>1. CASE queue' = queue BY <1>3, <2>1 DEF Copy
  <2>2. ASSUME NEW req \in Request, queue' = Append(queue, req), SentBy(req) PROVE Copy(a)
    <3>1. CASE queue'[i] = req BY <1>3, <2>2, <3>1 DEF SentBy, Copy
    <3>2. CASE queue'[i] # req BY <1>3, <2>2, <3>2, QueueCopies DEF Copy
    <3> QED BY <3>1, <3>2
  <2> QED BY <2>1, <2>2 DEF AgentQuiet
<1> QED BY <1>1, <1>2, <1>3 DEF Copy

\* The Runtime only hands on what it was sent.
LEMMA ServerCopies ==
  ASSUME ShapeInv, ServerStep
  PROVE  /\ UNCHANGED <<rootLock, lease, op, delegate, attachments, sessionFile, runFile, now>>
         /\ activeFile' \in {activeFile, None}
         /\ activeFile' # activeFile => authority = "runtime" \/ srv.pc \in {"remove", "challengeRemove"}
         /\ \A a: Copy(a)' => Copy(a)
<1> USE DEF ShapeInv
<1>1. /\ UNCHANGED <<rootLock, lease, op, delegate, attachments, sessionFile, runFile, now>>
      /\ activeFile' \in {activeFile, None}
      /\ activeFile' # activeFile => srv.pc \in {"remove", "challengeRemove"}
  BY DEF ServerStep, Admit, Refuse, Revoke, RevokeRemove, ExecuteAct, ExecuteClose, ExecuteViewer,
         ChallengeClose, serverFrame, envVars
<1>2. CASE Admit \/ \E reason \in {"unavailable", "expired", "mismatch", "stale", "limit"}: Refuse(reason)
  <2>1. /\ queue # <<>> /\ queue' = Tail(queue) /\ owner' = owner /\ executed' = executed
        /\ srv' = srv \/ srv'.req = Head(queue)
    BY <1>2 DEF Admit, Refuse, serverVars
  <2>2. /\ Len(queue) > 0 /\ Head(queue) = queue[1] /\ Len(queue') = Len(queue) - 1
        /\ \A i \in 1..Len(queue'): queue'[i] = queue[i + 1] /\ i + 1 \in 1..Len(queue)
    BY <2>1 DEF TypeOK
  <2> QED BY <1>1, <2>1, <2>2 DEF Copy
<1>3. CASE ~ (Admit \/ \E reason \in {"unavailable", "expired", "mismatch", "stale", "limit"}: Refuse(reason))
  <2>1. /\ queue' = queue /\ srv.req # None
        /\ srv'.req \in {srv.req, None}
        /\ owner' \in {owner, None, srv.req.id} /\ executed' \in {executed, srv.req.id}
    <3>1. CASE Revoke \/ \E removed \in BOOLEAN: RevokeRemove(removed)
      BY <3>1 DEF Revoke, RevokeRemove, ServerInv, IdleServer, TypeOK
    <3>2. CASE \E result \in {"ok", "failed", "challenge"}: ExecuteAct(result)
      BY <3>2 DEF ExecuteAct, ServerInv, IdleServer, TypeOK
    <3>3. CASE \E result \in {"ok", "failed"}: ExecuteClose(result) \/ ExecuteViewer(result)
      BY <3>3 DEF ExecuteClose, ExecuteViewer, ServerInv, IdleServer, TypeOK
    <3>4. CASE \E closed \in BOOLEAN: ChallengeClose(closed)
      BY <3>4 DEF ChallengeClose, ServerInv, IdleServer, TypeOK
    <3> QED BY <1>3, <3>1, <3>2, <3>3, <3>4 DEF ServerStep
  <2> QED BY <1>1, <2>1 DEF Copy
<1> QED BY <1>1, <1>2, <1>3

-----------------------------------------------------------------------------
(* Epochs.                                                                  *)

\* A persist() that is under way has moved the lease already; otherwise the next
\* one may be one control epoch ahead.
Ahead == IF op = None THEN 1 ELSE 0
\* The attachment handed out last.
Latest(a) == a.attachment = attachments
\* An identity that an epoch of id has superseded.
Behind(a, id) ==
  a.session = id.session => a.sessionEpoch < id.sessionEpoch \/ a.controlEpoch < id.controlEpoch

\* The session file is at most one control epoch ahead of an open lease.
SessionAhead ==
  \A r \in Runs: Open(r) =>
    /\ Latest(lease[r].id)
    /\ sessionFile[SessionOf[r]].controlEpoch <= lease[r].id.controlEpoch + Ahead

\* persist() writes the session file before the leases that carry its epochs.
SessionFirst ==
  op # None /\ op.step \in {"active", "run"} =>
    sessionFile[SessionOf[op.run]].controlEpoch = lease[op.run].id.controlEpoch

\* Whatever was handed out was persisted before.
CopiesPersisted ==
  \A a \in Identity: Copy(a) =>
    a.attachment <= attachments /\ a.controlEpoch <= sessionFile[a.session].controlEpoch

\* A copy belongs to the open lease, or is behind it.
CopiesBehind ==
  \A a \in Identity, r \in Runs: Copy(a) /\ Open(r) =>
    /\ Latest(a) => /\ SameButControl(a, lease[r].id)
                    /\ a.controlEpoch <= lease[r].id.controlEpoch + Ahead
    /\ ~ Latest(a) => Behind(a, lease[r].id)

\* The same of the identity a failed transition returns to.
CopiesBehindUndo ==
  op # None /\ op.kind = "transition" =>
    \A a \in Identity: Copy(a) /\ ~ Latest(a) => Behind(a, op.undo)

\* EpochsNotReused, of copies.
CopiesDistinct ==
  \A a, b \in Identity:
    Copy(a) /\ Copy(b) /\ a.session = b.session /\ a.sessionEpoch = b.sessionEpoch
      /\ a.controlEpoch = b.controlEpoch => a.attachment = b.attachment

\* Epochs and the files they are read back from.
EpochInv ==
  SessionAhead /\ SessionFirst /\ CopiesPersisted /\ CopiesBehind /\ CopiesBehindUndo /\ CopiesDistinct

CoreInv == ShapeInv /\ LockInv /\ EpochInv

\* Nothing has been handed out at first.
LEMMA EpochInit == Init => EpochInv
<1> SUFFICES ASSUME Init PROVE EpochInv OBVIOUS
<1>1. \A a: ~ Copy(a) BY DEF Init, Copy, IdleServer
<1>2. op = None /\ \A r \in Runs: ~ Open(r) BY DEF Init, Open
<1> QED BY <1>1, <1>2 DEF EpochInv, SessionAhead, SessionFirst, CopiesPersisted, CopiesBehind,
                           CopiesBehindUndo, CopiesDistinct

LEMMA SessionOfType == \A r \in Runs: SessionOf[r] \in Sessions
BY RunsAssumption

\* Fewer copies, the same lease.
LEMMA EpochStays ==
  ASSUME CoreInv, op' = op, UNCHANGED <<attachments, sessionFile>>,
         \A q \in Runs: Open(q)' => Open(q) /\ lease'[q].id = lease[q].id,
         op # None => lease'[op.run].id = lease[op.run].id,
         \A a: Copy(a)' => Copy(a)
  PROVE  EpochInv'
<1> USE DEF CoreInv, EpochInv
<1>1. SessionAhead' BY DEF SessionAhead, Latest, Ahead
<1>2. SessionFirst' BY DEF SessionFirst
<1>3. CopiesPersisted' BY DEF CopiesPersisted
<1>4. CopiesBehind' BY DEF CopiesBehind, Latest, Ahead, SameButControl, Behind
<1>5. CopiesBehindUndo' BY DEF CopiesBehindUndo, Latest, Behind
<1>6. CopiesDistinct' BY DEF CopiesDistinct
<1> QED BY <1>1, <1>2, <1>3, <1>4, <1>5, <1>6

\* A Rotate or a transition moves the lease ahead of everything handed out.
LEMMA BeginEpoch ==
  ASSUME CoreInv, ShapeInv', NEW r \in Runs, Begins(r)
  PROVE  EpochInv'
<1> USE DEF CoreInv, EpochInv, ShapeInv
<1>1. /\ op = None /\ op' # None /\ op'.run = r /\ op'.step = "lock" /\ op'.undo = lease[r].id
      /\ Open(r) /\ LeaseChanges(r, lease'[r].id)
      /\ UNCHANGED <<delegate, fileVars, serverVars, queue>>
      /\ \/ op'.kind = "rotate" /\ IsRotation(r, lease'[r].id)
         \/ op'.kind = "transition" /\ IsTransition(r, lease'[r].id)
  BY BeginEffect
<1>2. \A a: Copy(a)' <=> Copy(a)
  BY <1>1 DEF Copy, fileVars, serverVars
<1>3. \A q \in Runs: Open(q)' => q = r
  BY <1>1 DEF LockInv, LeaseChanges, Open
<1>4. /\ lease[r].id \in Identity /\ lease'[r].id \in Identity
      /\ attachments \in Nat /\ attachments' \in Nat
      /\ sessionFile' = sessionFile /\ SessionOf[r] = lease[r].id.session
      /\ lease'[r].id.session = lease[r].id.session
      /\ lease'[r].id.controlEpoch = lease[r].id.controlEpoch + 1
      /\ lease'[r].id.sessionEpoch >= lease[r].id.sessionEpoch
  <2>1. lease[r].id \in Identity /\ lease'[r].id \in Identity
    BY <1>1, HolderFields DEF TypeOK, LeaseChanges, Open
  <2>2. attachments \in Nat /\ attachments' \in Nat BY BoundsAssumption DEF TypeOK
  <2> QED BY <1>1, <2>1, <2>2, IdentityFields, BoundsAssumption
         DEF IsRotation, IsTransition, SameButControl, LockInv, Open, fileVars
<1>5. /\ sessionFile[SessionOf[r]].controlEpoch <= lease[r].id.controlEpoch + 1 /\ Latest(lease[r].id)
  BY <1>1 DEF SessionAhead, Ahead
<1>6. SessionAhead'
  <2>1. lease'[r].id.attachment = attachments'
    BY <1>1, <1>5 DEF Latest, IsRotation, IsTransition, SameButControl
  <2>2. sessionFile'[SessionOf[r]].controlEpoch <= lease'[r].id.controlEpoch + 0
    BY <1>4, <1>5, IdentityFields, BoundsAssumption
  <2> QED BY <1>1, <1>3, <2>1, <2>2 DEF SessionAhead, Ahead, Latest
<1>7. SessionFirst' BY <1>1 DEF SessionFirst
<1>8. CopiesPersisted'
  <2>1. attachments' >= attachments BY <1>1, <1>4 DEF IsRotation, IsTransition
  <2> QED BY <1>2, <1>4, <2>1, IdentityFields, BoundsAssumption DEF CopiesPersisted
<1>9. ASSUME NEW a \in Identity, Copy(a)
      PROVE  /\ Latest(a)' => /\ SameButControl(a, lease'[r].id)
                              /\ a.controlEpoch <= lease'[r].id.controlEpoch
             /\ ~ Latest(a)' => Behind(a, lease'[r].id)
             /\ op'.kind = "transition" /\ ~ Latest(a)' => Behind(a, op'.undo)
  <2>1. /\ a.attachment \in Nat /\ a.controlEpoch \in Nat /\ a.sessionEpoch \in Nat
        /\ lease[r].id.controlEpoch \in Nat /\ lease[r].id.sessionEpoch \in Nat
        /\ lease'[r].id.sessionEpoch \in Nat
        /\ a.attachment <= attachments
    BY <1>4, <1>9, IdentityFields, BoundsAssumption DEF CopiesPersisted
  <2>2. /\ Latest(a) => SameButControl(a, lease[r].id) /\ a.controlEpoch <= lease[r].id.controlEpoch + 1
        /\ ~ Latest(a) => Behind(a, lease[r].id)
    BY <1>1, <1>9 DEF CopiesBehind, Ahead
  <2>3. CASE op'.kind = "rotate" /\ IsRotation(r, lease'[r].id)
    BY <1>4, <2>1, <2>2, <2>3 DEF IsRotation, Latest, Behind, SameButControl
  <2>4. CASE op'.kind = "transition" /\ IsTransition(r, lease'[r].id)
    BY <1>1, <1>4, <2>1, <2>2, <2>4 DEF IsTransition, Latest, Behind, SameButControl
  <2> QED BY <1>1, <2>3, <2>4
<1>10. CopiesBehind' BY <1>1, <1>2, <1>3, <1>4, <1>9, IdentityFields DEF CopiesBehind, Ahead
<1>11. CopiesBehindUndo' BY <1>2, <1>9 DEF CopiesBehindUndo
<1>12. CopiesDistinct' BY <1>2 DEF CopiesDistinct
<1> QED BY <1>6, <1>7, <1>8, <1>10, <1>11, <1>12

\* Acquire reads the session file, which is not behind any copy: the epochs of the
\* new attachment are new.
LEMMA AcquireEpoch ==
  ASSUME CoreInv, ShapeInv', NEW r \in Runs, NEW bump \in Bumps, NEW e \in 1..(MaxTime + 1), Acquire(r, bump, e)
  PROVE  EpochInv'
<1> USE DEF CoreInv, EpochInv, ShapeInv
<1>1. /\ op = None /\ op' # None /\ op'.run = r /\ op'.step = "lock" /\ op'.kind = "acquire"
      /\ rootLock = None /\ attachments' = attachments + 1
      /\ \A q \in Runs: q # r => lease'[q] = lease[q]
      /\ lease'[r] # None
      /\ lease'[r].id.session = SessionOf[r]
      /\ lease'[r].id.sessionEpoch >= sessionFile[SessionOf[r]].sessionEpoch
      /\ lease'[r].id.attachment = attachments'
      /\ lease'[r].id.controlEpoch = sessionFile[SessionOf[r]].controlEpoch + 1
      /\ UNCHANGED <<delegate, fileVars, serverVars, queue>>
  BY AcquireEffect
<1>2. \A a: Copy(a)' <=> Copy(a)
  BY <1>1 DEF Copy, fileVars, serverVars
<1>3. \A q \in Runs: Open(q)' => q = r
  BY <1>1, NoneIsNone DEF LockInv, Open
<1>4. /\ lease'[r].id \in Identity /\ attachments \in Nat /\ sessionFile' = sessionFile
      /\ sessionFile[SessionOf[r]].controlEpoch \in Nat
  <2>1. lease'[r].id \in Identity BY <1>1, HolderFields DEF TypeOK
  <2>2. sessionFile' = sessionFile BY <1>1 DEF fileVars
  <2>3. attachments \in Nat BY BoundsAssumption DEF TypeOK
  <2>4. sessionFile[SessionOf[r]].controlEpoch \in Nat BY SessionOfType, BoundsAssumption DEF TypeOK
  <2> QED BY <2>1, <2>2, <2>3, <2>4
<1>5. SessionAhead'
  BY <1>1, <1>3, <1>4 DEF SessionAhead, Ahead, Latest
<1>6. SessionFirst' BY <1>1 DEF SessionFirst
<1>7. CopiesPersisted'
  BY <1>1, <1>2, <1>4, IdentityFields, BoundsAssumption DEF CopiesPersisted
<1>8. CopiesBehind'
  <2> SUFFICES ASSUME NEW a \in Identity, Copy(a)
               PROVE  ~ Latest(a)' /\ Behind(a, lease'[r].id)
    BY <1>2, <1>3 DEF CopiesBehind
  <2>1. a.attachment \in Nat /\ a.controlEpoch \in Nat BY IdentityFields, BoundsAssumption
  <2>2. a.attachment <= attachments /\ a.controlEpoch <= sessionFile[a.session].controlEpoch
    BY DEF CopiesPersisted
  <2> QED BY <1>1, <1>4, <2>1, <2>2 DEF Latest, Behind
<1>9. CopiesBehindUndo' BY <1>1 DEF CopiesBehindUndo
<1>10. CopiesDistinct' BY <1>2 DEF CopiesDistinct
<1> QED BY <1>5, <1>6, <1>7, <1>8, <1>9, <1>10

\* What persist() writes agrees with all that was written before.
LEMMA WrittenEpoch ==
  ASSUME CoreInv, NEW x \in Identity, Written(x)
  PROVE  /\ op.run \in Runs /\ Open(op.run) /\ x = lease[op.run].id /\ Latest(x)
         /\ x.session = SessionOf[op.run]
         /\ x.controlEpoch = sessionFile[x.session].controlEpoch
         /\ \A b \in Identity: Copy(b) /\ b.session = x.session /\ b.sessionEpoch = x.sessionEpoch
              /\ b.controlEpoch = x.controlEpoch => b.attachment = x.attachment
         /\ \A b \in Identity: Copy(b) /\ Latest(b) => SameButControl(b, x) /\ b.controlEpoch <= x.controlEpoch
<1> USE DEF CoreInv, EpochInv, ShapeInv
<1>1. op # None /\ op.run \in Runs /\ Open(op.run) /\ x = lease[op.run].id
  BY OpFields DEF Written, LockInv
<1>2. Latest(x) /\ x.session = SessionOf[op.run] /\ x.controlEpoch = sessionFile[x.session].controlEpoch
  BY <1>1 DEF SessionAhead, SessionFirst, LockInv, Written, Open
<1>3. ASSUME NEW b \in Identity, Copy(b), Latest(b)
      PROVE  SameButControl(b, x) /\ b.controlEpoch <= x.controlEpoch
  BY <1>1, <1>3, IdentityFields DEF CopiesBehind, Ahead
<1>4. ASSUME NEW b \in Identity, Copy(b), b.session = x.session, b.sessionEpoch = x.sessionEpoch,
             b.controlEpoch = x.controlEpoch
      PROVE  b.attachment = x.attachment
  <2>1. CASE Latest(b) BY <1>2, <2>1 DEF Latest
  <2>2. CASE ~ Latest(b)
    <3>1. Behind(b, x) BY <1>1, <1>4, <2>2 DEF CopiesBehind
    <3> QED BY <1>4, <3>1, IdentityFields, BoundsAssumption DEF Behind
  <2> QED BY <2>1, <2>2
<1> QED BY <1>1, <1>2, <1>3, <1>4

\* A file write never takes an epoch of the session file back.
LEMMA SessionGrows ==
  ASSUME CoreInv, FileStep
  PROVE  /\ op.run \in Runs /\ Open(op.run)
         /\ \A s \in Sessions: sessionFile[s].controlEpoch \in Nat /\ sessionFile'[s].controlEpoch \in Nat
         /\ \A s \in Sessions: sessionFile'[s].controlEpoch >= sessionFile[s].controlEpoch
         /\ sessionFile'[SessionOf[op.run]].controlEpoch <= lease[op.run].id.controlEpoch
         /\ sessionFile' # sessionFile => sessionFile'[SessionOf[op.run]].controlEpoch = lease[op.run].id.controlEpoch
<1> USE DEF CoreInv, EpochInv, ShapeInv
<1> DEFINE id == lease[op.run].id
           s0 == SessionOf[op.run]
<1>1. op # None /\ op.run \in Runs /\ Open(op.run) /\ id \in Identity /\ id.session = s0 /\ s0 \in Sessions
  BY OpFields, LeaseFields, RunsAssumption DEF FileStep, LockInv, Open
<1>2. sessionFile[s0].controlEpoch <= id.controlEpoch /\ id.controlEpoch \in Nat
  <2>1. sessionFile[s0].controlEpoch \in Nat /\ id.controlEpoch \in Nat
    <3>1. id.controlEpoch \in Nat BY <1>1, IdentityFields, BoundsAssumption
    <3>2. sessionFile[s0].controlEpoch \in 0..MaxEpoch BY <1>1 DEF TypeOK
    <3> QED BY <3>1, <3>2, BoundsAssumption
  <2> QED BY <1>1, <2>1 DEF SessionAhead, Ahead
<1>3. \A s \in Sessions: sessionFile[s].controlEpoch \in Nat BY BoundsAssumption DEF TypeOK
<1>4. CASE sessionFile' = sessionFile BY <1>1, <1>2, <1>3, <1>4
<1>5. CASE sessionFile' = [sessionFile EXCEPT ![id.session] = StateOf(id)]
  <2>1. StateOf(id).controlEpoch = id.controlEpoch BY DEF StateOf
  <2>2. /\ sessionFile'[s0] = StateOf(id)
        /\ \A s \in Sessions: s # s0 => sessionFile'[s] = sessionFile[s]
    BY <1>1, <1>5 DEF TypeOK
  <2> HIDE DEF id, s0
  <2>3. \A s \in Sessions: sessionFile'[s].controlEpoch \in Nat /\ sessionFile'[s].controlEpoch >= sessionFile[s].controlEpoch
    BY <1>2, <1>3, <2>1, <2>2
  <2>4. sessionFile'[s0].controlEpoch = id.controlEpoch BY <2>1, <2>2
  <2> QED BY <1>1, <1>2, <1>3, <2>3, <2>4 DEF id, s0
<1> QED BY <1>4, <1>5 DEF FileStep

\* After a write everything handed out is still covered by the session file.
LEMMA FilePersisted ==
  ASSUME CoreInv, FileStep
  PROVE  CopiesPersisted' /\ CopiesDistinct'
<1> USE DEF CoreInv, EpochInv, ShapeInv
<1>1. \A a: Copy(a)' => Copy(a) \/ Written(a) BY FileStepCopies
<1>2. attachments' = attachments /\ attachments \in Nat BY BoundsAssumption DEF FileStep, TypeOK
<1>3. ASSUME NEW a \in Identity, Copy(a) \/ Written(a)
      PROVE  a.attachment <= attachments /\ a.controlEpoch <= sessionFile[a.session].controlEpoch
  <2>1. CASE Copy(a) BY <2>1 DEF CopiesPersisted
  <2>2. CASE Written(a)
    BY <1>2, <2>2, WrittenEpoch, IdentityFields, BoundsAssumption DEF Latest
  <2> QED BY <1>3, <2>1, <2>2
<1>4. CopiesPersisted'
  <2> SUFFICES ASSUME NEW a \in Identity, Copy(a)'
               PROVE  a.attachment <= attachments' /\ a.controlEpoch <= sessionFile'[a.session].controlEpoch
    BY DEF CopiesPersisted
  <2>1. a.session \in Sessions /\ a.controlEpoch \in Nat BY IdentityFields, BoundsAssumption
  <2>2. a.attachment <= attachments /\ a.controlEpoch <= sessionFile[a.session].controlEpoch
    BY <1>1, <1>3
  <2> QED BY <1>2, <2>1, <2>2, SessionGrows
<1>5. CopiesDistinct'
  <2> SUFFICES ASSUME NEW a \in Identity, NEW b \in Identity, Copy(a)', Copy(b)',
                      a.session = b.session, a.sessionEpoch = b.sessionEpoch, a.controlEpoch = b.controlEpoch
               PROVE  a.attachment = b.attachment
    BY DEF CopiesDistinct
  <2>1. CASE Copy(a) /\ Copy(b) BY <2>1 DEF CopiesDistinct
  <2>2. CASE Written(a) /\ Copy(b) BY <2>2, WrittenEpoch
  <2>3. CASE Copy(a) /\ Written(b) BY <2>3, WrittenEpoch
  <2>4. CASE Written(a) /\ Written(b) BY <2>4 DEF Written
  <2> QED BY <1>1, <2>1, <2>2, <2>3, <2>4
<1> QED BY <1>4, <1>5

\* There is one open lease.
LEMMA OneOpen ==
  ASSUME LockInv, NEW q \in Runs, NEW r \in Runs, Open(q), Open(r)
  PROVE  q = r
BY DEF LockInv

\* A write that is not the last of its persist().
LEMMA WriteEpoch ==
  ASSUME CoreInv, ShapeInv', PersistWrite
  PROVE  EpochInv'
<1> USE DEF CoreInv, EpochInv, ShapeInv
<1>1. FileStep BY PersistFiles
<1>2. /\ op # None /\ op' # None /\ op'.step = IF op.step = "state" THEN "active" ELSE "run"
      /\ op'.run = op.run /\ op'.kind = op.kind /\ op'.undo = op.undo
      /\ op.step \in {"state", "active"} /\ lease' = lease /\ attachments' = attachments
      /\ op.step = "state" => sessionFile' = [sessionFile EXCEPT ![lease[op.run].id.session] = StateOf(lease[op.run].id)]
      /\ op.step = "active" => sessionFile' = sessionFile
  BY WriteOp, WriteStepCopies DEF PersistWrite
<1>3. /\ op.run \in Runs /\ Open(op.run) /\ \A q \in Runs: Open(q)' <=> Open(q)
      /\ lease[op.run].id \in Identity /\ lease[op.run].id.session = SessionOf[op.run]
  BY <1>1, <1>2, SessionGrows, LeaseFields DEF Open, LockInv
<1>4. \A q \in Runs: Open(q) => q = op.run BY <1>3, OneOpen
<1>5. sessionFile'[SessionOf[op.run]].controlEpoch <= lease[op.run].id.controlEpoch
  BY <1>1, SessionGrows
<1>6. SessionAhead'
  <2>1. Latest(lease[op.run].id) BY <1>3 DEF SessionAhead
  <2>2. sessionFile'[SessionOf[op.run]].controlEpoch <= lease[op.run].id.controlEpoch + 0
    <3>1. SessionOf[op.run] \in Sessions BY <1>3, RunsAssumption
    <3>2. sessionFile'[SessionOf[op.run]].controlEpoch \in Nat BY <1>1, <3>1, SessionGrows
    <3>3. lease[op.run].id.controlEpoch \in Nat BY <1>3, IdentityFields, BoundsAssumption
    <3> QED BY <1>5, <3>2, <3>3
  <2> QED BY <1>2, <1>3, <1>4, <2>1, <2>2 DEF SessionAhead, Ahead, Latest
<1>7. SessionFirst'
  <2>1. CASE op.step = "state"
    <3>1. lease[op.run].id.session \in Sessions BY <1>3, IdentityFields
    <3>2. sessionFile'[SessionOf[op.run]] = StateOf(lease[op.run].id)
      BY <1>2, <1>3, <2>1, <3>1 DEF TypeOK
    <3> QED BY <1>2, <3>2 DEF SessionFirst, StateOf
  <2>2. CASE op.step = "active" BY <1>2, <2>2 DEF SessionFirst
  <2> QED BY <1>2, <2>1, <2>2
<1>8. CopiesPersisted' /\ CopiesDistinct' BY <1>1, FilePersisted
<1>9. \A a: Copy(a)' => Copy(a) \/ Written(a) BY <1>1, FileStepCopies
<1>10. CopiesBehind'
  <2> SUFFICES ASSUME NEW a \in Identity, Copy(a)'
               PROVE  /\ Latest(a) => /\ SameButControl(a, lease[op.run].id)
                                      /\ a.controlEpoch <= lease[op.run].id.controlEpoch + 0
                      /\ ~ Latest(a) => Behind(a, lease[op.run].id)
    BY <1>2, <1>3, <1>4 DEF CopiesBehind, Ahead, Latest
  <2>1. CASE Copy(a) BY <1>2, <1>3, <2>1 DEF CopiesBehind, Ahead
  <2>2. CASE Written(a)
    BY <1>3, <2>2, WrittenEpoch, IdentityFields, BoundsAssumption DEF SameButControl
  <2> QED BY <1>9, <2>1, <2>2
<1>11. CopiesBehindUndo'
  <2>1. \A a \in Identity: Written(a) => Latest(a) BY WrittenEpoch
  <2> QED BY <1>2, <1>9, <2>1 DEF CopiesBehindUndo, Latest
<1> QED BY <1>6, <1>7, <1>8, <1>10, <1>11

\* The end of a persist(): the lease keeps its identity, or returns to the one
\* before the transition, or is given up.
LEMMA EndEpoch ==
  ASSUME CoreInv, ShapeInv', FileStep, op' = None, attachments' = attachments,
         \A q \in Runs: Open(q)' =>
           /\ Open(q)
           /\ \/ lease'[q].id = lease[q].id
              \/ q = op.run /\ op.kind = "transition" /\ lease'[q].id = op.undo
  PROVE  EpochInv'
<1> USE DEF CoreInv, EpochInv, ShapeInv
<1>1. op # None /\ op.run \in Runs /\ Open(op.run) BY SessionGrows DEF FileStep
<1>0. PICK r \in Runs: r = op.run BY <1>1
<1>2. \A q \in Runs: Open(q)' => q = r BY <1>0, <1>1, OneOpen
<1>3. CopiesPersisted' /\ CopiesDistinct' BY FilePersisted
<1>4. SessionFirst' /\ CopiesBehindUndo' BY DEF SessionFirst, CopiesBehindUndo
<1> DEFINE id == lease[r].id
           new == lease'[r].id
<1>5. /\ id \in Identity /\ op.undo \in Identity /\ Latest(id)
      /\ id.controlEpoch \in Nat /\ op.undo.controlEpoch \in Nat
      /\ op.kind = "transition" => SameButControl(op.undo, id) /\ id.controlEpoch = op.undo.controlEpoch + 1
  BY <1>0, <1>1, LeaseFields, OpFields, IdentityFields, BoundsAssumption
      DEF SessionAhead, LockInv, Open
<1>6. Open(r)' => new = id \/ (op.kind = "transition" /\ new = op.undo)
  BY <1>0, <1>1
<1>7. ASSUME Open(r)'
      PROVE  /\ new \in Identity /\ Latest(new) /\ SameButControl(new, id)
             /\ new.controlEpoch \in Nat /\ id.controlEpoch <= new.controlEpoch + 1
  <2> HIDE DEF id, new
  <2>1. CASE new = id BY <1>5, <2>1 DEF SameButControl
  <2>2. CASE op.kind = "transition" /\ new = op.undo
    <3>1. SameButControl(op.undo, id) /\ id.controlEpoch = op.undo.controlEpoch + 1 BY <1>5, <2>2
    <3> QED BY <1>5, <2>2, <3>1 DEF SameButControl, Latest
  <2> QED BY <1>6, <1>7, <2>1, <2>2
<1>8. ASSUME Open(r)'
      PROVE  Latest(new) /\ sessionFile'[SessionOf[r]].controlEpoch <= new.controlEpoch + 1
  <2>1. SessionOf[r] \in Sessions BY <1>0, <1>1, RunsAssumption
  <2>2. /\ sessionFile'[SessionOf[r]].controlEpoch \in Nat
        /\ sessionFile'[SessionOf[r]].controlEpoch <= id.controlEpoch
    BY <1>0, <2>1, SessionGrows
  <2>3. /\ Latest(new) /\ new.controlEpoch \in Nat /\ id.controlEpoch <= new.controlEpoch + 1
    BY <1>7, <1>8
  <2> HIDE DEF id, new
  <2> QED BY <1>5, <2>2, <2>3
<1>9. SessionAhead'
  <2>1. \A q \in Runs: Open(q)' =>
          /\ lease'[q].id.attachment = attachments
          /\ sessionFile'[SessionOf[q]].controlEpoch <= lease'[q].id.controlEpoch + 1
    BY <1>2, <1>8 DEF Latest
  <2> QED BY <2>1 DEF SessionAhead, Ahead, Latest
<1>10. ASSUME NEW a \in Identity, Copy(a)', Open(r)'
       PROVE  /\ Latest(a) => /\ SameButControl(a, new)
                              /\ a.controlEpoch <= new.controlEpoch + 1
              /\ ~ Latest(a) => Behind(a, new)
  <2>1. a.controlEpoch \in Nat BY IdentityFields, BoundsAssumption
  <2>2. /\ SameButControl(new, id) /\ new.controlEpoch \in Nat /\ id.controlEpoch <= new.controlEpoch + 1
    BY <1>7, <1>10
  <2>3. CASE Copy(a)
    <3>1. /\ Latest(a) => SameButControl(a, id) /\ a.controlEpoch <= id.controlEpoch + 0
          /\ ~ Latest(a) => Behind(a, id)
      BY <1>0, <1>1, <2>3 DEF CopiesBehind, Ahead
    <3>2. ~ Latest(a) => Behind(a, new)
      <4>1. CASE new = id BY <3>1, <4>1
      <4>2. CASE op.kind = "transition" /\ new = op.undo
        BY <1>0, <1>1, <2>3, <4>2 DEF CopiesBehindUndo
      <4> QED BY <1>6, <1>10, <4>1, <4>2
    <3> HIDE DEF id, new
    <3> QED BY <1>5, <2>1, <2>2, <3>1, <3>2 DEF SameButControl
  <2>4. CASE Written(a)
    <3>1. a = id /\ Latest(a) BY <1>0, <2>4, WrittenEpoch
    <3> HIDE DEF id, new
    <3> QED BY <1>5, <2>2, <3>1 DEF SameButControl
  <2> QED BY <1>0, <1>10, <2>3, <2>4, FileStepCopies
<1>11. CopiesBehind'
  <2>1. \A a \in Identity, q \in Runs: Copy(a)' /\ Open(q)' =>
          /\ Latest(a) => /\ SameButControl(a, lease'[q].id)
                          /\ a.controlEpoch <= lease'[q].id.controlEpoch + 1
          /\ ~ Latest(a) => Behind(a, lease'[q].id)
    BY <1>2, <1>10
  <2> QED BY <2>1 DEF CopiesBehind, Ahead, Latest
<1> QED BY <1>3, <1>4, <1>9, <1>11

\* Every step keeps EpochInv.
LEMMA EpochStep ==
  ASSUME CoreInv, ShapeInv', StepKind, ~ CleanupMayFail
  PROVE  EpochInv'
<1> USE DEF CoreInv, ShapeInv
<1>1. CASE AgentQuiet
  <2>1. \A q \in Runs: Open(q)' => Open(q) /\ lease'[q].id = lease[q].id
    BY <1>1 DEF AgentQuiet, LeaseKept, Open
  <2>2. op # None => lease'[op.run].id = lease[op.run].id
    BY <1>1, OpFields DEF AgentQuiet, LeaseKept
  <2> QED BY <1>1, <2>1, <2>2, QuietCopies, EpochStays DEF AgentQuiet, fileVars
<1>2. ASSUME NEW r \in Runs, Begins(r) PROVE EpochInv' BY <1>2, BeginEpoch
<1>3. ASSUME NEW r \in Runs, Closes(r) PROVE EpochInv'
  <2>1. /\ LeaseFree(r) /\ Open(r)
        /\ \A q \in Runs: q # r => lease'[q] = lease[q]
        /\ lease'[r].closed /\ lease'[r].id = lease[r].id
        /\ runFile' = [runFile EXCEPT ![r] = None] /\ activeFile' \in {activeFile, None}
        /\ UNCHANGED <<op, delegate, attachments, sessionFile, serverVars, queue>>
    BY <1>3, CloseEffect
  <2>2. \A q \in Runs: Open(q)' => Open(q) /\ lease'[q].id = lease[q].id
    BY <2>1 DEF Open
  <2>3. op # None => lease'[op.run].id = lease[op.run].id
    BY <2>1, OpFields DEF LeaseFree
  <2>4. \A q \in Runs: runFile'[q] \in {runFile[q], None} BY <2>1 DEF TypeOK
  <2>5. \A a: Copy(a)' => Copy(a) BY <2>1, <2>4 DEF Copy, serverVars
  <2> QED BY <2>1, <2>2, <2>3, <2>5, EpochStays
<1>4. ASSUME NEW r \in Runs, NEW bump \in Bumps, NEW e \in 1..(MaxTime + 1), Acquire(r, bump, e)
      PROVE  EpochInv'
  BY <1>4, AcquireEpoch
<1>5. CASE LockPersist
  <2>1. /\ op # None /\ op' # None /\ op'.run = op.run /\ op'.kind = op.kind /\ op'.undo = op.undo
        /\ op'.step = "state"
        /\ UNCHANGED <<lease, delegate, attachments, fileVars, serverVars, queue>>
    BY <1>5, LockPersistOp DEF LockPersist
  <2>2. \A a: Copy(a)' <=> Copy(a) BY <2>1 DEF Copy, fileVars, serverVars
  <2>3. \A q \in Runs: Open(q)' <=> Open(q) BY <2>1 DEF Open
  <2> QED BY <2>1, <2>2, <2>3
         DEF fileVars, EpochInv, SessionAhead, SessionFirst, CopiesPersisted, CopiesBehind,
             CopiesBehindUndo, CopiesDistinct, Latest, Ahead, Behind
<1>6. CASE PersistWrite BY <1>6, WriteEpoch
<1>7. CASE PersistDone
  <2>1. op' = None /\ lease' = lease /\ attachments' = attachments BY <1>7 DEF PersistDone
  <2> QED BY <1>7, <2>1, PersistFiles, EndEpoch DEF Open
<1>8. ASSUME NEW replaced \in BOOLEAN, NEW kept \in BOOLEAN, PersistFail(replaced, kept)
      PROVE  EpochInv'
  <2>1. FileStep BY <1>8, PersistFiles
  <2>2. op' = None /\ attachments' = attachments BY <1>8, FailEffect
  <2>3. \A q \in Runs: Open(q)' =>
          /\ Open(q)
          /\ \/ lease'[q].id = lease[q].id
             \/ q = op.run /\ op.kind = "transition" /\ lease'[q].id = op.undo
    BY <1>8, FailEffect, OpFields DEF LockInv, LeaseChanges, Open
  <2> QED BY <2>1, <2>2, <2>3, EndEpoch
<1>9. CASE ServerStep
  BY <1>9, ServerCopies, EpochStays DEF Open
<1>10. CASE Tick
  <2>1. UNCHANGED <<agentVars, fileVars, serverVars, queue>> BY <1>10 DEF Tick
  <2>2. \A a: Copy(a)' <=> Copy(a) BY <2>1 DEF Copy, agentVars, fileVars, serverVars
  <2> QED BY <2>1, <2>2, EpochStays DEF agentVars, fileVars, Open
<1>11. CASE AgentCrash
  <2>1. /\ \A q \in Runs: lease'[q] = None /\ delegate'[q] = None
        /\ op' = None /\ UNCHANGED <<attachments, fileVars, serverVars, queue>>
    BY <1>11 DEF AgentCrash
  <2>2. \A a: Copy(a)' => Copy(a) BY <2>1 DEF Copy, fileVars, serverVars
  <2>3. \A q \in Runs: ~ Open(q)' BY <2>1 DEF Open
  <2> QED BY <2>1, <2>2, <2>3
         DEF fileVars, EpochInv, SessionAhead, SessionFirst, CopiesPersisted, CopiesBehind,
             CopiesBehindUndo, CopiesDistinct
<1>12. CASE RuntimeCrash
  <2>1. /\ UNCHANGED <<agentVars, fileVars, executed>> /\ owner' = None /\ queue' = <<>> /\ srv' = IdleServer
    BY <1>12 DEF RuntimeCrash
  <2>2. \A a: Copy(a)' => Copy(a) BY <2>1 DEF Copy, agentVars, fileVars, IdleServer
  <2> QED BY <2>1, <2>2, EpochStays DEF agentVars, fileVars, Open
<1> QED BY <1>1, <1>2, <1>3, <1>4, <1>5, <1>6, <1>7, <1>8, <1>9, <1>10, <1>11, <1>12
       DEF StepKind, PersistStep

\* The root lock and the epochs, in every state.
LEMMA Core == ASSUME ~ CleanupMayFail PROVE Spec => []CoreInv
<1>1. Init => CoreInv BY InitShape, LockInit, EpochInit DEF CoreInv
<1>2. CoreInv /\ [Next]_vars => CoreInv'
  BY Steps, LockStep, EpochStep DEF CoreInv
<1> QED BY <1>1, <1>2, PTL DEF Spec

\* EpochsNotReused: identities that agree on the Session, its epoch and the control
\* epoch belong to one attachment, wherever copies of them are (files, snapshots,
\* requests under way, the page).  Rotate and transition increase epochs in memory
\* before persist() makes them durable, a failed transition takes its epoch back,
\* and a crash loses what was not durable; no epoch a copy carries is given out
\* again to another attachment.
THEOREM EpochsFresh == ASSUME ~ CleanupMayFail PROVE Spec => []EpochsNotReused
<1>1. CoreInv => EpochsNotReused
  BY OutstandingCopy DEF CoreInv, EpochInv, ShapeInv, CopiesDistinct, EpochsNotReused
<1> QED BY Core, <1>1, PTL

-----------------------------------------------------------------------------
(* The page and the requests for it.                                        *)

\* The request at the Engine.
Serving == srv.pc = "execute" /\ srv.req.kind # "close"

\* b is not ahead of a.
Weak(a, b) ==
  \/ a.attachment > b.attachment
  \/ a.attachment = b.attachment /\ a.controlEpoch >= b.controlEpoch

\* The active file, the request at the Engine, the last operation of the page and
\* the owner of the page never run behind one another.
AgeInv ==
  /\ activeFile # None /\ executed # None => Weak(activeFile.id, executed)
  /\ activeFile # None /\ Serving => Weak(activeFile.id, srv.req.id)
  /\ Serving /\ executed # None => Weak(srv.req.id, executed)
  /\ owner # None /\ executed # None /\ owner.attachment = executed.attachment =>
       owner.controlEpoch >= executed.controlEpoch

\* An admitted request carries the identity in the active file.
LEMMA AdmitServes ==
  ASSUME ShapeInv, Admit
  PROVE  /\ queue # <<>> /\ Head(queue) \in Request /\ srv'.req = Head(queue)
         /\ UNCHANGED <<activeFile, owner, executed, everRevoked, revocations>>
         /\ Serving' => activeFile # None /\ srv'.req.id = activeFile.id
                        /\ ~ IsRevoked(srv'.req.id) /\ ~ Expired(activeFile)
<1> DEFINE req == Head(queue)
<1>1. /\ queue # <<>> /\ req \in Request /\ srv'.req = req
      /\ Retry(req) \/ Validate(req.id) = "ok"
      /\ UNCHANGED <<activeFile, owner, executed, everRevoked, revocations>>
  BY DEF Admit, ShapeInv, TypeOK
<1> HIDE DEF req
<1>2. ASSUME Serving'
      PROVE  activeFile # None /\ req.id = activeFile.id /\ ~ IsRevoked(req.id) /\ ~ Expired(activeFile)
  <2>1. req.kind # "close" BY <1>1, <1>2 DEF Serving
  <2>2. ~ IsRevoked(req.id) /\ ActiveVerdict(req.id) = "ok" BY <1>1, <2>1 DEF Retry, Validate
  <2>3. activeFile # None /\ ~ Expired(activeFile) BY <2>2 DEF ActiveVerdict
  <2>4. /\ SameButControl(activeFile.id, req.id) /\ activeFile.id.controlEpoch = req.id.controlEpoch
        /\ activeFile.id.controller = req.id.controller
    BY <2>2, <2>3 DEF ActiveVerdict
  <2>5. activeFile.id \in Identity /\ req.id \in Identity
    BY <1>1, <2>3 DEF ShapeInv, TypeOK, Lease, Request
  <2>6. activeFile.id = req.id BY <2>4, <2>5 DEF Identity, SameButControl
  <2> QED BY <2>2, <2>3, <2>6
<1> QED BY <1>1, <1>2 DEF req

\* What the Engine does to the page.
LEMMA ServerPage ==
  ASSUME ShapeInv, ServerStep
  PROVE  \/ Admit
         \/ /\ UNCHANGED <<owner, executed>> /\ activeFile' \in {activeFile, None}
            /\ Serving' => Serving /\ srv' = srv
         \/ /\ srv.pc = "execute" /\ srv.req # None /\ srv.req.kind = "close" /\ ~ Serving'
            /\ activeFile' = activeFile /\ owner' \in {owner, None} /\ executed' = executed
         \/ /\ srv.pc = "challengeClose" /\ ~ Serving' /\ srv.req # None
            /\ activeFile' = activeFile /\ owner' \in {owner, None} /\ executed' = executed
         \/ /\ Serving /\ srv.req # None /\ ~ Serving' /\ activeFile' = activeFile
            /\ \E result \in {"ok", "failed", "challenge"}: ExecuteAct(result)
         \/ /\ Serving /\ srv.req # None /\ ~ Serving' /\ activeFile' = activeFile
            /\ \E result \in {"ok", "failed"}: ExecuteViewer(result)
<1> USE DEF ShapeInv
<1>0. srv \in [pc: ServerPcs, req: Request \union {None}] BY DEF TypeOK
<1>1. CASE \E reason \in {"unavailable", "expired", "mismatch", "stale", "limit"}: Refuse(reason)
  BY <1>1 DEF Refuse, serverVars, Serving
<1>2. CASE Revoke
  <2>1. /\ srv.pc \in {"revoke", "challengeRevoke"} /\ UNCHANGED <<owner, executed, activeFile>>
        /\ \/ srv' = IdleServer
           \/ srv' = [srv EXCEPT !.pc = IF srv.pc = "revoke" THEN "execute" ELSE "challengeClose"]
           \/ srv' = [srv EXCEPT !.pc = IF srv.pc = "revoke" THEN "remove" ELSE "challengeRemove"]
    BY <1>2 DEF Revoke
  <2>2. ~ Serving' BY <1>0, <2>1 DEF Serving, IdleServer, ServerInv
  <2> QED BY <2>1, <2>2
<1>3. CASE \E removed \in BOOLEAN: RevokeRemove(removed)
  <2>1. /\ srv.pc \in {"remove", "challengeRemove"} /\ UNCHANGED <<owner, executed>>
        /\ activeFile' \in {activeFile, None}
        /\ \/ srv' = IdleServer
           \/ srv' = [srv EXCEPT !.pc = IF srv.pc = "remove" THEN "execute" ELSE "challengeClose"]
    BY <1>3 DEF RevokeRemove
  <2>2. ~ Serving' BY <1>0, <2>1 DEF Serving, IdleServer, ServerInv
  <2> QED BY <2>1, <2>2
<1>4. ASSUME NEW result \in {"ok", "failed", "challenge"}, ExecuteAct(result)
      PROVE  Serving /\ srv.req # None /\ ~ Serving' /\ activeFile' = activeFile
  <2>1. srv' = IdleServer \/ srv' = [srv EXCEPT !.pc = "challengeRevoke"]
    BY <1>4 DEF ExecuteAct
  <2> QED BY <1>0, <1>4, <2>1 DEF ExecuteAct, Serving, IdleServer, ServerInv
<1>5. ASSUME NEW result \in {"ok", "failed"}, ExecuteViewer(result)
      PROVE  Serving /\ srv.req # None /\ ~ Serving' /\ activeFile' = activeFile
  BY <1>0, <1>5 DEF ExecuteViewer, ViewerKinds, Serving, IdleServer, ServerInv
<1>6. CASE \E result \in {"ok", "failed"}: ExecuteClose(result)
  BY <1>0, <1>6 DEF ExecuteClose, Serving, IdleServer, ServerInv
<1>7. CASE \E closed \in BOOLEAN: ChallengeClose(closed)
  BY <1>0, <1>7 DEF ChallengeClose, Serving, IdleServer, ServerInv
<1> QED BY <1>1, <1>2, <1>3, <1>4, <1>5, <1>6, <1>7 DEF ServerStep

\* What is at the Engine, and what the page saw, was handed out.
LEMMA ServingCopy ==
  ASSUME ShapeInv, Serving
  PROVE  srv.req # None /\ srv.req \in Request /\ srv.req.id \in Identity /\ Copy(srv.req.id)
<1>1. srv.req # None /\ srv.req \in Request BY DEF ShapeInv, TypeOK, Serving, ServerInv
<1> QED BY <1>1 DEF Copy, Request

LEMMA ExecutedCopy ==
  ASSUME ShapeInv, executed # None
  PROVE  executed \in Identity /\ Copy(executed)
BY DEF ShapeInv, TypeOK, Copy

\* Nothing moves, or the active file and the request only go.
LEMMA AgeStays ==
  ASSUME AgeInv, executed' = executed, owner' \in {owner, None}, activeFile' \in {activeFile, None},
         Serving' => Serving /\ srv' = srv
  PROVE  AgeInv'
BY DEF AgeInv, Weak

LEMMA WeakType ==
  ASSUME NEW a \in Identity, NEW b \in Identity
  PROVE  /\ a.attachment \in Nat /\ b.attachment \in Nat /\ a.controlEpoch \in Nat /\ b.controlEpoch \in Nat
         /\ Weak(a, a)
BY IdentityFields, BoundsAssumption DEF Weak

\* What the Runtime does, and what any step does, keeps AgeInv.
LEMMA AgeServer ==
  ASSUME ShapeInv, AgeInv, ServerStep
  PROVE  AgeInv'
<1>1. CASE Admit
  <2>1. CASE Serving'
    <3>1. activeFile # None /\ srv'.req.id = activeFile.id /\ activeFile.id \in Identity
          /\ UNCHANGED <<activeFile, owner, executed>>
      BY <1>1, <2>1, AdmitServes DEF ShapeInv, TypeOK, Lease
    <3>2. Weak(activeFile.id, activeFile.id) BY <3>1, WeakType
    <3> QED BY <3>1, <3>2 DEF AgeInv, Weak
  <2>2. CASE ~ Serving'
    BY <1>1, <2>2, AdmitServes, AgeStays
  <2> QED BY <2>1, <2>2
<1>2. CASE /\ Serving /\ ~ Serving' /\ activeFile' = activeFile
           /\ \E result \in {"ok", "failed", "challenge"}: ExecuteAct(result)
  <2>1. CASE owner' = srv.req.id
    <3>1. executed' \in {executed, srv.req.id} BY <1>2 DEF ExecuteAct
    <3>2. srv.req.id \in Identity BY <1>2, ServingCopy
    <3>3. executed # None => executed \in Identity BY ExecutedCopy
    <3> QED BY <1>2, <2>1, <3>1, <3>2, <3>3, WeakType DEF AgeInv, Weak
  <2>2. CASE owner' \in {owner, None} /\ executed' = executed
    BY <1>2, <2>2, AgeStays
  <2> QED BY <1>2, <2>1, <2>2 DEF ExecuteAct
<1>3. CASE /\ Serving /\ ~ Serving' /\ activeFile' = activeFile
           /\ \E result \in {"ok", "failed"}: ExecuteViewer(result)
  <2>1. \/ owner' = srv.req.id /\ executed' \in {executed, srv.req.id}
        \/ owner' = owner /\ executed' = executed
    BY <1>3 DEF ExecuteViewer
  <2>2. srv.req.id \in Identity BY <1>3, ServingCopy
  <2>3. executed # None => executed \in Identity BY ExecutedCopy
  <2> QED BY <1>3, <2>1, <2>2, <2>3, WeakType DEF AgeInv, Weak
<1>4. CASE /\ executed' = executed /\ owner' \in {owner, None} /\ activeFile' \in {activeFile, None}
           /\ Serving' => Serving /\ srv' = srv
  BY <1>4, AgeStays
<1> QED BY <1>1, <1>2, <1>3, <1>4, ServerPage

LEMMA AgeStep ==
  ASSUME CoreInv, AgeInv, StepKind, ~ CleanupMayFail
  PROVE  AgeInv'
<1> USE DEF CoreInv, ShapeInv
<1>1. CASE AgentQuiet BY <1>1, AgeStays DEF AgentQuiet, fileVars, serverVars, Serving
<1>2. ASSUME NEW r \in Runs, Begins(r) PROVE AgeInv'
  BY <1>2, BeginEffect, AgeStays DEF fileVars, serverVars, Serving
<1>3. ASSUME NEW r \in Runs, Closes(r) PROVE AgeInv'
  BY <1>3, CloseEffect, AgeStays DEF serverVars, Serving
<1>4. ASSUME NEW r \in Runs, NEW bump \in Bumps, NEW e \in 1..(MaxTime + 1), Acquire(r, bump, e)
      PROVE  AgeInv'
  BY <1>4, AgeStays DEF Acquire, fileVars, serverVars, Serving
<1>5. CASE LockPersist BY <1>5, AgeStays DEF LockPersist, fileVars, serverVars, Serving
<1>6. CASE FileStep
  <2>1. UNCHANGED <<srv, owner, executed>> BY <1>6 DEF FileStep, serverVars
  <2>2. CASE activeFile' \in {activeFile, None} BY <2>1, <2>2, AgeStays DEF Serving
  <2>3. CASE op.step = "active" /\ activeFile' = Envelope(op.run)
    <3> DEFINE x == lease[op.run].id
    <3>1. activeFile'.id = x BY <2>3 DEF Envelope
    <3>2. Written(x) BY <1>6, <2>3 DEF FileStep, Written
    <3>3. x \in Identity BY <1>6, OpFields, LeaseFields DEF FileStep, LockInv, Open
    <3> HIDE DEF x
    <3>4. ASSUME NEW b \in Identity, Copy(b) PROVE Weak(x, b)
      <4>1. CASE Latest(b)
        BY <3>2, <3>3, <3>4, <4>1, WrittenEpoch, IdentityFields, BoundsAssumption
            DEF Weak, SameButControl
      <4>2. CASE ~ Latest(b)
        <5>1. b.attachment <= attachments /\ b.attachment # attachments
          BY <3>4, <4>2 DEF EpochInv, CopiesPersisted, Latest
        <5>2. x.attachment = attachments BY <3>2, <3>3, WrittenEpoch DEF Latest
        <5>3. b.attachment \in Nat /\ attachments \in Nat
          BY IdentityFields, BoundsAssumption DEF TypeOK
        <5> QED BY <5>1, <5>2, <5>3 DEF Weak
      <4> QED BY <4>1, <4>2
    <3>5. (executed # None => Weak(x, executed)) /\ (Serving => Weak(x, srv.req.id))
      BY <3>4, ServingCopy, ExecutedCopy
    <3> QED BY <2>1, <3>1, <3>5 DEF AgeInv, Weak, Serving
  <2> QED BY <1>6, <2>2, <2>3 DEF FileStep
<1>7. CASE PersistStep
  BY <1>5, <1>6, <1>7, PersistFiles DEF PersistStep
<1>8. CASE ServerStep BY <1>8, AgeServer
<1>9. CASE Tick \/ AgentCrash
  BY <1>9, AgeStays DEF Tick, AgentCrash, fileVars, serverVars, Serving
<1>10. CASE RuntimeCrash
  <2>1. ~ Serving' BY <1>10 DEF RuntimeCrash, Serving, IdleServer
  <2> QED BY <1>10, <2>1, AgeStays DEF RuntimeCrash, fileVars
<1> QED BY <1>1, <1>2, <1>3, <1>4, <1>7, <1>8, <1>9, <1>10 DEF StepKind

-----------------------------------------------------------------------------
(* Handing control to a human, and back.                                    *)

\* A human holds, or may still get, control at x: no identity of its attachment
\* and control epoch belongs to anybody else.
HumanAt(x, id) ==
  x.controlEpoch <= id.controlEpoch /\ (x.controlEpoch = id.controlEpoch => id.controller = "human")
\* x stays the human's until the control epoch moves on, even if a transition fails.
Firm(x) ==
  /\ (/\ activeFile # None /\ activeFile.id.attachment = x.attachment
      /\ activeFile.id.controlEpoch = x.controlEpoch) => activeFile.id.controller = "human"
  /\ \A r \in Runs: Open(r) /\ lease[r].id.attachment = x.attachment =>
       IF op = None THEN HumanAt(x, lease[r].id) ELSE op.kind = "transition" /\ HumanAt(x, op.undo)

\* The identities of a human who entered, or who is about to.
Entering(x) ==
  \/ executed # None /\ executed.controller = "human" /\ x = executed
  \/ \E r \in Runs: /\ pc[r].control = "enter" /\ runFile[r] # None
                    /\ runFile[r].id.controller = "human" /\ x = runFile[r].id
  \/ \E i \in 1..Len(queue): queue[i].kind = "enter" /\ x = queue[i].id
  \/ Serving /\ srv.req.kind = "enter" /\ x = srv.req.id

\* Only a claim hands control to a human, and enters when it is done.
ClaimInv ==
  op # None =>
    /\ lease[op.run].id.controller = "human" =>
         op.kind = "transition" /\ op.thread = "control" /\ pc[op.run].control = "claiming"
    /\ op.okPc = "enter" => lease[op.run].id.controller = "human"
    /\ op.failPc # "enter"
    /\ op.step = "run" => activeFile = Envelope(op.run)

\* Who holds what a viewer sends, and what the page saw.
ViewerInv ==
  /\ \A i \in 1..Len(queue): queue[i].kind \in ViewerKinds => queue[i].id.controller = "human"
  /\ srv.req # None /\ srv.req.kind \in ViewerKinds => srv.req.id.controller = "human"
  /\ executed # None => executed.controller \in {"agent", "human"}
  /\ (/\ executed # None /\ executed.controller = "human" /\ Serving
      /\ srv.req.id.attachment = executed.attachment
      /\ srv.req.id.controlEpoch = executed.controlEpoch) => srv.req.id.controller = "human"

\* Who entered, or is about to, stays in control until the epoch moves on.
FirmInv == \A x \in Identity: Entering(x) => Firm(x)

HumanInv == ClaimInv /\ ViewerInv /\ FirmInv

\* Nobody has entered at first.
LEMMA HumanInit == Init => AgeInv /\ HumanInv
BY DEF Init, AgeInv, HumanInv, ClaimInv, ViewerInv, FirmInv, Entering, Serving, IdleServer

\* Who enters was handed out an identity before.
LEMMA EnteringCopy ==
  ASSUME NEW x, Entering(x), ShapeInv
  PROVE  Copy(x)
BY ServingCopy DEF Entering, Copy

-----------------------------------------------------------------------------
(* Each step keeps who claims.                                              *)

\* The persist() under way goes on.
LEMMA ClaimStays ==
  ASSUME CoreInv, ClaimInv, op' = op, LeaseKept, \A q \in Runs: pc[q].control \in Changing => pc'[q].control = pc[q].control,
         op # None /\ op.step = "run" => activeFile' = activeFile
  PROVE  ClaimInv'
<1> USE DEF CoreInv, ShapeInv
<1>1. op # None => /\ op.run \in Runs /\ lease'[op.run].id = lease[op.run].id
                   /\ Envelope(op.run)' = Envelope(op.run)
  BY OpFields DEF LeaseKept, LockInv, Open, Envelope
<1> QED BY <1>1 DEF ClaimInv, Changing

\* The Runtime moves an Agent goroutine only by an answer.
LEMMA ServerReplies ==
  ASSUME ShapeInv, ServerStep
  PROVE  pc' = pc \/ \E req \in Request, result \in {"ok", "failed", "challenge", "unavailable", "expired", "mismatch", "stale", "limit"}:
                       /\ Reply(req, result)
                       /\ result = "challenge" => HumanControl
<1> USE DEF ShapeInv
<1>1. CASE \E reason \in {"unavailable", "expired", "mismatch", "stale", "limit"}: Refuse(reason)
  <2>1. queue # <<>> => Head(queue) \in Request BY DEF TypeOK
  <2> QED BY <1>1, <2>1 DEF Refuse
<1>2. CASE Admit BY <1>2 DEF Admit
<1>3. CASE srv.req \in Request /\ Revoke
  <2>1. ActiveVerdict(srv.req.id) \in {"ok", "unavailable", "expired", "mismatch", "stale"}
    BY DEF ActiveVerdict
  <2> QED BY <1>3, <2>1 DEF Revoke
<1>4. CASE srv.req \in Request /\ \E removed \in BOOLEAN: RevokeRemove(removed)
  BY <1>4 DEF RevokeRemove
<1>5. CASE srv.req \in Request /\ \E result \in {"ok", "failed", "challenge"}: ExecuteAct(result)
  BY <1>5 DEF ExecuteAct
<1>6. CASE srv.req \in Request /\ \E result \in {"ok", "failed"}: ExecuteClose(result) \/ ExecuteViewer(result)
  BY <1>6 DEF ExecuteClose, ExecuteViewer
<1>7. CASE srv.req \in Request /\ \E closed \in BOOLEAN: ChallengeClose(closed)
  BY <1>7 DEF ChallengeClose
<1>8. srv.pc # "idle" => srv.req \in Request BY DEF TypeOK, ServerInv
<1> QED BY <1>1, <1>2, <1>3, <1>4, <1>5, <1>6, <1>7, <1>8
        DEF ServerStep, Revoke, RevokeRemove, ExecuteAct, ExecuteClose, ExecuteViewer,
            ChallengeClose

\* Every step keeps ClaimInv.
LEMMA ClaimStep ==
  ASSUME CoreInv, CoreInv', ClaimInv, StepKind, ~ CleanupMayFail
  PROVE  ClaimInv'
<1> USE DEF CoreInv, ShapeInv
<1>1. CASE AgentQuiet BY <1>1, ClaimStays DEF AgentQuiet, fileVars, PcKept
<1>2. ASSUME NEW r \in Runs, Begins(r) PROVE ClaimInv'
  BY <1>2, BeginEffect DEF ClaimInv, IsRotation
<1>3. ASSUME NEW r \in Runs, Closes(r) PROVE ClaimInv'
  <2>1. LeaseFree(r) /\ Open(r) /\ op' = op BY <1>3, CloseEffect
  <2>2. op = None BY <2>1, OpFields, OneOpen DEF LeaseFree, LockInv
  <2> QED BY <2>1, <2>2 DEF ClaimInv
<1>4. ASSUME NEW r \in Runs, NEW bump \in Bumps, NEW e \in 1..(MaxTime + 1), Acquire(r, bump, e)
      PROVE  ClaimInv'
  BY <1>4, AcquireEffect DEF ClaimInv
<1>5. CASE LockPersist
  BY <1>5, LockPersistOp DEF ClaimInv, LockPersist
<1>6. CASE PersistWrite
  <2>1. UNCHANGED <<lease, pc>> /\ WriteStep /\ op.step \in {"state", "active"}
    BY <1>6 DEF PersistWrite
  <2>2. op'.step = "run" => activeFile' = Envelope(op.run)
    BY <1>6, <2>1, WriteOp, WriteStepCopies
  <2> QED BY <1>6, <2>1, <2>2, WriteOp DEF ClaimInv, Envelope
<1>7. CASE PersistDone BY <1>7 DEF PersistDone, ClaimInv
<1>8. ASSUME NEW replaced \in BOOLEAN, NEW kept \in BOOLEAN, PersistFail(replaced, kept)
      PROVE  ClaimInv'
  BY <1>8, FailEffect DEF ClaimInv
<1>9. CASE ServerStep
  <2>1. op # None /\ op.step = "run" => activeFile' = activeFile
    BY <1>9, ServerCopies DEF LockInv
  <2>2. \A q \in Runs: pc[q].control \in Changing => pc'[q].control = pc[q].control
    BY <1>9, ServerReplies, ReplyKeeps
  <2> QED BY <1>9, <2>1, <2>2, ServerCopies, ClaimStays DEF LeaseKept
<1>10. CASE Tick \/ RuntimeCrash
  BY <1>10, ClaimStays DEF Tick, RuntimeCrash, agentVars, fileVars, LeaseKept
<1>11. CASE AgentCrash BY <1>11 DEF AgentCrash, ClaimInv
<1> QED BY <1>1, <1>2, <1>3, <1>4, <1>5, <1>6, <1>7, <1>8, <1>9, <1>10, <1>11
       DEF StepKind, PersistStep

-----------------------------------------------------------------------------
(* Each step keeps a human in control.                                      *)

\* No step takes control from a human without a new control epoch.
LEMMA FirmSame ==
  ASSUME NEW x, Firm(x), op' = op, activeFile' \in {activeFile, None},
         \A q \in Runs: Open(q)' => Open(q) /\ lease'[q].id = lease[q].id
  PROVE  Firm(x)'
BY DEF Firm, HumanAt

LEMMA FirmStays ==
  ASSUME CoreInv, StepKind, ~ CleanupMayFail, NEW x \in Identity, Copy(x), Firm(x)
  PROVE  Firm(x)'
<1> USE DEF CoreInv, ShapeInv
<1>0. x.attachment \in Nat /\ x.controlEpoch \in Nat /\ x.attachment <= attachments /\ attachments \in Nat
  BY IdentityFields, BoundsAssumption DEF EpochInv, CopiesPersisted, TypeOK
<1>1. CASE AgentQuiet BY <1>1, FirmSame DEF AgentQuiet, LeaseKept, Open, fileVars
<1>2. ASSUME NEW r \in Runs, Begins(r) PROVE Firm(x)'
  <2>1. /\ op = None /\ op' # None /\ op'.undo = lease[r].id /\ Open(r) /\ LeaseChanges(r, lease'[r].id)
        /\ activeFile' = activeFile
        /\ \/ IsRotation(r, lease'[r].id)
           \/ op'.kind = "transition" /\ IsTransition(r, lease'[r].id)
    BY <1>2, BeginEffect DEF fileVars
  <2>2. \A q \in Runs: Open(q)' => q = r BY <2>1, OneOpen DEF LeaseChanges, Open
  <2>3. CASE IsRotation(r, lease'[r].id)
    <3>1. lease'[r].id.attachment # x.attachment BY <1>0, <2>3 DEF IsRotation
    <3> QED BY <2>1, <2>2, <3>1 DEF Firm
  <2>4. CASE op'.kind = "transition" /\ IsTransition(r, lease'[r].id)
    BY <2>1, <2>2, <2>4 DEF Firm, HumanAt, IsTransition, SameButControl
  <2> QED BY <2>1, <2>3, <2>4
<1>3. ASSUME NEW r \in Runs, Closes(r) PROVE Firm(x)'
  BY <1>3, CloseEffect, FirmSame DEF Open
<1>4. ASSUME NEW r \in Runs, NEW bump \in Bumps, NEW e \in 1..(MaxTime + 1), Acquire(r, bump, e)
      PROVE  Firm(x)'
  <2>1. /\ op = None /\ rootLock = None /\ activeFile' = activeFile
        /\ \A q \in Runs: q # r => lease'[q] = lease[q]
        /\ lease'[r].id.attachment = attachments + 1
    BY <1>4, AcquireEffect DEF fileVars
  <2>2. \A q \in Runs: Open(q)' => q = r BY <2>1, NoneIsNone DEF LockInv, Open
  <2>3. lease'[r].id.attachment # x.attachment BY <1>0, <2>1
  <2> QED BY <2>1, <2>2, <2>3 DEF Firm
<1>5. CASE LockPersist
  <2>1. /\ op # None /\ op' # None /\ op'.kind = op.kind /\ op'.undo = op.undo /\ UNCHANGED <<lease, activeFile>>
    BY <1>5, LockPersistOp DEF LockPersist, fileVars
  <2> QED BY <2>1 DEF Firm, Open
<1>6. ASSUME FileStep, PersistWrite \/ PersistDone \/ \E replaced, kept \in BOOLEAN: PersistFail(replaced, kept)
      PROVE  Firm(x)'
  <2>1. /\ op # None /\ op.run \in Runs /\ Open(op.run) /\ op.undo \in Identity /\ lease[op.run].id \in Identity
    BY <1>6, OpFields, LeaseFields DEF FileStep, LockInv, Open
  <2>2. /\ op.undo.controlEpoch \in Nat
        /\ op.kind = "transition" => SameButControl(op.undo, lease[op.run].id)
                                     /\ lease[op.run].id.controlEpoch = op.undo.controlEpoch + 1
    BY <2>1, IdentityFields, BoundsAssumption DEF LockInv
  <2>3. lease[op.run].id.attachment = x.attachment =>
          op.kind = "transition" /\ HumanAt(x, op.undo) /\ x.controlEpoch < lease[op.run].id.controlEpoch
    BY <1>0, <2>1, <2>2 DEF Firm, HumanAt
  <2>4. (/\ activeFile' # None /\ activeFile'.id.attachment = x.attachment
         /\ activeFile'.id.controlEpoch = x.controlEpoch) => activeFile'.id.controller = "human"
    <3>1. CASE activeFile' \in {activeFile, None} BY <3>1 DEF Firm
    <3>2. CASE activeFile' = Envelope(op.run)
      BY <1>0, <2>1, <2>3, <3>2, IdentityFields, BoundsAssumption DEF Envelope
    <3> QED BY <1>6, <3>1, <3>2 DEF FileStep
  <2>5. CASE PersistWrite
    BY <2>4, <2>5, WriteOp DEF PersistWrite, Firm, Open
  <2>6. CASE PersistDone
    <3>1. op' = None /\ lease' = lease BY <2>6 DEF PersistDone
    <3>2. \A q \in Runs: Open(q)' => q = op.run BY <2>1, <3>1, OneOpen DEF Open
    <3>3. lease[op.run].id.attachment = x.attachment => HumanAt(x, lease[op.run].id)
      BY <1>0, <2>1, <2>3, IdentityFields, BoundsAssumption DEF HumanAt
    <3> QED BY <2>4, <3>1, <3>2, <3>3 DEF Firm
  <2>7. ASSUME NEW replaced \in BOOLEAN, NEW kept \in BOOLEAN, PersistFail(replaced, kept)
        PROVE  Firm(x)'
    <3>1. PICK r \in Runs: r = op.run BY <2>1
    <3>2. op' = None /\ \A q \in Runs: Open(q)' => q = r
      BY <2>1, <2>7, <3>1, FailEffect, OneOpen DEF Open
    <3>3. CASE op.kind = "acquire" BY <2>4, <2>7, <3>1, <3>2, <3>3, FailEffect DEF Open, Firm
    <3>4. CASE op.kind = "rotate"
      BY <2>3, <2>4, <2>7, <3>1, <3>2, <3>4, FailEffect DEF Firm
    <3>5. CASE op.kind = "transition"
      <4>1. lease'[r].id = op.undo /\ op.undo.attachment = lease[r].id.attachment
        BY <2>2, <2>7, <3>1, <3>5, FailEffect DEF LeaseChanges, SameButControl
      <4> QED BY <2>3, <2>4, <3>1, <3>2, <4>1 DEF Firm
    <3> QED BY <2>1, <3>3, <3>4, <3>5, OpFields
  <2> QED BY <2>5, <2>6, <2>7, <1>6
<1>7. CASE PersistStep
  BY <1>5, <1>6, <1>7, PersistFiles DEF PersistStep
<1>8. CASE ServerStep BY <1>8, ServerCopies, FirmSame DEF ServerStep, Open
<1>9. CASE Tick \/ RuntimeCrash
  BY <1>9, FirmSame DEF Tick, RuntimeCrash, agentVars, fileVars, Open
<1>10. CASE AgentCrash BY <1>10 DEF AgentCrash, Firm, Open, fileVars
<1> QED BY <1>1, <1>2, <1>3, <1>4, <1>7, <1>8, <1>9, <1>10 DEF StepKind

-----------------------------------------------------------------------------
(* Who may enter.                                                           *)

\* The claim that ends enters next.
Claimed(x) ==
  /\ op # None /\ op.okPc = "enter" /\ x = lease[op.run].id /\ PersistDone

\* The same runs enter, the same or fewer requests wait, the page is left alone.
LEMMA EnteringStays ==
  ASSUME executed' = executed, Serving' => Serving /\ srv' = srv,
         queue' = queue,
         \A q \in Runs: pc'[q].control = "enter" => pc[q].control = "enter" /\ runFile'[q] \in {runFile[q], None},
         NEW x, Entering(x)'
  PROVE  Entering(x)
BY DEF Entering

\* Nobody enters by a step of a Run, nor by one of the Runtime.
LEMMA QuietEntering ==
  ASSUME TypeOK, AgentQuiet, NEW x, Entering(x)'
  PROVE  Entering(x)
<1>1. UNCHANGED <<runFile, srv, executed>> BY DEF AgentQuiet, fileVars, serverVars
<1>2. \A q \in Runs: pc'[q].control = "enter" => pc[q].control = "enter" BY DEF AgentQuiet, PcKept
<1>3. ASSUME NEW i \in 1..Len(queue'), queue'[i].kind = "enter", x = queue'[i].id PROVE Entering(x)
  <2>1. CASE queue' = queue BY <1>3, <2>1 DEF Entering
  <2>2. ASSUME NEW req \in Request, queue' = Append(queue, req), SentBy(req) PROVE Entering(x)
    <3>1. CASE queue'[i] = req BY <1>3, <2>2, <3>1 DEF SentBy, Entering, ViewerKinds
    <3>2. CASE queue'[i] # req BY <1>3, <2>2, <3>2, QueueCopies DEF Entering
    <3> QED BY <3>1, <3>2
  <2> QED BY <2>1, <2>2 DEF AgentQuiet
<1> QED BY <1>1, <1>2, <1>3 DEF Entering, Serving

\* The queue without its first request.
LEMMA QueueTail ==
  ASSUME TypeOK, queue # <<>>, queue' = Tail(queue)
  PROVE  /\ 1 \in 1..Len(queue) /\ Head(queue) = queue[1]
         /\ \A i \in 1..Len(queue'): i + 1 \in 1..Len(queue) /\ queue'[i] = queue[i + 1]
<1>1. Len(queue) > 0 /\ Head(queue) = queue[1] BY DEF TypeOK
<1>2. Len(queue') = Len(queue) - 1 /\ \A i \in 1..Len(queue'): queue'[i] = queue[i + 1]
  BY DEF TypeOK
<1> QED BY <1>1, <1>2

\* The Runtime takes the first request, or leaves the queue alone.
LEMMA ServerQueue ==
  ASSUME ShapeInv, ServerStep
  PROVE  \/ queue' = queue /\ srv'.req \in {srv.req, None}
         \/ /\ queue # <<>> /\ queue' = Tail(queue)
            /\ srv' = srv \/ srv'.req = Head(queue)
<1> USE DEF ShapeInv
<1>1. CASE Admit BY <1>1 DEF Admit
<1>2. CASE \E reason \in {"unavailable", "expired", "mismatch", "stale", "limit"}: Refuse(reason)
  BY <1>2 DEF Refuse, serverVars
<1>3. CASE queue' = queue /\ srv'.req \in {srv.req, None} BY <1>3
<1> QED BY <1>1, <1>2, <1>3
       DEF ServerStep, Revoke, RevokeRemove, ExecuteAct, ExecuteClose, ExecuteViewer,
           ChallengeClose, IdleServer, TypeOK

LEMMA ServerEntering ==
  ASSUME ShapeInv, ServerStep, NEW x, Entering(x)'
  PROVE  Entering(x)
<1> USE DEF ShapeInv
<1>1. runFile' = runFile BY ServerCopies
<1>2. \A q \in Runs: pc'[q].control = "enter" => pc[q].control = "enter"
  BY ServerReplies, ReplyKeeps
<1>3. ASSUME NEW i \in 1..Len(queue'), queue'[i].kind = "enter", x = queue'[i].id PROVE Entering(x)
  BY <1>3, ServerQueue, QueueTail DEF Entering
<1>4. ASSUME executed' # None, executed'.controller = "human", x = executed' PROVE Entering(x)
  <2>1. CASE executed' = executed BY <1>4, <2>1 DEF Entering
  <2>2. ASSUME NEW result \in {"ok", "failed", "challenge"}, ExecuteAct(result) PROVE Entering(x)
    BY <1>4, <2>1, <2>2 DEF ExecuteAct
  <2>3. ASSUME NEW result \in {"ok", "failed"}, ExecuteViewer(result), Serving PROVE Entering(x)
    BY <1>4, <2>1, <2>3 DEF ExecuteViewer, PageAllows, Entering
  <2> QED BY <2>1, <2>2, <2>3, ServerPage, AdmitServes
<1>5. ASSUME Serving', srv'.req.kind = "enter", x = srv'.req.id PROVE Entering(x)
  <2>1. CASE Admit
    <3>1. queue # <<>> /\ queue' = Tail(queue) /\ srv'.req = Head(queue) BY <2>1 DEF Admit, TypeOK
    <3> QED BY <1>5, <3>1, QueueTail DEF Entering
  <2>2. CASE Serving /\ srv' = srv BY <1>5, <2>2 DEF Entering
  <2> QED BY <1>5, <2>1, <2>2, ServerPage
<1> QED BY <1>1, <1>2, <1>3, <1>4, <1>5 DEF Entering

\* Only the end of a claim lets somebody enter.
LEMMA EnteringStep ==
  ASSUME CoreInv, ClaimInv, StepKind, ~ CleanupMayFail, NEW x, Entering(x)'
  PROVE  Entering(x) \/ Claimed(x)
<1> USE DEF CoreInv, ShapeInv
<1>1. CASE AgentQuiet BY <1>1, QuietEntering
<1>2. ASSUME NEW r \in Runs, Begins(r) PROVE Entering(x)
  BY <1>2, BeginEffect, EnteringStays DEF fileVars, serverVars, Serving
<1>3. ASSUME NEW r \in Runs, Closes(r) PROVE Entering(x)
  <2>1. \A q \in Runs: runFile'[q] \in {runFile[q], None} BY <1>3, CloseEffect DEF TypeOK
  <2> QED BY <1>3, <2>1, CloseEffect, EnteringStays DEF serverVars, Serving, PcKept
<1>4. ASSUME NEW r \in Runs, NEW bump \in Bumps, NEW e \in 1..(MaxTime + 1), Acquire(r, bump, e)
      PROVE  Entering(x)
  BY <1>4, EnteringStays DEF Acquire, fileVars, serverVars, Serving
<1>5. CASE LockPersist BY <1>5, EnteringStays DEF LockPersist, fileVars, serverVars, Serving
<1>6. CASE PersistWrite
  <2>1. runFile' = runFile BY <1>6, WriteStepCopies DEF PersistWrite
  <2> QED BY <1>6, <2>1, EnteringStays DEF PersistWrite, serverVars, Serving
<1>7. ASSUME NEW v, v = op.okPc \/ v = op.failPc, v # "enter" \/ Claimed(lease[op.run].id),
             pc' = [pc EXCEPT ![op.run][op.thread] = v], FileStep
      PROVE  Entering(x) \/ Claimed(x)
  <2>1. /\ op # None /\ op.run \in Runs /\ op.thread \in Threads /\ v \in PcsOf(op.thread)
        /\ pc \in PcSet
    BY <1>7, OpFields DEF FileStep, OpInv, TypeOK, PcSet
  <2>2. /\ pc'[op.run][op.thread] = v
        /\ \A q \in Runs: q # op.run \/ op.thread # "control" => pc'[q].control = pc[q].control
    BY <1>7, <2>1, PcUpdate DEF Threads
  <2>3. UNCHANGED <<queue, srv, executed>> BY <1>7 DEF FileStep, serverVars
  <2>4. \A q \in Runs: runFile'[q] = runFile[q] \/ (q = op.run /\ runFile'[q] = Envelope(op.run))
    BY <1>7, <2>1 DEF FileStep, TypeOK
  <2>5. ASSUME NEW r \in Runs, pc'[r].control = "enter", runFile'[r] # None,
               runFile'[r].id.controller = "human", x = runFile'[r].id
        PROVE  Entering(x) \/ Claimed(x)
    <3>1. CASE r = op.run /\ op.thread = "control"
      <4>1. v = "enter" /\ Claimed(lease[op.run].id) BY <1>7, <2>2, <2>5, <3>1
      <4>2. runFile'[r] = Envelope(op.run)
        BY <2>1, <3>1, <4>1, WriteStepCopies DEF Claimed, PersistDone, TypeOK
      <4> QED BY <2>5, <4>1, <4>2 DEF Claimed, Envelope
    <3>2. CASE ~ (r = op.run /\ op.thread = "control")
      <4>1. pc[r].control = "enter" BY <2>2, <2>5, <3>2
      <4>2. runFile'[r] = runFile[r]
        BY <2>1, <2>4, <2>5, <3>2 DEF ClaimInv, Envelope
      <4> QED BY <2>5, <4>1, <4>2 DEF Entering
    <3> QED BY <3>1, <3>2
  <2> QED BY <1>7, <2>3, <2>5 DEF Entering, Serving
<1>8. CASE PersistDone
  <2>1. op # None /\ pc' = [pc EXCEPT ![op.run][op.thread] = op.okPc] /\ FileStep
    BY <1>8, PersistFiles DEF PersistDone
  <2>2. op.okPc # "enter" \/ Claimed(lease[op.run].id) BY <1>8, <2>1 DEF Claimed
  <2> QED BY <1>7, <2>1, <2>2
<1>9. ASSUME NEW replaced \in BOOLEAN, NEW kept \in BOOLEAN, PersistFail(replaced, kept)
      PROVE  Entering(x) \/ Claimed(x)
  <2>1. op # None /\ pc' = [pc EXCEPT ![op.run][op.thread] = op.failPc] /\ FileStep
    BY <1>9, PersistFiles DEF PersistFail
  <2>2. op.failPc # "enter" BY <2>1 DEF ClaimInv
  <2> QED BY <1>7, <2>1, <2>2
<1>10. CASE ServerStep BY <1>10, ServerEntering
<1>11. CASE Tick BY <1>11, EnteringStays DEF Tick, agentVars, fileVars, serverVars, Serving
<1>12. CASE AgentCrash
  <2>1. \A q \in Runs: pc'[q].control # "enter" BY <1>12 DEF AgentCrash
  <2> QED BY <1>12, <2>1, EnteringStays DEF AgentCrash, serverVars, Serving
<1>13. CASE RuntimeCrash
  <2>1. /\ UNCHANGED <<executed, pc, runFile>> /\ ~ Serving' /\ queue' = <<>>
    BY <1>13 DEF RuntimeCrash, agentVars, fileVars, Serving, IdleServer
  <2> QED BY <2>1 DEF Entering
<1> QED BY <1>1, <1>2, <1>3, <1>4, <1>5, <1>6, <1>8, <1>9, <1>10, <1>11, <1>12, <1>13
       DEF StepKind, PersistStep

\* Every step keeps FirmInv.
LEMMA FirmStep ==
  ASSUME CoreInv, HumanInv, StepKind, ~ CleanupMayFail
  PROVE  FirmInv'
<1> USE DEF CoreInv, HumanInv
<1> SUFFICES ASSUME NEW x \in Identity, Entering(x)' PROVE Firm(x)'
  BY DEF FirmInv
<1>1. CASE Entering(x) BY <1>1, EnteringCopy, FirmStays DEF FirmInv
<1>2. CASE Claimed(x)
  <2>1. /\ op # None /\ op.step = "run" /\ op' = None /\ lease' = lease /\ x = lease[op.run].id
        /\ op.run \in Runs /\ Open(op.run)
        /\ x.controller = "human"
    BY <1>2, OpFields DEF Claimed, PersistDone, LockInv, ClaimInv, ShapeInv
  <2>2. activeFile' = activeFile /\ activeFile = Envelope(op.run)
    BY <1>2, <2>1, WriteStepCopies DEF Claimed, PersistDone, ClaimInv, ShapeInv
  <2>3. \A q \in Runs: Open(q)' => q = op.run BY <2>1, OneOpen DEF Open
  <2>4. HumanAt(x, x) BY <2>1, IdentityFields, BoundsAssumption DEF HumanAt
  <2> QED BY <2>1, <2>2, <2>3, <2>4 DEF Firm, Envelope
<1> QED BY <1>1, <1>2, EnteringStep

-----------------------------------------------------------------------------
(* What a viewer sends.                                                     *)

\* Every step keeps ViewerInv.
LEMMA ViewerStays ==
  ASSUME ViewerInv, executed' = executed, srv' = srv \/ (~ Serving' /\ srv'.req = None), queue' = queue
  PROVE  ViewerInv'
BY DEF ViewerInv, Serving

LEMMA ViewerServer ==
  ASSUME ShapeInv, HumanInv, ServerStep
  PROVE  ViewerInv'
<1> USE DEF ShapeInv, HumanInv
<1>1. \A i \in 1..Len(queue'): queue'[i].kind \in ViewerKinds => queue'[i].id.controller = "human"
  BY ServerQueue, QueueTail DEF ViewerInv
<1>2. srv'.req # None /\ srv'.req.kind \in ViewerKinds => srv'.req.id.controller = "human"
  BY ServerQueue, QueueTail DEF ViewerInv
<1>3. executed' # None => executed'.controller \in {"agent", "human"}
  <2>1. CASE executed' = executed BY <2>1 DEF ViewerInv
  <2>2. ASSUME NEW result \in {"ok", "failed", "challenge"}, ExecuteAct(result)
        PROVE  executed' # executed => executed'.controller = "agent"
    BY <2>2 DEF ExecuteAct
  <2>3. ASSUME NEW result \in {"ok", "failed"}, ExecuteViewer(result), srv.req # None
        PROVE  executed' # executed => executed'.controller = "human"
    BY <2>3 DEF ExecuteViewer, ViewerInv
  <2> QED BY <2>1, <2>2, <2>3, ServerPage, AdmitServes
<1>4. ASSUME executed' # None, executed'.controller = "human", Serving',
             srv'.req.id.attachment = executed'.attachment,
             srv'.req.id.controlEpoch = executed'.controlEpoch
      PROVE  srv'.req.id.controller = "human"
  <2>1. CASE Admit
    <3>1. activeFile # None /\ srv'.req.id = activeFile.id /\ executed' = executed
      BY <1>4, <2>1, AdmitServes
    <3>2. executed \in Identity /\ Entering(executed) BY <1>4, <3>1 DEF TypeOK, Entering
    <3> QED BY <1>4, <3>1, <3>2 DEF FirmInv, Firm
  <2>2. CASE Serving /\ srv' = srv /\ executed' = executed BY <1>4, <2>2 DEF ViewerInv
  <2> QED BY <1>4, <2>1, <2>2, ServerPage
<1> QED BY <1>1, <1>2, <1>3, <1>4 DEF ViewerInv

LEMMA ViewerStep ==
  ASSUME CoreInv, HumanInv, StepKind, ~ CleanupMayFail
  PROVE  ViewerInv'
<1> USE DEF CoreInv, ShapeInv, HumanInv
<1>1. CASE AgentQuiet
  <2>1. CASE queue' = queue BY <1>1, <2>1, ViewerStays DEF AgentQuiet, serverVars
  <2>2. ASSUME NEW req \in Request, queue' = Append(queue, req), SentBy(req) PROVE ViewerInv'
    <3>1. req.kind \in ViewerKinds => req.id.controller = "human" BY <2>2 DEF SentBy, ViewerKinds
    <3>2. \A i \in 1..Len(queue'): queue'[i].kind \in ViewerKinds => queue'[i].id.controller = "human"
      BY <2>2, <3>1, QueueCopies DEF ViewerInv
    <3> QED BY <1>1, <3>2 DEF AgentQuiet, serverVars, ViewerInv, Serving
  <2> QED BY <1>1, <2>1, <2>2 DEF AgentQuiet
<1>2. ASSUME NEW r \in Runs, Begins(r) PROVE ViewerInv'
  BY <1>2, BeginEffect, ViewerStays DEF serverVars
<1>3. ASSUME NEW r \in Runs, Closes(r) PROVE ViewerInv'
  BY <1>3, CloseEffect, ViewerStays DEF serverVars
<1>4. ASSUME NEW r \in Runs, NEW bump \in Bumps, NEW e \in 1..(MaxTime + 1), Acquire(r, bump, e)
      PROVE  ViewerInv'
  BY <1>4, ViewerStays DEF Acquire, serverVars
<1>5. CASE PersistStep
  BY <1>5, ViewerStays
      DEF PersistStep, LockPersist, PersistWrite, PersistDone, PersistFail, serverVars
<1>6. CASE ServerStep BY <1>6, ViewerServer
<1>7. CASE Tick \/ AgentCrash BY <1>7, ViewerStays DEF Tick, AgentCrash, serverVars
<1>8. CASE RuntimeCrash
  <2>1. executed' = executed /\ queue' = <<>> /\ ~ Serving' /\ srv'.req = None
    BY <1>8 DEF RuntimeCrash, Serving, IdleServer
  <2> QED BY <2>1 DEF ViewerInv
<1> QED BY <1>1, <1>2, <1>3, <1>4, <1>5, <1>6, <1>7, <1>8 DEF StepKind

-----------------------------------------------------------------------------
(* The theorem about the page.                                              *)

\* The invariant of this module.
OrderInv == CoreInv /\ AgeInv /\ HumanInv

LEMMA Order == ASSUME ~ CleanupMayFail PROVE Spec => []OrderInv
<1>1. Init => OrderInv BY InitShape, LockInit, EpochInit, HumanInit DEF OrderInv, CoreInv
<1>2. OrderInv /\ [Next]_vars => OrderInv'
  <2>1. CoreInv /\ [Next]_vars => CoreInv' /\ StepKind BY Steps, LockStep, EpochStep DEF CoreInv
  <2> QED BY <2>1, AgeStep, ClaimStep, ViewerStep, FirmStep DEF OrderInv, HumanInv
<1> QED BY <1>1, <1>2, PTL DEF Spec

\* No page operation is older than the one before it.
LEMMA PageInOrder ==
  ASSUME OrderInv, StepKind, executed # None, executed' # executed
  PROVE  NotOlder(executed', executed)
<1> USE DEF OrderInv, CoreInv, ShapeInv, HumanInv
<1>1. ServerStep
  <2>1. ~ AgentQuiet BY DEF AgentQuiet, serverVars
  <2>2. \A r \in Runs: ~ Begins(r) BY BeginEffect DEF serverVars
  <2>3. \A r \in Runs: ~ Closes(r) BY DEF Closes, LeaseClose, serverVars
  <2>4. \A r \in Runs, bump \in Bumps, e \in 1..(MaxTime + 1): ~ Acquire(r, bump, e)
    BY DEF Acquire, serverVars
  <2>5. ~ PersistStep
    BY DEF PersistStep, LockPersist, PersistWrite, PersistDone, PersistFail, serverVars
  <2>6. ~ (Tick \/ AgentCrash \/ RuntimeCrash) BY DEF Tick, AgentCrash, RuntimeCrash, serverVars
  <2> QED BY <2>1, <2>2, <2>3, <2>4, <2>5, <2>6 DEF StepKind
<1>2. /\ executed \in Identity /\ executed.controller \in {"agent", "human"}
  BY DEF TypeOK, ViewerInv
<1>3. /\ Serving /\ srv.req # None
      /\ \/ \E result \in {"ok", "failed", "challenge"}: ExecuteAct(result)
         \/ \E result \in {"ok", "failed"}: ExecuteViewer(result)
  BY <1>1, ServerPage, AdmitServes
<1> DEFINE x == srv.req.id
<1>4. x \in Identity BY <1>3, ServingCopy
<1>5. executed' = x BY <1>3 DEF ExecuteAct, ExecuteViewer
<1>6. Weak(x, executed) BY <1>3 DEF AgeInv
<1>7. ASSUME x.attachment = executed.attachment, x.controlEpoch = executed.controlEpoch
      PROVE  x.controller = executed.controller
  <2>1. CASE \E result \in {"ok", "failed", "challenge"}: ExecuteAct(result)
    <3>1. x.controller = "agent" BY <1>5, <2>1 DEF ExecuteAct
    <3>2. executed.controller # "human" BY <1>3, <1>7, <3>1 DEF ViewerInv
    <3> QED BY <1>2, <3>1, <3>2
  <2>2. CASE \E result \in {"ok", "failed"}: ExecuteViewer(result)
    <3>1. /\ srv.req.kind \in ViewerKinds /\ ViewerAllowed(srv.req) /\ PageAllows(srv.req)
      BY <2>2 DEF ExecuteViewer
    <3>2. CASE srv.req.kind # "enter" BY <3>1, <3>2 DEF PageAllows
    <3>3. CASE srv.req.kind = "enter"
      <4>1. /\ owner # None /\ owner.attachment = x.attachment /\ x.controlEpoch > owner.controlEpoch
        BY <3>1, <3>3 DEF ViewerAllowed, SameButControl
      <4>2. owner.controlEpoch >= executed.controlEpoch BY <1>7, <4>1 DEF AgeInv
      <4>3. owner \in Identity BY <4>1 DEF TypeOK
      <4> QED BY <1>2, <1>4, <1>7, <4>1, <4>2, <4>3, IdentityFields, BoundsAssumption
    <3> QED BY <3>2, <3>3
  <2> QED BY <1>3, <2>1, <2>2
<1> HIDE DEF x
<1> QED BY <1>2, <1>4, <1>5, <1>6, <1>7, WeakType DEF Weak, NotOlder

\* ExecutedInOrder: an operation that reaches the page is not older than the one
\* before it.  It belongs to the same or a later attachment, to the same or a later
\* control epoch of it, and within a control epoch to the same side: no request
\* prepared before a handover between the Agent and a human, or before a Rotate,
\* takes effect after one prepared later.
THEOREM PageOrder == ASSUME ~ CleanupMayFail PROVE Spec => ExecutedInOrder
<1>1. OrderInv /\ [Next]_vars => [executed # None => NotOlder(executed', executed)]_executed
  BY Steps, PageInOrder DEF OrderInv, CoreInv
<1> QED BY <1>1, Order, PTL DEF Spec, ExecutedInOrder
=============================================================================
