---------------------- MODULE BrowserLeaseCloseProofs -----------------------
(***************************************************************************)
(* For every value of the constants, if removing files works: a revoked    *)
(* identity is not executed, its closure stays in the index as long as its *)
(* lease could still be used, and the active file is that of the Run that  *)
(* holds the root lock. If moreover no human control is offered, the page  *)
(* of a closed attachment is torn down.                                    *)
(*                                                                         *)
(* A closure is granted to the identity in the active file; persist() may  *)
(* write the file again while the closure is being recorded. RevokeInv     *)
(* says why that does no harm: whatever a lease persists next is covered   *)
(* by the closure as well, or is under a later control epoch.              *)
(***************************************************************************)
EXTENDS BrowserLeaseOrderProofs

-----------------------------------------------------------------------------
(* Closures, and the leases they close.                                     *)

\* The index keeps the closure of hash until the lease it closes expires.
Covered(hash, expiresAt) ==
  \/ expiresAt <= now
  \/ \E entry \in revocations: entry.hash = hash /\ entry.expiresAt = expiresAt

\* The active file that carries the attachment of an open lease expires with it.
SameExpiry ==
  \A r \in Runs: Open(r) /\ activeFile # None /\ Latest(activeFile.id) =>
    activeFile.expiresAt = lease[r].expiresAt

\* The control epoch the next transition of r has at least.
Top(r) == lease[r].id.controlEpoch + Ahead
\* A closure that names the attachment of an open lease is behind that lease, or is
\* in force for whatever the lease persists next.
ClosureAhead(r, h) ==
  /\ h[1] = r /\ h[2] = lease[r].id.session /\ h[3] = lease[r].id.sessionEpoch
  /\ h[5] <= Top(r)
  /\ h[5] = Top(r) =>
       /\ Covered(h, lease[r].expiresAt)
       /\ (activeFile # None => Hash(activeFile.id) = h)

\* The revocation index, the active file and the request at the Engine.
RevokeInv ==
  /\ \A h \in everRevoked: h[4] <= attachments
  /\ SameExpiry
  /\ activeFile # None /\ Hash(activeFile.id) \in everRevoked =>
       Covered(Hash(activeFile.id), activeFile.expiresAt)
  /\ \A r \in Runs, h \in everRevoked: Open(r) /\ h[4] = attachments =>
       ClosureAhead(r, h)
  /\ Serving => Hash(srv.req.id) \notin everRevoked

\* Nothing is revoked at first.
LEMMA RevokeInit == Init => RevokeInv
BY DEF Init, RevokeInv, SameExpiry, Open, Serving, IdleServer

\* The hash of an identity leaves out who is in control.
LEMMA HashParts ==
  ASSUME NEW h \in Hashes, NEW a, h[1] = a.run, h[2] = a.session, h[3] = a.sessionEpoch,
         h[4] = a.attachment, h[5] = a.controlEpoch
  PROVE  h = Hash(a)
BY DEF Hashes, Hash

LEMMA HashFields ==
  ASSUME NEW a \in Identity
  PROVE  /\ Hash(a) \in Hashes
         /\ Hash(a)[1] = a.run /\ Hash(a)[2] = a.session /\ Hash(a)[3] = a.sessionEpoch
         /\ Hash(a)[4] = a.attachment /\ Hash(a)[5] = a.controlEpoch
BY IdentityFields DEF Hashes, Hash

LEMMA HashTypes ==
  ASSUME TypeOK, NEW h \in everRevoked
  PROVE  h \in Hashes /\ h[4] \in Nat /\ h[5] \in Nat
BY BoundsAssumption DEF TypeOK, Hashes

\* Nothing is revoked, the active file may go, the same lease stays open or closes.
LEMMA RevokeStays ==
  ASSUME RevokeInv, UNCHANGED <<revocations, everRevoked, attachments>>, now' = now,
         activeFile' \in {activeFile, None},
         op' = None <=> op = None,
         \A q \in Runs: Open(q)' => Open(q) /\ lease'[q].id = lease[q].id /\ lease'[q].expiresAt = lease[q].expiresAt,
         Serving' => Serving /\ srv' = srv
  PROVE  RevokeInv'
<1>1. \A h, e: Covered(h, e)' <=> Covered(h, e) BY DEF Covered
<1>2. SameExpiry' BY DEF RevokeInv, SameExpiry, Latest
<1>3. Ahead' = Ahead BY DEF Ahead
<1>4. ASSUME NEW r \in Runs, NEW h \in everRevoked, Open(r)', h[4] = attachments
      PROVE  ClosureAhead(r, h)'
  <2>1. ClosureAhead(r, h) BY <1>4 DEF RevokeInv
  <2> QED BY <1>1, <1>3, <1>4, <2>1 DEF ClosureAhead, Top
<1>5. /\ \A h \in everRevoked': h[4] <= attachments'
      /\ activeFile' # None /\ Hash(activeFile'.id) \in everRevoked' => Covered(Hash(activeFile.id), activeFile.expiresAt)'
      /\ Serving' => Hash(srv'.req.id) \notin everRevoked'
  BY <1>1 DEF RevokeInv
<1> QED BY <1>2, <1>4, <1>5 DEF RevokeInv

\* What is covered stays covered as time goes by.
LEMMA CoveredKept ==
  ASSUME NEW h, NEW e, Covered(h, e), revocations' = revocations, now \in Nat, now' \in Nat, now' >= now,
         e \in Nat
  PROVE  Covered(h, e)'
BY DEF Covered

\* The lease moves one epoch up, or to another attachment.
LEMMA BeginRevoke ==
  ASSUME CoreInv, RevokeInv, NEW r \in Runs, Begins(r)
  PROVE  RevokeInv'
<1> USE DEF CoreInv, ShapeInv
<1>1. /\ op = None /\ op' # None /\ Open(r) /\ LeaseChanges(r, lease'[r].id)
      /\ UNCHANGED <<activeFile, revocations, srv, everRevoked, now>>
      /\ IsRotation(r, lease'[r].id) \/ IsTransition(r, lease'[r].id)
  BY BeginEffect DEF fileVars, serverVars, envVars
<1>2. \A q \in Runs: Open(q)' => q = r BY <1>1, OneOpen DEF LeaseChanges, Open
<1>3. \A h, e: Covered(h, e)' <=> Covered(h, e) BY <1>1 DEF Covered
<1>4. attachments \in Nat /\ \A h \in everRevoked: h[4] \in Nat /\ h[5] \in Nat /\ h[4] <= attachments
  BY HashTypes, BoundsAssumption DEF TypeOK, RevokeInv
<1>5. activeFile # None => /\ activeFile.id.attachment \in Nat /\ activeFile.id.attachment <= attachments
  <2>1. activeFile # None => activeFile.id \in Identity /\ Copy(activeFile.id)
    BY DEF TypeOK, Lease, Copy
  <2> QED BY <2>1, IdentityFields, BoundsAssumption DEF EpochInv, CopiesPersisted
<1>6. lease[r].id.controlEpoch \in Nat
  BY <1>1, LeaseFields, IdentityFields, BoundsAssumption DEF Open
<1>7. CASE IsRotation(r, lease'[r].id)
  <2>1. attachments' = attachments + 1 /\ lease'[r].id.attachment = attachments'
    BY <1>7 DEF IsRotation
  <2>2. \A h \in everRevoked: h[4] <= attachments' /\ h[4] # attachments' BY <1>4, <2>1
  <2>3. activeFile # None => activeFile.id.attachment # attachments' BY <1>4, <1>5, <2>1
  <2> QED BY <1>1, <1>3, <2>2, <2>3 DEF RevokeInv, SameExpiry, Latest, Serving
<1>8. CASE IsTransition(r, lease'[r].id)
  <2>1. attachments' = attachments /\ SameButControl(lease'[r].id, lease[r].id)
    BY <1>8 DEF IsTransition
  <2>2. Top(r)' = Top(r) BY <1>1, <1>6, <1>8 DEF IsTransition, Top, Ahead
  <2>3. SameExpiry' BY <1>1, <1>2, <2>1 DEF RevokeInv, SameExpiry, Latest, LeaseChanges
  <2>4. ASSUME NEW q \in Runs, NEW h \in everRevoked, Open(q)', h[4] = attachments
        PROVE  ClosureAhead(q, h)'
    <3>1. q = r /\ ClosureAhead(r, h) BY <1>1, <1>2, <2>4 DEF RevokeInv
    <3> QED BY <1>1, <1>3, <2>1, <2>2, <3>1 DEF ClosureAhead, SameButControl, LeaseChanges
  <2> QED BY <1>1, <1>3, <2>1, <2>3, <2>4 DEF RevokeInv, Serving
<1> QED BY <1>1, <1>7, <1>8

\* No closure names a new attachment.
LEMMA AcquireRevoke ==
  ASSUME CoreInv, RevokeInv, NEW r \in Runs, NEW bump \in Bumps, NEW e \in 1..(MaxTime + 1), Acquire(r, bump, e)
  PROVE  RevokeInv'
<1> USE DEF CoreInv, ShapeInv
<1>1. /\ rootLock = None /\ attachments' = attachments + 1
      /\ \A q \in Runs: q # r => lease'[q] = lease[q]
      /\ UNCHANGED <<activeFile, revocations, srv, everRevoked, now>>
  BY AcquireEffect DEF fileVars, serverVars, envVars
<1>2. \A q \in Runs: Open(q)' => q = r BY <1>1, NoneIsNone DEF LockInv, Open
<1>3. \A h, x: Covered(h, x)' <=> Covered(h, x) BY <1>1 DEF Covered
<1>4. \A h \in everRevoked: h[4] <= attachments' /\ h[4] # attachments'
  <2>1. attachments \in Nat /\ \A h \in everRevoked: h[4] \in Nat /\ h[4] <= attachments
    <3>1. attachments \in Nat BY BoundsAssumption DEF TypeOK
    <3>2. \A h \in everRevoked: h[4] \in Nat BY HashTypes
    <3>3. \A h \in everRevoked: h[4] <= attachments BY DEF RevokeInv
    <3> QED BY <3>1, <3>2, <3>3
  <2> QED BY <1>1, <2>1
<1>5. activeFile # None => activeFile.id.attachment # attachments'
  <2>1. activeFile # None => activeFile.id \in Identity /\ Copy(activeFile.id)
    BY DEF TypeOK, Lease, Copy
  <2>2. attachments \in Nat BY BoundsAssumption DEF TypeOK
  <2> QED BY <1>1, <2>1, <2>2, IdentityFields, BoundsAssumption DEF EpochInv, CopiesPersisted
<1> QED BY <1>1, <1>3, <1>4, <1>5 DEF RevokeInv, SameExpiry, Latest, Serving

\* A file write, of a persist() that goes on, ends or is undone.
LEMMA FileRevoke ==
  ASSUME CoreInv, RevokeInv, FileStep,
         \A q \in Runs: Open(q)' => Open(q) /\ lease'[q].expiresAt = lease[q].expiresAt,
         \A r \in Runs: r = op.run /\ Open(r)' =>
           \/ lease'[r].id = lease[r].id
           \/ op' = None /\ op.kind = "transition" /\ lease'[r].id = op.undo
  PROVE  RevokeInv'
<1> USE DEF CoreInv, ShapeInv
<1>1. op # None /\ op.run \in Runs BY OpFields DEF FileStep
<1>2. PICK r \in Runs: r = op.run BY <1>1
<1> DEFINE x == lease[r].id
<1>3. /\ Open(r) /\ x \in Identity /\ x.run = r /\ x.attachment = attachments /\ x.controlEpoch \in Nat
      /\ lease[r].expiresAt \in Nat
  <2>1. Open(r) BY <1>1, <1>2 DEF LockInv
  <2>2. x \in Identity /\ lease[r].expiresAt \in 1..(MaxTime + 1) BY <2>1, LeaseFields DEF Open
  <2> QED BY <2>1, <2>2, IdentityFields, BoundsAssumption
         DEF EpochInv, SessionAhead, Latest, LockInv, Open
<1>4. /\ UNCHANGED <<revocations, everRevoked, attachments, now, srv>>
      /\ \A q \in Runs: Open(q)' => q = r
  BY <1>2, <1>3, OneOpen DEF FileStep, serverVars
<1>5. \A h, e: Covered(h, e)' <=> Covered(h, e) BY <1>4 DEF Covered
<1>6. activeFile' \in {activeFile, None} \/ (activeFile'.id = x /\ activeFile'.expiresAt = lease[r].expiresAt)
  BY <1>2 DEF FileStep, Envelope
<1> HIDE DEF x
<1>7. ASSUME NEW h \in everRevoked, h[4] = attachments
      PROVE  /\ h[1] = r /\ h[2] = x.session /\ h[3] = x.sessionEpoch /\ h[5] <= x.controlEpoch
             /\ h[5] = x.controlEpoch =>
                  /\ Covered(h, lease[r].expiresAt) /\ Hash(x) = h
                  /\ (activeFile' # None => Hash(activeFile'.id) = h)
  <2>1. ClosureAhead(r, h) /\ Top(r) = x.controlEpoch
    BY <1>1, <1>3, <1>7 DEF RevokeInv, Top, Ahead, x
  <2>2. h[5] = x.controlEpoch => Hash(x) = h
    BY <1>3, <1>7, <2>1, HashTypes, HashParts DEF ClosureAhead, x
  <2> QED BY <1>6, <2>1, <2>2 DEF ClosureAhead, x
<1>8. activeFile' # None /\ activeFile'.id.attachment = attachments => activeFile'.expiresAt = lease[r].expiresAt
  BY <1>3, <1>6 DEF RevokeInv, SameExpiry, Latest
<1>9. activeFile' # None /\ Hash(activeFile'.id) \in everRevoked => Covered(Hash(activeFile'.id), activeFile'.expiresAt)
  <2>1. CASE activeFile' \in {activeFile, None} BY <2>1 DEF RevokeInv
  <2>2. CASE activeFile'.id = x /\ activeFile'.expiresAt = lease[r].expiresAt
    BY <1>3, <1>7, <2>2, HashFields
  <2> QED BY <1>6, <2>1, <2>2
<1>10. SameExpiry' BY <1>4, <1>8 DEF SameExpiry, Latest
<1>11. ASSUME NEW h \in everRevoked, Open(r)', h[4] = attachments PROVE ClosureAhead(r, h)'
  <2>1. CASE lease'[r].id = x
    <3>1. Top(r)' = x.controlEpoch \/ Top(r)' = x.controlEpoch + 1 BY <1>3, <2>1 DEF Top, Ahead
    <3>2. h[5] = Top(r)' => h[5] = x.controlEpoch
      BY <1>3, <1>7, <1>11, <3>1
    <3>3. h[5] <= Top(r)' BY <1>3, <1>7, <1>11, <3>1, HashTypes
    <3> QED BY <1>2, <1>5, <1>7, <1>11, <2>1, <3>2, <3>3 DEF ClosureAhead
  <2>2. CASE op' = None /\ op.kind = "transition" /\ lease'[r].id = op.undo
    <3>1. SameButControl(op.undo, x) /\ x.controlEpoch = op.undo.controlEpoch + 1
      BY <1>1, <1>2, <2>2 DEF LockInv, x
    <3>2. Top(r)' = x.controlEpoch BY <2>2, <3>1 DEF Top, Ahead
    <3> QED BY <1>2, <1>5, <1>7, <1>11, <2>2, <3>1, <3>2 DEF ClosureAhead, SameButControl
  <2> QED BY <1>2, <1>11, <2>1, <2>2 DEF x
<1>12. Serving' => Hash(srv'.req.id) \notin everRevoked' BY <1>4 DEF RevokeInv, Serving
<1> QED BY <1>4, <1>5, <1>9, <1>10, <1>11, <1>12 DEF RevokeInv
-----------------------------------------------------------------------------
(* What the Runtime does.                                                   *)

\* A closure is granted to the identity in the active file, which has none yet,
\* and covers it.
LEMMA RevokeGrants ==
  ASSUME CoreInv, RevokeInv, Revoke, everRevoked' # everRevoked
  PROVE  /\ activeFile # None /\ activeFile.id \in Identity /\ ~ Expired(activeFile)
         /\ everRevoked' = everRevoked \union {Hash(activeFile.id)}
         /\ ~ IsRevoked(activeFile.id)
         /\ Covered(Hash(activeFile.id), activeFile.expiresAt)'
<1> USE DEF CoreInv, ShapeInv
<1> DEFINE id == srv.req.id
<1>1. /\ ~ IsRevoked(id) /\ ActiveVerdict(id) = "ok"
      /\ revocations' \in WithRevocation(id, activeFile.expiresAt)
      /\ everRevoked' = everRevoked \union {Hash(id)} /\ now' = now
      /\ UNCHANGED activeFile
  BY DEF Revoke
<1>2. activeFile # None /\ ~ Expired(activeFile) BY <1>1 DEF ActiveVerdict
<1>3. SameActiveAttachment(activeFile.id, id) BY <1>1, <1>2 DEF ActiveVerdict, SameActiveAttachment
<1>4. Hash(id) = Hash(activeFile.id) BY <1>3 DEF Hash, SameActiveAttachment, SameButControl
<1>5. Closure(id, activeFile.expiresAt) \in revocations' BY <1>1 DEF WithRevocation
<1>6. Covered(Hash(activeFile.id), activeFile.expiresAt)'
  BY <1>1, <1>4, <1>5 DEF Covered, Closure
<1>7. activeFile.id \in Identity BY <1>2 DEF TypeOK, Lease
<1> HIDE DEF id
<1> QED BY <1>1, <1>2, <1>4, <1>6, <1>7 DEF IsRevoked

\* What is covered and has not expired is found in the index.
LEMMA CoveredRevoked ==
  ASSUME NEW a, NEW e, Covered(Hash(a), e), ~ (e <= now)
  PROVE  IsRevoked(a)
BY DEF Covered, IsRevoked, Retained, Expired

\* Granting a closure, and the other steps of the Runtime.
LEMMA RevokeRevoke ==
  ASSUME CoreInv, RevokeInv, Revoke
  PROVE  RevokeInv'
<1> USE DEF CoreInv, ShapeInv
<1>1. /\ UNCHANGED <<lease, op, attachments, activeFile, now>> /\ ~ Serving'
  <2>1. srv.pc \in {"revoke", "challengeRevoke"} /\ UNCHANGED <<lease, op, attachments, activeFile, now>>
    BY DEF Revoke, serverFrame
  <2>2. \/ srv' = IdleServer
        \/ srv' = [srv EXCEPT !.pc = IF srv.pc = "revoke" THEN "execute" ELSE "challengeClose"]
        \/ srv' = [srv EXCEPT !.pc = IF srv.pc = "revoke" THEN "remove" ELSE "challengeRemove"]
    BY DEF Revoke
  <2>3. srv \in [pc: ServerPcs, req: Request \union {None}] BY DEF TypeOK
  <2> QED BY <2>1, <2>2, <2>3 DEF Serving, IdleServer, ServerInv
<1>2. CASE everRevoked' = everRevoked /\ revocations' = revocations
  BY <1>1, <1>2, RevokeStays DEF Open
<1>3. CASE everRevoked' # everRevoked
  <2> DEFINE a == activeFile.id
             new == Hash(a)
  <2>1. /\ activeFile # None /\ a \in Identity /\ ~ Expired(activeFile)
        /\ everRevoked' = everRevoked \union {new} /\ ~ IsRevoked(a)
        /\ Covered(new, activeFile.expiresAt)'
    BY <1>3, RevokeGrants
  <2>2. /\ new[1] = a.run /\ new[2] = a.session /\ new[3] = a.sessionEpoch
        /\ new[4] = a.attachment /\ new[5] = a.controlEpoch
    BY <2>1, HashFields
  <2>3. Copy(a) BY <2>1 DEF Copy
  <2>4. a.attachment <= attachments BY <2>1, <2>3 DEF EpochInv, CopiesPersisted
  <2>5. ASSUME NEW r \in Runs, NEW h \in everRevoked \union {new}, Open(r), h[4] = attachments
        PROVE  ClosureAhead(r, h)'
    <3>1. CASE h = new
      <4>1. Latest(a) BY <2>2, <2>5, <3>1 DEF Latest
      <4>2. SameButControl(a, lease[r].id) /\ a.controlEpoch <= Top(r)
        BY <2>1, <2>3, <2>5, <4>1 DEF EpochInv, CopiesBehind, Top
      <4>3. activeFile.expiresAt = lease[r].expiresAt BY <2>1, <2>5, <4>1 DEF RevokeInv, SameExpiry
      <4>4. lease[r].id.run = r BY <2>5 DEF LockInv, Open
      <4>5. Top(r)' = Top(r) BY <1>1 DEF Top, Ahead
      <4> QED BY <1>1, <2>1, <2>2, <3>1, <4>2, <4>3, <4>4, <4>5 DEF ClosureAhead, SameButControl
    <3>2. CASE h \in everRevoked /\ h # new
      <4>1. ClosureAhead(r, h) BY <2>5, <3>2 DEF RevokeInv
      <4>2. h[5] # Top(r) BY <2>1, <3>2, <4>1 DEF ClosureAhead
      <4>3. Top(r)' = Top(r) BY <1>1 DEF Top, Ahead
      <4> QED BY <1>1, <4>1, <4>2, <4>3 DEF ClosureAhead
    <3> QED BY <2>5, <3>1, <3>2
  <2>6. SameExpiry' BY <1>1 DEF RevokeInv, SameExpiry, Latest, Open
  <2>7. \A h \in everRevoked': h[4] <= attachments' BY <1>1, <2>1, <2>2, <2>4 DEF RevokeInv
  <2>8. Covered(Hash(activeFile.id), activeFile.expiresAt)' BY <1>1, <2>1
  <2> HIDE DEF a, new
  <2> QED BY <1>1, <2>1, <2>5, <2>6, <2>7, <2>8 DEF RevokeInv, Open
<1>4. everRevoked' = everRevoked => revocations' = revocations \/ Hash(srv.req.id) \in everRevoked
  BY DEF Revoke
<1>5. CASE everRevoked' = everRevoked /\ revocations' # revocations
  \* Granted a second time: impossible while the first closure covers it.
  <2>1. /\ ~ IsRevoked(srv.req.id) /\ ActiveVerdict(srv.req.id) = "ok" /\ Hash(srv.req.id) \in everRevoked
    BY <1>4, <1>5 DEF Revoke
  <2>2. activeFile # None /\ ~ Expired(activeFile) BY <2>1 DEF ActiveVerdict
  <2>3. Hash(activeFile.id) = Hash(srv.req.id)
    BY <2>1, <2>2 DEF ActiveVerdict, SameButControl, Hash
  <2>4. Covered(Hash(srv.req.id), activeFile.expiresAt) BY <2>1, <2>2, <2>3 DEF RevokeInv
  <2> QED BY <2>1, <2>2, <2>4, CoveredRevoked DEF Expired
<1> QED BY <1>2, <1>3, <1>5

LEMMA RevokeServer ==
  ASSUME CoreInv, RevokeInv, ServerStep
  PROVE  RevokeInv'
<1> USE DEF CoreInv, ShapeInv
<1>1. CASE Revoke BY <1>1, RevokeRevoke
<1>2. CASE ~ Revoke
  <2>1. UNCHANGED <<revocations, everRevoked, now, lease, op, attachments>> /\ activeFile' \in {activeFile, None}
    BY <1>2, ServerCopies
        DEF ServerStep, Admit, Refuse, RevokeRemove, ExecuteAct, ExecuteClose, ExecuteViewer,
            ChallengeClose, serverVars
  <2>2. CASE Serving' => Serving /\ srv' = srv
    BY <2>1, <2>2, RevokeStays DEF Open
  <2>3. CASE Admit /\ Serving'
    <3>1. /\ activeFile # None /\ srv'.req.id = activeFile.id /\ activeFile' = activeFile
          /\ ~ IsRevoked(activeFile.id) /\ ~ Expired(activeFile)
      BY <2>3, AdmitServes
    <3>2. Hash(activeFile.id) \notin everRevoked
      BY <3>1, CoveredRevoked DEF RevokeInv, Expired
    <3>3. \A h, e: Covered(h, e)' <=> Covered(h, e) BY <2>1 DEF Covered
    <3>4. \A r \in Runs, h \in everRevoked: Open(r)' /\ h[4] = attachments => ClosureAhead(r, h)'
      BY <2>1, <3>1, <3>3 DEF RevokeInv, ClosureAhead, Top, Ahead, Open
    <3>5. SameExpiry' BY <2>1, <3>1 DEF RevokeInv, SameExpiry, Latest, Open
    <3> QED BY <2>1, <3>1, <3>2, <3>3, <3>4, <3>5 DEF RevokeInv
  <2> QED BY <2>2, <2>3, ServerPage
<1> QED BY <1>1, <1>2

\* Every step keeps RevokeInv.
LEMMA RevokeStep ==
  ASSUME CoreInv, RevokeInv, StepKind, ~ CleanupMayFail
  PROVE  RevokeInv'
<1> USE DEF CoreInv, ShapeInv
<1>1. CASE AgentQuiet
  BY <1>1, RevokeStays DEF AgentQuiet, LeaseKept, Open, fileVars, serverVars, envVars, Serving
<1>2. ASSUME NEW r \in Runs, Begins(r) PROVE RevokeInv' BY <1>2, BeginRevoke
<1>3. ASSUME NEW r \in Runs, Closes(r) PROVE RevokeInv'
  BY <1>3, CloseEffect, RevokeStays DEF Open, serverVars, envVars, Serving
<1>4. ASSUME NEW r \in Runs, NEW bump \in Bumps, NEW e \in 1..(MaxTime + 1), Acquire(r, bump, e)
      PROVE  RevokeInv'
  BY <1>4, AcquireRevoke
<1>5. CASE LockPersist
  BY <1>5, LockPersistOp, RevokeStays DEF LockPersist, fileVars, serverVars, envVars, Open, Serving
<1>6. CASE PersistWrite
  BY <1>6, PersistFiles, WriteOp, FileRevoke DEF PersistWrite, Open
<1>7. CASE PersistDone
  BY <1>7, PersistFiles, FileRevoke DEF PersistDone, Open
<1>8. ASSUME NEW replaced \in BOOLEAN, NEW kept \in BOOLEAN, PersistFail(replaced, kept)
      PROVE  RevokeInv'
  <2>1. FileStep /\ op # None /\ op.run \in Runs /\ Open(op.run)
    BY <1>8, PersistFiles, OpFields DEF FileStep, LockInv
  <2>2. \A q \in Runs: Open(q)' => Open(q) /\ lease'[q].expiresAt = lease[q].expiresAt
    BY <1>8, <2>1, FailEffect DEF LeaseChanges, Open
  <2>3. \A r \in Runs: r = op.run /\ Open(r)' =>
           \/ lease'[r].id = lease[r].id
           \/ op' = None /\ op.kind = "transition" /\ lease'[r].id = op.undo
    BY <1>8, FailEffect DEF LeaseChanges, Open
  <2> QED BY <2>1, <2>2, <2>3, FileRevoke
<1>9. CASE ServerStep BY <1>9, RevokeServer
<1>10. CASE Tick
  <2>1. UNCHANGED <<agentVars, fileVars, serverVars>> /\ now' = now + 1 BY <1>10 DEF Tick
  <2>2. now \in Nat BY BoundsAssumption DEF TypeOK
  <2>3. \A h: \A e \in Nat: Covered(h, e) => Covered(h, e)'
    BY <2>1, <2>2 DEF Covered, serverVars
  <2>4. \A r \in Runs, h \in everRevoked: Open(r) /\ h[4] = attachments => ClosureAhead(r, h)'
    <3>1. \A r \in Runs: Open(r) => lease[r].expiresAt \in Nat
      BY LeaseFields, BoundsAssumption DEF Open
    <3> QED BY <2>1, <2>3, <3>1
           DEF RevokeInv, ClosureAhead, Top, Ahead, agentVars, fileVars, serverVars
  <2>5. activeFile # None => activeFile.expiresAt \in Nat BY BoundsAssumption DEF TypeOK, Lease
  <2> QED BY <2>1, <2>3, <2>4, <2>5
         DEF RevokeInv, SameExpiry, Latest, Open, Serving, agentVars, fileVars, serverVars
<1>11. CASE AgentCrash
  <2>1. /\ UNCHANGED <<fileVars, serverVars, attachments, now>> /\ \A q \in Runs: ~ Open(q)'
    BY <1>11 DEF AgentCrash, Open
  <2> QED BY <2>1 DEF RevokeInv, SameExpiry, Serving, fileVars, serverVars, Covered
<1>12. CASE RuntimeCrash
  <2>1. ~ Serving' BY <1>12 DEF RuntimeCrash, Serving, IdleServer
  <2> QED BY <1>12, <2>1, RevokeStays DEF RuntimeCrash, agentVars, fileVars, Open
<1> QED BY <1>1, <1>2, <1>3, <1>4, <1>5, <1>6, <1>7, <1>8, <1>9, <1>10, <1>11, <1>12
       DEF StepKind, PersistStep

\* The revocation index, in every state.
LEMMA Revocation == ASSUME ~ CleanupMayFail PROVE Spec => [](CoreInv /\ RevokeInv)
<1>1. Init => CoreInv /\ RevokeInv BY InitShape, LockInit, EpochInit, RevokeInit DEF CoreInv
<1>2. CoreInv /\ RevokeInv /\ [Next]_vars => (CoreInv /\ RevokeInv)'
  <2>1. CoreInv /\ [Next]_vars => CoreInv' /\ StepKind BY Steps, LockStep, EpochStep DEF CoreInv
  <2> QED BY <2>1, RevokeStep
<1> QED BY <1>1, <1>2, PTL DEF Spec

\* RevokedNotExecuted: what the Engine is about to execute for an Agent or a viewer
\* is never under an identity whose closure was granted before, not even when
\* persist() has written the lease file again since.
THEOREM RevokedStayOut == ASSUME ~ CleanupMayFail PROVE Spec => []RevokedNotExecuted
<1>1. RevokeInv => RevokedNotExecuted BY DEF RevokeInv, RevokedNotExecuted, Serving
<1> QED BY <1>1, Revocation, PTL

\* ClosureOutlivesLease: as long as the lease in the active file has not expired, a
\* closure granted to its identity is found in the index, however full the index
\* is and whatever was pruned from it.
THEOREM ClosureKept == ASSUME ~ CleanupMayFail PROVE Spec => []ClosureOutlivesLease
<1>1. RevokeInv => ClosureOutlivesLease
  BY CoveredRevoked DEF RevokeInv, ClosureOutlivesLease, Expired
<1> QED BY <1>1, Revocation, PTL

-----------------------------------------------------------------------------
(* The active file is that of the Run that holds the root lock.             *)

\* But while it is being acquired, the open lease is the active one or there is none.
RunInv ==
  \A r \in Runs: Open(r) /\ activeFile # None /\ ~ (op # None /\ op.kind = "acquire") =>
    activeFile.id.run = r

\* A step that persists nothing.
LEMMA RunStays ==
  ASSUME RunInv, op' = op \/ (op = None /\ op' # None), activeFile' \in {activeFile, None},
         \A q \in Runs: Open(q)' => Open(q)
  PROVE  RunInv'
BY DEF RunInv

\* Every step keeps RunInv.
LEMMA RunOwner ==
  ASSUME OrderInv, RunInv, StepKind, ~ CleanupMayFail
  PROVE  RunInv'
<1> USE DEF OrderInv, CoreInv, ShapeInv
<1>1. CASE AgentQuiet BY <1>1, RunStays DEF AgentQuiet, LeaseKept, Open, fileVars
<1>2. ASSUME NEW r \in Runs, Begins(r) PROVE RunInv'
  BY <1>2, BeginEffect, RunStays DEF LeaseChanges, Open, fileVars
<1>3. ASSUME NEW r \in Runs, Closes(r) PROVE RunInv'
  BY <1>3, CloseEffect, RunStays DEF Open
<1>4. ASSUME NEW r \in Runs, NEW bump \in Bumps, NEW e \in 1..(MaxTime + 1), Acquire(r, bump, e)
      PROVE  RunInv'
  BY <1>4, AcquireEffect DEF RunInv
<1>5. CASE LockPersist
  BY <1>5, LockPersistOp DEF LockPersist, RunInv, Open, fileVars
<1>6. CASE PersistWrite
  <2>1. FileStep /\ op # None /\ op' # None /\ op'.kind = op.kind /\ lease' = lease
    BY <1>6, PersistFiles, WriteOp DEF PersistWrite
  <2>2. op.run \in Runs /\ Open(op.run) BY <2>1, SessionGrows
  <2>3. activeFile' \in {activeFile, None} \/ activeFile'.id.run = op.run
    BY <2>1, <2>2 DEF FileStep, Envelope, LockInv, Open
  <2> QED BY <2>1, <2>2, <2>3, OneOpen DEF RunInv, Open
<1>7. CASE PersistDone
  <2>1. /\ op.step = "run" /\ op # None /\ lease' = lease /\ activeFile' = activeFile
    BY <1>7, WriteStepCopies DEF PersistDone
  <2>2. activeFile.id.run = op.run /\ op.run \in Runs /\ Open(op.run)
    BY <2>1, OpFields DEF HumanInv, ClaimInv, Envelope, LockInv, Open
  <2> QED BY <2>1, <2>2, OneOpen DEF RunInv, Open
<1>8. ASSUME NEW replaced \in BOOLEAN, NEW kept \in BOOLEAN, PersistFail(replaced, kept)
      PROVE  RunInv'
  <2>1. FileStep /\ op # None /\ op' = None BY <1>8, PersistFiles, FailEffect
  <2>2. op.run \in Runs /\ Open(op.run) BY <2>1, SessionGrows
  <2>3. PICK r \in Runs: r = op.run BY <2>2
  <2>4. \A q \in Runs: Open(q)' => q = r /\ op.kind # "acquire"
    BY <1>8, <2>2, <2>3, FailEffect, OneOpen DEF Open
  <2>5. activeFile' \in {activeFile, None} \/ activeFile'.id.run = r
    BY <2>1, <2>2, <2>3 DEF FileStep, Envelope, LockInv, Open
  <2> QED BY <2>1, <2>2, <2>3, <2>4, <2>5 DEF RunInv
<1>9. CASE ServerStep BY <1>9, ServerCopies, RunStays DEF Open
<1>10. CASE Tick \/ RuntimeCrash
  BY <1>10, RunStays DEF Tick, RuntimeCrash, agentVars, fileVars, Open
<1>11. CASE AgentCrash BY <1>11 DEF AgentCrash, RunInv, Open
<1> QED BY <1>1, <1>2, <1>3, <1>4, <1>5, <1>6, <1>7, <1>8, <1>9, <1>10, <1>11
       DEF StepKind, PersistStep

\* ActiveLeaseOfHolder: while a Run that holds the root lock uses the browser, the
\* active file is its own or is gone: no file of an earlier Run survives its Close
\* or comes back.
THEOREM HolderIsActive == ASSUME ~ CleanupMayFail PROVE Spec => []ActiveLeaseOfHolder
<1>1. Init => RunInv BY DEF Init, RunInv, Open
<1>2. OrderInv /\ RunInv /\ [Next]_vars => RunInv'
  BY Steps, RunOwner DEF OrderInv, CoreInv
<1>3. OrderInv /\ RunInv => ActiveLeaseOfHolder
  <2> SUFFICES ASSUME OrderInv, RunInv, rootLock # None, pc[rootLock].main \in Driving, activeFile # None
               PROVE  activeFile.id.run = rootLock
    BY DEF ActiveLeaseOfHolder
  <2>1. rootLock \in Runs /\ Open(rootLock) BY DEF OrderInv, CoreInv, ShapeInv, TypeOK, LockInv
  <2>2. ~ (op # None /\ op.kind = "acquire")
    BY <2>1, OpFields, OneOpen DEF OrderInv, CoreInv, ShapeInv, OpInv, LockInv, Driving
  <2> QED BY <2>1, <2>2 DEF RunInv
<1> QED BY <1>1, <1>2, <1>3, Order, PTL DEF Spec

-----------------------------------------------------------------------------
(* Without human control.                                                   *)

\* Without human control an attachment has one identity for all its life.
AgentInv ==
  /\ \A r \in Runs: pc[r].tool = "idle" /\ (lease[r] # None => lease[r].id.controller = "agent")
  /\ op # None => op.kind # "transition" /\ op.thread = "main"
  /\ \A a, b \in Identity: Copy(a) /\ Copy(b) /\ a.attachment = b.attachment => a = b
  /\ \A a \in Identity, r \in Runs: Copy(a) /\ Open(r) /\ Latest(a) => a = lease[r].id
  /\ \A a \in Identity, h \in everRevoked: Copy(a) /\ a.attachment = h[4] => h = Hash(a)
  /\ \A r \in Runs, h \in everRevoked: Open(r) /\ h[4] = attachments => h = Hash(lease[r].id)

\* Nothing has been handed out at first.
LEMMA AgentInit == Init => AgentInv
<1>1. Init => (\A a: ~ Copy(a)) BY DEF Init, Copy, IdleServer
<1> QED BY <1>1 DEF Init, AgentInv, Open

\* Fewer copies, the same lease.
LEMMA AgentStays ==
  ASSUME AgentInv, op' = op, UNCHANGED <<attachments, everRevoked>>,
         \A q \in Runs: pc'[q].tool = "idle",
         \A q \in Runs: lease'[q] # None => lease[q] # None /\ lease'[q].id = lease[q].id,
         \A q \in Runs: Open(q)' => Open(q),
         \A a: Copy(a)' => Copy(a)
  PROVE  AgentInv'
BY DEF AgentInv, Latest, Open

\* Acquire and Rotate take an attachment no copy and no closure names.
LEMMA NewAttachment ==
  ASSUME CoreInv, RevokeInv, AgentInv, NEW r \in Runs, op' # None, op'.kind # "transition", op'.thread = "main",
         attachments' = attachments + 1, everRevoked' = everRevoked,
         \A q \in Runs: pc'[q].tool = "idle",
         \A q \in Runs: q # r => lease'[q] = lease[q],
         lease'[r].id.controller = "agent",
         \A q \in Runs: Open(q)' => q = r,
         \A a: Copy(a)' => Copy(a)
  PROVE  AgentInv'
<1> USE DEF CoreInv, ShapeInv
<1>1. attachments \in Nat BY BoundsAssumption DEF TypeOK
<1>2. \A a \in Identity: Copy(a) => a.attachment # attachments'
  BY <1>1, IdentityFields, BoundsAssumption DEF EpochInv, CopiesPersisted
<1>3. \A h \in everRevoked: h[4] # attachments' BY <1>1, HashTypes DEF RevokeInv
<1> QED BY <1>2, <1>3 DEF AgentInv, Latest

\* persist() writes the one identity of the attachment.
LEMMA AgentFile ==
  ASSUME CoreInv, AgentInv, FileStep, op' = None \/ (op' # None /\ op'.kind = op.kind /\ op'.thread = op.thread),
         \A q \in Runs: pc'[q].tool = "idle",
         \A q \in Runs: lease'[q] # None => lease[q] # None /\ lease'[q].id = lease[q].id,
         \A q \in Runs: Open(q)' => Open(q)
  PROVE  AgentInv'
<1> USE DEF CoreInv, ShapeInv
<1>1. UNCHANGED <<attachments, everRevoked>> BY DEF FileStep, serverVars
<1>2. \A a: Copy(a)' => Copy(a) \/ Written(a) BY FileStepCopies
<1>3. ASSUME NEW x \in Identity, Written(x)
      PROVE  /\ Latest(x) /\ op.run \in Runs /\ Open(op.run) /\ x = lease[op.run].id
  BY <1>3, WrittenEpoch
<1>4. \A a, b \in Identity: (Copy(a) \/ Written(a)) /\ (Copy(b) \/ Written(b)) /\ a.attachment = b.attachment => a = b
  BY <1>3 DEF AgentInv, Latest
<1>5. \A a \in Identity, r \in Runs: (Copy(a) \/ Written(a)) /\ Open(r) /\ Latest(a) => a = lease[r].id
  BY <1>3, OneOpen DEF AgentInv
<1>6. \A a \in Identity, h \in everRevoked: (Copy(a) \/ Written(a)) /\ a.attachment = h[4] => h = Hash(a)
  BY <1>3 DEF AgentInv, Latest
<1> QED BY <1>1, <1>2, <1>4, <1>5, <1>6 DEF AgentInv, Latest, Open, FileStep

\* The Runtime closes the identity it was asked to close.
LEMMA AgentServer ==
  ASSUME CoreInv, RevokeInv, AgentInv, ServerStep, ~ HumanControl
  PROVE  AgentInv'
<1> USE DEF CoreInv, ShapeInv
<1>1. \A q \in Runs: pc'[q].tool = "idle" BY ServerReplies, ReplyKeeps DEF AgentInv
<1>2. UNCHANGED <<lease, op, attachments>> /\ \A a: Copy(a)' => Copy(a) BY ServerCopies
<1>3. CASE everRevoked' = everRevoked BY <1>1, <1>2, <1>3, AgentStays DEF Open
<1>4. CASE everRevoked' # everRevoked
  <2>1. Revoke
    BY <1>4
        DEF ServerStep, Admit, Refuse, RevokeRemove, ExecuteAct, ExecuteClose, ExecuteViewer,
            ChallengeClose, serverVars
  <2> DEFINE x == activeFile.id
  <2>2. /\ activeFile # None /\ x \in Identity /\ everRevoked' = everRevoked \union {Hash(x)}
    BY <1>4, <2>1, RevokeGrants
  <2>3. Copy(x) BY <2>2 DEF Copy
  <2>4. Hash(x)[4] = x.attachment BY <2>2, HashFields
  <2> HIDE DEF x
  <2>5. \A a \in Identity, h \in everRevoked': Copy(a) /\ a.attachment = h[4] => h = Hash(a)
    BY <2>2, <2>3, <2>4 DEF AgentInv
  <2>6. \A r \in Runs, h \in everRevoked': Open(r) /\ h[4] = attachments => h = Hash(lease[r].id)
    BY <2>2, <2>3, <2>4 DEF AgentInv, Latest
  <2> QED BY <1>1, <1>2, <2>5, <2>6 DEF AgentInv, Latest, Open
<1> QED BY <1>3, <1>4

\* Every step keeps AgentInv.
LEMMA AgentStep ==
  ASSUME CoreInv, RevokeInv, AgentInv, StepKind, ~ CleanupMayFail, ~ HumanControl
  PROVE  AgentInv'
<1> USE DEF CoreInv, ShapeInv
<1>1. CASE AgentQuiet
  <2>1. \A a: Copy(a)' => Copy(a) BY <1>1, QuietCopies
  <2> QED BY <1>1, <2>1, AgentStays DEF AgentQuiet, LeaseKept, PcKept, Open, serverVars, AgentInv
<1>2. ASSUME NEW r \in Runs, Begins(r) PROVE AgentInv'
  <2>1. /\ LeaseChanges(r, lease'[r].id) /\ Open(r)
        /\ UNCHANGED <<delegate, fileVars, serverVars, queue>>
        /\ op' # None /\ op'.kind = "rotate" /\ op'.thread = "main" /\ IsRotation(r, lease'[r].id) /\ PcKept
    BY <1>2, BeginEffect DEF AgentInv, Begins
  <2>2. \A q \in Runs: Open(q)' => q = r BY <2>1, OneOpen DEF LeaseChanges, Open
  <2>3. \A a: Copy(a)' => Copy(a) BY <2>1 DEF Copy, fileVars, serverVars
  <2> QED BY <2>1, <2>2, <2>3, NewAttachment
         DEF IsRotation, LeaseChanges, PcKept, AgentInv, serverVars
<1>3. ASSUME NEW r \in Runs, Closes(r) PROVE AgentInv'
  <2>1. \A q \in Runs: runFile'[q] \in {runFile[q], None} BY <1>3, CloseEffect DEF TypeOK
  <2>2. \A a: Copy(a)' => Copy(a) BY <1>3, <2>1, CloseEffect DEF Copy, serverVars
  <2> QED BY <1>3, <2>2, CloseEffect, AgentStays DEF PcKept, Open, serverVars, AgentInv
<1>4. ASSUME NEW r \in Runs, NEW bump \in Bumps, NEW e \in 1..(MaxTime + 1), Acquire(r, bump, e)
      PROVE  AgentInv'
  <2>1. /\ op' # None /\ op'.kind = "acquire" /\ op'.thread = "main" /\ rootLock = None
        /\ attachments' = attachments + 1
        /\ \A q \in Runs: q # r => lease'[q] = lease[q]
        /\ lease'[r].id.controller = "agent"
        /\ UNCHANGED <<pc, delegate, fileVars, serverVars, queue>>
    BY <1>4, AcquireEffect
  <2>2. \A q \in Runs: Open(q)' => q = r BY <2>1, NoneIsNone DEF LockInv, Open
  <2>3. \A a: Copy(a)' => Copy(a) BY <2>1 DEF Copy, fileVars, serverVars
  <2> QED BY <2>1, <2>2, <2>3, NewAttachment DEF AgentInv, serverVars
<1>5. CASE LockPersist
  <2>1. /\ op # None /\ op' # None /\ op'.kind = op.kind /\ op'.thread = op.thread
        /\ UNCHANGED <<lease, pc, delegate, attachments, fileVars, serverVars, queue>>
    BY <1>5, LockPersistOp DEF LockPersist
  <2>2. \A a: Copy(a)' <=> Copy(a) BY <2>1 DEF Copy, fileVars, serverVars
  <2> QED BY <2>1, <2>2 DEF AgentInv, Latest, Open, serverVars
<1>6. CASE PersistWrite
  <2>1. FileStep /\ op' # None /\ op'.kind = op.kind /\ op'.thread = op.thread /\ UNCHANGED <<lease, pc>>
    BY <1>6, PersistFiles, WriteOp DEF PersistWrite
  <2> QED BY <2>1, AgentFile DEF AgentInv, Open
<1>7. ASSUME NEW v, v = op.okPc \/ v = op.failPc, pc' = [pc EXCEPT ![op.run][op.thread] = v], op # None
      PROVE  \A q \in Runs: pc'[q].tool = "idle"
  <2>1. op.thread = "main" /\ op.run \in Runs /\ v \in PcsOf(op.thread) /\ pc \in PcSet
    BY <1>7, OpFields DEF AgentInv, OpInv, TypeOK, PcSet
  <2>2. \A q \in Runs: pc'[q]["tool"] = pc[q]["tool"] BY <1>7, <2>1, PcUpdate DEF Threads
  <2> QED BY <2>2 DEF AgentInv
<1>8. CASE PersistDone
  <2>1. FileStep /\ op' = None /\ lease' = lease /\ op # None /\ pc' = [pc EXCEPT ![op.run][op.thread] = op.okPc]
    BY <1>8, PersistFiles DEF PersistDone
  <2> QED BY <1>7, <2>1, AgentFile DEF Open
<1>9. ASSUME NEW replaced \in BOOLEAN, NEW kept \in BOOLEAN, PersistFail(replaced, kept)
      PROVE  AgentInv'
  <2>1. FileStep /\ op # None /\ op' = None /\ pc' = [pc EXCEPT ![op.run][op.thread] = op.failPc]
    BY <1>9, PersistFiles DEF PersistFail
  <2>2. op.kind \in {"acquire", "rotate"} BY <2>1, OpFields DEF AgentInv
  <2>3. \A q \in Runs: lease'[q] \in {lease[q], None} BY <1>9, <2>2, FailEffect
  <2> QED BY <1>7, <2>1, <2>3, AgentFile DEF Open
<1>10. CASE ServerStep BY <1>10, AgentServer
<1>11. CASE Tick
  <2>1. \A a: Copy(a)' => Copy(a) BY <1>11 DEF Tick, Copy, agentVars, fileVars, serverVars
  <2> QED BY <1>11, <2>1, AgentStays DEF Tick, agentVars, serverVars, Open, AgentInv
<1>12. CASE AgentCrash
  <2>1. /\ \A q \in Runs: lease'[q] = None /\ delegate'[q] = None /\ pc'[q].tool = "idle"
        /\ op' = None /\ UNCHANGED <<attachments, fileVars, serverVars, queue>>
    BY <1>12 DEF AgentCrash
  <2>2. \A a: Copy(a)' => Copy(a) BY <2>1 DEF Copy, fileVars, serverVars
  <2> QED BY <2>1, <2>2 DEF AgentInv, Open, serverVars
<1>13. CASE RuntimeCrash
  <2>1. UNCHANGED <<agentVars, fileVars, executed, everRevoked>> /\ owner' = None /\ queue' = <<>> /\ srv' = IdleServer
    BY <1>13 DEF RuntimeCrash
  <2>2. \A a: Copy(a)' => Copy(a) BY <2>1 DEF Copy, agentVars, fileVars, IdleServer
  <2> QED BY <2>1, <2>2, AgentStays DEF agentVars, Open, AgentInv
<1> QED BY <1>1, <1>2, <1>3, <1>4, <1>5, <1>6, <1>8, <1>9, <1>10, <1>11, <1>12, <1>13
       DEF StepKind, PersistStep

\* The invariant without human control.
AgentOnlyInv == CoreInv /\ RevokeInv /\ AgentInv

\* It holds in every state.
LEMMA AgentOnly == ASSUME ~ CleanupMayFail, ~ HumanControl PROVE Spec => []AgentOnlyInv
<1>1. Init => AgentOnlyInv
  BY InitShape, LockInit, EpochInit, RevokeInit, AgentInit DEF CoreInv, AgentOnlyInv
<1>2. AgentOnlyInv /\ [Next]_vars => AgentOnlyInv'
  <2>1. CoreInv /\ [Next]_vars => CoreInv' /\ StepKind BY Steps, LockStep, EpochStep DEF CoreInv
  <2> QED BY <2>1, RevokeStep, AgentStep DEF AgentOnlyInv
<1> QED BY <1>1, <1>2, PTL DEF Spec

\* The answer to a close.
LEMMA CloseStepTearsDown ==
  ASSUME ShapeInv, AgentInv, [Next]_vars, srv.pc = "execute", srv.req.kind = "close", srv.req.thread = "main",
         srv'.pc = "idle", pc' # pc, pc'[srv.req.id.run].main = "leaseClose"
  PROVE  owner' = None \/ owner'.attachment # srv.req.id.attachment
<1> USE DEF ShapeInv
<1>1. srv.req \in Request /\ srv.req.id \in Identity /\ Copy(srv.req.id)
  BY DEF TypeOK, ServerInv, Request, Copy
<1>2. PICK result \in {"ok", "failed"}: ExecuteClose(result)
  <2>1. srv' # srv OBVIOUS
  <2>2. ~ (Tick \/ AgentCrash \/ RuntimeCrash \/ Stopped)
    BY <2>1 DEF Tick, AgentCrash, RuntimeCrash, Stopped, agentVars, vars, serverVars
  <2>3. ~ PersistStep
    BY <2>1 DEF PersistStep, LockPersist, PersistWrite, PersistDone, PersistFail, serverVars
  <2>4. ServerStep
    BY <2>1, <2>2, <2>3, Steps, BeginEffect
        DEF StepKind, AgentQuiet, Begins, RotateStarts, TransitionStarts, Closes, LeaseClose,
            Acquire, serverVars
  <2> QED BY <2>1, <2>4
         DEF ServerStep, Admit, Refuse, Revoke, RevokeRemove, ExecuteAct, ExecuteViewer,
             ChallengeClose, ViewerKinds, serverVars
<1>3. CASE result = "failed"
  <2> DEFINE r == srv.req.id.run
  <2>1. /\ WaitsFor(r, "main", "close") /\ pc' = [pc EXCEPT ![r].main = AfterReply("main", "close", "failed")]
    BY <1>2, <1>3 DEF ExecuteClose, Reply
  <2>2. AfterReply("main", "close", "failed") = "fence" BY DEF AfterReply, AfterFailure
  <2>3. r \in Runs BY <1>1, IdentityFields
  <2> HIDE DEF r
  <2>4. pc'[r].main = "fence" BY <2>1, <2>2, <2>3 DEF TypeOK
  <2> QED BY <2>4 DEF r
<1>4. CASE result = "ok"
  <2>1. owner' = IF OwnedBy(srv.req.id) THEN None ELSE owner BY <1>2, <1>4 DEF ExecuteClose
  <2>2. owner # None /\ owner.attachment = srv.req.id.attachment => owner = srv.req.id
    BY <1>1 DEF AgentInv, Copy, TypeOK
  <2> QED BY <2>1, <2>2 DEF OwnedBy, SameActiveAttachment, SameButControl
<1> QED BY <1>2, <1>3, <1>4

\* CloseTearsDown, when no human control is offered: when the Runtime has answered
\* the close of an ending Run with success, the page of its attachment is gone.
\* With human control it does not hold, as the run close_after_human shows.
THEOREM CloseTearsPageDown == ASSUME ~ CleanupMayFail, ~ HumanControl PROVE Spec => CloseTearsDown
<1>1. AgentOnlyInv /\ [Next]_vars =>
        [(/\ srv.pc = "execute" /\ srv.req.kind = "close" /\ srv.req.thread = "main"
          /\ srv'.pc = "idle" /\ pc' # pc
          /\ pc'[srv.req.id.run].main = "leaseClose")
         => owner' = None \/ owner'.attachment # srv.req.id.attachment]_vars
  BY CloseStepTearsDown DEF AgentOnlyInv, CoreInv
<1> QED BY <1>1, AgentOnly, PTL DEF Spec, CloseTearsDown
=============================================================================
