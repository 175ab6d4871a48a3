--------------------------- MODULE MutationJournal ---------------------------
(***************************************************************************)
(* The Run's journal of Browser mutations (browser_mutation_journal.go):   *)
(* what an action or a batch did, by the Browser's answer.  The entries    *)
(* are bounded; their text is not modelled, only how many there are.       *)
(* What the Browser saw is not what its answer reports: an action that     *)
(* fails by anything but an EngineActionError, or after the mutation       *)
(* outcomes were awaited (a gateway refusal, a 403 or 429, a challenge, a  *)
(* failed observation), answers without the count.  The journal knows the  *)
(* report only.                                                            *)
(***************************************************************************)
EXTENDS Naturals, Sequences, FiniteSets

CONSTANTS
  MaxEntries,  \* maxBrowserMutationJournalEntries
  MaxRecords   \* bound: actions of the Run

\* A click, a key, a text or a selection; any other action.
ActionKinds == {"potential", "other"}

\* An action is a batch of one.
Batches == {<<a>> : a \in ActionKinds} \cup (ActionKinds \X ActionKinds)

\* The action a batch has failed at, none (0), or the first where the failure
\* names none: the Engine puts the index of its own loop into the failure.  The
\* journal relies on it: ValidateFailure asks for an index below eight only, and
\* a failure past the end of the batch would pass for a batch all completed.
FailedAt(batch) == 0..Len(batch)

\* Failure codes that are told apart.
Codes == {"unknown", "originBlocked", "failed"}

VARIABLES
  records,   \* actions recorded
  counters,  \* completed, failed, unknown and originBlocked
  entries,   \* entries kept
  dropped,   \* entries beyond the bound
  requests   \* records of an answer that reports mutation requests

journalVars == <<records, counters, entries, dropped, requests>>

\* Mutant of Counts: a failed action is passed over.
CountsCompletedOnly(batch, i, failed, seen) ==
  (batch[i] = "potential" \/ (Len(batch) = 1 /\ seen > 0)) /\ (failed = 0 \/ i < failed)

\* Whether action i of a batch gets an entry, where the failed-th of it has
\* failed, or none has (0), and the answer reports seen mutation requests.
Counts(batch, i, failed, seen) ==
  /\ batch[i] = "potential" \/ (seen > 0 /\ (i = failed \/ Len(batch) = 1))
  /\ failed = 0 \/ i <= failed

\* The batch as a whole: it succeeded, and who requested a mutation is open.
CountsBatch(batch, failed, seen) ==
  Len(batch) > 1 /\ failed = 0 /\ seen > 0 /\ \E i \in DOMAIN batch : batch[i] = "other"

\* Entries of completed actions.
Completed(batch, failed, seen) ==
  Cardinality({i \in DOMAIN batch : Counts(batch, i, failed, seen) /\ i # failed})
    + IF CountsBatch(batch, failed, seen) THEN 1 ELSE 0

\* The entry of the failed action, if there is one.
Failing(batch, failed, seen) ==
  IF failed # 0 /\ Counts(batch, failed, failed, seen) THEN 1 ELSE 0

\* appendBounded of n entries, where the bound on their bytes may come first.
AppendBounded(n) ==
  \E kept \in 0..n :
    /\ entries + kept <= MaxEntries
    /\ entries' = entries + kept
    /\ dropped' = dropped + (n - kept)

Record ==
  /\ records < MaxRecords
  /\ records' = records + 1
  /\ \E batch \in Batches, seen \in 0..1, code \in Codes :
     \E failed \in FailedAt(batch) :
       LET done == Completed(batch, failed, seen)
           lost == Failing(batch, failed, seen)
       IN /\ counters' = [counters EXCEPT !.completed = @ + done, ![code] = @ + lost]
          /\ AppendBounded(done + lost)
          /\ requests' = requests + seen

JournalInit ==
  /\ records = 0 /\ entries = 0 /\ dropped = 0 /\ requests = 0
  /\ counters = [c \in Codes \cup {"completed"} |-> 0]

JournalNext == Record

JournalSpec == JournalInit /\ [][JournalNext]_journalVars
-----------------------------------------------------------------------------
\* The summary accounts for every outcome by an entry or a dropped one, and no
\* answer that reports a mutation request goes unrecorded: if no action of the
\* batch mutates by its kind, the failed one or the batch as a whole does.
JournalAccounts ==
  LET outcomes == counters.completed + counters.failed + counters.unknown
                    + counters.originBlocked
  IN entries + dropped = outcomes /\ requests <= outcomes
=============================================================================
