--------------------------- MODULE ArchiveRecovery ---------------------------
(***************************************************************************)
(* The durable recovery of the archive of original events                  *)
(* (infrastructure/archive_recovery.py) and the drainers that run under    *)
(* it: a canary of the rows pending at the first start is drained and      *)
(* proven before later rows are, a canary failure pauses the archive, an   *)
(* operator pauses and resumes it, batches are spaced five seconds apart.  *)
(* Processing one row is abstracted to its outcome; TelegramIngestion      *)
(* models it.                                                              *)
(***************************************************************************)
EXTENDS FiniteSets, FiniteSetsExt, Naturals

CONSTANTS
  Rows,          \* telegram_raw_events of one channel
  Malformed,     \* the rows whose processing always fails with their data
  Drainers,      \* the worker's drainer and operators' `apply` processes
  BatchSize,     \* min(25, limit)
  CanarySize,    \* 100
  MaxFailures,   \* _MAX_DATA_ATTEMPTS = MAX_DATA_FAILURES
  MaxCommands,   \* bound: operator pauses and resumes
  MaxCrashes     \* bound: drainers that die in the middle of a batch

ASSUME RecoveryAssumption ==
  /\ Malformed \subseteq Rows
  /\ BatchSize \in Nat \ {0} /\ CanarySize \in Nat \ {0}
  /\ MaxFailures \in Nat \ {0}
  /\ MaxCommands \in Nat /\ MaxCrashes \in Nat

VARIABLES
  phase,      \* "none" before the first claim, "canary", "running", "paused"
  canary,     \* canary_ids
  reserved,   \* next_batch_at lies in the future
  landed,     \* the rows that exist
  receipted,  \* the rows with a canonical receipt
  terminal,   \* the rows with processed_at
  failures,   \* data_failure_count
  backoff,    \* the rows whose next_attempt_at lies in the future
  batch,      \* the records a drainer still has to attempt
  drain,      \* "idle", "open" or "failed": the batch a drainer has begun
  resuming,   \* set_paused(False) has committed, its finish_batch has not
  commands,   \* pauses and resumes so far
  crashes     \* crashes so far

rowVars == <<landed, receipted, terminal, failures, backoff>>
stateVars == <<phase, canary, reserved>>
drainVars == <<batch, drain>>
boundVars == <<commands, crashes>>
vars == <<rowVars, stateVars, drainVars, resuming, boundVars>>

Init ==
  /\ phase = "none" /\ canary = {} /\ reserved = FALSE
  /\ landed \in SUBSET Rows
  /\ receipted = {} /\ terminal = {} /\ backoff = {}
  /\ failures = [r \in Rows |-> 0]
  /\ batch = [d \in Drainers |-> {}]
  /\ drain = [d \in Drainers |-> "idle"]
  /\ resuming = FALSE /\ commands = 0 /\ crashes = 0

\* Mutant: a receipted row is not due any more.
DueUndecided ==
  {r \in landed \ (terminal \cup receipted) :
     failures[r] < MaxFailures /\ r \notin backoff}

\* unprocessed_batch: a receipted row is due however its attempts went.
Due ==
  {r \in landed \ terminal :
     r \in receipted \/ (failures[r] < MaxFailures /\ r \notin backoff)}

\* The first n rows of S; their age is not modelled.
FirstOf(S, n) == kSubset(IF Cardinality(S) < n THEN Cardinality(S) ELSE n, S)

Proven == receipted \cap terminal

(***************************************************************************)
(* _state: the recovery row is created by whoever needs it first, with the *)
(* rows pending then as its canary, or running when there are none.        *)
(***************************************************************************)
RecoveryState ==
  IF phase # "none" THEN {[phase |-> phase, canary |-> canary]}
  ELSE {[phase |-> IF S = {} THEN "running" ELSE "canary", canary |-> S] :
          S \in FirstOf(Due, CanarySize)}

-----------------------------------------------------------------------------
(***************************************************************************)
(* The outcomes of one attempt, by the live path or by a drainer: the      *)
(* canonical receipt commits, the row is acknowledged, its data fails and  *)
(* is counted, or contention defers it.  The last two leave a terminal row *)
(* alone and back off.                                                     *)
(***************************************************************************)
Commit(r) ==
  /\ r \notin receipted \cup Malformed
  /\ receipted' = receipted \cup {r}
  /\ UNCHANGED <<landed, terminal, failures, backoff>>

Mark(r) ==
  /\ r \in receipted
  /\ terminal' = terminal \cup {r}
  /\ UNCHANGED <<landed, receipted, failures, backoff>>

Retry(r) ==
  /\ backoff' = backoff \cup ({r} \ terminal)
  /\ UNCHANGED <<landed, receipted, terminal>>

CountFailure(r) ==
  /\ r \in Malformed
  /\ Retry(r)
  /\ failures' = [failures EXCEPT ![r] = @ + 1]

Land(r) ==
  /\ r \notin landed
  /\ landed' = landed \cup {r}
  /\ UNCHANGED <<receipted, terminal, failures, backoff, stateVars, drainVars,
                 resuming, boundVars>>

LiveAttempt(r) ==
  /\ r \in Due
  /\ Commit(r) \/ Mark(r) \/ CountFailure(r)
  /\ UNCHANGED <<stateVars, drainVars, resuming, boundVars>>

-----------------------------------------------------------------------------
(***************************************************************************)
(* drain_once: claim a batch, attempt every record, finish the batch only  *)
(* if it had records.                                                      *)
(***************************************************************************)
\* Mutant: a batch is taken from everything that is due.
EligibleAny(s) == Due

Eligible(s) == IF s.phase = "canary" THEN Due \cap s.canary ELSE Due

Claim(d) ==
  /\ drain[d] = "idle"
  /\ \E s \in RecoveryState :
       /\ phase' = s.phase /\ canary' = s.canary
       /\ IF s.phase = "paused" \/ reserved
          THEN UNCHANGED <<reserved, batch, drain>>
          ELSE /\ reserved' = TRUE
               /\ \E S \in FirstOf(Eligible(s), BatchSize) :
                    /\ batch' = [batch EXCEPT ![d] = S]
                    /\ drain' = [drain EXCEPT ![d] = IF S = {} THEN @ ELSE "open"]
  /\ UNCHANGED <<rowVars, resuming, boundVars>>

\* A receipt commits; the record stays in the batch until it is acknowledged.
Apply(d, r) ==
  /\ r \in batch[d] /\ Commit(r)
  /\ UNCHANGED <<stateVars, drainVars, resuming, boundVars>>

Acknowledge(d, r) ==
  /\ r \in batch[d] /\ Mark(r)
  /\ batch' = [batch EXCEPT ![d] = @ \ {r}]
  /\ UNCHANGED <<stateVars, drain, resuming, boundVars>>

FailRecord(d, r) ==
  /\ r \in batch[d] /\ CountFailure(r)
  /\ batch' = [batch EXCEPT ![d] = @ \ {r}]
  /\ drain' = [drain EXCEPT ![d] = "failed"]
  /\ UNCHANGED <<stateVars, resuming, boundVars>>

\* Contention for the lock, which is taken before the receipt is looked for.
DeferRecord(d, r) ==
  /\ r \in batch[d] /\ Retry(r)
  /\ batch' = [batch EXCEPT ![d] = @ \ {r}]
  /\ UNCHANGED failures
  /\ UNCHANGED <<stateVars, drain, resuming, boundVars>>

\* finish_batch: expansion needs a receipt for every original canary row.
Verify(failed) ==
  phase' = IF phase # "canary" THEN phase
           ELSE IF failed THEN "paused"
           ELSE IF canary \subseteq Proven THEN "running" ELSE "canary"

Finish(d) ==
  /\ drain[d] # "idle" /\ batch[d] = {}
  /\ Verify(drain[d] = "failed")
  /\ drain' = [drain EXCEPT ![d] = "idle"]
  /\ UNCHANGED <<rowVars, canary, reserved, batch, resuming, boundVars>>

-----------------------------------------------------------------------------
(***************************************************************************)
(* set_paused, in an operator's process; resuming verifies the canary in a *)
(* second transaction.                                                     *)
(***************************************************************************)
SetPaused(to) ==
  /\ commands < MaxCommands /\ ~resuming
  /\ commands' = commands + 1
  /\ \E s \in RecoveryState : canary' = s.canary
  /\ phase' = to /\ reserved' = FALSE
  /\ resuming' = (to = "canary")
  /\ UNCHANGED <<rowVars, drainVars, crashes>>

Pause == SetPaused("paused")
Resume == SetPaused("canary")

VerifyResumed ==
  /\ resuming /\ resuming' = FALSE
  /\ Verify(FALSE)
  /\ UNCHANGED <<rowVars, canary, reserved, drainVars, boundVars>>

\* A drainer dies with what is left of its batch.
Crash(d) ==
  /\ crashes < MaxCrashes /\ crashes' = crashes + 1
  /\ drain[d] # "idle"
  /\ batch' = [batch EXCEPT ![d] = {}]
  /\ drain' = [drain EXCEPT ![d] = "idle"]
  /\ UNCHANGED <<rowVars, stateVars, resuming, commands>>

\* Time passes: the next batch may start, rows become due again.
Tick ==
  /\ reserved' = FALSE /\ backoff' = {}
  /\ UNCHANGED <<landed, receipted, terminal, failures, phase, canary, drainVars,
                 resuming, boundVars>>

Attempt(d) ==
  \E r \in Rows :
    Apply(d, r) \/ Acknowledge(d, r) \/ FailRecord(d, r) \/ DeferRecord(d, r)

Next ==
  \/ \E r \in Rows : Land(r) \/ LiveAttempt(r)
  \/ \E d \in Drainers : Claim(d) \/ Attempt(d) \/ Finish(d) \/ Crash(d)
  \/ Pause \/ Resume \/ VerifyResumed \/ Tick

Spec == Init /\ [][Next]_vars

\* The drainer repeats for ever and finishes what it begins.  Batches are taken
\* oldest first, so a row that keeps coming due is claimed, and one that meets
\* contention is attempted again until it gets through.
Fairness ==
  /\ WF_vars(Tick)
  /\ \A d \in Drainers :
       /\ WF_vars(Attempt(d)) /\ WF_vars(Finish(d))
       /\ \A r \in Rows :
            /\ SF_vars(Claim(d) /\ r \in batch'[d])
            /\ SF_vars(Apply(d, r) \/ Acknowledge(d, r) \/ FailRecord(d, r))

FairSpec == Spec /\ Fairness

-----------------------------------------------------------------------------
\* The recovery row, the archive rows and the drainers hold values of their
\* columns; a batch holds rows of the archive.
TypeOK ==
  /\ phase \in {"none", "canary", "running", "paused"}
  /\ canary \subseteq landed /\ landed \subseteq Rows
  /\ receipted \subseteq landed /\ terminal \subseteq receipted
  /\ failures \in [Rows -> Nat]
  /\ backoff \subseteq landed
  /\ reserved \in BOOLEAN /\ resuming \in BOOLEAN
  /\ batch \in [Drainers -> SUBSET landed]
  /\ drain \in [Drainers -> {"idle", "open", "failed"}]
  /\ commands \in Nat /\ crashes \in Nat

\* The archive runs only once every original canary row is proven, however
\* pauses, resumptions, crashes and a second drainer are interleaved.
ExpansionProven == phase = "running" => canary \subseteq Proven

\* No drainer works on a row outside the canary before the canary is proven,
\* even one that claimed its batch before an operator paused or resumed.
CanaryFirst ==
  \A d \in Drainers : batch[d] \subseteq canary \/ canary \subseteq Proven

\* Nothing expands before the canary is proven.
RecoveryInv == TypeOK /\ ExpansionProven /\ CanaryFirst

\* Once running and left alone, the archive acknowledges every row or leaves it
\* quarantined: a pause or a crash strands none of them.
RowsSettle ==
  \A r \in Rows :
    r \in landed /\ phase = "running" ~>
      r \in terminal \/ failures[r] >= MaxFailures \/ phase # "running"

\* A canary that was started ends: the archive expands after verification, or it
\* is paused for review.
CanaryEnds == phase = "canary" ~> phase \in {"running", "paused"}
=============================================================================
