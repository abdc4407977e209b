--------------------------- MODULE AutomaticRecovery ---------------------------
(***************************************************************************)
(* The automatic recovery of messages the parser missed                    *)
(* (application/automatic_recovery.py over infrastructure/                 *)
(* recovery_queue.py): leased work per source revision, a proposal from    *)
(* the provider, an observation canary, and the listing made from it; and  *)
(* the owner, who generates and applies proposals by hand                  *)
(* (application/ingestion_ai_parse.py).  Both draw on one ProviderBudget.  *)
(* Work whose message has a listing starts a cohort of one offer, which    *)
(* OfferEnrichment fills: here it is the one call it makes and its outcome. *)
(***************************************************************************)
EXTENDS ProviderBudget

CONSTANTS
  Workers,      \* maintenance workers: one, and its successor
  Owners,       \* the processes that serve the owner's requests
  Revisions,    \* source revisions, each of a message of its own
  Requests,     \* request ids of the owner
  Listed,       \* the revisions whose message has a listing from the start
  Enriching,    \* the work key of each revision's cohort
  Calibrated,   \* the revisions whose proposal is a listing that the evidence
                \* supports for automatic creation
  CanarySize,   \* CANARY_SIZE
  Ceiling,      \* the literal 20 of defer_provider
  AutoApply,    \* ai_recovery_auto_apply
  Aging,        \* bound: the revisions that are edited, or their proposals left lying
  MaxUpsets     \* bound: edits, expiries, exceptions, holds and crashes, together

ASSUME RecoveryAssumption ==
  /\ Callers = Workers \cup Owners
  /\ Enriching \in [Revisions -> Keys \ (Revisions \cup Requests)]
  /\ \A r, s \in Revisions : Enriching[r] = Enriching[s] => r = s
  /\ Revisions \cup Requests \subseteq Keys /\ Revisions \cap Requests = {}
  /\ IsFiniteSet(Revisions) /\ Listed \subseteq Revisions
  /\ Calibrated \subseteq Revisions /\ Aging \subseteq Revisions
  /\ CanarySize \in Nat \ {0} /\ Ceiling \in Nat /\ AutoApply \in BOOLEAN
  /\ MaxUpsets \in Nat

VARIABLES
  current,    \* the revisions that are still current, of messages not deleted
  listing,    \* who made the primary offer of the message, if anyone
  pending,    \* the pending run of each revision, 0 for none
  expired,    \* the revisions whose pending proposal is past its expiry
  runs,       \* ingestion_ai_parse_runs inserted as pending so far
  cohort,     \* the batch and item with the id of the work: under way (open), paused
              \* (held), or how the item came out
  work,       \* ai_recovery_work
  task,       \* what each worker and each request is doing
  upsets

offerVars == <<current, listing, pending, expired, runs>>
dataVars == <<offerVars, cohort>>
vars == <<budgetVars, dataVars, work, task, upsets>>

\* mixed: some fields were filled, and others are not what the outcome counts.
Outcome == {"rejected", "validated", "filled", "mixed"}
WorkStates == {"none", "queued", "claimed", "deferred", "superseded", "observed",
               "applied", "terminal"}
Absent == [state |-> "none", claim |-> 0, claims |-> 0, lease |-> 0, next |-> 0,
           failures |-> 0, reason |-> "none"]
Idle == [step |-> "idle", rev |-> "none", claim |-> 0, now |-> 0, run |-> 0]

\* A worker begins its next tick sixty seconds after it ended the last.
Resting == [Idle EXCEPT !.now = clock + Pace]
\* Requests of the owner do not shorten the rest.
Served(o) == [Idle EXCEPT !.now = task[o].now]
Upset == upsets < MaxUpsets /\ upsets' = upsets + 1
At(c, step) == task[c].step = step

Init ==
  /\ BudgetInit
  /\ current = Revisions
  /\ listing = [r \in Revisions |-> IF r \in Listed THEN "parser" ELSE "none"]
  /\ pending = [r \in Revisions |-> 0]
  /\ expired = {} /\ runs = 0
  /\ cohort = [r \in Revisions |-> "none"]
  /\ work = [r \in Revisions |-> Absent]
  /\ task = [c \in Callers |-> Idle]
  /\ upsets = 0

-----------------------------------------------------------------------------
\* The message is edited or deleted; its next revision may bring a listing.
Supersede(r) ==
  /\ Upset
  /\ r \in current \cap Aging /\ current' = current \ {r}
  /\ \/ UNCHANGED listing
     \/ listing[r] = "none" /\ listing' = [listing EXCEPT ![r] = "parser"]
  /\ UNCHANGED <<budgetVars, pending, expired, runs, cohort, work, task>>

\* Twenty-four hours later.
Expire(r) ==
  /\ Upset
  /\ pending[r] # 0 /\ r \in Aging \ expired
  /\ expired' = expired \cup {r}
  /\ UNCHANGED <<budgetVars, current, listing, pending, runs, cohort, work, task>>

\* The owner pauses the cohort, or enrichment is switched off; and resumes it.
Hold(r) ==
  /\ Upset
  /\ cohort[r] = "open" /\ cohort' = [cohort EXCEPT ![r] = "held"]
  /\ UNCHANGED <<budgetVars, offerVars, work, task>>

Resume(r) ==
  /\ cohort[r] = "held" /\ cohort' = [cohort EXCEPT ![r] = "open"]
  /\ UNCHANGED <<budgetVars, offerVars, work, task, upsets>>

Tick ==
  /\ BudgetTick
  /\ UNCHANGED <<dataVars, work, task, upsets>>

-----------------------------------------------------------------------------
(***************************************************************************)
(* SQLAlchemyRecoveryQueue: work is queued once per revision, claimed for  *)
(* two minutes, and checkpointed only under the claim.                     *)
(***************************************************************************)
Calls(r) == {i \in DOMAIN attempts : attempts[i].key \in {r, Enriching[r]}}
LastCall(r) == IF Calls(r) = {} THEN "none"
               ELSE attempts[CHOOSE i \in Calls(r) : \A j \in Calls(r) : j <= i].state

Untried == {r \in Revisions :
  /\ cohort[r] \notin Outcome
  /\ \A i \in DOMAIN attempts : attempts[i].key \notin {r, Enriching[r]}}

\* A work that ended though nothing was ever sent for its cohort, which waits still.
Unsubmitted(r) ==
  /\ work[r].state = "terminal" /\ work[r].reason = "unsupported_or_failed_proposal"
  /\ cohort[r] = "open" /\ r \in Untried

Reopened(row) ==
  [row EXCEPT !.state = "queued", !.reason = "unsubmitted_reconciled", !.next = clock,
              !.claim = 0, !.lease = 0]

\* reconcile_unsubmitted, a transaction of its own before the works are queued.
ReconcileUnsubmitted ==
  /\ \E r \in Revisions : Unsubmitted(r)
  /\ work' = [r \in Revisions |-> IF Unsubmitted(r) THEN Reopened(work[r]) ELSE work[r]]
  /\ UNCHANGED <<budgetVars, dataVars, task, upsets>>

Enqueue ==
  LET fresh == {r \in current : work[r].state = "none"}
  IN  /\ fresh # {}
      /\ work' = [r \in Revisions |->
           IF r \in fresh THEN [Absent EXCEPT !.state = "queued", !.next = clock]
           ELSE work[r]]
      /\ UNCHANGED <<budgetVars, dataVars, task, upsets>>

Due(now) ==
  {r \in Revisions :
     /\ \/ work[r].state \in {"queued", "deferred"}
        \/ work[r].state = "claimed" /\ work[r].lease <= now
     /\ work[r].next <= now}

Claim(w) ==
  /\ At(w, "idle") /\ task[w].now <= clock
  /\ \E r \in Due(clock) :
       /\ \A s \in Due(clock) : work[r].next <= work[s].next
       /\ IF r \notin current
          THEN /\ work' = [work EXCEPT ![r].state = "superseded"]
               /\ task' = [task EXCEPT ![w] = Resting]
          ELSE /\ work' = [work EXCEPT ![r] = [@ EXCEPT !.state = "claimed",
                     !.claim = work[r].claims + 1, !.claims = work[r].claims + 1,
                     !.lease = clock + Lease]]
               /\ task' = [task EXCEPT ![w] = [Idle EXCEPT
                     !.step = IF listing[r] = "none" THEN "claimed" ELSE "listed",
                     !.rev = r, !.claim = work[r].claims + 1, !.now = clock]]
  /\ UNCHANGED <<budgetVars, dataVars, upsets>>

\* Mutant: whoever finds the work claimed writes to it.
HoldsAny(w) == work[task[w].rev].state = "claimed"

\* Superseding a work leaves its claim in the row.
Holds(w) == work[task[w].rev].claim = task[w].claim

Checkpoint(w, state, reason, next) ==
  /\ work' = IF Holds(w)
             THEN [work EXCEPT ![task[w].rev] = [@ EXCEPT !.state = state,
                     !.reason = reason, !.claim = 0, !.lease = 0, !.next = next]]
             ELSE work
  /\ task' = [task EXCEPT ![w] = Resting]

\* finish: only work still claimed is settled.
Close(w, to, why) ==
  IF work[task[w].rev].state = "claimed"
  THEN Checkpoint(w, to, why, work[task[w].rev].next)
  ELSE task' = [task EXCEPT ![w] = Resting] /\ UNCHANGED work

Then(c, step) == task' = [task EXCEPT ![c].step = step]

\* retry_local: an exception of the database or of a service.
RetryLocal(w) ==
  LET failures == work[task[w].rev].failures
      stop == failures >= 2
  IN  /\ work' = IF ~Holds(w) THEN work ELSE
           [work EXCEPT ![task[w].rev] = [@ EXCEPT !.failures = failures + 1,
              !.state = IF stop THEN "terminal" ELSE "deferred",
              !.reason = IF stop THEN "systemic_failure" ELSE "local_retry",
              !.next = task[w].now + Pace * 2 ^ failures,
              !.claim = 0, !.lease = 0]]
      /\ task' = [task EXCEPT ![w] = Resting]

Fault(w) ==
  /\ task[w].step \in {"claimed", "listed", "deferring", "weighing", "found", "applied"}
  /\ Upset
  /\ RetryLocal(w)
  /\ UNCHANGED <<budgetVars, dataVars>>

-----------------------------------------------------------------------------
(***************************************************************************)
(* _execute, for work that had no listing when it was claimed: take the    *)
(* pending proposal, or generate one.                                      *)
(***************************************************************************)
Free(r) == listing[r] = "none" /\ pending[r] = 0

\* GenerateIngestionAiParse, too, denies a revision with a listing or a pending run,
\* and does not look at the run's expiry; its checks are read with the worker's.
Look(w) ==
  LET r == task[w].rev
  IN  /\ At(w, "claimed")
      /\ \/ /\ pending[r] # 0 /\ UNCHANGED <<budgetVars, work>>
            /\ task' = [task EXCEPT ![w].step = "found", ![w].run = pending[r]]
         \/ /\ pending[r] = 0 /\ listing[r] # "none"
            /\ Then(w, "deferring") /\ UNCHANGED <<budgetVars, work>>
         \/ Free(r) /\ Ask(w, r) /\ Then(w, "calling") /\ UNCHANGED work
      /\ UNCHANGED <<dataVars, upsets>>

RequestProposal(o, r, k) ==
  /\ At(o, "idle") /\ Free(r)
  /\ Of(attempts, k) = {} /\ \A c \in Callers : call[c].key # k
  /\ Ask(o, k)
  /\ task' = [task EXCEPT ![o] = [Served(o) EXCEPT !.step = "calling", !.rev = r]]
  /\ UNCHANGED <<dataVars, work, upsets>>

CallProvider(c) ==
  /\ Reserve(c) \/ \E outcome \in Outcomes : Finish(c, outcome)
  /\ UNCHANGED <<dataVars, work, task, upsets>>

\* The provider's refusal or an unusable payload leaves a failed run, of which
\* nothing is read again.  A second pending run of the revision is not inserted.
Save(c) ==
  LET r == task[c].rev
      byHand == task[c].claim = 0
      Leave(next) == IF byHand THEN task' = [task EXCEPT ![c] = Served(c)] /\ UNCHANGED work
                     ELSE next
  IN  /\ At(c, "calling") /\ call[c].pc \in {"refused", "answered"}
      /\ \/ /\ call[c].reply # "succeeded" \/ pending[r] # 0
            /\ Leave(Then(c, "deferring") /\ UNCHANGED work) /\ UNCHANGED <<pending, runs>>
         \/ /\ call[c].reply = "succeeded"
            /\ Leave(Close(c, "terminal", "proposal_rejected"))
            /\ UNCHANGED <<pending, runs>>
         \/ /\ call[c].reply = "succeeded" /\ pending[r] = 0
            /\ runs' = runs + 1 /\ pending' = [pending EXCEPT ![r] = runs + 1]
            /\ Leave(/\ task' = [task EXCEPT ![c].step = "found", ![c].run = runs + 1]
                     /\ UNCHANGED work)
      /\ Forget(c)
      /\ UNCHANGED <<current, listing, expired, cohort, upsets>>

-----------------------------------------------------------------------------
\* defer_provider: work the provider may have seen ends; otherwise it waits for
\* the account's window, judged by the time at which the tick began.
UnlessDeferred(w, Ending) ==
  LET now == task[w].now
      window == IF account.day = Day(now) /\ account.used >= Ceiling
                THEN Later(account.next, NextDay(now)) ELSE account.next
      tried == LastCall(task[w].rev) \in {"terminal", "uncertain"}
      waits == LastCall(task[w].rev) # "succeeded" /\ account.open /\ window > now
  IN  \/ tried /\ Checkpoint(w, "terminal", LastCall(task[w].rev), work[task[w].rev].next)
      \/ ~tried /\ waits /\ Checkpoint(w, "deferred", "provider_window", window)
      \/ ~tried /\ ~waits /\ Ending

Defer(w) ==
  /\ At(w, "deferring")
  /\ UnlessDeferred(w, Close(w, "terminal", "proposal_rejected"))
  /\ UNCHANGED <<budgetVars, dataVars, upsets>>

-----------------------------------------------------------------------------
Validated == {r \in Revisions :
  work[r].state = "observed" /\ work[r].reason = "validated_observation"}

\* Mutant: observations that validated nothing count as well.
AnyObserved == Cardinality({r \in Revisions : work[r].state = "observed"}) >= CanarySize

CanaryPassed == Cardinality(Validated) >= CanarySize

-----------------------------------------------------------------------------
(***************************************************************************)
(* _execute, for work with a listing: start the cohort of the work, let    *)
(* ProcessOfferEnrichmentItem take its item, and weigh what came of it.    *)
(***************************************************************************)
\* There is nothing left to fill, all of it is an operator's, or the offer is not
\* free for a batch.
Enroll(w) ==
  LET r == task[w].rev
  IN  /\ At(w, "listed") /\ cohort[r] = "none"
      /\ \/ /\ \/ Close(w, "observed", "already_resolved_or_unsupported")
               \/ Close(w, "terminal", "protected_conflict")
               \/ Close(w, "terminal", "validation_or_snapshot")
            /\ UNCHANGED cohort
         \/ cohort' = [cohort EXCEPT ![r] = "open"] /\ UNCHANGED <<work, task>>
      /\ UNCHANGED <<budgetVars, offerVars, upsets>>

\* cohort_outcome
Judge(w) ==
  CASE cohort[task[w].rev] = "filled" -> Close(w, "applied", "none")
    [] cohort[task[w].rev] = "validated" -> Close(w, "observed", "validated_observation")
    [] OTHER -> Close(w, "terminal", "unsupported_or_failed_proposal")

\* A paused or settled cohort is passed over, and a batch marked complete is judged
\* at once; an item may be settled for want of anything to ask; else it is asked for.
Process(w) ==
  LET r == task[w].rev
  IN  /\ At(w, "listed") /\ cohort[r] # "none"
      /\ \/ /\ cohort[r] # "open" /\ Then(w, "weighing")
            /\ UNCHANGED <<budgetVars, cohort, work>>
         \/ cohort[r] \in Outcome /\ Judge(w) /\ UNCHANGED <<budgetVars, cohort>>
         \/ /\ cohort[r] = "open" /\ cohort' = [cohort EXCEPT ![r] = "rejected"]
            /\ Then(w, "weighing") /\ UNCHANGED <<budgetVars, work>>
         \/ /\ cohort[r] = "open" /\ Ask(w, Enriching[r])
            /\ Then(w, IF AutoApply /\ CanaryPassed THEN "filling" ELSE "observing")
            /\ UNCHANGED <<cohort, work>>
      /\ UNCHANGED <<offerVars, upsets>>

\* An item that may be asked for again stays as it is; complete_item settles no item
\* twice; and values are stored only when the canary had passed.
Collect(w) ==
  LET r == task[w].rev
      kept == cohort[r] \notin {"open", "held"} \/ call[w].reply \in {"rate_limited", "connect"}
  IN  /\ task[w].step \in {"observing", "filling"} /\ call[w].pc \in {"refused", "answered"}
      /\ \/ kept /\ UNCHANGED cohort
         \/ /\ cohort[r] \in {"open", "held"} /\ call[w].reply # "rate_limited"
            /\ \E outcome \in Outcome :
                 /\ call[w].reply # "succeeded" => outcome = "rejected"
                 /\ At(w, "observing") => outcome \in {"rejected", "validated"}
                 /\ cohort' = [cohort EXCEPT ![r] = outcome]
      /\ Forget(w) /\ Then(w, "weighing")
      /\ UNCHANGED <<offerVars, work, upsets>>

\* The transactions of defer_provider and of cohort_outcome; what the first finds
\* settled stays settled, and an item left waiting is judged as it is.
Weigh(w) ==
  /\ At(w, "weighing")
  /\ UnlessDeferred(w, Judge(w))
  /\ UNCHANGED <<budgetVars, dataVars, upsets>>

\* The proposal is still the pending one; persist_owner_ai_listing makes the offer
\* and marks the run in one transaction, under the source's lock.
MayApply(run, r) ==
  pending[r] = run /\ run # 0 /\ r \notin expired /\ listing[r] = "none"

Persist(by, r) ==
  /\ r \in current
  /\ listing' = [listing EXCEPT ![r] = by]
  /\ pending' = [pending EXCEPT ![r] = 0]
  /\ UNCHANGED <<current, expired, runs, cohort>>

Apply(w) ==
  LET r == task[w].rev
  IN  \/ /\ ~MayApply(task[w].run, r)
         /\ Close(w, "terminal", "validation_or_snapshot")
         /\ UNCHANGED dataVars
      \/ /\ MayApply(task[w].run, r) /\ Persist("worker", r)
         /\ Then(w, "applied") /\ UNCHANGED work
      \/ /\ MayApply(task[w].run, r) /\ r \notin current
         /\ RetryLocal(w) /\ UNCHANGED dataVars

\* What the evidence of a revision supports does not change, nor is a canary that
\* passed undone: the decision is modelled with the application it leads to.
Conclude(w) ==
  LET supported == task[w].rev \in Calibrated
      Keep(reason) == Close(w, "observed", reason) /\ UNCHANGED dataVars
  IN  /\ At(w, "found")
      /\ \/ ~supported /\ Keep("creation_calibration_required")
         \/ supported /\ ~(AutoApply /\ CanaryPassed) /\ Keep("validated_observation")
         \/ supported /\ AutoApply /\ CanaryPassed /\ Apply(w)
      /\ UNCHANGED <<budgetVars, upsets>>

\* The listing is there, and its work is closed by a transaction of its own.
Applied(w) ==
  /\ At(w, "applied") /\ Close(w, "applied", "none")
  /\ UNCHANGED <<budgetVars, dataVars, upsets>>

\* The owner applies what is pending: a listing that cannot be built fails the run.
ApplyByHand(o, r) ==
  /\ At(o, "idle") /\ MayApply(pending[r], r)
  /\ \/ Persist("owner", r)
     \/ /\ pending' = [pending EXCEPT ![r] = 0]
        /\ UNCHANGED <<current, listing, expired, runs, cohort>>
  /\ UNCHANGED <<budgetVars, work, task, upsets>>

\* A process dies: its claim and its reservation stay behind.
Crash(c) ==
  /\ ~At(c, "idle")
  /\ Upset
  /\ Forget(c)
  /\ task' = [task EXCEPT ![c] = Idle]
  /\ UNCHANGED <<dataVars, work>>

-----------------------------------------------------------------------------
Next ==
  \/ Tick \/ ReconcileUnsubmitted \/ Enqueue
  \/ \E r \in Revisions : Supersede(r) \/ Expire(r) \/ Hold(r) \/ Resume(r)
  \/ \E c \in Callers : CallProvider(c) \/ Save(c) \/ Crash(c)
  \/ \E w \in Workers :
       \/ Claim(w) \/ Look(w) \/ Defer(w) \/ Conclude(w) \/ Applied(w) \/ Fault(w)
       \/ Enroll(w) \/ Process(w) \/ Collect(w) \/ Weigh(w)
  \/ \E o \in Owners, r \in Revisions :
       ApplyByHand(o, r) \/ \E k \in Requests : RequestProposal(o, r, k)

Spec == Init /\ [][Next]_vars

-----------------------------------------------------------------------------
\* The queue's rows, the proposals and the callers hold values of their columns.
TypeOK ==
  /\ BudgetTypeOK
  /\ current \subseteq Revisions /\ expired \subseteq Revisions
  /\ listing \in [Revisions -> {"none", "parser", "owner", "worker"}]
  /\ pending \in [Revisions -> 0 .. runs]
  /\ \A r \in Revisions :
       /\ work[r].state \in WorkStates
       /\ work[r].state = "claimed" => work[r].claim # 0
       /\ work[r].claim \in {0, work[r].claims}
  /\ cohort \in [Revisions -> {"none", "open", "held"} \cup Outcome]
  /\ \A c \in Callers :
       task[c].step \in {"calling", "observing", "filling"} <=> call[c].pc # "silent"

\* A listing is made, or a field of one filled, automatically only after enough
\* distinct revisions were observed and validated, however workers overlap, die and
\* are replaced.
CanaryFirst ==
  (\E r \in Revisions : listing[r] = "worker" \/ cohort[r] \in {"filled", "mixed"}) =>
    Cardinality(Validated) >= CanarySize

\* Nothing is listed or filled automatically before the canary is validated.
AutomaticInv == TypeOK /\ CanaryFirst

\* The works that ended for good: not those of a cohort that is still to be tried.
Over == {r \in Revisions :
  /\ work[r].state \in {"observed", "applied", "terminal"}
  /\ work[r].reason = "unsupported_or_failed_proposal" => r \notin Untried}

\* A worker whose claim ran out and was given away writes nothing: only the last
\* claimant ends a work (or the queue, which finds its message gone).  A work that
\* ended is reopened only if nothing was sent for it and its cohort still waits.
OutcomeStays ==
  [][\A r \in Revisions :
       /\ work[r].state \in {"observed", "applied", "terminal"} /\ work'[r] # work[r] =>
            Unsubmitted(r) /\ work'[r].state = "queued"
       /\ work[r].state = "claimed" /\ work'[r].state \notin {"claimed", "superseded"} =>
            \E w \in Workers :
              task[w].rev = r /\ task[w].claim = work[r].claims /\ task'[w] # task[w]]_vars

\* Recovery work is a fenced lease: a lease that ran out is still good until the work is
\* claimed again, and nobody settles anything with an older one, nor work that is over.
Fence == INSTANCE FencedLease WITH
  Items <- Revisions, Open <- Absent, NoToken <- {}, None <- "none",
  result <- [r \in Revisions |-> IF r \in Over THEN work[r] ELSE Absent],
  token <- [r \in Revisions |-> IF work[r].claim = 0 THEN {} ELSE {work[r].claim}],
  claim <- [w \in Workers |->
              IF task[w].claim = 0 THEN [item |-> "none", token |-> {}]
              ELSE [item |-> task[w].rev, token |-> {task[w].claim}]]

ImplementsLease == Fence!Spec

=============================================================================
