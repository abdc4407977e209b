---------------------------- MODULE OfferBackfill ----------------------------
(***************************************************************************)
(* The offer backfill (offer_backfill_command --apply) beside the live     *)
(* worker: it replays the current revision of a source row in a process of *)
(* its own, locking that row but never taking the channel's run lock.      *)
(***************************************************************************)
EXTENDS IngestionProperties

(***************************************************************************)
(* replay_current_revision reads the visibility of the offer first, runs   *)
(* _persist_message, which may find a deletion on file and hide the offer, *)
(* and writes the visibility it read back at the end.                      *)
(***************************************************************************)
Backfill(m) ==
  /\ m \in Stored \ deletedAt
  /\ current[m] \in Candidates
  /\ IF DeletionEvidence(m)
     THEN tombstones' = tombstones \cup {m} /\ deletedAt' = deletedAt \cup {m}
     ELSE UNCHANGED <<tombstones, deletedAt>>
  /\ offer' = [offer EXCEPT ![m] =
       IF @ = "none" /\ ~DeletionEvidence(m) THEN "needs_review" ELSE @]
  /\ UNCHANGED <<current, history, applied, landed, receipt, sourceVars, queue,
                 terminal, failures, taskVars, boundVars>>

BackfillNext == Next \/ \E m \in Messages : Backfill(m)

BackfillSpec == Init /\ [][BackfillNext]_vars

\* A live delete marks the source deleted and recalculates visibility: once the
\* delete event is acknowledged, the message has no listing that is shown or
\* waits to be shown, whatever backfill page was under way.
DeletionHidesListing ==
  \A m \in Messages : DeleteEvent(m) \in terminal => offer[m] \in {"none", "hidden"}
=============================================================================
