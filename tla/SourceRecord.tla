---------------------------- MODULE SourceRecord ----------------------------
(***************************************************************************)
(* The canonical record of the messages of one Telegram channel, as the    *)
(* transactions of infrastructure/persistence_adapter.py read and write    *)
(* it: the source rows with their retained revisions, the deletion         *)
(* evidence, the primary offers, the original-event ledger and the         *)
(* receipts.  Each operator is the effect of one piece of one transaction; *)
(* TelegramIngestion decides who runs which transaction and when.          *)
(*                                                                         *)
(* A revision is the checksum of one payload.  What the code compares is   *)
(* kept as constants: the source second of a payload (edited_at, or        *)
(* published_at), whether extraction finds a listing in it, and the        *)
(* checksums an old live reconstruction of it would have had.              *)
(***************************************************************************)
EXTENDS Naturals, FiniteSets

CONSTANTS
  Messages,     \* external message ids
  Revisions,    \* payload checksums
  Originals,    \* live payloads without an edit time
  Edits,        \* live payloads with one
  Candidates,   \* the revisions in which extract_listing finds a listing
  SourceTime,   \* [Revisions -> Nat], edited_at or else published_at
  Projections,  \* [Revisions -> SUBSET Revisions], legacy_projection_checksums
  Absent        \* SQL NULL

ASSUME SourceAssumption ==
  /\ Messages \subseteq Nat \ {0}
  /\ Originals \subseteq Revisions
  /\ Edits \subseteq Revisions
  /\ Candidates \subseteq Revisions
  /\ SourceTime \in [Revisions -> Nat]
  /\ Projections \in [Revisions -> SUBSET Revisions]
  /\ Absent \notin Revisions

\* Reconstructing what is a reconstruction already adds nothing to it.
ASSUME ProjectionAssumption ==
  \A r \in Revisions : \A s \in Projections[r] : Projections[s] \subseteq Projections[r]

VARIABLES
  current,      \* source_messages: checksum of the current revision, or Absent
  history,      \* source_message_revisions: every checksum ever stored
  deletedAt,    \* messages whose source row has deleted_at set
  tombstones,   \* telegram_source_tombstones
  offer,        \* visibility of the primary offer of the message
  applied,      \* telegram_channel_progress.applied_high_water_id
  landed,       \* telegram_raw_events: the events that have a row
  receipt       \* telegram_archive_resolutions: disposition per event

canonVars == <<current, history, deletedAt, tombstones, offer>>
storeVars == <<canonVars, applied, landed, receipt>>

Kinds == {"new", "edit", "delete"}

\* One original event: the dedupe key of telegram_raw_events.
Upserts == [kind : {"new", "edit"}, msg : Messages, rev : Revisions]
Deletes == [kind : {"delete"}, msg : Messages, rev : {Absent}]
Events == Upserts \cup Deletes

DeleteEvent(m) == [kind |-> "delete", msg |-> m, rev |-> Absent]

\* Telegram reports an edited message with its edit time.
KindOf(r) == IF r \in Edits THEN "edit" ELSE "new"

Dispositions ==
  {"applied", "already_canonical", "non_candidate", "superseded", "deleted"}

ASSUME ReceiptAssumption == Absent \notin Dispositions

Visibilities == {"none", "needs_review", "visible", "hidden"}

Stored == {m \in Messages : current[m] # Absent}

(***************************************************************************)
(* source_disposition: deletion evidence first, source time second, exact  *)
(* lineage third.  "accept" is its None, "conflict" its raised error.      *)
(***************************************************************************)
DeletionEvidence(m) ==
  m \in tombstones \/ m \in deletedAt \/ DeleteEvent(m) \in landed

NewerRetained(m, r) ==
  \E s \in history[m] : SourceTime[s] > SourceTime[r]

RepairsProjection(m, r) ==
  /\ r \in history[m]
  /\ current[m] \in Projections[r]
  /\ ~NewerRetained(m, r)

\* Mutants of SourceDisposition: an import passes the deletion fence; source time
\* is not compared; equal seconds count as older.
UnfencedDisposition(m, r, ordered) ==
  IF ordered /\ DeletionEvidence(m) THEN "deleted" ELSE "accept"

UnorderedDisposition(m, r, ordered) ==
  IF DeletionEvidence(m) THEN "deleted" ELSE "accept"

TieIsOlderDisposition(m, r, ordered) ==
  IF DeletionEvidence(m) THEN "deleted"
  ELSE IF ~ordered \/ current[m] \in {Absent, r} THEN "accept"
  ELSE IF SourceTime[r] > SourceTime[current[m]] THEN "accept" ELSE "superseded"

SourceDisposition(m, r, ordered) ==
  IF DeletionEvidence(m) THEN "deleted"
  ELSE IF ~ordered \/ current[m] \in {Absent, r} THEN "accept"
  ELSE IF SourceTime[r] < SourceTime[current[m]] THEN "superseded"
  ELSE IF SourceTime[r] > SourceTime[current[m]] THEN "accept"
  ELSE IF r \in Projections[current[m]] THEN "already_canonical"
  ELSE IF RepairsProjection(m, r) THEN "accept"
  ELSE "conflict"

\* The disposition written in the receipt of an accepted upsert.
AcceptedAs(m, r) ==
  IF current[m] = Absent /\ r \notin Candidates THEN "non_candidate"
  ELSE IF current[m] = r THEN "already_canonical"
  ELSE "applied"

\* Mutant: deletion leaves the listing as it is.
DeleteSourceOnly(m) ==
  /\ tombstones' = tombstones \cup {m}
  /\ deletedAt' = IF m \in Stored THEN deletedAt \cup {m} ELSE deletedAt
  /\ UNCHANGED <<current, history, offer>>

(***************************************************************************)
(* _delete_source: the tombstone always, the row and its offers only the   *)
(* first time.                                                             *)
(***************************************************************************)
DeleteSource(m) ==
  /\ tombstones' = tombstones \cup {m}
  /\ IF m \in Stored \ deletedAt
     THEN /\ deletedAt' = deletedAt \cup {m}
          /\ offer' = [offer EXCEPT ![m] = IF @ = "none" THEN @ ELSE "hidden"]
     ELSE UNCHANGED <<deletedAt, offer>>
  /\ UNCHANGED <<current, history>>

\* Mutant: a revision replaces the one before it and is not retained.
StoreUnretained(m, r) ==
  /\ current' = [current EXCEPT ![m] = r]
  /\ offer' = [offer EXCEPT ![m] =
       IF r \in Candidates /\ @ # "visible" THEN "needs_review" ELSE @]
  /\ UNCHANGED <<history, deletedAt, tombstones>>

(***************************************************************************)
(* The accepting half of _persist_message: create, keep or revise the      *)
(* source row, then upsert the primary offer when there is a listing.  A   *)
(* visible offer stays visible; a revision without a listing leaves the    *)
(* offer of the earlier one alone.                                         *)
(***************************************************************************)
StoreRevision(m, r) ==
  /\ current' = [current EXCEPT ![m] = r]
  /\ history' = [history EXCEPT ![m] = @ \cup {r}]
  /\ offer' = [offer EXCEPT ![m] =
       IF r \in Candidates /\ @ # "visible" THEN "needs_review" ELSE @]
  /\ UNCHANGED <<deletedAt, tombstones>>

ReconcileMessage(m, r, ordered) ==
  LET d == SourceDisposition(m, r, ordered)
  IN  /\ d # "conflict"
      /\ IF d = "deleted" THEN DeleteSource(m)
         ELSE IF d = "accept" THEN StoreRevision(m, r)
         ELSE UNCHANGED canonVars

\* Mutant: a later delivery of an event rewrites its receipt.
RewriteResolution(e, d) == receipt' = [receipt EXCEPT ![e] = d]

\* write_resolution: the first receipt of an event is final.
WriteResolution(e, d) ==
  receipt' = IF receipt[e] = Absent THEN [receipt EXCEPT ![e] = d] ELSE receipt

\* Mutant: the mark is the highest stored row and forgets the event itself.
AdvanceToStored(m) ==
  LET marks == {applied} \cup {x \in Messages : current'[x] # Absent}
  IN  \E high \in marks :
        /\ \A x \in marks : x <= high
        /\ applied' = high

\* advance_applied: GREATEST of the mark, the event and the stored rows.  The
\* rows are read after the canonical write of the same transaction.
AdvanceApplied(m) ==
  LET marks == {applied, m} \cup {x \in Messages : current'[x] # Absent}
  IN  \E high \in marks :
        /\ \A x \in marks : x <= high
        /\ applied' = high

(***************************************************************************)
(* persist_live_upsert, mark_source_deleted and persist_archived_event     *)
(* commit the same canonical effect, high-water mark and receipt together. *)
(***************************************************************************)
Resolution(e) ==
  IF e.kind = "delete" THEN "deleted"
  ELSE LET d == SourceDisposition(e.msg, e.rev, TRUE)
       IN  IF d = "accept" THEN AcceptedAs(e.msg, e.rev) ELSE d

CommitEvent(e) ==
  /\ IF e.kind = "delete" THEN DeleteSource(e.msg)
     ELSE ReconcileMessage(e.msg, e.rev, TRUE)
  /\ WriteResolution(e, Resolution(e))
  /\ AdvanceApplied(e.msg)
  /\ UNCHANGED landed

Conflicts(e) == Resolution(e) = "conflict"
=============================================================================
