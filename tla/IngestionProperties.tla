------------------------ MODULE IngestionProperties ------------------------
(***************************************************************************)
(* What live ingestion promises of the ledger, the receipts and the        *)
(* canonical records.                                                      *)
(***************************************************************************)
EXTENDS TelegramIngestion

StoreTypeOK ==
  /\ current \in [Messages -> Revisions \cup {Absent}]
  /\ history \in [Messages -> SUBSET Revisions]
  /\ deletedAt \subseteq Messages /\ tombstones \subseteq Messages
  /\ offer \in [Messages -> Visibilities]
  /\ applied \in Nat
  /\ landed \subseteq Events
  /\ receipt \in [Events -> Dispositions \cup {Absent}]

LedgerTypeOK ==
  /\ terminal \subseteq landed
  /\ failures \in [Events -> Nat]

SourceTypeOK ==
  /\ posted \in [Messages -> Revisions \cup {Absent}]
  /\ withdrawn \subseteq Messages
  /\ queue \in Seq(Events)

TaskTypeOK ==
  /\ processing \in WorkerTasks \cup {"free"}
  /\ runLock \in Tasks \cup Importers \cup {"free"}
  /\ task \in [Tasks -> [pc : {"idle", "fetched", "waiting", "persist", "mark",
                               "apply", "ack", "failed"},
                         ev : Events \cup {NoEvent}]]
  /\ batch \in [Drainers -> SUBSET landed]
  /\ faults \in Nat /\ runs \in Nat

\* A task under way holds an event of the channel, and one that works under the
\* locks or acknowledges holds an event that is on file.
Working == {"persist", "mark", "apply", "ack", "failed"}

TaskEventsOK ==
  \A a \in Tasks :
    /\ ~At(a, "idle") => task[a].ev \in Events
    /\ task[a].pc \in Working => task[a].ev \in landed

\* The variables hold values of the rows and locks they stand for, and what a
\* task works on is on file.
TypeOK ==
  StoreTypeOK /\ LedgerTypeOK /\ SourceTypeOK /\ TaskTypeOK /\ TaskEventsOK

\* An event is acknowledged (processed_at) only after the receipt of its
\* canonical transaction has committed, whichever task acknowledges it and
\* wherever a process died in between.
TerminalHasReceipt == \A e \in terminal : receipt[e] # Absent

\* What is acknowledged was decided, and every task works on what is on file.
AcknowledgedInv == TypeOK /\ TerminalHasReceipt

\* A receipt is evidence: what it says happened to the source is still on
\* record.  It outlives every later edit, import and deletion.
ReceiptEvidence ==
  \A e \in Events :
    LET m == e.msg r == e.rev
    IN  /\ receipt[e] = "deleted" => m \in tombstones
        /\ receipt[e] = "applied" => r \in history[m]
        /\ receipt[e] = "already_canonical" =>
             \E s \in history[m] : r = s \/ r \in Projections[s]
        /\ receipt[e] = "superseded" => NewerRetained(m, r)

\* A deleted source publishes nothing, and deletion evidence never sits beside
\* a source row that still counts as live.
DeletedStaysHidden ==
  \A m \in Messages :
    /\ m \in deletedAt => offer[m] \in {"none", "hidden"}
    /\ m \in tombstones /\ m \in Stored => m \in deletedAt

\* Once a verified delete event is on file, or the source is marked deleted, no
\* stale poll, sweep, archive replay or import writes the message again.
DeletionFreezesContent ==
  [][\A m \in Messages :
       DeletionEvidence(m) =>
         /\ current'[m] = current[m] /\ history'[m] = history[m]
         /\ m \in deletedAt => m \in deletedAt' /\ offer'[m] = offer[m]]_vars

\* Live and archived upserts never replace a revision by an older one, however
\* late they run; only a batch writer does, and it holds the run lock.
SourceOrderKept ==
  [][\A m \in Stored :
       SourceTime[current'[m]] < SourceTime[current[m]] => runLock \in Importers]_vars

\* A terminal row never reopens or accumulates failures on a late error, and a
\* receipt never changes.
TerminalIsFinal ==
  [][\A e \in Events :
       /\ e \in terminal => e \in terminal' /\ failures'[e] = failures[e]
       /\ receipt[e] # Absent => receipt'[e] = receipt[e]]_vars

\* The data-failure budget of a record is overrun by at most the attempts that
\* were already under way when it ran out.
BudgetHolds ==
  \A e \in Events :
    failures[e] < MaxDataFailures + Cardinality(Tasks \ {"consumer"})

\* A receipt and the applied high-water mark commit together, so the mark never
\* lies below a decided event.
AppliedCoversReceipts ==
  \A e \in Events : receipt[e] # Absent => e.msg <= applied

-----------------------------------------------------------------------------
\* Ingestion implements the promise of CanonicalHistory: one verdict per event,
\* committed together with its only effect, before the event is settled.
History == INSTANCE CanonicalHistory WITH
  content <- current,
  removed <- tombstones \cup deletedAt,
  public <- {m \in Messages : offer[m] = "visible"},
  verdict <- receipt,
  done <- terminal,
  Verdicts <- Dispositions

ImplementsHistory == History!Spec

-----------------------------------------------------------------------------
Quarantined(e) == failures[e] >= MaxDataFailures

\* Whatever was landed is acknowledged or quarantined in the end: no crash, lock
\* contention or stale claim strands a record.
LandedSettles ==
  \A e \in Events : e \in landed ~> e \in terminal \/ Quarantined(e)

\* A deletion at the source reaches a stored message even if its callback was
\* lost in a crash.
DeletionConverges ==
  \A m \in Messages : m \in withdrawn /\ m \in Stored ~> m \in deletedAt

CarriesRevision(m, r) ==
  m \in Stored /\ (current[m] = r \/ r \in Projections[current[m]])

\* What Telegram shows for a message becomes canonical, or its event is
\* quarantined for review, unless the message changes again first.
ContentConverges ==
  \A m \in Messages, r \in Revisions :
    posted[m] = r ~>
      \/ CarriesRevision(m, r) \/ posted[m] # r \/ m \in withdrawn
      \/ \E e \in landed : e.msg = m /\ e.rev = r /\ Quarantined(e)
=============================================================================
