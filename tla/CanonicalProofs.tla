--------------------------- MODULE CanonicalProofs ---------------------------
(***************************************************************************)
(* The safety properties of the canonical record, for every channel.  Each *)
(* follows from StepEffect: a property of the records is disturbed only by *)
(* an event that commits, a batch writer, or one of the two offer writers. *)
(* In the end, the ingestion implements the abstract CanonicalHistory.     *)
(***************************************************************************)
EXTENDS IngestionProofs, FiniteSetTheorems

\* A commit is one of three things to the message of its event.
LEMMA CommitCases ==
  ASSUME NEW e \in Events, ~Conflicts(e), CommitEvent(e)
  PROVE  \/ Resolution(e) = "deleted" /\ DeleteSource(e.msg)
         \/ /\ Resolution(e) = AcceptedAs(e.msg, e.rev)
            /\ e.rev \in Revisions
            /\ SourceDisposition(e.msg, e.rev, TRUE) = "accept"
            /\ StoreRevision(e.msg, e.rev)
         \/ /\ Resolution(e) \in {"superseded", "already_canonical"}
            /\ e.rev \in Revisions
            /\ SourceDisposition(e.msg, e.rev, TRUE) = Resolution(e)
            /\ UNCHANGED canonVars
<1>1. CASE e.kind = "delete"
  BY <1>1 DEF CommitEvent, Resolution
<1>2. CASE e.kind # "delete"
  <2>1. SourceDisposition(e.msg, e.rev, TRUE) \in
          {"deleted", "accept", "superseded", "already_canonical", "conflict"}
    BY DEF SourceDisposition
  <2> QED
    BY <1>2, <2>1, EventFields
    DEF CommitEvent, Resolution, Conflicts, ReconcileMessage
<1> QED
  BY <1>1, <1>2

\* A batch writer deletes, accepts or leaves alone one message.
LEMMA BatchCases ==
  ASSUME BatchWrite
  PROVE  \E m \in Messages, r \in ExportRevisions :
           /\ r \in Revisions
           /\ \/ DeletionEvidence(m) /\ DeleteSource(m)
              \/ ~DeletionEvidence(m) /\ StoreRevision(m, r)
<1> PICK m \in Messages, r \in ExportRevisions : ReconcileMessage(m, r, FALSE)
  BY DEF BatchWrite
<1>1. r \in Revisions
  BY IngestionAssumption
<1>2. SourceDisposition(m, r, FALSE) = IF DeletionEvidence(m) THEN "deleted" ELSE "accept"
  BY DEF SourceDisposition
<1> QED
  BY <1>1, <1>2 DEF ReconcileMessage

-----------------------------------------------------------------------------
(***************************************************************************)
(* Receipts and acknowledgements.                                          *)
(***************************************************************************)
LEMMA ReceiptsAreFinal ==
  ASSUME TypeOK, [Next]_vars, NEW e \in Events, receipt[e] # Absent
  PROVE  receipt'[e] = receipt[e]
<1>1. CASE \E f \in Events : CommitEvent(f)
  BY <1>1 DEF CommitEvent, WriteResolution, TypeOK, StoreTypeOK
<1> QED
  BY <1>1, StepEffect DEF StoreEffect, Quiet, BatchWrite, Promote, OwnerApply

\* The commit of an event leaves a receipt of it, its own or an earlier one.
LEMMA CommitWritesReceipt ==
  ASSUME TypeOK, NEW e \in Events, ~Conflicts(e), CommitEvent(e)
  PROVE  receipt'[e] # Absent
BY ResolutionTypes, ReceiptAssumption
DEF CommitEvent, WriteResolution, TypeOK, StoreTypeOK

\* What a task is about to acknowledge has its receipt.
Acknowledging == {"mark", "ack"}

AcknowledgesReceipts ==
  \A a \in Tasks : task[a].pc \in Acknowledging => receipt[task[a].ev] # Absent

\* Other than by committing or returning a receipt, no step brings a task to the
\* point of acknowledging.
Kept == \A b \in Tasks : task'[b].pc \in Acknowledging => task'[b] = task[b]

LEMMA AcknowledgingKept ==
  ASSUME TypeOK, [Next]_vars,
         ~\E a \in Tasks : PersistLive(a) \/ ApplyArchive(a)
  PROVE  Kept
<1> USE DEF Kept, Acknowledging
<1>0. task \in [Tasks -> [pc : {"idle", "fetched", "waiting", "persist", "mark",
                                "apply", "ack", "failed"},
                          ev : Events \cup {NoEvent}]]
  BY DEF TypeOK, TaskTypeOK
<1>1. UNCHANGED task => Kept
  OBVIOUS
<1>2. WorkerExit => Kept
  BY <1>0 DEF WorkerExit, Idle
<1>3. ASSUME NEW a \in Tasks, Deferred(a)
      PROVE  Kept
  BY <1>0, <1>2, <1>3 DEF Deferred, Idle
<1>4. ASSUME NEW a \in LiveTasks, NEW e \in Events, BeginLive(a, e)
      PROVE  Kept
  <2>1. a \in Tasks
    BY DEF Tasks, WorkerTasks
  <2> QED
    BY <1>0, <1>3, <1>4, <2>1 DEF BeginLive
<1>5. Environment \/ Catalog \/ Import => UNCHANGED task
  BY DEF Environment, Post, Edit, Withdraw, Catalog, Promote, OwnerApply, SeedArchive,
         Import, ImportStart, ImportMessage, ImportEnd, taskVars
<1>6. Live => Kept
  <2>1. queue # <<>> => Head(queue) \in Events
    BY DEF TypeOK, SourceTypeOK
  <2>2. At("reconciler", "waiting") => task["reconciler"].ev \in Events
    BY DEF TypeOK, TaskEventsOK, At, Tasks, WorkerTasks, LiveTasks
  <2>3. ConsumerTake \/ ReconcilerBegin => Kept
    BY <1>4, <2>1, <2>2 DEF ConsumerTake, ReconcilerBegin, LiveTasks
  <2>4. LandObservation => Kept
    BY <1>0 DEF LandObservation, Idle, At
  <2>5. \A e : Observe(e) => Kept
    BY <1>0 DEF Observe
  <2> QED
    BY <2>3, <2>4, <2>5 DEF Live, Poll, Sweep
<1>7. Drain => Kept
  <2>1. ASSUME NEW d \in Drainers, NEW e,
               task' = [task EXCEPT ![d] = [pc |-> "apply", ev |-> e]]
        PROVE  Kept
    BY <1>0, <2>1
  <2> QED
    BY <1>1, <2>1 DEF Drain, Claim, StartRecord
<1>8. Fault => Kept
  <2>1. \A o \in Operators : OperatorCrash(o) => Kept
    BY <1>0 DEF OperatorCrash, Idle
  <2> QED
    BY <1>2, <1>3, <2>1 DEF Fault, WorkerCrash, TransientFailure
<1>9. ASSUME NEW a \in Tasks, MarkLive(a) \/ Acknowledge(a) \/ RecordFailure(a)
      PROVE  Kept
  BY <1>0, <1>9 DEF MarkLive, Acknowledge, RecordFailure, Idle
<1>10. UNCHANGED vars => Kept
  BY <1>1 DEF vars
<1> QED
  BY <1>1, <1>5, <1>6, <1>7, <1>8, <1>9, <1>10 DEF Next, Proceed

\* A task that commits brings the event it holds, with a receipt, to the point of
\* acknowledging.
LEMMA CommitAcknowledges ==
  ASSUME TypeOK, NEW a \in Tasks, PersistLive(a) \/ ApplyArchive(a),
         NEW b \in Tasks, task'[b].pc \in Acknowledging
  PROVE  \/ task'[b] = task[b]
         \/ task'[b].ev \in Events /\ receipt'[task'[b].ev] # Absent
<1> USE DEF Acknowledging
<1>0. task \in [Tasks -> [pc : {"idle", "fetched", "waiting", "persist", "mark",
                                "apply", "ack", "failed"},
                          ev : Events \cup {NoEvent}]]
  BY DEF TypeOK, TaskTypeOK
<1>1. task[a].ev \in Events
  BY DEF PersistLive, ApplyArchive, At, TypeOK, TaskEventsOK
<1>2. CASE FailData(a)
  BY <1>0, <1>2 DEF FailData, WorkerExit, Idle
<1>3. CASE ~FailData(a)
  <2>1. /\ receipt'[task[a].ev] # Absent
        /\ \/ task' = [task EXCEPT ![a].pc = "mark"]
           \/ task' = [task EXCEPT ![a].pc = "ack"]
    <3>1. CASE CommitEvent(task[a].ev) /\ ~Conflicts(task[a].ev)
      BY <1>1, <1>3, <3>1, CommitWritesReceipt DEF PersistLive, ApplyArchive
    <3>2. CASE receipt[task[a].ev] # Absent /\ UNCHANGED storeVars /\ ApplyArchive(a)
      BY <1>3, <3>2 DEF ApplyArchive, storeVars
    <3> QED
      BY <1>3, <3>1, <3>2 DEF PersistLive, ApplyArchive
  <2> QED
    BY <1>0, <1>1, <2>1
<1> QED
  BY <1>2, <1>3

ReceiptInv == TypeOK /\ TerminalHasReceipt /\ AcknowledgesReceipts

LEMMA InitReceipts == Init => ReceiptInv
BY InitTypes DEF Init, ReceiptInv, TerminalHasReceipt, AcknowledgesReceipts,
                 Acknowledging, Idle

LEMMA ReceiptStep ==
  ASSUME ReceiptInv, [Next]_vars
  PROVE  ReceiptInv'
<1> USE DEF ReceiptInv
<1>1. TypeOK'
  BY StoreTypes, LedgerTypes, QueueTypes, TaskTypes DEF TypeOK
<1>2. ASSUME NEW b \in Tasks, task'[b].pc \in Acknowledging
      PROVE  receipt'[task'[b].ev] # Absent
  <2>1. CASE task'[b] = task[b]
    <3>1. task[b].ev \in Events /\ receipt[task[b].ev] # Absent
      BY <1>2, <2>1 DEF AcknowledgesReceipts, Acknowledging, TypeOK, TaskEventsOK, At
    <3> QED
      BY <2>1, <3>1, ReceiptsAreFinal
  <2> QED
    BY <1>2, <2>1, AcknowledgingKept, CommitAcknowledges DEF Kept
<1>3. ASSUME NEW e \in terminal'
      PROVE  receipt'[e] # Absent
  <2>1. terminal \subseteq Events
    BY DEF TypeOK, LedgerTypeOK, StoreTypeOK
  <2>2. CASE e \in terminal
    BY <2>1, <2>2, ReceiptsAreFinal DEF TerminalHasReceipt
  <2>3. CASE e \notin terminal
    <3>1. PICK a \in Tasks : (MarkLive(a) \/ Acknowledge(a)) /\ e = task[a].ev
      BY <1>3, <2>3, LedgerEffect DEF MarkLive, Acknowledge, RecordFailure
    <3>2. task[a].ev \in Events /\ receipt[task[a].ev] # Absent
      BY <3>1 DEF AcknowledgesReceipts, Acknowledging, MarkLive, Acknowledge, At,
                  TypeOK, TaskEventsOK
    <3> QED
      BY <3>1, <3>2, ReceiptsAreFinal
  <2> QED
    BY <2>2, <2>3
<1> QED
  BY <1>1, <1>2, <1>3 DEF TerminalHasReceipt, AcknowledgesReceipts

\* No event is acknowledged before the receipt of its canonical transaction is
\* on file, and all that a task works on is on file as well.
THEOREM AcknowledgedAfterCommit == Spec => []AcknowledgedInv
<1>1. ReceiptInv /\ [Next]_vars => ReceiptInv'
  BY ReceiptStep
<1>2. ReceiptInv => AcknowledgedInv
  BY DEF ReceiptInv, AcknowledgedInv
<1> QED
  BY <1>1, <1>2, InitReceipts, PTL DEF Spec

\* Acknowledgements, failure counts of acknowledged events and receipts are final.
THEOREM TerminalStaysFinal == Spec => TerminalIsFinal
<1> DEFINE Final ==
      \A e \in Events :
        /\ e \in terminal => e \in terminal' /\ failures'[e] = failures[e]
        /\ receipt[e] # Absent => receipt'[e] = receipt[e]
<1>1. TypeOK /\ [Next]_vars => [Final]_vars
  <2> SUFFICES ASSUME TypeOK, [Next]_vars, NEW e \in Events
               PROVE  /\ e \in terminal => e \in terminal' /\ failures'[e] = failures[e]
                      /\ receipt[e] # Absent => receipt'[e] = receipt[e]
    OBVIOUS
  <2>1. e \in terminal => e \in terminal' /\ failures'[e] = failures[e]
    BY LedgerEffect DEF MarkLive, Acknowledge, RecordFailure, TypeOK, LedgerTypeOK
  <2> QED
    BY <2>1, ReceiptsAreFinal
<1> QED
  BY <1>1, TypeCorrect, PTL DEF Spec, TerminalIsFinal

-----------------------------------------------------------------------------
(***************************************************************************)
(* Deletion.                                                               *)
(***************************************************************************)
HiddenInv == StoreTypeOK /\ DeletedStaysHidden

LEMMA DeleteKeepsHidden ==
  ASSUME HiddenInv, NEW m \in Messages, DeleteSource(m)
  PROVE  DeletedStaysHidden'
BY DEF HiddenInv, StoreTypeOK, DeletedStaysHidden, DeleteSource, Stored

LEMMA StoreKeepsHidden ==
  ASSUME HiddenInv, NEW m \in Messages, NEW r \in Revisions,
         ~DeletionEvidence(m), StoreRevision(m, r)
  PROVE  DeletedStaysHidden'
BY DEF HiddenInv, StoreTypeOK, DeletedStaysHidden, DeletionEvidence, StoreRevision, Stored

LEMMA HiddenStep ==
  ASSUME TypeOK, DeletedStaysHidden, [Next]_vars
  PROVE  DeletedStaysHidden'
<1>0. HiddenInv
  BY DEF HiddenInv, TypeOK
<1>1. UNCHANGED canonVars => DeletedStaysHidden'
  BY DEF canonVars, DeletedStaysHidden, Stored
<1>2. ASSUME NEW e \in Events, ~Conflicts(e), CommitEvent(e)
      PROVE  DeletedStaysHidden'
  BY <1>0, <1>1, <1>2, CommitCases, EventFields, DeleteKeepsHidden, StoreKeepsHidden
  DEF SourceDisposition
<1>3. BatchWrite => DeletedStaysHidden'
  BY <1>0, BatchCases, DeleteKeepsHidden, StoreKeepsHidden
<1>4. Promote => DeletedStaysHidden'
  BY <1>0 DEF Promote, HiddenInv, StoreTypeOK, DeletedStaysHidden, Stored
<1>5. \A m \in Messages : OwnerApply(m) => DeletedStaysHidden'
  BY <1>0 DEF OwnerApply, HiddenInv, StoreTypeOK, DeletedStaysHidden, Stored
<1> QED
  BY <1>1, <1>2, <1>3, <1>4, <1>5, StepEffect DEF StoreEffect, Quiet

LEMMA InitHidden == Init => DeletedStaysHidden
<1> SUFFICES ASSUME Init PROVE DeletedStaysHidden
  OBVIOUS
<1> PICK legacy \in [Messages -> LegacyRecords] :
      /\ offer = [m \in Messages |-> legacy[m].offer]
      /\ deletedAt = {m \in Messages : legacy[m].deleted}
  BY DEF Init
<1>1. \A m \in Messages : WellFormed(legacy[m])
  BY LegacyAssumption
<1>2. tombstones = {}
  BY DEF Init
<1> QED
  BY <1>1, <1>2 DEF WellFormed, DeletedStaysHidden

\* No listing of a deleted source is public, in any interleaving of deletions,
\* imports, promotions and owner proposals.
THEOREM DeletedHidden == Spec => []DeletedStaysHidden
<1>1. TypeOK /\ DeletedStaysHidden /\ [Next]_vars => DeletedStaysHidden'
  BY HiddenStep
<1> QED
  BY <1>1, InitHidden, TypeCorrect, PTL DEF Spec

Frozen ==
  \A m \in Messages :
    DeletionEvidence(m) =>
      /\ current'[m] = current[m] /\ history'[m] = history[m]
      /\ m \in deletedAt => m \in deletedAt' /\ offer'[m] = offer[m]

LEMMA FrozenStep ==
  ASSUME TypeOK, DeletedStaysHidden, [Next]_vars
  PROVE  Frozen
<1>0. StoreTypeOK
  BY DEF TypeOK
<1>1. UNCHANGED canonVars => Frozen
  BY DEF canonVars, Frozen
<1>2. ASSUME NEW m \in Messages, DeleteSource(m)
      PROVE  Frozen
  BY <1>0, <1>2 DEF DeleteSource, Frozen, StoreTypeOK
<1>3. ASSUME NEW m \in Messages, NEW r \in Revisions, ~DeletionEvidence(m),
             StoreRevision(m, r)
      PROVE  Frozen
  BY <1>0, <1>3 DEF StoreRevision, Frozen, StoreTypeOK, DeletionEvidence
<1>4. ASSUME NEW e \in Events, ~Conflicts(e), CommitEvent(e)
      PROVE  Frozen
  BY <1>1, <1>2, <1>3, <1>4, CommitCases, EventFields DEF SourceDisposition
<1>5. BatchWrite => Frozen
  BY <1>2, <1>3, BatchCases
<1>6. Promote => Frozen
  BY <1>0 DEF Promote, DeletedStaysHidden, Frozen, StoreTypeOK
<1>7. \A m \in Messages : OwnerApply(m) => Frozen
  BY <1>0 DEF OwnerApply, Frozen, StoreTypeOK
<1> QED
  BY <1>1, <1>4, <1>5, <1>6, <1>7, StepEffect DEF StoreEffect, Quiet

\* A message with deletion evidence keeps its content and its hidden listing in
\* every later step.
THEOREM DeletionFreezes == Spec => DeletionFreezesContent
<1>1. TypeOK /\ DeletedStaysHidden /\ [Next]_vars => [Frozen]_vars
  BY FrozenStep
<1>2. Spec => [][Frozen]_vars
  BY <1>1, TypeCorrect, DeletedHidden, PTL DEF Spec
<1> QED
  BY <1>2 DEF DeletionFreezesContent, Frozen

-----------------------------------------------------------------------------
(***************************************************************************)
(* Receipts as evidence.                                                   *)
(***************************************************************************)
CurrentRetained == \A m \in Stored : current[m] \in history[m]

EvidenceInv == TypeOK /\ CurrentRetained /\ ReceiptEvidence

\* Retained history and deletion evidence only grow.
LEMMA EvidenceGrows ==
  ASSUME TypeOK, CurrentRetained, [Next]_vars
  PROVE  /\ \A m \in Messages : history[m] \subseteq history'[m]
         /\ tombstones \subseteq tombstones'
         /\ CurrentRetained'
<1> DEFINE Grown == /\ \A m \in Messages : history[m] \subseteq history'[m]
                    /\ tombstones \subseteq tombstones'
                    /\ CurrentRetained'
<1>0. StoreTypeOK
  BY DEF TypeOK
<1>1. UNCHANGED <<current, history, tombstones>> => Grown
  BY DEF CurrentRetained, Stored
<1>2. ASSUME NEW m \in Messages, DeleteSource(m)
      PROVE  Grown
  BY <1>0, <1>2 DEF DeleteSource, CurrentRetained, Stored
<1>3. ASSUME NEW m \in Messages, NEW r \in Revisions, StoreRevision(m, r)
      PROVE  Grown
  BY <1>0, <1>3 DEF StoreRevision, StoreTypeOK, CurrentRetained, Stored
<1>4. ASSUME NEW e \in Events, ~Conflicts(e), CommitEvent(e)
      PROVE  Grown
  BY <1>1, <1>2, <1>3, <1>4, CommitCases, EventFields DEF canonVars
<1>5. BatchWrite => Grown
  BY <1>2, <1>3, BatchCases
<1> QED
  BY <1>1, <1>4, <1>5, StepEffect DEF StoreEffect, Quiet, Promote, OwnerApply, canonVars

\* What the receipt of one event is evidence of.
Proven(e, d) ==
  LET m == e.msg r == e.rev
  IN  /\ d = "deleted" => m \in tombstones
      /\ d = "applied" => r \in history[m]
      /\ d = "already_canonical" => \E s \in history[m] : r = s \/ r \in Projections[s]
      /\ d = "superseded" => NewerRetained(m, r)

LEMMA CommitProves ==
  ASSUME TypeOK, CurrentRetained, NEW e \in Events, ~Conflicts(e), CommitEvent(e),
         NEW d \in Dispositions, d = Resolution(e)
  PROVE  Proven(e, d)'
<1>0. e.msg \in Messages /\ StoreTypeOK
  BY EventFields DEF TypeOK
<1>1. CASE d = "deleted" /\ DeleteSource(e.msg)
  BY <1>1 DEF DeleteSource, Proven
<1>2. CASE /\ d = AcceptedAs(e.msg, e.rev)
           /\ e.rev \in Revisions
           /\ StoreRevision(e.msg, e.rev)
  <2>1. e.rev \in history'[e.msg] /\ d \in {"non_candidate", "already_canonical", "applied"}
    BY <1>0, <1>2 DEF StoreRevision, StoreTypeOK, AcceptedAs
  <2> QED
    BY <2>1 DEF Proven
<1>3. CASE /\ d \in {"superseded", "already_canonical"}
           /\ e.rev \in Revisions
           /\ SourceDisposition(e.msg, e.rev, TRUE) = d
           /\ UNCHANGED canonVars
  <2>1. current[e.msg] # Absent
    BY <1>3 DEF SourceDisposition
  <2>2. current[e.msg] \in history[e.msg]
    BY <1>0, <2>1 DEF CurrentRetained, Stored
  <2>3. d = "already_canonical" => e.rev \in Projections[current[e.msg]]
    BY <1>3 DEF SourceDisposition
  <2>4. d = "superseded" => SourceTime[e.rev] < SourceTime[current[e.msg]]
    BY <1>3 DEF SourceDisposition
  <2>5. d = "superseded" => SourceTime[current[e.msg]] > SourceTime[e.rev]
    <3>1. e.rev \in Revisions /\ current[e.msg] \in Revisions
      BY <1>0, <1>3, <2>1 DEF StoreTypeOK
    <3> QED
      BY <2>4, <3>1, SourceAssumption
  <2> QED
    BY <1>3, <2>2, <2>3, <2>5 DEF Proven, NewerRetained, canonVars
<1> QED
  BY <1>1, <1>2, <1>3, CommitCases

\* Evidence once on record stays on record.
LEMMA ProofStays ==
  ASSUME TypeOK, CurrentRetained, [Next]_vars,
         NEW e \in Events, NEW d, Proven(e, d)
  PROVE  Proven(e, d)'
BY EvidenceGrows, EventFields DEF Proven, NewerRetained

LEMMA EvidenceStep ==
  ASSUME EvidenceInv, [Next]_vars
  PROVE  EvidenceInv'
<1> USE DEF EvidenceInv
<1>1. TypeOK'
  BY StoreTypes, LedgerTypes, QueueTypes, TaskTypes DEF TypeOK
<1>2. CurrentRetained'
  BY EvidenceGrows
<1>3. \A e \in Events : Proven(e, receipt[e])
  BY DEF ReceiptEvidence, Proven
<1>4. ASSUME NEW e \in Events
      PROVE  \/ receipt'[e] = receipt[e]
             \/ /\ CommitEvent(e) /\ ~Conflicts(e)
                /\ receipt'[e] = Resolution(e)
  <2>1. ASSUME NEW f \in Events, ~Conflicts(f), CommitEvent(f)
        PROVE  \/ receipt'[e] = receipt[e]
               \/ e = f /\ receipt'[e] = Resolution(e)
    BY <2>1 DEF CommitEvent, WriteResolution, TypeOK, StoreTypeOK
  <2> QED
    BY <2>1, StepEffect DEF StoreEffect, Quiet, BatchWrite, Promote, OwnerApply
<1>5. ASSUME NEW e \in Events, NEW d, d = receipt'[e]
      PROVE  Proven(e, d)'
  BY <1>3, <1>4, <1>5, ProofStays, CommitProves, ResolutionTypes
<1>6. ReceiptEvidence'
  BY <1>5 DEF ReceiptEvidence, Proven
<1> QED
  BY <1>1, <1>2, <1>6

\* What any receipt says happened to a source is still on record.
THEOREM ReceiptsAreEvidence == Spec => []ReceiptEvidence
<1>1. Init => CurrentRetained /\ ReceiptEvidence
  <2> SUFFICES ASSUME Init PROVE CurrentRetained /\ ReceiptEvidence
    OBVIOUS
  <2> PICK legacy \in [Messages -> LegacyRecords] :
        /\ current = [m \in Messages |-> legacy[m].current]
        /\ history = [m \in Messages |-> legacy[m].history]
    BY DEF Init
  <2>1. \A m \in Messages : WellFormed(legacy[m])
    BY LegacyAssumption
  <2>2. CurrentRetained
    BY <2>1 DEF WellFormed, CurrentRetained, Stored
  <2>3. \A e \in Events : receipt[e] = Absent
    BY DEF Init
  <2>4. ReceiptEvidence
    BY <2>3, ReceiptAssumption DEF ReceiptEvidence, Dispositions
  <2> QED
    BY <2>2, <2>4
<1>2. EvidenceInv /\ [Next]_vars => EvidenceInv'
  BY EvidenceStep
<1> QED
  BY <1>1, <1>2, InitTypes, PTL DEF Spec, EvidenceInv
-----------------------------------------------------------------------------
(***************************************************************************)
(* Source order and the high-water mark.                                   *)
(***************************************************************************)
Ordered ==
  \A m \in Stored :
    SourceTime[current'[m]] < SourceTime[current[m]] => runLock \in Importers

LEMMA AcceptedIsNotOlder ==
  ASSUME StoreTypeOK, NEW m \in Stored, NEW r \in Revisions,
         SourceDisposition(m, r, TRUE) = "accept"
  PROVE  ~(SourceTime[r] < SourceTime[current[m]])
<1>1. current[m] \in Revisions
  BY DEF Stored, StoreTypeOK
<1> QED
  BY <1>1, SourceAssumption DEF SourceDisposition, Stored

\* No step other than a batch writer's takes a message back in source time.
THEOREM SourceOrder == Spec => SourceOrderKept
<1>1. TypeOK /\ [Next]_vars => [Ordered]_vars
  <2> SUFFICES ASSUME TypeOK, [Next]_vars PROVE Ordered
    OBVIOUS
  <2>0. StoreTypeOK
    BY DEF TypeOK
  <2>1. UNCHANGED current => Ordered
    BY <2>0, SourceAssumption DEF Ordered, Stored, StoreTypeOK
  <2>2. ASSUME NEW e \in Events, ~Conflicts(e), CommitEvent(e)
        PROVE  Ordered
    <3>1. CASE /\ e.rev \in Revisions
               /\ SourceDisposition(e.msg, e.rev, TRUE) = "accept"
               /\ StoreRevision(e.msg, e.rev)
      <4>1. \A m \in Stored : m # e.msg => current'[m] = current[m]
        BY <2>0, <3>1 DEF StoreRevision, Stored, StoreTypeOK
      <4>2. e.msg \in Stored => current'[e.msg] = e.rev
        BY <2>0, <3>1 DEF StoreRevision, Stored, StoreTypeOK
      <4>3. \A m \in Stored : ~(SourceTime[current[m]] < SourceTime[current[m]])
        BY <2>0, SourceAssumption DEF Stored, StoreTypeOK
      <4> QED
        BY <2>0, <3>1, <4>1, <4>2, <4>3, AcceptedIsNotOlder DEF Ordered
    <3> QED
      BY <2>1, <2>2, <3>1, CommitCases DEF DeleteSource, canonVars
  <2>3. BatchWrite => Ordered
    BY DEF BatchWrite, Ordered
  <2> QED
    BY <2>1, <2>2, <2>3, StepEffect DEF StoreEffect, Quiet, Promote, OwnerApply, canonVars
<1>2. Spec => [][Ordered]_vars
  BY <1>1, TypeCorrect, PTL DEF Spec
<1> QED
  BY <1>2 DEF SourceOrderKept, Ordered

\* The high-water mark covers every decided event.
THEOREM AppliedIsSafe == Spec => []AppliedCoversReceipts
<1>1. Init => AppliedCoversReceipts
  BY DEF Init, AppliedCoversReceipts
<1>2. ASSUME TypeOK, AppliedCoversReceipts, [Next]_vars
      PROVE  AppliedCoversReceipts'
  <2>0. StoreTypeOK /\ applied \in Nat
    BY <1>2 DEF TypeOK, StoreTypeOK
  <2>1. UNCHANGED <<applied, receipt>> => AppliedCoversReceipts'
    BY <1>2 DEF AppliedCoversReceipts
  <2>2. ASSUME NEW e \in Events, ~Conflicts(e), CommitEvent(e)
        PROVE  AppliedCoversReceipts'
    <3>1. e.msg \in Nat /\ \A f \in Events : f.msg \in Nat
      BY EventFields, SourceAssumption
    <3>2. applied' \in Nat /\ applied <= applied' /\ e.msg <= applied'
      BY <2>0, <2>2, <3>1, SourceAssumption DEF CommitEvent, AdvanceApplied
    <3>3. \A f \in Events : receipt'[f] # Absent => receipt[f] # Absent \/ f = e
      BY <2>0, <2>2 DEF CommitEvent, WriteResolution, StoreTypeOK
    <3> QED
      BY <1>2, <2>0, <3>1, <3>2, <3>3 DEF AppliedCoversReceipts
  <2> QED
    BY <1>2, <2>1, <2>2, StepEffect DEF StoreEffect, Quiet, BatchWrite, Promote, OwnerApply
<1> QED
  BY <1>1, <1>2, TypeCorrect, PTL DEF Spec

-----------------------------------------------------------------------------
(***************************************************************************)
(* Live ingestion implements CanonicalHistory: each transaction of         *)
(* TelegramIngestion is one step of the abstract history, or none.         *)
(***************************************************************************)
\* Only a stored message has a listing.
UnstoredUnlisted == \A m \in Messages : m \notin Stored => offer[m] = "none"

HistoryInv == ReceiptInv /\ DeletedStaysHidden /\ UnstoredUnlisted

removed == tombstones \cup deletedAt
public == {m \in Messages : offer[m] = "visible"}
historyVars == <<current, removed, public, receipt, terminal>>

LEMMA UnlistedStep ==
  ASSUME TypeOK, UnstoredUnlisted, [Next]_vars
  PROVE  UnstoredUnlisted'
<1>0. StoreTypeOK
  BY DEF TypeOK
<1> USE DEF UnstoredUnlisted, Stored, StoreTypeOK
<1>1. UNCHANGED <<current, offer>> => UnstoredUnlisted'
  OBVIOUS
<1>2. ASSUME NEW m \in Messages, DeleteSource(m)
      PROVE  UnstoredUnlisted'
  BY <1>0, <1>2 DEF DeleteSource
<1>3. ASSUME NEW m \in Messages, NEW r \in Revisions, StoreRevision(m, r)
      PROVE  UnstoredUnlisted'
  BY <1>0, <1>3, SourceAssumption DEF StoreRevision
<1>4. ASSUME NEW e \in Events, ~Conflicts(e), CommitEvent(e)
      PROVE  UnstoredUnlisted'
  BY <1>1, <1>2, <1>3, <1>4, CommitCases, EventFields DEF canonVars
<1>5. BatchWrite => UnstoredUnlisted'
  BY <1>2, <1>3, BatchCases
<1>6. Promote => UnstoredUnlisted'
  BY <1>0 DEF Promote
<1>7. \A m \in Messages : OwnerApply(m) => UnstoredUnlisted'
  BY <1>0 DEF OwnerApply
<1> QED
  BY <1>1, <1>4, <1>5, <1>6, <1>7, StepEffect DEF StoreEffect, Quiet, canonVars

-----------------------------------------------------------------------------
(***************************************************************************)
(* The two canonical effects as steps of the abstract history.             *)
(***************************************************************************)
LEMMA DeleteRemoves ==
  ASSUME HistoryInv, NEW m \in Messages, DeleteSource(m)
  PROVE  History!Remove(m)
<1>0. StoreTypeOK
  BY DEF HistoryInv, ReceiptInv, TypeOK
<1>1. current' = current
  BY DEF DeleteSource
<1>2. removed' = removed \cup {m}
  BY DEF DeleteSource, removed
<1>3. offer'[m] # "visible"
  BY <1>0 DEF DeleteSource, HistoryInv, UnstoredUnlisted, DeletedStaysHidden, StoreTypeOK
<1>4. \A x \in Messages \ {m} : offer'[x] = offer[x]
  BY <1>0 DEF DeleteSource, StoreTypeOK
<1>5. public' = public \ {m}
  BY <1>3, <1>4 DEF public
<1> QED
  BY <1>1, <1>2, <1>5 DEF History!Remove, removed, public

LEMMA StoreWrites ==
  ASSUME StoreTypeOK, NEW m \in Messages, NEW r \in Revisions,
         ~DeletionEvidence(m), StoreRevision(m, r)
  PROVE  History!Write(m, r)
<1>1. m \notin removed
  BY DEF DeletionEvidence, removed
<1>2. current' = [current EXCEPT ![m] = r] /\ removed' = removed
  BY DEF StoreRevision, removed
<1>3. \A x \in Messages : offer'[x] = "visible" <=> offer[x] = "visible"
  BY DEF StoreRevision, StoreTypeOK
<1>4. public' = public
  BY <1>3 DEF public
<1> QED
  BY <1>1, <1>2, <1>4 DEF History!Write, removed, public

\* What Init says of the abstract state.
LEMMA InitMaps == Init => History!Init /\ UnstoredUnlisted
<1> SUFFICES ASSUME Init PROVE History!Init /\ UnstoredUnlisted
  OBVIOUS
<1> PICK legacy \in [Messages -> LegacyRecords] :
      /\ current = [m \in Messages |-> legacy[m].current]
      /\ offer = [m \in Messages |-> legacy[m].offer]
      /\ deletedAt = {m \in Messages : legacy[m].deleted}
  BY DEF Init
<1>1. \A m \in Messages : WellFormed(legacy[m])
  BY LegacyAssumption
<1>2. UnstoredUnlisted
  BY <1>1 DEF WellFormed, UnstoredUnlisted, Stored
<1>3. StoreTypeOK
  BY InitTypes DEF TypeOK
<1>4. tombstones = {} /\ receipt = [e \in Events |-> Absent] /\ terminal = {}
  BY DEF Init
<1>5. public \subseteq Messages \ removed
  BY <1>1, <1>4 DEF WellFormed, public, removed
<1> QED
  BY <1>2, <1>3, <1>4, <1>5 DEF History!Init, StoreTypeOK, public, removed

-----------------------------------------------------------------------------
(***************************************************************************)
(* Every step is a step of the abstract history or a stutter.              *)
(***************************************************************************)
LEMMA CommitMaps ==
  ASSUME HistoryInv, UNCHANGED terminal,
         NEW e \in Events, ~Conflicts(e), CommitEvent(e)
  PROVE  History!Next \/ UNCHANGED historyVars
<1> DEFINE d == Resolution(e)
<1>0. StoreTypeOK /\ e.msg \in Messages
  BY EventFields DEF HistoryInv, ReceiptInv, TypeOK
<1>1. d \in Dispositions /\ d # Absent
  BY ResolutionTypes, ReceiptAssumption
<1>2. receipt' = IF receipt[e] = Absent THEN [receipt EXCEPT ![e] = d] ELSE receipt
  BY DEF CommitEvent, WriteResolution
<1>3. ASSUME receipt[e] = Absent, History!Effect(e, d)
      PROVE  History!Next
  BY <1>1, <1>2, <1>3 DEF History!Next, History!Decide
<1>4. ASSUME receipt[e] # Absent,
             \/ History!Remove(e.msg)
             \/ History!NotOlder(e.msg, e.rev) /\ History!Write(e.msg, e.rev)
      PROVE  History!Next
  BY <1>2, <1>4 DEF History!Next, History!Redeliver
<1>5. CASE d = "deleted" /\ DeleteSource(e.msg)
  <2>1. History!Remove(e.msg)
    BY <1>0, <1>5, DeleteRemoves
  <2> QED
    BY <1>3, <1>4, <1>5, <2>1 DEF History!Effect
<1>6. CASE /\ d = AcceptedAs(e.msg, e.rev)
           /\ e.rev \in Revisions
           /\ SourceDisposition(e.msg, e.rev, TRUE) = "accept"
           /\ StoreRevision(e.msg, e.rev)
  <2>1. ~DeletionEvidence(e.msg)
    BY <1>6 DEF SourceDisposition
  <2>2. History!Write(e.msg, e.rev)
    BY <1>0, <1>6, <2>1, StoreWrites
  <2>3. History!NotOlder(e.msg, e.rev)
    <3>1. CASE e.msg \in Stored
      <4>1. current[e.msg] \in Revisions
        BY <1>0, <3>1 DEF Stored, StoreTypeOK
      <4>2. SourceTime[current[e.msg]] \in Nat /\ SourceTime[e.rev] \in Nat
        BY <1>6, <4>1, SourceAssumption
      <4>3. ~(SourceTime[e.rev] < SourceTime[current[e.msg]])
        BY <1>0, <1>6, <3>1, AcceptedIsNotOlder
      <4> QED
        BY <4>2, <4>3 DEF History!NotOlder
    <3>2. CASE e.msg \notin Stored
      BY <1>0, <3>2 DEF Stored, History!NotOlder
    <3> QED
      BY <3>1, <3>2
  <2>4. CASE d = "already_canonical"
    <3>1. current[e.msg] = e.rev
      BY <1>6, <2>4 DEF AcceptedAs
    <3>2. UNCHANGED <<current, removed, public>>
      BY <1>0, <2>2, <3>1 DEF History!Write, removed, public, StoreTypeOK
    <3>3. History!Effect(e, d)
      BY <2>4, <3>2 DEF History!Effect, removed, public
    <3> QED
      BY <1>3, <1>4, <2>2, <2>3, <3>3
  <2>5. CASE d \in {"applied", "non_candidate"}
    <3>1. History!Effect(e, d)
      BY <2>2, <2>3, <2>5 DEF History!Effect
    <3> QED
      BY <1>3, <1>4, <2>2, <2>3, <3>1
  <2> QED
    BY <1>6, <2>4, <2>5 DEF AcceptedAs
<1>7. CASE d \in {"superseded", "already_canonical"} /\ UNCHANGED canonVars
  <2>1. UNCHANGED <<current, removed, public>>
    BY <1>7 DEF canonVars, removed, public
  <2>2. History!Effect(e, d)
    BY <1>7, <2>1 DEF History!Effect, removed, public
  <2>3. receipt[e] # Absent => UNCHANGED historyVars
    BY <1>2, <2>1 DEF historyVars
  <2> QED
    BY <1>3, <2>2, <2>3
<1> QED
  BY <1>5, <1>6, <1>7, CommitCases

LEMMA BatchMaps ==
  ASSUME HistoryInv, BatchWrite, UNCHANGED <<receipt, terminal>>
  PROVE  History!Next
<1> PICK m \in Messages, r \in ExportRevisions :
      /\ r \in Revisions
      /\ \/ DeletionEvidence(m) /\ DeleteSource(m)
         \/ ~DeletionEvidence(m) /\ StoreRevision(m, r)
  BY BatchCases
<1>1. StoreTypeOK
  BY DEF HistoryInv, ReceiptInv, TypeOK
<1>2. DeleteSource(m) => History!Clear(m)
  BY DeleteRemoves DEF History!Clear
<1>3. ~DeletionEvidence(m) /\ StoreRevision(m, r) => History!Import(m)
  BY <1>1, StoreWrites DEF History!Import
<1> QED
  BY <1>2, <1>3 DEF History!Next

LEMMA OffersMap ==
  ASSUME HistoryInv, UNCHANGED terminal,
         Promote \/ \E m \in Messages : OwnerApply(m)
  PROVE  History!Next \/ UNCHANGED historyVars
<1>0. StoreTypeOK
  BY DEF HistoryInv, ReceiptInv, TypeOK
<1>1. CASE Promote
  <2> PICK S \in SUBSET {m \in Messages : offer[m] = "needs_review"} :
        offer' = [m \in Messages |-> IF m \in S THEN "visible" ELSE offer[m]]
    BY <1>1 DEF Promote
  <2>1. S \in SUBSET (Messages \ removed)
    BY DEF HistoryInv, DeletedStaysHidden, UnstoredUnlisted, removed
  <2>2. public' = public \cup S
    BY DEF public
  <2>3. UNCHANGED <<current, removed, receipt, terminal>>
    BY <1>1 DEF Promote, removed
  <2>4. History!Publish
    BY <2>1, <2>2, <2>3 DEF History!Publish, removed, public
  <2> QED
    BY <2>4 DEF History!Next
<1>2. ASSUME NEW m \in Messages, OwnerApply(m)
      PROVE  UNCHANGED historyVars
  <2>1. \A x \in Messages : offer'[x] = "visible" <=> offer[x] = "visible"
    BY <1>0, <1>2 DEF OwnerApply, StoreTypeOK
  <2>2. public' = public
    BY <2>1 DEF public
  <2> QED
    BY <1>2, <2>2 DEF OwnerApply, historyVars, removed
<1> QED
  BY <1>1, <1>2

LEMMA StepMaps ==
  ASSUME HistoryInv, [Next]_vars
  PROVE  [History!Next]_historyVars
<1>0. TypeOK
  BY DEF HistoryInv, ReceiptInv
<1>1. ASSUME NEW a \in Tasks, MarkLive(a) \/ Acknowledge(a) \/ RecordFailure(a)
      PROVE  History!Next \/ UNCHANGED historyVars
  <2>1. UNCHANGED <<current, removed, public, receipt>>
    BY <1>1 DEF MarkLive, Acknowledge, RecordFailure, storeVars, canonVars, removed, public
  <2>2. RecordFailure(a) => UNCHANGED historyVars
    BY <2>1 DEF RecordFailure, historyVars
  <2>3. CASE MarkLive(a) \/ Acknowledge(a)
    <3>1. task[a].ev \in Events /\ receipt[task[a].ev] # Absent
      BY <1>0, <2>3 DEF MarkLive, Acknowledge, At, TypeOK, TaskEventsOK,
                        HistoryInv, ReceiptInv, AcknowledgesReceipts, Acknowledging
    <3>2. terminal' = terminal \cup {task[a].ev}
      BY <2>3 DEF MarkLive, Acknowledge
    <3>3. History!Settle(task[a].ev)
      BY <2>1, <3>1, <3>2 DEF History!Settle, removed, public
    <3> QED
      BY <3>1, <3>3 DEF History!Next
  <2> QED
    BY <1>1, <2>2, <2>3
<1>2. CASE UNCHANGED terminal
  <2>1. Quiet => UNCHANGED historyVars
    BY <1>2 DEF Quiet, canonVars, historyVars, removed, public
  <2>2. BatchWrite => UNCHANGED receipt
    BY DEF BatchWrite
  <2> QED
    BY <1>0, <1>2, <2>1, <2>2, StepEffect, CommitMaps, BatchMaps, OffersMap
    DEF StoreEffect
<1> QED
  BY <1>1, <1>2, LedgerEffect

\* Live ingestion implements the abstract history: one verdict for an event,
\* committed with its only effect, before the event is settled; nothing removed
\* is written or shown again.
THEOREM Implements == Spec => ImplementsHistory
<1>1. Init => HistoryInv /\ History!Init
  BY InitReceipts, InitHidden, InitMaps DEF HistoryInv
<1>2. HistoryInv /\ [Next]_vars => HistoryInv'
  BY ReceiptStep, HiddenStep, UnlistedStep DEF HistoryInv, ReceiptInv
<1>3. HistoryInv /\ [Next]_vars => [History!Next]_(History!vars)
  BY StepMaps DEF historyVars, History!vars, removed, public
<1> QED
  BY <1>1, <1>2, <1>3, PTL DEF Spec, ImplementsHistory, History!Spec
-----------------------------------------------------------------------------
(***************************************************************************)
(* The budget of data failures.  Each failure beyond the budget uses up a  *)
(* task that held the event before the budget ran out: nobody else may     *)
(* attempt it then, unless it is decided, and what is decided does not     *)
(* fail again as long as no batch writer turns the source back.            *)
(***************************************************************************)

\* An upsert of the message that would not conflict with its record.
Agrees(m, r) ==
  \/ DeletionEvidence(m)
  \/ /\ m \in Stored
     /\ \/ SourceTime[r] < SourceTime[current[m]]
        \/ r = current[m]
        \/ SourceTime[r] = SourceTime[current[m]] /\ r \in Projections[current[m]]

DecidedAgrees ==
  \A e \in Events : receipt[e] # Absent /\ e.kind # "delete" => Agrees(e.msg, e.rev)

LEMMA AgreeingResolves ==
  ASSUME TypeOK, DecidedAgrees, NEW e \in Events, receipt[e] # Absent
  PROVE  ~Conflicts(e)
<1>1. CASE e.kind = "delete"
  BY <1>1 DEF Conflicts, Resolution
<1>2. CASE e.kind # "delete"
  <2>1. e.msg \in Messages /\ e.rev \in Revisions /\ Agrees(e.msg, e.rev)
    BY <1>2, EventFields DEF DecidedAgrees
  <2>2. e.msg \in Stored => current[e.msg] \in Revisions
    BY <2>1 DEF Stored, TypeOK, StoreTypeOK
  <2>3. SourceDisposition(e.msg, e.rev, TRUE) # "conflict"
    BY <2>1, <2>2, SourceAssumption DEF Agrees, SourceDisposition, Stored
  <2> QED
    BY <1>2, <2>3 DEF Conflicts, Resolution, AcceptedAs
<1> QED
  BY <1>1, <1>2

\* Storing what is accepted leaves in agreement what agreed before.
LEMMA StoreAgrees ==
  ASSUME TypeOK, NEW m \in Messages, NEW s \in Revisions,
         SourceDisposition(m, s, TRUE) = "accept", StoreRevision(m, s), UNCHANGED landed,
         NEW n \in Messages, NEW r \in Revisions, Agrees(n, r)
  PROVE  Agrees(n, r)'
<1>1. /\ current' = [current EXCEPT ![m] = s] /\ current \in [Messages -> Revisions \cup {Absent}]
      /\ DeletionEvidence(n)' = DeletionEvidence(n)
  BY DEF StoreRevision, DeletionEvidence, DeleteEvent, TypeOK, StoreTypeOK
<1>2. CASE n # m \/ DeletionEvidence(n)
  BY <1>1, <1>2 DEF Agrees, Stored
<1>3. CASE n = m /\ ~DeletionEvidence(m)
  <2>1. m \in Stored /\ current[m] \in Revisions
    BY <1>1, <1>3 DEF Agrees, Stored
  <2>2. current'[m] = s /\ m \in Stored'
    BY <1>1, SourceAssumption DEF Stored
  <2>3. /\ SourceTime[r] \in Nat /\ SourceTime[s] \in Nat /\ SourceTime[current[m]] \in Nat
    BY <2>1, SourceAssumption
  <2>4. CASE s = current[m]
    BY <1>3, <2>1, <2>2, <2>4 DEF Agrees
  <2>5. CASE SourceTime[s] > SourceTime[current[m]]
    BY <1>3, <2>1, <2>2, <2>3, <2>5 DEF Agrees
  <2>6. CASE SourceTime[s] = SourceTime[current[m]] /\ current[m] \in Projections[s]
    <3>1. Projections[current[m]] \subseteq Projections[s]
      BY <2>6, ProjectionAssumption
    <3> QED
      BY <1>3, <2>1, <2>2, <2>3, <2>6, <3>1 DEF Agrees
  <2>7. \/ s = current[m] \/ SourceTime[s] > SourceTime[current[m]]
        \/ SourceTime[s] = SourceTime[current[m]] /\ current[m] \in Projections[s]
    BY <1>3, <2>1, <2>3, SourceAssumption DEF SourceDisposition, RepairsProjection
  <2> QED
    BY <2>4, <2>5, <2>6, <2>7
<1> QED
  BY <1>2, <1>3

\* What is deleted agrees, and deleting disturbs no agreement.
LEMMA DeleteAgrees ==
  ASSUME TypeOK, NEW m \in Messages, DeleteSource(m), landed \subseteq landed',
         NEW n \in Messages, NEW r \in Revisions, n = m \/ Agrees(n, r)
  PROVE  Agrees(n, r)'
BY DEF DeleteSource, Agrees, DeletionEvidence, Stored, DeleteEvent

\* The commit of an event leaves it in agreement.
LEMMA CommitAgrees ==
  ASSUME TypeOK, NEW e \in Events, e.kind # "delete", ~Conflicts(e), CommitEvent(e)
  PROVE  Agrees(e.msg, e.rev)'
<1>0. e.msg \in Messages /\ e.rev \in Revisions /\ landed' = landed
  BY EventFields DEF CommitEvent
<1>1. CASE DeleteSource(e.msg)
  BY <1>0, <1>1, DeleteAgrees
<1>2. CASE StoreRevision(e.msg, e.rev)
  BY <1>0, <1>2, SourceAssumption DEF StoreRevision, Agrees, Stored, TypeOK, StoreTypeOK
<1>3. CASE /\ SourceDisposition(e.msg, e.rev, TRUE) \in {"superseded", "already_canonical"}
           /\ UNCHANGED canonVars
  <2>1. Agrees(e.msg, e.rev)
    <3>1. ~DeletionEvidence(e.msg) /\ current[e.msg] # Absent
      BY <1>3 DEF SourceDisposition
    <3>2. e.msg \in Stored /\ current[e.msg] \in Revisions
      BY <1>0, <3>1 DEF Stored, TypeOK, StoreTypeOK
    <3>3. SourceTime[e.rev] \in Nat /\ SourceTime[current[e.msg]] \in Nat
      BY <1>0, <3>2, SourceAssumption
    <3> QED
      BY <1>3, <3>1, <3>2, <3>3 DEF SourceDisposition, Agrees
  <2> QED
    BY <1>0, <1>3, <2>1 DEF Agrees, Stored, DeletionEvidence, DeleteEvent, canonVars
<1> QED
  BY <1>1, <1>2, <1>3, CommitCases

LEMMA DecidedStep ==
  ASSUME TypeOK, DecidedAgrees, [Next]_vars, Importers = {}
  PROVE  DecidedAgrees'
<1> SUFFICES ASSUME NEW e \in Events, receipt'[e] # Absent, e.kind # "delete"
             PROVE  Agrees(e.msg, e.rev)'
  BY DEF DecidedAgrees
<1>0. e.msg \in Messages /\ e.rev \in Revisions
  BY EventFields
<1>1. CASE UNCHANGED <<current, deletedAt, tombstones, receipt>>
  BY <1>1, LandedGrows DEF DecidedAgrees, Agrees, DeletionEvidence, Stored, DeleteEvent
<1>2. ASSUME NEW f \in Events, ~Conflicts(f), CommitEvent(f)
      PROVE  Agrees(e.msg, e.rev)'
  <2>0. f.msg \in Messages
    BY EventFields
  <2>1. CASE receipt[e] = Absent
    <3>1. e = f
      BY <1>2, <2>1 DEF CommitEvent, WriteResolution, TypeOK, StoreTypeOK
    <3> QED
      BY <1>2, <3>1, CommitAgrees
  <2>2. CASE receipt[e] # Absent
    <3>1. Agrees(e.msg, e.rev) /\ landed' = landed
      BY <1>2, <2>2 DEF DecidedAgrees, CommitEvent
    <3>2. DeleteSource(f.msg) => Agrees(e.msg, e.rev)'
      BY <1>0, <2>0, <3>1, DeleteAgrees
    <3>3. ASSUME f.rev \in Revisions, SourceDisposition(f.msg, f.rev, TRUE) = "accept",
                 StoreRevision(f.msg, f.rev)
          PROVE  Agrees(e.msg, e.rev)'
      BY <1>0, <2>0, <3>1, <3>3, StoreAgrees
    <3>4. UNCHANGED canonVars => Agrees(e.msg, e.rev)'
      BY <3>1 DEF Agrees, Stored, DeletionEvidence, DeleteEvent, canonVars
    <3> QED
      BY <1>2, <3>2, <3>3, <3>4, CommitCases
  <2> QED
    BY <2>1, <2>2
<1> QED
  BY <1>1, <1>2, StepEffect
  DEF StoreEffect, Quiet, BatchWrite, Promote, OwnerApply, canonVars

Recorders == Tasks \ {"consumer"}

\* A task will count a failure of the event, or may find that it fails.
Failing(a, e) == At(a, "failed") /\ task[a].ev = e

Attempting(a, e) ==
  \/ task[a].pc \in {"waiting", "persist", "apply"} /\ task[a].ev = e
  \/ a \in Drainers /\ e \in batch[a]

Holders(e) ==
  {a \in Recorders : Failing(a, e) \/ (receipt[e] = Absent /\ Attempting(a, e))}

\* A drainer has taken what it works on out of its batch, and the consumer exits
\* where the others fail.
TakenOnce ==
  /\ \A d \in Drainers : ~At(d, "idle") => task[d].ev \notin batch[d]
  /\ ~At("consumer", "failed")

BudgetCounted ==
  \A e \in Events :
    failures[e] + Cardinality(Holders(e)) < MaxDataFailures + Cardinality(Recorders)

BudgetInv == TypeOK /\ DecidedAgrees /\ TakenOnce /\ BudgetCounted

LEMMA RecordersFinite ==
  /\ IsFiniteSet(Recorders) /\ Cardinality(Recorders) \in Nat \ {0}
  /\ Operators \subseteq {"operator"}
<1>1. IsFiniteSet({"consumer", "reconciler", "drainer"} \cup {"operator"})
  <2>1. IsFiniteSet({} \cup {"consumer"})
    BY FS_AddElement, FS_EmptySet
  <2>2. IsFiniteSet(({} \cup {"consumer"}) \cup {"reconciler"})
    BY <2>1, FS_AddElement
  <2>3. IsFiniteSet((({} \cup {"consumer"}) \cup {"reconciler"}) \cup {"drainer"})
    BY <2>2, FS_AddElement
  <2>4. {"consumer", "reconciler", "drainer"} =
          (({} \cup {"consumer"}) \cup {"reconciler"}) \cup {"drainer"}
    OBVIOUS
  <2> QED
    BY <2>3, <2>4, FS_AddElement
<1>2. Recorders \subseteq {"consumer", "reconciler", "drainer"} \cup {"operator"}
  BY IngestionAssumption DEF Recorders, Tasks, WorkerTasks, LiveTasks
<1>3. "drainer" \in Recorders
  BY DEF Recorders, Tasks, WorkerTasks
<1> QED
  BY <1>1, <1>2, <1>3, FS_Subset, FS_EmptySet, FS_CardinalityType, IngestionAssumption

LEMMA HoldersFinite ==
  ASSUME NEW e
  PROVE  /\ IsFiniteSet(Holders(e)) /\ Cardinality(Holders(e)) \in Nat
         /\ Cardinality(Holders(e)) <= Cardinality(Recorders)
BY RecordersFinite, FS_Subset, FS_CardinalityType DEF Holders

LEMMA HoldersFinitePrimed ==
  ASSUME NEW e
  PROVE  /\ IsFiniteSet(Holders(e)') /\ Cardinality(Holders(e)') \in Nat
         /\ Cardinality(Holders(e)') <= Cardinality(Recorders)
BY RecordersFinite, FS_Subset, FS_CardinalityType DEF Holders

-----------------------------------------------------------------------------
\* What a step may do to a task and its batch: nothing, drop what it holds, go on
\* with the event it has, or take up records that are due.
Carries(a) ==
  \A e \in Events :
    /\ Attempting(a, e)' => Attempting(a, e) \/ CanAttempt(e)
    /\ Failing(a, e)' => Failing(a, e) \/ (receipt[e] = Absent /\ Attempting(a, e))

Continues(a) ==
  \/ task'[a] = Idle
  \/ task'[a] = task[a]
  \/ /\ task'[a].ev = task[a].ev /\ ~At(a, "idle")
     /\ \/ task'[a].pc \in {"mark", "ack"}
        \/ task[a].pc = "waiting" /\ task'[a].pc = "persist"
        \/ /\ a # "consumer"
           /\ task[a].pc \in {"persist", "apply"} /\ task'[a].pc = "failed"
           /\ receipt[task[a].ev] = Absent

Shrinks == \A d \in Drainers : batch'[d] \subseteq batch[d]

StepFine == (\A a \in Recorders : Carries(a)) /\ TakenOnce'

LEMMA TaskNames ==
  /\ "consumer" \in LiveTasks /\ "reconciler" \in LiveTasks
  /\ LiveTasks \subseteq Tasks /\ Drainers \subseteq Recorders /\ Recorders \subseteq Tasks
  /\ "reconciler" \in Recorders /\ "reconciler" \notin Drainers
  /\ Operators \subseteq Drainers /\ "drainer" \in Drainers
  /\ LiveTasks \cap Drainers = {} /\ Tasks = Recorders \cup {"consumer"}
BY IngestionAssumption DEF LiveTasks, WorkerTasks, Tasks, Drainers, Recorders

LEMMA Continuing ==
  ASSUME TypeOK, TakenOnce, \A a \in Tasks : Continues(a), Shrinks
  PROVE  StepFine
<1>1. ASSUME NEW a \in Recorders PROVE Carries(a)
  <2>1. Continues(a) /\ (a \in Drainers => batch'[a] \subseteq batch[a])
    BY TaskNames DEF Shrinks
  <2> QED
    BY <2>1 DEF Continues, Carries, Attempting, Failing, At, Idle
<1>2. ASSUME NEW d \in Drainers, ~At(d, "idle")' PROVE task'[d].ev \notin batch'[d]
  BY <1>2, TaskNames DEF Continues, Shrinks, TakenOnce, At, Idle
<1>3. ~At("consumer", "failed")'
  BY TaskNames DEF Continues, TakenOnce, At, Idle
<1> QED
  BY <1>1, <1>2, <1>3 DEF StepFine, TakenOnce

LEMMA Resting ==
  ASSUME TypeOK, TakenOnce, UNCHANGED task, Shrinks
  PROVE  StepFine
BY Continuing DEF Continues

LEMMA ExitFine ==
  ASSUME TypeOK, TakenOnce, WorkerExit
  PROVE  StepFine
<1>1. \A a \in Tasks : Continues(a)
  BY DEF WorkerExit, Continues
<1>2. Shrinks
  BY DEF WorkerExit, Shrinks, TypeOK, TaskTypeOK
<1> QED
  BY <1>1, <1>2, Continuing

LEMMA DeferredFine ==
  ASSUME TypeOK, TakenOnce, NEW a \in Tasks, Deferred(a)
  PROVE  StepFine
<1>1. CASE a = "consumer"
  BY <1>1, ExitFine DEF Deferred
<1>2. CASE a # "consumer"
  <2>1. (\A b \in Tasks : Continues(b)) /\ Shrinks
    BY <1>2 DEF Deferred, Continues, Shrinks, TypeOK, TaskTypeOK
  <2> QED
    BY <2>1, Continuing
<1> QED
  BY <1>1, <1>2

LEMMA FailFine ==
  ASSUME TypeOK, TakenOnce, NEW a \in Tasks, FailData(a),
         task[a].pc \in {"persist", "apply"}, receipt[task[a].ev] = Absent
  PROVE  StepFine
<1>1. CASE a = "consumer"
  BY <1>1, ExitFine DEF FailData
<1>2. CASE a # "consumer"
  <2>1. (\A b \in Tasks : Continues(b)) /\ Shrinks
    BY <1>2 DEF FailData, Continues, Shrinks, At, TypeOK, TaskTypeOK
  <2> QED
    BY <2>1, Continuing
<1> QED
  BY <1>1, <1>2

LEMMA BeginFine ==
  ASSUME TypeOK, TakenOnce, NEW a \in LiveTasks, NEW e, BeginLive(a, e),
         a = "reconciler" => At(a, "waiting") /\ e = task[a].ev
  PROVE  StepFine
<1>1. CASE runLock # "free"
  BY <1>1, DeferredFine, TaskNames DEF BeginLive
<1>2. CASE runLock = "free"
  <2>1. task' = [task EXCEPT ![a] = [pc |-> "persist", ev |-> e]] /\ batch' = batch
    BY <1>2 DEF BeginLive
  <2>2. task \in [Tasks -> [pc : {"idle", "fetched", "waiting", "persist", "mark", "apply",
                                  "ack", "failed"}, ev : Events \cup {NoEvent}]]
    BY DEF TypeOK, TaskTypeOK
  <2>3. \A b \in Tasks \ {a} : task'[b] = task[b]
    BY <2>1, <2>2
  <2>4. task'[a] = [pc |-> "persist", ev |-> e]
    BY <2>1, <2>2, TaskNames
  <2>5. CASE a = "consumer"
    <3>1. \A b \in Recorders : task'[b] = task[b]
      BY <2>3, <2>5, TaskNames DEF Recorders
    <3> QED
      BY <2>1, <2>4, <2>5, <3>1, TaskNames
      DEF StepFine, TakenOnce, Carries, Attempting, Failing, At
  <2>6. CASE a = "reconciler"
    <3>1. (\A b \in Tasks : Continues(b)) /\ Shrinks
      BY <2>1, <2>3, <2>4, <2>6 DEF Continues, Shrinks, At
    <3> QED
      BY <3>1, Continuing
  <2> QED
    BY <2>5, <2>6 DEF LiveTasks
<1> QED
  BY <1>1, <1>2

LEMMA LiveFine ==
  ASSUME TypeOK, TakenOnce, Live
  PROVE  StepFine
<1> USE TaskNames
<1>0. task \in [Tasks -> [pc : {"idle", "fetched", "waiting", "persist", "mark", "apply",
                                "ack", "failed"}, ev : Events \cup {NoEvent}]]
  BY DEF TypeOK, TaskTypeOK
<1>1. CASE ConsumerTake
  BY <1>1, BeginFine DEF ConsumerTake
<1>2. CASE ReconcilerBegin
  BY <1>2, BeginFine DEF ReconcilerBegin
<1>3. CASE LandObservation
  <2>1. \A a \in Recorders : Carries(a)
    BY <1>0, <1>3 DEF LandObservation, Carries, Attempting, Failing, At, Idle
  <2>2. TakenOnce'
    BY <1>0, <1>3 DEF LandObservation, TakenOnce, At, Idle
  <2> QED
    BY <2>1, <2>2 DEF StepFine
<1>4. ASSUME NEW e, Observe(e) PROVE StepFine
  <2>1. \A a \in Recorders : Carries(a)
    BY <1>0, <1>4 DEF Observe, Carries, Attempting, Failing, At
  <2>2. TakenOnce'
    BY <1>0, <1>4 DEF Observe, TakenOnce, At
  <2> QED
    BY <2>1, <2>2 DEF StepFine
<1> QED
  BY <1>1, <1>2, <1>3, <1>4 DEF Live, Poll, Sweep

LEMMA DrainFine ==
  ASSUME TypeOK, TakenOnce, Drain
  PROVE  StepFine
<1> USE TaskNames
<1>0. /\ task \in [Tasks -> [pc : {"idle", "fetched", "waiting", "persist", "mark", "apply",
                                   "ack", "failed"}, ev : Events \cup {NoEvent}]]
      /\ batch \in [Drainers -> SUBSET landed] /\ landed \subseteq Events
  BY DEF TypeOK, StoreTypeOK, TaskTypeOK
<1>1. ASSUME NEW d \in Drainers, Claim(d) PROVE StepFine
  <2>1. task' = task /\ batch' = [batch EXCEPT ![d] = {e \in landed : CanAttempt(e)}]
    BY <1>1 DEF Claim
  <2>2. \A a \in Recorders : Carries(a)
    BY <1>0, <2>1 DEF Carries, Attempting, Failing, At
  <2>3. TakenOnce'
    BY <1>0, <1>1, <2>1 DEF Claim, TakenOnce, At
  <2> QED
    BY <2>2, <2>3 DEF StepFine
<1>2. ASSUME NEW d \in Drainers, StartRecord(d) PROVE StepFine
  <2> PICK e \in batch[d] :
        /\ batch' = [batch EXCEPT ![d] = @ \ {e}]
        /\ \/ UNCHANGED <<runLock, processing, task>>
           \/ task' = [task EXCEPT ![d] = [pc |-> "apply", ev |-> e]]
    BY <1>2 DEF StartRecord
  <2>1. CASE UNCHANGED task
    <3>1. Shrinks
      BY <1>0 DEF Shrinks
    <3> QED
      BY <2>1, <3>1, Resting
  <2>2. CASE task' = [task EXCEPT ![d] = [pc |-> "apply", ev |-> e]]
    <3>1. \A a \in Recorders : Carries(a)
      BY <1>0, <2>2 DEF Carries, Attempting, Failing, At
    <3>2. TakenOnce'
      BY <1>0, <2>2 DEF TakenOnce, At, Recorders
    <3> QED
      BY <3>1, <3>2 DEF StepFine
  <2> QED
    BY <2>1, <2>2
<1> QED
  BY <1>1, <1>2 DEF Drain

LEMMA FaultFine ==
  ASSUME TypeOK, TakenOnce, Fault
  PROVE  StepFine
<1>1. ASSUME NEW o \in Operators, OperatorCrash(o) PROVE StepFine
  <2>1. (\A b \in Tasks : Continues(b)) /\ Shrinks
    BY <1>1 DEF OperatorCrash, Continues, Shrinks, TypeOK, TaskTypeOK
  <2> QED
    BY <2>1, Continuing
<1> QED
  BY <1>1, ExitFine, DeferredFine DEF Fault, WorkerCrash, TransientFailure

LEMMA ProceedFine ==
  ASSUME TypeOK, DecidedAgrees, TakenOnce, NEW a \in Tasks, Proceed(a)
  PROVE  StepFine
<1>0. task \in [Tasks -> [pc : {"idle", "fetched", "waiting", "persist", "mark", "apply",
                                "ack", "failed"}, ev : Events \cup {NoEvent}]]
  BY DEF TypeOK, TaskTypeOK
<1>1. ~At(a, "idle") => task[a].ev \in Events
  BY DEF TypeOK, TaskEventsOK
<1>2. ASSUME UNCHANGED batch, ~At(a, "idle"),
             \/ task' = [task EXCEPT ![a] = Idle]
             \/ task' = [task EXCEPT ![a].pc = "mark"]
             \/ task' = [task EXCEPT ![a].pc = "ack"]
      PROVE  StepFine
  <2>1. (\A b \in Tasks : Continues(b)) /\ Shrinks
    BY <1>0, <1>2 DEF Continues, Shrinks, At
  <2> QED
    BY <2>1, Continuing
<1>3. CASE PersistLive(a)
  <2>1. Conflicts(task[a].ev) => receipt[task[a].ev] = Absent
    BY <1>1, <1>3, AgreeingResolves DEF PersistLive, At
  <2> QED
    BY <1>2, <1>3, <2>1, FailFine DEF PersistLive, At
<1>4. CASE ApplyArchive(a)
  BY <1>2, <1>4, FailFine DEF ApplyArchive, At
<1>5. CASE MarkLive(a) \/ Acknowledge(a) \/ RecordFailure(a)
  BY <1>2, <1>5 DEF MarkLive, Acknowledge, RecordFailure, At
<1> QED
  BY <1>3, <1>4, <1>5 DEF Proceed

LEMMA BudgetStepFine ==
  ASSUME TypeOK, DecidedAgrees, TakenOnce, [Next]_vars
  PROVE  StepFine
<1>1. UNCHANGED taskVars => StepFine
  BY Resting DEF taskVars, Shrinks
<1>2. Environment => UNCHANGED taskVars
  BY DEF Environment, Post, Edit, Withdraw
<1>3. Catalog => UNCHANGED taskVars
  BY DEF Catalog, Promote, OwnerApply, SeedArchive
<1>4. Import => UNCHANGED <<task, batch>>
  BY DEF Import, ImportStart, ImportMessage, ImportEnd, taskVars
<1>5. UNCHANGED <<task, batch>> => StepFine
  BY Resting DEF Shrinks
<1> QED
  BY <1>1, <1>2, <1>3, <1>4, <1>5, LiveFine, DrainFine, FaultFine, ProceedFine
  DEF Next, vars, taskVars

-----------------------------------------------------------------------------
LEMMA CountStep ==
  ASSUME BudgetInv, [Next]_vars, Importers = {}
  PROVE  BudgetCounted'
<1> SUFFICES ASSUME NEW e \in Events
             PROVE  failures'[e] + Cardinality(Holders(e)') < MaxDataFailures + Cardinality(Recorders)
  BY DEF BudgetCounted, Holders
<1>1. StepFine
  BY BudgetStepFine DEF BudgetInv
<1>2. receipt[e] # Absent => receipt'[e] # Absent
  BY ReceiptsAreFinal DEF BudgetInv
<1>3. Holders(e)' \subseteq Holders(e) \/ failures[e] < MaxDataFailures
  <2> SUFFICES ASSUME NEW a \in Recorders, a \in Holders(e)', a \notin Holders(e)
               PROVE  failures[e] < MaxDataFailures
    BY DEF Holders
  <2>1. Carries(a)
    BY <1>1 DEF StepFine
  <2> QED
    BY <1>2, <2>1 DEF Carries, Holders, CanAttempt
<1>4. /\ IsFiniteSet(Holders(e)) /\ Cardinality(Holders(e)) \in Nat
      /\ Cardinality(Holders(e)) <= Cardinality(Recorders)
      /\ IsFiniteSet(Holders(e)') /\ Cardinality(Holders(e)') \in Nat
      /\ Cardinality(Holders(e)') <= Cardinality(Recorders)
      /\ Cardinality(Recorders) \in Nat /\ MaxDataFailures \in Nat
  BY HoldersFinite, HoldersFinitePrimed, RecordersFinite, IngestionAssumption
<1>5. failures \in [Events -> Nat] /\ failures[e] \in Nat
  BY DEF BudgetInv, TypeOK, LedgerTypeOK
<1>6. failures[e] + Cardinality(Holders(e)) < MaxDataFailures + Cardinality(Recorders)
  BY DEF BudgetInv, BudgetCounted
<1>7. CASE failures'[e] = failures[e]
  <2>1. CASE Holders(e)' \subseteq Holders(e)
    <3>1. Cardinality(Holders(e)') <= Cardinality(Holders(e))
      BY <1>4, <2>1, FS_Subset
    <3> QED
      BY <1>4, <1>5, <1>6, <1>7, <3>1
  <2>2. CASE failures[e] < MaxDataFailures
    BY <1>4, <1>5, <1>7, <2>2
  <2> QED
    BY <1>3, <2>1, <2>2
<1>8. CASE failures'[e] # failures[e]
  <2> PICK a \in Tasks : RecordFailure(a)
    BY <1>8, LedgerEffect DEF MarkLive, Acknowledge
  <2>1. /\ task[a].ev = e /\ failures'[e] = failures[e] + 1 /\ At(a, "failed")
        /\ task' = [task EXCEPT ![a] = Idle] /\ UNCHANGED <<batch, receipt>>
    BY <1>5, <1>8 DEF RecordFailure, storeVars
  <2>2. a \in Recorders /\ a \in Holders(e)
    BY <2>1 DEF BudgetInv, TakenOnce, Recorders, Holders, Failing, At
  <2>3. Holders(e)' \subseteq Holders(e) \ {a}
    <3>1. a \in Drainers => e \notin batch[a]
      BY <2>1 DEF BudgetInv, TakenOnce, At
    <3>2. task \in [Tasks -> [pc : {"idle", "fetched", "waiting", "persist", "mark", "apply",
                                    "ack", "failed"}, ev : Events \cup {NoEvent}]]
      BY DEF BudgetInv, TypeOK, TaskTypeOK
    <3>3. a \notin Holders(e)'
      BY <2>1, <3>1, <3>2, TaskNames DEF Holders, Failing, Attempting, At, Idle
    <3>4. \A b \in Recorders \ {a} : b \in Holders(e)' => b \in Holders(e)
      BY <2>1, <3>2, TaskNames DEF Holders, Failing, Attempting, At
    <3> QED
      BY <3>3, <3>4 DEF Holders
  <2>4. Cardinality(Holders(e)') < Cardinality(Holders(e))
    <3>1. /\ IsFiniteSet(Holders(e) \ {a})
          /\ Cardinality(Holders(e) \ {a}) = Cardinality(Holders(e)) - 1
      BY <1>4, <2>2, FS_RemoveElement
    <3>2. Cardinality(Holders(e)') <= Cardinality(Holders(e) \ {a})
      BY <2>3, <3>1, FS_Subset
    <3> QED
      BY <1>4, <3>1, <3>2
  <2> QED
    BY <1>4, <1>5, <1>6, <2>1, <2>4
<1> QED
  BY <1>7, <1>8

LEMMA InitBudget == Init => BudgetInv
<1> SUFFICES ASSUME Init PROVE BudgetInv
  OBVIOUS
<1>1. TypeOK
  BY InitTypes
<1>2. DecidedAgrees
  BY DEF Init, DecidedAgrees
<1>3. TakenOnce
  BY TaskNames DEF Init, TakenOnce, At, Idle
<1>4. BudgetCounted
  <2> SUFFICES ASSUME NEW e \in Events
               PROVE  failures[e] + Cardinality(Holders(e)) < MaxDataFailures + Cardinality(Recorders)
    BY DEF BudgetCounted
  <2>1. failures[e] = 0
    BY DEF Init
  <2> QED
    BY <2>1, HoldersFinite, RecordersFinite, IngestionAssumption
<1> QED
  BY <1>1, <1>2, <1>3, <1>4 DEF BudgetInv

\* Without a batch writer, which alone can turn a decided record back, the failures of
\* a record exceed its budget by no more than the tasks that were attempting it.
THEOREM BudgetIsBounded == Importers = {} => (Spec => []BudgetHolds)
<1> SUFFICES ASSUME Importers = {} PROVE Spec => []BudgetHolds
  OBVIOUS
<1>1. ASSUME BudgetInv, [Next]_vars PROVE BudgetInv'
  <2>1. TypeOK'
    BY <1>1, StoreTypes, LedgerTypes, QueueTypes, TaskTypes DEF BudgetInv, TypeOK
  <2>2. DecidedAgrees' /\ TakenOnce' /\ BudgetCounted'
    BY <1>1, DecidedStep, BudgetStepFine, CountStep DEF BudgetInv, StepFine
  <2> QED
    BY <2>1, <2>2 DEF BudgetInv
<1>2. ASSUME BudgetInv PROVE BudgetHolds
  <2> SUFFICES ASSUME NEW e \in Events
               PROVE  failures[e] < MaxDataFailures + Cardinality(Tasks \ {"consumer"})
    BY DEF BudgetHolds
  <2>1. failures[e] \in Nat
    BY <1>2 DEF BudgetInv, TypeOK, LedgerTypeOK
  <2>2. failures[e] + Cardinality(Holders(e)) < MaxDataFailures + Cardinality(Recorders)
    BY <1>2 DEF BudgetInv, BudgetCounted
  <2>3. Cardinality(Holders(e)) \in Nat /\ Cardinality(Recorders) \in Nat /\ MaxDataFailures \in Nat
    BY HoldersFinite, RecordersFinite, IngestionAssumption
  <2> QED
    BY <2>1, <2>2, <2>3 DEF Recorders
<1> QED
  BY <1>1, <1>2, InitBudget, PTL DEF Spec
=============================================================================
