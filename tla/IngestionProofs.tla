--------------------------- MODULE IngestionProofs ---------------------------
(***************************************************************************)
(* Proofs about live ingestion, for every channel and any number of        *)
(* operators, importers, faults and runs.                                  *)
(*                                                                         *)
(* StepEffect sorts the steps of Next by what they do to the canonical     *)
(* record: nearly all leave it alone, one commits an event, one is a batch *)
(* writer, two write only the offer.  The canonical properties are proved  *)
(* from these five cases; TypeOK goes through the actions themselves.      *)
(***************************************************************************)
EXTENDS IngestionProperties, TLAPS

LEMMA DispositionTypes ==
  ASSUME NEW m \in Messages, NEW r \in Revisions, NEW ordered \in BOOLEAN
  PROVE  SourceDisposition(m, r, ordered) \in Dispositions \cup {"accept", "conflict"}
BY DEF SourceDisposition, Dispositions

LEMMA EventFields ==
  ASSUME NEW e \in Events
  PROVE  /\ e.msg \in Messages
         /\ e.kind \in Kinds
         /\ e.kind # "delete" => e.rev \in Revisions
         /\ e.kind = "delete" => e = DeleteEvent(e.msg)
BY DEF Events, Upserts, Deletes, Kinds, DeleteEvent

\* The resolution of an event that does not conflict is a disposition.
LEMMA ResolutionTypes ==
  ASSUME NEW e \in Events, ~Conflicts(e)
  PROVE  Resolution(e) \in Dispositions
BY EventFields, DispositionTypes
   DEF Conflicts, Resolution, AcceptedAs, Dispositions

LEMMA DeleteSourceTypes ==
  ASSUME StoreTypeOK, NEW m \in Messages, DeleteSource(m)
  PROVE  /\ current' \in [Messages -> Revisions \cup {Absent}]
         /\ history' \in [Messages -> SUBSET Revisions]
         /\ deletedAt' \subseteq Messages /\ tombstones' \subseteq Messages
         /\ offer' \in [Messages -> Visibilities]
BY DEF StoreTypeOK, DeleteSource, Visibilities, Stored

LEMMA StoreRevisionTypes ==
  ASSUME StoreTypeOK, NEW m \in Messages, NEW r \in Revisions, StoreRevision(m, r)
  PROVE  /\ current' \in [Messages -> Revisions \cup {Absent}]
         /\ history' \in [Messages -> SUBSET Revisions]
         /\ deletedAt' \subseteq Messages /\ tombstones' \subseteq Messages
         /\ offer' \in [Messages -> Visibilities]
BY DEF StoreTypeOK, StoreRevision, Visibilities

LEMMA ReconcileTypes ==
  ASSUME StoreTypeOK, NEW m \in Messages, NEW r \in Revisions,
         NEW ordered \in BOOLEAN, ReconcileMessage(m, r, ordered)
  PROVE  /\ current' \in [Messages -> Revisions \cup {Absent}]
         /\ history' \in [Messages -> SUBSET Revisions]
         /\ deletedAt' \subseteq Messages /\ tombstones' \subseteq Messages
         /\ offer' \in [Messages -> Visibilities]
BY DeleteSourceTypes, StoreRevisionTypes DEF ReconcileMessage, canonVars, StoreTypeOK

LEMMA CommitTypes ==
  ASSUME StoreTypeOK, NEW e \in Events, ~Conflicts(e), CommitEvent(e)
  PROVE  StoreTypeOK'
<1>1. /\ current' \in [Messages -> Revisions \cup {Absent}]
      /\ history' \in [Messages -> SUBSET Revisions]
      /\ deletedAt' \subseteq Messages /\ tombstones' \subseteq Messages
      /\ offer' \in [Messages -> Visibilities]
  BY EventFields, DeleteSourceTypes, ReconcileTypes DEF CommitEvent
<1>2. receipt' \in [Events -> Dispositions \cup {Absent}]
  BY ResolutionTypes DEF CommitEvent, WriteResolution, StoreTypeOK
<1>3. applied' \in Nat
  BY EventFields, SourceAssumption DEF CommitEvent, AdvanceApplied, StoreTypeOK
<1>4. landed' \subseteq Events
  BY DEF CommitEvent, StoreTypeOK
<1> QED
  BY <1>1, <1>2, <1>3, <1>4 DEF StoreTypeOK

-----------------------------------------------------------------------------
(***************************************************************************)
(* Type correctness.                                                       *)
(***************************************************************************)
LEMMA InitTypes == Init => TypeOK
<1> SUFFICES ASSUME Init PROVE TypeOK
  OBVIOUS
<1> PICK legacy \in [Messages -> LegacyRecords] :
      /\ posted = [m \in Messages |-> legacy[m].posted]
      /\ current = [m \in Messages |-> legacy[m].current]
      /\ history = [m \in Messages |-> legacy[m].history]
      /\ offer = [m \in Messages |-> legacy[m].offer]
      /\ deletedAt = {m \in Messages : legacy[m].deleted}
  BY DEF Init
<1>1. \A m \in Messages : legacy[m] \in LegacyType
  BY LegacyAssumption
<1>2. StoreTypeOK /\ SourceTypeOK
  BY <1>1 DEF Init, StoreTypeOK, SourceTypeOK, LegacyType
<1>3. LedgerTypeOK
  BY DEF Init, LedgerTypeOK
<1>4. TaskTypeOK /\ TaskEventsOK
  BY DEF Init, TaskTypeOK, TaskEventsOK, Idle, At, Working
<1> QED
  BY <1>2, <1>3, <1>4 DEF TypeOK

\* What Telegram does touches only the source and the queue of callbacks.
LEMMA EnvironmentTypes ==
  ASSUME TypeOK, Environment
  PROVE  TypeOK'
<1> PICK m \in Messages : Post(m) \/ Edit(m) \/ Withdraw(m)
  BY DEF Environment
<1>1. \A r \in Originals : [kind |-> "new", msg |-> m, rev |-> r] \in Events
  BY SourceAssumption DEF Events, Upserts
<1>2. \A r \in Edits : [kind |-> "edit", msg |-> m, rev |-> r] \in Events
  BY SourceAssumption DEF Events, Upserts
<1>3. DeleteEvent(m) \in Events
  BY DEF Events, Deletes, DeleteEvent
<1>0. ASSUME NEW e \in Events, Callback(e)
      PROVE  queue' \in Seq(Events)
  BY <1>0 DEF Callback, TypeOK, SourceTypeOK
<1>4. queue' \in Seq(Events)
  BY <1>0, <1>1, <1>2, <1>3 DEF Post, Edit, Withdraw
<1>5. posted' \in [Messages -> Revisions \cup {Absent}] /\ withdrawn' \subseteq Messages
  BY SourceAssumption DEF Post, Edit, Withdraw, TypeOK, SourceTypeOK
<1>6. UNCHANGED <<storeVars, terminal, failures, taskVars, boundVars>>
  BY DEF Post, Edit, Withdraw
<1> QED
  BY <1>4, <1>5, <1>6
  DEF TypeOK, StoreTypeOK, LedgerTypeOK, SourceTypeOK, TaskTypeOK, TaskEventsOK,
      storeVars, canonVars, taskVars, boundVars, At, Working

-----------------------------------------------------------------------------
(***************************************************************************)
(* The steps of Next by their effect on the canonical record.              *)
(***************************************************************************)
Quiet ==
  /\ UNCHANGED <<canonVars, applied, receipt>>
  /\ landed \subseteq landed' /\ landed' \subseteq Events

BatchWrite ==
  /\ runLock \in Importers
  /\ \E m \in Messages, r \in ExportRevisions : ReconcileMessage(m, r, FALSE)
  /\ UNCHANGED <<applied, landed, receipt>>

StoreEffect ==
  \/ Quiet
  \/ \E e \in Events : ~Conflicts(e) /\ CommitEvent(e)
  \/ BatchWrite
  \/ Promote
  \/ \E m \in Messages : OwnerApply(m)

LEMMA ObservationsAreEvents ==
  ASSUME SourceTypeOK, NEW m \in Messages
  PROVE  /\ posted[m] # Absent =>
              [kind |-> KindOf(posted[m]), msg |-> m, rev |-> posted[m]] \in Events
         /\ posted[m] # Absent => [kind |-> "edit", msg |-> m, rev |-> posted[m]] \in Events
         /\ DeleteEvent(m) \in Events
BY DEF SourceTypeOK, Events, Upserts, Deletes, DeleteEvent, KindOf

LEMMA LiveEffect ==
  ASSUME TypeOK, NEW a \in LiveTasks, NEW e \in Events, BeginLive(a, e)
  PROVE  Quiet
BY DEF BeginLive, Deferred, WorkerExit, Quiet, TypeOK, StoreTypeOK, storeVars, canonVars

LEMMA StepEffect ==
  ASSUME TypeOK, [Next]_vars
  PROVE  StoreEffect
<1> USE DEF StoreEffect, Quiet, storeVars, canonVars
<1>0. landed \subseteq Events
  BY DEF TypeOK, StoreTypeOK
<1>1. CASE Environment
  BY <1>0, <1>1 DEF Environment, Post, Edit, Withdraw
<1>2. CASE Promote
  BY <1>2
<1>3. ASSUME NEW m \in Messages, OwnerApply(m)
      PROVE  StoreEffect
  BY <1>3
<1>4. ASSUME NEW m \in Messages, SeedArchive(m)
      PROVE  StoreEffect
  <2>1. [kind |-> "new", msg |-> m, rev |-> current[m]] \in Events
    BY <1>4 DEF SeedArchive, Stored, TypeOK, StoreTypeOK, Events, Upserts
  <2> QED
    BY <1>0, <1>4, <2>1 DEF SeedArchive
<1>5. CASE Import
  BY <1>0, <1>5 DEF Import, ImportStart, ImportMessage, ImportEnd, BatchWrite
<1>6. CASE ConsumerTake
  <2>1. Head(queue) \in Events
    BY <1>6 DEF ConsumerTake, TypeOK, SourceTypeOK
  <2> QED
    BY <1>6, <2>1, LiveEffect DEF ConsumerTake, LiveTasks
<1>7. CASE ReconcilerBegin
  <2>1. task["reconciler"].ev \in Events
    BY <1>7 DEF ReconcilerBegin, At, TypeOK, TaskEventsOK, Tasks, WorkerTasks, LiveTasks
  <2> QED
    BY <1>7, <2>1, LiveEffect DEF ReconcilerBegin, LiveTasks
<1>8. CASE LandObservation
  <2>1. task["reconciler"].ev \in Events
    BY <1>8 DEF LandObservation, At, TypeOK, TaskEventsOK, Tasks, WorkerTasks, LiveTasks
  <2> QED
    BY <1>0, <1>8, <2>1 DEF LandObservation
<1>9. ASSUME NEW m \in Messages, Poll(m) \/ Sweep(m)
      PROVE  StoreEffect
  BY <1>0, <1>9 DEF Poll, Sweep, Observe
<1>10. CASE Drain
  BY <1>0, <1>10 DEF Drain, Claim, StartRecord
<1>11. CASE Fault
  BY <1>0, <1>11
  DEF Fault, WorkerCrash, WorkerExit, OperatorCrash, TransientFailure, Deferred
<1>12. ASSUME NEW a \in Tasks, Proceed(a)
       PROVE  StoreEffect
  <2>1. CASE PersistLive(a)
    <3>1. task[a].ev \in Events
      BY <2>1 DEF PersistLive, At, TypeOK, TaskEventsOK
    <3> QED
      BY <1>0, <2>1, <3>1 DEF PersistLive, FailData, WorkerExit
  <2>2. CASE ApplyArchive(a)
    <3>1. task[a].ev \in Events
      BY <2>2 DEF ApplyArchive, At, TypeOK, TaskEventsOK
    <3>2. receipt[task[a].ev] = Absent /\ Conflicts(task[a].ev) => FailData(a)
      BY <2>2 DEF ApplyArchive
    <3>3. receipt[task[a].ev] = Absent /\ ~Conflicts(task[a].ev) => CommitEvent(task[a].ev)
      BY <2>2 DEF ApplyArchive
    <3>4. receipt[task[a].ev] # Absent => UNCHANGED storeVars
      BY <2>2 DEF ApplyArchive
    <3> QED
      BY <1>0, <3>1, <3>2, <3>3, <3>4 DEF FailData, WorkerExit
  <2> QED
    BY <1>0, <1>12, <2>1, <2>2 DEF Proceed, MarkLive, Acknowledge, RecordFailure
<1>13. CASE UNCHANGED vars
  BY <1>0, <1>13 DEF vars
<1> QED
  BY <1>1, <1>2, <1>3, <1>4, <1>5, <1>6, <1>7, <1>8, <1>9, <1>10, <1>11, <1>12, <1>13
  DEF Next, Catalog, Live

LEMMA StoreTypes ==
  ASSUME TypeOK, [Next]_vars
  PROVE  StoreTypeOK'
<1>1. CASE Quiet
  BY <1>1 DEF Quiet, canonVars, TypeOK, StoreTypeOK
<1>2. ASSUME NEW e \in Events, ~Conflicts(e), CommitEvent(e)
      PROVE  StoreTypeOK'
  BY <1>2, CommitTypes DEF TypeOK
<1>3. CASE BatchWrite
  <2>1. \A r \in ExportRevisions : r \in Revisions
    BY IngestionAssumption
  <2> QED
    BY <1>3, <2>1, ReconcileTypes DEF BatchWrite, TypeOK, StoreTypeOK
<1>4. CASE Promote
  BY <1>4 DEF Promote, TypeOK, StoreTypeOK, Visibilities
<1>5. ASSUME NEW m \in Messages, OwnerApply(m)
      PROVE  StoreTypeOK'
  BY <1>5 DEF OwnerApply, TypeOK, StoreTypeOK, Visibilities
<1> QED
  BY <1>1, <1>2, <1>3, <1>4, <1>5, StepEffect DEF StoreEffect

LEMMA LandedGrows ==
  ASSUME TypeOK, [Next]_vars
  PROVE  landed \subseteq landed'
BY StepEffect DEF StoreEffect, Quiet, BatchWrite, CommitEvent, Promote, OwnerApply

\* Only an acknowledgement and a counted failure write the ledger columns.
LEMMA LedgerEffect ==
  ASSUME [Next]_vars
  PROVE  \/ UNCHANGED <<terminal, failures>>
         \/ \E a \in Tasks : MarkLive(a) \/ Acknowledge(a) \/ RecordFailure(a)
<1>1. Environment => UNCHANGED <<terminal, failures>>
  BY DEF Environment, Post, Edit, Withdraw
<1>2. Catalog => UNCHANGED <<terminal, failures>>
  BY DEF Catalog, Promote, OwnerApply, SeedArchive
<1>3. Import => UNCHANGED <<terminal, failures>>
  BY DEF Import, ImportStart, ImportMessage, ImportEnd
<1>4. Live => UNCHANGED <<terminal, failures>>
  BY DEF Live, ConsumerTake, ReconcilerBegin, BeginLive, Deferred, WorkerExit,
         LandObservation, Poll, Sweep, Observe
<1>5. Drain => UNCHANGED <<terminal, failures>>
  BY DEF Drain, Claim, StartRecord
<1>6. Fault => UNCHANGED <<terminal, failures>>
  BY DEF Fault, WorkerCrash, WorkerExit, OperatorCrash, TransientFailure, Deferred
<1>7. \A a \in Tasks : PersistLive(a) => UNCHANGED <<terminal, failures>>
  BY DEF PersistLive, FailData, WorkerExit
<1>8. \A a \in Tasks : ApplyArchive(a) => UNCHANGED <<terminal, failures>>
  BY DEF ApplyArchive, FailData, WorkerExit
<1> QED
  BY <1>1, <1>2, <1>3, <1>4, <1>5, <1>6, <1>7, <1>8 DEF Next, Proceed, vars

LEMMA LedgerTypes ==
  ASSUME TypeOK, [Next]_vars
  PROVE  LedgerTypeOK'
<1>1. CASE UNCHANGED <<terminal, failures>>
  BY <1>1, LandedGrows DEF TypeOK, LedgerTypeOK
<1>2. ASSUME NEW a \in Tasks, MarkLive(a) \/ Acknowledge(a)
      PROVE  LedgerTypeOK'
  <2>1. task[a].ev \in landed
    BY <1>2 DEF MarkLive, Acknowledge, At, Working, TypeOK, TaskEventsOK
  <2> QED
    BY <1>2, <2>1, LandedGrows DEF MarkLive, Acknowledge, TypeOK, LedgerTypeOK
<1>3. ASSUME NEW a \in Tasks, RecordFailure(a)
      PROVE  LedgerTypeOK'
  <2>1. task[a].ev \in Events
    BY <1>3 DEF RecordFailure, At, TypeOK, TaskEventsOK
  <2> QED
    BY <1>3, <2>1, LandedGrows DEF RecordFailure, TypeOK, LedgerTypeOK
<1> QED
  BY <1>1, <1>2, <1>3, LedgerEffect

LEMMA QueueEffect ==
  ASSUME [Next]_vars
  PROVE  \/ Environment
         \/ UNCHANGED sourceVars /\ queue' \in {queue, <<>>}
         \/ UNCHANGED sourceVars /\ queue # <<>> /\ queue' = Tail(queue)
<1> USE DEF sourceVars
<1>1. Catalog => UNCHANGED <<sourceVars, queue>>
  BY DEF Catalog, Promote, OwnerApply, SeedArchive
<1>2. Import => UNCHANGED <<sourceVars, queue>>
  BY DEF Import, ImportStart, ImportMessage, ImportEnd
<1>3. Live => \/ UNCHANGED sourceVars /\ queue' \in {queue, <<>>}
              \/ UNCHANGED sourceVars /\ queue # <<>> /\ queue' = Tail(queue)
  BY DEF Live, ConsumerTake, ReconcilerBegin, BeginLive, Deferred, WorkerExit,
         LandObservation, Poll, Sweep, Observe
<1>4. Drain => UNCHANGED <<sourceVars, queue>>
  BY DEF Drain, Claim, StartRecord
<1>5. Fault => UNCHANGED sourceVars /\ queue' \in {queue, <<>>}
  BY DEF Fault, WorkerCrash, WorkerExit, OperatorCrash, TransientFailure, Deferred
<1>6. \A a \in Tasks : PersistLive(a) => UNCHANGED sourceVars /\ queue' \in {queue, <<>>}
  BY DEF PersistLive, FailData, WorkerExit
<1>7. \A a \in Tasks : ApplyArchive(a) => UNCHANGED sourceVars /\ queue' \in {queue, <<>>}
  BY DEF ApplyArchive, FailData, WorkerExit
<1>8. \A a \in Tasks : MarkLive(a) \/ Acknowledge(a) \/ RecordFailure(a) =>
        UNCHANGED <<sourceVars, queue>>
  BY DEF MarkLive, Acknowledge, RecordFailure
<1> QED
  BY <1>1, <1>2, <1>3, <1>4, <1>5, <1>6, <1>7, <1>8 DEF Next, Proceed, vars

LEMMA QueueTypes ==
  ASSUME TypeOK, [Next]_vars
  PROVE  SourceTypeOK'
<1>1. CASE Environment
  BY <1>1, EnvironmentTypes DEF TypeOK
<1>2. queue \in Seq(Events)
  BY DEF TypeOK, SourceTypeOK
<1>3. queue # <<>> => Tail(queue) \in Seq(Events)
  BY <1>2
<1>4. <<>> \in Seq(Events)
  OBVIOUS
<1>5. ASSUME UNCHANGED sourceVars, queue' \in Seq(Events)
      PROVE  SourceTypeOK'
  BY <1>5 DEF sourceVars, TypeOK, SourceTypeOK
<1> QED
  BY <1>1, <1>2, <1>3, <1>4, <1>5, QueueEffect

\* A task that begins, advances or ends takes an event of the channel with it,
\* on file before it works on it.
LEMMA TaskTypes ==
  ASSUME TypeOK, [Next]_vars
  PROVE  TaskTypeOK' /\ TaskEventsOK'
<1> DEFINE Typed == TaskTypeOK' /\ TaskEventsOK'
<1> USE DEF TypeOK, TaskTypeOK, TaskEventsOK, At, Working
<1>0. landed \subseteq landed' /\ landed \subseteq Events
  BY LandedGrows DEF StoreTypeOK
<1>1. ASSUME UNCHANGED <<taskVars, boundVars>>
      PROVE  Typed
  BY <1>0, <1>1 DEF taskVars, boundVars
<1>2. ASSUME WorkerExit, faults' \in Nat, runs' \in Nat
      PROVE  Typed
  <2>1. TaskTypeOK'
    <3>1. task' \in [Tasks -> [pc : {"idle", "fetched", "waiting", "persist", "mark",
                                     "apply", "ack", "failed"},
                               ev : Events \cup {NoEvent}]]
      BY <1>2 DEF WorkerExit, Idle
    <3>2. batch' \in [Drainers -> SUBSET landed']
      BY <1>0, <1>2 DEF WorkerExit
    <3> QED
      BY <1>2, <3>1, <3>2 DEF WorkerExit
  <2>2. TaskEventsOK'
    BY <1>0, <1>2 DEF WorkerExit, Idle
  <2> QED
    BY <2>1, <2>2
<1>3. ASSUME NEW a \in Tasks, ReleaseLocks(a), UNCHANGED batch,
             faults' \in Nat, runs' \in Nat,
             \/ task' = [task EXCEPT ![a] = Idle]
             \/ task[a].ev \in landed /\ task' = [task EXCEPT ![a].pc = "failed"]
      PROVE  Typed
  <2>1. TaskTypeOK'
    BY <1>0, <1>3 DEF ReleaseLocks, Idle
  <2>2. TaskEventsOK'
    BY <1>0, <1>3 DEF Idle
  <2> QED
    BY <2>1, <2>2
<1>4. ASSUME NEW a \in Tasks, Deferred(a), faults' \in Nat, runs' \in Nat
      PROVE  Typed
  BY <1>2, <1>3, <1>4 DEF Deferred
<1>5. ASSUME NEW a \in Tasks, FailData(a), task[a].ev \in landed, UNCHANGED boundVars
      PROVE  Typed
  BY <1>2, <1>3, <1>5 DEF FailData, boundVars
<1>6. ASSUME NEW a \in LiveTasks, NEW e \in Events, BeginLive(a, e)
      PROVE  Typed
  <2>1. a \in Tasks /\ a \in WorkerTasks
    BY DEF Tasks, WorkerTasks
  <2>2. CASE runLock = "free"
    BY <1>0, <1>6, <2>1, <2>2 DEF BeginLive, boundVars
  <2> QED
    BY <1>4, <1>6, <2>1, <2>2 DEF BeginLive, boundVars
<1>7. Environment => Typed
  BY <1>1 DEF Environment, Post, Edit, Withdraw
<1>8. Catalog => Typed
  BY <1>1 DEF Catalog, Promote, OwnerApply, SeedArchive
<1>9. Import => Typed
  <2>1. ASSUME NEW i \in Importers, ImportStart(i) \/ ImportEnd(i)
        PROVE  Typed
    <3>1. UNCHANGED <<processing, task, batch, faults>> /\ runs' \in Nat
      BY <2>1 DEF ImportStart, ImportEnd, boundVars
    <3>2. runLock' \in Tasks \cup Importers \cup {"free"}
      BY <2>1 DEF ImportStart, ImportEnd
    <3> QED
      BY <1>0, <3>1, <3>2
  <2>2. \A i \in Importers, m \in Messages : ImportMessage(i, m) => Typed
    BY <1>1 DEF ImportMessage
  <2> QED
    BY <2>1, <2>2 DEF Import
<1>10. Live => Typed
  <2>1. ConsumerTake => Typed
    <3>1. ConsumerTake => Head(queue) \in Events
      BY DEF ConsumerTake, SourceTypeOK
    <3> QED
      BY <1>6, <3>1 DEF ConsumerTake, LiveTasks
  <2> "reconciler" \in LiveTasks /\ "reconciler" \in Tasks
    BY DEF LiveTasks, Tasks, WorkerTasks
  <2>2. ReconcilerBegin => Typed
    BY <1>6 DEF ReconcilerBegin
  <2>3. LandObservation => Typed
    BY <1>0 DEF LandObservation, Idle, boundVars
  <2>4. \A e \in Events : Observe(e) => Typed
    BY <1>0 DEF Observe, boundVars
  <2>5. \A m \in Messages : Poll(m) \/ Sweep(m) => Typed
    BY <2>4, ObservationsAreEvents DEF Poll, Sweep, Stored
  <2> QED
    BY <2>1, <2>2, <2>3, <2>5 DEF Live
<1>11. Drain => Typed
  <2>1. \A d \in Drainers : Claim(d) => Typed
    BY <1>0 DEF Claim
  <2>2. ASSUME NEW d \in Drainers, StartRecord(d)
        PROVE  Typed
    <3>1. d \in Tasks /\ (d = "drainer" => d \in WorkerTasks)
      BY DEF Drainers, Tasks, WorkerTasks
    <3> PICK e \in batch[d] :
          /\ batch' = [batch EXCEPT ![d] = @ \ {e}]
          /\ \/ UNCHANGED <<runLock, processing, task>>
             \/ /\ runLock' = d
                /\ processing' = IF d = "drainer" THEN d ELSE processing
                /\ task' = [task EXCEPT ![d] = [pc |-> "apply", ev |-> e]]
      BY <2>2 DEF StartRecord
    <3>2. e \in landed /\ e \in Events
      BY <1>0
    <3>3. batch' \in [Drainers -> SUBSET landed']
      BY <1>0
    <3>4. UNCHANGED boundVars
      BY <2>2 DEF StartRecord
    <3>5. TaskTypeOK'
      <4>1. task' \in [Tasks -> [pc : {"idle", "fetched", "waiting", "persist", "mark",
                                       "apply", "ack", "failed"},
                                 ev : Events \cup {NoEvent}]]
        BY <3>1, <3>2
      <4>2. /\ processing' \in WorkerTasks \cup {"free"}
            /\ runLock' \in Tasks \cup Importers \cup {"free"}
        BY <3>1
      <4> QED
        BY <3>3, <3>4, <4>1, <4>2 DEF boundVars
    <3>6. TaskEventsOK'
      BY <1>0, <3>1, <3>2
    <3> QED
      BY <3>5, <3>6
  <2> QED
    BY <2>1, <2>2 DEF Drain
<1>12. Fault => Typed
  <2>1. WorkerCrash => Typed
    BY <1>2, IngestionAssumption DEF WorkerCrash
  <2>2. \A o \in Operators : OperatorCrash(o) => Typed
    <3> SUFFICES ASSUME NEW o \in Operators, OperatorCrash(o)
                 PROVE  Typed
      OBVIOUS
    <3>1. o \in Tasks /\ o \in Drainers
      BY DEF Tasks, Drainers
    <3>2. batch' \in [Drainers -> SUBSET landed']
      BY <1>0, <3>1 DEF OperatorCrash
    <3>3. TaskTypeOK'
      BY <3>1, <3>2 DEF OperatorCrash, Idle
    <3>4. TaskEventsOK'
      BY <1>0, <3>1 DEF OperatorCrash, Idle
    <3> QED
      BY <3>3, <3>4
  <2>3. \A a \in Tasks : TransientFailure(a) => Typed
    BY <1>4 DEF TransientFailure
  <2> QED
    BY <2>1, <2>2, <2>3 DEF Fault
<1>13. ASSUME NEW a \in Tasks, Proceed(a)
       PROVE  Typed
  <2>1. CASE PersistLive(a)
    BY <1>0, <1>5, <2>1 DEF PersistLive, boundVars
  <2>2. CASE ApplyArchive(a)
    BY <1>0, <1>5, <2>2 DEF ApplyArchive, ReleaseLocks, boundVars
  <2>3. CASE MarkLive(a)
    BY <1>3, <2>3 DEF MarkLive, boundVars
  <2>4. CASE Acknowledge(a) \/ RecordFailure(a)
    BY <1>0, <2>4 DEF Acknowledge, RecordFailure, Idle, boundVars
  <2> QED
    BY <1>13, <2>1, <2>2, <2>3, <2>4 DEF Proceed
<1>14. UNCHANGED vars => Typed
  BY <1>1 DEF vars, taskVars, boundVars
<1> QED
  BY <1>7, <1>8, <1>9, <1>10, <1>11, <1>12, <1>13, <1>14 DEF Next

\* The rows, locks and tasks stay well typed, for any number of messages.
THEOREM TypeCorrect == Spec => []TypeOK
<1>1. TypeOK /\ [Next]_vars => TypeOK'
  BY StoreTypes, LedgerTypes, QueueTypes, TaskTypes DEF TypeOK
<1> QED
  BY <1>1, InitTypes, PTL DEF Spec
=============================================================================
