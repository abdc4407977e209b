-------------------------- MODULE TelegramIngestion --------------------------
(***************************************************************************)
(* The live Telegram ingestion of one channel: the callbacks that queue    *)
(* source events, the worker's consumer, reconciler and archive drainer,   *)
(* an operator's `apply` in a process of its own, and the batch writers    *)
(* (historical import, live backfill), all writing the records of          *)
(* SourceRecord.                                                           *)
(*                                                                         *)
(* One action is one database transaction, or one step between two of      *)
(* them: a process may die, and others may run, between any two actions.   *)
(* Two locks order the writers.  The worker's asyncio processing_lock is   *)
(* waited for and exists only in that process; the advisory run lock of    *)
(* the channel spans processes and is tried once: RunLockHeldError.        *)
(***************************************************************************)
EXTENDS SourceRecord, Sequences

CONSTANTS
  Moment,            \* [Revisions -> Nat], when Telegram came to show a payload
  Operators,         \* {"operator"} when somebody may run `apply`, else {}
  Importers,         \* {"importer"} when a batch writer may run, else {}
  ExportRevisions,   \* the revisions a batch writer may carry
  LegacyRecords,     \* what a message may look like before the first event
  MaxDataFailures,   \* MAX_DATA_FAILURES, 5 in the code
  MaxQueue,          \* bound: callbacks waiting in the live queue
  MaxFaults,         \* bound: crashes and transient failures
  MaxRuns            \* bound: operator and import runs

ASSUME IngestionAssumption ==
  /\ Moment \in [Revisions -> Nat]
  /\ \A r, s \in Revisions : Moment[r] <= Moment[s] => SourceTime[r] <= SourceTime[s]
  /\ Operators \subseteq {"operator"}
  /\ Importers \subseteq {"importer"}
  /\ ExportRevisions \subseteq Revisions
  /\ MaxDataFailures \in Nat \ {0}
  /\ MaxQueue \in Nat /\ MaxFaults \in Nat /\ MaxRuns \in Nat

VARIABLES
  posted,      \* Telegram: the revision a message shows, or Absent
  withdrawn,   \* Telegram: the messages that were deleted there
  queue,       \* LiveEventQueue: callbacks not yet consumed
  terminal,    \* telegram_raw_events with processed_at set
  failures,    \* data_failure_count per event
  processing,  \* holder of the worker's processing_lock, or "free"
  runLock,     \* holder of the channel's advisory run lock, or "free"
  task,        \* what each live or archive task is doing with which event
  batch,       \* drainers: the claimed records not yet attempted
  faults,      \* faults so far
  runs         \* operator and import runs so far

sourceVars == <<posted, withdrawn>>
ledgerVars == <<landed, receipt, terminal, failures>>
taskVars == <<processing, runLock, task, batch>>
boundVars == <<faults, runs>>
vars == <<storeVars, posted, withdrawn, queue, terminal, failures,
          processing, runLock, task, batch, faults, runs>>

LiveTasks == {"consumer", "reconciler"}
Drainers == {"drainer"} \cup Operators
WorkerTasks == LiveTasks \cup {"drainer"}
Tasks == WorkerTasks \cup Operators

NoEvent == [kind |-> "none", msg |-> 0, rev |-> Absent]
Idle == [pc |-> "idle", ev |-> NoEvent]
At(a, pc) == task[a].pc = pc

(***************************************************************************)
(* A message may be new, or have been stored before the archive existed:   *)
(* imported, perhaps rebuilt from a lossy live payload, perhaps deleted    *)
(* without a tombstone.                                                    *)
(***************************************************************************)
LegacyType ==
  [posted : Revisions \cup {Absent}, current : Revisions \cup {Absent},
   history : SUBSET Revisions, deleted : BOOLEAN, offer : Visibilities]

WellFormed(x) ==
  /\ x.current # Absent => x.current \in x.history
  /\ x.current # Absent => x.posted # Absent
  /\ x.current = Absent => x.history = {} /\ x.offer = "none" /\ ~x.deleted
  /\ x.deleted => x.offer \in {"none", "hidden"}

ASSUME LegacyAssumption ==
  LegacyRecords \subseteq {x \in LegacyType : WellFormed(x)}

Init ==
  \E legacy \in [Messages -> LegacyRecords] :
    /\ posted = [m \in Messages |-> legacy[m].posted]
    /\ current = [m \in Messages |-> legacy[m].current]
    /\ history = [m \in Messages |-> legacy[m].history]
    /\ offer = [m \in Messages |-> legacy[m].offer]
    /\ deletedAt = {m \in Messages : legacy[m].deleted}
    /\ tombstones = {}
    /\ withdrawn = deletedAt
    /\ applied = 0
    /\ landed = {} /\ terminal = {}
    /\ receipt = [e \in Events |-> Absent]
    /\ failures = [e \in Events |-> 0]
    /\ queue = <<>>
    /\ processing = "free" /\ runLock = "free"
    /\ task = [a \in Tasks |-> Idle]
    /\ batch = [d \in Drainers |-> {}]
    /\ faults = 0 /\ runs = 0

-----------------------------------------------------------------------------
(***************************************************************************)
(* The source and its callbacks.  A callback may be lost: the transport    *)
(* was down, or the adapter dropped it.                                    *)
(***************************************************************************)
Callback(e) ==
  \/ UNCHANGED queue
  \/ Len(queue) < MaxQueue /\ queue' = Append(queue, e)

Post(m) ==
  /\ posted[m] = Absent
  /\ \E r \in Originals :
       /\ posted' = [posted EXCEPT ![m] = r]
       /\ Callback([kind |-> "new", msg |-> m, rev |-> r])
  /\ UNCHANGED <<storeVars, withdrawn, terminal, failures, taskVars, boundVars>>

\* Every edit is a later moment, but its source time has whole seconds: two edits
\* may share one.
Edit(m) ==
  /\ posted[m] # Absent /\ m \notin withdrawn
  /\ \E r \in Edits :
       /\ Moment[r] > Moment[posted[m]]
       /\ posted' = [posted EXCEPT ![m] = r]
       /\ Callback([kind |-> "edit", msg |-> m, rev |-> r])
  /\ UNCHANGED <<storeVars, withdrawn, terminal, failures, taskVars, boundVars>>

Withdraw(m) ==
  /\ posted[m] # Absent /\ m \notin withdrawn
  /\ withdrawn' = withdrawn \cup {m}
  /\ Callback(DeleteEvent(m))
  /\ UNCHANGED <<storeVars, posted, terminal, failures, taskVars, boundVars>>

-----------------------------------------------------------------------------
(***************************************************************************)
(* The worker exits: any exception in a critical stage cancels all of      *)
(* them.  Queued callbacks are lost, PostgreSQL drops the session-level    *)
(* run lock with its connection, the process restarts.                     *)
(***************************************************************************)
WorkerExit ==
  /\ queue' = <<>>
  /\ task' = [a \in Tasks |-> IF a \in WorkerTasks THEN Idle ELSE task[a]]
  /\ batch' = [batch EXCEPT !["drainer"] = {}]
  /\ processing' = "free"
  /\ runLock' = IF runLock \in WorkerTasks THEN "free" ELSE runLock
  /\ UNCHANGED <<storeVars, terminal, failures>>

WorkerCrash ==
  /\ faults < MaxFaults
  /\ faults' = faults + 1
  /\ WorkerExit
  /\ UNCHANGED <<sourceVars, runs>>

OperatorCrash(o) ==
  /\ faults < MaxFaults
  /\ task[o] # Idle \/ batch[o] # {}
  /\ faults' = faults + 1
  /\ task' = [task EXCEPT ![o] = Idle]
  /\ batch' = [batch EXCEPT ![o] = {}]
  /\ runLock' = IF runLock = o THEN "free" ELSE runLock
  /\ UNCHANGED <<storeVars, sourceVars, queue, terminal, failures, processing,
                 runs>>

\* Leaving `async with` blocks: the run lock, and the processing lock if held.
ReleaseLocks(a) ==
  /\ runLock' = IF runLock = a THEN "free" ELSE runLock
  /\ processing' = IF processing = a THEN "free" ELSE processing

(***************************************************************************)
(* An attempt fails.  The consumer has no handler: its worker exits.  The  *)
(* reconciler and the drainers leave their locks first and then count a    *)
(* data failure in a transaction of its own; contention and transport      *)
(* failures only touch the deferral counter and backoff, which are elided. *)
(***************************************************************************)
Deferred(a) ==
  IF a = "consumer" THEN WorkerExit
  ELSE /\ task' = [task EXCEPT ![a] = Idle]
       /\ ReleaseLocks(a)
       /\ UNCHANGED <<storeVars, queue, terminal, failures, batch>>

FailData(a) ==
  IF a = "consumer" THEN WorkerExit
  ELSE /\ task' = [task EXCEPT ![a].pc = "failed"]
       /\ ReleaseLocks(a)
       /\ UNCHANGED <<storeVars, queue, terminal, failures, batch>>

\* Mutants of RecordFailure: a late failure counts on an acknowledged row; a
\* failure acknowledges the row.
RecordLateFailure(a) ==
  /\ At(a, "failed")
  /\ failures' = [failures EXCEPT ![task[a].ev] = @ + 1]
  /\ task' = [task EXCEPT ![a] = Idle]
  /\ UNCHANGED <<storeVars, sourceVars, queue, terminal, processing, runLock,
                 batch, boundVars>>

AcknowledgeFailure(a) ==
  /\ At(a, "failed")
  /\ terminal' = terminal \cup {task[a].ev}
  /\ task' = [task EXCEPT ![a] = Idle]
  /\ UNCHANGED <<storeVars, sourceVars, queue, failures, processing, runLock,
                 batch, boundVars>>

\* record_retry: a terminal row never reopens and counts nothing.
RecordFailure(a) ==
  /\ At(a, "failed")
  /\ failures' = IF task[a].ev \in terminal THEN failures
                 ELSE [failures EXCEPT ![task[a].ev] = @ + 1]
  /\ task' = [task EXCEPT ![a] = Idle]
  /\ UNCHANGED <<storeVars, sourceVars, queue, terminal, processing, runLock,
                 batch, boundVars>>

\* A database or transport error somewhere under the locks.
TransientFailure(a) ==
  /\ faults < MaxFaults
  /\ task[a].pc \in {"persist", "mark", "apply", "ack"}
  /\ faults' = faults + 1
  /\ Deferred(a)
  /\ UNCHANGED <<sourceVars, runs>>
-----------------------------------------------------------------------------
(***************************************************************************)
(* Live processing: _process_connected for one event, run by the consumer  *)
(* and the reconciler.  Landing, the canonical transaction and the         *)
(* acknowledgement are three commits under both locks.                     *)
(***************************************************************************)
BeginLive(a, e) ==
  /\ processing = "free"
  /\ IF runLock = "free"
     THEN /\ processing' = a /\ runLock' = a
          /\ landed' = landed \cup {e}
          /\ task' = [task EXCEPT ![a] = [pc |-> "persist", ev |-> e]]
          /\ UNCHANGED <<canonVars, applied, receipt, terminal, failures, batch>>
          /\ queue' = IF a = "consumer" THEN Tail(queue) ELSE queue
     ELSE Deferred(a)
  /\ UNCHANGED <<sourceVars, boundVars>>

ConsumerTake ==
  /\ At("consumer", "idle")
  /\ queue # <<>>
  /\ BeginLive("consumer", Head(queue))

PersistLive(a) ==
  /\ At(a, "persist")
  /\ IF Conflicts(task[a].ev) THEN FailData(a)
     ELSE /\ CommitEvent(task[a].ev)
          /\ task' = [task EXCEPT ![a].pc = "mark"]
          /\ UNCHANGED <<queue, terminal, failures, processing, runLock, batch>>
  /\ UNCHANGED <<sourceVars, boundVars>>

\* mark_attempt with a terminal outcome; a second one changes nothing.
MarkLive(a) ==
  /\ At(a, "mark")
  /\ terminal' = terminal \cup {task[a].ev}
  /\ task' = [task EXCEPT ![a] = Idle]
  /\ ReleaseLocks(a)
  /\ UNCHANGED <<storeVars, sourceVars, queue, failures, batch, boundVars>>

-----------------------------------------------------------------------------
(***************************************************************************)
(* The reconciler fetches outside the locks: a polled message, or a sweep  *)
(* over a stored id.  What it fetched may be stale when it is landed, and  *)
(* what can_attempt said may be stale when the lock is granted.            *)
(***************************************************************************)
\* Mutants of CanAttempt: no budget; a receipted record is not due any more.
CanAlwaysAttempt(e) == e \notin terminal

CanAttemptUndecided(e) ==
  e \notin terminal /\ receipt[e] = Absent /\ failures[e] < MaxDataFailures

CanAttempt(e) ==
  /\ e \notin terminal
  /\ receipt[e] # Absent \/ failures[e] < MaxDataFailures

Observe(e) ==
  /\ At("reconciler", "idle")
  /\ task' = [task EXCEPT !["reconciler"] = [pc |-> "fetched", ev |-> e]]
  /\ UNCHANGED <<storeVars, sourceVars, queue, terminal, failures, processing,
                 runLock, batch, boundVars>>

Poll(m) ==
  /\ posted[m] # Absent /\ m \notin withdrawn
  /\ Observe([kind |-> KindOf(posted[m]), msg |-> m, rev |-> posted[m]])

\* Mutant: what the source does not return is passed over.
SweepExisting(m) ==
  /\ m \in Stored \ withdrawn /\ posted[m] # Absent
  /\ Observe([kind |-> "edit", msg |-> m, rev |-> posted[m]])

Sweep(m) ==
  /\ m \in Stored /\ posted[m] # Absent
  /\ Observe(IF m \in withdrawn THEN DeleteEvent(m)
             ELSE [kind |-> "edit", msg |-> m, rev |-> posted[m]])

LandObservation ==
  /\ At("reconciler", "fetched")
  /\ landed' = landed \cup {task["reconciler"].ev}
  /\ task' = [task EXCEPT !["reconciler"] =
       IF CanAttempt(@.ev) THEN [@ EXCEPT !.pc = "waiting"] ELSE Idle]
  /\ UNCHANGED <<canonVars, applied, receipt, sourceVars, queue, terminal,
                 failures, processing, runLock, batch, boundVars>>

ReconcilerBegin ==
  /\ At("reconciler", "waiting")
  /\ BeginLive("reconciler", task["reconciler"].ev)

-----------------------------------------------------------------------------
(***************************************************************************)
(* drain_once, in the worker under its processing_lock and in an           *)
(* operator's process without it.  The batch is a snapshot: another task   *)
(* may finish one of its records before its turn.  The acknowledgement     *)
(* comes after the locks are released.                                     *)
(***************************************************************************)
Claim(d) ==
  /\ At(d, "idle") /\ batch[d] = {}
  /\ batch' = [batch EXCEPT ![d] = {e \in landed : CanAttempt(e)}]
  /\ batch'[d] # {}
  /\ IF d \in Operators THEN runs < MaxRuns /\ runs' = runs + 1 ELSE UNCHANGED runs
  /\ UNCHANGED <<storeVars, sourceVars, queue, terminal, failures, processing,
                 runLock, task, faults>>

StartRecord(d) ==
  /\ At(d, "idle")
  /\ d = "drainer" => processing = "free"
  /\ \E e \in batch[d] :
       /\ batch' = [batch EXCEPT ![d] = @ \ {e}]
       /\ IF runLock = "free"
          THEN /\ runLock' = d
               /\ processing' = IF d = "drainer" THEN d ELSE processing
               /\ task' = [task EXCEPT ![d] = [pc |-> "apply", ev |-> e]]
          ELSE UNCHANGED <<runLock, processing, task>>
  /\ UNCHANGED <<storeVars, sourceVars, queue, terminal, failures, boundVars>>

\* ArchivedEventProcessor under the run lock: a receipt is returned as it is.
ApplyArchive(d) ==
  LET e == task[d].ev
  IN  /\ At(d, "apply")
      /\ IF receipt[e] = Absent /\ Conflicts(e) THEN FailData(d)
         ELSE /\ IF receipt[e] = Absent THEN CommitEvent(e) ELSE UNCHANGED storeVars
              /\ task' = [task EXCEPT ![d].pc = "ack"]
              /\ ReleaseLocks(d)
              /\ UNCHANGED <<queue, terminal, failures, batch>>
      /\ UNCHANGED <<sourceVars, boundVars>>

Acknowledge(d) ==
  /\ At(d, "ack")
  /\ terminal' = terminal \cup {task[d].ev}
  /\ task' = [task EXCEPT ![d] = Idle]
  /\ UNCHANGED <<storeVars, sourceVars, queue, failures, processing, runLock,
                 batch, boundVars>>

\* seed_from_history: land what an unarchived source row holds.
SeedArchive(m) ==
  /\ m \in Stored
  /\ \A e \in landed : e.msg # m
  /\ landed' = landed \cup {[kind |-> "new", msg |-> m, rev |-> current[m]]}
  /\ UNCHANGED <<canonVars, applied, receipt, sourceVars, queue, terminal,
                 failures, taskVars, boundVars>>

-----------------------------------------------------------------------------
(***************************************************************************)
(* Batch writers hold the run lock for a whole run and persist without the *)
(* source-order guard: an export may be older than what is stored.         *)
(***************************************************************************)
ImportStart(i) ==
  /\ runLock = "free" /\ runs < MaxRuns
  /\ runLock' = i /\ runs' = runs + 1
  /\ UNCHANGED <<storeVars, sourceVars, queue, terminal, failures, processing,
                 task, batch, faults>>

ImportMessage(i, m) ==
  /\ runLock = i
  /\ posted[m] # Absent
  /\ \E r \in ExportRevisions :
       /\ Moment[r] <= Moment[posted[m]]
       /\ ReconcileMessage(m, r, FALSE)
  /\ UNCHANGED <<applied, landed, receipt, sourceVars, queue, terminal,
                 failures, taskVars, boundVars>>

ImportEnd(i) ==
  /\ runLock = i
  /\ runLock' = "free"
  /\ UNCHANGED <<storeVars, sourceVars, queue, terminal, failures, processing,
                 task, batch, boundVars>>

-----------------------------------------------------------------------------
(***************************************************************************)
(* Writers of the offer that take no run lock: the catalog promotion, and  *)
(* the owner's AI proposal, which locks and rechecks the source row.       *)
(***************************************************************************)
Promote ==
  /\ \E S \in SUBSET {m \in Messages : offer[m] = "needs_review"} :
       /\ S # {}
       /\ offer' = [m \in Messages |-> IF m \in S THEN "visible" ELSE offer[m]]
  /\ UNCHANGED <<current, history, deletedAt, tombstones, applied, landed,
                 receipt, sourceVars, queue, terminal, failures, taskVars,
                 boundVars>>

OwnerApply(m) ==
  /\ m \in Stored \ deletedAt
  /\ offer[m] = "none"
  /\ offer' = [offer EXCEPT ![m] = "needs_review"]
  /\ UNCHANGED <<current, history, deletedAt, tombstones, applied, landed,
                 receipt, sourceVars, queue, terminal, failures, taskVars,
                 boundVars>>

-----------------------------------------------------------------------------
Environment == \E m \in Messages : Post(m) \/ Edit(m) \/ Withdraw(m)

Catalog == Promote \/ \E m \in Messages : OwnerApply(m) \/ SeedArchive(m)

Import ==
  \E i \in Importers :
    ImportStart(i) \/ ImportEnd(i) \/ \E m \in Messages : ImportMessage(i, m)

\* What task a does next on its own once it has begun, waiting for nobody.
Proceed(a) ==
  PersistLive(a) \/ MarkLive(a) \/ ApplyArchive(a) \/ Acknowledge(a) \/ RecordFailure(a)

Live ==
  \/ ConsumerTake \/ ReconcilerBegin \/ LandObservation
  \/ \E m \in Messages : Poll(m) \/ Sweep(m)

Drain == \E d \in Drainers : Claim(d) \/ StartRecord(d)

Fault ==
  \/ WorkerCrash
  \/ \E o \in Operators : OperatorCrash(o)
  \/ \E a \in Tasks : TransientFailure(a)

Next ==
  \/ Environment \/ Catalog \/ Import \/ Live \/ Drain \/ Fault
  \/ \E a \in Tasks : Proceed(a)

Spec == Init /\ [][Next]_vars

(***************************************************************************)
(* asyncio.Lock is first come first served, the reconciler traverses every *)
(* id of the channel again and again, and the drainer repeats for ever: no *)
(* step that keeps coming up is passed over for ever.                      *)
(***************************************************************************)
Fairness ==
  /\ \A a \in Tasks : WF_vars(Proceed(a))
  /\ WF_vars(LandObservation) /\ WF_vars(Claim("drainer"))
  /\ SF_vars(ConsumerTake) /\ SF_vars(ReconcilerBegin)
  /\ \A m \in Messages : SF_vars(Poll(m)) /\ SF_vars(Sweep(m))
  /\ \A d \in Drainers : SF_vars(StartRecord(d))
  /\ \A i \in Importers : WF_vars(ImportEnd(i))

FairSpec == Spec /\ Fairness
=============================================================================
