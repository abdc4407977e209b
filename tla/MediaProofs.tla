----------------------------- MODULE MediaProofs -----------------------------
(***************************************************************************)
(* The queue of the media recovery, for albums of any number of photos and *)
(* revisions, any number of runners, and a canary of any size.             *)
(***************************************************************************)
EXTENDS MediaRecovery, FiniteSetTheorems, WellFoundedInduction, TLAPS

SourceOK ==
  /\ revision \in [Messages -> Nat]
  /\ \A m \in Messages : revision[m] <= MaxRevision[m]
  /\ deleted \subseteq Stored
  /\ linked \subseteq 1..revision[Listing]

ScanOK ==
  /\ seen \subseteq linked /\ discovered \subseteq Keys
  /\ scanAfter \in Messages \cup {0, Listing - 1} /\ scanUpper \in Messages \cup {0}
  /\ Stored = {} => scanAfter = 0

States == {"none", "pending", "leased", "retry_wait", "unassociated"} \cup Outcomes
Rows == [state : States, association : 0..revision[Listing], failures : Nat,
         holder : Runners \cup {"nobody"}]

\* One lease is alive at a time, and it is the one of a leased row.
QueueOK ==
  /\ work \in [Keys -> Rows]
  /\ \A k \in Keys : work[k].state # "none" => k[2] <= revision[k[1]]
  /\ live \subseteq Keys /\ \A k \in live : work[k].state = "leased"
  /\ \A j, k \in live : j = k
  /\ published \subseteq Keys /\ CompletedIsPublished

\* The counter of the canary never runs ahead of the assets that were recovered,
\* and the phase is never ahead of the counter.
CountOK ==
  /\ phase \in {"canary", "canary_ready", "running", "paused"}
  /\ canaryDone \in Nat /\ canaryDone <= Cardinality(Completed)
  /\ phase = "running" => canaryDone >= CanaryAssets

Runs == [step : {"discover", "claim", "attempt", "finish"}, key : Keys \cup {NoKey},
         outcome : Outcomes \cup {""}]

\* A runner has a key during an attempt; when it is to record an outcome it has one,
\* and it published what it completed.
RunnersOK ==
  /\ runner \in [Runners -> Runs]
  /\ \A w \in Runners :
       /\ runner[w].step \in {"attempt", "finish"} => runner[w].key \in Keys
       /\ runner[w].step \in {"discover", "claim"} => runner[w].key = NoKey
       /\ runner[w].step = "finish" => runner[w].outcome \in Outcomes
       /\ runner[w].step = "finish" /\ runner[w].outcome = "completed" =>
            runner[w].key \in published

BoundsOK == faults \in Nat /\ commands \in Nat

IInv == SourceOK /\ ScanOK /\ QueueOK /\ CountOK /\ RunnersOK /\ BoundsOK

-----------------------------------------------------------------------------
\* A key is a message with the number of one of its revisions.
LEMMA KeyParts ==
  /\ \A k \in Keys : k = <<k[1], k[2]>> /\ k[1] \in Messages /\ k[2] \in 1..MaxRevision[k[1]]
  /\ \A m \in Messages, r \in Nat : 0 < r /\ r <= MaxRevision[m] => <<m, r>> \in Keys
<1>1. \A m \in Messages : MaxRevision[m] \in Nat
  BY AlbumAssumption
<1> QED BY <1>1 DEF Keys

\* There are finitely many messages and revisions.
LEMMA KeysFinite == IsFiniteSet(Messages) /\ IsFiniteSet(Keys)
<1> DEFINE Of(m) == {<<m, r>> : r \in 1..MaxRevision[m]}
           f == [m \in Messages |-> Of(m)]
           T == {Of(m) : m \in Messages}
<1>1. IsFiniteSet(Messages)
  BY AlbumAssumption, FS_Singleton, FS_Union DEF Messages
<1>2. \A m \in Messages : IsFiniteSet(Of(m))
  <2> SUFFICES ASSUME NEW m \in Messages PROVE IsFiniteSet(Of(m))
    OBVIOUS
  <2>1. MaxRevision[m] \in Int
    BY AlbumAssumption
  <2>2. IsFiniteSet(1..MaxRevision[m])
    BY <2>1, FS_Interval
  <2>3. IsFiniteSet({m} \X (1..MaxRevision[m]))
    BY <2>2, FS_Singleton, FS_Product
  <2>4. Of(m) \subseteq {m} \X (1..MaxRevision[m])
    OBVIOUS
  <2> QED BY <2>3, <2>4, FS_Subset
<1>3. IsFiniteSet(T)
  <2>1. f \in Surjection(Messages, T)
    BY DEF Surjection
  <2> QED BY <1>1, <2>1, FS_Surjection
<1>4. IsFiniteSet(UNION T)
  BY <1>2, <1>3, FS_UNION
<1> QED BY <1>1, <1>4 DEF Keys

\* The last of a set of messages is one of them.
LEMMA LastIsStored == Stored # {} => LastStored \in Stored
<1> SUFFICES ASSUME Stored # {} PROVE LastStored \in Stored
  OBVIOUS
<1> DEFINE After(m) == {n \in Stored : n > m}
           T == {After(m) : m \in Stored}
<1>1. Stored \subseteq Nat /\ IsFiniteSet(Stored)
  BY KeysFinite, FS_Subset, AlbumAssumption DEF Stored, Messages
<1>2. T \subseteq FiniteSubsetsOf(Stored) /\ T # {}
  <2>1. ASSUME NEW m \in Stored PROVE After(m) \in FiniteSubsetsOf(Stored)
    <3>1. After(m) \in SUBSET Stored
      OBVIOUS
    <3> HIDE DEF After
    <3> QED BY <1>1, <3>1, FS_Subset DEF FiniteSubsetsOf
  <2> HIDE DEF After
  <2> QED BY <2>1
<1>3. PICK U \in T : \A V \in T : ~(<<V, U>> \in StrictSubsetOrdering(Stored))
  BY <1>2, FS_StrictSubsetOrderingWellFounded, WFMin
<1>4. PICK m \in Stored : U = After(m)
  BY <1>3
<1>5. \A n \in Stored : n <= m
  <2> SUFFICES ASSUME NEW n \in Stored, n > m PROVE FALSE
    BY <1>1
  <2>1. n \in Nat /\ m \in Nat /\ \A i \in Stored : i \in Nat
    BY <1>1
  <2>2. After(n) \subseteq After(m) /\ n \in After(m) /\ n \notin After(n)
    <3>1. n \in After(m) /\ ~(n > n)
      BY <2>1
    <3>2. \A i \in Stored : i > n => i > m
      BY <2>1
    <3> QED BY <3>1, <3>2
  <2>3. <<After(n), U>> \in StrictSubsetOrdering(Stored)
    BY <1>4, <2>2 DEF StrictSubsetOrdering
  <2> QED BY <1>3, <2>3
<1> QED BY <1>5 DEF LastStored

\* What was completed and stays so is counted no lower.
LEMMA CompletedGrows ==
  ASSUME Completed \subseteq Completed'
  PROVE  /\ Cardinality(Completed) \in Nat /\ Cardinality(Completed') \in Nat
         /\ Cardinality(Completed) <= Cardinality(Completed')
<1>1. Completed \subseteq Keys /\ Completed' \subseteq Keys
  BY DEF Completed
<1>2. IsFiniteSet(Completed) /\ IsFiniteSet(Completed')
  BY <1>1, KeysFinite, FS_Subset
<1> QED BY <1>2, FS_CardinalityType, FS_Subset

\* The queue counts on as long as no completed row is reopened.
LEMMA CountKept ==
  ASSUME IInv, UNCHANGED controlVars, Completed \subseteq Completed'
  PROVE  CountOK'
BY CompletedGrows DEF IInv, CountOK, controlVars

-----------------------------------------------------------------------------
LEMMA Initially == Init => IInv
<1> SUFFICES ASSUME Init PROVE IInv
  OBVIOUS
<1> USE DEF Init
<1>1. SourceOK /\ ScanOK /\ BoundsOK
  BY AlbumAssumption DEF SourceOK, ScanOK, BoundsOK, Messages
<1>2. QueueOK
  <2>1. revision[Listing] = 0
    BY DEF Messages
  <2>2. NoWork \in Rows /\ NoWork.state = "none"
    BY <2>1 DEF Rows, States, NoWork
  <2> QED BY <2>2 DEF QueueOK, CompletedIsPublished, Completed
<1>3. CountOK
  <2>1. Completed = {}
    BY DEF Completed, NoWork
  <2> QED BY <2>1, FS_EmptySet DEF CountOK
<1>4. RunnersOK
  BY DEF RunnersOK, Runs, At, NoKey
<1> QED BY <1>1, <1>2, <1>3, <1>4 DEF IInv

\* Storing, editing, recognising and deleting messages only lets revisions grow.
LEMMA SourceKeeps ==
  ASSUME IInv, Source
  PROVE  IInv'
<1>1. UNCHANGED <<scanVars, controlVars, queueVars, runner, faults, commands>>
  BY DEF Source, Recognise, Persist, Delete
<1>2. /\ SourceOK' /\ linked \subseteq linked'
      /\ \A m \in Messages : revision[m] \in Nat /\ revision[m] <= revision'[m]
  <2>1. CASE Recognise
    <3>1. Listing \in Messages /\ revision[Listing] \in Nat
      BY DEF IInv, SourceOK, Messages
    <3>2. /\ UNCHANGED <<revision, deleted>> /\ revision[Listing] > 0
          /\ linked' = linked \cup {revision[Listing]}
      BY <2>1 DEF Recognise
    <3>3. revision[Listing] \in 1..revision[Listing]
      BY <3>1, <3>2
    <3>4. linked' \subseteq 1..revision'[Listing] /\ Stored' = Stored
      BY <3>2, <3>3 DEF IInv, SourceOK, Stored
    <3> QED BY <3>1, <3>2, <3>4 DEF IInv, SourceOK
  <2>2. CASE \E m \in Messages : Delete(m)
    BY <2>2 DEF Delete, IInv, SourceOK, Stored
  <2>3. ASSUME NEW m \in Messages, Persist(m)
        PROVE  /\ SourceOK' /\ linked \subseteq linked'
               /\ \A n \in Messages : revision[n] \in Nat /\ revision[n] <= revision'[n]
    <3>1. /\ revision' = [revision EXCEPT ![m] = @ + 1] /\ UNCHANGED deleted
          /\ revision[m] < MaxRevision[m]
          /\ \/ linked' = linked
             \/ m = Listing /\ linked' = linked \cup {revision'[m]}
      BY <2>3 DEF Persist
    <3>2. \A n \in Messages : revision[n] <= revision'[n] /\ revision'[n] <= MaxRevision[n]
      <4> SUFFICES ASSUME NEW n \in Messages
                   PROVE  revision[n] <= revision'[n] /\ revision'[n] <= MaxRevision[n]
        OBVIOUS
      <4>1. revision[n] \in Nat /\ MaxRevision[n] \in Nat /\ revision[n] <= MaxRevision[n]
        BY AlbumAssumption DEF IInv, SourceOK
      <4>2. revision'[n] = IF n = m THEN revision[n] + 1 ELSE revision[n]
        BY <3>1 DEF IInv, SourceOK
      <4> QED BY <3>1, <4>1, <4>2
    <3>3. Stored \subseteq Stored'
      BY <3>2, <3>1 DEF IInv, SourceOK, Stored
    <3>4. linked' \subseteq 1..revision'[Listing]
      <4>1. /\ Listing \in Messages /\ revision[Listing] \in Nat
            /\ revision'[Listing] \in Nat /\ revision[Listing] <= revision'[Listing]
        BY <3>1, <3>2 DEF IInv, SourceOK, Messages
      <4>2. linked \subseteq 1..revision'[Listing]
        BY <4>1 DEF IInv, SourceOK
      <4>3. m = Listing => revision'[m] \in 1..revision'[Listing]
        BY <3>1, <4>1 DEF IInv, SourceOK
      <4> QED BY <3>1, <4>2, <4>3
    <3> QED BY <3>1, <3>2, <3>3, <3>4 DEF IInv, SourceOK
  <2> QED BY <2>1, <2>2, <2>3 DEF Source
<1>3. QueueOK'
  <2>1. Rows \subseteq Rows'
    BY <1>2 DEF IInv, SourceOK, Rows, Messages
  <2>2. \A k \in Keys : work'[k].state # "none" => k[2] <= revision'[k[1]]
    BY <1>1, <1>2, KeyParts DEF IInv, QueueOK, SourceOK, queueVars
  <2> QED BY <1>1, <2>1, <2>2
         DEF IInv, QueueOK, queueVars, CompletedIsPublished, Completed
<1>4. CountOK'
  <2>1. Completed = Completed'
    BY <1>1 DEF Completed, queueVars
  <2> QED BY <1>1, <2>1, CountKept
<1>5. Stored \subseteq Stored'
  BY <1>2 DEF SourceOK, Stored
<1>6. ScanOK'
  BY <1>1, <1>2, <1>5 DEF IInv, ScanOK, scanVars
<1> QED BY <1>1, <1>2, <1>3, <1>4, <1>6
       DEF IInv, RunnersOK, Runs, BoundsOK, queueVars

\* What discovery does with the current revision of a stored message: a row that is
\* none or without association becomes new work.
LEMMA DiscoverWrites ==
  ASSUME IInv, NEW m \in Stored, DiscoverRevision(m)
  PROVE  /\ Current(m) \in Keys
         /\ \/ work' = work
            \/ /\ work[Current(m)].state \in {"none", "unassociated"}
               /\ work' = [work EXCEPT ![Current(m)] = NewWork]
         /\ m \notin deleted => seen' \subseteq linked
         /\ discovered' \subseteq Keys
<1>1. /\ m \in Messages /\ revision[m] \in Nat /\ MaxRevision[m] \in Nat
      /\ 0 < revision[m] /\ revision[m] <= MaxRevision[m]
  BY AlbumAssumption DEF IInv, SourceOK, Stored
<1>2. \A r \in 1..revision[m] : <<m, r>> \in Keys
  BY <1>1, KeyParts
<1>3. Current(m) \in Keys
  BY <1>1, <1>2 DEF Current
<1>4. discovered' \subseteq Keys
  BY <1>2, <1>3 DEF DiscoverRevision, IInv, ScanOK
<1>5. m \notin deleted => seen' \subseteq linked
  BY DEF DiscoverRevision, IInv, ScanOK
<1>6. m \in deleted => work' = work
  BY DEF DiscoverRevision
<1>7. CASE m \notin deleted
  <2> DEFINE k == Current(m)
  <2>1. Enqueue(k)
    BY <1>7 DEF DiscoverRevision
  <2> HIDE DEF k
  <2>2. CASE work[k].state = "none" \/ (work[k].state = "unassociated" /\ HasOwner)
    BY <2>1, <2>2, <1>3, <1>4, <1>5 DEF Enqueue, k
  <2>3. CASE ~(work[k].state = "none" \/ (work[k].state = "unassociated" /\ HasOwner))
    <3>1. work' = [work EXCEPT ![k] = work[k]]
      BY <2>1, <2>3 DEF Enqueue
    <3>2. work' = work
      BY <3>1 DEF IInv, QueueOK
    <3> QED BY <1>3, <1>4, <1>5, <3>2
  <2> QED BY <2>2, <2>3
<1> QED BY <1>3, <1>4, <1>5, <1>6, <1>7

\* New work is a row of a revision that is stored.
LEMMA NewWorkFits ==
  ASSUME IInv
  PROVE  NewWork \in Rows /\ NewWork.state \in {"pending", "unassociated"}
<1>1. revision[Listing] \in Nat /\ 0 \in 0..revision[Listing]
      /\ revision[Listing] \in 0..revision[Listing]
  BY DEF IInv, SourceOK, Messages
<1>2. CASE HasOwner
  <2>1. NewWork = [state |-> "pending", association |-> revision[Listing], failures |-> 0,
                   holder |-> "nobody"]
    BY <1>2 DEF NewWork, NoWork
  <2> QED BY <1>1, <2>1 DEF Rows, States
<1>3. CASE ~HasOwner
  <2>1. NewWork = [state |-> "unassociated", association |-> 0, failures |-> 0,
                   holder |-> "nobody"]
    BY <1>3 DEF NewWork, NoWork
  <2> QED BY <1>1, <2>1 DEF Rows, States
<1> QED BY <1>2, <1>3

\* A recorded outcome is left alone, whatever happens.
LEMMA OutcomesStay ==
  ASSUME IInv, [Next]_vars
  PROVE  /\ \A k \in Keys : work[k].state \in Outcomes => work'[k] = work[k]
         /\ Completed \subseteq Completed'
<1>1. ASSUME NEW k \in Keys, work[k].state \in Outcomes
      PROVE  work'[k] = work[k]
  <2>1. ASSUME NEW m \in Stored, DiscoverRevision(m) PROVE work'[k] = work[k]
    BY <2>1, <1>1, DiscoverWrites DEF IInv, QueueOK, Outcomes
  <2>2. ASSUME NEW w \in Runners, Discover(w) PROVE work'[k] = work[k]
    BY <2>1, <2>2 DEF Discover, ScanPage, ScanLate, Page, Late
  <2>3. ASSUME NEW w \in Runners, Claim(w) PROVE work'[k] = work[k]
    <3>1. PICK j \in Claimable :
            work' = [work EXCEPT ![j] = work'[j]] /\ work[j].state \notin Outcomes
      BY <2>3 DEF Claim, Claimable, Outcomes, IInv, QueueOK
    <3> QED BY <1>1, <3>1 DEF IInv, QueueOK
  <2>4. ASSUME NEW w \in Runners, Finish(w) PROVE work'[k] = work[k]
    BY <1>1, <2>4 DEF Finish, Owned, Outcomes, IInv, QueueOK
  <2>5. ASSUME NEW w \in Runners, NEW kind, Fail(w, kind) PROVE work'[k] = work[k]
    BY <1>1, <2>5 DEF Fail, Owned, Outcomes, IInv, QueueOK
  <2>6. ASSUME NEW w \in Runners, Step(w) PROVE work'[k] = work[k]
    BY <2>2, <2>3, <2>4, <2>5, <2>6
       DEF Step, ClaimNothing, Publish, Fenced, Reject, LoseLease, DataFailure, queueVars
  <2>7. ASSUME NEW w \in Runners, Outage(w) \/ StageFailure(w) \/ Crash(w)
        PROVE  work'[k] = work[k]
    BY <2>5, <2>7 DEF Outage, StageFailure, Crash, queueVars
  <2>8. Source => work'[k] = work[k]
    BY DEF Source, Recognise, Persist, Delete, queueVars
  <2>9. ExpireAbandoned \/ ExpireHeld \/ Pause \/ Resume => work'[k] = work[k]
    BY DEF ExpireAbandoned, ExpireHeld, Pause, Resume, queueVars
  <2>10. UNCHANGED vars => work'[k] = work[k]
    BY DEF vars, queueVars
  <2> QED BY <2>6, <2>7, <2>8, <2>9, <2>10 DEF Next
<1> QED BY <1>1 DEF Completed, Outcomes

-----------------------------------------------------------------------------
\* The rows of the queue keep their columns, and nothing is completed but what is
\* published.
LEMMA QueueKept ==
  ASSUME IInv, UNCHANGED sourceVars, published \subseteq published', published' \subseteq Keys,
         NEW k \in Keys, NEW row \in Rows, work' = [work EXCEPT ![k] = row],
         row.state # "none" => k[2] <= revision[k[1]],
         row.state = "completed" => k \in published',
         live' \subseteq Keys, \A i \in live' : work'[i].state = "leased",
         \A i, j \in live' : i = j
  PROVE  QueueOK'
<1>1. Rows' = Rows
  BY DEF Rows, sourceVars
<1>2. work' \in [Keys -> Rows]
  BY DEF IInv, QueueOK
<1>3. \A i \in Keys : work'[i] = IF i = k THEN row ELSE work[i]
  BY DEF IInv, QueueOK
<1>4. \A i \in Keys : work'[i].state # "none" => i[2] <= revision'[i[1]]
  BY <1>3 DEF IInv, QueueOK, sourceVars
<1>5. CompletedIsPublished'
  BY <1>3 DEF IInv, QueueOK, CompletedIsPublished, Completed
<1> QED BY <1>1, <1>2, <1>4, <1>5 DEF QueueOK

\* Leases that run out, and photos that are published, leave the rows alone.
LEMMA RowsKept ==
  ASSUME IInv, UNCHANGED <<sourceVars, work>>, live' \subseteq live,
         published \subseteq published', published' \subseteq Keys
  PROVE  QueueOK'
BY DEF IInv, QueueOK, Rows, sourceVars, CompletedIsPublished, Completed

\* A runner that has nothing to record may go anywhere.
LEMMA RunnerMoves ==
  ASSUME IInv, published \subseteq published', NEW w \in Runners, NEW r \in Runs,
         runner' = [runner EXCEPT ![w] = r],
         r.step \in {"attempt", "finish"} => r.key \in Keys,
         r.step \in {"discover", "claim"} => r.key = NoKey,
         r.step = "finish" => r.outcome \in Outcomes,
         r.step = "finish" /\ r.outcome = "completed" => r.key \in published'
  PROVE  RunnersOK'
<1>1. \A v \in Runners : runner'[v] = IF v = w THEN r ELSE runner[v]
  BY DEF IInv, RunnersOK
<1>2. runner' \in [Runners -> Runs]
  BY DEF IInv, RunnersOK
<1>3. ASSUME NEW v \in Runners
      PROVE  /\ runner'[v].step \in {"attempt", "finish"} => runner'[v].key \in Keys
             /\ runner'[v].step \in {"discover", "claim"} => runner'[v].key = NoKey
             /\ runner'[v].step = "finish" => runner'[v].outcome \in Outcomes
             /\ runner'[v].step = "finish" /\ runner'[v].outcome = "completed" =>
                  runner'[v].key \in published'
  BY <1>1 DEF IInv, RunnersOK
<1> QED BY <1>2, <1>3 DEF RunnersOK, Runs

LEMMA Elsewhere ==
  ASSUME IInv, published \subseteq published', NEW w \in Runners,
         NEW step \in {"discover", "claim"}, runner' = [runner EXCEPT ![w] = At(step)]
  PROVE  RunnersOK'
<1>1. At(step) \in Runs /\ At(step).step = step /\ At(step).key = NoKey
  BY DEF At, Runs
<1> HIDE DEF At
<1> QED BY <1>1, RunnerMoves

LEMMA Concludes ==
  ASSUME IInv, published \subseteq published', NEW w \in Runners, NEW outcome \in Outcomes,
         runner[w].step = "attempt", Conclude(w, outcome),
         outcome = "completed" => runner[w].key \in published'
  PROVE  RunnersOK'
<1> DEFINE r == [runner[w] EXCEPT !.step = "finish", !.outcome = outcome]
<1>1. /\ r \in Runs /\ r.step = "finish" /\ r.outcome = outcome /\ r.key = runner[w].key
      /\ r.key \in Keys
  BY DEF IInv, RunnersOK, Runs
<1>2. runner' = [runner EXCEPT ![w] = r]
  BY DEF Conclude, IInv, RunnersOK
<1> HIDE DEF r
<1> QED BY <1>1, <1>2, RunnerMoves

-----------------------------------------------------------------------------
\* A cycle of discovery.
LEMMA DiscoverKeeps ==
  ASSUME IInv, NEW w \in Runners, Discover(w)
  PROVE  IInv'
<1>1. /\ runner' = [runner EXCEPT ![w] = At("claim")]
      /\ UNCHANGED <<sourceVars, controlVars, live, published, faults, commands>>
  BY DEF Discover
<1>2. [Next]_vars
  BY DEF Next, Step
<1>3. SourceOK' /\ BoundsOK'
  BY <1>1 DEF IInv, SourceOK, Stored, BoundsOK, sourceVars
<1>4. RunnersOK' /\ Stored' = Stored
  BY <1>1, Elsewhere DEF Stored, sourceVars
<1>5. CountOK'
  BY <1>1, <1>2, OutcomesStay, CountKept
<1>6. Stored \subseteq Messages /\ LastStored \in Messages \cup {0}
  BY LastIsStored DEF Stored, LastStored
<1>7. ScanStart \in Messages \cup {0, Listing - 1} /\ ScanEnd \in Messages \cup {0}
  BY <1>6 DEF IInv, ScanOK, ScanStart, ScanEnd
<1>8. ASSUME NEW m \in Stored, DiscoverRevision(m) PROVE QueueOK' /\ discovered' \subseteq Keys
  <2>1. CASE work' = work
    BY <1>1, <1>8, <2>1, DiscoverWrites, RowsKept DEF IInv, QueueOK
  <2>2. CASE work' = [work EXCEPT ![Current(m)] = NewWork]
    <3> DEFINE k == Current(m)
    <3>1. k \in Keys /\ k[2] <= revision[k[1]] /\ work[k].state # "leased"
      <4>1. m \in Messages /\ revision[m] \in Nat
        BY <1>6 DEF IInv, SourceOK
      <4>2. k \in Keys /\ k[1] = m /\ k[2] = revision[m]
        BY <1>8, DiscoverWrites DEF Current
      <4>3. work' = work => work[k].state # "leased"
        <5>1. work' = work => work[k] = NewWork
          BY <2>2, <4>2 DEF IInv, QueueOK
        <5> QED BY <5>1, NewWorkFits
      <4> QED BY <1>8, <4>1, <4>2, <4>3, DiscoverWrites
    <3> HIDE DEF k
    <3>2. \A i \in live : i # k /\ work'[i].state = "leased"
      BY <2>2, <3>1 DEF IInv, QueueOK, k
    <3>3. NewWork \in Rows /\ NewWork.state # "completed"
      BY NewWorkFits
    <3>4. work' = [work EXCEPT ![k] = NewWork]
      BY <2>2 DEF k
    <3>5. /\ UNCHANGED <<sourceVars, published, live>>
          /\ live \subseteq Keys /\ published \subseteq Keys
          /\ \A i, j \in live : i = j
      BY <1>1 DEF IInv, QueueOK
    <3>6. QueueOK'
      BY <3>1, <3>2, <3>3, <3>4, <3>5, QueueKept
    <3> QED BY <1>8, <3>6, DiscoverWrites
  <2> QED BY <1>8, <2>1, <2>2, DiscoverWrites
<1>9. QueueOK' /\ ScanOK'
  <2>1. CASE phase = "paused"
    <3>1. UNCHANGED <<scanVars, work>>
      BY <2>1 DEF Discover
    <3>2. QueueOK'
      BY <1>1, <3>1, RowsKept DEF IInv, QueueOK
    <3> QED BY <1>1, <1>4, <3>1, <3>2 DEF IInv, ScanOK, scanVars, sourceVars
  <2>2. ASSUME NEW m \in Stored, DiscoverRevision(m) PROVE seen' \subseteq linked'
    BY <1>1, <2>2, DiscoverWrites DEF DiscoverRevision, IInv, ScanOK, sourceVars
  <2>3. CASE ScanPage
    <3>1. PICK m \in Page : DiscoverRevision(m) /\ scanAfter' = m /\ scanUpper' = ScanEnd
      BY <2>3 DEF ScanPage
    <3>2. m \in Stored
      BY DEF Page
    <3> QED BY <1>4, <1>6, <1>7, <1>8, <2>2, <3>1, <3>2 DEF ScanOK
  <2>4. CASE ScanLate
    <3>1. scanAfter' = ScanStart /\ scanUpper' \in {scanAfter', LastStored}
      BY <2>4 DEF ScanLate
    <3>2. scanUpper' \in Messages \cup {0} /\ (Stored = {} => scanAfter' = 0)
      <4>1. CASE Stored = {}
        <5>1. scanAfter = 0 /\ ~Recovered
          BY <4>1 DEF IInv, ScanOK, Recovered, Stored, Messages
        <5> QED BY <2>4, <4>1, <5>1 DEF ScanLate, ScanStart
      <4>2. CASE Stored # {}
        BY <1>6, <2>4, <4>2 DEF ScanLate
      <4> QED BY <4>1, <4>2
    <3>3. CASE Late = {}
      <4>1. UNCHANGED <<seen, discovered, work>>
        BY <2>4, <3>3 DEF ScanLate
      <4>2. QueueOK'
        BY <1>1, <4>1, RowsKept DEF IInv, QueueOK
      <4> QED BY <1>1, <1>4, <1>7, <3>1, <3>2, <4>1, <4>2 DEF IInv, ScanOK, sourceVars
    <3>4. ASSUME NEW m \in Late, DiscoverRevision(m) PROVE QueueOK' /\ ScanOK'
      <4>1. m \in Stored
        BY DEF Late
      <4> QED BY <1>4, <1>7, <1>8, <2>2, <3>1, <3>2, <3>4, <4>1 DEF ScanOK
    <3> QED BY <2>4, <3>3, <3>4 DEF ScanLate
  <2> QED BY <2>1, <2>3, <2>4 DEF Discover
<1> QED BY <1>3, <1>4, <1>5, <1>9 DEF IInv

\* Steps that leave messages, cursor and bounds alone.
LEMMA Others ==
  ASSUME IInv, UNCHANGED <<sourceVars, scanVars>>, faults' \in Nat, commands' \in Nat,
         QueueOK', CountOK', RunnersOK'
  PROVE  IInv'
BY DEF IInv, SourceOK, ScanOK, Stored, BoundsOK, sourceVars, scanVars

\* A claim supersedes stale work, or takes the one lease of the channel.
LEMMA ClaimKeeps ==
  ASSUME IInv, NEW w \in Runners, Claim(w)
  PROVE  IInv'
<1>1. /\ UNCHANGED <<sourceVars, scanVars, controlVars, published, faults, commands>>
      /\ live = {}
  BY DEF Claim, ClaimAllowed
<1>2. [Next]_vars
  BY DEF Next, Step
<1>3. CountOK'
  BY <1>1, <1>2, OutcomesStay, CountKept
<1>4. PICK k \in Claimable :
        IF Stale(k)
        THEN /\ work' = [work EXCEPT ![k].state = "superseded", ![k].holder = "nobody"]
             /\ runner' = [runner EXCEPT ![w] = At("discover")]
             /\ UNCHANGED live
        ELSE /\ work' = [work EXCEPT ![k].state = "leased", ![k].holder = w]
             /\ live' = live \cup {k}
             /\ runner' = [runner EXCEPT ![w] = [At("attempt") EXCEPT !.key = k]]
  BY DEF Claim
<1>5. /\ k \in Keys /\ work[k] \in Rows /\ k[2] <= revision[k[1]]
      /\ published \subseteq Keys
  BY DEF Claimable, IInv, QueueOK
<1>6. CASE Stale(k)
  <2> DEFINE row == [work[k] EXCEPT !.state = "superseded", !.holder = "nobody"]
  <2>1. row \in Rows /\ row.state = "superseded"
    BY <1>5 DEF Rows, States, Outcomes
  <2>2. work' = [work EXCEPT ![k] = row] /\ live' = {}
    BY <1>1, <1>4, <1>6 DEF IInv, QueueOK
  <2> HIDE DEF row
  <2>3. QueueOK'
    BY <1>1, <1>5, <2>1, <2>2, QueueKept
  <2>4. RunnersOK'
    BY <1>1, <1>4, <1>6, Elsewhere
  <2> QED BY <1>1, <1>3, <2>3, <2>4, Others DEF IInv, BoundsOK
<1>7. CASE ~Stale(k)
  <2> DEFINE row == [work[k] EXCEPT !.state = "leased", !.holder = w]
             r == [At("attempt") EXCEPT !.key = k]
  <2>1. row \in Rows /\ row.state = "leased"
    BY <1>5 DEF Rows, States
  <2>2. /\ work' = [work EXCEPT ![k] = row] /\ live' = {k}
        /\ runner' = [runner EXCEPT ![w] = r]
    BY <1>1, <1>4, <1>7 DEF IInv, QueueOK
  <2>3. r \in Runs /\ r.step = "attempt" /\ r.key = k
    BY <1>5 DEF At, Runs
  <2> HIDE DEF row, r
  <2>4. work'[k].state = "leased"
    BY <1>5, <2>1, <2>2 DEF IInv, QueueOK
  <2>5. QueueOK'
    BY <1>1, <1>5, <2>1, <2>2, <2>4, QueueKept
  <2>6. RunnersOK'
    BY <1>1, <1>5, <2>2, <2>3, RunnerMoves
  <2> QED BY <1>1, <1>3, <2>5, <2>6, Others DEF IInv, BoundsOK
<1> QED BY <1>6, <1>7

\* The steps of an attempt that write no row.
LEMMA AttemptKeeps ==
  ASSUME IInv, NEW w \in Runners, Publish(w) \/ Fenced(w) \/ Reject(w) \/ LoseLease(w)
  PROVE  IInv'
<1>1. /\ UNCHANGED <<sourceVars, scanVars, controlVars, work, live, faults, commands>>
      /\ runner[w].step = "attempt"
  BY DEF Publish, Fenced, Reject, LoseLease, queueVars
<1>2. CountOK'
  BY <1>1 DEF IInv, CountOK, Completed, controlVars
<1>3. runner[w].key \in Keys
  BY <1>1 DEF IInv, RunnersOK
<1>4. CASE Publish(w)
  <2>1. published' = published \cup {runner[w].key} /\ Conclude(w, "completed")
    BY <1>4 DEF Publish
  <2>2. published \subseteq published' /\ published' \subseteq Keys
    BY <1>3, <2>1 DEF IInv, QueueOK
  <2>3. RunnersOK'
    BY <1>1, <2>1, <2>2, Concludes DEF Outcomes
  <2>4. QueueOK'
    BY <1>1, <2>2, RowsKept
  <2> QED BY <1>1, <1>2, <2>3, <2>4, Others DEF IInv, BoundsOK
<1>5. CASE Fenced(w) \/ Reject(w) \/ LoseLease(w)
  <2>1. published' = published /\ published \subseteq Keys
    BY <1>5 DEF Fenced, Reject, LoseLease, queueVars, IInv, QueueOK
  <2>2. QueueOK'
    BY <1>1, <2>1, RowsKept
  <2>3. CASE Fenced(w) \/ Reject(w)
    <3>1. PICK outcome \in Outcomes \ {"completed"} : Conclude(w, outcome)
      BY <2>3 DEF Fenced, Reject, Outcomes
    <3>2. RunnersOK'
      BY <1>1, <2>1, <3>1, Concludes
    <3> QED BY <1>1, <1>2, <2>2, <3>2, Others DEF IInv, BoundsOK
  <2>4. CASE LoseLease(w)
    <3>1. RunnersOK'
      BY <2>1, <2>4, Elsewhere DEF LoseLease, Proceed
    <3> QED BY <1>1, <1>2, <2>2, <3>1, Others DEF IInv, BoundsOK
  <2> QED BY <1>5, <2>3, <2>4
<1> QED BY <1>4, <1>5

\* Whoever holds the lease gives it up with its row.
LEMMA LeaseEnds ==
  ASSUME IInv, UNCHANGED <<sourceVars, published>>, NEW w \in Runners, runner[w].key \in Keys,
         Owned(w), NEW state \in States \ {"leased", "none"}, NEW failures \in Nat,
         work' = [work EXCEPT ![runner[w].key].state = state,
                              ![runner[w].key].failures = failures,
                              ![runner[w].key].holder = "nobody"],
         live' = live \ {runner[w].key},
         state = "completed" => runner[w].key \in published
  PROVE  QueueOK'
<1> DEFINE k == runner[w].key
           row == [work[k] EXCEPT !.state = state, !.failures = failures, !.holder = "nobody"]
<1>1. /\ work[k] \in Rows /\ k[2] <= revision[k[1]]
      /\ published \subseteq Keys /\ live' = {}
  BY DEF IInv, QueueOK, Owned
<1>2. row \in Rows /\ row.state = state
  BY <1>1 DEF Rows
<1>3. work' = [work EXCEPT ![k] = row]
  BY DEF IInv, QueueOK
<1>4. published' = published
  OBVIOUS
<1> HIDE DEF row
<1> QED BY <1>1, <1>2, <1>3, <1>4, QueueKept

\* The outcome is recorded, and counted in the canary, by the holder of the lease.
LEMMA FinishKeeps ==
  ASSUME IInv, NEW w \in Runners, Finish(w)
  PROVE  IInv'
<1> DEFINE k == runner[w].key
           outcome == runner[w].outcome
<1>1. /\ UNCHANGED <<sourceVars, scanVars, phase, published, faults, commands>>
      /\ Proceed(w) /\ runner[w].step = "finish"
  BY DEF Finish
<1>2. /\ k \in Keys /\ outcome \in Outcomes
      /\ outcome = "completed" => k \in published
      /\ faults \in Nat /\ commands \in Nat /\ published \subseteq Keys
  BY <1>1 DEF IInv, RunnersOK, BoundsOK, QueueOK
<1>3. RunnersOK'
  BY <1>1, Elsewhere DEF Proceed
<1>4. [Next]_vars
  BY DEF Next, Step
<1>5. CASE Owned(w)
  <2>1. /\ work' = [work EXCEPT ![k].state = outcome, ![k].holder = "nobody"]
        /\ live' = live \ {k}
        /\ canaryDone' = IF outcome = "completed" /\ phase = "canary"
                         THEN canaryDone + 1 ELSE canaryDone
    BY <1>5 DEF Finish
  <2>2. QueueOK'
    <3>1. work' = [work EXCEPT ![k].state = outcome, ![k].failures = work[k].failures,
                               ![k].holder = "nobody"]
      BY <1>2, <2>1 DEF IInv, QueueOK, Rows
    <3>2. outcome \in States \ {"leased", "none"} /\ work[k].failures \in Nat
      BY <1>2 DEF States, Outcomes, IInv, QueueOK, Rows
    <3> HIDE DEF outcome
    <3> QED BY <1>1, <1>2, <1>5, <2>1, <3>1, <3>2, LeaseEnds
  <2>3. /\ Cardinality(Completed) \in Nat /\ Cardinality(Completed') \in Nat
        /\ Cardinality(Completed) <= Cardinality(Completed')
    BY <1>4, OutcomesStay, CompletedGrows
  <2>4. outcome = "completed" => Cardinality(Completed') = Cardinality(Completed) + 1
    <3> SUFFICES ASSUME outcome = "completed"
                 PROVE  Cardinality(Completed') = Cardinality(Completed) + 1
      OBVIOUS
    <3>1. work[k].state = "leased" /\ k \notin Completed
      BY <1>5 DEF Owned, Completed
    <3>2. Completed' = Completed \cup {k}
      BY <1>2, <2>1 DEF Completed, IInv, QueueOK
    <3>3. IsFiniteSet(Completed)
      BY KeysFinite, FS_Subset DEF Completed
    <3> QED BY <3>1, <3>2, <3>3, FS_AddElement
  <2>5. CountOK'
    BY <1>1, <2>1, <2>3, <2>4, AlbumAssumption DEF IInv, CountOK
  <2> QED BY <1>1, <1>2, <1>3, <2>2, <2>5, Others
<1>6. CASE ~Owned(w)
  <2>1. UNCHANGED <<work, live, canaryDone>>
    BY <1>6 DEF Finish
  <2>2. QueueOK'
    BY <1>1, <1>2, <2>1, RowsKept
  <2>3. CountOK'
    BY <1>1, <2>1 DEF IInv, CountOK, Completed
  <2> QED BY <1>1, <1>2, <1>3, <2>2, <2>3, Others
<1> QED BY <1>5, <1>6

\* A failed attempt goes back to the queue or into quarantine.
LEMMA FailKeeps ==
  ASSUME IInv, NEW w \in Runners, NEW kind, Fail(w, kind), [Next]_vars, faults' \in Nat
  PROVE  IInv'
<1> DEFINE k == runner[w].key
           failures == work[k].failures + (IF kind = "data" THEN 1 ELSE 0)
           state == IF failures >= MaxFailures THEN "quarantined" ELSE "retry_wait"
<1>1. /\ UNCHANGED <<sourceVars, scanVars, canaryDone, published, commands>>
      /\ Proceed(w) /\ runner[w].step = "attempt"
  BY DEF Fail
<1>2. k \in Keys /\ commands \in Nat /\ published \subseteq Keys
  BY <1>1 DEF IInv, RunnersOK, BoundsOK, QueueOK
<1>3. RunnersOK'
  BY <1>1, Elsewhere DEF Proceed
<1>4. /\ phase' = phase \/ phase' = "paused"
      /\ Cardinality(Completed) \in Nat /\ Cardinality(Completed') \in Nat
      /\ Cardinality(Completed) <= Cardinality(Completed')
  BY OutcomesStay, CompletedGrows DEF Fail
<1>5. CountOK'
  BY <1>1, <1>4 DEF IInv, CountOK
<1>6. CASE Owned(w)
  <2>1. /\ work' = [work EXCEPT ![k].state = state, ![k].failures = failures,
                                ![k].holder = "nobody"]
        /\ live' = live \ {k}
    BY <1>6 DEF Fail
  <2>2. failures \in Nat /\ state \in States \ {"leased", "none"} /\ state # "completed"
    BY <1>2 DEF IInv, QueueOK, Rows, States, Outcomes
  <2> HIDE DEF state, failures
  <2>3. QueueOK'
    BY <1>1, <1>2, <1>6, <2>1, <2>2, LeaseEnds
  <2> QED BY <1>1, <1>2, <1>3, <1>5, <2>3, Others
<1>7. CASE ~Owned(w)
  <2>1. UNCHANGED <<work, live>>
    BY <1>7 DEF Fail
  <2>2. QueueOK'
    BY <1>1, <1>2, <2>1, RowsKept
  <2> QED BY <1>1, <1>2, <1>3, <1>5, <2>2, Others
<1> QED BY <1>6, <1>7

\* What no runner decides: the end of a cycle, faults, leases and commands.
LEMMA ControlKeeps ==
  ASSUME IInv,
         \/ \E w \in Runners : ClaimNothing(w) \/ StageFailure(w) \/ Crash(w)
         \/ ExpireAbandoned \/ ExpireHeld \/ Pause \/ Resume
  PROVE  IInv'
<1>1. faults \in Nat /\ commands \in Nat /\ published \subseteq Keys
  BY DEF IInv, BoundsOK, QueueOK
<1>2. ASSUME NEW w \in Runners, ClaimNothing(w) \/ StageFailure(w) \/ Crash(w)
      PROVE  IInv'
  <2>1. /\ UNCHANGED <<sourceVars, scanVars, canaryDone, work, live, published, commands>>
        /\ runner' = [runner EXCEPT ![w] = At("discover")]
        /\ phase' = phase \/ phase' = "canary_ready" \/ phase' = "paused"
        /\ faults' \in Nat
    BY <1>1, <1>2 DEF ClaimNothing, StageFailure, Crash, controlVars, queueVars, Fault
  <2>2. QueueOK'
    BY <1>1, <2>1, RowsKept
  <2>3. CountOK'
    BY <2>1 DEF IInv, CountOK, Completed
  <2>4. RunnersOK'
    BY <2>1, Elsewhere
  <2> QED BY <1>1, <2>1, <2>2, <2>3, <2>4, Others
<1>3. CASE ExpireAbandoned \/ ExpireHeld
  <2>1. /\ UNCHANGED <<sourceVars, scanVars, phase, canaryDone, work, published, runner, commands>>
        /\ faults' \in Nat
    BY <1>1, <1>3 DEF ExpireAbandoned, ExpireHeld, controlVars, Fault
  <2>2. live' \subseteq live
    BY <1>3 DEF ExpireAbandoned, ExpireHeld
  <2>3. QueueOK'
    BY <1>1, <2>1, <2>2, RowsKept
  <2>4. CountOK' /\ RunnersOK'
    BY <2>1 DEF IInv, CountOK, Completed, RunnersOK, Runs
  <2> QED BY <1>1, <2>1, <2>3, <2>4, Others
<1>4. CASE Pause \/ Resume
  <2>1. /\ UNCHANGED <<sourceVars, scanVars, canaryDone, work, live, published, runner, faults>>
        /\ commands' \in Nat
    BY <1>1, <1>4 DEF Pause, Resume, queueVars
  <2>2. /\ phase' \in {"paused", "running", "canary"}
        /\ phase' = "running" => canaryDone >= CanaryAssets
    BY <1>4 DEF Pause, Resume
  <2>3. QueueOK'
    BY <1>1, <2>1, RowsKept
  <2>4. CountOK' /\ RunnersOK'
    BY <2>1, <2>2 DEF IInv, CountOK, Completed, RunnersOK, Runs
  <2> QED BY <1>1, <2>1, <2>3, <2>4, Others
<1> QED BY <1>2, <1>3, <1>4

LEMMA StepKeeps == IInv /\ [Next]_vars => IInv'
<1> SUFFICES ASSUME IInv, [Next]_vars PROVE IInv'
  OBVIOUS
<1>1. CASE Source
  BY <1>1, SourceKeeps
<1>2. ASSUME NEW w \in Runners, Step(w) PROVE IInv'
  <2>1. CASE DataFailure(w)
    BY <2>1, FailKeeps DEF DataFailure, IInv, BoundsOK
  <2> QED BY <1>2, <2>1, DiscoverKeeps, ControlKeeps, ClaimKeeps, AttemptKeeps, FinishKeeps
      DEF Step
<1>3. ASSUME NEW w \in Runners, Outage(w) PROVE IInv'
  <2>1. faults' \in Nat
    BY <1>3 DEF Outage, Fault, IInv, BoundsOK
  <2> QED BY <1>3, <2>1, FailKeeps DEF Outage
<1>4. CASE \/ \E w \in Runners : StageFailure(w) \/ Crash(w)
           \/ ExpireAbandoned \/ ExpireHeld \/ Pause \/ Resume
  BY <1>4, ControlKeeps
<1>5. CASE UNCHANGED vars
  BY <1>5 DEF IInv, SourceOK, ScanOK, Stored, QueueOK, Rows, CompletedIsPublished, Completed,
              CountOK, RunnersOK, Runs, BoundsOK, vars, sourceVars, scanVars, controlVars,
              queueVars
<1> QED BY <1>1, <1>2, <1>3, <1>4, <1>5 DEF Next

LEMMA IInvHolds == Spec => []IInv
<1> QED BY Initially, StepKeeps, PTL DEF Spec

-----------------------------------------------------------------------------
\* One media item is active in the channel, however leases run out under slow runners
\* and are taken over, and the queue's rows hold values of their columns.
THEOREM OneIsActive == Spec => []MediaInv
<1>1. ASSUME IInv PROVE OneActiveItem
  <2> DEFINE W == {w \in Runners : runner[w].key # NoKey /\ Owned(w)}
  <2>1. ASSUME NEW v \in W, NEW w \in W PROVE v = w
    BY <1>1 DEF IInv, QueueOK, RunnersOK, Owned
  <2>2. W = {} \/ \E w : W = {w}
    BY <2>1
  <2>3. Cardinality(W) \in {0, 1}
    <3>1. \A w : Cardinality({w}) = 1
      BY FS_Singleton
    <3>2. Cardinality({}) = 0
      BY FS_EmptySet
    <3> HIDE DEF W
    <3> QED BY <2>2, <3>1, <3>2
  <2> QED BY <2>3 DEF OneActiveItem
<1>2. IInv => TypeOK
  BY DEF IInv, SourceOK, ScanOK, QueueOK, Rows, States, CountOK, RunnersOK, Runs, BoundsOK, TypeOK
<1> QED BY <1>1, <1>2, IInvHolds, PTL DEF MediaInv

\* The queue expands beyond the canary only when so many assets were recovered,
\* whatever late runners, pauses and resumptions do to the phase.
THEOREM ExpansionIsEarned == Spec => []RunningIsProven
<1>1. IInv => RunningIsProven
  <2> SUFFICES ASSUME IInv PROVE RunningIsProven
    OBVIOUS
  <2>1. Cardinality(Completed) \in Nat
    BY KeysFinite, FS_Subset, FS_CardinalityType DEF Completed
  <2> QED BY <2>1, AlbumAssumption DEF IInv, CountOK, RunningIsProven
<1> QED BY <1>1, IInvHolds, PTL

\* What is recorded as completed is in the gallery.
THEOREM CompletedIsPublic == Spec => []CompletedIsPublished
<1>1. IInv => CompletedIsPublished
  BY DEF IInv, QueueOK
<1> QED BY <1>1, IInvHolds, PTL

\* No rediscovery, takeover or late runner reopens or changes a recorded outcome.
THEOREM OutcomesHold == Spec => OutcomesAreFinal
<1>1. IInv /\ [Next]_vars =>
        [\A k \in Keys : work[k].state \in Outcomes => work'[k] = work[k]]_vars
  BY OutcomesStay
<1> QED BY <1>1, IInvHolds, PTL DEF Spec, OutcomesAreFinal

-----------------------------------------------------------------------------
(***************************************************************************)
(* The queue as a fenced lease: what a row has recorded, the token it has  *)
(* to be settled with, and what a runner believes to hold.                 *)
(***************************************************************************)
RecordOf(k) == IF work[k].state \in Outcomes THEN work[k] ELSE NoWork
TokenOf(k) == IF work[k].state = "leased" /\ k \in live THEN {work[k].holder} ELSE {}
Holding(w) ==
  [item |-> runner[w].key, token |-> IF runner[w].key = NoKey THEN {} ELSE {w}]

Recorded == [k \in Keys |-> RecordOf(k)]
Tokens == [k \in Keys |-> TokenOf(k)]
Holdings == [w \in Runners |-> Holding(w)]
leaseVars == <<Recorded, Tokens, Holdings>>

NothingElse(k, w) ==
  /\ \A j \in Keys \ {k} : RecordOf(j)' = RecordOf(j) /\ TokenOf(j)' = TokenOf(j)
  /\ \A v \in Runners \ {w} : Holding(v)' = Holding(v)

\* The steps of a lease, from what they do to the one item and the one worker.
LEMMA ClaimMaps ==
  ASSUME NEW w \in Runners, NEW k \in Keys, NothingElse(k, w),
         Holding(w) = Fence!Idle, RecordOf(k) = NoWork, RecordOf(k)' = NoWork,
         TokenOf(k)' # {}, \A v \in Runners : Holding(v) # [item |-> k, token |-> TokenOf(k)'],
         Holding(w)' = [item |-> k, token |-> TokenOf(k)']
  PROVE  Fence!Next
<1>1. /\ Holdings[w] = Fence!Idle /\ Recorded[k] = NoWork
      /\ \A v \in Runners : Holdings[v] # [item |-> k, token |-> Tokens'[k]]
      /\ Tokens'[k] # {}
  BY DEF Holdings, Recorded, Tokens
<1>2. Tokens' = [Tokens EXCEPT ![k] = Tokens'[k]]
  BY DEF Tokens, NothingElse
<1>3. Holdings' = [Holdings EXCEPT ![w] = [item |-> k, token |-> Tokens'[k]]]
  BY DEF Holdings, Tokens, NothingElse
<1>4. Recorded' = Recorded
  BY DEF Recorded, NothingElse
<1> QED BY <1>1, <1>2, <1>3, <1>4
        DEF Fence!Next, Fence!Claim, Holdings, Recorded, Tokens, Holding, RecordOf, TokenOf

LEMMA FinishMaps ==
  ASSUME NEW w \in Runners, NEW k \in Keys, NothingElse(k, w),
         TokenOf(k) # {}, Holding(w) = [item |-> k, token |-> TokenOf(k)],
         RecordOf(k) = NoWork, TokenOf(k)' = {}, Holding(w)' = Fence!Idle
  PROVE  Fence!Next
<1>1. /\ Tokens[k] # {} /\ Holdings[w] = [item |-> k, token |-> Tokens[k]]
      /\ Recorded[k] = NoWork
  BY DEF Holdings, Recorded, Tokens
<1>2. Tokens' = [Tokens EXCEPT ![k] = {}]
  BY DEF Tokens, NothingElse
<1>3. Holdings' = [Holdings EXCEPT ![w] = Fence!Idle]
  BY DEF Holdings, NothingElse
<1>4. Recorded' = [Recorded EXCEPT ![k] = Recorded'[k]]
  BY DEF Recorded, NothingElse
<1> QED BY <1>1, <1>2, <1>3, <1>4
        DEF Fence!Next, Fence!Finish, Holdings, Recorded, Tokens, Holding, RecordOf, TokenOf

LEMMA AbandonMaps ==
  ASSUME NEW w \in Runners, Holding(w)' = Fence!Idle,
         \A v \in Runners \ {w} : Holding(v)' = Holding(v),
         \A k \in Keys : RecordOf(k)' = RecordOf(k) /\ TokenOf(k)' = TokenOf(k)
  PROVE  Fence!Next
<1>1. Holdings' = [Holdings EXCEPT ![w] = Fence!Idle]
  BY DEF Holdings
<1>2. Recorded' = Recorded /\ Tokens' = Tokens
  BY DEF Recorded, Tokens
<1> QED BY <1>1, <1>2
        DEF Fence!Next, Fence!Abandon, Holdings, Recorded, Tokens, Holding, RecordOf, TokenOf

LEMMA ArrangeMaps ==
  ASSUME \A w \in Runners : Holding(w)' = Holding(w),
         \A k \in Keys : TokenOf(k)' \in {{}, TokenOf(k)},
         \A k \in Keys : RecordOf(k) # NoWork \/ TokenOf(k) # {} => RecordOf(k)' = RecordOf(k)
  PROVE  Fence!Next
<1> DEFINE R == {k \in Keys : TokenOf(k)' = {}}
<1>1. R \in SUBSET Keys /\ \A k \in Keys : TokenOf(k)' = IF k \in R THEN {} ELSE TokenOf(k)
  OBVIOUS
<1> HIDE DEF R
<1> QED BY <1>1 DEF Fence!Next, Fence!Arrange, RecordOf, TokenOf, Holding

\* A step is no step of the lease when it touches neither what is recorded, nor a live
\* lease, nor a claim.
LEMMA LeaseUntouched ==
  ASSUME \A k \in Keys : RecordOf(k)' = RecordOf(k) /\ TokenOf(k)' = TokenOf(k),
         \A w \in Runners : Holding(w)' = Holding(w)
  PROVE  UNCHANGED leaseVars
BY DEF leaseVars, Recorded, Tokens, Holdings

LEMMA NoKeyIsNoKey == NoKey \notin Keys
<1> SUFFICES ASSUME NoKey \in Keys PROVE FALSE
  OBVIOUS
<1>1. NoKey[2] \in 1..MaxRevision[NoKey[1]] /\ NoKey[2] = 0
  BY KeyParts DEF NoKey
<1> QED BY <1>1

\* A runner that goes back to its cycle has no claim any more.
LEMMA LeaveMaps ==
  ASSUME IInv, NEW w \in Runners, NEW step, runner' = [runner EXCEPT ![w] = At(step)]
  PROVE  Holding(w)' = Fence!Idle /\ \A v \in Runners \ {w} : Holding(v)' = Holding(v)
BY DEF IInv, RunnersOK, Holding, Fence!Idle, At

\* The canonical transactions, and the operator, leave the leases alone.
LEMMA OutsideMaps ==
  ASSUME Source \/ Pause \/ Resume
  PROVE  UNCHANGED leaseVars
<1>1. UNCHANGED <<work, live, runner>>
  BY DEF Source, Recognise, Persist, Delete, Pause, Resume, queueVars
<1> QED BY <1>1, LeaseUntouched DEF RecordOf, TokenOf, Holding

\* Discovery enqueues work that nobody holds.
LEMMA DiscoverMaps ==
  ASSUME IInv, NEW w \in Runners, Discover(w)
  PROVE  UNCHANGED leaseVars
<1>1. runner' = [runner EXCEPT ![w] = At("claim")] /\ live' = live
      /\ runner[w].step = "discover"
  BY DEF Discover
<1>2. \A v \in Runners : Holding(v)' = Holding(v)
  BY <1>1 DEF IInv, RunnersOK, Holding, At
<1>3. ASSUME NEW k \in Keys
      PROVE  RecordOf(k)' = RecordOf(k) /\ TokenOf(k)' = TokenOf(k)
  <2>1. ASSUME NEW m \in Stored, DiscoverRevision(m)
        PROVE  \/ work'[k] = work[k]
               \/ /\ work[k].state \in {"none", "unassociated"}
                  /\ work'[k].state \in {"pending", "unassociated"}
    BY <2>1, DiscoverWrites, NewWorkFits DEF IInv, QueueOK
  <2>2. \/ work'[k] = work[k]
        \/ /\ work[k].state \in {"none", "unassociated"}
           /\ work'[k].state \in {"pending", "unassociated"}
    BY <2>1 DEF Discover, ScanPage, ScanLate, Page, Late
  <2> QED BY <1>1, <2>2 DEF RecordOf, TokenOf, Outcomes
<1> QED BY <1>2, <1>3, LeaseUntouched

\* A claim takes a lease; stale work is disposed of without one.
LEMMA ClaimsMap ==
  ASSUME IInv, NEW w \in Runners, Claim(w)
  PROVE  Fence!Next
<1>1. live = {} /\ runner[w].step = "claim"
  BY DEF Claim, ClaimAllowed
<1>2. PICK k \in Claimable :
        IF Stale(k)
        THEN /\ work' = [work EXCEPT ![k].state = "superseded", ![k].holder = "nobody"]
             /\ runner' = [runner EXCEPT ![w] = At("discover")]
             /\ UNCHANGED live
        ELSE /\ work' = [work EXCEPT ![k].state = "leased", ![k].holder = w]
             /\ live' = live \cup {k}
             /\ runner' = [runner EXCEPT ![w] = [At("attempt") EXCEPT !.key = k]]
  BY DEF Claim
<1>3. /\ k \in Keys /\ work[k] \in Rows /\ work[k].state \notin Outcomes
      /\ Holding(w) = Fence!Idle
  BY <1>1 DEF Claimable, Outcomes, IInv, QueueOK, RunnersOK, Holding, Fence!Idle
<1>4. \A j \in Keys \ {k} : work'[j] = work[j]
  BY <1>2 DEF IInv, QueueOK
<1>5. CASE Stale(k)
  <2>1. \A v \in Runners : Holding(v)' = Holding(v)
    BY <1>2, <1>3, <1>5, LeaveMaps
  <2>2. live' = {}
    BY <1>1, <1>2, <1>5
  <2>3. \A j \in Keys : TokenOf(j)' = {} /\ TokenOf(j) = {}
    BY <1>1, <2>2 DEF TokenOf
  <2>4. RecordOf(k) = NoWork /\ \A j \in Keys \ {k} : RecordOf(j)' = RecordOf(j)
    BY <1>3, <1>4 DEF RecordOf
  <2> QED BY <2>1, <2>3, <2>4, ArrangeMaps
<1>6. CASE ~Stale(k)
  <2>1. /\ work'[k].state = "leased" /\ work'[k].holder = w /\ live' = {k}
    BY <1>1, <1>2, <1>3, <1>6 DEF IInv, QueueOK, Rows
  <2>2. TokenOf(k)' = {w} /\ RecordOf(k) = NoWork /\ RecordOf(k)' = NoWork
    BY <1>3, <2>1 DEF TokenOf, RecordOf, Outcomes
  <2>3. /\ Holding(w)' = [item |-> k, token |-> {w}]
        /\ \A v \in Runners \ {w} : Holding(v)' = Holding(v)
    BY <1>2, <1>3, <1>6, NoKeyIsNoKey DEF Holding, IInv, RunnersOK, At
  <2>4. NothingElse(k, w)
    BY <1>1, <1>4, <2>1, <2>3 DEF NothingElse, RecordOf, TokenOf
  <2>5. \A v \in Runners : Holding(v) # [item |-> k, token |-> {w}]
    <3>1. Holding(w).token = {}
      BY <1>3 DEF Fence!Idle
    <3>2. \A v \in Runners \ {w} : Holding(v).token # {w}
      BY DEF Holding
    <3> QED BY <3>1, <3>2
  <2> QED BY <1>3, <2>2, <2>3, <2>4, <2>5, ClaimMaps
<1> QED BY <1>5, <1>6

\* What was held is settled.
LEMMA Settles ==
  ASSUME NEW w \in Runners, NEW k \in Keys, NothingElse(k, w), TokenOf(k) # {},
         Holding(w) = [item |-> k, token |-> TokenOf(k)], RecordOf(k) = NoWork,
         k \notin live', Holding(w)' = Fence!Idle
  PROVE  Fence!Next
<1>1. TokenOf(k)' = {}
  BY DEF TokenOf
<1> QED BY <1>1, FinishMaps

\* The steps that end an attempt: by the holder, who leaves the row to nobody, or by
\* a runner that was overtaken.
LEMMA EndsMap ==
  ASSUME IInv, NEW w \in Runners, Proceed(w), runner[w].step \in {"attempt", "finish"},
         IF Owned(w)
         THEN /\ \A k \in Keys \ {runner[w].key} : work'[k] = work[k]
              /\ live' = live \ {runner[w].key}
         ELSE UNCHANGED <<work, live>>
  PROVE  Fence!Next
<1> DEFINE k == runner[w].key
<1>1. k \in Keys /\ Holding(w) = [item |-> k, token |-> {w}]
  BY NoKeyIsNoKey DEF IInv, RunnersOK, Holding
<1>2. Holding(w)' = Fence!Idle /\ \A v \in Runners \ {w} : Holding(v)' = Holding(v)
  BY LeaveMaps DEF Proceed
<1>3. CASE Owned(w)
  <2>1. TokenOf(k) = {w} /\ RecordOf(k) = NoWork /\ k \notin live'
    BY <1>3 DEF Owned, TokenOf, RecordOf, Outcomes
  <2>2. NothingElse(k, w)
    BY <1>2, <1>3 DEF NothingElse, RecordOf, TokenOf
  <2> QED BY <1>1, <1>2, <2>1, <2>2, Settles
<1>4. CASE ~Owned(w)
  BY <1>2, <1>4, AbandonMaps DEF RecordOf, TokenOf
<1> QED BY <1>3, <1>4

\* What a runner does with its claim.
LEMMA AttemptMaps ==
  ASSUME IInv, NEW w \in Runners,
         \/ Publish(w) \/ Fenced(w) \/ Reject(w) \/ LoseLease(w) \/ Finish(w)
         \/ \E kind : Fail(w, kind)
  PROVE  Fence!Next \/ UNCHANGED leaseVars
<1>1. CASE Publish(w) \/ Fenced(w) \/ Reject(w)
  <2>1. UNCHANGED <<work, live>> /\ \E outcome : Conclude(w, outcome)
    BY <1>1 DEF Publish, Fenced, Reject, queueVars
  <2>2. \A v \in Runners : runner'[v].key = runner[v].key
    <3>1. PICK outcome : Conclude(w, outcome)
      BY <2>1
    <3>2. \A v \in Runners \ {w} : runner'[v] = runner[v]
      BY <3>1 DEF Conclude, IInv, RunnersOK
    <3>3. runner'[w] = [runner[w] EXCEPT !.step = "finish", !.outcome = outcome]
      BY <3>1 DEF Conclude, IInv, RunnersOK
    <3>4. runner'[w].key = runner[w].key
      BY <3>3 DEF IInv, RunnersOK, Runs
    <3> QED BY <3>2, <3>4
  <2> QED BY <2>1, <2>2, LeaseUntouched DEF RecordOf, TokenOf, Holding
<1>2. CASE LoseLease(w)
  BY <1>2, EndsMap DEF LoseLease, queueVars
<1>3. CASE Finish(w)
  <2>1. Proceed(w) /\ runner[w].step = "finish"
    BY <1>3 DEF Finish
  <2>2. Owned(w) => /\ \A k \in Keys \ {runner[w].key} : work'[k] = work[k]
                    /\ live' = live \ {runner[w].key}
    BY <1>3 DEF Finish, IInv, QueueOK
  <2>3. ~Owned(w) => UNCHANGED <<work, live>>
    BY <1>3 DEF Finish
  <2> QED BY <2>1, <2>2, <2>3, EndsMap
<1>4. ASSUME NEW kind, Fail(w, kind) PROVE Fence!Next
  <2>1. Proceed(w) /\ runner[w].step = "attempt"
    BY <1>4 DEF Fail
  <2>2. Owned(w) => /\ \A k \in Keys \ {runner[w].key} : work'[k] = work[k]
                    /\ live' = live \ {runner[w].key}
    BY <1>4 DEF Fail, IInv, QueueOK
  <2>3. ~Owned(w) => UNCHANGED <<work, live>>
    BY <1>4 DEF Fail
  <2> QED BY <2>1, <2>2, <2>3, EndsMap
<1> QED BY <1>1, <1>2, <1>3, <1>4

\* Deaths, failures outside an attempt, leases that run out, and the end of a cycle.
LEMMA FaultsMap ==
  ASSUME IInv,
         \/ \E w \in Runners : ClaimNothing(w) \/ StageFailure(w) \/ Crash(w)
         \/ ExpireAbandoned \/ ExpireHeld
  PROVE  Fence!Next
<1>1. ASSUME NEW w \in Runners, ClaimNothing(w) \/ StageFailure(w) \/ Crash(w)
      PROVE  Fence!Next
  <2>1. UNCHANGED <<work, live>> /\ runner' = [runner EXCEPT ![w] = At("discover")]
    BY <1>1 DEF ClaimNothing, StageFailure, Crash, queueVars
  <2>2. Holding(w)' = Fence!Idle /\ \A v \in Runners \ {w} : Holding(v)' = Holding(v)
    BY <2>1, LeaveMaps
  <2> QED BY <2>1, <2>2, AbandonMaps DEF RecordOf, TokenOf
<1>2. CASE ExpireAbandoned \/ ExpireHeld
  <2>1. UNCHANGED <<work, runner>> /\ live' \subseteq live
    BY <1>2 DEF ExpireAbandoned, ExpireHeld
  <2> QED BY <2>1, ArrangeMaps DEF RecordOf, TokenOf, Holding
<1> QED BY <1>1, <1>2

LEMMA StepMaps == IInv /\ [Next]_vars => Fence!Next \/ UNCHANGED leaseVars
<1> SUFFICES ASSUME IInv, [Next]_vars PROVE Fence!Next \/ UNCHANGED leaseVars
  OBVIOUS
<1>1. CASE Source \/ Pause \/ Resume
  BY <1>1, OutsideMaps
<1>2. ASSUME NEW w \in Runners, Step(w) \/ Outage(w)
      PROVE  Fence!Next \/ UNCHANGED leaseVars
  <2>1. Discover(w) => UNCHANGED leaseVars
    BY DiscoverMaps
  <2>2. Claim(w) => Fence!Next
    BY ClaimsMap
  <2>3. ClaimNothing(w) => Fence!Next
    BY FaultsMap
  <2>4. DataFailure(w) \/ Outage(w) => \E kind : Fail(w, kind)
    BY DEF DataFailure, Outage
  <2> QED BY <1>2, <2>1, <2>2, <2>3, <2>4, AttemptMaps DEF Step
<1>3. CASE \/ \E w \in Runners : StageFailure(w) \/ Crash(w)
           \/ ExpireAbandoned \/ ExpireHeld
  BY <1>3, FaultsMap
<1>4. CASE UNCHANGED vars
  BY <1>4, LeaseUntouched DEF vars, queueVars, RecordOf, TokenOf, Holding
<1> QED BY <1>1, <1>2, <1>3, <1>4 DEF Next

\* The queue of media work implements the fenced lease: only the runner whose lease is
\* alive records an outcome, once, and whoever was overtaken leaves no trace.
THEOREM MediaIsFenced == Spec => ImplementsLease
<1>1. Init => Fence!Init
  <2>1. Init => \A k \in Keys : RecordOf(k) = NoWork /\ TokenOf(k) = {}
    BY DEF Init, RecordOf, TokenOf, NoWork, Outcomes
  <2>2. Init => \A w \in Runners : Holding(w) = Fence!Idle
    <3>1. Init => \A w \in Runners : runner[w] = At("discover")
      BY DEF Init
    <3>2. At("discover").key = NoKey
      BY DEF At
    <3> QED BY <3>1, <3>2 DEF Holding, Fence!Idle
  <2> QED BY <2>1, <2>2 DEF Fence!Init, RecordOf, TokenOf, Holding
<1>2. IInv /\ [Next]_vars => [Fence!Next]_(Fence!vars)
  BY StepMaps DEF leaseVars, Recorded, Tokens, Holdings, RecordOf, TokenOf, Holding, Fence!vars
<1> QED BY <1>1, <1>2, IInvHolds, PTL DEF Spec, ImplementsLease, Fence!Spec

=============================================================================
