---------------------------- MODULE MediaRecovery ----------------------------
(***************************************************************************)
(* The recovery of the media of one album: a listing message and photos of *)
(* the same media group (infrastructure/media_recovery_store.py,           *)
(* media_recovery_discovery.py, application/media_recovery.py).  Discovery *)
(* turns stored revisions into work, page by page behind a cursor that     *)
(* rewinds when a listing becomes canonical late; runners claim the work   *)
(* under one lease per channel, download without a lock, and publish in a  *)
(* transaction that checks the lease, the photo and its listing again.     *)
(* A message carries one photo; delays are left out (work that backs off   *)
(* is simply due again), and so is the association by adjacency.           *)
(***************************************************************************)
EXTENDS FiniteSets, Naturals

CONSTANTS
  Listing,       \* the id of the message with the caption
  Photos,        \* the ids of the other messages of the album
  Malformed,     \* messages whose photo always fails with its data
  Rejected,      \* messages whose photo is unsupported or not provably theirs
  MaxRevision,   \* bound: revisions of each message
  Runners,       \* the worker, and its successor while it is being stopped
  CanaryAssets,  \* CANARY_ASSETS = 100
  MaxFailures,   \* MAX_DATA_FAILURES = 5
  MaxFaults,     \* bound: deaths, outages and leases that run out under a runner
  MaxCommands    \* bound: operator pauses and resumes

Messages == {Listing} \cup Photos

ASSUME AlbumAssumption ==
  /\ Listing \in Nat \ {0}
  /\ Photos \subseteq {m \in Nat : m > Listing} /\ IsFiniteSet(Photos)
  /\ Malformed \subseteq Messages /\ Rejected \subseteq Messages
  /\ MaxRevision \in [Messages -> Nat \ {0}]
  /\ CanaryAssets \in Nat \ {0} /\ MaxFailures \in Nat \ {0}
  /\ MaxFaults \in Nat /\ MaxCommands \in Nat

\* The revisions: a message and the number of its revision.
Keys == UNION {{<<m, r>> : r \in 1..MaxRevision[m]} : m \in Messages}

VARIABLES
  revision,    \* number of the current revision of a message, 0 before it is stored
  deleted,     \* the messages with deleted_at
  linked,      \* the listing's revisions that have a primary link to the offer
  seen,        \* those links whose media_recovery_discovered is set
  discovered,  \* revisions whose intention is discovered
  scanAfter,   \* scan_after_id
  scanUpper,   \* scan_upper_id; 0 before it is set
  phase,       \* "canary", "canary_ready", "running", "paused"
  canaryDone,  \* canary_completed
  work,        \* per revision: state, association_revision_id, data_failures
  live,        \* the leased rows whose lease_until lies in the future
  published,   \* revisions whose photo is in the offer's public gallery
  runner,      \* where a runner is, with which claim and outcome
  faults,
  commands

sourceVars == <<revision, deleted, linked>>
scanVars == <<seen, discovered, scanAfter, scanUpper>>
queueVars == <<work, live, published>>
controlVars == <<phase, canaryDone>>
vars == <<sourceVars, scanVars, controlVars, queueVars, runner, faults, commands>>

NoKey == <<0, 0>>
At(step) == [step |-> step, key |-> NoKey, outcome |-> ""]
Outcomes == {"completed", "unsupported", "superseded", "quarantined"}
NoWork == [state |-> "none", association |-> 0, failures |-> 0, holder |-> "nobody"]

Current(m) == <<m, revision[m]>>
Stored == {m \in Messages : revision[m] > 0}
LastStored == IF Stored = {} THEN 0
              ELSE CHOOSE m \in Stored : \A n \in Stored : n <= m

\* A message is stored with its first revision; the listing may be recognised
\* at once, by a later replay of its parser, or never.
Init ==
  /\ revision = [m \in Messages |-> 0]
  /\ deleted = {} /\ linked = {} /\ seen = {} /\ discovered = {}
  /\ scanAfter = 0 /\ scanUpper = 0
  /\ phase = "canary" /\ canaryDone = 0
  /\ work = [k \in Keys |-> NoWork]
  /\ live = {} /\ published = {}
  /\ runner = [w \in Runners |-> At("discover")]
  /\ faults = 0 /\ commands = 0

-----------------------------------------------------------------------------
(***************************************************************************)
(* The canonical transactions that media recovery depends on: a message is *)
(* stored or edited with the intention of its media, a link is added when  *)
(* the revision is recognised as a listing, a message is deleted.          *)
(***************************************************************************)
Persist(m) ==
  /\ revision[m] < MaxRevision[m] /\ m \notin deleted
  /\ revision' = [revision EXCEPT ![m] = @ + 1]
  /\ \/ linked' = linked
     \/ m = Listing /\ linked' = linked \cup {revision'[m]}
  /\ UNCHANGED <<deleted, scanVars, controlVars, queueVars, runner, faults, commands>>

\* A parser replay or the owner's proposal recognises the stored listing.
Recognise ==
  /\ revision[Listing] > 0 /\ Listing \notin deleted
  /\ revision[Listing] \notin linked
  /\ linked' = linked \cup {revision[Listing]}
  /\ UNCHANGED <<revision, deleted, scanVars, controlVars, queueVars, runner, faults,
                 commands>>

Delete(m) ==
  /\ revision[m] > 0 /\ m \notin deleted
  /\ deleted' = deleted \cup {m}
  /\ UNCHANGED <<revision, linked, scanVars, controlVars, queueVars, runner, faults,
                 commands>>

-----------------------------------------------------------------------------
(***************************************************************************)
(* discover_media, with a page of one message.                             *)
(***************************************************************************)
\* The offer a photo of the album belongs to, found by any primary link.
HasOwner == linked # {} /\ Listing \notin deleted

\* A current owner behind the cursor that discovery has not seen as one.
Recovered ==
  /\ 0 < revision[Listing] /\ Listing <= scanAfter /\ Listing \notin deleted
  /\ revision[Listing] \in linked \ seen

NewWork ==
  IF HasOwner THEN [NoWork EXCEPT !.state = "pending", !.association = revision[Listing]]
  ELSE [NoWork EXCEPT !.state = "unassociated"]

\* Mutant: work that was unassociated stays so.
EnqueueOnce(k) ==
  work' = [work EXCEPT ![k] = IF @.state = "none" THEN NewWork ELSE @]

\* Insert, or repair on conflict the rows without association.
Enqueue(k) ==
  work' = [work EXCEPT ![k] =
    IF @.state = "none" \/ (@.state = "unassociated" /\ HasOwner) THEN NewWork ELSE @]

\* Older revisions of the message need no discovery any more.
DiscoverRevision(m) ==
  IF m \in deleted
  THEN discovered' = discovered \cup {Current(m)} /\ UNCHANGED <<seen, work>>
  ELSE /\ discovered' = discovered \cup {<<m, r>> : r \in 1..revision[m]}
       /\ seen' = seen \cup (IF m = Listing THEN linked \cap {revision[m]} ELSE {})
       /\ Enqueue(Current(m))

ScanStart == IF Recovered THEN Listing - 1 ELSE scanAfter
ScanEnd == IF scanUpper = 0 THEN LastStored ELSE scanUpper
Page == {m \in Stored : ScanStart < m /\ m <= ScanEnd}
Late == {m \in Stored : m <= ScanStart /\ Current(m) \notin discovered}

\* The next message of the range.
ScanPage ==
  \E m \in Page :
    /\ \A n \in Page : m <= n
    /\ DiscoverRevision(m)
    /\ scanAfter' = m /\ scanUpper' = ScanEnd

\* The range is complete: a revision stored behind the cursor, then a new range.
ScanLate ==
  /\ Page = {}
  /\ IF Late = {} THEN UNCHANGED <<seen, discovered, work>>
     ELSE \E m \in Late : DiscoverRevision(m)
  /\ scanAfter' = ScanStart
  /\ scanUpper' = IF Stored = {} THEN scanAfter' ELSE LastStored

Discover(w) ==
  /\ runner[w].step = "discover"
  /\ runner' = [runner EXCEPT ![w] = At("claim")]
  /\ IF phase = "paused" THEN UNCHANGED <<scanVars, work>>
     ELSE ScanPage \/ ScanLate
  /\ UNCHANGED <<sourceVars, controlVars, live, published, faults, commands>>

-----------------------------------------------------------------------------
(***************************************************************************)
(* claim: one active lease in the channel, nothing beyond the canary.      *)
(***************************************************************************)
Stale(k) == k # Current(k[1]) \/ k[1] \in deleted

\* Mutant: work whose lease ran out is not taken over.
ClaimableFresh == {k \in Keys : work[k].state \in {"pending", "retry_wait"}}

Claimable ==
  {k \in Keys : \/ work[k].state \in {"pending", "retry_wait"}
                \/ work[k].state = "leased" /\ k \notin live}

CanaryFull == phase = "canary" /\ canaryDone >= CanaryAssets

\* Mutant: a channel may have several leases.
AllowedBesides == phase \in {"canary", "running"} /\ ~CanaryFull

ClaimAllowed == phase \in {"canary", "running"} /\ ~CanaryFull /\ live = {}

\* No work, or no permission: the cycle ends.
ClaimNothing(w) ==
  /\ runner[w].step = "claim"
  /\ ~ClaimAllowed \/ Claimable = {}
  /\ phase' = IF CanaryFull THEN "canary_ready" ELSE phase
  /\ runner' = [runner EXCEPT ![w] = At("discover")]
  /\ UNCHANGED <<sourceVars, scanVars, canaryDone, queueVars, faults, commands>>

Claim(w) ==
  /\ runner[w].step = "claim" /\ ClaimAllowed
  /\ \E k \in Claimable :
       IF Stale(k)
       THEN /\ work' = [work EXCEPT ![k].state = "superseded", ![k].holder = "nobody"]
            /\ runner' = [runner EXCEPT ![w] = At("discover")]
            /\ UNCHANGED live
       ELSE /\ work' = [work EXCEPT ![k].state = "leased", ![k].holder = w]
            /\ live' = live \cup {k}
            /\ runner' = [runner EXCEPT ![w] = [At("attempt") EXCEPT !.key = k]]
  /\ UNCHANGED <<sourceVars, scanVars, controlVars, published, faults, commands>>

-----------------------------------------------------------------------------
(***************************************************************************)
(* The attempt: download and transform without locks, publish under the    *)
(* fence of validate_recovery, record the outcome in another transaction.  *)
(***************************************************************************)
\* _owned: the token and an unexpired lease.
Owned(w) ==
  LET k == runner[w].key
  IN work[k].state = "leased" /\ work[k].holder = w /\ k \in live

Valid(w) ==
  LET k == runner[w].key
  IN /\ Owned(w) /\ ~Stale(k)
     /\ HasOwner /\ revision[Listing] = work[k].association

Conclude(w, outcome) ==
  runner' = [runner EXCEPT ![w].step = "finish", ![w].outcome = outcome]

Publish(w) ==
  /\ runner[w].step = "attempt"
  /\ runner[w].key[1] \notin Malformed \cup Rejected
  /\ Valid(w)
  /\ published' = published \cup {runner[w].key}
  /\ Conclude(w, "completed")
  /\ UNCHANGED <<sourceVars, scanVars, controlVars, work, live, faults, commands>>

\* Mutant: lost ownership is taken for work that somebody else completed.
FencedAsDone(w) ==
  /\ runner[w].step = "attempt" /\ ~Valid(w)
  /\ Conclude(w, "completed")
  /\ UNCHANGED <<sourceVars, scanVars, controlVars, queueVars, faults, commands>>

\* MediaRecoveryOwnershipLostError.
Fenced(w) ==
  /\ runner[w].step = "attempt" /\ ~Valid(w)
  /\ Conclude(w, "superseded")
  /\ UNCHANGED <<sourceVars, scanVars, controlVars, queueVars, faults, commands>>

Reject(w) ==
  /\ runner[w].step = "attempt" /\ runner[w].key[1] \in Rejected
  /\ \E outcome \in {"unsupported", "quarantined"} : Conclude(w, outcome)
  /\ UNCHANGED <<sourceVars, scanVars, controlVars, queueVars, faults, commands>>

\* The runner claims again, or starts a cycle after the tenth claim.
Proceed(w) ==
  \E step \in {"claim", "discover"} : runner' = [runner EXCEPT ![w] = At(step)]

\* renew was refused: the download is cancelled.
LoseLease(w) ==
  /\ runner[w].step = "attempt" /\ ~Owned(w)
  /\ Proceed(w)
  /\ UNCHANGED <<sourceVars, scanVars, controlVars, queueVars, faults, commands>>

\* Mutant: whoever comes late records an outcome.
FinishLate(w) ==
  LET k == runner[w].key
      outcome == runner[w].outcome
  IN /\ runner[w].step = "finish"
     /\ work' = [work EXCEPT ![k].state = outcome, ![k].holder = "nobody"]
     /\ live' = live \ {k}
     /\ canaryDone' = IF outcome = "completed" /\ phase = "canary"
                      THEN canaryDone + 1 ELSE canaryDone
     /\ Proceed(w)
     /\ UNCHANGED <<sourceVars, scanVars, phase, published, faults, commands>>

Finish(w) ==
  LET k == runner[w].key
      outcome == runner[w].outcome
  IN /\ runner[w].step = "finish"
     /\ IF Owned(w)
        THEN /\ work' = [work EXCEPT ![k].state = outcome, ![k].holder = "nobody"]
             /\ live' = live \ {k}
             /\ canaryDone' = IF outcome = "completed" /\ phase = "canary"
                              THEN canaryDone + 1 ELSE canaryDone
        ELSE UNCHANGED <<work, live, canaryDone>>
     /\ Proceed(w)
     /\ UNCHANGED <<sourceVars, scanVars, phase, published, faults, commands>>

\* fail, for what remains of an attempt that raised an error.
Fail(w, kind) ==
  LET k == runner[w].key
      failures == work[k].failures + (IF kind = "data" THEN 1 ELSE 0)
  IN /\ runner[w].step = "attempt"
     /\ IF Owned(w)
        THEN /\ work' = [work EXCEPT
                  ![k].state = IF failures >= MaxFailures THEN "quarantined"
                               ELSE "retry_wait",
                  ![k].failures = failures, ![k].holder = "nobody"]
             /\ live' = live \ {k}
             /\ phase' = IF kind = "systemic" THEN "paused" ELSE phase
        ELSE UNCHANGED <<work, live, phase>>
     /\ Proceed(w)
     /\ UNCHANGED <<sourceVars, scanVars, canaryDone, published, commands>>

DataFailure(w) ==
  runner[w].key[1] \in Malformed /\ Fail(w, "data") /\ UNCHANGED faults

-----------------------------------------------------------------------------
Fault == faults < MaxFaults /\ faults' = faults + 1

\* The network or the storage is unavailable, or the account is locked out.
Outage(w) == Fault /\ \E kind \in {"deferred", "systemic"} : Fail(w, kind)

\* An error outside an attempt pauses media recovery.
StageFailure(w) ==
  /\ Fault /\ runner[w].step # "attempt"
  /\ phase' = "paused"
  /\ runner' = [runner EXCEPT ![w] = At("discover")]
  /\ UNCHANGED <<sourceVars, scanVars, canaryDone, queueVars, commands>>

\* The process dies; its successor knows nothing of the claim.
Crash(w) ==
  /\ Fault /\ runner[w].step \in {"attempt", "finish"}
  /\ runner' = [runner EXCEPT ![w] = At("discover")]
  /\ UNCHANGED <<sourceVars, scanVars, controlVars, queueVars, commands>>

\* A lease runs out, because its runner is gone or was too slow to renew it.
Working(k) == \E w \in Runners : runner[w].key = k /\ work[k].holder = w

ExpireAbandoned ==
  /\ \E k \in live : ~Working(k) /\ live' = live \ {k}
  /\ UNCHANGED <<sourceVars, scanVars, controlVars, work, published, runner, faults,
                 commands>>

ExpireHeld ==
  /\ Fault /\ \E k \in live : Working(k) /\ live' = live \ {k}
  /\ UNCHANGED <<sourceVars, scanVars, controlVars, work, published, runner, commands>>

\* control, in an operator's process.
Pause ==
  /\ commands < MaxCommands /\ commands' = commands + 1
  /\ phase' = "paused"
  /\ UNCHANGED <<sourceVars, scanVars, canaryDone, queueVars, runner, faults>>

Resume ==
  /\ commands < MaxCommands /\ commands' = commands + 1
  /\ phase' = IF canaryDone >= CanaryAssets THEN "running" ELSE "canary"
  /\ UNCHANGED <<sourceVars, scanVars, canaryDone, queueVars, runner, faults>>

-----------------------------------------------------------------------------
Source == Recognise \/ \E m \in Messages : Persist(m) \/ Delete(m)

Step(w) ==
  \/ Discover(w) \/ ClaimNothing(w) \/ Claim(w)
  \/ Publish(w) \/ Fenced(w) \/ Reject(w) \/ LoseLease(w) \/ Finish(w) \/ DataFailure(w)

Next ==
  \/ Source
  \/ \E w \in Runners : Step(w) \/ Outage(w) \/ StageFailure(w) \/ Crash(w)
  \/ ExpireAbandoned \/ ExpireHeld \/ Pause \/ Resume

Spec == Init /\ [][Next]_vars

\* The runner repeats its cycle for ever; a lease nobody renews runs out.
Fairness ==
  /\ WF_vars(ExpireAbandoned)
  /\ \A w \in Runners : WF_vars(Step(w))

FairSpec == Spec /\ Fairness

-----------------------------------------------------------------------------
\* The queue, the cursor and the runners hold values of their columns, a live
\* lease belongs to leased work, and work exists for stored revisions only.
TypeOK ==
  /\ revision \in [Messages -> Nat] /\ deleted \subseteq Stored
  /\ linked \subseteq 1..revision[Listing] /\ seen \subseteq linked
  /\ discovered \subseteq Keys /\ published \subseteq Keys
  /\ scanAfter \in Messages \cup {0, Listing - 1} /\ scanUpper \in Messages \cup {0}
  /\ phase \in {"canary", "canary_ready", "running", "paused"}
  /\ canaryDone \in Nat /\ faults \in Nat /\ commands \in Nat
  /\ work \in [Keys -> [state : {"none", "pending", "leased", "retry_wait",
                                 "unassociated"} \cup Outcomes,
                        association : 0..revision[Listing], failures : Nat,
                        holder : Runners \cup {"nobody"}]]
  /\ \A k \in Keys : work[k].state # "none" => k[2] <= revision[k[1]]
  /\ \A k \in live : work[k].state = "leased"
  /\ runner \in [Runners -> [step : {"discover", "claim", "attempt", "finish"},
                             key : Keys \cup {NoKey}, outcome : Outcomes \cup {""}]]

\* The channel has one active media item: no two downloads may publish, however
\* leases run out under slow runners and are taken over.
OneActiveItem == Cardinality({w \in Runners : runner[w].key # NoKey /\ Owned(w)}) <= 1

\* The queue has one active item, and holds what its rows may hold.
MediaInv == TypeOK /\ OneActiveItem

Completed == {k \in Keys : work[k].state = "completed"}

\* The queue expands beyond the canary only when so many assets were recovered,
\* although late runners, pauses and expired leases all touch the counter.
RunningIsProven == phase = "running" => Cardinality(Completed) >= CanaryAssets

\* Work is recorded as completed only when its photo is public.
CompletedIsPublished == Completed \subseteq published

\* A recorded outcome is final: neither rediscovery after a rewind nor a runner
\* that lost its lease reopens or changes it.
OutcomesAreFinal ==
  [][\A k \in Keys : work[k].state \in Outcomes => work'[k] = work[k]]_vars

\* Media work is a fenced lease.  A recorded outcome is final with its whole row, and
\* only the runner whose lease is alive records one: neither rediscovery after a
\* rewind, nor a runner that lost its lease, nor its successor can.
Fence == INSTANCE FencedLease WITH
  Items <- Keys, Workers <- Runners, Open <- NoWork, NoToken <- {}, None <- NoKey,
  result <- [k \in Keys |-> IF work[k].state \in Outcomes THEN work[k] ELSE NoWork],
  token <- [k \in Keys |->
              IF work[k].state = "leased" /\ k \in live THEN {work[k].holder} ELSE {}],
  claim <- [w \in Runners |->
              [item |-> runner[w].key, token |-> IF runner[w].key = NoKey THEN {} ELSE {w}]]

ImplementsLease == Fence!Spec

Active == phase \in {"canary", "running"} /\ ~CanaryFull

\* A photo that can be recovered and belongs to the listing as it stands.
Eligible(m) ==
  /\ m \in Stored \ (deleted \cup Malformed \cup Rejected)
  /\ HasOwner /\ revision[Listing] \in linked

\* Every photo of a live listing becomes public in the end, in whatever order
\* the messages were stored, edited and recognised, if recovery is not halted.
GalleryCompletes ==
  \A m \in Messages :
    <>[](Active /\ Eligible(m)) => <>[](Current(m) \in published)

\* All discovered work reaches an outcome, if recovery is not halted.
WorkSettles ==
  \A k \in Keys :
    <>[]Active => <>[](work[k].state \in Outcomes \cup {"none", "unassociated"})
=============================================================================
