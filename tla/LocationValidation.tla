------------------------- MODULE LocationValidation -------------------------
(***************************************************************************)
(* The automatic revalidation of stored locations.  A scan enqueues every  *)
(* location once; workers claim the work under a fenced lease, look the    *)
(* address up outside any transaction, and record a verdict: an            *)
(* observation while the rollout observes, a new selection of the point    *)
(* once it applies, canaries first.  Meanwhile lookups of the foreground   *)
(* and the owner select points of their own, and the operator changes the  *)
(* mode, verifies the canaries or rolls the corrections back.              *)
(*                                                                         *)
(* One policy version (target) is modelled, whose deployment is the        *)
(* initial state, and addresses do not change: no code of the running      *)
(* system rewrites the address of a location.  Time is left out: a lease   *)
(* may run out and a deferred work become due at any moment.               *)
(***************************************************************************)
EXTENDS Naturals, FiniteSets

CONSTANTS
  LocationCount,     \* locations, in the order of their ids
  Placed,            \* the locations that were selected before this policy
  Results,           \* what the providers return for an address
  Selectable,        \* the results the current policy selects
  Workers,           \* telegram workers, two while one replaces the other
  DiscoveryLimit,    \* locations per page of the scan (100 in the code)
  MaxFailures,       \* consecutive failures a work survives (5 in the code)
  MaxOwnerDecisions, \* bound on the owner's decisions
  MaxCommands,       \* bound on the operator's commands
  MaxUpsets          \* bound on crashes, lost leases and quota deferrals

ASSUME LocationAssumption ==
  /\ LocationCount \in Nat \ {0} /\ DiscoveryLimit \in Nat \ {0}
  /\ MaxFailures \in Nat \ {0}
  /\ Placed \subseteq 1 .. LocationCount /\ Selectable \subseteq Results

VARIABLES
  place,     \* locations with the latest row of location_geocode_selections
  control,   \* the location_validation_control row
  work,      \* location_validation_work, per location
  receipt,   \* location_validation_receipts of applications and rollbacks
  worker,    \* what each worker holds of its claim
  lookups,   \* locations the foreground is looking up
  rolling,   \* a rollback command has paused the work and not yet restored
  ready,     \* the canaries a command to apply has found observed, if any
  decisions, commands, upsets

world == <<place, receipt>>
spent == <<decisions, commands, upsets>>
operator == <<rolling, ready>>
vars == <<world, control, work, worker, lookups, operator, spent>>

Locations == 1 .. LocationCount
Nothing == "nothing"
NoReceipt == [outcome |-> "none", pin |-> Nothing, version |-> 0]
NoLease == [holder |-> "none", mode |-> "none", live |-> FALSE]
NoWork == [state |-> "none", version |-> 0, lease |-> NoLease, failures |-> 0]
NoClaim == [loc |-> 0, version |-> 0, mode |-> "none", failures |-> 0]

Upset == upsets < MaxUpsets /\ upsets' = upsets + 1
-----------------------------------------------------------------------------
\* The point of a location.

Unplaced ==
  [version |-> 0, actor |-> "none", pin |-> Nothing, candidate |-> Nothing]

PinnedBefore(r) ==
  [version |-> 1, actor |-> "automatic", pin |-> r, candidate |-> r]

\* The historical acceptance of pending pins counts as automatic too.
Protected(p) == p.actor = "owner"

Selection(p, r) ==
  [version |-> p.version + 1, actor |-> "automatic", candidate |-> r,
   pin |-> IF r \in Selectable THEN r ELSE Nothing]

\* Mutant: the latest selection is not asked for its actor.
SelectAlways(p, r) == Selection(p, r)

\* An automatic decision yields to the owner's without a word.
SelectInSession(p, r) == IF Protected(p) THEN p ELSE Selection(p, r)

\* The owner sets a point, accepts the latest candidate, or rejects or reopens the
\* location, which keeps its pin.  (Review states are left out.)
OwnerDecisions(p) ==
  {[version |-> p.version + 1, actor |-> "owner", pin |-> d[1], candidate |-> d[2]] :
     d \in {<<"manual", Nothing>>, <<p.pin, p.candidate>>}
           \cup ({p.candidate} \cap Results) \X {p.candidate}}
-----------------------------------------------------------------------------
Init ==
  /\ place \in [Locations -> {Unplaced} \cup {PinnedBefore(r) : r \in Results}]
  /\ \A l \in Locations : place[l] # Unplaced <=> l \in Placed
  /\ control = [mode |-> "none", cursor |-> 0, canaries |-> {}, verified |-> FALSE]
  /\ work = [l \in Locations |-> NoWork]
  /\ receipt = [l \in Locations |-> [apply |-> NoReceipt, rollback |-> "none"]]
  /\ worker = [w \in Workers |-> NoClaim]
  /\ lookups = {} /\ rolling = FALSE /\ ready = {}
  /\ decisions = 0 /\ commands = 0 /\ upsets = 0

\* A location the owner decided about is an exception from the start.
Enqueued(l) ==
  [NoWork EXCEPT !.state = IF Protected(place[l]) THEN "protected" ELSE "pending",
                 !.version = place[l].version]

Enqueue(ls) ==
  [l \in Locations |-> IF l \in ls /\ work[l] = NoWork THEN Enqueued(l) ELSE work[l]]

\* One page of the scan: it starts over after a page that is not full.
Discover(w) ==
  /\ worker[w] = NoClaim
  /\ control.mode # "off"
  /\ LET page == {l \in Locations : l > control.cursor /\ l <= control.cursor + DiscoveryLimit}
     IN  /\ work' = Enqueue(page)
         /\ control' = [control EXCEPT
              !.mode = IF @ = "none" THEN "observe" ELSE @,
              !.cursor = IF Cardinality(page) = DiscoveryLimit THEN @ + DiscoveryLimit ELSE 0]
  /\ UNCHANGED <<world, worker, lookups, operator, spent>>

Claimable(l) ==
  /\ \/ work[l].state \in {"pending", "deferred"}
     \/ work[l].state = "leased" /\ ~work[l].lease.live
     \/ work[l].state = "observed" /\ control.mode = "apply"
  /\ control.mode = "apply" => control.verified \/ l \in control.canaries

\* The work is leased with a higher fence; its snapshot leaves the transaction.
\* A worker has one claim at a time, so the holder of a lease, the worker whose
\* last claim carries its fence, stands for the fence.
Claim(w, l) ==
  /\ worker[w] = NoClaim
  /\ control.mode \in {"observe", "apply"}
  /\ Claimable(l)
  /\ work' = [work EXCEPT ![l].state = "leased",
                          ![l].lease = [holder |-> w, mode |-> control.mode, live |-> TRUE]]
  /\ worker' = [worker EXCEPT ![w] =
       [loc |-> l, version |-> work[l].version, mode |-> control.mode,
        failures |-> work[l].failures]]
  /\ UNCHANGED <<world, control, lookups, operator, spent>>

\* Mutant: whose lease the row carries is not asked.
OwnedByAnyone(w) ==
  LET item == work[worker[w].loc]
  IN  /\ item.state = "leased" /\ item.lease.live
      /\ control.mode = item.lease.mode /\ control.mode \in {"observe", "apply"}

\* The claim is current: the row is still leased to it, the lease has not run
\* out, and the mode is the one it was leased in.
Owned(w) ==
  LET item == work[worker[w].loc]
  IN  /\ item.state = "leased" /\ item.lease.holder = w /\ item.lease.live
      /\ control.mode = item.lease.mode /\ control.mode \in {"observe", "apply"}

\* A lookup that finds its lease lost when it renews it is cancelled.
LoseClaim(w) ==
  /\ worker[w] # NoClaim /\ ~Owned(w)
  /\ worker' = [worker EXCEPT ![w] = NoClaim]
  /\ UNCHANGED <<world, control, work, lookups, operator, spent>>

Defer(w, failed) ==
  LET c == worker[w]
      failures == c.failures + (IF failed THEN 1 ELSE 0)
  IN  /\ work' =
           IF ~Owned(w) THEN work
           ELSE [work EXCEPT
                   ![c.loc].state = IF failures >= MaxFailures THEN "exception" ELSE "deferred",
                   ![c.loc].failures = failures,
                   ![c.loc].lease = NoLease]
      /\ worker' = [worker EXCEPT ![w] = NoClaim]

\* A lookup fails, or no request is left of the day or of the cycle.
Fail(w) ==
  /\ worker[w] # NoClaim
  /\ \/ Defer(w, TRUE) /\ UNCHANGED upsets
     \/ Defer(w, FALSE) /\ Upset
  /\ UNCHANGED <<world, control, lookups, operator, decisions, commands>>
-----------------------------------------------------------------------------
\* The verdict, in one transaction that has locked the control row, the work
\* and the location.

Settled(l, state) == [work[l] EXCEPT !.state = state, !.lease = NoLease]

\* A receipt is written once per work and mode: a second one is dropped.
Receipted(l, outcome, version) ==
  IF receipt[l].apply # NoReceipt THEN receipt
  ELSE [receipt EXCEPT ![l].apply =
          [outcome |-> outcome, pin |-> place[l].pin, version |-> version]]

FinishProtected(c) ==
  LET p == place[c.loc]
  IN  /\ Protected(p)
      /\ work' = [work EXCEPT ![c.loc] = Settled(c.loc, "protected")]
      /\ receipt' = IF c.mode = "apply" THEN Receipted(c.loc, "protected", p.version)
                    ELSE receipt
      /\ UNCHANGED place

\* Another selection came in between: the work starts over from it.
FinishChanged(c) ==
  LET p == place[c.loc]
  IN  /\ ~Protected(p) /\ p.version # c.version
      /\ work' = [work EXCEPT ![c.loc] = [Settled(c.loc, "pending") EXCEPT !.version = p.version]]
      /\ UNCHANGED world

FinishObserved(c) ==
  LET p == place[c.loc]
  IN  /\ ~Protected(p) /\ p.version = c.version /\ c.mode = "observe"
      /\ work' = [work EXCEPT ![c.loc] = [Settled(c.loc, "observed") EXCEPT !.failures = 0]]
      /\ UNCHANGED world

FinishApplied(c, r) ==
  LET p == place[c.loc]
      after == SelectInSession(p, r)
      outcome == IF r \in Selectable THEN "corrected" ELSE "unresolved"
  IN  /\ ~Protected(p) /\ p.version = c.version /\ c.mode = "apply"
      /\ place' = [place EXCEPT ![c.loc] = after]
      /\ receipt' = Receipted(c.loc, outcome, after.version)
      /\ work' = [work EXCEPT ![c.loc] = [Settled(c.loc, "terminal") EXCEPT !.failures = 0]]

\* The municipal source, the hosted provider or the cache has answered.
Finish(w, r) ==
  /\ worker[w] # NoClaim
  /\ LET c == worker[w]
     IN  \/ ~Owned(w) /\ UNCHANGED <<world, work>>
         \/ Owned(w) /\ ( \/ FinishProtected(c) \/ FinishChanged(c)
                          \/ FinishObserved(c) \/ FinishApplied(c, r) )
  /\ worker' = [worker EXCEPT ![w] = NoClaim]
  /\ UNCHANGED <<control, lookups, operator, spent>>
-----------------------------------------------------------------------------
\* The others who select a point.

\* The recurring worker looks up a location that was never selected ...
StartLookup(l) ==
  /\ l \notin lookups
  /\ place[l].version = 0
  /\ lookups' = lookups \cup {l}
  /\ UNCHANGED <<world, control, work, worker, operator, spent>>

\* ... and selects what it found, whatever was decided in the meantime.
FinishLookup(l, r) ==
  /\ l \in lookups
  /\ lookups' = lookups \ {l}
  /\ place' = [place EXCEPT ![l] = SelectInSession(@, r)]
  /\ UNCHANGED <<receipt, control, work, worker, operator, spent>>

DropLookup(l) ==
  /\ l \in lookups
  /\ lookups' = lookups \ {l}
  /\ UNCHANGED <<world, control, work, worker, operator, spent>>

Decide(l) ==
  /\ decisions < MaxOwnerDecisions /\ decisions' = decisions + 1
  /\ \E p \in OwnerDecisions(place[l]) : place' = [place EXCEPT ![l] = p]
  /\ UNCHANGED <<receipt, control, work, worker, lookups, operator, commands, upsets>>
-----------------------------------------------------------------------------
\* The operator.

Command == commands < MaxCommands /\ commands' = commands + 1 /\ UNCHANGED <<decisions, upsets>>

\* Mutant: leases survive a change of the canaries.
LeasesKept(works) == works

\* Every lease is revoked when the mode is set.
Revoked(works) ==
  [l \in Locations |->
     IF works[l].state # "leased" THEN works[l]
     ELSE [works[l] EXCEPT !.state = "deferred", !.lease = NoLease]]

\* A new mode needs its canaries verified anew.
SetMode(mode, ids) ==
  control' = [control EXCEPT !.mode = mode, !.verified = FALSE,
                             !.canaries = IF mode = "off" THEN @ ELSE ids]

\* The canaries of an observation are put in the queue by the same command.
Observe(ids) ==
  /\ Command
  /\ SetMode("observe", ids)
  /\ work' = Revoked(Enqueue(ids))
  /\ UNCHANGED <<world, worker, lookups, operator>>

\* Application needs canaries whose observation is complete: they are counted before
\* the control row is locked, and nothing is counted again under the lock.
CheckCanaries(ids) ==
  /\ Command
  /\ ready = {} /\ ids # {}
  /\ \A l \in ids : work[l].state \in {"observed", "terminal", "protected"}
  /\ ready' = ids
  /\ UNCHANGED <<world, control, work, worker, lookups, rolling>>

Apply(ids) ==
  /\ ids # {} /\ ready = ids /\ ready' = {}
  /\ SetMode("apply", ids)
  /\ work' = Revoked(work)
  /\ UNCHANGED <<world, worker, lookups, rolling, spent>>

\* A rollback first switches validation off; a plain "off" is one that never
\* comes to its second transaction.
SwitchOff ==
  /\ Command
  /\ SetMode("off", {})
  /\ work' = Revoked(work)
  /\ rolling' = TRUE
  /\ UNCHANGED <<world, worker, lookups, ready>>

\* Mutant: an observation is taken for an application.
CanarySeen(l) == work[l].state \in {"observed", "terminal", "protected"}

CanaryDone(l) == work[l].state \in {"terminal", "protected"}

VerifyCanary ==
  /\ Command
  /\ control.mode = "apply"
  /\ control.verified \/ \A l \in control.canaries : CanaryDone(l)
  /\ control' = [control EXCEPT !.verified = TRUE]
  /\ UNCHANGED <<world, work, worker, lookups, operator>>

Corrected == {l \in Locations :
  receipt[l].apply # NoReceipt /\ receipt[l].rollback = "none"}

\* The location still is what the correction made of it.
Untouched(l) ==
  /\ ~Protected(place[l])
  /\ receipt[l].apply.outcome # "protected" /\ receipt[l].apply.version = place[l].version

Restorable(l) == Untouched(l) /\ receipt[l].apply.pin \in Selectable

\* The second transaction of a rollback restores the points that are unchanged
\* and whose predecessor the policy still accepts (at most 25 at a time).
Restore ==
  /\ rolling /\ rolling' = FALSE
  /\ IF control.mode # "off" THEN UNCHANGED world
     ELSE /\ place' = [l \in Locations |->
               IF l \in Corrected /\ Restorable(l)
                 THEN Selection(place[l], receipt[l].apply.pin) ELSE place[l]]
          /\ receipt' = [l \in Locations |->
               IF l \notin Corrected THEN receipt[l]
               ELSE [receipt[l] EXCEPT !.rollback =
                       IF Restorable(l) THEN "restored" ELSE "retained"]]
  /\ UNCHANGED <<control, work, worker, lookups, ready, spent>>
-----------------------------------------------------------------------------
\* A worker dies, is replaced and starts over.
Crash(w) ==
  /\ worker[w] # NoClaim
  /\ Upset
  /\ worker' = [worker EXCEPT ![w] = NoClaim]
  /\ UNCHANGED <<world, control, work, lookups, operator, decisions, commands>>

Held(l) == \E w \in Workers : worker[w].loc = l /\ Owned(w)

\* A lease runs out under a stalled worker, or after it died.
Lapse(l) ==
  /\ work[l].state = "leased" /\ work[l].lease.live
  /\ IF Held(l) THEN Upset ELSE UNCHANGED upsets
  /\ work' = [work EXCEPT ![l].lease.live = FALSE]
  /\ UNCHANGED <<world, control, worker, lookups, operator, decisions, commands>>

WorkerNext(w) ==
  \/ Discover(w)
  \/ \E l \in Locations : Claim(w, l)
  \/ \E r \in Results : Finish(w, r)
  \/ LoseClaim(w) \/ Fail(w) \/ Crash(w)

Next ==
  \/ \E w \in Workers : WorkerNext(w)
  \/ \E l \in Locations :
       \/ StartLookup(l) \/ DropLookup(l) \/ Decide(l) \/ Lapse(l)
       \/ \E r \in Results : FinishLookup(l, r)
  \/ \E ids \in SUBSET Locations : Observe(ids) \/ CheckCanaries(ids) \/ Apply(ids)
  \/ SwitchOff \/ VerifyCanary \/ Restore

Spec == Init /\ [][Next]_vars
-----------------------------------------------------------------------------
Modes == {"none", "observe", "apply"}
Points == Results \cup {Nothing, "manual"}
PlaceRow == [version : Nat, actor : {"none", "automatic", "owner"}, pin : Points,
             candidate : Results \cup {Nothing}]
ControlRow == [mode : Modes \cup {"off"}, cursor : Nat, canaries : SUBSET Locations,
               verified : BOOLEAN]
LeaseOf == [holder : Workers \cup {"none"}, mode : Modes, live : BOOLEAN]
WorkRow == [state : {"none", "pending", "leased", "deferred", "observed", "terminal",
                     "protected", "exception"},
            version : Nat, lease : LeaseOf, failures : 0 .. MaxFailures]
Application == [outcome : {"none", "corrected", "unresolved", "protected"},
                pin : Points, version : Nat]
ReceiptRow == [apply : Application, rollback : {"none", "restored", "retained"}]
ClaimOf == [loc : Locations \cup {0}, version : Nat, mode : Modes, failures : Nat]

\* The rows hold values of their columns; no work is ahead of its location, and
\* work is leased exactly while it carries a lease.
TypeOK ==
  /\ place \in [Locations -> PlaceRow] /\ control \in ControlRow
  /\ work \in [Locations -> WorkRow] /\ receipt \in [Locations -> ReceiptRow]
  /\ worker \in [Workers -> ClaimOf] /\ lookups \subseteq Locations
  /\ \A l \in Locations : work[l].version <= place[l].version
  /\ \A l \in Locations : work[l].state = "leased" <=> work[l].lease # NoLease
  /\ \A w \in Workers : worker[w] # NoClaim => worker[w].loc \in Locations

\* The rollout leaves the canaries only with every canary's application behind it,
\* whatever modes and canaries the operator set before.
CanariesVerified ==
  control.verified =>
    \A l \in control.canaries : work[l].state \in {"terminal", "protected"}

\* An application is recorded once, as what became of the work, though a receipt
\* that exists already would be dropped silently.
ApplicationReceipted ==
  \A l \in Locations :
    work[l].state = "terminal" <=> receipt[l].apply.outcome \in {"corrected", "unresolved"}

\* The rollout is at no point ahead of its canaries, and its record is complete.
RolloutInv == TypeOK /\ CanariesVerified /\ ApplicationReceipted

\* Validation writes to a location outside the canaries only after they were
\* verified, however late the worker answers that claimed it.
CanariesBeforeRest ==
  [][\A l \in Locations :
       receipt'[l].apply # receipt[l].apply =>
         control.mode = "apply" /\ (control.verified \/ l \in control.canaries)]_vars

\* What the owner decided about a location is never changed but by the owner.  A
\* correction replaces the selection its lookup began with, and a rollback takes
\* back a correction: neither touches a selection that came in between.
AutomationYields ==
  [][\A l \in Locations : place'[l] # place[l] =>
       /\ place[l].actor = "owner" => place'[l].actor = "owner"
       /\ receipt'[l].apply # receipt[l].apply =>
            \E w \in Workers : worker[w].loc = l /\ worker[w].version = place[l].version
       /\ receipt'[l].rollback # receipt[l].rollback =>
            place[l].version = receipt[l].apply.version
            /\ place'[l].pin = receipt[l].apply.pin]_vars

\* The validation of a location is a fenced lease, which a change of mode or canaries
\* revokes: nobody settles a location with a lease that ran out, was revoked or was
\* given to another, and what became of a location stays.
Fence == INSTANCE FencedLease WITH
  Items <- Locations, Open <- NoWork, NoToken <- {}, None <- 0,
  result <- [l \in Locations |->
               IF work[l].state \in {"terminal", "protected", "exception"} THEN work[l] ELSE NoWork],
  token <- [l \in Locations |->
              IF work[l].state = "leased" /\ work[l].lease.live
              THEN {work[l].lease.holder} ELSE {}],
  claim <- [w \in Workers |->
              [item |-> worker[w].loc, token |-> IF worker[w] = NoClaim THEN {} ELSE {w}]]

ImplementsLease == Fence!Spec
=============================================================================
