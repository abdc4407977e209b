----------------------------- MODULE LocationProofs -----------------------------
(***************************************************************************)
(* Location validation keeps its promises for every number of locations,   *)
(* workers and decisions: the rollout is never ahead of its canaries, its  *)
(* record is complete, and automation yields to whoever chose since.       *)
(***************************************************************************)
EXTENDS LocationValidation, TLAPS

\* A claimed work survived its failures so far, and one that did not is an exception.
FailuresCounted ==
  /\ \A w \in Workers : worker[w].failures < MaxFailures
  /\ \A l \in Locations : work[l].failures = MaxFailures => work[l].state = "exception"

\* A receipt that exists has an outcome, and work found protected is over.
OutcomesRecorded ==
  \A l \in Locations :
    /\ receipt[l].apply.outcome = "none" => receipt[l].apply = NoReceipt
    /\ receipt[l].apply.outcome = "protected" => work[l].state = "protected"

\* What a worker remembers of its claim is what its lease says.
LeaseRemembered ==
  \A l \in Locations, w \in Workers :
    work[l].state = "leased" /\ work[l].lease.holder = w /\ worker[w].loc = l =>
      worker[w].mode = work[l].lease.mode

\* Nothing is leased for application but what the rollout has come to.
LeasesReached ==
  \A l \in Locations :
    work[l].state = "leased" =>
      /\ work[l].lease.mode # "none"
      /\ work[l].lease.mode = "apply" => control.verified \/ l \in control.canaries

\* The invariant without the types.
Record == /\ CanariesVerified /\ ApplicationReceipted
          /\ FailuresCounted /\ OutcomesRecorded /\ LeaseRemembered /\ LeasesReached

IInv == TypeOK /\ Record

LEMMA Constants ==
  /\ 0 \notin Locations /\ Locations \subseteq Nat
  /\ MaxFailures \in Nat \ {0} /\ Selectable \subseteq Results
  /\ NoLease \in LeaseOf /\ NoClaim \in ClaimOf /\ NoWork \in WorkRow
  /\ NoReceipt \in Application
<1> USE LocationAssumption DEF Locations, LeaseOf, Modes, WorkRow, ClaimOf, Application
<1>1. NoLease \in LeaseOf
  BY DEF NoLease
<1>2. NoWork \in WorkRow
  BY <1>1 DEF NoWork
<1>3. NoClaim \in ClaimOf
  BY DEF NoClaim
<1>4. NoReceipt \in Application
  BY DEF NoReceipt, Points, Nothing
<1> QED BY <1>1, <1>2, <1>3, <1>4

LEMMA InitIInv == Init => IInv
<1> SUFFICES ASSUME Init PROVE IInv
  OBVIOUS
<1> USE Constants
<1>1. place \in [Locations -> PlaceRow]
  <2>1. Unplaced \in PlaceRow /\ \A r \in Results : PinnedBefore(r) \in PlaceRow
    BY DEF Unplaced, PinnedBefore, PlaceRow, Points, Nothing
  <2> QED BY <2>1 DEF Init
<1>2. control \in ControlRow
  BY DEF Init, ControlRow, Modes
<1>3. work \in [Locations -> WorkRow] /\ worker \in [Workers -> ClaimOf]
  BY DEF Init
<1>4. receipt \in [Locations -> ReceiptRow]
  BY DEF Init, ReceiptRow
<1>5. \A l \in Locations : work[l].version <= place[l].version
  BY <1>1 DEF Init, NoWork, PlaceRow
<1>6. \A l \in Locations : work[l].state = "leased" <=> work[l].lease # NoLease
  BY DEF Init, NoWork
<1>7. TypeOK
  BY <1>1, <1>2, <1>3, <1>4, <1>5, <1>6 DEF TypeOK, Init
<1>8. CanariesVerified /\ ApplicationReceipted
  BY DEF Init, CanariesVerified, ApplicationReceipted, NoReceipt, NoWork
<1>9. FailuresCounted /\ OutcomesRecorded /\ LeaseRemembered /\ LeasesReached
  BY DEF Init, FailuresCounted, OutcomesRecorded, LeaseRemembered, LeasesReached, NoWork,
         NoClaim, NoReceipt
<1> QED BY <1>7, <1>8, <1>9 DEF IInv, Record

\* A selection is a point, one version later.
LEMMA SelectionType ==
  ASSUME NEW p \in PlaceRow, NEW r \in Results
  PROVE  /\ Selection(p, r) \in PlaceRow
         /\ Selection(p, r).version = p.version + 1
         /\ SelectInSession(p, r) \in PlaceRow
         /\ SelectInSession(p, r).version >= p.version
         /\ p.actor = "owner" => SelectInSession(p, r) = p
  BY DEF PlaceRow, Selection, SelectInSession, Protected, Points, Nothing

\* An owner's decision is a point, one version later, and the owner's.
LEMMA DecisionType ==
  ASSUME NEW q \in PlaceRow, NEW p \in OwnerDecisions(q)
  PROVE  p \in PlaceRow /\ p.version = q.version + 1 /\ p.actor = "owner"
  BY DEF PlaceRow, OwnerDecisions, Points, Nothing

\* A worker that owns its claim holds the lease of its location, in the mode of the
\* rollout, and has come to it.
LEMMA OwnedLease ==
  ASSUME IInv, NEW w \in Workers, worker[w].loc \in Locations, Owned(w)
  PROVE  /\ work[worker[w].loc].state = "leased"
         /\ worker[w].mode = control.mode /\ control.mode \in {"observe", "apply"}
         /\ control.mode = "apply" =>
              control.verified \/ worker[w].loc \in control.canaries
  BY DEF Owned, IInv, Record, LeaseRemembered, LeasesReached

-----------------------------------------------------------------------------
LEMMA EnqueueTypes ==
  ASSUME TypeOK, NEW ls
  PROVE  /\ Enqueue(ls) \in [Locations -> WorkRow]
         /\ \A l \in Locations :
              \/ Enqueue(ls)[l] = work[l]
              \/ /\ work[l] = NoWork
                 /\ Enqueue(ls)[l].state \in {"pending", "protected"}
                 /\ Enqueue(ls)[l].failures = 0 /\ Enqueue(ls)[l].lease = NoLease
                 /\ Enqueue(ls)[l].version = place[l].version
<1>1. ASSUME NEW l \in Locations
      PROVE  /\ Enqueued(l) \in WorkRow
             /\ Enqueued(l).state \in {"pending", "protected"}
             /\ Enqueued(l).failures = 0 /\ Enqueued(l).lease = NoLease
             /\ Enqueued(l).version = place[l].version
  BY Constants DEF TypeOK, PlaceRow, Enqueued, NoWork, WorkRow
<1> QED BY <1>1 DEF Enqueue, TypeOK

\* Work that is begun stays as it is unless it is leased or free to be claimed.
\* Revoked leases leave deferred work.
LEMMA RevokedTypes ==
  ASSUME NEW works \in [Locations -> WorkRow]
  PROVE  /\ Revoked(works) \in [Locations -> WorkRow]
         /\ \A l \in Locations :
              /\ works[l].state # "leased" => Revoked(works)[l] = works[l]
              /\ works[l].state = "leased" =>
                   /\ Revoked(works)[l].state = "deferred"
                   /\ Revoked(works)[l].lease = NoLease
                   /\ Revoked(works)[l].version = works[l].version
                   /\ Revoked(works)[l].failures = works[l].failures
<1>1. \A l \in Locations :
        [works[l] EXCEPT !.state = "deferred", !.lease = NoLease] \in WorkRow
  BY Constants DEF WorkRow
<1> QED BY <1>1 DEF Revoked, WorkRow

\* A scan leaves the rollout alone.
LEMMA DiscoverIInv ==
  ASSUME IInv, NEW w \in Workers, Discover(w)
  PROVE  IInv'
<1>1. PICK page \in SUBSET Locations :
        /\ work' = Enqueue(page)
        /\ control'.verified = control.verified /\ control'.canaries = control.canaries
        /\ control' \in ControlRow
  <2> DEFINE page == {l \in Locations :
                        l > control.cursor /\ l <= control.cursor + DiscoveryLimit}
  <2>1. work' = Enqueue(page)
    BY DEF Discover
  <2>2. PICK m \in Modes \cup {"off"}, n \in Nat :
          control' = [control EXCEPT !.mode = m, !.cursor = n]
    <3> DEFINE m == IF control.mode = "none" THEN "observe" ELSE control.mode
               n == IF Cardinality(page) = DiscoveryLimit
                    THEN control.cursor + DiscoveryLimit ELSE 0
    <3>1. m \in Modes \cup {"off"} /\ n \in Nat
      BY LocationAssumption DEF IInv, TypeOK, ControlRow, Modes
    <3>2. control' = [control EXCEPT !.mode = m, !.cursor = n]
      BY DEF Discover
    <3> QED BY <3>1, <3>2
  <2>3. /\ control'.verified = control.verified /\ control'.canaries = control.canaries
        /\ control' \in ControlRow
    BY <2>2 DEF IInv, TypeOK, ControlRow
  <2> QED BY <2>1, <2>3
<1>2. UNCHANGED <<place, receipt, worker, lookups>>
  BY DEF Discover, world
<1>3. /\ work' \in [Locations -> WorkRow]
      /\ \A l \in Locations :
           \/ work'[l] = work[l]
           \/ /\ work[l] = NoWork
              /\ work'[l].state \in {"pending", "protected"}
              /\ work'[l].failures = 0 /\ work'[l].lease = NoLease
              /\ work'[l].version = place[l].version
  BY <1>1, EnqueueTypes DEF IInv
<1>4. TypeOK'
  BY <1>1, <1>2, <1>3 DEF IInv, TypeOK, PlaceRow
<1>5. (CanariesVerified /\ ApplicationReceipted)'
  BY <1>1, <1>2, <1>3
     DEF IInv, Record, CanariesVerified, ApplicationReceipted, NoWork, TypeOK, ControlRow
<1>6. (FailuresCounted /\ OutcomesRecorded)'
  BY <1>2, <1>3, Constants DEF IInv, Record, FailuresCounted, OutcomesRecorded, NoWork
<1>7. (LeaseRemembered /\ LeasesReached)'
  BY <1>1, <1>2, <1>3 DEF IInv, Record, LeaseRemembered, LeasesReached
<1> QED BY <1>4, <1>5, <1>6, <1>7 DEF IInv, Record

\* Claimed work is new, deferred, observed or was leased; its lease has the mode of
\* the rollout, which has come to it.
LEMMA ClaimIInv ==
  ASSUME IInv, NEW w \in Workers, NEW l \in Locations, Claim(w, l)
  PROVE  IInv'
<1> DEFINE lease == [holder |-> w, mode |-> control.mode, live |-> TRUE]
           row == [work[l] EXCEPT !.state = "leased", !.lease = lease]
           claim == [loc |-> l, version |-> work[l].version, mode |-> control.mode,
                     failures |-> work[l].failures]
<1>1. /\ work' = [work EXCEPT ![l] = row]
      /\ worker' = [worker EXCEPT ![w] = claim]
      /\ UNCHANGED <<place, receipt, control, lookups>>
      /\ control.mode \in {"observe", "apply"} /\ Claimable(l)
  BY DEF Claim, world
<1>2. lease \in LeaseOf /\ lease # NoLease
  BY <1>1 DEF LeaseOf, Modes, NoLease
<1>3. row \in WorkRow /\ row.state = "leased" /\ row.lease = lease
      /\ row.version = work[l].version /\ row.failures = work[l].failures
  BY <1>2 DEF IInv, TypeOK, WorkRow
<1>4. claim \in ClaimOf
  BY <1>1, Constants DEF IInv, TypeOK, WorkRow, ClaimOf, Modes
<1>5. work[l].state \in {"pending", "deferred", "observed", "leased"}
  BY <1>1 DEF Claimable
<1>6. work[l].failures < MaxFailures
  BY <1>5, Constants DEF IInv, TypeOK, WorkRow, Record, FailuresCounted
<1> HIDE DEF row, claim, lease
<1>7. TypeOK'
  BY <1>1, <1>2, <1>3, <1>4 DEF IInv, TypeOK, claim
<1>8. (CanariesVerified /\ ApplicationReceipted)'
  BY <1>1, <1>3, <1>5 DEF IInv, TypeOK, Record, CanariesVerified, ApplicationReceipted
<1>9. (FailuresCounted /\ OutcomesRecorded)'
  BY <1>1, <1>3, <1>5, <1>6
     DEF IInv, TypeOK, Record, FailuresCounted, OutcomesRecorded, claim
<1>10. LeaseRemembered'
  BY <1>1, <1>3 DEF IInv, TypeOK, Record, LeaseRemembered, claim, lease
<1>11. LeasesReached'
  BY <1>1, <1>3 DEF IInv, TypeOK, Record, LeasesReached, lease, Claimable
<1> QED BY <1>7, <1>8, <1>9, <1>10, <1>11 DEF IInv, Record

\* A worker forgets its claim, and the work it had changes at most to a state in
\* which it is neither leased nor decided.
LEMMA ForgetIInv ==
  ASSUME IInv, NEW w \in Workers, worker' = [worker EXCEPT ![w] = NoClaim],
         UNCHANGED <<place, receipt, control, lookups, work>>
  PROVE  IInv'
<1>1. TypeOK'
  BY Constants DEF IInv, TypeOK
<1>2. FailuresCounted' /\ LeaseRemembered'
  BY Constants DEF IInv, TypeOK, Record, FailuresCounted, LeaseRemembered, NoClaim
<1>3. (CanariesVerified /\ ApplicationReceipted /\ OutcomesRecorded /\ LeasesReached)'
  BY DEF IInv, Record, CanariesVerified, ApplicationReceipted, OutcomesRecorded,
         LeasesReached
<1> QED BY <1>1, <1>2, <1>3 DEF IInv, Record

\* A deferral, a failure, or nothing when the lease was lost.
LEMMA DeferIInv ==
  ASSUME IInv, NEW w \in Workers, NEW failed \in BOOLEAN, worker[w] # NoClaim,
         Defer(w, failed), UNCHANGED <<place, receipt, control, lookups>>
  PROVE  IInv'
<1> DEFINE c == worker[w]
           failures == c.failures + (IF failed THEN 1 ELSE 0)
           state == IF failures >= MaxFailures THEN "exception" ELSE "deferred"
           row == [work[c.loc] EXCEPT !.state = state, !.failures = failures,
                                      !.lease = NoLease]
<1>1. worker' = [worker EXCEPT ![w] = NoClaim]
  BY DEF Defer
<1>2. CASE ~Owned(w)
  BY <1>1, <1>2, ForgetIInv DEF Defer
<1>3. CASE Owned(w)
  <2>1. c.loc \in Locations /\ work[c.loc].state = "leased"
    BY <1>3, OwnedLease DEF IInv, TypeOK
  <2>2. failures \in 0 .. MaxFailures /\ (failures = MaxFailures => state = "exception")
    BY Constants DEF IInv, TypeOK, Record, FailuresCounted, ClaimOf
  <2>3. state \in {"exception", "deferred"}
    OBVIOUS
  <2>4. work' = [work EXCEPT ![c.loc] = row]
    BY <1>3, <2>1 DEF Defer, IInv, TypeOK, WorkRow
  <2> HIDE DEF failures, state
  <2>5. /\ row \in WorkRow /\ row.state = state /\ row.failures = failures
        /\ row.lease = NoLease /\ row.version = work[c.loc].version
    BY <2>1, <2>2, <2>3, Constants DEF IInv, TypeOK, WorkRow
  <2> HIDE DEF row
  <2>6. TypeOK'
    BY <1>1, <2>1, <2>3, <2>4, <2>5, Constants DEF IInv, TypeOK
  <2>7. (CanariesVerified /\ ApplicationReceipted)'
    BY <2>1, <2>3, <2>4, <2>5
       DEF IInv, TypeOK, Record, CanariesVerified, ApplicationReceipted
  <2>8. (FailuresCounted /\ OutcomesRecorded)'
    BY <1>1, <2>1, <2>2, <2>3, <2>4, <2>5, Constants
       DEF IInv, TypeOK, Record, FailuresCounted, OutcomesRecorded, NoClaim
  <2>9. LeaseRemembered' /\ LeasesReached'
    BY <1>1, <2>1, <2>3, <2>4, <2>5, Constants
       DEF IInv, TypeOK, Record, LeaseRemembered, LeasesReached, NoClaim
  <2> QED BY <2>6, <2>7, <2>8, <2>9 DEF IInv, Record
<1> QED BY <1>2, <1>3

\* A verdict settles leased work: as protected, to be done again, observed or applied.
\* An application has its receipt at once.
Settles(w, row, p, a) ==
  LET l == worker[w].loc
  IN  /\ l \in Locations /\ work[l].state = "leased"
      /\ row \in WorkRow /\ p \in PlaceRow /\ a \in Application
      /\ row.state \in {"protected", "pending", "observed", "terminal"}
      /\ row.lease = NoLease /\ row.failures < MaxFailures
      /\ p.version >= place[l].version /\ row.version <= p.version
      /\ row.state = "terminal" <=> a.outcome \in {"corrected", "unresolved"}
      /\ a.outcome = "none" => a = NoReceipt
      /\ a.outcome = "protected" => row.state = "protected"
      /\ worker' = [worker EXCEPT ![w] = NoClaim]
      /\ work' = [work EXCEPT ![l] = row]
      /\ place' = [place EXCEPT ![l] = p]
      /\ receipt' = [receipt EXCEPT ![l].apply = a]
      /\ UNCHANGED <<control, lookups>>

LEMMA SettleIInv ==
  ASSUME IInv, NEW w \in Workers, NEW row, NEW p, NEW a, Settles(w, row, p, a)
  PROVE  IInv'
<1> DEFINE l == worker[w].loc
<1> USE DEF Settles
<1>1. [receipt[l] EXCEPT !.apply = a] \in ReceiptRow
  BY DEF IInv, TypeOK, ReceiptRow
<1>2. TypeOK'
  BY <1>1, Constants DEF IInv, TypeOK
<1>3. CanariesVerified'
  BY DEF IInv, TypeOK, Record, CanariesVerified
<1>4. (ApplicationReceipted /\ OutcomesRecorded)'
  BY DEF IInv, TypeOK, ReceiptRow, Record, ApplicationReceipted, OutcomesRecorded
<1>5. FailuresCounted'
  BY Constants DEF IInv, TypeOK, Record, FailuresCounted, NoClaim
<1>6. LeaseRemembered' /\ LeasesReached'
  BY Constants DEF IInv, TypeOK, Record, LeaseRemembered, LeasesReached, NoClaim
<1> QED BY <1>2, <1>3, <1>4, <1>5, <1>6 DEF IInv, Record

LEMMA FinishIInv ==
  ASSUME IInv, NEW w \in Workers, NEW r \in Results, Finish(w, r)
  PROVE  IInv'
<1> DEFINE c == worker[w]
           p == place[c.loc]
<1>1. /\ worker' = [worker EXCEPT ![w] = NoClaim] /\ UNCHANGED <<control, lookups>>
      /\ c.loc \in Locations
  BY DEF Finish, IInv, TypeOK
<1>2. CASE ~Owned(w) /\ UNCHANGED <<world, work>>
  BY <1>1, <1>2, ForgetIInv DEF world
<1>3. CASE Owned(w)
  <2>1. /\ work[c.loc].state = "leased" /\ c.mode = control.mode
        /\ control.mode \in {"observe", "apply"}
    BY <1>1, <1>3, OwnedLease
  <2>2. /\ work[c.loc] \in WorkRow /\ p \in PlaceRow /\ receipt[c.loc] \in ReceiptRow
        /\ work[c.loc].version <= p.version /\ work[c.loc].failures < MaxFailures
        /\ receipt[c.loc].apply = NoReceipt
    <3>1. receipt[c.loc].apply.outcome = "none"
      BY <1>1, <2>1 DEF IInv, TypeOK, Record, ApplicationReceipted, OutcomesRecorded,
                        ReceiptRow, Application
    <3>2. work[c.loc].failures \in 0 .. MaxFailures /\ work[c.loc].failures # MaxFailures
      BY <1>1, <2>1 DEF IInv, TypeOK, WorkRow, Record, FailuresCounted
    <3>3. receipt[c.loc].apply = NoReceipt
      BY <1>1, <3>1 DEF IInv, Record, OutcomesRecorded
    <3>4. work[c.loc].failures < MaxFailures
      BY <3>2, Constants
    <3> QED BY <1>1, <3>3, <3>4 DEF IInv, TypeOK
  <2>3. \A state \in {"protected", "pending", "observed", "terminal"} :
          /\ Settled(c.loc, state) \in WorkRow /\ Settled(c.loc, state).state = state
          /\ Settled(c.loc, state).lease = NoLease
          /\ Settled(c.loc, state).version = work[c.loc].version
          /\ Settled(c.loc, state).failures = work[c.loc].failures
    BY <2>2, Constants DEF Settled, WorkRow
  <2>4. \A outcome \in {"corrected", "unresolved", "protected"}, n \in Nat :
          /\ [outcome |-> outcome, pin |-> p.pin, version |-> n] \in Application
          /\ Receipted(c.loc, outcome, n) =
               [receipt EXCEPT ![c.loc].apply =
                  [outcome |-> outcome, pin |-> p.pin, version |-> n]]
    BY <1>1, <2>2 DEF Receipted, Application, PlaceRow, IInv, TypeOK
  <2>5. /\ receipt = [receipt EXCEPT ![c.loc].apply = NoReceipt]
        /\ place = [place EXCEPT ![c.loc] = p]
    BY <1>1, <2>2 DEF IInv, TypeOK, ReceiptRow
  <2>6. CASE FinishProtected(c)
    <3>1. work' = [work EXCEPT ![c.loc] = Settled(c.loc, "protected")] /\ place' = place
      BY <2>6 DEF FinishProtected
    <3>2. p.version \in Nat
      BY <2>2 DEF PlaceRow
    <3>3. CASE c.mode = "apply"
      <4>1. receipt' = Receipted(c.loc, "protected", p.version)
        BY <2>6, <3>3 DEF FinishProtected
      <4> DEFINE row == Settled(c.loc, "protected")
                 a == [outcome |-> "protected", pin |-> p.pin, version |-> p.version]
      <4>2. /\ row \in WorkRow /\ row.state = "protected" /\ row.lease = NoLease
            /\ row.version <= p.version /\ row.failures < MaxFailures
        BY <2>2, <2>3
      <4>3. a \in Application /\ a.outcome = "protected"
            /\ receipt' = [receipt EXCEPT ![c.loc].apply = a]
        BY <2>4, <3>2, <4>1
      <4>4. work' = [work EXCEPT ![c.loc] = row]
        BY <3>1
      <4> HIDE DEF row, a
      <4>5. /\ place' = [place EXCEPT ![c.loc] = p]
            /\ p.version >= place[c.loc].version /\ p \in PlaceRow
        BY <2>2, <2>5, <3>1, <3>2
      <4> HIDE DEF p
      <4>6. Settles(w, row, p, a)
        BY <1>1, <2>1, <4>2, <4>3, <4>4, <4>5 DEF Settles
      <4> QED BY <4>6, SettleIInv
    <3>4. CASE c.mode # "apply"
      <4>1. receipt' = receipt
        BY <2>6, <3>4 DEF FinishProtected
      <4>2. Settles(w, Settled(c.loc, "protected"), p, NoReceipt)
        BY <1>1, <2>1, <2>2, <2>3, <2>5, <3>1, <4>1, Constants
           DEF Settles, NoReceipt, PlaceRow
      <4> QED BY <4>2, SettleIInv
    <3> QED BY <3>3, <3>4
  <2>7. CASE FinishChanged(c)
    <3> DEFINE row == [Settled(c.loc, "pending") EXCEPT !.version = p.version]
    <3>1. work' = [work EXCEPT ![c.loc] = row] /\ place' = place /\ receipt' = receipt
      BY <2>7 DEF FinishChanged, world
    <3>2. /\ row \in WorkRow /\ row.state = "pending" /\ row.lease = NoLease
          /\ row.version = p.version /\ row.failures < MaxFailures
      BY <2>2, <2>3 DEF WorkRow, PlaceRow
    <3> HIDE DEF row
    <3>3. Settles(w, row, p, NoReceipt)
      BY <1>1, <2>1, <2>2, <2>5, <3>1, <3>2, Constants DEF Settles, NoReceipt, PlaceRow
    <3> QED BY <3>3, SettleIInv
  <2>8. CASE FinishObserved(c)
    <3> DEFINE row == [Settled(c.loc, "observed") EXCEPT !.failures = 0]
    <3>1. work' = [work EXCEPT ![c.loc] = row] /\ place' = place /\ receipt' = receipt
      BY <2>8 DEF FinishObserved, world
    <3>2. /\ row \in WorkRow /\ row.state = "observed" /\ row.lease = NoLease
          /\ row.version = work[c.loc].version /\ row.failures < MaxFailures
      BY <2>2, <2>3, Constants DEF WorkRow
    <3> HIDE DEF row
    <3>3. Settles(w, row, p, NoReceipt)
      BY <1>1, <2>1, <2>2, <2>5, <3>1, <3>2, Constants DEF Settles, NoReceipt, PlaceRow
    <3> QED BY <3>3, SettleIInv
  <2>9. CASE FinishApplied(c, r)
    <3> DEFINE row == [Settled(c.loc, "terminal") EXCEPT !.failures = 0]
               after == SelectInSession(p, r)
               outcome == IF r \in Selectable THEN "corrected" ELSE "unresolved"
    <3>1. /\ work' = [work EXCEPT ![c.loc] = row]
          /\ place' = [place EXCEPT ![c.loc] = after]
          /\ receipt' = Receipted(c.loc, outcome, after.version)
      BY <2>9 DEF FinishApplied
    <3>2. /\ row \in WorkRow /\ row.state = "terminal" /\ row.lease = NoLease
          /\ row.version = work[c.loc].version /\ row.failures < MaxFailures
      BY <2>2, <2>3, Constants DEF WorkRow
    <3>3. after \in PlaceRow /\ after.version >= p.version /\ after.version \in Nat
      BY <2>2, SelectionType DEF PlaceRow
    <3>4. outcome \in {"corrected", "unresolved"}
      OBVIOUS
    <3> HIDE DEF row, after, outcome
    <3>5. row.version <= after.version
      BY <2>2, <3>2, <3>3 DEF WorkRow, PlaceRow
    <3>6. Settles(w, row, after,
                  [outcome |-> outcome, pin |-> p.pin, version |-> after.version])
      BY <1>1, <2>1, <2>2, <2>4, <3>1, <3>2, <3>3, <3>4, <3>5 DEF Settles
    <3> QED BY <3>6, SettleIInv
  <2> QED BY <1>3, <2>6, <2>7, <2>8, <2>9 DEF Finish
<1> QED BY <1>2, <1>3 DEF Finish
-----------------------------------------------------------------------------
\* Points that others select are points of a later version; validation is where it was.
LEMMA PlacesIInv ==
  ASSUME IInv, place' \in [Locations -> PlaceRow],
         \A l \in Locations : place'[l].version >= place[l].version,
         lookups' \subseteq Locations,
         UNCHANGED <<receipt, control, work, worker>>
  PROVE  IInv'
<1>1. TypeOK'
  BY DEF IInv, TypeOK, WorkRow, PlaceRow
<1>2. Record'
  BY DEF IInv, Record, CanariesVerified, ApplicationReceipted, FailuresCounted,
         OutcomesRecorded, LeaseRemembered, LeasesReached
<1> QED BY <1>1, <1>2 DEF IInv

LEMMA LookupIInv ==
  ASSUME IInv, NEW l \in Locations,
         \/ StartLookup(l) \/ DropLookup(l) \/ Decide(l)
         \/ \E r \in Results : FinishLookup(l, r)
  PROVE  IInv'
<1>1. CASE StartLookup(l) \/ DropLookup(l)
  BY <1>1, PlacesIInv DEF StartLookup, DropLookup, world, IInv, TypeOK, PlaceRow
<1>2. ASSUME NEW r \in Results, FinishLookup(l, r) PROVE IInv'
  <2>1. place[l] \in PlaceRow
    BY DEF IInv, TypeOK
  <2>2. /\ SelectInSession(place[l], r) \in PlaceRow
        /\ SelectInSession(place[l], r).version >= place[l].version
    BY <2>1, SelectionType
  <2>3. place' = [place EXCEPT ![l] = SelectInSession(place[l], r)]
    BY <1>2 DEF FinishLookup
  <2>4. /\ place' \in [Locations -> PlaceRow]
        /\ \A k \in Locations : place'[k].version >= place[k].version
    BY <2>2, <2>3 DEF IInv, TypeOK, PlaceRow
  <2> QED BY <1>2, <2>4, PlacesIInv DEF FinishLookup, IInv, TypeOK
<1>3. CASE Decide(l)
  <2>1. place[l] \in PlaceRow
    BY DEF IInv, TypeOK
  <2>2. PICK p \in OwnerDecisions(place[l]) : place' = [place EXCEPT ![l] = p]
    BY <1>3 DEF Decide
  <2>3. p \in PlaceRow /\ p.version = place[l].version + 1
    BY <2>1, DecisionType
  <2>4. /\ place' \in [Locations -> PlaceRow]
        /\ \A k \in Locations : place'[k].version >= place[k].version
    BY <2>1, <2>2, <2>3 DEF IInv, TypeOK, PlaceRow
  <2> QED BY <1>3, <2>4, PlacesIInv DEF Decide, IInv, TypeOK
<1> QED BY <1>1, <1>2, <1>3

\* A command sets a mode other than the first, begins the canaries anew and revokes
\* every lease.
LEMMA ModeIInv ==
  ASSUME IInv, NEW mode \in {"off", "observe", "apply"}, NEW ids \in SUBSET Locations,
         SetMode(mode, ids),
         NEW works \in [Locations -> WorkRow], work' = Revoked(works),
         \A l \in Locations :
           \/ works[l] = work[l]
           \/ /\ work[l] = NoWork
              /\ works[l].state \in {"pending", "protected"}
              /\ works[l].failures = 0 /\ works[l].lease = NoLease
              /\ works[l].version = place[l].version,
         UNCHANGED <<place, receipt, worker, lookups>>
  PROVE  IInv'
<1>1. control' \in ControlRow /\ control'.verified = FALSE
  <2>1. control \in ControlRow
    BY DEF IInv, TypeOK
  <2> DEFINE cs == IF mode = "off" THEN control.canaries ELSE ids
  <2>2. /\ cs \in SUBSET Locations
        /\ control' = [control EXCEPT !.mode = mode, !.verified = FALSE, !.canaries = cs]
    BY <2>1 DEF SetMode, ControlRow
  <2> HIDE DEF cs
  <2> QED BY <2>1, <2>2 DEF ControlRow, Modes
<1>2. /\ work' \in [Locations -> WorkRow]
      /\ \A l \in Locations :
           /\ works[l].state # "leased" => work'[l] = works[l]
           /\ works[l].state = "leased" =>
                /\ work'[l].state = "deferred" /\ work'[l].lease = NoLease
                /\ work'[l].version = works[l].version
                /\ work'[l].failures = works[l].failures
  BY RevokedTypes
<1>3. \A l \in Locations :
        \/ work'[l] = work[l] /\ work[l].state # "leased"
        \/ /\ work[l].state = "leased" /\ work'[l].state = "deferred"
           /\ work'[l].lease = NoLease /\ work'[l].version = work[l].version
           /\ work'[l].failures = work[l].failures
        \/ /\ work[l] = NoWork /\ work'[l].state \in {"pending", "protected"}
           /\ work'[l].failures = 0 /\ work'[l].lease = NoLease
           /\ work'[l].version = place[l].version
  BY <1>2 DEF NoWork
<1>4. TypeOK'
  BY <1>1, <1>2, <1>3 DEF IInv, TypeOK, PlaceRow
<1>5. (CanariesVerified /\ ApplicationReceipted)'
  BY <1>1, <1>3 DEF IInv, Record, CanariesVerified, ApplicationReceipted, NoWork
<1>6. (FailuresCounted /\ OutcomesRecorded)'
  BY <1>3, Constants DEF IInv, Record, FailuresCounted, OutcomesRecorded, NoWork
<1>7. (LeaseRemembered /\ LeasesReached)'
  BY <1>3 DEF IInv, Record, LeaseRemembered, LeasesReached, NoWork
<1> QED BY <1>4, <1>5, <1>6, <1>7 DEF IInv, Record

LEMMA CommandIInv ==
  ASSUME IInv, NEW ids \in SUBSET Locations, Observe(ids) \/ Apply(ids) \/ SwitchOff
  PROVE  IInv'
<1>1. work \in [Locations -> WorkRow]
  BY DEF IInv, TypeOK
<1>2. CASE Observe(ids)
  <2>1. /\ SetMode("observe", ids) /\ work' = Revoked(Enqueue(ids))
        /\ UNCHANGED <<place, receipt, worker, lookups>>
    BY <1>2 DEF Observe, world
  <2>2. TypeOK
    BY DEF IInv
  <2> QED BY <2>1, <2>2, EnqueueTypes, ModeIInv
<1>3. CASE Apply(ids)
  BY <1>1, <1>3, ModeIInv DEF Apply, world
<1>4. CASE SwitchOff
  <2>1. /\ SetMode("off", {}) /\ work' = Revoked(work)
        /\ UNCHANGED <<place, receipt, worker, lookups>>
    BY <1>4 DEF SwitchOff, world
  <2> QED BY <1>1, <2>1, ModeIInv
<1> QED BY <1>2, <1>3, <1>4

LEMMA VerifyIInv ==
  ASSUME IInv, VerifyCanary
  PROVE  IInv'
<1>1. /\ control' = [control EXCEPT !.verified = TRUE]
      /\ control.verified \/ \A l \in control.canaries : CanaryDone(l)
      /\ UNCHANGED <<place, receipt, work, worker, lookups>>
  BY DEF VerifyCanary, world
<1>2. /\ control' \in ControlRow /\ control'.verified
      /\ control'.canaries = control.canaries /\ control.canaries \subseteq Locations
  BY <1>1 DEF IInv, TypeOK, ControlRow
<1>3. TypeOK'
  BY <1>1, <1>2 DEF IInv, TypeOK
<1>4. CanariesVerified'
  BY <1>1, <1>2 DEF IInv, Record, CanariesVerified, CanaryDone
<1>5. (ApplicationReceipted /\ FailuresCounted /\ OutcomesRecorded /\ LeaseRemembered
       /\ LeasesReached)'
  BY <1>1, <1>2 DEF IInv, Record, ApplicationReceipted, FailuresCounted, OutcomesRecorded,
                    LeaseRemembered, LeasesReached
<1> QED BY <1>3, <1>4, <1>5 DEF IInv, Record

\* A rollback leaves the applications on record.
LEMMA RestoreIInv ==
  ASSUME IInv, Restore
  PROVE  IInv'
<1>1. UNCHANGED <<control, work, worker, lookups>>
  BY DEF Restore
<1>2. \A l \in Locations :
        Restorable(l) =>
          /\ Selection(place[l], receipt[l].apply.pin) \in PlaceRow
          /\ Selection(place[l], receipt[l].apply.pin).version >= place[l].version
  BY SelectionType, Constants DEF Restorable, IInv, TypeOK, PlaceRow
<1>3. /\ place' \in [Locations -> PlaceRow]
      /\ \A l \in Locations : place'[l].version >= place[l].version
  <2>1. /\ place \in [Locations -> PlaceRow]
        /\ \A l \in Locations : place[l].version >= place[l].version
    BY DEF IInv, TypeOK, PlaceRow
  <2>2. \/ UNCHANGED world
        \/ place' = [l \in Locations |->
             IF l \in Corrected /\ Restorable(l)
               THEN Selection(place[l], receipt[l].apply.pin) ELSE place[l]]
    BY DEF Restore
  <2> QED BY <1>2, <2>1, <2>2 DEF world
<1>4. /\ receipt' \in [Locations -> ReceiptRow]
      /\ \A l \in Locations : receipt'[l].apply = receipt[l].apply
  <2>1. \A l \in Locations, b \in {"restored", "retained"} :
          /\ [receipt[l] EXCEPT !.rollback = b] \in ReceiptRow
          /\ [receipt[l] EXCEPT !.rollback = b].apply = receipt[l].apply
    BY DEF IInv, TypeOK, ReceiptRow
  <2> QED BY <2>1 DEF Restore, world, IInv, TypeOK
<1>5. TypeOK'
  BY <1>1, <1>3, <1>4 DEF IInv, TypeOK, WorkRow, PlaceRow
<1>6. Record'
  BY <1>1, <1>4 DEF IInv, Record, CanariesVerified, ApplicationReceipted, FailuresCounted,
                    OutcomesRecorded, LeaseRemembered, LeasesReached
<1> QED BY <1>5, <1>6 DEF IInv

\* A lease that ran out is still the lease of its work.
LEMMA LapseIInv ==
  ASSUME IInv, NEW l \in Locations, Lapse(l)
  PROVE  IInv'
<1> DEFINE row == [work[l] EXCEPT !.lease.live = FALSE]
<1>1. work' = [work EXCEPT ![l] = row] /\ work[l].state = "leased"
      /\ UNCHANGED <<place, receipt, control, worker, lookups>>
  BY DEF Lapse, world, IInv, TypeOK
<1>2. work[l].lease \in LeaseOf /\ work[l].lease # NoLease /\ work[l].lease.live
  BY <1>1 DEF Lapse, IInv, TypeOK, WorkRow
<1>3. /\ row \in WorkRow /\ row.state = "leased" /\ row.version = work[l].version
      /\ row.failures = work[l].failures /\ row.lease.mode = work[l].lease.mode
      /\ row.lease.holder = work[l].lease.holder
  BY <1>1, <1>2 DEF IInv, TypeOK, WorkRow, LeaseOf
<1>4. row.lease # NoLease
  BY <1>1, <1>3 DEF IInv, Record, LeasesReached, NoLease
<1> HIDE DEF row
<1>5. TypeOK'
  BY <1>1, <1>3, <1>4 DEF IInv, TypeOK
<1>6. (CanariesVerified /\ ApplicationReceipted)'
  BY <1>1, <1>3 DEF IInv, TypeOK, Record, CanariesVerified, ApplicationReceipted
<1>7. (FailuresCounted /\ OutcomesRecorded)'
  BY <1>1, <1>3 DEF IInv, TypeOK, Record, FailuresCounted, OutcomesRecorded
<1>8. (LeaseRemembered /\ LeasesReached)'
  BY <1>1, <1>3 DEF IInv, TypeOK, Record, LeaseRemembered, LeasesReached
<1> QED BY <1>5, <1>6, <1>7, <1>8 DEF IInv, Record

LEMMA StepIInv == IInv /\ [Next]_vars => IInv'
<1> SUFFICES ASSUME IInv, [Next]_vars PROVE IInv'
  OBVIOUS
<1>1. ASSUME NEW w \in Workers, WorkerNext(w) PROVE IInv'
  <2>1. CASE LoseClaim(w) \/ Crash(w)
    BY <2>1, ForgetIInv DEF LoseClaim, Crash, world
  <2>2. CASE Fail(w)
    BY <2>2, DeferIInv DEF Fail, world
  <2> QED BY <1>1, <2>1, <2>2, DiscoverIInv, ClaimIInv, FinishIInv DEF WorkerNext
<1>2. ASSUME NEW l \in Locations,
             \/ StartLookup(l) \/ DropLookup(l) \/ Decide(l) \/ Lapse(l)
             \/ \E r \in Results : FinishLookup(l, r)
      PROVE  IInv'
  BY <1>2, LookupIInv, LapseIInv
<1>3. ASSUME NEW ids \in SUBSET Locations, Observe(ids) \/ Apply(ids) PROVE IInv'
  BY <1>3, CommandIInv
<1>4. CASE SwitchOff
  BY <1>4, CommandIInv
<1>5. CASE UNCHANGED vars \/ \E ids \in SUBSET Locations : CheckCanaries(ids)
  <2>1. UNCHANGED <<place, receipt, control, work, worker, lookups>>
    BY <1>5 DEF vars, world, CheckCanaries
  <2> QED BY <2>1 DEF IInv, TypeOK, Record, CanariesVerified, ApplicationReceipted,
                      FailuresCounted, OutcomesRecorded, LeaseRemembered, LeasesReached
<1> QED
  BY <1>1, <1>2, <1>3, <1>4, <1>5, VerifyIInv, RestoreIInv DEF Next

-----------------------------------------------------------------------------
\* The rollout is at no point ahead of its canaries, and what it applied is on record,
\* with any number of locations, workers, commands and upsets.
THEOREM RolloutHolds == Spec => []RolloutInv
<1>1. IInv => RolloutInv
  BY DEF IInv, Record, RolloutInv
<1> QED BY <1>1, InitIInv, StepIInv, PTL DEF Spec

-----------------------------------------------------------------------------
Reached ==
  \A l \in Locations :
    receipt'[l].apply # receipt[l].apply =>
      control.mode = "apply" /\ (control.verified \/ l \in control.canaries)

Yielded ==
  \A l \in Locations : place'[l] # place[l] =>
    /\ place[l].actor = "owner" => place'[l].actor = "owner"
    /\ receipt'[l].apply # receipt[l].apply =>
         \E w \in Workers : worker[w].loc = l /\ worker[w].version = place[l].version
    /\ receipt'[l].rollback # receipt[l].rollback =>
         place[l].version = receipt[l].apply.version
         /\ place'[l].pin = receipt[l].apply.pin

\* A verdict changes the one location of the claim, and its selection only if it is
\* the one the lookup began with.
LEMMA FinishChanges ==
  ASSUME IInv, NEW w \in Workers, NEW r \in Results, Finish(w, r)
  PROVE  Reached /\ Yielded
<1> DEFINE c == worker[w]
<1>1. CASE UNCHANGED world
  BY <1>1 DEF world, Reached, Yielded
<1>2. CASE ~(UNCHANGED world)
  <2>1. Owned(w) /\ (FinishProtected(c) \/ FinishApplied(c, r)) /\ c.loc \in Locations
    BY <1>2 DEF Finish, FinishChanged, FinishObserved, world, IInv, TypeOK
  <2>2. /\ c.mode = control.mode
        /\ control.mode = "apply" => control.verified \/ c.loc \in control.canaries
    BY <2>1, OwnedLease
  <2>3. c.mode = "apply"
    BY <1>2, <2>1 DEF FinishProtected, FinishApplied, world
  <2>4. \A outcome, n : \A l \in Locations :
          /\ Receipted(c.loc, outcome, n)[l].rollback = receipt[l].rollback
          /\ l # c.loc => Receipted(c.loc, outcome, n)[l] = receipt[l]
    BY DEF Receipted, IInv, TypeOK, ReceiptRow
  <2>5. \A l \in Locations : /\ receipt'[l].rollback = receipt[l].rollback
                             /\ l # c.loc => receipt'[l] = receipt[l]
    BY <2>1, <2>4 DEF FinishProtected, FinishApplied
  <2>6. \A l \in Locations :
          place'[l] # place[l] => /\ l = c.loc /\ c.version = place[l].version
                                  /\ place[l].actor # "owner"
    BY <2>1 DEF FinishProtected, FinishApplied, Protected, IInv, TypeOK
  <2> QED BY <2>2, <2>3, <2>5, <2>6 DEF Reached, Yielded
<1> QED BY <1>1, <1>2

\* A rollback takes back what is as the correction left it.
LEMMA RestoreChanges ==
  ASSUME IInv, Restore
  PROVE  Reached /\ Yielded
<1>1. CASE UNCHANGED world
  BY <1>1 DEF world, Reached, Yielded
<1>2. CASE ~(UNCHANGED world)
  <2>1. /\ place' = [l \in Locations |->
             IF l \in Corrected /\ Restorable(l)
               THEN Selection(place[l], receipt[l].apply.pin) ELSE place[l]]
        /\ receipt' = [l \in Locations |->
             IF l \notin Corrected THEN receipt[l]
             ELSE [receipt[l] EXCEPT !.rollback =
                     IF Restorable(l) THEN "restored" ELSE "retained"]]
    BY <1>2 DEF Restore
  <2>2. \A l \in Locations : receipt'[l].apply = receipt[l].apply
    BY <2>1 DEF IInv, TypeOK, ReceiptRow
  <2>3. \A l \in Locations : Restorable(l) =>
          /\ place[l].actor # "owner" /\ place[l].version = receipt[l].apply.version
          /\ Selection(place[l], receipt[l].apply.pin).pin = receipt[l].apply.pin
    BY DEF Restorable, Untouched, Protected, Selection
  <2>4. \A l \in Locations : place'[l] # place[l] =>
          Restorable(l) /\ place'[l] = Selection(place[l], receipt[l].apply.pin)
    BY <2>1 DEF IInv, TypeOK
  <2> QED BY <2>2, <2>3, <2>4 DEF Reached, Yielded
<1> QED BY <1>1, <1>2

LEMMA StepChanges == IInv /\ [Next]_vars => Reached /\ Yielded
<1> SUFFICES ASSUME IInv, [Next]_vars PROVE Reached /\ Yielded
  OBVIOUS
<1>1. CASE UNCHANGED world
  BY <1>1 DEF world, Reached, Yielded
<1>2. ASSUME NEW w \in Workers, WorkerNext(w) PROVE Reached /\ Yielded
  <2>1. CASE \E r \in Results : Finish(w, r)
    BY <2>1, FinishChanges
  <2>2. CASE \/ Discover(w) \/ \E l \in Locations : Claim(w, l)
             \/ LoseClaim(w) \/ Fail(w) \/ Crash(w)
    BY <1>1, <2>2 DEF Discover, Claim, LoseClaim, Fail, Crash
  <2> QED BY <1>2, <2>1, <2>2 DEF WorkerNext
<1>3. ASSUME NEW l \in Locations, NEW r \in Results, FinishLookup(l, r)
      PROVE  Reached /\ Yielded
  BY <1>3 DEF FinishLookup, SelectInSession, Protected, Reached, Yielded, IInv, TypeOK
<1>4. ASSUME NEW l \in Locations, Decide(l) PROVE Reached /\ Yielded
  <2>1. PICK p \in OwnerDecisions(place[l]) : place' = [place EXCEPT ![l] = p]
    BY <1>4 DEF Decide
  <2>2. p.actor = "owner"
    BY <2>1, DecisionType DEF IInv, TypeOK
  <2> QED BY <1>4, <2>1, <2>2 DEF Decide, Reached, Yielded, IInv, TypeOK
<1>5. CASE Restore
  BY <1>5, RestoreChanges
<1>6. ASSUME NEW l \in Locations, StartLookup(l) \/ DropLookup(l) \/ Lapse(l)
      PROVE  Reached /\ Yielded
  BY <1>1, <1>6 DEF StartLookup, DropLookup, Lapse
<1>7. ASSUME NEW ids \in SUBSET Locations, Observe(ids) \/ Apply(ids)
      PROVE  Reached /\ Yielded
  BY <1>1, <1>7 DEF Observe, Apply
<1>8. CASE \/ SwitchOff \/ VerifyCanary \/ UNCHANGED vars
           \/ \E ids \in SUBSET Locations : CheckCanaries(ids)
  BY <1>1, <1>8 DEF SwitchOff, VerifyCanary, CheckCanaries, vars
<1> QED
  BY <1>2, <1>3, <1>4, <1>5, <1>6, <1>7, <1>8 DEF Next

\* Validation writes outside the canaries only after they were verified, however many
\* workers answer late.
THEOREM CanariesComeFirst == Spec => CanariesBeforeRest
<1>1. IInv /\ [Next]_vars => [Reached]_vars
  BY StepChanges
<1>2. Spec => [][Reached]_vars
  BY <1>1, InitIInv, StepIInv, PTL DEF Spec
<1> QED
  BY <1>2 DEF CanariesBeforeRest, Reached

\* Neither a correction nor a rollback touches a selection that came in between, and
\* the owner's is changed by the owner alone.
THEOREM OwnerPrevails == Spec => AutomationYields
<1>1. IInv /\ [Next]_vars => [Yielded]_vars
  BY StepChanges
<1>2. Spec => [][Yielded]_vars
  BY <1>1, InitIInv, StepIInv, PTL DEF Spec
<1> QED
  BY <1>2 DEF AutomationYields, Yielded

-----------------------------------------------------------------------------
(***************************************************************************)
(* The work as a fenced lease: what a row has recorded, the token it has   *)
(* to be settled with, and what a worker believes to hold.                 *)
(***************************************************************************)
RecordOf(l) ==
  IF work[l].state \in {"terminal", "protected", "exception"} THEN work[l] ELSE NoWork
TokenOf(l) ==
  IF work[l].state = "leased" /\ work[l].lease.live THEN {work[l].lease.holder} ELSE {}
Holding(w) == [item |-> worker[w].loc, token |-> IF worker[w] = NoClaim THEN {} ELSE {w}]

Recorded == [l \in Locations |-> RecordOf(l)]
Tokens == [l \in Locations |-> TokenOf(l)]
Holdings == [w \in Workers |-> Holding(w)]
leaseVars == <<Recorded, Tokens, Holdings>>

NothingElse(l, w) ==
  /\ \A j \in Locations \ {l} : RecordOf(j)' = RecordOf(j) /\ TokenOf(j)' = TokenOf(j)
  /\ \A v \in Workers \ {w} : Holding(v)' = Holding(v)

\* The steps of a lease, from what they do to the one item and the one worker.
LEMMA ClaimMaps ==
  ASSUME NEW w \in Workers, NEW l \in Locations, NothingElse(l, w),
         Holding(w) = Fence!Idle, RecordOf(l) = NoWork, RecordOf(l)' = NoWork,
         TokenOf(l)' # {}, \A v \in Workers : Holding(v) # [item |-> l, token |-> TokenOf(l)'],
         Holding(w)' = [item |-> l, token |-> TokenOf(l)']
  PROVE  Fence!Next
<1>1. /\ Holdings[w] = Fence!Idle /\ Recorded[l] = NoWork
      /\ \A v \in Workers : Holdings[v] # [item |-> l, token |-> Tokens'[l]]
      /\ Tokens'[l] # {}
  BY DEF Holdings, Recorded, Tokens
<1>2. Tokens' = [Tokens EXCEPT ![l] = Tokens'[l]]
  BY DEF Tokens, NothingElse
<1>3. Holdings' = [Holdings EXCEPT ![w] = [item |-> l, token |-> Tokens'[l]]]
  BY DEF Holdings, Tokens, NothingElse
<1>4. Recorded' = Recorded
  BY DEF Recorded, NothingElse
<1> QED BY <1>1, <1>2, <1>3, <1>4
        DEF Fence!Next, Fence!Claim, Holdings, Recorded, Tokens, Holding, RecordOf, TokenOf

LEMMA FinishMaps ==
  ASSUME NEW w \in Workers, NEW l \in Locations, NothingElse(l, w),
         TokenOf(l) # {}, Holding(w) = [item |-> l, token |-> TokenOf(l)],
         RecordOf(l) = NoWork, TokenOf(l)' = {}, Holding(w)' = Fence!Idle
  PROVE  Fence!Next
<1>1. /\ Tokens[l] # {} /\ Holdings[w] = [item |-> l, token |-> Tokens[l]]
      /\ Recorded[l] = NoWork
  BY DEF Holdings, Recorded, Tokens
<1>2. Tokens' = [Tokens EXCEPT ![l] = {}]
  BY DEF Tokens, NothingElse
<1>3. Holdings' = [Holdings EXCEPT ![w] = Fence!Idle]
  BY DEF Holdings, NothingElse
<1>4. Recorded' = [Recorded EXCEPT ![l] = Recorded'[l]]
  BY DEF Recorded, NothingElse
<1> QED BY <1>1, <1>2, <1>3, <1>4
        DEF Fence!Next, Fence!Finish, Holdings, Recorded, Tokens, Holding, RecordOf, TokenOf

LEMMA AbandonMaps ==
  ASSUME NEW w \in Workers, Holding(w)' = Fence!Idle,
         \A v \in Workers \ {w} : Holding(v)' = Holding(v),
         \A l \in Locations : RecordOf(l)' = RecordOf(l) /\ TokenOf(l)' = TokenOf(l)
  PROVE  Fence!Next
<1>1. Holdings' = [Holdings EXCEPT ![w] = Fence!Idle]
  BY DEF Holdings
<1>2. Recorded' = Recorded /\ Tokens' = Tokens
  BY DEF Recorded, Tokens
<1> QED BY <1>1, <1>2
        DEF Fence!Next, Fence!Abandon, Holdings, Recorded, Tokens, Holding, RecordOf, TokenOf

LEMMA ArrangeMaps ==
  ASSUME \A w \in Workers : Holding(w)' = Holding(w),
         \A l \in Locations : TokenOf(l)' \in {{}, TokenOf(l)},
         \A l \in Locations : RecordOf(l) # NoWork \/ TokenOf(l) # {} => RecordOf(l)' = RecordOf(l)
  PROVE  Fence!Next
<1> DEFINE R == {l \in Locations : TokenOf(l)' = {}}
<1>1. R \in SUBSET Locations /\ \A l \in Locations : TokenOf(l)' = IF l \in R THEN {} ELSE TokenOf(l)
  OBVIOUS
<1> HIDE DEF R
<1> QED BY <1>1 DEF Fence!Next, Fence!Arrange, RecordOf, TokenOf, Holding

\* A step is no step of the lease when it touches neither what is recorded, nor a live
\* lease, nor a claim.
LEMMA LeaseUntouched ==
  ASSUME \A l \in Locations : RecordOf(l)' = RecordOf(l) /\ TokenOf(l)' = TokenOf(l),
         \A w \in Workers : Holding(w)' = Holding(w)
  PROVE  UNCHANGED leaseVars
BY DEF leaseVars, Recorded, Tokens, Holdings

\* A worker without a claim holds nothing.
LEMMA ForgetMaps ==
  ASSUME IInv, NEW w \in Workers, worker' = [worker EXCEPT ![w] = NoClaim]
  PROVE  Holding(w)' = Fence!Idle /\ \A v \in Workers \ {w} : Holding(v)' = Holding(v)
<1>1. worker'[w] = NoClaim /\ \A v \in Workers \ {w} : worker'[v] = worker[v]
  BY DEF IInv, TypeOK
<1>2. NoClaim.loc = 0
  BY DEF NoClaim
<1> QED BY <1>1, <1>2 DEF Holding, Fence!Idle

\* Lookups, decisions, verified canaries and rollbacks touch no lease.
LEMMA OutsideMaps ==
  ASSUME UNCHANGED <<work, worker>>
  PROVE  UNCHANGED leaseVars
BY LeaseUntouched DEF RecordOf, TokenOf, Holding

\* The queue is rearranged by the scan, by the operator and by time: rows that were
\* settled stay, and no lease is given.
LEMMA RearrangeMaps ==
  ASSUME IInv, UNCHANGED worker,
         \A l \in Locations :
           \/ work'[l] = work[l]
           \/ work[l] = NoWork /\ work'[l].state \in {"pending", "protected", "deferred"}
           \/ work[l].state = "leased" /\ work'[l].state = "deferred"
           \/ work[l].state = "leased" /\ work'[l] = [work[l] EXCEPT !.lease.live = FALSE]
  PROVE  Fence!Next
<1>1. \A w \in Workers : Holding(w)' = Holding(w)
  BY DEF Holding
<1>2. ASSUME NEW l \in Locations
      PROVE  /\ TokenOf(l)' \in {{}, TokenOf(l)}
             /\ RecordOf(l) # NoWork \/ TokenOf(l) # {} => RecordOf(l)' = RecordOf(l)
  <2>1. CASE work'[l] = work[l]
    BY <2>1 DEF TokenOf, RecordOf
  <2>2. CASE work[l] = NoWork /\ work'[l].state \in {"pending", "protected", "deferred"}
    <3>1. work[l].state = "none"
      BY <2>2 DEF NoWork
    <3> QED BY <2>2, <3>1 DEF TokenOf, RecordOf
  <2>3. CASE work[l].state = "leased" /\ work'[l].state = "deferred"
    BY <2>3 DEF TokenOf, RecordOf
  <2>4. CASE work[l].state = "leased" /\ work'[l] = [work[l] EXCEPT !.lease.live = FALSE]
    <3>1. work'[l].state = "leased" /\ work'[l].lease.live = FALSE
      BY <2>4 DEF IInv, TypeOK, WorkRow, LeaseOf
    <3> QED BY <2>4, <3>1 DEF TokenOf, RecordOf
  <2> QED BY <1>2, <2>1, <2>2, <2>3, <2>4
<1> QED BY <1>1, <1>2, ArrangeMaps

LEMMA QueueMaps ==
  ASSUME IInv,
         \/ \E w \in Workers : Discover(w)
         \/ \E l \in Locations : Lapse(l)
         \/ \E ids \in SUBSET Locations : Observe(ids) \/ Apply(ids)
         \/ SwitchOff
  PROVE  Fence!Next
<1>0. TypeOK /\ work \in [Locations -> WorkRow] /\ NoWork.state = "none"
  BY DEF IInv, TypeOK, NoWork
<1>1. CASE \E w \in Workers : Discover(w)
  <2>1. UNCHANGED worker /\ \E ls : work' = Enqueue(ls)
    BY <1>1 DEF Discover
  <2> QED BY <1>0, <2>1, EnqueueTypes, RearrangeMaps
<1>2. ASSUME NEW l \in Locations, Lapse(l) PROVE Fence!Next
  <2>1. /\ UNCHANGED worker /\ work[l].state = "leased"
        /\ work' = [work EXCEPT ![l].lease.live = FALSE]
    BY <1>2 DEF Lapse
  <2>2. /\ work'[l] = [work[l] EXCEPT !.lease.live = FALSE]
        /\ \A k \in Locations \ {l} : work'[k] = work[k]
    BY <1>0, <2>1
  <2> QED BY <2>1, <2>2, RearrangeMaps
<1>3. ASSUME NEW ids \in SUBSET Locations, Observe(ids) PROVE Fence!Next
  <2>1. UNCHANGED worker /\ work' = Revoked(Enqueue(ids))
    BY <1>3 DEF Observe
  <2>2. /\ Enqueue(ids) \in [Locations -> WorkRow]
        /\ \A l \in Locations :
             \/ Enqueue(ids)[l] = work[l]
             \/ work[l] = NoWork /\ Enqueue(ids)[l].state \in {"pending", "protected"}
    BY <1>0, EnqueueTypes
  <2>3. \A l \in Locations :
          /\ Enqueue(ids)[l].state # "leased" => work'[l] = Enqueue(ids)[l]
          /\ Enqueue(ids)[l].state = "leased" => work'[l].state = "deferred"
    BY <2>1, <2>2, RevokedTypes
  <2> QED BY <2>1, <2>2, <2>3, RearrangeMaps
<1>4. CASE SwitchOff \/ \E ids \in SUBSET Locations : Apply(ids)
  <2>1. UNCHANGED worker /\ work' = Revoked(work)
    BY <1>4 DEF SwitchOff, Apply
  <2>2. \A l \in Locations :
          /\ work[l].state # "leased" => work'[l] = work[l]
          /\ work[l].state = "leased" => work'[l].state = "deferred"
    BY <1>0, <2>1, RevokedTypes
  <2> QED BY <2>1, <2>2, RearrangeMaps
<1> QED BY <1>1, <1>2, <1>3, <1>4

\* A claim takes a lease.
LEMMA ClaimsMap ==
  ASSUME IInv, NEW w \in Workers, NEW l \in Locations, Claim(w, l)
  PROVE  Fence!Next
<1> DEFINE claim == [loc |-> l, version |-> work[l].version, mode |-> control.mode,
                     failures |-> work[l].failures]
           row == [work[l] EXCEPT !.state = "leased",
                     !.lease = [holder |-> w, mode |-> control.mode, live |-> TRUE]]
<1>1. /\ worker[w] = NoClaim /\ Claimable(l)
      /\ worker' = [worker EXCEPT ![w] = claim]
  BY DEF Claim
<1>2. work' = [work EXCEPT ![l] = row]
  BY DEF Claim, IInv, TypeOK
<1>3. row.state = "leased" /\ row.lease.live /\ row.lease.holder = w
  BY DEF IInv, TypeOK, WorkRow
<1>4. claim.loc = l /\ claim # NoClaim /\ NoClaim.loc = 0
  BY Constants DEF NoClaim
<1> HIDE DEF row, claim
<1>5. /\ work'[l] = row /\ \A k \in Locations \ {l} : work'[k] = work[k]
      /\ worker'[w] = claim /\ \A v \in Workers \ {w} : worker'[v] = worker[v]
  BY <1>1, <1>2 DEF IInv, TypeOK
<1>6. TokenOf(l)' = {w} /\ RecordOf(l)' = NoWork
  BY <1>3, <1>5 DEF TokenOf, RecordOf
<1>7. RecordOf(l) = NoWork
  BY <1>1 DEF Claimable, RecordOf
<1>8. Holding(w) = Fence!Idle /\ Holding(w)' = [item |-> l, token |-> {w}]
  BY <1>1, <1>4, <1>5 DEF Holding, Fence!Idle
<1>9. NothingElse(l, w)
  BY <1>5 DEF NothingElse, RecordOf, TokenOf, Holding
<1>10. \A v \in Workers : Holding(v) # [item |-> l, token |-> {w}]
  <2>1. Holding(w).token = {}
    BY <1>8 DEF Fence!Idle
  <2>2. \A v \in Workers \ {w} : Holding(v).token # {w}
    BY DEF Holding
  <2> QED BY <2>1, <2>2
<1> QED BY <1>6, <1>7, <1>8, <1>9, <1>10, ClaimMaps

\* A worker leaves its claim: the owner settles its row or gives it back, the others
\* leave no trace.
LEMMA EndsMap ==
  ASSUME IInv, NEW w \in Workers, worker[w] # NoClaim,
         worker' = [worker EXCEPT ![w] = NoClaim],
         \/ UNCHANGED work
         \/ /\ Owned(w) /\ work'[worker[w].loc].state # "leased"
            /\ \A k \in Locations \ {worker[w].loc} : work'[k] = work[k]
  PROVE  Fence!Next
<1>1. PICK l \in Locations : l = worker[w].loc
  BY DEF IInv, TypeOK
<1>2. Holding(w)' = Fence!Idle /\ \A v \in Workers \ {w} : Holding(v)' = Holding(v)
  BY ForgetMaps
<1>3. CASE UNCHANGED work
  BY <1>2, <1>3, AbandonMaps DEF RecordOf, TokenOf
<1>4. CASE /\ Owned(w) /\ work'[l].state # "leased"
           /\ \A k \in Locations \ {l} : work'[k] = work[k]
  <2>1. /\ TokenOf(l) = {w} /\ RecordOf(l) = NoWork
        /\ Holding(w) = [item |-> l, token |-> {w}]
    BY <1>1, <1>4 DEF Owned, TokenOf, RecordOf, Holding
  <2>2. NothingElse(l, w)
    BY <1>2, <1>4 DEF NothingElse, RecordOf, TokenOf
  <2>3. TokenOf(l)' = {}
    BY <1>4 DEF TokenOf
  <2> QED BY <1>2, <2>1, <2>2, <2>3, FinishMaps
<1> QED BY <1>1, <1>3, <1>4

LEMMA WorkersMap ==
  ASSUME IInv, NEW w \in Workers,
         LoseClaim(w) \/ Fail(w) \/ Crash(w) \/ \E r \in Results : Finish(w, r)
  PROVE  Fence!Next
<1> DEFINE l == worker[w].loc
<1>1. worker[w] # NoClaim /\ worker' = [worker EXCEPT ![w] = NoClaim] /\ l \in Locations
  BY DEF LoseClaim, Fail, Defer, Crash, Finish, IInv, TypeOK
<1>2. work \in [Locations -> WorkRow]
  BY DEF IInv, TypeOK
<1>3. CASE LoseClaim(w) \/ Crash(w)
  BY <1>1, <1>3, EndsMap DEF LoseClaim, Crash
<1>4. CASE Fail(w)
  <2>1. \/ UNCHANGED work
        \/ Owned(w) /\ \E failures, state :
             /\ state \in {"exception", "deferred"}
             /\ work' = [work EXCEPT ![l].state = state, ![l].failures = failures,
                                     ![l].lease = NoLease]
    BY <1>4 DEF Fail, Defer
  <2>2. ASSUME NEW failures, NEW state, state \in {"exception", "deferred"},
               work' = [work EXCEPT ![l].state = state, ![l].failures = failures,
                                    ![l].lease = NoLease]
        PROVE  work'[l].state # "leased" /\ \A k \in Locations \ {l} : work'[k] = work[k]
    BY <1>1, <1>2, <2>2 DEF WorkRow
  <2> QED BY <1>1, <2>1, <2>2, EndsMap
<1>5. ASSUME NEW r \in Results, Finish(w, r) PROVE Fence!Next
  <2>1. \/ UNCHANGED work
        \/ Owned(w) /\ \E row :
             row.state # "leased" /\ work' = [work EXCEPT ![l] = row]
    <3>1. \A state : /\ Settled(l, state).state = state
                    /\ \A v : [Settled(l, state) EXCEPT !.version = v].state = state
                    /\ \A f : [Settled(l, state) EXCEPT !.failures = f].state = state
      BY <1>1, <1>2 DEF Settled, WorkRow
    <3>2. FinishProtected(worker[w]) =>
            \E row : row.state # "leased" /\ work' = [work EXCEPT ![l] = row]
      BY <3>1 DEF FinishProtected
    <3>3. FinishChanged(worker[w]) =>
            \E row : row.state # "leased" /\ work' = [work EXCEPT ![l] = row]
      <4> DEFINE changed == [Settled(l, "pending") EXCEPT !.version = place[l].version]
      <4>1. FinishChanged(worker[w]) => work' = [work EXCEPT ![l] = changed]
        BY DEF FinishChanged
      <4>2. changed.state # "leased"
        BY <3>1
      <4> HIDE DEF changed
      <4> QED BY <4>1, <4>2
    <3>4. FinishObserved(worker[w]) =>
            \E row : row.state # "leased" /\ work' = [work EXCEPT ![l] = row]
      BY <3>1 DEF FinishObserved
    <3>5. FinishApplied(worker[w], r) =>
            \E row : row.state # "leased" /\ work' = [work EXCEPT ![l] = row]
      BY <3>1 DEF FinishApplied
    <3> QED BY <1>5, <3>2, <3>3, <3>4, <3>5 DEF Finish
  <2> QED BY <1>1, <1>2, <2>1, EndsMap
<1> QED BY <1>3, <1>4, <1>5

LEMMA StepMaps == IInv /\ [Next]_vars => Fence!Next \/ UNCHANGED leaseVars
<1> SUFFICES ASSUME IInv, [Next]_vars PROVE Fence!Next \/ UNCHANGED leaseVars
  OBVIOUS
<1>1. ASSUME NEW w \in Workers, WorkerNext(w) PROVE Fence!Next
  BY <1>1, QueueMaps, ClaimsMap, WorkersMap DEF WorkerNext
<1>2. CASE \/ \E l \in Locations : Lapse(l)
           \/ \E ids \in SUBSET Locations : Observe(ids) \/ Apply(ids)
           \/ SwitchOff
  BY <1>2, QueueMaps
<1>3. CASE \/ \E l \in Locations :
                \/ StartLookup(l) \/ DropLookup(l) \/ Decide(l)
                \/ \E r \in Results : FinishLookup(l, r)
           \/ VerifyCanary \/ Restore \/ UNCHANGED vars
           \/ \E ids \in SUBSET Locations : CheckCanaries(ids)
  BY <1>3, OutsideMaps
     DEF StartLookup, DropLookup, Decide, FinishLookup, VerifyCanary, CheckCanaries, Restore, vars
<1> QED BY <1>1, <1>2, <1>3 DEF Next

\* The validation of locations implements the fenced lease: only the worker whose lease is
\* alive and not revoked settles a location, once, and whoever was overtaken leaves no
\* trace.
THEOREM ValidationIsFenced == Spec => ImplementsLease
<1>1. Init => Fence!Init
  <2> SUFFICES ASSUME Init PROVE Fence!Init
    OBVIOUS
  <2>1. \A l \in Locations : RecordOf(l) = NoWork /\ TokenOf(l) = {}
    BY DEF Init, RecordOf, TokenOf, NoWork
  <2>2. \A w \in Workers : worker[w] = NoClaim /\ NoClaim.loc = 0
    BY DEF Init, NoClaim
  <2>3. \A w \in Workers : Holding(w) = Fence!Idle
    BY <2>2 DEF Holding, Fence!Idle
  <2> QED BY <2>1, <2>3 DEF Fence!Init, RecordOf, TokenOf, Holding
<1>2. IInv /\ [Next]_vars => [Fence!Next]_(Fence!vars)
  BY StepMaps DEF leaseVars, Recorded, Tokens, Holdings, RecordOf, TokenOf, Holding, Fence!vars
<1> QED BY <1>1, <1>2, InitIInv, StepIInv, PTL DEF Spec, ImplementsLease, Fence!Spec

=============================================================================
