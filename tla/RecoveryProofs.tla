---------------------------- MODULE RecoveryProofs ----------------------------
(***************************************************************************)
(* The canary of the archive holds, whatever its size, the rows, the       *)
(* drainers and the commands of the operator.                              *)
(***************************************************************************)
EXTENDS ArchiveRecovery, TLAPS

\* The canary is fixed by whoever needs the recovery row first, and nobody holds
\* a batch before.
Untouched == phase = "none" => \A d \in Drainers : batch[d] = {}

IInv == RecoveryInv /\ Untouched

\* The first rows of a set are rows of it.
LEMMA FirstAreOf ==
  ASSUME NEW S, NEW n, NEW T \in FirstOf(S, n) PROVE T \subseteq S
  BY DEF FirstOf, kSubset

\* Whoever reads the recovery row finds a canary of landed rows, and an archive
\* that runs is proven.
LEMMA StateRead ==
  ASSUME IInv, NEW s \in RecoveryState
  PROVE  /\ s.phase \in {"canary", "running", "paused"}
         /\ s.canary \subseteq landed
         /\ s.phase = "running" => s.canary \subseteq Proven
         /\ phase # "none" => s.canary = canary
<1>1. CASE phase # "none"
  BY <1>1 DEF RecoveryState, IInv, RecoveryInv, TypeOK, ExpansionProven
<1>2. CASE phase = "none"
  <2>1. PICK S \in FirstOf(Due, CanarySize) :
          s = [phase |-> IF S = {} THEN "running" ELSE "canary", canary |-> S]
    BY <1>2 DEF RecoveryState
  <2>2. S \subseteq landed
    BY FirstAreOf DEF Due
  <2> QED BY <1>2, <2>1, <2>2
<1> QED BY <1>1, <1>2

\* At first there is neither a recovery row nor a batch.
LEMMA InitIInv == Init => IInv
<1> SUFFICES ASSUME Init PROVE IInv
  OBVIOUS
<1>1. reserved \in BOOLEAN /\ resuming \in BOOLEAN
  BY Zenon DEF Init
<1>2. TypeOK
  BY <1>1, SMT DEF Init, TypeOK
<1>3. ExpansionProven /\ CanaryFirst /\ Untouched
  BY DEF Init, ExpansionProven, CanaryFirst, Untouched
<1> QED BY <1>2, <1>3 DEF IInv, RecoveryInv

\* Receipts and acknowledgements are not taken back: what is proven stays so, and
\* a step that leaves the recovery row and only shrinks batches keeps the rest.
LEMMA RowsGrow ==
  ASSUME IInv, TypeOK', receipted \subseteq receipted', terminal \subseteq terminal',
         UNCHANGED <<phase, canary>>,
         \A d \in Drainers : batch'[d] \subseteq batch[d]
  PROVE  IInv'
  BY DEF IInv, RecoveryInv, TypeOK, ExpansionProven, CanaryFirst, Untouched, Proven

\* A batch is claimed from the canary until the canary is proven.
LEMMA ClaimIInv ==
  ASSUME IInv, NEW d \in Drainers, Claim(d)
  PROVE  IInv'
<1>1. PICK s \in RecoveryState :
        /\ phase' = s.phase /\ canary' = s.canary
        /\ IF s.phase = "paused" \/ reserved
           THEN UNCHANGED <<reserved, batch, drain>>
           ELSE /\ reserved' = TRUE
                /\ \E S \in FirstOf(Eligible(s), BatchSize) :
                     /\ batch' = [batch EXCEPT ![d] = S]
                     /\ drain' = [drain EXCEPT ![d] = IF S = {} THEN @ ELSE "open"]
  BY DEF Claim
<1>2. /\ s.phase \in {"canary", "running", "paused"}
      /\ s.canary \subseteq landed
      /\ s.phase = "running" => s.canary \subseteq Proven
      /\ phase # "none" => s.canary = canary
  BY StateRead
<1>3. UNCHANGED <<rowVars, resuming, boundVars>>
  BY DEF Claim
<1>4. ExpansionProven' /\ Untouched'
  BY <1>1, <1>2, <1>3 DEF ExpansionProven, Untouched, Proven, rowVars
<1>5. \A e \in Drainers : batch[e] \subseteq canary' \/ canary' \subseteq Proven
  BY <1>1, <1>2 DEF IInv, RecoveryInv, CanaryFirst, Untouched
<1>6. CASE s.phase = "paused" \/ reserved
  <2>1. TypeOK'
    BY <1>1, <1>2, <1>3, <1>6 DEF IInv, RecoveryInv, TypeOK, rowVars, boundVars
  <2>2. CanaryFirst'
    BY <1>1, <1>3, <1>5, <1>6 DEF CanaryFirst, Proven, rowVars
  <2> QED BY <1>4, <2>1, <2>2 DEF IInv, RecoveryInv
<1>7. CASE ~(s.phase = "paused" \/ reserved)
  <2>1. PICK S \in FirstOf(Eligible(s), BatchSize) :
          /\ batch' = [batch EXCEPT ![d] = S]
          /\ drain' = [drain EXCEPT ![d] = IF S = {} THEN @ ELSE "open"]
    BY <1>1, <1>7
  <2>2. S \subseteq Eligible(s)
    BY FirstAreOf
  <2>3. /\ S \subseteq landed
        /\ s.phase = "canary" => S \subseteq s.canary
    BY <2>2 DEF Eligible, Due
  <2>4. S \subseteq canary' \/ canary' \subseteq Proven
    BY <1>1, <1>2, <1>7, <2>3
  <2>5. TypeOK'
    BY <1>1, <1>2, <1>3, <1>7, <2>1, <2>3 DEF IInv, RecoveryInv, TypeOK, rowVars, boundVars
  <2>6. CanaryFirst'
    BY <1>3, <1>5, <2>1, <2>4 DEF CanaryFirst, Proven, rowVars, IInv, RecoveryInv, TypeOK
  <2> QED BY <1>4, <2>5, <2>6 DEF IInv, RecoveryInv
<1> QED BY <1>6, <1>7

\* Expansion is decided by a look at every row of the canary.
LEMMA VerifyIInv ==
  ASSUME IInv, NEW failed \in BOOLEAN, Verify(failed), TypeOK',
         UNCHANGED <<rowVars, canary, batch>>
  PROVE  IInv'
  BY DEF Verify, IInv, RecoveryInv, TypeOK, ExpansionProven, CanaryFirst, Untouched,
         Proven, rowVars

\* A command may create the recovery row; it never makes the archive run.
LEMMA SetPausedIInv ==
  ASSUME IInv, NEW to \in {"paused", "canary"}, SetPaused(to)
  PROVE  IInv'
<1>1. PICK s \in RecoveryState : canary' = s.canary
  BY DEF SetPaused
<1>2. /\ s.canary \subseteq landed
      /\ phase # "none" => s.canary = canary
  BY StateRead
<1>3. TypeOK'
  <2>1. reserved' \in BOOLEAN /\ resuming' \in BOOLEAN
    BY Zenon DEF SetPaused
  <2> QED
    BY <1>1, <1>2, <2>1, SMT
       DEF SetPaused, IInv, RecoveryInv, TypeOK, rowVars, drainVars
<1>4. ExpansionProven' /\ Untouched'
  BY DEF SetPaused, ExpansionProven, Untouched
<1>5. CanaryFirst'
  BY <1>1, <1>2 DEF SetPaused, IInv, RecoveryInv, CanaryFirst, Untouched, Proven,
                    rowVars, drainVars
<1> QED BY <1>3, <1>4, <1>5 DEF IInv, RecoveryInv

\* Every step keeps the canary first and the expansion proven.
LEMMA StepIInv == IInv /\ [Next]_vars => IInv'
<1> SUFFICES ASSUME IInv, [Next]_vars PROVE IInv'
  OBVIOUS
<1> USE DEF IInv, RecoveryInv, TypeOK
<1>1. ASSUME NEW r \in Rows, Land(r) PROVE IInv'
  <2>1. TypeOK'
    BY <1>1 DEF Land, stateVars, drainVars, boundVars
  <2> QED BY <1>1, <2>1, RowsGrow DEF Land, stateVars, drainVars
<1>2. ASSUME NEW r \in Rows, LiveAttempt(r) PROVE IInv'
  <2>1. TypeOK'
    BY <1>2 DEF LiveAttempt, Commit, Mark, CountFailure, Retry, Due, stateVars, drainVars,
                boundVars
  <2>2. receipted \subseteq receipted' /\ terminal \subseteq terminal'
    BY <1>2 DEF LiveAttempt, Commit, Mark, CountFailure, Retry
  <2> QED BY <1>2, <2>1, <2>2, RowsGrow DEF LiveAttempt, stateVars, drainVars
<1>3. ASSUME NEW d \in Drainers, Claim(d) PROVE IInv'
  BY <1>3, ClaimIInv
<1>4. ASSUME NEW d \in Drainers, Attempt(d) PROVE IInv'
  <2>1. PICK r \in Rows :
          Apply(d, r) \/ Acknowledge(d, r) \/ FailRecord(d, r) \/ DeferRecord(d, r)
    BY <1>4 DEF Attempt
  <2>2. TypeOK'
    BY <2>1 DEF Apply, Acknowledge, FailRecord, DeferRecord, Commit, Mark, CountFailure,
                Retry, stateVars, drainVars, boundVars
  <2>3. /\ receipted \subseteq receipted' /\ terminal \subseteq terminal'
        /\ UNCHANGED <<phase, canary>>
        /\ \A e \in Drainers : batch'[e] \subseteq batch[e]
    BY <2>1 DEF Apply, Acknowledge, FailRecord, DeferRecord, Commit, Mark, CountFailure,
                Retry, stateVars, drainVars
  <2> QED BY <2>2, <2>3, RowsGrow
<1>5. ASSUME NEW d \in Drainers, Finish(d) PROVE IInv'
  <2>1. TypeOK'
    BY <1>5 DEF Finish, Verify, rowVars, boundVars
  <2> QED BY <1>5, <2>1, VerifyIInv DEF Finish
<1>6. ASSUME NEW d \in Drainers, Crash(d) PROVE IInv'
  <2>1. TypeOK'
    BY <1>6 DEF Crash, rowVars, stateVars
  <2> QED BY <1>6, <2>1, RowsGrow DEF Crash, rowVars, stateVars
<1>7. CASE Pause \/ Resume
  BY <1>7, SetPausedIInv DEF Pause, Resume
<1>8. CASE VerifyResumed
  <2>1. TypeOK'
    BY <1>8 DEF VerifyResumed, Verify, rowVars, drainVars, boundVars
  <2> QED BY <1>8, <2>1, VerifyIInv DEF VerifyResumed, drainVars
<1>9. CASE Tick
  <2>1. TypeOK'
    BY <1>9 DEF Tick, drainVars, boundVars
  <2> QED BY <1>9, <2>1, RowsGrow DEF Tick, drainVars
<1>10. CASE UNCHANGED vars
  BY <1>10 DEF vars, rowVars, stateVars, drainVars, boundVars, ExpansionProven, CanaryFirst,
               Untouched, Proven
<1> QED
  BY <1>1, <1>2, <1>3, <1>4, <1>5, <1>6, <1>7, <1>8, <1>9, <1>10 DEF Next

\* The archive expands only over a proven canary, and no drainer is ahead of it,
\* with any number of drainers, commands and crashes.
THEOREM CanaryHolds == Spec => []RecoveryInv
<1>1. IInv => RecoveryInv
  BY DEF IInv
<1> QED BY <1>1, InitIInv, StepIInv, PTL DEF Spec
=============================================================================
