---------------------------- MODULE AutomaticProofs ----------------------------
(***************************************************************************)
(* The provider's budget holds whatever its limit, the length of the day,  *)
(* the callers and the work they ask for.  The automatic recovery keeps    *)
(* within it, for any workers, owners, messages and canary, lists nothing  *)
(* before its canary is validated, and a settled work stays settled.       *)
(***************************************************************************)
EXTENDS AutomaticRecovery, FiniteSetTheorems, SequenceTheorems, TLAPS

-----------------------------------------------------------------------------
(***************************************************************************)
(* The budget, of any callers (BudgetSpec).                                *)
(***************************************************************************)
Attempt == [key : Keys, state : AttemptStates, at : Nat, next : Nat]
Last == attempts[Len(attempts)]

\* The attempts of a day, and the calls made on it before the ledger existed.
OnDay(ledger, d) == {i \in DOMAIN ledger : Day(ledger[i].at) = d}
Before(d) == IF d = 0 THEN Legacy ELSE 0

\* The account remembers its last attempt: when the next may be, and whose lease
\* it is.  Before the first it is not there.
AccountCurrent ==
  /\ ~account.open => attempts = <<>> /\ account = NoAccount
  /\ account.attempt \in {0, Len(attempts)}
  /\ attempts # <<>> => account.next >= Last.at + Pace

\* The day of the account is the last one with an attempt, and counts them all.
DayCounted ==
  account.open =>
    /\ account.day <= Day(account.next)
    /\ \A i \in DOMAIN attempts : Day(attempts[i].at) <= account.day
    /\ Cardinality(OnDay(attempts, account.day)) + Before(account.day) = account.used

\* Whoever is at the provider has the lease, and there is time left on it.
LeaseCovers ==
  /\ \A c \in Callers : call[c].pc \in {"asked", "sent"} =>
       /\ call[c].now <= clock /\ clock < call[c].now + Lease
       /\ call[c].key \in Keys
  /\ \A c \in Callers : call[c].pc = "sent" =>
       /\ call[c].attempt = Len(attempts) /\ account.attempt = Len(attempts)
       /\ attempts # <<>> /\ Last.state = "submitting"
       /\ account.lease = call[c].now + Lease
  /\ \A b, c \in Callers : call[b].pc = "sent" /\ call[c].pc = "sent" => b = c

\* The limit, for every day there is.
EveryDayLimited ==
  \A d \in Nat : Cardinality(OnDay(attempts, d)) + Before(d) <= Later(Limit, Before(d))

BudgetRecord == /\ AccountCurrent /\ DayCounted /\ LeaseCovers /\ EveryDayLimited
                /\ Paced /\ NeverResubmitted
BudgetIInv == BudgetTypeOK /\ BudgetRecord

-----------------------------------------------------------------------------
\* Days are counted from zero, and later instants fall on no earlier day.
LEMMA DayType == \A t \in Nat : Day(t) \in Nat
  BY BudgetAssumption DEF Day

LEMMA DayMonotone ==
  ASSUME NEW s \in Nat, NEW t \in Nat, s <= t
  PROVE  Day(s) <= Day(t)
<1> DEFINE L == DayLength
           p == s \div L
           q == t \div L
<1>1. L \in Nat /\ L > 0
  BY BudgetAssumption
<1>2. /\ p \in Nat /\ q \in Nat
      /\ L * p <= s /\ t < L * (q + 1)
  BY <1>1, SMTT(30)
<1>3. ASSUME p >= q + 1 PROVE FALSE
  <2>1. L * p >= L * (q + 1)
    BY <1>1, <1>2, <1>3, SMTT(30)
  <2>2. L * p \in Nat /\ L * (q + 1) \in Nat
    BY <1>1, <1>2
  <2> HIDE DEF p, q, L
  <2> QED BY <1>2, <2>1, <2>2
<1> QED BY <1>2, <1>3 DEF Day

-----------------------------------------------------------------------------
\* The ledger is a sequence of attempts.
LEMMA Entries ==
  ASSUME BudgetTypeOK
  PROVE  /\ Len(attempts) \in Nat /\ DOMAIN attempts = 1 .. Len(attempts)
         /\ \A i \in DOMAIN attempts : attempts[i] \in Attempt /\ attempts[i].at \in Nat
<1>1. attempts \in Seq(Attempt)
  BY DEF BudgetTypeOK, Attempt
<1>2. Len(attempts) \in Nat /\ DOMAIN attempts = 1 .. Len(attempts)
  BY <1>1, LenProperties
<1>3. \A i \in DOMAIN attempts : attempts[i] \in Attempt
  BY <1>1, <1>2, ElementOfSeq
<1> QED BY <1>2, <1>3 DEF Attempt

\* A set of numbers that has a bound has a largest element.
LEMMA Largest ==
  ASSUME NEW n \in Nat, NEW S \in SUBSET (1 .. n), S # {}
  PROVE  \E i \in S : \A j \in S : j <= i
<1> DEFINE T == {k \in Nat : n - k \in S}
<1>1. T \subseteq Nat
  OBVIOUS
<1>2. PICK i \in S : TRUE
  OBVIOUS
<1>3. T # {}
  <2>1. n - i \in Nat /\ n - (n - i) = i
    BY <1>2
  <2> QED BY <1>2, <2>1
<1>4. PICK k \in T : \A m \in T : ~(<<m, k>> \in OpToRel(<, Nat))
  <2> HIDE DEF T
  <2> QED BY <1>1, <1>3, NatLessThanWellFounded, WFMin
<1>5. \A m \in T : ~(m < k)
  <2>1. SUFFICES ASSUME NEW m \in T, m < k PROVE <<m, k>> \in OpToRel(<, Nat)
    <3> HIDE DEF T
    <3> QED BY <1>4, <2>1, Zenon
  <2>2. m \in Nat /\ k \in Nat
    OBVIOUS
  <2>3. <<m, k>> \in Nat \X Nat /\ <<m, k>>[1] = m /\ <<m, k>>[2] = k
    BY <2>2
  <2> HIDE DEF T
  <2> QED BY <2>1, <2>3, Zenon DEF OpToRel
<1>6. n - k \in S /\ k \in Nat
  OBVIOUS
<1>7. ASSUME NEW j \in S PROVE j <= n - k
  <2>1. n - j \in T
    OBVIOUS
  <2> QED BY <1>5, <1>6, <2>1
<1> QED BY <1>6, <1>7

\* The last attempt of a key that has any.
LEMMA LastOfIsLast ==
  ASSUME BudgetTypeOK, NEW k \in Keys, Of(attempts, k) # {}
  PROVE  /\ LastOf(attempts, k) \in DOMAIN attempts
         /\ \A i \in DOMAIN attempts : attempts[i].key = k => i <= LastOf(attempts, k)
<1>1. /\ Len(attempts) \in Nat /\ DOMAIN attempts = 1 .. Len(attempts)
  BY LenProperties DEF BudgetTypeOK
<1>2. \E i \in Of(attempts, k) : \A j \in Of(attempts, k) : j <= i
  <2>1. Of(attempts, k) \in SUBSET (1 .. Len(attempts))
    BY <1>1 DEF Of
  <2> QED BY <1>1, <2>1, Largest
<1>3. /\ LastOf(attempts, k) \in Of(attempts, k)
      /\ \A j \in Of(attempts, k) : j <= LastOf(attempts, k)
  BY <1>2 DEF LastOf
<1> QED BY <1>3 DEF Of

-----------------------------------------------------------------------------
\* What a sweep does to the ledger: it gives up the one reservation that is overdue.
LEMMA SweptKeeps ==
  ASSUME BudgetTypeOK, NEW now \in Nat
  PROVE  /\ Swept(now) \in Seq(Attempt) /\ Len(Swept(now)) = Len(attempts)
         /\ \A i \in DOMAIN attempts :
              /\ Swept(now)[i].key = attempts[i].key /\ Swept(now)[i].at = attempts[i].at
              /\ Swept(now)[i].state = attempts[i].state \/ attempts[i].state = "submitting"
         /\ Held(now) => Swept(now) = attempts
<1>1. attempts \in Seq(Attempt) /\ account.attempt \in 0 .. Len(attempts)
  BY DEF BudgetTypeOK, Attempt
<1>2. CASE Swept(now) = attempts
  BY <1>1, <1>2
<1>3. CASE Swept(now) # attempts
  <2> DEFINE a == account.attempt
  <2>1. /\ a \in DOMAIN attempts /\ attempts[a].state = "submitting" /\ ~Held(now)
        /\ Swept(now) = [attempts EXCEPT ![a].state = "uncertain"]
    BY <1>1, <1>3, LenProperties DEF Swept
  <2>2. attempts[a] \in Attempt /\ [attempts[a] EXCEPT !.state = "uncertain"] \in Attempt
    <3>1. attempts[a] \in Attempt
      BY <1>1, <2>1, LenProperties, ElementOfSeq
    <3> QED BY <3>1 DEF Attempt, AttemptStates
  <2>3. Swept(now) = [attempts EXCEPT ![a] = [attempts[a] EXCEPT !.state = "uncertain"]]
    BY <2>1
  <2>4. Swept(now) \in Seq(Attempt) /\ Len(Swept(now)) = Len(attempts)
    BY <1>1, <2>1, <2>2, <2>3, ExceptSeq
  <2>5. \A i \in DOMAIN attempts :
          Swept(now)[i] = IF i = a THEN [attempts[a] EXCEPT !.state = "uncertain"]
                          ELSE attempts[i]
    BY <2>1, <2>3
  <2>6. /\ [attempts[a] EXCEPT !.state = "uncertain"].key = attempts[a].key
        /\ [attempts[a] EXCEPT !.state = "uncertain"].at = attempts[a].at
    BY <2>2 DEF Attempt
  <2> QED BY <2>1, <2>4, <2>5, <2>6
<1> QED BY <1>2, <1>3

\* A ledger in which only calls under way changed their state is as good as before.
LEMMA LedgerKept ==
  ASSUME BudgetTypeOK, EveryDayLimited, Paced, NeverResubmitted,
         attempts' \in Seq(Attempt), Len(attempts') = Len(attempts),
         \A i \in DOMAIN attempts :
           /\ attempts'[i].key = attempts[i].key /\ attempts'[i].at = attempts[i].at
           /\ attempts'[i].state = attempts[i].state \/ attempts[i].state = "submitting"
  PROVE  /\ EveryDayLimited' /\ Paced' /\ NeverResubmitted'
         /\ DOMAIN attempts' = DOMAIN attempts
         /\ \A d \in Nat : OnDay(attempts', d) = OnDay(attempts, d)
<1>1. DOMAIN attempts' = DOMAIN attempts
  BY LenProperties DEF BudgetTypeOK
<1>2. \A d \in Nat : OnDay(attempts', d) = OnDay(attempts, d)
  BY <1>1 DEF OnDay
<1>3. EveryDayLimited'
  BY <1>2 DEF EveryDayLimited
<1>4. Paced'
  BY <1>1 DEF Paced
<1>5. NeverResubmitted'
  BY <1>1 DEF NeverResubmitted, Repeatable
<1> QED BY <1>1, <1>2, <1>3, <1>4, <1>5

\* The account as the next reservation finds it.
LEMMA OpenedCounts ==
  ASSUME BudgetTypeOK, AccountCurrent, DayCounted, NEW now \in Nat
  PROVE  /\ Opened(now) \in [open : BOOLEAN, day : Nat, used : Nat, next : Nat,
                              attempt : 0 .. Len(attempts), lease : Nat]
         /\ Opened(now).open
         /\ Opened(now).attempt = account.attempt /\ Opened(now).lease = account.lease
         /\ attempts # <<>> => Opened(now).next >= Last.at + Pace
         /\ Opened(now).day <= Day(Opened(now).next)
         /\ \A i \in DOMAIN attempts : Day(attempts[i].at) <= Opened(now).day
         /\ Cardinality(OnDay(attempts, Opened(now).day)) + Before(Opened(now).day)
              = Opened(now).used
         /\ Eligible(now) \in Nat /\ Eligible(now) >= Opened(now).next
         /\ Held(now) => Opened(now) = account /\ Eligible(now) >= account.lease
<1>1. CASE account.open
  <2>1. Opened(now) = account
    BY <1>1 DEF Opened
  <2>2. /\ account \in [open : BOOLEAN, day : Nat, used : Nat, next : Nat,
                         attempt : 0 .. Len(attempts), lease : Nat]
    BY DEF BudgetTypeOK
  <2>3. /\ Eligible(now) \in Nat /\ Eligible(now) >= account.next
        /\ Held(now) => Eligible(now) >= account.lease
    BY <2>1, <2>2 DEF Eligible, Later
  <2> QED BY <1>1, <2>1, <2>2, <2>3 DEF AccountCurrent, DayCounted
<1>2. CASE ~account.open
  <2>1. attempts = <<>> /\ account = NoAccount
    BY <1>2 DEF AccountCurrent
  <2>2. Day(now) \in Nat /\ Legacy \in Nat
    BY DayType, BudgetAssumption
  <2>3. Opened(now) = [open |-> TRUE, day |-> Day(now),
                       used |-> IF Day(now) = 0 THEN Legacy ELSE 0, next |-> now,
                       attempt |-> 0, lease |-> 0]
    BY <1>2 DEF Opened, NoAccount
  <2>4. OnDay(attempts, Day(now)) = {} /\ DOMAIN attempts = {}
    BY <2>1 DEF OnDay
  <2>5. Cardinality(OnDay(attempts, Day(now))) = 0
    BY <2>4, FS_EmptySet
  <2>6. ~Held(now)
    BY <2>1 DEF Held, NoAccount
  <2>7. Eligible(now) = now
    BY <2>3, <2>6 DEF Eligible
  <2>8. Len(attempts) = 0
    BY <2>1
  <2>9. account.attempt = 0 /\ account.lease = 0
    BY <2>1 DEF NoAccount
  <2> QED BY <2>1, <2>2, <2>3, <2>4, <2>5, <2>6, <2>7, <2>8, <2>9 DEF Before
<1> QED BY <1>1, <1>2

-----------------------------------------------------------------------------
\* Nobody is at the provider when the next call is admitted.
LEMMA NobodySent ==
  ASSUME BudgetTypeOK, AccountCurrent, DayCounted, LeaseCovers,
         NEW c \in Callers, call[c].pc = "asked",
         NEW b \in Callers, call[b].pc = "sent"
  PROVE  /\ Held(call[c].now) /\ Eligible(call[c].now) > call[c].now
         /\ account.open
<1> DEFINE now == call[c].now
<1>1. now \in Nat /\ clock \in Nat /\ call[b].now \in Nat
  BY DEF BudgetTypeOK
<1>2. now <= clock /\ clock < call[b].now + Lease
  BY DEF LeaseCovers
<1>3. /\ account.attempt = Len(attempts) /\ attempts # <<>>
      /\ account.lease = call[b].now + Lease
  BY DEF LeaseCovers
<1>4. Len(attempts) \in Nat /\ Len(attempts) # 0
  BY <1>3, LenProperties, EmptySeq DEF BudgetTypeOK
<1>5. Held(now)
  BY <1>1, <1>2, <1>3, <1>4 DEF Held, Lease
<1>6. Eligible(now) \in Nat /\ Eligible(now) >= account.lease
  BY <1>1, <1>5, OpenedCounts
<1>7. account.open
  BY <1>3 DEF AccountCurrent
<1> QED BY <1>1, <1>2, <1>3, <1>5, <1>6, <1>7 DEF Lease

\* A refused reservation keeps the record.
LEMMA RefusalKeeps ==
  ASSUME BudgetIInv, NEW c \in Callers, call[c].pc = "asked",
         attempts' = Swept(call[c].now),
         \/ account' = Opened(call[c].now)
         \/ account' = [Opened(call[c].now) EXCEPT
                          !.next = Later(Eligible(call[c].now), NextDay(call[c].now))],
         NEW reply \in {"disabled", "rate_limited"}, Refuse(c, reply), UNCHANGED clock
  PROVE  BudgetIInv'
<1> DEFINE now == call[c].now
<1> USE DEF BudgetIInv, BudgetRecord
<1>1. now \in Nat /\ NextDay(now) \in Nat
  BY DayType, BudgetAssumption DEF BudgetTypeOK, NextDay
<1>2. /\ attempts' \in Seq(Attempt) /\ Len(attempts') = Len(attempts)
      /\ \A i \in DOMAIN attempts :
           /\ attempts'[i].key = attempts[i].key /\ attempts'[i].at = attempts[i].at
           /\ attempts'[i].state = attempts[i].state \/ attempts[i].state = "submitting"
      /\ Held(now) => attempts' = attempts
  BY <1>1, SweptKeeps
<1>3. /\ EveryDayLimited' /\ Paced' /\ NeverResubmitted'
      /\ DOMAIN attempts' = DOMAIN attempts
      /\ \A d \in Nat : OnDay(attempts', d) = OnDay(attempts, d)
  BY <1>2, LedgerKept
<1>4. /\ account' \in [open : BOOLEAN, day : Nat, used : Nat, next : Nat,
                        attempt : 0 .. Len(attempts), lease : Nat]
      /\ account'.open /\ account'.day = Opened(now).day
      /\ account'.used = Opened(now).used /\ account'.next >= Opened(now).next
      /\ account'.attempt = account.attempt /\ account'.lease = account.lease
  BY <1>1, OpenedCounts DEF Later
<1>5. call' = [call EXCEPT ![c] = [call[c] EXCEPT !.pc = "refused", !.now = 0,
                                                  !.reply = reply]]
  BY DEF Refuse
<1>6. BudgetTypeOK'
  <2>1. call' \in [Callers -> [pc : {"silent", "asked", "sent", "refused", "answered"},
                           key : Keys \cup {"none"}, now : Nat,
                           attempt : 0 .. Len(attempts),
                           reply : AllOutcomes \cup {"none", "disabled"}]]
    BY <1>5 DEF BudgetTypeOK, AllOutcomes
  <2> QED BY <1>2, <1>4, <2>1 DEF BudgetTypeOK, Attempt
<1>7. DOMAIN attempts = 1 .. Len(attempts) /\ Len(attempts) \in Nat
  BY LenProperties DEF BudgetTypeOK
<1>8. AccountCurrent'
  <2>1. ASSUME attempts' # <<>>
        PROVE  attempts # <<>> /\ Last'.at = Last.at /\ Last.at \in Nat
    <3>1. Len(attempts) \in 1 .. Len(attempts)
      BY <1>2, <1>7, <2>1, EmptySeq
    <3>2. attempts # <<>>
      BY <3>1, EmptySeq
    <3>3. attempts[Len(attempts)] \in Attempt
      BY <3>1, ElementOfSeq DEF BudgetTypeOK, Attempt
    <3>4. Last' = attempts'[Len(attempts)] /\ Last = attempts[Len(attempts)]
      BY <1>2 DEF Last
    <3>5. attempts'[Len(attempts)].at = attempts[Len(attempts)].at
      BY <1>2, <1>7, <3>1
    <3> QED BY <3>2, <3>3, <3>4, <3>5 DEF Attempt
  <2>2. attempts # <<>> => Opened(now).next >= Last.at + Pace
    BY <1>1, OpenedCounts
  <2>3. Opened(now).next \in Nat
    BY <1>1, OpenedCounts
  <2> QED BY <1>2, <1>4, <2>1, <2>2, <2>3 DEF AccountCurrent, Pace
<1>9. DayCounted'
  <2>1. /\ Opened(now).day <= Day(Opened(now).next)
        /\ \A i \in DOMAIN attempts : Day(attempts[i].at) <= Opened(now).day
        /\ Cardinality(OnDay(attempts, Opened(now).day)) + Before(Opened(now).day)
             = Opened(now).used
        /\ Opened(now).next \in Nat /\ Opened(now).day \in Nat
    BY <1>1, OpenedCounts
  <2>2. Day(Opened(now).next) <= Day(account'.next)
    BY <1>4, <2>1, DayMonotone
  <2>3. Day(Opened(now).next) \in Nat /\ Day(account'.next) \in Nat
    BY <1>4, <2>1, DayType
  <2> QED BY <1>2, <1>3, <1>4, <2>1, <2>2, <2>3 DEF DayCounted
<1>10. LeaseCovers'
  <2>1. /\ \A b \in Callers : call'[b].pc \in {"asked", "sent"} => b # c /\ call'[b] = call[b]
    BY <1>5 DEF BudgetTypeOK
  <2>2. ASSUME NEW b \in Callers, call'[b].pc = "sent"
        PROVE  /\ call'[b].attempt = Len(attempts') /\ account'.attempt = Len(attempts')
               /\ attempts' # <<>> /\ Last'.state = "submitting"
               /\ account'.lease = call'[b].now + Lease
    <3>1. call'[b] = call[b] /\ call[b].pc = "sent"
      BY <2>1, <2>2
    <3>2. Held(now)
      BY <3>1, NobodySent
    <3>3. attempts' = attempts /\ Last' = Last
      BY <1>2, <3>2 DEF Last
    <3> QED BY <1>4, <3>1, <3>3 DEF LeaseCovers
  <2> QED BY <2>1, <2>2 DEF LeaseCovers
<1> QED BY <1>3, <1>6, <1>8, <1>9, <1>10

-----------------------------------------------------------------------------
\* The calls of the day the next one falls on are the ones the account counts.
LEMMA UsedCounts ==
  ASSUME BudgetTypeOK, AccountCurrent, DayCounted, NEW now \in Nat,
         Eligible(now) <= now
  PROVE  /\ Used(now) = Cardinality(OnDay(attempts, Day(now))) + Before(Day(now))
         /\ \A i \in DOMAIN attempts : Day(attempts[i].at) <= Day(now)
<1> DEFINE o == Opened(now)
<1>1. /\ o.day \in Nat /\ o.next \in Nat /\ o.used \in Nat
      /\ o.day <= Day(o.next) /\ o.next <= now
      /\ \A i \in DOMAIN attempts : Day(attempts[i].at) <= o.day
      /\ Cardinality(OnDay(attempts, o.day)) + Before(o.day) = o.used
  <2>1. /\ o \in [open : BOOLEAN, day : Nat, used : Nat, next : Nat,
                  attempt : 0 .. Len(attempts), lease : Nat]
        /\ Eligible(now) \in Nat /\ Eligible(now) >= o.next
        /\ o.day <= Day(o.next)
        /\ \A i \in DOMAIN attempts : Day(attempts[i].at) <= o.day
        /\ Cardinality(OnDay(attempts, o.day)) + Before(o.day) = o.used
    BY OpenedCounts
  <2>2. o.day \in Nat /\ o.next \in Nat /\ o.used \in Nat
    BY <2>1
  <2> HIDE DEF o
  <2> QED BY <2>1, <2>2
<1>2. /\ Day(o.next) <= Day(now) /\ Day(o.next) \in Nat /\ Day(now) \in Nat
  BY <1>1, DayMonotone, DayType
<1>3. \A i \in DOMAIN attempts : attempts[i].at \in Nat /\ Day(attempts[i].at) \in Nat
  BY DayType, Entries
<1>4. \A i \in DOMAIN attempts : Day(attempts[i].at) <= Day(now)
  BY <1>1, <1>2, <1>3
<1>5. CASE o.day = Day(now)
  BY <1>1, <1>4, <1>5 DEF Used
<1>6. CASE o.day # Day(now)
  <2>1. OnDay(attempts, Day(now)) = {}
    BY <1>1, <1>2, <1>3, <1>6 DEF OnDay
  <2>2. Before(Day(now)) = 0
    BY <1>1, <1>2, <1>6 DEF Before
  <2> QED BY <1>4, <1>6, <2>1, <2>2, FS_EmptySet DEF Used
<1> QED BY <1>5, <1>6

\* All attempts of a key that may be sent are known not to have been carried out.
LEMMA UnspentIsRepeatable ==
  ASSUME BudgetTypeOK, NeverResubmitted, NEW k \in Keys, NEW now \in Nat,
         ~Spent(k, now),
         NEW i \in DOMAIN attempts, attempts[i].key = k
  PROVE  Swept(now)[i].state \in Repeatable
<1> DEFINE l == LastOf(attempts, k)
<1>1. Of(attempts, k) # {}
  BY DEF Of
<1>2. Swept(now)[l].state \in Repeatable
  BY <1>1 DEF Spent
<1>3. l \in DOMAIN attempts /\ i <= l
  BY <1>1, LastOfIsLast
<1>4. attempts[l].key = k
  <2>1. DOMAIN attempts = 1 .. Len(attempts) /\ Len(attempts) \in Nat
    BY LenProperties DEF BudgetTypeOK
  <2>2. Of(attempts, k) \in SUBSET (1 .. Len(attempts))
    BY <2>1 DEF Of
  <2>3. \E m \in Of(attempts, k) : \A j \in Of(attempts, k) : j <= m
    BY <1>1, <2>1, <2>2, Largest
  <2> QED BY <2>3 DEF LastOf, Of
<1>5. CASE i = l
  BY <1>2, <1>5
<1>6. CASE i # l
  <2>1. i < l
    BY <1>3, <1>6, LenProperties DEF BudgetTypeOK
  <2>2. attempts[i].state \in Repeatable
    BY <1>3, <1>4, <2>1 DEF NeverResubmitted
  <2> QED BY <2>2, SweptKeeps DEF Repeatable
<1> QED BY <1>5, <1>6

\* An admitted call keeps the record.
LEMMA SendKeeps ==
  ASSUME BudgetIInv, NEW c \in Callers, call[c].pc = "asked",
         ~Spent(call[c].key, call[c].now), ~Exhausted(call[c].now),
         Eligible(call[c].now) <= call[c].now,
         Send(c, call[c].key, call[c].now), UNCHANGED clock
  PROVE  BudgetIInv'
<1> DEFINE now == call[c].now
           k == call[c].key
           n == Len(attempts) + 1
           new == [key |-> k, state |-> "submitting", at |-> now, next |-> 0]
<1> USE DEF BudgetIInv, BudgetRecord
<1>1. /\ now \in Nat /\ k \in Keys /\ Len(attempts) \in Nat
      /\ DOMAIN attempts = 1 .. Len(attempts)
      /\ now <= clock /\ clock < now + Lease /\ clock \in Nat
  BY LenProperties DEF BudgetTypeOK, LeaseCovers
<1>2. new \in Attempt
  BY <1>1 DEF Attempt, AttemptStates
<1>3. /\ Swept(now) \in Seq(Attempt) /\ Len(Swept(now)) = Len(attempts)
      /\ \A i \in DOMAIN attempts :
           /\ Swept(now)[i].key = attempts[i].key /\ Swept(now)[i].at = attempts[i].at
           /\ Swept(now)[i].state = attempts[i].state \/ attempts[i].state = "submitting"
  BY <1>1, SweptKeeps
<1>4. attempts' = Append(Swept(now), new)
  BY DEF Send
<1>5. /\ attempts' \in Seq(Attempt) /\ attempts' # <<>> /\ Len(attempts') = n
      /\ DOMAIN attempts' = 1 .. n
      /\ attempts'[n] = new
      /\ \A i \in DOMAIN attempts : attempts'[i] = Swept(now)[i]
  <2>1. /\ attempts' \in Seq(Attempt) /\ attempts' # <<>> /\ Len(attempts') = n
        /\ attempts'[n] = new
        /\ \A i \in 1 .. Len(attempts) : attempts'[i] = Swept(now)[i]
    BY <1>2, <1>3, <1>4, AppendProperties
  <2> QED BY <1>1, <2>1, LenProperties
<1>6. /\ account' = [open |-> TRUE, day |-> Day(now), used |-> Used(now) + 1,
                     next |-> now + Pace, attempt |-> n, lease |-> now + Lease]
      /\ call' = [call EXCEPT ![c] = [call[c] EXCEPT !.pc = "sent", !.attempt = n]]
  BY DEF Send
<1>7. /\ Used(now) = Cardinality(OnDay(attempts, Day(now))) + Before(Day(now))
      /\ \A i \in DOMAIN attempts : Day(attempts[i].at) <= Day(now)
  BY <1>1, UsedCounts
<1>8. \A i \in DOMAIN attempts : attempts[i] \in Attempt
  BY <1>1, ElementOfSeq DEF BudgetTypeOK, Attempt
<1>9. \A d \in Nat :
        /\ IsFiniteSet(OnDay(attempts, d)) /\ Cardinality(OnDay(attempts, d)) \in Nat
        /\ OnDay(attempts', d) = IF d = Day(now) THEN OnDay(attempts, d) \cup {n}
                                 ELSE OnDay(attempts, d)
        /\ n \notin OnDay(attempts, d)
  <2> TAKE d \in Nat
  <2>1. OnDay(attempts, d) \subseteq 1 .. Len(attempts)
    BY <1>1 DEF OnDay
  <2>2. IsFiniteSet(1 .. Len(attempts))
    BY <1>1, FS_Interval
  <2>3. IsFiniteSet(OnDay(attempts, d)) /\ Cardinality(OnDay(attempts, d)) \in Nat
    BY <2>1, <2>2, FS_Subset, FS_CardinalityType
  <2>4. \A i \in 1 .. Len(attempts) : attempts'[i].at = attempts[i].at
    BY <1>1, <1>3, <1>5
  <2>5. attempts'[n].at = now
    BY <1>5
  <2>6. \A i \in 1 .. n : i = n \/ i \in 1 .. Len(attempts)
    BY <1>1
  <2>7. OnDay(attempts', d) = IF d = Day(now) THEN OnDay(attempts, d) \cup {n}
                              ELSE OnDay(attempts, d)
    BY <1>1, <1>5, <2>4, <2>5, <2>6 DEF OnDay
  <2>8. n \notin OnDay(attempts, d)
    BY <1>1, <2>1
  <2> QED BY <2>3, <2>7, <2>8
<1>10. Day(now) \in Nat /\ Before(Day(now)) \in Nat /\ Used(now) \in Nat
  <2>1. Day(now) \in Nat /\ Before(Day(now)) \in Nat
    BY <1>1, DayType, BudgetAssumption DEF Before
  <2>2. Cardinality(OnDay(attempts, Day(now))) \in Nat
    BY <1>9, <2>1
  <2>3. Used(now) = Cardinality(OnDay(attempts, Day(now))) + Before(Day(now))
    BY <1>7
  <2>4. \A a, b \in Nat : a + b \in Nat
    OBVIOUS
  <2> HIDE DEF now
  <2> QED BY <2>1, <2>2, <2>3, <2>4
<1>11. Cardinality(OnDay(attempts', Day(now))) = Cardinality(OnDay(attempts, Day(now))) + 1
  <2>1. /\ IsFiniteSet(OnDay(attempts, Day(now)))
        /\ OnDay(attempts', Day(now)) = OnDay(attempts, Day(now)) \cup {n}
        /\ n \notin OnDay(attempts, Day(now))
    BY <1>9, <1>10
  <2> HIDE DEF n, now
  <2> QED BY <2>1, FS_AddElement
<1>12. BudgetTypeOK'
  <2>1. call' \in [Callers -> [pc : {"silent", "asked", "sent", "refused", "answered"},
                           key : Keys \cup {"none"}, now : Nat,
                           attempt : 0 .. n,
                           reply : AllOutcomes \cup {"none", "disabled"}]]
    <3>1. \A b \in Callers : call[b].attempt \in 0 .. n
      BY <1>1 DEF BudgetTypeOK
    <3>2. \A b \in Callers :
            call[b] \in [pc : {"silent", "asked", "sent", "refused", "answered"},
                         key : Keys \cup {"none"}, now : Nat, attempt : 0 .. n,
                         reply : AllOutcomes \cup {"none", "disabled"}]
      BY <3>1 DEF BudgetTypeOK
    <3>3. n \in 0 .. n /\ call \in [Callers -> [pc : {"silent", "asked", "sent", "refused", "answered"},
                         key : Keys \cup {"none"}, now : Nat, attempt : 0 .. n,
                         reply : AllOutcomes \cup {"none", "disabled"}]]
      BY <1>1, <3>2 DEF BudgetTypeOK
    <3> HIDE DEF n
    <3> QED BY <1>6, <3>3
  <2>2. account' \in [open : BOOLEAN, day : Nat, used : Nat, next : Nat,
                      attempt : 0 .. n, lease : Nat]
    <3>1. now + Pace \in Nat /\ now + Lease \in Nat /\ Used(now) + 1 \in Nat /\ n \in 0 .. n
      BY <1>1, <1>10 DEF Pace, Lease
    <3> HIDE DEF n, now
    <3> QED BY <1>6, <1>10, <3>1
  <2> QED BY <1>5, <2>1, <2>2 DEF BudgetTypeOK, Attempt
<1>13. AccountCurrent'
  BY <1>1, <1>5, <1>6 DEF AccountCurrent, Last, Pace
<1>14. DayCounted'
  <2>1. Day(now) <= Day(now + Pace) /\ now + Pace \in Nat
    BY <1>1, DayMonotone DEF Pace
  <2>2. \A i \in DOMAIN attempts' : Day(attempts'[i].at) <= Day(now)
    BY <1>1, <1>3, <1>5, <1>7, <1>10
  <2> QED BY <1>6, <1>7, <1>9, <1>10, <1>11, <2>1, <2>2 DEF DayCounted
<1>15. EveryDayLimited'
  <2> SUFFICES ASSUME NEW d \in Nat
               PROVE  Cardinality(OnDay(attempts', d)) + Before(d) <= Later(Limit, Before(d))
    BY DEF EveryDayLimited
  <2>1. CASE d # Day(now)
    BY <1>9, <2>1 DEF EveryDayLimited
  <2>2. CASE d = Day(now)
    <3>1. Used(now) + 1 <= Limit
      BY <1>10, BudgetAssumption DEF Exhausted
    <3>2. Cardinality(OnDay(attempts', d)) + Before(d) = Used(now) + 1
      BY <1>7, <1>9, <1>10, <1>11, <2>2
    <3> QED BY <1>10, <2>2, <3>1, <3>2, BudgetAssumption DEF Later
  <2> QED BY <2>1, <2>2
<1>16. Paced'
  <2> SUFFICES ASSUME NEW i \in 1 .. n, i + 1 \in 1 .. n
               PROVE  attempts'[i + 1].at >= attempts'[i].at + Pace
    BY <1>5 DEF Paced
  <2>1. CASE i + 1 \in 1 .. Len(attempts)
    <3>1. i \in DOMAIN attempts /\ i + 1 \in DOMAIN attempts
      BY <1>1, <2>1
    <3>2. attempts[i + 1].at >= attempts[i].at + Pace
      BY <3>1 DEF Paced
    <3> QED BY <1>3, <1>5, <3>1, <3>2
  <2>2. CASE i + 1 = n
    <3>1. i = Len(attempts) /\ i \in DOMAIN attempts
      BY <1>1, <2>2
    <3>2. attempts # <<>>
      BY <1>1, <3>1, EmptySeq
    <3>3. Opened(now).next >= Last.at + Pace /\ Opened(now).next \in Nat
      BY <1>1, <3>2, OpenedCounts
    <3>4. Eligible(now) \in Nat /\ Eligible(now) >= Opened(now).next
      BY <1>1, OpenedCounts
    <3>5. attempts'[i].at = Last.at /\ Last.at \in Nat
      BY <1>3, <1>5, <1>8, <3>1 DEF Last, Attempt
    <3>6. attempts'[i + 1].at = now
      BY <1>5, <2>2
    <3> QED BY <1>1, <3>3, <3>4, <3>5, <3>6 DEF Pace
  <2> QED BY <1>1, <2>1, <2>2
<1>17. NeverResubmitted'
  <2> SUFFICES ASSUME NEW i \in 1 .. n, NEW j \in 1 .. n, i < j,
                      attempts'[i].key = attempts'[j].key
               PROVE  attempts'[i].state \in Repeatable
    BY <1>5 DEF NeverResubmitted
  <2>1. i \in DOMAIN attempts
    BY <1>1
  <2>2. CASE j \in DOMAIN attempts
    <3>1. attempts[i].state \in Repeatable
      BY <1>3, <1>5, <2>1, <2>2 DEF NeverResubmitted
    <3> QED BY <1>3, <1>5, <2>1, <3>1 DEF Repeatable
  <2>3. CASE j = n
    <3>1. attempts[i].key = k
      BY <1>3, <1>5, <2>1, <2>3
    <3> QED BY <1>1, <1>5, <2>1, <3>1, UnspentIsRepeatable
  <2> QED BY <1>1, <2>2, <2>3
<1>18. LeaseCovers'
  <2>1. \A b \in Callers : b # c => call'[b] = call[b] /\ call[b].pc # "sent"
    <3>1. \A b \in Callers : call[b].pc # "sent"
      <4> SUFFICES ASSUME NEW b \in Callers, call[b].pc = "sent" PROVE FALSE
        OBVIOUS
      <4>1. Eligible(now) > now /\ Eligible(now) \in Nat
        BY <1>1, NobodySent, OpenedCounts
      <4> QED BY <1>1, <4>1
    <3> QED BY <1>6, <3>1
  <2>2. /\ call'[c].pc = "sent" /\ call'[c].now = now /\ call'[c].key = k
        /\ call'[c].attempt = n
    BY <1>6 DEF BudgetTypeOK
  <2>3. Last'.state = "submitting"
    BY <1>5 DEF Last
  <2> QED BY <1>1, <1>5, <1>6, <2>1, <2>2, <2>3 DEF LeaseCovers
<1> QED BY <1>12, <1>13, <1>14, <1>15, <1>16, <1>17, <1>18

-----------------------------------------------------------------------------
\* Settling a call writes its own attempt and nothing else of the ledger.
LEMMA SettledType ==
  ASSUME BudgetTypeOK, NEW i \in DOMAIN attempts, NEW outcome \in AllOutcomes
  PROVE  /\ Settled(i, outcome) \in Attempt
         /\ Settled(i, outcome).key = attempts[i].key
         /\ Settled(i, outcome).at = attempts[i].at
<1>1. attempts[i] \in Attempt
  BY Entries
<1>2. NextDay(clock) \in Nat /\ clock + Pace \in Nat /\ clock \in Nat
  <2>1. clock \in Nat
    BY BudgetAssumption DEF BudgetTypeOK
  <2>2. Day(clock) \in Nat /\ DayLength \in Nat
    BY <2>1, DayType, BudgetAssumption
  <2> QED BY <2>1, <2>2 DEF NextDay, Pace
<1>3. ASSUME NEW s \in AttemptStates, NEW t \in Nat
      PROVE  LET e == [attempts[i] EXCEPT !.state = s, !.next = t]
             IN  e \in Attempt /\ e.key = attempts[i].key /\ e.at = attempts[i].at
  BY <1>1 DEF Attempt
<1> DEFINE next == CASE outcome = "rate_limited" -> NextDay(clock)
                     [] outcome = "connect"      -> clock + Pace
                     [] OTHER                    -> clock
           again == Cardinality({j \in Of(attempts, attempts[i].key) : j <= i})
                      < MaxSafeAttempts
           state == CASE outcome = "succeeded"         -> "succeeded"
                      [] outcome = "rate_limited"      -> "rate_limited"
                      [] outcome = "connect" /\ again  -> "retry"
                      [] outcome = "timeout"           -> "uncertain"
                      [] OTHER                         -> "terminal"
           later == IF state \in Repeatable THEN next ELSE clock
<1>4. state \in AttemptStates
  <2> HIDE DEF again
  <2> QED BY DEF AttemptStates, Repeatable, AllOutcomes
<1>5. later \in Nat
  <2>1. next \in Nat
    BY <1>2
  <2> HIDE DEF next, state
  <2> QED BY <1>2, <2>1
<1>6. Settled(i, outcome) = [attempts[i] EXCEPT !.state = state, !.next = later]
  BY Zenon DEF Settled
<1> HIDE DEF state, later
<1> QED BY <1>3, <1>4, <1>5, <1>6

LEMMA FinishKeeps ==
  ASSUME BudgetIInv, NEW c \in Callers, NEW outcome \in Outcomes, Finish(c, outcome)
  PROVE  BudgetIInv'
<1> DEFINE i == Len(attempts)
           new == Settled(i, outcome)
<1> USE DEF BudgetIInv, BudgetRecord
<1>1. /\ call[c].pc = "sent" /\ call[c].attempt = i /\ account.attempt = i
      /\ attempts # <<>> /\ attempts[i].state = "submitting"
      /\ \A b \in Callers : call[b].pc = "sent" => b = c
  BY DEF Finish, LeaseCovers, Last
<1>2. /\ i \in Nat /\ DOMAIN attempts = 1 .. i /\ i # 0 /\ i \in DOMAIN attempts
      /\ \A j \in DOMAIN attempts : attempts[j] \in Attempt /\ attempts[j].at \in Nat
  <2>1. i \in Nat /\ DOMAIN attempts = 1 .. i /\ i # 0
    BY <1>1, Entries, EmptySeq DEF BudgetTypeOK
  <2> QED BY <2>1, Entries
<1>3. /\ new \in Attempt /\ new.key = attempts[i].key /\ new.at = attempts[i].at
      /\ new.next \in Nat
  <2>1. outcome \in AllOutcomes
    BY BudgetAssumption
  <2> QED BY <1>2, <2>1, SettledType DEF Attempt
<1>4. /\ attempts' = [attempts EXCEPT ![i] = new]
      /\ account' = [account EXCEPT !.attempt = 0, !.lease = 0,
                                    !.next = Later(account.next, new.next)]
      /\ call' = [call EXCEPT ![c] = [call[c] EXCEPT !.pc = "answered", !.now = 0,
                                          !.attempt = 0, !.reply = outcome]]
      /\ clock' = clock
  BY <1>1 DEF Finish
<1>5. /\ attempts' \in Seq(Attempt) /\ Len(attempts') = i
      /\ attempts'[i] = new
      /\ \A j \in DOMAIN attempts : attempts'[j] = IF j = i THEN new ELSE attempts[j]
  <2>1. attempts \in Seq(Attempt) /\ i \in 1 .. Len(attempts)
    BY <1>2 DEF BudgetTypeOK, Attempt
  <2> QED BY <1>2, <1>3, <1>4, <2>1, ExceptSeq
<1>6. \A j \in DOMAIN attempts :
        /\ attempts'[j].key = attempts[j].key /\ attempts'[j].at = attempts[j].at
        /\ attempts'[j].state = attempts[j].state \/ attempts[j].state = "submitting"
  BY <1>1, <1>3, <1>5
<1>7. /\ EveryDayLimited' /\ Paced' /\ NeverResubmitted'
      /\ DOMAIN attempts' = DOMAIN attempts
      /\ \A d \in Nat : OnDay(attempts', d) = OnDay(attempts, d)
  BY <1>5, <1>6, LedgerKept
<1>8. /\ account \in [open : BOOLEAN, day : Nat, used : Nat, next : Nat,
                       attempt : 0 .. i, lease : Nat]
      /\ account.open
      /\ account.next \in Nat /\ Later(account.next, new.next) \in Nat
      /\ Later(account.next, new.next) >= account.next
  <2>1. /\ account \in [open : BOOLEAN, day : Nat, used : Nat, next : Nat,
                         attempt : 0 .. i, lease : Nat]
        /\ account.open
    BY <1>1 DEF BudgetTypeOK, AccountCurrent
  <2>2. account.next \in Nat
    BY <2>1
  <2> QED BY <1>3, <2>1, <2>2 DEF Later
<1>9. /\ account' \in [open : BOOLEAN, day : Nat, used : Nat, next : Nat,
                        attempt : 0 .. i, lease : Nat]
      /\ account'.open /\ account'.day = account.day /\ account'.used = account.used
      /\ account'.next >= account.next /\ account'.attempt = 0
  <2> DEFINE later == Later(account.next, new.next)
  <2>1. later \in Nat /\ later >= account.next /\ 0 \in 0 .. i
    BY <1>2, <1>8
  <2>2. account' = [account EXCEPT !.attempt = 0, !.lease = 0, !.next = later]
    BY <1>4
  <2> HIDE DEF later, i
  <2> QED BY <1>8, <2>1, <2>2
<1>10. BudgetTypeOK'
  <2>1. call' \in [Callers -> [pc : {"silent", "asked", "sent", "refused", "answered"},
                           key : Keys \cup {"none"}, now : Nat,
                           attempt : 0 .. i,
                           reply : AllOutcomes \cup {"none", "disabled"}]]
    <3>1. /\ 0 \in 0 .. i /\ outcome \in AllOutcomes \cup {"none", "disabled"}
          /\ call \in [Callers -> [pc : {"silent", "asked", "sent", "refused", "answered"},
                           key : Keys \cup {"none"}, now : Nat,
                           attempt : 0 .. i,
                           reply : AllOutcomes \cup {"none", "disabled"}]]
      BY <1>2, BudgetAssumption DEF BudgetTypeOK
    <3> HIDE DEF i
    <3> QED BY <1>4, <3>1
  <2> QED BY <1>4, <1>5, <1>9, <2>1 DEF BudgetTypeOK, Attempt
<1>11. AccountCurrent'
  <2>1. Last' = new /\ Last = attempts[i]
    BY <1>5 DEF Last
  <2>2. account.next >= Last.at + Pace /\ Last.at \in Nat
    BY <1>1, <1>2, <2>1 DEF AccountCurrent
  <2> QED BY <1>3, <1>8, <1>9, <2>1, <2>2 DEF AccountCurrent, Pace
<1>12. DayCounted'
  <2>1. Day(account.next) <= Day(account'.next)
    BY <1>8, <1>9, DayMonotone
  <2>2. Day(account.next) \in Nat /\ Day(account'.next) \in Nat /\ account.day \in Nat
    BY <1>8, <1>9, DayType
  <2>3. /\ account.day <= Day(account.next)
        /\ \A j \in DOMAIN attempts : Day(attempts[j].at) <= account.day
        /\ Cardinality(OnDay(attempts, account.day)) + Before(account.day) = account.used
    BY <1>8 DEF DayCounted
  <2> QED BY <1>6, <1>7, <1>9, <2>1, <2>2, <2>3 DEF DayCounted
<1>13. LeaseCovers'
  <2>1. \A b \in Callers : /\ b # c => call'[b] = call[b]
                           /\ call'[b].pc # "sent"
                           /\ call'[c].pc = "answered"
    BY <1>1, <1>4 DEF BudgetTypeOK
  <2> QED BY <1>4, <2>1 DEF LeaseCovers
<1> QED BY <1>7, <1>10, <1>11, <1>12, <1>13

-----------------------------------------------------------------------------
\* Steps that leave the ledger and the account alone keep the record if the
\* callers keep within their leases.
LEMMA LedgerUntouched ==
  ASSUME BudgetIInv, UNCHANGED <<account, attempts>>, BudgetTypeOK', LeaseCovers'
  PROVE  BudgetIInv'
<1>1. AccountCurrent' /\ DayCounted' /\ EveryDayLimited' /\ Paced' /\ NeverResubmitted'
  BY DEF BudgetIInv, BudgetRecord, AccountCurrent, DayCounted, EveryDayLimited, Paced,
         NeverResubmitted, Last, OnDay
<1> QED BY <1>1 DEF BudgetIInv, BudgetRecord

LEMMA BudgetInitially == BudgetInit => BudgetIInv
<1> SUFFICES ASSUME BudgetInit PROVE BudgetIInv
  OBVIOUS
<1> USE DEF BudgetInit, NoAccount, Silent
<1>1. Len(attempts) = 0 /\ DOMAIN attempts = {}
  OBVIOUS
<1>2. BudgetTypeOK
  BY <1>1, BudgetAssumption, EmptySeq DEF BudgetTypeOK, AllOutcomes
<1>3. AccountCurrent /\ DayCounted /\ LeaseCovers /\ Paced /\ NeverResubmitted
  BY <1>1 DEF AccountCurrent, DayCounted, LeaseCovers, Paced, NeverResubmitted
<1>4. EveryDayLimited
  <2> SUFFICES ASSUME NEW d \in Nat
               PROVE  Cardinality(OnDay(attempts, d)) + Before(d) <= Later(Limit, Before(d))
    BY DEF EveryDayLimited
  <2>1. OnDay(attempts, d) = {}
    BY <1>1 DEF OnDay
  <2>2. Cardinality(OnDay(attempts, d)) = 0
    BY <2>1, FS_EmptySet
  <2>3. Before(d) \in Nat /\ Limit \in Nat
    BY BudgetAssumption DEF Before
  <2> QED BY <2>2, <2>3 DEF Later
<1> QED BY <1>2, <1>3, <1>4 DEF BudgetIInv, BudgetRecord

LEMMA BudgetStep == BudgetIInv /\ [BudgetNext]_budgetVars => BudgetIInv'
<1> SUFFICES ASSUME BudgetIInv, [BudgetNext]_budgetVars PROVE BudgetIInv'
  OBVIOUS
<1> USE DEF BudgetIInv, BudgetRecord
<1>1. CASE UNCHANGED budgetVars
  <2>1. BudgetTypeOK' /\ LeaseCovers'
    BY <1>1 DEF budgetVars, BudgetTypeOK, LeaseCovers, Last
  <2> QED BY <1>1, <2>1, LedgerUntouched DEF budgetVars
<1>2. CASE BudgetTick
  <2>1. BudgetTypeOK'
    BY <1>2, BudgetAssumption DEF BudgetTick, BudgetTypeOK
  <2>2. LeaseCovers'
    <3>1. \A c \in Callers : call[c].pc \in {"asked", "sent"} =>
            /\ clock < call[c].now + Lease - 1 /\ call[c].now \in Nat /\ clock \in Nat
      BY <1>2 DEF BudgetTick, Prompt, BudgetTypeOK
    <3>2. \A c \in Callers : call[c].pc \in {"asked", "sent"} =>
            call[c].now <= clock /\ call[c].key \in Keys
      BY DEF LeaseCovers
    <3>3. clock' = clock + 1 /\ call' = call /\ account' = account /\ attempts' = attempts
      BY <1>2 DEF BudgetTick
    <3>4. \A c \in Callers : call[c].pc \in {"asked", "sent"} =>
            /\ call[c].now <= clock' /\ clock' < call[c].now + Lease
      BY <3>1, <3>2, <3>3 DEF Lease
    <3> QED BY <3>2, <3>3, <3>4 DEF LeaseCovers, Last
  <2> QED BY <1>2, <2>1, <2>2, LedgerUntouched DEF BudgetTick
<1>3. ASSUME NEW c \in Callers, Reserve(c) PROVE BudgetIInv'
  <2>1. /\ call[c].pc = "asked" /\ UNCHANGED clock
        /\ \A r \in {"disabled", "rate_limited"} : TRUE
    BY <1>3 DEF Reserve
  <2>2. CASE /\ attempts' = Swept(call[c].now) /\ account' = Opened(call[c].now)
             /\ Refuse(c, "disabled")
    BY <2>1, <2>2, RefusalKeeps
  <2>3. CASE /\ attempts' = Swept(call[c].now)
             /\ \/ account' = Opened(call[c].now)
                \/ account' = [Opened(call[c].now) EXCEPT
                                 !.next = Later(Eligible(call[c].now), NextDay(call[c].now))]
             /\ Refuse(c, "rate_limited")
    BY <2>1, <2>3, RefusalKeeps
  <2>4. CASE /\ ~Spent(call[c].key, call[c].now) /\ ~Exhausted(call[c].now)
             /\ Eligible(call[c].now) <= call[c].now
             /\ Send(c, call[c].key, call[c].now)
    BY <2>1, <2>4, SendKeeps
  <2> QED BY <1>3, <2>2, <2>3, <2>4 DEF Reserve
<1>4. ASSUME NEW c \in Callers, Forget(c) PROVE BudgetIInv'
  <2>1. call' = [call EXCEPT ![c] = Silent] /\ UNCHANGED <<clock, account, attempts>>
    BY <1>4 DEF Forget
  <2>2. BudgetTypeOK'
    BY <2>1, Entries DEF BudgetTypeOK, Silent
  <2>3. \A b \in Callers : call'[b].pc \in {"asked", "sent"} => call'[b] = call[b]
    BY <2>1 DEF BudgetTypeOK, Silent
  <2>4. LeaseCovers'
    BY <2>1, <2>3 DEF LeaseCovers, Last
  <2> QED BY <2>1, <2>2, <2>4, LedgerUntouched
<1>5. ASSUME NEW c \in Callers, NEW k \in Keys, Ask(c, k) PROVE BudgetIInv'
  <2>1. /\ call' = [call EXCEPT ![c] = [Silent EXCEPT !.pc = "asked", !.key = k, !.now = clock]]
        /\ UNCHANGED <<clock, account, attempts>> /\ clock \in Nat
    BY <1>5 DEF Ask, BudgetTypeOK
  <2>2. BudgetTypeOK'
    <3>1. 0 \in 0 .. Len(attempts)
      BY Entries
    <3>2. [Silent EXCEPT !.pc = "asked", !.key = k, !.now = clock]
            \in [pc : {"silent", "asked", "sent", "refused", "answered"},
                key : Keys \cup {"none"}, now : Nat, attempt : 0 .. Len(attempts),
                reply : AllOutcomes \cup {"none", "disabled"}]
      BY <2>1, <3>1 DEF Silent
    <3> QED BY <2>1, <3>2 DEF BudgetTypeOK
  <2>3. /\ \A b \in Callers : b # c => call'[b] = call[b]
        /\ call'[c].pc = "asked" /\ call'[c].now = clock /\ call'[c].key = k
    BY <2>1 DEF BudgetTypeOK, Silent
  <2>4. LeaseCovers'
    BY <2>1, <2>3 DEF LeaseCovers, Last, Lease
  <2> QED BY <2>1, <2>2, <2>4, LedgerUntouched
<1> QED BY <1>1, <1>2, <1>3, <1>4, <1>5, FinishKeeps DEF BudgetNext

\* What the record says of the calls that were made.
LEMMA RecordShows ==
  ASSUME BudgetIInv
  PROVE  DailyLimit /\ Paced /\ OneInFlight /\ NeverResubmitted
<1> USE DEF BudgetIInv, BudgetRecord
<1>1. DailyLimit
  <2>1. Day(MaxTime) \in Nat
    BY DayType, BudgetAssumption
  <2>2. \A d \in 0 .. Day(MaxTime) : d \in Nat
    BY <2>1
  <2> QED BY <2>2 DEF DailyLimit, EveryDayLimited, OnDay, Before
<1>2. OneInFlight
  <2> DEFINE S == {c \in Callers : call[c].pc = "sent"}
  <2>1. CASE S = {}
    BY <2>1, FS_EmptySet DEF OneInFlight
  <2>2. CASE S # {}
    <3>1. PICK c \in S : TRUE
      BY <2>2
    <3>2. S = {c}
      BY <3>1 DEF LeaseCovers
    <3>3. Cardinality(S) = 1
      BY <3>2, FS_Singleton
    <3> QED BY <3>3 DEF OneInFlight
  <2> QED BY <2>1, <2>2
<1> QED BY <1>1, <1>2

\* Any process that goes through the budget's operations only, whatever it asks
\* for and whenever it dies, keeps within it.
THEOREM WithinBudget == BudgetSpec => [](DailyLimit /\ Paced /\ OneInFlight /\ NeverResubmitted)
<1>1. BudgetSpec => []BudgetIInv
  BY BudgetInitially, BudgetStep, PTL DEF BudgetSpec
<1> QED BY <1>1, RecordShows, PTL

-----------------------------------------------------------------------------
(***************************************************************************)
(* The recovery, which is one of them.                                     *)
(***************************************************************************)
Ended == {"observed", "applied", "terminal"}

\* A work is due at a moment read from a clock, or after a delay that doubles.
Moments == Nat \cup {t + Pace * 2 ^ n : t \in Nat, n \in Nat}
Reasons == {"none", "proposal_rejected", "provider_window", "uncertain", "terminal",
            "validation_or_snapshot", "creation_calibration_required",
            "validated_observation", "local_retry", "systemic_failure",
            "already_resolved_or_unsupported", "protected_conflict",
            "unsupported_or_failed_proposal", "unsubmitted_reconciled"}
Asking == {"calling", "observing", "filling"}
AtHand == {"claimed", "listed", "found", "deferring", "weighing", "applied"}
Row == [state : WorkStates, claim : Nat, claims : Nat, lease : Nat, next : Moments,
        failures : Nat, reason : Reasons]
Doing == [step : {"idle"} \cup Asking \cup AtHand,
          rev : Revisions \cup {"none"}, claim : Nat, now : Nat, run : Nat]

\* A work is claimed by one claim of its own; an ended one by none.
RowFine(row) ==
  /\ row.state = "claimed" => row.claim # 0
  /\ row.claim \in {0, row.claims}
  /\ row.state \in Ended => row.claim = 0

\* Only a worker has a claim, and nobody else goes on after the provider's call.
DoingFine(c) ==
  /\ task[c].step # "idle" => task[c].rev \in Revisions
  /\ task[c].step \notin {"idle", "calling"} => task[c].claim # 0
  /\ task[c].claim # 0 => c \in Workers /\ task[c].rev \in Revisions
  /\ task[c].step \in Asking <=> call[c].pc # "silent"

ListsFine ==
  /\ current \subseteq Revisions /\ expired \subseteq Revisions /\ runs \in Nat
  /\ listing \in [Revisions -> {"none", "parser", "owner", "worker"}]
  /\ pending \in [Revisions -> 0 .. runs]
  /\ cohort \in [Revisions -> {"none", "open", "held"} \cup Outcome]

QueueFine ==
  /\ work \in [Revisions -> Row] /\ \A r \in Revisions : RowFine(work[r])

TasksFine ==
  /\ task \in [Callers -> Doing] /\ \A c \in Callers : DoingFine(c)

\* Values are asked for, to be stored, only once the canary has passed.
FillsFine == (\E c \in Callers : task[c].step = "filling") => CanaryPassed

IInv == BudgetIInv /\ ListsFine /\ QueueFine /\ TasksFine /\ CanaryFirst /\ FillsFine

\* What a step may do to the queue.
Stays ==
  \A r \in Revisions :
    /\ work[r].state \in Ended /\ work'[r] # work[r] =>
         Unsubmitted(r) /\ work'[r].state = "queued"
    /\ work[r].state = "claimed" /\ work'[r].state \notin {"claimed", "superseded"} =>
         \E w \in Workers :
           task[w].rev = r /\ task[w].claim = work[r].claims /\ task'[w] # task[w]

-----------------------------------------------------------------------------
\* A step that writes one row, of a work that has not ended.
LEMMA RowWritten ==
  ASSUME QueueFine, NEW r \in Revisions, NEW row \in Row, RowFine(row),
         work' = [work EXCEPT ![r] = row],
         work[r].state \notin Ended,
         work[r].state = "claimed" /\ row.state \notin {"claimed", "superseded"} =>
           \E w \in Workers :
             task[w].rev = r /\ task[w].claim = work[r].claims /\ task'[w] # task[w]
  PROVE  QueueFine' /\ Stays
<1>1. work' \in [Revisions -> Row] /\ work'[r] = row
  BY DEF QueueFine
<1>2. \A s \in Revisions : s # r => work'[s] = work[s]
  BY DEF QueueFine
<1>3. QueueFine'
  BY <1>1, <1>2 DEF QueueFine, RowFine
<1> QED BY <1>1, <1>2, <1>3 DEF Stays

LEMMA NothingWritten ==
  ASSUME QueueFine, UNCHANGED work
  PROVE  QueueFine' /\ Stays
BY DEF QueueFine, RowFine, Stays

\* Whoever writes to a work under a claim writes to the last one.
LEMMA CheckpointKeeps ==
  ASSUME QueueFine, TasksFine, NEW w \in Workers, task[w].claim # 0,
         task[w].step # "idle",
         NEW to \in Ended \cup {"deferred"}, NEW why \in Reasons, NEW next \in Moments,
         Checkpoint(w, to, why, next)
  PROVE  QueueFine' /\ Stays /\ task' = [task EXCEPT ![w] = Resting]
<1> DEFINE r == task[w].rev
           row == [work[r] EXCEPT !.state = to, !.reason = why, !.claim = 0,
                                  !.lease = 0, !.next = next]
<1>1. w \in Callers /\ r \in Revisions /\ work[r] \in Row /\ RowFine(work[r])
  BY RecoveryAssumption DEF TasksFine, DoingFine, QueueFine
<1>2. task' = [task EXCEPT ![w] = Resting] /\ task'[w] # task[w]
  BY <1>1 DEF Checkpoint, TasksFine, Resting, Idle
<1>3. CASE ~Holds(w)
  BY <1>2, <1>3, NothingWritten DEF Checkpoint
<1>4. CASE Holds(w)
  <2>1. work' = [work EXCEPT ![r] = row]
    BY <1>4 DEF Checkpoint
  <2>2. row \in Row /\ RowFine(row)
    BY <1>1 DEF Row, RowFine, WorkStates, Ended
  <2>3. work[r].state \notin Ended /\ task[w].claim = work[r].claims
    BY <1>1, <1>4 DEF Holds, RowFine
  <2> HIDE DEF row
  <2> QED BY <1>1, <1>2, <2>1, <2>2, <2>3, RowWritten
<1> QED BY <1>3, <1>4

LEMMA CloseKeeps ==
  ASSUME QueueFine, TasksFine, NEW w \in Workers, task[w].claim # 0,
         task[w].step # "idle",
         NEW to \in Ended, NEW why \in Reasons, Close(w, to, why)
  PROVE  QueueFine' /\ Stays /\ task' = [task EXCEPT ![w] = Resting]
<1>1. CASE work[task[w].rev].state = "claimed"
  <2>1. work[task[w].rev].next \in Moments
    BY RecoveryAssumption DEF TasksFine, DoingFine, QueueFine, Row
  <2> QED BY <1>1, <2>1, CheckpointKeeps DEF Close
<1>2. CASE work[task[w].rev].state # "claimed"
  BY <1>2, NothingWritten DEF Close
<1> QED BY <1>1, <1>2

LEMMA RetryKeeps ==
  ASSUME QueueFine, TasksFine, NEW w \in Workers, task[w].claim # 0,
         task[w].step # "idle", RetryLocal(w)
  PROVE  QueueFine' /\ Stays /\ task' = [task EXCEPT ![w] = Resting]
<1> DEFINE r == task[w].rev
           n == work[r].failures
           stop == n >= 2
           to == IF stop THEN "terminal" ELSE "deferred"
           why == IF stop THEN "systemic_failure" ELSE "local_retry"
           next == task[w].now + Pace * 2 ^ n
           row == [work[r] EXCEPT !.failures = n + 1, !.state = to, !.reason = why,
                                  !.next = next, !.claim = 0, !.lease = 0]
<1>1. w \in Callers /\ r \in Revisions /\ work[r] \in Row /\ RowFine(work[r])
  BY RecoveryAssumption DEF TasksFine, DoingFine, QueueFine
<1>2. task' = [task EXCEPT ![w] = Resting] /\ task'[w] # task[w]
  BY <1>1 DEF RetryLocal, TasksFine, Resting, Idle
<1>3. n \in Nat /\ task[w].now \in Nat
  BY <1>1 DEF Row, TasksFine, Doing
<1>4. next \in Moments
  BY <1>3 DEF Moments
<1>5. CASE ~Holds(w)
  BY <1>2, <1>5, NothingWritten DEF RetryLocal
<1>6. CASE Holds(w)
  <2>1. work' = [work EXCEPT ![r] = row]
    BY <1>6, Zenon DEF RetryLocal
  <2>2. to \in Ended \cup {"deferred"} /\ why \in Reasons
    <3>1. to \in {"terminal", "deferred"} /\ why \in {"systemic_failure", "local_retry"}
      <4> HIDE DEF stop
      <4>1. CASE stop
        BY <4>1
      <4>2. CASE ~stop
        BY <4>2
      <4> QED BY <4>1, <4>2
    <3> HIDE DEF n, to, why
    <3> QED BY <3>1 DEF Ended, Reasons
  <2>3. row \in Row /\ RowFine(row)
    <3>1. n + 1 \in Nat
      BY <1>3
    <3>2. ASSUME NEW f \in Nat, NEW s \in Ended \cup {"deferred"}, NEW y \in Reasons,
                 NEW x \in Moments
          PROVE  LET e == [work[r] EXCEPT !.failures = f, !.state = s, !.reason = y,
                                          !.next = x, !.claim = 0, !.lease = 0]
                 IN  e \in Row /\ RowFine(e)
      BY <1>1 DEF Row, RowFine, WorkStates, Ended
    <3> HIDE DEF n, to, why, next
    <3> QED BY <1>4, <2>2, <3>1, <3>2
  <2>4. work[r].state \notin Ended /\ task[w].claim = work[r].claims
    BY <1>1, <1>6 DEF Holds, RowFine
  <2> HIDE DEF row
  <2> QED BY <1>1, <1>2, <2>1, <2>3, <2>4, RowWritten
<1> QED BY <1>5, <1>6

-----------------------------------------------------------------------------
\* Nobody begins to fill before the canary.
TasksKept ==
  /\ TasksFine'
  /\ \A c \in Callers : task'[c].step = "filling" => task[c].step = "filling" \/ CanaryPassed

\* The next thing a worker or a request does.
LEMMA TaskSet ==
  ASSUME TasksFine, NEW c \in Callers, NEW d \in Doing, task' = [task EXCEPT ![c] = d],
         \A b \in Callers : b # c => call'[b].pc = call[b].pc,
         d.step # "idle" => d.rev \in Revisions,
         d.step \notin {"idle", "calling"} => d.claim # 0,
         d.claim # 0 => c \in Workers /\ d.rev \in Revisions,
         d.step \in Asking <=> call'[c].pc # "silent",
         d.step = "filling" => CanaryPassed
  PROVE  TasksKept
<1>1. task' \in [Callers -> Doing] /\ task'[c] = d
  BY DEF TasksFine
<1>2. \A b \in Callers : b # c => task'[b] = task[b]
  BY DEF TasksFine
<1>3. DoingFine(c)'
  BY <1>1 DEF DoingFine
<1>4. ASSUME NEW b \in Callers, b # c PROVE DoingFine(b)'
  BY <1>2, <1>4 DEF TasksFine, DoingFine
<1> QED BY <1>1, <1>2, <1>3, <1>4 DEF TasksFine, TasksKept

\* A worker that ends its tick.
LEMMA Rests ==
  ASSUME TasksFine, clock \in Nat, NEW w \in Callers,
         \A b \in Callers : b # w => call'[b].pc = call[b].pc,
         call'[w].pc = "silent",
         \/ task' = [task EXCEPT ![w] = Resting]
         \/ task' = [task EXCEPT ![w] = Idle]
         \/ task' = [task EXCEPT ![w] = Served(w)]
  PROVE  TasksKept
<1>1. Resting \in Doing /\ Resting.step = "idle" /\ Resting.claim = 0
  BY DEF Resting, Idle, Doing, Pace
<1>2. Idle \in Doing /\ Idle.step = "idle" /\ Idle.claim = 0
  BY DEF Idle, Doing
<1>3. Served(w) \in Doing /\ Served(w).step = "idle" /\ Served(w).claim = 0
  BY DEF Served, Idle, Doing, TasksFine
<1>4. "idle" \notin Asking
  BY DEF Asking
<1> QED BY <1>1, <1>2, <1>3, <1>4, TaskSet

\* A worker that goes on with its work.
LEMMA Continues ==
  ASSUME TasksFine, NEW w \in Callers, task[w].claim # 0, task[w].step # "idle",
         NEW step \in Asking \cup AtHand, step = "filling" => CanaryPassed,
         NEW run \in Nat,
         \/ task' = [task EXCEPT ![w].step = step]
         \/ task' = [task EXCEPT ![w].step = step, ![w].run = run],
         \A b \in Callers : b # w => call'[b].pc = call[b].pc,
         step \in Asking <=> call'[w].pc # "silent"
  PROVE  TasksKept
<1>1. task[w] \in Doing /\ DoingFine(w)
  BY DEF TasksFine
<1>2. CASE task' = [task EXCEPT ![w].step = step]
  <2> DEFINE d == [task[w] EXCEPT !.step = step]
  <2>1. d \in Doing /\ d.step = step /\ d.rev = task[w].rev /\ d.claim = task[w].claim
    BY <1>1 DEF Doing
  <2>2. task' = [task EXCEPT ![w] = d]
    BY <1>2
  <2> HIDE DEF d
  <2> QED BY <1>1, <2>1, <2>2, TaskSet DEF DoingFine
<1>3. CASE task' = [task EXCEPT ![w].step = step, ![w].run = run]
  <2> DEFINE d == [task[w] EXCEPT !.step = step, !.run = run]
  <2>1. d \in Doing /\ d.step = step /\ d.rev = task[w].rev /\ d.claim = task[w].claim
    BY <1>1 DEF Doing
  <2>2. task' = [task EXCEPT ![w] = d]
    BY <1>3 DEF TasksFine, Doing
  <2> HIDE DEF d
  <2> QED BY <1>1, <2>1, <2>2, TaskSet DEF DoingFine
<1> QED BY <1>2, <1>3

LEMMA TasksUntouched ==
  ASSUME TasksFine, UNCHANGED task, \A b \in Callers : call'[b].pc = "silent" <=> call[b].pc = "silent"
  PROVE  TasksKept
BY DEF TasksFine, TasksKept, DoingFine

-----------------------------------------------------------------------------
\* Nobody lists or fills automatically before the canary, or settles an item twice.
Sanctioned == \A r \in Revisions :
  /\ listing'[r] = "worker" => listing[r] = "worker" \/ CanaryPassed
  /\ cohort'[r] \in {"filled", "mixed"} => cohort[r] \in {"filled", "mixed"} \/ CanaryPassed
  /\ cohort[r] \in Outcome => cohort'[r] = cohort[r]

\* What every step does.
StepFine ==
  /\ [BudgetNext]_budgetVars
  /\ ListsFine' /\ QueueFine' /\ TasksKept /\ Stays /\ Sanctioned

LEMMA StepKeeps ==
  ASSUME IInv, StepFine
  PROVE  IInv'
<1>1. Validated \subseteq Validated' /\ Validated' \subseteq Revisions
  BY DEF StepFine, Stays, Validated, Ended, Unsubmitted
<1>2. IsFiniteSet(Validated') /\ Cardinality(Validated) <= Cardinality(Validated')
      /\ Cardinality(Validated) \in Nat /\ Cardinality(Validated') \in Nat
  <2>1. IsFiniteSet(Validated')
    BY <1>1, FS_Subset, RecoveryAssumption
  <2> QED BY <1>1, <2>1, FS_Subset, FS_CardinalityType
<1>3. Cardinality(Validated) >= CanarySize => Cardinality(Validated') >= CanarySize
  BY <1>2, RecoveryAssumption
<1>4. CanaryFirst'
  <2> SUFFICES ASSUME NEW r \in Revisions,
                      listing'[r] = "worker" \/ cohort'[r] \in {"filled", "mixed"}
               PROVE  Cardinality(Validated') >= CanarySize
    BY DEF CanaryFirst
  <2>1. Cardinality(Validated) >= CanarySize
    BY DEF StepFine, Sanctioned, CanaryPassed, IInv, CanaryFirst
  <2> QED BY <1>3, <2>1
<1>5. FillsFine'
  BY <1>3 DEF StepFine, TasksKept, CanaryPassed, IInv, FillsFine
<1>6. BudgetIInv'
  BY BudgetStep DEF IInv, StepFine
<1> QED BY <1>4, <1>5, <1>6 DEF IInv, StepFine, TasksKept

-----------------------------------------------------------------------------
LEMMA ListsUntouched ==
  ASSUME ListsFine, UNCHANGED dataVars
  PROVE  ListsFine' /\ Sanctioned
BY DEF ListsFine, Sanctioned, dataVars, offerVars

LEMMA EnvironmentSteps ==
  ASSUME IInv, Tick \/ \E r \in Revisions : Supersede(r) \/ Expire(r) \/ Hold(r) \/ Resume(r)
  PROVE  StepFine
<1>1. UNCHANGED <<work, task>> /\ [BudgetNext]_budgetVars
  BY DEF Tick, Supersede, Expire, Hold, Resume, BudgetNext
<1>2. QueueFine' /\ Stays
  BY <1>1, NothingWritten DEF IInv
<1>3. TasksKept
  <2>1. UNCHANGED call
    BY DEF Tick, BudgetTick, Supersede, Expire, Hold, Resume, budgetVars
  <2> QED BY <1>1, <2>1, TasksUntouched DEF IInv
<1>4. ListsFine' /\ Sanctioned
  <2>1. CASE Tick
    BY <2>1, ListsUntouched DEF Tick, IInv
  <2>2. CASE \E r \in Revisions : Supersede(r)
    BY <2>2 DEF Supersede, IInv, ListsFine, Sanctioned
  <2>3. CASE \E r \in Revisions : Expire(r)
    BY <2>3 DEF Expire, IInv, ListsFine, Sanctioned
  <2>4. CASE \E r \in Revisions : Hold(r) \/ Resume(r)
    BY <2>4 DEF Hold, Resume, offerVars, IInv, ListsFine, Sanctioned, Outcome
  <2> QED BY <2>1, <2>2, <2>3, <2>4
<1> QED BY <1>1, <1>2, <1>3, <1>4 DEF StepFine

LEMMA EnqueueStep ==
  ASSUME IInv, Enqueue
  PROVE  StepFine
<1>1. UNCHANGED <<budgetVars, dataVars, task>> /\ clock \in Nat
  BY BudgetAssumption DEF Enqueue, IInv, BudgetIInv, BudgetTypeOK
<1>2. TasksKept /\ ListsFine' /\ Sanctioned
  BY <1>1, TasksUntouched, ListsUntouched DEF IInv, budgetVars
<1>3. \A r \in Revisions :
        \/ work'[r] = work[r]
        \/ work[r].state = "none" /\ work'[r] = [Absent EXCEPT !.state = "queued", !.next = clock]
  BY DEF Enqueue
<1>4. LET e == [Absent EXCEPT !.state = "queued", !.next = clock]
      IN  e \in Row /\ RowFine(e)
  <2>1. clock \in Moments
    BY <1>1 DEF Moments
  <2> QED BY <2>1 DEF Absent, Row, RowFine, Reasons, WorkStates, Ended
<1>5. QueueFine'
  <2>1. \A r \in Revisions : work'[r] \in Row /\ RowFine(work'[r])
    BY <1>3, <1>4 DEF IInv, QueueFine
  <2>2. work' = [r \in Revisions |-> work'[r]]
    BY DEF Enqueue
  <2> QED BY <2>1, <2>2 DEF QueueFine, RowFine
<1>6. Stays
  BY <1>3 DEF Stays, Ended
<1> QED BY <1>1, <1>2, <1>5, <1>6 DEF StepFine

LEMMA ReopenedFine ==
  ASSUME NEW row \in Row, clock \in Nat
  PROVE  /\ Reopened(row) \in Row /\ RowFine(Reopened(row))
         /\ Reopened(row).state = "queued" /\ Reopened(row).claim = 0
         /\ Reopened(row).claims = row.claims
<1>1. clock \in Moments
  BY DEF Moments
<1> QED BY <1>1 DEF Reopened, Row, RowFine, Reasons, WorkStates, Ended

\* Works are reopened of which nothing was sent; none of them has a claim.
LEMMA ReconcileStep ==
  ASSUME IInv, ReconcileUnsubmitted
  PROVE  StepFine
<1>1. UNCHANGED <<budgetVars, dataVars, task>>
  BY DEF ReconcileUnsubmitted
<1>2. clock \in Nat /\ work \in [Revisions -> Row]
  BY BudgetAssumption DEF IInv, BudgetIInv, BudgetTypeOK, QueueFine
<1>3. TasksKept /\ ListsFine' /\ Sanctioned
  BY <1>1, TasksUntouched, ListsUntouched DEF IInv, budgetVars
<1>4. work' = [r \in Revisions |-> IF Unsubmitted(r) THEN Reopened(work[r]) ELSE work[r]]
  BY DEF ReconcileUnsubmitted
<1>5. \A r \in Revisions :
        \/ work'[r] = work[r]
        \/ /\ Unsubmitted(r) /\ work'[r] = Reopened(work[r])
           /\ work'[r] \in Row /\ RowFine(work'[r]) /\ work'[r].state = "queued"
  BY <1>2, <1>4, ReopenedFine
<1>6. QueueFine'
  <2>1. \A r \in Revisions : work'[r] \in Row /\ RowFine(work'[r])
    BY <1>5 DEF IInv, QueueFine
  <2> QED BY <1>4, <2>1 DEF QueueFine, RowFine
<1>7. Stays
  BY <1>5 DEF Stays, Unsubmitted
<1> QED BY <1>1, <1>3, <1>6, <1>7 DEF StepFine

LEMMA ClaimStep ==
  ASSUME IInv, NEW w \in Workers, Claim(w)
  PROVE  StepFine
<1>1. PICK r \in Due(clock) :
        IF r \notin current
        THEN /\ work' = [work EXCEPT ![r].state = "superseded"]
             /\ task' = [task EXCEPT ![w] = Resting]
        ELSE /\ work' = [work EXCEPT ![r] = [work[r] EXCEPT !.state = "claimed",
                   !.claim = work[r].claims + 1, !.claims = work[r].claims + 1,
                   !.lease = clock + Lease]]
             /\ task' = [task EXCEPT ![w] = [Idle EXCEPT
                   !.step = IF listing[r] = "none" THEN "claimed" ELSE "listed",
                   !.rev = r, !.claim = work[r].claims + 1, !.now = clock]]
  BY DEF Claim
<1>2. /\ UNCHANGED <<budgetVars, dataVars>> /\ UNCHANGED call
      /\ clock \in Nat /\ w \in Callers /\ task[w].step = "idle"
      /\ call[w].pc = "silent"
  <2>1. UNCHANGED <<budgetVars, dataVars>> /\ UNCHANGED call
    BY DEF Claim, budgetVars
  <2>2. clock \in Nat
    BY BudgetAssumption DEF IInv, BudgetIInv, BudgetTypeOK
  <2>3. w \in Callers /\ task[w].step = "idle"
    BY RecoveryAssumption DEF Claim, At
  <2>4. call[w].pc = "silent"
    BY <2>3 DEF IInv, TasksFine, DoingFine, Asking
  <2> QED BY <2>1, <2>2, <2>3, <2>4
<1>3. ListsFine' /\ Sanctioned
  BY <1>2, ListsUntouched DEF IInv
<1>4. /\ r \in Revisions /\ work[r].state \in {"queued", "deferred", "claimed"}
      /\ work[r] \in Row /\ RowFine(work[r])
  BY DEF Due, IInv, QueueFine
<1>5. CASE r \notin current
  <2> DEFINE row == [work[r] EXCEPT !.state = "superseded"]
  <2>1. row \in Row /\ RowFine(row) /\ row.state = "superseded"
    BY <1>4 DEF Row, RowFine, WorkStates, Ended
  <2>2. work' = [work EXCEPT ![r] = row]
    BY <1>1, <1>5
  <2>3. QueueFine' /\ Stays
    <3> HIDE DEF row
    <3> QED BY <1>4, <2>1, <2>2, RowWritten DEF IInv, Ended
  <2>4. TasksKept
    BY <1>1, <1>2, <1>5, Rests DEF IInv
  <2> QED BY <1>2, <1>3, <2>3, <2>4 DEF StepFine
<1>6. CASE r \in current
  <2> DEFINE n == work[r].claims + 1
             row == [work[r] EXCEPT !.state = "claimed", !.claim = n, !.claims = n,
                                    !.lease = clock + Lease]
             step == IF listing[r] = "none" THEN "claimed" ELSE "listed"
             d == [Idle EXCEPT !.step = step, !.rev = r, !.claim = n, !.now = clock]
  <2>1. n \in Nat /\ n # 0 /\ clock + Lease \in Nat
    BY <1>2, <1>4 DEF Row, Lease
  <2>2. row \in Row /\ RowFine(row) /\ row.state = "claimed"
    <3> HIDE DEF n
    <3> QED BY <1>4, <2>1 DEF Row, RowFine, WorkStates, Ended
  <2>3. /\ d \in Doing /\ d.step \in {"claimed", "listed"} /\ d.rev = r /\ d.claim = n
        /\ d.step \notin Asking
    <3>1. step \in {"claimed", "listed"}
      OBVIOUS
    <3> HIDE DEF n, step
    <3> QED BY <1>2, <1>4, <2>1, <3>1 DEF Idle, Doing, Asking, AtHand
  <2>4. work' = [work EXCEPT ![r] = row] /\ task' = [task EXCEPT ![w] = d]
    BY <1>1, <1>6
  <2>5. QueueFine' /\ Stays
    <3> HIDE DEF row
    <3> QED BY <1>4, <2>2, <2>4, RowWritten DEF IInv, Ended
  <2>6. TasksKept
    <3> HIDE DEF d, n
    <3> QED BY <1>2, <1>4, <2>1, <2>3, <2>4, TaskSet DEF IInv
  <2> QED BY <1>2, <1>3, <2>5, <2>6 DEF StepFine
<1> QED BY <1>5, <1>6

\* What a worker at work has.
LEMMA AtWork ==
  ASSUME IInv, NEW w \in Workers,
         task[w].step \in AtHand
  PROVE  /\ w \in Callers /\ task[w].claim # 0 /\ task[w].rev \in Revisions
         /\ task[w].step # "idle" /\ call[w].pc = "silent" /\ clock \in Nat
         /\ QueueFine /\ TasksFine /\ ListsFine
<1>1. w \in Callers
  BY RecoveryAssumption
<1>2. clock \in Nat
  BY BudgetAssumption DEF IInv, BudgetIInv, BudgetTypeOK
<1>3. /\ task[w].claim # 0 /\ task[w].rev \in Revisions
      /\ task[w].step # "idle" /\ call[w].pc = "silent"
  BY <1>1 DEF IInv, TasksFine, DoingFine, AtHand, Asking
<1> QED BY <1>1, <1>2, <1>3 DEF IInv

\* A worker that ends its tick with the work's row only.
LEMMA EndsTick ==
  ASSUME IInv, NEW w \in Workers,
         task[w].step \in AtHand,
         UNCHANGED <<budgetVars, dataVars>>,
         QueueFine' /\ Stays /\ task' = [task EXCEPT ![w] = Resting]
  PROVE  StepFine
<1>1. TasksKept
  BY AtWork, Rests DEF budgetVars
<1> QED BY <1>1, AtWork, ListsUntouched DEF StepFine

LEMMA FaultStep ==
  ASSUME IInv, NEW w \in Workers, Fault(w)
  PROVE  StepFine
BY AtWork, RetryKeeps, EndsTick DEF Fault, AtHand

LEMMA AppliedStep ==
  ASSUME IInv, NEW w \in Workers, Applied(w)
  PROVE  StepFine
<1>1. task[w].step = "applied" /\ Close(w, "applied", "none")
      /\ UNCHANGED <<budgetVars, dataVars>>
  BY DEF Applied, At
<1>0. task[w].step \in AtHand
  BY <1>1 DEF AtHand
<1>2. "applied" \in Ended /\ "none" \in Reasons
  BY DEF Ended, Reasons
<1> QED BY <1>0, <1>1, <1>2, AtWork, CloseKeeps, EndsTick

LEMMA LookStep ==
  ASSUME IInv, NEW w \in Workers, Look(w)
  PROVE  StepFine
<1> DEFINE r == task[w].rev
<1>1. /\ task[w].step = "claimed" /\ UNCHANGED dataVars
      /\ w \in Callers /\ task[w].claim # 0 /\ r \in Revisions
      /\ call[w].pc = "silent" /\ QueueFine /\ TasksFine /\ ListsFine
      /\ call \in [Callers -> [pc : {"silent", "asked", "sent", "refused", "answered"},
                           key : Keys \cup {"none"}, now : Nat,
                           attempt : 0 .. Len(attempts),
                           reply : AllOutcomes \cup {"none", "disabled"}]]
  BY AtWork DEF Look, At, AtHand, IInv, BudgetIInv, BudgetTypeOK
<1>0. /\ {"found", "deferring"} \subseteq Asking \cup AtHand /\ "calling" \in Asking
      /\ "found" \notin Asking /\ "deferring" \notin Asking
  BY DEF Asking, AtHand
<1>2. CASE UNCHANGED <<budgetVars, work>> /\ Then(w, "deferring")
  <2>1. 0 \in Nat
    OBVIOUS
  <2>2. TasksKept
    BY <1>0, <1>1, <1>2, <2>1, Continues DEF Then, budgetVars
  <2> QED BY <1>1, <1>2, <2>2, ListsUntouched, NothingWritten DEF StepFine
<1>3. CASE /\ UNCHANGED <<budgetVars, work>>
           /\ task' = [task EXCEPT ![w].step = "found", ![w].run = pending[r]]
  <2>1. pending[r] \in Nat
    BY <1>1 DEF ListsFine
  <2>2. TasksKept
    BY <1>0, <1>1, <1>3, <2>1, Continues DEF budgetVars
  <2> QED BY <1>1, <1>3, <2>2, ListsUntouched, NothingWritten DEF StepFine
<1>4. CASE Ask(w, r) /\ Then(w, "calling") /\ UNCHANGED work
  <2>1. /\ \A b \in Callers : b # w => call'[b] = call[b]
        /\ call'[w].pc = "asked"
    BY <1>1, <1>4 DEF Ask, Silent
  <2>2. TasksKept
    <3>1. 0 \in Nat
      OBVIOUS
    <3> QED BY <1>0, <1>1, <1>4, <2>1, <3>1, Continues DEF Then
  <2>3. BudgetNext
    BY <1>1, <1>4, RecoveryAssumption DEF BudgetNext
  <2> QED BY <1>1, <1>4, <2>2, <2>3, ListsUntouched, NothingWritten DEF StepFine
<1> QED BY <1>2, <1>3, <1>4 DEF Look

LEMMA RequestStep ==
  ASSUME IInv, NEW o \in Owners, NEW r \in Revisions, NEW k \in Requests,
         RequestProposal(o, r, k)
  PROVE  StepFine
<1>1. /\ o \in Callers /\ k \in Keys /\ Ask(o, k)
      /\ task' = [task EXCEPT ![o] = [Served(o) EXCEPT !.step = "calling", !.rev = r]]
      /\ UNCHANGED <<dataVars, work, upsets>>
  BY RecoveryAssumption DEF RequestProposal
<1>2. /\ \A b \in Callers : b # o => call'[b] = call[b]
      /\ call'[o].pc = "asked"
  BY <1>1 DEF Ask, Silent, IInv, BudgetIInv, BudgetTypeOK
<1>3. BudgetNext
  BY <1>1 DEF BudgetNext
<1> DEFINE d == [Served(o) EXCEPT !.step = "calling", !.rev = r]
<1>4. /\ d \in Doing /\ d.step = "calling" /\ d.rev = r /\ d.claim = 0
      /\ d.step \in Asking
  BY <1>1 DEF Served, Idle, Doing, Asking, IInv, TasksFine
<1>5. TasksKept
  <2> HIDE DEF d
  <2> QED BY <1>1, <1>2, <1>4, TaskSet DEF IInv, d
<1> QED BY <1>1, <1>3, <1>5, ListsUntouched, NothingWritten DEF StepFine, IInv

LEMMA CallStep ==
  ASSUME IInv, NEW c \in Callers, CallProvider(c)
  PROVE  StepFine
<1>1. BudgetNext /\ UNCHANGED <<dataVars, work, task, upsets>>
  BY DEF CallProvider, BudgetNext
<1>2. \A b \in Callers : call'[b].pc = "silent" <=> call[b].pc = "silent"
  <2>1. call \in [Callers -> [pc : {"silent", "asked", "sent", "refused", "answered"},
                           key : Keys \cup {"none"}, now : Nat,
                           attempt : 0 .. Len(attempts),
                           reply : AllOutcomes \cup {"none", "disabled"}]]
    BY DEF IInv, BudgetIInv, BudgetTypeOK
  <2>2. \A b \in Callers : b # c => call'[b] = call[b]
    BY <2>1 DEF CallProvider, Reserve, Finish, Send, Refuse
  <2>3. call[c].pc # "silent" /\ call'[c].pc # "silent"
    <3>1. CASE Reserve(c)
      BY <2>1, <3>1 DEF Reserve, Send, Refuse
    <3>2. CASE \E outcome \in Outcomes : Finish(c, outcome)
      BY <2>1, <3>2 DEF Finish
    <3> QED BY <3>1, <3>2 DEF CallProvider
  <2> QED BY <2>2, <2>3
<1>3. TasksKept
  BY <1>1, <1>2, TasksUntouched DEF IInv
<1> QED BY <1>1, <1>3, ListsUntouched, NothingWritten DEF StepFine, IInv

LEMMA CrashStep ==
  ASSUME IInv, NEW c \in Callers, Crash(c)
  PROVE  StepFine
<1>1. /\ Forget(c) /\ task' = [task EXCEPT ![c] = Idle] /\ UNCHANGED <<dataVars, work>>
  BY DEF Crash
<1>2. BudgetNext /\ clock \in Nat
  BY <1>1, BudgetAssumption DEF BudgetNext, IInv, BudgetIInv, BudgetTypeOK
<1>3. (\A b \in Callers : b # c => call'[b] = call[b]) /\ call'[c].pc = "silent"
  BY <1>1 DEF Forget, Silent, IInv, BudgetIInv, BudgetTypeOK
<1>4. TasksKept
  BY <1>1, <1>2, <1>3, Rests DEF IInv
<1> QED BY <1>1, <1>2, <1>4, ListsUntouched, NothingWritten DEF StepFine, IInv

\* The owner lists by hand, or the run failed.
LEMMA ByHandStep ==
  ASSUME IInv, NEW o \in Owners, NEW r \in Revisions, ApplyByHand(o, r)
  PROVE  StepFine
<1>1. UNCHANGED <<budgetVars, work, task>>
  BY DEF ApplyByHand
<1>2. QueueFine' /\ Stays /\ TasksKept
  BY <1>1, NothingWritten, TasksUntouched DEF IInv, budgetVars
<1>3. ListsFine' /\ Sanctioned
  <2>1. 0 \in 0 .. runs
    BY DEF IInv, ListsFine
  <2> QED BY <2>1 DEF ApplyByHand, Persist, IInv, ListsFine, Sanctioned
<1> QED BY <1>1, <1>2, <1>3 DEF StepFine

\* The answer is kept: by hand, or by the worker whose work it is.
LEMMA SaveStep ==
  ASSUME IInv, NEW c \in Callers, Save(c)
  PROVE  StepFine
<1> DEFINE r == task[c].rev
<1>1. /\ task[c].step = "calling" /\ Forget(c) /\ UNCHANGED <<current, listing, expired, cohort, upsets>>
      /\ r \in Revisions /\ task[c].step # "idle"
      /\ task[c].claim # 0 => c \in Workers
      /\ QueueFine /\ TasksFine /\ ListsFine /\ clock \in Nat
  BY BudgetAssumption
     DEF Save, At, IInv, TasksFine, DoingFine, BudgetIInv, BudgetTypeOK
<1>0. /\ {"found", "deferring"} \subseteq Asking \cup AtHand
      /\ "found" \notin Asking /\ "deferring" \notin Asking
  BY DEF Asking, AtHand
<1>2. BudgetNext
  BY <1>1 DEF BudgetNext
<1>3. (\A b \in Callers : b # c => call'[b] = call[b]) /\ call'[c].pc = "silent"
  BY <1>1 DEF Forget, Silent, IInv, BudgetIInv, BudgetTypeOK
<1>4. ListsFine' /\ Sanctioned /\ runs' \in Nat
  <2>1. CASE UNCHANGED <<pending, runs>>
    BY <1>1, <2>1, ListsUntouched DEF dataVars, offerVars, ListsFine
  <2>2. CASE runs' = runs + 1 /\ pending' = [pending EXCEPT ![r] = runs + 1]
    <3>1. runs' \in Nat /\ runs' \in 0 .. runs' /\ \A n \in 0 .. runs : n \in 0 .. runs'
      BY <1>1, <2>2 DEF ListsFine
    <3>2. pending' \in [Revisions -> 0 .. runs']
      BY <1>1, <2>2, <3>1 DEF ListsFine
    <3> QED BY <1>1, <3>1, <3>2 DEF ListsFine, Sanctioned
  <2> QED BY <2>1, <2>2 DEF Save
<1>5. CASE task' = [task EXCEPT ![c] = Served(c)] /\ UNCHANGED work
  <2>1. TasksKept
    BY <1>1, <1>3, <1>5, Rests
  <2> QED BY <1>1, <1>2, <1>4, <1>5, <2>1, NothingWritten DEF StepFine
<1>6. CASE task[c].claim # 0 /\ Then(c, "deferring") /\ UNCHANGED work
  <2>1. TasksKept
    <3>1. 0 \in Nat
      OBVIOUS
    <3> QED BY <1>0, <1>1, <1>3, <1>6, <3>1, Continues DEF Then
  <2> QED BY <1>1, <1>2, <1>4, <1>6, <2>1, NothingWritten DEF StepFine
<1>7. CASE task[c].claim # 0 /\ Close(c, "terminal", "proposal_rejected")
  <2>1. "terminal" \in Ended /\ "proposal_rejected" \in Reasons
    BY DEF Ended, Reasons
  <2>2. QueueFine' /\ Stays /\ task' = [task EXCEPT ![c] = Resting]
    BY <1>1, <1>7, <2>1, CloseKeeps
  <2>3. TasksKept
    BY <1>1, <1>3, <2>2, Rests
  <2> QED BY <1>2, <1>4, <2>2, <2>3 DEF StepFine
<1>8. CASE /\ task[c].claim # 0
           /\ task' = [task EXCEPT ![c].step = "found", ![c].run = runs + 1]
           /\ runs' = runs + 1 /\ UNCHANGED work
  <2>1. runs + 1 \in Nat
    BY <1>4, <1>8
  <2>2. TasksKept
    BY <1>0, <1>1, <1>3, <1>8, <2>1, Continues
  <2> QED BY <1>1, <1>2, <1>4, <1>8, <2>2, NothingWritten DEF StepFine
<1> QED BY <1>5, <1>6, <1>7, <1>8 DEF Save

\* defer_provider ends the work, or makes it wait.
PutOff(w) ==
  \/ \E why \in {"terminal", "uncertain"} :
       Checkpoint(w, "terminal", why, work[task[w].rev].next)
  \/ \E next \in Nat : Checkpoint(w, "deferred", "provider_window", next)

LEMMA Window ==
  ASSUME IInv, NEW w \in Callers
  PROVE  (IF account.day = Day(task[w].now) /\ account.used >= Ceiling
          THEN Later(account.next, NextDay(task[w].now)) ELSE account.next) \in Nat
<1>1. task[w].now \in Nat /\ account.next \in Nat
  BY DEF TasksFine, Doing, IInv, BudgetIInv, BudgetTypeOK
<1>2. NextDay(task[w].now) \in Nat
  BY <1>1, DayType, BudgetAssumption DEF NextDay
<1> QED BY <1>1, <1>2 DEF Later

LEMMA PutOffKeeps ==
  ASSUME IInv, NEW w \in Workers, task[w].step \in AtHand,
         UNCHANGED <<budgetVars, dataVars>>, PutOff(w)
  PROVE  StepFine
<1>1. /\ w \in Callers /\ task[w].claim # 0 /\ task[w].rev \in Revisions
      /\ task[w].step # "idle" /\ QueueFine /\ TasksFine
      /\ work[task[w].rev].next \in Moments
  BY AtWork DEF QueueFine, Row
<1>2. /\ "terminal" \in Ended /\ {"terminal", "uncertain", "provider_window"} \subseteq Reasons
      /\ Nat \subseteq Moments
  BY DEF Ended, Reasons, Moments
<1>3. QueueFine' /\ Stays /\ task' = [task EXCEPT ![w] = Resting]
  BY <1>1, <1>2, CheckpointKeeps DEF PutOff
<1> QED BY <1>3, EndsTick

\* What ends a tick with a settled work.
LEMMA CloseStep ==
  ASSUME IInv, NEW w \in Workers, task[w].step \in AtHand,
         UNCHANGED <<budgetVars, dataVars>>,
         NEW to \in Ended, NEW why \in Reasons, Close(w, to, why)
  PROVE  StepFine
<1>1. QueueFine' /\ Stays /\ task' = [task EXCEPT ![w] = Resting]
  BY AtWork, CloseKeeps
<1> QED BY <1>1, EndsTick

LEMMA DeferStep ==
  ASSUME IInv, NEW w \in Workers, Defer(w)
  PROVE  StepFine
<1>1. task[w].step \in AtHand /\ UNCHANGED <<budgetVars, dataVars>> /\ w \in Callers
  BY RecoveryAssumption DEF Defer, At, AtHand
<1>2. PutOff(w) \/ Close(w, "terminal", "proposal_rejected")
  BY <1>1, Window, Zenon DEF Defer, UnlessDeferred, PutOff
<1>3. "terminal" \in Ended /\ "proposal_rejected" \in Reasons
  BY DEF Ended, Reasons
<1> QED BY <1>1, <1>2, <1>3, PutOffKeeps, CloseStep

-----------------------------------------------------------------------------
\* The cohort of a work with a listing.
LEMMA Judged ==
  ASSUME NEW w, Judge(w)
  PROVE  \E to \in Ended, why \in Reasons : Close(w, to, why)
<1>1. /\ {"applied", "observed", "terminal"} \subseteq Ended
      /\ {"none", "validated_observation", "unsupported_or_failed_proposal"} \subseteq Reasons
  BY DEF Ended, Reasons
<1>2. \/ Close(w, "applied", "none") \/ Close(w, "observed", "validated_observation")
      \/ Close(w, "terminal", "unsupported_or_failed_proposal")
  BY Zenon DEF Judge
<1> QED BY <1>1, <1>2

LEMMA EnrollStep ==
  ASSUME IInv, NEW w \in Workers, Enroll(w)
  PROVE  StepFine
<1>1. /\ task[w].step \in AtHand /\ UNCHANGED <<budgetVars, offerVars>>
      /\ cohort[task[w].rev] = "none"
  BY DEF Enroll, At, AtHand
<1>2. CASE /\ \/ Close(w, "observed", "already_resolved_or_unsupported")
              \/ Close(w, "terminal", "protected_conflict")
              \/ Close(w, "terminal", "validation_or_snapshot")
           /\ UNCHANGED cohort
  <2>1. /\ {"observed", "terminal"} \subseteq Ended
        /\ {"already_resolved_or_unsupported", "protected_conflict",
            "validation_or_snapshot"} \subseteq Reasons
    BY DEF Ended, Reasons
  <2>2. UNCHANGED dataVars
    BY <1>1, <1>2 DEF dataVars
  <2> QED BY <1>1, <1>2, <2>1, <2>2, CloseStep
<1>3. CASE cohort' = [cohort EXCEPT ![task[w].rev] = "open"] /\ UNCHANGED <<work, task>>
  <2>1. ListsFine' /\ Sanctioned
    BY <1>1, <1>3, AtWork DEF ListsFine, Sanctioned, offerVars, Outcome
  <2>2. TasksKept
    BY <1>1, <1>3, AtWork, TasksUntouched DEF budgetVars
  <2> QED BY <1>1, <1>3, <2>1, <2>2, AtWork, NothingWritten DEF StepFine
<1> QED BY <1>2, <1>3 DEF Enroll

LEMMA ProcessStep ==
  ASSUME IInv, NEW w \in Workers, Process(w)
  PROVE  StepFine
<1> DEFINE r == task[w].rev
           step == IF AutoApply /\ CanaryPassed THEN "filling" ELSE "observing"
<1>1. /\ task[w].step \in AtHand /\ UNCHANGED offerVars
      /\ w \in Callers /\ task[w].claim # 0 /\ r \in Revisions
      /\ call[w].pc = "silent" /\ QueueFine /\ TasksFine /\ ListsFine
      /\ call \in [Callers -> [pc : {"silent", "asked", "sent", "refused", "answered"},
                           key : Keys \cup {"none"}, now : Nat,
                           attempt : 0 .. Len(attempts),
                           reply : AllOutcomes \cup {"none", "disabled"}]]
  <2>1. task[w].step \in AtHand /\ UNCHANGED offerVars
    BY DEF Process, At, AtHand
  <2> QED BY <2>1, AtWork DEF IInv, BudgetIInv, BudgetTypeOK
<1>2. /\ "weighing" \in AtHand /\ "weighing" \notin Asking
      /\ {"filling", "observing"} \subseteq Asking /\ task[w].step # "idle"
  BY <1>1 DEF Asking, AtHand
<1>3. CASE Then(w, "weighing") /\ UNCHANGED <<budgetVars, work>>
           /\ \/ UNCHANGED cohort
              \/ cohort[r] = "open" /\ cohort' = [cohort EXCEPT ![r] = "rejected"]
  <2>1. TasksKept
    <3>1. 0 \in Nat
      OBVIOUS
    <3> QED BY <1>1, <1>2, <1>3, <3>1, Continues DEF Then, budgetVars
  <2>2. ListsFine' /\ Sanctioned
    BY <1>1, <1>3 DEF ListsFine, Sanctioned, offerVars, Outcome
  <2> QED BY <1>1, <1>3, <2>1, <2>2, NothingWritten DEF StepFine
<1>4. CASE Judge(w) /\ UNCHANGED <<budgetVars, cohort>>
  <2>1. UNCHANGED <<budgetVars, dataVars>>
    BY <1>1, <1>4 DEF dataVars
  <2> QED BY <1>1, <1>4, <2>1, Judged, CloseStep
<1>5. CASE Ask(w, Enriching[r]) /\ Then(w, step) /\ UNCHANGED <<cohort, work>>
  <2>1. step \in {"filling", "observing"} /\ (step = "filling" => CanaryPassed)
    OBVIOUS
  <2>2. /\ \A b \in Callers : b # w => call'[b] = call[b]
        /\ call'[w].pc = "asked"
    BY <1>1, <1>5 DEF Ask, Silent
  <2>3. TasksKept
    <3> HIDE DEF step
    <3>1. 0 \in Nat
      OBVIOUS
    <3> QED BY <1>1, <1>2, <1>5, <2>1, <2>2, <3>1, Continues DEF Then
  <2>4. BudgetNext
    <3>1. Enriching[r] \in Keys
      BY <1>1, RecoveryAssumption
    <3> QED BY <1>1, <1>5, <3>1 DEF BudgetNext
  <2>5. UNCHANGED dataVars
    BY <1>1, <1>5 DEF dataVars
  <2> QED BY <1>1, <1>5, <2>3, <2>4, <2>5, ListsUntouched, NothingWritten DEF StepFine
<1> QED BY <1>3, <1>4, <1>5 DEF Process

\* Values are stored by those only who asked for them after the canary.
LEMMA CollectStep ==
  ASSUME IInv, NEW w \in Workers, Collect(w)
  PROVE  StepFine
<1> DEFINE r == task[w].rev
<1>1. /\ task[w].step \in {"observing", "filling"} /\ Forget(w) /\ Then(w, "weighing")
      /\ UNCHANGED <<offerVars, work, upsets>>
  BY DEF Collect
<1>2. /\ w \in Callers /\ task[w].claim # 0 /\ r \in Revisions /\ task[w].step # "idle"
      /\ QueueFine /\ TasksFine /\ ListsFine
  BY <1>1, RecoveryAssumption DEF IInv, TasksFine, DoingFine
<1>3. BudgetNext
  BY <1>1, <1>2 DEF BudgetNext
<1>4. (\A b \in Callers : b # w => call'[b] = call[b]) /\ call'[w].pc = "silent"
  BY <1>1, <1>2 DEF Forget, Silent, IInv, BudgetIInv, BudgetTypeOK
<1>5. TasksKept
  <2>1. "weighing" \in AtHand /\ "weighing" \notin Asking /\ 0 \in Nat
    BY DEF Asking, AtHand
  <2> QED BY <1>1, <1>2, <1>4, <2>1, Continues DEF Then
<1>6. ListsFine' /\ Sanctioned
  <2>1. CASE UNCHANGED cohort
    BY <1>1, <1>2, <2>1, ListsUntouched DEF dataVars
  <2>2. ASSUME cohort[r] \in {"open", "held"}, NEW outcome \in Outcome,
               At(w, "observing") => outcome \in {"rejected", "validated"},
               cohort' = [cohort EXCEPT ![r] = outcome]
        PROVE  ListsFine' /\ Sanctioned
    <3>1. outcome \in {"filled", "mixed"} => CanaryPassed
      BY <1>1, <1>2, <2>2 DEF At, IInv, FillsFine
    <3> QED BY <1>1, <1>2, <2>2, <3>1 DEF ListsFine, Sanctioned, offerVars, Outcome
  <2> QED BY <2>1, <2>2 DEF Collect
<1> QED BY <1>1, <1>2, <1>3, <1>5, <1>6, NothingWritten DEF StepFine

LEMMA WeighStep ==
  ASSUME IInv, NEW w \in Workers, Weigh(w)
  PROVE  StepFine
<1>1. task[w].step \in AtHand /\ UNCHANGED <<budgetVars, dataVars>> /\ w \in Callers
  BY RecoveryAssumption DEF Weigh, At, AtHand
<1>2. PutOff(w) \/ Judge(w)
  BY <1>1, Window, Zenon DEF Weigh, UnlessDeferred, PutOff
<1> QED BY <1>1, <1>2, PutOffKeeps, Judged, CloseStep

LEMMA ConcludeStep ==
  ASSUME IInv, NEW w \in Workers, Conclude(w)
  PROVE  StepFine
<1> DEFINE r == task[w].rev
<1>1. /\ task[w].step \in AtHand /\ UNCHANGED budgetVars
      /\ "applied" \in AtHand /\ "applied" \notin Asking
  BY DEF Conclude, At, AtHand, Asking
<1>2. /\ w \in Callers /\ task[w].claim # 0 /\ r \in Revisions
      /\ task[w].step # "idle" /\ call[w].pc = "silent"
      /\ QueueFine /\ TasksFine /\ ListsFine
  BY <1>1, AtWork
<1>3. ASSUME NEW to \in Ended, NEW why \in Reasons, Close(w, to, why), UNCHANGED dataVars
      PROVE  StepFine
  <2>1. QueueFine' /\ Stays /\ task' = [task EXCEPT ![w] = Resting]
    BY <1>2, <1>3, CloseKeeps
  <2> QED BY <1>1, <1>3, <2>1, EndsTick
<1>4. CASE /\ MayApply(task[w].run, r) /\ Persist("worker", r) /\ CanaryPassed
           /\ Then(w, "applied") /\ UNCHANGED work
  <2>1. ListsFine' /\ Sanctioned
    <3>1. 0 \in 0 .. runs
      BY <1>2 DEF ListsFine
    <3> QED BY <1>2, <1>4, <3>1 DEF Persist, ListsFine, Sanctioned
  <2>2. TasksKept
    <3>1. 0 \in Nat
      OBVIOUS
    <3> QED BY <1>1, <1>2, <1>4, <3>1, Continues DEF Then, budgetVars
  <2> QED BY <1>1, <1>2, <1>4, <2>1, <2>2, NothingWritten DEF StepFine
<1>5. CASE RetryLocal(w) /\ UNCHANGED dataVars
  <2>1. QueueFine' /\ Stays /\ task' = [task EXCEPT ![w] = Resting]
    BY <1>2, <1>5, RetryKeeps
  <2> QED BY <1>1, <1>5, <2>1, EndsTick
<1>6. /\ {"observed", "terminal"} \subseteq Ended
      /\ {"creation_calibration_required", "validated_observation",
          "validation_or_snapshot"} \subseteq Reasons
  BY DEF Ended, Reasons
<1>7. CASE Close(w, "observed", "creation_calibration_required") /\ UNCHANGED dataVars
  BY <1>3, <1>6, <1>7
<1>8. CASE Close(w, "observed", "validated_observation") /\ UNCHANGED dataVars
  BY <1>3, <1>6, <1>8
<1>9. CASE CanaryPassed /\ Apply(w)
  BY <1>3, <1>4, <1>5, <1>6, <1>9 DEF Apply
<1> QED BY <1>7, <1>8, <1>9 DEF Conclude

-----------------------------------------------------------------------------
LEMMA Initially == Init => IInv
<1> SUFFICES ASSUME Init PROVE IInv
  OBVIOUS
<1> USE DEF Init
<1>1. BudgetIInv
  BY BudgetInitially
<1>2. ListsFine
  BY RecoveryAssumption DEF ListsFine, Outcome
<1>3. QueueFine
  <2>1. 0 \in Moments
    BY DEF Moments
  <2>2. Absent \in Row /\ RowFine(Absent)
    BY <2>1 DEF Absent, Row, RowFine, Reasons, WorkStates, Ended
  <2> QED BY <2>2 DEF QueueFine
<1>4. TasksFine
  BY DEF TasksFine, Idle, Doing, DoingFine, Asking, BudgetInit, Silent
<1>5. CanaryFirst
  BY DEF CanaryFirst
<1>6. FillsFine
  BY DEF FillsFine, Idle
<1> QED BY <1>1, <1>2, <1>3, <1>4, <1>5, <1>6 DEF IInv

LEMMA Stuttering ==
  ASSUME IInv, UNCHANGED vars
  PROVE  StepFine
<1>1. UNCHANGED <<budgetVars, dataVars, work, task, call>>
  BY DEF vars, budgetVars
<1>2. ListsFine' /\ Sanctioned
  BY <1>1, ListsUntouched DEF IInv
<1>3. QueueFine' /\ Stays
  BY <1>1, NothingWritten DEF IInv
<1>4. TasksKept
  BY <1>1, TasksUntouched DEF IInv
<1> QED BY <1>1, <1>2, <1>3, <1>4 DEF StepFine

LEMMA Steps == IInv /\ [Next]_vars => StepFine
<1> SUFFICES ASSUME IInv, [Next]_vars PROVE StepFine
  OBVIOUS
<1>1. CASE Tick \/ \E r \in Revisions : Supersede(r) \/ Expire(r) \/ Hold(r) \/ Resume(r)
  BY <1>1, EnvironmentSteps
<1>2. CASE ReconcileUnsubmitted \/ Enqueue
  BY <1>2, ReconcileStep, EnqueueStep
<1>3. CASE \E c \in Callers : CallProvider(c) \/ Save(c) \/ Crash(c)
  BY <1>3, CallStep, SaveStep, CrashStep
<1>4. CASE \E w \in Workers :
             \/ Claim(w) \/ Look(w) \/ Defer(w) \/ Conclude(w) \/ Applied(w) \/ Fault(w)
             \/ Enroll(w) \/ Process(w) \/ Collect(w) \/ Weigh(w)
  BY <1>4, ClaimStep, LookStep, DeferStep, ConcludeStep, AppliedStep, FaultStep,
     EnrollStep, ProcessStep, CollectStep, WeighStep
<1>5. CASE \E o \in Owners, r \in Revisions :
             ApplyByHand(o, r) \/ \E k \in Requests : RequestProposal(o, r, k)
  BY <1>5, ByHandStep, RequestStep
<1>6. CASE UNCHANGED vars
  BY <1>6, Stuttering
<1> QED BY <1>1, <1>2, <1>3, <1>4, <1>5, <1>6 DEF Next

LEMMA IInvHolds == Spec => []IInv
<1>1. IInv /\ [Next]_vars => IInv'
  BY Steps, StepKeeps
<1> QED BY <1>1, Initially, PTL DEF Spec

-----------------------------------------------------------------------------
\* The rows hold values of their columns, and nothing is listed automatically
\* before the canary is validated, whatever its size.
THEOREM CanaryIsFirst == Spec => []AutomaticInv
<1>1. IInv => AutomaticInv
  BY DEF IInv, AutomaticInv, TypeOK, BudgetIInv, ListsFine, QueueFine, Row, RowFine,
         TasksFine, DoingFine, Asking
<1> QED BY <1>1, IInvHolds, PTL

\* Whatever workers, owners and their crashes do, the account, the ledger and the calls
\* see only a budgeted caller: the recovery implements the budget it shares.
THEOREM ImplementsBudget == Spec => BudgetSpec
<1>1. Init => BudgetInit
  BY DEF Init
<1>2. IInv /\ [Next]_vars => [BudgetNext]_budgetVars
  BY Steps DEF StepFine
<1> QED BY <1>1, <1>2, IInvHolds, PTL DEF Spec, BudgetSpec

\* Workers and owners together exceed no daily limit, though each reads the clock
\* before it waits for the lock, and send nothing again that may have been carried out.
THEOREM BudgetIsKept == Spec => [](DailyLimit /\ NeverResubmitted)
  BY ImplementsBudget, WithinBudget, PTL

\* Two calls start a minute apart, whoever makes them: a reservation is admitted
\* against the account that the last one left, not against the caller's own.  No two are
\* at the provider together: a lease outlasts its call, also when the process is gone.
THEOREM CallsAreApart == Spec => []CallsApart
  BY ImplementsBudget, WithinBudget, PTL DEF CallsApart

\* A work that ended is reopened only if nothing was sent for it and its cohort still
\* waits, and one that is claimed is ended by its last claimant only.
THEOREM OutcomeIsKept == Spec => OutcomeStays
<1> DEFINE S ==
      \A r \in Revisions :
       /\ work[r].state \in {"observed", "applied", "terminal"} /\ work'[r] # work[r] =>
            Unsubmitted(r) /\ work'[r].state = "queued"
       /\ work[r].state = "claimed" /\ work'[r].state \notin {"claimed", "superseded"} =>
            \E w \in Workers :
              task[w].rev = r /\ task[w].claim = work[r].claims /\ task'[w] # task[w]
<1>1. IInv /\ [Next]_vars => [S]_vars
  BY Steps DEF StepFine, Stays, Ended
<1> QED BY <1>1, IInvHolds, PTL DEF Spec, OutcomeStays

-----------------------------------------------------------------------------
(***************************************************************************)
(* The recovery work as a fenced lease: what a row has recorded, the token *)
(* it has to be settled with, and what a worker believes to hold.          *)
(***************************************************************************)
RecordOf(r) == IF r \in Over THEN work[r] ELSE Absent
TokenOf(r) == IF work[r].claim = 0 THEN {} ELSE {work[r].claim}
Holding(w) ==
  IF task[w].claim = 0 THEN [item |-> "none", token |-> {}]
  ELSE [item |-> task[w].rev, token |-> {task[w].claim}]

Recorded == [r \in Revisions |-> RecordOf(r)]
Tokens == [r \in Revisions |-> TokenOf(r)]
Holdings == [w \in Workers |-> Holding(w)]
leaseVars == <<Recorded, Tokens, Holdings>>

NothingElse(r, w) ==
  /\ \A j \in Revisions \ {r} : RecordOf(j)' = RecordOf(j) /\ TokenOf(j)' = TokenOf(j)
  /\ \A v \in Workers \ {w} : Holding(v)' = Holding(v)

\* The steps of a lease, from what they do to the one item and the one worker.
LEMMA ClaimMaps ==
  ASSUME NEW w \in Workers, NEW r \in Revisions, NothingElse(r, w),
         Holding(w) = Fence!Idle, RecordOf(r) = Absent, RecordOf(r)' = Absent,
         TokenOf(r)' # {}, \A v \in Workers : Holding(v) # [item |-> r, token |-> TokenOf(r)'],
         Holding(w)' = [item |-> r, token |-> TokenOf(r)']
  PROVE  Fence!Next
<1>1. /\ Holdings[w] = Fence!Idle /\ Recorded[r] = Absent
      /\ \A v \in Workers : Holdings[v] # [item |-> r, token |-> Tokens'[r]]
      /\ Tokens'[r] # {}
  BY DEF Holdings, Recorded, Tokens
<1>2. Tokens' = [Tokens EXCEPT ![r] = Tokens'[r]]
  BY DEF Tokens, NothingElse
<1>3. Holdings' = [Holdings EXCEPT ![w] = [item |-> r, token |-> Tokens'[r]]]
  BY DEF Holdings, Tokens, NothingElse
<1>4. Recorded' = Recorded
  BY DEF Recorded, NothingElse
<1> QED BY <1>1, <1>2, <1>3, <1>4
        DEF Fence!Next, Fence!Claim, Holdings, Recorded, Tokens, Holding, RecordOf, TokenOf

LEMMA FinishMaps ==
  ASSUME NEW w \in Workers, NEW r \in Revisions, NothingElse(r, w),
         TokenOf(r) # {}, Holding(w) = [item |-> r, token |-> TokenOf(r)],
         RecordOf(r) = Absent, TokenOf(r)' = {}, Holding(w)' = Fence!Idle
  PROVE  Fence!Next
<1>1. /\ Tokens[r] # {} /\ Holdings[w] = [item |-> r, token |-> Tokens[r]]
      /\ Recorded[r] = Absent
  BY DEF Holdings, Recorded, Tokens
<1>2. Tokens' = [Tokens EXCEPT ![r] = {}]
  BY DEF Tokens, NothingElse
<1>3. Holdings' = [Holdings EXCEPT ![w] = Fence!Idle]
  BY DEF Holdings, NothingElse
<1>4. Recorded' = [Recorded EXCEPT ![r] = Recorded'[r]]
  BY DEF Recorded, NothingElse
<1> QED BY <1>1, <1>2, <1>3, <1>4
        DEF Fence!Next, Fence!Finish, Holdings, Recorded, Tokens, Holding, RecordOf, TokenOf

LEMMA AbandonMaps ==
  ASSUME NEW w \in Workers, Holding(w)' = Fence!Idle,
         \A v \in Workers \ {w} : Holding(v)' = Holding(v),
         \A r \in Revisions : RecordOf(r)' = RecordOf(r) /\ TokenOf(r)' = TokenOf(r)
  PROVE  Fence!Next
<1>1. Holdings' = [Holdings EXCEPT ![w] = Fence!Idle]
  BY DEF Holdings
<1>2. Recorded' = Recorded /\ Tokens' = Tokens
  BY DEF Recorded, Tokens
<1> QED BY <1>1, <1>2
        DEF Fence!Next, Fence!Abandon, Holdings, Recorded, Tokens, Holding, RecordOf, TokenOf

LEMMA ArrangeMaps ==
  ASSUME \A w \in Workers : Holding(w)' = Holding(w),
         \A r \in Revisions : TokenOf(r)' \in {{}, TokenOf(r)},
         \A r \in Revisions : RecordOf(r) # Absent \/ TokenOf(r) # {} => RecordOf(r)' = RecordOf(r)
  PROVE  Fence!Next
<1> DEFINE R == {r \in Revisions : TokenOf(r)' = {}}
<1>1. R \in SUBSET Revisions /\ \A r \in Revisions : TokenOf(r)' = IF r \in R THEN {} ELSE TokenOf(r)
  OBVIOUS
<1> HIDE DEF R
<1>2. Holdings' = Holdings
  BY DEF Holdings
<1>3. Tokens' = [r \in Revisions |-> IF r \in R THEN {} ELSE TokenOf(r)]
  BY <1>1 DEF Tokens
<1>4. Recorded' = [r \in Revisions |->
        IF RecordOf(r) = Absent /\ TokenOf(r) = {} THEN RecordOf(r)' ELSE RecordOf(r)]
  BY DEF Recorded
<1>5. Fence!Arrange
  BY <1>1, <1>2, <1>3, <1>4
     DEF Fence!Arrange, Holdings, Recorded, Tokens, Holding, RecordOf, TokenOf
<1> QED BY <1>5 DEF Fence!Next

\* A step is no step of the lease when it touches neither what is recorded, nor a live
\* lease, nor a claim.
LEMMA LeaseUntouched ==
  ASSUME \A r \in Revisions : RecordOf(r)' = RecordOf(r) /\ TokenOf(r)' = TokenOf(r),
         \A w \in Workers : Holding(w)' = Holding(w)
  PROVE  UNCHANGED leaseVars
BY DEF leaseVars, Recorded, Tokens, Holdings

\* Calls are not forgotten, and what came of a cohort is not either.
LEMMA CallsKept ==
  ASSUME BudgetIInv, [BudgetNext]_budgetVars
  PROVE  \A i \in DOMAIN attempts : i \in DOMAIN attempts' /\ attempts'[i].key = attempts[i].key
<1> USE DEF BudgetIInv
<1>1. CASE UNCHANGED attempts
  BY <1>1
<1>2. attempts \in Seq(Attempt) /\ DOMAIN attempts = 1 .. Len(attempts) /\ Len(attempts) \in Nat
  BY Entries DEF BudgetTypeOK, Attempt
<1>3. ASSUME NEW c \in Callers, Reserve(c)
      PROVE  \A i \in DOMAIN attempts : i \in DOMAIN attempts' /\ attempts'[i].key = attempts[i].key
  <2> DEFINE now == call[c].now
             swept == Swept(now)
  <2>1. /\ swept \in Seq(Attempt) /\ Len(swept) = Len(attempts)
        /\ \A i \in DOMAIN attempts : swept[i].key = attempts[i].key
    BY SweptKeeps DEF BudgetTypeOK
  <2>2. \/ attempts' = swept
        \/ attempts' = Append(swept, [key |-> call[c].key, state |-> "submitting", at |-> now,
                                      next |-> 0])
    BY <1>3 DEF Reserve, Send
  <2> HIDE DEF swept
  <2>3. DOMAIN swept = 1 .. Len(attempts)
    BY <2>1, LenProperties
  <2>4. CASE attempts' = swept
    BY <1>2, <2>1, <2>3, <2>4
  <2>5. ASSUME NEW new, attempts' = Append(swept, new)
        PROVE  \A i \in DOMAIN attempts : i \in DOMAIN attempts' /\ attempts'[i].key = attempts[i].key
    BY <1>2, <2>1, <2>3, <2>5, SMTT(30)
  <2> QED BY <2>2, <2>4, <2>5
<1>4. ASSUME NEW c \in Callers, NEW outcome \in Outcomes, Finish(c, outcome)
      PROVE  \A i \in DOMAIN attempts : i \in DOMAIN attempts' /\ attempts'[i].key = attempts[i].key
  <2> DEFINE a == call[c].attempt
             new == Settled(a, outcome)
  <2>1. UNCHANGED attempts \/ attempts' = [attempts EXCEPT ![a] = new]
    BY <1>4 DEF Finish
  <2>2. CASE a \in DOMAIN attempts
    <3>1. new.key = attempts[a].key
      <4>1. attempts[a] \in Attempt
        BY <2>2, Entries DEF BudgetTypeOK
      <4> QED BY <4>1 DEF Settled, Attempt
    <3> HIDE DEF a, new
    <3> QED BY <2>1, <3>1
  <2>3. CASE a \notin DOMAIN attempts
    <3> HIDE DEF a, new
    <3> QED BY <2>1, <2>3
  <2> QED BY <2>2, <2>3
<1> QED BY <1>1, <1>3, <1>4 DEF BudgetNext, budgetVars, BudgetTick, Forget, Ask

LEMMA StaysTried ==
  ASSUME IInv, StepFine, NEW r \in Revisions, r \in Untried'
  PROVE  r \in Untried
<1>1. \A i \in DOMAIN attempts : i \in DOMAIN attempts' /\ attempts'[i].key = attempts[i].key
  BY CallsKept DEF IInv, StepFine
<1> QED BY <1>1 DEF StepFine, Sanctioned, Untried

\* What is recorded changes with the row only, or of a work that has no claim.
LEMMA RecordKept ==
  ASSUME IInv, StepFine, NEW r \in Revisions, work'[r] = work[r]
  PROVE  RecordOf(r)' = RecordOf(r) \/ (RecordOf(r) = Absent /\ TokenOf(r) = {})
<1>1. work[r].state \in Ended => work[r].claim = 0
  BY DEF IInv, QueueFine, RowFine
<1> QED BY <1>1, StaysTried DEF RecordOf, Over, TokenOf, Ended

\* Claims are numbered: no worker has a number that its row has not come to.  A worker
\* that is idle has no claim, and a row that was never queued is blank.
ClaimsFine ==
  /\ \A w \in Workers : task[w].claim # 0 =>
       task[w].step # "idle" /\ task[w].claim <= work[task[w].rev].claims
  /\ \A r \in Revisions : work[r].state = "none" => work[r] = Absent

\* What every step does to the lease.
LeaseFine == ClaimsFine' /\ (Fence!Next \/ UNCHANGED leaseVars)

\* Nobody begins or ends a claim.
LEMMA GoesOn ==
  ASSUME IInv, ClaimsFine,
         \A v \in Workers :
           /\ task'[v].claim = task[v].claim
           /\ task[v].claim # 0 => task'[v].rev = task[v].rev /\ task'[v].step # "idle",
         \A r \in Revisions :
           /\ work'[r].claim = work[r].claim /\ work'[r].claims = work[r].claims
           /\ RecordOf(r)' = RecordOf(r) \/ (RecordOf(r) = Absent /\ TokenOf(r) = {})
           /\ work'[r].state = "none" => work'[r] = Absent
  PROVE  LeaseFine
<1>1. \A w \in Workers : Holding(w)' = Holding(w)
  BY DEF Holding
<1>2. \A r \in Revisions : TokenOf(r)' = TokenOf(r)
  BY DEF TokenOf
<1>3. Fence!Next
  BY <1>1, <1>2, ArrangeMaps
<1>4. \A w \in Workers : task[w].claim # 0 => task[w].rev \in Revisions
  BY RecoveryAssumption DEF IInv, TasksFine, DoingFine
<1>5. ClaimsFine'
  BY <1>4 DEF ClaimsFine
<1> QED BY <1>3, <1>5 DEF LeaseFine

\* The same when no row is written.
LEMMA KeepsOn ==
  ASSUME IInv, ClaimsFine, StepFine, UNCHANGED work,
         \A v \in Workers :
           /\ task'[v].claim = task[v].claim
           /\ task[v].claim # 0 => task'[v].rev = task[v].rev /\ task'[v].step # "idle"
  PROVE  LeaseFine
<1>1. \A r \in Revisions :
        /\ RecordOf(r)' = RecordOf(r) \/ (RecordOf(r) = Absent /\ TokenOf(r) = {})
        /\ work'[r].state = "none" => work'[r] = Absent
  BY RecordKept DEF ClaimsFine
<1> QED BY <1>1, GoesOn

\* A worker with a claim ends its tick, or dies: the holder settles its row or gives it
\* back, the others leave no trace.
Unmoved == UNCHANGED <<cohort, attempts>>

LEMMA TickEnds ==
  ASSUME IInv, ClaimsFine, Unmoved, NEW w \in Workers, task[w].claim # 0,
         task' = [task EXCEPT ![w] = Resting] \/ task' = [task EXCEPT ![w] = Idle],
         \/ UNCHANGED work
         \/ Holds(w) /\ \E row :
              /\ row.claim = 0 /\ row.claims = work[task[w].rev].claims
              /\ row.state # "none"
              /\ work' = [work EXCEPT ![task[w].rev] = row]
  PROVE  LeaseFine
<1> PICK r \in Revisions : r = task[w].rev
  BY RecoveryAssumption DEF IInv, TasksFine, DoingFine
<1>1. /\ w \in Callers /\ work \in [Revisions -> Row]
      /\ task \in [Callers -> Doing] /\ RowFine(work[r])
      /\ \A v \in Workers : v \in Callers /\ (task[v].claim # 0 => task[v].rev \in Revisions)
  BY RecoveryAssumption DEF IInv, TasksFine, DoingFine, QueueFine
<1>2. Resting.claim = 0 /\ Idle.claim = 0
  BY DEF Resting, Idle
<1>3. task'[w].claim = 0 /\ \A v \in Workers \ {w} : task'[v] = task[v]
  BY <1>1, <1>2
<1>4. Holding(w)' = Fence!Idle /\ \A v \in Workers \ {w} : Holding(v)' = Holding(v)
  BY <1>3 DEF Holding, Fence!Idle
<1>5. CASE UNCHANGED work
  <2>1. Fence!Next
    BY <1>4, <1>5, AbandonMaps DEF RecordOf, TokenOf, Over, Untried, Unmoved
  <2>2. ClaimsFine'
    BY <1>1, <1>3, <1>5 DEF ClaimsFine
  <2> QED BY <2>1, <2>2 DEF LeaseFine
<1>6. ASSUME Holds(w), NEW row, row.claim = 0, row.claims = work[r].claims,
             row.state # "none", work' = [work EXCEPT ![r] = row]
      PROVE  LeaseFine
  <2>1. work'[r] = row /\ \A q \in Revisions \ {r} : work'[q] = work[q]
    BY <1>1, <1>6
  <2>2. ClaimsFine'
    BY <1>1, <1>3, <1>6, <2>1 DEF ClaimsFine
  <2>3. /\ TokenOf(r) = {task[w].claim} /\ TokenOf(r) # {}
        /\ Holding(w) = [item |-> r, token |-> TokenOf(r)]
    BY <1>6 DEF Holds, TokenOf, Holding
  <2>4. RecordOf(r) = Absent
    BY <1>1, <1>6 DEF Holds, RecordOf, Over, RowFine, Ended
  <2>5. TokenOf(r)' = {}
    BY <1>6, <2>1 DEF TokenOf
  <2>6. NothingElse(r, w)
    BY <1>4, <2>1 DEF NothingElse, RecordOf, TokenOf, Over, Untried, Unmoved
  <2>7. Fence!Next
    BY <1>1, <1>4, <2>3, <2>4, <2>5, <2>6, FinishMaps
  <2> QED BY <2>2, <2>7 DEF LeaseFine
<1> QED BY <1>5, <1>6

LEMMA CheckpointMaps ==
  ASSUME IInv, ClaimsFine, Unmoved, NEW w \in Workers, task[w].claim # 0,
         NEW to, to # "none", NEW why, NEW next, Checkpoint(w, to, why, next)
  PROVE  LeaseFine
<1> DEFINE r == task[w].rev
           row == [work[r] EXCEPT !.state = to, !.reason = why, !.claim = 0,
                                  !.lease = 0, !.next = next]
<1>1. work[r] \in Row
  BY RecoveryAssumption DEF IInv, TasksFine, DoingFine, QueueFine
<1>2. row.claim = 0 /\ row.claims = work[r].claims /\ row.state = to
  BY <1>1 DEF Row
<1>3. /\ task' = [task EXCEPT ![w] = Resting]
      /\ UNCHANGED work \/ (Holds(w) /\ work' = [work EXCEPT ![r] = row])
  BY DEF Checkpoint
<1> HIDE DEF row
<1> QED BY <1>2, <1>3, TickEnds

LEMMA CloseMaps ==
  ASSUME IInv, ClaimsFine, Unmoved, NEW w \in Workers, task[w].claim # 0,
         NEW to, to # "none", NEW why, Close(w, to, why)
  PROVE  LeaseFine
<1>1. CASE work[task[w].rev].state = "claimed"
  BY <1>1, CheckpointMaps DEF Close
<1>2. CASE work[task[w].rev].state # "claimed"
  BY <1>2, TickEnds DEF Close
<1> QED BY <1>1, <1>2

LEMMA RetryMaps ==
  ASSUME IInv, ClaimsFine, Unmoved, NEW w \in Workers, task[w].claim # 0, RetryLocal(w)
  PROVE  LeaseFine
<1> DEFINE r == task[w].rev
           n == work[r].failures
           next == task[w].now + Pace * 2 ^ n
           to == IF n >= 2 THEN "terminal" ELSE "deferred"
           why == IF n >= 2 THEN "systemic_failure" ELSE "local_retry"
           row == [work[r] EXCEPT !.failures = n + 1, !.state = to, !.reason = why,
                                  !.next = next, !.claim = 0, !.lease = 0]
<1>1. work[r] \in Row
  BY RecoveryAssumption DEF IInv, TasksFine, DoingFine, QueueFine
<1>2. task' = [task EXCEPT ![w] = Resting]
  BY DEF RetryLocal
<1>3. UNCHANGED work \/ (Holds(w) /\ work' = [work EXCEPT ![r] = row])
  BY Zenon DEF RetryLocal
<1>4. \A f, s, y, x :
        LET e == [work[r] EXCEPT !.failures = f, !.state = s, !.reason = y, !.next = x,
                                 !.claim = 0, !.lease = 0]
        IN  e.claim = 0 /\ e.claims = work[r].claims /\ e.state = s
  BY <1>1 DEF Row
<1>5. to # "none"
  OBVIOUS
<1> HIDE DEF n, next, to, why
<1>6. row.claim = 0 /\ row.claims = work[r].claims /\ row.state # "none"
  BY <1>4, <1>5
<1> HIDE DEF row
<1> QED BY <1>2, <1>3, <1>6, TickEnds

\* A worker or a request proceeds under the claim it has, or has none.
LEMMA ProceedMaps ==
  ASSUME IInv, ClaimsFine, StepFine, UNCHANGED work, NEW c \in Callers, NEW d,
         task' = [task EXCEPT ![c] = d],
         d.claim = task[c].claim,
         d.claim # 0 => d.rev = task[c].rev /\ d.step # "idle"
  PROVE  LeaseFine
<1>1. \A v \in Workers : v \in Callers /\ task'[v] = IF v = c THEN d ELSE task[v]
  BY RecoveryAssumption DEF IInv, TasksFine
<1> QED BY <1>1, KeepsOn DEF ClaimsFine

LEMMA ThenMaps ==
  ASSUME IInv, ClaimsFine, StepFine, UNCHANGED work, NEW c \in Callers, NEW step, step # "idle",
         \/ Then(c, step)
         \/ \E run : task' = [task EXCEPT ![c].step = step, ![c].run = run]
  PROVE  LeaseFine
<1>1. task \in [Callers -> Doing] /\ task[c] \in Doing
  BY DEF IInv, TasksFine
<1>2. CASE Then(c, step)
  <2> DEFINE d == [task[c] EXCEPT !.step = step]
  <2>1. d.claim = task[c].claim /\ d.rev = task[c].rev /\ d.step = step
    BY <1>1 DEF Doing
  <2>2. task' = [task EXCEPT ![c] = d]
    BY <1>1, <1>2 DEF Then
  <2> HIDE DEF d
  <2> QED BY <2>1, <2>2, ProceedMaps
<1>3. ASSUME NEW run, task' = [task EXCEPT ![c].step = step, ![c].run = run]
      PROVE  LeaseFine
  <2> DEFINE d == [task[c] EXCEPT !.step = step, !.run = run]
  <2>1. d.claim = task[c].claim /\ d.rev = task[c].rev /\ d.step = step
    BY <1>1 DEF Doing
  <2>2. task' = [task EXCEPT ![c] = d]
    BY <1>1, <1>3
  <2> HIDE DEF d
  <2> QED BY <2>1, <2>2, ProceedMaps
<1> QED BY <1>2, <1>3

-----------------------------------------------------------------------------
LEMMA ReconcileMaps ==
  ASSUME IInv, ClaimsFine, ReconcileUnsubmitted
  PROVE  LeaseFine
<1>1. UNCHANGED <<task, cohort, attempts>>
  BY DEF ReconcileUnsubmitted, budgetVars, dataVars
<1>2. clock \in Nat /\ work \in [Revisions -> Row]
  BY BudgetAssumption DEF IInv, BudgetIInv, BudgetTypeOK, QueueFine
<1>3. work' = [r \in Revisions |-> IF Unsubmitted(r) THEN Reopened(work[r]) ELSE work[r]]
  BY DEF ReconcileUnsubmitted
<1>4. ASSUME NEW r \in Revisions
      PROVE  /\ work'[r].claim = work[r].claim /\ work'[r].claims = work[r].claims
             /\ RecordOf(r)' = RecordOf(r)
             /\ work'[r].state = "none" => work'[r] = Absent
  <2>1. CASE ~Unsubmitted(r)
    <3>1. work'[r] = work[r]
      BY <1>3, <2>1
    <3> QED BY <1>1, <3>1 DEF ClaimsFine, RecordOf, Over, Untried
  <2>2. CASE Unsubmitted(r)
    <3>1. work'[r] = Reopened(work[r]) /\ work[r] \in Row
      BY <1>2, <1>3, <2>2
    <3>2. work'[r].state = "queued" /\ work'[r].claim = 0 /\ work'[r].claims = work[r].claims
      BY <1>2, <3>1, ReopenedFine
    <3>3. work[r].claim = 0
      BY <2>2 DEF Unsubmitted, IInv, QueueFine, RowFine, Ended
    <3>4. RecordOf(r) = Absent /\ RecordOf(r)' = Absent
      BY <2>2, <3>2 DEF Unsubmitted, RecordOf, Over
    <3> QED BY <3>2, <3>3, <3>4
  <2> QED BY <2>1, <2>2
<1> QED BY <1>1, <1>4, GoesOn DEF ClaimsFine

LEMMA QueueMaps ==
  ASSUME IInv, ClaimsFine, Enqueue
  PROVE  LeaseFine
<1>1. UNCHANGED <<task, cohort, attempts>>
  BY DEF Enqueue, budgetVars, dataVars
<1>2. \A r \in Revisions :
        \/ work'[r] = work[r]
        \/ work[r].state = "none" /\ work'[r] = [Absent EXCEPT !.state = "queued", !.next = clock]
  BY DEF Enqueue
<1>3. LET e == [Absent EXCEPT !.state = "queued", !.next = clock]
      IN  e.state = "queued" /\ e.claim = 0 /\ e.claims = 0
  BY DEF Absent
<1>4. Absent.claim = 0 /\ Absent.claims = 0
  BY DEF Absent
<1>5. ASSUME NEW r \in Revisions
      PROVE  /\ work'[r].claim = work[r].claim /\ work'[r].claims = work[r].claims
             /\ RecordOf(r)' = RecordOf(r)
             /\ work'[r].state = "none" => work'[r] = Absent
  <2>1. CASE work'[r] = work[r]
    BY <1>1, <2>1 DEF ClaimsFine, RecordOf, Over, Untried
  <2>2. CASE work[r].state = "none" /\ work'[r] = [Absent EXCEPT !.state = "queued", !.next = clock]
    BY <1>3, <1>4, <2>2 DEF ClaimsFine, RecordOf, Over
  <2> QED BY <1>2, <2>1, <2>2
<1> QED BY <1>1, <1>5, GoesOn DEF ClaimsFine

\* A claim takes a number that nobody has had; work that is not current is disposed of.
LEMMA ClaimsMap ==
  ASSUME IInv, ClaimsFine, NEW w \in Workers, Claim(w)
  PROVE  LeaseFine
<1>1. PICK r \in Due(clock) :
        IF r \notin current
        THEN /\ work' = [work EXCEPT ![r].state = "superseded"]
             /\ task' = [task EXCEPT ![w] = Resting]
        ELSE /\ work' = [work EXCEPT ![r] = [work[r] EXCEPT !.state = "claimed",
                   !.claim = work[r].claims + 1, !.claims = work[r].claims + 1,
                   !.lease = clock + Lease]]
             /\ task' = [task EXCEPT ![w] = [Idle EXCEPT
                   !.step = IF listing[r] = "none" THEN "claimed" ELSE "listed",
                   !.rev = r, !.claim = work[r].claims + 1, !.now = clock]]
  BY DEF Claim
<1>2. /\ r \in Revisions /\ work[r].state \in {"queued", "deferred", "claimed"}
      /\ work \in [Revisions -> Row] /\ work[r].claims \in Nat
      /\ task \in [Callers -> Doing] /\ w \in Callers
      /\ \A v \in Workers : v \in Callers /\ task[v].claim \in Nat
      /\ \A q \in Revisions : work[q].claims \in Nat
  BY RecoveryAssumption DEF Due, IInv, QueueFine, TasksFine, Row, Doing
<1>0. UNCHANGED <<cohort, attempts>>
  BY DEF Claim, budgetVars, dataVars
<1>3. task[w].claim = 0
  BY DEF Claim, At, ClaimsFine
<1>4. \A q \in Revisions \ {r} : work'[q] = work[q]
  BY <1>1, <1>2
<1>5. CASE r \notin current
  <2>1. /\ work'[r].state = "superseded" /\ work'[r].claim = work[r].claim
        /\ work'[r].claims = work[r].claims
    BY <1>1, <1>2, <1>5 DEF Row
  <2>2. \A q \in Revisions :
          /\ work'[q].claim = work[q].claim /\ work'[q].claims = work[q].claims
          /\ RecordOf(q)' = RecordOf(q)
          /\ work'[q].state = "none" => work'[q] = Absent
    BY <1>0, <1>2, <1>4, <2>1 DEF RecordOf, Over, Untried, ClaimsFine
  <2>3. \A v \in Workers :
          /\ task'[v].claim = task[v].claim
          /\ task[v].claim # 0 => task'[v].rev = task[v].rev /\ task'[v].step # "idle"
    <3>1. Resting.claim = 0
      BY DEF Resting, Idle
    <3> QED BY <1>1, <1>2, <1>3, <1>5, <3>1 DEF ClaimsFine
  <2> QED BY <2>2, <2>3, GoesOn
<1>6. CASE r \in current
  <2> DEFINE n == work[r].claims + 1
             step == IF listing[r] = "none" THEN "claimed" ELSE "listed"
             d == [Idle EXCEPT !.step = step, !.rev = r, !.claim = n, !.now = clock]
             row == [work[r] EXCEPT !.state = "claimed", !.claim = n, !.claims = n,
                                    !.lease = clock + Lease]
  <2>1. d.claim = n /\ d.rev = r /\ d.step # "idle"
    BY DEF Idle
  <2>2. row.state = "claimed" /\ row.claim = n /\ row.claims = n
    BY <1>2 DEF Row
  <2>3. work' = [work EXCEPT ![r] = row] /\ task' = [task EXCEPT ![w] = d]
    BY <1>1, <1>6
  <2>4. n \in Nat /\ n # 0 /\ n > work[r].claims
    BY <1>2
  <2> HIDE DEF n, d, row
  <2>5. /\ work'[r] = row /\ task'[w] = d
        /\ \A v \in Workers \ {w} : task'[v] = task[v]
    BY <1>2, <2>3
  <2>6. /\ TokenOf(r)' = {n} /\ RecordOf(r) = Absent /\ RecordOf(r)' = Absent
        /\ Holding(w) = Fence!Idle /\ Holding(w)' = [item |-> r, token |-> {n}]
    BY <1>2, <1>3, <2>1, <2>2, <2>4, <2>5 DEF TokenOf, RecordOf, Over, Holding, Fence!Idle
  <2>7. NothingElse(r, w)
    BY <1>0, <1>4, <2>5 DEF NothingElse, RecordOf, Over, Untried, TokenOf, Holding
  <2>8. \A v \in Workers : Holding(v) # [item |-> r, token |-> {n}]
    <3> SUFFICES ASSUME NEW v \in Workers, Holding(v) = [item |-> r, token |-> {n}]
                 PROVE  FALSE
      OBVIOUS
    <3>1. task[v].claim # 0
      BY DEF Holding
    <3>2. task[v].rev = r /\ task[v].claim = n
      BY <3>1 DEF Holding
    <3>3. n <= work[r].claims
      BY <3>1, <3>2 DEF ClaimsFine
    <3> QED BY <1>2, <2>4, <3>3
  <2>9. Fence!Next
    BY <1>2, <2>6, <2>7, <2>8, ClaimMaps
  <2>10. ClaimsFine'
    <3>1. ASSUME NEW v \in Workers, task'[v].claim # 0
          PROVE  task'[v].step # "idle" /\ task'[v].claim <= work'[task'[v].rev].claims
      <4>1. CASE v = w
        BY <2>1, <2>2, <2>4, <2>5, <4>1
      <4>2. CASE v # w
        <5>1. task'[v] = task[v] /\ task[v].rev \in Revisions
          BY <2>5, <3>1, <4>2, RecoveryAssumption DEF IInv, TasksFine, DoingFine
        <5>2. work[task[v].rev].claims <= work'[task[v].rev].claims
          BY <1>2, <1>4, <2>2, <2>4, <2>5, <5>1
        <5>3. task[v].step # "idle" /\ task[v].claim <= work[task[v].rev].claims
          BY <3>1, <5>1 DEF ClaimsFine
        <5>4. work'[task[v].rev].claims \in Nat
          BY <1>2, <1>4, <2>2, <2>4, <2>5, <5>1
        <5> QED BY <1>2, <5>1, <5>2, <5>3, <5>4
      <4> QED BY <4>1, <4>2
    <3>2. \A q \in Revisions : work'[q].state = "none" => work'[q] = Absent
      BY <1>4, <2>2, <2>5 DEF ClaimsFine
    <3> QED BY <3>1, <3>2 DEF ClaimsFine
  <2> QED BY <2>9, <2>10 DEF LeaseFine
<1> QED BY <1>5, <1>6

\* Time, edits, the provider and the owner's decisions touch neither rows nor claims.
LEMMA OutsideMaps ==
  ASSUME IInv, ClaimsFine, StepFine, UNCHANGED <<work, task>>
  PROVE  LeaseFine
BY KeepsOn DEF ClaimsFine

LEMMA RequestMaps ==
  ASSUME IInv, ClaimsFine, StepFine, NEW o \in Owners, NEW r \in Revisions, NEW k \in Requests,
         RequestProposal(o, r, k)
  PROVE  LeaseFine
<1> DEFINE d == [Served(o) EXCEPT !.step = "calling", !.rev = r]
<1>1. /\ UNCHANGED work /\ o \in Callers /\ task' = [task EXCEPT ![o] = d]
      /\ task[o].step = "idle"
  BY RecoveryAssumption DEF RequestProposal, At
<1>2. task[o].claim = 0
  BY <1>1 DEF ClaimsFine, IInv, TasksFine, DoingFine
<1>3. d.claim = 0
  BY DEF Served, Idle
<1> HIDE DEF d
<1> QED BY <1>1, <1>2, <1>3, ProceedMaps

\* A process that dies, or a request that is answered.
LEMMA CrashMaps ==
  ASSUME IInv, ClaimsFine, StepFine, Unmoved, NEW c \in Callers, UNCHANGED work,
         \/ task' = [task EXCEPT ![c] = Idle]
         \/ task[c].claim = 0 /\ task' = [task EXCEPT ![c] = Served(c)]
  PROVE  LeaseFine
<1>1. Idle.claim = 0 /\ Served(c).claim = 0
  BY DEF Idle, Served
<1>2. CASE task[c].claim = 0
  BY <1>1, <1>2, ProceedMaps
<1>3. CASE task[c].claim # 0
  <2>1. c \in Workers
    BY <1>3 DEF IInv, TasksFine, DoingFine
  <2> QED BY <1>3, <2>1, TickEnds
<1> QED BY <1>2, <1>3

LEMMA SaveMaps ==
  ASSUME IInv, ClaimsFine, StepFine, NEW c \in Callers, Save(c)
  PROVE  LeaseFine
<1>0. Unmoved
  BY DEF Save, Forget, Unmoved
<1>1. CASE task[c].claim = 0 /\ task' = [task EXCEPT ![c] = Served(c)] /\ UNCHANGED work
  BY <1>0, <1>1, CrashMaps
<1>2. CASE Then(c, "deferring") /\ UNCHANGED work
  BY <1>2, ThenMaps
<1>3. CASE task[c].claim # 0 /\ Close(c, "terminal", "proposal_rejected")
  <2>1. c \in Workers
    BY <1>3 DEF IInv, TasksFine, DoingFine
  <2> QED BY <1>0, <1>3, <2>1, CloseMaps
<1>4. CASE task' = [task EXCEPT ![c].step = "found", ![c].run = runs + 1] /\ UNCHANGED work
  BY <1>4, ThenMaps
<1> QED BY <1>1, <1>2, <1>3, <1>4 DEF Save

LEMMA PutOffMaps ==
  ASSUME IInv, ClaimsFine, Unmoved, NEW w \in Workers, task[w].claim # 0, PutOff(w)
  PROVE  LeaseFine
<1>1. \E to \in {"terminal", "deferred"} : \E why, next : Checkpoint(w, to, why, next)
  BY DEF PutOff
<1> QED BY <1>1, CheckpointMaps

\* Work without a listing, and what any work ends with.
LEMMA WorkerMaps ==
  ASSUME IInv, ClaimsFine, StepFine, NEW w \in Workers,
         Look(w) \/ Defer(w) \/ Conclude(w) \/ Applied(w) \/ Fault(w)
  PROVE  LeaseFine
<1>1. task[w].step \in AtHand
  BY DEF Look, Defer, Conclude, Applied, Fault, At, AtHand
<1>2. task[w].claim # 0 /\ w \in Callers
  BY <1>1, AtWork
<1>3. CASE Look(w)
  <2>1. CASE UNCHANGED work /\ Then(w, "deferring")
    BY <1>2, <2>1, ThenMaps
  <2>2. CASE /\ UNCHANGED work
             /\ \E run : task' = [task EXCEPT ![w].step = "found", ![w].run = run]
    BY <1>2, <2>2, ThenMaps
  <2>3. CASE Then(w, "calling") /\ UNCHANGED work
    BY <1>2, <2>3, ThenMaps
  <2> QED BY <1>3, <2>1, <2>2, <2>3 DEF Look
<1>4. CASE Defer(w)
  <2>1. PutOff(w) \/ Close(w, "terminal", "proposal_rejected")
    BY <1>2, <1>4, Window, Zenon DEF Defer, UnlessDeferred, PutOff
  <2>2. Unmoved
    BY <1>4 DEF Defer, budgetVars, dataVars, Unmoved
  <2> QED BY <1>2, <2>1, <2>2, PutOffMaps, CloseMaps
<1>5. CASE Conclude(w)
  <2>1. Unmoved
    BY <1>5 DEF Conclude, Apply, Persist, budgetVars, dataVars, Unmoved
  <2>2. CASE \E to \in {"observed", "terminal"} : \E why : Close(w, to, why)
    BY <1>2, <2>1, <2>2, CloseMaps
  <2>3. CASE Then(w, "applied") /\ UNCHANGED work
    BY <1>2, <2>3, ThenMaps
  <2>4. CASE RetryLocal(w)
    BY <1>2, <2>1, <2>4, RetryMaps
  <2> QED BY <1>5, <2>2, <2>3, <2>4 DEF Conclude, Apply
<1>6. CASE Applied(w) \/ Fault(w)
  <2>1. Unmoved
    BY <1>6 DEF Applied, Fault, budgetVars, dataVars, Unmoved
  <2> QED BY <1>2, <1>6, <2>1, CloseMaps, RetryMaps DEF Applied, Fault
<1> QED BY <1>3, <1>4, <1>5, <1>6

LEMMA JudgeMaps ==
  ASSUME IInv, ClaimsFine, Unmoved, NEW w \in Workers, task[w].claim # 0, Judge(w)
  PROVE  LeaseFine
<1>1. PICK to \in Ended, why \in Reasons : Close(w, to, why)
  BY Judged
<1>2. to # "none"
  BY DEF Ended
<1> QED BY <1>1, <1>2, CloseMaps

\* Work with a listing.
LEMMA CohortMaps ==
  ASSUME IInv, ClaimsFine, StepFine, NEW w \in Workers,
         Enroll(w) \/ Process(w) \/ Collect(w) \/ Weigh(w)
  PROVE  LeaseFine
<1>1. /\ task[w].step \in {"listed", "observing", "filling", "weighing"}
      /\ task[w].claim # 0 /\ w \in Callers
  BY RecoveryAssumption DEF Enroll, Process, Collect, Weigh, At, IInv, TasksFine, DoingFine
<1>2. CASE Enroll(w)
  <2>1. CASE /\ \/ Close(w, "observed", "already_resolved_or_unsupported")
                \/ Close(w, "terminal", "protected_conflict")
                \/ Close(w, "terminal", "validation_or_snapshot")
             /\ UNCHANGED cohort
    <3>1. Unmoved
      BY <1>2, <2>1 DEF Enroll, budgetVars, Unmoved
    <3> QED BY <1>1, <2>1, <3>1, CloseMaps
  <2>2. CASE UNCHANGED <<work, task>>
    BY <2>2, OutsideMaps
  <2> QED BY <1>2, <2>1, <2>2 DEF Enroll
<1>3. CASE Process(w)
  <2>1. CASE Then(w, "weighing") /\ UNCHANGED work
    BY <1>1, <2>1, ThenMaps
  <2>2. CASE Judge(w) /\ UNCHANGED <<budgetVars, cohort>>
    <3>1. Unmoved
      BY <2>2 DEF budgetVars, Unmoved
    <3> QED BY <1>1, <2>2, <3>1, JudgeMaps
  <2>3. CASE (Then(w, "filling") \/ Then(w, "observing")) /\ UNCHANGED work
    BY <1>1, <2>3, ThenMaps
  <2> QED BY <1>3, <2>1, <2>2, <2>3 DEF Process
<1>4. CASE Collect(w)
  BY <1>1, <1>4, ThenMaps DEF Collect
<1>5. CASE Weigh(w)
  <2>1. PutOff(w) \/ Judge(w)
    BY <1>1, <1>5, Window, Zenon DEF Weigh, UnlessDeferred, PutOff
  <2>2. Unmoved
    BY <1>5 DEF Weigh, budgetVars, dataVars, Unmoved
  <2> QED BY <1>1, <2>1, <2>2, PutOffMaps, JudgeMaps
<1> QED BY <1>2, <1>3, <1>4, <1>5

LEMMA LeaseSteps == IInv /\ ClaimsFine /\ [Next]_vars => LeaseFine
<1> SUFFICES ASSUME IInv, ClaimsFine, [Next]_vars PROVE LeaseFine
  OBVIOUS
<1>0. StepFine
  BY Steps
<1>1. CASE \/ Tick \/ \E r \in Revisions : Supersede(r) \/ Expire(r) \/ Hold(r) \/ Resume(r)
           \/ \E c \in Callers : CallProvider(c)
           \/ \E o \in Owners, r \in Revisions : ApplyByHand(o, r)
           \/ UNCHANGED vars
  <2>1. UNCHANGED <<work, task>>
    BY <1>1 DEF Tick, Supersede, Expire, Hold, Resume, CallProvider, ApplyByHand, vars
  <2> QED BY <1>0, <2>1, OutsideMaps
<1>2. ASSUME NEW c \in Callers, Save(c) \/ Crash(c) PROVE LeaseFine
  <2>1. CASE Save(c)
    BY <1>0, <2>1, SaveMaps
  <2>2. CASE Crash(c)
    <3>1. Unmoved
      BY <2>2 DEF Crash, Forget, dataVars, Unmoved
    <3> QED BY <1>0, <2>2, <3>1, CrashMaps DEF Crash
  <2> QED BY <1>2, <2>1, <2>2
<1>3. CASE \E w \in Workers :
             \/ Claim(w) \/ Look(w) \/ Defer(w) \/ Conclude(w) \/ Applied(w) \/ Fault(w)
             \/ Enroll(w) \/ Process(w) \/ Collect(w) \/ Weigh(w)
  BY <1>0, <1>3, ClaimsMap, WorkerMaps, CohortMaps
<1>4. CASE \E o \in Owners, r \in Revisions : \E k \in Requests : RequestProposal(o, r, k)
  BY <1>0, <1>4, RequestMaps
<1> QED BY <1>1, <1>2, <1>3, <1>4, QueueMaps, ReconcileMaps DEF Next

\* The recovery work implements the fenced lease: a worker whose claim ran out and was
\* given away writes nothing, and a work is not reopened once a call was made for it or
\* its item was settled.
THEOREM RecoveryIsFenced == Spec => ImplementsLease
<1>1. Init => Fence!Init /\ ClaimsFine
  <2> SUFFICES ASSUME Init PROVE Fence!Init /\ ClaimsFine
    OBVIOUS
  <2>1. \A w \in Workers : task[w].claim = 0
    <3>1. \A w \in Workers : task[w] = Idle
      BY RecoveryAssumption DEF Init
    <3> QED BY <3>1 DEF Idle
  <2>2. \A w \in Workers : Holding(w) = Fence!Idle
    BY <2>1 DEF Holding, Fence!Idle
  <2>3. \A r \in Revisions : work[r] = Absent /\ Absent.state = "none" /\ Absent.claim = 0
    BY DEF Init, Absent
  <2>4. \A r \in Revisions : RecordOf(r) = Absent /\ TokenOf(r) = {}
    BY <2>3 DEF RecordOf, Over, TokenOf
  <2> QED BY <2>1, <2>2, <2>3, <2>4 DEF Fence!Init, ClaimsFine, RecordOf, TokenOf, Holding, Over
<1>2. IInv /\ ClaimsFine /\ [Next]_vars => ClaimsFine'
  BY LeaseSteps DEF LeaseFine
<1>3. IInv /\ ClaimsFine /\ [Next]_vars => [Fence!Next]_(Fence!vars)
  BY LeaseSteps
     DEF LeaseFine, leaseVars, Recorded, Tokens, Holdings, RecordOf, TokenOf, Holding, Fence!vars
<1> QED BY <1>1, <1>2, <1>3, IInvHolds, PTL DEF Spec, ImplementsLease, Fence!Spec

=============================================================================
