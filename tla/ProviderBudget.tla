---------------------------- MODULE ProviderBudget ----------------------------
(***************************************************************************)
(* The durable budget of one owner's AI provider calls                     *)
(* (infrastructure/provider_budget_store.py): every caller, in whatever    *)
(* process, reserves an attempt before it sends anything and settles it    *)
(* afterwards.  Reservations and settlements are transactions under one    *)
(* advisory lock; the HTTP call in between holds no lock, and its caller   *)
(* may die.  Time runs in minutes.                                         *)
(***************************************************************************)
EXTENDS FiniteSets, Integers, Sequences

CONSTANTS
  Callers,      \* workers and requests of the owner
  Keys,         \* work keys: the operation with its content
  Limit,        \* min(20, daily limit)
  Legacy,       \* calls of the first day made before the ledger existed
  DayLength,    \* a UTC day
  Outcomes,     \* what a call may come to, of AllOutcomes
  MaxTime       \* bound: the clock

\* What one call may come to: refused before anything was sent ("connect"),
\* answered, timed out, turned away, or answered with an error.
AllOutcomes == {"succeeded", "rate_limited", "connect", "timeout", "refused"}

ASSUME BudgetAssumption ==
  /\ Limit \in Nat /\ Legacy \in Nat
  /\ DayLength \in Nat \ {0} /\ MaxTime \in Nat
  /\ Outcomes \subseteq AllOutcomes

Pace == 1               \* sixty seconds between two calls
Lease == 2              \* a call is trusted to be over after two minutes
MaxSafeAttempts == 2

VARIABLES
  clock,
  account,    \* the owner's row of ai_provider_accounts
  attempts,   \* ai_provider_attempts, in the order of their reservation
  call        \* what each caller is doing with the provider

budgetVars == <<clock, account, attempts, call>>

Day(t) == t \div DayLength
NextDay(t) == (Day(t) + 1) * DayLength
Later(s, t) == IF s < t THEN t ELSE s

\* now: the clock as the caller read it; attempt: the reservation it holds.
Silent == [pc |-> "silent", key |-> "none", now |-> 0, attempt |-> 0, reply |-> "none"]
NoAccount == [open |-> FALSE, day |-> 0, used |-> 0, next |-> 0,
              attempt |-> 0, lease |-> 0]

BudgetInit ==
  /\ clock = 0
  /\ account = NoAccount
  /\ attempts = <<>>
  /\ call = [c \in Callers |-> Silent]

-----------------------------------------------------------------------------
\* BudgetedProvider.complete reads the clock, then waits for the lock.
Ask(c, k) ==
  /\ call[c].pc = "silent"
  /\ call' = [call EXCEPT ![c] = [Silent EXCEPT !.pc = "asked", !.key = k, !.now = clock]]
  /\ UNCHANGED <<clock, account, attempts>>

\* The row is opened by the first reservation, with the calls already made today.
Opened(now) ==
  IF account.open THEN account
  ELSE [NoAccount EXCEPT !.open = TRUE, !.day = Day(now), !.next = now,
                         !.used = IF Day(now) = 0 THEN Legacy ELSE 0]

Used(now) == IF Opened(now).day = Day(now) THEN Opened(now).used ELSE 0

Held(now) == account.attempt # 0 /\ account.lease > now

\* A reservation whose lease ran out before it was settled is of unknown effect.
Swept(now) ==
  IF account.attempt # 0 /\ ~Held(now) /\ attempts[account.attempt].state = "submitting"
  THEN [attempts EXCEPT ![account.attempt].state = "uncertain"]
  ELSE attempts

\* Mutant: the pace alone decides, whoever is still in flight.
EligibleByPace(now) == Opened(now).next

Eligible(now) ==
  IF Held(now) THEN Later(account.next, account.lease) ELSE Opened(now).next

Of(ledger, k) == {i \in DOMAIN ledger : ledger[i].key = k}
LastOf(ledger, k) == CHOOSE i \in Of(ledger, k) : \A j \in Of(ledger, k) : j <= i
Repeatable == {"retry", "rate_limited"}

\* Mutant: a lost answer counts as a call that was not carried out.
SpentUnlessLost(k, now) ==
  Of(attempts, k) # {} /\
    Swept(now)[LastOf(attempts, k)].state \notin Repeatable \cup {"uncertain"}

\* Only a key without attempt, or whose last one is known not to have been
\* carried out, may be sent again.
Spent(k, now) ==
  Of(attempts, k) # {} /\
    Swept(now)[LastOf(attempts, k)].state \notin Repeatable
Waiting(k, now) ==
  Of(attempts, k) # {} /\ attempts[LastOf(attempts, k)].next > now
\* Mutant: one call too many.
ExhaustedLate(now) == Used(now) > Limit
Exhausted(now) == Used(now) >= Limit

Refuse(c, reply) ==
  call' = [call EXCEPT ![c] = [@ EXCEPT !.pc = "refused", !.now = 0, !.reply = reply]]

Send(c, k, now) ==
  LET n == Len(attempts) + 1
  IN  /\ attempts' = Append(Swept(now), [key |-> k, state |-> "submitting", at |-> now,
                                         next |-> 0])
      /\ account' = [open |-> TRUE, day |-> Day(now), used |-> Used(now) + 1,
                     next |-> now + Pace, attempt |-> n, lease |-> now + Lease]
      /\ call' = [call EXCEPT ![c].pc = "sent", ![c].attempt = n]

Reserve(c) ==
  LET k == call[c].key now == call[c].now
  IN  /\ call[c].pc = "asked"
      /\ \/ /\ Spent(k, now)
            /\ attempts' = Swept(now) /\ account' = Opened(now)
            /\ Refuse(c, "disabled")
         \/ /\ ~Spent(k, now) /\ (Waiting(k, now) \/ Exhausted(now) \/ Eligible(now) > now)
            /\ attempts' = Swept(now)
            /\ account' = IF ~Waiting(k, now) /\ Exhausted(now)
                          THEN [Opened(now) EXCEPT !.next = Later(Eligible(now), NextDay(now))]
                          ELSE Opened(now)
            /\ Refuse(c, "rate_limited")
         \/ /\ ~Spent(k, now) /\ ~Waiting(k, now) /\ ~Exhausted(now)
            /\ Eligible(now) <= now
            /\ Send(c, k, now)
      /\ UNCHANGED clock

-----------------------------------------------------------------------------
Settled(i, outcome) ==
  LET next == CASE outcome = "rate_limited" -> NextDay(clock)
                [] outcome = "connect"      -> clock + Pace
                [] OTHER                    -> clock
      again == Cardinality({j \in Of(attempts, attempts[i].key) : j <= i}) < MaxSafeAttempts
      state == CASE outcome = "succeeded"         -> "succeeded"
                 [] outcome = "rate_limited"      -> "rate_limited"
                 [] outcome = "connect" /\ again  -> "retry"
                 [] outcome = "timeout"           -> "uncertain"
                 [] OTHER                         -> "terminal"
  IN  [attempts[i] EXCEPT !.state = state,
         !.next = IF state \in Repeatable THEN next ELSE clock]

\* finish: nothing is settled twice, and only the holder releases the lease.
Finish(c, outcome) ==
  LET i == call[c].attempt
  IN  /\ call[c].pc = "sent"
      /\ IF attempts[i].state # "submitting"
         THEN UNCHANGED <<account, attempts>>
         ELSE /\ attempts' = [attempts EXCEPT ![i] = Settled(i, outcome)]
              /\ account' = IF account.attempt # i THEN account
                            ELSE [account EXCEPT !.attempt = 0, !.lease = 0,
                                    !.next = Later(@, Settled(i, outcome).next)]
      /\ call' = [call EXCEPT ![c] = [@ EXCEPT !.pc = "answered", !.now = 0,
                                           !.attempt = 0, !.reply = outcome]]
      /\ UNCHANGED clock

\* The caller has used the answer, or is gone.
Forget(c) ==
  /\ call' = [call EXCEPT ![c] = Silent]
  /\ UNCHANGED <<clock, account, attempts>>

\* A call is over before its lease: the transport gives up after thirty seconds,
\* and the lock is not waited for much longer.
Prompt(c) == call[c].pc \in {"asked", "sent"} => clock < call[c].now + Lease - 1

BudgetTick ==
  /\ clock < MaxTime /\ \A c \in Callers : Prompt(c)
  /\ clock' = clock + 1
  /\ UNCHANGED <<account, attempts, call>>

BudgetNext ==
  \/ BudgetTick
  \/ \E c \in Callers :
       \/ Reserve(c) \/ Forget(c)
       \/ \E k \in Keys : Ask(c, k)
       \/ \E outcome \in Outcomes : Finish(c, outcome)

BudgetSpec == BudgetInit /\ [][BudgetNext]_budgetVars

-----------------------------------------------------------------------------
AttemptStates == {"submitting", "succeeded", "uncertain", "terminal"} \cup Repeatable

BudgetTypeOK ==
  /\ clock \in 0 .. MaxTime
  /\ account \in [open : BOOLEAN, day : Nat, used : Nat, next : Nat,
                  attempt : 0 .. Len(attempts), lease : Nat]
  /\ attempts \in Seq([key : Keys, state : AttemptStates, at : Nat, next : Nat])
  /\ call \in [Callers -> [pc : {"silent", "asked", "sent", "refused", "answered"},
                           key : Keys \cup {"none"}, now : Nat,
                           attempt : 0 .. Len(attempts),
                           reply : AllOutcomes \cup {"none", "disabled"}]]

\* No UTC day sees more calls than the owner's limit, whichever processes make
\* them, whatever clock they read before they waited for the lock, and though the
\* day of the account is moved by the callers.
DailyLimit ==
  \A d \in 0 .. Day(MaxTime) :
    Cardinality({i \in DOMAIN attempts : Day(attempts[i].at) = d})
      + (IF d = 0 THEN Legacy ELSE 0) <= Later(Limit, IF d = 0 THEN Legacy ELSE 0)

Paced ==
  \A i \in DOMAIN attempts : i + 1 \in DOMAIN attempts =>
    attempts[i + 1].at >= attempts[i].at + Pace

OneInFlight == Cardinality({c \in Callers : call[c].pc = "sent"}) <= 1

\* Calls start at least sixty seconds apart, and the provider works on one call of
\* the owner at a time, though a caller that died left its reservation behind.
CallsApart == Paced /\ OneInFlight

\* Work that may have been carried out is never sent again: all attempts of a key
\* but the last were answered with a refusal or did not reach the provider.
NeverResubmitted ==
  \A i, j \in DOMAIN attempts :
    i < j /\ attempts[i].key = attempts[j].key => attempts[i].state \in Repeatable
=============================================================================
