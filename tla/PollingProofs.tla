----------------------------- MODULE PollingProofs -----------------------------
(***************************************************************************)
(* Polling and sweep, for any pollers, ids, limits and faults: no gap is   *)
(* hidden below the boundary, and the history is certified only by a full  *)
(* traversal.                                                              *)
(***************************************************************************)
EXTENDS ChannelPolling, FiniteSetTheorems, WellFoundedInduction, TLAPS

Cycles ==
  [pc : {"idle", "forward", "landed", "sweep", "observe", "observed"},
   remote : 0 .. head, prev : 0 .. head, fetched : 0 .. ForwardLimit,
   ids : SUBSET (1 .. head), missed : SUBSET (1 .. head), token : Tokens \cup {0}]

Sweeping(p) == cycle[p].pc \in {"observe", "observed"}

\* Whatever a cycle has passed is in the archive, or gone from Telegram.
NoGap(n) == \A m \in 1 .. n : m \in landed \cup withdrawn
Passed == NoGap(polled) /\ \A p \in Pollers : NoGap(cycle[p].prev)

\* A batch has a token of its own as long as its poller is observing it.
Batches ==
  /\ \A p \in Pollers :
       IF Sweeping(p)
       THEN /\ cycle[p].token # 0 /\ cycle[p].ids # {} /\ cycle[p].ids \subseteq stored
            /\ cycle[p].missed \subseteq cycle[p].ids
       ELSE cycle[p].token = 0 /\ cycle[p].missed = {}
  /\ \A p, q \in Pollers :
       p # q /\ cycle[p].token # 0 => cycle[p].token # cycle[q].token

\* The batch of the current token has every id of the traversal from the cursor on.
Contiguous ==
  \A p \in Pollers : Sweeping(p) /\ cycle[p].token = token =>
    \A m \in roster, n \in cycle[p].ids : after < m /\ m <= n => m \in cycle[p].ids

\* The ids the traversal set out to observe, and those it has passed.
Traversal ==
  /\ roster \subseteq stored /\ \A m \in roster : m <= upper
  /\ unknown = 0 => \A m \in roster : m <= after => m \in classified

\* A message is fetched only while the page has room.
Counted == \A p \in Pollers : At(p, "landed") => cycle[p].fetched < ForwardLimit

IInv == TypeOK /\ Counted /\ Passed /\ Batches /\ Contiguous /\ Traversal

-----------------------------------------------------------------------------
\* A set of numbers has a smallest element, and a largest if it has a bound.
LEMMA Smallest ==
  ASSUME NEW S \in SUBSET Nat, S # {}
  PROVE  Min(S) \in S /\ \A m \in S : Min(S) <= m
<1>1. PICK k \in S : \A m \in S : ~(<<m, k>> \in OpToRel(<, Nat))
  BY NatLessThanWellFounded, WFMin
<1>2. \A m \in S : ~(m < k)
  <2>1. SUFFICES ASSUME NEW m \in S, m < k PROVE <<m, k>> \in OpToRel(<, Nat)
    BY <1>1, <2>1, Zenon
  <2>2. <<m, k>> \in Nat \X Nat /\ <<m, k>>[1] = m /\ <<m, k>>[2] = k
    OBVIOUS
  <2> QED BY <2>1, <2>2, Zenon DEF OpToRel
<1>3. \E x \in S : \A y \in S : x <= y
  BY <1>2
<1> QED BY <1>3 DEF Min

LEMMA Largest ==
  ASSUME NEW n \in Nat, NEW S \in SUBSET (0 .. n), S # {}
  PROVE  Max(S) \in S /\ \A m \in S : m <= Max(S)
<1> DEFINE T == {n - i : i \in S}
<1>1. T \in SUBSET Nat /\ T # {}
  <2>1. \A i \in S : n - i \in Nat
    OBVIOUS
  <2>2. PICK i \in S : TRUE
    OBVIOUS
  <2>3. n - i \in T
    BY <2>2
  <2> QED BY <2>1, <2>3
<1>2. Min(T) \in T /\ \A m \in T : Min(T) <= m
  <2> HIDE DEF T
  <2> QED BY <1>1, Smallest
<1>3. PICK k \in S : Min(T) = n - k
  BY <1>2
<1>4. \A m \in S : n - m \in T
  OBVIOUS
<1>5. \A m \in S : m <= k
  <2> HIDE DEF T
  <2> QED BY <1>2, <1>3, <1>4
<1>6. \E x \in S : \A y \in S : x >= y
  BY <1>5
<1> QED BY <1>6 DEF Max

\* There are more tokens than pollers, so that there is always a new one.
LEMMA Fresh ==
  ASSUME TypeOK, NEW p \in Pollers
  PROVE  /\ NewToken \in Tokens /\ NewToken # token /\ NewToken # 0
         /\ \A q \in Pollers : NewToken # cycle[q].token
<1> DEFINE f == [q \in Pollers |-> cycle[q].token]
           U == {cycle[q].token : q \in Pollers}
           n == Cardinality(Pollers)
<1>1. n \in Nat /\ n # 0
  <2>1. n \in Nat
    BY PollingAssumption, FS_CardinalityType
  <2> QED BY <2>1, PollingAssumption, FS_EmptySet
<1>2. IsFiniteSet(U) /\ Cardinality(U) <= n
  <2>1. f \in Surjection(Pollers, U)
    BY DEF Surjection
  <2> HIDE DEF f, U
  <2> QED BY <2>1, FS_Surjection, PollingAssumption
<1>3. IsFiniteSet(U \cup {token}) /\ Cardinality(U \cup {token}) <= n + 1
      /\ Cardinality(U \cup {token}) \in Nat
  <2> HIDE DEF U
  <2>1. IsFiniteSet(U \cup {token}) /\ Cardinality(U) \in Nat
    BY <1>2, FS_AddElement, FS_CardinalityType
  <2> QED BY <1>1, <1>2, <2>1, FS_AddElement, FS_CardinalityType
<1>4. Cardinality(Tokens) = 2 * n + 1
  <2>1. Cardinality(1 .. 2 * n + 1) = 2 * n + 1
    <3> HIDE DEF n
    <3> QED BY <1>1, FS_Interval
  <2> QED BY <2>1 DEF Tokens
<1>5. \E t \in Tokens : t \notin U \cup {token}
  <2>1. SUFFICES ASSUME Tokens \subseteq U \cup {token} PROVE FALSE
    OBVIOUS
  <2>2. Cardinality(Tokens) <= Cardinality(U \cup {token})
    <3> HIDE DEF U
    <3> QED BY <1>3, <2>1, FS_Subset
  <2> HIDE DEF U, n
  <2> QED BY <1>1, <1>3, <1>4, <2>2
<1>6. \E t \in Tokens : t # token /\ \A q \in Pollers : t # cycle[q].token
  BY <1>5
<1>7. 0 \notin Tokens
  BY DEF Tokens
<1> QED BY <1>6, <1>7 DEF NewToken

\* The ids that were posted never become fewer.
LEMMA CyclesGrow ==
  ASSUME head \in Nat, head' \in Nat, head <= head'
  PROVE  Cycles \subseteq Cycles' /\ 1 .. head \subseteq 1 .. head'
<1>1. 0 .. head \subseteq 0 .. head' /\ 1 .. head \subseteq 1 .. head'
  OBVIOUS
<1> QED BY <1>1 DEF Cycles, Tokens, ForwardLimit

LEMMA Initially == Init => IInv
<1> SUFFICES ASSUME Init PROVE IInv
  OBVIOUS
<1> USE DEF Init
<1>1. TypeOK
  <2>1. head \in 0 .. MaxId /\ head \in Nat
    BY PollingAssumption
  <2>2. ForwardLimit \in Nat
    BY PollingAssumption DEF ForwardLimit, Smaller
  <2>3. Idle \in Cycles
    BY <2>1, <2>2 DEF Idle, Cycles
  <2>4. cycle \in [Pollers -> Cycles]
    BY <2>3
  <2>5. stored \subseteq 1 .. head
    OBVIOUS
  <2>6. /\ withdrawn \subseteq 1 .. head /\ landed \subseteq 1 .. head
        /\ polled \in 0 .. head /\ after \in 0 .. head /\ upper \in 0 .. head
        /\ unknown \in Nat
        /\ token \in Tokens \cup {0} /\ defers \in Nat /\ crashes \in Nat
        /\ roster \subseteq 1 .. head /\ classified \subseteq roster \cup stored
    BY <2>1
  <2>7. limited \in BOOLEAN /\ leased \in BOOLEAN
    BY Zenon
  <2> QED BY ONLY <2>1, <2>4, <2>5, <2>6, <2>7 DEF TypeOK, Cycles
<1>2. Passed /\ Counted
  BY DEF Passed, NoGap, Idle, Counted, At
<1>3. Batches /\ Contiguous
  BY DEF Batches, Contiguous, Sweeping, Idle
<1>4. Traversal
  BY DEF Traversal
<1> QED BY <1>1, <1>2, <1>3, <1>4 DEF IInv

-----------------------------------------------------------------------------
\* Facts used throughout.
LEMMA Types ==
  ASSUME TypeOK
  PROVE  /\ head \in Nat /\ head <= MaxId /\ ForwardLimit \in Nat /\ ForwardLimit # 0
         /\ cycle \in [Pollers -> Cycles]
         /\ Idle \in Cycles
<1>1. head \in Nat /\ head <= MaxId
  BY PollingAssumption DEF TypeOK
<1>2. ForwardLimit \in Nat /\ ForwardLimit # 0
  BY PollingAssumption DEF ForwardLimit, Smaller
<1>3. cycle \in [Pollers -> Cycles]
  BY DEF TypeOK, Cycles
<1> QED BY <1>1, <1>2, <1>3 DEF Idle, Cycles

\* A step that leaves polling and sweeping alone keeps what is known of them.
LEMMA SourceKeeps ==
  ASSUME IInv, UNCHANGED <<polled, limited, sweep, cycle, bounds>>,
         head' \in Nat, head <= head', head' <= MaxId,
         withdrawn \subseteq withdrawn', withdrawn' \subseteq 1 .. head',
         landed \subseteq landed', landed' \subseteq 1 .. head',
         stored \subseteq stored', stored' \subseteq 1 .. head'
  PROVE  IInv'
<1>1. head \in Nat /\ cycle \in [Pollers -> Cycles] /\ Cycles \subseteq Cycles'
  BY Types, CyclesGrow DEF IInv
<1>2. /\ 0 .. head \subseteq 0 .. head' /\ head' \in 0 .. MaxId
  BY <1>1, PollingAssumption
<1>3. cycle' \in [Pollers -> Cycles']
  BY <1>1
<1>4. TypeOK'
  BY <1>1, <1>2, <1>3 DEF IInv, TypeOK, Cycles, sweep, bounds, Tokens
<1>5. Passed'
  BY DEF IInv, Passed, NoGap
<1>6. Batches' /\ Contiguous' /\ Traversal'
  BY DEF IInv, Batches, Contiguous, Traversal, Sweeping, sweep
<1>7. Counted'
  BY DEF IInv, Counted, At, ForwardLimit
<1> QED BY <1>4, <1>5, <1>6, <1>7 DEF IInv

LEMMA SourceSteps ==
  ASSUME IInv, Post \/ \E m \in Ids : Withdraw(m) \/ Receive(m) \/ Store(m)
  PROVE  IInv'
<1>1. /\ head \in Nat /\ head <= MaxId /\ withdrawn \subseteq 1 .. head
      /\ landed \subseteq 1 .. head /\ stored \subseteq 1 .. head
  BY Types DEF IInv, TypeOK
<1>2. CASE Post
  <2>1. /\ head' = head + 1 /\ head' <= MaxId
        /\ UNCHANGED <<withdrawn, rows, polled, limited, sweep, cycle, bounds>>
    BY <1>1, <1>2, PollingAssumption DEF Post
  <2> QED BY <1>1, <2>1, SourceKeeps DEF rows
<1>3. ASSUME NEW m \in Ids, Withdraw(m) PROVE IInv'
  BY <1>1, <1>3, SourceKeeps DEF Withdraw, Existing, rows
<1>4. ASSUME NEW m \in Ids, Receive(m) PROVE IInv'
  BY <1>1, <1>4, SourceKeeps DEF Receive, Existing, telegram
<1>5. ASSUME NEW m \in Ids, Store(m) PROVE IInv'
  BY <1>1, <1>5, SourceKeeps DEF Store, telegram
<1> QED BY <1>2, <1>3, <1>4, <1>5

-----------------------------------------------------------------------------
\* A poller that is not observing a batch afterwards, and leaves the sweep alone.
LEMMA CycleSet ==
  ASSUME IInv, NEW p \in Pollers, NEW d \in Cycles,
         d.pc \notin {"observe", "observed"}, d.token = 0, d.missed = {},
         cycle' = [cycle EXCEPT ![p] = d],
         UNCHANGED <<telegram, stored, sweep>>,
         landed \subseteq landed', landed' \subseteq 1 .. head,
         polled' \in 0 .. head, limited' \in BOOLEAN, defers' \in Nat, crashes' \in Nat,
         NoGap(polled)', \A m \in 1 .. d.prev : m \in landed' \cup withdrawn',
         d.pc = "landed" => d.fetched < ForwardLimit
  PROVE  IInv'
<1>1. cycle \in [Pollers -> Cycles]
  BY Types DEF IInv
<1>2. /\ cycle'[p] = d /\ \A q \in Pollers : q # p => cycle'[q] = cycle[q]
      /\ cycle' \in [Pollers -> Cycles]
  BY <1>1
<1>3. UNCHANGED <<head, withdrawn, after, upper, unknown, token, leased, roster, classified>>
  BY DEF telegram, sweep
<1>4. TypeOK'
  <2>1. Cycles' = Cycles
    BY <1>3 DEF Cycles, Tokens, ForwardLimit
  <2> QED BY <1>2, <1>3, <2>1 DEF IInv, TypeOK, Cycles, Tokens
<1>5. Passed'
  BY <1>2, <1>3 DEF IInv, Passed, NoGap
<1>6. Batches'
  <2>1. \A q \in Pollers : Sweeping(q)' => q # p
    BY <1>2 DEF Sweeping
  <2> QED BY <1>2, <2>1 DEF IInv, Batches, Sweeping
<1>7. Contiguous'
  BY <1>2, <1>3 DEF IInv, Contiguous, Sweeping
<1>8. Traversal'
  BY <1>3 DEF IInv, Traversal
<1>9. Counted'
  BY <1>2, <1>3 DEF IInv, Counted, At, ForwardLimit
<1> QED BY <1>4, <1>5, <1>6, <1>7, <1>8, <1>9 DEF IInv

\* A cycle that ends.
LEMMA GoesIdle ==
  ASSUME IInv, NEW p \in Pollers, cycle' = [cycle EXCEPT ![p] = Idle],
         UNCHANGED <<telegram, rows, polled, sweep>>,
         limited' \in BOOLEAN, defers' \in Nat, crashes' \in Nat
  PROVE  IInv'
<1>1. /\ Idle \in Cycles /\ Idle.pc = "idle" /\ Idle.token = 0 /\ Idle.prev = 0
      /\ Idle.missed = {}
  BY Types DEF IInv, Idle
<1>2. NoGap(polled)' /\ \A m \in 1 .. Idle.prev : m \in landed' \cup withdrawn'
  BY <1>1 DEF IInv, Passed, NoGap, telegram, rows
<1>3. landed' = landed /\ landed \subseteq 1 .. head /\ polled' \in 0 .. head
      /\ UNCHANGED stored
  BY DEF IInv, TypeOK, rows
<1> HIDE DEF Idle
<1> QED BY <1>1, <1>2, <1>3, CycleSet

LEMMA BeginStep ==
  ASSUME IInv, NEW p \in Pollers, Begin(p)
  PROVE  IInv'
<1> DEFINE v == IF polled < Overlap THEN 0 ELSE polled - Overlap
           d == [Idle EXCEPT !.pc = "forward", !.remote = head, !.prev = v]
<1>1. head \in Nat /\ polled \in 0 .. head /\ Idle \in Cycles
  BY Types DEF IInv, TypeOK
<1>2. v \in 0 .. head /\ v <= polled /\ head \in 0 .. head
  BY <1>1, PollingAssumption
<1>3. d \in Cycles /\ d.pc = "forward" /\ d.token = 0 /\ d.prev = v /\ d.missed = {}
  <2> HIDE DEF v
  <2> QED BY <1>1, <1>2 DEF Cycles, Idle
<1>4. cycle' = [cycle EXCEPT ![p] = d]
      /\ UNCHANGED <<telegram, rows, polled, limited, sweep, bounds>>
  BY DEF Begin
<1>5. NoGap(polled)' /\ \A m \in 1 .. v : m \in landed' \cup withdrawn'
  <2>1. \A m \in 1 .. v : m \in 1 .. polled
    BY <1>1, <1>2
  <2> HIDE DEF v
  <2> QED BY <1>4, <2>1 DEF IInv, Passed, NoGap, telegram, rows
<1>6. /\ landed \subseteq 1 .. head /\ limited \in BOOLEAN /\ defers \in Nat /\ crashes \in Nat
  BY DEF IInv, TypeOK
<1> HIDE DEF d, v
<1> QED BY <1>1, <1>3, <1>4, <1>5, <1>6, CycleSet DEF rows, bounds

\* What a poller has between two calls.
LEMMA Forwarding ==
  ASSUME IInv, NEW p \in Pollers, cycle[p].pc \notin {"observe", "observed"}
  PROVE  /\ cycle[p] \in Cycles /\ cycle[p].token = 0 /\ cycle[p].missed = {}
         /\ NoGap(polled) /\ NoGap(cycle[p].prev)
         /\ head \in Nat /\ polled \in 0 .. head /\ landed \subseteq 1 .. head
         /\ limited \in BOOLEAN /\ defers \in Nat /\ crashes \in Nat
         /\ cycle[p].pc = "landed" => cycle[p].fetched < ForwardLimit
<1>1. cycle[p] \in Cycles /\ head \in Nat
  BY Types DEF IInv
<1> QED BY <1>1 DEF IInv, Passed, Batches, Sweeping, TypeOK, Counted, At

LEMMA FetchStep ==
  ASSUME IInv, NEW p \in Pollers, Fetch(p)
  PROVE  IInv'
<1> DEFINE m == Min(Ahead(p))
           d == [cycle[p] EXCEPT !.pc = "landed", !.prev = m]
<1>1. /\ cycle[p] \in Cycles /\ cycle[p].token = 0 /\ cycle[p].missed = {}
      /\ cycle[p].pc = "forward"
      /\ NoGap(polled) /\ NoGap(cycle[p].prev)
      /\ head \in Nat /\ polled \in 0 .. head /\ landed \subseteq 1 .. head
      /\ limited \in BOOLEAN /\ defers \in Nat /\ crashes \in Nat
  BY Forwarding DEF Fetch, At
<1>2. /\ m \in Ahead(p) /\ \A k \in Ahead(p) : m <= k
  <2>1. Ahead(p) \in SUBSET Nat
    BY <1>1 DEF Ahead, Existing
  <2> QED BY <2>1, Smallest DEF Fetch
<1>3. m \in 1 .. head /\ m > cycle[p].prev /\ cycle[p].prev \in Nat
  <2> HIDE DEF m
  <2> QED BY <1>1, <1>2 DEF Ahead, Existing, Cycles
<1>4. /\ landed' = landed \cup {m} /\ cycle' = [cycle EXCEPT ![p] = d]
      /\ UNCHANGED <<telegram, stored, polled, limited, sweep, bounds>>
  <2>1. cycle' = [cycle EXCEPT ![p].pc = "landed", ![p].prev = m]
    BY DEF Fetch
  <2>2. cycle \in [Pollers -> Cycles]
    BY Types DEF IInv
  <2> QED BY <2>1, <2>2 DEF Fetch, Cycles
<1>5. /\ d \in Cycles /\ d.pc = "landed" /\ d.token = 0 /\ d.prev = m
      /\ d.fetched < ForwardLimit /\ d.missed = {}
  <2>1. m \in 0 .. head
    BY <1>1, <1>3
  <2> HIDE DEF m
  <2>2. cycle[p].fetched < ForwardLimit
    BY DEF Fetch
  <2> QED BY <1>1, <2>1, <2>2 DEF Cycles
<1>6. NoGap(polled)' /\ \A k \in 1 .. m : k \in landed' \cup withdrawn'
  <2>1. ASSUME NEW k \in 1 .. m PROVE k \in landed \cup {m} \cup withdrawn
    <3>1. CASE k <= cycle[p].prev
      BY <1>1, <1>3, <3>1 DEF NoGap
    <3>2. CASE k > cycle[p].prev /\ k # m
      <4>1. k \in 1 .. head /\ ~(m <= k)
        BY <1>1, <1>3, <3>2
      <4>2. k \notin Ahead(p)
        BY <1>2, <4>1
      <4> QED BY <3>2, <4>1, <4>2 DEF Ahead, Existing
    <3> QED BY <1>3, <3>1, <3>2
  <2> HIDE DEF m
  <2> QED BY <1>1, <1>4, <2>1 DEF NoGap, telegram
<1>7. landed \subseteq landed' /\ landed' \subseteq 1 .. head
  BY <1>1, <1>3, <1>4
<1> HIDE DEF d, m
<1> QED BY <1>1, <1>4, <1>5, <1>6, <1>7, CycleSet DEF bounds

LEMMA AdvanceStep ==
  ASSUME IInv, NEW p \in Pollers, Advance(p)
  PROVE  IInv'
<1> DEFINE n == cycle[p].fetched + 1
           d == [cycle[p] EXCEPT !.pc = "forward", !.fetched = n]
<1>1. /\ cycle[p] \in Cycles /\ cycle[p].token = 0 /\ cycle[p].missed = {}
      /\ NoGap(polled) /\ NoGap(cycle[p].prev)
      /\ head \in Nat /\ polled \in 0 .. head /\ landed \subseteq 1 .. head
      /\ limited \in BOOLEAN /\ defers \in Nat /\ crashes \in Nat
      /\ cycle[p].fetched < ForwardLimit
  BY Forwarding DEF Advance, At
<1>2. n \in 0 .. ForwardLimit
  BY <1>1, Types DEF IInv, Cycles
<1>3. /\ d \in Cycles /\ d.pc = "forward" /\ d.token = 0 /\ d.prev = cycle[p].prev
      /\ d.missed = {}
  <2> HIDE DEF n
  <2> QED BY <1>1, <1>2 DEF Cycles
<1>4. /\ polled' = Larger(polled, cycle[p].prev) /\ cycle' = [cycle EXCEPT ![p] = d]
      /\ UNCHANGED <<telegram, rows, limited, sweep, bounds>>
  <2>1. cycle \in [Pollers -> Cycles]
    BY Types DEF IInv
  <2> QED BY <2>1 DEF Advance, Cycles
<1>5. polled' = polled \/ polled' = cycle[p].prev
  BY <1>4 DEF Larger
<1>6. polled' \in 0 .. head
  BY <1>1, <1>5 DEF Cycles
<1>7. NoGap(polled)' /\ \A m \in 1 .. d.prev : m \in landed' \cup withdrawn'
  <2>1. UNCHANGED <<landed, withdrawn>>
    BY <1>4 DEF telegram, rows
  <2> HIDE DEF d
  <2> QED BY <1>1, <1>3, <1>5, <2>1 DEF NoGap
<1> HIDE DEF d
<1> QED BY <1>1, <1>3, <1>4, <1>6, <1>7, CycleSet DEF rows, bounds

LEMMA EndForwardStep ==
  ASSUME IInv, NEW p \in Pollers, EndForward(p)
  PROVE  IInv'
<1> DEFINE d == IF Budget(p) > 0 THEN [cycle[p] EXCEPT !.pc = "sweep"] ELSE Idle
<1>1. /\ cycle[p] \in Cycles /\ cycle[p].token = 0 /\ cycle[p].missed = {}
      /\ cycle[p].pc = "forward"
      /\ NoGap(polled) /\ NoGap(cycle[p].prev)
      /\ head \in Nat /\ polled \in 0 .. head /\ landed \subseteq 1 .. head
      /\ limited \in BOOLEAN /\ defers \in Nat /\ crashes \in Nat
  BY Forwarding DEF EndForward, At
<1>2. /\ cycle' = [cycle EXCEPT ![p] = d]
      /\ UNCHANGED <<telegram, rows, limited, sweep, bounds>>
  BY DEF EndForward
<1>3. /\ d \in Cycles /\ d.pc \in {"sweep", "idle"} /\ d.token = 0 /\ d.missed = {}
      /\ d.prev = 0 \/ d.prev = cycle[p].prev
  <2>1. LET e == [cycle[p] EXCEPT !.pc = "sweep"]
        IN  /\ e \in Cycles /\ e.pc = "sweep" /\ e.token = 0 /\ e.prev = cycle[p].prev
            /\ e.missed = {}
    BY <1>1 DEF Cycles
  <2>2. Idle \in Cycles /\ Idle.pc = "idle" /\ Idle.token = 0 /\ Idle.prev = 0
        /\ Idle.missed = {}
    BY Types DEF IInv, Idle
  <2> HIDE DEF Idle
  <2> QED BY <2>1, <2>2
<1>4. \A m \in 1 .. cycle[p].remote : Ahead(p) = {} => m \in landed \cup withdrawn
  <2> TAKE m \in 1 .. cycle[p].remote
  <2> HAVE Ahead(p) = {}
  <2>1. m \in 1 .. head /\ cycle[p].prev \in Nat
    BY <1>1 DEF Cycles
  <2>2. CASE m <= cycle[p].prev
    BY <1>1, <2>1, <2>2 DEF NoGap
  <2>3. CASE m > cycle[p].prev
    BY <2>1, <2>3 DEF Ahead, Existing
  <2> QED BY <2>1, <2>2, <2>3
<1>5. polled' = polled \/ (polled' = cycle[p].remote /\ Ahead(p) = {})
  BY DEF EndForward, Larger
<1>6. polled' \in 0 .. head
  BY <1>1, <1>5 DEF Cycles
<1>7. NoGap(polled)' /\ \A m \in 1 .. d.prev : m \in landed' \cup withdrawn'
  <2>1. UNCHANGED <<landed, withdrawn>>
    BY <1>2 DEF telegram, rows
  <2> HIDE DEF d
  <2> QED BY <1>1, <1>3, <1>4, <1>5, <2>1 DEF NoGap
<1> HIDE DEF d
<1> QED BY <1>1, <1>2, <1>3, <1>6, <1>7, CycleSet DEF rows, bounds

LEMMA FaultSteps ==
  ASSUME IInv, NEW p \in Pollers, Defer(p) \/ Crash(p)
  PROVE  IInv'
<1>1. defers \in Nat /\ crashes \in Nat /\ limited \in BOOLEAN
  BY DEF IInv, TypeOK
<1>2. CASE Defer(p)
  <2>1. /\ limited' = TRUE /\ defers' = defers + 1 /\ crashes' = crashes
        /\ cycle' = [cycle EXCEPT ![p] = Idle]
        /\ UNCHANGED <<telegram, rows, polled, sweep>>
    BY <1>2 DEF Defer
  <2>2. limited' \in BOOLEAN
    BY <2>1, Zenon
  <2>3. defers' \in Nat /\ crashes' \in Nat
    BY <1>1, <2>1
  <2> QED BY <2>1, <2>2, <2>3, GoesIdle
<1>3. CASE Crash(p)
  <2>1. /\ limited' = limited /\ defers' = defers /\ crashes' = crashes + 1
        /\ cycle' = [cycle EXCEPT ![p] = Idle]
        /\ UNCHANGED <<telegram, rows, polled, sweep>>
    BY <1>3 DEF Crash
  <2>2. limited' \in BOOLEAN /\ defers' \in Nat /\ crashes' \in Nat
    BY <1>1, <2>1
  <2> QED BY <2>1, <2>2, GoesIdle
<1> QED BY <1>2, <1>3

LEMMA LeaseStep ==
  ASSUME IInv, LeaseExpires
  PROVE  IInv'
<1>1. /\ UNCHANGED <<telegram, rows, polled, limited, after, upper, unknown, token,
                     roster, classified, cycle, bounds>>
      /\ leased' \in BOOLEAN
  BY Zenon DEF LeaseExpires
<1>2. TypeOK'
  BY <1>1 DEF IInv, TypeOK, Tokens, ForwardLimit, telegram, rows, bounds
<1>3. Counted' /\ Passed' /\ Batches' /\ Contiguous' /\ Traversal'
  BY <1>1 DEF IInv, Counted, At, ForwardLimit, Passed, NoGap, Batches, Contiguous, Traversal,
              Sweeping, telegram, rows
<1> QED BY <1>2, <1>3 DEF IInv

\* What an observer has.
LEMMA Observing ==
  ASSUME IInv, NEW p \in Pollers, cycle[p].pc \in {"observe", "observed"}
  PROVE  LET ids == cycle[p].ids
         IN  /\ cycle[p] \in Cycles /\ cycle[p].token \in Tokens
             /\ ids # {} /\ ids \subseteq stored /\ ids \subseteq 1 .. head
             /\ cycle[p].missed \subseteq ids
             /\ Max(ids) \in ids /\ (\A m \in ids : m <= Max(ids))
             /\ Max(ids) \in 1 .. head
             /\ head \in Nat
<1> DEFINE ids == cycle[p].ids
<1>1. cycle[p] \in Cycles /\ head \in Nat
  BY Types DEF IInv
<1>2. /\ cycle[p].token \in Tokens
      /\ ids # {} /\ ids \subseteq stored /\ ids \subseteq 1 .. head
      /\ cycle[p].missed \subseteq ids
  BY <1>1 DEF IInv, Batches, Sweeping, Cycles
<1>3. ids \in SUBSET (0 .. head)
  BY <1>1, <1>2
<1>4. Max(ids) \in ids /\ (\A m \in ids : m <= Max(ids))
  BY <1>1, <1>2, <1>3, Largest
<1> QED BY <1>1, <1>2, <1>4

LEMMA ObserveStep ==
  ASSUME IInv, NEW p \in Pollers, Observe(p)
  PROVE  IInv'
<1>1. PICK missed \in SUBSET cycle[p].ids :
        cycle' = [cycle EXCEPT ![p].pc = "observed", ![p].missed = missed]
  BY DEF Observe
<1> DEFINE d == [cycle[p] EXCEPT !.pc = "observed", !.missed = missed]
<1>2. /\ cycle[p].pc = "observe"
      /\ UNCHANGED <<telegram, rows, polled, limited, sweep, bounds>>
      /\ cycle[p] \in Cycles /\ cycle \in [Pollers -> Cycles]
  BY Types DEF Observe, At, IInv
<1>3. /\ d \in Cycles /\ d.pc = "observed" /\ d.token = cycle[p].token
      /\ d.ids = cycle[p].ids /\ d.missed = missed /\ d.prev = cycle[p].prev
  BY <1>2 DEF Cycles
<1>4. cycle' = [cycle EXCEPT ![p] = d]
  BY <1>1, <1>2 DEF Cycles
<1> HIDE DEF d
<1>5. /\ cycle'[p] = d /\ \A q \in Pollers : q # p => cycle'[q] = cycle[q]
      /\ cycle' \in [Pollers -> Cycles]
  BY <1>2, <1>3, <1>4
<1>6. UNCHANGED <<head, withdrawn, landed, stored, polled, after, upper, unknown, token,
                  leased, roster, classified, limited, defers, crashes>>
  BY <1>2 DEF telegram, rows, sweep, bounds
<1>7. TypeOK'
  <2>1. Cycles' = Cycles /\ Tokens' = Tokens
    BY <1>6 DEF Cycles, Tokens, ForwardLimit
  <2> QED BY <1>5, <1>6, <2>1 DEF IInv, TypeOK, Cycles
<1>8. Passed' /\ Counted'
  BY <1>3, <1>5, <1>6 DEF IInv, Passed, NoGap, Counted, At, ForwardLimit
<1>9. Batches' /\ Contiguous'
  BY <1>2, <1>3, <1>5, <1>6 DEF IInv, Batches, Contiguous, Sweeping
<1>10. Traversal'
  BY <1>6 DEF IInv, Traversal
<1> QED BY <1>7, <1>8, <1>9, <1>10 DEF IInv

-----------------------------------------------------------------------------
\* The ids of a page are the first of those above the cursor.
LEMMA PageIsPrefix ==
  ASSUME NEW low \in Nat, NEW high \in Nat, NEW n \in Int, stored \subseteq 1 .. head,
         head \in Nat
  PROVE  /\ Page(low, high, n) \subseteq stored
         /\ \A k \in Page(low, high, n), m \in stored :
              low < m /\ m <= k => m \in Page(low, high, n)
<1> DEFINE S == {m \in stored : low < m /\ m <= high}
           Below(m) == {k \in S : k < m}
<1>1. \A k \in S : k \in Nat
  OBVIOUS
<1>2. IsFiniteSet(S)
  <2>1. S \in SUBSET (1 .. head)
    OBVIOUS
  <2>2. IsFiniteSet(1 .. head)
    BY FS_Interval
  <2> HIDE DEF S
  <2> QED BY <2>1, <2>2, FS_Subset
<1>3. ASSUME NEW k \in S, NEW m \in S, m <= k
      PROVE  /\ Cardinality(Below(m)) <= Cardinality(Below(k))
             /\ Cardinality(Below(m)) \in Nat /\ Cardinality(Below(k)) \in Nat
  <2>1. Below(m) \subseteq Below(k) /\ Below(k) \subseteq S
    <3> HIDE DEF S
    <3> QED BY <1>1, <1>3
  <2> HIDE DEF S, Below
  <2>2. IsFiniteSet(Below(k)) /\ IsFiniteSet(Below(m))
    BY <1>2, <2>1, FS_Subset
  <2> QED BY <2>1, <2>2, FS_Subset, FS_CardinalityType
<1>4. Page(low, high, n) = {m \in S : Cardinality(Below(m)) < n}
  BY DEF Page
<1>5. ASSUME NEW k \in Page(low, high, n), NEW m \in stored, low < m, m <= k
      PROVE  m \in Page(low, high, n)
  <2>1. k \in S /\ Cardinality(Below(k)) < n
    <3> HIDE DEF S, Below
    <3> QED BY <1>4
  <2>2. m \in S
    BY <1>5, <2>1
  <2>3. Cardinality(Below(m)) < n
    <3> HIDE DEF S, Below
    <3> QED BY <1>3, <1>5, <2>1, <2>2
  <2> HIDE DEF S, Below
  <2> QED BY <1>4, <2>2, <2>3
<1> QED BY <1>4, <1>5

\* A new batch: the traversal goes on, or begins again with what is stored now.
LEMMA TakeStep ==
  ASSUME IInv, NEW p \in Pollers, TakeBatch(p)
  PROVE  IInv'
<1>1. /\ cycle[p] \in Cycles /\ cycle[p].token = 0 /\ cycle[p].missed = {}
      /\ cycle[p].pc = "sweep"
      /\ head \in Nat /\ polled \in 0 .. head /\ landed \subseteq 1 .. head
      /\ stored \subseteq 1 .. head
      /\ limited \in BOOLEAN /\ defers \in Nat /\ crashes \in Nat
      /\ cycle \in [Pollers -> Cycles]
      /\ after \in 0 .. head /\ upper \in 0 .. head /\ unknown \in Nat
      /\ roster \subseteq 1 .. head /\ classified \subseteq roster \cup stored
  BY Forwarding, Types DEF TakeBatch, At, IInv, TypeOK
<1>2. CASE leased
  <2>1. /\ cycle' = [cycle EXCEPT ![p] = Idle]
        /\ UNCHANGED <<telegram, rows, polled, sweep>>
        /\ limited' = limited /\ defers' = defers /\ crashes' = crashes
    BY <1>2 DEF TakeBatch, bounds
  <2> QED BY <1>1, <2>1, GoesIdle
<1>3. CASE ~leased
  <2>1. /\ UNCHANGED <<telegram, rows, polled, limited, bounds>>
        /\ token' = NewToken /\ leased' = TRUE
    BY <1>3 DEF TakeBatch
  <2>2. /\ after' \in 0 .. head /\ upper' \in 0 .. head /\ unknown' \in Nat
        /\ roster' \subseteq stored /\ \A m \in roster' : m <= upper'
        /\ classified' \subseteq roster' \cup stored
        /\ unknown' = 0 => \A m \in roster' : m <= after' => m \in classified'
    <3>1. CASE after >= upper
      <4>1. /\ after' = 0 /\ unknown' = 0 /\ roster' = stored /\ classified' = {}
            /\ upper' = IF stored = {} THEN 0 ELSE Max(stored)
        BY <1>3, <3>1 DEF TakeBatch
      <4>2. upper' \in 0 .. head /\ \A m \in stored : m <= upper'
        <5>1. stored \in SUBSET (0 .. head)
          BY <1>1
        <5>2. stored # {} => Max(stored) \in stored /\ \A m \in stored : m <= Max(stored)
          BY <1>1, <5>1, Largest
        <5> QED BY <1>1, <4>1, <5>2
      <4>3. \A m \in stored : ~(m <= 0)
        BY <1>1
      <4> QED BY <1>1, <4>1, <4>2, <4>3
    <3>2. CASE ~(after >= upper)
      <4>1. UNCHANGED <<after, upper, unknown, roster, classified>>
        BY <1>3, <3>2 DEF TakeBatch
      <4> QED BY <1>1, <4>1 DEF IInv, Traversal
    <3> QED BY <3>1, <3>2
  <2> DEFINE ids == Page(after', upper', Budget(p))
             b == [cycle[p] EXCEPT !.pc = "observe", !.ids = ids, !.token = NewToken]
             d == IF ids = {} THEN Idle ELSE b
  <2>3. cycle' = [cycle EXCEPT ![p] = d]
    BY <1>3, <2>1 DEF TakeBatch
  <2>4. /\ NewToken \in Tokens /\ NewToken # token /\ NewToken # 0
        /\ \A q \in Pollers : NewToken # cycle[q].token
    BY Fresh DEF IInv
  <2>5. /\ ids \subseteq stored
        /\ \A k \in ids, m \in stored : after' < m /\ m <= k => m \in ids
    <3>1. Budget(p) \in Int
      BY <1>1, Types, PollingAssumption DEF Budget, Smaller, IInv, Cycles
    <3>2. after' \in Nat /\ upper' \in Nat
      BY <1>1, <2>2
    <3> QED BY <1>1, <3>1, <3>2, PageIsPrefix
  <2> HIDE DEF ids
  <2>6. /\ b \in Cycles /\ b.pc = "observe" /\ b.ids = ids /\ b.token = NewToken
        /\ b.missed = cycle[p].missed /\ b.prev = cycle[p].prev
    BY <1>1, <2>4, <2>5 DEF Cycles
  <2>7. /\ Idle \in Cycles /\ Idle.pc = "idle" /\ Idle.token = 0 /\ Idle.prev = 0
        /\ Idle.missed = {}
    BY Types DEF IInv, Idle
  <2>8. UNCHANGED <<head, withdrawn, landed, stored, polled, limited, defers, crashes>>
    BY <2>1 DEF telegram, rows, bounds
  <2> HIDE DEF b, Idle
  <2>9. /\ cycle'[p] = d /\ d \in Cycles /\ \A q \in Pollers : q # p => cycle'[q] = cycle[q]
        /\ cycle' \in [Pollers -> Cycles]
    BY <1>1, <2>3, <2>6, <2>7
  <2>10. TypeOK'
    <3>1. Cycles' = Cycles /\ Tokens' = Tokens
      BY <2>8 DEF Cycles, Tokens, ForwardLimit
    <3>2. leased' \in BOOLEAN
      BY <2>1, Zenon
    <3>3. roster' \subseteq 1 .. head
      BY <1>1, <2>2
    <3> QED BY <2>1, <2>2, <2>4, <2>8, <2>9, <3>1, <3>2, <3>3 DEF IInv, TypeOK, Cycles
  <2>11. Passed' /\ Counted'
    BY <2>6, <2>7, <2>8, <2>9 DEF IInv, Passed, NoGap, Counted, At, ForwardLimit
  <2>12. Batches'
    <3>1. d.missed = {} /\ d.token \in {0, NewToken}
      BY <1>1, <2>6, <2>7
    <3>2. IF d.pc \in {"observe", "observed"}
          THEN d.token # 0 /\ d.ids # {} /\ d.ids \subseteq stored
          ELSE d.token = 0
      <4>1. CASE ids = {}
        BY <2>7, <4>1
      <4>2. CASE ids # {}
        <5>1. d = b
          BY <4>2
        <5> HIDE DEF d
        <5> QED BY <2>4, <2>5, <2>6, <4>2, <5>1
      <4> QED BY <4>1, <4>2
    <3> HIDE DEF d
    <3>3. ASSUME NEW q \in Pollers
          PROVE  IF Sweeping(q)'
                 THEN /\ cycle'[q].token # 0 /\ cycle'[q].ids # {}
                      /\ cycle'[q].ids \subseteq stored' /\ cycle'[q].missed \subseteq cycle'[q].ids
                 ELSE cycle'[q].token = 0 /\ cycle'[q].missed = {}
      <4>1. CASE q = p
        BY <2>8, <2>9, <3>1, <3>2, <4>1 DEF Sweeping
      <4>2. CASE q # p
        BY <2>8, <2>9, <4>2 DEF Sweeping, IInv, Batches
      <4> QED BY <4>1, <4>2
    <3>4. ASSUME NEW q \in Pollers, NEW r \in Pollers, q # r, cycle'[q].token # 0
          PROVE  cycle'[q].token # cycle'[r].token
      BY <2>4, <2>9, <3>1, <3>4 DEF IInv, Batches
    <3> QED BY <3>3, <3>4 DEF Batches
  <2>13. Contiguous'
    <3>1. ASSUME NEW q \in Pollers, Sweeping(q)', cycle'[q].token = token'
          PROVE  q = p /\ ids # {}
      BY <2>1, <2>4, <2>7, <2>9, <3>1 DEF Sweeping
    <3>2. ids # {} => cycle'[p].ids = ids
      BY <2>6, <2>9
    <3> QED BY <2>2, <2>5, <3>1, <3>2 DEF Contiguous
  <2>14. Traversal'
    BY <2>2, <2>8 DEF Traversal
  <2> QED BY <2>10, <2>11, <2>12, <2>13, <2>14 DEF IInv
<1> QED BY <1>2, <1>3

\* A finished batch moves the cursor to its last id, and everything up to there was
\* observed if nothing is unknown.
LEMMA FinishStep ==
  ASSUME IInv, NEW p \in Pollers, FinishBatch(p)
  PROVE  /\ IInv'
         /\ limited /\ ~limited' => roster \subseteq classified'
<1> DEFINE ids == cycle[p].ids
           missed == cycle[p].missed
<1>1. /\ cycle[p] \in Cycles /\ cycle[p].pc = "observed"
      /\ ids # {} /\ ids \subseteq stored /\ ids \subseteq 1 .. head /\ missed \subseteq ids
      /\ Max(ids) \in ids /\ (\A m \in ids : m <= Max(ids)) /\ Max(ids) \in 1 .. head
      /\ head \in Nat
  BY Observing DEF FinishBatch, At
<1>2. /\ cycle' = [cycle EXCEPT ![p] = Idle]
      /\ UNCHANGED <<telegram, rows, polled, bounds>>
  BY DEF FinishBatch
<1>3. /\ limited \in BOOLEAN /\ defers \in Nat /\ crashes \in Nat
      /\ after \in 0 .. head /\ upper \in 0 .. head /\ unknown \in Nat
      /\ roster \subseteq 1 .. head /\ classified \subseteq roster \cup stored
      /\ roster \subseteq stored /\ \A m \in roster : m <= upper
      /\ unknown = 0 => \A m \in roster : m <= after => m \in classified
      /\ cycle \in [Pollers -> Cycles]
  BY Types DEF IInv, TypeOK, Traversal
<1>4. CASE token # cycle[p].token \/ Max(ids) <= after
  <2>1. UNCHANGED <<sweep, limited>>
    BY <1>4 DEF FinishBatch
  <2> QED BY <1>2, <1>3, <2>1, GoesIdle DEF bounds
<1>5. CASE ~(token # cycle[p].token \/ Max(ids) <= after)
  <2>1. /\ token' = 0 /\ leased' = FALSE
        /\ after' = Larger(after, Max(ids))
        /\ unknown' = unknown + Cardinality(missed)
        /\ limited' = IF after' >= upper THEN unknown' > 0 ELSE limited \/ missed # {}
        /\ classified' = classified \cup (ids \ missed)
        /\ UNCHANGED <<upper, roster>>
    BY <1>5 DEF FinishBatch
  <2>2. token = cycle[p].token /\ Max(ids) > after /\ after' = Max(ids)
    BY <1>1, <1>3, <1>5, <2>1 DEF Larger
  <2>3. IsFiniteSet(missed) /\ Cardinality(missed) \in Nat
    <3>1. missed \in SUBSET (1 .. head)
      BY <1>1
    <3>2. IsFiniteSet(1 .. head)
      BY <1>1, FS_Interval
    <3> HIDE DEF missed
    <3> QED BY <3>1, <3>2, FS_Subset, FS_CardinalityType
  <2>4. ASSUME unknown' = 0 PROVE unknown = 0 /\ missed = {}
    <3>1. unknown = 0 /\ Cardinality(missed) = 0
      BY <1>3, <2>1, <2>3, <2>4
    <3> QED BY <2>3, <3>1, FS_EmptySet
  <2>5. ASSUME unknown' = 0, NEW m \in roster, m <= after' PROVE m \in classified'
    <3>1. unknown = 0 /\ missed = {}
      BY <2>4, <2>5
    <3>2. CASE m <= after
      BY <1>3, <2>1, <3>1, <3>2
    <3>3. CASE after < m
      <4>1. m \in ids
        BY <1>1, <2>2, <2>5, <3>3 DEF IInv, Contiguous, Sweeping
      <4> QED BY <2>1, <3>1, <4>1
    <3> QED BY <1>3, <3>2, <3>3
  <2>6. limited /\ ~limited' => roster \subseteq classified'
    <3> SUFFICES ASSUME limited, ~limited', NEW m \in roster PROVE m \in classified'
      OBVIOUS
    <3>1. after' >= upper /\ ~(unknown' > 0)
      BY <2>1
    <3>2. unknown' = 0
      BY <1>3, <2>1, <2>3, <3>1
    <3>3. m <= after'
      BY <1>1, <1>3, <2>2, <3>1
    <3> QED BY <2>5, <3>2, <3>3
  <2>7. UNCHANGED <<head, withdrawn, landed, stored, polled, defers, crashes>>
    BY <1>2 DEF telegram, rows, bounds
  <2>8. /\ Idle \in Cycles /\ Idle.pc = "idle" /\ Idle.token = 0 /\ Idle.prev = 0
        /\ Idle.missed = {}
    BY Types DEF IInv, Idle
  <2> HIDE DEF Idle
  <2>9. /\ cycle'[p] = Idle /\ \A q \in Pollers : q # p => cycle'[q] = cycle[q]
        /\ cycle' \in [Pollers -> Cycles]
    BY <1>2, <1>3, <2>8
  <2>10. TypeOK'
    <3>1. Cycles' = Cycles /\ Tokens' = Tokens
      BY <2>7 DEF Cycles, Tokens, ForwardLimit
    <3>2. leased' \in BOOLEAN /\ limited' \in BOOLEAN
      <4>1. leased' \in BOOLEAN
        BY <2>1, Zenon
      <4>2. limited' \in BOOLEAN
        <5>1. CASE after' >= upper
          <6>1. limited' = (unknown' > 0)
            BY <2>1, <5>1
          <6> unknown' \in Nat
            BY <1>1, <1>3, <2>1, <2>3
          <6>2. CASE unknown' > 0
            <7>1. limited' = TRUE
              BY <6>1, <6>2
            <7> QED BY <7>1, Zenon
          <6>3. CASE ~(unknown' > 0)
            <7>1. limited' = FALSE
              <8>1. (unknown' > 0) = FALSE
                BY <6>3
              <8> QED BY <6>1, <8>1, Zenon
            <7> QED BY <7>1, Zenon
          <6> QED BY <6>2, <6>3
        <5>2. CASE ~(after' >= upper)
          <6>1. limited' = (limited \/ missed # {})
            BY <2>1, <5>2
          <6>2. CASE limited \/ missed # {}
            <7>1. limited' = TRUE
              BY <6>1, <6>2
            <7> QED BY <7>1, Zenon
          <6>3. CASE ~(limited \/ missed # {})
            <7>1. limited' = FALSE
              BY <6>1, <6>3
            <7> QED BY <7>1, Zenon
          <6> QED BY <6>2, <6>3
        <5> QED BY <5>1, <5>2
      <4> QED BY <4>1, <4>2
    <3>3. unknown' \in Nat /\ after' \in 0 .. head
      BY <1>1, <1>3, <2>1, <2>2, <2>3
    <3>4. classified' \subseteq roster \cup stored
      BY <1>1, <1>3, <2>1
    <3> HIDE DEF ids, missed
    <3> QED BY <1>3, <2>1, <2>7, <2>9, <3>1, <3>2, <3>3, <3>4 DEF IInv, TypeOK, Cycles
  <2>11. Passed' /\ Counted'
    BY <2>7, <2>8, <2>9 DEF IInv, Passed, NoGap, Counted, At, ForwardLimit
  <2>12. Batches'
    BY <2>7, <2>8, <2>9 DEF IInv, Batches, Sweeping
  <2>13. Contiguous'
    <3>1. ASSUME NEW q \in Pollers, Sweeping(q)' PROVE cycle'[q].token # token'
      BY <2>1, <2>8, <2>9, <3>1 DEF Sweeping, IInv, Batches
    <3> QED BY <3>1 DEF Contiguous
  <2>14. Traversal'
    BY <1>3, <2>1, <2>5, <2>7 DEF Traversal
  <2> QED BY <2>6, <2>10, <2>11, <2>12, <2>13, <2>14 DEF IInv
<1> QED BY <1>4, <1>5

-----------------------------------------------------------------------------
LEMMA Steps ==
  ASSUME IInv, [Next]_vars
  PROVE  IInv' /\ (limited /\ ~limited' => roster \subseteq classified')
<1>1. CASE UNCHANGED vars
  <2>1. UNCHANGED <<polled, limited, sweep, cycle, bounds, head, withdrawn, landed, stored>>
    BY <1>1 DEF vars, telegram, rows
  <2>2. IInv'
    BY <2>1, Types, SourceKeeps DEF IInv, TypeOK
  <2> QED BY <2>1, <2>2
<1>2. CASE Post \/ \E m \in Ids : Withdraw(m) \/ Receive(m) \/ Store(m)
  <2>1. limited' = limited
    BY <1>2 DEF Post, Withdraw, Receive, Store
  <2> QED BY <1>2, <2>1, SourceSteps
<1>3. CASE LeaseExpires
  BY <1>3, LeaseStep DEF LeaseExpires
<1>4. ASSUME NEW p \in Pollers, Defer(p) \/ Crash(p)
      PROVE  IInv' /\ (limited /\ ~limited' => roster \subseteq classified')
  <2>1. limited => limited'
    BY <1>4 DEF Defer, Crash
  <2> QED BY <1>4, <2>1, FaultSteps
<1>5. ASSUME NEW p \in Pollers,
             Begin(p) \/ Fetch(p) \/ Advance(p) \/ EndForward(p) \/ TakeBatch(p) \/ Observe(p)
      PROVE  IInv' /\ (limited /\ ~limited' => roster \subseteq classified')
  <2>1. limited' = limited
    BY <1>5 DEF Begin, Fetch, Advance, EndForward, TakeBatch, Observe
  <2>2. IInv'
    BY <1>5, BeginStep, FetchStep, AdvanceStep, EndForwardStep, TakeStep, ObserveStep
  <2> QED BY <2>1, <2>2
<1>6. ASSUME NEW p \in Pollers, FinishBatch(p)
      PROVE  IInv' /\ (limited /\ ~limited' => roster \subseteq classified')
  BY <1>6, FinishStep
<1> QED BY <1>1, <1>2, <1>3, <1>4, <1>5, <1>6 DEF Next, Proceed

LEMMA IInvHolds == Spec => []IInv
<1>1. IInv /\ [Next]_vars => IInv'
  BY Steps
<1> QED BY <1>1, Initially, PTL DEF Spec

\* The certified boundary hides no gap, for any pollers that overlap, any overlap of
\* the pages and any limits of a cycle.
THEOREM BoundaryHidesNoGap == Spec => []PollingInv
<1>1. IInv => PollingInv
  BY DEF IInv, PollingInv, PolledIsLanded, Passed, NoGap
<1> QED BY <1>1, IInvHolds, PTL

\* The history is certified only by a traversal that observed everything stored at
\* its start, whoever took its batches and however leases ran out.
THEOREM CertifiedIsSeen == Spec => HistoryCertified
<1>1. IInv /\ [Next]_vars => [limited /\ ~limited' => roster \subseteq classified']_vars
  BY Steps
<1> QED BY <1>1, IInvHolds, PTL DEF Spec, HistoryCertified
=============================================================================
