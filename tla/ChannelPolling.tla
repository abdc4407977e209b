--------------------------- MODULE ChannelPolling ---------------------------
(***************************************************************************)
(* The reconciler's traversal of one channel                               *)
(* (application/telegram_reconciliation.py) over its durable progress      *)
(* (infrastructure/telegram_progress_store.py): forward polling from the   *)
(* certified boundary polled_through_id, and the sweep that re-observes    *)
(* stored ids in leased, tokened batches.  What processing a message does  *)
(* to it is modelled by TelegramIngestion; here a message is landed, and   *)
(* stored or kept back.  Two pollers stand for a worker and the successor  *)
(* that starts while the old one is still being stopped.                   *)
(***************************************************************************)
EXTENDS FiniteSets, FiniteSetsExt, Naturals

CONSTANTS
  Pollers,       \* worker processes, one after another or overlapping
  MaxId,         \* bound: message ids 1 .. MaxId
  Overlap,       \* telegram_reconciliation_overlap
  MaxMessages,   \* telegram_reconciliation_max_messages
  ForwardCap,    \* the forward page has at most 400 messages,
  SweepSize,     \* and a sweep batch at most 100 ids
  MaxDefers,     \* bound: cycles deferred by the source
  MaxCrashes     \* bound: pollers that die in the middle of a cycle

ASSUME PollingAssumption ==
  /\ IsFiniteSet(Pollers) /\ MaxId \in Nat \ {0} /\ Overlap \in Nat
  /\ {MaxMessages, ForwardCap, SweepSize} \subseteq Nat \ {0}
  /\ MaxDefers \in Nat /\ MaxCrashes \in Nat

VARIABLES
  head,        \* Telegram: the ids 1 .. head were posted
  withdrawn,   \* Telegram: the ids deleted there
  landed,      \* the ids with an archived original event
  stored,      \* the ids with a source row
  polled,      \* polled_through_id
  limited,     \* history_limited
  after,       \* sweep_after_id
  upper,       \* sweep_upper_id
  unknown,     \* sweep_unknown_count
  token,       \* sweep_token, or 0
  leased,      \* sweep_lease_until lies in the future
  cycle,       \* what each poller is doing
  roster,      \* history variable: the ids stored when the traversal began
  classified,  \* history variable: those observed in a finished batch since
  defers, crashes

telegram == <<head, withdrawn>>
rows == <<landed, stored>>
sweep == <<after, upper, unknown, token, leased, roster, classified>>
bounds == <<defers, crashes>>
vars == <<telegram, rows, polled, limited, sweep, cycle, bounds>>

Ids == 1 .. MaxId
Existing == (1 .. head) \ withdrawn
Larger(x, y) == IF x < y THEN y ELSE x
Smaller(x, y) == IF x < y THEN x ELSE y

\* remote: the head that was read; prev: the last id of the forward page;
\* ids, missed, token: the sweep batch and the ids of it left unknown.
Idle == [pc |-> "idle", remote |-> 0, prev |-> 0, fetched |-> 0,
         ids |-> {}, missed |-> {}, token |-> 0]
At(p, pc) == cycle[p].pc = pc

Init ==
  /\ head \in 0 .. 1 /\ withdrawn = {}
  /\ stored \in SUBSET (1 .. head) /\ landed = {}
  /\ polled = 0 /\ limited = TRUE
  /\ after = 0 /\ upper = 0 /\ unknown = 0
  /\ token = 0 /\ leased = FALSE
  /\ cycle = [p \in Pollers |-> Idle]
  /\ roster = {} /\ classified = {}
  /\ defers = 0 /\ crashes = 0

-----------------------------------------------------------------------------
(***************************************************************************)
(* Telegram, and the other paths that land and store messages: callbacks,  *)
(* the drainer, an import.                                                 *)
(***************************************************************************)
Post ==
  /\ head < MaxId /\ head' = head + 1
  /\ UNCHANGED <<withdrawn, rows, polled, limited, sweep, cycle, bounds>>

Withdraw(m) ==
  /\ m \in Existing
  /\ withdrawn' = withdrawn \cup {m}
  /\ UNCHANGED <<head, rows, polled, limited, sweep, cycle, bounds>>

Receive(m) ==
  /\ m \in Existing
  /\ landed' = landed \cup {m}
  /\ UNCHANGED <<telegram, stored, polled, limited, sweep, cycle, bounds>>

Store(m) ==
  /\ m \in landed
  /\ stored' = stored \cup {m}
  /\ UNCHANGED <<telegram, landed, polled, limited, sweep, cycle, bounds>>

-----------------------------------------------------------------------------
(***************************************************************************)
(* One cycle of _reconcile: the certified boundary and the remote head,    *)
(* then the forward page, oldest first, from Overlap below the boundary.   *)
(***************************************************************************)
ForwardLimit == Smaller(MaxMessages, ForwardCap)

Begin(p) ==
  /\ At(p, "idle")
  /\ cycle' = [cycle EXCEPT ![p] = [Idle EXCEPT
       !.pc = "forward", !.remote = head,
       !.prev = IF polled < Overlap THEN 0 ELSE polled - Overlap]]
  /\ UNCHANGED <<telegram, rows, polled, limited, sweep, bounds>>

Ahead(p) == {m \in Existing : m > cycle[p].prev}

\* The original event is durable before anything else happens to the message.
Fetch(p) ==
  /\ At(p, "forward") /\ cycle[p].fetched < ForwardLimit
  /\ Ahead(p) # {}
  /\ LET m == Min(Ahead(p))
     IN  /\ landed' = landed \cup {m}
         /\ cycle' = [cycle EXCEPT ![p].pc = "landed", ![p].prev = m]
  /\ UNCHANGED <<telegram, stored, polled, limited, sweep, bounds>>

\* advance_live_checkpoint, once the outcome of the message is durable.
Advance(p) ==
  /\ At(p, "landed")
  /\ polled' = Larger(polled, cycle[p].prev)
  /\ cycle' = [cycle EXCEPT ![p].pc = "forward", ![p].fetched = @ + 1]
  /\ UNCHANGED <<telegram, rows, limited, sweep, bounds>>

Budget(p) == Smaller(SweepSize, MaxMessages - cycle[p].fetched)

\* Mutant: a cycle certifies the remote head however its page ended.
EndAtHead(p) ==
  /\ At(p, "forward")
  /\ cycle[p].fetched = ForwardLimit \/ Ahead(p) = {}
  /\ polled' = Larger(polled, cycle[p].remote)
  /\ cycle' = [cycle EXCEPT ![p] = IF Budget(p) > 0 THEN [@ EXCEPT !.pc = "sweep"]
                                   ELSE Idle]
  /\ UNCHANGED <<telegram, rows, limited, sweep, bounds>>

\* Mutant: the boundary moves only with the messages that exist.
EndUncertified(p) ==
  /\ At(p, "forward")
  /\ cycle[p].fetched = ForwardLimit \/ Ahead(p) = {}
  /\ cycle' = [cycle EXCEPT ![p] = IF Budget(p) > 0 THEN [@ EXCEPT !.pc = "sweep"]
                                   ELSE Idle]
  /\ UNCHANGED <<telegram, rows, polled, limited, sweep, bounds>>

\* Only a page that ended early certifies the empty rest up to the head.
EndForward(p) ==
  /\ At(p, "forward")
  /\ \/ cycle[p].fetched = ForwardLimit /\ UNCHANGED polled
     \/ /\ cycle[p].fetched < ForwardLimit /\ Ahead(p) = {}
        /\ polled' = Larger(polled, cycle[p].remote)
  /\ cycle' = [cycle EXCEPT ![p] = IF Budget(p) > 0 THEN [@ EXCEPT !.pc = "sweep"]
                                   ELSE Idle]
  /\ UNCHANGED <<telegram, rows, limited, sweep, bounds>>

-----------------------------------------------------------------------------
(***************************************************************************)
(* The sweep of stored ids, up to the bound fixed when the traversal       *)
(* began.  Its lease keeps others away for 300 seconds, its token keeps a  *)
(* delayed observer from finishing a batch that was given out again.       *)
(***************************************************************************)
Tokens == 1 .. 2 * Cardinality(Pollers) + 1

NewToken ==
  CHOOSE t \in Tokens : t # token /\ \A p \in Pollers : t # cycle[p].token

Page(low, high, n) ==
  LET S == {m \in stored : low < m /\ m <= high}
  IN  {m \in S : Cardinality({k \in S : k < m}) < n}

\* Mutant: the batch of a finished traversal is the one that starts the next, but
\* its upper bound stays.
TakeUnbounded(p) ==
  /\ At(p, "sweep") /\ ~leased
  /\ IF after >= upper
     THEN after' = 0 /\ unknown' = 0 /\ roster' = stored /\ classified' = {}
     ELSE UNCHANGED <<after, unknown, roster, classified>>
  /\ token' = NewToken /\ leased' = TRUE
  /\ LET ids == Page(after', upper, Budget(p))
     IN  cycle' = [cycle EXCEPT ![p] =
           IF ids = {} THEN Idle
           ELSE [@ EXCEPT !.pc = "observe", !.ids = ids, !.token = token']]
  /\ UNCHANGED <<telegram, rows, polled, limited, upper, bounds>>

TakeBatch(p) ==
  /\ At(p, "sweep")
  /\ IF leased
     THEN cycle' = [cycle EXCEPT ![p] = Idle] /\ UNCHANGED sweep
     ELSE /\ IF after >= upper
             THEN /\ after' = 0 /\ unknown' = 0
                  /\ upper' = IF stored = {} THEN 0 ELSE Max(stored)
                  /\ roster' = stored /\ classified' = {}
             ELSE UNCHANGED <<after, upper, unknown, roster, classified>>
          /\ token' = NewToken /\ leased' = TRUE
          /\ LET ids == Page(after', upper', Budget(p))
             IN  cycle' = [cycle EXCEPT ![p] =
                   IF ids = {} THEN Idle
                   ELSE [@ EXCEPT !.pc = "observe", !.ids = ids, !.token = token']]
  /\ UNCHANGED <<telegram, rows, polled, limited, bounds>>

\* observe_messages: some ids may stay unknown, the events of the others land.
Observe(p) ==
  /\ At(p, "observe")
  /\ \E missed \in SUBSET cycle[p].ids :
       cycle' = [cycle EXCEPT ![p].pc = "observed", ![p].missed = missed]
  /\ UNCHANGED <<telegram, rows, polled, limited, sweep, bounds>>

\* Mutant: any observer may finish the batch, whoever leased it since.
FinishAnyBatch(p) ==
  LET ids == cycle[p].ids missed == cycle[p].missed
  IN  /\ At(p, "observed")
      /\ token' = 0 /\ leased' = FALSE
      /\ after' = Larger(after, Max(ids))
      /\ unknown' = unknown + Cardinality(missed)
      /\ limited' = IF after' >= upper THEN unknown' > 0 ELSE limited \/ missed # {}
      /\ classified' = classified \cup (ids \ missed)
      /\ cycle' = [cycle EXCEPT ![p] = Idle]
      /\ UNCHANGED <<telegram, rows, polled, upper, roster, bounds>>

FinishBatch(p) ==
  LET ids == cycle[p].ids missed == cycle[p].missed
  IN  /\ At(p, "observed")
      /\ IF token # cycle[p].token \/ Max(ids) <= after
         THEN UNCHANGED <<sweep, limited>>
         ELSE /\ token' = 0 /\ leased' = FALSE
              /\ after' = Larger(after, Max(ids))
              /\ unknown' = unknown + Cardinality(missed)
              /\ limited' = IF after' >= upper THEN unknown' > 0
                            ELSE limited \/ missed # {}
              /\ classified' = classified \cup (ids \ missed)
              /\ UNCHANGED <<upper, roster>>
      /\ cycle' = [cycle EXCEPT ![p] = Idle]
      /\ UNCHANGED <<telegram, rows, polled, bounds>>

LeaseExpires ==
  /\ leased /\ leased' = FALSE
  /\ UNCHANGED <<telegram, rows, polled, limited, after, upper, unknown, token,
                 roster, classified, cycle, bounds>>

-----------------------------------------------------------------------------
\* The source asks for a pause (flood wait, transport): defer_source.
Defer(p) ==
  /\ ~At(p, "idle")
  /\ defers < MaxDefers /\ defers' = defers + 1
  /\ limited' = TRUE
  /\ cycle' = [cycle EXCEPT ![p] = Idle]
  /\ UNCHANGED <<telegram, rows, polled, sweep, crashes>>

Crash(p) ==
  /\ ~At(p, "idle")
  /\ crashes < MaxCrashes /\ crashes' = crashes + 1
  /\ cycle' = [cycle EXCEPT ![p] = Idle]
  /\ UNCHANGED <<telegram, rows, polled, limited, sweep, defers>>

Proceed(p) ==
  \/ Begin(p) \/ Fetch(p) \/ Advance(p) \/ EndForward(p)
  \/ TakeBatch(p) \/ Observe(p) \/ FinishBatch(p)

Next ==
  \/ Post \/ LeaseExpires
  \/ \E m \in Ids : Withdraw(m) \/ Receive(m) \/ Store(m)
  \/ \E p \in Pollers : Proceed(p) \/ Defer(p) \/ Crash(p)

Spec == Init /\ [][Next]_vars

\* maintain_checkpoint_reconciliation runs one cycle after the other, and a lease
\* runs out.
Fairness == WF_vars(LeaseExpires) /\ \A p \in Pollers : WF_vars(Proceed(p))

FairSpec == Spec /\ Fairness

-----------------------------------------------------------------------------
\* The progress row and the cycles hold values of their columns and locals.
TypeOK ==
  /\ head \in 0 .. MaxId /\ withdrawn \subseteq 1 .. head
  /\ landed \subseteq 1 .. head /\ stored \subseteq 1 .. head
  /\ polled \in 0 .. head /\ limited \in BOOLEAN
  /\ after \in 0 .. head /\ upper \in 0 .. head /\ unknown \in Nat
  /\ token \in Tokens \cup {0} /\ leased \in BOOLEAN
  /\ cycle \in [Pollers ->
       [pc : {"idle", "forward", "landed", "sweep", "observe", "observed"},
        remote : 0 .. head, prev : 0 .. head, fetched : 0 .. ForwardLimit,
        ids : SUBSET (1 .. head), missed : SUBSET (1 .. head),
        token : Tokens \cup {0}]]
  /\ roster \subseteq 1 .. head /\ classified \subseteq roster \cup stored
  /\ defers \in Nat /\ crashes \in Nat

\* The certified boundary hides no gap: below it every message of the channel is
\* in the archive, or was gone from Telegram before it was fetched.
PolledIsLanded == \A m \in 1 .. polled : m \in landed \cup withdrawn

\* Polling certifies no boundary beyond what it has fetched and landed.
PollingInv == TypeOK /\ PolledIsLanded

\* The history of the channel is declared complete only by a traversal in which
\* every id that was stored at its start was observed, in a batch that finished
\* under its own token, with none left unknown.
HistoryCertified == [][limited /\ ~limited' => roster \subseteq classified']_vars

\* The next cycle continues while the remote head is ahead: every id is polled.
PollingReachesHead == \A m \in Ids : m <= head ~> m <= polled

\* Every stored id is observed again and again, whatever lease a dead poller left.
StoredIdsAreSwept ==
  \A m \in Ids : m \in stored ~> \E p \in Pollers : m \in cycle[p].ids
=============================================================================
