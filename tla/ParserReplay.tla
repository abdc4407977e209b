------------------------------ MODULE ParserReplay ------------------------------
(***************************************************************************)
(* The guarded replay of a new parser over retained messages               *)
(* (infrastructure/parser_replay.py, application/parser_replay.py) and its *)
(* reversal by an operator (parser_replay_rollback.py): one release, whose *)
(* work are the revisions of our message.  The message of a claimed work   *)
(* is parsed without locks; what is written is decided by one transaction. *)
(***************************************************************************)
EXTENDS OfferFields

CONSTANTS
  Replayers,    \* the replay worker and its successor
  ReplayCanary, \* the literal 25
  MaxAttempts,  \* the literal 3
  MaxClaims     \* bound: claims of all works together

ASSUME ReplayAssumption ==
  ReplayCanary \in Nat \ {0} /\ MaxAttempts \in Nat \ {0} /\ MaxClaims \in Nat

VARIABLES
  phase,      \* of the release
  replay,     \* parser_replay_work, with the field events of each work
  replayer    \* what each worker is doing

replayVars == <<phase, replay, replayer>>

Written == {"updated", "unchanged", "protected_conflict"}
Closed == Written \cup {"excluded", "failed"}
NoEvents == [f \in {} |-> Nothing]
NoReplay == [state |-> "none", claim |-> 0, attempts |-> 0, lapsed |-> FALSE,
             passed |-> FALSE, events |-> NoEvents]
Away == [pc |-> "idle", rev |-> 0, claim |-> 0, phase |-> "none", enabled |-> FALSE]

ReplayInit ==
  /\ phase = "none"
  /\ replay = [r \in Revisions |-> NoReplay]
  /\ replayer = [p \in Replayers |-> Away]

\* The row locks of an ingestion's transaction exclude those of the replay.
Unlocked == \A i \in Ingesters : ingest[i].pc # "writing"

-----------------------------------------------------------------------------
Discover ==
  /\ phase = "none" \/ replay[source].state = "none"
  /\ phase' = IF phase = "none" THEN "canary" ELSE phase
  /\ replay' = IF replay[source].state = "none"
               THEN [replay EXCEPT ![source].state = "queued"] ELSE replay
  /\ UNCHANGED <<fieldVars, replayer>>

\* One hundred and twenty seconds pass.
Lapse(r) ==
  /\ replay[r].state = "claimed" /\ ~replay[r].lapsed
  /\ replay' = [replay EXCEPT ![r].lapsed = TRUE]
  /\ UNCHANGED <<fieldVars, phase, replayer>>

Passed == {r \in Revisions : replay[r].passed}

\* The claims so far, of any work.
Claims == UNION {{r} \X (1 .. replay[r].attempts) : r \in Revisions}

\* apply: the switch, live: whether the live path is ready when the work is begun.
ClaimReplay(p, r, apply, live) ==
  /\ replayer[p].pc = "idle"
  /\ phase \in {"canary", "running"}
  /\ \A s \in Revisions : replay[s].state = "claimed" => replay[s].lapsed
  /\ phase = "canary" => Cardinality(Passed) < ReplayCanary
  /\ \/ replay[r].state \in {"queued", "deferred", "claimed"}
     \/ replay[r].state = "observed" /\ phase = "running" /\ apply
  /\ Cardinality(Claims) < MaxClaims
  /\ replay' = [replay EXCEPT ![r] = [@ EXCEPT !.state = "claimed", !.lapsed = FALSE,
                  !.claim = replay[r].attempts + 1,
                  !.attempts = replay[r].attempts + 1]]
  /\ replayer' = [replayer EXCEPT ![p] = [pc |-> "claimed", rev |-> r, phase |-> phase,
                    claim |-> replay[r].attempts + 1, enabled |-> apply /\ live]]
  /\ UNCHANGED <<fieldVars, phase>>

\* Mutant: that the work is claimed is enough.
HeldByAnyone(p) == replay[replayer[p].rev].state = "claimed"

HeldBy(p) ==
  LET w == replay[replayer[p].rev] IN w.state = "claimed" /\ w.claim = replayer[p].claim

FinishReplay(p, state, events, passed) ==
  /\ replay' = IF ~HeldBy(p) THEN replay ELSE
       [replay EXCEPT ![replayer[p].rev] = [@ EXCEPT !.state = state, !.claim = 0,
          !.lapsed = FALSE, !.events = events,
          !.passed = replay[replayer[p].rev].passed \/ passed]]
  /\ replayer' = [replayer EXCEPT ![p] = Away]

Kept(p) == replay[replayer[p].rev].events

\* The retained original is absent, cannot be decoded or is no listing.
RejectReplay(p) ==
  /\ replayer[p].pc = "claimed"
  /\ FinishReplay(p, "excluded", Kept(p), FALSE)
  /\ UNCHANGED <<fieldVars, phase>>

FailReplay(p) ==
  /\ replayer[p].pc = "claimed"
  /\ FinishReplay(p, IF replay[replayer[p].rev].attempts >= MaxAttempts
                     THEN "failed" ELSE "deferred", Kept(p), FALSE)
  /\ UNCHANGED <<fieldVars, phase>>

-----------------------------------------------------------------------------
(***************************************************************************)
(* plan_replay: the parser owns a field whose value is the one retained,   *)
(* or that is empty and was; the fields of a range go together.            *)
(***************************************************************************)
\* Mutant: whose the value is is not asked.
ShieldedByState ==
  {f \in Fields : origin[f] # NoOrigin /\
     (origin[f].state # "active" \/ origin[f].value # offer.value[f])}

Shielded ==
  {f \in Fields : origin[f] # NoOrigin /\
     (origin[f].kind # "parser" \/ origin[f].state # "active"
        \/ origin[f].value # offer.value[f])}

Owns(r, f) == links[r][f] = offer.value[f]

Plan(r) ==
  LET proposed == {f \in Fields : Extract[r][f] # Nothing}
  IN  IF \A f \in proposed : f \notin Shielded /\ Owns(r, f) THEN proposed ELSE {}

BlockedPlan(r) == Plan(r) = {} /\ \E f \in Fields : Extract[r][f] # Nothing

\* A bound that the new parser does not find keeps its value.
Planned(r) == [f \in Fields |-> IF f \in Plan(r) THEN Extract[r][f] ELSE offer.value[f]]

WriteReplay(p, r) ==
  LET fields == Plan(r)
      events == [f \in fields |-> [value |-> offer.value[f], origin |-> origin[f],
                                   retained |-> links[r][f], parser |-> offer.parser]]
      changed == \E f \in fields : offer.value[f] # Extract[r][f]
  IN  /\ offer' = [stamp |-> offer.stamp + 1, value |-> Planned(r),
                   parser |-> IF BlockedPlan(r) THEN offer.parser ELSE "new"]
      /\ origin' = [f \in Fields |-> IF f \in fields THEN ParserOrigin(Extract[r][f], r)
                                     ELSE origin[f]]
      /\ links' = [links EXCEPT ![r] = [f \in Fields |-> IF f \in fields THEN Extract[r][f]
                                                         ELSE @[f]]]
      /\ FinishReplay(p, IF BlockedPlan(r) THEN "protected_conflict"
                         ELSE IF changed THEN "updated" ELSE "unchanged",
                      IF Kept(p) = NoEvents THEN events ELSE Kept(p), FALSE)

\* Mutant: the phase is the one read with the claim.
ApplyClaimedPhase(p) ==
  LET r == replayer[p].rev
  IN  /\ replayer[p].pc = "claimed" /\ r \notin Unlisted
      /\ Unlocked /\ HeldBy(p) /\ r = source
      /\ IF replayer[p].phase = "canary" \/ ~replayer[p].enabled
         THEN FinishReplay(p, "observed", Kept(p), TRUE) /\ UNCHANGED <<offer, origin, links>>
         ELSE WriteReplay(p, r)
      /\ UNCHANGED <<source, phase>>

\* What was parsed is a listing.  Release, message, work, link, offer and origins are
\* locked in this order.
ApplyReplay(p) ==
  LET r == replayer[p].rev
  IN  /\ replayer[p].pc = "claimed" /\ r \notin Unlisted /\ Unlocked
      /\ \/ /\ phase \notin {"canary", "running"}
            /\ FinishReplay(p, "deferred", Kept(p), FALSE)
            /\ UNCHANGED <<offer, origin, links>>
         \/ /\ phase \in {"canary", "running"} /\ r # source
            /\ FinishReplay(p, "excluded", Kept(p), FALSE)
            /\ UNCHANGED <<offer, origin, links>>
         \/ /\ phase \in {"canary", "running"} /\ r = source /\ ~HeldBy(p)
            /\ replayer' = [replayer EXCEPT ![p] = Away]
            /\ UNCHANGED <<offer, origin, links, replay>>
         \/ /\ r = source /\ HeldBy(p)
            /\ phase = "canary" \/ (phase = "running" /\ ~replayer[p].enabled)
            /\ FinishReplay(p, "observed", Kept(p), TRUE)
            /\ UNCHANGED <<offer, origin, links>>
         \/ /\ r = source /\ HeldBy(p) /\ phase = "running" /\ replayer[p].enabled
            /\ Legal(Planned(r)) /\ WriteReplay(p, r)
      /\ UNCHANGED <<source, phase>>

Promote ==
  /\ phase = "canary"
  /\ \A r \in Revisions : replay[r].state # "failed"
  /\ \/ Cardinality(Passed) >= ReplayCanary
     \/ /\ Passed # {}
        /\ \A r \in Revisions : replay[r].state \notin {"queued", "claimed", "deferred"}
        /\ replay[source].state # "none"
  /\ phase' = "running"
  /\ UNCHANGED <<fieldVars, replay, replayer>>

CrashReplay(p) ==
  /\ replayer[p].pc # "idle"
  /\ replayer' = [replayer EXCEPT ![p] = Away]
  /\ UNCHANGED <<fieldVars, phase, replay>>

-----------------------------------------------------------------------------
\* rollback_parser_work: a field is given back if the replay still owns it; the
\* fields of a range go together, with their origins and the retained extraction.
StillReplayed(r) ==
  /\ source = r
  /\ \A f \in DOMAIN replay[r].events :
       origin[f] = ParserOrigin(Extract[r][f], r) /\ offer.value[f] = Extract[r][f]

\* Where a restored value breaks a constraint, the pause is undone with the rest.
Rollback(r) ==
  LET events == replay[r].events
      Back(now, was) == [f \in Fields |-> IF f \in DOMAIN events THEN was[f] ELSE now[f]]
  IN  /\ replay[r].state # "none" /\ Unlocked
      /\ phase' = "paused"
      /\ IF events # NoEvents /\ StillReplayed(r)
         THEN /\ Legal(Back(offer.value, [f \in DOMAIN events |-> events[f].value]))
              /\ offer' = [stamp |-> offer.stamp + 1,
                           parser |-> events[CHOOSE f \in DOMAIN events : TRUE].parser,
                           value |-> Back(offer.value, [f \in DOMAIN events |-> events[f].value])]
              /\ origin' = Back(origin, [f \in DOMAIN events |-> events[f].origin])
              /\ links' = [links EXCEPT ![r] =
                             Back(@, [f \in DOMAIN events |-> events[f].retained])]
              /\ replay' = [replay EXCEPT ![r].events = NoEvents]
         ELSE UNCHANGED <<offer, origin, links, replay>>
      /\ UNCHANGED <<source, replayer>>

Replay ==
  \/ Discover \/ Promote
  \/ \E r \in Revisions : Lapse(r) \/ Rollback(r)
  \/ \E p \in Replayers :
       \/ RejectReplay(p) \/ FailReplay(p) \/ ApplyReplay(p) \/ CrashReplay(p)
       \/ \E r \in Revisions, apply, live \in BOOLEAN : ClaimReplay(p, r, apply, live)
=============================================================================
