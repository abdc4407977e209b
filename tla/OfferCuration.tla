----------------------------- MODULE OfferCuration -----------------------------
(***************************************************************************)
(* The three that write the fields of an offer, at once: ingestion, the    *)
(* AI's batches and the replay of a new parser.                            *)
(***************************************************************************)
EXTENDS OfferEnrichment, ParserReplay

vars == <<fieldVars, ingestVars, enrichVars, replayVars>>

Init == FieldsInit /\ EnrichInit /\ ReplayInit

Next ==
  \/ Ingest /\ UNCHANGED <<enrichVars, replayVars>>
  \/ Enrich /\ UNCHANGED <<ingestVars, replayVars>>
  \/ Replay /\ UNCHANGED <<ingestVars, enrichVars>>

Spec == Init /\ [][Next]_vars

\* The ingestion and the AI, with no replay under way.
EnrichNext ==
  \/ Ingest /\ UNCHANGED <<enrichVars, replayVars>>
  \/ Enrich /\ UNCHANGED <<ingestVars, replayVars>>

EnrichSpec == Init /\ [][EnrichNext]_vars

-----------------------------------------------------------------------------
\* The rows of the offer, of the batches and of the replay hold values of their
\* columns; a work is claimed exactly while its claim is set.
TypeOK ==
  /\ FieldsTypeOK
  /\ \A b \in Batches :
       /\ batch[b].state \in {"none", "queued", "running", "paused", "reverting"} \cup Ended
       /\ batch[b].undo \subseteq {f \in Fields : batch[b].events[f] # Nothing}
       /\ item[b].state \in {"none", "queued", "processing"} \cup Terminal
       /\ item[b].state = "none" <=> batch[b].state = "none"
  /\ phase \in {"none", "canary", "running", "paused"}
  /\ \A r \in Revisions : replay[r].state = "claimed" <=> replay[r].claim # 0

Settled == \A i \in Ingesters : ingest[i].pc = "idle"

\* Nothing writes over a value of the AI without its origin being told: once the
\* ingestions have compared what they wrote, a field with an active AI origin holds
\* that origin's value, whatever the parser, a replay or another batch did meanwhile;
\* only a field whose comparison was lost, with an ingestion that died after its commit
\* or with one that raised, may hold another.
AiValuesHold ==
  Settled => \A f \in AiActive \ uncompared : offer.value[f] = origin[f].value

\* What keeps the AI's values from growing stale: once the ingestions are done, an
\* active value of the AI was drawn from the revision that is current, unless that
\* revision is no listing, or the comparison of the field was lost.
AiValuesCurrent ==
  Settled /\ source \notin Unlisted =>
    \A f \in AiActive \ uncompared : origin[f].rev = source

\* "Stale AI values are never served": no active value of the AI was drawn from a
\* revision that has been edited since.
StaleNeverServed == Settled => \A f \in AiActive : origin[f].rev = source

\* Each item is counted once by its batch, however many processors it went through.
CountedOnce ==
  \A b \in Batches :
    batch[b].processed = IF item[b].state \in Terminal THEN 1 ELSE 0

Applied(b) == batch[b].events # NoBatch.events

\* The rows of the writers fit together, and an offer that a batch has filled never
\* again answers to the fingerprint the batch was started with, though the values are
\* reverted or cleared and the same fields are missing in the same revision once more.
CurationInv == TypeOK /\ \A b \in Batches : Applied(b) => Fingerprint # item[b].print

\* What a batch applied is decided once: a processor that found the item queued while
\* another one worked on it marks it, asks and completes it a second time, but fills
\* nothing more and writes no further event.
FilledOnce == [][\A b \in Batches : Applied(b) => batch'[b].events = batch[b].events]_vars

\* After an operator rolled a release back nothing of it is written any more, though
\* a worker claimed its work before: a claim outlives neither the pause nor a takeover.
PauseIsFinal ==
  [][/\ phase = "paused" => phase' = "paused"
     /\ \A r \in Revisions :
          replay[r].state \notin Written /\ replay'[r].state \in Written =>
            phase = "running" /\ source = r]_vars

\* A replay and its rollback (the steps that are neither the ingestion's nor the
\* batches') leave what the AI decided alone, be it active, stale or in conflict.
ReplaySparesAi ==
  [][UNCHANGED <<ingestVars, enrichVars>> => \A f \in Fields :
       origin[f].kind = "ai" => origin'[f] = origin[f] /\ offer'.value[f] = offer.value[f]]_vars

\* Replay work is a fenced lease, beside everything else that happens to the offer: a
\* worker whose claim was taken over settles nothing, and settled work stays settled,
\* also when its release is rolled back.
Fence == INSTANCE FencedLease WITH
  Items <- Revisions, Workers <- Replayers, Open <- "open", NoToken <- {}, None <- 0,
  result <- [r \in Revisions |->
               IF replay[r].state \in Closed THEN replay[r].state ELSE "open"],
  token <- [r \in Revisions |-> IF replay[r].claim = 0 THEN {} ELSE {replay[r].claim}],
  claim <- [p \in Replayers |->
              [item |-> replayer[p].rev,
               token |-> IF replayer[p].pc = "idle" THEN {} ELSE {replayer[p].claim}]]

ImplementsLease == Fence!Spec

\* "later owner/parser edits are never overwritten": reverting a batch clears no value
\* that the parser has confirmed as its own.
RevertSparesParser ==
  [][\A b \in Batches, f \in Fields : RevertField(b, f) /\ origin[f].kind = "parser" =>
       offer'.value[f] = offer.value[f]]_vars
=============================================================================
