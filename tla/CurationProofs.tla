---------------------------- MODULE CurationProofs ----------------------------
(***************************************************************************)
(* What the three writers of an offer keep, for any number of ingesters,   *)
(* processors, batches and replay workers, any values and revisions.       *)
(***************************************************************************)
EXTENDS OfferCuration, TLAPS

Held == Values \cup {Nothing}
Origin == [kind : Kinds, state : {"none", "active", "stale", "conflicting"},
           value : Held, rev : 0 .. LastRevision]
OfferRow == [value : Document, stamp : Nat, parser : {"old", "new"}]
IngesterRow == [pc : {"idle", "writing", "committed", "syncing"}, rev : 0 .. LastRevision,
                shielded : SUBSET Fields, changed : BOOLEAN, todo : SUBSET Fields,
                listed : [Fields -> Origin]]

FieldsFine ==
  /\ source \in Revisions
  /\ offer \in OfferRow /\ Legal(offer.value)
  /\ links \in [(1 .. source) \ Unlisted -> Document]
  /\ origin \in [Fields -> Origin]

\* One ingestion holds the lock of the message, and it is about the current revision
\* or the next one.
IngestFine ==
  /\ ingest \in [Ingesters -> IngesterRow] /\ upserts \in Nat /\ ingestCrashes \in Nat
  /\ uncompared \subseteq Fields
  /\ \A i \in Ingesters :
       /\ ingest[i].pc = "syncing" <=> ingest[i].todo # {}
       /\ ingest[i].pc # "idle" => ingest[i].rev \in Revisions
       /\ ingest[i].pc = "writing" => ingest[i].rev \in {source, source + 1}
  /\ \A i, j \in Ingesters : ingest[i].pc = "writing" /\ ingest[j].pc = "writing" => i = j

BatchRow == [state : {"none", "queued", "running", "paused", "reverting"} \cup Ended,
             started : BOOLEAN, processed : Nat, events : Document,
             undoing : BOOLEAN, undo : SUBSET Fields]
PrintRow == [stamp : Nat, missing : SUBSET Fields, rev : 0 .. LastRevision]
ItemRow == [state : {"none", "queued", "processing"} \cup Terminal, print : PrintRow]
ProcessorRow == [pc : {"idle", "open", "found", "marked", "taken", "asking"},
                 batch : Batches \cup {"none"},
                 restart : BOOLEAN, retry : BOOLEAN, missing : SUBSET Fields]

\* A batch and its item come into being together, and whoever processes has a batch
\* that did.
EnrichFine ==
  /\ batch \in [Batches -> BatchRow] /\ item \in [Batches -> ItemRow]
  /\ process \in [Processors -> ProcessorRow]
  /\ \A b \in Batches :
       /\ batch[b].undo \subseteq {f \in Fields : batch[b].events[f] # Nothing}
       /\ item[b].state = "none" <=> batch[b].state = "none"
       /\ batch[b].undoing => batch[b].state # "none"
  /\ \A p \in Processors : process[p].pc # "idle" =>
       process[p].batch \in Batches /\ batch[process[p].batch].state # "none"

\* An event remembers an origin that was not the AI's.
FieldEvent == [value : Held, origin : {o \in Origin : o.kind # "ai"}, retained : Held,
               parser : {"old", "new"}]
FieldEvents == UNION {[fields -> FieldEvent] : fields \in SUBSET Fields}
Phases == {"none", "canary", "running", "paused"}
ReplayRow == [state : {"none", "queued", "claimed", "observed", "deferred", "excluded", "failed"}
                        \cup Written,
              claim : Nat, attempts : Nat, lapsed : BOOLEAN, passed : BOOLEAN,
              events : FieldEvents]
ReplayerRow == [pc : {"idle", "claimed"}, rev : 0 .. LastRevision, claim : Nat,
                phase : Phases, enabled : BOOLEAN]

ReplayFine ==
  /\ phase \in Phases
  /\ replay \in [Revisions -> ReplayRow]
  /\ \A r \in Revisions : replay[r].state = "claimed" <=> replay[r].claim # 0
  /\ replayer \in [Replayers -> ReplayerRow]
  /\ \A p \in Replayers : replayer[p].pc # "idle" => replayer[p].rev \in Revisions

\* Every write to the offer moves its stamp, and a batch is started with the stamp of
\* the time: once it has applied something, the offer has left its print behind.
Stamped(b) ==
  /\ item[b].print.stamp <= offer.stamp
  /\ Applied(b) => item[b].print.stamp < offer.stamp /\ batch[b].state # "none"

StampsFine == \A b \in Batches : Stamped(b)

IInv == FieldsFine /\ IngestFine /\ EnrichFine /\ ReplayFine /\ StampsFine

-----------------------------------------------------------------------------
LEMMA SourceType == ASSUME source \in Revisions PROVE source \in Nat /\ source \in 0 .. LastRevision
  BY FieldsAssumption DEF Revisions

LEMMA Initially == Init => IInv
<1> SUFFICES ASSUME Init PROVE IInv
  OBVIOUS
<1> USE DEF Init, FieldsInit, EnrichInit, ReplayInit
<1>1. FieldsFine
  BY FieldsAssumption DEF FieldsFine, OfferRow, Revisions, Origin, NoOrigin, Kinds, Held, Document
<1>2. IngestFine
  BY FieldsAssumption DEF IngestFine, IngesterRow, Resting, Origin, NoOrigin, Kinds, Held
<1>3. EnrichFine
  BY FieldsAssumption DEF EnrichFine, BatchRow, ItemRow, PrintRow, ProcessorRow, NoBatch, NoItem,
     NoPrint, Free, Ended, Terminal, Document
<1>4. ReplayFine
  <2>1. NoEvents \in FieldEvents
    BY DEF NoEvents, FieldEvents
  <2> QED BY <2>1, FieldsAssumption DEF ReplayFine, ReplayRow, NoReplay, ReplayerRow, Away, Phases
<1>5. StampsFine
  BY DEF StampsFine, Stamped, Applied, NoBatch, NoItem, NoPrint
<1> QED BY <1>1, <1>2, <1>3, <1>4, <1>5 DEF IInv

-----------------------------------------------------------------------------
LEMMA StampStays ==
  ASSUME FieldsFine, FieldsFine', EnrichFine, NEW b \in Batches, Stamped(b),
         offer'.stamp >= offer.stamp, item'[b].print = item[b].print,
         batch'[b].events = batch[b].events, batch[b].state # "none" => batch'[b].state # "none"
  PROVE  Stamped(b)'
<1>1. offer.stamp \in Nat /\ offer'.stamp \in Nat /\ item[b].print.stamp \in Nat
  BY DEF FieldsFine, OfferRow, EnrichFine, ItemRow, PrintRow
<1>2. Applied(b)' => Applied(b)
  BY DEF Applied
<1> QED BY <1>1, <1>2 DEF Stamped

LEMMA StampsStay ==
  ASSUME FieldsFine, FieldsFine', EnrichFine, StampsFine, offer'.stamp >= offer.stamp,
         UNCHANGED <<batch, item>>
  PROVE  StampsFine'
BY StampStays DEF StampsFine

(***************************************************************************)
(* Ingestion.                                                              *)
(***************************************************************************)
\* A write to the fields moves updated_at.
LEMMA Restamped ==
  ASSUME offer \in OfferRow, NEW v \in Document
  PROVE  /\ [offer EXCEPT !.value = v, !.stamp = @ + 1] \in OfferRow
         /\ [offer EXCEPT !.value = v, !.stamp = @ + 1].value = v
<1>1. ASSUME NEW n \in Nat PROVE [offer EXCEPT !.value = v, !.stamp = n] \in OfferRow
  BY DEF OfferRow
<1>2. offer.stamp + 1 \in Nat
  BY DEF OfferRow
<1> QED BY <1>1, <1>2 DEF OfferRow

LEMMA ClearedFine ==
  ASSUME offer \in OfferRow, NEW f \in Fields
  PROVE  /\ Cleared(f) \in Document /\ Cleared(f)[f] = Nothing
         /\ \A g \in Fields \ {f} : Cleared(f)[g] = offer.value[g]
         /\ [offer EXCEPT !.value = Cleared(f), !.stamp = @ + 1] \in OfferRow
<1>1. offer.value \in Document
  BY DEF OfferRow
<1>2. /\ Cleared(f) \in Document /\ Cleared(f)[f] = Nothing
      /\ \A g \in Fields \ {f} : Cleared(f)[g] = offer.value[g]
  BY <1>1 DEF Cleared, Document
<1> QED BY <1>2, Restamped

LEMMA RestingFine ==
  /\ Resting \in IngesterRow
  /\ Resting.pc = "idle" /\ Resting.todo = {}
  BY FieldsAssumption DEF Resting, IngesterRow, Origin, NoOrigin, Kinds, Held

\* What an ingester begins with, and what it has committed.
LEMMA BegunFine ==
  ASSUME NEW r \in Revisions, NEW shielded \in SUBSET Fields, NEW changed \in BOOLEAN
  PROVE  /\ [Resting EXCEPT !.pc = "writing", !.rev = r, !.shielded = shielded] \in IngesterRow
         /\ [Resting EXCEPT !.pc = "committed", !.rev = r, !.changed = changed] \in IngesterRow
<1>1. r \in 0 .. LastRevision
  BY FieldsAssumption DEF Revisions
<1> QED BY <1>1, RestingFine DEF IngesterRow

LEMMA BeginUpsertKeeps ==
  ASSUME FieldsFine, IngestFine, NEW i \in Ingesters, BeginUpsert(i)
  PROVE  FieldsFine' /\ IngestFine'
<1>1. FieldsFine'
  BY DEF FieldsFine, BeginUpsert, fieldVars
<1>2. PICK r \in {source, source + 1} \cap Revisions :
        ingest' = [ingest EXCEPT ![i] = [Resting EXCEPT !.pc = "writing", !.rev = r,
                                                !.shielded = Protected]]
  BY DEF BeginUpsert
<1> DEFINE row == [Resting EXCEPT !.pc = "writing", !.rev = r, !.shielded = Protected]
<1>3. row \in IngesterRow
  BY BegunFine DEF Protected
<1>4. row.pc = "writing" /\ row.todo = {} /\ row.rev = r
  BY DEF Resting
<1> HIDE DEF row
<1>5. ingest' = [ingest EXCEPT ![i] = row]
  BY <1>2 DEF row
<1>6. \A j \in Ingesters : ingest'[j] = IF j = i THEN row ELSE ingest[j]
  BY <1>5 DEF IngestFine
<1>7. \A j \in Ingesters : ingest[j].pc # "writing"
  BY DEF BeginUpsert
<1>8. /\ ingest' \in [Ingesters -> IngesterRow] /\ upserts' \in Nat /\ ingestCrashes' \in Nat
      /\ source' = source /\ uncompared' \subseteq Fields
  BY <1>3, <1>5 DEF IngestFine, BeginUpsert, fieldVars
<1>9. IngestFine'
  BY <1>4, <1>6, <1>7, <1>8 DEF IngestFine
<1> QED BY <1>1, <1>9

LEMMA CommitUpsertKeeps ==
  ASSUME FieldsFine, IngestFine, NEW i \in Ingesters, CommitUpsert(i)
  PROVE  FieldsFine' /\ IngestFine'
<1> DEFINE r == ingest[i].rev
<1>1. /\ r \in Revisions /\ r \in {source, source + 1} /\ source' = r
      /\ ingest[i] \in IngesterRow
  BY DEF CommitUpsert, IngestFine
<1>2. Parsed(i) \in Document
  BY <1>1, FieldsAssumption DEF Parsed, FieldsFine, OfferRow, Document
<1>3. offer' \in OfferRow /\ Legal(offer'.value)
  BY <1>2 DEF CommitUpsert, FieldsFine, OfferRow
<1>4. links' \in [(1 .. r) \ Unlisted -> Document]
  <2>1. ((1 .. source) \ Unlisted) \cup {r} = (1 .. r) \ Unlisted
    BY <1>1, FieldsAssumption DEF CommitUpsert, FieldsFine, Revisions
  <2>2. DOMAIN links = (1 .. source) \ Unlisted
    BY DEF FieldsFine
  <2>3. links' = [q \in (1 .. r) \ Unlisted |-> IF q \in DOMAIN links THEN links[q] ELSE Extract[q]]
    BY <2>1, <2>2 DEF CommitUpsert
  <2>4. ASSUME NEW q \in (1 .. r) \ Unlisted
        PROVE  (IF q \in DOMAIN links THEN links[q] ELSE Extract[q]) \in Document
    <3>1. q \in Revisions
      BY <1>1, FieldsAssumption DEF Revisions
    <3> QED BY <2>2, <3>1, FieldsAssumption DEF FieldsFine
  <2> QED BY <2>3, <2>4
<1>5. FieldsFine'
  BY <1>1, <1>3, <1>4 DEF FieldsFine, CommitUpsert
<1> DEFINE row == [Resting EXCEPT !.pc = "committed", !.rev = r, !.changed = r \notin DOMAIN links]
<1>6. row \in IngesterRow
  BY <1>1, BegunFine
<1>7. row.pc = "committed" /\ row.todo = {} /\ row.rev = r
  BY DEF Resting
<1>8. ingest' = [ingest EXCEPT ![i] = row]
  BY DEF CommitUpsert
<1> HIDE DEF row
<1>9. \A j \in Ingesters : ingest'[j] = IF j = i THEN row ELSE ingest[j]
  BY <1>8 DEF IngestFine
<1>10. \A j \in Ingesters : ingest'[j].pc # "writing"
  BY <1>7, <1>9 DEF CommitUpsert, IngestFine
<1>11. /\ ingest' \in [Ingesters -> IngesterRow] /\ upserts' \in Nat /\ ingestCrashes' \in Nat
       /\ uncompared' \subseteq Fields
  BY <1>6, <1>8 DEF IngestFine, CommitUpsert, boundVars
<1>12. IngestFine'
  BY <1>1, <1>7, <1>9, <1>10, <1>11 DEF IngestFine
<1> QED BY <1>5, <1>12

\* An ingester comes to rest.
LEMMA Rested ==
  ASSUME IngestFine, NEW i \in Ingesters, ingest' = [ingest EXCEPT ![i] = Resting],
         \A j \in Ingesters \ {i} : ingest[j].pc = "writing" => source' = source,
         upserts' \in Nat, ingestCrashes' \in Nat, uncompared' \subseteq Fields
  PROVE  IngestFine'
<1>1. \A j \in Ingesters : ingest'[j] = IF j = i THEN Resting ELSE ingest[j]
  BY DEF IngestFine
<1>2. ingest' \in [Ingesters -> IngesterRow]
  BY RestingFine DEF IngestFine
<1>3. \A j \in Ingesters :
        /\ ingest'[j].pc = "syncing" <=> ingest'[j].todo # {}
        /\ ingest'[j].pc # "idle" => ingest'[j].rev \in Revisions
        /\ ingest'[j].pc = "writing" => ingest'[j].rev \in {source', source' + 1}
  BY <1>1, RestingFine DEF IngestFine
<1>4. \A j, k \in Ingesters : ingest'[j].pc = "writing" /\ ingest'[k].pc = "writing" => j = k
  BY <1>1, RestingFine DEF IngestFine
<1> QED BY <1>2, <1>3, <1>4 DEF IngestFine

LEMMA CommitUnlistedKeeps ==
  ASSUME FieldsFine, IngestFine, NEW i \in Ingesters, CommitUnlisted(i)
  PROVE  FieldsFine' /\ IngestFine'
<1> PICK r \in Revisions : r = ingest[i].rev /\ r \in {source, source + 1} /\ r \in Unlisted
  BY DEF CommitUnlisted, IngestFine
<1>1. source' = r /\ UNCHANGED <<offer, links, origin, uncompared, boundVars>>
  BY DEF CommitUnlisted
<1>2. (1 .. source) \ Unlisted = (1 .. r) \ Unlisted
  BY FieldsAssumption DEF FieldsFine, Revisions
<1>3. FieldsFine'
  BY <1>1, <1>2 DEF FieldsFine
<1>4. \A j \in Ingesters \ {i} : ingest[j].pc # "writing"
  BY DEF CommitUnlisted, IngestFine
<1>5. IngestFine'
  BY <1>1, <1>4, Rested DEF CommitUnlisted, IngestFine, boundVars
<1> QED BY <1>3, <1>5

LEMMA RestKeeps ==
  ASSUME FieldsFine, IngestFine, NEW i \in Ingesters,
         RaiseUpsert(i) \/ ListOrigins(i) \/ CrashIngest(i)
  PROVE  FieldsFine' /\ IngestFine'
<1>1. FieldsFine'
  BY DEF RaiseUpsert, ListOrigins, CrashIngest, fieldVars, FieldsFine
<1>2. /\ source' = source /\ upserts' \in Nat /\ ingestCrashes' \in Nat
      /\ uncompared' \subseteq Fields
  <2>1. ingest[i].todo \subseteq Fields /\ AiActive \subseteq Fields
    BY DEF IngestFine, IngesterRow, AiActive
  <2> QED BY <2>1 DEF RaiseUpsert, ListOrigins, CrashIngest, fieldVars, boundVars, IngestFine
<1>3. CASE ingest' = [ingest EXCEPT ![i] = Resting]
  BY <1>1, <1>2, <1>3, Rested
<1>4. CASE /\ ListOrigins(i) /\ AiActive # {}
           /\ ingest' = [ingest EXCEPT ![i] =
                           [@ EXCEPT !.pc = "syncing", !.todo = AiActive, !.listed = origin]]
  <2>1. ingest'[i] \in IngesterRow
    BY <1>4 DEF IngestFine, IngesterRow, FieldsFine, AiActive
  <2> QED BY <2>1, <1>1, <1>2, <1>4 DEF IngestFine, ListOrigins, fieldVars, IngesterRow
<1> QED BY <1>3, <1>4 DEF RaiseUpsert, ListOrigins, CrashIngest

LEMMA DoneKeeps ==
  ASSUME IngestFine, NEW i \in Ingesters, NEW f \in Fields, ingest[i].pc = "syncing",
         UNCHANGED <<source, boundVars>>, uncompared' \subseteq Fields,
         Done(i, f) \/ ingest' = [ingest EXCEPT ![i] = Resting]
  PROVE  IngestFine'
<1>1. UNCHANGED <<upserts, ingestCrashes>>
  BY DEF boundVars
<1>2. CASE ingest' = [ingest EXCEPT ![i] = Resting]
  BY <1>1, <1>2, Rested DEF IngestFine
<1>3. CASE ingest' = [ingest EXCEPT ![i].todo = @ \ {f}] /\ ingest[i].todo # {f}
  <2> DEFINE row == [ingest[i] EXCEPT !.todo = @ \ {f}]
  <2>1. ingest[i] \in IngesterRow /\ ingest[i].todo # {}
    BY DEF IngestFine
  <2>2. /\ row \in IngesterRow /\ row.pc = "syncing" /\ row.rev = ingest[i].rev
        /\ row.todo = ingest[i].todo \ {f}
    BY <2>1 DEF IngesterRow
  <2>3. row.todo # {}
    BY <2>1, <2>2, <1>3
  <2>4. ingest' \in [Ingesters -> IngesterRow] /\ \A j \in Ingesters : ingest'[j] = IF j = i THEN row ELSE ingest[j]
    BY <2>2, <1>3 DEF row, IngestFine
  <2> HIDE DEF row
  <2> QED BY <1>1, <2>2, <2>3, <2>4 DEF IngestFine
<1> QED BY <1>2, <1>3 DEF Done, IngestFine

LEMMA InvalidateKeeps ==
  ASSUME FieldsFine, IngestFine, NEW i \in Ingesters, NEW f \in Fields, Invalidate(i, f)
  PROVE  FieldsFine' /\ IngestFine'
<1>1. /\ offer' \in OfferRow /\ Legal(offer'.value)
  BY ClearedFine DEF Invalidate, FieldsFine, OfferRow
<1>2. origin' \in [Fields -> Origin]
  <2>1. ASSUME NEW s \in {"stale", "conflicting"}
        PROVE  [origin EXCEPT ![f].state = s] \in [Fields -> Origin]
    <3>1. origin \in [Fields -> Origin] /\ origin[f] \in Origin
      BY DEF FieldsFine
    <3>2. [origin[f] EXCEPT !.state = s] \in Origin
      BY <3>1 DEF Origin
    <3> QED BY <3>1, <3>2
  <2>2. \/ origin' = origin
        \/ \E s \in {"stale", "conflicting"} : origin' = [origin EXCEPT ![f].state = s]
    BY DEF Invalidate
  <2> QED BY <2>1, <2>2 DEF FieldsFine
<1>3. FieldsFine'
  BY <1>1, <1>2 DEF FieldsFine, Invalidate
<1>4. IngestFine'
  <2>1. uncompared' \subseteq Fields
    BY DEF Invalidate, IngestFine, IngesterRow
  <2> QED BY <2>1, DoneKeeps DEF Invalidate
<1> QED BY <1>3, <1>4

LEMMA CompareKeeps ==
  ASSUME FieldsFine, IngestFine, NEW i \in Ingesters, NEW f \in Fields, Compare(i, f)
  PROVE  FieldsFine' /\ IngestFine'
<1>1. Extract[ingest[i].rev][f] \in Held
  BY FieldsAssumption DEF Compare, IngestFine, Document, Held
<1>2. origin' \in [Fields -> Origin]
  BY <1>1 DEF Compare, FieldsFine, Origin, Kinds
<1>3. FieldsFine'
  BY <1>2 DEF FieldsFine, Compare
<1>4. IngestFine'
  <2>1. uncompared' \subseteq Fields
    BY DEF Compare, IngestFine
  <2> QED BY <2>1, DoneKeeps DEF Compare
<1> QED BY <1>3, <1>4

LEMMA IngestKeeps ==
  ASSUME IInv, Ingest, UNCHANGED <<enrichVars, replayVars>>
  PROVE  IInv'
<1>1. FieldsFine' /\ IngestFine'
  BY BeginUpsertKeeps, CommitUpsertKeeps, CommitUnlistedKeeps, RestKeeps, InvalidateKeeps,
     CompareKeeps DEF Ingest, IInv
<1>2. EnrichFine' /\ ReplayFine'
  BY DEF IInv, EnrichFine, ReplayFine, enrichVars, replayVars
<1>3. StampsFine'
  <2>1. offer'.stamp >= offer.stamp
    <3>1. offer \in OfferRow /\ offer.stamp \in Nat
      BY DEF IInv, FieldsFine, OfferRow
    <3>2. ASSUME NEW f \in Fields, offer' = [offer EXCEPT !.value = Cleared(f), !.stamp = @ + 1]
          PROVE  offer'.stamp >= offer.stamp
      BY <3>1, <3>2 DEF OfferRow
    <3>3. ASSUME NEW i \in Ingesters, CommitUpsert(i)
          PROVE  offer'.stamp >= offer.stamp
      BY <3>1, <3>3 DEF CommitUpsert, OfferRow
    <3>4. offer' = offer => offer'.stamp >= offer.stamp
      BY <3>1
    <3> QED BY <3>2, <3>3, <3>4 DEF Ingest, BeginUpsert, CommitUnlisted, RaiseUpsert,
              ListOrigins, CrashIngest, Invalidate, Compare, fieldVars
  <2> QED BY <1>1, <2>1, StampsStay DEF IInv, enrichVars
<1> QED BY <1>1, <1>2, <1>3 DEF IInv

-----------------------------------------------------------------------------
(***************************************************************************)
(* The batches.                                                            *)
(***************************************************************************)
LEMMA FreeFine == Free \in ProcessorRow /\ Free.pc = "idle"
  BY DEF Free, ProcessorRow

LEMMA FingerprintFine ==
  ASSUME FieldsFine
  PROVE  /\ Fingerprint \in PrintRow /\ Fingerprint.stamp = offer.stamp
         /\ Fingerprint.rev # 0 => Fingerprint.rev = source
  BY SourceType, FieldsAssumption DEF FieldsFine, OfferRow, Fingerprint, PrintRow, Missing, Cited

\* A step on one batch and its item, by a request or by processors under way.
LEMMA PairMoved ==
  ASSUME EnrichFine, NEW b \in Batches, NEW row \in BatchRow, NEW entry \in ItemRow,
         batch' = [batch EXCEPT ![b] = row], item' = [item EXCEPT ![b] = entry],
         row.state # "none", entry.state # "none",
         row.undo \subseteq {f \in Fields : row.events[f] # Nothing},
         process' \in [Processors -> ProcessorRow],
         \A q \in Processors : process'[q].pc # "idle" =>
           process[q].pc # "idle" /\ process'[q].batch = process[q].batch
  PROVE  EnrichFine'
<1>1. batch' \in [Batches -> BatchRow] /\ item' \in [Batches -> ItemRow]
  BY DEF EnrichFine
<1>2. \A c \in Batches : /\ batch'[c] = IF c = b THEN row ELSE batch[c]
                         /\ item'[c] = IF c = b THEN entry ELSE item[c]
  BY DEF EnrichFine
<1> QED BY <1>1, <1>2 DEF EnrichFine

\* Whoever is done with an item is free.
LEMMA FreedFine ==
  ASSUME EnrichFine, NEW p \in Processors, process' = [process EXCEPT ![p] = Free]
  PROVE  /\ process' \in [Processors -> ProcessorRow]
         /\ \A q \in Processors : process'[q].pc # "idle" =>
              process[q].pc # "idle" /\ process'[q].batch = process[q].batch
  BY FreeFine DEF EnrichFine

LEMMA RowFine ==
  ASSUME EnrichFine, NEW b \in Batches
  PROVE  /\ batch[b] \in BatchRow /\ item[b] \in ItemRow
         /\ batch[b].undo \subseteq {f \in Fields : batch[b].events[f] # Nothing}
         /\ item[b].state = "none" <=> batch[b].state = "none"
         /\ item = [item EXCEPT ![b] = item[b]] /\ batch = [batch EXCEPT ![b] = batch[b]]
         /\ process \in [Processors -> ProcessorRow]
  BY DEF EnrichFine

LEMMA StartKeeps ==
  ASSUME FieldsFine, EnrichFine, NEW b \in Batches, StartBatch(b)
  PROVE  FieldsFine' /\ EnrichFine'
<1>1. FieldsFine'
  BY DEF StartBatch, fieldVars, FieldsFine
<1> DEFINE row == [batch[b] EXCEPT !.state = "queued"]
           entry == [state |-> "queued", print |-> Fingerprint]
<1>2. /\ row \in BatchRow /\ row.state = "queued" /\ row.undo = batch[b].undo
      /\ row.events = batch[b].events
  BY RowFine DEF BatchRow
<1>3. entry \in ItemRow /\ entry.state # "none"
  BY FingerprintFine DEF ItemRow, Terminal
<1>4. batch' = [batch EXCEPT ![b] = row] /\ item' = [item EXCEPT ![b] = entry]
  BY DEF StartBatch, EnrichFine
<1>7. row.undo \subseteq {f \in Fields : row.events[f] # Nothing}
  BY <1>2, RowFine
<1>8. process' = process
  BY DEF StartBatch
<1> HIDE DEF row, entry
<1>9. process' \in [Processors -> ProcessorRow]
  BY <1>8, RowFine
<1>10. EnrichFine'
  BY <1>2, <1>3, <1>4, <1>7, <1>8, <1>9, PairMoved
<1> QED BY <1>1, <1>10

\* The batch takes another state: by the owner, or because a revert begins or ends.
LEMMA StateKeeps ==
  ASSUME EnrichFine, NEW b \in Batches, batch[b].state # "none",
         NEW row \in BatchRow, row.state # "none", row.events = batch[b].events,
         row.undo \subseteq {f \in Fields : row.events[f] # Nothing},
         batch' = [batch EXCEPT ![b] = row], UNCHANGED <<item, process>>
  PROVE  EnrichFine'
<1>1. item[b] \in ItemRow /\ item[b].state # "none"
  BY RowFine
<1>2. item' = [item EXCEPT ![b] = item[b]]
  BY RowFine
<1>3. process' \in [Processors -> ProcessorRow]
  BY RowFine
<1> QED BY <1>1, <1>2, <1>3, PairMoved

LEMMA RequestKeeps ==
  ASSUME FieldsFine, EnrichFine, NEW b \in Batches,
         PauseBatch(b) \/ ResumeBatch(b) \/ BeginRevert(b) \/ EndRevert(b)
  PROVE  FieldsFine' /\ EnrichFine'
<1>1. FieldsFine' /\ UNCHANGED <<item, process>>
  BY DEF PauseBatch, ResumeBatch, BeginRevert, EndRevert, fieldVars, FieldsFine
<1>2. CASE PauseBatch(b)
  <2> DEFINE row == [batch[b] EXCEPT !.state = "paused"]
  <2>1. /\ row \in BatchRow /\ row.state = "paused"
        /\ row.undo = batch[b].undo /\ row.events = batch[b].events
    BY RowFine DEF BatchRow
  <2>2. batch' = [batch EXCEPT ![b] = row] /\ batch[b].state # "none"
    BY <1>2 DEF PauseBatch, EnrichFine
  <2>3. row.undo \subseteq {f \in Fields : row.events[f] # Nothing}
    BY <2>1, RowFine
  <2> HIDE DEF row
  <2> QED BY <1>1, <2>1, <2>2, <2>3, StateKeeps
<1>3. CASE ResumeBatch(b)
  <2> DEFINE row == [batch[b] EXCEPT !.state = "running"]
  <2>1. /\ row \in BatchRow /\ row.state = "running"
        /\ row.undo = batch[b].undo /\ row.events = batch[b].events
    BY RowFine DEF BatchRow
  <2>2. batch' = [batch EXCEPT ![b] = row] /\ batch[b].state # "none"
    BY <1>3 DEF ResumeBatch, EnrichFine
  <2>3. row.undo \subseteq {f \in Fields : row.events[f] # Nothing}
    BY <2>1, RowFine
  <2> HIDE DEF row
  <2> QED BY <1>1, <2>1, <2>2, <2>3, StateKeeps
<1>4. CASE BeginRevert(b)
  <2> DEFINE undo == {f \in Fields : batch[b].events[f] # Nothing}
             row == [batch[b] EXCEPT !.state = "reverting", !.undoing = TRUE, !.undo = undo]
  <2>1. /\ row \in BatchRow /\ row.state = "reverting"
        /\ row.undo = undo /\ row.events = batch[b].events
    BY RowFine DEF BatchRow
  <2>2. batch' = [batch EXCEPT ![b] = row] /\ batch[b].state # "none"
    BY <1>4 DEF BeginRevert
  <2> HIDE DEF row
  <2> QED BY <1>1, <2>1, <2>2, StateKeeps
<1>5. CASE EndRevert(b)
  <2> DEFINE row == [batch[b] EXCEPT !.state = "reverted", !.undoing = FALSE]
  <2>1. /\ row \in BatchRow /\ row.state = "reverted"
        /\ row.undo = {} /\ row.events = batch[b].events
    BY <1>5, RowFine DEF BatchRow, EndRevert, Ended
  <2>2. batch' = [batch EXCEPT ![b] = row] /\ batch[b].state # "none"
    BY <1>5 DEF EndRevert, EnrichFine
  <2> HIDE DEF row
  <2> QED BY <1>1, <2>1, <2>2, StateKeeps
<1> QED BY <1>2, <1>3, <1>4, <1>5

LEMMA OpenKeeps ==
  ASSUME FieldsFine, EnrichFine, NEW p \in Processors, NEW b \in Batches,
         OpenBatch(p, b)
  PROVE  FieldsFine' /\ EnrichFine'
<1>1. FieldsFine' /\ UNCHANGED <<batch, item>> /\ batch[b].state # "none"
  BY DEF OpenBatch, fieldVars, FieldsFine
<1> DEFINE row == [pc |-> "open", batch |-> b, missing |-> {},
                   restart |-> batch[b].state = "queued" \/ ~batch[b].started,
                   retry |-> item[b].state = "processing"]
<1>2. row \in ProcessorRow /\ row.batch = b
  BY DEF ProcessorRow
<1>3. process' = [process EXCEPT ![p] = row]
  BY DEF OpenBatch
<1> HIDE DEF row
<1>4. process' \in [Processors -> ProcessorRow]
  BY <1>2, <1>3 DEF EnrichFine
<1>5. \A q \in Processors : process'[q].pc # "idle" =>
        process'[q].batch \in Batches /\ batch[process'[q].batch].state # "none"
  BY <1>1, <1>2, <1>3 DEF EnrichFine
<1> QED BY <1>1, <1>4, <1>5 DEF EnrichFine

LEMMA RunningFine ==
  ASSUME NEW row \in BatchRow
  PROVE  [row EXCEPT !.state = "running", !.started = TRUE] \in BatchRow
  BY DEF BatchRow

LEMMA AskingFine ==
  ASSUME NEW entry \in ProcessorRow, NEW missing \in SUBSET Fields
  PROVE  [entry EXCEPT !.pc = "asking", !.missing = missing] \in ProcessorRow
  BY DEF ProcessorRow

\* A processor goes from one step of an item to the next.
LEMMA GoneOn ==
  ASSUME EnrichFine, NEW p \in Processors, process[p].pc # "idle",
         NEW pc \in {"found", "marked", "taken"}, process' = [process EXCEPT ![p].pc = pc]
  PROVE  /\ process' \in [Processors -> ProcessorRow]
         /\ \A q \in Processors : process'[q].pc # "idle" =>
              process[q].pc # "idle" /\ process'[q].batch = process[q].batch
  BY DEF EnrichFine, ProcessorRow

LEMMA FindKeeps ==
  ASSUME FieldsFine, EnrichFine, NEW p \in Processors, FindItem(p)
  PROVE  FieldsFine' /\ EnrichFine'
<1> DEFINE b == process[p].batch
<1>1. FieldsFine' /\ item' = item /\ process[p].pc # "idle"
  BY DEF FindItem, fieldVars, FieldsFine
<1>2. b \in Batches /\ batch[b].state # "none" /\ item[b].state # "none"
  BY <1>1 DEF EnrichFine
<1>3. CASE batch' = batch /\ \E pc \in {"found", Started(p)} : process' = [process EXCEPT ![p].pc = pc]
  <2>1. Started(p) \in {"marked", "taken"}
    BY DEF Started
  <2> QED BY <1>1, <1>3, <2>1, GoneOn DEF EnrichFine
<1>4. CASE batch' = [batch EXCEPT ![b].state = "completed"] /\ process' = [process EXCEPT ![p] = Free]
  <2> DEFINE row == [batch[b] EXCEPT !.state = "completed"]
  <2>1. /\ row \in BatchRow /\ row.state = "completed"
        /\ row.events = batch[b].events /\ row.undo = batch[b].undo
    BY <1>2, RowFine DEF BatchRow, Ended
  <2>2. batch' = [batch EXCEPT ![b] = row] /\ item' = [item EXCEPT ![b] = item[b]]
    BY <1>1, <1>2, <1>4 DEF EnrichFine
  <2>3. row.undo \subseteq {f \in Fields : row.events[f] # Nothing} /\ item[b] \in ItemRow
    BY <1>2, <2>1, RowFine
  <2> HIDE DEF row
  <2>5. /\ process' \in [Processors -> ProcessorRow]
        /\ \A q \in Processors : process'[q].pc # "idle" =>
             process[q].pc # "idle" /\ process'[q].batch = process[q].batch
    BY <1>4, FreedFine
  <2>4. EnrichFine'
    BY <1>2, <2>1, <2>2, <2>3, <2>5, PairMoved
  <2> QED BY <1>1, <2>4
<1> QED BY <1>3, <1>4 DEF FindItem

LEMMA MarkKeeps ==
  ASSUME FieldsFine, EnrichFine, NEW p \in Processors, MarkItem(p)
  PROVE  FieldsFine' /\ EnrichFine'
<1> PICK b \in Batches : b = process[p].batch /\ batch[b].state # "none"
  BY DEF MarkItem, EnrichFine
<1>1. FieldsFine' /\ batch' = batch /\ process[p].pc # "idle"
  BY DEF MarkItem, fieldVars, FieldsFine
<1> DEFINE entry == [item[b] EXCEPT !.state = "processing"]
<1>2. entry \in ItemRow /\ entry.state # "none"
  BY RowFine DEF ItemRow
<1>3. item' = [item EXCEPT ![b] = entry] /\ batch' = [batch EXCEPT ![b] = batch[b]]
  BY <1>1 DEF MarkItem, EnrichFine
<1>4. Started(p) \in {"found", "marked", "taken"} /\ process' = [process EXCEPT ![p].pc = Started(p)]
  BY DEF MarkItem, Started
<1> HIDE DEF entry
<1>6. /\ process' \in [Processors -> ProcessorRow]
      /\ \A q \in Processors : process'[q].pc # "idle" =>
           process[q].pc # "idle" /\ process'[q].batch = process[q].batch
  BY <1>1, <1>4, GoneOn
<1>7. batch[b] \in BatchRow /\ batch[b].undo \subseteq {f \in Fields : batch[b].events[f] # Nothing}
  BY RowFine
<1>5. EnrichFine'
  BY <1>2, <1>3, <1>6, <1>7, PairMoved
<1> QED BY <1>1, <1>5

LEMMA RunKeeps ==
  ASSUME FieldsFine, EnrichFine, NEW p \in Processors, StartRun(p)
  PROVE  FieldsFine' /\ EnrichFine'
<1> PICK b \in Batches : b = process[p].batch /\ batch[b].state # "none"
  BY DEF StartRun, EnrichFine
<1>1. FieldsFine' /\ item' = item /\ process[p].pc # "idle"
  BY DEF StartRun, fieldVars, FieldsFine
<1> DEFINE row == [batch[b] EXCEPT !.state = "running", !.started = TRUE]
<1>2. /\ row \in BatchRow /\ row.state = "running"
      /\ row.events = batch[b].events /\ row.undo = batch[b].undo
  <2>1. batch[b] \in BatchRow
    BY RowFine
  <2>2. row \in BatchRow
    BY <2>1, RunningFine
  <2> QED BY <2>1, <2>2 DEF BatchRow
<1>3. batch' = [batch EXCEPT ![b] = row] /\ item' = [item EXCEPT ![b] = item[b]]
  BY <1>1 DEF StartRun, EnrichFine
<1>4. process' = [process EXCEPT ![p].pc = "taken"]
  BY DEF StartRun
<1>5. /\ row.undo \subseteq {f \in Fields : row.events[f] # Nothing}
      /\ item[b] \in ItemRow /\ item[b].state # "none"
  BY <1>2, RowFine
<1> HIDE DEF row
<1>6. EnrichFine'
  BY <1>1, <1>2, <1>3, <1>4, <1>5, GoneOn, PairMoved
<1> QED BY <1>1, <1>6

LEMMA SettleKeeps ==
  ASSUME EnrichFine, NEW b \in Batches, batch[b].state # "none",
         NEW state \in Terminal, Settle(b, state),
         NEW p \in Processors, process' = [process EXCEPT ![p] = Free]
  PROVE  EnrichFine'
<1>1. /\ process' \in [Processors -> ProcessorRow]
      /\ \A q \in Processors : process'[q].pc # "idle" =>
           process[q].pc # "idle" /\ process'[q].batch = process[q].batch
  BY FreedFine
<1>2. CASE item[b].state \in Terminal
  BY <1>1, <1>2 DEF Settle, EnrichFine
<1>3. CASE item[b].state \notin Terminal
  <2> DEFINE n == batch[b].processed + 1
             row == [batch[b] EXCEPT !.processed = n]
             entry == [item[b] EXCEPT !.state = state]
  <2>1. n \in Nat
    BY RowFine DEF BatchRow
  <2>4. batch' = [batch EXCEPT ![b] = row] /\ item' = [item EXCEPT ![b] = entry]
    BY <1>3 DEF Settle, EnrichFine
  <2> HIDE DEF n
  <2>2. /\ row \in BatchRow /\ row.state = batch[b].state
        /\ row.undo \subseteq {f \in Fields : row.events[f] # Nothing}
    BY <2>1, RowFine DEF BatchRow
  <2>3. entry \in ItemRow /\ entry.state = state /\ state # "none"
    BY RowFine DEF ItemRow, Terminal
  <2> HIDE DEF row, entry
  <2> QED BY <1>1, <2>2, <2>3, <2>4, PairMoved
<1> QED BY <1>2, <1>3

LEMMA ProcessKeeps ==
  ASSUME FieldsFine, EnrichFine, NEW p \in Processors,
         Prepare(p) \/ DeferItem(p) \/ DismissItem(p) \/ CrashProcess(p)
  PROVE  FieldsFine' /\ EnrichFine'
<1> DEFINE b == process[p].batch
<1>1. FieldsFine' /\ b \in Batches /\ batch[b].state # "none"
  BY DEF Prepare, DeferItem, DismissItem, CrashProcess, fieldVars, FieldsFine, EnrichFine
<1>2. CASE /\ process' = [process EXCEPT ![p] = Free]
           /\ \E state \in {"failed", "skipped"} : Settle(b, state)
  BY <1>1, <1>2, SettleKeeps DEF Terminal
<1>3. CASE process' = [process EXCEPT ![p] = Free] /\ UNCHANGED <<batch, item>>
  BY <1>1, <1>3, FreedFine DEF EnrichFine
<1>4. CASE /\ process' = [process EXCEPT ![p].pc = "asking", ![p].missing = Missing]
           /\ UNCHANGED <<batch, item>>
           /\ process[p].pc = "taken"
  <2> DEFINE row == [process[p] EXCEPT !.pc = "asking", !.missing = Missing]
  <2>3. row \in ProcessorRow
    BY AskingFine DEF EnrichFine, Missing
  <2>4. process' = [process EXCEPT ![p] = row]
    BY <1>4 DEF EnrichFine
  <2>1. process' \in [Processors -> ProcessorRow]
    BY <2>3, <2>4 DEF EnrichFine
  <2>2. \A q \in Processors : process'[q].pc # "idle" =>
          process[q].pc # "idle" /\ process'[q].batch = process[q].batch
    BY <1>4 DEF EnrichFine, ProcessorRow
  <2> QED BY <1>1, <1>4, <2>1, <2>2 DEF EnrichFine
<1>5. CASE Prepare(p)
  BY <1>2, <1>4, <1>5 DEF Prepare
<1>6. CASE DeferItem(p) \/ CrashProcess(p)
  BY <1>3, <1>6 DEF DeferItem, CrashProcess
<1>7. CASE DismissItem(p)
  BY <1>2, <1>7 DEF DismissItem
<1> QED BY <1>5, <1>6, <1>7

\* What a completion writes: the offer with the AI's values, and their origins.
LEMMA FillKeeps ==
  ASSUME FieldsFine, EnrichFine, NEW b \in Batches, batch[b].state # "none",
         NEW fields \in SUBSET Fields, NEW answer \in [fields -> Values],
         Legal(Filled(answer)), Fill(b, answer),
         NEW p \in Processors, process' = [process EXCEPT ![p] = Free],
         UNCHANGED <<source, links>>
  PROVE  FieldsFine' /\ EnrichFine'
<1>1. Fillable(answer) \subseteq Fields /\ \A f \in Fillable(answer) : answer[f] \in Values
  BY DEF Fillable
<1>2. Filled(answer) \in Document
  BY <1>1 DEF Filled, FieldsFine, OfferRow, Document
<1>3. offer' = [offer EXCEPT !.value = Filled(answer), !.stamp = @ + 1]
  BY DEF Fill
<1>4. offer' \in OfferRow /\ Legal(offer'.value)
  BY <1>2, <1>3, Restamped DEF FieldsFine
<1>5. item[b].print.rev \in 0 .. LastRevision
  BY DEF EnrichFine, ItemRow, PrintRow
<1>6. origin' \in [Fields -> Origin]
  <2>1. \A f \in Fillable(answer) : AiOrigin(answer[f], item[b].print.rev) \in Origin
    BY <1>1, <1>5 DEF AiOrigin, Origin, Kinds, Held
  <2> QED BY <2>1 DEF Fill, FieldsFine
<1>7. FieldsFine'
  BY <1>4, <1>6 DEF FieldsFine
<1> DEFINE events == [f \in Fields |-> IF f \in Fillable(answer) THEN answer[f]
                                      ELSE batch[b].events[f]]
           n == batch[b].processed + 1
           row == [batch[b] EXCEPT !.processed = n, !.events = events]
           entry == [item[b] EXCEPT !.state = "succeeded"]
<1>8. events \in Document
  BY <1>1, RowFine DEF Document, BatchRow
<1>9. n \in Nat
  BY RowFine DEF BatchRow
<1>13. batch' = [batch EXCEPT ![b] = row] /\ item' = [item EXCEPT ![b] = entry]
  BY DEF Fill, EnrichFine
<1> HIDE DEF n
<1>10. /\ row \in BatchRow /\ row.state = batch[b].state
       /\ row.events = events /\ row.undo = batch[b].undo
  BY <1>8, <1>9, RowFine DEF BatchRow
<1>11. row.undo \subseteq {f \in Fields : row.events[f] # Nothing}
  BY <1>1, <1>10, RowFine, FieldsAssumption
<1>12. entry \in ItemRow /\ entry.state # "none"
  BY RowFine DEF ItemRow, Terminal
<1>14. /\ process' \in [Processors -> ProcessorRow]
       /\ \A q \in Processors : process'[q].pc # "idle" =>
            process[q].pc # "idle" /\ process'[q].batch = process[q].batch
  BY FreedFine
<1> HIDE DEF row, entry
<1>15. EnrichFine'
  BY <1>10, <1>11, <1>12, <1>13, <1>14, PairMoved
<1> QED BY <1>7, <1>15

LEMMA ApplyKeeps ==
  ASSUME FieldsFine, EnrichFine, NEW p \in Processors, ApplyAnswer(p)
  PROVE  FieldsFine' /\ EnrichFine'
<1> DEFINE b == process[p].batch
<1>1. b \in Batches /\ batch[b].state # "none" /\ process[p].missing \in SUBSET Fields
  BY DEF ApplyAnswer, EnrichFine, ProcessorRow
<1>2. PICK fields \in SUBSET process[p].missing : \E answer \in [fields -> Values] :
        Complete(b, answer)
  BY DEF ApplyAnswer
<1>3. PICK answer \in [fields -> Values] : Complete(b, answer)
  BY <1>2
<1>4. fields \in SUBSET Fields
  BY <1>1
<1>5. process' = [process EXCEPT ![p] = Free] /\ UNCHANGED <<source, links>>
  BY DEF ApplyAnswer
<1> HIDE DEF b
<1>6. CASE item[b].state \notin Terminal /\ Legal(Filled(answer)) /\ Fill(b, answer)
  BY <1>1, <1>4, <1>5, <1>6, FillKeeps
<1>7. CASE UNCHANGED <<offer, origin, batch, item>>
  <2>1. FieldsFine'
    BY <1>5, <1>7 DEF FieldsFine
  <2> QED BY <1>5, <1>7, <2>1, FreedFine DEF EnrichFine
<1>8. CASE Refuse(b, answer)
  <2>1. FieldsFine'
    BY <1>5, <1>8 DEF FieldsFine, Refuse
  <2>2. \E state \in Terminal : Settle(b, state)
    BY <1>8 DEF Refuse, Terminal
  <2> QED BY <1>1, <1>5, <2>1, <2>2, SettleKeeps
<1> QED BY <1>3, <1>6, <1>7, <1>8 DEF Complete

LEMMA RevertKeeps ==
  ASSUME FieldsFine, EnrichFine, NEW b \in Batches, NEW f \in Fields,
         RevertField(b, f)
  PROVE  FieldsFine' /\ EnrichFine'
<1>1. offer' \in OfferRow /\ Legal(offer'.value)
  <2>1. offer \in OfferRow /\ Legal(offer.value)
    BY DEF FieldsFine
  <2>2. CASE offer' = [offer EXCEPT !.value = Cleared(f), !.stamp = @ + 1] /\ Legal(Cleared(f))
    BY <2>1, <2>2, ClearedFine, Restamped
  <2>3. CASE offer' = offer
    BY <2>1, <2>3
  <2> QED BY <2>2, <2>3 DEF RevertField
<1>2. origin' \in [Fields -> Origin]
  BY DEF RevertField, FieldsFine, Origin
<1>3. FieldsFine'
  BY <1>1, <1>2 DEF RevertField, FieldsFine
<1>4. batch[b].state # "none" /\ UNCHANGED <<item, process>>
  BY DEF RevertField, EnrichFine
<1>5. CASE batch' = [batch EXCEPT ![b].undo = @ \ {f}]
  <2> DEFINE row == [batch[b] EXCEPT !.undo = @ \ {f}]
  <2>1. /\ row \in BatchRow /\ row.state = batch[b].state
        /\ row.events = batch[b].events /\ row.undo \subseteq batch[b].undo
    BY RowFine DEF BatchRow
  <2>2. batch' = [batch EXCEPT ![b] = row]
    BY <1>5 DEF EnrichFine
  <2>3. row.undo \subseteq {g \in Fields : row.events[g] # Nothing}
    BY <2>1, RowFine
  <2> HIDE DEF row
  <2> QED BY <1>3, <1>4, <2>1, <2>2, <2>3, StateKeeps
<1>6. CASE batch' = [batch EXCEPT ![b].undoing = FALSE, ![b].undo = {}]
  <2> DEFINE row == [batch[b] EXCEPT !.undoing = FALSE, !.undo = {}]
  <2>1. /\ row \in BatchRow /\ row.state = batch[b].state
        /\ row.events = batch[b].events /\ row.undo = {}
    BY RowFine DEF BatchRow
  <2>2. batch' = [batch EXCEPT ![b] = row]
    BY <1>6 DEF EnrichFine
  <2> HIDE DEF row
  <2> QED BY <1>3, <1>4, <2>1, <2>2, StateKeeps
<1> QED BY <1>5, <1>6 DEF RevertField

\* A step that neither starts a batch nor fills a field.
Unmoved ==
  \A b \in Batches : /\ batch'[b].events = batch[b].events /\ item'[b].print = item[b].print
                     /\ batch[b].state # "none" => batch'[b].state # "none"

LEMMA SettleMoves ==
  ASSUME EnrichFine, NEW b \in Batches, NEW state \in Terminal, Settle(b, state)
  PROVE  Unmoved
BY DEF Unmoved, Settle, EnrichFine, BatchRow, ItemRow

LEMMA BatchMoves ==
  ASSUME EnrichFine, NEW b \in Batches, NEW row, batch' = [batch EXCEPT ![b] = row],
         row.events = batch[b].events, row.state # "none", item' = item
  PROVE  Unmoved
BY DEF Unmoved, EnrichFine

LEMMA RequestsMove ==
  ASSUME EnrichFine, NEW b \in Batches,
         \/ PauseBatch(b) \/ ResumeBatch(b) \/ BeginRevert(b) \/ EndRevert(b)
         \/ \E f \in Fields : RevertField(b, f)
  PROVE  Unmoved
<1>1. batch[b] \in BatchRow /\ batch \in [Batches -> BatchRow]
  BY DEF EnrichFine
<1>2. batch[b].state # "none" /\ item' = item
  BY DEF PauseBatch, ResumeBatch, BeginRevert, EndRevert, RevertField, EnrichFine
<1>3. ASSUME NEW state \in {"paused", "running"}, batch' = [batch EXCEPT ![b].state = state]
      PROVE  Unmoved
  <2> DEFINE row == [batch[b] EXCEPT !.state = state]
  <2>1. batch' = [batch EXCEPT ![b] = row] /\ row.events = batch[b].events /\ row.state # "none"
    BY <1>1, <1>3 DEF BatchRow
  <2> HIDE DEF row
  <2> QED BY <1>2, <2>1, BatchMoves
<1>4. CASE BeginRevert(b)
  <2> DEFINE undo == {f \in Fields : batch[b].events[f] # Nothing}
             row == [batch[b] EXCEPT !.state = "reverting", !.undoing = TRUE, !.undo = undo]
  <2>1. batch' = [batch EXCEPT ![b] = row]
    BY <1>4 DEF BeginRevert
  <2>2. row.events = batch[b].events /\ row.state # "none"
    BY <1>1 DEF BatchRow
  <2> HIDE DEF row
  <2> QED BY <1>2, <2>1, <2>2, BatchMoves
<1>5. CASE EndRevert(b)
  <2> DEFINE row == [batch[b] EXCEPT !.state = "reverted", !.undoing = FALSE]
  <2>1. batch' = [batch EXCEPT ![b] = row] /\ row.events = batch[b].events /\ row.state # "none"
    BY <1>1, <1>5 DEF EndRevert, BatchRow
  <2> HIDE DEF row
  <2> QED BY <1>2, <2>1, BatchMoves
<1>6. ASSUME NEW undo, NEW undoing, batch' = [batch EXCEPT ![b].undoing = undoing, ![b].undo = undo]
      PROVE  Unmoved
  <2> DEFINE row == [batch[b] EXCEPT !.undoing = undoing, !.undo = undo]
  <2>1. batch' = [batch EXCEPT ![b] = row]
    BY <1>1, <1>6
  <2>2. row.events = batch[b].events /\ row.state # "none"
    BY <1>1, <1>2 DEF BatchRow
  <2> HIDE DEF row
  <2> QED BY <1>2, <2>1, <2>2, BatchMoves
<1>7. ASSUME NEW f \in Fields, batch' = [batch EXCEPT ![b].undo = @ \ {f}]
      PROVE  Unmoved
  <2> DEFINE row == [batch[b] EXCEPT !.undo = @ \ {f}]
  <2>1. batch' = [batch EXCEPT ![b] = row]
    BY <1>1, <1>7
  <2>2. row.events = batch[b].events /\ row.state # "none"
    BY <1>1, <1>2 DEF BatchRow
  <2> HIDE DEF row
  <2> QED BY <1>2, <2>1, <2>2, BatchMoves
<1>8. ASSUME NEW f \in Fields, RevertField(b, f)
      PROVE  Unmoved
  BY <1>6, <1>7, <1>8 DEF RevertField
<1> QED BY <1>3, <1>4, <1>5, <1>8 DEF PauseBatch, ResumeBatch

LEMMA ProcessorsMove ==
  ASSUME EnrichFine, NEW p \in Processors,
         \/ FindItem(p) \/ MarkItem(p) \/ StartRun(p) \/ Prepare(p) \/ DeferItem(p)
         \/ DismissItem(p) \/ CrashProcess(p) \/ \E b \in Batches : OpenBatch(p, b)
  PROVE  Unmoved
<1>1. CASE UNCHANGED <<batch, item>>
  BY <1>1 DEF Unmoved
<1>2. CASE FindItem(p)
  BY <1>2 DEF FindItem, Unmoved, EnrichFine, BatchRow
<1>3. CASE MarkItem(p)
  BY <1>3 DEF MarkItem, Unmoved, EnrichFine, ItemRow
<1>4. CASE StartRun(p)
  BY <1>4 DEF StartRun, Unmoved, EnrichFine, BatchRow
<1>5. ASSUME process[p].pc # "idle",
             \E state \in {"failed", "skipped"} : Settle(process[p].batch, state)
      PROVE  Unmoved
  BY <1>5, SettleMoves DEF EnrichFine, Terminal
<1>6. CASE Prepare(p)
  BY <1>1, <1>5, <1>6 DEF Prepare
<1>7. CASE DismissItem(p)
  BY <1>5, <1>7 DEF DismissItem
<1> QED BY <1>1, <1>2, <1>3, <1>4, <1>6, <1>7 DEF DeferItem, CrashProcess, OpenBatch

\* What an answer does to the batches: nothing that matters, or the values it brings.
LEMMA AnswerMoves ==
  ASSUME EnrichFine, NEW p \in Processors, ApplyAnswer(p)
  PROVE  \/ Unmoved /\ UNCHANGED <<offer, origin>>
         \/ /\ Fingerprint = item[process[p].batch].print /\ item[process[p].batch].print.rev # 0
            /\ \E fields \in SUBSET Fields : \E answer \in [fields -> Values] :
                 Legal(Filled(answer)) /\ Fill(process[p].batch, answer)
<1> PICK b \in Batches : b = process[p].batch
  BY DEF ApplyAnswer, EnrichFine
<1>1. PICK fields \in SUBSET process[p].missing : \E answer \in [fields -> Values] :
        Complete(b, answer)
  BY DEF ApplyAnswer
<1>2. PICK answer \in [fields -> Values] : Complete(b, answer)
  BY <1>1
<1>3. fields \in SUBSET Fields /\ item[b].print.rev # 0
  BY DEF ApplyAnswer, EnrichFine, ProcessorRow
<1>4. CASE UNCHANGED <<offer, origin, batch, item>>
  BY <1>4 DEF Unmoved
<1>5. CASE Refuse(b, answer)
  <2>1. \E state \in Terminal : Settle(b, state)
    BY <1>5 DEF Refuse, Terminal
  <2> QED BY <1>5, <2>1, SettleMoves DEF Refuse
<1> QED BY <1>2, <1>3, <1>4, <1>5 DEF Complete

LEMMA FillStamps ==
  ASSUME FieldsFine, EnrichFine, StampsFine, NEW b \in Batches, batch[b].state # "none",
         Fingerprint = item[b].print, NEW answer, Fill(b, answer)
  PROVE  StampsFine'
<1>1. offer.stamp \in Nat /\ item[b].print.stamp = offer.stamp /\ offer'.stamp = offer.stamp + 1
  BY FingerprintFine DEF Fill, FieldsFine, OfferRow
<1>2. Stamped(b)'
  <2>1. item'[b].print = item[b].print /\ batch'[b].state # "none"
    BY DEF Fill, EnrichFine, BatchRow, ItemRow
  <2> QED BY <1>1, <2>1 DEF Stamped
<1>3. ASSUME NEW c \in Batches \ {b}
      PROVE  Stamped(c)'
  <2>1. item'[c] = item[c] /\ batch'[c] = batch[c] /\ item[c].print.stamp \in Nat
    BY DEF Fill, EnrichFine, ItemRow, PrintRow
  <2> QED BY <1>1, <2>1 DEF StampsFine, Stamped, Applied
<1> QED BY <1>2, <1>3 DEF StampsFine

LEMMA StartStamps ==
  ASSUME FieldsFine, EnrichFine, StampsFine, NEW b \in Batches, StartBatch(b)
  PROVE  StampsFine'
<1>1. offer' = offer /\ offer.stamp \in Nat
  BY DEF StartBatch, fieldVars, FieldsFine, OfferRow
<1>2. Stamped(b)'
  <2>1. ~Applied(b) /\ batch'[b].events = batch[b].events
    BY DEF StampsFine, Stamped, StartBatch, EnrichFine, BatchRow
  <2>2. item'[b].print.stamp = offer.stamp
    BY FingerprintFine DEF StartBatch, EnrichFine
  <2> QED BY <1>1, <2>1, <2>2 DEF Stamped, Applied
<1>3. \A c \in Batches \ {b} : item'[c] = item[c] /\ batch'[c] = batch[c]
  BY DEF StartBatch, EnrichFine
<1> QED BY <1>1, <1>2, <1>3 DEF StampsFine, Stamped, Applied

LEMMA ClearingStamps ==
  ASSUME FieldsFine, NEW f \in Fields, offer' = [offer EXCEPT !.value = Cleared(f), !.stamp = @ + 1]
  PROVE  offer'.stamp >= offer.stamp
<1>1. offer \in OfferRow /\ offer.stamp \in Nat
  BY DEF FieldsFine, OfferRow
<1> QED BY <1>1 DEF OfferRow

LEMMA UnmovedStamps ==
  ASSUME FieldsFine, FieldsFine', EnrichFine, StampsFine, Unmoved,
         \/ offer' = offer
         \/ \E f \in Fields : offer' = [offer EXCEPT !.value = Cleared(f), !.stamp = @ + 1]
  PROVE  StampsFine'
<1>1. offer'.stamp >= offer.stamp
  <2>1. CASE offer' = offer
    BY <2>1 DEF FieldsFine, OfferRow
  <2> QED BY <2>1, ClearingStamps
<1> QED BY <1>1, StampStays DEF StampsFine, Unmoved

LEMMA EnrichKeeps ==
  ASSUME IInv, Enrich, UNCHANGED <<ingestVars, replayVars>>
  PROVE  IInv'
<1>1. FieldsFine' /\ EnrichFine'
  BY StartKeeps, RequestKeeps, OpenKeeps, FindKeeps, MarkKeeps, RunKeeps, ProcessKeeps, ApplyKeeps,
     RevertKeeps DEF Enrich, IInv
<1>2. source' = source
  BY DEF Enrich, StartBatch, PauseBatch, ResumeBatch, BeginRevert, EndRevert, RevertField,
     OpenBatch, FindItem, MarkItem, StartRun, Prepare, DeferItem, DismissItem, ApplyAnswer,
     CrashProcess, fieldVars
<1>3. IngestFine' /\ ReplayFine'
  BY <1>2 DEF IInv, IngestFine, ReplayFine, ingestVars, boundVars, replayVars
<1>4. StampsFine'
  <2>1. FieldsFine /\ EnrichFine /\ StampsFine
    BY DEF IInv
  <2>2. ASSUME NEW b \in Batches, StartBatch(b)
        PROVE  StampsFine'
    BY <2>1, <2>2, StartStamps
  <2>3. ASSUME NEW b \in Batches,
               \/ PauseBatch(b) \/ ResumeBatch(b) \/ BeginRevert(b) \/ EndRevert(b)
               \/ \E f \in Fields : RevertField(b, f)
        PROVE  StampsFine'
    <3>1. Unmoved
      BY <2>1, <2>3, RequestsMove
    <3> QED BY <1>1, <2>1, <2>3, <3>1, UnmovedStamps
            DEF PauseBatch, ResumeBatch, BeginRevert, EndRevert, RevertField, fieldVars
  <2>4. ASSUME NEW p \in Processors,
               \/ FindItem(p) \/ MarkItem(p) \/ StartRun(p) \/ Prepare(p) \/ DeferItem(p)
               \/ DismissItem(p) \/ CrashProcess(p) \/ \E b \in Batches : OpenBatch(p, b)
        PROVE  StampsFine'
    <3>1. Unmoved
      BY <2>1, <2>4, ProcessorsMove
    <3> QED BY <1>1, <2>1, <2>4, <3>1, UnmovedStamps
            DEF FindItem, MarkItem, StartRun, Prepare, DeferItem, DismissItem, CrashProcess,
                OpenBatch, fieldVars
  <2>5. ASSUME NEW p \in Processors, ApplyAnswer(p)
        PROVE  StampsFine'
    <3>1. process[p].batch \in Batches /\ batch[process[p].batch].state # "none"
      BY <2>1, <2>5 DEF ApplyAnswer, EnrichFine
    <3> QED BY <1>1, <2>1, <2>5, <3>1, AnswerMoves, FillStamps, UnmovedStamps
  <2> QED BY <2>2, <2>3, <2>4, <2>5 DEF Enrich
<1> QED BY <1>1, <1>3, <1>4 DEF IInv

-----------------------------------------------------------------------------
(***************************************************************************)
(* The replay.                                                             *)
(***************************************************************************)
LEMMA AwayFine == Away \in ReplayerRow /\ Away.pc = "idle"
  BY FieldsAssumption DEF Away, ReplayerRow, Phases

LEMMA NoEventsFine == NoEvents \in FieldEvents
  BY DEF NoEvents, FieldEvents

\* A step on one work of the release.
LEMMA WorkMoved ==
  ASSUME ReplayFine, NEW r \in Revisions, NEW row \in ReplayRow,
         replay' = [replay EXCEPT ![r] = row], row.state = "claimed" <=> row.claim # 0,
         phase' \in Phases, replayer' \in [Replayers -> ReplayerRow],
         \A p \in Replayers : replayer'[p].pc # "idle" => replayer'[p].rev \in Revisions
  PROVE  ReplayFine'
<1>1. replay' \in [Revisions -> ReplayRow]
  BY DEF ReplayFine
<1>2. \A s \in Revisions : replay'[s] = IF s = r THEN row ELSE replay[s]
  BY DEF ReplayFine
<1> QED BY <1>1, <1>2 DEF ReplayFine

LEMMA LeaveKeeps ==
  ASSUME ReplayFine, NEW p \in Replayers, replayer' = [replayer EXCEPT ![p] = Away]
  PROVE  /\ replayer' \in [Replayers -> ReplayerRow]
         /\ \A q \in Replayers : replayer'[q].pc # "idle" => replayer'[q].rev \in Revisions
  BY AwayFine DEF ReplayFine

Open == {"none", "queued", "observed", "deferred", "excluded", "failed"} \cup Written

LEMMA FinishedFine ==
  ASSUME NEW row \in ReplayRow, NEW state \in Open, NEW events \in FieldEvents,
         NEW passed \in BOOLEAN
  PROVE  [row EXCEPT !.state = state, !.claim = 0, !.lapsed = FALSE, !.events = events,
                     !.passed = passed] \in ReplayRow
<1> DEFINE moved == [row EXCEPT !.state = state, !.claim = 0, !.lapsed = FALSE]
           told == [moved EXCEPT !.events = events]
<1>1. moved \in ReplayRow
  BY DEF ReplayRow, Open
<1> HIDE DEF moved
<1>2. told \in ReplayRow
  BY <1>1 DEF ReplayRow
<1> HIDE DEF told
<1>3. [told EXCEPT !.passed = passed] \in ReplayRow
  BY <1>2 DEF ReplayRow
<1> QED BY <1>3 DEF moved, told

LEMMA FinishKeeps ==
  ASSUME ReplayFine, NEW p \in Replayers, replayer[p].pc = "claimed", phase' = phase,
         NEW state \in Open, NEW events \in FieldEvents,
         NEW passed \in BOOLEAN, FinishReplay(p, state, events, passed)
  PROVE  ReplayFine'
<1> DEFINE r == replayer[p].rev
<1>1. r \in Revisions /\ replay[r] \in ReplayRow /\ phase' \in Phases
  BY DEF ReplayFine
<1>2. /\ replayer' \in [Replayers -> ReplayerRow]
      /\ \A q \in Replayers : replayer'[q].pc # "idle" => replayer'[q].rev \in Revisions
  BY LeaveKeeps DEF FinishReplay
<1>3. CASE replay' = replay
  BY <1>1, <1>2, <1>3 DEF ReplayFine
<1>4. CASE replay' = [replay EXCEPT ![r] = [@ EXCEPT !.state = state, !.claim = 0,
                        !.lapsed = FALSE, !.events = events,
                        !.passed = replay[r].passed \/ passed]]
  <2> DEFINE row == [replay[r] EXCEPT !.state = state, !.claim = 0, !.lapsed = FALSE,
                       !.events = events, !.passed = replay[r].passed \/ passed]
  <2>1. row \in ReplayRow
    <3>1. (replay[r].passed \/ passed) \in BOOLEAN
      OBVIOUS
    <3> QED BY <1>1, <3>1, FinishedFine
  <2>2. row.state = state /\ row.claim = 0 /\ state # "claimed"
    BY <1>1 DEF ReplayRow, Open, Written
  <2>3. replay' = [replay EXCEPT ![r] = row]
    BY <1>1, <1>4 DEF ReplayFine
  <2> HIDE DEF row
  <2> QED BY <1>1, <1>2, <2>1, <2>2, <2>3, WorkMoved
<1> QED BY <1>3, <1>4 DEF FinishReplay

LEMMA DiscoverKeeps ==
  ASSUME ReplayFine, source \in Revisions, Discover
  PROVE  ReplayFine'
<1>1. phase' \in Phases /\ replayer' = replayer
  BY DEF Discover, ReplayFine, Phases
<1>2. CASE replay' = replay
  BY <1>1, <1>2 DEF ReplayFine
<1>3. CASE replay' = [replay EXCEPT ![source].state = "queued"] /\ replay[source].state = "none"
  <2> DEFINE row == [replay[source] EXCEPT !.state = "queued"]
  <2>1. row \in ReplayRow /\ row.state = "queued" /\ row.claim = 0
    BY <1>3 DEF ReplayFine, ReplayRow
  <2>2. replay' = [replay EXCEPT ![source] = row]
    BY <1>3 DEF ReplayFine
  <2>3. /\ replayer' \in [Replayers -> ReplayerRow]
        /\ \A q \in Replayers : replayer'[q].pc # "idle" => replayer'[q].rev \in Revisions
    BY <1>1 DEF ReplayFine
  <2> HIDE DEF row
  <2> QED BY <1>1, <2>1, <2>2, <2>3, WorkMoved
<1> QED BY <1>2, <1>3 DEF Discover

LEMMA LapseKeeps ==
  ASSUME ReplayFine, NEW r \in Revisions, Lapse(r)
  PROVE  ReplayFine'
<1> DEFINE row == [replay[r] EXCEPT !.lapsed = TRUE]
<1>1. row \in ReplayRow /\ row.state = replay[r].state /\ row.claim = replay[r].claim
  BY DEF ReplayFine, ReplayRow
<1>2. replay' = [replay EXCEPT ![r] = row]
  BY DEF Lapse, ReplayFine
<1>3. /\ replayer' \in [Replayers -> ReplayerRow] /\ phase' \in Phases
      /\ \A q \in Replayers : replayer'[q].pc # "idle" => replayer'[q].rev \in Revisions
  BY DEF ReplayFine, Lapse
<1>4. row.state = "claimed" <=> row.claim # 0
  BY <1>1 DEF ReplayFine
<1> HIDE DEF row
<1> QED BY <1>1, <1>2, <1>3, <1>4, WorkMoved

LEMMA ClaimKeeps ==
  ASSUME ReplayFine, NEW p \in Replayers, NEW r \in Revisions,
         NEW apply \in BOOLEAN, NEW live \in BOOLEAN, ClaimReplay(p, r, apply, live)
  PROVE  ReplayFine'
<1> DEFINE n == replay[r].attempts + 1
           row == [replay[r] EXCEPT !.state = "claimed", !.lapsed = FALSE, !.claim = n,
                                    !.attempts = n]
           entry == [pc |-> "claimed", rev |-> r, phase |-> phase, claim |-> n,
                     enabled |-> apply /\ live]
<1>1. n \in Nat /\ n # 0
  BY DEF ReplayFine, ReplayRow
<1>2. replay' = [replay EXCEPT ![r] = row] /\ replayer' = [replayer EXCEPT ![p] = entry]
  BY DEF ClaimReplay, ReplayFine
<1> HIDE DEF n
<1>3. row \in ReplayRow /\ row.state = "claimed" /\ row.claim = n
  BY <1>1 DEF ReplayFine, ReplayRow
<1>4. entry \in ReplayerRow /\ entry.rev = r
  BY <1>1, FieldsAssumption DEF ReplayFine, ReplayerRow, Revisions
<1>5. phase' \in Phases
  BY DEF ClaimReplay, ReplayFine
<1> HIDE DEF row, entry
<1>6. /\ replayer' \in [Replayers -> ReplayerRow]
      /\ \A q \in Replayers : replayer'[q].pc # "idle" => replayer'[q].rev \in Revisions
  BY <1>2, <1>4 DEF ReplayFine
<1> QED BY <1>1, <1>2, <1>3, <1>5, <1>6, WorkMoved

LEMMA TypedFields ==
  ASSUME FieldsFine
  PROVE  /\ offer.value \in Document /\ offer.stamp + 1 \in Nat /\ offer.parser \in {"old", "new"}
         /\ source \in Revisions /\ source \in 0 .. LastRevision
         /\ source \notin Unlisted => source \in DOMAIN links /\ links[source] \in Document
         /\ Extract[source] \in Document
  BY SourceType, FieldsAssumption DEF FieldsFine, OfferRow, Revisions

\* What the plan names had no value of the AI's.
LEMMA PlanSpares ==
  ASSUME FieldsFine, NEW r \in Revisions
  PROVE  /\ Plan(r) \subseteq Fields
         /\ \A f \in Plan(r) : origin[f] \in {o \in Origin : o.kind # "ai"}
  BY DEF FieldsFine, Plan, Shielded, NoOrigin

LEMMA OriginsFine ==
  ASSUME FieldsFine, NEW f \in Fields
  PROVE  ParserOrigin(Extract[source][f], source) \in Origin
  BY TypedFields DEF ParserOrigin, Origin, Kinds, Held, Document

LEMMA WriteKeeps ==
  ASSUME FieldsFine, ReplayFine, NEW p \in Replayers, replayer[p].pc = "claimed",
         source \notin Unlisted, WriteReplay(p, source), Legal(Planned(source)),
         UNCHANGED <<source, phase>>
  PROVE  FieldsFine' /\ ReplayFine' /\ offer'.stamp >= offer.stamp
<1> DEFINE r == source
           fields == Plan(r)
           events == [f \in fields |-> [value |-> offer.value[f], origin |-> origin[f],
                                        retained |-> links[r][f], parser |-> offer.parser]]
           changed == \E f \in fields : offer.value[f] # Extract[r][f]
<1>1. Planned(r) \in Document
  BY TypedFields DEF Planned, Document
<1>2. /\ offer' \in OfferRow /\ offer'.value = Planned(r)
      /\ offer'.stamp >= offer.stamp
  BY <1>1, TypedFields DEF WriteReplay, FieldsFine, OfferRow
<1>3. origin' \in [Fields -> Origin]
  BY OriginsFine DEF WriteReplay, FieldsFine
<1>4. links' \in [(1 .. source) \ Unlisted -> Document]
  <2>1. [f \in Fields |-> IF f \in fields THEN Extract[r][f] ELSE links[r][f]] \in Document
    BY TypedFields DEF Document
  <2> QED BY <2>1 DEF WriteReplay, FieldsFine
<1>5. FieldsFine'
  BY <1>2, <1>3, <1>4 DEF FieldsFine
<1>6. \A f \in fields : [value |-> offer.value[f], origin |-> origin[f],
                         retained |-> links[r][f], parser |-> offer.parser] \in FieldEvent
  BY TypedFields, PlanSpares DEF FieldEvent, Document, Held
<1>7. events \in [fields -> FieldEvent] /\ fields \in SUBSET Fields
  BY <1>6, PlanSpares, TypedFields
<1>8. events \in FieldEvents /\ Kept(p) \in FieldEvents
  BY <1>7 DEF FieldEvents, Kept, ReplayFine, ReplayRow
<1> DEFINE state == IF BlockedPlan(r) THEN "protected_conflict"
                    ELSE IF changed THEN "updated" ELSE "unchanged"
           remembered == IF Kept(p) = NoEvents THEN events ELSE Kept(p)
<1>9. FinishReplay(p, state, remembered, FALSE)
  BY DEF WriteReplay
<1>10. state \in Open /\ remembered \in FieldEvents
  BY <1>8 DEF Open, Written
<1> HIDE DEF state, remembered
<1>11. ReplayFine'
  BY <1>9, <1>10, FinishKeeps
<1> QED BY <1>2, <1>5, <1>11

LEMMA ApplyReplayKeeps ==
  ASSUME FieldsFine, ReplayFine, NEW p \in Replayers, ApplyReplay(p)
  PROVE  FieldsFine' /\ ReplayFine' /\ offer'.stamp >= offer.stamp
<1> DEFINE r == replayer[p].rev
<1>1. replayer[p].pc = "claimed" /\ UNCHANGED <<source, phase>>
  BY DEF ApplyReplay
<1>0. offer' = offer => offer'.stamp >= offer.stamp
  BY DEF FieldsFine, OfferRow
<1>2. Kept(p) \in FieldEvents
  BY <1>1 DEF Kept, ReplayFine, ReplayRow
<1>3. CASE /\ \/ FinishReplay(p, "deferred", Kept(p), FALSE)
              \/ FinishReplay(p, "excluded", Kept(p), FALSE)
              \/ FinishReplay(p, "observed", Kept(p), TRUE)
           /\ UNCHANGED <<offer, origin, links>>
  <2>1. FieldsFine'
    BY <1>1, <1>3 DEF FieldsFine
  <2>2. {"deferred", "excluded", "observed"} \subseteq Open
    BY DEF Open
  <2>3. ReplayFine'
    BY <1>1, <1>2, <1>3, <2>2, FinishKeeps
  <2> QED BY <1>0, <1>3, <2>1, <2>3
<1>4. CASE replayer' = [replayer EXCEPT ![p] = Away] /\ UNCHANGED <<offer, origin, links, replay>>
  <2>1. FieldsFine'
    BY <1>1, <1>4 DEF FieldsFine
  <2>2. ReplayFine'
    BY <1>1, <1>4, LeaveKeeps DEF ReplayFine
  <2> QED BY <1>0, <1>4, <2>1, <2>2
<1>5. CASE r \notin Unlisted /\ r = source /\ Legal(Planned(r)) /\ WriteReplay(p, r)
  BY <1>1, <1>5, WriteKeeps
<1> QED BY <1>3, <1>4, <1>5 DEF ApplyReplay

LEMMA RollbackKeeps ==
  ASSUME FieldsFine, ReplayFine, NEW r \in Revisions, Rollback(r)
  PROVE  FieldsFine' /\ ReplayFine' /\ offer'.stamp >= offer.stamp
<1> DEFINE events == replay[r].events
<1>1. source' = source /\ replayer' = replayer /\ phase' \in Phases
  BY DEF Rollback, Phases
<1>2. events \in FieldEvents
  BY DEF ReplayFine, ReplayRow
<1>3. PICK fields \in SUBSET Fields : events \in [fields -> FieldEvent]
  BY <1>2 DEF FieldEvents
<1>4. CASE UNCHANGED <<offer, origin, links, replay>>
  BY <1>1, <1>4 DEF FieldsFine, OfferRow, ReplayFine
<1>5. CASE events # NoEvents /\ StillReplayed(r) /\ ~UNCHANGED <<offer, origin, links, replay>>
  <2> DEFINE Back(now, was) == [f \in Fields |-> IF f \in DOMAIN events THEN was[f] ELSE now[f]]
             values == Back(offer.value, [f \in DOMAIN events |-> events[f].value])
             origins == Back(origin, [f \in DOMAIN events |-> events[f].origin])
             retained == Back(links[r], [f \in DOMAIN events |-> events[f].retained])
             parser == events[CHOOSE f \in DOMAIN events : TRUE].parser
             row == [replay[r] EXCEPT !.events = NoEvents]
  <2>1. /\ Legal(values)
        /\ offer' = [stamp |-> offer.stamp + 1, parser |-> parser, value |-> values]
        /\ origin' = origins /\ links' = [links EXCEPT ![r] = retained]
        /\ replay' = [replay EXCEPT ![r].events = NoEvents]
    BY <1>5 DEF Rollback
  <2>2. r = source
    BY <1>5 DEF StillReplayed
  <2>3. DOMAIN events = fields /\ \A f \in fields : events[f] \in FieldEvent
    BY <1>3
  <2>4. \A f \in fields : /\ events[f].value \in Held /\ events[f].origin \in Origin
                          /\ events[f].retained \in Held /\ events[f].parser \in {"old", "new"}
    BY <2>3 DEF FieldEvent
  <2>5. values \in Document /\ (source \notin Unlisted => retained \in Document)
    BY <2>2, <2>3, <2>4, TypedFields DEF Document, Held
  <2>6. origins \in [Fields -> Origin]
    BY <2>3, <2>4 DEF FieldsFine
  <2>7. parser \in {"old", "new"}
    <3>1. fields # {}
      BY <1>5, <2>3, <1>3 DEF NoEvents
    <3> QED BY <2>3, <2>4, <3>1
  <2> HIDE DEF values, origins, retained, parser
  <2>8. offer' \in OfferRow /\ offer'.value = values /\ offer'.stamp >= offer.stamp
    BY <2>1, <2>5, <2>7, TypedFields DEF FieldsFine, OfferRow
  <2>0. links' \in [(1 .. source) \ Unlisted -> Document]
    BY <2>1, <2>2, <2>5 DEF FieldsFine
  <2>9. FieldsFine'
    BY <1>1, <2>0, <2>1, <2>6, <2>8 DEF FieldsFine
  <2>10. replay' = [replay EXCEPT ![r] = row]
    BY <2>1 DEF ReplayFine
  <2>11. row \in ReplayRow /\ row.state = replay[r].state /\ row.claim = replay[r].claim
    BY NoEventsFine DEF ReplayFine, ReplayRow
  <2>12. /\ replayer' \in [Replayers -> ReplayerRow]
         /\ \A q \in Replayers : replayer'[q].pc # "idle" => replayer'[q].rev \in Revisions
         /\ row.state = "claimed" <=> row.claim # 0
    BY <1>1, <2>11 DEF ReplayFine
  <2> HIDE DEF row
  <2>13. ReplayFine'
    BY <1>1, <2>10, <2>11, <2>12, WorkMoved
  <2> QED BY <2>8, <2>9, <2>13
<1> QED BY <1>4, <1>5 DEF Rollback

LEMMA ReplayKeeps ==
  ASSUME IInv, Replay, UNCHANGED <<ingestVars, enrichVars>>
  PROVE  IInv'
<1> DEFINE Moved == FieldsFine' /\ ReplayFine' /\ source' = source /\ offer'.stamp >= offer.stamp
<1>0. /\ FieldsFine /\ ReplayFine /\ source \in Revisions
      /\ offer' = offer => offer'.stamp >= offer.stamp
  BY DEF IInv, FieldsFine, OfferRow
<1>1. ASSUME Discover \/ Promote \/ \E r \in Revisions : Lapse(r)
      PROVE  Moved
  <2>1. FieldsFine' /\ offer' = offer
    BY <1>0, <1>1 DEF FieldsFine, Discover, Promote, Lapse, fieldVars
  <2>2. ASSUME Promote
        PROVE  ReplayFine'
    <3>1. phase' \in Phases /\ replay' = replay /\ replayer' = replayer
      BY <2>2 DEF Promote, Phases, fieldVars
    <3> QED BY <1>0, <3>1 DEF ReplayFine
  <2>3. ReplayFine' /\ source' = source
    <3>1. source' = source
      BY <1>1 DEF Discover, Promote, Lapse, fieldVars
    <3> QED BY <1>0, <1>1, <2>2, <3>1, DiscoverKeeps, LapseKeeps
  <2> QED BY <1>0, <2>1, <2>3
<1>2. ASSUME NEW r \in Revisions, Rollback(r)
      PROVE  Moved
  BY <1>0, <1>2, RollbackKeeps DEF Rollback
<1>3. ASSUME NEW p \in Replayers,
             \/ RejectReplay(p) \/ FailReplay(p) \/ CrashReplay(p)
             \/ \E r \in Revisions, apply, live \in BOOLEAN : ClaimReplay(p, r, apply, live)
      PROVE  Moved
  <2>1. FieldsFine' /\ source' = source /\ offer' = offer
    BY <1>0, <1>3 DEF FieldsFine, RejectReplay, FailReplay, CrashReplay, ClaimReplay, fieldVars
  <2>2. ASSUME RejectReplay(p) \/ FailReplay(p)
        PROVE  ReplayFine'
    <3>1. replayer[p].pc = "claimed" /\ phase' = phase /\ Kept(p) \in FieldEvents
      BY <1>0, <2>2 DEF RejectReplay, FailReplay, Kept, ReplayFine, ReplayRow
    <3>2. \E state \in {"excluded", "failed", "deferred"} : FinishReplay(p, state, Kept(p), FALSE)
      BY <2>2 DEF RejectReplay, FailReplay
    <3>3. {"excluded", "failed", "deferred"} \subseteq Open
      BY DEF Open
    <3> QED BY <1>0, <3>1, <3>2, <3>3, FinishKeeps
  <2>3. ASSUME CrashReplay(p)
        PROVE  ReplayFine'
    <3>1. phase' = phase /\ replay' = replay /\ replayer' = [replayer EXCEPT ![p] = Away]
      BY <2>3 DEF CrashReplay, fieldVars
    <3> QED BY <1>0, <3>1, LeaveKeeps DEF ReplayFine
  <2>4. ASSUME NEW r \in Revisions, NEW apply \in BOOLEAN, NEW live \in BOOLEAN,
               ClaimReplay(p, r, apply, live)
        PROVE  ReplayFine'
    BY <1>0, <2>4, ClaimKeeps
  <2>5. ReplayFine'
    BY <1>3, <2>2, <2>3, <2>4
  <2> QED BY <1>0, <2>1, <2>5
<1>4. ASSUME NEW p \in Replayers, ApplyReplay(p)
      PROVE  Moved
  BY <1>0, <1>4, ApplyReplayKeeps DEF ApplyReplay
<1>5. Moved
  BY <1>1, <1>2, <1>3, <1>4 DEF Replay
<1>6. IngestFine' /\ EnrichFine' /\ UNCHANGED <<batch, item>>
  BY <1>5 DEF IInv, IngestFine, EnrichFine, ingestVars, boundVars, enrichVars
<1>7. StampsFine'
  BY <1>5, <1>6, StampsStay DEF IInv
<1> QED BY <1>5, <1>6, <1>7 DEF IInv

-----------------------------------------------------------------------------
LEMMA Step == IInv /\ [Next]_vars => IInv'
<1> SUFFICES ASSUME IInv, [Next]_vars PROVE IInv'
  OBVIOUS
<1>1. CASE UNCHANGED vars
  <2>1. /\ UNCHANGED fieldVars /\ UNCHANGED <<ingest, uncompared, upserts, ingestCrashes>>
        /\ UNCHANGED enrichVars /\ UNCHANGED replayVars
    BY <1>1 DEF vars, ingestVars, boundVars
  <2>2. FieldsFine' /\ IngestFine'
    BY <2>1 DEF IInv, FieldsFine, IngestFine, fieldVars
  <2>3. EnrichFine' /\ ReplayFine' /\ StampsFine'
    BY <2>1 DEF IInv, EnrichFine, ReplayFine, StampsFine, Stamped, Applied, enrichVars, replayVars,
       fieldVars
  <2> QED BY <2>2, <2>3 DEF IInv
<1>2. CASE Next
  BY <1>2, IngestKeeps, EnrichKeeps, ReplayKeeps DEF Next
<1> QED BY <1>1, <1>2

\* The batches and the ingestion without a replay are a part of all three.
LEMMA EnrichStep == [EnrichNext]_vars => [Next]_vars
  BY DEF EnrichNext, Next

\* The rows hold values of their columns.
LEMMA TypesHold == ASSUME IInv PROVE TypeOK
<1>1. TypeOK
  <2>1. FieldsTypeOK
    <3>1. DOMAIN links \subseteq Revisions \ Unlisted
      BY FieldsAssumption DEF IInv, FieldsFine, Revisions
    <3> QED BY <3>1 DEF IInv, FieldsFine, IngestFine, FieldsTypeOK, OfferRow, Origin, Held
  <2>2. /\ phase \in {"none", "canary", "running", "paused"}
        /\ \A r \in Revisions : replay[r].state = "claimed" <=> replay[r].claim # 0
    BY DEF IInv, ReplayFine, Phases
  <2>3. \A b \in Batches :
          /\ batch[b].state \in {"none", "queued", "running", "paused", "reverting"} \cup Ended
          /\ batch[b].undo \subseteq {f \in Fields : batch[b].events[f] # Nothing}
          /\ item[b].state \in {"none", "queued", "processing"} \cup Terminal
          /\ item[b].state = "none" <=> batch[b].state = "none"
    BY DEF IInv, EnrichFine, BatchRow, ItemRow
  <2> QED BY <2>1, <2>2, <2>3 DEF TypeOK
<1> QED BY <1>1

LEMMA PrintsLeft == ASSUME IInv, NEW b \in Batches, Applied(b) PROVE Fingerprint # item[b].print
<1>1. Fingerprint.stamp = offer.stamp
  BY FingerprintFine DEF IInv
<1>2. item[b].print.stamp < offer.stamp /\ offer.stamp \in Nat /\ item[b].print.stamp \in Nat
  BY DEF IInv, StampsFine, Stamped, FieldsFine, OfferRow, EnrichFine, ItemRow, PrintRow
<1> QED BY <1>1, <1>2

\* TypeOK holds of the three writers at once, and with it the check constraints of the
\* offers table: no interleaving leaves a range out of order or half a paired price.
\* And the offer never comes back to what a batch that filled it was started with,
\* whatever clears, reverts, replays and rolls back its fields meanwhile.
THEOREM CurationHolds == Spec => []CurationInv
<1>1. IInv => CurationInv
  BY TypesHold, PrintsLeft DEF IInv, CurationInv
<1> QED BY <1>1, Initially, Step, PTL DEF Spec

\* A batch applies its values once, though any number of processors, which no lease
\* keeps apart, mark, ask about and complete its item.
THEOREM AppliedOnce == Spec => FilledOnce
<1> DEFINE Act == \A b \in Batches : Applied(b) => batch'[b].events = batch[b].events
<1>1. IInv /\ [Next]_vars => [Act]_vars
  <2> SUFFICES ASSUME IInv, Next PROVE Act
    OBVIOUS
  <2>1. EnrichFine
    BY DEF IInv
  <2>2. CASE UNCHANGED enrichVars
    BY <2>2 DEF enrichVars
  <2>3. CASE Unmoved
    BY <2>3 DEF Unmoved
  <2>4. ASSUME NEW b \in Batches, StartBatch(b)
        PROVE  Act
    BY <2>1, <2>4 DEF StartBatch, EnrichFine, BatchRow
  <2>5. ASSUME NEW p \in Processors, ApplyAnswer(p)
        PROVE  Act
    <3>1. PICK b \in Batches : b = process[p].batch
      BY <2>1, <2>5 DEF ApplyAnswer, EnrichFine
    <3>2. ASSUME Fingerprint = item[b].print, NEW answer, Fill(b, answer)
          PROVE  Act
      <4>1. ~Applied(b)
        BY <3>2, PrintsLeft
      <4>2. \A c \in Batches \ {b} : batch'[c] = batch[c]
        BY <2>1, <3>2 DEF Fill, EnrichFine
      <4> QED BY <4>1, <4>2
    <3> QED BY <2>1, <2>3, <2>5, <3>1, <3>2, AnswerMoves
  <2>6. CASE Enrich
    BY <2>1, <2>3, <2>4, <2>5, <2>6, RequestsMove, ProcessorsMove DEF Enrich
  <2> QED BY <2>2, <2>6 DEF Next
<1>2. Spec => []IInv
  BY Initially, Step, PTL DEF Spec
<1> QED BY <1>1, <1>2, PTL DEF Spec, FilledOnce

-----------------------------------------------------------------------------
(***************************************************************************)
(* A value of the AI is held against the source after every commit of a    *)
(* listing, unless the ingestion dies or raises first: the fields it had   *)
(* not come to are those left uncompared.                                  *)
(***************************************************************************)
Comparing(i, f) == ingest[i].pc = "committed" \/ f \in ingest[i].todo

\* An active AI value is the one that was recorded, and from the current revision, if
\* that is a listing; or an ingestion is still to look at it, or never did.
FieldTracked(f) ==
  f \in AiActive \ uncompared =>
    \/ offer.value[f] = origin[f].value /\ (origin[f].rev = source \/ source \in Unlisted)
    \/ \E i \in Ingesters : Comparing(i, f)

Tracked == \A f \in Fields : FieldTracked(f)

LEMMA FieldStays ==
  ASSUME NEW f \in Fields, FieldTracked(f),
         \/ f \notin AiActive' \ uncompared'
         \/ /\ origin'[f] = origin[f] /\ offer'.value[f] = offer.value[f] /\ source' = source
            /\ f \in uncompared => f \in uncompared',
         \A i \in Ingesters : Comparing(i, f) => Comparing(i, f)'
  PROVE  FieldTracked(f)'
  BY DEF FieldTracked, AiActive, Comparing

LEMMA ClearSpares ==
  ASSUME FieldsFine, NEW g \in Fields, NEW f \in Fields \ {g},
         offer' = [offer EXCEPT !.value = Cleared(g), !.stamp = @ + 1]
  PROVE  offer'.value[f] = offer.value[f]
<1>1. offer \in OfferRow
  BY DEF FieldsFine
<1>2. Cleared(g) \in Document /\ Cleared(g)[f] = offer.value[f]
  BY <1>1, ClearedFine
<1>3. offer'.value = Cleared(g)
  BY <1>1, <1>2, Restamped
<1> QED BY <1>2, <1>3

LEMMA IngestTracks ==
  ASSUME FieldsFine, IngestFine, Tracked, Ingest
  PROVE  Tracked'
<1> USE DEF Tracked
<1> SUFFICES ASSUME NEW f \in Fields PROVE FieldTracked(f)'
  OBVIOUS
<1>1. ASSUME NEW i \in Ingesters, BeginUpsert(i) \/ RaiseUpsert(i)
      PROVE  FieldTracked(f)'
  <2>1. ~Comparing(i, f)
    BY <1>1 DEF BeginUpsert, RaiseUpsert, Comparing, IngestFine
  <2>2. \A j \in Ingesters \ {i} : ingest'[j] = ingest[j]
    BY <1>1 DEF BeginUpsert, RaiseUpsert, IngestFine
  <2> QED BY <1>1, <2>1, <2>2, FieldStays DEF BeginUpsert, RaiseUpsert, fieldVars, Comparing
<1>2. ASSUME NEW i \in Ingesters, CommitUpsert(i)
      PROVE  FieldTracked(f)'
  <2>1. ingest'[i].pc = "committed"
    BY <1>2 DEF CommitUpsert, IngestFine
  <2> QED BY <2>1 DEF FieldTracked, Comparing
<1>3. ASSUME NEW i \in Ingesters, ListOrigins(i)
      PROVE  FieldTracked(f)'
  <2>1. CASE f \notin AiActive
    BY <1>3, <2>1 DEF FieldTracked, ListOrigins, fieldVars, AiActive
  <2>2. CASE f \in AiActive
    <3>1. f \in ingest'[i].todo
      BY <1>3, <2>2 DEF ListOrigins, IngestFine, IngesterRow
    <3> QED BY <3>1 DEF FieldTracked, Comparing
  <2> QED BY <2>1, <2>2
<1>4. ASSUME NEW i \in Ingesters, NEW g \in Fields, Invalidate(i, g) \/ Compare(i, g)
      PROVE  FieldTracked(f)'
  <2>1. source' = source /\ ingest[i].pc = "syncing" /\ g \in ingest[i].todo
    BY <1>4 DEF Invalidate, Compare
  <2>2. CASE /\ ingest' = [ingest EXCEPT ![i] = Resting] /\ UNCHANGED <<offer, origin>>
             /\ uncompared' = uncompared \cup ingest[i].todo
    <3>1. CASE f \in ingest[i].todo
      BY <2>2, <3>1 DEF FieldTracked
    <3>2. CASE f \notin ingest[i].todo
      <4>1. ~Comparing(i, f)
        BY <2>1, <3>2 DEF Comparing
      <4>2. \A j \in Ingesters \ {i} : ingest'[j] = ingest[j]
        BY <2>2 DEF IngestFine
      <4>3. \A j \in Ingesters : Comparing(j, f) => Comparing(j, f)'
        BY <4>1, <4>2 DEF Comparing
      <4> QED BY <2>1, <2>2, <4>3, FieldStays
    <3> QED BY <3>1, <3>2
  <2>3. CASE Done(i, g) /\ uncompared' = uncompared \ {g} /\ f = g
    <3>1. CASE Invalidate(i, g)
      <4>1. origin'[g].state # "active"
        <5>1. \E state \in {"stale", "conflicting"} : origin' = [origin EXCEPT ![g].state = state]
          BY <2>1, <2>3, <3>1 DEF Invalidate
        <5> QED BY <5>1 DEF FieldsFine, Origin
      <4> QED BY <2>3, <4>1 DEF FieldTracked, AiActive
    <3>2. CASE Compare(i, g)
      <4>1. origin'[g].state # "active" \/ origin'[g].kind # "ai"
        BY <3>2 DEF Compare, FieldsFine, Origin
      <4> QED BY <2>3, <4>1 DEF FieldTracked, AiActive
    <3> QED BY <1>4, <3>1, <3>2
  <2>4. CASE Done(i, g) /\ uncompared' = uncompared \ {g} /\ f # g
    <3>1. origin'[f] = origin[f]
      BY <1>4, <2>4 DEF Invalidate, Compare, FieldsFine
    <3>2. offer'.value[f] = offer.value[f]
      BY <1>4, <2>4, ClearSpares DEF Invalidate, Compare
    <3>3. \A j \in Ingesters \ {i} : ingest'[j] = ingest[j]
      BY <2>4 DEF Done, IngestFine
    <3>4. Comparing(i, f) => Comparing(i, f)'
      BY <2>1, <2>4 DEF Comparing, Done, IngestFine, IngesterRow
    <3>5. \A j \in Ingesters : Comparing(j, f) => Comparing(j, f)'
      BY <3>3, <3>4 DEF Comparing
    <3> QED BY <2>1, <2>4, <3>1, <3>2, <3>5, FieldStays
  <2> QED BY <1>4, <2>2, <2>3, <2>4 DEF Invalidate, Compare
<1>5. ASSUME NEW i \in Ingesters, CrashIngest(i)
      PROVE  FieldTracked(f)'
  <2>1. UNCHANGED <<source, offer, origin>> /\ \A j \in Ingesters \ {i} : ingest'[j] = ingest[j]
    BY <1>5 DEF CrashIngest, fieldVars, IngestFine
  <2>2. CASE Comparing(i, f) /\ f \in AiActive
    <3>1. f \in uncompared'
      BY <1>5, <2>2 DEF CrashIngest, Comparing
    <3> QED BY <3>1 DEF FieldTracked
  <2>3. CASE f \notin AiActive
    BY <2>1, <2>3 DEF FieldTracked, AiActive
  <2>4. CASE ~Comparing(i, f)
    <3>1. \A j \in Ingesters : Comparing(j, f) => Comparing(j, f)'
      BY <2>1, <2>4 DEF Comparing
    <3>2. f \in uncompared => f \in uncompared'
      BY <1>5 DEF CrashIngest
    <3> QED BY <2>1, <3>1, <3>2, FieldStays
  <2> QED BY <2>2, <2>3, <2>4
<1>6. ASSUME NEW i \in Ingesters, CommitUnlisted(i)
      PROVE  FieldTracked(f)'
  <2>1. ~Comparing(i, f)
    BY <1>6 DEF CommitUnlisted, Comparing, IngestFine
  <2>2. \A j \in Ingesters \ {i} : ingest'[j] = ingest[j]
    BY <1>6 DEF CommitUnlisted, IngestFine
  <2>3. source' \in Unlisted /\ UNCHANGED <<offer, origin, uncompared>>
    BY <1>6 DEF CommitUnlisted
  <2>4. \A j \in Ingesters : Comparing(j, f) => Comparing(j, f)'
    BY <2>1, <2>2 DEF Comparing
  <2> QED BY <2>3, <2>4 DEF FieldTracked, AiActive
<1> QED BY <1>1, <1>2, <1>3, <1>4, <1>5, <1>6 DEF Ingest

LEMMA EnrichTracks ==
  ASSUME FieldsFine, EnrichFine, Tracked, Enrich, UNCHANGED ingestVars
  PROVE  Tracked'
<1> USE DEF Tracked
<1> SUFFICES ASSUME NEW f \in Fields PROVE FieldTracked(f)'
  OBVIOUS
<1>1. uncompared' = uncompared /\ \A i \in Ingesters : Comparing(i, f) => Comparing(i, f)'
  BY DEF ingestVars, Comparing
<1>2. CASE UNCHANGED <<source, offer, origin>>
  BY <1>1, <1>2, FieldStays
<1>3. ASSUME NEW p \in Processors, ApplyAnswer(p)
      PROVE  FieldTracked(f)'
  <2>1. PICK b \in Batches : b = process[p].batch
    BY <1>3 DEF ApplyAnswer, EnrichFine
  <2>2. ASSUME NEW fields \in SUBSET Fields, NEW answer \in [fields -> Values], Fill(b, answer),
               Fingerprint = item[b].print, item[b].print.rev # 0
        PROVE  FieldTracked(f)'
    <3>0. source' = source
      BY <1>3 DEF ApplyAnswer
    <3>1. item[b].print.rev = source
      BY <2>2, FingerprintFine
    <3>2. offer'.value = Filled(answer)
      BY <2>2 DEF Fill, FieldsFine, OfferRow
    <3>3. CASE f \in Fillable(answer)
      <4>1. offer'.value[f] = answer[f] /\ origin'[f] = AiOrigin(answer[f], source)
        BY <2>2, <3>1, <3>2, <3>3 DEF Fill, Filled
      <4> QED BY <3>0, <4>1 DEF FieldTracked, AiOrigin
    <3>4. CASE f \notin Fillable(answer)
      <4>1. offer'.value[f] = offer.value[f] /\ origin'[f] = origin[f]
        BY <2>2, <3>2, <3>4 DEF Fill, Filled
      <4> QED BY <1>1, <3>0, <4>1, FieldStays
    <3> QED BY <3>3, <3>4
  <2>3. CASE UNCHANGED <<offer, origin>>
    BY <1>2, <1>3, <2>3 DEF ApplyAnswer
  <2> QED BY <1>3, <2>1, <2>2, <2>3, AnswerMoves
<1>4. ASSUME NEW b \in Batches, NEW g \in Fields, RevertField(b, g)
      PROVE  FieldTracked(f)'
  <2>1. source' = source
    BY <1>4 DEF RevertField
  <2>2. CASE UNCHANGED <<offer, origin>>
    BY <1>2, <2>1, <2>2
  <2>3. CASE /\ offer' = [offer EXCEPT !.value = Cleared(g), !.stamp = @ + 1]
             /\ origin' = IF origin[g] = NoOrigin THEN origin
                          ELSE [origin EXCEPT ![g].state = "stale"]
    <3>1. CASE f = g
      <4>1. f \notin AiActive'
        BY <2>3, <3>1 DEF AiActive, NoOrigin, FieldsFine
      <4> QED BY <4>1 DEF FieldTracked
    <3>2. CASE f # g
      <4>1. origin'[f] = origin[f]
        BY <2>3, <3>2 DEF FieldsFine
      <4>2. offer'.value[f] = offer.value[f]
        BY <2>3, <3>2, ClearSpares
      <4> QED BY <1>1, <2>1, <4>1, <4>2, FieldStays
    <3> QED BY <3>1, <3>2
  <2> QED BY <1>4, <2>2, <2>3 DEF RevertField
<1> QED BY <1>2, <1>3, <1>4
        DEF Enrich, StartBatch, PauseBatch, ResumeBatch, BeginRevert, EndRevert, OpenBatch,
            FindItem, MarkItem, StartRun, Prepare, DeferItem, DismissItem, CrashProcess, fieldVars

LEMMA ReplayTracks ==
  ASSUME FieldsFine, ReplayFine, Tracked, Replay, UNCHANGED ingestVars
  PROVE  Tracked'
<1> USE DEF Tracked
<1> SUFFICES ASSUME NEW f \in Fields PROVE FieldTracked(f)'
  OBVIOUS
<1>1. uncompared' = uncompared /\ \A i \in Ingesters : Comparing(i, f) => Comparing(i, f)'
  BY DEF ingestVars, Comparing
<1>2. CASE UNCHANGED <<source, offer, origin>>
  BY <1>1, <1>2, FieldStays
<1>3. ASSUME NEW p \in Replayers, ApplyReplay(p)
      PROVE  FieldTracked(f)'
  <2>1. source' = source
    BY <1>3 DEF ApplyReplay
  <2>2. CASE UNCHANGED <<offer, origin>>
    BY <1>2, <2>1, <2>2
  <2>3. CASE WriteReplay(p, source)
    <3>1. CASE f \in Plan(source)
      <4>1. origin'[f].kind = "parser"
        BY <2>3, <3>1 DEF WriteReplay, ParserOrigin
      <4> QED BY <4>1 DEF FieldTracked, AiActive
    <3>2. CASE f \notin Plan(source)
      <4>1. origin'[f] = origin[f] /\ offer'.value[f] = offer.value[f]
        BY <2>3, <3>2 DEF WriteReplay, Planned
      <4> QED BY <1>1, <2>1, <4>1, FieldStays
    <3> QED BY <3>1, <3>2
  <2> QED BY <1>3, <2>2, <2>3 DEF ApplyReplay
<1>4. ASSUME NEW r \in Revisions, Rollback(r)
      PROVE  FieldTracked(f)'
  <2> DEFINE events == replay[r].events
  <2>1. source' = source
    BY <1>4 DEF Rollback
  <2>2. CASE UNCHANGED <<offer, origin>>
    BY <1>2, <2>1, <2>2
  <2>3. CASE ~UNCHANGED <<offer, origin>>
    <3>0. events \in FieldEvents
      BY DEF ReplayFine, ReplayRow
    <3>1. PICK fields \in SUBSET Fields : events \in [fields -> FieldEvent]
      BY <3>0 DEF FieldEvents
    <3>2. CASE f \in DOMAIN events
      <4>1. origin'[f] = events[f].origin
        BY <1>4, <2>3, <3>2 DEF Rollback
      <4>2. origin'[f].kind # "ai"
        BY <3>1, <3>2, <4>1 DEF FieldEvent
      <4> QED BY <4>2 DEF FieldTracked, AiActive
    <3>3. CASE f \notin DOMAIN events
      <4> DEFINE Back(now, was) == [g \in Fields |-> IF g \in DOMAIN events THEN was[g] ELSE now[g]]
                 values == Back(offer.value, [g \in DOMAIN events |-> events[g].value])
                 row == [stamp |-> offer.stamp + 1, value |-> values,
                         parser |-> events[CHOOSE g \in DOMAIN events : TRUE].parser]
      <4>0. /\ offer' = row
            /\ origin' = Back(origin, [g \in DOMAIN events |-> events[g].origin])
        BY <1>4, <2>3 DEF Rollback
      <4>2. row.value = values
        OBVIOUS
      <4>1. origin'[f] = origin[f] /\ offer'.value[f] = offer.value[f]
        BY <3>3, <4>0, <4>2
      <4> QED BY <1>1, <2>1, <4>1, FieldStays
    <3> QED BY <3>2, <3>3
  <2> QED BY <2>2, <2>3
<1> QED BY <1>2, <1>3, <1>4
        DEF Replay, Discover, Promote, Lapse, RejectReplay, FailReplay, CrashReplay,
            ClaimReplay, fieldVars

LEMMA TrackedThroughout == Spec => [](IInv /\ Tracked)
<1>1. Init => Tracked
  BY DEF Init, FieldsInit, Tracked, FieldTracked, AiActive, NoOrigin
<1>2. IInv /\ Tracked /\ [Next]_vars => Tracked'
  <2> SUFFICES ASSUME IInv, Tracked, [Next]_vars PROVE Tracked'
    OBVIOUS
  <2>1. CASE UNCHANGED vars
    BY <2>1 DEF Tracked, FieldTracked, AiActive, Comparing, vars, fieldVars, ingestVars
  <2>2. CASE Next
    BY <2>2, IngestTracks, EnrichTracks, ReplayTracks DEF Next, IInv
  <2> QED BY <2>1, <2>2
<1> QED BY <1>1, <1>2, Initially, Step, PTL DEF Spec

LEMMA TrackedShows == IInv /\ Tracked => AiValuesHold /\ AiValuesCurrent
<1> SUFFICES ASSUME IInv, Tracked, Settled, NEW f \in AiActive \ uncompared
             PROVE  /\ offer.value[f] = origin[f].value
                    /\ source \notin Unlisted => origin[f].rev = source
  BY DEF AiValuesHold, AiValuesCurrent
<1>1. \A i \in Ingesters : ~Comparing(i, f)
  BY DEF Settled, Comparing, IInv, IngestFine
<1> QED BY <1>1 DEF Tracked, FieldTracked, AiActive

\* Once the ingestions are done, what the AI is said to have written is there, whatever
\* parsers, replays, rollbacks and batches of any number did meanwhile, however often
\* ingestions died or raised, and for single bounds and paired prices alike: but for
\* the fields whose comparison was lost in such a death.
THEOREM AiIsTold == Spec => []AiValuesHold
  BY TrackedThroughout, TrackedShows, PTL

\* With the same exception, and while the message is a listing, no active value of the
\* AI outlives the revision it was drawn from.
THEOREM AiIsCurrent == Spec => []AiValuesCurrent
  BY TrackedThroughout, TrackedShows, PTL

-----------------------------------------------------------------------------
LEMMA FinishStates ==
  ASSUME ReplayFine, NEW p \in Replayers, replayer[p].pc = "claimed", NEW state, NEW events,
         NEW passed, FinishReplay(p, state, events, passed), NEW r \in Revisions
  PROVE  replay'[r].state = replay[r].state \/ (r = replayer[p].rev /\ replay'[r].state = state)
<1>1. replayer[p].rev \in Revisions
  BY DEF ReplayFine
<1> QED BY <1>1 DEF FinishReplay, ReplayFine, ReplayRow

LEMMA ReplayWrites ==
  ASSUME FieldsFine, ReplayFine, Replay
  PROVE  /\ phase = "paused" => phase' = "paused"
         /\ \A r \in Revisions :
              replay[r].state \notin Written /\ replay'[r].state \in Written =>
                phase = "running" /\ source = r
<1>1. CASE Discover
  <2>1. \A r \in Revisions : replay'[r].state \in {replay[r].state, "queued"}
    BY <1>1 DEF Discover, ReplayFine, ReplayRow, FieldsFine
  <2> QED BY <1>1, <2>1 DEF Discover, Written
<1>2. CASE Promote
  <2>1. replay' = replay
    BY <1>2 DEF Promote, fieldVars
  <2> QED BY <1>2, <2>1 DEF Promote
<1>3. ASSUME NEW s \in Revisions, Lapse(s)
      PROVE  phase' = phase /\ \A r \in Revisions : replay'[r].state = replay[r].state
  BY <1>3 DEF Lapse, ReplayFine, ReplayRow, fieldVars
<1>4. ASSUME NEW s \in Revisions, Rollback(s)
      PROVE  phase' = "paused" /\ \A r \in Revisions : replay'[r].state = replay[r].state
  BY <1>4 DEF Rollback, ReplayFine, ReplayRow
<1>5. ASSUME NEW p \in Replayers, RejectReplay(p) \/ FailReplay(p)
      PROVE  phase' = phase /\ \A r \in Revisions :
               replay'[r].state \in {replay[r].state, "excluded", "failed", "deferred"}
  BY <1>5, FinishStates DEF RejectReplay, FailReplay, fieldVars
<1>6. ASSUME NEW p \in Replayers, CrashReplay(p)
      PROVE  phase' = phase /\ replay' = replay
  BY <1>6 DEF CrashReplay, fieldVars
<1>7. ASSUME NEW p \in Replayers, NEW s \in Revisions, NEW apply \in BOOLEAN,
             NEW live \in BOOLEAN, ClaimReplay(p, s, apply, live)
      PROVE  phase' = phase /\ \A r \in Revisions :
               replay'[r].state \in {replay[r].state, "claimed"}
  BY <1>7 DEF ClaimReplay, ReplayFine, ReplayRow, fieldVars
<1>8. ASSUME NEW p \in Replayers, ApplyReplay(p)
      PROVE  /\ phase' = phase
             /\ \/ replay' = replay
                \/ \A r \in Revisions :
                     replay'[r].state \in {replay[r].state, "deferred", "excluded", "observed"}
                \/ /\ phase = "running" /\ replayer[p].rev = source
                   /\ \A r \in Revisions : r = source \/ replay'[r].state = replay[r].state
  <2>1. replayer[p].pc = "claimed" /\ phase' = phase
    BY <1>8 DEF ApplyReplay
  <2>2. CASE \/ FinishReplay(p, "deferred", Kept(p), FALSE)
             \/ FinishReplay(p, "excluded", Kept(p), FALSE)
             \/ FinishReplay(p, "observed", Kept(p), TRUE)
    BY <2>1, <2>2, FinishStates
  <2>3. CASE phase = "running" /\ replayer[p].rev = source /\ WriteReplay(p, source)
    BY <2>1, <2>3, FinishStates DEF WriteReplay
  <2> QED BY <1>8, <2>1, <2>2, <2>3 DEF ApplyReplay
<1>9. {"queued", "claimed", "deferred", "excluded", "observed", "failed"} \cap Written = {}
  BY DEF Written
<1> QED BY <1>1, <1>2, <1>3, <1>4, <1>5, <1>6, <1>7, <1>8, <1>9 DEF Replay

\* A rollback is final for any number of workers and claims: whoever claimed work of the
\* release before writes nothing of it after, and only the current revision is written.
THEOREM PauseHolds == Spec => PauseIsFinal
<1> DEFINE WriteFenced(r) ==
             replay[r].state \notin Written /\ replay'[r].state \in Written =>
               phase = "running" /\ source = r
           Act == (phase = "paused" => phase' = "paused") /\ \A r \in Revisions : WriteFenced(r)
<1>1. IInv /\ [Next]_vars => [Act]_vars
  <2> SUFFICES ASSUME IInv, Next PROVE Act
    OBVIOUS
  <2>1. CASE UNCHANGED replayVars
    BY <2>1 DEF replayVars
  <2>2. CASE Replay
    BY <2>2, ReplayWrites DEF IInv
  <2> QED BY <2>1, <2>2 DEF Next
<1>2. Spec => []IInv
  BY Initially, Step, PTL DEF Spec
<1> QED BY <1>1, <1>2, PTL DEF Spec, PauseIsFinal

\* What the AI decided about a field is where it was.
Spared == \A f \in Fields : origin[f].kind = "ai" =>
            origin'[f] = origin[f] /\ offer'.value[f] = offer.value[f]

\* A step of the ingestion that writes a field shows in what its ingester is doing.
LEMMA IngestShows ==
  ASSUME IngestFine, Ingest, UNCHANGED ingestVars
  PROVE  UNCHANGED <<offer, origin>>
<1>1. ingest' = ingest
  BY DEF ingestVars
<1>2. ASSUME NEW i \in Ingesters,
             \/ BeginUpsert(i) \/ CommitUnlisted(i) \/ RaiseUpsert(i)
             \/ ListOrigins(i) \/ CrashIngest(i)
      PROVE  UNCHANGED <<offer, origin>>
  BY <1>2 DEF BeginUpsert, CommitUnlisted, RaiseUpsert, ListOrigins, CrashIngest, fieldVars
<1>3. ASSUME NEW i \in Ingesters, CommitUpsert(i)
      PROVE  FALSE
  <2>1. ingest[i].pc = "writing" /\ ingest'[i].pc = "committed"
    BY <1>3 DEF CommitUpsert, IngestFine
  <2> QED BY <1>1, <2>1
<1>4. ASSUME NEW i \in Ingesters, NEW f \in Fields, f \in ingest[i].todo, Done(i, f)
      PROVE  FALSE
  <2>1. CASE ingest' = [ingest EXCEPT ![i] = Resting]
    <3>1. ingest'[i].todo = {}
      BY <2>1, RestingFine DEF IngestFine
    <3> QED BY <1>1, <1>4, <3>1
  <2>2. CASE ingest' = [ingest EXCEPT ![i].todo = @ \ {f}]
    <3>1. ingest'[i].todo = ingest[i].todo \ {f}
      BY <2>2 DEF IngestFine, IngesterRow
    <3> QED BY <1>1, <1>4, <3>1
  <2> QED BY <1>4, <2>1, <2>2 DEF Done
<1>5. ASSUME NEW i \in Ingesters, NEW f \in Fields, Invalidate(i, f) \/ Compare(i, f)
      PROVE  UNCHANGED <<offer, origin>>
  BY <1>4, <1>5 DEF Invalidate, Compare
<1> QED BY <1>2, <1>3, <1>5 DEF Ingest

LEMMA EnrichShows ==
  ASSUME EnrichFine, Enrich, UNCHANGED enrichVars
  PROVE  UNCHANGED <<offer, origin>>
<1>1. batch' = batch /\ process' = process
  BY DEF enrichVars
<1>2. ASSUME NEW p \in Processors, ApplyAnswer(p)
      PROVE  FALSE
  <2>1. process'[p].pc = "idle" /\ process[p].pc = "asking"
    BY <1>2, FreeFine DEF ApplyAnswer, EnrichFine
  <2> QED BY <1>1, <2>1
<1>3. ASSUME NEW b \in Batches, NEW f \in Fields, RevertField(b, f)
      PROVE  FALSE
  <2>1. f \in batch[b].undo /\ batch[b] \in BatchRow
    BY <1>3 DEF RevertField, EnrichFine
  <2>2. f \notin batch'[b].undo
    BY <1>3, <2>1 DEF RevertField, EnrichFine, BatchRow
  <2> QED BY <1>1, <2>1, <2>2
<1> QED BY <1>2, <1>3
        DEF Enrich, StartBatch, PauseBatch, ResumeBatch, BeginRevert, EndRevert, OpenBatch,
            FindItem, MarkItem, StartRun, Prepare, DeferItem, DismissItem, CrashProcess, fieldVars

LEMMA ReplayShows ==
  ASSUME FieldsFine, ReplayFine, Replay
  PROVE  Spared
<1> SUFFICES ASSUME NEW f \in Fields, origin[f].kind = "ai"
             PROVE  origin'[f] = origin[f] /\ offer'.value[f] = offer.value[f]
  BY DEF Spared
<1>1. CASE UNCHANGED <<offer, origin>>
  BY <1>1
<1>2. ASSUME NEW p \in Replayers, ApplyReplay(p)
      PROVE  origin'[f] = origin[f] /\ offer'.value[f] = offer.value[f]
  <2>1. CASE WriteReplay(p, source)
    <3>1. f \notin Plan(source)
      BY PlanSpares, TypedFields
    <3> QED BY <2>1, <3>1 DEF WriteReplay, Planned
  <2> QED BY <1>1, <1>2, <2>1 DEF ApplyReplay
<1>3. ASSUME NEW r \in Revisions, Rollback(r)
      PROVE  origin'[f] = origin[f] /\ offer'.value[f] = offer.value[f]
  <2> DEFINE events == replay[r].events
             Back(now, was) == [g \in Fields |-> IF g \in DOMAIN events THEN was[g] ELSE now[g]]
             values == Back(offer.value, [g \in DOMAIN events |-> events[g].value])
             row == [stamp |-> offer.stamp + 1, value |-> values,
                     parser |-> events[CHOOSE g \in DOMAIN events : TRUE].parser]
  <2>1. CASE ~UNCHANGED <<offer, origin>>
    <3>1. /\ StillReplayed(r) /\ offer' = row
          /\ origin' = Back(origin, [g \in DOMAIN events |-> events[g].origin])
      BY <1>3, <2>1 DEF Rollback
    <3>2. row.value = values
      OBVIOUS
    <3>3. f \notin DOMAIN events
      <4> SUFFICES ASSUME f \in DOMAIN events PROVE FALSE
        OBVIOUS
      <4>1. origin[f] = ParserOrigin(Extract[r][f], r)
        BY <3>1 DEF StillReplayed
      <4>2. ParserOrigin(Extract[r][f], r).kind = "parser"
        BY DEF ParserOrigin
      <4> QED BY <4>1, <4>2
    <3> QED BY <3>1, <3>2, <3>3
  <2> QED BY <1>1, <2>1
<1> QED BY <1>1, <1>2, <1>3
        DEF Replay, Discover, Promote, Lapse, RejectReplay, FailReplay, CrashReplay,
            ClaimReplay, fieldVars

\* No step of a replay, of its promotion or of its rollback moves a value or an origin
\* of the AI, active or in conflict.
THEOREM ReplaySpares == Spec => ReplaySparesAi
<1> DEFINE Act == UNCHANGED <<ingestVars, enrichVars>> => Spared
<1>1. IInv /\ [Next]_vars => [Act]_vars
  <2> SUFFICES ASSUME IInv, Next, UNCHANGED <<ingestVars, enrichVars>> PROVE Spared
    OBVIOUS
  <2>1. CASE UNCHANGED <<offer, origin>>
    BY <2>1 DEF Spared
  <2>2. CASE Ingest
    BY <2>1, <2>2, IngestShows DEF IInv
  <2>3. CASE Enrich
    BY <2>1, <2>3, EnrichShows DEF IInv
  <2>4. CASE Replay
    BY <2>4, ReplayShows DEF IInv
  <2> QED BY <2>2, <2>3, <2>4 DEF Next
<1>2. Spec => []IInv
  BY Initially, Step, PTL DEF Spec
<1> QED BY <1>1, <1>2, PTL DEF Spec, ReplaySparesAi, Spared

-----------------------------------------------------------------------------
(***************************************************************************)
(* The replay as a fenced lease: what a work has recorded, the token it    *)
(* has to be settled with, and what a worker believes to hold.             *)
(***************************************************************************)
RecordOf(r) == IF replay[r].state \in Closed THEN replay[r].state ELSE "open"
TokenOf(r) == IF replay[r].claim = 0 THEN {} ELSE {replay[r].claim}
Holding(p) ==
  [item |-> replayer[p].rev,
   token |-> IF replayer[p].pc = "idle" THEN {} ELSE {replayer[p].claim}]

Recorded == [r \in Revisions |-> RecordOf(r)]
Tokens == [r \in Revisions |-> TokenOf(r)]
Holdings == [p \in Replayers |-> Holding(p)]
leaseVars == <<Recorded, Tokens, Holdings>>

NothingElse(r, p) ==
  /\ \A j \in Revisions \ {r} : RecordOf(j)' = RecordOf(j) /\ TokenOf(j)' = TokenOf(j)
  /\ \A v \in Replayers \ {p} : Holding(v)' = Holding(v)

\* The steps of a lease, from what they do to the one item and the one worker.
LEMMA ClaimMaps ==
  ASSUME NEW p \in Replayers, NEW r \in Revisions, NothingElse(r, p),
         Holding(p) = Fence!Idle, RecordOf(r) = "open", RecordOf(r)' = "open",
         TokenOf(r)' # {}, \A v \in Replayers : Holding(v) # [item |-> r, token |-> TokenOf(r)'],
         Holding(p)' = [item |-> r, token |-> TokenOf(r)']
  PROVE  Fence!Next
<1>1. /\ Holdings[p] = Fence!Idle /\ Recorded[r] = "open"
      /\ \A v \in Replayers : Holdings[v] # [item |-> r, token |-> Tokens'[r]]
      /\ Tokens'[r] # {}
  BY DEF Holdings, Recorded, Tokens
<1>2. Tokens' = [Tokens EXCEPT ![r] = Tokens'[r]]
  BY DEF Tokens, NothingElse
<1>3. Holdings' = [Holdings EXCEPT ![p] = [item |-> r, token |-> Tokens'[r]]]
  BY DEF Holdings, Tokens, NothingElse
<1>4. Recorded' = Recorded
  BY DEF Recorded, NothingElse
<1> QED BY <1>1, <1>2, <1>3, <1>4
        DEF Fence!Next, Fence!Claim, Holdings, Recorded, Tokens, Holding, RecordOf, TokenOf

LEMMA FinishMaps ==
  ASSUME NEW p \in Replayers, NEW r \in Revisions, NothingElse(r, p),
         TokenOf(r) # {}, Holding(p) = [item |-> r, token |-> TokenOf(r)],
         RecordOf(r) = "open", TokenOf(r)' = {}, Holding(p)' = Fence!Idle
  PROVE  Fence!Next
<1>1. /\ Tokens[r] # {} /\ Holdings[p] = [item |-> r, token |-> Tokens[r]]
      /\ Recorded[r] = "open"
  BY DEF Holdings, Recorded, Tokens
<1>2. Tokens' = [Tokens EXCEPT ![r] = {}]
  BY DEF Tokens, NothingElse
<1>3. Holdings' = [Holdings EXCEPT ![p] = Fence!Idle]
  BY DEF Holdings, NothingElse
<1>4. Recorded' = [Recorded EXCEPT ![r] = Recorded'[r]]
  BY DEF Recorded, NothingElse
<1> QED BY <1>1, <1>2, <1>3, <1>4
        DEF Fence!Next, Fence!Finish, Holdings, Recorded, Tokens, Holding, RecordOf, TokenOf

LEMMA AbandonMaps ==
  ASSUME NEW p \in Replayers, Holding(p)' = Fence!Idle,
         \A v \in Replayers \ {p} : Holding(v)' = Holding(v),
         \A r \in Revisions : RecordOf(r)' = RecordOf(r) /\ TokenOf(r)' = TokenOf(r)
  PROVE  Fence!Next
<1>1. Holdings' = [Holdings EXCEPT ![p] = Fence!Idle]
  BY DEF Holdings
<1>2. Recorded' = Recorded /\ Tokens' = Tokens
  BY DEF Recorded, Tokens
<1> QED BY <1>1, <1>2
        DEF Fence!Next, Fence!Abandon, Holdings, Recorded, Tokens, Holding, RecordOf, TokenOf

LEMMA ArrangeMaps ==
  ASSUME \A p \in Replayers : Holding(p)' = Holding(p),
         \A r \in Revisions : TokenOf(r)' \in {{}, TokenOf(r)},
         \A r \in Revisions : RecordOf(r) # "open" \/ TokenOf(r) # {} => RecordOf(r)' = RecordOf(r)
  PROVE  Fence!Next
<1> DEFINE R == {r \in Revisions : TokenOf(r)' = {}}
<1>1. R \in SUBSET Revisions /\ \A r \in Revisions : TokenOf(r)' = IF r \in R THEN {} ELSE TokenOf(r)
  OBVIOUS
<1> HIDE DEF R
<1> QED BY <1>1 DEF Fence!Next, Fence!Arrange, RecordOf, TokenOf, Holding

\* A step is no step of the lease when it touches neither what is recorded, nor a live
\* lease, nor a claim.
LEMMA LeaseUntouched ==
  ASSUME \A r \in Revisions : RecordOf(r)' = RecordOf(r) /\ TokenOf(r)' = TokenOf(r),
         \A p \in Replayers : Holding(p)' = Holding(p)
  PROVE  UNCHANGED leaseVars
BY DEF leaseVars, Recorded, Tokens, Holdings

\* Claims are numbered: no worker has a number that its work has not come to.
ClaimsFine ==
  \A p \in Replayers :
    IF replayer[p].pc = "idle" THEN replayer[p].rev = 0
    ELSE replayer[p].claim # 0 /\ replayer[p].claim <= replay[replayer[p].rev].attempts

\* What every step does to the lease.
LeaseFine == ClaimsFine' /\ (Fence!Next \/ UNCHANGED leaseVars)

\* Nobody begins or ends a claim.
LEMMA LeaseStays ==
  ASSUME ReplayFine, ClaimsFine, UNCHANGED replayer,
         \A r \in Revisions : /\ RecordOf(r)' = RecordOf(r)
                              /\ replay'[r].claim = replay[r].claim
                              /\ replay'[r].attempts = replay[r].attempts
  PROVE  LeaseFine
<1>1. UNCHANGED leaseVars
  BY LeaseUntouched DEF TokenOf, Holding
<1>2. ClaimsFine'
  BY DEF ClaimsFine, ReplayFine
<1> QED BY <1>1, <1>2 DEF LeaseFine

\* A worker that lets go of its work has no claim any more.
LEMMA LetsGo ==
  ASSUME ReplayFine, NEW p \in Replayers, replayer' = [replayer EXCEPT ![p] = Away]
  PROVE  /\ replayer'[p] = Away /\ Holding(p)' = Fence!Idle
         /\ \A q \in Replayers \ {p} : replayer'[q] = replayer[q] /\ Holding(q)' = Holding(q)
BY DEF ReplayFine, Holding, Fence!Idle, Away

\* Whoever was overtaken, or dies, leaves no trace.
LEMMA LetGoMaps ==
  ASSUME ReplayFine, ClaimsFine, NEW p \in Replayers,
         replayer' = [replayer EXCEPT ![p] = Away], replay' = replay
  PROVE  LeaseFine
<1>1. Fence!Next
  BY LetsGo, AbandonMaps DEF RecordOf, TokenOf
<1>2. ClaimsFine'
  BY LetsGo DEF ClaimsFine, Away
<1> QED BY <1>1, <1>2 DEF LeaseFine

\* The holder of a claim settles its work or gives it back.
LEMMA FinishReplayMaps ==
  ASSUME ReplayFine, ClaimsFine, NEW p \in Replayers, replayer[p].pc = "claimed",
         NEW state \in Open, NEW events, NEW passed, FinishReplay(p, state, events, passed)
  PROVE  LeaseFine
<1>1. replayer' = [replayer EXCEPT ![p] = Away]
  BY DEF FinishReplay
<1>2. CASE ~HeldBy(p)
  BY <1>1, <1>2, LetGoMaps DEF FinishReplay
<1>3. CASE HeldBy(p)
  <2> PICK r \in Revisions : r = replayer[p].rev
    BY DEF ReplayFine
  <2>1. replay[r].state = "claimed" /\ replay[r].claim = replayer[p].claim
    BY <1>3 DEF HeldBy
  <2>2. replay' = [replay EXCEPT ![r] = [@ EXCEPT !.state = state, !.claim = 0,
                     !.lapsed = FALSE, !.events = events,
                     !.passed = replay[r].passed \/ passed]]
    BY <1>3 DEF FinishReplay
  <2>3. /\ replay'[r].claim = 0 /\ replay'[r].attempts = replay[r].attempts
        /\ \A s \in Revisions \ {r} : replay'[s] = replay[s]
    BY <2>2 DEF ReplayFine, ReplayRow
  <2>4. TokenOf(r) = {replayer[p].claim} /\ TokenOf(r) # {} /\ RecordOf(r) = "open"
    BY <2>1 DEF TokenOf, RecordOf, ReplayFine, Closed, Written
  <2>5. Holding(p) = [item |-> r, token |-> TokenOf(r)] /\ TokenOf(r)' = {}
    BY <2>3, <2>4 DEF Holding, TokenOf
  <2>6. NothingElse(r, p)
    BY <1>1, <2>3, LetsGo DEF NothingElse, RecordOf, TokenOf
  <2>7. Fence!Next
    BY <1>1, <2>4, <2>5, <2>6, LetsGo, FinishMaps
  <2>8. ClaimsFine'
    BY <1>1, <2>3, LetsGo DEF ClaimsFine, ReplayFine, Away
  <2> QED BY <2>7, <2>8 DEF LeaseFine
<1> QED BY <1>2, <1>3

\* A claim takes a number that nobody has had.
LEMMA ClaimReplayMaps ==
  ASSUME ReplayFine, ClaimsFine, NEW p \in Replayers, NEW r \in Revisions,
         NEW apply \in BOOLEAN, NEW live \in BOOLEAN, ClaimReplay(p, r, apply, live)
  PROVE  LeaseFine
<1> DEFINE n == replay[r].attempts + 1
<1>1. n \in Nat /\ n # 0 /\ n > replay[r].attempts /\ replay[r].attempts \in Nat
  BY DEF ReplayFine, ReplayRow
<1>2. /\ replay' = [replay EXCEPT ![r] = [@ EXCEPT !.state = "claimed", !.lapsed = FALSE,
                      !.claim = n, !.attempts = n]]
      /\ replayer' = [replayer EXCEPT ![p] = [pc |-> "claimed", rev |-> r, phase |-> phase,
                        claim |-> n, enabled |-> apply /\ live]]
      /\ replayer[p].pc = "idle"
      /\ replay[r].state \in {"queued", "deferred", "claimed", "observed"}
  BY DEF ClaimReplay
<1> HIDE DEF n
<1>3. /\ replay'[r].claim = n /\ replay'[r].attempts = n /\ replay'[r].state = "claimed"
      /\ \A s \in Revisions \ {r} : replay'[s] = replay[s]
  BY <1>2 DEF ReplayFine, ReplayRow
<1>4. /\ replayer'[p].rev = r /\ replayer'[p].claim = n /\ replayer'[p].pc = "claimed"
      /\ \A q \in Replayers \ {p} : replayer'[q] = replayer[q]
  BY <1>2 DEF ReplayFine
<1>5. RecordOf(r) = "open" /\ RecordOf(r)' = "open"
  BY <1>2, <1>3 DEF RecordOf, Closed, Written
<1>6. TokenOf(r)' = {n} /\ Holding(p)' = [item |-> r, token |-> {n}]
  BY <1>1, <1>3, <1>4 DEF TokenOf, Holding
<1>7. Holding(p) = Fence!Idle
  BY <1>2 DEF Holding, Fence!Idle, ClaimsFine
<1>8. NothingElse(r, p)
  BY <1>3, <1>4 DEF NothingElse, RecordOf, TokenOf, Holding
<1>9. \A q \in Replayers : Holding(q) # [item |-> r, token |-> {n}]
  <2> SUFFICES ASSUME NEW q \in Replayers, Holding(q) = [item |-> r, token |-> {n}]
               PROVE  FALSE
    OBVIOUS
  <2>1. replayer[q].pc # "idle" /\ replayer[q].rev = r /\ replayer[q].claim = n
    BY DEF Holding
  <2>2. n <= replay[r].attempts
    BY <2>1 DEF ClaimsFine
  <2> QED BY <1>1, <2>2
<1>10. Fence!Next
  BY <1>5, <1>6, <1>7, <1>8, <1>9, ClaimMaps
<1>11. ASSUME NEW q \in Replayers
       PROVE  IF replayer'[q].pc = "idle" THEN replayer'[q].rev = 0
              ELSE /\ replayer'[q].claim # 0
                   /\ replayer'[q].claim <= replay'[replayer'[q].rev].attempts
  <2>1. CASE q = p
    BY <1>1, <1>3, <1>4, <2>1
  <2>2. CASE q # p /\ replayer[q].pc = "idle"
    BY <1>4, <2>2 DEF ClaimsFine
  <2>3. CASE q # p /\ replayer[q].pc # "idle"
    <3>1. /\ replayer'[q] = replayer[q] /\ replayer[q].rev \in Revisions
          /\ replayer[q].claim \in Nat /\ replayer[q].claim # 0
          /\ replayer[q].claim <= replay[replayer[q].rev].attempts
      BY <1>4, <2>3 DEF ClaimsFine, ReplayFine, ReplayerRow
    <3>2. replay[replayer[q].rev].attempts <= replay'[replayer[q].rev].attempts
      BY <1>1, <1>3, <3>1 DEF ReplayFine, ReplayRow
    <3>3. /\ replay[replayer[q].rev].attempts \in Nat
          /\ replay'[replayer[q].rev].attempts \in Nat
      BY <1>1, <1>3, <3>1 DEF ReplayFine, ReplayRow
    <3> QED BY <2>3, <3>1, <3>2, <3>3
  <2> QED BY <2>1, <2>2, <2>3
<1>12. ClaimsFine'
  BY <1>11 DEF ClaimsFine
<1> QED BY <1>10, <1>12 DEF LeaseFine

\* Discovery, lapses, the promotion and an operator's rollback touch no claim and no
\* recorded result.
LEMMA OutsideMaps ==
  ASSUME FieldsFine, ReplayFine, ClaimsFine,
         Discover \/ Promote \/ \E r \in Revisions : Lapse(r) \/ Rollback(r)
  PROVE  LeaseFine
<1>1. replayer' = replayer
  BY DEF Discover, Promote, Lapse, Rollback
<1>2. ASSUME NEW r \in Revisions
      PROVE  /\ RecordOf(r)' = RecordOf(r)
             /\ replay'[r].claim = replay[r].claim
             /\ replay'[r].attempts = replay[r].attempts
  <2>1. CASE Discover
    <3>1. \/ replay'[r] = replay[r]
          \/ /\ replay[r].state = "none" /\ replay'[r].state = "queued"
             /\ replay'[r].claim = replay[r].claim /\ replay'[r].attempts = replay[r].attempts
      BY <2>1 DEF Discover, ReplayFine, ReplayRow, FieldsFine
    <3> QED BY <3>1 DEF RecordOf, Closed, Written
  <2>2. CASE Promote
    BY <2>2 DEF Promote, RecordOf
  <2>3. ASSUME NEW s \in Revisions, Lapse(s) \/ Rollback(s)
        PROVE  /\ replay'[r].state = replay[r].state /\ replay'[r].claim = replay[r].claim
               /\ replay'[r].attempts = replay[r].attempts
    <3>1. \/ replay' = [replay EXCEPT ![s].lapsed = TRUE]
          \/ replay' = [replay EXCEPT ![s].events = NoEvents]
          \/ replay' = replay
      BY <2>3 DEF Lapse, Rollback
    <3> QED BY <3>1 DEF ReplayFine, ReplayRow
  <2> QED BY <2>1, <2>2, <2>3 DEF RecordOf
<1> QED BY <1>1, <1>2, LeaseStays

LEMMA ReplayMaps ==
  ASSUME FieldsFine, ReplayFine, ClaimsFine, Replay
  PROVE  LeaseFine
<1>1. CASE Discover \/ Promote \/ \E r \in Revisions : Lapse(r) \/ Rollback(r)
  BY <1>1, OutsideMaps
<1>2. ASSUME NEW p \in Replayers, RejectReplay(p) \/ FailReplay(p)
      PROVE  LeaseFine
  <2>1. /\ replayer[p].pc = "claimed"
        /\ \E state \in {"excluded", "failed", "deferred"} : FinishReplay(p, state, Kept(p), FALSE)
    BY <1>2 DEF RejectReplay, FailReplay
  <2>2. {"excluded", "failed", "deferred"} \subseteq Open
    BY DEF Open
  <2> QED BY <2>1, <2>2, FinishReplayMaps
<1>3. ASSUME NEW p \in Replayers, CrashReplay(p)
      PROVE  LeaseFine
  BY <1>3, LetGoMaps DEF CrashReplay
<1>4. ASSUME NEW p \in Replayers, NEW r \in Revisions, NEW apply \in BOOLEAN,
             NEW live \in BOOLEAN, ClaimReplay(p, r, apply, live)
      PROVE  LeaseFine
  BY <1>4, ClaimReplayMaps
<1>5. ASSUME NEW p \in Replayers, ApplyReplay(p)
      PROVE  LeaseFine
  <2>1. replayer[p].pc = "claimed"
    BY <1>5 DEF ApplyReplay
  <2>2. {"deferred", "excluded", "observed", "protected_conflict", "updated", "unchanged"}
          \subseteq Open
    BY DEF Open, Written
  <2>3. \/ \E state \in Open : \E events, passed : FinishReplay(p, state, events, passed)
        \/ replayer' = [replayer EXCEPT ![p] = Away] /\ replay' = replay
    <3>1. CASE WriteReplay(p, replayer[p].rev)
      <4>1. \E state \in {"protected_conflict", "updated", "unchanged"} : \E events :
              FinishReplay(p, state, events, FALSE)
        BY <3>1 DEF WriteReplay
      <4> QED BY <2>2, <4>1
    <3> QED BY <1>5, <2>2, <3>1 DEF ApplyReplay
  <2> QED BY <2>1, <2>3, FinishReplayMaps, LetGoMaps
<1> QED BY <1>1, <1>2, <1>3, <1>4, <1>5 DEF Replay

LEMMA LeaseSteps == IInv /\ ClaimsFine /\ [Next]_vars => LeaseFine
<1> SUFFICES ASSUME IInv, ClaimsFine, [Next]_vars PROVE LeaseFine
  OBVIOUS
<1>1. FieldsFine /\ ReplayFine
  BY DEF IInv
<1>2. CASE UNCHANGED replayVars
  BY <1>1, <1>2, LeaseStays DEF replayVars, RecordOf
<1>3. CASE Replay
  BY <1>1, <1>3, ReplayMaps
<1> QED BY <1>2, <1>3 DEF Next, vars

\* Replay work implements the fenced lease, for any number of workers, claims and
\* revisions: a worker that was overtaken settles nothing, and what one recorded stays,
\* whatever the ingestion, the AI and an operator's rollback do meanwhile.
THEOREM ReplayIsFenced == Spec => ImplementsLease
<1>1. Init => ClaimsFine /\ Fence!Init
  <2> SUFFICES ASSUME Init PROVE ClaimsFine /\ Fence!Init
    OBVIOUS
  <2>1. \A r \in Revisions : RecordOf(r) = "open" /\ TokenOf(r) = {}
    BY DEF Init, ReplayInit, RecordOf, TokenOf, NoReplay, Closed, Written
  <2>2. \A p \in Replayers : replayer[p].pc = "idle" /\ replayer[p].rev = 0
    BY DEF Init, ReplayInit, Away
  <2>3. \A p \in Replayers : Holding(p) = Fence!Idle
    BY <2>2 DEF Holding, Fence!Idle
  <2> QED BY <2>1, <2>2, <2>3 DEF ClaimsFine, Fence!Init, RecordOf, TokenOf, Holding
<1>2. IInv /\ ClaimsFine /\ [Next]_vars => ClaimsFine' /\ [Fence!Next]_(Fence!vars)
  BY LeaseSteps DEF LeaseFine, leaseVars, Recorded, Tokens, Holdings, RecordOf, TokenOf, Holding,
     Fence!vars
<1> QED BY <1>1, <1>2, Initially, Step, PTL DEF Spec, ImplementsLease, Fence!Spec
=============================================================================
