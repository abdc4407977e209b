------------------------------ MODULE OfferFields ------------------------------
(***************************************************************************)
(* The fields of one offer and who decided them.  The parser writes them   *)
(* when an ingestion commits a revision of the offer's message             *)
(* (persistence_adapter.py, _persist_offer); origins record the values     *)
(* that came from the AI or from a replay (ai_enrichment_store.py); and    *)
(* after every commit, in transactions of its own, the ingestion holds the *)
(* AI's values against what the source now says (SyncOfferAiOrigins).      *)
(*                                                                         *)
(* The offer has one range, two fields that are kept in order: an area, a  *)
(* number of rooms or a price.  0 is a field without a value.  A statement *)
(* that breaks a constraint of the table raises, and its transaction is    *)
(* undone.                                                                 *)
(***************************************************************************)
EXTENDS FiniteSets, Integers

CONSTANTS
  Ingesters,    \* live worker, historical import
  Values,       \* what a field may hold
  LastRevision, \* bound: the revisions of the message
  Retained,     \* what the parser of old extracted from the first revision
  Extract,      \* what the deployed parser extracts from each revision
  Unlisted,     \* the revisions that it finds no listing in
  Paired,       \* a parking or storage price: both bounds or none
  MaxUpserts, MaxIngestCrashes  \* bounds

Fields == {"min", "max"}
Nothing == 0
Document == [Fields -> Values \cup {Nothing}]
Revisions == 1 .. LastRevision

Disordered(v) == v["min"] # Nothing /\ v["max"] # Nothing /\ v["min"] > v["max"]

\* The check constraints of the offers table.
Legal(v) == ~Disordered(v) /\ (Paired => (v["min"] = Nothing <=> v["max"] = Nothing))

ASSUME FieldsAssumption ==
  /\ Values \subseteq Nat \ {Nothing} /\ IsFiniteSet(Values)
  /\ LastRevision \in Nat \ {0}
  /\ Retained \in Document /\ Extract \in [Revisions -> Document] /\ Paired \in BOOLEAN
  /\ Unlisted \subseteq Revisions \ {1}
  /\ Legal(Retained) /\ \A r \in Revisions : Legal(Extract[r])
  /\ MaxUpserts \in Nat /\ MaxIngestCrashes \in Nat

VARIABLES
  source,     \* the current revision of the message
  offer,      \* its fields, updated_at and parser version
  links,      \* the retained extraction of each linked revision
  origin,     \* offer_field_origins
  ingest,     \* what each ingester is doing
  uncompared, \* history: the fields with an AI origin that an ingestion ought to have
              \* held against the source, had it not died or raised
  upserts, ingestCrashes

fieldVars == <<source, offer, links, origin>>
boundVars == <<upserts, ingestCrashes>>
ingestVars == <<ingest, uncompared, boundVars>>

NoOrigin == [kind |-> "none", state |-> "none", value |-> Nothing, rev |-> 0]
AiOrigin(v, r) == [kind |-> "ai", state |-> "active", value |-> v, rev |-> r]
ParserOrigin(v, r) == [kind |-> "parser", state |-> "active", value |-> v, rev |-> r]

\* shielded: the fields it found protected; listed: the origins it still has to
\* hold against the source, as they were when it listed them.
Resting == [pc |-> "idle", rev |-> 0, shielded |-> {}, changed |-> FALSE,
            todo |-> {}, listed |-> [f \in Fields |-> NoOrigin]]

FieldsInit ==
  /\ source = 1
  /\ offer = [value |-> Retained, stamp |-> 0, parser |-> "old"]
  /\ links = [r \in {1} |-> Retained]
  /\ origin = [f \in Fields |-> NoOrigin]
  /\ ingest = [i \in Ingesters |-> Resting]
  /\ uncompared = {} /\ upserts = 0 /\ ingestCrashes = 0

Missing == {f \in Fields : offer.value[f] = Nothing}
AiActive == {f \in Fields : origin[f].kind = "ai" /\ origin[f].state = "active"}

\* protected_field_names
Protected ==
  {f \in Fields : origin[f].kind = "ai" /\ origin[f].state \in {"active", "conflicting"}}

-----------------------------------------------------------------------------
\* The message is locked, its protected fields are read in another session.
BeginUpsert(i) ==
  /\ ingest[i].pc = "idle" /\ \A j \in Ingesters : ingest[j].pc # "writing"
  /\ upserts < MaxUpserts /\ upserts' = upserts + 1
  /\ \E r \in {source, source + 1} \cap Revisions :
       ingest' = [ingest EXCEPT ![i] = [Resting EXCEPT !.pc = "writing", !.rev = r,
                                               !.shielded = Protected]]
  /\ UNCHANGED <<fieldVars, uncompared, ingestCrashes>>

Parsed(i) ==
  [f \in Fields |-> IF f \in ingest[i].shielded THEN offer.value[f]
                   ELSE Extract[ingest[i].rev][f]]

\* A revision that is already linked keeps the extraction it was linked with, and
\* updated_at is not moved.
CommitUpsert(i) ==
  LET r == ingest[i].rev
  IN  /\ ingest[i].pc = "writing" /\ r \notin Unlisted /\ Legal(Parsed(i))
      /\ source' = r
      /\ offer' = [offer EXCEPT !.value = Parsed(i), !.parser = "new"]
      /\ links' = [q \in DOMAIN links \cup {r} |->
                     IF q \in DOMAIN links THEN links[q] ELSE Extract[q]]
      /\ ingest' = [ingest EXCEPT ![i] = [Resting EXCEPT !.pc = "committed", !.rev = r,
                                                 !.changed = r \notin DOMAIN links]]
      /\ UNCHANGED <<origin, uncompared, boundVars>>

\* The message was edited to a text without a listing: the revision becomes current
\* and nothing else happens, neither to the offer nor to the origins of its fields.
CommitUnlisted(i) ==
  /\ ingest[i].pc = "writing" /\ ingest[i].rev \in Unlisted
  /\ source' = ingest[i].rev
  /\ ingest' = [ingest EXCEPT ![i] = Resting]
  /\ UNCHANGED <<offer, links, origin, uncompared, boundVars>>

RaiseUpsert(i) ==
  /\ ingest[i].pc = "writing" /\ ingest[i].rev \notin Unlisted /\ ~Legal(Parsed(i))
  /\ ingest' = [ingest EXCEPT ![i] = Resting]
  /\ UNCHANGED <<fieldVars, uncompared, boundVars>>

ListOrigins(i) ==
  /\ ingest[i].pc = "committed"
  /\ ingest' = [ingest EXCEPT ![i] =
       IF AiActive = {} THEN Resting
       ELSE [@ EXCEPT !.pc = "syncing", !.todo = AiActive, !.listed = origin]]
  /\ UNCHANGED <<fieldVars, uncompared, boundVars>>

Done(i, f) ==
  ingest' = IF ingest[i].todo = {f} THEN [ingest EXCEPT ![i] = Resting]
            ELSE [ingest EXCEPT ![i].todo = @ \ {f}]

Cleared(f) == [offer.value EXCEPT ![f] = Nothing]

\* Mutant: a value that is no longer the AI's is passed over.
InvalidateMatching(i, f) ==
  LET matches == offer.value[f] = ingest[i].listed[f].value
  IN  /\ ingest[i].pc = "syncing" /\ f \in ingest[i].todo /\ ingest[i].changed
      /\ IF matches
         THEN /\ offer' = [offer EXCEPT !.value = Cleared(f), !.stamp = @ + 1]
              /\ origin' = [origin EXCEPT ![f].state = "stale"]
         ELSE UNCHANGED <<offer, origin>>
      /\ Done(i, f)
      /\ UNCHANGED <<source, links, uncompared, boundVars>>

\* invalidate_or_conflict_origin: the source was edited.  Where it raises, the
\* origins that were still to be visited are not.
Invalidate(i, f) ==
  LET matches == offer.value[f] = ingest[i].listed[f].value
  IN  /\ ingest[i].pc = "syncing" /\ f \in ingest[i].todo /\ ingest[i].changed
      /\ \/ /\ matches /\ Legal(Cleared(f))
            /\ offer' = [offer EXCEPT !.value = Cleared(f), !.stamp = @ + 1]
            /\ origin' = [origin EXCEPT ![f].state = "stale"]
            /\ Done(i, f) /\ uncompared' = uncompared \ {f}
         \/ /\ matches /\ ~Legal(Cleared(f))
            /\ ingest' = [ingest EXCEPT ![i] = Resting]
            /\ uncompared' = uncompared \cup ingest[i].todo
            /\ UNCHANGED <<offer, origin>>
         \/ /\ ~matches
            /\ origin' = [origin EXCEPT ![f].state = "conflicting"]
            /\ Done(i, f) /\ uncompared' = uncompared \ {f}
            /\ UNCHANGED offer
      /\ UNCHANGED <<source, links, boundVars>>

\* record_parser_comparison: the same revision was parsed again; a field in which
\* the parser found nothing is compared as well.
Compare(i, f) ==
  LET parsed == Extract[ingest[i].rev][f]
  IN  /\ ingest[i].pc = "syncing" /\ f \in ingest[i].todo /\ ~ingest[i].changed
      /\ origin' = [origin EXCEPT ![f] =
           IF parsed = ingest[i].listed[f].value
           THEN [@ EXCEPT !.kind = "parser", !.state = "active", !.value = parsed]
           ELSE [@ EXCEPT !.state = "conflicting"]]
      /\ Done(i, f) /\ uncompared' = uncompared \ {f}
      /\ UNCHANGED <<source, offer, links, boundVars>>

\* The process dies before, in or after its transaction, and with it what it was
\* going to compare.
CrashIngest(i) ==
  /\ ingest[i].pc # "idle"
  /\ ingestCrashes < MaxIngestCrashes /\ ingestCrashes' = ingestCrashes + 1
  /\ ingest' = [ingest EXCEPT ![i] = Resting]
  /\ uncompared' = uncompared \cup (IF ingest[i].pc = "committed" THEN AiActive
                                    ELSE ingest[i].todo)
  /\ UNCHANGED <<fieldVars, upserts>>

Ingest ==
  \E i \in Ingesters :
    \/ BeginUpsert(i) \/ CommitUpsert(i) \/ CommitUnlisted(i) \/ RaiseUpsert(i)
    \/ ListOrigins(i) \/ CrashIngest(i)
    \/ \E f \in Fields : Invalidate(i, f) \/ Compare(i, f)

-----------------------------------------------------------------------------
Kinds == {"none", "ai", "parser"}

FieldsTypeOK ==
  /\ source \in Revisions
  /\ offer.value \in Document /\ Legal(offer.value)
  /\ offer.stamp \in Nat /\ offer.parser \in {"old", "new"}
  /\ DOMAIN links \subseteq Revisions \ Unlisted /\ uncompared \subseteq Fields
  /\ \A r \in DOMAIN links : links[r] \in Document
  /\ origin \in [Fields -> [kind : Kinds, value : Values \cup {Nothing}, rev : 0 .. LastRevision,
                            state : {"none", "active", "stale", "conflicting"}]]
  /\ \A i \in Ingesters : ingest[i].pc = "syncing" <=> ingest[i].todo # {}
=============================================================================
