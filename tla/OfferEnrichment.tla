---------------------------- MODULE OfferEnrichment ----------------------------
(***************************************************************************)
(* Batches that let the AI fill the missing fields of offers               *)
(* (application/offer_enrichment.py): an item of each batch is about our   *)
(* offer.  The worker and the owner's requests process batches without a   *)
(* lease: only the transaction that completes an item locks the offer.     *)
(***************************************************************************)
EXTENDS OfferFields

CONSTANTS
  Processors,   \* the maintenance worker, a request of the owner
  Batches       \* batch ids

VARIABLES
  batch,      \* state, whether it was started, items processed, values applied
  item,       \* the batch's item about the offer
  process     \* what each processor is doing

enrichVars == <<batch, item, process>>

Ended == {"completed", "reverted", "failed"}
Terminal == {"succeeded", "skipped", "failed"}

\* events: the applied field events of the batch; undo: what a request still reverts.
NoBatch == [state |-> "none", started |-> FALSE, processed |-> 0,
            events |-> [f \in Fields |-> Nothing], undoing |-> FALSE, undo |-> {}]
NoPrint == [stamp |-> 0, missing |-> {}, rev |-> 0]
NoItem == [state |-> "none", print |-> NoPrint]
Free == [pc |-> "idle", batch |-> "none", restart |-> FALSE, retry |-> FALSE, missing |-> {}]

EnrichInit ==
  /\ batch = [b \in Batches |-> NoBatch]
  /\ item = [b \in Batches |-> NoItem]
  /\ process = [p \in Processors |-> Free]

\* list_offer_source_revisions: the current revision of the message, if the offer
\* is linked to it.
Cited == IF source \in DOMAIN links THEN source ELSE 0

\* Mutant: that the offer was written since is not noticed.
PrintUnstamped == [stamp |-> 0, missing |-> Missing, rev |-> Cited]

\* offer_input_fingerprint
Fingerprint == [stamp |-> offer.stamp, missing |-> Missing, rev |-> Cited]

-----------------------------------------------------------------------------
StartBatch(b) ==
  /\ batch[b].state = "none" /\ Missing # {}
  /\ batch' = [batch EXCEPT ![b].state = "queued"]
  /\ item' = [item EXCEPT ![b] = [state |-> "queued", print |-> Fingerprint]]
  /\ UNCHANGED <<fieldVars, process>>

PauseBatch(b) ==
  /\ batch[b].state \notin Ended \cup {"none"}
  /\ batch' = [batch EXCEPT ![b].state = "paused"]
  /\ UNCHANGED <<fieldVars, item, process>>

ResumeBatch(b) ==
  /\ batch[b].state = "paused"
  /\ batch' = [batch EXCEPT ![b].state = "running"]
  /\ UNCHANGED <<fieldVars, item, process>>

\* The batch is read, then an item that an earlier call left in processing.
OpenBatch(p, b) ==
  /\ process[p].pc = "idle"
  /\ batch[b].state \notin Ended \cup {"none", "paused"}
  /\ process' = [process EXCEPT ![p] = [pc |-> "open", batch |-> b, missing |-> {},
       restart |-> batch[b].state = "queued" \/ ~batch[b].started,
       retry |-> item[b].state = "processing"]]
  /\ UNCHANGED <<fieldVars, batch, item>>

Started(p) == IF process[p].restart THEN "marked" ELSE "taken"

\* The queued item is read and its lock let go; where there is none, and none was left
\* in processing, the batch is completed, whoever works on it.
FindItem(p) ==
  LET b == process[p].batch
  IN  /\ process[p].pc = "open"
      /\ \/ /\ process[p].retry
            /\ process' = [process EXCEPT ![p].pc = Started(p)]
            /\ UNCHANGED batch
         \/ /\ ~process[p].retry /\ item[b].state = "queued"
            /\ process' = [process EXCEPT ![p].pc = "found"]
            /\ UNCHANGED batch
         \/ /\ ~process[p].retry /\ item[b].state # "queued"
            /\ batch' = [batch EXCEPT ![b].state = "completed"]
            /\ process' = [process EXCEPT ![p] = Free]
      /\ UNCHANGED <<fieldVars, item>>

\* mark_item_processing: whatever became of the item since it was read.
MarkItem(p) ==
  /\ process[p].pc = "found"
  /\ item' = [item EXCEPT ![process[p].batch].state = "processing"]
  /\ process' = [process EXCEPT ![p].pc = Started(p)]
  /\ UNCHANGED <<fieldVars, batch>>

\* The batch is running, as decided from what was read, whoever moved it since.
StartRun(p) ==
  LET b == process[p].batch
  IN  /\ process[p].pc = "marked"
      /\ batch' = [batch EXCEPT ![b].state = "running", ![b].started = TRUE]
      /\ process' = [process EXCEPT ![p].pc = "taken"]
      /\ UNCHANGED <<fieldVars, item>>

-----------------------------------------------------------------------------
\* complete_item, for an item that is settled without values.
Settle(b, state) ==
  IF item[b].state \in Terminal THEN UNCHANGED <<batch, item>>
  ELSE /\ item' = [item EXCEPT ![b].state = state]
       /\ batch' = [batch EXCEPT ![b].processed = @ + 1]

\* _prepare_item: what to ask for, or why there is nothing to ask.
Prepare(p) ==
  LET b == process[p].batch
  IN  /\ process[p].pc = "taken"
      /\ \/ /\ Fingerprint # item[b].print /\ Settle(b, "failed")
            /\ process' = [process EXCEPT ![p] = Free]
         \/ /\ Fingerprint = item[b].print
            /\ process' = [process EXCEPT ![p].pc = "asking", ![p].missing = Missing]
            /\ UNCHANGED <<batch, item>>
      /\ UNCHANGED fieldVars

\* The budget defers: the item stays in processing for a later call.
DeferItem(p) ==
  /\ process[p].pc = "asking"
  /\ process' = [process EXCEPT ![p] = Free]
  /\ UNCHANGED <<fieldVars, batch, item>>

\* An error, an unusable answer, or no evidence for any field.
DismissItem(p) ==
  /\ process[p].pc = "asking"
  /\ \E state \in {"failed", "skipped"} : Settle(process[p].batch, state)
  /\ process' = [process EXCEPT ![p] = Free]
  /\ UNCHANGED fieldVars

Fillable(answer) == {f \in DOMAIN answer \ AiActive : f \in Missing}
Filled(answer) ==
  [f \in Fields |-> IF f \in Fillable(answer) THEN answer[f] ELSE offer.value[f]]
Conflicts(answer) ==
  \/ DOMAIN answer \cap AiActive # {}
  \/ Disordered(Filled(answer))

Fill(b, answer) ==
  /\ offer' = [offer EXCEPT !.stamp = @ + 1, !.value = Filled(answer)]
  /\ origin' = [f \in Fields |-> IF f \in Fillable(answer) THEN AiOrigin(answer[f], item[b].print.rev)
                                 ELSE origin[f]]
  /\ item' = [item EXCEPT ![b].state = "succeeded"]
  /\ batch' = [batch EXCEPT ![b].processed = @ + 1,
                 ![b].events = [f \in Fields |-> IF f \in Fillable(answer) THEN answer[f]
                                                ELSE @[f]]]

Refuse(b, answer) ==
  /\ Settle(b, IF Conflicts(answer) \/ Fillable(answer) = {} THEN "skipped" ELSE "failed")
  /\ UNCHANGED <<offer, origin>>

\* Mutant: an answer to what the offer was is taken for what it is.
CompleteStale(b, answer) ==
  IF item[b].state \notin Terminal /\ ~Conflicts(answer) /\ Fillable(answer) # {}
  THEN Fill(b, answer)
  ELSE Refuse(b, answer)

\* complete_item: under the lock of the offer and of the item, only fields that are
\* still missing are filled, and only if nothing moved since the batch was started.
\* Where it raises, the item stays in processing.
Complete(b, answer) ==
  LET accepted == /\ ~Conflicts(answer) /\ Fillable(answer) # {}
                  /\ Fingerprint = item[b].print
  IN  \/ /\ item[b].state \notin Terminal /\ accepted
         /\ Legal(Filled(answer)) /\ Fill(b, answer)
      \/ /\ item[b].state \notin Terminal /\ accepted
         /\ ~Legal(Filled(answer)) /\ UNCHANGED <<offer, origin, batch, item>>
      \/ ~(item[b].state \notin Terminal /\ accepted) /\ Refuse(b, answer)

\* An answer has to name the revision it was drawn from.
ApplyAnswer(p) ==
  /\ process[p].pc = "asking" /\ item[process[p].batch].print.rev # 0
  /\ \E fields \in SUBSET process[p].missing \ {{}} : \E answer \in [fields -> Values] :
       Complete(process[p].batch, answer)
  /\ process' = [process EXCEPT ![p] = Free]
  /\ UNCHANGED <<source, links>>

CrashProcess(p) ==
  /\ process[p].pc # "idle"
  /\ process' = [process EXCEPT ![p] = Free]
  /\ UNCHANGED <<fieldVars, batch, item>>

-----------------------------------------------------------------------------
\* RevertOfferEnrichmentBatch, in whatever state the batch is: its applied events
\* are listed, those that were reverted before included.
BeginRevert(b) ==
  /\ batch[b].state # "none" /\ ~batch[b].undoing
  /\ batch' = [batch EXCEPT ![b] = [@ EXCEPT !.state = "reverting", !.undoing = TRUE,
                 !.undo = {f \in Fields : batch[b].events[f] # Nothing}]]
  /\ UNCHANGED <<fieldVars, item, process>>

\* revert_applied_event: only the value is compared, and the field's origin becomes
\* stale whoever it belongs to.  Where it raises, the request ends there.
RevertField(b, f) ==
  LET matches == offer.value[f] = batch[b].events[f]
  IN  /\ batch[b].undoing /\ f \in batch[b].undo
      /\ \/ /\ matches /\ Legal(Cleared(f))
            /\ offer' = [offer EXCEPT !.value = Cleared(f), !.stamp = @ + 1]
            /\ origin' = IF origin[f] = NoOrigin THEN origin
                         ELSE [origin EXCEPT ![f].state = "stale"]
            /\ batch' = [batch EXCEPT ![b].undo = @ \ {f}]
         \/ /\ matches /\ ~Legal(Cleared(f))
            /\ batch' = [batch EXCEPT ![b].undoing = FALSE, ![b].undo = {}]
            /\ UNCHANGED <<offer, origin>>
         \/ /\ ~matches
            /\ batch' = [batch EXCEPT ![b].undo = @ \ {f}]
            /\ UNCHANGED <<offer, origin>>
      /\ UNCHANGED <<source, links, item, process>>

EndRevert(b) ==
  /\ batch[b].undoing /\ batch[b].undo = {}
  /\ batch' = [batch EXCEPT ![b].state = "reverted", ![b].undoing = FALSE]
  /\ UNCHANGED <<fieldVars, item, process>>

Enrich ==
  \/ \E b \in Batches :
       \/ StartBatch(b) \/ PauseBatch(b) \/ ResumeBatch(b)
       \/ BeginRevert(b) \/ EndRevert(b) \/ \E f \in Fields : RevertField(b, f)
  \/ \E p \in Processors :
       \/ FindItem(p) \/ MarkItem(p) \/ StartRun(p) \/ Prepare(p) \/ DeferItem(p) \/ DismissItem(p)
       \/ ApplyAnswer(p) \/ CrashProcess(p)
       \/ \E b \in Batches : OpenBatch(p, b)
=============================================================================
