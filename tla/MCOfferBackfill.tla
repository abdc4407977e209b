--------------------------- MODULE MCOfferBackfill ---------------------------
(***************************************************************************)
(* A visible listing of an imported message, deleted at the source while   *)
(* the backfill runs.                                                      *)
(***************************************************************************)
EXTENDS OfferBackfill

CONSTANTS original

MCSourceTime == [r \in Revisions |-> 1]
MCMoment == [r \in Revisions |-> 1]
MCProjections == [r \in Revisions |-> {}]

MCPublished ==
  {[posted |-> original, current |-> original, history |-> {original},
    deleted |-> FALSE, offer |-> "visible"]}
=============================================================================
