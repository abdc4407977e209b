------------------------- MODULE MCTelegramIngestion -------------------------
(***************************************************************************)
(* One or two messages with an original payload, edits that share a source *)
(* second, and the export of the original, of which the live payload is a  *)
(* legacy projection.                                                      *)
(***************************************************************************)
EXTENDS IngestionProperties

CONSTANTS original, edited, rival, export

MCSourceTime ==
  [r \in Revisions |-> IF r \in {edited, rival} THEN 2 ELSE 1]
MCMoment ==
  [r \in Revisions |-> IF r = rival THEN 3 ELSE IF r = edited THEN 2 ELSE 1]
MCProjections ==
  [r \in Revisions |-> IF r = export THEN {original} ELSE {}]

Fresh == [posted |-> Absent, current |-> Absent, history |-> {},
          deleted |-> FALSE, offer |-> "none"]
Imported == [posted |-> original, current |-> export, history |-> {export},
             deleted |-> FALSE, offer |-> "needs_review"]
Rebuilt == [posted |-> original, current |-> original,
            history |-> {original, export}, deleted |-> FALSE, offer |-> "visible"]
OldDeleted == [posted |-> original, current |-> original, history |-> {original},
               deleted |-> TRUE, offer |-> "hidden"]

Edited == [Fresh EXCEPT !.posted = edited]

MCFresh == {Fresh}
MCEdited == {Edited}
MCLegacy == {Fresh, Imported, Rebuilt, OldDeleted}
=============================================================================
