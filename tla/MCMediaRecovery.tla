--------------------------- MODULE MCMediaRecovery ---------------------------
(***************************************************************************)
(* An album of a listing and one or two photos, some of them unusable,     *)
(* under the worker and, for a while, its successor.                       *)
(***************************************************************************)
EXTENDS MediaRecovery

CONSTANT Edited  \* the messages that are edited once

MCMaxRevision == [m \in Messages |-> IF m \in Edited THEN 2 ELSE 1]
=============================================================================
