-------------------------- MODULE MCAutomaticRecovery --------------------------
(***************************************************************************)
(* A worker and its successor, both of whom serve the owner too, a message *)
(* without a listing and one with a listing to enrich.                     *)
(***************************************************************************)
EXTENDS AutomaticRecovery, TLC

CONSTANTS worker, successor, r1, r2, q1, e1, e2

MCEnriching == (r1 :> e1) @@ (r2 :> e2)

Interchangeable == Permutations({worker, successor})
=============================================================================
