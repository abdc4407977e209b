-------------------------- MODULE MCArchiveRecovery --------------------------
(***************************************************************************)
(* Three or four archive rows, one of them possibly malformed, a canary of *)
(* two rows drained in batches of one by the worker and by an operator.    *)
(***************************************************************************)
EXTENDS ArchiveRecovery, TLC

CONSTANTS r1, r2, r3, bad, worker, operator

Interchangeable == Permutations({r1, r2, r3})
=============================================================================
