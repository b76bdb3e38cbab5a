---------------------------- MODULE MCJobWorker ----------------------------
(***************************************************************************)
(* Two jobs and two processes.  w1 is the old container of a deploy: it    *)
(* has no handler for j2, which a migration has just seeded.  Busy exceeds *)
(* Lease, so that a worker can outlive its lease.                          *)
(***************************************************************************)
EXTENDS JobWorker, TLC

CONSTANTS j1, j2, w1, w2

MCRegistered == (w1 :> {j1}) @@ (w2 :> {j1, j2})
MCInterval == (j1 :> 1) @@ (j2 :> 2)
=============================================================================
