---------------------------- MODULE MCMiningJobs ----------------------------
(***************************************************************************)
(* Small instance of MiningJobs, and the mistakes its properties exclude.  *)
(***************************************************************************)
EXTENDS MiningJobs
=============================================================================
