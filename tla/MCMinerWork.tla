----------------------------- MODULE MCMinerWork ----------------------------
(***************************************************************************)
(* Small instances of MinerWork.                                           *)
(***************************************************************************)
EXTENDS MinerWork

\* j jobs, of which b may be of one second, r lost connections, x regenerations
\* for each job; follow: shares are remembered.
Limit(j, b, r, x, follow) ==
  [jobs |-> j, burst |-> b, reconnects |-> r, xnonce2 |-> x, follow |-> follow]

\* Two jobs, of which the second may look like the first until a range is
\* exhausted; a lost connection, around one job and around two, of which the
\* second may repeat the id of the first; ranges that are exhausted again and
\* again.  Shares are remembered where they are few.
SmallLimits == { Limit(2, 2, 0, 1, FALSE), Limit(2, 1, 1, 1, FALSE), Limit(1, 1, 1, 1, TRUE),
                 Limit(1, 1, 0, 3, TRUE) }
=============================================================================
