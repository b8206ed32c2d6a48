------------------------- MODULE MCProofSubmission --------------------------
(***************************************************************************)
(* Small instances of ProofSubmission: three shares, of which two are the  *)
(* same proof.                                                             *)
(***************************************************************************)
EXTENDS ProofSubmission

CONSTANTS s1, s2, s3, p1, p2

MCProofOf == [s \in Shares |-> IF s = s3 THEN p2 ELSE p1]
=============================================================================
