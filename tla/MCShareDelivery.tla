--------------------------- MODULE MCShareDelivery --------------------------
(***************************************************************************)
(* Small instances of ShareDelivery.                                       *)
(***************************************************************************)
EXTENDS ShareDelivery

\* The default, and a limit that one failed attempt does not reach.
Retries == {-1, 1}
=============================================================================
