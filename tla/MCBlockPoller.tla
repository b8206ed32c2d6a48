--------------------------- MODULE MCBlockPoller ----------------------------
(***************************************************************************)
(* Small instances of BlockPoller: no two polls overlap, or a poll of one  *)
(* interval overlaps one of another, each answered within its 10 s.        *)
(***************************************************************************)
EXTENDS BlockPoller
=============================================================================
