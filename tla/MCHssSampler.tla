---------------------------- MODULE MCHssSampler ----------------------------
(* The instance of HssSampler that TLC explores: two layouts of frames of  *)
(* one and of two cells.                                                   *)
EXTENDS HssSampler

MCFrameSize == [l \in Layouts |-> l]
=============================================================================
