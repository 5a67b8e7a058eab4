------------------------ MODULE MCSegmentLifecycle ------------------------
(* Small instances of SegmentLifecycle for TLC.                            *)
EXTENDS SegmentLifecycle, TLC

ReqSymmetry == Permutations(Req)
=============================================================================
