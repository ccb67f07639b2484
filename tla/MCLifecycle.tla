---------------------------- MODULE MCLifecycle ----------------------------
(***************************************************************************)
(* The lifecycle with the real ratio of its two limits: both are           *)
(* ShutdownTimeout.  A component stops at once, at the limit, between the  *)
(* first and the second limit, or so late that every wait times out.       *)
(***************************************************************************)
EXTENDS Lifecycle

MCFreeTimes == {0, 2, 3, 9}
=============================================================================
