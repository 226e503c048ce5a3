---------------------------- MODULE MCTimedCaches ----------------------------
(***************************************************************************)
(* An instance of TimedCaches for TLC: the two jobs, or two requests.      *)
(***************************************************************************)
EXTENDS TimedCaches

=============================================================================
