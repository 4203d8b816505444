---------------------------- MODULE MCApprovals -----------------------------
(* Two requests, two sessions that race, and time enough for a request to  *)
(* be decided before its expiry, after it, and by the sweep.               *)
EXTENDS Approvals, TLC

Symmetry == Permutations(Requests) \cup Permutations(Sessions)
=============================================================================
