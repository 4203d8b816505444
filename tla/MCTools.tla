------------------------------ MODULE MCTools ------------------------------
EXTENDS ToolRuns, TLC

(* Tools given one second by the router.  The timer of a newman run ends   *)
(* with the router's, unless a second passes before the process is there   *)
(* or the caller overrides it; that of a Playwright run ends later.        *)
MCWallclock == [t \in Tools |-> 1]
MCTimeout   == [t \in Tools |-> IF t = "newman" THEN 1 ELSE 2]
=============================================================================
