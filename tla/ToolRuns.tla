------------------------------ MODULE ToolRuns ------------------------------
(***************************************************************************)
(* ToolRouter.invoke around a runner that shells out: newman, pytest or    *)
(* Playwright.  Two timers are set on a run, the router's on the whole of  *)
(* it and the runner's on the process, and the run can be cancelled with   *)
(* the task it is part of.  A step is what the event loop does between two *)
(* suspension points: the spawning of the process, communicate() and the   *)
(* wait() after a kill.  Time is what is left of the timers.               *)
(***************************************************************************)
EXTENDS Integers, Sequences, FiniteSets

CONSTANTS
  Invocations,         \* calls of invoke(), each made once
  Tools,               \* tools by name, with their
  max_wallclock_seconds, timeout_seconds,
  Overrides            \* values of timeout_override

ASSUME ToolAssumption ==
  /\ max_wallclock_seconds \in [Tools -> Nat] /\ timeout_seconds \in [Tools -> Nat]
  /\ Overrides \subseteq Nat

VARIABLES
  at,                  \* "idle", "preparing", "waiting" (communicate), "reaping" (wait
                       \* after a kill), or how it ended: "ok", "error", "timeout" or
                       \* "cancelled"
  tool,                \* the tool that is invoked
  budget, patience,    \* time left on the router's timer and on the runner's
  process,             \* "none", "running" or "gone"
  report,              \* the JSON report it left
  directory,           \* whether the temporary directory of the run is there
  ledger,              \* the router's _invocations: [of, succeeded]
  killed               \* history: processes that were sent SIGKILL

runnerVars  == <<at, tool, budget, patience, directory, killed>>
processVars == <<process, report>>
toolVars    == <<runnerVars, processVars, ledger>>

UnderWay == {"preparing", "waiting", "reaping"}
Reports  == {"missing", "torn", "written"}

ToolInit ==
  /\ at = [i \in Invocations |-> "idle"]
  /\ tool = [i \in Invocations |-> CHOOSE t \in Tools : TRUE]
  /\ budget = [i \in Invocations |-> 0] /\ patience = [i \in Invocations |-> 0]
  /\ process = [i \in Invocations |-> "none"]
  /\ report = [i \in Invocations |-> "missing"]
  /\ directory = [i \in Invocations |-> FALSE]
  /\ killed = {}
  /\ ledger = <<>>

(* invoke() of a registered tool; another name raises ToolNotFoundError    *)
(* and leaves no trace.                                                    *)
Invoke(i, t, seconds) ==
  /\ at[i] = "idle"
  /\ at' = [at EXCEPT ![i] = "preparing"]
  /\ tool' = [tool EXCEPT ![i] = t]
  /\ budget' = [budget EXCEPT ![i] = seconds]
  /\ UNCHANGED <<patience, directory, killed, processVars, ledger>>

(* The invocation ends, however it does: the temporary directory is        *)
(* removed on the way out, and unless the caller was cancelled there is an *)
(* entry of it.  (A definition whose name ends in _Mutant is the next one  *)
(* with a slip in it and no part of the model.)                            *)
Noted_Mutant(how) == how # "timeout"
Noted(how) == how # "cancelled"

End(i, how) ==
  /\ at' = [at EXCEPT ![i] = how]
  /\ directory' = [directory EXCEPT ![i] = FALSE]
  /\ ledger' = IF Noted(how) THEN Append(ledger, [of |-> i, succeeded |-> how = "ok"])
               ELSE ledger
  /\ UNCHANGED <<tool, budget, patience, killed>>

(* No such binary on the PATH. *)
NoBinary(i) == at[i] = "preparing" /\ End(i, "error") /\ UNCHANGED processVars

Spawn(i) ==
  /\ at[i] = "preparing"
  /\ at' = [at EXCEPT ![i] = "waiting"]
  /\ directory' = [directory EXCEPT ![i] = TRUE]
  /\ process' = [process EXCEPT ![i] = "running"]
  /\ patience' = [patience EXCEPT ![i] = timeout_seconds[tool[i]]]
  /\ UNCHANGED <<tool, budget, killed, report, ledger>>

(* The process ends: by itself, or by the kill. *)
Exit(i, r) ==
  /\ process[i] = "running"
  /\ process' = [process EXCEPT ![i] = "gone"]
  /\ report' = [report EXCEPT ![i] = IF directory[i] THEN r ELSE "missing"]
  /\ UNCHANGED <<runnerVars, ledger>>

(* communicate() returns; a report that is no JSON is an error, a missing  *)
(* one is an empty report.                                                 *)
Collect(i) ==
  /\ at[i] = "waiting" /\ process[i] = "gone"
  /\ End(i, IF report[i] = "torn" THEN "error" ELSE "ok")
  /\ UNCHANGED processVars

(* The runner's timer: proc.kill(), and wait() for the process.            *)
Kill_Mutant(i) == killed
Kill(i) == killed \cup {i}

RunnerTimesOut(i) ==
  /\ at[i] = "waiting" /\ patience[i] = 0
  /\ at' = [at EXCEPT ![i] = "reaping"]
  /\ killed' = Kill(i)
  /\ UNCHANGED <<tool, budget, patience, directory, processVars, ledger>>

Reaped(i) ==
  /\ at[i] = "reaping" /\ process[i] = "gone"
  /\ End(i, "error")
  /\ UNCHANGED processVars

(* The router's timer cancels the run; so does the end of its caller's     *)
(* task.  CancelledError is no TimeoutError: nothing kills the process.    *)
OutOfTime_Mutant(i) == at[i] = "waiting" /\ budget[i] = 0
OutOfTime(i) == at[i] \in UnderWay /\ budget[i] = 0

RouterTimesOut(i) == OutOfTime(i) /\ End(i, "timeout") /\ UNCHANGED processVars
CallerGoes(i) == at[i] \in UnderWay /\ End(i, "cancelled") /\ UNCHANGED processVars

Count(timer, i) == IF at[i] \in UnderWay /\ timer[i] > 0 THEN timer[i] - 1 ELSE timer[i]

SecondPasses ==
  /\ budget'   = [i \in Invocations |-> Count(budget, i)]
  /\ patience' = [i \in Invocations |-> Count(patience, i)]
  /\ <<budget, patience>>' # <<budget, patience>>
  /\ UNCHANGED <<at, tool, directory, killed, processVars, ledger>>

ToolNext ==
  \/ \E i \in Invocations :
       \/ \E t \in Tools : \E s \in {max_wallclock_seconds[t]} \cup Overrides : Invoke(i, t, s)
       \/ NoBinary(i) \/ Spawn(i) \/ Collect(i) \/ Reaped(i)
       \/ \E r \in Reports : Exit(i, r)
       \/ RunnerTimesOut(i) \/ RouterTimesOut(i) \/ CallerGoes(i)
  \/ SecondPasses

ToolSpec == ToolInit /\ [][ToolNext]_toolVars

(* Time passes and the event loop serves the router's timer.  Of processes *)
(* nothing is assumed: they may run for ever.                              *)
ToolFairness ==
  WF_toolVars(SecondPasses) /\ \A i \in Invocations : WF_toolVars(RouterTimesOut(i))
ToolFairSpec == ToolSpec /\ ToolFairness

-----------------------------------------------------------------------------
ToolTypeOK ==
  /\ at \in [Invocations -> {"idle", "ok", "error", "timeout", "cancelled"} \cup UnderWay]
  /\ process \in [Invocations -> {"none", "running", "gone"}]
  /\ report \in [Invocations -> Reports]
  /\ Len(ledger) <= Cardinality(Invocations)

(* Every invocation that its caller saw the end of is on the ledger, once, *)
(* and as what it was; a verdict is never that of a process that was       *)
(* killed or that is still running.                                        *)
LedgerTells ==
  /\ \A i \in Invocations :
       LET entries == {n \in DOMAIN ledger : ledger[n].of = i} IN
       /\ Cardinality(entries) = IF at[i] \in {"ok", "error", "timeout"} THEN 1 ELSE 0
       /\ \A n \in entries : ledger[n].succeeded = (at[i] = "ok")
       /\ at[i] = "ok" => process[i] = "gone" /\ i \notin killed

(* A process runs and its directory is there while the runner waits for    *)
(* it.  The one that is left behind, running without its directory, had    *)
(* its run cancelled, by the router's timer or with the caller, before the *)
(* runner's own timer ran out: whenever the runner ends by itself, the     *)
(* process has ended too.                                                  *)
ProcessesEnd ==
  \A i \in Invocations :
    /\ directory[i] <=> at[i] \in {"waiting", "reaping"}
    /\ process[i] = "running" => \/ at[i] = "waiting"
                                 \/ i \in killed
                                 \/ at[i] \in {"timeout", "cancelled"}
    /\ at[i] \in {"reaping", "error"} /\ process[i] = "running" => i \in killed

ToolsKept == LedgerTells /\ ProcessesEnd

(* "the router enforces wallclock": an invocation ends, whatever its       *)
(* process does.                                                           *)
InvokeEnds == \A i \in Invocations : at[i] = "preparing" ~> at[i] \notin UnderWay

(* And so "a misbehaving tool cannot exceed declared CPU/RAM/wallclock"    *)
(* (docs/IMPLEMENTATION_PLAN.md): its process does not run on after that.  *)
NothingLeft == \A i \in Invocations : at[i] = "timeout" /\ i \notin killed => process[i] # "running"
=============================================================================
