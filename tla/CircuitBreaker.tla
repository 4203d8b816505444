--------------------------- MODULE CircuitBreaker ---------------------------
(***************************************************************************)
(* One CircuitBreaker shared by concurrent callers of acall() on an event  *)
(* loop.  before_call, after_success and after_failure each run without a  *)
(* suspension point and are one action; the wrapped call between them is   *)
(* awaited, so other callers, and time, come in between.                   *)
(*                                                                         *)
(* before_call that raises BreakerOpen changes nothing (_check_or_advance  *)
(* moves the breaker only in calls it lets through), so a refused call is  *)
(* a stuttering step and the model shows only when it is refused.          *)
(***************************************************************************)
EXTENDS Integers, FiniteSets

CONSTANTS
  Callers,             \* tasks that use the breaker
  failure_threshold,
  recovery_timeout,    \* in ticks of the clock
  CallersCancel,       \* whether a call's task may be cancelled
  None                 \* opened_at before the breaker has opened

ASSUME BreakerAssumption ==
  /\ failure_threshold \in Nat \ {0}
  /\ recovery_timeout \in Nat
  /\ CallersCancel \in BOOLEAN
  /\ None \notin Nat

VARIABLES
  state, consecutive_failures, half_open_in_flight,
  opened_at,           \* how long ago, up to recovery_timeout: all the code asks of it
  inCall,              \* callers whose wrapped call is awaited
  trial,               \* history: those admitted in the present half-open phase
  lostTrial,           \* history: whether one of these has been cancelled
  quiet                \* history: time since a failure last opened the breaker

fieldVars   == <<state, consecutive_failures, half_open_in_flight, opened_at>>
breakerVars == <<fieldVars, inCall, trial, lostTrial, quiet>>

BreakerInit ==
  /\ state = "closed"
  /\ consecutive_failures = 0
  /\ half_open_in_flight = FALSE
  /\ opened_at = None
  /\ inCall = {}
  /\ trial = {}
  /\ lostTrial = FALSE
  /\ quiet = recovery_timeout

(* _check_or_advance turns an open breaker half-open in this call. *)
Advances == state = "open" /\ opened_at >= recovery_timeout

(* before_call does not raise. *)
Admits_Mutant == state = "closed" \/ Advances \/ state = "half_open"
Admits ==
  \/ state = "closed"
  \/ Advances
  \/ state = "half_open" /\ ~half_open_in_flight

BeforeCall(c) ==
  /\ c \notin inCall
  /\ Admits
  /\ inCall' = inCall \cup {c}
  /\ IF state = "closed"
       THEN UNCHANGED <<state, half_open_in_flight, trial>>
       ELSE /\ state' = "half_open"
            /\ half_open_in_flight' = TRUE
            /\ trial' = trial \cup {c}
  /\ UNCHANGED <<consecutive_failures, opened_at, lostTrial, quiet>>

(* The states in which a success closes the breaker. *)
Closable_Mutant == state # "closed"
Closable_SlotMutant == state = "half_open" /\ ~half_open_in_flight
Closable == state = "half_open"

AfterSuccess(c) ==
  /\ c \in inCall
  /\ inCall' = inCall \ {c}
  /\ consecutive_failures' = 0
  /\ IF Closable
       THEN /\ state' = "closed"
            /\ opened_at' = None
            /\ half_open_in_flight' = FALSE
            /\ trial' = {} /\ lostTrial' = FALSE
       ELSE /\ trial' = trial \ {c}
            /\ UNCHANGED <<state, opened_at, half_open_in_flight, lostTrial>>
  /\ UNCHANGED quiet

(* A failure opens the breaker: any one in half-open, which is not counted,*)
(* and otherwise the one that reaches the threshold - also when it comes   *)
(* from a call that was let in before the breaker opened, which pushes     *)
(* opened_at on.                                                           *)
Counted_Mutant == consecutive_failures - 1
Counted == consecutive_failures + 1

Opens == state = "half_open" \/ Counted >= failure_threshold

Released == half_open_in_flight /\ state # "half_open"

AfterFailure(c) ==
  /\ c \in inCall
  /\ inCall' = inCall \ {c}
  /\ consecutive_failures' =
       IF state = "half_open" THEN consecutive_failures ELSE Counted
  /\ half_open_in_flight' = Released
  /\ IF Opens
       THEN /\ state' = "open" /\ opened_at' = 0
            /\ trial' = {} /\ lostTrial' = FALSE /\ quiet' = 0
       ELSE /\ trial' = trial \ {c}
            /\ UNCHANGED <<state, opened_at, lostTrial, quiet>>

(* CancelledError is no Exception: neither after_success nor after_failure *)
(* hears of it, and the breaker is as the call left it.                    *)
CancelCaller(c) ==
  /\ CallersCancel
  /\ c \in inCall
  /\ inCall' = inCall \ {c}
  /\ trial' = trial \ {c}
  /\ lostTrial' = (lostTrial \/ c \in trial)
  /\ UNCHANGED <<fieldVars, quiet>>

Older(t) == IF t \in Nat /\ t < recovery_timeout THEN t + 1 ELSE t

Tick ==
  /\ Older(opened_at) # opened_at \/ Older(quiet) # quiet
  /\ opened_at' = Older(opened_at)
  /\ quiet' = Older(quiet)
  /\ UNCHANGED <<state, consecutive_failures, half_open_in_flight, inCall, trial, lostTrial>>

Return(c) == AfterSuccess(c) \/ AfterFailure(c)

BreakerNext ==
  \/ \E c \in Callers : BeforeCall(c) \/ Return(c) \/ CancelCaller(c)
  \/ Tick

BreakerSpec == BreakerInit /\ [][BreakerNext]_breakerVars

(* Wrapped calls come to an end (provider calls carry a timeout), and time *)
(* passes.  No caller has to call.                                         *)
BreakerFairSpec == BreakerSpec /\ WF_breakerVars(Tick) /\ \A c \in Callers : WF_breakerVars(Return(c))

-----------------------------------------------------------------------------
BreakerTypeOK ==
  /\ state \in {"closed", "open", "half_open"}
  /\ consecutive_failures \in Nat
  /\ half_open_in_flight \in BOOLEAN
  /\ opened_at \in Nat \cup {None}
  /\ inCall \subseteq Callers
  /\ trial \subseteq inCall
  /\ lostTrial \in BOOLEAN
  /\ quiet \in Nat

(* The breaker's fields agree, whatever the order results come in: the     *)
(* assertions that opened_at is set hold, a closed breaker has no stale    *)
(* opened_at and fewer failures than the threshold, and the trial slot is  *)
(* taken in half-open only.                                                *)
FieldsAgree ==
  /\ state = "closed" <=> opened_at = None
  /\ state = "closed" => consecutive_failures < failure_threshold
  /\ half_open_in_flight => state = "half_open"

(* In a half-open phase at most one call is let through ("a single trial   *)
(* call gates closure").                                                   *)
SingleTrial == Cardinality(trial) <= 1

BreakerKept == FieldsAgree /\ SingleTrial

(* "short-circuits subsequent calls for recovery_timeout seconds": no call *)
(* starts until recovery_timeout has passed since the last failure that    *)
(* opened the breaker - not even when calls that were under way when it    *)
(* opened return, successfully or not, in between.                         *)
Quarantine == [][inCall' \subseteq inCall \/ quiet >= recovery_timeout]_breakerVars

(* The breaker lets calls through again and again, unless a trial call has *)
(* been cancelled: that, and nothing else, can make it refuse calls for    *)
(* ever, because the trial slot is then never given back.                  *)
AdmitsAgain == []<>(Admits \/ lostTrial)

(* "one trial call decides whether to close (success) or re-open           *)
(* (failure)": half-open ends when the trial call of that phase returns.   *)
(* A call let in before the breaker opened decides as well.                *)
TrialDecides ==
  [][state = "half_open" /\ state' # "half_open" => \E c \in trial : c \notin inCall']_breakerVars
=============================================================================
