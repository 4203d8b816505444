----------------------------- MODULE PromptPins -----------------------------
(***************************************************************************)
(* PromptPinService on the pin of one agent in one workspace.  set_pin()   *)
(* and delete_pin() read the pin and then send an INSERT, an UPDATE of the *)
(* columns that changed, or a DELETE, by primary key, each in a READ       *)
(* COMMITTED transaction; nothing holds the row in between.                *)
(***************************************************************************)
EXTENDS Integers, Sequences, FiniteSets

CONSTANTS
  Pinners,             \* transactions that may be open at the same time
  PinVersions,         \* prompt versions, as positive numbers
  MaxPins,             \* bound: audited operations
  NoPin                \* no row

ASSUME PinAssumption == PinVersions \subseteq Nat \ {0} /\ MaxPins \in Nat

VARIABLES
  pin,                 \* the row: its id and version
  pinLog,              \* history: audited operations, each with the row its
                       \* transaction had read and the length of the log then
  nextPin,             \* ids are fresh
  asked,               \* an open transaction: the version to set, "delete" or "idle"
  readPin, logged      \* the row and the length of the log when it read

pinVars == <<pin, pinLog, nextPin, asked, readPin, logged>>

Pin == [id : 1..MaxPins, version : PinVersions]
Asks == PinVersions \cup {0}     \* 0 asks for a deletion

ASSUME NoPinAssumption == NoPin \notin Pin

PinInit ==
  /\ pin = NoPin /\ pinLog = <<>> /\ nextPin = 1
  /\ asked   = [s \in Pinners |-> -1]
  /\ readPin = [s \in Pinners |-> NoPin]
  /\ logged  = [s \in Pinners |-> 0]

(* get_pin(); there has to be one to delete. *)
GetPin(s, ask) ==
  /\ asked[s] = -1
  /\ ask = 0 => pin # NoPin
  /\ asked'   = [asked   EXCEPT ![s] = ask]
  /\ readPin' = [readPin EXCEPT ![s] = pin]
  /\ logged'  = [logged  EXCEPT ![s] = Len(pinLog)]
  /\ UNCHANGED <<pin, pinLog, nextPin>>

EndPin(s) ==
  /\ asked'   = [asked   EXCEPT ![s] = -1]
  /\ readPin' = [readPin EXCEPT ![s] = NoPin]
  /\ logged'  = [logged  EXCEPT ![s] = 0]

AuditPin(s) == pinLog' = Append(pinLog, [ask |-> asked[s], read |-> readPin[s], after |-> logged[s]])

(* The row is gone, or another has its place in the unique index. (A       *)
(* definition whose name ends in _Mutant is the next one with a slip in it *)
(* and no part of the model.)                                              *)
Same_Mutant(s) == readPin[s] # NoPin
Same(s) == pin # NoPin /\ readPin[s] # NoPin /\ pin.id = readPin[s].id

(* session.add(): a second first pin waits at the index and is refused.    *)
InsertPin(s) ==
  /\ asked[s] > 0 /\ readPin[s] = NoPin
  /\ pin = NoPin
  /\ nextPin <= MaxPins
  /\ pin' = [id |-> nextPin, version |-> asked[s]]
  /\ nextPin' = nextPin + 1
  /\ AuditPin(s) /\ EndPin(s)

(* An UPDATE that meets no row raises StaleDataError; no UPDATE needs to   *)
(* be sent when the version is the one that was read.                      *)
UpdatePin(s) ==
  /\ asked[s] > 0 /\ readPin[s] # NoPin
  /\ LET silent == asked[s] = readPin[s].version IN
       /\ silent \/ Same(s)
       /\ pin' = IF silent THEN pin ELSE [id |-> readPin[s].id, version |-> asked[s]]
  /\ AuditPin(s) /\ EndPin(s)
  /\ UNCHANGED nextPin

(* A DELETE that meets no row is a warning. *)
DeletePin(s) ==
  /\ asked[s] = 0
  /\ pin' = IF Same(s) THEN NoPin ELSE pin
  /\ AuditPin(s) /\ EndPin(s)
  /\ UNCHANGED nextPin

FailPin(s) == asked[s] # -1 /\ EndPin(s) /\ UNCHANGED <<pin, pinLog, nextPin>>

PinNext ==
  \E s \in Pinners :
    \/ \E ask \in Asks : GetPin(s, ask)
    \/ Len(pinLog) < MaxPins /\ (InsertPin(s) \/ UpdatePin(s) \/ DeletePin(s))
    \/ FailPin(s)

PinSpec == PinInit /\ [][PinNext]_pinVars

-----------------------------------------------------------------------------
PinTypeOK ==
  /\ pin \in Pin \cup {NoPin}
  /\ Len(pinLog) <= MaxPins /\ nextPin \in 1..(MaxPins + 1)
  /\ \A s \in Pinners : asked[s] \in Asks \cup {-1} /\ readPin[s] \in Pin \cup {NoPin}

Silent(e) == e.read # NoPin /\ e.ask = e.read.version
Overlaps(j, i) == i < j /\ pinLog[j].after < i

(* The pin is what the audit log says last ("single write path"): a set    *)
(* stands unless another one replaces it, a deletion ends the pin it read, *)
(* and what raced with another operation and was audited has not worked    *)
(* against it: no set revives a pin that was deleted under it, no two      *)
(* first pins are both there.  A set to the version it had read anyway     *)
(* sends nothing, so only without a race does it tell what the pin is.     *)
PinAsAudited ==
  /\ pinLog # <<>> =>
       LET e == pinLog[Len(pinLog)]
           stands == pin # NoPin /\ pin.version = e.ask
       IN  IF e.ask = 0 THEN pin = NoPin \/ pin.id # e.read.id
                        ELSE stands \/ (Silent(e) /\ e.after < Len(pinLog) - 1)
  /\ \A i, j \in DOMAIN pinLog : Overlaps(j, i) =>
       LET e == pinLog[i]
           f == pinLog[j]
       IN  /\ e.ask = 0 /\ f.ask > 0 /\ f.read # NoPin /\ ~Silent(f) => e.read.id # f.read.id
           /\ e.read = NoPin /\ f.read = NoPin =>
                \E k \in (i + 1)..(j - 1) : pinLog[k].ask = 0
=============================================================================
