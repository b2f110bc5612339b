-------------------------- MODULE SettingsRegister --------------------------
(***************************************************************************)
(* What the settings store promises its callers: one register.            *)
(*                                                                         *)
(* value is what a reader of the store obtains now, limbo the set of      *)
(* values a power loss may leave.  An update takes effect in one step, a  *)
(* reader obtains the register, and the replies of an update mean:        *)
(*   ok       the new value is in effect and no power loss can undo it;   *)
(*   pending  the new value is in effect, a power loss may still undo it; *)
(*   rejected nothing: the code rejects some updates it has applied (see  *)
(*            RejectedStaysRejected in SettingsStore).                    *)
(* Interrupted writes, the recovery marker and the roll forward do not    *)
(* show.                                                                   *)
(***************************************************************************)
CONSTANTS
  Settings,    \* contents of settings.json
  NoSettings,  \* the content a missing settings.json stands for
  None

VARIABLES
  value,       \* what recovery returns if it runs now
  limbo,       \* what recovery may return after a power loss
  attempt,     \* the value of the update in progress, or None
  reply,       \* how the last call ended, None while one runs
  loaded       \* what the last successful load returned

vars == <<value, limbo, attempt, reply, loaded>>

Init ==
  /\ value = NoSettings
  /\ limbo = {NoSettings}
  /\ attempt = None
  /\ reply = None
  /\ loaded = None

(* A load or an update starts. *)
Begin ==
  /\ attempt = None
  /\ attempt' \in Settings \cup {None}
  /\ reply' = None
  /\ UNCHANGED <<value, limbo, loaded>>

(* A sync leaves the current value as the only possible one. *)
Settle == value' = value /\ limbo' = {value}

(* The update takes effect, durably or not yet. *)
Effect == value' = attempt /\ limbo' \in {limbo \cup {attempt}, {attempt}}

Apply ==
  \/ UNCHANGED <<value, limbo>>
  \/ Settle
  \/ attempt # None /\ Effect

(* A step of the call in progress. *)
Work ==
  /\ Apply
  /\ UNCHANGED <<attempt, reply, loaded>>

(* The update ends with the given reply. *)
End(code) ==
  /\ attempt # None
  /\ Apply
  /\ code \in {"ok", "pending"} => value' = attempt
  /\ code = "ok" => limbo' = {attempt}
  /\ reply' = code
  /\ attempt' = None
  /\ UNCHANGED loaded

(* A load ends: it returns the register, or an error. *)
Load ==
  /\ attempt = None
  /\ UNCHANGED <<value, limbo>> \/ Settle
  /\ \/ reply' = "loaded" /\ loaded' = value
     \/ reply' = "load_failed" /\ UNCHANGED loaded
  /\ UNCHANGED attempt

(* The process dies; what it wrote is still visible to the next one. *)
Crash ==
  /\ attempt' = None
  /\ reply' = None
  /\ UNCHANGED <<value, limbo, loaded>>

PowerLoss ==
  /\ value' \in limbo
  /\ limbo' = {value'}
  /\ attempt' = None
  /\ reply' = None
  /\ UNCHANGED loaded

Next ==
  \/ Begin
  \/ Work
  \/ \E code \in {"ok", "pending", "rejected"} : End(code)
  \/ Load
  \/ Crash
  \/ PowerLoss

Spec == Init /\ [][Next]_vars
=============================================================================
