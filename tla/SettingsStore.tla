--------------------------- MODULE SettingsStore ---------------------------
(***************************************************************************)
(* The two-phase commit of settings.json with its recovery marker          *)
(* (internal/providers/zai/settings.go) on the directory-confined store    *)
(* of internal/securestore.                                                *)
(*                                                                         *)
(* A settings content is an opaque value and stands for its own digest.   *)
(* Every read, write, flush and removal is a step of its own: a process    *)
(* crash or a power loss may fall between any two.  settingsMu serialises  *)
(* the calls, so one call runs at a time.                                  *)
(***************************************************************************)
EXTENDS Naturals

CONSTANTS
  Settings,    \* contents of settings.json
  NoSettings,  \* the content a missing settings.json stands for
  None,
  Faults,      \* the ways a store operation may fail in this instance
  Ordered      \* does a power loss keep a prefix of the directory's renames?

(* refused:  an error before the rename or unlink; nothing happened.       *)
(* unsynced: renamed or unlinked, the directory sync failed.               *)
(* late:     renamed or unlinked and synced, the trailing directory check  *)
(*           failed.                                                       *)
FaultKinds == {"refused", "unsynced", "late"}

Marker == [previous : Settings, desired : Settings \cup {None}]

Replies == {"ok", "pending", "rejected", "loaded", "load_failed"}

ASSUME SettingsAssumption ==
  /\ NoSettings \in Settings
  /\ None \notin Settings \cup Marker \cup Replies
  /\ Faults \subseteq FaultKinds
  /\ Ordered \in BOOLEAN

VARIABLES
  dir,         \* the directory as system calls see it
  durable,     \* the directories a power loss may leave
  pc,          \* where the running call is, "idle" when none runs
  mode,        \* is the running call a load or an update?
  previous,    \* saveSettings: the content PreviousDigest was taken from
  desired,     \* the content the running or last update wants
  reply,       \* how the last call ended
  loaded,      \* what the last successful load returned
  promise,     \* history: the last content acknowledged with nil, and every
               \* content an update has attempted since
  base         \* history: promise when the running update began

vars == <<dir, durable, pc, mode, previous, desired, reply, loaded, promise, base>>
call == <<mode, previous, desired>>
history == <<promise, base>>

Directory == [settings : Settings, marker : Marker \cup {None}]

PC == {"idle", "recover", "recover_clear", "stage", "prepare", "prepare_flush",
       "commit", "commit_flush", "clear"}

Init ==
  /\ dir = [settings |-> NoSettings, marker |-> None]
  /\ durable = {dir}
  /\ pc = "idle"
  /\ mode = "load"
  /\ previous = NoSettings
  /\ desired = NoSettings
  /\ reply = None
  /\ loaded = None
  /\ promise = {NoSettings}
  /\ base = {NoSettings}

-----------------------------------------------------------------------------
(* The store operations. *)

Outcomes == {"ok"} \cup Faults

(* What a power loss may leave once the directory became d unsynced. *)
Exposed(d) ==
  LET all == durable \cup {d} IN
  IF Ordered
  THEN all
  ELSE {[settings |-> a.settings, marker |-> b.marker] : a \in all, b \in all}

(* Mutant of Replace: an unsynced rename never reaches the disk. *)
ReplaceLosesRename(d, outcome) ==
  /\ dir' = IF outcome = "refused" THEN dir ELSE d
  /\ durable' = IF outcome \in {"refused", "unsynced"} THEN durable ELSE {d}

(* WriteJSON and RemoveJSON: the directory becomes d, as the outcome says. *)
Replace(d, outcome) ==
  /\ dir' = IF outcome = "refused" THEN dir ELSE d
  /\ durable' = CASE outcome = "refused"  -> durable
                  [] outcome = "unsynced" -> Exposed(d)
                  [] OTHER                -> {d}

WriteSettings(s, outcome) == Replace([dir EXCEPT !.settings = s], outcome)
WriteMarker(m, outcome) == Replace([dir EXCEPT !.marker = m], outcome)
RemoveMarker(outcome) == WriteMarker(None, outcome)

(* OutcomeOf: what the error says of the write.  Only a failed directory   *)
(* sync is a WriteError; the trailing check reports a plain error.         *)
OutcomeOf(outcome) ==
  CASE outcome = "ok"       -> "committed"
    [] outcome = "unsynced" -> "needs_recovery"
    [] OTHER                -> "not_committed"

(* Flush: sync the directory again. *)
FlushOk == durable' = {dir} /\ UNCHANGED dir
FlushFails == "unsynced" \in Faults /\ UNCHANGED <<dir, durable>>

-----------------------------------------------------------------------------
(* How a call ends or goes on. *)

Goto(l) == pc' = l /\ UNCHANGED <<mode, desired, reply, loaded, history>>

Fail ==
  /\ pc' = "idle"
  /\ reply' = IF mode = "update" THEN "rejected" ELSE "load_failed"
  /\ UNCHANGED <<mode, desired, loaded, history>>

Succeed(code) ==
  /\ pc' = "idle"
  /\ reply' = code
  /\ promise' = IF code = "ok" THEN {desired} ELSE promise
  /\ UNCHANGED <<mode, desired, loaded, base>>

(* recoverSettings returned s: a load is over, an update goes on to save. *)
Recovered(s) ==
  IF mode = "update"
  THEN Goto("stage")
  ELSE /\ pc' = "idle"
       /\ reply' = "loaded"
       /\ loaded' = s
       /\ UNCHANGED <<mode, desired, history>>

-----------------------------------------------------------------------------
(* A load (reconfigure) or an update (updateAccountConfig) begins; both    *)
(* recover first.                                                          *)
BeginLoad ==
  /\ pc = "idle"
  /\ pc' = "recover"
  /\ mode' = "load"
  /\ reply' = None
  /\ UNCHANGED <<dir, durable, previous, desired, loaded, history>>

BeginUpdate(v) ==
  /\ pc = "idle"
  /\ pc' = "recover"
  /\ mode' = "update"
  /\ desired' = v
  /\ reply' = None
  /\ base' = promise
  /\ promise' = promise \cup {v}
  /\ UNCHANGED <<dir, durable, previous, loaded>>

(* recoverSettings: an unreadable settings.json or marker. *)
RecoverUnreadable ==
  /\ pc = "recover"
  /\ "refused" \in Faults
  /\ Fail
  /\ UNCHANGED <<dir, durable, previous>>

(* recoverSettings: no marker. *)
RecoverClean ==
  /\ pc = "recover"
  /\ dir.marker = None
  /\ Recovered(dir.settings)
  /\ UNCHANGED <<dir, durable, previous>>

(* The marker names the content settings.json had or the one it gets. *)
Consistent(d) ==
  d.marker # None => d.settings \in {d.marker.previous, d.marker.desired}

(* recoverSettings: "settings recovery marker does not match settings.json". *)
RecoverMismatch ==
  /\ pc = "recover"
  /\ ~Consistent(dir)
  /\ Fail
  /\ UNCHANGED <<dir, durable, previous>>

(* Mutant of RollForward: rolls back instead. *)
RollForwardDrops(outcome) ==
  /\ pc = "recover"
  /\ dir.marker # None
  /\ dir.marker.desired # None
  /\ dir.settings = dir.marker.previous
  /\ RemoveMarker(outcome)
  /\ Recovered(dir.settings)
  /\ UNCHANGED previous

(* recoverSettings: settings.json has the previous content, install the    *)
(* desired one.  A write whose sync failed counts as done.                 *)
RollForward(outcome) ==
  /\ pc = "recover"
  /\ dir.marker # None
  /\ dir.marker.desired # None
  /\ dir.settings = dir.marker.previous
  /\ WriteSettings(dir.marker.desired, outcome)
  /\ IF OutcomeOf(outcome) = "not_committed" THEN Fail ELSE Goto("recover_clear")
  /\ UNCHANGED previous

(* recoverSettings: settings.json is as it should be, drop the marker and  *)
(* ignore how that went.                                                   *)
DropMarker(outcome) ==
  /\ \/ pc = "recover_clear"
     \/ /\ pc = "recover"
        /\ dir.marker # None
        /\ Consistent(dir)
        /\ dir.marker.desired = None \/ dir.settings # dir.marker.previous
  /\ RemoveMarker(outcome)
  /\ Recovered(dir.settings)
  /\ UNCHANGED previous

-----------------------------------------------------------------------------
(* saveSettings, write by write. *)

(* Mutant of Stage: goes on to replace settings.json. *)
StageSkipsPrepare(outcome) ==
  /\ pc = "stage"
  /\ WriteMarker([previous |-> dir.settings, desired |-> None], outcome)
  /\ previous' = dir.settings
  /\ IF outcome = "ok" THEN Goto("commit") ELSE Fail

(* Stage: a marker with the digest of the content being replaced. *)
Stage(outcome) ==
  /\ pc = "stage"
  /\ WriteMarker([previous |-> dir.settings, desired |-> None], outcome)
  /\ previous' = dir.settings
  /\ IF outcome = "ok" THEN Goto("prepare") ELSE Fail

(* Prepare: the marker gets the desired content. *)
Prepare(outcome) ==
  /\ pc = "prepare"
  /\ WriteMarker([previous |-> previous, desired |-> desired], outcome)
  /\ CASE OutcomeOf(outcome) = "committed"      -> Goto("commit")
       [] OutcomeOf(outcome) = "needs_recovery" -> Goto("prepare_flush")
       [] OTHER                                 -> Fail
  /\ UNCHANGED previous

(* Mutant of PrepareFlush: an unsynced marker is a rejection. *)
PrepareFlushRejects ==
  /\ pc = "prepare_flush"
  /\ FlushFails
  /\ Fail
  /\ UNCHANGED previous

(* Mutant of PrepareFlush: an unsynced marker is a success. *)
PrepareFlushAcknowledges ==
  /\ pc = "prepare_flush"
  /\ FlushFails
  /\ Succeed("ok")
  /\ UNCHANGED previous

(* The marker is renamed but not synced: sync again.  If that fails too    *)
(* the update is pending, unless settings.json already reads as desired.   *)
PrepareFlush ==
  /\ pc = "prepare_flush"
  /\ \/ FlushOk /\ Goto("commit")
     \/ /\ FlushFails
        /\ \/ dir.settings = desired /\ Succeed("ok")
           \/ /\ dir.settings # desired \/ "refused" \in Faults
              /\ Succeed("pending")
  /\ UNCHANGED previous

(* Commit: settings.json itself. *)
Commit(outcome) ==
  /\ pc = "commit"
  /\ WriteSettings(desired, outcome)
  /\ CASE OutcomeOf(outcome) = "committed"      -> Goto("clear")
       [] OutcomeOf(outcome) = "needs_recovery" -> Goto("commit_flush")
       [] OTHER                                 -> Succeed("pending")
  /\ UNCHANGED previous

(* settings.json is replaced but not synced: sync again, leave the marker. *)
CommitFlush ==
  /\ pc = "commit_flush"
  /\ \/ FlushOk /\ Succeed("ok")
     \/ FlushFails /\ Succeed("pending")
  /\ UNCHANGED previous

(* Clear: the marker goes; only a failed sync is forgiven. *)
Clear(outcome) ==
  /\ pc = "clear"
  /\ RemoveMarker(outcome)
  /\ IF OutcomeOf(outcome) = "not_committed" THEN Fail ELSE Succeed("ok")
  /\ UNCHANGED previous

saveSettings(outcome) ==
  \/ Stage(outcome)
  \/ Prepare(outcome)
  \/ Commit(outcome)
  \/ Clear(outcome)

recoverSettings(outcome) ==
  \/ RollForward(outcome)
  \/ DropMarker(outcome)

-----------------------------------------------------------------------------
(* The process dies: its unsynced renames stay visible. *)
Crash ==
  /\ pc' = "idle"
  /\ reply' = None
  /\ UNCHANGED <<dir, durable, call, loaded, history>>

(* The machine dies: any of the possible directories is found. *)
PowerLoss ==
  /\ dir' \in durable
  /\ durable' = {dir'}
  /\ pc' = "idle"
  /\ reply' = None
  /\ UNCHANGED <<call, loaded, history>>

Next ==
  \/ BeginLoad
  \/ \E v \in Settings : BeginUpdate(v)
  \/ RecoverUnreadable
  \/ RecoverClean
  \/ RecoverMismatch
  \/ \E outcome \in Outcomes : recoverSettings(outcome) \/ saveSettings(outcome)
  \/ PrepareFlush
  \/ CommitFlush
  \/ Crash
  \/ PowerLoss

Spec == Init /\ [][Next]_vars

-----------------------------------------------------------------------------
(* Type invariant.  What system calls see is always one of the directories *)
(* a power loss may leave: a rename is never less durable than its sync.   *)
TypeOK ==
  /\ dir \in durable
  /\ durable \subseteq Directory
  /\ pc \in PC
  /\ mode \in {"load", "update"}
  /\ previous \in Settings
  /\ desired \in Settings
  /\ reply \in Replies \cup {None}
  /\ loaded \in Settings \cup {None}
  /\ promise \subseteq Settings
  /\ base \subseteq Settings

(* What recoverSettings returns for a directory it accepts. *)
Logical(d) ==
  IF d.marker = None \/ d.marker.desired = None THEN d.settings ELSE d.marker.desired

(* Wherever saveSettings or recoverSettings is interrupted, whatever its   *)
(* writes returned, the next recoverSettings never finds a marker that     *)
(* does not match settings.json and so never refuses the store for good.   *)
RecoveryNeverStuck == \A d \in durable : Consistent(d)

(* The settings a recovery returns after any crash or power loss are the   *)
(* last ones saveSettings acknowledged with nil or ones an update has      *)
(* attempted since: no older content comes back and none is made up.       *)
AckedSurvives == \A d \in durable : Consistent(d) => Logical(d) \in promise

(* An update that saveSettings rejected is not applied later: recovery     *)
(* returns nothing it could not have returned before the update began.     *)
RejectedStaysRejected ==
  reply = "rejected" => \A d \in durable : Consistent(d) => Logical(d) \in base

(* The store implements one register: recovery and interrupted writes do   *)
(* not show, loads return the register, an update acknowledged with nil is *)
(* in effect and durable, a pending one is in effect.                      *)
Register == INSTANCE SettingsRegister WITH
  value   <- Logical(dir),
  limbo   <- {Logical(d) : d \in durable},
  attempt <- IF mode = "update" /\ pc # "idle" THEN desired ELSE None

ImplementsRegister == Register!Spec
=============================================================================
