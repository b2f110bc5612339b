------------------------ MODULE SettingsStoreProofs ------------------------
(* Proofs about SettingsStore for every set of settings contents, every    *)
(* set of faults and, where stated, either crash model.                    *)
EXTENDS SettingsStore, TLAPS

(* What is known of the directory at each point of a call.  A content is   *)
(* written to settings.json only while its marker is the only durable one. *)
AtPC ==
  /\ pc = "recover_clear" =>
       /\ dir.marker # None
       /\ dir.settings = dir.marker.desired
  /\ pc = "stage" => Logical(dir) = dir.settings
  /\ pc \in {"stage", "prepare", "prepare_flush", "commit", "commit_flush", "clear"} =>
       mode = "update"
  /\ pc = "prepare" =>
       /\ durable = {dir}
       /\ dir = [settings |-> previous, marker |-> [previous |-> previous, desired |-> None]]
  /\ pc = "prepare_flush" =>
       /\ dir = [settings |-> previous, marker |-> [previous |-> previous, desired |-> desired]]
       /\ \A d \in durable :
            /\ d.settings = previous
            /\ d.marker.previous = previous
            /\ d.marker.desired \in {None, desired}
            /\ d.marker # None
  /\ pc = "commit" =>
       /\ durable = {dir}
       /\ dir = [settings |-> previous, marker |-> [previous |-> previous, desired |-> desired]]
  /\ pc = "commit_flush" =>
       /\ dir = [settings |-> desired, marker |-> [previous |-> previous, desired |-> desired]]
       /\ \A d \in durable :
            /\ d.settings \in {previous, desired}
            /\ d.marker = [previous |-> previous, desired |-> desired]
  /\ pc = "clear" =>
       /\ durable = {dir}
       /\ dir = [settings |-> desired, marker |-> [previous |-> previous, desired |-> desired]]

(* Every content named anywhere in a possible directory was promised. *)
Promised ==
  /\ \A d \in durable :
       /\ d.settings \in promise
       /\ d.marker # None => d.marker.desired \in promise \cup {None}
  /\ mode = "update" /\ pc # "idle" => desired \in promise

IInv == TypeOK /\ AtPC /\ Promised

-----------------------------------------------------------------------------
(* The store operations keep the directory well formed: whatever WriteJSON *)
(* or RemoveJSON returns, the directory seen stays among the possible ones. *)
LEMMA ExposedType ==
  ASSUME durable \subseteq Directory, NEW d \in Directory
  PROVE  Exposed(d) \subseteq Directory /\ d \in Exposed(d)
BY DEF Exposed, Directory

(* A rename, whatever its outcome, leaves possible directories only.       *)
LEMMA ReplaceType ==
  ASSUME TypeOK, NEW d \in Directory, NEW outcome \in Outcomes, Replace(d, outcome)
  PROVE  dir' \in durable' /\ durable' \subseteq Directory
<1>1. CASE outcome = "refused"
  BY <1>1 DEF Replace, TypeOK
<1>2. CASE outcome = "unsynced"
  BY <1>2, ExposedType DEF Replace, TypeOK
<1>3. CASE outcome \notin {"refused", "unsynced"}
  BY <1>3 DEF Replace, TypeOK
<1> QED BY <1>1, <1>2, <1>3

(* So do the writes of settings.json and of its marker.                    *)
LEMMA WriteType ==
  ASSUME TypeOK, NEW outcome \in Outcomes
  PROVE  /\ \A s \in Settings : WriteSettings(s, outcome) =>
                dir' \in durable' /\ durable' \subseteq Directory
         /\ \A m \in Marker \cup {None} : WriteMarker(m, outcome) =>
                dir' \in durable' /\ durable' \subseteq Directory
<1> dir \in Directory
  BY DEF TypeOK
<1>1. \A s \in Settings : [dir EXCEPT !.settings = s] \in Directory
  BY DEF Directory
<1>2. \A m \in Marker \cup {None} : [dir EXCEPT !.marker = m] \in Directory
  BY DEF Directory
<1> QED BY <1>1, <1>2, ReplaceType DEF WriteSettings, WriteMarker

(* The bookkeeping of a call stays within its types. *)
LEMMA CallType ==
  ASSUME TypeOK
  PROVE  /\ \A l \in PC : Goto(l) =>
              /\ pc' \in PC /\ mode' = mode /\ desired' = desired
              /\ reply' \in Replies \cup {None} /\ loaded' \in Settings \cup {None}
              /\ promise' = promise /\ base' = base
         /\ Fail =>
              /\ pc' \in PC /\ mode' = mode /\ desired' = desired
              /\ reply' \in Replies \cup {None} /\ loaded' \in Settings \cup {None}
              /\ promise' = promise /\ base' = base
         /\ \A c \in {"ok", "pending"} : Succeed(c) =>
              /\ pc' \in PC /\ mode' = mode /\ desired' = desired
              /\ reply' \in Replies \cup {None} /\ loaded' \in Settings \cup {None}
              /\ promise' \subseteq Settings /\ base' = base
         /\ \A s \in Settings : Recovered(s) =>
              /\ pc' \in PC /\ mode' = mode /\ desired' = desired
              /\ reply' \in Replies \cup {None} /\ loaded' \in Settings \cup {None}
              /\ promise' = promise /\ base' = base
BY DEF TypeOK, Goto, Fail, Succeed, Recovered, PC, Replies, history

(* Every step of saveSettings, recoverSettings and their environment keeps *)
(* the types.                                                              *)
LEMMA TypeStep == TypeOK /\ [Next]_vars => TypeOK'
<1> SUFFICES ASSUME TypeOK, [Next]_vars PROVE TypeOK'
  OBVIOUS
<1> USE SettingsAssumption
<1> dir \in Directory
  BY DEF TypeOK
<1>0. dir.settings \in Settings /\ (dir.marker # None => dir.marker \in Marker)
  BY DEF Directory
<1>1. CASE BeginLoad
  BY <1>1 DEF BeginLoad, TypeOK, PC, history
<1>2. ASSUME NEW v \in Settings, BeginUpdate(v) PROVE TypeOK'
  BY <1>2 DEF BeginUpdate, TypeOK, PC
<1>3. CASE RecoverUnreadable
  BY <1>3, CallType DEF RecoverUnreadable, TypeOK
<1>4. CASE RecoverClean
  BY <1>4, <1>0, CallType DEF RecoverClean, TypeOK
<1>5. CASE RecoverMismatch
  BY <1>5, CallType DEF RecoverMismatch, TypeOK
<1>6. ASSUME NEW outcome \in Outcomes, RollForward(outcome) PROVE TypeOK'
  <2>1. dir.marker.desired \in Settings
    BY <1>6, <1>0 DEF RollForward, Marker
  <2>2. dir' \in durable' /\ durable' \subseteq Directory
    BY <1>6, <2>1, WriteType DEF RollForward
  <2>3. "recover_clear" \in PC
    BY DEF PC
  <2> QED BY <1>6, <2>2, <2>3, CallType DEF RollForward, TypeOK
<1>7. ASSUME NEW outcome \in Outcomes, DropMarker(outcome) PROVE TypeOK'
  <2>1. dir' \in durable' /\ durable' \subseteq Directory
    BY <1>7, WriteType DEF DropMarker, RemoveMarker
  <2> QED BY <1>7, <1>0, <2>1, CallType DEF DropMarker, TypeOK
<1>8. ASSUME NEW outcome \in Outcomes, Stage(outcome) PROVE TypeOK'
  <2>1. [previous |-> dir.settings, desired |-> None] \in Marker
    BY <1>0 DEF Marker
  <2>2. dir' \in durable' /\ durable' \subseteq Directory
    BY <1>8, <2>1, WriteType DEF Stage
  <2>3. "prepare" \in PC
    BY DEF PC
  <2> QED BY <1>8, <1>0, <2>2, <2>3, CallType DEF Stage, TypeOK
<1>9. ASSUME NEW outcome \in Outcomes, Prepare(outcome) PROVE TypeOK'
  <2>1. [previous |-> previous, desired |-> desired] \in Marker
    BY DEF Marker, TypeOK
  <2>2. dir' \in durable' /\ durable' \subseteq Directory
    BY <1>9, <2>1, WriteType DEF Prepare
  <2>3. "commit" \in PC /\ "prepare_flush" \in PC
    BY DEF PC
  <2>4. Goto("commit") \/ Goto("prepare_flush") \/ Fail
    BY <1>9 DEF Prepare
  <2> QED BY <1>9, <2>2, <2>3, <2>4, CallType DEF Prepare, TypeOK
<1>10. CASE PrepareFlush
  <2>1. dir' \in durable' /\ durable' \subseteq Directory
    BY <1>10 DEF PrepareFlush, FlushOk, FlushFails, TypeOK
  <2>2. "commit" \in PC
    BY DEF PC
  <2>3. Goto("commit") \/ Succeed("ok") \/ Succeed("pending")
    BY <1>10 DEF PrepareFlush
  <2> QED BY <1>10, <2>1, <2>2, <2>3, CallType DEF PrepareFlush, TypeOK
<1>11. ASSUME NEW outcome \in Outcomes, Commit(outcome) PROVE TypeOK'
  <2>1. dir' \in durable' /\ durable' \subseteq Directory
    BY <1>11, WriteType DEF Commit, TypeOK
  <2>2. "clear" \in PC /\ "commit_flush" \in PC
    BY DEF PC
  <2>3. Goto("clear") \/ Goto("commit_flush") \/ Succeed("pending")
    BY <1>11 DEF Commit
  <2> QED BY <1>11, <2>1, <2>2, <2>3, CallType DEF Commit, TypeOK
<1>12. CASE CommitFlush
  <2>1. dir' \in durable' /\ durable' \subseteq Directory
    BY <1>12 DEF CommitFlush, FlushOk, FlushFails, TypeOK
  <2>2. Succeed("ok") \/ Succeed("pending")
    BY <1>12 DEF CommitFlush
  <2> QED BY <1>12, <2>1, <2>2, CallType DEF CommitFlush, TypeOK
<1>13. ASSUME NEW outcome \in Outcomes, Clear(outcome) PROVE TypeOK'
  <2>1. dir' \in durable' /\ durable' \subseteq Directory
    BY <1>13, WriteType DEF Clear, RemoveMarker
  <2>2. Fail \/ Succeed("ok")
    BY <1>13 DEF Clear
  <2> QED BY <1>13, <2>1, <2>2, CallType DEF Clear, TypeOK
<1>14. CASE Crash
  BY <1>14 DEF Crash, TypeOK, PC, call, history
<1>15. CASE PowerLoss
  BY <1>15 DEF PowerLoss, TypeOK, PC, call, history
<1>16. CASE UNCHANGED vars
  BY <1>16 DEF vars, TypeOK
<1> QED
  BY <1>1, <1>2, <1>3, <1>4, <1>5, <1>6, <1>7, <1>8, <1>9, <1>10, <1>11, <1>12,
     <1>13, <1>14, <1>15, <1>16 DEF Next, recoverSettings, saveSettings

(* The settings store stays well typed for every set of contents, faults   *)
(* and either crash model.                                                 *)
THEOREM TypeCorrect == Spec => []TypeOK
<1>1. Init => TypeOK
  BY SettingsAssumption DEF Init, TypeOK, Directory, PC
<1> QED BY <1>1, TypeStep, PTL DEF Spec

-----------------------------------------------------------------------------
(* After any write or removal each file a power loss may leave is one it   *)
(* could have left before, or the new one; both together if the renames    *)
(* reach the disk in order.                                                *)
LEMMA ReplaceMember ==
  ASSUME TypeOK, NEW d \in Directory, NEW outcome \in Outcomes, Replace(d, outcome),
         NEW e \in durable'
  PROVE  /\ \E a \in durable \cup {d} : e.settings = a.settings
         /\ \E b \in durable \cup {d} : e.marker = b.marker
         /\ Ordered => e \in durable \cup {d}
         /\ outcome \notin {"refused", "unsynced"} => dir' = d /\ durable' = {d}
         /\ outcome # "refused" => dir' = d
         /\ outcome = "refused" => dir' = dir /\ durable' = durable
<1>1. CASE outcome = "refused"
  BY <1>1 DEF Replace, TypeOK
<1>2. CASE outcome = "unsynced"
  BY <1>2 DEF Replace, Exposed, TypeOK
<1>3. CASE outcome \notin {"refused", "unsynced"}
  BY <1>3 DEF Replace, TypeOK
<1> QED BY <1>1, <1>2, <1>3

(* What a write whose new files were promised leaves promised. *)
LEMMA ReplacePromised ==
  ASSUME TypeOK, Promised, NEW d \in Directory, NEW outcome \in Outcomes, Replace(d, outcome),
         d.settings \in promise,
         d.marker # None => d.marker.desired \in promise \cup {None}
  PROVE  \A e \in durable' :
           /\ e.settings \in promise
           /\ e.marker # None => e.marker.desired \in promise \cup {None}
<1> SUFFICES ASSUME NEW e \in durable'
             PROVE  /\ e.settings \in promise
                    /\ e.marker # None => e.marker.desired \in promise \cup {None}
  OBVIOUS
<1>1. PICK a \in durable \cup {d} : e.settings = a.settings
  BY ReplaceMember
<1>2. PICK b \in durable \cup {d} : e.marker = b.marker
  BY ReplaceMember
<1> QED BY <1>1, <1>2 DEF Promised

(* The files each write puts in place. *)
LEMMA NewDirectory ==
  ASSUME TypeOK
  PROVE  /\ \A s \in Settings :
              /\ [dir EXCEPT !.settings = s] \in Directory
              /\ [dir EXCEPT !.settings = s].settings = s
              /\ [dir EXCEPT !.settings = s].marker = dir.marker
         /\ \A m \in Marker \cup {None} :
              /\ [dir EXCEPT !.marker = m] \in Directory
              /\ [dir EXCEPT !.marker = m].settings = dir.settings
              /\ [dir EXCEPT !.marker = m].marker = m
BY DEF TypeOK, Directory

(* Every step keeps what is known at each point of a call and keeps every  *)
(* content named in a possible directory promised.                         *)
LEMMA InvStep == IInv /\ [Next]_vars => AtPC' /\ Promised'
<1> SUFFICES ASSUME IInv, [Next]_vars PROVE AtPC' /\ Promised'
  OBVIOUS
<1> USE SettingsAssumption
<1> TypeOK /\ AtPC /\ Promised
  BY DEF IInv
<1>0. /\ dir \in Directory /\ dir \in durable
      /\ dir.settings \in Settings /\ (dir.marker # None => dir.marker \in Marker)
      /\ dir.settings \in promise
      /\ dir.marker # None => dir.marker.desired \in promise \cup {None}
  BY DEF TypeOK, Directory, Promised
<1>1. CASE BeginLoad
  BY <1>1 DEF BeginLoad, AtPC, Promised, history
<1>2. ASSUME NEW v \in Settings, BeginUpdate(v) PROVE AtPC' /\ Promised'
  BY <1>2 DEF BeginUpdate, AtPC, Promised
<1>3. CASE RecoverUnreadable
  BY <1>3 DEF RecoverUnreadable, Fail, AtPC, Promised, history
<1>4. CASE RecoverClean
  BY <1>4 DEF RecoverClean, Recovered, Goto, AtPC, Promised, Logical, history
<1>5. CASE RecoverMismatch
  BY <1>5 DEF RecoverMismatch, Fail, AtPC, Promised, history
<1>6. ASSUME NEW outcome \in Outcomes, RollForward(outcome) PROVE AtPC' /\ Promised'
  <2> DEFINE d == [dir EXCEPT !.settings = dir.marker.desired]
  <2>1. /\ dir.marker # None /\ dir.marker.desired \in Settings
        /\ dir.marker.desired \in promise
    BY <1>6, <1>0 DEF RollForward, Marker
  <2>2. d \in Directory /\ d.settings = dir.marker.desired /\ d.marker = dir.marker
    BY <2>1, NewDirectory
  <2>3. Replace(d, outcome)
    BY <1>6 DEF RollForward, WriteSettings
  <2>4. promise' = promise /\ mode' = mode /\ desired' = desired
    BY <1>6 DEF RollForward, Fail, Goto, history
  <2> HIDE DEF d
  <2>5. Promised'
    <3>1. pc # "idle"
      BY <1>6 DEF RollForward
    <3> QED BY <2>1, <2>2, <2>3, <2>4, <3>1, <1>0, ReplacePromised DEF Promised
  <2>6. CASE OutcomeOf(outcome) = "not_committed"
    BY <1>6, <2>5, <2>6 DEF RollForward, Fail, AtPC
  <2>7. CASE OutcomeOf(outcome) # "not_committed"
    <3>1. outcome # "refused"
      BY <2>7 DEF OutcomeOf
    <3>2. dir' = d
      BY <2>3, <3>1 DEF Replace
    <3> QED BY <1>6, <2>1, <2>2, <2>5, <2>7, <3>2 DEF RollForward, Goto, AtPC
  <2> QED BY <2>5, <2>6, <2>7
<1>7. ASSUME NEW outcome \in Outcomes, DropMarker(outcome) PROVE AtPC' /\ Promised'
  <2> DEFINE d == [dir EXCEPT !.marker = None]
  <2>1. d \in Directory /\ d.settings = dir.settings /\ d.marker = None
    BY NewDirectory
  <2>2. Replace(d, outcome)
    BY <1>7 DEF DropMarker, RemoveMarker, WriteMarker
  <2>3. promise' = promise /\ mode' = mode /\ desired' = desired
    BY <1>7 DEF DropMarker, Recovered, Goto, history
  <2> HIDE DEF d
  <2>4. Promised'
    <3>1. pc # "idle"
      BY <1>7 DEF DropMarker
    <3> QED BY <2>1, <2>2, <2>3, <3>1, <1>0, ReplacePromised DEF Promised
  <2>5. Logical(dir) = dir.settings
    BY <1>7, <1>0 DEF DropMarker, Consistent, Logical, AtPC
  <2>6. dir' \in {d, dir}
    BY <2>2 DEF Replace
  <2>7. Logical(dir') = dir'.settings
    BY <2>1, <2>5, <2>6 DEF Logical
  <2> QED BY <1>7, <2>4, <2>7 DEF DropMarker, Recovered, Goto, AtPC, Logical, history
<1>8. ASSUME NEW outcome \in Outcomes, Stage(outcome) PROVE AtPC' /\ Promised'
  <2> DEFINE m == [previous |-> dir.settings, desired |-> None]
             d == [dir EXCEPT !.marker = m]
  <2>1. m \in Marker
    BY <1>0 DEF Marker
  <2>2. d \in Directory /\ d.settings = dir.settings /\ d.marker = m
    BY <2>1, NewDirectory
  <2>3. Replace(d, outcome)
    BY <1>8 DEF Stage, WriteMarker
  <2>4. promise' = promise /\ mode' = mode /\ desired' = desired /\ previous' = dir.settings
    BY <1>8 DEF Stage, Goto, Fail, history
  <2>5. d = [settings |-> previous', marker |-> [previous |-> previous', desired |-> None]]
    BY <2>2, <2>4 DEF Directory
  <2>6. d.marker.desired = None
    BY <2>2
  <2> HIDE DEF d, m
  <2>7. Promised'
    <3>1. pc # "idle"
      BY <1>8 DEF Stage
    <3> QED BY <2>2, <2>3, <2>4, <2>6, <3>1, <1>0, ReplacePromised DEF Promised
  <2>8. CASE outcome = "ok"
    <3>1. dir' = d /\ durable' = {d}
      BY <2>3, <2>8 DEF Replace
    <3> QED BY <1>8, <2>5, <2>7, <2>8, <3>1 DEF Stage, Goto, AtPC
  <2>9. CASE outcome # "ok"
    BY <1>8, <2>7, <2>9 DEF Stage, Fail, AtPC
  <2> QED BY <2>8, <2>9
<1>9. ASSUME NEW outcome \in Outcomes, Prepare(outcome) PROVE AtPC' /\ Promised'
  <2> DEFINE m == [previous |-> previous, desired |-> desired]
             d == [dir EXCEPT !.marker = m]
  <2>0. pc = "prepare" /\ mode = "update" /\ durable = {dir} /\ dir.settings = previous
        /\ dir.marker = [previous |-> previous, desired |-> None]
    BY <1>9 DEF Prepare, AtPC
  <2>1. m \in Marker /\ m.previous = previous /\ m.desired = desired /\ None # m
    BY DEF Marker, TypeOK
  <2>2. d \in Directory /\ d.settings = dir.settings /\ d.marker = m
    BY <2>1, NewDirectory
  <2>3. Replace(d, outcome)
    BY <1>9 DEF Prepare, WriteMarker
  <2>4. promise' = promise /\ mode' = mode /\ desired' = desired /\ previous' = previous
    BY <1>9 DEF Prepare, Goto, Fail, history
  <2>5. d = [settings |-> previous, marker |-> [previous |-> previous, desired |-> desired]]
    BY <2>0, <2>2 DEF Directory
  <2> HIDE DEF d, m
  <2>6. desired \in promise
    BY <2>0 DEF Promised
  <2>7. Promised'
    BY <2>0, <2>1, <2>2, <2>3, <2>4, <2>6, <1>0, ReplacePromised DEF Promised
  <2>8. CASE OutcomeOf(outcome) = "committed"
    <3>1. outcome = "ok"
      BY <2>8 DEF OutcomeOf
    <3>2. dir' = d /\ durable' = {d}
      BY <2>3, <3>1 DEF Replace
    <3>3. Goto("commit")
      BY <1>9, <2>8 DEF Prepare
    <3> QED BY <2>0, <2>4, <2>5, <2>7, <3>2, <3>3 DEF Goto, AtPC
  <2>9. CASE OutcomeOf(outcome) = "needs_recovery"
    <3>1. outcome = "unsynced"
      BY <2>9 DEF OutcomeOf
    <3>2. dir' = d
      BY <2>3, <3>1 DEF Replace
    <3>3. Goto("prepare_flush")
      BY <1>9, <2>9 DEF Prepare
    <3>4. ASSUME NEW e \in durable'
          PROVE  /\ e.settings = previous
                 /\ e.marker.previous = previous
                 /\ e.marker.desired \in {None, desired}
                 /\ e.marker # None
      <4>1. PICK a \in durable \cup {d} : e.settings = a.settings
        BY <2>2, <2>3, ReplaceMember
      <4>2. PICK b \in durable \cup {d} : e.marker = b.marker
        BY <2>2, <2>3, ReplaceMember
      <4>3. dir.marker # None
        <5>1. [previous |-> previous, desired |-> None] \in Marker
          BY DEF Marker, TypeOK
        <5> QED BY <2>0, <5>1
      <4> QED BY <2>0, <2>1, <2>2, <4>1, <4>2, <4>3
    <3>5. AtPC'
      BY <2>0, <2>4, <2>5, <3>2, <3>3, <3>4 DEF Goto, AtPC
    <3> QED BY <2>7, <3>5
  <2>10. CASE OutcomeOf(outcome) \notin {"committed", "needs_recovery"}
    <3>1. Fail
      BY <1>9, <2>10 DEF Prepare
    <3> QED BY <2>7, <3>1 DEF Fail, AtPC
  <2> QED BY <2>8, <2>9, <2>10
<1>10. CASE PrepareFlush
  <2>1. /\ pc = "prepare_flush" /\ mode = "update" /\ desired \in promise
        /\ dir = [settings |-> previous, marker |-> [previous |-> previous, desired |-> desired]]
        /\ \A d \in durable :
             /\ d.settings = previous
             /\ d.marker.desired \in {None, desired}
    BY <1>10 DEF PrepareFlush, AtPC, Promised
  <2>2. CASE FlushOk /\ Goto("commit")
    BY <1>10, <1>0, <2>1, <2>2 DEF PrepareFlush, FlushOk, Goto, AtPC, Promised, history
  <2>3. CASE FlushFails /\ dir.settings = desired /\ Succeed("ok")
    BY <1>10, <2>1, <2>3 DEF PrepareFlush, FlushFails, Succeed, AtPC, Promised
  <2>4. CASE FlushFails /\ Succeed("pending")
    BY <1>10, <2>4 DEF PrepareFlush, FlushFails, Succeed, AtPC, Promised
  <2> QED BY <1>10, <2>2, <2>3, <2>4 DEF PrepareFlush
<1>11. ASSUME NEW outcome \in Outcomes, Commit(outcome) PROVE AtPC' /\ Promised'
  <2> DEFINE d == [dir EXCEPT !.settings = desired]
  <2>0. /\ pc = "commit" /\ mode = "update" /\ durable = {dir} /\ desired \in promise
        /\ dir.settings = previous
        /\ dir.marker = [previous |-> previous, desired |-> desired]
        /\ desired \in Settings
    BY <1>11 DEF Commit, AtPC, Promised, TypeOK
  <2>1. d \in Directory /\ d.settings = desired /\ d.marker = dir.marker
    BY <2>0, NewDirectory
  <2>2. Replace(d, outcome)
    BY <1>11 DEF Commit, WriteSettings
  <2>3. mode' = mode /\ desired' = desired /\ previous' = previous
    BY <1>11 DEF Commit, Goto, Succeed
  <2>4. promise' = promise
    BY <1>11 DEF Commit, Goto, Succeed, history
  <2>5. d = [settings |-> desired, marker |-> [previous |-> previous, desired |-> desired]]
    BY <2>0, <2>1 DEF Directory
  <2> HIDE DEF d
  <2>6. Promised'
    BY <2>0, <2>1, <2>2, <2>3, <2>4, <1>0, ReplacePromised DEF Promised
  <2>7. CASE OutcomeOf(outcome) = "committed"
    <3>1. outcome = "ok"
      BY <2>7 DEF OutcomeOf
    <3>2. dir' = d /\ durable' = {d}
      BY <2>2, <3>1 DEF Replace
    <3>3. Goto("clear")
      BY <1>11, <2>7 DEF Commit
    <3> QED BY <2>0, <2>3, <2>5, <2>6, <3>2, <3>3 DEF Goto, AtPC
  <2>8. CASE OutcomeOf(outcome) = "needs_recovery"
    <3>1. outcome = "unsynced"
      BY <2>8 DEF OutcomeOf
    <3>2. dir' = d
      BY <2>2, <3>1 DEF Replace
    <3>3. Goto("commit_flush")
      BY <1>11, <2>8 DEF Commit
    <3>4. ASSUME NEW e \in durable'
          PROVE  /\ e.settings \in {previous, desired}
                 /\ e.marker = [previous |-> previous, desired |-> desired]
      <4>1. PICK a \in durable \cup {d} : e.settings = a.settings
        BY <2>1, <2>2, ReplaceMember
      <4>2. PICK b \in durable \cup {d} : e.marker = b.marker
        BY <2>1, <2>2, ReplaceMember
      <4> QED BY <2>0, <2>1, <4>1, <4>2
    <3>5. AtPC'
      BY <2>0, <2>3, <2>5, <3>2, <3>3, <3>4 DEF Goto, AtPC
    <3> QED BY <2>6, <3>5
  <2>9. CASE OutcomeOf(outcome) \notin {"committed", "needs_recovery"}
    <3>1. Succeed("pending")
      BY <1>11, <2>9 DEF Commit
    <3> QED BY <2>6, <3>1 DEF Succeed, AtPC
  <2> QED BY <2>7, <2>8, <2>9
<1>12. CASE CommitFlush
  <2>1. /\ pc = "commit_flush" /\ mode = "update" /\ dir.settings = desired
        /\ dir.marker.desired = desired
    BY <1>12 DEF CommitFlush, AtPC
  <2>2. CASE FlushOk /\ Succeed("ok")
    BY <2>1, <2>2 DEF FlushOk, Succeed, AtPC, Promised
  <2>3. CASE FlushFails /\ Succeed("pending")
    BY <2>3 DEF FlushFails, Succeed, AtPC, Promised
  <2> QED BY <1>12, <2>2, <2>3 DEF CommitFlush
<1>13. ASSUME NEW outcome \in Outcomes, Clear(outcome) PROVE AtPC' /\ Promised'
  <2> DEFINE d == [dir EXCEPT !.marker = None]
  <2>0. /\ pc = "clear" /\ mode = "update" /\ durable = {dir} /\ dir.settings = desired
        /\ dir.marker.desired = desired
    BY <1>13 DEF Clear, AtPC
  <2>1. d \in Directory /\ d.settings = dir.settings /\ d.marker = None
    BY NewDirectory
  <2>2. Replace(d, outcome)
    BY <1>13 DEF Clear, RemoveMarker, WriteMarker
  <2> HIDE DEF d
  <2>3. ASSUME NEW e \in durable'
        PROVE  e.settings = desired /\ (e.marker # None => e.marker.desired = desired)
    <3>1. PICK a \in durable \cup {d} : e.settings = a.settings
      BY <2>1, <2>2, ReplaceMember
    <3>2. PICK b \in durable \cup {d} : e.marker = b.marker
      BY <2>1, <2>2, ReplaceMember
    <3> QED BY <2>0, <2>1, <3>1, <3>2
  <2>4. pc' = "idle" /\ desired' = desired /\ promise' \in {promise, {desired}}
    BY <1>13 DEF Clear, Fail, Succeed, history
  <2>5. desired \in promise
    BY <2>0 DEF Promised
  <2> QED BY <2>3, <2>4, <2>5 DEF AtPC, Promised
<1>14. CASE Crash
  BY <1>14 DEF Crash, AtPC, Promised, call, history
<1>15. CASE PowerLoss
  BY <1>15 DEF PowerLoss, AtPC, Promised, call, history
<1>16. CASE UNCHANGED vars
  BY <1>16 DEF vars, AtPC, Promised
<1> QED
  BY <1>1, <1>2, <1>3, <1>4, <1>5, <1>6, <1>7, <1>8, <1>9, <1>10, <1>11, <1>12,
     <1>13, <1>14, <1>15, <1>16 DEF Next, recoverSettings, saveSettings

(* The inductive invariant holds of every behaviour of the store.          *)
LEMMA Inductive == Spec => []IInv
<1>1. Init => IInv
  BY SettingsAssumption DEF Init, IInv, TypeOK, AtPC, Promised, Directory, PC
<1>2. IInv /\ [Next]_vars => IInv'
  BY InvStep, TypeStep DEF IInv
<1> QED BY <1>1, <1>2, PTL DEF Spec

(* Whatever crashes, power losses and faults do, in either crash model and *)
(* for every set of contents, recoverSettings returns the last content     *)
(* saveSettings acknowledged or one attempted since.                       *)
THEOREM AckedSurvivesAlways == Spec => []AckedSurvives
<1>1. IInv => AckedSurvives
  BY DEF IInv, Promised, AckedSurvives, Logical
<1> QED BY <1>1, Inductive, PTL

-----------------------------------------------------------------------------
(* If renames reach the disk in order, no step leaves a directory whose    *)
(* marker does not match settings.json.                                    *)
LEMMA ConsistentStep ==
  ASSUME Ordered, IInv, RecoveryNeverStuck, [Next]_vars
  PROVE  RecoveryNeverStuck'
<1> USE SettingsAssumption
<1>0. TypeOK /\ AtPC /\ dir \in Directory /\ dir \in durable
  BY DEF IInv, TypeOK
<1>1. ASSUME NEW d \in Directory, NEW outcome \in Outcomes, Replace(d, outcome), Consistent(d)
      PROVE  RecoveryNeverStuck'
  BY <1>0, <1>1, ReplaceMember DEF RecoveryNeverStuck
<1>2. ASSUME NEW outcome \in Outcomes, RollForward(outcome) PROVE RecoveryNeverStuck'
  <2>1. dir.marker \in Marker /\ dir.marker.desired \in Settings
    BY <1>0, <1>2 DEF RollForward, Directory, Marker
  <2>2. Consistent([dir EXCEPT !.settings = dir.marker.desired])
    BY <1>0, <2>1, NewDirectory DEF Consistent
  <2> QED BY <1>0, <1>1, <1>2, <2>1, <2>2, NewDirectory DEF RollForward, WriteSettings
<1>3. ASSUME NEW outcome \in Outcomes, RemoveMarker(outcome) PROVE RecoveryNeverStuck'
  <2>1. Consistent([dir EXCEPT !.marker = None])
    BY <1>0, NewDirectory DEF Consistent
  <2> QED BY <1>0, <1>1, <1>3, <2>1, NewDirectory DEF RemoveMarker, WriteMarker
<1>4. ASSUME NEW outcome \in Outcomes, Stage(outcome) PROVE RecoveryNeverStuck'
  <2> DEFINE m == [previous |-> dir.settings, desired |-> None]
  <2>1. m \in Marker /\ m.previous = dir.settings
    BY <1>0 DEF Directory, Marker
  <2>2. Consistent([dir EXCEPT !.marker = m])
    BY <1>0, <2>1, NewDirectory DEF Consistent
  <2> QED BY <1>0, <1>1, <1>4, <2>1, <2>2, NewDirectory DEF Stage, WriteMarker
<1>5. ASSUME NEW outcome \in Outcomes, Prepare(outcome) PROVE RecoveryNeverStuck'
  <2> DEFINE m == [previous |-> previous, desired |-> desired]
  <2>1. m \in Marker /\ m.previous = dir.settings
    BY <1>0, <1>5 DEF Marker, Prepare, AtPC, TypeOK
  <2>2. Consistent([dir EXCEPT !.marker = m])
    BY <1>0, <2>1, NewDirectory DEF Consistent
  <2> QED BY <1>0, <1>1, <1>5, <2>1, <2>2, NewDirectory DEF Prepare, WriteMarker
<1>6. ASSUME NEW outcome \in Outcomes, Commit(outcome) PROVE RecoveryNeverStuck'
  <2>1. desired \in Settings /\ dir.marker.desired = desired
    BY <1>0, <1>6 DEF Commit, AtPC, TypeOK
  <2>2. Consistent([dir EXCEPT !.settings = desired])
    BY <1>0, <2>1, NewDirectory DEF Consistent
  <2> QED BY <1>0, <1>1, <1>6, <2>1, <2>2, NewDirectory DEF Commit, WriteSettings
<1>7. CASE dir' \in durable /\ durable' \in {durable, {dir'}}
  BY <1>7 DEF RecoveryNeverStuck
<1>8. ASSUME UNCHANGED <<dir, durable>> PROVE RecoveryNeverStuck'
  BY <1>0, <1>7, <1>8
<1>9. CASE PrepareFlush \/ CommitFlush
  BY <1>0, <1>7, <1>9 DEF PrepareFlush, CommitFlush, FlushOk, FlushFails
<1>10. CASE PowerLoss
  BY <1>7, <1>10 DEF PowerLoss
<1>11. CASE BeginLoad \/ (\E v \in Settings : BeginUpdate(v)) \/ Crash \/ UNCHANGED vars
  BY <1>8, <1>11 DEF BeginLoad, BeginUpdate, Crash, vars
<1>12. CASE RecoverUnreadable \/ RecoverClean \/ RecoverMismatch
  BY <1>8, <1>12 DEF RecoverUnreadable, RecoverClean, RecoverMismatch
<1>13. ASSUME NEW outcome \in Outcomes, DropMarker(outcome) \/ Clear(outcome)
       PROVE  RecoveryNeverStuck'
  BY <1>3, <1>13 DEF DropMarker, Clear
<1> QED
  BY <1>2, <1>4, <1>5, <1>6, <1>9, <1>10, <1>11, <1>12, <1>13
  DEF Next, recoverSettings, saveSettings

(* With ordered renames recoverSettings never refuses the store it left    *)
(* itself, for every set of contents and faults.                           *)
THEOREM RecoveryNeverStuckAlways ==
  ASSUME Ordered
  PROVE  Spec => []RecoveryNeverStuck
<1>1. Init => RecoveryNeverStuck
  BY DEF Init, RecoveryNeverStuck, Consistent
<1>2. IInv /\ RecoveryNeverStuck /\ [Next]_vars => RecoveryNeverStuck'
  BY ConsistentStep
<1> QED BY <1>1, <1>2, Inductive, PTL DEF Spec

-----------------------------------------------------------------------------
(* A rejected update, if a failed directory sync is the only fault.        *)

(* Every content named in a possible directory is in B. *)
Named(B) ==
  \A d \in durable :
    /\ d.settings \in B
    /\ d.marker # None => d.marker.desired \in B \cup {None}

(* Until saveSettings writes the desired marker, and once it has rejected  *)
(* an update, the directory names only what it could name before.          *)
Untouched ==
  /\ pc # "idle" => reply # "rejected"
  /\ mode = "update" /\ pc \in {"recover", "recover_clear", "stage"} => Named(base)
  /\ reply = "rejected" => Named(base)

(* What a write whose new files are among the named ones leaves named. *)
LEMMA ReplaceNamed ==
  ASSUME TypeOK, NEW B, Named(B), NEW d \in Directory, NEW outcome \in Outcomes,
         Replace(d, outcome), d.settings \in B,
         d.marker # None => d.marker.desired \in B \cup {None}
  PROVE  \A e \in durable' :
           /\ e.settings \in B
           /\ e.marker # None => e.marker.desired \in B \cup {None}
<1> SUFFICES ASSUME NEW e \in durable'
             PROVE  /\ e.settings \in B
                    /\ e.marker # None => e.marker.desired \in B \cup {None}
  OBVIOUS
<1>1. PICK a \in durable \cup {d} : e.settings = a.settings
  BY ReplaceMember
<1>2. PICK b \in durable \cup {d} : e.marker = b.marker
  BY ReplaceMember
<1> QED BY <1>1, <1>2 DEF Named

(* The steps of recoverSettings and the stage of saveSettings copy what is *)
(* named already; the later ones do not reject the update.                 *)
LEMMA UntouchedStep ==
  ASSUME Faults \subseteq {"unsynced"}, IInv, Untouched, [Next]_vars
  PROVE  Untouched'
<1> USE SettingsAssumption
<1>0. /\ TypeOK /\ AtPC /\ Promised /\ dir \in Directory /\ dir \in durable
      /\ "refused" \notin Faults
      /\ \A outcome \in Outcomes : OutcomeOf(outcome) # "not_committed"
  BY DEF IInv, TypeOK, Outcomes, OutcomeOf
<1>1. CASE BeginLoad
  BY <1>1 DEF BeginLoad, Untouched, Replies
<1>2. ASSUME NEW v \in Settings, BeginUpdate(v) PROVE Untouched'
  <2>1. durable' = durable /\ base' = promise /\ reply' = None
    BY <1>2 DEF BeginUpdate
  <2> QED BY <1>0, <2>1 DEF Untouched, Named, Promised, Replies
<1>3. CASE RecoverUnreadable
  BY <1>0, <1>3 DEF RecoverUnreadable
<1>4. CASE RecoverClean
  BY <1>4 DEF RecoverClean, Recovered, Goto, Untouched, Named, history
<1>5. CASE RecoverMismatch
  BY <1>5 DEF RecoverMismatch, Fail, Untouched, Named, history
<1>6. ASSUME NEW outcome \in Outcomes, RollForward(outcome) PROVE Untouched'
  <2> DEFINE d == [dir EXCEPT !.settings = dir.marker.desired]
  <2>1. dir.marker # None /\ dir.marker.desired \in Settings
    BY <1>0, <1>6 DEF RollForward, Directory, Marker
  <2>2. d \in Directory /\ d.settings = dir.marker.desired /\ d.marker = dir.marker
    BY <1>0, <2>1, NewDirectory
  <2>3. Replace(d, outcome)
    BY <1>6 DEF RollForward, WriteSettings
  <2>4. Goto("recover_clear") /\ pc = "recover"
    BY <1>0, <1>6 DEF RollForward
  <2> HIDE DEF d
  <2>5. mode = "update" => Named(base)'
    <3> SUFFICES ASSUME mode = "update" PROVE Named(base)'
      OBVIOUS
    <3>1. Named(base) /\ base' = base
      BY <2>4 DEF Untouched, Goto, history
    <3>2. d.settings \in base /\ d.marker.desired \in base \cup {None}
      BY <1>0, <2>1, <2>2, <3>1 DEF Named
    <3>3. \A e \in durable' :
            /\ e.settings \in base
            /\ e.marker # None => e.marker.desired \in base \cup {None}
      BY <1>0, <2>2, <2>3, <3>1, <3>2, ReplaceNamed
    <3> QED BY <3>1, <3>3 DEF Named
  <2> QED BY <2>4, <2>5 DEF Untouched, Goto
<1>7. ASSUME NEW outcome \in Outcomes, DropMarker(outcome) PROVE Untouched'
  <2> DEFINE d == [dir EXCEPT !.marker = None]
  <2>1. d \in Directory /\ d.settings = dir.settings /\ d.marker = None
    BY <1>0, NewDirectory
  <2>2. Replace(d, outcome)
    BY <1>7 DEF DropMarker, RemoveMarker, WriteMarker
  <2>3. Recovered(dir.settings) /\ pc \in {"recover", "recover_clear"} /\ base' = base /\ mode' = mode
    BY <1>7 DEF DropMarker, Recovered, Goto, history
  <2> HIDE DEF d
  <2>4. mode = "update" => Named(base)'
    <3> SUFFICES ASSUME mode = "update" PROVE Named(base)'
      OBVIOUS
    <3>1. Named(base)
      BY <2>3 DEF Untouched
    <3>2. \A e \in durable' :
            /\ e.settings \in base
            /\ e.marker # None => e.marker.desired \in base \cup {None}
      BY <1>0, <2>1, <2>2, <3>1, ReplaceNamed DEF Named
    <3> QED BY <2>3, <3>2 DEF Named
  <2> QED BY <2>3, <2>4 DEF Untouched, Recovered, Goto
<1>8. ASSUME NEW outcome \in Outcomes, Stage(outcome) PROVE Untouched'
  <2> DEFINE m == [previous |-> dir.settings, desired |-> None]
             d == [dir EXCEPT !.marker = m]
  <2>1. m \in Marker /\ m.desired = None
    BY <1>0 DEF Directory, Marker
  <2>2. d \in Directory /\ d.settings = dir.settings /\ d.marker = m
    BY <1>0, <2>1, NewDirectory
  <2>3. Replace(d, outcome)
    BY <1>8 DEF Stage, WriteMarker
  <2>4. pc = "stage" /\ mode = "update" /\ base' = base /\ mode' = mode /\ pc' \in {"prepare", "idle"}
    BY <1>0, <1>8 DEF Stage, Goto, Fail, AtPC, history
  <2> HIDE DEF d, m
  <2>5. Named(base)
    BY <2>4 DEF Untouched
  <2>6. \A e \in durable' :
          /\ e.settings \in base
          /\ e.marker # None => e.marker.desired \in base \cup {None}
    BY <1>0, <2>1, <2>2, <2>3, <2>5, ReplaceNamed DEF Named
  <2>7. Named(base)'
    BY <2>4, <2>6 DEF Named
  <2>8. pc' # "idle" => reply' = reply
    BY <1>8, <2>4 DEF Stage, Goto, Fail
  <2> QED BY <2>4, <2>7, <2>8 DEF Untouched
<1>9. ASSUME NEW outcome \in Outcomes, Prepare(outcome) PROVE Untouched'
  BY <1>0, <1>9 DEF Prepare, OutcomeOf, Goto, Untouched
<1>10. CASE PrepareFlush
  BY <1>10 DEF PrepareFlush, Goto, Succeed, Untouched
<1>11. ASSUME NEW outcome \in Outcomes, Commit(outcome) PROVE Untouched'
  BY <1>0, <1>11 DEF Commit, OutcomeOf, Goto, Succeed, Untouched
<1>12. CASE CommitFlush
  BY <1>12 DEF CommitFlush, Succeed, Untouched
<1>13. ASSUME NEW outcome \in Outcomes, Clear(outcome) PROVE Untouched'
  BY <1>0, <1>13 DEF Clear, Succeed, Untouched
<1>14. CASE Crash \/ PowerLoss
  BY <1>14 DEF Crash, PowerLoss, Untouched, Replies
<1>15. CASE UNCHANGED vars
  BY <1>15 DEF vars, Untouched, Named
<1> QED
  BY <1>1, <1>2, <1>3, <1>4, <1>5, <1>6, <1>7, <1>8, <1>9, <1>10, <1>11, <1>12,
     <1>13, <1>14, <1>15 DEF Next, recoverSettings, saveSettings

(* If a failed directory sync is the only fault, an update saveSettings    *)
(* rejected never shows up later, in either crash model: even if a power   *)
(* loss keeps any mix of the unsynced renames.                             *)
THEOREM RejectedStaysRejectedAlways ==
  ASSUME Faults \subseteq {"unsynced"}
  PROVE  Spec => []RejectedStaysRejected
<1>1. Init => Untouched
  BY SettingsAssumption DEF Init, Untouched, Replies
<1>2. IInv /\ Untouched /\ [Next]_vars => Untouched'
  BY UntouchedStep
<1>3. Untouched => RejectedStaysRejected
  BY DEF Untouched, Named, RejectedStaysRejected, Logical
<1> QED BY <1>1, <1>2, <1>3, Inductive, PTL DEF Spec

-----------------------------------------------------------------------------
(* The store implements the register. *)

Limbo == {Logical(d) : d \in durable}
Attempt == IF mode = "update" /\ pc # "idle" THEN desired ELSE None

(* How a write shows in the register when renames reach the disk in order. *)
LEMMA ReplaceShows ==
  ASSUME Ordered, NEW d, NEW outcome \in Outcomes, Replace(d, outcome)
  PROVE  \/ UNCHANGED <<dir, durable>> /\ outcome = "refused"
         \/ dir' = d /\ Limbo' = Limbo \cup {Logical(d)} /\ outcome = "unsynced"
         \/ dir' = d /\ Limbo' = {Logical(d)} /\ outcome \in {"ok", "late"}
<1>1. outcome \in {"ok", "refused", "unsynced", "late"}
  BY SettingsAssumption DEF Outcomes, FaultKinds
<1>2. CASE outcome = "refused"
  BY <1>2 DEF Replace
<1>3. CASE outcome = "unsynced"
  <2>1. dir' = d /\ durable' = durable \cup {d}
    BY <1>3 DEF Replace, Exposed
  <2> QED BY <1>3, <2>1 DEF Limbo
<1>4. CASE outcome \in {"ok", "late"}
  <2>1. dir' = d /\ durable' = {d}
    BY <1>4 DEF Replace
  <2> QED BY <1>4, <2>1 DEF Limbo
<1> QED BY <1>1, <1>2, <1>3, <1>4

(* A write that keeps what recovery returns shows as no change or a sync. *)
LEMMA SilentWrite ==
  ASSUME Ordered, TypeOK, NEW d, NEW outcome \in Outcomes, Replace(d, outcome),
         Logical(d) = Logical(dir)
  PROVE  /\ Logical(dir)' = Logical(dir)
         /\ Limbo' \in {Limbo, {Logical(dir)}}
<1>1. Logical(dir) \in Limbo
  BY DEF Limbo, TypeOK
<1>2. dir' = dir /\ durable' = durable => Logical(dir)' = Logical(dir) /\ Limbo' = Limbo
  BY DEF Limbo
<1>3. dir' = d => Logical(dir)' = Logical(dir)
  OBVIOUS
<1> QED BY <1>1, <1>2, <1>3, ReplaceShows

(* One step of the store is one step of the register or none. *)
LEMMA RegisterStep ==
  ASSUME Ordered, IInv, [Next]_vars
  PROVE  [Register!Next]_(Register!vars)
<1> USE SettingsAssumption
<1>0. /\ TypeOK /\ AtPC /\ dir \in Directory /\ dir \in durable
      /\ desired \in Settings /\ (dir.marker # None => dir.marker \in Marker)
      /\ Logical(dir) \in Limbo
  BY DEF IInv, TypeOK, Directory, Limbo
<1> DEFINE value == Logical(dir)
           Quiet == UNCHANGED value /\ Limbo' \in {Limbo, {value}}
<1>1. ASSUME Quiet, UNCHANGED <<Attempt, reply, loaded>> PROVE Register!Next
  BY <1>1 DEF Register!Next, Register!Work, Register!Apply, Register!Settle, Limbo, Attempt
<1>2. ASSUME Quiet, Fail, pc # "idle" PROVE Register!Next
  <2>1. CASE mode = "update"
    <3>1. Register!End("rejected")
      BY <1>0, <1>2, <2>1
      DEF Fail, Register!End, Register!Apply, Register!Settle, Limbo
    <3> QED BY <3>1 DEF Register!Next
  <2>2. CASE mode # "update"
    <3>1. Register!Load
      BY <1>2, <2>2 DEF Fail, Register!Load, Register!Settle, Limbo
    <3> QED BY <3>1 DEF Register!Next
  <2> QED BY <2>1, <2>2
<1>3. ASSUME Quiet, Recovered(value), pc # "idle" PROVE Register!Next
  <2>1. CASE mode = "update"
    BY <1>1, <1>3, <2>1 DEF Recovered, Goto, Attempt
  <2>2. CASE mode # "update"
    <3>1. Register!Load
      BY <1>3, <2>2 DEF Recovered, Register!Load, Register!Settle, Limbo
    <3> QED BY <3>1 DEF Register!Next
  <2> QED BY <2>1, <2>2
<1>4. ASSUME NEW code \in {"ok", "pending"}, Quiet, Succeed(code), pc # "idle", mode = "update",
             value = desired, code = "ok" => Limbo' = {desired}
      PROVE  Register!Next
  <2>1. Register!End(code)
    BY <1>0, <1>4 DEF Succeed, Register!End, Register!Apply, Register!Settle, Limbo
  <2> QED BY <2>1 DEF Register!Next
<1>5. CASE BeginLoad \/ \E v \in Settings : BeginUpdate(v)
  <2>1. Register!Begin
    BY <1>5 DEF BeginLoad, BeginUpdate, Register!Begin
  <2> QED BY <2>1 DEF Register!Next
<1>6. CASE RecoverUnreadable \/ RecoverMismatch
  BY <1>2, <1>6 DEF RecoverUnreadable, RecoverMismatch, Limbo
<1>7. CASE RecoverClean
  <2>1. value = dir.settings
    BY <1>7 DEF RecoverClean, Logical
  <2>2. Quiet
    BY <1>7 DEF RecoverClean, Limbo
  <2> QED BY <1>3, <1>7, <2>1, <2>2 DEF RecoverClean
<1>8. ASSUME NEW outcome \in Outcomes, RollForward(outcome) PROVE Register!Next
  <2> DEFINE d == [dir EXCEPT !.settings = dir.marker.desired]
  <2>1. dir.marker # None /\ dir.marker.desired \in Settings /\ pc = "recover"
    BY <1>0, <1>8 DEF RollForward, Marker
  <2>2. Logical(d) = value
    BY <1>0, <2>1, NewDirectory DEF Logical
  <2>3. Quiet
    BY <1>0, <1>8, <2>2, SilentWrite DEF RollForward, WriteSettings
  <2> QED BY <1>1, <1>2, <1>8, <2>1, <2>3 DEF RollForward, Goto, Attempt
<1>9. ASSUME NEW outcome \in Outcomes, DropMarker(outcome) PROVE Register!Next
  <2> DEFINE d == [dir EXCEPT !.marker = None]
  <2>1. value = dir.settings
    BY <1>0, <1>9 DEF DropMarker, Consistent, Logical, AtPC
  <2>2. Logical(d) = value
    BY <1>0, <2>1, NewDirectory DEF Logical
  <2>3. Quiet
    BY <1>0, <1>9, <2>2, SilentWrite DEF DropMarker, RemoveMarker, WriteMarker
  <2> QED BY <1>3, <1>9, <2>1, <2>3 DEF DropMarker
<1>10. ASSUME NEW outcome \in Outcomes, Stage(outcome) PROVE Register!Next
  <2> DEFINE m == [previous |-> dir.settings, desired |-> None]
  <2>1. m \in Marker /\ m.desired = None
    BY <1>0 DEF Marker, Directory
  <2>2. Logical([dir EXCEPT !.marker = m]) = value
    BY <1>0, <1>10, <2>1, NewDirectory DEF Logical, Stage, AtPC
  <2>3. Quiet
    BY <1>0, <1>10, <2>2, SilentWrite DEF Stage, WriteMarker
  <2> QED BY <1>1, <1>2, <1>10, <2>3 DEF Stage, Goto, Attempt
<1>11. ASSUME NEW outcome \in Outcomes, Prepare(outcome) PROVE Register!Next
  <2> DEFINE m == [previous |-> previous, desired |-> desired]
             d == [dir EXCEPT !.marker = m]
  <2>0. pc = "prepare" /\ mode = "update" /\ Attempt = desired
    BY <1>0, <1>11 DEF Prepare, AtPC, Attempt
  <2>1. m \in Marker /\ m.desired = desired
    BY <1>0 DEF Marker, TypeOK
  <2>2. Logical(d) = desired
    BY <1>0, <2>1, NewDirectory DEF Logical
  <2>3. Replace(d, outcome)
    BY <1>11 DEF Prepare, WriteMarker
  <2>4. Register!Apply
    <3>1. UNCHANGED <<dir, durable>> => UNCHANGED <<value, Limbo>>
      BY DEF Limbo
    <3>2. dir' = d => value' = desired
      BY <2>2
    <3> HIDE DEF d, value
    <3>3. \/ UNCHANGED <<value, Limbo>>
          \/ value' = desired /\ Limbo' \in {Limbo \cup {desired}, {desired}}
      BY <2>2, <2>3, <3>1, <3>2, ReplaceShows
    <3> QED BY <1>0, <2>0, <3>3 DEF Register!Apply, Register!Effect, Limbo, Attempt, value
  <2>5. CASE Goto("commit") \/ Goto("prepare_flush")
    <3>1. Register!Work
      BY <2>0, <2>4, <2>5 DEF Register!Work, Goto
    <3> QED BY <3>1 DEF Register!Next
  <2>6. CASE Fail
    <3>1. Register!End("rejected")
      BY <1>0, <2>0, <2>4, <2>6 DEF Register!End, Fail
    <3> QED BY <3>1 DEF Register!Next
  <2> QED BY <1>11, <2>5, <2>6 DEF Prepare
<1>12. ASSUME pc = "prepare_flush" \/ pc = "commit" \/ pc = "commit_flush" \/ pc = "clear"
       PROVE  mode = "update" /\ value = desired /\ dir.marker.desired = desired
              /\ dir.marker # None
  <2>1. [previous |-> previous, desired |-> desired] \in Marker
    BY <1>0 DEF Marker, TypeOK
  <2>2. mode = "update" /\ dir.marker = [previous |-> previous, desired |-> desired]
    BY <1>0, <1>12 DEF AtPC
  <2> QED BY <1>0, <2>1, <2>2 DEF Logical
<1>13. CASE PrepareFlush
  <2>1. pc = "prepare_flush" /\ value = desired /\ mode = "update"
    BY <1>12, <1>13 DEF PrepareFlush
  <2>2. CASE FlushOk /\ Goto("commit")
    <3>1. Quiet
      BY <2>2 DEF FlushOk, Limbo
    <3> QED BY <1>1, <2>1, <2>2, <3>1 DEF Goto, Attempt
  <2>3. CASE FlushFails /\ dir.settings = desired /\ Succeed("ok")
    <3>1. \A d \in durable : Logical(d) = desired
      BY <1>0, <2>1, <2>3 DEF AtPC, Logical
    <3>2. Limbo = {desired}
      BY <1>0, <3>1 DEF Limbo
    <3>3. UNCHANGED <<value, Limbo>>
      BY <2>3 DEF FlushFails, Limbo
    <3> QED BY <1>4, <2>1, <2>3, <3>2, <3>3
  <2>4. CASE FlushFails /\ Succeed("pending")
    <3>1. UNCHANGED <<value, Limbo>>
      BY <2>4 DEF FlushFails, Limbo
    <3> QED BY <1>4, <2>1, <2>4, <3>1
  <2> QED BY <1>13, <2>2, <2>3, <2>4 DEF PrepareFlush
<1>14. ASSUME NEW outcome \in Outcomes, Commit(outcome) PROVE Register!Next
  <2> DEFINE d == [dir EXCEPT !.settings = desired]
  <2>1. /\ pc = "commit" /\ value = desired /\ mode = "update"
        /\ dir.marker # None /\ dir.marker.desired = desired
    BY <1>12, <1>14 DEF Commit
  <2>2. Logical(d) = value
    BY <1>0, <2>1, NewDirectory DEF Logical
  <2>3. Quiet
    BY <1>0, <1>14, <2>2, SilentWrite DEF Commit, WriteSettings
  <2>4. CASE Goto("clear") \/ Goto("commit_flush")
    BY <1>1, <2>1, <2>3, <2>4 DEF Goto, Attempt
  <2>5. CASE Succeed("pending")
    BY <1>4, <2>1, <2>3, <2>5
  <2> QED BY <1>14, <2>4, <2>5 DEF Commit
<1>15. CASE CommitFlush
  <2>1. pc = "commit_flush" /\ value = desired /\ mode = "update"
    BY <1>12, <1>15 DEF CommitFlush
  <2>2. CASE FlushOk /\ Succeed("ok")
    <3>1. UNCHANGED value /\ Limbo' = {value}
      BY <2>2 DEF FlushOk, Limbo
    <3> QED BY <1>4, <2>1, <2>2, <3>1
  <2>3. CASE FlushFails /\ Succeed("pending")
    <3>1. UNCHANGED <<value, Limbo>>
      BY <2>3 DEF FlushFails, Limbo
    <3> QED BY <1>4, <2>1, <2>3, <3>1
  <2> QED BY <1>15, <2>2, <2>3 DEF CommitFlush
<1>16. ASSUME NEW outcome \in Outcomes, Clear(outcome) PROVE Register!Next
  <2> DEFINE d == [dir EXCEPT !.marker = None]
  <2>1. pc = "clear" /\ value = desired /\ mode = "update"
    BY <1>12, <1>16 DEF Clear
  <2>2. dir.settings = desired /\ durable = {dir}
    BY <1>0, <2>1 DEF AtPC
  <2>3. Logical(d) = value
    BY <1>0, <2>1, <2>2, NewDirectory DEF Logical
  <2>4. Quiet
    BY <1>0, <1>16, <2>3, SilentWrite DEF Clear, RemoveMarker, WriteMarker
  <2>5. Limbo = {desired}
    BY <2>1, <2>2 DEF Limbo
  <2>6. CASE Fail
    BY <1>2, <2>1, <2>4, <2>6
  <2>7. CASE Succeed("ok")
    BY <1>4, <2>1, <2>4, <2>5, <2>7
  <2> QED BY <1>16, <2>6, <2>7 DEF Clear
<1>17. CASE Crash
  <2>1. Register!Crash
    BY <1>17 DEF Crash, Register!Crash
  <2> QED BY <2>1 DEF Register!Next
<1>18. CASE PowerLoss
  <2>1. Register!PowerLoss
    BY <1>18 DEF PowerLoss, Register!PowerLoss
  <2> QED BY <2>1 DEF Register!Next
<1>19. CASE UNCHANGED vars
  BY <1>19 DEF vars, Register!vars
<1> QED
  BY <1>5, <1>6, <1>7, <1>8, <1>9, <1>10, <1>11, <1>13, <1>14, <1>15, <1>16, <1>17,
     <1>18, <1>19 DEF Next, recoverSettings, saveSettings

(* With ordered renames saveSettings and recoverSettings implement one     *)
(* register: for every set of contents and faults, interrupted writes and  *)
(* recovery do not show, a load returns the register, an update answered   *)
(* nil is in effect and durable and a pending one is in effect.            *)
THEOREM StoreImplementsRegister ==
  ASSUME Ordered
  PROVE  Spec => ImplementsRegister
<1>1. Init => Register!Init
  BY DEF Init, Register!Init, Logical
<1>2. IInv /\ [Next]_vars => [Register!Next]_(Register!vars)
  BY RegisterStep
<1> QED BY <1>1, <1>2, Inductive, PTL DEF Spec, ImplementsRegister, Register!Spec
=============================================================================
