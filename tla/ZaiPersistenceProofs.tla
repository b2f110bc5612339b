------------------------ MODULE ZaiPersistenceProofs ------------------------
(***************************************************************************)
(* The usage records of ZaiRuntime: what handleUsage acknowledged stays in *)
(* the live snapshot and in state.json, and what a failed write may have   *)
(* lost is flagged. UsageKept is the inductive invariant: it says of every *)
(* copy that still waits to be written what that write would leave on      *)
(* disk.                                                                   *)
(***************************************************************************)
EXTENDS ZaiRuntimeProofs

LiveDir == r.snapshot.store.dir

(* A copy of the accounts that waits to be written. *)
Carried(j) ==
  \/ \E u \in Usage : pc[u] = "write" /\ j = local[u]
  \/ \E w \in Workers : work[w].pc \in {"lock", "write"} /\ j = work[w].job

(* It will be written over the live state.json. *)
Pending(j) == j.n > r.persisted /\ j.store = r.snapshot.store

(* Usage is counted once it is applied, and only for accounts that are     *)
(* configured.                                                             *)
Recorded ==
  /\ \A d \in Dirs, a \in Accounts : \A u \in counted[d][a] : pc[u] \in {"write", "ok", "error"}
  /\ r.snapshot.gen # 0 => \A a \in Accounts \ r.snapshot.managed : counted[LiveDir][a] = {}

(* The copy a usage record waits to write is of the live snapshot, is not  *)
(* older than the last one written and counts the record.                  *)
Writing ==
  \A u \in Usage : pc[u] = "write" =>
    /\ local[u].gen = r.snapshot.gen /\ local[u].store = r.snapshot.store
    /\ local[u].n > r.persisted
    /\ \A d \in Dirs, a \in Accounts : u \in counted[d][a] => d = LiveDir
    /\ \A a \in Accounts : u \in counted[LiveDir][a] => u \in local[u].accounts[a].events

(* A copy goes to the store it was taken from, which was live. *)
Addressed ==
  \A j \in Job : Carried(j) =>
    /\ r.snapshot.gen # 0
    /\ pc[j.store.handle] \in {"retire", "ok", "error"}
    /\ j.store.handle = r.snapshot.store.handle => j.store = r.snapshot.store

(* The live snapshot counts what was not refused. *)
LiveCounts ==
  r.snapshot.gen # 0 =>
    \A a \in r.snapshot.managed : \A u \in counted[LiveDir][a] :
      pc[u] \in {"write", "ok"} => u \in r.snapshot.quota[a].events

(* A copy that may still be written counts what was acknowledged, and what *)
(* will have been acknowledged by then.                                    *)
CopiesCount ==
  \A j \in Job : Carried(j) /\ Pending(j) =>
    \A a \in Accounts : \A u \in counted[LiveDir][a] :
      pc[u] = "ok" \/ (pc[u] = "write" /\ local[u].n <= j.n) => u \in j.accounts[a].events

(* What it does not count is flagged or will be written after it. *)
CopiesFlag ==
  \A j \in Job : Carried(j) /\ Pending(j) =>
    \A a \in Accounts : \A u \in counted[LiveDir][a] \cap r.snapshot.quota[a].events :
      \/ u \in j.accounts[a].events
      \/ r.snapshot.quota[a].warned
      \/ pc[u] = "write" /\ local[u].n > j.n

(* A snapshot staged for another directory is what that directory holds. *)
StagedFromDisk ==
  \A p \in Reconfigurers : pc[p] \in Staging /\ ~SameStore(r.snapshot, local[p].snapshot) =>
    \A a \in local[p].snapshot.managed :
      local[p].snapshot.quota[a] = disk[local[p].snapshot.store.dir][a]

UsageKept ==
  /\ Recorded /\ Writing /\ Addressed /\ LiveCounts /\ CopiesCount /\ CopiesFlag /\ StagedFromDisk
  /\ DiskKeepsAcked /\ LossIsFlagged

-----------------------------------------------------------------------------
(* Copies. *)

(* A copy that waits to be written has a number that was given out. *)
LEMMA CarriedType == Base => \A j : Carried(j) => j \in Job /\ j.n <= r.persistNext
<1> SUFFICES ASSUME Base, NEW j, Carried(j) PROVE j \in Job /\ j.n <= r.persistNext
  OBVIOUS
<1>1. ASSUME NEW u \in Usage, pc[u] = "write", j = local[u]
      PROVE  j \in Job /\ j.n <= r.persistNext
  BY <1>1, CallerKinds DEF Base, Calls, CallOK, Numbered
<1>2. ASSUME NEW w \in Workers, work[w].pc \in {"lock", "write"}, j = work[w].job
      PROVE  j \in Job /\ j.n <= r.persistNext
  BY <1>2 DEF Base, Working, Numbered
<1> QED BY <1>1, <1>2 DEF Carried

(* A copy just taken. *)
Fresh(j) ==
  /\ j \in Job /\ j.n = r.persistNext + 1 /\ j.gen = r.snapshot.gen /\ j.store = r.snapshot.store
  /\ j.accounts = r'.snapshot.quota
  /\ r.snapshot.gen # 0 /\ Frame(r.snapshot, r'.snapshot)

(* handleUsage takes a fresh copy. *)
LEMMA FreshUsage ==
  ASSUME Base, NEW u \in Usage, NEW a \in Accounts, ApplyUsage(u, a)
  PROVE  Fresh(local'[u])
<1>1. r.snapshot.gen # 0
  BY DEF ApplyUsage, Base, Live
<1> QED BY Zenon, <1>1, ApplyUsageEffect DEF Base, Fresh

(* pollOnce takes a fresh copy. *)
LEMMA FreshAnswer ==
  ASSUME Base, NEW w \in Workers, NEW ok \in BOOLEAN, ApplyAnswer(w, ok)
  PROVE  Fresh(work'[w].job)
<1>1. r.snapshot.gen # 0
  <2>1. work[w].gen \in 1..r.snapshot.gen
    BY DEF ApplyAnswer, Base, Working
  <2> QED BY <2>1
<1> QED BY Zenon, <1>1, ApplyAnswerEffect DEF Base, Fresh

(* Where copies come from. *)
LEMMA CarriedStep ==
  ASSUME Base, [Next]_vars, NEW j, Carried(j)'
  PROVE  \/ Carried(j)
         \/ Fresh(j) /\ \E u \in Usage, a \in Accounts : ApplyUsage(u, a)
         \/ Fresh(j) /\ \E w \in Workers : \E ok \in BOOLEAN : ApplyAnswer(w, ok)
<1>0. Typed
  BY DEF Base
<1>1. ASSUME NEW u \in Usage, pc'[u] = "write", j = local'[u]
      PROVE  Carried(j) \/ (Fresh(j) /\ \E v \in Usage, a \in Accounts : ApplyUsage(v, a))
  BY <1>0, <1>1, UsageWaits, FreshUsage DEF Carried
<1>2. ASSUME NEW w \in Workers, work'[w].pc \in {"lock", "write"}, j = work'[w].job
      PROVE  Carried(j) \/ (Fresh(j) /\ \E v \in Workers : \E ok \in BOOLEAN : ApplyAnswer(v, ok))
  BY <1>0, <1>2, WorkerWaits, FreshAnswer DEF Carried
<1> QED BY <1>1, <1>2 DEF Carried

(* A copy is only written to the live store: an open handle that was live  *)
(* once is live, unless a commit is about to close it, and then it holds   *)
(* persistMu.                                                              *)
LEMMA WritesLive ==
  ASSUME Base, HandlesKept, Addressed, NEW j \in Job, Carried(j), j.store.handle \in open,
         \A q \in Committers : pc[q] # "retire"
  PROVE  j.store = r.snapshot.store
<1>1. pc[j.store.handle] \in {"retire", "ok", "error"} /\ j.store.handle \in Reconfigurers
  BY DEF Addressed, Job, Store
<1>2. j.store.handle \notin Busy("reconfigures")
  BY <1>1, CallerKinds DEF Busy
<1>3. j.store.handle = r.snapshot.store.handle
  BY <1>2 DEF HandlesKept
<1> QED BY <1>3 DEF Addressed

(* Nobody else commits, counts or writes while persistMu is held. *)
LEMMA PersistHeld ==
  ASSUME Locked, NEW h, lock["persist"] = h
  PROVE  /\ \A q \in Committers : pc[q] \in {"publish", "retire"} => q = h
         /\ \A u \in Usage : pc[u] \in {"apply", "write"} => u = h
         /\ \A p \in Stoppers : pc[p] = "final" => p = h
         /\ \A w \in Workers : work[w].pc = "write" => w = h
BY CallerKinds DEF Locked, Holds

-----------------------------------------------------------------------------
(* What a write does. *)

(* It reaches the live state.json. *)
Lands(j) == j.store = r.snapshot.store /\ disk' = [disk EXCEPT ![LiveDir] = j.accounts]

(* A write that succeeds reaches the live state.json, or was overtaken and *)
(* is skipped.                                                             *)
LEMMA PersistOk ==
  ASSUME Base, HandlesKept, Addressed, NEW j \in Job, Carried(j), \A q \in Committers : pc[q] # "retire",
         persistStateLocked(j, TRUE)
  PROVE  \/ j.n <= r.persisted /\ r' = r /\ disk' = disk
         \/ j.n > r.persisted /\ Lands(j) /\ r'.persisted = j.n /\ r'.snapshot = r.snapshot
<1>1. r \in Runtime
  BY DEF Base, Typed
<1>2. CASE j.n > r.persisted /\ SaveState(j, TRUE) /\ r' = [r EXCEPT !.persisted = j.n]
  <2>1. j.store = r.snapshot.store /\ disk' = [disk EXCEPT ![j.store.dir] = j.accounts]
    BY <1>2, WritesLive DEF SaveState
  <2> QED BY <1>1, <1>2, <2>1 DEF Lands, LiveDir, Runtime
<1> QED BY Zenon, <1>2 DEF persistStateLocked

(* A write that fails leaves the warning, and state.json is old or new. *)
LEMMA PersistFailed ==
  ASSUME Base, HandlesKept, Addressed, NEW j \in Job, Carried(j), \A q \in Committers : pc[q] # "retire",
         persistStateLocked(j, FALSE)
  PROVE  /\ j.n > r.persisted /\ (Lands(j) \/ disk' = disk)
         /\ r'.persisted = r.persisted /\ r'.snapshot = Warn(r.snapshot, j)
<1>1. r \in Runtime
  BY DEF Base, Typed
<1>2. j.n > r.persisted /\ SaveState(j, FALSE) /\ r' = [r EXCEPT !.snapshot = Warn(r.snapshot, j)]
  BY Zenon DEF persistStateLocked
<1>3. Lands(j) \/ disk' = disk
  BY <1>2, WritesLive DEF SaveState, Lands, LiveDir
<1> QED BY <1>1, <1>2, <1>3 DEF Runtime

-----------------------------------------------------------------------------
(* Steps that count and write nothing. *)

(* Usage records are moved by their own calls only. *)
LEMMA UsageStep ==
  ASSUME Typed, [Next]_vars, NEW u \in Usage
  PROVE  pc'[u] = pc[u] \/ handleUsage(u)
<1> USE CallerKinds
<1>1. ASSUME NEW p \in Committers, Reconfigure(p) \/ updateAccountConfig(p) \/ commitSnapshotAfter(p)
      PROVE  pc'[u] = pc[u]
  BY <1>1, MovedCommitter, NamesAssumption DEF Moved
<1>2. ASSUME NEW v \in Usage, v # u, handleUsage(v)
      PROVE  pc'[u] = pc[u]
  BY <1>2, MovedUsage DEF Moved
<1>3. ASSUME NEW p \in Refreshers, forceRefresh(p)
      PROVE  pc'[u] = pc[u]
  BY <1>3, MovedRefresh, NamesAssumption DEF Moved
<1>4. ASSUME NEW p \in Stoppers, shutdown(p)
      PROVE  pc'[u] = pc[u]
  BY <1>4, MovedShutdown, NamesAssumption DEF Moved
<1>5. ASSUME NEW p \in Unblockers, NEW chosen \in SUBSET Accounts, unblock(p, chosen)
      PROVE  pc'[u] = pc[u]
  BY <1>5, MovedOther, NamesAssumption DEF Moved
<1>6. ASSUME NEW p \in Callers, Refuse(p)
      PROVE  pc'[u] = pc[u]
  <2>1. p # u
    BY <1>6 DEF Refuse
  <2> QED BY <1>6, <2>1, MovedOther DEF Moved
<1>7. CASE UNCHANGED vars
  BY <1>7 DEF vars
<1> QED BY <1>1, <1>2, <1>3, <1>4, <1>5, <1>6, <1>7, MovedOther DEF Next, Quiescent

(* The usage records that have been counted stay where they are, and no    *)
(* other comes to be written.                                              *)
UsageStays ==
  \A u \in Usage :
    /\ pc[u] \in {"write", "ok", "error"} => pc'[u] = pc[u]
    /\ pc'[u] = "write" => pc[u] = "write" /\ local'[u] = local[u]

(* No other step moves counted usage. *)
LEMMA UsageStaysStep ==
  ASSUME Typed, [Next]_vars, \A u \in Usage : ~WriteUsage(u) /\ \A a \in Accounts : ~ApplyUsage(u, a)
  PROVE  UsageStays
<1> SUFFICES ASSUME NEW u \in Usage
             PROVE  /\ pc[u] \in {"write", "ok", "error"} => pc'[u] = pc[u]
                    /\ pc'[u] = "write" => pc[u] = "write" /\ local'[u] = local[u]
  BY DEF UsageStays
<1>1. pc'[u] = "write" => pc[u] = "write" /\ local'[u] = local[u]
  BY UsageWaits
<1>2. pc[u] = "write" => pc'[u] = "write"
  BY UsageStep DEF handleUsage, LockUsage, DropUsage
<1> QED BY <1>1, <1>2, DoneStays, CallerKinds

(* What is counted, written and flagged stays. *)
LedgerSame ==
  /\ counted' = counted /\ disk' = disk /\ r'.persisted = r.persisted
  /\ \A a \in Accounts : /\ r'.snapshot.quota[a].events = r.snapshot.quota[a].events
                         /\ r'.snapshot.quota[a].warned = r.snapshot.quota[a].warned

(* A poll counts and writes nothing when it applies its answer. *)
LEMMA LedgerAnswer ==
  ASSUME Base, NEW w \in Workers, NEW ok \in BOOLEAN, ApplyAnswer(w, ok)
  PROVE  LedgerSame
<1>1. /\ r'.snapshot.quota = IF ok THEN [r.snapshot.quota EXCEPT ![w.account] =
                                            [r.snapshot.quota[w.account] EXCEPT !.auth = work[w].stamp]]
                              ELSE r.snapshot.quota
      /\ r'.persisted = r.persisted
  BY ApplyAnswerEffect DEF Base
<1>2. r.snapshot.quota \in [Accounts -> Account]
  BY DEF Base, Typed, Runtime, Snapshot
<1>3. \A a \in Accounts : /\ r'.snapshot.quota[a].events = r.snapshot.quota[a].events
                          /\ r'.snapshot.quota[a].warned = r.snapshot.quota[a].warned
  BY <1>1, <1>2 DEF Account
<1> QED BY <1>1, <1>3 DEF LedgerSame, ApplyAnswer

(* unblock counts and writes nothing. *)
LEMMA LedgerUnblock ==
  ASSUME Base, NEW p \in Unblockers, NEW chosen \in SUBSET Accounts, unblock(p, chosen)
  PROVE  LedgerSame
<1>1. r \in Runtime /\ r.snapshot \in Snapshot /\ r.snapshot.quota \in [Accounts -> Account]
  BY DEF Base, Typed, Runtime, Snapshot
<1> DEFINE quota == [a \in Accounts |-> IF a \in chosen THEN [r.snapshot.quota[a] EXCEPT !.blocked = FALSE]
                                        ELSE r.snapshot.quota[a]]
<1>2. \A a \in Accounts : quota[a].events = r.snapshot.quota[a].events /\ quota[a].warned = r.snapshot.quota[a].warned
  BY <1>1 DEF Account
<1>3. r' = [r EXCEPT !.snapshot.quota = quota]
  BY DEF unblock
<1> HIDE DEF quota
<1>4. r'.snapshot.quota = quota /\ r'.persisted = r.persisted
  BY <1>1, <1>3 DEF Runtime, Snapshot
<1> QED BY Zenon, <1>2, <1>4 DEF LedgerSame, unblock

(* No step but Publish, ApplyUsage and the three writes counts, writes or  *)
(* flags.                                                                  *)
LEMMA LedgerStep ==
  ASSUME Base, [Next]_vars, \A p \in Committers : ~Publish(p), \A p \in Stoppers : ~FinalWrite(p),
         \A u \in Usage : ~WriteUsage(u) /\ \A a \in Accounts : ~ApplyUsage(u, a),
         \A w \in Workers : ~WritePoll(w)
  PROVE  LedgerSame
<1> DEFINE Same == counted' = counted /\ disk' = disk /\ r'.persisted = r.persisted /\ r'.snapshot = r.snapshot
<1>0. Typed
  BY DEF Base
<1>1. ASSUME NEW p \in Committers, Reconfigure(p) \/ updateAccountConfig(p) \/ commitSnapshotAfter(p)
      PROVE  Same
  <2>1. CASE RejectReconfigure(p)
    BY <1>0, <2>1, RejectEffect DEF RejectReconfigure
  <2>2. CASE Reconfigure(p) /\ ~RejectReconfigure(p)
    BY Zenon, <2>2 DEF Reconfigure, BeginReconfigure, LoadStaged
  <2>3. CASE updateAccountConfig(p)
    BY Zenon, <2>3 DEF updateAccountConfig, BeginUpdate, CloneLive, RejectUpdate
  <2>4. CASE commitSnapshotAfter(p)
    BY Zenon, <2>4 DEF commitSnapshotAfter, LockSettings, LockPollers, LockPersist, AbortCommit, Retire
  <2> QED BY <1>1, <2>1, <2>2, <2>3, <2>4
<1>2. ASSUME NEW u \in Usage, handleUsage(u)
      PROVE  Same
  BY <1>2 DEF handleUsage, LockUsage, DropUsage
<1>3. ASSUME NEW w \in Workers, poll(w), \A ok \in BOOLEAN : ~ApplyAnswer(w, ok)
      PROVE  Same
  BY Zenon, <1>3 DEF poll, StartPoll, StopPoller, DropAnswer, LockPoll
<1>4. ASSUME NEW p \in Refreshers, forceRefresh(p)
      PROVE  Same
  <2>1. CASE JoinRefresh(p) \/ FollowRefresh(p) \/ HangUp(p)
    BY <2>1 DEF JoinRefresh, FollowRefresh, HangUp
  <2>2. CASE LeadRefresh(p) \/ EndRefresh(p)
    BY <1>0, <2>2, RefreshEffect DEF LeadRefresh, EndRefresh
  <2> QED BY <1>4, <2>1, <2>2 DEF forceRefresh
<1>5. ASSUME NEW p \in Stoppers, shutdown(p)
      PROVE  Same
  <2>1. CASE JoinShutdown(p) \/ WaitGroup(p) \/ LockFinal(p) \/ FollowShutdown(p)
    BY <2>1 DEF JoinShutdown, WaitGroup, LockFinal, FollowShutdown
  <2>2. CASE BeginShutdown(p)
    BY <1>0, <2>2, BeginShutdownEffect DEF BeginShutdown
  <2>3. CASE FinishShutdown(p)
    BY Zenon, <1>0, <2>3, FinishShutdownEffect DEF FinishShutdown
  <2> QED BY <1>5, <2>1, <2>2, <2>3 DEF shutdown
<1>6. ASSUME NEW p \in Callers, Refuse(p)
      PROVE  Same
  BY <1>6 DEF Refuse
<1>7. CASE UNCHANGED vars
  BY <1>7 DEF vars, LedgerSame
<1>8. Same => LedgerSame
  BY DEF LedgerSame
<1> HIDE DEF Same
<1> QED
  BY <1>1, <1>2, <1>3, <1>4, <1>5, <1>6, <1>7, <1>8, LedgerAnswer, LedgerUnblock, CallerKinds DEF Next, Quiescent

(* A staged snapshot of another directory does not notice writes to the    *)
(* live one.                                                               *)
LEMMA StagedStep ==
  ASSUME Base, StagedFromDisk, [Next]_vars, \A p \in Committers : ~Publish(p),
         \A d \in Dirs : r.snapshot.gen = 0 \/ d # LiveDir => disk'[d] = disk[d]
  PROVE  StagedFromDisk'
<1>0. Typed /\ Calls /\ Live /\ Working
  BY DEF Base
<1> SUFFICES ASSUME NEW p \in Reconfigurers, pc'[p] \in Staging, ~SameStore(r'.snapshot, local'[p].snapshot),
                    NEW a \in local'[p].snapshot.managed
             PROVE  local'[p].snapshot.quota[a] = disk'[local'[p].snapshot.store.dir][a]
  BY DEF StagedFromDisk
<1>1. Frame(r.snapshot, r'.snapshot)
  BY <1>0, KeptStep DEF Kept
<1>2. CASE pc[p] \in Staging /\ local'[p] = local[p]
  <2>1. ~SameStore(r.snapshot, local[p].snapshot)
    BY <1>1, <1>2 DEF SameStore, Frame
  <2>2. local[p].snapshot.store.dir \in Dirs /\ (r.snapshot.gen = 0 \/ local[p].snapshot.store.dir # LiveDir)
    BY <1>0, <1>2, <2>1, CallerKinds DEF SameStore, LiveDir, Calls, CallOK, Opened, Store
  <2> QED BY <1>2, <2>1, <2>2 DEF StagedFromDisk
<1>3. CASE LoadStaged(p)
  <2>1. /\ local[p].snapshot \in Snapshot
        /\ local'[p].snapshot.store = local[p].snapshot.store
        /\ local'[p].snapshot.managed = local[p].snapshot.managed
        /\ \A b \in Accounts : local'[p].snapshot.quota[b] =
             IF b \in local[p].snapshot.managed THEN disk[local[p].snapshot.store.dir][b] ELSE NoAccount
    BY <1>0, <1>3, LoadStagedEffect
  <2>2. disk' = disk /\ a \in Accounts
    BY Zenon, <1>3, <2>1 DEF LoadStaged, Snapshot
  <2> QED BY <2>1, <2>2
<1>4. p \in Committers /\ p \notin Updaters
  BY CallerKinds, NamesAssumption
<1> QED BY <1>0, <1>2, <1>3, <1>4, StagingEntered

-----------------------------------------------------------------------------
(* The invariant, step by step. *)

(* Usage is counted for managed accounts. *)
LEMMA CountedManaged ==
  ASSUME Recorded, r.snapshot.gen # 0, NEW a \in Accounts, NEW u \in counted[LiveDir][a]
  PROVE  a \in r.snapshot.managed
BY DEF Recorded

(* Copies keep their address while nothing is published. *)
LEMMA AddressedKept ==
  ASSUME Base, Addressed, [Next]_vars, \A p \in Committers : ~Publish(p)
  PROVE  Addressed'
<1>0. Typed /\ Calls /\ Live /\ Working
  BY DEF Base
<1>1. Frame(r.snapshot, r'.snapshot)
  BY <1>0, KeptStep DEF Kept
<1> SUFFICES ASSUME NEW j \in Job, Carried(j)'
             PROVE  /\ r'.snapshot.gen # 0
                    /\ pc'[j.store.handle] \in {"retire", "ok", "error"}
                    /\ j.store.handle = r'.snapshot.store.handle => j.store = r'.snapshot.store
  BY DEF Addressed
<1>2. j.store.handle \in Callers
  BY CallerKinds DEF Job, Store
<1>3. pc[j.store.handle] \in {"retire", "ok", "error"} => pc'[j.store.handle] \in {"retire", "ok", "error"}
  BY <1>0, <1>2, DoneStays
<1>4. CASE Carried(j)
  BY <1>1, <1>3, <1>4 DEF Addressed, Frame
<1>5. CASE Fresh(j)
  BY <1>0, <1>1, <1>3, <1>5 DEF Fresh, Frame, Live
<1> QED BY <1>4, <1>5, CarriedStep

(* A step that counts, writes and publishes nothing. *)
LEMMA UsageCalm ==
  ASSUME Base, UsageKept, [Next]_vars, \A p \in Committers : ~Publish(p), UsageStays, LedgerSame
  PROVE  UsageKept'
<1>0. Typed /\ Calls /\ Live /\ Working
  BY DEF Base
<1>1. Frame(r.snapshot, r'.snapshot)
  BY <1>0, KeptStep DEF Kept
<1>2. /\ r'.snapshot.gen = r.snapshot.gen /\ r'.snapshot.store = r.snapshot.store
      /\ r'.snapshot.managed = r.snapshot.managed /\ LiveDir' = LiveDir
  BY <1>1 DEF Frame, LiveDir
<1>3. counted \in [Dirs -> [Accounts -> SUBSET Usage]] /\ (r.snapshot.gen # 0 => LiveDir \in Dirs)
      /\ r.snapshot.managed \subseteq Accounts
  BY <1>0 DEF Typed, Live, LiveDir, Store, Runtime, Snapshot
<1>4. Addressed'
  BY AddressedKept DEF UsageKept
<1>5. StagedFromDisk'
  BY StagedStep DEF UsageKept, LedgerSame
<1>6. \A d \in Dirs, a \in Accounts : \A u \in counted[d][a] :
        u \in Usage /\ pc[u] \in {"write", "ok", "error"} /\ pc'[u] = pc[u]
  BY <1>3 DEF UsageKept, Recorded, UsageStays
<1>7. Recorded'
  BY <1>2, <1>6 DEF UsageKept, Recorded, LedgerSame
<1>8. Writing'
  <2> SUFFICES ASSUME NEW u \in Usage, pc'[u] = "write"
               PROVE  /\ local'[u].gen = r'.snapshot.gen /\ local'[u].store = r'.snapshot.store
                      /\ local'[u].n > r'.persisted
                      /\ \A d \in Dirs, a \in Accounts : u \in counted'[d][a] => d = LiveDir'
                      /\ \A a \in Accounts : u \in counted'[LiveDir'][a] => u \in local'[u].accounts[a].events
    BY DEF Writing
  <2>1. pc[u] = "write" /\ local'[u] = local[u]
    BY DEF UsageStays
  <2> QED BY <1>2, <2>1 DEF UsageKept, Writing, LedgerSame
<1>9. LiveCounts'
  <2> SUFFICES ASSUME r'.snapshot.gen # 0, NEW a \in r'.snapshot.managed, NEW u \in counted'[LiveDir'][a],
                      pc'[u] \in {"write", "ok"}
               PROVE  u \in r'.snapshot.quota[a].events
    BY DEF LiveCounts
  <2>1. a \in Accounts /\ u \in counted[LiveDir][a] /\ pc[u] \in {"write", "ok"}
    BY <1>2, <1>3, <1>6 DEF LedgerSame
  <2> QED BY <1>2, <2>1 DEF UsageKept, LiveCounts, LedgerSame
<1>10. DiskKeepsAcked'
  BY <1>6 DEF UsageKept, DiskKeepsAcked, Acked, LedgerSame
<1>11. LossIsFlagged'
  <2> SUFFICES ASSUME r'.snapshot.gen # 0, NEW a \in r'.snapshot.managed, ~r'.snapshot.quota[a].warned,
                      NEW u \in (counted'[LiveDir'][a] \cap r'.snapshot.quota[a].events) \ disk'[LiveDir'][a].events
               PROVE  pc'[u] = "write"
    BY DEF LossIsFlagged, LiveDir, Configured
  <2>1. /\ r.snapshot.gen # 0 /\ a \in r.snapshot.managed /\ a \in Accounts /\ ~r.snapshot.quota[a].warned
        /\ u \in (counted[LiveDir][a] \cap r.snapshot.quota[a].events) \ disk[LiveDir][a].events
    BY <1>2, <1>3 DEF LedgerSame
  <2>2. pc[u] = "write"
    BY <2>1 DEF UsageKept, LossIsFlagged, LiveDir, Configured
  <2> QED BY <1>3, <1>6, <2>1, <2>2
<1>12. ASSUME NEW j \in Job, Carried(j)', Pending(j)', ~Carried(j)
       PROVE  j.accounts = r'.snapshot.quota /\ r'.snapshot.gen # 0
  BY <1>2, <1>12, CarriedStep DEF Fresh
<1>13. ASSUME NEW j \in Job, Carried(j)', Pending(j)', Carried(j)
       PROVE  Pending(j) /\ r.snapshot.gen # 0
  BY <1>2, <1>13 DEF Pending, LedgerSame, UsageKept, Addressed
<1>14. CopiesCount'
  <2> SUFFICES ASSUME NEW j \in Job, Carried(j)', Pending(j)', NEW a \in Accounts, NEW u \in counted'[LiveDir'][a],
                      pc'[u] = "ok" \/ (pc'[u] = "write" /\ local'[u].n <= j.n)
               PROVE  u \in j.accounts[a].events
    BY DEF CopiesCount
  <2>1. CASE Carried(j)
    <3>1. u \in counted[LiveDir][a] /\ u \in Usage /\ pc'[u] = pc[u]
      BY <1>2, <1>3, <1>6, <1>13, <2>1 DEF LedgerSame
    <3>2. pc[u] = "write" => local'[u] = local[u]
      BY <3>1 DEF UsageStays
    <3> QED BY <1>13, <2>1, <3>1, <3>2 DEF UsageKept, CopiesCount
  <2>2. CASE ~Carried(j)
    BY <1>7, <1>9, <1>12, <2>2 DEF Recorded, LiveCounts
  <2> QED BY <2>1, <2>2
<1>15. CopiesFlag'
  <2> SUFFICES ASSUME NEW j \in Job, Carried(j)', Pending(j)', NEW a \in Accounts,
                      NEW u \in counted'[LiveDir'][a] \cap r'.snapshot.quota[a].events
               PROVE  \/ u \in j.accounts[a].events
                      \/ r'.snapshot.quota[a].warned
                      \/ pc'[u] = "write" /\ local'[u].n > j.n
    BY DEF CopiesFlag
  <2>1. CASE Carried(j)
    <3>1. u \in counted[LiveDir][a] \cap r.snapshot.quota[a].events /\ u \in Usage /\ pc'[u] = pc[u]
      BY <1>2, <1>3, <1>6, <1>13, <2>1 DEF LedgerSame
    <3>2. pc[u] = "write" => local'[u] = local[u]
      BY <3>1 DEF UsageStays
    <3> QED BY <1>13, <2>1, <3>1, <3>2 DEF UsageKept, CopiesFlag, LedgerSame
  <2>2. CASE ~Carried(j)
    BY <1>12, <2>2
  <2> QED BY <2>1, <2>2
<1> QED BY <1>4, <1>5, <1>7, <1>8, <1>9, <1>10, <1>11, <1>14, <1>15 DEF UsageKept

(* What counting a record changes. *)
LEMMA CountingUsage ==
  ASSUME Base, Recorded, NEW u \in Usage, NEW a \in Accounts, ApplyUsage(u, a)
  PROVE  /\ pc[u] = "apply" /\ pc'[u] = "write"
         /\ \A v \in Callers \ {u} : pc'[v] = pc[v] /\ local'[v] = local[v]
         /\ \A v \in Usage : pc[v] # "write"
         /\ disk' = disk /\ r'.persisted = r.persisted /\ Fresh(local'[u])
         /\ \A d \in Dirs, b \in Accounts :
              /\ counted'[d][b] \subseteq counted[d][b] \cup {u}
              /\ u \notin counted[d][b]
              /\ u \in counted'[d][b] => d = LiveDir /\ b \in r.snapshot.managed /\ u \in r'.snapshot.quota[b].events
         /\ \A b \in Accounts :
              /\ r'.snapshot.quota[b].warned = r.snapshot.quota[b].warned
              /\ r.snapshot.quota[b].events \subseteq r'.snapshot.quota[b].events
              /\ r'.snapshot.quota[b].events \subseteq r.snapshot.quota[b].events \cup {u}
<1>0. Typed /\ Live
  BY DEF Base
<1>1. pc[u] = "apply" /\ pc'[u] = "write" /\ \A v \in Callers \ {u} : pc'[v] = pc[v] /\ local'[v] = local[v]
  BY <1>0, CallerKinds DEF ApplyUsage, Goto, Keep, Typed
<1>2. \A v \in Usage : pc[v] # "write"
  <2>1. lock["persist"] = u
    BY <1>1, CallerKinds DEF Base, Locked, Holds
  <2> QED BY <1>1, <2>1, PersistHeld DEF Base
<1>3. disk' = disk /\ r'.persisted = r.persisted /\ Fresh(local'[u])
  BY Zenon, <1>0, FreshUsage, ApplyUsageEffect DEF ApplyUsage
<1>4. r.snapshot.quota \in [Accounts -> Account]
      /\ r'.snapshot.quota = [r.snapshot.quota EXCEPT ![a] = Count(r.snapshot.quota[a], u)]
  BY Zenon, <1>0, ApplyUsageEffect DEF Typed, Runtime, Snapshot
<1>5. /\ Count(r.snapshot.quota[a], u).warned = r.snapshot.quota[a].warned
      /\ r.snapshot.quota[a].events \subseteq Count(r.snapshot.quota[a], u).events
      /\ Count(r.snapshot.quota[a], u).events \subseteq r.snapshot.quota[a].events \cup {u}
      /\ u \notin Throttled => u \in Count(r.snapshot.quota[a], u).events
  BY <1>4 DEF Count, Account
<1>6. \A b \in Accounts :
              /\ r'.snapshot.quota[b].warned = r.snapshot.quota[b].warned
              /\ r.snapshot.quota[b].events \subseteq r'.snapshot.quota[b].events
              /\ r'.snapshot.quota[b].events \subseteq r.snapshot.quota[b].events \cup {u}
  BY <1>4, <1>5
<1>7. /\ counted \in [Dirs -> [Accounts -> SUBSET Usage]]
      /\ counted' = [counted EXCEPT ![LiveDir] = [counted[LiveDir] EXCEPT ![a] = counted[LiveDir][a] \cup ({u} \ Throttled)]]
      /\ a \in r.snapshot.managed
  BY <1>0 DEF Typed, ApplyUsage, LiveDir
<1>8. \A d \in Dirs, b \in Accounts : u \notin counted[d][b]
  BY <1>1 DEF Recorded
<1>9. \A d \in Dirs, b \in Accounts :
        counted'[d][b] = IF d = LiveDir /\ b = a THEN counted[d][b] \cup ({u} \ Throttled) ELSE counted[d][b]
  BY Zenon, <1>7
<1>10. u \notin Throttled => u \in r'.snapshot.quota[a].events
  BY <1>4, <1>5
<1>11. \A d \in Dirs, b \in Accounts :
              /\ counted'[d][b] \subseteq counted[d][b] \cup {u}
              /\ u \notin counted[d][b]
              /\ u \in counted'[d][b] => d = LiveDir /\ b \in r.snapshot.managed /\ u \in r'.snapshot.quota[b].events
  BY <1>7, <1>8, <1>9, <1>10
<1> QED BY <1>1, <1>2, <1>3, <1>6, <1>11

(* Counting a record keeps the invariant: it is in the live snapshot and   *)
(* in the copy that its own call will write before persistMu is released.  *)
LEMMA UsageApply ==
  ASSUME Base, UsageKept, [Next]_vars, \A p \in Committers : ~Publish(p),
         NEW u \in Usage, NEW a \in Accounts, ApplyUsage(u, a)
  PROVE  UsageKept'
<1>0. Typed /\ Calls /\ Live /\ Working /\ Recorded
  BY DEF Base, UsageKept
<1>1. Frame(r.snapshot, r'.snapshot)
  BY <1>0, KeptStep DEF Kept
<1>2. /\ r'.snapshot.gen = r.snapshot.gen /\ r'.snapshot.store = r.snapshot.store
      /\ r'.snapshot.managed = r.snapshot.managed /\ LiveDir' = LiveDir
  BY <1>1 DEF Frame, LiveDir
<1>3. /\ counted \in [Dirs -> [Accounts -> SUBSET Usage]]
      /\ r.snapshot.gen # 0 /\ LiveDir \in Dirs
      /\ r.snapshot.managed \subseteq Accounts
  BY <1>0, FreshUsage DEF Typed, Live, LiveDir, Store, Runtime, Snapshot, Fresh
<1> DEFINE Effect ==
         /\ pc[u] = "apply" /\ pc'[u] = "write"
         /\ \A v \in Callers \ {u} : pc'[v] = pc[v] /\ local'[v] = local[v]
         /\ \A v \in Usage : pc[v] # "write"
         /\ disk' = disk /\ r'.persisted = r.persisted /\ Fresh(local'[u])
         /\ \A d \in Dirs, b \in Accounts :
              /\ counted'[d][b] \subseteq counted[d][b] \cup {u}
              /\ u \notin counted[d][b]
              /\ u \in counted'[d][b] => d = LiveDir /\ b \in r.snapshot.managed /\ u \in r'.snapshot.quota[b].events
         /\ \A b \in Accounts :
              /\ r'.snapshot.quota[b].warned = r.snapshot.quota[b].warned
              /\ r.snapshot.quota[b].events \subseteq r'.snapshot.quota[b].events
              /\ r'.snapshot.quota[b].events \subseteq r.snapshot.quota[b].events \cup {u}
<1>4. Effect
  BY <1>0, CountingUsage
<1>5. Addressed' /\ StagedFromDisk'
  BY <1>4, AddressedKept, StagedStep DEF UsageKept
<1>6. \A d \in Dirs, b \in Accounts : \A v \in counted'[d][b] :
        v \in Usage /\ (v # u => v \in counted[d][b] /\ pc[v] \in {"ok", "error"} /\ pc'[v] = pc[v])
  <2> SUFFICES ASSUME NEW d \in Dirs, NEW b \in Accounts, NEW v \in counted'[d][b]
               PROVE  v \in Usage /\ (v # u => v \in counted[d][b] /\ pc[v] \in {"ok", "error"} /\ pc'[v] = pc[v])
    OBVIOUS
  <2>1. v = u \/ v \in counted[d][b]
    BY <1>4
  <2>2. v \in Usage
    BY <1>3, <2>1
  <2> QED BY <1>0, <1>4, <2>1, <2>2, CallerKinds DEF Recorded
<1>7. Recorded'
  <2>1. \A d \in Dirs, b \in Accounts : \A v \in counted'[d][b] : pc'[v] \in {"write", "ok", "error"}
    BY <1>4, <1>6
  <2>2. \A b \in Accounts \ r'.snapshot.managed : counted'[LiveDir'][b] = {}
    BY <1>0, <1>2, <1>3, <1>4 DEF Recorded
  <2> QED BY <2>1, <2>2 DEF Recorded
<1>8. Writing'
  <2> SUFFICES ASSUME NEW v \in Usage, pc'[v] = "write"
               PROVE  /\ local'[v].gen = r'.snapshot.gen /\ local'[v].store = r'.snapshot.store
                      /\ local'[v].n > r'.persisted
                      /\ \A d \in Dirs, b \in Accounts : v \in counted'[d][b] => d = LiveDir'
                      /\ \A b \in Accounts : v \in counted'[LiveDir'][b] => v \in local'[v].accounts[b].events
    BY DEF Writing
  <2>1. v = u
    BY <1>4, CallerKinds
  <2>2. local'[u].n > r'.persisted
    <3>1. local'[u].n = r.persistNext + 1 /\ r'.persisted = r.persisted
      BY Zenon, <1>4 DEF Fresh
    <3>2. r.persistNext \in Nat /\ r.persisted \in Nat
      BY Zenon, <1>0 DEF Typed, Runtime
    <3>3. r.persisted <= r.persistNext
      BY Zenon, <1>0 DEF Live
    <3> QED BY <3>1, <3>2, <3>3
  <2> QED BY Zenon, <1>2, <1>3, <1>4, <2>1, <2>2 DEF Fresh
<1>9. LiveCounts'
  <2> SUFFICES ASSUME NEW b \in r'.snapshot.managed, NEW v \in counted'[LiveDir'][b],
                      pc'[v] \in {"write", "ok"}
               PROVE  v \in r'.snapshot.quota[b].events
    BY DEF LiveCounts
  <2>1. CASE v = u
    BY Zenon, <1>2, <1>3, <1>4, <2>1
  <2>2. CASE v # u
    <3>1. v \in counted[LiveDir][b] /\ pc[v] \in {"write", "ok"}
      BY <1>2, <1>3, <1>6, <2>2
    <3> QED BY Zenon, <1>2, <1>3, <1>4, <3>1 DEF UsageKept, LiveCounts
  <2> QED BY <2>1, <2>2
<1>10. DiskKeepsAcked'
  <2>1. \A d \in Dirs, b \in Accounts : Acked(d, b)' \subseteq Acked(d, b)
    BY <1>4, <1>6 DEF Acked
  <2> QED BY Zenon, <1>4, <2>1 DEF UsageKept, DiskKeepsAcked
<1>11. LossIsFlagged'
  <2> SUFFICES ASSUME NEW b \in r'.snapshot.managed, ~r'.snapshot.quota[b].warned,
                      NEW v \in (counted'[LiveDir'][b] \cap r'.snapshot.quota[b].events) \ disk'[LiveDir'][b].events
               PROVE  pc'[v] = "write"
    BY DEF LossIsFlagged, LiveDir, Configured
  <2>1. CASE v = u
    BY Zenon, <1>4, <2>1
  <2>2. CASE v # u
    <3>1. /\ b \in r.snapshot.managed /\ b \in Accounts /\ ~r.snapshot.quota[b].warned
          /\ v \in (counted[LiveDir][b] \cap r.snapshot.quota[b].events) \ disk[LiveDir][b].events
      BY Zenon, <1>2, <1>3, <1>4, <1>6, <2>2
    <3>2. pc[v] = "write"
      BY Zenon, <1>3, <3>1 DEF UsageKept, LossIsFlagged, LiveDir, Configured
    <3> QED BY <1>2, <1>3, <1>6, <2>2, <3>1, <3>2
  <2> QED BY <2>1, <2>2
<1>12. ASSUME NEW j \in Job, Carried(j)', Pending(j)', ~Carried(j)
       PROVE  j.accounts = r'.snapshot.quota
  BY <1>2, <1>12, CarriedStep DEF Fresh
<1>13. ASSUME NEW j \in Job, Carried(j)', Pending(j)', Carried(j)
       PROVE  Pending(j) /\ local'[u].n > j.n
  <2>1. Pending(j)
    BY <1>2, <1>4, <1>13 DEF Pending
  <2>2. j.n <= r.persistNext /\ j.n \in Nat
    BY <1>13, CarriedType DEF Job
  <2>3. local'[u].n = r.persistNext + 1 /\ r.persistNext \in Nat
    BY Zenon, <1>0, <1>4 DEF Fresh, Typed, Runtime
  <2> QED BY <2>1, <2>2, <2>3
<1>14. CopiesCount'
  <2> SUFFICES ASSUME NEW j \in Job, Carried(j)', Pending(j)', NEW b \in Accounts, NEW v \in counted'[LiveDir'][b],
                      pc'[v] = "ok" \/ (pc'[v] = "write" /\ local'[v].n <= j.n)
               PROVE  v \in j.accounts[b].events
    BY DEF CopiesCount
  <2>1. CASE Carried(j)
    <3>1. local'[u].n \in Nat /\ j.n \in Nat
      BY Zenon, <1>4 DEF Fresh, Job
    <3>2. v # u
      <4>1. local'[u].n > j.n
        BY <1>13, <2>1
      <4>2. ~(local'[u].n <= j.n)
        BY <3>1, <4>1
      <4> QED BY Zenon, <1>4, <4>2
    <3>3. v \in counted[LiveDir][b] /\ pc[v] = "ok"
      BY <1>2, <1>3, <1>6, <3>2
    <3> QED BY Zenon, <1>13, <2>1, <3>3 DEF UsageKept, CopiesCount
  <2>2. CASE ~Carried(j)
    BY <1>2, <1>3, <1>7, <1>9, <1>12, <2>2 DEF Recorded, LiveCounts
  <2> QED BY <2>1, <2>2
<1>15. CopiesFlag'
  <2> SUFFICES ASSUME NEW j \in Job, Carried(j)', Pending(j)', NEW b \in Accounts,
                      NEW v \in counted'[LiveDir'][b] \cap r'.snapshot.quota[b].events
               PROVE  \/ v \in j.accounts[b].events
                      \/ r'.snapshot.quota[b].warned
                      \/ pc'[v] = "write" /\ local'[v].n > j.n
    BY DEF CopiesFlag
  <2>1. CASE Carried(j) /\ v = u
    BY Zenon, <1>4, <1>13, <2>1
  <2>2. CASE Carried(j) /\ v # u
    <3>1. v \in counted[LiveDir][b] \cap r.snapshot.quota[b].events /\ pc[v] \in {"ok", "error"}
      <4>1. v \in counted'[LiveDir][b] /\ v \in r'.snapshot.quota[b].events
        BY Zenon, <1>2
      <4>2. v \in counted[LiveDir][b] /\ pc[v] \in {"ok", "error"}
        BY Zenon, <1>3, <1>6, <2>2, <4>1
      <4>3. v \in r.snapshot.quota[b].events
        BY <1>4, <2>2, <4>1
      <4> QED BY Zenon, <4>2, <4>3
    <3> QED BY Zenon, <1>4, <1>13, <2>2, <3>1 DEF UsageKept, CopiesFlag
  <2>3. CASE ~Carried(j)
    BY Zenon, <1>12, <2>3
  <2> QED BY Zenon, <2>1, <2>2, <2>3
<1> QED BY <1>5, <1>7, <1>8, <1>9, <1>10, <1>11, <1>14, <1>15 DEF UsageKept

(* A copy that may take the place of the live state.json: it counts what   *)
(* was acknowledged, and what it lacks is flagged or yet to be written.    *)
Covers(accounts) ==
  /\ r.snapshot.gen # 0
  /\ \A a \in Accounts : \A u \in counted[LiveDir][a] :
       /\ pc[u] = "ok" => u \in accounts[a].events
       /\ u \in r.snapshot.quota[a].events =>
            u \in accounts[a].events \/ r.snapshot.quota[a].warned \/ pc[u] = "write"

(* A copy that will be written over the live state.json covers it. *)
LEMMA CopyCovers ==
  ASSUME UsageKept, NEW j \in Job, Carried(j), Pending(j)
  PROVE  Covers(j.accounts)
BY Zenon DEF UsageKept, Addressed, CopiesCount, CopiesFlag, Covers

(* What a write of state.json, by whoever makes it, may do. *)
WriteStep ==
  /\ counted' = counted
  /\ disk' = disk \/ \E accounts : Covers(accounts) /\ disk' = [disk EXCEPT ![LiveDir] = accounts]
  /\ r'.persisted >= r.persisted
  /\ \A a \in Accounts : /\ r'.snapshot.quota[a].events = r.snapshot.quota[a].events
                         /\ r.snapshot.quota[a].warned => r'.snapshot.quota[a].warned
  /\ \A j \in Job : Carried(j)' => Carried(j)
  /\ \A u \in Usage :
       /\ pc[u] \in {"ok", "error"} => pc'[u] = pc[u]
       /\ pc'[u] # "write"
       /\ pc[u] = "write" =>
            \/ pc'[u] = "ok" /\ disk' = [disk EXCEPT ![LiveDir] = local[u].accounts] /\ r'.persisted = local[u].n
            \/ pc'[u] = "error" /\ \A a \in r.snapshot.managed : r'.snapshot.quota[a].warned

(* A write keeps the invariant. *)
LEMMA UsageWritten ==
  ASSUME Base, UsageKept, [Next]_vars, \A p \in Committers : ~Publish(p), WriteStep
  PROVE  UsageKept'
<1>0. Typed /\ Calls /\ Live /\ Working /\ Recorded /\ Writing /\ CopiesCount /\ CopiesFlag /\ Addressed
  BY DEF Base, UsageKept
<1>1. Frame(r.snapshot, r'.snapshot)
  BY <1>0, KeptStep DEF Kept
<1>2. /\ r'.snapshot.gen = r.snapshot.gen /\ r'.snapshot.store = r.snapshot.store
      /\ r'.snapshot.managed = r.snapshot.managed /\ LiveDir' = LiveDir
  BY <1>1 DEF Frame, LiveDir
<1>3. /\ counted \in [Dirs -> [Accounts -> SUBSET Usage]]
      /\ r.snapshot.gen # 0 => LiveDir \in Dirs
      /\ r.snapshot.managed \subseteq Accounts
      /\ disk \in [Dirs -> [Accounts -> Account]]
      /\ r.persisted \in Nat
  BY <1>0 DEF Typed, Live, LiveDir, Store, Runtime, Snapshot
<1>4. Addressed'
  BY <1>0, AddressedKept
<1>5. StagedFromDisk'
  <2>1. \A d \in Dirs : r.snapshot.gen = 0 \/ d # LiveDir => disk'[d] = disk[d]
    BY <1>3 DEF WriteStep, Covers
  <2> QED BY <2>1, StagedStep DEF UsageKept
<1>6. \A d \in Dirs, a \in Accounts : \A u \in counted[d][a] :
        u \in Usage /\ (pc[u] = "write" \/ (pc[u] \in {"ok", "error"} /\ pc'[u] = pc[u]))
  BY <1>0, <1>3 DEF Recorded, WriteStep
<1>7. Recorded'
  BY <1>0, <1>2, <1>6 DEF Recorded, WriteStep
<1>8. Writing'
  BY DEF Writing, WriteStep
<1>9. LiveCounts'
  <2> SUFFICES ASSUME r'.snapshot.gen # 0, NEW a \in r'.snapshot.managed, NEW u \in counted'[LiveDir'][a],
                      pc'[u] \in {"write", "ok"}
               PROVE  u \in r'.snapshot.quota[a].events
    BY DEF LiveCounts
  <2>1. a \in Accounts /\ u \in counted[LiveDir][a] /\ pc[u] \in {"write", "ok"}
    BY <1>2, <1>3, <1>6 DEF WriteStep
  <2> QED BY Zenon, <1>2, <2>1 DEF UsageKept, LiveCounts, WriteStep
<1>10. DiskKeepsAcked'
  <2> SUFFICES ASSUME NEW d \in Dirs, NEW a \in Accounts, NEW u \in counted[d][a], pc'[u] = "ok"
               PROVE  u \in disk'[d][a].events
    BY DEF DiskKeepsAcked, Acked, WriteStep
  <2>1. CASE pc[u] = "ok"
    <3>1. u \in disk[d][a].events
      BY <2>1 DEF UsageKept, DiskKeepsAcked, Acked
    <3>2. ASSUME NEW accounts, Covers(accounts), disk' = [disk EXCEPT ![LiveDir] = accounts]
          PROVE  u \in disk'[d][a].events
      BY <1>3, <2>1, <3>1, <3>2 DEF Covers
    <3> QED BY <3>1, <3>2 DEF WriteStep
  <2>2. CASE pc[u] = "write"
    <3>1. u \in Usage
      BY <1>6
    <3>2. disk' = [disk EXCEPT ![LiveDir] = local[u].accounts]
      BY <2>2, <3>1 DEF WriteStep
    <3>3. d = LiveDir /\ u \in local[u].accounts[a].events
      BY <1>0, <2>2, <3>1 DEF Writing
    <3> QED BY <1>3, <3>2, <3>3
  <2> QED BY <1>6, <2>1, <2>2
<1>11. LossIsFlagged'
  <2> SUFFICES ASSUME r'.snapshot.gen # 0, NEW a \in r'.snapshot.managed, ~r'.snapshot.quota[a].warned,
                      NEW u \in (counted'[LiveDir'][a] \cap r'.snapshot.quota[a].events) \ disk'[LiveDir'][a].events
               PROVE  pc'[u] = "write"
    BY DEF LossIsFlagged, LiveDir, Configured
  <2>1. /\ r.snapshot.gen # 0 /\ a \in r.snapshot.managed /\ a \in Accounts /\ ~r.snapshot.quota[a].warned
        /\ u \in counted[LiveDir][a] \cap r.snapshot.quota[a].events /\ u \notin disk'[LiveDir][a].events
        /\ u \in Usage /\ LiveDir \in Dirs
    <3>1. u \in counted'[LiveDir'][a] /\ u \in r'.snapshot.quota[a].events /\ u \notin disk'[LiveDir'][a].events
      OBVIOUS
    <3>2. a \in r.snapshot.managed /\ r.snapshot.gen # 0 /\ LiveDir' = LiveDir /\ a \in Accounts /\ LiveDir \in Dirs
      BY <1>2, <1>3
    <3>3. counted' = counted
      BY DEF WriteStep
    <3>4. ~r.snapshot.quota[a].warned /\ u \in r.snapshot.quota[a].events
      BY Zenon, <3>1, <3>2 DEF WriteStep
    <3>5. u \in Usage
      BY <1>3, <3>1, <3>2, <3>3
    <3> QED BY Zenon, <3>1, <3>2, <3>3, <3>4, <3>5
  <2>2. CASE pc[u] = "write"
    <3>1. disk' = [disk EXCEPT ![LiveDir] = local[u].accounts]
      BY <2>1, <2>2 DEF WriteStep
    <3>2. u \in local[u].accounts[a].events
      BY Zenon, <1>0, <2>1, <2>2 DEF Writing
    <3> QED BY <1>3, <2>1, <3>1, <3>2
  <2>3. CASE pc[u] # "write" /\ disk' = disk
    BY Zenon, <2>1, <2>3 DEF UsageKept, LossIsFlagged, LiveDir, Configured
  <2>4. ASSUME pc[u] # "write", NEW accounts, Covers(accounts), disk' = [disk EXCEPT ![LiveDir] = accounts]
        PROVE  FALSE
    BY <1>3, <2>1, <2>4 DEF Covers
  <2> QED BY Zenon, <2>2, <2>3, <2>4 DEF WriteStep
<1>12. ASSUME NEW j \in Job, Carried(j)', Pending(j)'
       PROVE  /\ Carried(j) /\ Pending(j) /\ r.snapshot.gen # 0 /\ j.n > r'.persisted
              /\ \A a \in Accounts : \A u \in counted'[LiveDir'][a] :
                   u \in counted[LiveDir][a] /\ u \in Usage /\ a \in r.snapshot.managed
  <2>1. Carried(j) /\ r.snapshot.gen # 0
    BY <1>0, <1>12 DEF WriteStep, Addressed
  <2>2. j.n > r'.persisted /\ j.store = r.snapshot.store
    BY <1>2, <1>12 DEF Pending
  <2>3. r'.persisted \in Nat
    BY TypedStep DEF Typed, Runtime
  <2>4. Pending(j)
    <3>1. r'.persisted >= r.persisted /\ r.persisted \in Nat
      BY <1>3 DEF WriteStep
    <3>2. j.n \in Nat
      BY DEF Job
    <3>3. j.n > r.persisted
      BY <2>2, <2>3, <3>1, <3>2
    <3> QED BY Zenon, <2>2, <3>3 DEF Pending
  <2> QED BY Zenon, <1>0, <1>2, <1>3, <2>1, <2>2, <2>4, CountedManaged DEF WriteStep
<1>13. ASSUME NEW j \in Job, Carried(j)', Pending(j)', NEW u \in Usage, pc[u] = "write", r'.persisted = local[u].n
       PROVE  local[u].n <= j.n /\ ~(local[u].n > j.n)
  <2>1. j.n > r'.persisted
    BY <1>12, <1>13
  <2>2. r'.persisted \in Nat /\ j.n \in Nat
    BY Zenon, TypedStep DEF Typed, Runtime, Job
  <2> QED BY <1>13, <2>1, <2>2
<1>14. CopiesCount'
  <2> SUFFICES ASSUME NEW j \in Job, Carried(j)', Pending(j)', NEW a \in Accounts, NEW u \in counted'[LiveDir'][a],
                      pc'[u] = "ok" \/ (pc'[u] = "write" /\ local'[u].n <= j.n)
               PROVE  u \in j.accounts[a].events
    BY DEF CopiesCount
  <2>1. Carried(j) /\ Pending(j) /\ u \in counted[LiveDir][a] /\ u \in Usage /\ r.snapshot.gen # 0
    BY <1>12
  <2>2. pc'[u] = "ok"
    BY <2>1 DEF WriteStep
  <2>3. CASE pc[u] = "write"
    <3>1. local[u].n <= j.n
      BY Zenon, <1>13, <2>1, <2>2, <2>3 DEF WriteStep
    <3> QED BY <1>0, <2>1, <2>3, <3>1 DEF CopiesCount
  <2>4. CASE pc[u] # "write"
    <3>1. pc[u] = "ok"
      BY <1>3, <1>6, <2>1, <2>2, <2>4
    <3> QED BY Zenon, <1>0, <2>1, <3>1 DEF CopiesCount
  <2> QED BY <2>3, <2>4
<1>15. CopiesFlag'
  <2> SUFFICES ASSUME NEW j \in Job, Carried(j)', Pending(j)', NEW a \in Accounts,
                      NEW u \in counted'[LiveDir'][a] \cap r'.snapshot.quota[a].events
               PROVE  u \in j.accounts[a].events \/ r'.snapshot.quota[a].warned
    BY Zenon DEF CopiesFlag
  <2>1. /\ Carried(j) /\ Pending(j) /\ u \in counted[LiveDir][a] /\ u \in Usage /\ a \in r.snapshot.managed
        /\ u \in r.snapshot.quota[a].events
    BY Zenon, <1>12 DEF WriteStep
  <2>2. \/ u \in j.accounts[a].events
        \/ r.snapshot.quota[a].warned
        \/ pc[u] = "write" /\ local[u].n > j.n
    BY Zenon, <1>0, <2>1 DEF CopiesFlag
  <2>3. CASE pc[u] = "write" /\ local[u].n > j.n
    BY Zenon, <1>13, <2>1, <2>3 DEF WriteStep
  <2> QED BY Zenon, <2>2, <2>3 DEF WriteStep
<1> QED BY <1>4, <1>5, <1>7, <1>8, <1>9, <1>10, <1>11, <1>14, <1>15 DEF UsageKept

(* The write of handleUsage. *)
LEMMA WriteStepUsage ==
  ASSUME Base, HandlesKept, UsageKept, NEW u \in Usage, WriteUsage(u)
  PROVE  WriteStep
<1> DEFINE j == local[u]
<1>0. Typed /\ Calls /\ Addressed /\ Writing
  BY DEF Base, UsageKept
<1>1. /\ pc[u] = "write" /\ counted' = counted /\ local' = local /\ work' = work
      /\ \A v \in Callers \ {u} : pc'[v] = pc[v]
      /\ \/ persistStateLocked(j, TRUE) /\ pc'[u] = "ok"
         \/ persistStateLocked(j, FALSE) /\ pc'[u] = "error"
  BY Zenon, <1>0, CallerKinds DEF WriteUsage, Goto, Typed
<1>2. j \in Job /\ Carried(j) /\ j.gen = r.snapshot.gen /\ j.store = r.snapshot.store /\ j.n > r.persisted
  BY Zenon, <1>0, <1>1, CallerKinds DEF Calls, CallOK, Carried, Writing
<1>3. Covers(j.accounts)
  BY <1>2, CopyCovers DEF Pending
<1>4. (\A q \in Committers : pc[q] # "retire") /\ (\A v \in Usage \ {u} : pc[v] # "write")
  <2>1. lock["persist"] = u
    BY Zenon, <1>1, CallerKinds DEF Base, Locked, Holds
  <2> QED BY <2>1, PersistHeld, NamesAssumption DEF Base
<1>5. \A i \in Job : Carried(i)' => Carried(i)
  BY <1>1, CallerKinds DEF Carried
<1>6. r.persisted \in Nat /\ j.n \in Nat /\ r.snapshot \in Snapshot
  BY Zenon, <1>0, <1>2 DEF Typed, Runtime, Job
<1>7. CASE persistStateLocked(j, TRUE) /\ pc'[u] = "ok"
  <2>1. Lands(j) /\ r'.persisted = j.n /\ r'.snapshot = r.snapshot
    <3>1. \/ j.n <= r.persisted /\ r' = r /\ disk' = disk
          \/ j.n > r.persisted /\ Lands(j) /\ r'.persisted = j.n /\ r'.snapshot = r.snapshot
      <4> HIDE DEF j
      <4> QED BY Zenon, <1>0, <1>2, <1>4, <1>7, PersistOk
    <3>2. ~(j.n <= r.persisted)
      BY <1>2, <1>6
    <3> QED BY Zenon, <3>1, <3>2
  <2>2. \A v \in Usage :
       /\ pc[v] \in {"ok", "error"} => pc'[v] = pc[v]
       /\ pc'[v] # "write"
       /\ pc[v] = "write" =>
            pc'[v] = "ok" /\ disk' = [disk EXCEPT ![LiveDir] = local[v].accounts] /\ r'.persisted = local[v].n
    BY Zenon, <1>1, <1>4, <1>7, <2>1, CallerKinds DEF Lands
  <2>3. r'.persisted >= r.persisted
    <3>1. j.n >= r.persisted
      BY <1>2, <1>6
    <3> QED BY Zenon, <2>1, <3>1
  <2> QED BY Zenon, <1>1, <1>3, <1>5, <2>1, <2>2, <2>3 DEF Lands, WriteStep
<1>8. CASE persistStateLocked(j, FALSE) /\ pc'[u] = "error"
  <2>1. (Lands(j) \/ disk' = disk) /\ r'.persisted = r.persisted /\ r'.snapshot = Warn(r.snapshot, j)
    <3> HIDE DEF j
    <3> QED BY Zenon, <1>0, <1>2, <1>4, <1>8, PersistFailed
  <2>2. /\ \A a \in Accounts : /\ r'.snapshot.quota[a].events = r.snapshot.quota[a].events
                               /\ r.snapshot.quota[a].warned => r'.snapshot.quota[a].warned
        /\ \A a \in r.snapshot.managed : r'.snapshot.quota[a].warned
    <3>1. r.snapshot.managed \subseteq Accounts
      BY <1>6 DEF Snapshot
    <3> HIDE DEF j
    <3>2. \A a \in Accounts :
            /\ Warn(r.snapshot, j).quota[a].events = r.snapshot.quota[a].events
            /\ r.snapshot.quota[a].warned => Warn(r.snapshot, j).quota[a].warned
            /\ a \in r.snapshot.managed => Warn(r.snapshot, j).quota[a].warned
      BY Zenon, <1>2, <1>6, WarnType
    <3>3. r'.snapshot = Warn(r.snapshot, j)
      BY <2>1
    <3>4. \A a \in r.snapshot.managed : a \in Accounts
      BY <3>1
    <3> QED BY Zenon, <3>2, <3>3, <3>4
  <2>3. \A v \in Usage :
       /\ pc[v] \in {"ok", "error"} => pc'[v] = pc[v]
       /\ pc'[v] # "write"
       /\ pc[v] = "write" => pc'[v] = "error"
    BY Zenon, <1>1, <1>4, <1>8, CallerKinds
  <2>4. r'.persisted >= r.persisted
    <3>1. r.persisted >= r.persisted
      BY <1>6
    <3> QED BY Zenon, <2>1, <3>1
  <2> QED BY Zenon, <1>1, <1>3, <1>5, <2>1, <2>2, <2>3, <2>4 DEF Lands, WriteStep
<1> QED BY Zenon, <1>1, <1>7, <1>8

(* The write of pollOnce. *)
LEMMA WriteStepPoll ==
  ASSUME Base, HandlesKept, UsageKept, NEW w \in Workers, WritePoll(w)
  PROVE  WriteStep
<1> DEFINE j == work[w].job
<1>0. Typed /\ Working /\ Addressed
  BY DEF Base, UsageKept
<1>1. /\ work[w].pc = "write" /\ counted' = counted /\ local' = local /\ pc' = pc
      /\ persistStateLocked(j, TRUE) \/ persistStateLocked(j, FALSE)
  BY Zenon DEF WritePoll
<1>2. j \in Job /\ Carried(j)
  BY Zenon, <1>0, <1>1 DEF Working, Carried
<1>3. Pending(j) => Covers(j.accounts)
  BY <1>2, CopyCovers
<1>4. (\A q \in Committers : pc[q] # "retire") /\ (\A v \in Usage : pc[v] # "write")
  <2>1. lock["persist"] = w
    BY <1>1 DEF Base, Locked
  <2> QED BY <2>1, PersistHeld, NamesAssumption, CallerKinds DEF Base
<1>5. \A i \in Job : Carried(i)' => Carried(i)
  <2>1. work'[w].pc \notin {"lock", "write"}
    <3>1. PICK ok \in BOOLEAN : Step(w, Returned(w, ok /\ work[w].ok, FALSE))
      BY Zenon DEF WritePoll
    <3>2. work[w].ok \in BOOLEAN
      BY Zenon, <1>0 DEF Typed, Work
    <3>3. PICK both \in BOOLEAN : Step(w, Returned(w, both, FALSE))
      BY <3>1, <3>2, Zenon
    <3>4. Returned(w, both, FALSE).pc \in {"none", "ready", "reported"}
      BY Zenon, <1>0, ReturnedType
    <3>5. work'[w] = Returned(w, both, FALSE)
      BY <1>0, <3>3 DEF Step, Typed
    <3> QED BY Zenon, <3>4, <3>5
  <2>2. \A v \in Workers \ {w} : work'[v] = work[v]
    BY <1>0, OtherWorkers DEF poll
  <2> QED BY <1>1, <2>1, <2>2 DEF Carried
<1>6. r.persisted \in Nat /\ j.n \in Nat /\ r.snapshot \in Snapshot
  BY Zenon, <1>0, <1>2 DEF Typed, Runtime, Job
<1>7. \A v \in Usage : (pc[v] \in {"ok", "error"} => pc'[v] = pc[v]) /\ pc'[v] # "write" /\ pc[v] # "write"
  BY <1>1, <1>4
<1>8. CASE persistStateLocked(j, TRUE)
  <2>1. r'.snapshot = r.snapshot /\ r'.persisted >= r.persisted /\ (disk' = disk \/ (Lands(j) /\ j.n > r.persisted))
    <3>1. \/ j.n <= r.persisted /\ r' = r /\ disk' = disk
          \/ j.n > r.persisted /\ Lands(j) /\ r'.persisted = j.n /\ r'.snapshot = r.snapshot
      <4> HIDE DEF j
      <4> QED BY Zenon, <1>0, <1>2, <1>4, <1>8, PersistOk
    <3> QED BY <1>6, <3>1
  <2> QED BY Zenon, <1>1, <1>3, <1>5, <1>7, <2>1 DEF Lands, Pending, WriteStep
<1>9. CASE persistStateLocked(j, FALSE)
  <2>1. /\ j.n > r.persisted /\ (Lands(j) \/ disk' = disk)
        /\ r'.persisted = r.persisted /\ r'.snapshot = Warn(r.snapshot, j)
    <3> HIDE DEF j
    <3> QED BY Zenon, <1>0, <1>2, <1>4, <1>9, PersistFailed
  <2>2. \A a \in Accounts : /\ r'.snapshot.quota[a].events = r.snapshot.quota[a].events
                            /\ r.snapshot.quota[a].warned => r'.snapshot.quota[a].warned
    <3> HIDE DEF j
    <3>1. \A a \in Accounts : /\ Warn(r.snapshot, j).quota[a].events = r.snapshot.quota[a].events
                              /\ r.snapshot.quota[a].warned => Warn(r.snapshot, j).quota[a].warned
      BY Zenon, <1>6, WarnType
    <3> QED BY Zenon, <2>1, <3>1
  <2>3. r'.persisted >= r.persisted
    BY <1>6, <2>1
  <2> QED BY Zenon, <1>1, <1>3, <1>5, <1>7, <2>1, <2>2, <2>3 DEF Lands, Pending, WriteStep
<1> QED BY Zenon, <1>1, <1>8, <1>9

(* The final write of shutdown. *)
LEMMA WriteStepFinal ==
  ASSUME Base, UsageKept, NEW p \in Stoppers, FinalWrite(p)
  PROVE  WriteStep
<1> DEFINE j == PersistenceSnapshot(r)
<1>0. Typed /\ Live /\ Recorded /\ LiveCounts
  BY DEF Base, UsageKept
<1>1. j.store = r.snapshot.store /\ j.accounts = r.snapshot.quota
  BY DEF PersistenceSnapshot
<1>2. /\ pc[p] = "final" /\ counted' = counted /\ local' = local /\ work' = work
      /\ pc'[p] = "close" /\ \A v \in Callers \ {p} : pc'[v] = pc[v]
      /\ \/ disk' = disk
         \/ r.snapshot.gen # 0 /\ (SaveState(j, TRUE) \/ SaveState(j, FALSE))
  BY Zenon, <1>0, CallerKinds DEF FinalWrite, Goto, Typed
<1>3. disk' = disk \/ (r.snapshot.gen # 0 /\ disk' = [disk EXCEPT ![LiveDir] = r.snapshot.quota])
  <2> HIDE DEF j
  <2> QED BY <1>1, <1>2 DEF SaveState, LiveDir
<1>4. Covers(r.snapshot.quota) \/ r.snapshot.gen = 0
  <2>1. ASSUME r.snapshot.gen # 0, NEW a \in Accounts, NEW u \in counted[LiveDir][a], pc[u] = "ok"
        PROVE  u \in r.snapshot.quota[a].events
    BY <1>0, <2>1, CountedManaged DEF LiveCounts
  <2> QED BY <2>1 DEF Covers
<1>5. \A v \in Usage : pc[v] # "write" /\ v # p
  <2>1. lock["persist"] = p
    BY <1>2, CallerKinds DEF Base, Locked, Holds
  <2> QED BY <2>1, PersistHeld, NamesAssumption DEF Base
<1>6. \A i \in Job : Carried(i)' => Carried(i)
  BY <1>2, <1>5, CallerKinds DEF Carried
<1>7. r'.snapshot = r.snapshot /\ r'.persisted >= r.persisted
  <2>1. r'.snapshot = r.snapshot /\ r.persisted <= r'.persisted /\ r.persisted \in Nat /\ r'.persisted \in Nat
    BY <1>0, FinalWriteEffect DEF Typed, Runtime
  <2> QED BY <2>1
<1>8. \A v \in Usage : pc'[v] = pc[v] /\ pc[v] # "write"
  BY Zenon, <1>2, <1>5, CallerKinds
<1> QED BY <1>2, <1>3, <1>4, <1>6, <1>7, <1>8 DEF WriteStep

(* What a publication does to the ledger. *)
LEMMA PublishLedger ==
  ASSUME Base, NEW p \in Committers, Publish(p)
  PROVE  /\ pc[p] = "publish" /\ pc'[p] = "retire" /\ disk' = disk /\ work' = work /\ r'.persisted = r.persisted
         /\ \A v \in Callers \ {p} : pc'[v] = pc[v] /\ local'[v] = local[v]
         /\ \A v \in Usage : pc[v] # "write" /\ v # p
         /\ LiveDir' \in Dirs
         /\ \A d \in Dirs, a \in Accounts :
              /\ counted'[d][a] \subseteq counted[d][a]
              /\ d = LiveDir' /\ a \notin r'.snapshot.managed => counted'[d][a] = {}
<1>0. Typed /\ Calls /\ Live /\ Bounded /\ Locked
  BY DEF Base
<1>1. /\ pc[p] = "publish" /\ pc'[p] = "retire" /\ disk' = disk /\ work' = work
      /\ \A v \in Callers \ {p} : pc'[v] = pc[v] /\ local'[v] = local[v]
  BY <1>0, CallerKinds DEF Publish, Goto, Keep, Typed
<1>2. \A v \in Usage : pc[v] # "write" /\ v # p
  <2>1. lock["persist"] = p
    BY <1>0, <1>1, CallerKinds DEF Locked, Holds
  <2> QED BY <1>0, <2>1, PersistHeld, NamesAssumption
<1>3. local[p] \in Staged /\ r'.snapshot.store \in Store
  BY Zenon, <1>0, Published
<1>4. r.snapshot.gen + 1 \in Generations
  BY <1>0, <1>1, NextGeneration
<1>5. r'.persisted = r.persisted /\ r'.snapshot = CarryForward(r.snapshot, local[p].snapshot)
  BY <1>0, <1>3, <1>4, PublishEffect
<1>6. counted' = Owed(r'.snapshot) /\ counted \in [Dirs -> [Accounts -> SUBSET Usage]] /\ LiveDir' \in Dirs
  BY <1>0, <1>3, <1>5 DEF Publish, Typed, LiveDir, Store
<1>7. \A d \in Dirs, a \in Accounts :
        counted'[d][a] = IF d = LiveDir' THEN IF a \in r'.snapshot.managed THEN counted[d][a] ELSE {} ELSE counted[d][a]
  BY <1>6 DEF Owed, LiveDir
<1>8. \A d \in Dirs, a \in Accounts :
              /\ counted'[d][a] \subseteq counted[d][a]
              /\ d = LiveDir' /\ a \notin r'.snapshot.managed => counted'[d][a] = {}
  BY <1>7
<1> QED BY Zenon, <1>1, <1>2, <1>5, <1>6, <1>8

(* A publication keeps the invariant: on the same directory the counted    *)
(* usage is carried over, on another one it is what that directory holds,  *)
(* and no copy of the store before it can be written over it.              *)
LEMMA UsagePublish ==
  ASSUME Base, UsageKept, [Next]_vars, NEW p \in Committers, Publish(p)
  PROVE  UsageKept'
<1> DEFINE same == SameStore(r.snapshot, local[p].snapshot)
<1>0. /\ Typed /\ Calls /\ Live /\ Bounded /\ Locked
      /\ Recorded /\ Addressed /\ LiveCounts /\ CopiesCount /\ CopiesFlag /\ StagedFromDisk /\ DiskKeepsAcked /\ LossIsFlagged
  BY DEF Base, UsageKept
<1>1. /\ pc[p] = "publish" /\ pc'[p] = "retire" /\ disk' = disk /\ work' = work /\ r'.persisted = r.persisted
      /\ \A v \in Callers \ {p} : pc'[v] = pc[v] /\ local'[v] = local[v]
      /\ \A v \in Usage : pc[v] # "write" /\ v # p
      /\ LiveDir' \in Dirs
  BY PublishLedger
<1>2. \A d \in Dirs, a \in Accounts :
        /\ counted'[d][a] \subseteq counted[d][a]
        /\ d = LiveDir' /\ a \notin r'.snapshot.managed => counted'[d][a] = {}
  BY PublishLedger
<1>3. /\ r'.snapshot.gen # 0 /\ r'.snapshot.store \in Store
      /\ same => r.snapshot.gen # 0 /\ r'.snapshot.store = r.snapshot.store /\ LiveDir' = LiveDir
      /\ ~same => p \in Reconfigurers /\ r'.snapshot.store = local[p].snapshot.store /\ r'.snapshot.store.handle = p
      /\ r'.snapshot.managed = local[p].snapshot.managed
      /\ r'.snapshot.managed \subseteq Accounts
  <2>1. local[p].snapshot.managed \subseteq Accounts
    BY Zenon, <1>0, Published DEF Staged, Snapshot
  <2> QED BY Zenon, <1>0, <2>1, Published, PublishedQuota DEF LiveDir
<1>4. ASSUME same, NEW a \in Accounts, counted'[LiveDir'][a] # {}
      PROVE  /\ a \in r.snapshot.managed /\ r'.snapshot.quota[a] = r.snapshot.quota[a]
             /\ counted'[LiveDir'][a] \subseteq counted[LiveDir][a]
  <2>1. r.snapshot.gen # 0 /\ LiveDir' = LiveDir /\ r'.snapshot.managed = local[p].snapshot.managed
    BY Zenon, <1>3, <1>4
  <2>2. counted'[LiveDir'][a] \subseteq counted[LiveDir][a] /\ a \in r'.snapshot.managed
    BY Zenon, <1>1, <1>2, <1>4, <2>1
  <2>3. a \in r.snapshot.managed
    BY Zenon, <1>0, <1>4, <2>1, <2>2 DEF Recorded
  <2> QED BY <1>4, <2>1, <2>2, <2>3, PublishedQuota
<1>5. ASSUME ~same, NEW a \in r'.snapshot.managed
      PROVE  r'.snapshot.quota[a] = disk'[LiveDir'][a]
  <2>1. r'.snapshot.quota[a] = local[p].snapshot.quota[a]
    BY Zenon, <1>3, <1>5, PublishedQuota
  <2>2. local[p].snapshot.quota[a] = disk[local[p].snapshot.store.dir][a]
    BY Zenon, <1>0, <1>1, <1>3, <1>5 DEF StagedFromDisk, Staging
  <2> QED BY Zenon, <1>1, <1>3, <1>5, <2>1, <2>2 DEF LiveDir
<1>6. \A j \in Job : Carried(j)' => Carried(j)
  BY Zenon, <1>1, CallerKinds DEF Carried
<1>7. \A d \in Dirs, a \in Accounts : \A u \in counted'[d][a] : u \in counted[d][a] /\ u \in Usage /\ pc'[u] = pc[u]
  <2>1. counted \in [Dirs -> [Accounts -> SUBSET Usage]]
    BY <1>0 DEF Typed
  <2> SUFFICES ASSUME NEW d \in Dirs, NEW a \in Accounts, NEW u \in counted'[d][a]
               PROVE  u \in counted[d][a] /\ u \in Usage /\ pc'[u] = pc[u]
    OBVIOUS
  <2>2. u \in counted[d][a]
    BY <1>2
  <2>3. u \in Usage
    BY <2>1, <2>2
  <2>4. u \in Callers \ {p}
    BY <1>1, <2>3, CallerKinds
  <2> QED BY Zenon, <1>1, <2>2, <2>3, <2>4
<1>8. ASSUME NEW j \in Job, Carried(j)', Pending(j)'
      PROVE  same /\ Carried(j) /\ Pending(j)
  <2>1. Carried(j) /\ j.store = r'.snapshot.store /\ pc[j.store.handle] # "publish"
    BY <1>0, <1>6, <1>8 DEF Pending, Addressed
  <2>2. same
    BY Zenon, <1>1, <1>3, <2>1
  <2> QED BY Zenon, <1>1, <1>3, <1>8, <2>1, <2>2 DEF Pending
<1>9. Recorded'
  <2>1. \A d \in Dirs, a \in Accounts : \A u \in counted'[d][a] : pc'[u] \in {"write", "ok", "error"}
    BY <1>0, <1>7 DEF Recorded
  <2>2. \A a \in Accounts \ r'.snapshot.managed : counted'[LiveDir'][a] = {}
    BY <1>1, <1>2
  <2> QED BY Zenon, <2>1, <2>2 DEF Recorded
<1>10. Writing'
  BY <1>1, CallerKinds DEF Writing
<1>11. Addressed'
  <2> SUFFICES ASSUME NEW j \in Job, Carried(j)'
               PROVE  /\ pc'[j.store.handle] \in {"retire", "ok", "error"}
                      /\ j.store.handle = r'.snapshot.store.handle => j.store = r'.snapshot.store
    BY Zenon, <1>3 DEF Addressed
  <2>1. /\ pc[j.store.handle] \in {"retire", "ok", "error"}
        /\ j.store.handle = r.snapshot.store.handle => j.store = r.snapshot.store
    BY Zenon, <1>0, <1>6 DEF Addressed
  <2>2. j.store.handle \in Callers
    BY CallerKinds DEF Job, Store
  <2> QED BY Zenon, <1>0, <1>1, <1>3, <2>1, <2>2, DoneStays
<1>12. LiveCounts'
  <2> SUFFICES ASSUME NEW a \in r'.snapshot.managed, NEW u \in counted'[LiveDir'][a], pc'[u] \in {"write", "ok"}
               PROVE  u \in r'.snapshot.quota[a].events
    BY DEF LiveCounts
  <2>1. u \in counted[LiveDir'][a] /\ pc[u] = "ok" /\ a \in Accounts
    <3>1. a \in Accounts
      BY <1>3
    <3>2. LiveDir' \in Dirs
      BY Zenon, <1>1
    <3>3. u \in counted[LiveDir'][a] /\ u \in Usage /\ pc'[u] = pc[u]
      BY <1>7, <3>1, <3>2
    <3> QED BY Zenon, <1>1, <3>1, <3>3
  <2>2. CASE same
    BY Zenon, <1>0, <1>3, <1>4, <2>1, <2>2 DEF LiveCounts
  <2>3. CASE ~same
    <3>1. u \in disk[LiveDir'][a].events
      BY Zenon, <1>0, <1>1, <2>1 DEF DiskKeepsAcked, Acked
    <3> QED BY Zenon, <1>1, <1>5, <2>3, <3>1
  <2> QED BY Zenon, <2>2, <2>3
<1>13. CopiesCount'
  <2> SUFFICES ASSUME NEW j \in Job, Carried(j)', Pending(j)', NEW a \in Accounts, NEW u \in counted'[LiveDir'][a],
                      pc'[u] = "ok" \/ pc'[u] = "write"
               PROVE  u \in j.accounts[a].events
    BY Zenon DEF CopiesCount
  <2>1. u \in counted[LiveDir][a] /\ pc[u] = "ok"
    <3>1. counted'[LiveDir'][a] \subseteq counted[LiveDir][a]
      BY <1>4, <1>8
    <3>2. LiveDir' \in Dirs
      BY Zenon, <1>1
    <3>3. u \in Usage /\ pc'[u] = pc[u]
      BY <1>7, <3>2
    <3> QED BY Zenon, <1>1, <3>1, <3>3
  <2> QED BY <1>0, <1>8, <2>1 DEF CopiesCount
<1>14. CopiesFlag'
  <2> SUFFICES ASSUME NEW j \in Job, Carried(j)', Pending(j)', NEW a \in Accounts,
                      NEW u \in counted'[LiveDir'][a] \cap r'.snapshot.quota[a].events
               PROVE  u \in j.accounts[a].events \/ r'.snapshot.quota[a].warned
    BY Zenon DEF CopiesFlag
  <2>1. /\ u \in counted[LiveDir][a] \cap r.snapshot.quota[a].events /\ pc[u] # "write"
        /\ r'.snapshot.quota[a] = r.snapshot.quota[a]
    BY Zenon, <1>1, <1>4, <1>7, <1>8
  <2> QED BY Zenon, <1>0, <1>8, <2>1 DEF CopiesFlag
<1>15. StagedFromDisk'
  <2>1. \A q \in Reconfigurers : pc'[q] \notin Staging
    <3> SUFFICES ASSUME NEW q \in Reconfigurers, pc'[q] \in Staging PROVE FALSE
      OBVIOUS
    <3>1. q # p
      BY <1>1 DEF Staging
    <3>2. pc[q] \in Staging /\ pc[p] \in Staging
      BY <1>1, <3>1, CallerKinds DEF Staging
    <3> QED BY <1>0, <3>1, <3>2, OneCommit, CallerKinds
  <2> QED BY <2>1 DEF StagedFromDisk
<1>16. DiskKeepsAcked'
  <2>1. \A d \in Dirs, a \in Accounts : Acked(d, a)' \subseteq Acked(d, a)
    BY Zenon, <1>7 DEF Acked
  <2> QED BY Zenon, <1>0, <1>1, <2>1 DEF DiskKeepsAcked
<1>17. LossIsFlagged'
  <2> SUFFICES ASSUME NEW a \in r'.snapshot.managed, ~r'.snapshot.quota[a].warned,
                      NEW u \in (counted'[LiveDir'][a] \cap r'.snapshot.quota[a].events) \ disk'[LiveDir'][a].events
               PROVE  pc'[u] = "write"
    BY Zenon DEF LossIsFlagged, LiveDir, Configured
  <2>1. same
    BY <1>5
  <2>2. /\ a \in r.snapshot.managed /\ r'.snapshot.quota[a] = r.snapshot.quota[a]
        /\ u \in (counted[LiveDir][a] \cap r.snapshot.quota[a].events) \ disk[LiveDir][a].events
        /\ r.snapshot.gen # 0 /\ pc'[u] = pc[u]
    <3>1. a \in Accounts /\ r.snapshot.gen # 0 /\ LiveDir' = LiveDir
      BY <1>3, <2>1
    <3>2. /\ a \in r.snapshot.managed /\ r'.snapshot.quota[a] = r.snapshot.quota[a]
          /\ counted'[LiveDir'][a] \subseteq counted[LiveDir][a]
      BY <1>4, <2>1, <3>1
    <3>3. pc'[u] = pc[u]
      <4>1. u \in counted'[LiveDir'][a] /\ LiveDir' \in Dirs
        BY <1>1
      <4> QED BY Zenon, <1>7, <3>1, <4>1
    <3> QED BY Zenon, <1>1, <3>1, <3>2, <3>3
  <2> QED BY Zenon, <1>0, <2>2 DEF LossIsFlagged, LiveDir, Configured
<1> QED BY <1>9, <1>10, <1>11, <1>12, <1>13, <1>14, <1>15, <1>16, <1>17 DEF UsageKept

(* Nothing is counted before the first call. *)
LEMMA UsageKeptInit == Init => UsageKept
<1> SUFFICES ASSUME Init PROVE UsageKept
  OBVIOUS
<1>1. \A u \in Callers : pc[u] = "idle"
  BY DEF Init
<1>2. \A w \in Workers : work[w].pc = "none"
  BY Zenon DEF Init, NoWork
<1>3. r.snapshot.gen = 0 /\ \A d \in Dirs, a \in Accounts : counted[d][a] = {}
  BY Zenon DEF Init, NoSnapshot
<1>4. \A j \in Job : ~Carried(j)
  BY <1>1, <1>2, CallerKinds DEF Carried
<1>5. Recorded /\ DiskKeepsAcked
  BY <1>3 DEF Recorded, DiskKeepsAcked, Acked
<1>6. Writing /\ StagedFromDisk
  BY Zenon, <1>1, CallerKinds DEF Writing, StagedFromDisk, Staging
<1>7. LiveCounts /\ LossIsFlagged
  BY <1>3 DEF LiveCounts, LossIsFlagged, Configured
<1>8. Addressed /\ CopiesCount /\ CopiesFlag
  BY <1>4 DEF Addressed, CopiesCount, CopiesFlag
<1> QED BY <1>5, <1>6, <1>7, <1>8 DEF UsageKept

(* UsageKept is inductive, given Base and HandlesKept. *)
LEMMA UsageKeptStep == Base /\ HandlesKept /\ UsageKept /\ [Next]_vars => UsageKept'
<1> SUFFICES ASSUME Base, HandlesKept, UsageKept, [Next]_vars PROVE UsageKept'
  OBVIOUS
<1>0. Typed
  BY DEF Base
<1>1. ASSUME NEW p \in Committers, Publish(p) PROVE UsageKept'
  BY <1>1, UsagePublish
<1>2. CASE \A p \in Committers : ~Publish(p)
  <2>1. ASSUME NEW u \in Usage, NEW a \in Accounts, ApplyUsage(u, a) PROVE UsageKept'
    BY <1>2, <2>1, UsageApply
  <2>2. ASSUME NEW u \in Usage, WriteUsage(u) PROVE UsageKept'
    BY <1>2, <2>2, WriteStepUsage, UsageWritten
  <2>3. ASSUME NEW w \in Workers, WritePoll(w) PROVE UsageKept'
    BY <1>2, <2>3, WriteStepPoll, UsageWritten
  <2>4. ASSUME NEW p \in Stoppers, FinalWrite(p) PROVE UsageKept'
    BY <1>2, <2>4, WriteStepFinal, UsageWritten
  <2>5. CASE /\ \A p \in Stoppers : ~FinalWrite(p)
             /\ \A u \in Usage : ~WriteUsage(u) /\ \A a \in Accounts : ~ApplyUsage(u, a)
             /\ \A w \in Workers : ~WritePoll(w)
    BY <1>0, <1>2, <2>5, LedgerStep, UsageStaysStep, UsageCalm
  <2> QED BY <2>1, <2>2, <2>3, <2>4, <2>5
<1> QED BY <1>1, <1>2

(* UsageKept is invariant. *)
LEMMA UsageKeptAlways == Spec => []UsageKept
BY UsageKeptInit, UsageKeptStep, BaseAlways, HandlesAlways, PTL DEF Spec

(* Usage that handleUsage acknowledged stays in state.json of its          *)
(* directory for as long as the account stays configured there, for any    *)
(* number of racing polls, records, reconfigures and failed writes.        *)
THEOREM DiskKeepsAckedAlways == Spec => []DiskKeepsAcked
<1>1. UsageKept => DiskKeepsAcked
  BY DEF UsageKept
<1> QED BY <1>1, UsageKeptAlways, PTL

(* The live snapshot counts every acknowledged record of its accounts,     *)
(* whatever was staged, saved or reloaded when it was published.           *)
THEOREM LiveKeepsAckedAlways == Spec => []LiveKeepsAcked
<1>1. UsageKept => LiveKeepsAcked
  BY DEF UsageKept, LiveCounts, LiveKeepsAcked, Acked, LiveDir, Configured
<1> QED BY <1>1, UsageKeptAlways, PTL

(* Usage that was counted and is not in state.json is being written, or    *)
(* its account carries the persistence warning.                            *)
THEOREM LossIsFlaggedAlways == Spec => []LossIsFlagged
<1>1. UsageKept => LossIsFlagged
  BY DEF UsageKept
<1> QED BY <1>1, UsageKeptAlways, PTL
=============================================================================
