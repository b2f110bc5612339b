----------------------------- MODULE ZaiRuntime -----------------------------
(***************************************************************************)
(* The lifecycle of the zai module's pluginRuntime                         *)
(* (internal/providers/zai/runtime.go, management.go): snapshots and the   *)
(* generations that replace them, background quota pollers, coalesced      *)
(* forced refreshes, usage delivery, versioned persistence and shutdown.   *)
(*                                                                         *)
(* mu is the atomicity of an action.  settingsMu, pollersMu and persistMu  *)
(* are held across several actions and are variables.  A caller is one     *)
(* host call: it runs one operation once.  A WaitGroup is the set of       *)
(* callers or workers between its Add and its Done.                        *)
(*                                                                         *)
(* Of an account's quota state the model keeps the usage records counted,  *)
(* the stamp of the last authoritative poll, the transient block and the   *)
(* persistence warning.  What a view, a threshold or a plan makes of them  *)
(* is left out.                                                            *)
(***************************************************************************)
EXTENDS Naturals, FiniteSets

CONSTANTS
  Accounts,       \* account identities
  Dirs,           \* auth directories a configuration may name
  Reconfigurers,  \* calls of Reconfigure; each opens a store handle of its own
  Updaters,       \* calls of updateAccountConfig
  Usage,          \* usage records; each is delivered by a call of its own
  Throttled,      \* the usage records that are a 429 without token counts
                  \* that exhausts the account
  Refreshers,     \* calls of forceRefresh
  Unblockers,     \* calls of unblock
  Stoppers,       \* calls of shutdown
  MaxPolls,       \* bound: background polls are started up to this stamp
  Faults,         \* what may fail in this instance
  None

(* open:     newSecureStore, discoverAccounts, recoverSettings or loadState *)
(* refused:  a write that leaves the file alone                             *)
(* unsynced: a write that replaced the file and reports an error            *)
(* close:    closing a directory handle                                     *)
(* rejected: saveSettings failed and the update is not in the store         *)
(* applied:  saveSettings failed and the update is in the store             *)
(* fetch:    a quota request                                                *)
(* client:   the client of a forced refresh goes away                       *)
FaultKinds == {"open", "refused", "unsynced", "close", "rejected", "applied", "fetch", "client"}

Committers == Reconfigurers \cup Updaters
Callers == Committers \cup Usage \cup Refreshers \cup Unblockers \cup Stoppers

Stamps == 0..(MaxPolls + Cardinality(Refreshers) * Cardinality(Accounts))
Account == [events : SUBSET Usage, auth : Stamps, blocked : BOOLEAN, warned : BOOLEAN]
NoAccount == [events |-> {}, auth |-> 0, blocked |-> FALSE, warned |-> FALSE]
NoQuota == [a \in Accounts |-> NoAccount]

(* A store handle is named after the call that opened it. *)
Store == [dir : Dirs, handle : Reconfigurers]

(* runtimeSnapshot; generation 0 stands for nil. *)
NoSnapshot == [gen |-> 0, store |-> None, managed |-> {}, disabled |-> {}, quota |-> NoQuota]
Enabled(s) == s.managed \ s.disabled

(* Every committer publishes at most one generation. *)
Generations == 1..Cardinality(Committers)

(* The goroutines that poll: one poller per generation and enabled account, *)
(* one refresh worker per refresh leader and enabled account.               *)
Workers == [kind : {"poller"}, by : Generations, account : Accounts]
           \cup [kind : {"refresh"}, by : Refreshers, account : Accounts]
NoWork == [pc |-> "none", gen |-> 0, stamp |-> 0, ok |-> FALSE, job |-> None]

ASSUME RuntimeAssumption ==
  /\ MaxPolls \in Nat
  /\ Faults \subseteq FaultKinds
  /\ Throttled \subseteq Usage
  /\ IsFiniteSet(Callers) /\ IsFiniteSet(Accounts)

(* A call is of one kind, and the names of calls, generations, workers and *)
(* refreshes are not confused.                                             *)
ASSUME NamesAssumption ==
  /\ Reconfigurers \cap Updaters = {}
  /\ Committers \cap Usage = {}
  /\ (Committers \cup Usage) \cap Refreshers = {}
  /\ (Committers \cup Usage \cup Refreshers) \cap Unblockers = {}
  /\ (Committers \cup Usage \cup Refreshers \cup Unblockers) \cap Stoppers = {}
  /\ Refreshers \cap Generations = {}
  /\ Callers \cap Workers = {}
  /\ None \notin Callers \cup Workers \cup Dirs \cup Accounts
  /\ None \notin [leader : Refreshers, gen : Generations]

VARIABLES
  r,           \* pluginRuntime: snapshot, stopped, lastErr, cancel, refresh,
               \* persistNext, persisted, shutdownDone, shutdownErr
  lock,        \* settingsMu, pollersMu and persistMu: the holder or None
  pc,          \* caller -> where its call is; "ok" or "error" once returned
  local,       \* caller -> what it carries from one step to the next
  work,        \* poller or refresh worker -> its state
  cancelled,   \* cancelled contexts: a generation's pollers, a refresh leader
  clock,       \* stamps given to polls so far
  open,        \* store handles not closed
  disk,        \* directory -> the accounts in state.json
  settings,    \* directory -> the accounts its settings register disables
  counted      \* history: directory -> account -> usage counted since the
               \* account is configured there

vars == <<r, lock, pc, local, work, cancelled, clock, open, disk, settings, counted>>

Init ==
  /\ r = [snapshot |-> NoSnapshot, stopped |-> FALSE, lastErr |-> FALSE, cancel |-> 0,
          refresh |-> None, persistNext |-> 0, persisted |-> 0,
          shutdownDone |-> "none", shutdownErr |-> FALSE]
  /\ lock = [settings |-> None, pollers |-> None, persist |-> None]
  /\ pc = [p \in Callers |-> "idle"]
  /\ local = [p \in Callers |-> None]
  /\ work = [w \in Workers |-> NoWork]
  /\ cancelled = {}
  /\ clock = 0
  /\ open = {}
  /\ disk = [d \in Dirs |-> NoQuota]
  /\ settings = [d \in Dirs |-> {}]
  /\ counted = [d \in Dirs |-> [a \in Accounts |-> {}]]

-----------------------------------------------------------------------------
(* Calls. *)

Goto(p, l) == pc' = [pc EXCEPT ![p] = l]
Keep(p, v) == local' = [local EXCEPT ![p] = v]
Acquire(name, p) == lock[name] = None /\ lock' = [lock EXCEPT ![name] = p]
Release(p) == lock' = [name \in DOMAIN lock |-> IF lock[name] = p THEN None ELSE lock[name]]

(* recordError: remembered unless shutdown began. *)
recordError == r' = [r EXCEPT !.lastErr = @ \/ ~r.stopped]

-----------------------------------------------------------------------------
(* Persistence. *)

(* persistenceSnapshotLocked: a numbered copy of the live accounts. *)
PersistenceSnapshot(runtime) ==
  [n |-> runtime.persistNext + 1, gen |-> runtime.snapshot.gen,
   store |-> runtime.snapshot.store, accounts |-> runtime.snapshot.quota]

(* saveState through a store handle: ok says what the caller is told. *)
SaveState(j, ok) ==
  \/ /\ ok
     /\ j.store.handle \in open
     /\ disk' = [disk EXCEPT ![j.store.dir] = j.accounts]
  \/ /\ ~ok
     /\ "unsynced" \in Faults
     /\ j.store.handle \in open
     /\ disk' = [disk EXCEPT ![j.store.dir] = j.accounts]
  \/ /\ ~ok
     /\ "refused" \in Faults \/ j.store.handle \notin open
     /\ UNCHANGED disk

(* The persistence warning on the managed accounts. *)
Flagged(quota, managed) ==
  [a \in Accounts |-> IF a \in managed THEN [quota[a] EXCEPT !.warned = TRUE] ELSE quota[a]]

(* Mutant of Warn: compares the write number with the generation. *)
WarnComparesNumber(snapshot, j) ==
  IF snapshot.gen = j.n /\ snapshot.store = j.store
  THEN [snapshot EXCEPT !.quota = Flagged(@, snapshot.managed)]
  ELSE snapshot

(* What a failed write leaves on the snapshot it was taken from. *)
Warn(snapshot, j) ==
  IF snapshot.gen = j.gen /\ snapshot.store = j.store
  THEN [snapshot EXCEPT !.quota = Flagged(@, snapshot.managed)]
  ELSE snapshot

(* Mutant of persistStateLocked: writes older snapshots too. *)
persistStateUnordered(j, ok) ==
  /\ SaveState(j, ok)
  /\ r' = IF ok THEN [r EXCEPT !.persisted = j.n]
          ELSE [r EXCEPT !.snapshot = Warn(@, j)]

(* persistStateLocked: a snapshot not newer than the last one written is   *)
(* dropped, any other is written.                                          *)
persistStateLocked(j, ok) ==
  \/ /\ j.n <= r.persisted
     /\ ok
     /\ UNCHANGED <<r, disk>>
  \/ /\ j.n > r.persisted
     /\ SaveState(j, ok)
     /\ r' = IF ok THEN [r EXCEPT !.persisted = j.n]
             ELSE [r EXCEPT !.snapshot = Warn(@, j)]

-----------------------------------------------------------------------------
(* Reconfigure. *)

(* reconfigureWithAccounts: admission, then a store handle of its own.     *)
(* A configuration names a directory and the accounts it discovers.        *)
BeginReconfigure(p, d, managed) ==
  /\ pc[p] = "idle"
  /\ ~r.stopped
  /\ Goto(p, "lock_settings")
  /\ Keep(p, [snapshot |-> [NoSnapshot EXCEPT !.store = [dir |-> d, handle |-> p],
                                               !.managed = managed],
              settings |-> None, previous |-> None])
  /\ open' = open \cup {p}
  /\ UNCHANGED <<r, lock, work, cancelled, clock, disk, settings, counted>>

(* Mutant of RejectReconfigure: the staged handle stays open. *)
RejectReconfigureLeaks(p) ==
  /\ pc[p] \in {"idle", "lock_settings", "load"}
  /\ "open" \in Faults
  /\ recordError
  /\ Release(p)
  /\ Goto(p, "error")
  /\ UNCHANGED <<local, work, cancelled, clock, open, disk, settings, counted>>

(* Any error before the commit: the staged handle is closed. *)
RejectReconfigure(p) ==
  /\ pc[p] \in {"idle", "lock_settings", "load"}
  /\ "open" \in Faults
  /\ recordError
  /\ Release(p)
  /\ open' = open \ {p}
  /\ Goto(p, "error")
  /\ UNCHANGED <<local, work, cancelled, clock, disk, settings, counted>>

(* Mutant of LoadStaged: keeps every account found on disk. *)
LoadStagedForeign(p) ==
  LET dir == local[p].snapshot.store.dir IN
  /\ pc[p] = "load"
  /\ Keep(p, [local[p] EXCEPT
       !.snapshot.disabled = settings[dir] \cap local[p].snapshot.managed,
       !.snapshot.quota = disk[dir]])
  /\ Goto(p, "lock_pollers")
  /\ UNCHANGED <<r, lock, work, cancelled, clock, open, disk, settings, counted>>

(* recoverSettings and loadStateAt; the staged accounts start from disk. *)
LoadStaged(p) ==
  LET dir == local[p].snapshot.store.dir
      managed == local[p].snapshot.managed IN
  /\ pc[p] = "load"
  /\ Keep(p, [local[p] EXCEPT
       !.snapshot.disabled = settings[dir] \cap managed,
       !.snapshot.quota = [a \in Accounts |-> IF a \in managed THEN disk[dir][a] ELSE NoAccount]])
  /\ Goto(p, "lock_pollers")
  /\ UNCHANGED <<r, lock, work, cancelled, clock, open, disk, settings, counted>>

-----------------------------------------------------------------------------
(* updateAccountConfig. *)

(* A caller that finds the runtime stopped, or not configured, is refused. *)
Refuse(p) ==
  /\ pc[p] = "idle"
  /\ \/ r.stopped
     \/ p \in Updaters \cup Refreshers \cup Unblockers /\ r.snapshot.gen = 0
  /\ p \notin Usage \cup Stoppers
  /\ Goto(p, "error")
  /\ UNCHANGED <<r, lock, local, work, cancelled, clock, open, disk, settings, counted>>

BeginUpdate(p) ==
  /\ pc[p] = "idle"
  /\ ~r.stopped
  /\ r.snapshot.gen # 0
  /\ Goto(p, "lock_settings")
  /\ UNCHANGED <<r, lock, local, work, cancelled, clock, open, disk, settings, counted>>

(* Mutant of LockSettings: settingsMu is not taken. *)
LockSettingsSkipped(p) ==
  /\ pc[p] = "lock_settings"
  /\ Goto(p, "load")
  /\ UNCHANGED <<r, lock, local, work, cancelled, clock, open, disk, settings, counted>>

LockSettings(p) ==
  /\ pc[p] = "lock_settings"
  /\ Acquire("settings", p)
  /\ Goto(p, "load")
  /\ UNCHANGED <<r, local, work, cancelled, clock, open, disk, settings, counted>>

(* The live snapshot is cloned and the account edited, on the settings     *)
(* recovered through the live handle.                                      *)
CloneLive(p, a, disable) ==
  LET edit(disabled) == IF disable THEN disabled \cup {a} ELSE disabled \ {a} IN
  /\ pc[p] = "load"
  /\ ~r.stopped
  /\ a \in r.snapshot.managed
  /\ r.snapshot.store.handle \in open
  /\ Keep(p, [snapshot |-> [r.snapshot EXCEPT !.disabled = edit(@)],
              settings |-> edit(settings[r.snapshot.store.dir]), previous |-> None])
  /\ Goto(p, "lock_pollers")
  /\ UNCHANGED <<r, lock, work, cancelled, clock, open, disk, settings, counted>>

(* No such account, an invalid setting, unreadable settings, or shutdown   *)
(* began: the update ends here.                                            *)
RejectUpdate(p) ==
  /\ pc[p] = "load"
  /\ Release(p)
  /\ Goto(p, "error")
  /\ UNCHANGED <<r, local, work, cancelled, clock, open, disk, settings, counted>>

-----------------------------------------------------------------------------
(* commitSnapshotAfter: pollersMu, then persistMu, then publish under mu.  *)

LockPollers(p) ==
  /\ pc[p] = "lock_pollers"
  /\ Acquire("pollers", p)
  /\ Goto(p, "lock_persist")
  /\ UNCHANGED <<r, local, work, cancelled, clock, open, disk, settings, counted>>

LockPersist(p) ==
  /\ pc[p] = "lock_persist"
  /\ Acquire("persist", p)
  /\ Goto(p, "publish")
  /\ UNCHANGED <<r, local, work, cancelled, clock, open, disk, settings, counted>>

SameStore(live, next) == live.gen # 0 /\ live.store.dir = next.store.dir

(* Mutant of CarryForward: the staged state replaces the live one. *)
CarryForwardFromDisk(live, next) ==
  IF SameStore(live, next)
  THEN [next EXCEPT !.gen = live.gen + 1, !.store = live.store]
  ELSE [next EXCEPT !.gen = live.gen + 1]

(* Mutant of CarryForward: the staged handle is kept. *)
CarryForwardStagedHandle(live, next) ==
  IF SameStore(live, next)
  THEN [next EXCEPT
         !.gen = live.gen + 1,
         !.quota = [a \in Accounts |->
                      IF a \in live.managed \cap next.managed THEN live.quota[a] ELSE @[a]]]
  ELSE [next EXCEPT !.gen = live.gen + 1]

(* The staged snapshot with the live state of the accounts it shares with  *)
(* the live snapshot on the same directory, whose handle it takes over.    *)
CarryForward(live, next) ==
  IF SameStore(live, next)
  THEN [next EXCEPT
         !.gen = live.gen + 1,
         !.store = live.store,
         !.quota = [a \in Accounts |->
                      IF a \in live.managed \cap next.managed THEN live.quota[a] ELSE @[a]]]
  ELSE [next EXCEPT !.gen = live.gen + 1]

(* saveSettings as SettingsRegister promises it. *)
SaveSettings(dir, new, ok) ==
  \/ ok /\ settings' = [settings EXCEPT ![dir] = new]
  \/ ~ok /\ "rejected" \in Faults /\ UNCHANGED settings
  \/ ~ok /\ "applied" \in Faults /\ settings' = [settings EXCEPT ![dir] = new]

(* The commit is refused: shutdown began, or the settings were not saved.  *)
(* A staged handle is closed.                                              *)
AbortCommit(p) ==
  /\ pc[p] = "publish"
  /\ \/ r.stopped /\ UNCHANGED settings
     \/ /\ ~r.stopped
        /\ p \in Updaters
        /\ SaveSettings(r.snapshot.store.dir, local[p].settings, FALSE)
  /\ Release(p)
  /\ open' = open \ {p}
  /\ Goto(p, "error")
  /\ UNCHANGED <<r, local, work, cancelled, clock, disk, counted>>

(* History: usage of an account that leaves the configuration of its       *)
(* directory is forgotten.                                                 *)
Owed(next) ==
  [counted EXCEPT ![next.store.dir] =
     [a \in Accounts |-> IF a \in next.managed THEN @[a] ELSE {}]]

Publish(p) ==
  LET live == r.snapshot
      next == CarryForward(live, local[p].snapshot) IN
  /\ pc[p] = "publish"
  /\ ~r.stopped
  /\ IF p \in Updaters
     THEN SaveSettings(live.store.dir, local[p].settings, TRUE)
     ELSE UNCHANGED settings
  /\ r' = [r EXCEPT !.snapshot = next, !.lastErr = FALSE, !.cancel = next.gen]
  /\ Keep(p, [local[p] EXCEPT !.previous = [gen |-> live.gen, store |-> live.store]])
  /\ open' = IF SameStore(live, next) THEN open \ {p} ELSE open
  /\ counted' = Owed(next)
  /\ Goto(p, "retire")
  /\ UNCHANGED <<lock, work, cancelled, clock, disk>>

(* Mutant of Retire: cancels the new context. *)
RetireCancelsPublished(p) ==
  LET previous == local[p].previous
      superseded == previous.gen # 0 /\ previous.store # r.snapshot.store
      started == [kind : {"poller"}, by : {r.snapshot.gen}, account : Enabled(r.snapshot)] IN
  /\ pc[p] = "retire"
  /\ cancelled' = cancelled \cup {r.cancel}
  /\ work' = [w \in Workers |->
                IF w \in started
                THEN [NoWork EXCEPT !.pc = "ready", !.gen = r.snapshot.gen]
                ELSE work[w]]
  /\ open' = IF superseded THEN open \ {previous.store.handle} ELSE open
  /\ Goto(p, "ok")
  /\ Release(p)
  /\ UNCHANGED <<r, local, clock, disk, settings, counted>>

(* The superseded pollers are cancelled, the new ones started and a        *)
(* superseded store closed.  If closing it fails the call reports an error *)
(* and closes the handle it opened.                                        *)
Retire(p) ==
  LET previous == local[p].previous
      superseded == previous.gen # 0 /\ previous.store # r.snapshot.store
      started == [kind : {"poller"}, by : {r.snapshot.gen}, account : Enabled(r.snapshot)] IN
  /\ pc[p] = "retire"
  /\ cancelled' = cancelled \cup ({previous.gen} \ {0})
  /\ work' = [w \in Workers |->
                IF w \in started
                THEN [NoWork EXCEPT !.pc = "ready", !.gen = r.snapshot.gen]
                ELSE work[w]]
  /\ \/ /\ open' = IF superseded THEN open \ {previous.store.handle} ELSE open
        /\ Goto(p, "ok")
     \/ /\ superseded
        /\ "close" \in Faults
        /\ open' = open \ {previous.store.handle, p}
        /\ Goto(p, "error")
  /\ Release(p)
  /\ UNCHANGED <<r, local, clock, disk, settings, counted>>

-----------------------------------------------------------------------------
(* handleUsage: persistMu is held from admission to the write. *)

LockUsage(u) ==
  /\ pc[u] = "idle"
  /\ Acquire("persist", u)
  /\ Goto(u, "apply")
  /\ UNCHANGED <<r, local, work, cancelled, clock, open, disk, settings, counted>>

(* Not configured, stopped, or not an account of this module. *)
DropUsage(u) ==
  /\ pc[u] = "apply"
  /\ \/ (r.stopped \/ r.snapshot.gen = 0) /\ Goto(u, "error")
     \/ Accounts # r.snapshot.managed /\ Goto(u, "ok")
  /\ Release(u)
  /\ UNCHANGED <<r, local, work, cancelled, clock, open, disk, settings, counted>>

(* A 429 blocks the account; any other record counts, once. *)
Count(account, u) ==
  IF u \in Throttled
  THEN [account EXCEPT !.blocked = TRUE]
  ELSE [account EXCEPT !.events = @ \cup {u}]

ApplyUsage(u, a) ==
  LET applied == [r EXCEPT !.snapshot.quota[a] = Count(@, u)] IN
  /\ pc[u] = "apply"
  /\ ~r.stopped
  /\ a \in r.snapshot.managed
  /\ Keep(u, PersistenceSnapshot(applied))
  /\ r' = [applied EXCEPT !.persistNext = @ + 1]
  /\ Goto(u, "write")
  /\ counted' = [counted EXCEPT ![r.snapshot.store.dir][a] = @ \cup ({u} \ Throttled)]
  /\ UNCHANGED <<lock, work, cancelled, clock, open, disk, settings>>

WriteUsage(u) ==
  LET j == local[u] IN
  /\ pc[u] = "write"
  /\ \/ persistStateLocked(j, TRUE) /\ Goto(u, "ok")
     \/ persistStateLocked(j, FALSE) /\ Goto(u, "error")
  /\ Release(u)
  /\ UNCHANGED <<local, work, cancelled, clock, open, settings, counted>>

-----------------------------------------------------------------------------
(* Polling: pollAccount, pollOnce and the workers of runRefresh. *)

Step(w, state) == work' = [work EXCEPT ![w] = state]

(* Is the context the worker polls with cancelled? *)
Cancelled(w) == w.by \in cancelled \/ (w.kind = "refresh" /\ r.stopped)

(* pollOnce returned to its worker: a refresh worker reports to its leader, *)
(* a poller stops on context.Canceled and otherwise sleeps.                 *)
Returned(w, ok, stop) ==
  IF w.kind = "refresh" THEN [work[w] EXCEPT !.pc = "reported", !.ok = ok, !.job = None]
  ELSE IF stop THEN NoWork
  ELSE [work[w] EXCEPT !.pc = "ready", !.stamp = 0, !.job = None]

(* pollOnce: the time is taken, the request sent. *)
StartPoll(w) ==
  /\ work[w].pc = "ready"
  /\ w.kind = "refresh" \/ clock < MaxPolls
  /\ clock' = clock + 1
  /\ Step(w, [work[w] EXCEPT !.pc = "fetch", !.stamp = clock + 1])
  /\ UNCHANGED <<r, lock, pc, local, cancelled, open, disk, settings, counted>>

(* Mutant of StopPoller: the cancelled sleep is ignored. *)
StopPollerIgnored(w) ==
  /\ w.kind = "poller"
  /\ work[w].pc = "ready"
  /\ Cancelled(w)
  /\ UNCHANGED vars

(* A poller whose context is cancelled wakes from its sleep and returns. *)
StopPoller(w) ==
  /\ w.kind = "poller"
  /\ work[w].pc = "ready"
  /\ Cancelled(w)
  /\ Step(w, NoWork)
  /\ UNCHANGED <<r, lock, pc, local, cancelled, clock, open, disk, settings, counted>>

(* Mutant of Superseded: the generation is not compared. *)
SupersededWhenStopped(w) == r.stopped

Superseded(w) == r.stopped \/ r.snapshot.gen # work[w].gen

(* The answer is dropped: a failed request of a cancelled context or past  *)
(* the deadline of its refresh, or the snapshot the poll was launched for  *)
(* is gone.                                                                *)
DropAnswer(w) ==
  /\ work[w].pc = "fetch"
  /\ Cancelled(w) \/ Superseded(w) \/ (w.kind = "refresh" /\ "fetch" \in Faults)
  /\ Step(w, Returned(w, FALSE, TRUE))
  /\ UNCHANGED <<r, lock, pc, local, cancelled, clock, open, disk, settings, counted>>

(* The answer is applied to the live snapshot and a copy taken to write. *)
ApplyAnswer(w, ok) ==
  LET applied == IF ok
                 THEN [r EXCEPT !.snapshot.quota[w.account].auth = work[w].stamp]
                 ELSE r IN
  /\ work[w].pc = "fetch"
  /\ ~Superseded(w)
  /\ ok \/ ("fetch" \in Faults /\ ~Cancelled(w))
  /\ r' = [applied EXCEPT !.persistNext = @ + 1]
  /\ Step(w, [work[w] EXCEPT !.pc = "lock", !.ok = ok, !.job = PersistenceSnapshot(applied)])
  /\ UNCHANGED <<lock, pc, local, cancelled, clock, open, disk, settings, counted>>

LockPoll(w) ==
  /\ work[w].pc = "lock"
  /\ Acquire("persist", w)
  /\ Step(w, [work[w] EXCEPT !.pc = "write"])
  /\ UNCHANGED <<r, pc, local, cancelled, clock, open, disk, settings, counted>>

WritePoll(w) ==
  /\ work[w].pc = "write"
  /\ \E ok \in BOOLEAN :
       /\ persistStateLocked(work[w].job, ok)
       /\ Step(w, Returned(w, ok /\ work[w].ok, FALSE))
  /\ Release(w)
  /\ UNCHANGED <<pc, local, cancelled, clock, open, settings, counted>>

-----------------------------------------------------------------------------
(* forceRefresh: concurrent calls for one generation share one refresh. *)

(* beginRefresh finds a refresh of the live generation: wait for it. *)
JoinRefresh(p) ==
  /\ pc[p] = "idle"
  /\ ~r.stopped
  /\ r.snapshot.gen # 0
  /\ r.refresh # None
  /\ r.refresh.gen = r.snapshot.gen
  /\ Keep(p, r.refresh.leader)
  /\ Goto(p, "follow")
  /\ UNCHANGED <<r, lock, work, cancelled, clock, open, disk, settings, counted>>

LeadRefresh(p) ==
  LET launched == [kind : {"refresh"}, by : {p}, account : Enabled(r.snapshot)] IN
  /\ pc[p] = "idle"
  /\ ~r.stopped
  /\ r.snapshot.gen # 0
  /\ r.refresh # None => r.refresh.gen # r.snapshot.gen
  /\ r' = [r EXCEPT !.refresh = [leader |-> p, gen |-> r.snapshot.gen]]
  /\ work' = [w \in Workers |->
                IF w \in launched
                THEN [NoWork EXCEPT !.pc = "ready", !.gen = r.snapshot.gen]
                ELSE work[w]]
  /\ Goto(p, "lead")
  /\ UNCHANGED <<lock, local, cancelled, clock, open, disk, settings, counted>>

Team(p) == {w \in Workers : w.kind = "refresh" /\ w.by = p /\ work[w].pc # "none"}

(* Mutant of EndRefresh: clears whatever refresh is current. *)
EndRefreshAlwaysClears(p) ==
  /\ pc[p] = "lead"
  /\ \A w \in Team(p) : work[w].pc = "reported"
  /\ Goto(p, IF \A w \in Team(p) : work[w].ok THEN "ok" ELSE "error")
  /\ r' = [r EXCEPT !.refresh = None]
  /\ work' = [w \in Workers |-> IF w \in Team(p) THEN NoWork ELSE work[w]]
  /\ UNCHANGED <<lock, local, cancelled, clock, open, disk, settings, counted>>

(* runRefresh collected every result; endRefresh. *)
EndRefresh(p) ==
  /\ pc[p] = "lead"
  /\ \A w \in Team(p) : work[w].pc = "reported"
  /\ Goto(p, IF \A w \in Team(p) : work[w].ok THEN "ok" ELSE "error")
  /\ r' = [r EXCEPT !.refresh = IF @ # None /\ @.leader = p THEN None ELSE @]
  /\ work' = [w \in Workers |-> IF w \in Team(p) THEN NoWork ELSE work[w]]
  /\ UNCHANGED <<lock, local, cancelled, clock, open, disk, settings, counted>>

(* Mutant of FollowRefresh: done is closed on success only. *)
FollowRefreshSuccess(p) ==
  /\ pc[p] = "follow"
  /\ \/ pc[local[p]] = "ok" /\ Goto(p, "ok")
     \/ pc[local[p]] = "error" /\ UNCHANGED pc
  /\ UNCHANGED <<r, lock, local, work, cancelled, clock, open, disk, settings, counted>>

(* waitRefresh: the follower gets the leader's answer. *)
FollowRefresh(p) ==
  /\ pc[p] = "follow"
  /\ pc[local[p]] \in {"ok", "error"}
  /\ Goto(p, pc[local[p]])
  /\ UNCHANGED <<r, lock, local, work, cancelled, clock, open, disk, settings, counted>>

(* The client of a refresh goes away: a follower returns, a leader's polls *)
(* are cancelled.                                                          *)
HangUp(p) ==
  /\ "client" \in Faults
  /\ \/ pc[p] = "follow" /\ Goto(p, "error") /\ UNCHANGED cancelled
     \/ pc[p] = "lead" /\ p \notin cancelled /\ cancelled' = cancelled \cup {p} /\ UNCHANGED pc
  /\ UNCHANGED <<r, lock, local, work, clock, open, disk, settings, counted>>

(* Mutant of unblock: resets the whole account. *)
unblockErases(p, chosen) ==
  /\ pc[p] = "idle"
  /\ ~r.stopped
  /\ r.snapshot.gen # 0
  /\ chosen \subseteq r.snapshot.managed
  /\ chosen # {}
  /\ r' = [r EXCEPT !.snapshot.quota =
             [a \in Accounts |-> IF a \in chosen THEN NoAccount ELSE @[a]]]
  /\ Goto(p, "ok")
  /\ UNCHANGED <<lock, local, work, cancelled, clock, open, disk, settings, counted>>

(* unblock: clears transient blocks of one or all accounts, keeps usage.   *)
unblock(p, chosen) ==
  /\ pc[p] = "idle"
  /\ ~r.stopped
  /\ r.snapshot.gen # 0
  /\ chosen \subseteq r.snapshot.managed
  /\ chosen # {}
  /\ r' = [r EXCEPT !.snapshot.quota =
             [a \in Accounts |-> IF a \in chosen THEN [@[a] EXCEPT !.blocked = FALSE] ELSE @[a]]]
  /\ Goto(p, "ok")
  /\ UNCHANGED <<lock, local, work, cancelled, clock, open, disk, settings, counted>>

-----------------------------------------------------------------------------
(* shutdown. *)

(* The WaitGroups, in the order shutdown waits for them. *)
Busy(group) ==
  CASE group = "reconfigures" -> {p \in Reconfigurers : pc[p] \notin {"idle", "ok", "error"}}
    [] group = "workers"      -> {w \in Workers : w.kind = "poller" /\ work[w].pc # "none"}
    [] group = "usage"        -> {u \in Usage : pc[u] = "write"}
    [] group = "refreshWorkers" -> {p \in Refreshers : pc[p] = "lead"}
    [] group = "operations"   -> {p \in Updaters : pc[p] \notin {"idle", "ok", "error"}}

After ==
  [reconfigures |-> "workers", workers |-> "usage", usage |-> "refreshWorkers",
   refreshWorkers |-> "operations", operations |-> "lock_final"]

(* Mutant of BeginShutdown: pollersMu is not taken. *)
BeginShutdownUnlocked(p) ==
  /\ pc[p] = "idle"
  /\ r.shutdownDone = "none"
  /\ r' = [r EXCEPT !.stopped = TRUE, !.shutdownDone = "open", !.cancel = 0]
  /\ cancelled' = cancelled \cup ({r.cancel} \ {0})
  /\ Goto(p, "reconfigures")
  /\ UNCHANGED <<lock, local, work, clock, open, disk, settings, counted>>

BeginShutdown(p) ==
  /\ pc[p] = "idle"
  /\ lock.pollers = None
  /\ r.shutdownDone = "none"
  /\ r' = [r EXCEPT !.stopped = TRUE, !.shutdownDone = "open", !.cancel = 0]
  /\ cancelled' = cancelled \cup ({r.cancel} \ {0})
  /\ Goto(p, "reconfigures")
  /\ UNCHANGED <<lock, local, work, clock, open, disk, settings, counted>>

(* A later shutdown waits for the first. *)
JoinShutdown(p) ==
  /\ pc[p] = "idle"
  /\ lock.pollers = None
  /\ r.shutdownDone # "none"
  /\ Goto(p, "follow_shutdown")
  /\ UNCHANGED <<r, lock, local, work, cancelled, clock, open, disk, settings, counted>>

WaitGroup(p) ==
  /\ pc[p] \in DOMAIN After
  /\ Busy(pc[p]) = {}
  /\ Goto(p, After[pc[p]])
  /\ UNCHANGED <<r, lock, local, work, cancelled, clock, open, disk, settings, counted>>

LockFinal(p) ==
  /\ pc[p] = "lock_final"
  /\ Acquire("persist", p)
  /\ Goto(p, "final")
  /\ UNCHANGED <<r, local, work, cancelled, clock, open, disk, settings, counted>>

(* Mutant of FinalWrite: skipped if every numbered write was made. *)
FinalWriteIfUnwritten(p) ==
  LET j == PersistenceSnapshot(r) IN
  /\ pc[p] = "final"
  /\ IF r.snapshot.gen = 0 \/ r.persisted = r.persistNext
     THEN UNCHANGED <<r, disk>>
     ELSE SaveState(j, TRUE) /\ r' = [r EXCEPT !.persistNext = j.n, !.persisted = j.n]
  /\ Release(p)
  /\ Goto(p, "close")
  /\ UNCHANGED <<local, work, cancelled, clock, open, settings, counted>>

(* The last persistence snapshot is written and the directory flushed. *)
FinalWrite(p) ==
  LET j == PersistenceSnapshot(r) IN
  /\ pc[p] = "final"
  /\ IF r.snapshot.gen = 0
     THEN UNCHANGED <<r, disk>>
     ELSE \/ /\ SaveState(j, TRUE)
             /\ r' = [r EXCEPT !.persistNext = j.n, !.persisted = j.n]
          \/ /\ Faults \cap {"refused", "unsynced"} # {}
             /\ SaveState(j, TRUE)
             /\ r' = [r EXCEPT !.persistNext = j.n, !.persisted = j.n, !.shutdownErr = TRUE]
          \/ /\ SaveState(j, FALSE)
             /\ r' = [r EXCEPT !.persistNext = j.n, !.shutdownErr = TRUE]
  /\ Release(p)
  /\ Goto(p, "close")
  /\ UNCHANGED <<local, work, cancelled, clock, open, settings, counted>>

FinishShutdown(p) ==
  /\ pc[p] = "close"
  /\ \E failed \in {FALSE} \cup {f \in {r.snapshot.gen # 0} : "close" \in Faults} :
       r' = [r EXCEPT !.shutdownDone = "closed", !.shutdownErr = @ \/ failed]
  /\ open' = IF r.snapshot.gen = 0 THEN open ELSE open \ {r.snapshot.store.handle}
  /\ Goto(p, IF r'.shutdownErr THEN "error" ELSE "ok")
  /\ UNCHANGED <<lock, local, work, cancelled, clock, disk, settings, counted>>

FollowShutdown(p) ==
  /\ pc[p] = "follow_shutdown"
  /\ r.shutdownDone = "closed"
  /\ Goto(p, IF r.shutdownErr THEN "error" ELSE "ok")
  /\ UNCHANGED <<r, lock, local, work, cancelled, clock, open, disk, settings, counted>>

-----------------------------------------------------------------------------
Reconfigure(p) ==
  \/ \E d \in Dirs, managed \in (SUBSET Accounts) \ {{}} : BeginReconfigure(p, d, managed)
  \/ RejectReconfigure(p)
  \/ LoadStaged(p)

updateAccountConfig(p) ==
  \/ BeginUpdate(p)
  \/ \E a \in Accounts, disable \in BOOLEAN : CloneLive(p, a, disable)
  \/ RejectUpdate(p)

commitSnapshotAfter(p) ==
  \/ LockSettings(p)
  \/ LockPollers(p)
  \/ LockPersist(p)
  \/ AbortCommit(p)
  \/ Publish(p)
  \/ Retire(p)

handleUsage(u) ==
  \/ LockUsage(u)
  \/ DropUsage(u)
  \/ \E a \in Accounts : ApplyUsage(u, a)
  \/ WriteUsage(u)

poll(w) ==
  \/ StartPoll(w)
  \/ StopPoller(w)
  \/ DropAnswer(w)
  \/ \E ok \in BOOLEAN : ApplyAnswer(w, ok)
  \/ LockPoll(w)
  \/ WritePoll(w)

forceRefresh(p) ==
  \/ JoinRefresh(p)
  \/ LeadRefresh(p)
  \/ EndRefresh(p)
  \/ FollowRefresh(p)
  \/ HangUp(p)

shutdown(p) ==
  \/ BeginShutdown(p)
  \/ JoinShutdown(p)
  \/ WaitGroup(p)
  \/ LockFinal(p)
  \/ FinalWrite(p)
  \/ FinishShutdown(p)
  \/ FollowShutdown(p)

(* A poller that sleeps until its next poll. *)
Asleep(w) == w.kind = "poller" /\ work[w].pc = "ready" /\ ~Cancelled(w)

(* Every call has returned and only pollers at their bound are left. *)
Quiescent ==
  /\ \A p \in Callers : pc[p] \in {"ok", "error"}
  /\ \A w \in Workers : work[w].pc = "none" \/ (Asleep(w) /\ clock >= MaxPolls)
  /\ UNCHANGED vars

Next ==
  \/ \E p \in Reconfigurers : Reconfigure(p)
  \/ \E p \in Updaters : updateAccountConfig(p)
  \/ \E p \in Committers : commitSnapshotAfter(p)
  \/ \E u \in Usage : handleUsage(u)
  \/ \E w \in Workers : poll(w)
  \/ \E p \in Refreshers : forceRefresh(p)
  \/ \E p \in Unblockers, chosen \in SUBSET Accounts : unblock(p, chosen)
  \/ \E p \in Stoppers : shutdown(p)
  \/ \E p \in Callers : Refuse(p)
  \/ Quiescent

Spec == Init /\ [][Next]_vars

(* The steps that do not wait for the outside: all but the start of a call *)
(* and the next poll of a poller that sleeps.  Requests have a timeout.    *)
Runnable ==
  \/ \E p \in Reconfigurers : pc[p] # "idle" /\ Reconfigure(p)
  \/ \E p \in Updaters : pc[p] # "idle" /\ updateAccountConfig(p)
  \/ \E p \in Committers : commitSnapshotAfter(p)
  \/ \E u \in Usage : pc[u] # "idle" /\ handleUsage(u)
  \/ \E w \in Workers : ~Asleep(w) /\ poll(w)
  \/ \E p \in Refreshers : EndRefresh(p) \/ FollowRefresh(p)
  \/ \E p \in Stoppers : pc[p] # "idle" /\ shutdown(p)

(* While some goroutine can run, some goroutine is run.  Calls are made    *)
(* once and polls are bounded, so that no step can be taken forever and    *)
(* nothing more has to be said of which one is.                            *)
FairSpec == Spec /\ WF_vars(Runnable)

-----------------------------------------------------------------------------
(* Properties. *)

PCs == {"idle", "lock_settings", "load", "lock_pollers", "lock_persist", "publish", "retire",
        "apply", "write", "lead", "follow", "follow_shutdown", "lock_final", "final", "close",
        "ok", "error"} \cup DOMAIN After

(* Type invariant.  Locks are held by calls or workers that need them, and *)
(* only managed accounts have state.                                       *)
TypeOK ==
  /\ r.snapshot.gen \in {0} \cup Generations
  /\ r.snapshot.quota \in [Accounts -> Account]
  /\ \A a \in Accounts \ r.snapshot.managed : r.snapshot.quota[a] = NoAccount
  /\ r.snapshot.disabled \subseteq r.snapshot.managed
  /\ r.snapshot.gen = 0 \/ r.snapshot.store \in Store
  /\ r.persisted <= r.persistNext
  /\ r.stopped <=> r.shutdownDone # "none"
  /\ \A name \in DOMAIN lock : lock[name] \in Callers \cup Workers \cup {None}
  /\ pc \in [Callers -> PCs]
  /\ \A w \in Workers : work[w].pc \in {"none", "ready", "fetch", "lock", "write", "reported"}
  /\ cancelled \subseteq Generations \cup Refreshers
  /\ clock \in Stamps
  /\ open \subseteq Reconfigurers
  /\ disk \in [Dirs -> [Accounts -> Account]]
  /\ settings \in [Dirs -> SUBSET Accounts]
  /\ counted \in [Dirs -> [Accounts -> SUBSET Usage]]

Configured == r.snapshot.gen # 0

(* The usage of an account that handleUsage acknowledged with nil. *)
Acked(d, a) == {u \in counted[d][a] : pc[u] = "ok"}

(* Usage that handleUsage acknowledged with nil is in state.json of its    *)
(* directory for as long as the account stays configured there: no older   *)
(* persistence snapshot, no late poll and no superseded store writes over  *)
(* it.                                                                     *)
DiskKeepsAcked ==
  \A d \in Dirs, a \in Accounts : Acked(d, a) \subseteq disk[d][a].events

(* The live snapshot counts every acknowledged record of its accounts,     *)
(* whatever was staged, saved or reloaded when it was published.           *)
LiveKeepsAcked ==
  Configured =>
    \A a \in r.snapshot.managed :
      Acked(r.snapshot.store.dir, a) \subseteq r.snapshot.quota[a].events

(* While an account stays configured on one directory nothing but usage    *)
(* and unblock changes what is counted against it, and consumption never   *)
(* shrinks: a snapshot staged from an older state.json drops no usage and  *)
(* brings back no block.                                                   *)
LedgerMonotone ==
  [][\A a \in r.snapshot.managed \cap r'.snapshot.managed :
       r'.snapshot.store.dir = r.snapshot.store.dir =>
         /\ r.snapshot.quota[a].events \subseteq r'.snapshot.quota[a].events
         /\ r'.snapshot.gen # r.snapshot.gen =>
              r'.snapshot.quota[a].blocked = r.snapshot.quota[a].blocked]_vars

(* Usage that was counted and is not in state.json is being written, or    *)
(* the account carries the persistence warning.                            *)
LossIsFlagged ==
  Configured =>
    \A a \in r.snapshot.managed :
      LET dir == r.snapshot.store.dir
          lost == (counted[dir][a] \cap r.snapshot.quota[a].events) \ disk[dir][a].events IN
      r.snapshot.quota[a].warned \/ \A u \in lost : pc[u] = "write"

(* Outside a commit every enabled account of the live snapshot has a       *)
(* running poller, and every other poller has been told to stop.           *)
PollersMatchSnapshot ==
  lock.pollers = None /\ ~r.stopped /\ Configured =>
    /\ r.snapshot.gen \notin cancelled
    /\ \A a \in Enabled(r.snapshot) :
         work[[kind |-> "poller", by |-> r.snapshot.gen, account |-> a]].pc # "none"
    /\ \A w \in Busy("workers") : w.by = r.snapshot.gen \/ w.by \in cancelled

(* Polls launched before an account was disabled change nothing after. *)
DisabledNotPolled ==
  [][\A a \in r.snapshot.disabled \cap r'.snapshot.disabled :
       r'.snapshot.store.dir = r.snapshot.store.dir =>
         r'.snapshot.quota[a].auth = r.snapshot.quota[a].auth]_vars

(* The accounts the live snapshot disables are the ones its directory's    *)
(* settings disable, whatever reconfigures and updates race.               *)
PublishedSettings ==
  Configured =>
    r.snapshot.disabled = settings[r.snapshot.store.dir] \cap r.snapshot.managed

(* The live store handle is open until shutdown closes it. *)
LiveHandleOpen ==
  Configured /\ r.shutdownDone # "closed" => r.snapshot.store.handle \in open

(* No handle outlives its use: an open handle is the live one, belongs to  *)
(* a reconfigure in progress, or is about to be retired.                   *)
NoHandleLeak ==
  \A h \in open :
    \/ Configured /\ r.snapshot.store.handle = h
    \/ h \in Busy("reconfigures")
    \/ \E p \in Committers : pc[p] = "retire" /\ local[p].previous.store.handle = h

(* At most one refresh of a generation runs at a time: a refresh of the    *)
(* live generation that runs is the one later callers would join, so that  *)
(* the end of a superseded refresh never makes room for a second one.      *)
RefreshesCoalesce ==
  \A w \in Workers :
    w.kind = "refresh" /\ work[w].pc # "none" /\ work[w].gen = r.snapshot.gen =>
      r.refresh = [leader |-> w.by, gen |-> r.snapshot.gen]

(* Once shutdown has returned no poller, refresh worker, admitted usage,   *)
(* reconfigure or update is left and every store handle is closed.         *)
QuietAfterShutdown ==
  r.shutdownDone = "closed" =>
    /\ \A w \in Workers : work[w].pc = "none"
    /\ \A group \in DOMAIN After : Busy(group) = {}
    /\ open = {}

(* A shutdown that reports no error leaves exactly the final state of      *)
(* every account on disk.                                                  *)
FinalStateOnDisk ==
  r.shutdownDone = "closed" /\ ~r.shutdownErr /\ Configured =>
    disk[r.snapshot.store.dir] = r.snapshot.quota

(* A reconfigure that reports an error leaves the previous configuration   *)
(* in effect: the runtime never runs on the store it opened.               *)
FailedReconfigureNotLive ==
  \A p \in Reconfigurers : pc[p] = "error" /\ Configured => r.snapshot.store.handle # p

(* The calls of a kind that are in progress.  A call is made once, so that *)
(* []<>(none in progress) says that each of them returns.                  *)
InProgress(callers) == {p \in callers : pc[p] \notin {"idle", "ok", "error"}}

(* Every shutdown, first or later, returns. *)
ShutdownReturns == []<>(InProgress(Stoppers) = {})

(* Every forced refresh returns: a follower is never left waiting, even if *)
(* its leader's client hangs up or a reconfigure supersedes the refresh.   *)
RefreshReturns == []<>(InProgress(Refreshers) = {})

(* Every poller of a superseded generation or a stopped runtime ends, so   *)
(* that shutdown's wait for the pollers does too.  A poller never starts   *)
(* again, and its cancellation is final.                                   *)
SupersededPollersEnd ==
  []<>(\A w \in Workers : w.kind = "poller" /\ w.by \in cancelled => work[w].pc = "none")
=============================================================================
