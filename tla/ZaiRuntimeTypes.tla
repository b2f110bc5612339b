-------------------------- MODULE ZaiRuntimeTypes ---------------------------
(***************************************************************************)
(* ZaiRuntime, the records of its state and what each step does to them.   *)
(* Base is the inductive invariant the proofs about the runtime rest on;   *)
(* this module shows that steps keep the types, the locks, the workers,    *)
(* the live snapshot and the numbers of copies.                            *)
(***************************************************************************)
EXTENDS ZaiRuntime, FiniteSetTheorems, TLAPS

(* The records of the model. *)
Snapshot == [gen : {0} \cup Generations, store : Store \cup {None}, managed : SUBSET Accounts,
             disabled : SUBSET Accounts, quota : [Accounts -> Account]]
Refresh == [leader : Refreshers, gen : Generations]
Runtime == [snapshot : Snapshot, stopped : BOOLEAN, lastErr : BOOLEAN, cancel : {0} \cup Generations,
            refresh : Refresh \cup {None}, persistNext : Nat, persisted : Nat,
            shutdownDone : {"none", "open", "closed"}, shutdownErr : BOOLEAN]
Job == [n : Nat, gen : Generations, store : Store, accounts : [Accounts -> Account]]
Previous == [gen : {0} \cup Generations, store : Store \cup {None}]
Staged == [snapshot : Snapshot, settings : (SUBSET Accounts) \cup {None},
           previous : Previous \cup {None}]
WorkPCs == {"none", "ready", "fetch", "lock", "write", "reported"}
Work == [pc : WorkPCs, gen : {0} \cup Generations, stamp : Stamps, ok : BOOLEAN, job : Job \cup {None}]
LockNames == {"settings", "pollers", "persist"}

(* Only managed accounts are disabled or have state. *)
Proper(s) ==
  /\ s.disabled \subseteq s.managed
  /\ \A a \in Accounts \ s.managed : s.quota[a] = NoAccount

Typed ==
  /\ r \in Runtime
  /\ lock \in [LockNames -> Callers \cup Workers \cup {None}]
  /\ pc \in [Callers -> PCs]
  /\ local \in [Callers -> Staged \cup Job \cup Refreshers \cup {None}]
  /\ work \in [Workers -> Work]
  /\ cancelled \in SUBSET (Generations \cup Refreshers)
  /\ clock \in Nat
  /\ open \in SUBSET Reconfigurers
  /\ disk \in [Dirs -> [Accounts -> Account]]
  /\ settings \in [Dirs -> SUBSET Accounts]
  /\ counted \in [Dirs -> [Accounts -> SUBSET Usage]]

(* Where a committer is in its commit. *)
Staging == {"lock_pollers", "lock_persist", "publish"}
Opened == {"lock_settings", "load"} \cup Staging

(* Where the first shutdown is until it returns. *)
Stopping == DOMAIN After \cup {"lock_final", "final", "close"}

(* What a call carries from one step to the next, and what it knows of the *)
(* live snapshot: a staged update is of the live one, and the commit that  *)
(* has published it has yet to retire the one before.                      *)
CallOK(p) ==
  /\ p \in Reconfigurers /\ pc[p] \in Opened =>
       /\ local[p] \in Staged
       /\ Proper(local[p].snapshot)
       /\ local[p].snapshot.store \in Store
       /\ local[p].snapshot.store.handle = p
       /\ p \in open
  /\ p \in Updaters /\ pc[p] \in Staging =>
       /\ local[p] \in Staged
       /\ Proper(local[p].snapshot)
       /\ local[p].settings \in SUBSET Accounts
       /\ local[p].snapshot.managed = r.snapshot.managed
       /\ local[p].snapshot.store = r.snapshot.store
       /\ r.snapshot.gen # 0
  /\ p \in Committers /\ pc[p] = "retire" =>
       /\ local[p] \in Staged
       /\ local[p].previous \in Previous
       /\ ~r.stopped
       /\ r.snapshot.gen = local[p].previous.gen + 1
       /\ local[p].previous.gen # 0 =>
            /\ local[p].previous.store \in Store
            /\ pc[local[p].previous.store.handle] \in {"ok", "error"}
       /\ local[p].previous.gen = 0 \/ local[p].previous.store # r.snapshot.store =>
            r.snapshot.store.handle = p
       /\ p \in open => r.snapshot.store.handle = p
  /\ p \in Usage /\ pc[p] = "write" => local[p] \in Job
  /\ p \in Refreshers /\ pc[p] = "follow" => local[p] \in Refreshers
  /\ p \in Stoppers /\ pc[p] \in Stopping => r.stopped
Calls == \A p \in Callers : CallOK(p)

(* The live snapshot. *)
Live ==
  /\ Proper(r.snapshot)
  /\ r.snapshot.gen = 0 => r.snapshot.managed = {}
  /\ r.snapshot.gen # 0 =>
       r.snapshot.store \in Store /\ pc[r.snapshot.store.handle] \in {"retire", "ok", "error"}
  /\ r.persisted <= r.persistNext
  /\ r.stopped <=> r.shutdownDone # "none"

(* The workers: their generation is not newer than the live one, they poll *)
(* enabled accounts of it, and those of a refresh have a leader.           *)
Working ==
  \A w \in Workers : work[w].pc # "none" =>
    /\ work[w].pc \in {"lock", "write"} => work[w].job \in Job
    /\ work[w].gen \in 1..r.snapshot.gen
    /\ work[w].gen = r.snapshot.gen => w.account \in Enabled(r.snapshot)
    /\ w.kind = "poller" => work[w].gen = w.by
    /\ w.kind = "refresh" => pc[w.by] = "lead"

(* Every generation has a committer of its own, every poll of a forced     *)
(* refresh a worker of its own.                                            *)
Committed == {p \in Committers : pc[p] \in {"retire", "ok", "error"}}
Asked == {w \in Workers : w.kind = "refresh" /\
            (work[w].pc \in {"fetch", "lock", "write", "reported"} \/ pc[w.by] \in {"ok", "error"})}
Bounded ==
  /\ r.snapshot.gen <= Cardinality(Committed)
  /\ clock <= MaxPolls + Cardinality(Asked)

(* The locks a call holds where it is. *)
Holds(held, p, l) ==
  /\ p \in Committers /\ l \in {"load", "retire"} \cup Staging => held["settings"] = p
  /\ p \in Committers /\ l \in {"lock_persist", "publish", "retire"} => held["pollers"] = p
  /\ p \in Committers /\ l \in {"publish", "retire"} => held["persist"] = p
  /\ p \in Usage /\ l \in {"apply", "write"} => held["persist"] = p
  /\ p \in Stoppers /\ l = "final" => held["persist"] = p
Locked ==
  /\ \A p \in Callers : Holds(lock, p, pc[p])
  /\ \A w \in Workers : work[w].pc = "write" => lock["persist"] = w

(* No copy waiting to be written is newer than the last number given. *)
Numbered ==
  /\ \A u \in Usage : pc[u] = "write" => local[u].n <= r.persistNext
  /\ \A w \in Workers : work[w].pc \in {"lock", "write"} => work[w].job.n <= r.persistNext

Base == Typed /\ Calls /\ Live /\ Working /\ Bounded /\ Locked /\ Numbered

-----------------------------------------------------------------------------
(* The generations and the sizes of the sets of callers are numbers. *)
LEMMA NumberTypes ==
  /\ Generations \subseteq Nat \ {0}
  /\ IsFiniteSet(Committers) /\ Cardinality(Committers) \in Nat
  /\ IsFiniteSet(Refreshers) /\ Cardinality(Refreshers) \in Nat
  /\ Cardinality(Accounts) \in Nat
  /\ \A n \in Nat : n <= Cardinality(Committers) => n \in {0} \cup Generations
  /\ Stamps \subseteq Nat /\ 0 \in Stamps
<1>1. IsFiniteSet(Committers) /\ Cardinality(Committers) \in Nat
  BY RuntimeAssumption, FS_Subset, FS_CardinalityType DEF Callers
<1>2. IsFiniteSet(Refreshers) /\ Cardinality(Refreshers) \in Nat
  BY RuntimeAssumption, FS_Subset, FS_CardinalityType DEF Callers
<1>3. Cardinality(Accounts) \in Nat
  BY RuntimeAssumption, FS_CardinalityType
<1>4. Cardinality(Refreshers) * Cardinality(Accounts) \in Nat
  BY <1>2, <1>3
<1> QED
  BY <1>1, <1>2, <1>3, <1>4, RuntimeAssumption DEF Generations, Stamps

(* A generation is a positive number. *)
LEMMA GenerationRange == \A n \in Generations : n \in Nat /\ n # 0 /\ n \in 1..n
<1>1. \A n \in Generations : n \in Nat /\ 1 <= n
  BY NumberTypes DEF Generations
<1> QED BY <1>1

(* The empty account, snapshot and worker have their types. *)
LEMMA EmptyTypes ==
  /\ NoAccount \in Account
  /\ NoQuota \in [Accounts -> Account]
  /\ NoWork \in Work
  /\ NoSnapshot \in Snapshot
<1>1. NoAccount \in Account
  BY NumberTypes DEF NoAccount, Account
<1>2. NoQuota \in [Accounts -> Account]
  BY <1>1 DEF NoQuota
<1>3. NoWork \in Work
  BY NumberTypes DEF NoWork, Work, WorkPCs
<1> QED
  BY <1>1, <1>2, <1>3 DEF NoSnapshot, Snapshot

(* Counting a usage record leaves an account. *)
LEMMA CountType ==
  ASSUME NEW account \in Account, NEW u \in Usage
  PROVE  Count(account, u) \in Account
BY Zenon DEF Count, Account

(* The persistence warning changes nothing but the flag of the managed     *)
(* accounts, which it sets if the failed copy is of the live snapshot.     *)
LEMMA WarnType ==
  ASSUME NEW s \in Snapshot, NEW j
  PROVE  /\ Warn(s, j) \in Snapshot
         /\ Warn(s, j).gen = s.gen /\ Warn(s, j).store = s.store
         /\ Warn(s, j).managed = s.managed /\ Warn(s, j).disabled = s.disabled
         /\ \A a \in Accounts :
              /\ Warn(s, j).quota[a].events = s.quota[a].events
              /\ Warn(s, j).quota[a].auth = s.quota[a].auth
              /\ Warn(s, j).quota[a].blocked = s.quota[a].blocked
              /\ a \notin s.managed => Warn(s, j).quota[a] = s.quota[a]
              /\ s.quota[a].warned => Warn(s, j).quota[a].warned
              /\ s.gen = j.gen /\ s.store = j.store /\ a \in s.managed => Warn(s, j).quota[a].warned
<1>1. CASE ~(s.gen = j.gen /\ s.store = j.store)
  BY <1>1 DEF Warn, Snapshot
<1>2. CASE s.gen = j.gen /\ s.store = j.store
  <2> DEFINE quota == Flagged(s.quota, s.managed)
  <2>1. Warn(s, j) = [s EXCEPT !.quota = quota]
    BY <1>2 DEF Warn
  <2>2. \A a \in Accounts :
               /\ quota[a] \in Account
               /\ quota[a].events = s.quota[a].events
               /\ quota[a].auth = s.quota[a].auth
               /\ quota[a].blocked = s.quota[a].blocked
               /\ a \notin s.managed => quota[a] = s.quota[a]
               /\ a \in s.managed => quota[a].warned = TRUE
               /\ s.quota[a].warned => quota[a].warned
    BY Zenon DEF Flagged, Snapshot, Account
  <2>3. quota \in [Accounts -> Account]
    BY <2>2 DEF Flagged
  <2> HIDE DEF quota
  <2>4. Warn(s, j) \in Snapshot /\ Warn(s, j).gen = s.gen /\ Warn(s, j).store = s.store
        /\ Warn(s, j).managed = s.managed /\ Warn(s, j).disabled = s.disabled /\ Warn(s, j).quota = quota
    BY <2>1, <2>3 DEF Snapshot
  <2> QED BY <2>2, <2>4
<1> QED BY <1>1, <1>2

(* What CarryForward makes of a staged snapshot: it takes over the store   *)
(* of the live one on the same directory, and the state of the accounts    *)
(* they share.                                                             *)
LEMMA CarryForwardType ==
  ASSUME NEW live \in Snapshot, NEW next \in Snapshot, live.gen + 1 \in Generations
  PROVE  LET s == CarryForward(live, next) IN
         /\ s \in Snapshot
         /\ s.gen = live.gen + 1
         /\ s.store = IF SameStore(live, next) THEN live.store ELSE next.store
         /\ s.managed = next.managed /\ s.disabled = next.disabled
         /\ \A a \in Accounts : s.quota[a] =
              IF SameStore(live, next) /\ a \in live.managed \cap next.managed
              THEN live.quota[a] ELSE next.quota[a]
<1>1. CASE SameStore(live, next)
  BY Zenon, <1>1 DEF CarryForward, Snapshot
<1>2. CASE ~SameStore(live, next)
  BY <1>2 DEF CarryForward, Snapshot
<1> QED BY <1>1, <1>2

-----------------------------------------------------------------------------
(* What the actions do to pluginRuntime. *)

(* The same snapshot up to the state of its accounts. *)
Frame(s, t) == t.gen = s.gen /\ t.store = s.store /\ t.managed = s.managed /\ t.disabled = s.disabled

(* The same lifecycle. *)
SamePhase ==
  /\ r'.stopped = r.stopped /\ r'.cancel = r.cancel
  /\ r'.shutdownDone = r.shutdownDone /\ r'.shutdownErr = r.shutdownErr

(* A write leaves accounts on disk. *)
LEMMA SaveStateType ==
  ASSUME Typed, NEW j \in Job, NEW ok \in BOOLEAN, SaveState(j, ok)
  PROVE  disk' \in [Dirs -> [Accounts -> Account]]
BY DEF Typed, SaveState, Job

(* persistStateLocked changes the number of the last write or the          *)
(* persistence warning, and nothing else of the runtime.                   *)
LEMMA PersistEffect ==
  ASSUME Typed, NEW j \in Job, NEW ok \in BOOLEAN, persistStateLocked(j, ok)
  PROVE  /\ r' \in Runtime /\ SamePhase /\ Frame(r.snapshot, r'.snapshot)
         /\ disk' \in [Dirs -> [Accounts -> Account]]
         /\ r'.refresh = r.refresh /\ r'.persistNext = r.persistNext
         /\ r'.persisted = r.persisted \/ (r'.persisted = j.n /\ j.n > r.persisted)
         /\ r'.snapshot \in {r.snapshot, Warn(r.snapshot, j)}
<1>1. r.snapshot \in Snapshot
  BY DEF Typed, Runtime
<1>2. CASE j.n <= r.persisted /\ ok /\ UNCHANGED <<r, disk>>
  BY <1>2 DEF Typed, SamePhase, Frame
<1>3. CASE j.n > r.persisted /\ SaveState(j, ok) /\ ok /\ r' = [r EXCEPT !.persisted = j.n]
  BY Zenon, <1>3, SaveStateType DEF Typed, SamePhase, Frame, Runtime, Job
<1>4. CASE j.n > r.persisted /\ SaveState(j, ok) /\ ~ok /\ r' = [r EXCEPT !.snapshot = Warn(r.snapshot, j)]
  <2>1. r' \in Runtime /\ SamePhase /\ r'.snapshot = Warn(r.snapshot, j)
        /\ r'.refresh = r.refresh /\ r'.persistNext = r.persistNext /\ r'.persisted = r.persisted
    BY Zenon, <1>1, <1>4, WarnType DEF Typed, Runtime, SamePhase
  <2>2. disk' \in [Dirs -> [Accounts -> Account]]
    BY <1>4, SaveStateType
  <2>3. Frame(r.snapshot, r'.snapshot)
    BY <1>1, <2>1, WarnType DEF Frame
  <2> QED BY <2>1, <2>2, <2>3
<1> QED BY <1>2, <1>3, <1>4 DEF persistStateLocked

(* A persistence snapshot of a configured runtime is a copy to write. *)
LEMMA JobType ==
  ASSUME NEW x \in Runtime, x.snapshot.gen # 0, x.snapshot.store \in Store
  PROVE  PersistenceSnapshot(x) \in Job
BY DEF PersistenceSnapshot, Job, Runtime, Snapshot

(* handleUsage counts the record in one account and takes a numbered copy  *)
(* of the result.                                                          *)
LEMMA ApplyUsageEffect ==
  ASSUME Typed, Live, NEW u \in Usage, NEW a \in Accounts, ApplyUsage(u, a)
  PROVE  /\ r' \in Runtime /\ SamePhase /\ Frame(r.snapshot, r'.snapshot)
         /\ r'.snapshot.quota = [r.snapshot.quota EXCEPT ![a] = Count(r.snapshot.quota[a], u)]
         /\ r'.refresh = r.refresh
         /\ r'.persistNext = r.persistNext + 1 /\ r'.persisted = r.persisted
         /\ local'[u] \in Job
         /\ local'[u].n = r.persistNext + 1
         /\ local'[u].gen = r.snapshot.gen /\ local'[u].store = r.snapshot.store
         /\ local'[u].accounts = r'.snapshot.quota
<1> DEFINE quota == [r.snapshot.quota EXCEPT ![a] = Count(r.snapshot.quota[a], u)]
           applied == [r EXCEPT !.snapshot = [r.snapshot EXCEPT !.quota = quota]]
<1>1. r.snapshot \in Snapshot /\ r \in Runtime /\ r.snapshot.quota \in [Accounts -> Account]
  BY DEF Typed, Runtime, Snapshot
<1>2. quota \in [Accounts -> Account]
  BY <1>1, CountType
<1> HIDE DEF quota
<1>3. applied \in Runtime /\ applied.snapshot.quota = quota /\ Frame(r.snapshot, applied.snapshot)
      /\ applied.persistNext = r.persistNext /\ applied.persisted = r.persisted /\ applied.refresh = r.refresh
      /\ applied.stopped = r.stopped /\ applied.cancel = r.cancel
      /\ applied.shutdownDone = r.shutdownDone /\ applied.shutdownErr = r.shutdownErr
  BY <1>1, <1>2 DEF Runtime, Snapshot, Frame
<1>4. r' = [applied EXCEPT !.persistNext = applied.persistNext + 1] /\ local'[u] = PersistenceSnapshot(applied)
  BY DEF ApplyUsage, Keep, Typed, quota, Callers
<1>5. r.snapshot.gen # 0 /\ r.snapshot.store \in Store
  BY DEF ApplyUsage, Live
<1> HIDE DEF applied
<1>6. PersistenceSnapshot(applied) \in Job
  BY <1>3, <1>5, JobType DEF Frame
<1>7. r' \in Runtime /\ SamePhase /\ r'.snapshot = applied.snapshot /\ r'.refresh = r.refresh
      /\ r'.persistNext = r.persistNext + 1 /\ r'.persisted = r.persisted
  BY <1>3, <1>4 DEF Runtime, SamePhase
<1> QED BY <1>3, <1>4, <1>6, <1>7 DEF PersistenceSnapshot, Frame, quota

(* pollOnce stamps one account, if the answer was good, and takes a        *)
(* numbered copy of the result.                                            *)
LEMMA ApplyAnswerEffect ==
  ASSUME Typed, Live, Working, NEW w \in Workers, NEW ok \in BOOLEAN, ApplyAnswer(w, ok)
  PROVE  /\ r' \in Runtime /\ SamePhase /\ Frame(r.snapshot, r'.snapshot)
         /\ r'.snapshot.quota = IF ok THEN [r.snapshot.quota EXCEPT ![w.account] =
                                              [r.snapshot.quota[w.account] EXCEPT !.auth = work[w].stamp]]
                                ELSE r.snapshot.quota
         /\ r'.refresh = r.refresh
         /\ r'.persistNext = r.persistNext + 1 /\ r'.persisted = r.persisted
         /\ work'[w] \in Work /\ work'[w].pc = "lock" /\ work'[w].gen = work[w].gen
         /\ work'[w].job \in Job
         /\ work'[w].job.n = r.persistNext + 1
         /\ work'[w].job.gen = r.snapshot.gen /\ work'[w].job.store = r.snapshot.store
         /\ work'[w].job.accounts = r'.snapshot.quota
<1> DEFINE quota == IF ok THEN [r.snapshot.quota EXCEPT ![w.account] =
                                  [r.snapshot.quota[w.account] EXCEPT !.auth = work[w].stamp]]
                    ELSE r.snapshot.quota
           applied == [r EXCEPT !.snapshot = [r.snapshot EXCEPT !.quota = quota]]
<1>1. r.snapshot \in Snapshot /\ r \in Runtime /\ r.snapshot.quota \in [Accounts -> Account]
      /\ work[w] \in Work /\ work[w].stamp \in Stamps /\ w.account \in Accounts
  BY DEF Typed, Runtime, Snapshot, Work, Workers
<1>2. quota \in [Accounts -> Account]
  BY <1>1 DEF Account
<1> HIDE DEF quota
<1>3. applied \in Runtime /\ applied.snapshot.quota = quota /\ Frame(r.snapshot, applied.snapshot)
      /\ applied.persistNext = r.persistNext /\ applied.persisted = r.persisted /\ applied.refresh = r.refresh
      /\ applied.stopped = r.stopped /\ applied.cancel = r.cancel
      /\ applied.shutdownDone = r.shutdownDone /\ applied.shutdownErr = r.shutdownErr
  BY <1>1, <1>2 DEF Runtime, Snapshot, Frame
<1>4. r' = [applied EXCEPT !.persistNext = applied.persistNext + 1]
      /\ work'[w] = [work[w] EXCEPT !.pc = "lock", !.ok = ok, !.job = PersistenceSnapshot(applied)]
  <2>1. CASE ok
    BY <2>1 DEF ApplyAnswer, Step, Typed, quota
  <2>2. CASE ~ok
    <3>1. applied = r
      BY <1>1, <2>2 DEF quota, Runtime, Snapshot
    <3> QED BY Zenon, <2>2, <3>1 DEF ApplyAnswer, Step, Typed
  <2> QED BY <2>1, <2>2
<1>5. r.snapshot.gen # 0 /\ r.snapshot.store \in Store
  BY <1>1, NumberTypes DEF ApplyAnswer, Live, Working, Superseded, Snapshot
<1> HIDE DEF applied
<1>6. PersistenceSnapshot(applied) \in Job
  BY <1>3, <1>5, JobType DEF Frame
<1>7. r' \in Runtime /\ SamePhase /\ r'.snapshot = applied.snapshot /\ r'.refresh = r.refresh
      /\ r'.persistNext = r.persistNext + 1 /\ r'.persisted = r.persisted
  BY <1>3, <1>4 DEF Runtime, SamePhase
<1>8. work'[w] \in Work /\ work'[w].pc = "lock" /\ work'[w].gen = work[w].gen
      /\ work'[w].job = PersistenceSnapshot(applied)
  BY Zenon, <1>1, <1>4, <1>6 DEF Work, WorkPCs
<1> QED BY <1>3, <1>6, <1>7, <1>8 DEF PersistenceSnapshot, Frame, quota

(* recordError leaves all but lastErr. *)
LEMMA RejectEffect ==
  ASSUME Typed, recordError
  PROVE  /\ r' \in Runtime /\ SamePhase /\ r'.snapshot = r.snapshot /\ r'.refresh = r.refresh
         /\ r'.persistNext = r.persistNext /\ r'.persisted = r.persisted
BY Zenon DEF Typed, recordError, Runtime, SamePhase

(* unblock lifts blocks and changes nothing else. *)
LEMMA UnblockEffect ==
  ASSUME Typed, NEW p \in Unblockers, NEW chosen \in SUBSET Accounts, unblock(p, chosen)
  PROVE  /\ r' \in Runtime /\ SamePhase /\ Frame(r.snapshot, r'.snapshot)
         /\ r'.refresh = r.refresh
         /\ r'.persistNext = r.persistNext /\ r'.persisted = r.persisted
         /\ \A a \in Accounts :
              /\ r'.snapshot.quota[a].events = r.snapshot.quota[a].events
              /\ r'.snapshot.quota[a].auth = r.snapshot.quota[a].auth
              /\ r'.snapshot.quota[a].warned = r.snapshot.quota[a].warned
              /\ a \notin r.snapshot.managed => r'.snapshot.quota[a] = r.snapshot.quota[a]
<1> DEFINE quota == [a \in Accounts |-> IF a \in chosen THEN [r.snapshot.quota[a] EXCEPT !.blocked = FALSE]
                                        ELSE r.snapshot.quota[a]]
<1>1. r.snapshot \in Snapshot /\ r \in Runtime /\ r.snapshot.quota \in [Accounts -> Account]
  BY DEF Typed, Runtime, Snapshot
<1>2. /\ quota \in [Accounts -> Account]
      /\ \A a \in Accounts :
           /\ quota[a].events = r.snapshot.quota[a].events
           /\ quota[a].auth = r.snapshot.quota[a].auth
           /\ quota[a].warned = r.snapshot.quota[a].warned
           /\ a \notin chosen => quota[a] = r.snapshot.quota[a]
  BY Zenon, <1>1 DEF Account
<1>3. r' = [r EXCEPT !.snapshot = [r.snapshot EXCEPT !.quota = quota]] /\ chosen \subseteq r.snapshot.managed
  BY DEF unblock
<1> HIDE DEF quota
<1>4. r' \in Runtime /\ SamePhase /\ Frame(r.snapshot, r'.snapshot) /\ r'.refresh = r.refresh
         /\ r'.persistNext = r.persistNext /\ r'.persisted = r.persisted /\ r'.snapshot.quota = quota
  BY <1>1, <1>2, <1>3 DEF Runtime, Snapshot, SamePhase, Frame
<1> QED BY <1>2, <1>3, <1>4

(* beginRefresh and endRefresh touch the current refresh only. *)
LEMMA RefreshEffect ==
  ASSUME Typed, NEW p \in Refreshers, LeadRefresh(p) \/ EndRefresh(p)
  PROVE  /\ r' \in Runtime /\ SamePhase /\ r'.snapshot = r.snapshot
         /\ r'.persistNext = r.persistNext /\ r'.persisted = r.persisted
<1>1. r \in Runtime /\ r.snapshot.gen \in {0} \cup Generations
  BY DEF Typed, Runtime, Snapshot
<1>2. CASE LeadRefresh(p)
  BY <1>1, <1>2 DEF LeadRefresh, Runtime, Refresh, SamePhase
<1>3. CASE EndRefresh(p)
  BY <1>1, <1>3 DEF EndRefresh, Runtime, Refresh, SamePhase
<1> QED BY <1>2, <1>3

(* The first shutdown stops the runtime. *)
LEMMA BeginShutdownEffect ==
  ASSUME Typed, NEW p \in Stoppers, BeginShutdown(p)
  PROVE  /\ r' \in Runtime /\ r'.snapshot = r.snapshot /\ r'.refresh = r.refresh
         /\ r'.persistNext = r.persistNext /\ r'.persisted = r.persisted
         /\ r'.stopped = TRUE /\ r'.shutdownDone = "open" /\ r'.cancel = 0
         /\ r'.shutdownErr = r.shutdownErr
BY Zenon DEF Typed, BeginShutdown, Runtime

(* The final write of shutdown gives out a number and records it. *)
LEMMA FinalWriteEffect ==
  ASSUME Typed, Live, NEW p \in Stoppers, FinalWrite(p)
  PROVE  /\ r' \in Runtime /\ r'.snapshot = r.snapshot /\ r'.refresh = r.refresh
         /\ disk' \in [Dirs -> [Accounts -> Account]]
         /\ r'.stopped = r.stopped /\ r'.shutdownDone = r.shutdownDone /\ r'.cancel = r.cancel
         /\ r.persistNext <= r'.persistNext
         /\ r'.persisted <= r'.persistNext /\ r.persisted <= r'.persisted
<1>1. CASE r.snapshot.gen = 0
  BY <1>1 DEF Typed, FinalWrite, Live, Runtime
<1>2. CASE r.snapshot.gen # 0
  <2> DEFINE j == PersistenceSnapshot(r)
  <2>1. j \in Job /\ j.n = r.persistNext + 1
    BY <1>2, JobType DEF Typed, Live, PersistenceSnapshot
  <2>2. \E ok \in BOOLEAN : SaveState(j, ok)
    BY Zenon, <1>2 DEF FinalWrite
  <2>3. disk' \in [Dirs -> [Accounts -> Account]]
    <3> HIDE DEF j
    <3> QED BY <2>1, <2>2, SaveStateType
  <2>4. \/ r' = [r EXCEPT !.persistNext = j.n, !.persisted = j.n]
        \/ r' = [r EXCEPT !.persistNext = j.n, !.persisted = j.n, !.shutdownErr = TRUE]
        \/ r' = [r EXCEPT !.persistNext = j.n, !.shutdownErr = TRUE]
    BY Zenon, <1>2 DEF FinalWrite
  <2>5. r \in Runtime /\ j.n \in Nat /\ r.persistNext <= j.n /\ r.persisted <= j.n /\ j.n <= j.n
    BY <2>1 DEF Typed, Live, Runtime
  <2> HIDE DEF j
  <2>6. CASE r' = [r EXCEPT !.persistNext = j.n, !.persisted = j.n]
    BY Zenon, <2>3, <2>5, <2>6 DEF Runtime
  <2>7. CASE r' = [r EXCEPT !.persistNext = j.n, !.persisted = j.n, !.shutdownErr = TRUE]
    BY Zenon, <2>3, <2>5, <2>7 DEF Runtime
  <2>8. CASE r' = [r EXCEPT !.persistNext = j.n, !.shutdownErr = TRUE]
    <3>1. r' \in Runtime /\ r'.snapshot = r.snapshot /\ r'.refresh = r.refresh /\ r'.stopped = r.stopped
          /\ r'.shutdownDone = r.shutdownDone /\ r'.cancel = r.cancel
          /\ r'.persistNext = j.n /\ r'.persisted = r.persisted
      BY Zenon, <2>5, <2>8 DEF Runtime
    <3>2. r.persisted <= r.persisted
      BY <2>5 DEF Runtime
    <3> QED BY <2>3, <2>5, <3>1, <3>2
  <2> QED BY <2>4, <2>6, <2>7, <2>8
<1> QED BY <1>1, <1>2

(* The end of the first shutdown is remembered with its error. *)
LEMMA FinishShutdownEffect ==
  ASSUME Typed, NEW p \in Stoppers, FinishShutdown(p)
  PROVE  /\ r' \in Runtime /\ r'.snapshot = r.snapshot /\ r'.refresh = r.refresh
         /\ r'.persistNext = r.persistNext /\ r'.persisted = r.persisted
         /\ r'.stopped = r.stopped /\ r'.shutdownDone = "closed" /\ r'.cancel = r.cancel
         /\ r.shutdownErr => r'.shutdownErr
BY Zenon DEF Typed, FinishShutdown, Runtime

(* Publish installs the carried-forward snapshot and remembers the one     *)
(* before it.                                                              *)
LEMMA PublishEffect ==
  ASSUME Typed, NEW p \in Committers, local[p] \in Staged, r.snapshot.gen + 1 \in Generations, Publish(p)
  PROVE  LET next == CarryForward(r.snapshot, local[p].snapshot) IN
         /\ r' \in Runtime /\ r'.snapshot = next /\ r'.refresh = r.refresh
         /\ r'.persistNext = r.persistNext /\ r'.persisted = r.persisted
         /\ r'.stopped = r.stopped /\ r'.shutdownDone = r.shutdownDone /\ r'.cancel = next.gen
         /\ r'.shutdownErr = r.shutdownErr
         /\ local'[p] \in Staged
         /\ local'[p].previous = [gen |-> r.snapshot.gen, store |-> r.snapshot.store]
         /\ local'[p].previous \in Previous
         /\ local' = [local EXCEPT ![p] = local'[p]]
<1> DEFINE next == CarryForward(r.snapshot, local[p].snapshot)
<1>1. r.snapshot \in Snapshot /\ local[p].snapshot \in Snapshot /\ p \in Callers
  BY DEF Typed, Runtime, Staged, Callers
<1>2. next \in Snapshot /\ next.gen \in Generations
  BY <1>1, CarryForwardType
<1>3. r' = [r EXCEPT !.snapshot = next, !.lastErr = FALSE, !.cancel = next.gen]
  BY DEF Publish
<1>4. local'[p] = [local[p] EXCEPT !.previous = [gen |-> r.snapshot.gen, store |-> r.snapshot.store]]
      /\ local' = [local EXCEPT ![p] = local'[p]]
  BY <1>1 DEF Publish, Keep, Typed
<1>5. [gen |-> r.snapshot.gen, store |-> r.snapshot.store] \in Previous
  BY <1>1 DEF Previous, Snapshot
<1> HIDE DEF next
<1>6. r' \in Runtime /\ r'.snapshot = next /\ r'.refresh = r.refresh
         /\ r'.persistNext = r.persistNext /\ r'.persisted = r.persisted
         /\ r'.stopped = r.stopped /\ r'.shutdownDone = r.shutdownDone /\ r'.cancel = next.gen
         /\ r'.shutdownErr = r.shutdownErr
  BY Zenon, <1>2, <1>3 DEF Typed, Runtime
<1>7. local'[p] \in Staged /\ local'[p].previous = [gen |-> r.snapshot.gen, store |-> r.snapshot.store]
  BY <1>4, <1>5 DEF Staged
<1> QED BY <1>4, <1>5, <1>6, <1>7 DEF next

-----------------------------------------------------------------------------
(* Bounds. *)

RefreshWorkers == [kind : {"refresh"}, by : Refreshers, account : Accounts]

(* There is at most one refresh worker for a refresh and an account. *)
LEMMA RefreshWorkersCount ==
  /\ IsFiniteSet(RefreshWorkers)
  /\ Cardinality(RefreshWorkers) <= Cardinality(Refreshers) * Cardinality(Accounts)
<1> DEFINE f == [w \in RefreshWorkers |-> <<w.by, w.account>>]
<1>1. f \in [RefreshWorkers -> Refreshers \X Accounts]
  BY DEF RefreshWorkers
<1>2. \A v, w \in RefreshWorkers : f[v] = f[w] => v = w
  BY DEF RefreshWorkers
<1> HIDE DEF f
<1>3. f \in Injection(RefreshWorkers, Refreshers \X Accounts)
  BY <1>1, <1>2 DEF Injection, IsInjective
<1>4. /\ IsFiniteSet(Refreshers \X Accounts)
      /\ Cardinality(Refreshers \X Accounts) = Cardinality(Refreshers) * Cardinality(Accounts)
  BY NumberTypes, RuntimeAssumption, FS_Product
<1>5. /\ IsFiniteSet(RefreshWorkers)
      /\ Cardinality(RefreshWorkers) <= Cardinality(Refreshers \X Accounts)
  BY <1>3, <1>4, FS_Injection
<1> QED BY <1>4, <1>5

(* A refresh worker that has not polled is not among those that have. *)
LEMMA AskedCount ==
  /\ IsFiniteSet(Asked) /\ Cardinality(Asked) \in Nat
  /\ \A w \in RefreshWorkers \ Asked :
       Cardinality(Asked) + 1 <= Cardinality(Refreshers) * Cardinality(Accounts)
  /\ Cardinality(Asked) <= Cardinality(Refreshers) * Cardinality(Accounts)
<1>1. Asked \in SUBSET RefreshWorkers
  BY DEF Asked, RefreshWorkers, Workers
<1>2. IsFiniteSet(Asked) /\ Cardinality(Asked) \in Nat /\ Cardinality(Asked) <= Cardinality(RefreshWorkers)
  BY <1>1, RefreshWorkersCount, FS_Subset, FS_CardinalityType
<1>3. ASSUME NEW w \in RefreshWorkers \ Asked
      PROVE  Cardinality(Asked) + 1 <= Cardinality(RefreshWorkers)
  <2>1. Asked \cup {w} \in SUBSET RefreshWorkers
    BY <1>1, <1>3
  <2>2. Cardinality(Asked \cup {w}) <= Cardinality(RefreshWorkers)
    BY <2>1, RefreshWorkersCount, FS_Subset
  <2>3. Cardinality(Asked \cup {w}) = Cardinality(Asked) + 1
    BY Zenon, <1>2, <1>3, FS_AddElement
  <2> QED BY <2>2, <2>3
<1>4. Cardinality(RefreshWorkers) \in Nat /\ Cardinality(Refreshers) * Cardinality(Accounts) \in Nat
  BY RefreshWorkersCount, NumberTypes, FS_CardinalityType
<1> QED BY <1>2, <1>3, <1>4, RefreshWorkersCount

(* The clock stays in its range. *)
LEMMA ClockBound == Typed /\ Bounded => clock \in Stamps
<1> SUFFICES ASSUME Typed, Bounded PROVE clock \in Stamps
  OBVIOUS
<1>1. Cardinality(Refreshers) * Cardinality(Accounts) \in Nat
  BY NumberTypes
<1> QED BY <1>1, AskedCount, RuntimeAssumption DEF Typed, Bounded, Stamps

(* A poll can be stamped: every refresh worker polls once. *)
LEMMA NextStamp ==
  ASSUME Typed, Working, Bounded, NEW w \in Workers, StartPoll(w)
  PROVE  clock + 1 \in Stamps
<1>1. Cardinality(Refreshers) * Cardinality(Accounts) \in Nat
  BY NumberTypes
<1>2. CASE clock < MaxPolls
  BY <1>1, <1>2, RuntimeAssumption DEF Typed, Stamps
<1>3. CASE w.kind = "refresh"
  <2>1. w \in RefreshWorkers
    BY <1>3 DEF Workers, RefreshWorkers
  <2>2. w \notin Asked
    BY <1>3 DEF Working, StartPoll, Asked
  <2>3. Cardinality(Asked) + 1 <= Cardinality(Refreshers) * Cardinality(Accounts)
    BY <2>1, <2>2, AskedCount
  <2> QED BY <1>1, <2>3, AskedCount, RuntimeAssumption DEF Typed, Bounded, Stamps
<1> QED BY <1>2, <1>3 DEF StartPoll

(* A commit that has not published is not among those that have. *)
LEMMA CommittedCount ==
  /\ IsFiniteSet(Committed) /\ Cardinality(Committed) \in Nat
  /\ Cardinality(Committed) <= Cardinality(Committers)
  /\ \A p \in Committers \ Committed : Cardinality(Committed) + 1 <= Cardinality(Committers)
<1>1. Committed \in SUBSET Committers
  BY DEF Committed
<1>2. IsFiniteSet(Committed) /\ Cardinality(Committed) \in Nat
      /\ Cardinality(Committed) <= Cardinality(Committers)
  BY <1>1, NumberTypes, FS_Subset, FS_CardinalityType
<1>3. ASSUME NEW p \in Committers \ Committed
      PROVE  Cardinality(Committed) + 1 <= Cardinality(Committers)
  <2>1. Committed \cup {p} \in SUBSET Committers
    BY <1>1, <1>3
  <2>2. Cardinality(Committed \cup {p}) <= Cardinality(Committers)
    BY <2>1, NumberTypes, FS_Subset
  <2>3. Cardinality(Committed \cup {p}) = Cardinality(Committed) + 1
    BY Zenon, <1>2, <1>3, FS_AddElement
  <2> QED BY <2>2, <2>3
<1> QED BY <1>2, <1>3

(* A commit that publishes has a generation left for it. *)
LEMMA NextGeneration ==
  ASSUME Typed, Bounded, NEW p \in Committers, pc[p] = "publish"
  PROVE  r.snapshot.gen + 1 \in Generations
<1>1. p \in Committers \ Committed
  BY DEF Committed
<1>2. Cardinality(Committed) + 1 <= Cardinality(Committers)
  BY <1>1, CommittedCount
<1>3. r.snapshot.gen \in Nat
  BY Zenon, NumberTypes DEF Typed, Runtime, Snapshot
<1> QED BY <1>2, <1>3, CommittedCount, NumberTypes DEF Bounded, Generations

-----------------------------------------------------------------------------
(* Types. *)

(* Every kind of caller is a caller. *)
LEMMA CallerKinds ==
  /\ Reconfigurers \subseteq Committers /\ Updaters \subseteq Committers
  /\ Committers \subseteq Callers /\ Usage \subseteq Callers /\ Refreshers \subseteq Callers
  /\ Unblockers \subseteq Callers /\ Stoppers \subseteq Callers
BY DEF Committers, Callers

(* A caller goes to a program point. *)
LEMMA GotoType ==
  ASSUME Typed, NEW p \in Callers, NEW l \in PCs, Goto(p, l)
  PROVE  pc' \in [Callers -> PCs]
BY DEF Typed, Goto

(* Locks are held by callers or workers. *)
LEMMA LockType ==
  ASSUME Typed, NEW p \in Callers \cup Workers, NEW name \in LockNames, Release(p) \/ Acquire(name, p)
  PROVE  lock' \in [LockNames -> Callers \cup Workers \cup {None}]
BY DEF Typed, Acquire, Release, LockNames

(* Reconfigure keeps the types. *)
LEMMA TypedReconfigure ==
  ASSUME Base, NEW p \in Reconfigurers, Reconfigure(p)
  PROVE  Typed'
<1> USE CallerKinds DEF Base
<1>1. ASSUME NEW d \in Dirs, NEW managed \in SUBSET Accounts, BeginReconfigure(p, d, managed)
      PROVE  Typed'
  <2>1. [NoSnapshot EXCEPT !.store = [dir |-> d, handle |-> p], !.managed = managed] \in Snapshot
    BY Zenon, <1>1, EmptyTypes DEF Snapshot, Store
  <2>2. local'[p] \in Staged /\ local' = [local EXCEPT ![p] = local'[p]]
    BY Zenon, <1>1, <2>1 DEF BeginReconfigure, Keep, Typed, Staged
  <2>3. local' \in [Callers -> Staged \cup Job \cup Refreshers \cup {None}]
    BY <2>2 DEF Typed
  <2>4. pc' \in [Callers -> PCs]
    BY <1>1, GotoType DEF BeginReconfigure, PCs
  <2> QED BY <1>1, <2>3, <2>4 DEF BeginReconfigure, Typed
<1>2. CASE RejectReconfigure(p)
  <2>1. pc' \in [Callers -> PCs]
    BY <1>2, GotoType DEF RejectReconfigure, PCs
  <2>2. lock' \in [LockNames -> Callers \cup Workers \cup {None}]
    BY <1>2, LockType DEF RejectReconfigure, LockNames
  <2> QED BY <1>2, <2>1, <2>2, RejectEffect DEF RejectReconfigure, Typed
<1>3. CASE LoadStaged(p)
  <2> DEFINE s == local[p].snapshot
             quota == [a \in Accounts |-> IF a \in s.managed THEN disk[s.store.dir][a] ELSE NoAccount]
             t == [s EXCEPT !.disabled = settings[s.store.dir] \cap s.managed, !.quota = quota]
  <2>1. local[p] \in Staged /\ s \in Snapshot /\ s.store \in Store /\ pc[p] = "load"
    BY Zenon, <1>3 DEF LoadStaged, Calls, CallOK, Opened, Staged
  <2>2. quota \in [Accounts -> Account]
    BY <2>1, EmptyTypes DEF Typed, Store
  <2>3. t \in Snapshot
    <3> HIDE DEF quota
    <3> QED BY Zenon, <2>1, <2>2 DEF Typed, Store, Snapshot
  <2>4. local' = [local EXCEPT ![p] = [local[p] EXCEPT !.snapshot = t]]
    BY Zenon, <1>3 DEF LoadStaged, Keep
  <2> HIDE DEF t
  <2>5. local' \in [Callers -> Staged \cup Job \cup Refreshers \cup {None}]
    BY Zenon, <2>1, <2>3, <2>4 DEF Typed, Staged
  <2>6. pc' \in [Callers -> PCs]
    BY <1>3, GotoType DEF LoadStaged, PCs
  <2> QED BY <1>3, <2>5, <2>6 DEF LoadStaged, Typed
<1> QED BY <1>1, <1>2, <1>3 DEF Reconfigure

(* updateAccountConfig keeps the types. *)
LEMMA TypedUpdate ==
  ASSUME Base, NEW p \in Updaters, updateAccountConfig(p)
  PROVE  Typed'
<1> USE CallerKinds DEF Base
<1>1. CASE BeginUpdate(p)
  <2>1. pc' \in [Callers -> PCs]
    BY <1>1, GotoType DEF BeginUpdate, PCs
  <2> QED BY <1>1, <2>1 DEF BeginUpdate, Typed
<1>2. ASSUME NEW a \in Accounts, NEW disable \in BOOLEAN, CloneLive(p, a, disable)
      PROVE  Typed'
  <2> DEFINE edit(disabled) == IF disable THEN disabled \cup {a} ELSE disabled \ {a}
             t == [r.snapshot EXCEPT !.disabled = edit(r.snapshot.disabled)]
             s == edit(settings[r.snapshot.store.dir])
  <2>1. r.snapshot \in Snapshot /\ r.snapshot.store \in Store
    BY <1>2 DEF Typed, Runtime, Live, CloneLive
  <2>2. t \in Snapshot /\ s \in SUBSET Accounts
    BY Zenon, <2>1 DEF Typed, Snapshot, Store
  <2>3. local' = [local EXCEPT ![p] = [snapshot |-> t, settings |-> s, previous |-> None]]
    BY <1>2 DEF CloneLive, Keep
  <2> HIDE DEF t, s
  <2>4. local' \in [Callers -> Staged \cup Job \cup Refreshers \cup {None}]
    BY <2>2, <2>3 DEF Typed, Staged
  <2>5. pc' \in [Callers -> PCs]
    BY <1>2, GotoType DEF CloneLive, PCs
  <2> QED BY <1>2, <2>4, <2>5 DEF CloneLive, Typed
<1>3. CASE RejectUpdate(p)
  <2>1. pc' \in [Callers -> PCs]
    BY <1>3, GotoType DEF RejectUpdate, PCs
  <2>2. lock' \in [LockNames -> Callers \cup Workers \cup {None}]
    BY <1>3, LockType DEF RejectUpdate, LockNames
  <2> QED BY <1>3, <2>1, <2>2 DEF RejectUpdate, Typed
<1> QED BY <1>1, <1>2, <1>3 DEF updateAccountConfig

(* commitSnapshotAfter keeps the types. *)
LEMMA TypedCommit ==
  ASSUME Base, NEW p \in Committers, commitSnapshotAfter(p)
  PROVE  Typed'
<1> USE CallerKinds DEF Base
<1>1. CASE LockSettings(p) \/ LockPollers(p) \/ LockPersist(p)
  <2>1. pc' \in [Callers -> PCs]
    BY <1>1, GotoType DEF LockSettings, LockPollers, LockPersist, PCs
  <2>2. lock' \in [LockNames -> Callers \cup Workers \cup {None}]
    BY <1>1, LockType DEF LockSettings, LockPollers, LockPersist, LockNames
  <2> QED BY <1>1, <2>1, <2>2 DEF LockSettings, LockPollers, LockPersist, Typed
<1>2. CASE AbortCommit(p)
  <2>1. pc' \in [Callers -> PCs]
    BY <1>2, GotoType DEF AbortCommit, PCs
  <2>2. lock' \in [LockNames -> Callers \cup Workers \cup {None}]
    BY <1>2, LockType DEF AbortCommit, LockNames
  <2>3. settings' \in [Dirs -> SUBSET Accounts]
    BY <1>2 DEF AbortCommit, SaveSettings, Typed, Calls, CallOK, Staging
  <2> QED BY <1>2, <2>1, <2>2, <2>3 DEF AbortCommit, Typed
<1>3. CASE Publish(p)
  <2>1. local[p] \in Staged /\ pc[p] = "publish"
    BY <1>3 DEF Publish, Calls, CallOK, Staging, Opened, Committers
  <2>2. r.snapshot.gen + 1 \in Generations
    BY <2>1, NextGeneration
  <2>3. r' \in Runtime /\ local'[p] \in Staged /\ local' = [local EXCEPT ![p] = local'[p]]
    BY <1>3, <2>1, <2>2, PublishEffect
  <2>4. local' \in [Callers -> Staged \cup Job \cup Refreshers \cup {None}]
    BY <2>3 DEF Typed
  <2>5. pc' \in [Callers -> PCs]
    BY <1>3, GotoType DEF Publish, PCs
  <2>6. settings' \in [Dirs -> SUBSET Accounts]
    BY Zenon, <1>3, <2>1 DEF Publish, SaveSettings, Typed, Calls, CallOK, Staging
  <2>7. counted' \in [Dirs -> [Accounts -> SUBSET Usage]]
    BY Zenon, <1>3 DEF Publish, Owed, Typed
  <2>8. open' \in SUBSET Reconfigurers
    BY <1>3 DEF Publish, Typed
  <2> QED BY <1>3, <2>3, <2>4, <2>5, <2>6, <2>7, <2>8 DEF Publish, Typed
<1>4. CASE Retire(p)
  <2>1. local[p].previous.gen \in {0} \cup Generations /\ r.snapshot.gen \in Generations
    BY <1>4, NumberTypes DEF Retire, Calls, CallOK, Previous, Typed, Runtime, Snapshot
  <2>2. pc' \in [Callers -> PCs]
    BY <1>4, GotoType DEF Retire, PCs
  <2>3. lock' \in [LockNames -> Callers \cup Workers \cup {None}]
    BY <1>4, LockType DEF Retire, LockNames
  <2>4. [NoWork EXCEPT !.pc = "ready", !.gen = r.snapshot.gen] \in Work
    BY Zenon, <2>1, EmptyTypes DEF Work, WorkPCs
  <2>5. work' \in [Workers -> Work]
    BY <1>4, <2>4 DEF Retire, Typed
  <2>6. cancelled' \in SUBSET (Generations \cup Refreshers)
    BY <1>4, <2>1 DEF Retire, Typed
  <2>7. open' \in SUBSET Reconfigurers
    BY <1>4 DEF Retire, Typed
  <2> QED BY <1>4, <2>2, <2>3, <2>5, <2>6, <2>7 DEF Retire, Typed
<1> QED BY <1>1, <1>2, <1>3, <1>4 DEF commitSnapshotAfter

(* handleUsage keeps the types. *)
LEMMA TypedUsage ==
  ASSUME Base, NEW u \in Usage, handleUsage(u)
  PROVE  Typed'
<1> USE CallerKinds DEF Base
<1>1. pc' \in [Callers -> PCs]
  BY Zenon, GotoType DEF handleUsage, LockUsage, DropUsage, ApplyUsage, WriteUsage, PCs
<1>2. CASE LockUsage(u) \/ DropUsage(u)
  <2>1. lock' \in [LockNames -> Callers \cup Workers \cup {None}]
    BY <1>2, LockType DEF LockUsage, DropUsage, LockNames
  <2> QED BY <1>1, <1>2, <2>1 DEF LockUsage, DropUsage, Typed
<1>3. ASSUME NEW a \in Accounts, ApplyUsage(u, a)
      PROVE  Typed'
  <2>1. local' = [local EXCEPT ![u] = local'[u]]
    BY Zenon, <1>3 DEF ApplyUsage, Keep, Typed
  <2>2. local' \in [Callers -> Staged \cup Job \cup Refreshers \cup {None}]
    BY Zenon, <1>3, <2>1, ApplyUsageEffect DEF Typed
  <2>3. r.snapshot.store \in Store
    BY <1>3 DEF ApplyUsage, Live
  <2>4. counted' \in [Dirs -> [Accounts -> SUBSET Usage]]
    BY <1>3, <2>3 DEF ApplyUsage, Typed, Store
  <2> QED BY Zenon, <1>1, <1>3, <2>2, <2>4, ApplyUsageEffect DEF ApplyUsage, Typed
<1>4. CASE WriteUsage(u)
  <2>1. local[u] \in Job
    BY <1>4 DEF WriteUsage, Calls, CallOK
  <2>2. r' \in Runtime /\ disk' \in [Dirs -> [Accounts -> Account]]
    BY Zenon, <1>4, <2>1, PersistEffect DEF WriteUsage
  <2>3. lock' \in [LockNames -> Callers \cup Workers \cup {None}]
    BY <1>4, LockType DEF WriteUsage, LockNames
  <2> QED BY <1>1, <1>4, <2>2, <2>3 DEF WriteUsage, Typed
<1> QED BY <1>2, <1>3, <1>4 DEF handleUsage

(* A worker that returns from pollOnce is done, sleeps or has reported. *)
LEMMA ReturnedType ==
  ASSUME Typed, NEW w \in Workers, NEW ok \in BOOLEAN, NEW stop \in BOOLEAN
  PROVE  /\ Returned(w, ok, stop) \in Work
         /\ Returned(w, ok, stop).pc \in {"none", "ready", "reported"}
         /\ Returned(w, ok, stop).pc # "none" => Returned(w, ok, stop).gen = work[w].gen
         /\ w.kind = "refresh" => Returned(w, ok, stop).pc = "reported"
         /\ w.kind = "poller" =>
              Returned(w, ok, stop).pc \in {"none", "ready"} /\ (~stop => Returned(w, ok, stop).pc = "ready")
<1>1. work[w] \in Work /\ w.kind \in {"poller", "refresh"}
  BY DEF Typed, Workers
<1>2. CASE w.kind = "refresh"
  <2>1. Returned(w, ok, stop) = [work[w] EXCEPT !.pc = "reported", !.ok = ok, !.job = None]
    BY <1>2 DEF Returned
  <2>2. Returned(w, ok, stop).pc = "reported" /\ Returned(w, ok, stop).gen = work[w].gen
    BY <1>1, <2>1 DEF Work
  <2>3. Returned(w, ok, stop) \in Work
    BY Zenon, <1>1, <2>1 DEF Work, WorkPCs
  <2> QED BY <1>2, <2>2, <2>3
<1>3. CASE w.kind = "poller" /\ stop
  BY <1>1, <1>3, EmptyTypes DEF Returned, NoWork
<1>4. CASE w.kind = "poller" /\ ~stop
  BY Zenon, <1>1, <1>4, NumberTypes DEF Returned, Work, WorkPCs
<1> QED BY <1>1, <1>2, <1>3, <1>4

(* Workers keep the types. *)
LEMMA TypedPoll ==
  ASSUME Base, NEW w \in Workers, poll(w)
  PROVE  Typed'
<1> USE DEF Base
<1>1. work[w] \in Work
  BY DEF Typed
<1>2. CASE StartPoll(w)
  <2>1. clock + 1 \in Stamps
    BY <1>2, NextStamp
  <2>2. work' \in [Workers -> Work]
    BY Zenon, <1>1, <1>2, <2>1 DEF StartPoll, Step, Typed, Work, WorkPCs
  <2> QED BY <1>2, <2>2 DEF StartPoll, Typed
<1>3. CASE StopPoller(w)
  BY <1>3, EmptyTypes DEF StopPoller, Step, Typed
<1>4. CASE DropAnswer(w)
  <2>1. Returned(w, FALSE, TRUE) \in Work
    BY Zenon, ReturnedType
  <2> QED BY Zenon, <1>4, <2>1 DEF DropAnswer, Step, Typed
<1>5. ASSUME NEW ok \in BOOLEAN, ApplyAnswer(w, ok)
      PROVE  Typed'
  <2>1. work' = [work EXCEPT ![w] = work'[w]]
    BY <1>5 DEF ApplyAnswer, Step, Typed
  <2>2. work' \in [Workers -> Work]
    BY Zenon, <1>5, <2>1, ApplyAnswerEffect DEF Typed
  <2> QED BY Zenon, <1>5, <2>2, ApplyAnswerEffect DEF ApplyAnswer, Typed
<1>6. CASE LockPoll(w)
  <2>1. lock' \in [LockNames -> Callers \cup Workers \cup {None}]
    BY <1>6, LockType DEF LockPoll, LockNames
  <2>2. work' \in [Workers -> Work]
    BY Zenon, <1>1, <1>6 DEF LockPoll, Step, Typed, Work, WorkPCs
  <2> QED BY <1>6, <2>1, <2>2 DEF LockPoll, Typed
<1>7. CASE WritePoll(w)
  <2>1. work[w].job \in Job
    BY <1>7 DEF WritePoll, Working
  <2>2. PICK ok \in BOOLEAN : /\ persistStateLocked(work[w].job, ok)
                              /\ Step(w, Returned(w, ok /\ work[w].ok, FALSE))
    BY Zenon, <1>7 DEF WritePoll
  <2>3. r' \in Runtime /\ disk' \in [Dirs -> [Accounts -> Account]]
    BY <2>1, <2>2, PersistEffect
  <2>4. Returned(w, ok /\ work[w].ok, FALSE) \in Work
    BY Zenon, ReturnedType
  <2>5. work' \in [Workers -> Work]
    BY Zenon, <2>2, <2>4 DEF Step, Typed
  <2>6. lock' \in [LockNames -> Callers \cup Workers \cup {None}]
    BY Zenon, <1>7, LockType DEF WritePoll, LockNames
  <2> QED BY <1>7, <2>3, <2>5, <2>6 DEF WritePoll, Typed
<1> QED BY <1>2, <1>3, <1>4, <1>5, <1>6, <1>7 DEF poll

(* forceRefresh keeps the types. *)
LEMMA TypedRefresh ==
  ASSUME Base, NEW p \in Refreshers, forceRefresh(p)
  PROVE  Typed'
<1> USE CallerKinds DEF Base
<1>1. CASE JoinRefresh(p)
  <2>1. r.refresh \in Refresh
    BY <1>1 DEF JoinRefresh, Typed, Runtime
  <2>2. local' \in [Callers -> Staged \cup Job \cup Refreshers \cup {None}]
    BY <1>1, <2>1 DEF JoinRefresh, Keep, Refresh, Typed
  <2>3. pc' \in [Callers -> PCs]
    BY Zenon, <1>1, GotoType DEF JoinRefresh, PCs
  <2> QED BY <1>1, <2>2, <2>3 DEF JoinRefresh, Typed
<1>2. CASE LeadRefresh(p)
  <2>1. r.snapshot.gen \in Generations
    BY <1>2 DEF LeadRefresh, Typed, Runtime, Snapshot
  <2>2. [NoWork EXCEPT !.pc = "ready", !.gen = r.snapshot.gen] \in Work
    BY Zenon, <2>1, EmptyTypes DEF Work, WorkPCs
  <2>3. work' \in [Workers -> Work]
    BY <1>2, <2>2 DEF LeadRefresh, Typed
  <2>4. pc' \in [Callers -> PCs]
    BY <1>2, GotoType DEF LeadRefresh, PCs
  <2> QED BY Zenon, <1>2, <2>3, <2>4, RefreshEffect DEF LeadRefresh, Typed
<1>3. CASE EndRefresh(p)
  <2>1. work' \in [Workers -> Work]
    BY <1>3, EmptyTypes DEF EndRefresh, Typed
  <2>2. pc' \in [Callers -> PCs]
    BY <1>3, GotoType DEF EndRefresh, PCs
  <2> QED BY Zenon, <1>3, <2>1, <2>2, RefreshEffect DEF EndRefresh, Typed
<1>4. CASE FollowRefresh(p)
  <2>1. pc' \in [Callers -> PCs]
    BY <1>4, GotoType DEF FollowRefresh, PCs
  <2> QED BY <1>4, <2>1 DEF FollowRefresh, Typed
<1>5. CASE HangUp(p)
  <2>1. pc' \in [Callers -> PCs]
    BY <1>5, GotoType DEF HangUp, PCs, Typed
  <2> QED BY <1>5, <2>1 DEF HangUp, Typed
<1> QED BY <1>1, <1>2, <1>3, <1>4, <1>5 DEF forceRefresh

(* shutdown keeps the types. *)
LEMMA TypedShutdown ==
  ASSUME Base, NEW p \in Stoppers, shutdown(p)
  PROVE  Typed'
<1> USE CallerKinds DEF Base
<1>1. pc' \in [Callers -> PCs]
  <2>1. CASE WaitGroup(p)
    <3>1. After[pc[p]] \in PCs
      BY <2>1 DEF WaitGroup, After, PCs
    <3> QED BY <2>1, <3>1, GotoType DEF WaitGroup
  <2>2. CASE ~WaitGroup(p)
    BY Zenon, <2>2, GotoType DEF shutdown, BeginShutdown, JoinShutdown, LockFinal, FinalWrite, FinishShutdown,
         FollowShutdown, PCs, After
  <2> QED BY <2>1, <2>2
<1>2. CASE BeginShutdown(p)
  <2>1. cancelled' \in SUBSET (Generations \cup Refreshers)
    BY <1>2 DEF BeginShutdown, Typed, Runtime
  <2> QED BY <1>1, <1>2, <2>1, BeginShutdownEffect DEF BeginShutdown, Typed
<1>3. CASE JoinShutdown(p) \/ WaitGroup(p) \/ FollowShutdown(p)
  BY <1>1, <1>3 DEF JoinShutdown, WaitGroup, FollowShutdown, Typed
<1>4. CASE LockFinal(p)
  <2>1. lock' \in [LockNames -> Callers \cup Workers \cup {None}]
    BY <1>4, LockType DEF LockFinal, LockNames
  <2> QED BY <1>1, <1>4, <2>1 DEF LockFinal, Typed
<1>5. CASE FinalWrite(p)
  <2>1. lock' \in [LockNames -> Callers \cup Workers \cup {None}]
    BY <1>5, LockType DEF FinalWrite, LockNames
  <2> QED BY Zenon, <1>1, <1>5, <2>1, FinalWriteEffect DEF FinalWrite, Typed
<1>6. CASE FinishShutdown(p)
  <2>1. open' \in SUBSET Reconfigurers
    BY <1>6 DEF FinishShutdown, Typed
  <2> QED BY Zenon, <1>1, <1>6, <2>1, FinishShutdownEffect DEF FinishShutdown, Typed
<1> QED BY <1>2, <1>3, <1>4, <1>5, <1>6 DEF shutdown

(* Every step keeps the types. *)
LEMMA TypedStep == Base /\ [Next]_vars => Typed'
<1> SUFFICES ASSUME Base, [Next]_vars PROVE Typed'
  OBVIOUS
<1>1. ASSUME NEW p \in Unblockers, NEW chosen \in SUBSET Accounts, unblock(p, chosen)
      PROVE  Typed'
  <2>1. pc' \in [Callers -> PCs]
    BY <1>1, CallerKinds, GotoType DEF unblock, PCs, Base
  <2> QED BY Zenon, <1>1, <2>1, UnblockEffect DEF unblock, Typed, Base
<1>2. ASSUME NEW p \in Callers, Refuse(p)
      PROVE  Typed'
  <2>1. pc' \in [Callers -> PCs]
    BY <1>2, GotoType DEF Refuse, PCs, Base
  <2> QED BY <1>2, <2>1 DEF Refuse, Typed, Base
<1>3. CASE UNCHANGED vars
  BY <1>3 DEF vars, Typed, Base
<1> QED
  BY <1>1, <1>2, <1>3, TypedReconfigure, TypedUpdate, TypedCommit, TypedUsage, TypedPoll,
     TypedRefresh, TypedShutdown DEF Next, Quiescent

-----------------------------------------------------------------------------
(* Calls and locks. *)

(* A step of call p publishes nothing, so that the others know what they   *)
(* knew.                                                                   *)
LEMMA OthersKept ==
  ASSUME Typed, Calls, NEW q \in Callers, pc'[q] = pc[q], local'[q] = local[q],
         \A h \in Callers : pc[h] \in {"ok", "error"} => pc'[h] = pc[h],
         pc[q] \in Opened => (q \in open => q \in open'),
         pc[q] = "retire" => (q \in open' => q \in open),
         Frame(r.snapshot, r'.snapshot),
         r.stopped => r'.stopped,
         pc[q] = "retire" => r'.stopped = r.stopped
  PROVE  CallOK(q)'
<1>1. CallOK(q)
  BY DEF Calls
<1>2. ASSUME q \in Committers, pc[q] = "retire", local[q].previous.gen # 0
      PROVE  pc'[local[q].previous.store.handle] \in {"ok", "error"}
  <2>1. local[q].previous.store \in Store /\ pc[local[q].previous.store.handle] \in {"ok", "error"}
    BY Zenon, <1>1, <1>2 DEF CallOK
  <2>2. local[q].previous.store.handle \in Callers
    BY <2>1, CallerKinds DEF Store
  <2> QED BY <2>1, <2>2
<1> QED BY Zenon, <1>1, <1>2 DEF CallOK, Frame

(* A call moves and takes or releases locks of its own only. *)
LEMMA LockedByCall ==
  ASSUME Typed, Locked, NEW p \in Callers, NEW l, Goto(p, l),
         UNCHANGED lock \/ Release(p) \/ \E name \in LockNames : Acquire(name, p),
         \A w \in Workers : work'[w].pc = "write" => work[w].pc = "write",
         Holds(lock', p, l)
  PROVE  Locked'
<1>1. ASSUME NEW name \in LockNames, NEW q, q # p, q # None, lock[name] = q
      PROVE  lock'[name] = q
  BY <1>1 DEF Typed, Release, Acquire
<1>2. ASSUME NEW q \in Callers
      PROVE  Holds(lock', q, pc'[q])
  <2>1. CASE q = p
    BY <2>1 DEF Goto, Typed
  <2>2. CASE q # p
    <3>1. Holds(lock, q, pc[q]) /\ pc'[q] = pc[q] /\ q # None
      BY Zenon, <2>2, NamesAssumption DEF Locked, Goto, Typed
    <3> QED BY <1>1, <2>2, <3>1 DEF Holds, LockNames
  <2> QED BY <2>1, <2>2
<1>3. ASSUME NEW w \in Workers, work'[w].pc = "write"
      PROVE  lock'["persist"] = w
  <2>1. lock["persist"] = w /\ w # None /\ w # p
    BY Zenon, <1>3, NamesAssumption DEF Locked
  <2> QED BY <1>1, <2>1 DEF LockNames
<1> QED BY <1>2, <1>3 DEF Locked

(* A worker moves and takes or releases persistMu. *)
LEMMA LockedByWorker ==
  ASSUME Typed, Locked, NEW w \in Workers, UNCHANGED pc,
         UNCHANGED lock \/ Release(w) \/ Acquire("persist", w),
         \A v \in Workers \ {w} : work'[v] = work[v],
         work'[w].pc = "write" => lock'["persist"] = w
  PROVE  Locked'
<1>1. ASSUME NEW name \in LockNames, NEW q, q # w, q # None, lock[name] = q
      PROVE  lock'[name] = q
  BY <1>1 DEF Typed, Release, Acquire, LockNames
<1>2. ASSUME NEW q \in Callers
      PROVE  Holds(lock', q, pc'[q])
  <2>1. Holds(lock, q, pc[q]) /\ pc'[q] = pc[q] /\ q # None /\ q # w
    BY NamesAssumption DEF Locked
  <2> QED BY <1>1, <2>1 DEF Holds, LockNames
<1>3. ASSUME NEW v \in Workers, work'[v].pc = "write"
      PROVE  lock'["persist"] = v
  <2>1. CASE v = w
    BY <1>3, <2>1
  <2>2. CASE v # w
    <3>1. lock["persist"] = v /\ v # None
      BY <1>3, <2>2, NamesAssumption DEF Locked
    <3> QED BY <1>1, <2>2, <3>1 DEF LockNames
  <2> QED BY <2>1, <2>2
<1> QED BY <1>2, <1>3 DEF Locked

(* Locks a call does not need where it is going. *)
LEMMA HoldsNothing ==
  ASSUME NEW k, NEW p,
         NEW l \in {"idle", "lock_settings", "lead", "follow", "follow_shutdown", "lock_final", "close",
                    "ok", "error"} \cup DOMAIN After
  PROVE  Holds(k, p, l)
BY DEF Holds, Staging, After

(* A commit holds the locks its program point says it holds. *)
LEMMA LockedCommitter ==
  ASSUME Typed, Locked, NEW p \in Committers,
         \/ p \in Reconfigurers /\ Reconfigure(p)
         \/ p \in Updaters /\ updateAccountConfig(p)
         \/ commitSnapshotAfter(p)
  PROVE  Locked'
<1> USE CallerKinds
<1>0. Holds(lock, p, pc[p]) /\ p \notin Usage /\ p \notin Stoppers
  BY NamesAssumption DEF Locked
<1>1. CASE \/ p \in Reconfigurers /\ \E d \in Dirs, managed \in (SUBSET Accounts) \ {{}} : BeginReconfigure(p, d, managed)
           \/ BeginUpdate(p)
  BY Zenon, <1>1, LockedByCall, HoldsNothing DEF BeginReconfigure, BeginUpdate
<1>2. CASE RejectReconfigure(p) \/ RejectUpdate(p) \/ AbortCommit(p)
  BY Zenon, <1>2, LockedByCall, HoldsNothing DEF RejectReconfigure, RejectUpdate, AbortCommit
<1>3. CASE LoadStaged(p) \/ \E a \in Accounts, disable \in BOOLEAN : CloneLive(p, a, disable)
  <2>1. pc[p] = "load" /\ Goto(p, "lock_pollers") /\ lock' = lock /\ work' = work
    BY Zenon, <1>3 DEF LoadStaged, CloneLive
  <2>2. Holds(lock', p, "lock_pollers")
    BY <1>0, <2>1 DEF Holds, Staging
  <2> QED BY <2>1, <2>2, LockedByCall
<1>4. CASE LockSettings(p)
  <2>1. Goto(p, "load") /\ Acquire("settings", p) /\ work' = work
    BY <1>4 DEF LockSettings
  <2>2. Holds(lock', p, "load")
    BY <1>0, <2>1 DEF Holds, Staging, Acquire, Typed, LockNames
  <2> QED BY <2>1, <2>2, LockedByCall DEF LockNames
<1>5. CASE LockPollers(p)
  <2>1. pc[p] = "lock_pollers" /\ Goto(p, "lock_persist") /\ Acquire("pollers", p) /\ work' = work
    BY <1>5 DEF LockPollers
  <2>2. Holds(lock', p, "lock_persist")
    BY <1>0, <2>1 DEF Holds, Staging, Acquire, Typed, LockNames
  <2> QED BY Zenon, <2>1, <2>2, LockedByCall DEF LockNames
<1>6. CASE LockPersist(p)
  <2>1. pc[p] = "lock_persist" /\ Goto(p, "publish") /\ Acquire("persist", p) /\ work' = work
    BY <1>6 DEF LockPersist
  <2>2. Holds(lock', p, "publish")
    BY <1>0, <2>1 DEF Holds, Staging, Acquire, Typed, LockNames
  <2> QED BY <2>1, <2>2, LockedByCall DEF LockNames
<1>7. CASE Publish(p)
  <2>1. pc[p] = "publish" /\ Goto(p, "retire") /\ lock' = lock /\ work' = work
    BY <1>7 DEF Publish
  <2>2. Holds(lock', p, "retire")
    BY <1>0, <2>1 DEF Holds, Staging
  <2> QED BY <2>1, <2>2, LockedByCall
<1>8. CASE Retire(p)
  <2>1. Release(p) /\ \E l \in {"ok", "error"} : Goto(p, l)
    BY <1>8 DEF Retire
  <2>2. \A w \in Workers : work'[w].pc = "write" => work[w].pc = "write"
    BY <1>8 DEF Retire, NoWork
  <2> QED BY Zenon, <2>1, <2>2, LockedByCall, HoldsNothing
<1> QED BY <1>1, <1>2, <1>3, <1>4, <1>5, <1>6, <1>7, <1>8
        DEF Reconfigure, updateAccountConfig, commitSnapshotAfter

(* handleUsage holds persistMu from admission to the write. *)
LEMMA LockedUsage ==
  ASSUME Typed, Locked, NEW u \in Usage, handleUsage(u)
  PROVE  Locked'
<1> USE CallerKinds
<1>0. Holds(lock, u, pc[u]) /\ u \notin Committers /\ u \notin Stoppers
  BY NamesAssumption DEF Locked
<1>1. CASE LockUsage(u)
  <2>1. Goto(u, "apply") /\ Acquire("persist", u) /\ work' = work
    BY <1>1 DEF LockUsage
  <2>2. Holds(lock', u, "apply")
    BY <1>0, <2>1 DEF Holds, Acquire, Typed, LockNames
  <2> QED BY <2>1, <2>2, LockedByCall DEF LockNames
<1>2. CASE DropUsage(u) \/ WriteUsage(u)
  <2>1. Release(u) /\ work' = work /\ \E l \in {"ok", "error"} : Goto(u, l)
    BY Zenon, <1>2 DEF DropUsage, WriteUsage
  <2> QED BY Zenon, <2>1, LockedByCall, HoldsNothing
<1>3. ASSUME NEW a \in Accounts, ApplyUsage(u, a)
      PROVE  Locked'
  <2>1. pc[u] = "apply" /\ Goto(u, "write") /\ lock' = lock /\ work' = work
    BY <1>3 DEF ApplyUsage
  <2>2. Holds(lock', u, "write")
    BY Zenon, <1>0, <2>1 DEF Holds
  <2> QED BY Zenon, <2>1, <2>2, LockedByCall
<1> QED BY <1>1, <1>2, <1>3 DEF handleUsage

(* A worker holds persistMu while it writes. *)
LEMMA LockedPoll ==
  ASSUME Typed, Locked, NEW w \in Workers, poll(w)
  PROVE  Locked'
<1>0. \A v \in Workers : work[v] \in Work
  BY DEF Typed
<1>1. CASE StartPoll(w)
  <2>1. work'[w].pc = "fetch" /\ \A v \in Workers \ {w} : work'[v] = work[v]
    BY <1>0, <1>1 DEF StartPoll, Step, Typed, Work
  <2> QED BY <1>1, <2>1, LockedByWorker DEF StartPoll
<1>2. CASE StopPoller(w)
  <2>1. work'[w].pc = "none" /\ \A v \in Workers \ {w} : work'[v] = work[v]
    BY <1>2 DEF StopPoller, Step, Typed, NoWork
  <2> QED BY <1>2, <2>1, LockedByWorker DEF StopPoller
<1>3. CASE DropAnswer(w)
  <2>1. work'[w].pc # "write" /\ \A v \in Workers \ {w} : work'[v] = work[v]
    BY Zenon, <1>3, ReturnedType DEF DropAnswer, Step, Typed
  <2> QED BY Zenon, <1>3, <2>1, LockedByWorker DEF DropAnswer
<1>4. ASSUME NEW ok \in BOOLEAN, ApplyAnswer(w, ok)
      PROVE  Locked'
  <2>1. work'[w].pc = "lock" /\ \A v \in Workers \ {w} : work'[v] = work[v]
    BY <1>0, <1>4 DEF ApplyAnswer, Step, Typed, Work
  <2> QED BY <1>4, <2>1, LockedByWorker DEF ApplyAnswer
<1>5. CASE LockPoll(w)
  <2>1. lock'["persist"] = w /\ \A v \in Workers \ {w} : work'[v] = work[v]
    BY <1>5 DEF LockPoll, Acquire, Step, Typed, LockNames
  <2> QED BY <1>5, <2>1, LockedByWorker DEF LockPoll
<1>6. CASE WritePoll(w)
  <2>1. work'[w].pc # "write" /\ \A v \in Workers \ {w} : work'[v] = work[v]
    BY Zenon, <1>0, <1>6, ReturnedType DEF WritePoll, Step, Typed, Work
  <2> QED BY Zenon, <1>6, <2>1, LockedByWorker DEF WritePoll
<1> QED BY <1>1, <1>2, <1>3, <1>4, <1>5, <1>6 DEF poll

(* settingsMu, pollersMu and persistMu are held where the code holds them. *)
LEMMA LockedStep == Typed /\ Locked /\ [Next]_vars => Locked'
<1> SUFFICES ASSUME Typed, Locked, [Next]_vars PROVE Locked'
  OBVIOUS
<1> USE CallerKinds
<1>1. ASSUME NEW p \in Refreshers, forceRefresh(p)
      PROVE  Locked'
  <2>1. lock' = lock
    BY <1>1 DEF forceRefresh, JoinRefresh, LeadRefresh, EndRefresh, FollowRefresh, HangUp
  <2>2. \A w \in Workers : work'[w].pc = "write" => work[w].pc = "write"
    <3>1. CASE LeadRefresh(p)
      BY <3>1 DEF LeadRefresh, NoWork
    <3>2. CASE EndRefresh(p)
      BY <3>2 DEF EndRefresh, NoWork
    <3>3. CASE JoinRefresh(p) \/ FollowRefresh(p) \/ HangUp(p)
      BY Zenon, <3>3 DEF JoinRefresh, FollowRefresh, HangUp
    <3> QED BY Zenon, <1>1, <3>1, <3>2, <3>3 DEF forceRefresh
  <2>3. \/ \E l \in {"ok", "error", "lead", "follow"} : Goto(p, l)
        \/ pc' = pc
    BY <1>1 DEF forceRefresh, JoinRefresh, LeadRefresh, EndRefresh, FollowRefresh, HangUp
  <2>4. CASE pc' = pc
    BY <2>1, <2>2, <2>4 DEF Locked
  <2> QED BY <2>1, <2>2, <2>3, <2>4, LockedByCall, HoldsNothing
<1>2. ASSUME NEW p \in Stoppers, shutdown(p)
      PROVE  Locked'
  <2>0. p \notin Committers /\ p \notin Usage
    BY NamesAssumption
  <2>1. CASE LockFinal(p)
    <3>1. Goto(p, "final") /\ Acquire("persist", p) /\ work' = work
      BY <2>1 DEF LockFinal
    <3>2. Holds(lock', p, "final")
      BY <2>0, <3>1 DEF Holds, Acquire, Typed, LockNames
    <3> QED BY <3>1, <3>2, LockedByCall DEF LockNames
  <2>2. CASE FinalWrite(p)
    BY <2>2, LockedByCall, HoldsNothing DEF FinalWrite
  <2>3. CASE WaitGroup(p)
    <3>1. After[pc[p]] \in {"lock_final"} \cup DOMAIN After
      BY <2>3 DEF WaitGroup, After
    <3> QED BY Zenon, <2>3, <3>1, LockedByCall, HoldsNothing DEF WaitGroup
  <2>4. CASE BeginShutdown(p) \/ JoinShutdown(p) \/ FinishShutdown(p) \/ FollowShutdown(p)
    <3>1. lock' = lock /\ work' = work
          /\ \E l \in {"reconfigures", "follow_shutdown", "ok", "error"} : Goto(p, l)
      BY Zenon, <2>4 DEF BeginShutdown, JoinShutdown, FinishShutdown, FollowShutdown
    <3>2. {"reconfigures", "follow_shutdown", "ok", "error"} \subseteq {"follow_shutdown", "ok", "error"} \cup DOMAIN After
      BY DEF After
    <3> QED BY <3>1, <3>2, LockedByCall, HoldsNothing
  <2> QED BY <1>2, <2>1, <2>2, <2>3, <2>4 DEF shutdown
<1>3. ASSUME NEW p \in Unblockers, NEW chosen \in SUBSET Accounts, unblock(p, chosen)
      PROVE  Locked'
  BY <1>3, LockedByCall, HoldsNothing DEF unblock
<1>4. ASSUME NEW p \in Callers, Refuse(p)
      PROVE  Locked'
  BY Zenon, <1>4, LockedByCall, HoldsNothing DEF Refuse
<1>5. CASE UNCHANGED vars
  BY Zenon, <1>5 DEF vars, Locked
<1> QED
  BY <1>1, <1>2, <1>3, <1>4, <1>5, LockedCommitter, LockedUsage, LockedPoll DEF Next, Quiescent

-----------------------------------------------------------------------------
(* Workers and bounds. *)

(* A worker that was just started. *)
LEMMA ReadyWork ==
  ASSUME NEW g \in Generations
  PROVE  LET ready == [NoWork EXCEPT !.pc = "ready", !.gen = g]
         IN  ready \in Work /\ ready.pc = "ready" /\ ready.gen = g
BY Zenon, EmptyTypes DEF NoWork, Work, WorkPCs

(* No worker of a refresh is at work when its leader is elsewhere. *)
LEMMA WorkingKept ==
  ASSUME Typed, Working, Frame(r.snapshot, r'.snapshot),
         \A w \in Workers : work'[w].pc # "none" =>
            /\ work[w].pc # "none" /\ work'[w].gen = work[w].gen
            /\ work'[w].pc \in {"lock", "write"} => work'[w].job \in Job,
         \A p \in Refreshers : pc[p] = "lead" => pc'[p] = "lead"
  PROVE  Working'
<1> SUFFICES ASSUME NEW w \in Workers, work'[w].pc # "none"
             PROVE  /\ work'[w].pc \in {"lock", "write"} => work'[w].job \in Job
                    /\ work'[w].gen \in 1..r'.snapshot.gen
                    /\ work'[w].gen = r'.snapshot.gen => w.account \in Enabled(r'.snapshot)
                    /\ w.kind = "poller" => work'[w].gen = w.by
                    /\ w.kind = "refresh" => pc'[w.by] = "lead"
  BY DEF Working
<1>1. /\ work[w].gen \in 1..r.snapshot.gen
      /\ work[w].gen = r.snapshot.gen => w.account \in Enabled(r.snapshot)
      /\ w.kind = "poller" => work[w].gen = w.by
      /\ w.kind = "refresh" => pc[w.by] = "lead"
  BY DEF Working
<1>2. w.kind = "refresh" => w.by \in Refreshers
  BY DEF Workers
<1> QED BY <1>1, <1>2 DEF Frame, Enabled

(* A worker keeps what is known of workers. *)
LEMMA WorkingPoll ==
  ASSUME Typed, Live, Working, NEW w \in Workers, poll(w)
  PROVE  Working'
<1>0. \A v \in Workers : work[v] \in Work
  BY DEF Typed
<1>1. \A v \in Workers \ {w} : work'[v].pc # "none" =>
            /\ work[v].pc # "none" /\ work'[v].gen = work[v].gen
            /\ work'[v].pc \in {"lock", "write"} => work'[v].job \in Job
  <2>1. \A v \in Workers \ {w} : work'[v] = work[v]
    BY Zenon DEF poll, StartPoll, StopPoller, DropAnswer, ApplyAnswer, LockPoll, WritePoll, Step, Typed
  <2> QED BY <2>1 DEF Working
<1>2. pc' = pc
  BY Zenon DEF poll, StartPoll, StopPoller, DropAnswer, ApplyAnswer, LockPoll, WritePoll
<1>3. CASE StartPoll(w)
  <2>1. work'[w].pc = "fetch" /\ work'[w].gen = work[w].gen /\ work[w].pc = "ready"
    BY <1>0, <1>3 DEF StartPoll, Step, Typed, Work
  <2> QED BY <1>1, <1>2, <1>3, <2>1, WorkingKept DEF StartPoll, Frame
<1>4. CASE StopPoller(w)
  <2>1. work'[w].pc = "none"
    BY <1>4 DEF StopPoller, Step, Typed, NoWork
  <2> QED BY Zenon, <1>1, <1>2, <1>4, <2>1, WorkingKept DEF StopPoller, Frame
<1>5. CASE DropAnswer(w)
  <2>1. work'[w] = Returned(w, FALSE, TRUE) /\ work[w].pc = "fetch"
    BY <1>5 DEF DropAnswer, Step, Typed
  <2>2. work'[w].pc # "none" => work'[w].gen = work[w].gen /\ work'[w].pc \notin {"lock", "write"}
    BY Zenon, <2>1, ReturnedType
  <2> QED BY Zenon, <1>1, <1>2, <1>5, <2>1, <2>2, WorkingKept DEF DropAnswer, Frame
<1>6. ASSUME NEW ok \in BOOLEAN, ApplyAnswer(w, ok)
      PROVE  Working'
  <2>1. Frame(r.snapshot, r'.snapshot) /\ work'[w].gen = work[w].gen /\ work'[w].job \in Job
    BY Zenon, <1>6, ApplyAnswerEffect
  <2>2. work[w].pc = "fetch"
    BY <1>6 DEF ApplyAnswer
  <2> QED BY <1>1, <1>2, <2>1, <2>2, WorkingKept
<1>7. CASE LockPoll(w)
  <2>1. work'[w].gen = work[w].gen /\ work'[w].job = work[w].job /\ work[w].pc = "lock"
    BY <1>0, <1>7 DEF LockPoll, Step, Typed, Work
  <2>2. work'[w].job \in Job
    BY <2>1 DEF Working
  <2> QED BY <1>1, <1>2, <1>7, <2>1, <2>2, WorkingKept DEF LockPoll, Frame
<1>8. CASE WritePoll(w)
  <2>1. PICK ok \in BOOLEAN : /\ persistStateLocked(work[w].job, ok)
                              /\ Step(w, Returned(w, ok /\ work[w].ok, FALSE))
    BY Zenon, <1>8 DEF WritePoll
  <2>2. work'[w] = Returned(w, ok /\ work[w].ok, FALSE) /\ work[w].pc = "write"
    BY Zenon, <1>8, <2>1 DEF WritePoll, Step, Typed
  <2>3. work'[w].pc # "none" => work'[w].gen = work[w].gen /\ work'[w].pc \notin {"lock", "write"}
    BY Zenon, <2>2, ReturnedType
  <2>4. Frame(r.snapshot, r'.snapshot)
    BY Zenon, <2>1, <2>2, PersistEffect DEF Working
  <2> QED BY Zenon, <1>1, <1>2, <2>2, <2>3, <2>4, WorkingKept
<1> QED BY <1>3, <1>4, <1>5, <1>6, <1>7, <1>8 DEF poll

(* A new generation: no worker at work is of it. *)
LEMMA WorkingPublish ==
  ASSUME Typed, Calls, Working, Bounded, NEW p \in Committers, Publish(p)
  PROVE  Working'
<1>1. local[p] \in Staged /\ pc[p] = "publish" /\ p \notin Refreshers
  BY NamesAssumption, CallerKinds DEF Publish, Calls, CallOK, Opened, Staging, Committers
<1>2. r.snapshot.gen + 1 \in Generations /\ r.snapshot.gen \in Nat
  BY Zenon, <1>1, NextGeneration, NumberTypes DEF Typed, Runtime, Snapshot
<1>3. r'.snapshot.gen = r.snapshot.gen + 1
  <2>1. r'.snapshot = CarryForward(r.snapshot, local[p].snapshot)
    BY Zenon, <1>1, <1>2, PublishEffect
  <2>2. r.snapshot \in Snapshot /\ local[p].snapshot \in Snapshot
    BY <1>1 DEF Typed, Runtime, Staged
  <2>3. CarryForward(r.snapshot, local[p].snapshot).gen = r.snapshot.gen + 1
    BY Zenon, <1>2, <2>2, CarryForwardType
  <2> QED BY Zenon, <2>1, <2>3
<1>4. work' = work /\ \A q \in Refreshers : pc'[q] = pc[q]
  BY <1>1, CallerKinds DEF Publish, Goto, Typed
<1> SUFFICES ASSUME NEW w \in Workers, work[w].pc # "none"
             PROVE  /\ work[w].pc \in {"lock", "write"} => work[w].job \in Job
                    /\ work[w].gen \in 1..r'.snapshot.gen
                    /\ work[w].gen # r'.snapshot.gen
                    /\ w.kind = "poller" => work[w].gen = w.by
                    /\ w.kind = "refresh" => pc'[w.by] = "lead"
  BY Zenon, <1>4 DEF Working
<1>5. w.kind = "refresh" => w.by \in Refreshers
  BY DEF Workers
<1>6. /\ work[w].pc \in {"lock", "write"} => work[w].job \in Job
      /\ work[w].gen \in 1..r.snapshot.gen
      /\ w.kind = "poller" => work[w].gen = w.by
      /\ w.kind = "refresh" => pc[w.by] = "lead"
  BY Zenon DEF Working
<1>7. work[w].gen \in 1..r'.snapshot.gen /\ work[w].gen # r'.snapshot.gen
  BY <1>2, <1>3, <1>6
<1>8. w.kind = "refresh" => pc'[w.by] = "lead"
  BY Zenon, <1>4, <1>5, <1>6
<1> QED BY Zenon, <1>6, <1>7, <1>8

(* Retire starts pollers of enabled accounts of the live generation. *)
LEMMA WorkingRetire ==
  ASSUME Typed, Calls, Live, Working, NEW p \in Committers, Retire(p)
  PROVE  Working'
<1> DEFINE started == [kind : {"poller"}, by : {r.snapshot.gen}, account : Enabled(r.snapshot)]
<1>1. r.snapshot.gen \in Generations /\ r' = r /\ p \notin Refreshers
  <2>1. pc[p] = "retire" /\ r' = r
    BY DEF Retire
  <2>2. p \notin Refreshers /\ p \in Callers
    BY NamesAssumption, CallerKinds
  <2>3. local[p].previous \in Previous /\ r.snapshot.gen = local[p].previous.gen + 1
    BY Zenon, <2>1, <2>2 DEF Calls, CallOK
  <2>4. local[p].previous.gen \in Nat
    BY <2>3, NumberTypes DEF Previous
  <2>5. r.snapshot.gen # 0
    BY <2>3, <2>4
  <2>6. r.snapshot.gen \in {0} \cup Generations
    BY DEF Typed, Runtime, Snapshot
  <2> QED BY Zenon, <2>1, <2>2, <2>5, <2>6
<1>2. \A q \in Refreshers : pc'[q] = pc[q]
  BY <1>1, CallerKinds DEF Retire, Goto, Typed
<1>3. \A w \in Workers : work'[w] = IF w \in started
                                    THEN [NoWork EXCEPT !.pc = "ready", !.gen = r.snapshot.gen]
                                    ELSE work[w]
  BY DEF Retire
<1> SUFFICES ASSUME NEW w \in Workers, work'[w].pc # "none"
             PROVE  /\ work'[w].pc \in {"lock", "write"} => work'[w].job \in Job
                    /\ work'[w].gen \in 1..r.snapshot.gen
                    /\ work'[w].gen = r.snapshot.gen => w.account \in Enabled(r.snapshot)
                    /\ w.kind = "poller" => work'[w].gen = w.by
                    /\ w.kind = "refresh" => pc'[w.by] = "lead"
  BY Zenon, <1>1 DEF Working
<1>4. CASE w \in started
  <2>0. work'[w] = [NoWork EXCEPT !.pc = "ready", !.gen = r.snapshot.gen]
    BY <1>3, <1>4
  <2>1. work'[w].pc = "ready" /\ work'[w].gen = r.snapshot.gen
    BY Zenon, <1>1, <2>0, ReadyWork
  <2>3. r.snapshot.gen \in 1..r.snapshot.gen
    BY <1>1, GenerationRange
  <2>2. w.kind = "poller" /\ w.by = r.snapshot.gen /\ w.account \in Enabled(r.snapshot)
    BY <1>4
  <2> HIDE DEF started
  <2> QED BY <1>1, <2>1, <2>2, <2>3
<1>5. CASE w \notin started
  <2>1. work'[w] = work[w]
    BY <1>3, <1>5
  <2>2. w.kind = "refresh" => w.by \in Refreshers
    BY DEF Workers
  <2> HIDE DEF started
  <2> QED BY Zenon, <1>2, <2>1, <2>2 DEF Working
<1> QED BY <1>4, <1>5

(* forceRefresh starts workers for enabled accounts, which end before      *)
(* their leader does.                                                      *)
LEMMA WorkingRefresh ==
  ASSUME Typed, Live, Working, NEW p \in Refreshers, forceRefresh(p)
  PROVE  Working'
<1>1. CASE LeadRefresh(p)
  <2> DEFINE launched == [kind : {"refresh"}, by : {p}, account : Enabled(r.snapshot)]
  <2>1. r.snapshot.gen \in Generations /\ r'.snapshot = r.snapshot /\ pc[p] = "idle"
    BY <1>1, RefreshEffect DEF LeadRefresh, Typed, Runtime, Snapshot
  <2>2. pc'[p] = "lead" /\ \A q \in Refreshers \ {p} : pc'[q] = pc[q]
    BY <1>1, CallerKinds DEF LeadRefresh, Goto, Typed
  <2>3. \A w \in Workers : work'[w] = IF w \in launched
                                      THEN [NoWork EXCEPT !.pc = "ready", !.gen = r.snapshot.gen]
                                      ELSE work[w]
    BY <1>1 DEF LeadRefresh
  <2> SUFFICES ASSUME NEW w \in Workers, work'[w].pc # "none"
               PROVE  /\ work'[w].pc \in {"lock", "write"} => work'[w].job \in Job
                      /\ work'[w].gen \in 1..r.snapshot.gen
                      /\ work'[w].gen = r.snapshot.gen => w.account \in Enabled(r.snapshot)
                      /\ w.kind = "poller" => work'[w].gen = w.by
                      /\ w.kind = "refresh" => pc'[w.by] = "lead"
    BY <2>1 DEF Working
  <2>4. CASE w \in launched
    <3>0. work'[w] = [NoWork EXCEPT !.pc = "ready", !.gen = r.snapshot.gen]
      BY <2>3, <2>4
    <3>1. work'[w].pc = "ready" /\ work'[w].gen = r.snapshot.gen
      BY Zenon, <2>1, <3>0, ReadyWork
    <3>3. r.snapshot.gen \in 1..r.snapshot.gen
      BY <2>1, GenerationRange
    <3>2. w.kind = "refresh" /\ w.by = p /\ w.account \in Enabled(r.snapshot)
      BY <2>4
    <3> HIDE DEF launched
    <3> QED BY <2>1, <2>2, <3>1, <3>2, <3>3
  <2>5. CASE w \notin launched
    <3>1. work'[w] = work[w]
      BY <2>3, <2>5
    <3>2. w.kind = "refresh" => w.by \in Refreshers
      BY DEF Workers
    <3> HIDE DEF launched
    <3> QED BY <2>2, <3>1, <3>2 DEF Working
  <2> QED BY <2>4, <2>5
<1>2. CASE EndRefresh(p)
  <2>1. r'.snapshot = r.snapshot
    BY <1>2, RefreshEffect
  <2>2. ASSUME NEW w \in Workers, work'[w].pc # "none"
        PROVE  work'[w] = work[w] /\ ~(w.kind = "refresh" /\ w.by = p)
    BY <1>2, <2>2 DEF EndRefresh, Team, NoWork
  <2>3. \A q \in Refreshers \ {p} : pc'[q] = pc[q]
    BY <1>2, CallerKinds DEF EndRefresh, Goto, Typed
  <2>4. \A w \in Workers : w.kind = "refresh" => w.by \in Refreshers
    BY DEF Workers
  <2> QED BY <2>1, <2>2, <2>3, <2>4 DEF Working
<1>3. CASE JoinRefresh(p) \/ FollowRefresh(p) \/ HangUp(p)
  <2>1. r' = r /\ work' = work
    BY <1>3 DEF JoinRefresh, FollowRefresh, HangUp
  <2>2. \A q \in Refreshers : pc[q] = "lead" => pc'[q] = "lead"
    BY Zenon, <1>3, CallerKinds DEF JoinRefresh, FollowRefresh, HangUp, Goto, Typed
  <2>3. \A w \in Workers : work[w].pc \in {"lock", "write"} => work[w].job \in Job
    BY DEF Working
  <2> QED BY <2>1, <2>2, <2>3, WorkingKept DEF Frame
<1> QED BY <1>1, <1>2, <1>3 DEF forceRefresh

-----------------------------------------------------------------------------
(* What a step that publishes nothing leaves of the live snapshot: all but *)
(* the state of managed accounts, whose usage only grows and which a poll  *)
(* reaches only while they are enabled.                                    *)
Kept(s, t) ==
  /\ Frame(s, t)
  /\ \A a \in Accounts :
       /\ a \notin s.managed => t.quota[a] = s.quota[a]
       /\ s.quota[a].events \subseteq t.quota[a].events
       /\ a \in s.disabled => t.quota[a].auth = s.quota[a].auth

(* A live snapshot that does not change is kept. *)
LEMMA KeptSame == r'.snapshot = r.snapshot => Kept(r.snapshot, r'.snapshot)
BY DEF Kept, Frame

(* A write keeps the live snapshot but for the warning. *)
LEMMA PersistKept ==
  ASSUME Typed, NEW j \in Job, NEW ok \in BOOLEAN, persistStateLocked(j, ok)
  PROVE  Kept(r.snapshot, r'.snapshot)
<1>1. r'.snapshot \in {r.snapshot, Warn(r.snapshot, j)} /\ Frame(r.snapshot, r'.snapshot)
  BY Zenon, PersistEffect
<1>2. CASE r'.snapshot = Warn(r.snapshot, j)
  <2>1. r.snapshot \in Snapshot
    BY DEF Typed, Runtime
  <2>2. ASSUME NEW a \in Accounts
        PROVE  /\ a \notin r.snapshot.managed => Warn(r.snapshot, j).quota[a] = r.snapshot.quota[a]
               /\ Warn(r.snapshot, j).quota[a].events = r.snapshot.quota[a].events
               /\ Warn(r.snapshot, j).quota[a].auth = r.snapshot.quota[a].auth
    BY <2>1, WarnType
  <2> QED BY Zenon, <1>1, <1>2, <2>2 DEF Kept
<1> QED BY <1>1, <1>2, KeptSame

(* handleUsage adds usage to managed accounts. *)
LEMMA KeptUsage ==
  ASSUME Typed, Calls, Live, NEW u \in Usage, handleUsage(u)
  PROVE  Kept(r.snapshot, r'.snapshot)
<1>1. ASSUME NEW a \in Accounts, ApplyUsage(u, a)
      PROVE  Kept(r.snapshot, r'.snapshot)
  <2>1. Frame(r.snapshot, r'.snapshot) /\ a \in r.snapshot.managed
        /\ r'.snapshot.quota = [r.snapshot.quota EXCEPT ![a] = Count(r.snapshot.quota[a], u)]
    BY Zenon, <1>1, ApplyUsageEffect DEF ApplyUsage
  <2>2. r.snapshot.quota \in [Accounts -> Account]
    BY DEF Typed, Runtime, Snapshot
  <2>3. Count(r.snapshot.quota[a], u).auth = r.snapshot.quota[a].auth
        /\ r.snapshot.quota[a].events \subseteq Count(r.snapshot.quota[a], u).events
    BY <2>2 DEF Count, Account
  <2> QED BY Zenon, <2>1, <2>2, <2>3 DEF Kept
<1>2. CASE WriteUsage(u)
  <2>1. local[u] \in Job
    BY Zenon, <1>2, CallerKinds DEF WriteUsage, Calls, CallOK
  <2> QED BY Zenon, <1>2, <2>1, PersistKept DEF WriteUsage
<1>3. CASE LockUsage(u) \/ DropUsage(u)
  BY Zenon, <1>3, KeptSame DEF LockUsage, DropUsage
<1> QED BY <1>1, <1>2, <1>3 DEF handleUsage

(* A poll reaches enabled accounts only. *)
LEMMA KeptPoll ==
  ASSUME Typed, Live, Working, NEW w \in Workers, poll(w)
  PROVE  Kept(r.snapshot, r'.snapshot)
<1>1. ASSUME NEW ok \in BOOLEAN, ApplyAnswer(w, ok)
      PROVE  Kept(r.snapshot, r'.snapshot)
  <2>1. Frame(r.snapshot, r'.snapshot)
        /\ r'.snapshot.quota = IF ok THEN [r.snapshot.quota EXCEPT ![w.account] =
                                              [r.snapshot.quota[w.account] EXCEPT !.auth = work[w].stamp]]
                                ELSE r.snapshot.quota
    BY <1>1, ApplyAnswerEffect
  <2>2. r.snapshot.quota \in [Accounts -> Account]
    BY DEF Typed, Runtime, Snapshot
  <2>3. w.account \in r.snapshot.managed /\ w.account \notin r.snapshot.disabled
    BY <1>1 DEF ApplyAnswer, Superseded, Working, Enabled
  <2>4. \A a \in Accounts : r'.snapshot.quota[a].events = r.snapshot.quota[a].events
           /\ (a # w.account => r'.snapshot.quota[a] = r.snapshot.quota[a])
    BY <2>1, <2>2 DEF Account
  <2> QED BY <2>1, <2>3, <2>4 DEF Kept
<1>2. CASE WritePoll(w)
  <2>1. work[w].job \in Job
    BY <1>2 DEF WritePoll, Working
  <2> QED BY Zenon, <1>2, <2>1, PersistKept DEF WritePoll
<1>3. CASE StartPoll(w) \/ StopPoller(w) \/ DropAnswer(w) \/ LockPoll(w)
  BY Zenon, <1>3, KeptSame DEF StartPoll, StopPoller, DropAnswer, LockPoll
<1> QED BY <1>1, <1>2, <1>3 DEF poll

(* unblock keeps usage and stamps. *)
LEMMA KeptUnblock ==
  ASSUME Typed, NEW p \in Unblockers, NEW chosen \in SUBSET Accounts, unblock(p, chosen)
  PROVE  Kept(r.snapshot, r'.snapshot)
BY UnblockEffect DEF Kept

(* shutdown leaves the live snapshot. *)
LEMMA KeptShutdown ==
  ASSUME Typed, Live, NEW p \in Stoppers, shutdown(p)
  PROVE  r'.snapshot = r.snapshot
<1>1. CASE JoinShutdown(p) \/ WaitGroup(p) \/ LockFinal(p) \/ FollowShutdown(p)
  BY <1>1 DEF JoinShutdown, WaitGroup, LockFinal, FollowShutdown
<1> QED BY Zenon, <1>1, BeginShutdownEffect, FinalWriteEffect, FinishShutdownEffect DEF shutdown

(* forceRefresh leaves the live snapshot. *)
LEMMA KeptRefresh ==
  ASSUME Typed, NEW p \in Refreshers, forceRefresh(p)
  PROVE  r'.snapshot = r.snapshot
<1>1. CASE JoinRefresh(p) \/ FollowRefresh(p) \/ HangUp(p)
  BY <1>1 DEF JoinRefresh, FollowRefresh, HangUp
<1> QED BY <1>1, RefreshEffect DEF forceRefresh

(* A commit changes the live snapshot by publishing only. *)
LEMMA KeptCommitter ==
  ASSUME Typed, NEW p \in Committers, Reconfigure(p) \/ updateAccountConfig(p) \/ commitSnapshotAfter(p), ~Publish(p)
  PROVE  r'.snapshot = r.snapshot
<1>1. CASE RejectReconfigure(p)
  BY <1>1, RejectEffect DEF RejectReconfigure
<1>2. CASE Reconfigure(p) /\ ~RejectReconfigure(p)
  BY Zenon, <1>2 DEF Reconfigure, BeginReconfigure, LoadStaged
<1>3. CASE updateAccountConfig(p)
  BY Zenon, <1>3 DEF updateAccountConfig, BeginUpdate, CloneLive, RejectUpdate
<1>4. CASE commitSnapshotAfter(p)
  BY Zenon, <1>4 DEF commitSnapshotAfter, LockSettings, LockPollers, LockPersist, AbortCommit, Retire
<1> QED BY <1>1, <1>2, <1>3, <1>4

(* Only a publication replaces the live snapshot. *)
LEMMA KeptStep ==
  ASSUME Typed, Calls, Live, Working, [Next]_vars, \A p \in Committers : ~Publish(p)
  PROVE  Kept(r.snapshot, r'.snapshot)
<1>1. ASSUME NEW p \in Callers, Refuse(p)
      PROVE  r'.snapshot = r.snapshot
  BY <1>1 DEF Refuse
<1>2. CASE UNCHANGED vars
  BY <1>2, KeptSame DEF vars
<1> QED
  BY Zenon, <1>1, <1>2, KeptSame, CallerKinds, KeptCommitter, KeptUsage, KeptPoll, KeptRefresh, KeptUnblock, KeptShutdown
     DEF Next, Quiescent

-----------------------------------------------------------------------------
(* Where calls go. *)

(* A call that returned stays returned, and a commit that has published    *)
(* next returns.                                                           *)
Moved(p) ==
  /\ \A q \in Callers \ {p} : pc'[q] = pc[q]
  /\ pc[p] \notin {"ok", "error"}
  /\ pc[p] = "retire" => pc'[p] \in {"ok", "error"}

(* A call that goes on moves itself alone. *)
LEMMA MovedByGoto ==
  ASSUME Typed, NEW p \in Callers, NEW l, Goto(p, l), pc[p] \notin {"ok", "error"},
         pc[p] = "retire" => l \in {"ok", "error"}
  PROVE  Moved(p)
BY DEF Moved, Goto, Typed

(* A commit moves itself alone. *)
LEMMA MovedCommitter ==
  ASSUME Typed, NEW p \in Committers, Reconfigure(p) \/ updateAccountConfig(p) \/ commitSnapshotAfter(p)
  PROVE  Moved(p)
<1>1. CASE Reconfigure(p)
  BY Zenon, <1>1, CallerKinds, MovedByGoto DEF Reconfigure, BeginReconfigure, RejectReconfigure, LoadStaged
<1>2. CASE updateAccountConfig(p)
  BY Zenon, <1>2, CallerKinds, MovedByGoto DEF updateAccountConfig, BeginUpdate, CloneLive, RejectUpdate
<1>3. CASE LockSettings(p) \/ LockPollers(p) \/ LockPersist(p)
  BY <1>3, CallerKinds, MovedByGoto DEF LockSettings, LockPollers, LockPersist
<1>4. CASE AbortCommit(p) \/ Publish(p)
  BY Zenon, <1>4, CallerKinds, MovedByGoto DEF AbortCommit, Publish
<1>5. CASE Retire(p)
  BY <1>5, CallerKinds, MovedByGoto DEF Retire
<1> QED BY <1>1, <1>2, <1>3, <1>4, <1>5 DEF commitSnapshotAfter

(* handleUsage moves itself alone. *)
LEMMA MovedUsage ==
  ASSUME Typed, NEW u \in Usage, handleUsage(u)
  PROVE  Moved(u)
BY Zenon, CallerKinds, MovedByGoto DEF handleUsage, LockUsage, DropUsage, ApplyUsage, WriteUsage

(* shutdown moves itself alone. *)
LEMMA MovedShutdown ==
  ASSUME Typed, NEW p \in Stoppers, shutdown(p)
  PROVE  Moved(p)
<1>1. CASE WaitGroup(p)
  <2>1. pc[p] \notin {"ok", "error", "retire"}
    BY Zenon, <1>1 DEF WaitGroup, After
  <2> QED BY <1>1, <2>1, CallerKinds, MovedByGoto DEF WaitGroup
<1>2. CASE BeginShutdown(p) \/ JoinShutdown(p) \/ LockFinal(p)
  BY <1>2, CallerKinds, MovedByGoto DEF BeginShutdown, JoinShutdown, LockFinal
<1>3. CASE FinalWrite(p) \/ FinishShutdown(p) \/ FollowShutdown(p)
  BY Zenon, <1>3, CallerKinds, MovedByGoto DEF FinalWrite, FinishShutdown, FollowShutdown
<1> QED BY <1>1, <1>2, <1>3 DEF shutdown

(* forceRefresh moves itself alone. *)
LEMMA MovedRefresh ==
  ASSUME Typed, NEW p \in Refreshers, forceRefresh(p)
  PROVE  UNCHANGED pc \/ Moved(p)
<1>1. CASE JoinRefresh(p) \/ LeadRefresh(p) \/ EndRefresh(p)
  BY <1>1, CallerKinds, MovedByGoto DEF JoinRefresh, LeadRefresh, EndRefresh
<1>2. CASE FollowRefresh(p) \/ HangUp(p)
  BY Zenon, <1>2, CallerKinds, MovedByGoto DEF FollowRefresh, HangUp
<1> QED BY <1>1, <1>2 DEF forceRefresh

(* unblock and a refused call move themselves alone, workers no call. *)
LEMMA MovedOther ==
  /\ \A p \in Unblockers, chosen \in SUBSET Accounts : Typed /\ unblock(p, chosen) => Moved(p)
  /\ \A p \in Callers : Typed /\ Refuse(p) => Moved(p)
  /\ \A w \in Workers : poll(w) => UNCHANGED pc
BY Zenon, CallerKinds, MovedByGoto DEF unblock, Refuse,
   poll, StartPoll, StopPoller, DropAnswer, ApplyAnswer, LockPoll, WritePoll

(* A step moves one call at most. *)
LEMMA MovedStep ==
  ASSUME Typed, [Next]_vars
  PROVE  UNCHANGED pc \/ \E p \in Callers : Moved(p)
<1>1. CASE UNCHANGED vars
  BY <1>1 DEF vars
<1> QED
  BY Zenon, <1>1, CallerKinds, MovedCommitter, MovedUsage, MovedRefresh, MovedShutdown, MovedOther DEF Next, Quiescent

(* A call that has returned stays returned, and one that retires a         *)
(* snapshot returns next.                                                  *)
LEMMA DoneStays ==
  ASSUME Typed, [Next]_vars, NEW p \in Callers
  PROVE  /\ pc[p] \in {"ok", "error"} => pc'[p] = pc[p]
         /\ pc[p] = "retire" => pc'[p] \in {"retire", "ok", "error"}
BY MovedStep DEF Moved

-----------------------------------------------------------------------------
(* The live snapshot is kept or published. *)

(* What a publication makes of the live snapshot and of the call's own     *)
(* handle.                                                                 *)
LEMMA Published ==
  ASSUME Typed, Calls, Live, Bounded, Locked, NEW p \in Committers, Publish(p)
  PROVE  LET same == SameStore(r.snapshot, local[p].snapshot) IN
         /\ local[p] \in Staged /\ Proper(local[p].snapshot)
         /\ p \in Updaters => same
         /\ r'.snapshot.gen = r.snapshot.gen + 1 /\ r'.snapshot.gen # 0
         /\ r'.snapshot.store \in Store
         /\ same => r.snapshot.gen # 0 /\ r'.snapshot.store = r.snapshot.store /\ open' = open \ {p}
         /\ ~same => p \in Reconfigurers /\ r'.snapshot.store = local[p].snapshot.store
                     /\ r'.snapshot.store.handle = p /\ open' = open
         /\ r.snapshot.gen # 0 => /\ r.snapshot.store \in Store
                                  /\ r.snapshot.store.handle # p
                                  /\ pc'[r.snapshot.store.handle] = pc[r.snapshot.store.handle]
                                  /\ pc[r.snapshot.store.handle] \in {"ok", "error"}
<1> DEFINE next == CarryForward(r.snapshot, local[p].snapshot)
           same == SameStore(r.snapshot, local[p].snapshot)
<1>1. pc[p] = "publish" /\ p \in Callers
  BY CallerKinds DEF Publish
<1>2. local[p] \in Staged /\ Proper(local[p].snapshot)
  BY Zenon, <1>1 DEF Calls, CallOK, Opened, Staging, Committers
<1>3. p \in Reconfigurers => local[p].snapshot.store \in Store /\ local[p].snapshot.store.handle = p
  BY Zenon, <1>1 DEF Calls, CallOK, Opened, Staging
<1>4. p \in Updaters => local[p].snapshot.store = r.snapshot.store /\ r.snapshot.gen # 0
  BY Zenon, <1>1 DEF Calls, CallOK, Staging
<1>5. r.snapshot.gen + 1 \in Generations /\ r.snapshot \in Snapshot /\ local[p].snapshot \in Snapshot
  BY Zenon, <1>1, <1>2, NextGeneration DEF Typed, Runtime, Staged
<1>6. r'.snapshot = next
  BY Zenon, <1>2, <1>5, PublishEffect
<1>7. next.gen = r.snapshot.gen + 1 /\ next.store = IF same THEN r.snapshot.store ELSE local[p].snapshot.store
  BY Zenon, <1>5, CarryForwardType
<1>8. p \in Updaters => same
  BY <1>4 DEF SameStore
<1>9. SameStore(r.snapshot, next) <=> same
  BY <1>7 DEF SameStore
<1>10. open' = IF SameStore(r.snapshot, next) THEN open \ {p} ELSE open
  BY DEF Publish
<1>11. ASSUME r.snapshot.gen # 0
       PROVE  /\ r.snapshot.store \in Store
              /\ r.snapshot.store.handle # p
              /\ pc'[r.snapshot.store.handle] = pc[r.snapshot.store.handle]
              /\ pc[r.snapshot.store.handle] \in {"ok", "error"}
  <2> DEFINE h == r.snapshot.store.handle
  <2>1. r.snapshot.store \in Store /\ pc[h] \in {"retire", "ok", "error"}
    BY <1>11 DEF Live
  <2>2. h \in Reconfigurers /\ h \in Committers /\ h \in Callers /\ h # p
    BY <1>1, <2>1, CallerKinds DEF Store
  <2>3. pc[h] # "retire"
    BY <1>1, <2>2 DEF Locked, Holds, Staging
  <2>4. pc'[h] = pc[h]
    BY <2>2 DEF Publish, Goto, Typed
  <2> QED BY <2>1, <2>2, <2>3, <2>4
<1>12. same => r.snapshot.gen # 0
  BY DEF SameStore
<1>13. ~same => p \in Reconfigurers
  BY <1>8 DEF Committers
<1> HIDE DEF next, same
<1>14. r'.snapshot.gen # 0
  BY <1>5, <1>6, <1>7, NumberTypes
<1> QED
  BY Zenon, <1>2, <1>3, <1>6, <1>7, <1>8, <1>9, <1>10, <1>11, <1>12, <1>13, <1>14 DEF same

-----------------------------------------------------------------------------
(* What calls and workers carry. *)

(* Only a call itself changes what it carries. *)
LocalKept(p) == \A q \in Callers \ {p} : local'[q] = local[q]

(* A call changes its own variables only. *)
LEMMA LocalByKeep ==
  ASSUME Typed, NEW p, UNCHANGED local \/ \E v : Keep(p, v)
  PROVE  LocalKept(p)
BY DEF LocalKept, Keep, Typed

(* A commit changes its own variables only. *)
LEMMA LocalCommitter ==
  ASSUME Typed, NEW p \in Committers, Reconfigure(p) \/ updateAccountConfig(p) \/ commitSnapshotAfter(p)
  PROVE  LocalKept(p)
<1>1. CASE Reconfigure(p)
  BY Zenon, <1>1, LocalByKeep DEF Reconfigure, BeginReconfigure, RejectReconfigure, LoadStaged
<1>2. CASE updateAccountConfig(p)
  BY Zenon, <1>2, LocalByKeep DEF updateAccountConfig, BeginUpdate, CloneLive, RejectUpdate
<1>3. CASE LockSettings(p) \/ LockPollers(p) \/ LockPersist(p) \/ AbortCommit(p) \/ Retire(p)
  BY Zenon, <1>3, LocalByKeep DEF LockSettings, LockPollers, LockPersist, AbortCommit, Retire
<1>4. CASE Publish(p)
  BY <1>4, LocalByKeep DEF Publish
<1> QED BY <1>1, <1>2, <1>3, <1>4 DEF commitSnapshotAfter

(* handleUsage changes its own variables only. *)
LEMMA LocalUsage ==
  ASSUME Typed, NEW u \in Usage, handleUsage(u)
  PROVE  LocalKept(u)
BY Zenon, LocalByKeep DEF handleUsage, LockUsage, DropUsage, ApplyUsage, WriteUsage

(* forceRefresh changes its own variables only. *)
LEMMA LocalRefresh ==
  ASSUME Typed, NEW p \in Refreshers, forceRefresh(p)
  PROVE  LocalKept(p)
BY LocalByKeep DEF forceRefresh, JoinRefresh, LeadRefresh, EndRefresh, FollowRefresh, HangUp

(* The other steps change no variables of a call. *)
LEMMA LocalOther ==
  /\ \A p \in Stoppers : shutdown(p) => UNCHANGED local
  /\ \A p \in Unblockers, chosen \in SUBSET Accounts : unblock(p, chosen) => UNCHANGED local
  /\ \A p \in Callers : Refuse(p) => UNCHANGED local
  /\ \A w \in Workers : poll(w) => UNCHANGED local
<1>1. \A p \in Stoppers : shutdown(p) => UNCHANGED local
  BY Zenon DEF shutdown, BeginShutdown, JoinShutdown, WaitGroup, LockFinal, FinalWrite, FinishShutdown, FollowShutdown
<1>2. \A w \in Workers : poll(w) => UNCHANGED local
  BY Zenon DEF poll, StartPoll, StopPoller, DropAnswer, ApplyAnswer, LockPoll, WritePoll
<1> QED BY <1>1, <1>2 DEF unblock, Refuse

(* A usage record that waits to be written was just counted or waited      *)
(* before, with the same copy.                                             *)
LEMMA UsageWaits ==
  ASSUME Typed, [Next]_vars, NEW u \in Usage, pc'[u] = "write"
  PROVE  \/ pc[u] = "write" /\ local'[u] = local[u]
         \/ \E a \in Accounts : ApplyUsage(u, a)
<1> USE CallerKinds
<1>1. ASSUME NEW p \in Committers, Reconfigure(p) \/ updateAccountConfig(p) \/ commitSnapshotAfter(p)
      PROVE  pc[u] = "write" /\ local'[u] = local[u]
  <2>1. u # p
    BY NamesAssumption
  <2> QED BY Zenon, <1>1, <2>1, MovedCommitter, LocalCommitter DEF Moved, LocalKept
<1>2. ASSUME NEW v \in Usage, handleUsage(v)
      PROVE  (pc[u] = "write" /\ local'[u] = local[u]) \/ \E a \in Accounts : ApplyUsage(u, a)
  <2>1. CASE u # v
    BY <1>2, <2>1, MovedUsage, LocalUsage DEF Moved, LocalKept
  <2>2. CASE u = v
    BY Zenon, <1>2, <2>2 DEF handleUsage, LockUsage, DropUsage, WriteUsage, Goto, Typed
  <2> QED BY <2>1, <2>2
<1>3. ASSUME NEW p \in Refreshers, forceRefresh(p)
      PROVE  pc[u] = "write" /\ local'[u] = local[u]
  <2>1. u # p
    BY NamesAssumption
  <2> QED BY <1>3, <2>1, MovedRefresh, LocalRefresh DEF Moved, LocalKept
<1>4. ASSUME NEW p \in Stoppers, shutdown(p)
      PROVE  pc[u] = "write" /\ local'[u] = local[u]
  <2>1. u # p
    BY NamesAssumption
  <2> QED BY <1>4, <2>1, MovedShutdown, LocalOther DEF Moved
<1>5. ASSUME NEW p \in Unblockers, NEW chosen \in SUBSET Accounts, unblock(p, chosen)
      PROVE  pc[u] = "write" /\ local'[u] = local[u]
  <2>1. u # p
    BY NamesAssumption
  <2> QED BY Zenon, <1>5, <2>1, MovedOther, LocalOther DEF Moved
<1>6. ASSUME NEW p \in Callers, Refuse(p)
      PROVE  pc[u] = "write" /\ local'[u] = local[u]
  <2>1. u # p
    BY Zenon, <1>6 DEF Refuse
  <2> QED BY Zenon, <1>6, <2>1, MovedOther, LocalOther DEF Moved
<1>7. CASE UNCHANGED vars
  BY Zenon, <1>7 DEF vars
<1> QED
  BY Zenon, <1>1, <1>2, <1>3, <1>4, <1>5, <1>6, <1>7, MovedOther, LocalOther DEF Next, Quiescent

(* Only commits, polls and refreshes change the workers. *)
LEMMA WorkUnchanged ==
  /\ \A p \in Committers : (Reconfigure(p) \/ updateAccountConfig(p) \/ commitSnapshotAfter(p)) /\ ~Retire(p)
                             => UNCHANGED work
  /\ \A u \in Usage : handleUsage(u) => UNCHANGED work
  /\ \A p \in Stoppers : shutdown(p) => UNCHANGED work
  /\ \A p \in Unblockers, chosen \in SUBSET Accounts : unblock(p, chosen) => UNCHANGED work
  /\ \A p \in Callers : Refuse(p) => UNCHANGED work
<1>1. \A p \in Committers : Reconfigure(p) => UNCHANGED work
  BY Zenon DEF Reconfigure, BeginReconfigure, RejectReconfigure, LoadStaged
<1>2. \A p \in Committers : updateAccountConfig(p) => UNCHANGED work
  BY Zenon DEF updateAccountConfig, BeginUpdate, CloneLive, RejectUpdate
<1>3. \A p \in Committers : commitSnapshotAfter(p) /\ ~Retire(p) => UNCHANGED work
  BY Zenon DEF commitSnapshotAfter, LockSettings, LockPollers, LockPersist, AbortCommit, Publish
<1>4. \A u \in Usage : handleUsage(u) => UNCHANGED work
  BY Zenon DEF handleUsage, LockUsage, DropUsage, ApplyUsage, WriteUsage
<1>5. \A p \in Stoppers : shutdown(p) => UNCHANGED work
  BY Zenon DEF shutdown, BeginShutdown, JoinShutdown, WaitGroup, LockFinal, FinalWrite, FinishShutdown, FollowShutdown
<1> QED BY <1>1, <1>2, <1>3, <1>4, <1>5 DEF unblock, Refuse

(* A worker's step leaves the other workers alone. *)
LEMMA OtherWorkers ==
  ASSUME Typed, NEW w \in Workers, poll(w), NEW v \in Workers \ {w}
  PROVE  work'[v] = work[v]
BY Zenon DEF poll, StartPoll, StopPoller, DropAnswer, ApplyAnswer, LockPoll, WritePoll, Step, Typed

(* A worker that waits to write just applied its answer or waited before,  *)
(* with the same copy.                                                     *)
LEMMA WorkerWaits ==
  ASSUME Typed, [Next]_vars, NEW w \in Workers, work'[w].pc \in {"lock", "write"}
  PROVE  \/ work[w].pc \in {"lock", "write"} /\ work'[w].job = work[w].job
         \/ \E ok \in BOOLEAN : ApplyAnswer(w, ok)
<1>0. work[w] \in Work
  BY Zenon DEF Typed
<1>1. ASSUME NEW p \in Committers, Retire(p)
      PROVE  work'[w] = work[w]
  BY <1>1 DEF Retire, NoWork
<1>2. ASSUME NEW p \in Refreshers, forceRefresh(p)
      PROVE  work'[w] = work[w]
  <2>1. CASE LeadRefresh(p)
    BY <2>1 DEF LeadRefresh, NoWork
  <2>2. CASE EndRefresh(p)
    BY <2>2 DEF EndRefresh, NoWork
  <2>3. CASE JoinRefresh(p) \/ FollowRefresh(p) \/ HangUp(p)
    BY Zenon, <2>3 DEF JoinRefresh, FollowRefresh, HangUp
  <2> QED BY <1>2, <2>1, <2>2, <2>3 DEF forceRefresh
<1>3. ASSUME NEW v \in Workers, poll(v), ~ \E ok \in BOOLEAN : ApplyAnswer(w, ok)
      PROVE  work[w].pc \in {"lock", "write"} /\ work'[w].job = work[w].job
  <2>1. CASE v # w
    BY <1>3, <2>1, OtherWorkers
  <2>2. CASE v = w /\ LockPoll(w)
    BY <1>0, <2>2 DEF LockPoll, Step, Typed, Work
  <2>3. CASE v = w /\ StartPoll(w)
    BY <1>0, <2>3 DEF StartPoll, Step, Typed, Work
  <2>4. CASE v = w /\ StopPoller(w)
    BY <1>0, <2>4 DEF StopPoller, Step, Typed, NoWork
  <2>5. CASE v = w /\ (DropAnswer(w) \/ WritePoll(w))
    <3>1. \E ok, stop \in BOOLEAN : work'[w] = Returned(w, ok, stop)
      BY Zenon, <1>0, <2>5 DEF DropAnswer, WritePoll, Step, Typed, Work
    <3> QED BY Zenon, <3>1, ReturnedType
  <2> QED BY Zenon, <1>3, <2>1, <2>2, <2>3, <2>4, <2>5 DEF poll
<1>4. CASE UNCHANGED vars
  BY <1>4 DEF vars
<1> QED
  BY Zenon, <1>1, <1>2, <1>3, <1>4, CallerKinds, WorkUnchanged DEF Next, Quiescent, commitSnapshotAfter

-----------------------------------------------------------------------------
(* Numbers. *)

(* Numbers only grow, and a copy that is written has a number given before. *)
Counting ==
  /\ r.persistNext <= r'.persistNext
  /\ r.persisted <= r'.persisted
  /\ r'.persisted <= r'.persistNext

(* A step that leaves the numbers lets them grow. *)
LEMMA CountingSame ==
  Typed /\ Live /\ r'.persistNext = r.persistNext /\ r'.persisted = r.persisted => Counting
<1>1. Typed => r.persistNext \in Nat /\ r.persisted \in Nat
  BY DEF Typed, Runtime
<1>2. Live => r.persisted <= r.persistNext
  BY DEF Live
<1> QED BY <1>1, <1>2 DEF Counting

(* So does giving out the next number. *)
LEMMA CountingNext ==
  Typed /\ Live /\ r'.persistNext = r.persistNext + 1 /\ r'.persisted = r.persisted => Counting
<1>1. Typed => r.persistNext \in Nat /\ r.persisted \in Nat
  BY DEF Typed, Runtime
<1>2. Live => r.persisted <= r.persistNext
  BY DEF Live
<1> QED BY <1>1, <1>2 DEF Counting

(* So does recording the number of a write that was made. *)
LEMMA CountingPersist ==
  ASSUME Typed, Live, NEW j \in Job, NEW ok \in BOOLEAN, persistStateLocked(j, ok), j.n <= r.persistNext
  PROVE  Counting
<1>1. r'.persistNext = r.persistNext /\ (r'.persisted = r.persisted \/ (r'.persisted = j.n /\ j.n > r.persisted))
  BY Zenon, PersistEffect
<1>2. r.persistNext \in Nat /\ r.persisted \in Nat /\ j.n \in Nat /\ r.persisted <= r.persistNext
  BY Zenon DEF Typed, Runtime, Job, Live
<1> QED BY <1>1, <1>2 DEF Counting

(* Every step lets the numbers grow. *)
LEMMA CountingStep == Base /\ [Next]_vars => Counting
<1> SUFFICES ASSUME Base, [Next]_vars PROVE Counting
  OBVIOUS
<1> USE DEF Base
<1>1. ASSUME NEW p \in Committers, Reconfigure(p) \/ updateAccountConfig(p) \/ commitSnapshotAfter(p)
      PROVE  Counting
  <2>1. CASE RejectReconfigure(p)
    BY <2>1, RejectEffect, CountingSame DEF RejectReconfigure
  <2>2. CASE Reconfigure(p) /\ ~RejectReconfigure(p)
    BY Zenon, <2>2, CountingSame DEF Reconfigure, BeginReconfigure, LoadStaged
  <2>3. CASE updateAccountConfig(p)
    BY Zenon, <2>3, CountingSame DEF updateAccountConfig, BeginUpdate, CloneLive, RejectUpdate
  <2>4. CASE commitSnapshotAfter(p) /\ ~Publish(p)
    BY Zenon, <2>4, CountingSame DEF commitSnapshotAfter, LockSettings, LockPollers, LockPersist, AbortCommit, Retire
  <2>5. CASE Publish(p)
    <3>1. r' = [r EXCEPT !.snapshot = r'.snapshot, !.lastErr = FALSE, !.cancel = r'.cancel] /\ r \in Runtime
      BY <2>5 DEF Publish, Typed, Runtime
    <3>2. r'.persistNext = r.persistNext /\ r'.persisted = r.persisted
      BY Zenon, <3>1 DEF Runtime
    <3> QED BY <3>2, CountingSame
  <2> QED BY <1>1, <2>1, <2>2, <2>3, <2>4, <2>5
<1>2. ASSUME NEW u \in Usage, handleUsage(u)
      PROVE  Counting
  <2>1. CASE LockUsage(u) \/ DropUsage(u)
    BY Zenon, <2>1, CountingSame DEF LockUsage, DropUsage
  <2>2. ASSUME NEW a \in Accounts, ApplyUsage(u, a)
        PROVE  Counting
    BY Zenon, <2>2, ApplyUsageEffect, CountingNext
  <2>3. CASE WriteUsage(u)
    <3>1. local[u] \in Job /\ local[u].n <= r.persistNext
      BY Zenon, <2>3, CallerKinds DEF WriteUsage, Calls, CallOK, Numbered
    <3> QED BY Zenon, <2>3, <3>1, CountingPersist DEF WriteUsage
  <2> QED BY <1>2, <2>1, <2>2, <2>3 DEF handleUsage
<1>3. ASSUME NEW w \in Workers, poll(w)
      PROVE  Counting
  <2>1. CASE StartPoll(w) \/ StopPoller(w) \/ DropAnswer(w) \/ LockPoll(w)
    BY Zenon, <2>1, CountingSame DEF StartPoll, StopPoller, DropAnswer, LockPoll
  <2>2. ASSUME NEW ok \in BOOLEAN, ApplyAnswer(w, ok)
        PROVE  Counting
    BY Zenon, <2>2, ApplyAnswerEffect, CountingNext
  <2>3. CASE WritePoll(w)
    <3>1. work[w].job \in Job /\ work[w].job.n <= r.persistNext
      BY Zenon, <2>3 DEF WritePoll, Working, Numbered
    <3> QED BY Zenon, <2>3, <3>1, CountingPersist DEF WritePoll
  <2> QED BY <1>3, <2>1, <2>2, <2>3 DEF poll
<1>4. ASSUME NEW p \in Refreshers, forceRefresh(p)
      PROVE  Counting
  <2>1. CASE JoinRefresh(p) \/ FollowRefresh(p) \/ HangUp(p)
    BY Zenon, <2>1, CountingSame DEF JoinRefresh, FollowRefresh, HangUp
  <2> QED BY <1>4, <2>1, RefreshEffect, CountingSame DEF forceRefresh
<1>5. ASSUME NEW p \in Stoppers, shutdown(p)
      PROVE  Counting
  <2>1. CASE JoinShutdown(p) \/ WaitGroup(p) \/ LockFinal(p) \/ FollowShutdown(p)
    BY <2>1, CountingSame DEF JoinShutdown, WaitGroup, LockFinal, FollowShutdown
  <2>2. CASE FinalWrite(p)
    BY <2>2, FinalWriteEffect DEF Counting
  <2> QED BY Zenon, <1>5, <2>1, <2>2, BeginShutdownEffect, FinishShutdownEffect, CountingSame DEF shutdown
<1>6. ASSUME NEW p \in Unblockers, NEW chosen \in SUBSET Accounts, unblock(p, chosen)
      PROVE  Counting
  BY <1>6, UnblockEffect, CountingSame
<1>7. ASSUME NEW p \in Callers, Refuse(p)
      PROVE  Counting
  BY <1>7, CountingSame DEF Refuse
<1>8. CASE UNCHANGED vars
  BY <1>8, CountingSame DEF vars
<1> QED
  BY Zenon, <1>1, <1>2, <1>3, <1>4, <1>5, <1>6, <1>7, <1>8, CallerKinds DEF Next, Quiescent

(* No copy is ahead of the numbers given out. *)
LEMMA NumberedStep == Base /\ [Next]_vars => Numbered'
<1> SUFFICES ASSUME Base, [Next]_vars PROVE Numbered'
  OBVIOUS
<1> USE DEF Base
<1>1. r.persistNext <= r'.persistNext /\ r.persistNext \in Nat /\ r'.persistNext \in Nat
  BY Zenon, CountingStep, TypedStep DEF Counting, Typed, Runtime
<1>2. ASSUME NEW u \in Usage, pc'[u] = "write"
      PROVE  local'[u].n <= r'.persistNext
  <2>1. CASE pc[u] = "write" /\ local'[u] = local[u]
    <3>1. local[u].n \in Nat /\ local[u].n <= r.persistNext
      BY Zenon, <2>1, CallerKinds DEF Calls, CallOK, Job, Numbered
    <3> QED BY <1>1, <2>1, <3>1
  <2>2. CASE \E a \in Accounts : ApplyUsage(u, a)
    <3>1. local'[u].n = r.persistNext + 1 /\ r'.persistNext = r.persistNext + 1
      BY Zenon, <2>2, ApplyUsageEffect
    <3> QED BY <1>1, <3>1
  <2> QED BY Zenon, <1>2, <2>1, <2>2, UsageWaits
<1>3. ASSUME NEW w \in Workers, work'[w].pc \in {"lock", "write"}
      PROVE  work'[w].job.n <= r'.persistNext
  <2>1. CASE work[w].pc \in {"lock", "write"} /\ work'[w].job = work[w].job
    <3>1. work[w].job.n \in Nat /\ work[w].job.n <= r.persistNext
      BY Zenon, <2>1 DEF Working, Job, Numbered
    <3> QED BY <1>1, <2>1, <3>1
  <2>2. CASE \E ok \in BOOLEAN : ApplyAnswer(w, ok)
    <3>1. work'[w].job.n = r.persistNext + 1 /\ r'.persistNext = r.persistNext + 1
      BY Zenon, <2>2, ApplyAnswerEffect
    <3> QED BY <1>1, <3>1
  <2> QED BY Zenon, <1>3, <2>1, <2>2, WorkerWaits
<1> QED BY <1>2, <1>3 DEF Numbered

-----------------------------------------------------------------------------
(* The live snapshot. *)

(* Shutdown is the only writer of stopped and shutdownDone. *)
LEMMA PhaseCases ==
  ASSUME Base, [Next]_vars
  PROVE  \/ r'.stopped = r.stopped /\ r'.shutdownDone = r.shutdownDone
         \/ \E p \in Stoppers : BeginShutdown(p) /\ r'.stopped /\ r'.shutdownDone = "open"
         \/ \E p \in Stoppers : /\ FinishShutdown(p) /\ r'.stopped = r.stopped
                                /\ r.shutdownDone # "none" /\ r'.shutdownDone = "closed"
<1> USE DEF Base
<1> DEFINE Same == r'.stopped = r.stopped /\ r'.shutdownDone = r.shutdownDone
<1>1. ASSUME NEW p \in Committers, Reconfigure(p) \/ updateAccountConfig(p) \/ commitSnapshotAfter(p)
      PROVE  Same
  <2>1. CASE RejectReconfigure(p)
    BY <2>1, RejectEffect DEF RejectReconfigure, SamePhase
  <2>2. CASE Reconfigure(p) /\ ~RejectReconfigure(p)
    BY Zenon, <2>2 DEF Reconfigure, BeginReconfigure, LoadStaged
  <2>3. CASE updateAccountConfig(p)
    BY Zenon, <2>3 DEF updateAccountConfig, BeginUpdate, CloneLive, RejectUpdate
  <2>4. CASE commitSnapshotAfter(p) /\ ~Publish(p)
    BY Zenon, <2>4 DEF commitSnapshotAfter, LockSettings, LockPollers, LockPersist, AbortCommit, Retire
  <2>5. CASE Publish(p)
    <3>1. local[p] \in Staged /\ r.snapshot.gen + 1 \in Generations
      BY <2>5, CallerKinds, NextGeneration DEF Publish, Calls, CallOK, Opened, Staging, Committers
    <3> QED BY <2>5, <3>1, PublishEffect
  <2> QED BY <1>1, <2>1, <2>2, <2>3, <2>4, <2>5
<1>2. ASSUME NEW u \in Usage, handleUsage(u)
      PROVE  Same
  <2>1. CASE LockUsage(u) \/ DropUsage(u)
    BY <2>1 DEF LockUsage, DropUsage
  <2>2. ASSUME NEW a \in Accounts, ApplyUsage(u, a)
        PROVE  Same
    BY Zenon, <2>2, ApplyUsageEffect DEF SamePhase
  <2>3. CASE WriteUsage(u)
    <3>1. local[u] \in Job
      BY Zenon, <2>3, CallerKinds DEF WriteUsage, Calls, CallOK
    <3> QED BY Zenon, <2>3, <3>1, PersistEffect DEF WriteUsage, SamePhase
  <2> QED BY <1>2, <2>1, <2>2, <2>3 DEF handleUsage
<1>3. ASSUME NEW w \in Workers, poll(w)
      PROVE  Same
  <2>1. CASE StartPoll(w) \/ StopPoller(w) \/ DropAnswer(w) \/ LockPoll(w)
    BY Zenon, <2>1 DEF StartPoll, StopPoller, DropAnswer, LockPoll
  <2>2. ASSUME NEW ok \in BOOLEAN, ApplyAnswer(w, ok)
        PROVE  Same
    BY Zenon, <2>2, ApplyAnswerEffect DEF SamePhase
  <2>3. CASE WritePoll(w)
    <3>1. work[w].job \in Job
      BY Zenon, <2>3 DEF WritePoll, Working
    <3> QED BY Zenon, <2>3, <3>1, PersistEffect DEF WritePoll, SamePhase
  <2> QED BY Zenon, <1>3, <2>1, <2>2, <2>3 DEF poll
<1>4. ASSUME NEW p \in Refreshers, forceRefresh(p)
      PROVE  Same
  <2>1. CASE JoinRefresh(p) \/ FollowRefresh(p) \/ HangUp(p)
    BY <2>1 DEF JoinRefresh, FollowRefresh, HangUp
  <2> QED BY <1>4, <2>1, RefreshEffect DEF forceRefresh, SamePhase
<1>5. ASSUME NEW p \in Stoppers, shutdown(p)
      PROVE  \/ Same
             \/ BeginShutdown(p) /\ r'.stopped /\ r'.shutdownDone = "open"
             \/ FinishShutdown(p) /\ r'.stopped = r.stopped /\ r'.shutdownDone = "closed"
  <2>1. CASE JoinShutdown(p) \/ WaitGroup(p) \/ LockFinal(p) \/ FollowShutdown(p)
    BY <2>1 DEF JoinShutdown, WaitGroup, LockFinal, FollowShutdown
  <2> QED BY Zenon, <1>5, <2>1, BeginShutdownEffect, FinalWriteEffect, FinishShutdownEffect DEF shutdown
<1>6. ASSUME NEW p \in Unblockers, NEW chosen \in SUBSET Accounts, unblock(p, chosen)
      PROVE  Same
  BY Zenon, <1>6, UnblockEffect DEF SamePhase
<1>7. ASSUME NEW p \in Callers, Refuse(p)
      PROVE  Same
  BY Zenon, <1>7 DEF Refuse
<1>8. CASE UNCHANGED vars
  BY <1>8 DEF vars
<1>9. ASSUME NEW p \in Stoppers, FinishShutdown(p)
      PROVE  r.shutdownDone # "none"
  BY <1>9, CallerKinds DEF FinishShutdown, Calls, CallOK, Stopping, Live
<1> QED
  BY Zenon, <1>1, <1>2, <1>3, <1>4, <1>5, <1>6, <1>7, <1>8, <1>9, CallerKinds DEF Next, Quiescent

(* A runtime stops with its first shutdown and stays stopped; a shutdown   *)
(* that has ended stays ended.                                             *)
LEMMA PhaseStep == Base /\ [Next]_vars =>
  /\ r'.stopped <=> r'.shutdownDone # "none"
  /\ r.stopped => r'.stopped
  /\ (\A p \in Stoppers : ~BeginShutdown(p)) => r'.stopped = r.stopped
  /\ r.shutdownDone = "closed" => r'.shutdownDone = "closed"
BY PhaseCases DEF Base, Live, BeginShutdown

(* The live snapshot stays proper, with a store whose opener has published *)
(* it.                                                                     *)
LEMMA LiveStep == Base /\ [Next]_vars => Live'
<1> SUFFICES ASSUME Base, [Next]_vars PROVE Live'
  OBVIOUS
<1>1. (r'.stopped <=> r'.shutdownDone # "none") /\ r'.persisted <= r'.persistNext
  BY PhaseStep, CountingStep DEF Counting
<1> USE DEF Base
<1>2. CASE \A p \in Committers : ~Publish(p)
  <2>1. Kept(r.snapshot, r'.snapshot)
    BY <1>2, KeptStep
  <2>2. r.snapshot.gen # 0 => r.snapshot.store \in Store /\ pc'[r.snapshot.store.handle] \in {"retire", "ok", "error"}
    <3> SUFFICES ASSUME r.snapshot.gen # 0
                 PROVE  r.snapshot.store \in Store /\ pc'[r.snapshot.store.handle] \in {"retire", "ok", "error"}
      OBVIOUS
    <3>1. r.snapshot.store \in Store /\ pc[r.snapshot.store.handle] \in {"retire", "ok", "error"}
      BY DEF Live
    <3>2. r.snapshot.store.handle \in Callers
      BY <3>1, CallerKinds DEF Store
    <3> QED BY <3>1, <3>2, DoneStays
  <2> QED BY Zenon, <1>1, <2>1, <2>2 DEF Live, Kept, Frame, Proper
<1>3. ASSUME NEW p \in Committers, Publish(p)
      PROVE  Live'
  <2> DEFINE same == SameStore(r.snapshot, local[p].snapshot)
  <2>1. /\ local[p] \in Staged /\ Proper(local[p].snapshot)
        /\ r'.snapshot.gen # 0 /\ r'.snapshot.store \in Store
        /\ same => r.snapshot.gen # 0 /\ r'.snapshot.store = r.snapshot.store
        /\ ~same => r'.snapshot.store.handle = p
        /\ r.snapshot.gen # 0 => pc'[r.snapshot.store.handle] \in {"ok", "error"}
    BY Zenon, <1>3, Published
  <2>2. r'.snapshot = CarryForward(r.snapshot, local[p].snapshot) /\ r.snapshot.gen + 1 \in Generations
        /\ r.snapshot \in Snapshot /\ local[p].snapshot \in Snapshot
    BY Zenon, <1>3, <2>1, NextGeneration, PublishEffect DEF Publish, Typed, Runtime, Staged
  <2>3. /\ r'.snapshot.managed = local[p].snapshot.managed /\ r'.snapshot.disabled = local[p].snapshot.disabled
        /\ \A a \in Accounts \ local[p].snapshot.managed : r'.snapshot.quota[a] = local[p].snapshot.quota[a]
    <3> DEFINE s == CarryForward(r.snapshot, local[p].snapshot)
    <3>1. /\ s.managed = local[p].snapshot.managed /\ s.disabled = local[p].snapshot.disabled
          /\ \A a \in Accounts \ local[p].snapshot.managed : s.quota[a] = local[p].snapshot.quota[a]
      <4>1. /\ s.managed = local[p].snapshot.managed /\ s.disabled = local[p].snapshot.disabled
            /\ \A a \in Accounts : s.quota[a] =
                 IF SameStore(r.snapshot, local[p].snapshot) /\ a \in r.snapshot.managed \cap local[p].snapshot.managed
                 THEN r.snapshot.quota[a] ELSE local[p].snapshot.quota[a]
        BY Zenon, <2>2, CarryForwardType
      <4> HIDE DEF s, same
      <4> QED BY Zenon, <4>1
    <3> HIDE DEF s
    <3>2. r'.snapshot = s
      BY <2>2 DEF s
    <3> QED BY Zenon, <3>1, <3>2
  <2>4. Proper(r'.snapshot)
    BY Zenon, <2>1, <2>3 DEF Proper
  <2>5. pc'[p] = "retire"
    BY <1>3, CallerKinds DEF Publish, Goto, Typed
  <2>6. pc'[r'.snapshot.store.handle] \in {"retire", "ok", "error"}
    BY Zenon, <2>1, <2>5
  <2> QED BY Zenon, <1>1, <2>1, <2>4, <2>6 DEF Live
<1> QED BY <1>2, <1>3

(* Every step keeps what is known of workers. *)
LEMMA WorkingStep == Base /\ [Next]_vars => Working'
<1> SUFFICES ASSUME Base, [Next]_vars PROVE Working'
  OBVIOUS
<1> USE DEF Base
<1>1. ASSUME UNCHANGED work, Frame(r.snapshot, r'.snapshot), \A p \in Refreshers : pc[p] = "lead" => pc'[p] = "lead"
      PROVE  Working'
  <2>1. \A w \in Workers : work[w].pc \in {"lock", "write"} => work[w].job \in Job
    BY DEF Working
  <2> QED BY <1>1, <2>1, WorkingKept
<1>2. ASSUME NEW p \in Callers, Moved(p), p \notin Refreshers \/ pc[p] # "lead",
             UNCHANGED work, Frame(r.snapshot, r'.snapshot)
      PROVE  Working'
  BY Zenon, <1>1, <1>2, CallerKinds DEF Moved
<1>3. ASSUME NEW p \in Committers, Reconfigure(p) \/ updateAccountConfig(p) \/ commitSnapshotAfter(p)
      PROVE  Working'
  <2>1. p \in Callers /\ p \notin Refreshers
    BY CallerKinds, NamesAssumption
  <2>2. CASE ~Publish(p) /\ ~Retire(p)
    BY Zenon, <1>2, <1>3, <2>1, <2>2, MovedCommitter, WorkUnchanged, KeptCommitter DEF Frame
  <2> QED BY <2>2, WorkingPublish, WorkingRetire
<1>4. ASSUME NEW u \in Usage, handleUsage(u)
      PROVE  Working'
  <2>1. u \in Callers /\ u \notin Refreshers
    BY CallerKinds, NamesAssumption
  <2> QED BY Zenon, <1>2, <1>4, <2>1, MovedUsage, WorkUnchanged, KeptUsage DEF Kept
<1>5. ASSUME NEW p \in Stoppers, shutdown(p)
      PROVE  Working'
  <2>1. p \in Callers /\ p \notin Refreshers
    BY CallerKinds, NamesAssumption
  <2> QED BY Zenon, <1>2, <1>5, <2>1, MovedShutdown, WorkUnchanged, KeptShutdown DEF Frame
<1>6. ASSUME NEW p \in Unblockers, NEW chosen \in SUBSET Accounts, unblock(p, chosen)
      PROVE  Working'
  <2>1. p \in Callers /\ p \notin Refreshers
    BY CallerKinds, NamesAssumption
  <2> QED BY Zenon, <1>2, <1>6, <2>1, MovedOther, WorkUnchanged, KeptUnblock DEF Kept
<1>7. ASSUME NEW p \in Callers, Refuse(p)
      PROVE  Working'
  <2>1. pc[p] # "lead" /\ r'.snapshot = r.snapshot
    BY <1>7 DEF Refuse
  <2> QED BY Zenon, <1>2, <1>7, <2>1, MovedOther, WorkUnchanged DEF Frame
<1>8. CASE UNCHANGED vars
  BY <1>1, <1>8 DEF vars, Frame
<1> QED
  BY Zenon, <1>3, <1>4, <1>5, <1>6, <1>7, <1>8, CallerKinds, WorkingPoll, WorkingRefresh DEF Next, Quiescent
=============================================================================
