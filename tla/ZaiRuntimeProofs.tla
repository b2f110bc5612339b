-------------------------- MODULE ZaiRuntimeProofs --------------------------
(***************************************************************************)
(* Base is invariant, and with it the types, the ledger of the accounts    *)
(* and the store handles of ZaiRuntime, for any callers, accounts and      *)
(* directories.                                                            *)
(***************************************************************************)
EXTENDS ZaiRuntimeTypes

-----------------------------------------------------------------------------
(* The base invariant. *)

(* The generation is bounded by the commits that have published, the clock *)
(* by the polls that were made.                                            *)
LEMMA BoundedStep == Base /\ [Next]_vars => Bounded'
<1> SUFFICES ASSUME Base, [Next]_vars PROVE Bounded'
  OBVIOUS
<1>0. Typed'
  BY TypedStep
<1> USE DEF Base
<1>1. r'.snapshot.gen <= Cardinality(Committed')
  <2>1. Committed \subseteq Committed'
    BY DoneStays, CallerKinds DEF Committed
  <2>2. IsFiniteSet(Committed') /\ Cardinality(Committed') \in Nat /\ Cardinality(Committed) \in Nat
    <3>1. Committed' \in SUBSET Committers
      BY DEF Committed
    <3> QED BY <3>1, NumberTypes, CommittedCount, FS_Subset, FS_CardinalityType
  <2>3. Cardinality(Committed) <= Cardinality(Committed')
    BY <2>1, <2>2, FS_Subset
  <2>4. r.snapshot.gen \in Nat /\ r.snapshot.gen <= Cardinality(Committed)
    BY Zenon, NumberTypes DEF Typed, Runtime, Snapshot, Bounded
  <2>5. CASE \A p \in Committers : ~Publish(p)
    <3>1. r'.snapshot.gen = r.snapshot.gen
      BY <2>5, KeptStep DEF Kept, Frame
    <3> QED BY <2>2, <2>3, <2>4, <3>1
  <2>6. ASSUME NEW p \in Committers, Publish(p)
        PROVE  r'.snapshot.gen <= Cardinality(Committed')
    <3>1. p \notin Committed /\ p \in Committed'
      BY <2>6, CallerKinds DEF Publish, Goto, Typed, Committed
    <3>2. Cardinality(Committed \cup {p}) = Cardinality(Committed) + 1 /\ IsFiniteSet(Committed \cup {p})
      BY <3>1, CommittedCount, FS_AddElement
    <3>3. Cardinality(Committed \cup {p}) <= Cardinality(Committed')
      BY <2>1, <2>2, <3>1, FS_Subset
    <3>4. r'.snapshot.gen = r.snapshot.gen + 1
      BY <2>6, Published
    <3> QED BY <2>2, <2>4, <3>2, <3>3, <3>4
  <2> QED BY <2>5, <2>6
<1>2. clock' <= MaxPolls + Cardinality(Asked')
  <2>1. ASSUME NEW w \in Asked
        PROVE  w \in Asked'
    <3>1. w \in Workers /\ w.kind = "refresh" /\ w.by \in Refreshers /\ w.by \in Callers
      BY CallerKinds DEF Asked, Workers
    <3>2. CASE pc[w.by] \in {"ok", "error"}
      BY <3>1, <3>2, DoneStays DEF Asked
    <3> DEFINE Busied(x) == x.pc \in {"fetch", "lock", "write", "reported"}
    <3>3. ASSUME Busied(work[w]), ~Busied(work'[w])
          PROVE  pc'[w.by] \in {"ok", "error"}
      <4>1. ASSUME NEW p \in Committers, Retire(p)
            PROVE  work'[w] = work[w]
        BY <3>1, <4>1 DEF Retire
      <4>2. ASSUME NEW v \in Workers, poll(v)
            PROVE  Busied(work'[w])
        <5>1. CASE v # w
          BY <3>1, <3>3, <4>2, <5>1, OtherWorkers
        <5>2. CASE v = w
          <6>0. work[w] \in Work
            BY <3>1 DEF Typed
          <6>1. CASE StartPoll(w)
            BY <3>1, <6>0, <6>1 DEF StartPoll, Step, Typed, Work
          <6>2. CASE StopPoller(w)
            BY <3>1, <6>2 DEF StopPoller
          <6>3. CASE DropAnswer(w) \/ WritePoll(w)
            <7>1. \E ok, stop \in BOOLEAN : work'[w] = Returned(w, ok, stop)
              BY Zenon, <3>1, <6>0, <6>3 DEF DropAnswer, WritePoll, Step, Typed, Work
            <7> QED BY <3>1, <7>1, ReturnedType
          <6>4. CASE \E ok \in BOOLEAN : ApplyAnswer(w, ok)
            BY <3>1, <6>0, <6>4 DEF ApplyAnswer, Step, Typed, Work
          <6>5. CASE LockPoll(w)
            BY <3>1, <6>0, <6>5 DEF LockPoll, Step, Typed, Work
          <6> QED BY Zenon, <4>2, <5>2, <6>1, <6>2, <6>3, <6>4, <6>5 DEF poll
        <5> QED BY <5>1, <5>2
      <4>3. ASSUME NEW p \in Refreshers, forceRefresh(p)
            PROVE  pc'[w.by] \in {"ok", "error"}
        <5>1. pc[w.by] = "lead"
          BY <3>1, <3>3 DEF Working
        <5>2. CASE LeadRefresh(p)
          <6>1. w.by # p
            BY <5>1, <5>2 DEF LeadRefresh
          <6>2. work'[w] = work[w]
            BY <3>1, <5>2, <6>1 DEF LeadRefresh
          <6> QED BY <3>3, <6>2
        <5>3. CASE EndRefresh(p)
          <6>1. w.by = p
            BY <3>1, <3>3, <5>3 DEF EndRefresh, Team
          <6> QED BY <3>1, <5>3, <6>1 DEF EndRefresh, Goto, Typed
        <5>4. CASE JoinRefresh(p) \/ FollowRefresh(p) \/ HangUp(p)
          BY <3>3, <5>4 DEF JoinRefresh, FollowRefresh, HangUp
        <5> QED BY Zenon, <4>3, <5>2, <5>3, <5>4 DEF forceRefresh
      <4>4. CASE UNCHANGED vars
        BY <3>3, <4>4 DEF vars
      <4> HIDE DEF Busied
      <4> QED
        BY Zenon, <3>3, <4>1, <4>2, <4>3, <4>4, CallerKinds, WorkUnchanged DEF Next, Quiescent, commitSnapshotAfter
    <3> QED BY <3>1, <3>2, <3>3 DEF Asked
  <2>2. IsFiniteSet(Asked') /\ Cardinality(Asked') \in Nat /\ IsFiniteSet(Asked) /\ Cardinality(Asked) \in Nat
    <3>1. Asked' \in SUBSET RefreshWorkers
      BY DEF Asked, RefreshWorkers, Workers
    <3> QED BY <3>1, RefreshWorkersCount, AskedCount, FS_Subset, FS_CardinalityType
  <2>3. Asked \subseteq Asked'
    BY <2>1
  <2>4. Cardinality(Asked) <= Cardinality(Asked')
    BY <2>2, <2>3, FS_Subset
  <2>5. clock \in Nat /\ clock' \in Nat /\ MaxPolls \in Nat /\ clock <= MaxPolls + Cardinality(Asked)
    BY Zenon, <1>0, RuntimeAssumption DEF Typed, Bounded
  <2>6. CASE clock' = clock
    BY <2>2, <2>4, <2>5, <2>6
  <2>7. ASSUME NEW w \in Workers, StartPoll(w)
        PROVE  clock' <= MaxPolls + Cardinality(Asked')
    <3>1. clock' = clock + 1
      BY <2>7 DEF StartPoll
    <3>2. CASE clock < MaxPolls
      BY <2>2, <2>5, <3>1, <3>2
    <3>3. CASE w.kind = "refresh"
      <4>1. w \notin Asked
        BY <2>7, <3>3 DEF StartPoll, Working, Asked
      <4>2. w \in Asked'
        BY <2>7, <3>3 DEF StartPoll, Step, Asked, Typed, Work
      <4>3. Cardinality(Asked \cup {w}) = Cardinality(Asked) + 1
        BY Zenon, <2>2, <4>1, FS_AddElement
      <4>4. Cardinality(Asked \cup {w}) <= Cardinality(Asked')
        BY <2>2, <2>3, <4>2, FS_Subset
      <4> QED BY <2>2, <2>5, <3>1, <4>3, <4>4
    <3> QED BY <2>7, <3>2, <3>3 DEF StartPoll
  <2>8. clock' = clock \/ \E w \in Workers : StartPoll(w)
    <3>1. ASSUME NEW p \in Committers, Reconfigure(p) \/ updateAccountConfig(p) \/ commitSnapshotAfter(p)
          PROVE  clock' = clock
      BY Zenon, <3>1 DEF Reconfigure, BeginReconfigure, RejectReconfigure, LoadStaged, updateAccountConfig, BeginUpdate,
         CloneLive, RejectUpdate, commitSnapshotAfter, LockSettings, LockPollers, LockPersist, AbortCommit, Publish, Retire
    <3>2. ASSUME NEW u \in Usage, handleUsage(u)
          PROVE  clock' = clock
      BY Zenon, <3>2 DEF handleUsage, LockUsage, DropUsage, ApplyUsage, WriteUsage
    <3>3. ASSUME NEW w \in Workers, poll(w), ~StartPoll(w)
          PROVE  clock' = clock
      BY Zenon, <3>3 DEF poll, StopPoller, DropAnswer, ApplyAnswer, LockPoll, WritePoll
    <3>4. ASSUME NEW p \in Refreshers, forceRefresh(p)
          PROVE  clock' = clock
      BY <3>4 DEF forceRefresh, JoinRefresh, LeadRefresh, EndRefresh, FollowRefresh, HangUp
    <3>5. ASSUME NEW p \in Stoppers, shutdown(p)
          PROVE  clock' = clock
      BY Zenon, <3>5 DEF shutdown, BeginShutdown, JoinShutdown, WaitGroup, LockFinal, FinalWrite, FinishShutdown, FollowShutdown
    <3>6. ASSUME NEW p \in Unblockers, NEW chosen \in SUBSET Accounts, unblock(p, chosen)
          PROVE  clock' = clock
      BY <3>6 DEF unblock
    <3>7. ASSUME NEW p \in Callers, Refuse(p)
          PROVE  clock' = clock
      BY <3>7 DEF Refuse
    <3>8. CASE UNCHANGED vars
      BY <3>8 DEF vars
    <3> QED BY Zenon, <3>1, <3>2, <3>3, <3>4, <3>5, <3>6, <3>7, <3>8, CallerKinds DEF Next, Quiescent
  <2> QED BY <2>6, <2>7, <2>8
<1> QED BY <1>1, <1>2 DEF Bounded

-----------------------------------------------------------------------------
(* What the calls know. *)

(* A reconfigure starts from an empty snapshot on a handle of its own. *)
LEMMA BeginReconfigureEffect ==
  ASSUME Typed, NEW p \in Reconfigurers, NEW d \in Dirs, NEW managed \in SUBSET Accounts,
         BeginReconfigure(p, d, managed)
  PROVE  /\ local'[p] \in Staged
         /\ local'[p].snapshot.store = [dir |-> d, handle |-> p]
         /\ Proper(local'[p].snapshot)
<1> DEFINE t == [NoSnapshot EXCEPT !.store = [dir |-> d, handle |-> p], !.managed = managed]
<1>1. t \in Snapshot /\ t.store = [dir |-> d, handle |-> p] /\ t.disabled = {} /\ t.quota = NoQuota
  BY Zenon, EmptyTypes DEF Snapshot, Store, NoSnapshot
<1>2. local'[p] = [snapshot |-> t, settings |-> None, previous |-> None]
  BY CallerKinds DEF BeginReconfigure, Keep, Typed
<1> HIDE DEF t
<1>3. local'[p] \in Staged /\ local'[p].snapshot = t
  BY <1>1, <1>2 DEF Staged
<1> QED BY <1>1, <1>3 DEF Proper, NoQuota

(* A reconfigure stages the accounts found on disk and the settings of its *)
(* directory.                                                              *)
LEMMA LoadStagedEffect ==
  ASSUME Typed, Calls, NEW p \in Reconfigurers, LoadStaged(p)
  PROVE  LET s == local[p].snapshot
             t == local'[p].snapshot IN
         /\ s \in Snapshot /\ s.store \in Store /\ s.store.handle = p /\ p \in open
         /\ local'[p] \in Staged
         /\ t.store = s.store /\ t.managed = s.managed
         /\ t.disabled = settings[s.store.dir] \cap s.managed
         /\ \A a \in Accounts : t.quota[a] = IF a \in s.managed THEN disk[s.store.dir][a] ELSE NoAccount
<1> DEFINE s == local[p].snapshot
           quota == [a \in Accounts |-> IF a \in s.managed THEN disk[s.store.dir][a] ELSE NoAccount]
           t == [s EXCEPT !.disabled = settings[s.store.dir] \cap s.managed, !.quota = quota]
<1>1. local[p] \in Staged /\ s \in Snapshot /\ s.store \in Store /\ s.store.handle = p /\ p \in open
  BY Zenon, CallerKinds DEF LoadStaged, Calls, CallOK, Opened, Staged
<1>2. quota \in [Accounts -> Account]
  BY Zenon, <1>1, EmptyTypes DEF Typed, Store
<1>3. \A a \in Accounts : quota[a] = IF a \in s.managed THEN disk[s.store.dir][a] ELSE NoAccount
  OBVIOUS
<1>4. /\ t \in Snapshot /\ t.store = s.store /\ t.managed = s.managed
      /\ t.disabled = settings[s.store.dir] \cap s.managed /\ t.quota = quota
  <2> HIDE DEF quota
  <2> QED BY Zenon, <1>1, <1>2 DEF Typed, Store, Snapshot
<1>5. local'[p] = [local[p] EXCEPT !.snapshot = t]
  BY Zenon, CallerKinds DEF LoadStaged, Keep, Typed
<1> HIDE DEF t
<1>6. local'[p] \in Staged /\ local'[p].snapshot = t
  BY <1>1, <1>4, <1>5 DEF Staged
<1> HIDE DEF quota
<1> QED BY <1>1, <1>3, <1>4, <1>6

(* An update stages the live snapshot with one account enabled or          *)
(* disabled.                                                               *)
LEMMA CloneLiveEffect ==
  ASSUME Typed, Live, NEW p \in Updaters, NEW a \in Accounts, \E disable \in BOOLEAN : CloneLive(p, a, disable)
  PROVE  /\ a \in r.snapshot.managed /\ r.snapshot.gen # 0 /\ r.snapshot.store \in Store
         /\ local'[p] \in Staged
         /\ local'[p].snapshot.store = r.snapshot.store /\ local'[p].snapshot.managed = r.snapshot.managed
         /\ local'[p].snapshot.quota = r.snapshot.quota
         /\ local'[p].settings \in SUBSET Accounts
         /\ \/ /\ local'[p].snapshot.disabled = r.snapshot.disabled \cup {a}
               /\ local'[p].settings = settings[r.snapshot.store.dir] \cup {a}
            \/ /\ local'[p].snapshot.disabled = r.snapshot.disabled \ {a}
               /\ local'[p].settings = settings[r.snapshot.store.dir] \ {a}
<1>1. r.snapshot \in Snapshot /\ r.snapshot.store \in Store /\ a \in r.snapshot.managed /\ r.snapshot.gen # 0
  BY DEF Typed, Runtime, Live, CloneLive
<1>2. \E d, s :
        /\ \/ d = r.snapshot.disabled \cup {a} /\ s = settings[r.snapshot.store.dir] \cup {a}
           \/ d = r.snapshot.disabled \ {a} /\ s = settings[r.snapshot.store.dir] \ {a}
        /\ local'[p] = [snapshot |-> [r.snapshot EXCEPT !.disabled = d], settings |-> s, previous |-> None]
  <2>1. CASE CloneLive(p, a, TRUE)
    <3>1. local'[p] = [snapshot |-> [r.snapshot EXCEPT !.disabled = r.snapshot.disabled \cup {a}],
                       settings |-> settings[r.snapshot.store.dir] \cup {a}, previous |-> None]
      BY Zenon, <2>1, CallerKinds DEF CloneLive, Keep, Typed
    <3> QED BY Zenon, <3>1
  <2>2. CASE CloneLive(p, a, FALSE)
    <3>1. local'[p] = [snapshot |-> [r.snapshot EXCEPT !.disabled = r.snapshot.disabled \ {a}],
                       settings |-> settings[r.snapshot.store.dir] \ {a}, previous |-> None]
      BY Zenon, <2>2, CallerKinds DEF CloneLive, Keep, Typed
    <3> QED BY Zenon, <3>1
  <2>3. CloneLive(p, a, TRUE) \/ CloneLive(p, a, FALSE)
    BY Zenon DEF CloneLive
  <2> QED BY Zenon, <2>1, <2>2, <2>3
<1>3. PICK d, s :
        /\ \/ d = r.snapshot.disabled \cup {a} /\ s = settings[r.snapshot.store.dir] \cup {a}
           \/ d = r.snapshot.disabled \ {a} /\ s = settings[r.snapshot.store.dir] \ {a}
        /\ local'[p] = [snapshot |-> [r.snapshot EXCEPT !.disabled = d], settings |-> s, previous |-> None]
  BY Zenon, <1>2
<1> DEFINE t == [r.snapshot EXCEPT !.disabled = d]
<1>4. t \in Snapshot /\ s \in SUBSET Accounts /\ t.store = r.snapshot.store /\ t.managed = r.snapshot.managed
      /\ t.quota = r.snapshot.quota /\ t.disabled = d
  BY Zenon, <1>1, <1>3 DEF Typed, Snapshot, Store
<1> HIDE DEF t
<1>5. local'[p] \in Staged /\ local'[p].snapshot = t /\ local'[p].settings = s
  BY <1>3, <1>4 DEF Staged, t
<1> QED BY <1>1, <1>3, <1>4, <1>5

(* A call that is nowhere in particular. *)
LEMMA CallElsewhere ==
  ASSUME NEW p, pc'[p] \notin Opened \cup {"retire", "write", "follow"} \cup Stopping
  PROVE  CallOK(p)'
BY DEF CallOK, Opened

(* A step of call p publishes nothing and closes no handle the others use. *)
LEMMA CallsKept ==
  ASSUME Base, [Next]_vars, NEW p, UNCHANGED pc \/ Moved(p), LocalKept(p),
         Frame(r.snapshot, r'.snapshot),
         \A q \in Callers \ {p} : /\ pc[q] \in Opened => (q \in open => q \in open')
                                  /\ pc[q] = "retire" => (q \in open' => q \in open)
                                  /\ pc[q] = "retire" => r'.stopped = r.stopped,
         p \in Callers => CallOK(p)'
  PROVE  Calls'
<1>1. (r.stopped => r'.stopped) /\ \A h \in Callers : pc[h] \in {"ok", "error"} => pc'[h] = pc[h]
  BY PhaseStep, DoneStays DEF Base
<1> SUFFICES ASSUME NEW q \in Callers, q # p PROVE CallOK(q)'
  BY DEF Calls
<1>2. pc'[q] = pc[q] /\ local'[q] = local[q]
  BY DEF Moved, LocalKept
<1> QED BY Zenon, <1>1, <1>2, OthersKept DEF Base

(* Reconfigure keeps what calls know. *)
LEMMA CallsReconfigure ==
  ASSUME Base, [Next]_vars, NEW p \in Reconfigurers, Reconfigure(p)
  PROVE  Calls'
<1> USE CallerKinds
<1>1. p \in Committers /\ p \notin Updaters /\ p \notin Usage /\ p \notin Refreshers /\ p \notin Stoppers
  BY NamesAssumption
<1>2. Moved(p) /\ LocalKept(p)
  BY MovedCommitter, LocalCommitter DEF Base
<1>3. r'.snapshot = r.snapshot /\ r'.stopped = r.stopped
  <2>1. CASE RejectReconfigure(p)
    BY <2>1, RejectEffect DEF RejectReconfigure, SamePhase, Base
  <2> QED BY Zenon, <2>1 DEF Reconfigure, BeginReconfigure, LoadStaged
<1>4. \A q \in Callers \ {p} : q \in open' <=> q \in open
  BY Zenon DEF Reconfigure, BeginReconfigure, RejectReconfigure, LoadStaged
<1> SUFFICES CallOK(p)'
  BY <1>2, <1>3, <1>4, CallsKept DEF Frame
<1>5. ASSUME NEW d \in Dirs, NEW managed \in SUBSET Accounts, BeginReconfigure(p, d, managed)
      PROVE  CallOK(p)'
  <2>1. local'[p] \in Staged /\ Proper(local'[p].snapshot) /\ local'[p].snapshot.store = [dir |-> d, handle |-> p]
    BY Zenon, <1>5, BeginReconfigureEffect DEF Base
  <2>2. local'[p].snapshot.store \in Store /\ local'[p].snapshot.store.handle = p
    BY <2>1 DEF Store
  <2>3. p \in open' /\ pc'[p] = "lock_settings"
    BY <1>5 DEF BeginReconfigure, Goto, Base, Typed
  <2> QED BY Zenon, <1>1, <2>1, <2>2, <2>3 DEF CallOK, Opened, Staging
<1>6. CASE RejectReconfigure(p)
  <2>1. pc'[p] = "error"
    BY <1>6 DEF RejectReconfigure, Goto, Base, Typed
  <2> QED BY <2>1, CallElsewhere DEF Opened, Staging, Stopping, After
<1>7. CASE LoadStaged(p)
  <2> DEFINE s == local[p].snapshot
             t == local'[p].snapshot
  <2>1. /\ s \in Snapshot /\ s.store \in Store /\ s.store.handle = p /\ p \in open
        /\ local'[p] \in Staged
        /\ t.store = s.store /\ t.managed = s.managed
        /\ t.disabled = settings[s.store.dir] \cap s.managed
        /\ \A a \in Accounts : t.quota[a] = IF a \in s.managed THEN disk[s.store.dir][a] ELSE NoAccount
    BY Zenon, <1>7, LoadStagedEffect DEF Base
  <2> HIDE DEF s, t
  <2>2. Proper(t)
    BY Zenon, <2>1 DEF Proper
  <2>3. pc'[p] = "lock_pollers" /\ open' = open
    BY Zenon, <1>7 DEF LoadStaged, Goto, Base, Typed
  <2> QED BY Zenon, <1>1, <2>1, <2>2, <2>3 DEF CallOK, Opened, Staging, t
<1> QED BY <1>5, <1>6, <1>7 DEF Reconfigure

(* updateAccountConfig keeps what calls know. *)
LEMMA CallsUpdate ==
  ASSUME Base, [Next]_vars, NEW p \in Updaters, updateAccountConfig(p)
  PROVE  Calls'
<1> USE CallerKinds
<1>1. p \in Committers /\ p \notin Reconfigurers /\ p \notin Usage /\ p \notin Refreshers /\ p \notin Stoppers
  BY NamesAssumption
<1>2. Moved(p) /\ LocalKept(p)
  BY MovedCommitter, LocalCommitter DEF Base
<1>3. r' = r /\ open' = open
  BY Zenon DEF updateAccountConfig, BeginUpdate, CloneLive, RejectUpdate
<1> SUFFICES CallOK(p)'
  BY <1>2, <1>3, CallsKept DEF Frame
<1>4. CASE BeginUpdate(p) \/ RejectUpdate(p)
  <2>1. pc'[p] \in {"lock_settings", "error"}
    BY Zenon, <1>4 DEF BeginUpdate, RejectUpdate, Goto, Base, Typed
  <2> QED BY <1>1, <2>1 DEF CallOK, Staging
<1>5. ASSUME NEW a \in Accounts, \E disable \in BOOLEAN : CloneLive(p, a, disable)
      PROVE  CallOK(p)'
  <2>0. local'[p].snapshot.disabled \subseteq r.snapshot.disabled \cup {a}
    BY <1>5, CloneLiveEffect DEF Base
  <2>1. /\ a \in r.snapshot.managed /\ r.snapshot.gen # 0
        /\ local'[p] \in Staged
        /\ local'[p].snapshot.store = r.snapshot.store /\ local'[p].snapshot.managed = r.snapshot.managed
        /\ local'[p].snapshot.quota = r.snapshot.quota
        /\ local'[p].settings \in SUBSET Accounts
    BY Zenon, <1>5, CloneLiveEffect DEF Base
  <2>2. Proper(local'[p].snapshot)
    BY <2>0, <2>1 DEF Base, Live, Proper
  <2>3. pc'[p] = "lock_pollers"
    BY <1>5 DEF CloneLive, Goto, Base, Typed
  <2> QED BY Zenon, <1>1, <1>3, <2>1, <2>2, <2>3 DEF CallOK, Staging
<1> QED BY <1>4, <1>5 DEF updateAccountConfig

(* A commit that does not publish keeps what calls know. *)
LEMMA CallsCommit ==
  ASSUME Base, [Next]_vars, NEW p \in Committers, commitSnapshotAfter(p), ~Publish(p)
  PROVE  Calls'
<1> USE CallerKinds
<1>1. p \notin Usage /\ p \notin Refreshers /\ p \notin Stoppers
  BY NamesAssumption
<1>2. Moved(p) /\ LocalKept(p)
  BY MovedCommitter, LocalCommitter DEF Base
<1>3. CASE LockSettings(p) \/ LockPollers(p) \/ LockPersist(p)
  <2>1. r' = r /\ open' = open /\ local' = local
    BY <1>3 DEF LockSettings, LockPollers, LockPersist
  <2>2. \/ pc[p] = "lock_settings" /\ pc'[p] = "load"
        \/ pc[p] = "lock_pollers" /\ pc'[p] = "lock_persist"
        \/ pc[p] = "lock_persist" /\ pc'[p] = "publish"
    BY <1>3 DEF LockSettings, LockPollers, LockPersist, Goto, Base, Typed
  <2>3. CallOK(p)
    BY DEF Base, Calls
  <2>4. CallOK(p)'
    BY Zenon, <1>1, <2>1, <2>2, <2>3 DEF CallOK, Opened, Staging
  <2> QED BY <1>2, <2>1, <2>4, CallsKept DEF Frame
<1>4. CASE AbortCommit(p)
  <2>1. r' = r /\ open' = open \ {p} /\ pc'[p] = "error"
    BY <1>4 DEF AbortCommit, Goto, Base, Typed
  <2>2. CallOK(p)'
    BY Zenon, <2>1, CallElsewhere DEF Opened, Staging, Stopping, After
  <2> QED BY Zenon, <1>2, <2>1, <2>2, CallsKept DEF Frame
<1>5. CASE Retire(p)
  <2>1. r' = r /\ pc'[p] \in {"ok", "error"} /\ pc[p] = "retire"
    BY <1>5 DEF Retire, Goto, Base, Typed
  <2>2. CallOK(p)'
    BY <2>1, CallElsewhere DEF Opened, Staging, Stopping, After
  <2>3. open' \subseteq open /\ (open \ {p, local[p].previous.store.handle} \subseteq open')
        /\ (local[p].previous.gen = 0 => open' = open)
    BY <1>5 DEF Retire
  <2>4. local[p].previous.gen # 0 => pc[local[p].previous.store.handle] \in {"ok", "error"}
    BY Zenon, <2>1 DEF Base, Calls, CallOK
  <2>5. \A q \in Callers \ {p} : pc[q] \in Opened => (q \in open => q \in open')
    BY <2>3, <2>4 DEF Opened, Staging
  <2> QED BY Zenon, <1>2, <2>1, <2>2, <2>3, <2>5, CallsKept DEF Frame
<1> QED BY <1>3, <1>4, <1>5 DEF commitSnapshotAfter

(* A publication keeps what calls know: settingsMu admits no other commit  *)
(* that has staged a snapshot.                                             *)
LEMMA CallsPublish ==
  ASSUME Base, [Next]_vars, NEW p \in Committers, Publish(p)
  PROVE  Calls'
<1> USE CallerKinds
<1> DEFINE same == SameStore(r.snapshot, local[p].snapshot)
<1>1. pc[p] = "publish" /\ pc'[p] = "retire" /\ ~r.stopped /\ p \in Callers
  BY DEF Publish, Goto, Base, Typed
<1>2. commitSnapshotAfter(p) /\ Typed /\ Calls /\ Live /\ Bounded /\ Locked
  BY DEF commitSnapshotAfter, Base
<1>3. Moved(p) /\ LocalKept(p)
  BY <1>2, MovedCommitter, LocalCommitter
<1>4. /\ local[p] \in Staged
      /\ r'.snapshot.gen = r.snapshot.gen + 1
      /\ same => r.snapshot.gen # 0 /\ r'.snapshot.store = r.snapshot.store /\ open' = open \ {p}
      /\ ~same => r'.snapshot.store.handle = p /\ open' = open
      /\ r.snapshot.gen # 0 => /\ r.snapshot.store \in Store
                               /\ pc'[r.snapshot.store.handle] \in {"ok", "error"}
  BY Zenon, <1>2, Published
<1>5. /\ local'[p] \in Staged /\ local'[p].previous = [gen |-> r.snapshot.gen, store |-> r.snapshot.store]
      /\ local'[p].previous \in Previous /\ r'.stopped = r.stopped
  BY Zenon, <1>1, <1>2, <1>4, NextGeneration, PublishEffect
<1>6. local'[p].previous.gen = r.snapshot.gen /\ local'[p].previous.store = r.snapshot.store
  BY <1>5
<1>7. CallOK(p)'
  <2>1. p \notin Usage /\ p \notin Refreshers /\ p \notin Stoppers
    BY NamesAssumption
  <2> HIDE DEF same
  <2> QED BY Zenon, <1>1, <1>4, <1>5, <1>6, <2>1 DEF CallOK, Opened, Staging
<1>8. ASSUME NEW q \in Callers, q # p
      PROVE  CallOK(q)'
  <2>1. CallOK(q) /\ pc'[q] = pc[q] /\ local'[q] = local[q] /\ (q \in open' <=> q \in open) /\ r'.stopped = r.stopped
    BY Zenon, <1>2, <1>3, <1>4, <1>5, <1>8 DEF Calls, Moved, LocalKept
  <2>2. q \in Committers => pc[q] \notin {"retire"} \cup Staging
    BY Zenon, <1>1, <1>2, <1>8 DEF Locked, Holds, Staging
  <2> QED BY Zenon, <2>1, <2>2 DEF CallOK
<1> QED BY <1>7, <1>8 DEF Calls

(* handleUsage keeps what calls know. *)
LEMMA CallsUsage ==
  ASSUME Base, [Next]_vars, NEW u \in Usage, handleUsage(u)
  PROVE  Calls'
<1> USE CallerKinds
<1>1. u \notin Committers /\ u \notin Refreshers /\ u \notin Stoppers /\ u \notin Reconfigurers /\ u \notin Updaters
  BY NamesAssumption DEF Committers
<1>2. Moved(u) /\ LocalKept(u) /\ Frame(r.snapshot, r'.snapshot)
  BY MovedUsage, LocalUsage, KeptUsage DEF Base, Kept
<1>3. open' = open /\ \A p \in Stoppers : ~BeginShutdown(p)
  <2>1. open' = open
    BY Zenon DEF handleUsage, LockUsage, DropUsage, ApplyUsage, WriteUsage
  <2>2. pc'[u] # pc[u]
    BY Zenon DEF handleUsage, LockUsage, DropUsage, ApplyUsage, WriteUsage, Goto, Base, Typed
  <2>3. ASSUME NEW p \in Stoppers, BeginShutdown(p)
        PROVE  pc'[u] = pc[u]
    BY <1>1, <2>3 DEF BeginShutdown, Goto, Base, Typed
  <2> QED BY <2>1, <2>2, <2>3
<1>4. r'.stopped = r.stopped
  BY <1>3, PhaseStep
<1>5. CallOK(u)'
  <2>1. ASSUME NEW a \in Accounts, ApplyUsage(u, a)
        PROVE  local'[u] \in Job
    BY Zenon, <2>1, ApplyUsageEffect DEF Base
  <2>2. CASE handleUsage(u) /\ ~ \E a \in Accounts : ApplyUsage(u, a)
    <3>1. pc'[u] \in {"apply", "ok", "error"}
      BY Zenon, <2>2 DEF handleUsage, LockUsage, DropUsage, WriteUsage, Goto, Base, Typed
    <3> QED BY Zenon, <1>1, <3>1 DEF CallOK
  <2> QED BY Zenon, <1>1, <2>1, <2>2 DEF CallOK
<1> QED BY Zenon, <1>2, <1>3, <1>4, <1>5, CallsKept

(* Workers keep what calls know. *)
LEMMA CallsPoll ==
  ASSUME Base, [Next]_vars, NEW w \in Workers, poll(w)
  PROVE  Calls'
<1>1. UNCHANGED pc /\ UNCHANGED local /\ Frame(r.snapshot, r'.snapshot)
  BY MovedOther, LocalOther, KeptPoll DEF Base, Kept
<1>2. open' = open
  BY Zenon DEF poll, StartPoll, StopPoller, DropAnswer, ApplyAnswer, LockPoll, WritePoll
<1>3. r'.stopped = r.stopped
  <2>1. ASSUME NEW p \in Stoppers, BeginShutdown(p)
        PROVE  pc'[p] # pc[p]
    BY <2>1, CallerKinds DEF BeginShutdown, Goto, Base, Typed
  <2> QED BY <1>1, <2>1, PhaseStep
<1>4. w \notin Callers /\ LocalKept(w)
  BY <1>1, NamesAssumption DEF LocalKept
<1> QED BY Zenon, <1>1, <1>2, <1>3, <1>4, CallsKept

(* forceRefresh keeps what calls know. *)
LEMMA CallsRefresh ==
  ASSUME Base, [Next]_vars, NEW p \in Refreshers, forceRefresh(p)
  PROVE  Calls'
<1> USE CallerKinds
<1>1. p \notin Committers /\ p \notin Usage /\ p \notin Stoppers /\ p \notin Reconfigurers /\ p \notin Updaters
  BY NamesAssumption DEF Committers
<1>2. (UNCHANGED pc \/ Moved(p)) /\ LocalKept(p) /\ Frame(r.snapshot, r'.snapshot)
  BY MovedRefresh, LocalRefresh, KeptRefresh DEF Base, Frame
<1>3. open' = open
  BY DEF forceRefresh, JoinRefresh, LeadRefresh, EndRefresh, FollowRefresh, HangUp
<1>4. r'.stopped = r.stopped
  <2>1. CASE JoinRefresh(p) \/ FollowRefresh(p) \/ HangUp(p)
    BY Zenon, <2>1 DEF JoinRefresh, FollowRefresh, HangUp
  <2> QED BY <2>1, RefreshEffect DEF forceRefresh, SamePhase, Base
<1>5. CallOK(p)'
  <2>1. CASE JoinRefresh(p)
    <3>1. local'[p] \in Refreshers
      BY <2>1 DEF JoinRefresh, Keep, Base, Typed, Runtime, Refresh
    <3> QED BY <1>1, <3>1 DEF CallOK
  <2>2. CASE ~JoinRefresh(p)
    <3>1. pc'[p] # "follow"
      BY <2>2 DEF forceRefresh, LeadRefresh, EndRefresh, FollowRefresh, HangUp, Goto, Base, Typed
    <3> QED BY Zenon, <1>1, <3>1 DEF CallOK
  <2> QED BY <2>1, <2>2
<1> QED BY <1>2, <1>3, <1>4, <1>5, CallsKept

(* shutdown keeps what calls know. *)
LEMMA CallsShutdown ==
  ASSUME Base, [Next]_vars, NEW p \in Stoppers, shutdown(p)
  PROVE  Calls'
<1> USE CallerKinds
<1>1. p \notin Committers /\ p \notin Usage /\ p \notin Refreshers /\ p \notin Reconfigurers /\ p \notin Updaters
  BY NamesAssumption DEF Committers
<1>2. Moved(p) /\ LocalKept(p) /\ Frame(r.snapshot, r'.snapshot)
  BY Zenon, MovedShutdown, LocalOther, KeptShutdown DEF Base, Frame, LocalKept
<1>3. open' \subseteq open /\ \A q \in Callers : pc[q] \in Opened => (q \in open => q \in open')
  <2>1. CASE FinishShutdown(p)
    <3>1. open' = IF r.snapshot.gen = 0 THEN open ELSE open \ {r.snapshot.store.handle}
      BY <2>1 DEF FinishShutdown
    <3>2. r.snapshot.gen # 0 => pc[r.snapshot.store.handle] \notin Opened
      BY DEF Base, Live, Opened, Staging
    <3> QED BY <3>1, <3>2
  <2> QED BY Zenon, <2>1 DEF shutdown, BeginShutdown, JoinShutdown, WaitGroup, LockFinal, FinalWrite, FollowShutdown
<1>4. ASSUME NEW q \in Callers, pc[q] = "retire", q \in Committers
      PROVE  r'.stopped = r.stopped
  <2>1. ASSUME NEW s \in Stoppers, BeginShutdown(s)
        PROVE  FALSE
    BY <1>4, <2>1, NamesAssumption DEF BeginShutdown, Base, Locked, Holds
  <2> QED BY <2>1, PhaseStep
<1>5. (r.stopped => r'.stopped) /\ (pc[p] \in Stopping => r.stopped)
  BY Zenon, PhaseStep DEF Base, Calls, CallOK
<1>6. CallOK(p)'
  <2>1. CASE BeginShutdown(p)
    BY Zenon, <1>1, <2>1, BeginShutdownEffect DEF CallOK, Base
  <2>2. CASE pc[p] \in Stopping
    BY Zenon, <1>1, <1>5, <2>2 DEF CallOK
  <2>3. CASE JoinShutdown(p) \/ FollowShutdown(p)
    <3>1. pc'[p] \in {"follow_shutdown", "ok", "error"}
      BY <2>3 DEF JoinShutdown, FollowShutdown, Goto, Base, Typed
    <3> QED BY <3>1, CallElsewhere DEF Opened, Staging, Stopping, After
  <2> QED BY Zenon, <2>1, <2>2, <2>3 DEF shutdown, WaitGroup, LockFinal, FinalWrite, FinishShutdown, Stopping
<1>7. \A q \in Callers \ Committers : CallOK(q)'
  <2> SUFFICES ASSUME NEW q \in Callers, q \notin Committers, q # p PROVE CallOK(q)'
    BY <1>6
  <2>1. CallOK(q) /\ pc'[q] = pc[q] /\ local'[q] = local[q] /\ q \notin Reconfigurers /\ q \notin Updaters
    BY Zenon, <1>2 DEF Base, Calls, Moved, LocalKept, Committers
  <2> QED BY Zenon, <1>5, <2>1 DEF CallOK
<1>8. ASSUME NEW q \in Committers
      PROVE  CallOK(q)'
  <2>1. q # p /\ q \in Callers
    BY <1>1
  <2>2. pc'[q] = pc[q] /\ local'[q] = local[q]
    BY <1>2, <2>1 DEF Moved, LocalKept
  <2>3. \A h \in Callers : pc[h] \in {"ok", "error"} => pc'[h] = pc[h]
    BY DoneStays DEF Base
  <2> QED BY Zenon, <1>2, <1>3, <1>4, <1>5, <2>1, <2>2, <2>3, OthersKept DEF Base
<1> QED BY <1>7, <1>8 DEF Calls

(* Every step keeps what calls know. *)
LEMMA CallsStep == Base /\ [Next]_vars => Calls'
<1> SUFFICES ASSUME Base, [Next]_vars PROVE Calls'
  OBVIOUS
<1> USE CallerKinds
<1>1. ASSUME NEW p \in Unblockers, NEW chosen \in SUBSET Accounts, unblock(p, chosen)
      PROVE  Calls'
  <2>1. Moved(p) /\ UNCHANGED local /\ Frame(r.snapshot, r'.snapshot) /\ r'.stopped = r.stopped
    BY Zenon, <1>1, MovedOther, LocalOther, UnblockEffect DEF SamePhase, Base
  <2>2. open' = open /\ pc'[p] = "ok"
    BY <1>1 DEF unblock, Goto, Base, Typed
  <2>3. CallOK(p)'
    BY <2>2, CallElsewhere DEF Opened, Staging, Stopping, After
  <2> QED BY Zenon, <2>1, <2>2, <2>3, CallsKept DEF LocalKept
<1>2. ASSUME NEW p \in Callers, Refuse(p)
      PROVE  Calls'
  <2>1. Moved(p) /\ UNCHANGED local /\ r' = r
    BY Zenon, <1>2, MovedOther, LocalOther DEF Base, Refuse
  <2>2. open' = open /\ pc'[p] = "error"
    BY Zenon, <1>2 DEF Refuse, Goto, Base, Typed
  <2>3. CallOK(p)'
    BY Zenon, <2>2, CallElsewhere DEF Opened, Staging, Stopping, After
  <2> QED BY Zenon, <2>1, <2>2, <2>3, CallsKept DEF LocalKept, Frame
<1>3. CASE UNCHANGED vars
  BY Zenon, <1>3 DEF vars, Base, Calls, CallOK
<1> QED
  BY Zenon, <1>1, <1>2, <1>3, CallsReconfigure, CallsUpdate, CallsCommit, CallsPublish, CallsUsage, CallsPoll,
     CallsRefresh, CallsShutdown DEF Next, Quiescent

-----------------------------------------------------------------------------
(* Base holds before the first call. *)
LEMMA BaseInit == Init => Base
<1> SUFFICES ASSUME Init PROVE Base
  OBVIOUS
<1> USE DEF Init
<1>1. Typed
  BY EmptyTypes, NumberTypes DEF Typed, Runtime, LockNames, PCs, NoQuota
<1>2. \A p \in Callers : pc[p] = "idle"
  OBVIOUS
<1>3. \A w \in Workers : work[w].pc = "none"
  BY Zenon DEF NoWork
<1>4. Calls
  BY Zenon, <1>2 DEF Calls, CallOK, Opened, Staging, Stopping, After, Committers, Callers
<1>5. Live
  BY DEF Live, Proper, NoSnapshot, NoQuota
<1>6. Working
  BY Zenon, <1>3 DEF Working
<1>7. Bounded
  <2>1. r.snapshot.gen = 0 /\ clock = 0
    BY Zenon DEF NoSnapshot
  <2> QED BY <2>1, CommittedCount, AskedCount, RuntimeAssumption DEF Bounded
<1>8. Locked
  BY Zenon, <1>2, <1>3, HoldsNothing DEF Locked
<1>9. Numbered
  BY Zenon, <1>2, <1>3, CallerKinds DEF Numbered
<1> QED BY <1>1, <1>4, <1>5, <1>6, <1>7, <1>8, <1>9 DEF Base

(* Base is inductive. *)
LEMMA BaseStep == Base /\ [Next]_vars => Base'
<1>1. Base /\ [Next]_vars => Locked'
  BY LockedStep DEF Base
<1> QED
  BY <1>1, TypedStep, CallsStep, LiveStep, WorkingStep, BoundedStep, NumberedStep DEF Base

(* The records of the runtime, the locks, the numbers of copies, the       *)
(* generations of workers and what every call knows at its program point   *)
(* are as Base says, for any number of calls, accounts and directories.    *)
THEOREM BaseAlways == Spec => []Base
BY BaseInit, BaseStep, PTL DEF Spec

-----------------------------------------------------------------------------
(* TypeOK is invariant for any callers, accounts and directories: the      *)
(* locks of pluginRuntime are held by calls that need them, only managed   *)
(* accounts have state, and the generation and the clock stay in range.    *)
THEOREM RuntimeTypes == Spec => []TypeOK
<1>1. Base => TypeOK
  <2> SUFFICES ASSUME Base PROVE TypeOK
    OBVIOUS
  <2>1. r.snapshot \in Snapshot /\ r \in Runtime
    BY DEF Base, Typed, Runtime
  <2>2. clock \in Stamps
    BY ClockBound DEF Base
  <2>3. \A w \in Workers : work[w].pc \in {"none", "ready", "fetch", "lock", "write", "reported"}
    BY DEF Base, Typed, Work, WorkPCs
  <2>4. DOMAIN lock = LockNames /\ \A name \in LockNames : lock[name] \in Callers \cup Workers \cup {None}
    BY DEF Base, Typed
  <2>5. r.snapshot.gen \in {0} \cup Generations /\ r.snapshot.quota \in [Accounts -> Account]
    BY <2>1 DEF Snapshot
  <2>6. /\ \A a \in Accounts \ r.snapshot.managed : r.snapshot.quota[a] = NoAccount
        /\ r.snapshot.disabled \subseteq r.snapshot.managed
        /\ r.snapshot.gen = 0 \/ r.snapshot.store \in Store
        /\ r.persisted <= r.persistNext
        /\ r.stopped <=> r.shutdownDone # "none"
    BY DEF Base, Live, Proper
  <2> QED BY <2>2, <2>3, <2>4, <2>5, <2>6 DEF TypeOK, Base, Typed
<1> QED BY <1>1, BaseAlways, PTL

-----------------------------------------------------------------------------
(* The published snapshot has the staged accounts and settings, and the carried-over state. *)
LEMMA PublishedQuota ==
  ASSUME Base, NEW p \in Committers, Publish(p)
  PROVE  LET same == SameStore(r.snapshot, local[p].snapshot) IN
         /\ r'.snapshot.managed = local[p].snapshot.managed
         /\ r'.snapshot.disabled = local[p].snapshot.disabled
         /\ \A a \in Accounts : r'.snapshot.quota[a] =
              IF same /\ a \in r.snapshot.managed \cap local[p].snapshot.managed
              THEN r.snapshot.quota[a] ELSE local[p].snapshot.quota[a]
<1>1. local[p] \in Staged
  BY Published DEF Base
<1>2. r'.snapshot = CarryForward(r.snapshot, local[p].snapshot) /\ r.snapshot.gen + 1 \in Generations
      /\ r.snapshot \in Snapshot /\ local[p].snapshot \in Snapshot
  BY Zenon, <1>1, NextGeneration, PublishEffect DEF Publish, Base, Typed, Runtime, Staged
<1> QED BY <1>2, CarryForwardType

(* An account that stays configured on its directory keeps its state when  *)
(* a snapshot is published.                                                *)
LEMMA CarriedOver ==
  ASSUME Base, NEW p \in Committers, Publish(p), NEW a \in r.snapshot.managed \cap r'.snapshot.managed,
         r'.snapshot.store.dir = r.snapshot.store.dir
  PROVE  r'.snapshot.quota[a] = r.snapshot.quota[a]
<1>1. r.snapshot.gen # 0 /\ a \in Accounts
  BY DEF Base, Live, Typed, Runtime, Snapshot
<1>2. SameStore(r.snapshot, local[p].snapshot)
  <2>1. ~SameStore(r.snapshot, local[p].snapshot) => r'.snapshot.store = local[p].snapshot.store
    BY Published DEF Base
  <2> QED BY <1>1, <2>1 DEF SameStore
<1> QED BY <1>1, <1>2, PublishedQuota

(* Only managed accounts are disabled. *)
LEMMA DisabledManaged == Base => r.snapshot.disabled \subseteq r.snapshot.managed
BY DEF Base, Live, Proper

(* commitSnapshotAfter, polls, usage and writes drop no usage of an        *)
(* account that stays configured, and a publication brings back no block.  *)
THEOREM LedgerMonotoneAlways == Spec => LedgerMonotone
<1>1. ASSUME Base, [Next]_vars
      PROVE  \A a \in r.snapshot.managed \cap r'.snapshot.managed :
               r'.snapshot.store.dir = r.snapshot.store.dir =>
                 /\ r.snapshot.quota[a].events \subseteq r'.snapshot.quota[a].events
                 /\ r'.snapshot.gen # r.snapshot.gen =>
                      r'.snapshot.quota[a].blocked = r.snapshot.quota[a].blocked
  <2> SUFFICES ASSUME NEW a \in r.snapshot.managed \cap r'.snapshot.managed,
                      r'.snapshot.store.dir = r.snapshot.store.dir
               PROVE  /\ r.snapshot.quota[a].events \subseteq r'.snapshot.quota[a].events
                      /\ r'.snapshot.gen # r.snapshot.gen =>
                           r'.snapshot.quota[a].blocked = r.snapshot.quota[a].blocked
    OBVIOUS
  <2>1. a \in Accounts
    BY <1>1 DEF Base, Typed, Runtime, Snapshot
  <2>2. CASE \A p \in Committers : ~Publish(p)
    BY <1>1, <2>1, <2>2, KeptStep DEF Base, Kept, Frame
  <2>3. ASSUME NEW p \in Committers, Publish(p)
        PROVE  r'.snapshot.quota[a] = r.snapshot.quota[a]
    BY <1>1, <2>3, CarriedOver
  <2> QED BY <2>2, <2>3
<1>2. Base /\ [Next]_vars =>
        [\A a \in r.snapshot.managed \cap r'.snapshot.managed :
               r'.snapshot.store.dir = r.snapshot.store.dir =>
                 /\ r.snapshot.quota[a].events \subseteq r'.snapshot.quota[a].events
                 /\ r'.snapshot.gen # r.snapshot.gen =>
                      r'.snapshot.quota[a].blocked = r.snapshot.quota[a].blocked]_vars
  BY <1>1
<1> QED BY <1>2, BaseAlways, PTL DEF Spec, LedgerMonotone

(* A poll launched before its account was disabled changes nothing after:  *)
(* pollOnce drops the answer for a superseded generation.                  *)
THEOREM DisabledNotPolledAlways == Spec => DisabledNotPolled
<1>1. ASSUME Base, [Next]_vars
      PROVE  \A a \in r.snapshot.disabled \cap r'.snapshot.disabled :
               r'.snapshot.store.dir = r.snapshot.store.dir =>
                 r'.snapshot.quota[a].auth = r.snapshot.quota[a].auth
  <2> SUFFICES ASSUME NEW a \in r.snapshot.disabled \cap r'.snapshot.disabled,
                      r'.snapshot.store.dir = r.snapshot.store.dir
               PROVE  r'.snapshot.quota[a].auth = r.snapshot.quota[a].auth
    OBVIOUS
  <2>1. a \in Accounts
    BY <1>1 DEF Base, Typed, Runtime, Snapshot
  <2>2. CASE \A p \in Committers : ~Publish(p)
    BY <1>1, <2>1, <2>2, KeptStep DEF Base, Kept
  <2>3. ASSUME NEW p \in Committers, Publish(p)
        PROVE  r'.snapshot.quota[a] = r.snapshot.quota[a]
    <3>1. a \in r.snapshot.managed
      BY <1>1, DisabledManaged
    <3>2. a \in r'.snapshot.managed
      <4>1. Base'
        BY <1>1, BaseStep
      <4> QED BY <4>1 DEF Base, Live, Proper
    <3> QED BY <1>1, <2>3, <3>1, <3>2, CarriedOver
  <2> QED BY <2>2, <2>3
<1>2. Base /\ [Next]_vars =>
        [\A a \in r.snapshot.disabled \cap r'.snapshot.disabled :
               r'.snapshot.store.dir = r.snapshot.store.dir =>
                 r'.snapshot.quota[a].auth = r.snapshot.quota[a].auth]_vars
  BY <1>1
<1> QED BY <1>2, BaseAlways, PTL DEF Spec, DisabledNotPolled

-----------------------------------------------------------------------------
(* A commit is moved by its own steps only. *)
LEMMA OwnStep ==
  ASSUME Typed, [Next]_vars, NEW q \in Committers
  PROVE  \/ pc'[q] = pc[q] /\ local'[q] = local[q]
         \/ q \in Reconfigurers /\ Reconfigure(q)
         \/ q \in Updaters /\ updateAccountConfig(q)
         \/ commitSnapshotAfter(q)
         \/ Refuse(q)
<1> USE CallerKinds
<1>1. ASSUME NEW p \in Committers, p # q, Reconfigure(p) \/ updateAccountConfig(p) \/ commitSnapshotAfter(p)
      PROVE  pc'[q] = pc[q] /\ local'[q] = local[q]
  BY <1>1, MovedCommitter, LocalCommitter DEF Moved, LocalKept
<1>2. ASSUME NEW u \in Usage, handleUsage(u)
      PROVE  pc'[q] = pc[q] /\ local'[q] = local[q]
  <2>1. u # q
    BY NamesAssumption
  <2> QED BY <1>2, <2>1, MovedUsage, LocalUsage DEF Moved, LocalKept
<1>3. ASSUME NEW p \in Refreshers, forceRefresh(p)
      PROVE  pc'[q] = pc[q] /\ local'[q] = local[q]
  <2>1. p # q
    BY NamesAssumption
  <2> QED BY <1>3, <2>1, MovedRefresh, LocalRefresh DEF Moved, LocalKept
<1>4. ASSUME NEW p \in Stoppers, shutdown(p)
      PROVE  pc'[q] = pc[q] /\ local'[q] = local[q]
  <2>1. p # q
    BY NamesAssumption
  <2> QED BY <1>4, <2>1, MovedShutdown, LocalOther DEF Moved
<1>5. ASSUME NEW p \in Unblockers, NEW chosen \in SUBSET Accounts, unblock(p, chosen)
      PROVE  pc'[q] = pc[q] /\ local'[q] = local[q]
  <2>1. p # q
    BY NamesAssumption
  <2> QED BY <1>5, <2>1, MovedOther, LocalOther DEF Moved
<1>6. ASSUME NEW p \in Callers, p # q, Refuse(p)
      PROVE  pc'[q] = pc[q] /\ local'[q] = local[q]
  BY <1>6, MovedOther, LocalOther DEF Moved
<1>7. CASE UNCHANGED vars
  BY <1>7 DEF vars
<1> QED
  BY Zenon, <1>1, <1>2, <1>3, <1>4, <1>5, <1>6, <1>7, MovedOther, LocalOther DEF Next, Quiescent

(* Only the commit itself ends the retirement of the previous snapshot. *)
LEMMA RetireStays ==
  ASSUME Typed, [Next]_vars, NEW q \in Committers, pc[q] = "retire", ~Retire(q)
  PROVE  pc'[q] = "retire" /\ local'[q] = local[q]
<1>1. ~Reconfigure(q) /\ ~updateAccountConfig(q) /\ ~Refuse(q)
  BY DEF Reconfigure, BeginReconfigure, RejectReconfigure, LoadStaged, updateAccountConfig, BeginUpdate, CloneLive,
     RejectUpdate, Refuse
<1>2. ~commitSnapshotAfter(q)
  BY DEF commitSnapshotAfter, LockSettings, LockPollers, LockPersist, AbortCommit, Publish
<1> QED BY Zenon, <1>1, <1>2, OwnStep

(* Only one commit is between publish and the end of retire. *)
LEMMA OneCommit ==
  ASSUME Locked, NEW p \in Committers, NEW q \in Committers,
         pc[p] \in {"load", "retire"} \cup Staging, pc[q] \in {"load", "retire"} \cup Staging
  PROVE  p = q
BY CallerKinds DEF Locked, Holds

(* The number of the snapshot that is being retired. *)
LEMMA RetireNumbers ==
  ASSUME Calls, NEW p \in Committers, pc[p] = "retire"
  PROVE  /\ local[p].previous.gen \in Nat /\ r.snapshot.gen \in Nat
         /\ r.snapshot.gen = local[p].previous.gen + 1 /\ r.snapshot.gen # 0
<1>1. local[p].previous \in Previous /\ r.snapshot.gen = local[p].previous.gen + 1
  BY Zenon, CallerKinds DEF Calls, CallOK
<1>2. local[p].previous.gen \in Nat
  <2>1. local[p].previous.gen \in {0} \cup Generations
    BY <1>1 DEF Previous
  <2> QED BY Zenon, <2>1, NumberTypes
<1> QED BY <1>1, <1>2

(* Only the start of a reconfigure opens a handle. *)
LEMMA OpenStep ==
  ASSUME Typed, [Next]_vars, NEW h \in open', h \notin open
  PROVE  h \in Reconfigurers /\ pc'[h] = "lock_settings"
<1>1. ASSUME NEW p \in Reconfigurers, Reconfigure(p)
      PROVE  h \in Reconfigurers /\ pc'[h] = "lock_settings"
  BY Zenon, <1>1, CallerKinds DEF Reconfigure, BeginReconfigure, RejectReconfigure, LoadStaged, Goto, Typed
<1>2. ASSUME NEW p \in Committers, updateAccountConfig(p)
      PROVE  FALSE
  BY Zenon, <1>2 DEF updateAccountConfig, BeginUpdate, CloneLive, RejectUpdate
<1>3. ASSUME NEW p \in Committers, commitSnapshotAfter(p)
      PROVE  FALSE
  <2>1. CASE Publish(p)
    BY <2>1 DEF Publish
  <2>2. CASE Retire(p)
    BY <2>2 DEF Retire
  <2> QED BY Zenon, <1>3, <2>1, <2>2 DEF commitSnapshotAfter, LockSettings, LockPollers, LockPersist, AbortCommit
<1>4. ASSUME NEW u \in Usage, handleUsage(u)
      PROVE  FALSE
  BY Zenon, <1>4 DEF handleUsage, LockUsage, DropUsage, ApplyUsage, WriteUsage
<1>5. ASSUME NEW w \in Workers, poll(w)
      PROVE  FALSE
  BY Zenon, <1>5 DEF poll, StartPoll, StopPoller, DropAnswer, ApplyAnswer, LockPoll, WritePoll
<1>6. ASSUME NEW p \in Refreshers, forceRefresh(p)
      PROVE  FALSE
  BY <1>6 DEF forceRefresh, JoinRefresh, LeadRefresh, EndRefresh, FollowRefresh, HangUp
<1>7. ASSUME NEW p \in Stoppers, shutdown(p)
      PROVE  FALSE
  BY Zenon, <1>7 DEF shutdown, BeginShutdown, JoinShutdown, WaitGroup, LockFinal, FinalWrite, FinishShutdown, FollowShutdown
<1>8. ASSUME NEW p \in Unblockers, NEW chosen \in SUBSET Accounts, unblock(p, chosen)
      PROVE  FALSE
  BY <1>8 DEF unblock
<1>9. ASSUME NEW p \in Callers, Refuse(p)
      PROVE  FALSE
  BY <1>9 DEF Refuse
<1>10. CASE UNCHANGED vars
  BY <1>10 DEF vars
<1> QED
  BY Zenon, <1>1, <1>2, <1>3, <1>4, <1>5, <1>6, <1>7, <1>8, <1>9, <1>10, CallerKinds DEF Next, Quiescent

(* Who closes a handle. *)
LEMMA OpenCloses ==
  ASSUME [Next]_vars, NEW h \in open, h \notin open'
  PROVE  \/ RejectReconfigure(h) \/ AbortCommit(h) \/ Publish(h)
         \/ \E p \in Committers : /\ Retire(p)
                                  /\ local[p].previous.gen # 0 /\ local[p].previous.store # r.snapshot.store
                                  /\ \/ h = local[p].previous.store.handle
                                     \/ "close" \in Faults /\ h = p
         \/ \E p \in Stoppers : FinishShutdown(p) /\ r.snapshot.gen # 0 /\ h = r.snapshot.store.handle
<1>1. ASSUME NEW p \in Committers, Reconfigure(p)
      PROVE  p = h /\ RejectReconfigure(p)
  BY Zenon, <1>1 DEF Reconfigure, BeginReconfigure, RejectReconfigure, LoadStaged
<1>2. ASSUME NEW p \in Committers, updateAccountConfig(p)
      PROVE  FALSE
  BY Zenon, <1>2 DEF updateAccountConfig, BeginUpdate, CloneLive, RejectUpdate
<1>3. ASSUME NEW p \in Committers, commitSnapshotAfter(p)
      PROVE  \/ p = h /\ (AbortCommit(h) \/ Publish(h))
             \/ /\ Retire(p)
                /\ local[p].previous.gen # 0 /\ local[p].previous.store # r.snapshot.store
                /\ \/ h = local[p].previous.store.handle
                   \/ "close" \in Faults /\ h = p
  <2>1. CASE Publish(p)
    BY Zenon, <2>1 DEF Publish
  <2>2. CASE Retire(p)
    BY <2>2 DEF Retire
  <2>3. CASE AbortCommit(p)
    BY Zenon, <2>3 DEF AbortCommit
  <2> QED BY Zenon, <1>3, <2>1, <2>2, <2>3 DEF commitSnapshotAfter, LockSettings, LockPollers, LockPersist
<1>4. ASSUME NEW u \in Usage, handleUsage(u)
      PROVE  FALSE
  BY Zenon, <1>4 DEF handleUsage, LockUsage, DropUsage, ApplyUsage, WriteUsage
<1>5. ASSUME NEW w \in Workers, poll(w)
      PROVE  FALSE
  BY Zenon, <1>5 DEF poll, StartPoll, StopPoller, DropAnswer, ApplyAnswer, LockPoll, WritePoll
<1>6. ASSUME NEW p \in Refreshers, forceRefresh(p)
      PROVE  FALSE
  BY <1>6 DEF forceRefresh, JoinRefresh, LeadRefresh, EndRefresh, FollowRefresh, HangUp
<1>7. ASSUME NEW p \in Stoppers, shutdown(p)
      PROVE  FinishShutdown(p) /\ r.snapshot.gen # 0 /\ h = r.snapshot.store.handle
  <2>1. ~BeginShutdown(p) /\ ~JoinShutdown(p) /\ ~WaitGroup(p) /\ ~LockFinal(p) /\ ~FinalWrite(p) /\ ~FollowShutdown(p)
    BY Zenon DEF BeginShutdown, JoinShutdown, WaitGroup, LockFinal, FinalWrite, FollowShutdown
  <2> QED BY Zenon, <1>7, <2>1 DEF shutdown, FinishShutdown
<1>8. ASSUME NEW p \in Unblockers, NEW chosen \in SUBSET Accounts, unblock(p, chosen)
      PROVE  FALSE
  BY <1>8 DEF unblock
<1>9. ASSUME NEW p \in Callers, Refuse(p)
      PROVE  FALSE
  BY <1>9 DEF Refuse
<1>10. CASE UNCHANGED vars
  BY <1>10 DEF vars
<1> QED
  BY Zenon, <1>1, <1>2, <1>3, <1>4, <1>5, <1>6, <1>7, <1>8, <1>9, <1>10, CallerKinds DEF Next, Quiescent

(* A commit stages its snapshot once, under settingsMu. *)
LEMMA StagingEntered ==
  ASSUME Typed, [Next]_vars, NEW q \in Committers, pc'[q] \in Staging
  PROVE  \/ pc[q] \in Staging /\ local'[q] = local[q]
         \/ q \in Reconfigurers /\ LoadStaged(q)
         \/ q \in Updaters /\ \E a \in Accounts : \E disable \in BOOLEAN : CloneLive(q, a, disable)
<1> USE CallerKinds DEF Staging
<1>1. CASE q \in Reconfigurers /\ Reconfigure(q)
  BY Zenon, <1>1 DEF Reconfigure, BeginReconfigure, RejectReconfigure, Goto, Typed
<1>2. CASE q \in Updaters /\ updateAccountConfig(q)
  BY Zenon, <1>2 DEF updateAccountConfig, BeginUpdate, RejectUpdate, Goto, Typed
<1>3. ~Refuse(q)
  BY Zenon DEF Refuse, Goto, Typed
<1>4. CASE commitSnapshotAfter(q)
  <2>1. ~Retire(q) /\ ~Publish(q)
    BY Zenon DEF Retire, Publish, Goto, Typed
  <2> QED BY Zenon, <1>4, <2>1 DEF commitSnapshotAfter, LockSettings, LockPollers, LockPersist, AbortCommit, Goto, Typed
<1> QED BY <1>1, <1>2, <1>3, <1>4, OwnStep

-----------------------------------------------------------------------------
(* Store handles. *)

(* NoHandleLeak, with the handle of a previous snapshot only if there was  *)
(* one.                                                                    *)
HandlesKept ==
  \A h \in open :
    \/ r.snapshot.gen # 0 /\ r.snapshot.store.handle = h
    \/ h \in Busy("reconfigures")
    \/ \E p \in Committers :
         pc[p] = "retire" /\ local[p].previous.gen # 0 /\ local[p].previous.store.handle = h

(* An open handle is live, opened by a reconfigure in progress or about to *)
(* be retired; every step keeps that so.                                   *)
LEMMA HandlesStep == Base /\ HandlesKept /\ [Next]_vars => HandlesKept'
<1> SUFFICES ASSUME Base, HandlesKept, [Next]_vars, NEW h \in open'
             PROVE  \/ r'.snapshot.gen # 0 /\ r'.snapshot.store.handle = h
                    \/ h \in Reconfigurers /\ pc'[h] \notin {"idle", "ok", "error"}
                    \/ \E p \in Committers : pc'[p] = "retire" /\ local'[p].previous.gen # 0
                                             /\ local'[p].previous.store.handle = h
  BY DEF HandlesKept, Busy
<1> USE CallerKinds
<1>0. Typed /\ Calls /\ Live /\ Working /\ Bounded /\ Locked
  BY DEF Base
<1>1. CASE h \notin open
  BY Zenon, <1>0, <1>1, OpenStep
<1>2. ASSUME r.snapshot.gen # 0, r.snapshot.store.handle = h
      PROVE  \/ r'.snapshot.gen # 0 /\ r'.snapshot.store.handle = h
             \/ \E p \in Committers : pc'[p] = "retire" /\ local'[p].previous.gen # 0
                                      /\ local'[p].previous.store.handle = h
  <2>1. CASE \A p \in Committers : ~Publish(p)
    BY <1>0, <1>2, <2>1, KeptStep DEF Kept, Frame
  <2>2. ASSUME NEW p \in Committers, Publish(p)
        PROVE  \/ r'.snapshot.gen # 0 /\ r'.snapshot.store.handle = h
               \/ pc'[p] = "retire" /\ local'[p].previous.gen # 0 /\ local'[p].previous.store.handle = h
    <3>1. pc'[p] = "retire" /\ pc[p] = "publish"
      BY <1>0, <2>2 DEF Publish, Goto, Typed
    <3>2. local[p] \in Staged /\ r.snapshot.gen + 1 \in Generations
      BY <1>0, <2>2, <3>1, Published, NextGeneration
    <3>3. local'[p].previous = [gen |-> r.snapshot.gen, store |-> r.snapshot.store]
      BY <1>0, <2>2, <3>2, PublishEffect
    <3> QED BY <1>2, <3>1, <3>3
  <2> QED BY <2>1, <2>2
<1>3. ASSUME h \in open, h \in Reconfigurers, pc[h] \notin {"idle", "ok", "error"}
      PROVE  \/ r'.snapshot.gen # 0 /\ r'.snapshot.store.handle = h
             \/ pc'[h] \notin {"idle", "ok", "error"}
  <2>1. CASE Retire(h)
    <3>1. r.snapshot.store.handle = h /\ r.snapshot.gen # 0
      <4>1. pc[h] = "retire" /\ h \in Committers
        BY <1>3, <2>1 DEF Retire
      <4>2. r.snapshot.store.handle = h /\ r.snapshot.gen = local[h].previous.gen + 1 /\ local[h].previous \in Previous
        BY <1>0, <1>3, <4>1 DEF Calls, CallOK
      <4> QED BY <1>0, <4>1, <4>2, RetireNumbers
    <3> QED BY <2>1, <3>1 DEF Retire
  <2>2. CASE pc'[h] = pc[h]
    BY <1>3, <2>2
  <2>3. CASE Reconfigure(h)
    <3>1. ~RejectReconfigure(h)
      BY DEF RejectReconfigure
    <3> QED BY Zenon, <1>0, <1>3, <2>3, <3>1 DEF Reconfigure, BeginReconfigure, LoadStaged, Goto, Typed
  <2>4. CASE commitSnapshotAfter(h) /\ ~Retire(h)
    <3>1. ~AbortCommit(h)
      BY Zenon DEF AbortCommit
    <3> QED BY Zenon, <1>0, <1>3, <2>4, <3>1 DEF commitSnapshotAfter, LockSettings, LockPollers, LockPersist, Publish, Goto, Typed
  <2>5. ~Refuse(h) /\ h \notin Updaters
    BY <1>3, NamesAssumption DEF Refuse
  <2> QED BY Zenon, <1>0, <1>3, <2>1, <2>2, <2>3, <2>4, <2>5, OwnStep
<1>4. ASSUME NEW q \in Committers, pc[q] = "retire", local[q].previous.gen # 0, local[q].previous.store.handle = h
      PROVE  \/ r'.snapshot.gen # 0 /\ r'.snapshot.store.handle = h
             \/ pc'[q] = "retire" /\ local'[q].previous.gen # 0 /\ local'[q].previous.store.handle = h
  <2>1. CASE ~Retire(q)
    BY <1>0, <1>4, <2>1, RetireStays
  <2>2. CASE Retire(q)
    <3>1. r' = r /\ local[q].previous.store = r.snapshot.store
      BY <1>4, <2>2 DEF Retire
    <3>2. r.snapshot.gen # 0
      BY <1>0, <1>4, RetireNumbers
    <3> QED BY <1>4, <3>1, <3>2
  <2> QED BY <2>1, <2>2
<1>5. h \in open => \/ r.snapshot.gen # 0 /\ r.snapshot.store.handle = h
                    \/ h \in Reconfigurers /\ pc[h] \notin {"idle", "ok", "error"}
                    \/ \E p \in Committers : pc[p] = "retire" /\ local[p].previous.gen # 0
                                             /\ local[p].previous.store.handle = h
  BY DEF HandlesKept, Busy
<1> QED BY Zenon, <1>1, <1>2, <1>3, <1>4, <1>5

(* HandlesKept is invariant. *)
LEMMA HandlesAlways == Spec => []HandlesKept
<1>1. Init => HandlesKept
  BY DEF Init, HandlesKept
<1> QED BY <1>1, HandlesStep, BaseAlways, PTL DEF Spec

(* No store handle outlives its use, whatever reconfigures fail, abort or  *)
(* are superseded, for any number of them.                                 *)
THEOREM NoHandleLeakAlways == Spec => []NoHandleLeak
<1>1. HandlesKept => NoHandleLeak
  BY DEF HandlesKept, NoHandleLeak, Configured
<1> QED BY <1>1, HandlesAlways, PTL

(* If closing a superseded store does not fail, the live store handle      *)
(* stays open until shutdown closes it.                                    *)
THEOREM LiveHandleOpenAlways ==
  ASSUME "close" \notin Faults
  PROVE  Spec => []LiveHandleOpen
<1>1. Init => LiveHandleOpen
  <2>1. Init => r.snapshot = NoSnapshot
    BY DEF Init
  <2>2. NoSnapshot.gen = 0
    BY DEF NoSnapshot
  <2> QED BY Zenon, <2>1, <2>2 DEF LiveHandleOpen, Configured
<1>2. Base /\ LiveHandleOpen /\ [Next]_vars => LiveHandleOpen'
  <2> SUFFICES ASSUME Base, LiveHandleOpen, [Next]_vars, r'.snapshot.gen # 0, r'.shutdownDone # "closed"
               PROVE  r'.snapshot.store.handle \in open'
    BY DEF LiveHandleOpen, Configured
  <2> USE CallerKinds
  <2>0. Typed /\ Calls /\ Live /\ Working /\ Bounded /\ Locked
    BY DEF Base
  <2> DEFINE h == r.snapshot.store.handle
  <2>1. ASSUME NEW p \in Committers, Publish(p)
        PROVE  r'.snapshot.store.handle \in open'
    <3> DEFINE same == SameStore(r.snapshot, local[p].snapshot)
    <3>1. /\ same => r.snapshot.gen # 0 /\ r'.snapshot.store = r.snapshot.store /\ open' = open \ {p}
          /\ ~same => p \in Reconfigurers /\ r'.snapshot.store.handle = p /\ open' = open
          /\ r.snapshot.gen # 0 => r.snapshot.store.handle # p
      BY Zenon, <2>0, <2>1, Published
    <3>2. pc[p] = "publish" /\ r.shutdownDone # "closed"
      BY <2>0, <2>1 DEF Publish, Live
    <3>3. p \in Reconfigurers => p \in open
      BY Zenon, <2>0, <3>2 DEF Calls, CallOK, Opened, Staging
    <3> HIDE DEF same
    <3> QED BY <3>1, <3>2, <3>3 DEF LiveHandleOpen, Configured
  <2>2. CASE \A p \in Committers : ~Publish(p)
    <3>1. r.snapshot.gen # 0 /\ r'.snapshot.store.handle = h
      BY Zenon, <2>0, <2>2, KeptStep DEF Kept, Frame
    <3>2. h \in Callers /\ h \in Committers /\ pc[h] \in {"retire", "ok", "error"}
      BY <2>0, <3>1 DEF Live, Store
    <3>3. CASE r.shutdownDone = "closed"
      <4>1. r'.shutdownDone = "closed"
        BY <3>3, PhaseStep
      <4> QED BY <4>1
    <3>4. CASE r.shutdownDone # "closed"
      <4>1. h \in open
        BY <3>1, <3>4 DEF LiveHandleOpen, Configured
      <4>2. ASSUME NEW p \in Committers, Retire(p), local[p].previous.gen # 0,
                   local[p].previous.store # r.snapshot.store
            PROVE  local[p].previous.store.handle # h
        <5>1. pc[p] = "retire"
          BY <4>2 DEF Retire
        <5>2. h = p /\ pc[local[p].previous.store.handle] \in {"ok", "error"}
          BY Zenon, <2>0, <4>2, <5>1 DEF Calls, CallOK
        <5> QED BY <5>1, <5>2
      <4>3. ~RejectReconfigure(h) /\ ~AbortCommit(h) /\ ~Publish(h)
        BY Zenon, <3>2, <2>2 DEF RejectReconfigure, AbortCommit
      <4>4. \A p \in Stoppers : ~FinishShutdown(p)
        BY <2>0, FinishShutdownEffect
      <4> QED BY Zenon, <3>1, <4>1, <4>2, <4>3, <4>4, OpenCloses
    <3> QED BY Zenon, <3>3, <3>4
  <2> QED BY <2>1, <2>2
<1> QED BY <1>1, <1>2, BaseAlways, PTL DEF Spec
=============================================================================
