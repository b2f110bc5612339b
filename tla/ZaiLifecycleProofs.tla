------------------------- MODULE ZaiLifecycleProofs -------------------------
(***************************************************************************)
(* The pollers, the coalesced refreshes, the published settings and the    *)
(* shutdown of ZaiRuntime.                                                 *)
(***************************************************************************)
EXTENDS ZaiRuntimeProofs

-----------------------------------------------------------------------------
(* Pollers. *)

(* A commit comes to retire by publishing. *)
LEMMA RetireEntered ==
  ASSUME Typed, [Next]_vars, NEW q \in Committers, pc'[q] = "retire", ~Publish(q)
  PROVE  pc[q] = "retire" /\ local'[q] = local[q]
<1> USE CallerKinds
<1>1. ~Reconfigure(q) /\ ~updateAccountConfig(q) /\ ~Refuse(q)
  BY Zenon DEF Reconfigure, BeginReconfigure, RejectReconfigure, LoadStaged, updateAccountConfig, BeginUpdate, CloneLive,
     RejectUpdate, Refuse, Goto, Typed
<1>2. ~commitSnapshotAfter(q)
  <2>1. ~Retire(q)
    BY DEF Retire, Goto, Typed
  <2> QED BY Zenon, <2>1 DEF commitSnapshotAfter, LockSettings, LockPollers, LockPersist, AbortCommit, Goto, Typed
<1> QED BY <1>1, <1>2, OwnStep

(* Who cancels pollers, and what the runtime remembers of it and of a     *)
(* running refresh.                                                        *)
LEMMA CancelStep ==
  ASSUME Base, [Next]_vars
  PROVE  \/ r'.cancel = r.cancel /\ cancelled' = cancelled /\ r'.refresh = r.refresh
         \/ \E p \in Refreshers : (LeadRefresh(p) \/ EndRefresh(p)) /\ r'.cancel = r.cancel /\ cancelled' = cancelled
         \/ \E p \in Committers : Publish(p) /\ r'.cancel = r'.snapshot.gen /\ cancelled' = cancelled
         \/ \E p \in Committers : Retire(p)
         \/ \E p \in Refreshers : r' = r /\ cancelled' = cancelled \cup {p}
         \/ \E p \in Stoppers : BeginShutdown(p)
<1> DEFINE Same == r'.cancel = r.cancel /\ cancelled' = cancelled /\ r'.refresh = r.refresh
<1> USE DEF Base
<1>1. ASSUME NEW p \in Committers, Reconfigure(p) \/ updateAccountConfig(p) \/ commitSnapshotAfter(p),
             ~Publish(p), ~Retire(p)
      PROVE  Same
  <2>1. CASE RejectReconfigure(p)
    BY <2>1, RejectEffect DEF RejectReconfigure, SamePhase
  <2>2. CASE Reconfigure(p) /\ ~RejectReconfigure(p)
    BY Zenon, <2>2 DEF Reconfigure, BeginReconfigure, LoadStaged
  <2>3. CASE updateAccountConfig(p)
    BY Zenon, <2>3 DEF updateAccountConfig, BeginUpdate, CloneLive, RejectUpdate
  <2>4. CASE commitSnapshotAfter(p)
    BY Zenon, <1>1, <2>4 DEF commitSnapshotAfter, LockSettings, LockPollers, LockPersist, AbortCommit
  <2> QED BY Zenon, <1>1, <2>1, <2>2, <2>3, <2>4
<1>2. ASSUME NEW p \in Committers, Publish(p)
      PROVE  r'.cancel = r'.snapshot.gen /\ cancelled' = cancelled
  <2>1. local[p] \in Staged /\ r.snapshot.gen + 1 \in Generations
    BY Zenon, <1>2, Published, NextGeneration DEF Publish
  <2> QED BY Zenon, <1>2, <2>1, PublishEffect DEF Publish
<1>3. ASSUME NEW u \in Usage, handleUsage(u)
      PROVE  Same
  <2>1. CASE LockUsage(u) \/ DropUsage(u)
    BY <2>1 DEF LockUsage, DropUsage
  <2>2. ASSUME NEW a \in Accounts, ApplyUsage(u, a)
        PROVE  Same
    BY Zenon, <2>2, ApplyUsageEffect DEF SamePhase, ApplyUsage
  <2>3. CASE WriteUsage(u)
    <3>1. local[u] \in Job
      BY <2>3, CallerKinds DEF WriteUsage, Calls, CallOK
    <3> QED BY Zenon, <2>3, <3>1, PersistEffect DEF WriteUsage, SamePhase
  <2> QED BY <1>3, <2>1, <2>2, <2>3 DEF handleUsage
<1>4. ASSUME NEW w \in Workers, poll(w)
      PROVE  Same
  <2>1. CASE StartPoll(w) \/ StopPoller(w) \/ DropAnswer(w) \/ LockPoll(w)
    BY Zenon, <2>1 DEF StartPoll, StopPoller, DropAnswer, LockPoll
  <2>2. ASSUME NEW ok \in BOOLEAN, ApplyAnswer(w, ok)
        PROVE  Same
    BY Zenon, <2>2, ApplyAnswerEffect DEF SamePhase, ApplyAnswer
  <2>3. CASE WritePoll(w)
    <3>1. work[w].job \in Job
      BY <2>3 DEF WritePoll, Working
    <3> QED BY <2>3, <3>1, PersistEffect DEF WritePoll, SamePhase
  <2> QED BY <1>4, <2>1, <2>2, <2>3 DEF poll
<1>5. ASSUME NEW p \in Refreshers, forceRefresh(p)
      PROVE  \/ Same
             \/ (LeadRefresh(p) \/ EndRefresh(p)) /\ r'.cancel = r.cancel /\ cancelled' = cancelled
             \/ r' = r /\ cancelled' = cancelled \cup {p}
  <2>1. CASE JoinRefresh(p) \/ FollowRefresh(p) \/ HangUp(p)
    BY <2>1 DEF JoinRefresh, FollowRefresh, HangUp
  <2>2. CASE LeadRefresh(p) \/ EndRefresh(p)
    BY <2>2, RefreshEffect DEF SamePhase, LeadRefresh, EndRefresh
  <2> QED BY <1>5, <2>1, <2>2 DEF forceRefresh
<1>6. ASSUME NEW p \in Stoppers, shutdown(p), ~BeginShutdown(p)
      PROVE  Same
  <2>1. CASE JoinShutdown(p) \/ WaitGroup(p) \/ LockFinal(p) \/ FollowShutdown(p)
    BY <2>1 DEF JoinShutdown, WaitGroup, LockFinal, FollowShutdown
  <2>2. CASE FinalWrite(p)
    BY Zenon, <2>2, FinalWriteEffect DEF FinalWrite
  <2>3. CASE FinishShutdown(p)
    BY Zenon, <2>3, FinishShutdownEffect DEF FinishShutdown
  <2> QED BY <1>6, <2>1, <2>2, <2>3 DEF shutdown
<1>7. ASSUME NEW p \in Unblockers, NEW chosen \in SUBSET Accounts, unblock(p, chosen)
      PROVE  Same
  BY Zenon, <1>7, UnblockEffect DEF SamePhase, unblock
<1>8. ASSUME NEW p \in Callers, Refuse(p)
      PROVE  Same
  BY <1>8 DEF Refuse
<1>9. CASE UNCHANGED vars
  BY <1>9 DEF vars
<1> HIDE DEF Base
<1> QED
  BY Zenon, <1>1, <1>2, <1>3, <1>4, <1>5, <1>6, <1>7, <1>8, <1>9, CallerKinds DEF Next, Quiescent

(* A poller is started by retire and stops when it is told to, or finds    *)
(* its generation superseded.                                              *)
LEMMA PollerStep ==
  ASSUME Base, [Next]_vars, NEW w \in Workers, w.kind = "poller", \A p \in Committers : ~Retire(p)
  PROVE  /\ work'[w].pc # "none" => work[w].pc # "none"
         /\ work[w].pc # "none" /\ work'[w].pc = "none" =>
              w.by \in cancelled \/ r.stopped \/ r.snapshot.gen # w.by
<1> USE DEF Base
<1>0. work[w] \in Work
  BY DEF Typed
<1>1. ASSUME NEW p \in Refreshers, forceRefresh(p)
      PROVE  work'[w] = work[w]
  <2>1. CASE LeadRefresh(p)
    BY <2>1 DEF LeadRefresh
  <2>2. CASE EndRefresh(p)
    BY <2>2 DEF EndRefresh, Team
  <2>3. CASE JoinRefresh(p) \/ FollowRefresh(p) \/ HangUp(p)
    BY Zenon, <2>3 DEF JoinRefresh, FollowRefresh, HangUp
  <2> QED BY Zenon, <1>1, <2>1, <2>2, <2>3 DEF forceRefresh
<1>2. CASE poll(w)
  <2>1. CASE StartPoll(w)
    BY <1>0, <2>1 DEF StartPoll, Step, Typed, Work
  <2>5. CASE LockPoll(w)
    BY <1>0, <2>5 DEF LockPoll, Step, Typed, Work
  <2>6. ASSUME NEW ok \in BOOLEAN, ApplyAnswer(w, ok)
        PROVE  work[w].pc # "none" /\ work'[w].pc # "none"
    BY Zenon, <2>6, ApplyAnswerEffect DEF ApplyAnswer
  <2>2. CASE StopPoller(w)
    BY <2>2 DEF StopPoller, Cancelled, Step, Typed, NoWork
  <2>3. CASE DropAnswer(w)
    BY Zenon, <2>3 DEF DropAnswer, Cancelled, Superseded, Working
  <2>4. CASE WritePoll(w)
    <3>1. work[w].pc = "write" /\ \E ok \in BOOLEAN : work'[w] = Returned(w, ok, FALSE)
      BY Zenon, <1>0, <2>4 DEF WritePoll, Step, Typed, Work
    <3> QED BY Zenon, <3>1, ReturnedType
  <2> QED BY <1>2, <2>1, <2>2, <2>3, <2>4, <2>5, <2>6 DEF poll
<1>3. ASSUME NEW v \in Workers, poll(v), v # w
      PROVE  work'[w] = work[w]
  BY <1>3, OtherWorkers
<1>4. CASE UNCHANGED vars
  BY <1>4 DEF vars
<1> HIDE DEF Base
<1> QED BY <1>1, <1>2, <1>3, <1>4, CallerKinds, WorkUnchanged DEF Next, Quiescent

(* No commit has published and has yet to retire the snapshot before. *)
Retired == \A p \in Committers : pc[p] # "retire"

(* PollersMatchSnapshot where it can be said without the lock, and what    *)
(* the commit in progress still has to cancel.                             *)
Polling ==
  /\ cancelled \cap Generations \subseteq 1..r.snapshot.gen
  /\ r.cancel = IF r.stopped THEN 0 ELSE r.snapshot.gen
  /\ ~r.stopped /\ r.snapshot.gen # 0 => r.snapshot.gen \notin cancelled
  /\ Retired /\ ~r.stopped /\ r.snapshot.gen # 0 =>
       /\ \A a \in Enabled(r.snapshot) :
            work[[kind |-> "poller", by |-> r.snapshot.gen, account |-> a]].pc # "none"
       /\ \A w \in Workers : w.kind = "poller" /\ work[w].pc # "none" =>
            w.by = r.snapshot.gen \/ w.by \in cancelled
  /\ \A p \in Committers : pc[p] = "retire" =>
       \A w \in Workers : w.kind = "poller" /\ work[w].pc # "none" =>
         w.by = local[p].previous.gen \/ w.by \in cancelled

(* Every enabled account has a poller of the live generation. *)
LEMMA PollerOf ==
  ASSUME Typed, r.snapshot.gen # 0, NEW a \in Enabled(r.snapshot)
  PROVE  LET w == [kind |-> "poller", by |-> r.snapshot.gen, account |-> a] IN
         w \in Workers /\ w.kind = "poller" /\ w.by = r.snapshot.gen
<1>1. r.snapshot.gen \in Generations /\ a \in Accounts
  BY DEF Typed, Runtime, Snapshot, Enabled
<1> QED BY <1>1 DEF Workers

(* A poller belongs to a generation. *)
LEMMA PollerGeneration == \A w \in Workers : w.kind = "poller" => w.by \in Generations /\ w.by # 0
BY NumberTypes DEF Workers

(* A publication keeps Polling: the generation before it is about to be    *)
(* retired.                                                                *)
LEMMA PollingPublish ==
  ASSUME Base, Polling, [Next]_vars, NEW p \in Committers, Publish(p)
  PROVE  Polling'
<1>0. Typed /\ Calls /\ Live /\ Working /\ Bounded /\ Locked
  BY DEF Base
<1>1. pc[p] = "publish" /\ ~r.stopped /\ work' = work /\ cancelled' = cancelled /\ p \in Callers
  BY CallerKinds DEF Publish
<1>2. pc'[p] = "retire" /\ \A q \in Callers \ {p} : pc'[q] = pc[q]
  BY <1>0, CallerKinds DEF Publish, Goto, Typed
<1>3. Retired
  BY <1>0, <1>1, OneCommit DEF Retired, Staging
<1>4. \A q \in Committers : pc'[q] = "retire" => q = p
  BY <1>2, <1>3, CallerKinds DEF Retired
<1>5. local[p] \in Staged /\ r.snapshot.gen + 1 \in Generations /\ r'.snapshot.gen = r.snapshot.gen + 1
  BY <1>0, <1>1, Published, NextGeneration
<1>6. r'.stopped = r.stopped /\ r'.cancel = r'.snapshot.gen /\ local'[p].previous.gen = r.snapshot.gen
  <2>1. r'.stopped = r.stopped /\ r'.cancel = CarryForward(r.snapshot, local[p].snapshot).gen
        /\ r'.snapshot = CarryForward(r.snapshot, local[p].snapshot)
        /\ local'[p].previous = [gen |-> r.snapshot.gen, store |-> r.snapshot.store]
    BY <1>0, <1>5, PublishEffect
  <2> QED BY <2>1
<1>7. r.snapshot.gen \in Nat
  <2>1. r.snapshot.gen \in {0} \cup Generations
    BY <1>0 DEF Typed, Runtime, Snapshot
  <2> QED BY Zenon, <2>1, NumberTypes
<1>8. cancelled \cap Generations \subseteq 1..r.snapshot.gen
  BY DEF Polling
<1>9. cancelled' \cap Generations \subseteq 1..r'.snapshot.gen /\ r'.snapshot.gen \notin cancelled'
  BY <1>1, <1>5, <1>7, <1>8
<1>10. ASSUME NEW w \in Workers, w.kind = "poller", work[w].pc # "none"
       PROVE  w.by = r.snapshot.gen \/ w.by \in cancelled
  <2>1. CASE r.snapshot.gen = 0
    <3>1. work[w].gen \in 1..0
      BY <1>0, <1>10, <2>1 DEF Working
    <3> QED BY <3>1
  <2>2. CASE r.snapshot.gen # 0
    BY <1>1, <1>3, <1>10, <2>2 DEF Polling
  <2> QED BY <2>1, <2>2
<1> QED BY <1>1, <1>2, <1>4, <1>6, <1>9, <1>10 DEF Polling, Retired

(* Retire keeps Polling: it cancels the pollers of the generation before   *)
(* and starts those of the live one.                                       *)
LEMMA PollingRetire ==
  ASSUME Base, Polling, [Next]_vars, NEW p \in Committers, Retire(p)
  PROVE  Polling'
<1>0. Typed /\ Calls /\ Live /\ Working /\ Bounded /\ Locked
  BY DEF Base
<1> DEFINE g == local[p].previous.gen
<1>1. pc[p] = "retire" /\ r' = r /\ cancelled' = cancelled \cup ({g} \ {0}) /\ p \in Callers
  BY CallerKinds DEF Retire
<1>2. pc'[p] # "retire" /\ \A q \in Callers \ {p} : pc'[q] = pc[q]
  BY <1>0, CallerKinds DEF Retire, Goto, Typed
<1>3. \A q \in Committers : pc'[q] # "retire"
  BY <1>0, <1>1, <1>2, OneCommit, CallerKinds
<1>4. g \in Nat /\ r.snapshot.gen \in Nat /\ r.snapshot.gen = g + 1 /\ r.snapshot.gen # 0
  BY <1>0, <1>1, RetireNumbers
<1>5. ~r.stopped
  BY Zenon, <1>0, <1>1 DEF Calls, CallOK
<1>6. cancelled \cap Generations \subseteq 1..r.snapshot.gen /\ r.snapshot.gen \notin cancelled /\ r.cancel = r.snapshot.gen
  BY Zenon, <1>4, <1>5 DEF Polling
<1>7. cancelled' \cap Generations \subseteq 1..r.snapshot.gen /\ r.snapshot.gen \notin cancelled'
  <2>1. g # 0 => g \in 1..r.snapshot.gen
    BY <1>4
  <2>2. r.snapshot.gen # g
    BY <1>4
  <2> QED BY <1>1, <1>6, <2>1, <2>2
<1> DEFINE started == [kind : {"poller"}, by : {r.snapshot.gen}, account : Enabled(r.snapshot)]
<1>8. \A w \in Workers : IF w \in started THEN work'[w].pc = "ready" ELSE work'[w] = work[w]
  BY DEF Retire, NoWork
<1>9. ASSUME NEW a \in Enabled(r.snapshot)
      PROVE  work'[[kind |-> "poller", by |-> r.snapshot.gen, account |-> a]].pc # "none"
  BY <1>0, <1>4, <1>8, PollerOf
<1>10. ASSUME NEW w \in Workers, w.kind = "poller", work'[w].pc # "none"
       PROVE  w.by = r.snapshot.gen \/ w.by \in cancelled'
  <2>1. CASE w \in started
    BY <2>1
  <2>2. CASE w \notin started
    <3>1. w.by = g \/ w.by \in cancelled
      BY <1>1, <1>8, <1>10, <2>2 DEF Polling
    <3> QED BY <1>1, <1>10, <3>1, PollerGeneration
  <2> QED BY <2>1, <2>2
<1> HIDE DEF g, started
<1> QED BY Zenon, <1>1, <1>3, <1>5, <1>6, <1>7, <1>9, <1>10 DEF Polling, Retired

(* Every other step keeps Polling. *)
LEMMA PollingKept ==
  ASSUME Base, Polling, [Next]_vars, \A p \in Committers : ~Publish(p) /\ ~Retire(p)
  PROVE  Polling'
<1>0. Typed /\ Calls /\ Live /\ Working /\ Bounded /\ Locked
  BY DEF Base
<1>1. Frame(r.snapshot, r'.snapshot)
  BY <1>0, KeptStep DEF Kept
<1>2. Enabled(r'.snapshot) = Enabled(r.snapshot) /\ r'.snapshot.gen = r.snapshot.gen
  BY <1>1 DEF Frame, Enabled
<1>3. ASSUME NEW q \in Committers
      PROVE  (pc'[q] = "retire" <=> pc[q] = "retire") /\ (pc'[q] = "retire" => local'[q] = local[q])
  BY <1>0, RetireEntered, RetireStays
<1>4. Retired' <=> Retired
  BY <1>3 DEF Retired
<1>5. \A w \in Workers : w.kind = "poller" /\ work'[w].pc # "none" => work[w].pc # "none"
  BY PollerStep
<1>6. ASSUME Retired, ~r.stopped, r.snapshot.gen # 0, NEW a \in Enabled(r.snapshot)
      PROVE  work'[[kind |-> "poller", by |-> r.snapshot.gen, account |-> a]].pc # "none"
  <2> DEFINE w == [kind |-> "poller", by |-> r.snapshot.gen, account |-> a]
  <2>1. w \in Workers /\ w.kind = "poller" /\ w.by = r.snapshot.gen
    BY <1>0, <1>6, PollerOf
  <2>2. work[w].pc # "none" /\ r.snapshot.gen \notin cancelled
    BY <1>6 DEF Polling
  <2> HIDE DEF w
  <2>3. work'[w].pc # "none"
    BY <1>6, <2>1, <2>2, PollerStep
  <2> QED BY <2>3 DEF w
<1>7. ASSUME r'.stopped = r.stopped, r'.cancel = r.cancel,
             cancelled' = cancelled \/ \E p \in Refreshers : cancelled' = cancelled \cup {p}
      PROVE  Polling'
  <2>1. r.snapshot.gen # 0 => r.snapshot.gen \in Generations
    BY <1>0 DEF Typed, Runtime, Snapshot
  <2>2. /\ cancelled \subseteq cancelled'
        /\ \A g \in Generations : g \in cancelled' <=> g \in cancelled
    BY <1>7, NamesAssumption
  <2>3. /\ cancelled' \cap Generations \subseteq 1..r'.snapshot.gen
        /\ r'.cancel = IF r'.stopped THEN 0 ELSE r'.snapshot.gen
        /\ ~r'.stopped /\ r'.snapshot.gen # 0 => r'.snapshot.gen \notin cancelled'
    BY <1>2, <1>7, <2>1, <2>2 DEF Polling
  <2>4. Retired /\ ~r.stopped /\ r.snapshot.gen # 0 =>
          \A w \in Workers : w.kind = "poller" /\ work'[w].pc # "none" =>
            w.by = r.snapshot.gen \/ w.by \in cancelled'
    BY <1>5, <2>2 DEF Polling
  <2>5. \A p \in Committers : pc'[p] = "retire" =>
          \A w \in Workers : w.kind = "poller" /\ work'[w].pc # "none" =>
            w.by = local'[p].previous.gen \/ w.by \in cancelled'
    BY <1>3, <1>5, <2>2 DEF Polling
  <2> QED BY Zenon, <1>2, <1>4, <1>6, <1>7, <2>3, <2>4, <2>5 DEF Polling
<1>8. ASSUME NEW p \in Stoppers, BeginShutdown(p)
      PROVE  Polling'
  <2>1. r'.stopped /\ r'.cancel = 0 /\ cancelled' = cancelled \cup ({r.cancel} \ {0})
    BY <1>0, <1>8, BeginShutdownEffect DEF BeginShutdown
  <2>2. r.snapshot.gen # 0 => r.snapshot.gen \in 1..r.snapshot.gen
    BY <1>0, GenerationRange DEF Typed, Runtime, Snapshot
  <2>3. cancelled' \cap Generations \subseteq 1..r'.snapshot.gen
    BY Zenon, <1>2, <2>1, <2>2 DEF Polling
  <2>4. \A q \in Committers : pc'[q] = "retire" =>
          \A w \in Workers : w.kind = "poller" /\ work'[w].pc # "none" =>
            w.by = local'[q].previous.gen \/ w.by \in cancelled'
    BY <1>3, <1>5, <2>1 DEF Polling
  <2> QED BY Zenon, <2>1, <2>3, <2>4 DEF Polling
<1>9. CASE \A p \in Stoppers : ~BeginShutdown(p)
  <2>1. r'.stopped = r.stopped
    BY <1>9, PhaseStep
  <2> QED BY <1>7, <1>9, <2>1, CancelStep
<1> QED BY <1>8, <1>9

(* Polling is invariant. *)
LEMMA PollingAlways == Spec => []Polling
<1>1. Init => Polling
  <2> SUFFICES ASSUME Init PROVE Polling
    OBVIOUS
  <2>1. r.snapshot.gen = 0 /\ r.stopped = FALSE /\ r.cancel = 0 /\ cancelled = {}
    BY DEF Init, NoSnapshot
  <2>2. \A p \in Committers : pc[p] # "retire"
    BY CallerKinds DEF Init
  <2> QED BY <2>1, <2>2 DEF Polling
<1>2. Base /\ Polling /\ [Next]_vars => Polling'
  BY PollingPublish, PollingRetire, PollingKept
<1> QED BY <1>1, <1>2, BaseAlways, PTL DEF Spec

(* Outside a commit every enabled account has a running poller and every   *)
(* other poller has been told to stop, however reconfigures and updates    *)
(* follow each other.                                                      *)
THEOREM PollersMatchSnapshotAlways == Spec => []PollersMatchSnapshot
<1>1. Base /\ Polling => PollersMatchSnapshot
  <2> SUFFICES ASSUME Base, Polling, lock.pollers = None, ~r.stopped, Configured
               PROVE  /\ r.snapshot.gen \notin cancelled
                      /\ \A a \in Enabled(r.snapshot) :
                           work[[kind |-> "poller", by |-> r.snapshot.gen, account |-> a]].pc # "none"
                      /\ \A w \in Busy("workers") : w.by = r.snapshot.gen \/ w.by \in cancelled
    BY Zenon DEF PollersMatchSnapshot
  <2>1. Retired
    BY CallerKinds, NamesAssumption DEF Base, Locked, Holds, Retired
  <2>2. \A w \in Busy("workers") : w \in Workers /\ w.kind = "poller" /\ work[w].pc # "none"
    BY DEF Busy
  <2> QED BY <2>1, <2>2 DEF Polling, Configured
<1> QED BY <1>1, PollingAlways, BaseAlways, PTL

-----------------------------------------------------------------------------
(* Refreshes. *)

(* Only the start of a refresh puts its workers to work. *)
LEMMA RefreshWorkerStep ==
  ASSUME Base, [Next]_vars, NEW w \in Workers, w.kind = "refresh", \A p \in Refreshers : ~LeadRefresh(p),
         work'[w].pc # "none"
  PROVE  work[w].pc # "none" /\ work'[w].gen = work[w].gen
<1> USE DEF Base
<1>0. work[w] \in Work
  BY Zenon DEF Typed
<1>1. ASSUME NEW p \in Refreshers, forceRefresh(p)
      PROVE  work'[w] = work[w]
  <2>1. CASE EndRefresh(p)
    BY <2>1 DEF EndRefresh, NoWork
  <2>2. CASE JoinRefresh(p) \/ FollowRefresh(p) \/ HangUp(p)
    BY <2>2 DEF JoinRefresh, FollowRefresh, HangUp
  <2> QED BY <1>1, <2>1, <2>2 DEF forceRefresh
<1>2. CASE poll(w)
  <2>1. CASE StartPoll(w)
    BY <1>0, <2>1 DEF StartPoll, Step, Typed, Work
  <2>2. CASE LockPoll(w)
    BY <1>0, <2>2 DEF LockPoll, Step, Typed, Work
  <2>3. ASSUME NEW ok \in BOOLEAN, ApplyAnswer(w, ok)
        PROVE  work[w].pc # "none" /\ work'[w].gen = work[w].gen
    BY Zenon, <2>3, ApplyAnswerEffect DEF ApplyAnswer
  <2>4. ~StopPoller(w)
    BY DEF StopPoller
  <2>5. CASE DropAnswer(w) \/ WritePoll(w)
    <3>1. work[w].pc \in {"fetch", "write"} /\ \E ok, stop \in BOOLEAN : work'[w] = Returned(w, ok, stop)
      BY Zenon, <1>0, <2>5 DEF DropAnswer, WritePoll, Step, Typed, Work
    <3> QED BY <3>1, ReturnedType
  <2> QED BY Zenon, <1>2, <2>1, <2>2, <2>3, <2>4, <2>5 DEF poll
<1>3. ASSUME NEW v \in Workers, poll(v), v # w
      PROVE  work'[w] = work[w]
  BY <1>3, OtherWorkers
<1>4. ASSUME NEW p \in Committers, Retire(p)
      PROVE  work'[w] = work[w]
  BY <1>4 DEF Retire
<1>5. CASE UNCHANGED vars
  BY <1>5 DEF vars
<1> HIDE DEF Base
<1> QED BY Zenon, <1>1, <1>2, <1>3, <1>4, <1>5, CallerKinds, WorkUnchanged DEF Next, Quiescent

(* Refresh workers of the live generation belong to the refresh that later *)
(* calls of forceRefresh join, also when a superseded refresh ends late.   *)
THEOREM RefreshesCoalesceAlways == Spec => []RefreshesCoalesce
<1>1. Init => RefreshesCoalesce
  BY DEF Init, RefreshesCoalesce, NoWork
<1>2. Base /\ RefreshesCoalesce /\ [Next]_vars => RefreshesCoalesce'
  <2> SUFFICES ASSUME Base, RefreshesCoalesce, [Next]_vars, NEW w \in Workers,
                      w.kind = "refresh", work'[w].pc # "none", work'[w].gen = r'.snapshot.gen
               PROVE  r'.refresh = [leader |-> w.by, gen |-> r'.snapshot.gen]
    BY DEF RefreshesCoalesce
  <2>0. Typed /\ Calls /\ Live /\ Working /\ Bounded /\ Locked /\ r \in Runtime
    BY DEF Base, Typed
  <2>1. w.by \in Refreshers
    BY DEF Workers
  <2>2. ASSUME NEW p \in Refreshers, LeadRefresh(p)
        PROVE  r'.refresh = [leader |-> w.by, gen |-> r'.snapshot.gen]
    <3>1. r'.refresh = [leader |-> p, gen |-> r.snapshot.gen] /\ r'.snapshot = r.snapshot
      BY <2>0, <2>2 DEF LeadRefresh, Runtime
    <3>2. CASE w.by = p
      BY <3>1, <3>2
    <3>3. CASE w.by # p
      <4>1. work'[w] = work[w]
        BY <2>2, <3>3 DEF LeadRefresh
      <4>2. r.refresh = [leader |-> w.by, gen |-> r.snapshot.gen]
        BY <3>1, <4>1 DEF RefreshesCoalesce
      <4>3. r.snapshot.gen \in Generations
        BY <2>0, <2>2 DEF LeadRefresh, Runtime, Snapshot
      <4>4. r.refresh # None /\ r.refresh.gen = r.snapshot.gen
        BY <2>1, <4>2, <4>3, NamesAssumption
      <4> QED BY <2>2, <4>4 DEF LeadRefresh
    <3> QED BY <3>2, <3>3
  <2>3. CASE \A p \in Refreshers : ~LeadRefresh(p)
    <3>1. work[w].pc # "none" /\ work'[w].gen = work[w].gen
      BY <2>3, RefreshWorkerStep
    <3>2. ASSUME NEW p \in Committers, Publish(p)
          PROVE  FALSE
      <4>1. r'.snapshot.gen = r.snapshot.gen + 1
        BY <2>0, <3>2, Published
      <4>2. work[w].gen \in 1..r.snapshot.gen
        BY <2>0, <3>1 DEF Working
      <4>3. r.snapshot.gen \in {0} \cup Generations
        BY <2>0 DEF Runtime, Snapshot
      <4>4. r.snapshot.gen \in Nat
        BY Zenon, <4>3, NumberTypes
      <4>5. work[w].gen = r.snapshot.gen + 1
        BY Zenon, <3>1, <4>1
      <4> QED BY <4>2, <4>4, <4>5
    <3>3. r'.snapshot.gen = r.snapshot.gen
      BY <2>0, <3>2, KeptStep DEF Kept, Frame
    <3>4. r.refresh = [leader |-> w.by, gen |-> r.snapshot.gen]
      BY Zenon, <3>1, <3>3 DEF RefreshesCoalesce
    <3>5. ASSUME NEW p \in Refreshers, EndRefresh(p)
          PROVE  r'.refresh = r.refresh
      <4>1. w.by # p
        BY <3>1, <3>5 DEF EndRefresh, Team, NoWork
      <4> QED BY <2>0, <3>4, <3>5, <4>1 DEF EndRefresh, Runtime
    <3>6. ASSUME NEW p \in Committers, Retire(p)
          PROVE  r'.refresh = r.refresh
      BY <3>6 DEF Retire
    <3>7. ASSUME NEW p \in Stoppers, BeginShutdown(p)
          PROVE  r'.refresh = r.refresh
      BY Zenon, <2>0, <3>7, BeginShutdownEffect
    <3>8. r'.refresh = r.refresh
      BY <2>3, <3>2, <3>5, <3>6, <3>7, CancelStep
    <3> QED BY <3>3, <3>4, <3>8
  <2> QED BY <2>2, <2>3
<1> QED BY <1>1, <1>2, BaseAlways, PTL DEF Spec

-----------------------------------------------------------------------------
(* Settings. *)

(* Settings are saved by the commit of an update only. *)
LEMMA SettingsStep ==
  ASSUME "applied" \notin Faults, [Next]_vars, \A p \in Committers : ~Publish(p)
  PROVE  settings' = settings
<1>1. ASSUME NEW p \in Committers, Reconfigure(p) \/ updateAccountConfig(p) \/ commitSnapshotAfter(p)
      PROVE  settings' = settings
  <2>1. CASE Reconfigure(p)
    BY Zenon, <2>1 DEF Reconfigure, BeginReconfigure, RejectReconfigure, LoadStaged
  <2>2. CASE updateAccountConfig(p)
    BY Zenon, <2>2 DEF updateAccountConfig, BeginUpdate, CloneLive, RejectUpdate
  <2>3. CASE commitSnapshotAfter(p) /\ ~AbortCommit(p)
    BY <2>3 DEF commitSnapshotAfter, LockSettings, LockPollers, LockPersist, Retire
  <2>4. CASE AbortCommit(p)
    BY <2>4 DEF AbortCommit, SaveSettings
  <2> QED BY <1>1, <2>1, <2>2, <2>3, <2>4
<1>2. ASSUME NEW u \in Usage, handleUsage(u)
      PROVE  settings' = settings
  BY Zenon, <1>2 DEF handleUsage, LockUsage, DropUsage, ApplyUsage, WriteUsage
<1>3. ASSUME NEW w \in Workers, poll(w)
      PROVE  settings' = settings
  BY Zenon, <1>3 DEF poll, StartPoll, StopPoller, DropAnswer, ApplyAnswer, LockPoll, WritePoll
<1>4. ASSUME NEW p \in Refreshers, forceRefresh(p)
      PROVE  settings' = settings
  BY <1>4 DEF forceRefresh, JoinRefresh, LeadRefresh, EndRefresh, FollowRefresh, HangUp
<1>5. ASSUME NEW p \in Stoppers, shutdown(p)
      PROVE  settings' = settings
  BY Zenon, <1>5 DEF shutdown, BeginShutdown, JoinShutdown, WaitGroup, LockFinal, FinalWrite, FinishShutdown, FollowShutdown
<1>6. ASSUME NEW p \in Unblockers, NEW chosen \in SUBSET Accounts, unblock(p, chosen)
      PROVE  settings' = settings
  BY <1>6 DEF unblock
<1>7. ASSUME NEW p \in Callers, Refuse(p)
      PROVE  settings' = settings
  BY <1>7 DEF Refuse
<1>8. CASE UNCHANGED vars
  BY <1>8 DEF vars
<1> QED
  BY Zenon, <1>1, <1>2, <1>3, <1>4, <1>5, <1>6, <1>7, <1>8, CallerKinds DEF Next, Quiescent

(* PublishedSettings, and the same of what is staged under settingsMu. *)
SettingsStaged ==
  /\ \A p \in Reconfigurers : pc[p] \in Staging =>
       local[p].snapshot.disabled = settings[local[p].snapshot.store.dir] \cap local[p].snapshot.managed
  /\ \A p \in Updaters : pc[p] \in Staging =>
       local[p].snapshot.disabled = local[p].settings \cap r.snapshot.managed
  /\ PublishedSettings

(* A publication keeps SettingsStaged: an update publishes the settings it *)
(* saves.                                                                  *)
LEMMA SettingsPublish ==
  ASSUME Base, SettingsStaged, NEW p \in Committers, Publish(p)
  PROVE  SettingsStaged'
<1>0. Typed /\ Calls /\ Live /\ Working /\ Bounded /\ Locked
  BY DEF Base
<1> DEFINE s == local[p].snapshot
           same == SameStore(r.snapshot, s)
<1>1. pc[p] = "publish" /\ p \in Callers
  BY CallerKinds DEF Publish
<1>2. /\ p \in Updaters => same
      /\ same => r'.snapshot.store = r.snapshot.store
      /\ ~same => p \in Reconfigurers /\ r'.snapshot.store = s.store
  BY Zenon, <1>0, Published
<1>3. r'.snapshot.managed = s.managed /\ r'.snapshot.disabled = s.disabled
  BY PublishedQuota
<1>4. same => r.snapshot.store.dir = s.store.dir
  BY DEF SameStore
<1> HIDE DEF same
<1>5. r'.snapshot.store.dir = s.store.dir
  BY <1>2, <1>4
<1>6. PublishedSettings'
  <2>1. CASE p \in Updaters
    <3>1. /\ s.managed = r.snapshot.managed /\ s.store = r.snapshot.store /\ r.snapshot.gen # 0
          /\ s.disabled = local[p].settings \cap r.snapshot.managed
      BY Zenon, <1>0, <1>1, <2>1 DEF Calls, CallOK, Staging, SettingsStaged
    <3>2. r.snapshot.store.dir \in Dirs
      BY Zenon, <1>0, <3>1 DEF Live, Store
    <3>3. settings'[r.snapshot.store.dir] = local[p].settings
      BY <1>0, <2>1, <3>2 DEF Publish, SaveSettings, Typed
    <3> QED BY <1>3, <1>5, <3>1, <3>3 DEF PublishedSettings, Configured
  <2>2. CASE p \notin Updaters
    <3>1. p \in Reconfigurers /\ settings' = settings
      BY <2>2 DEF Publish, Committers
    <3>2. s.disabled = settings[s.store.dir] \cap s.managed
      BY <1>1, <3>1 DEF SettingsStaged, Staging
    <3> QED BY <1>3, <1>5, <3>1, <3>2 DEF PublishedSettings, Configured
  <2> QED BY <2>1, <2>2
<1>7. \A q \in Committers : pc'[q] \notin Staging
  <2>1. pc'[p] = "retire" /\ \A q \in Callers \ {p} : pc'[q] = pc[q]
    BY <1>0, CallerKinds DEF Publish, Goto, Typed
  <2> QED BY <1>0, <1>1, <2>1, OneCommit, CallerKinds DEF Staging
<1> QED BY <1>6, <1>7, CallerKinds DEF SettingsStaged

(* Every other step keeps SettingsStaged. *)
LEMMA SettingsKept ==
  ASSUME "applied" \notin Faults, Base, SettingsStaged, [Next]_vars, \A p \in Committers : ~Publish(p)
  PROVE  SettingsStaged'
<1>0. Typed /\ Calls /\ Live /\ Working /\ Bounded /\ Locked
  BY DEF Base
<1>1. settings' = settings
  BY SettingsStep
<1>2. Frame(r.snapshot, r'.snapshot)
  BY <1>0, KeptStep DEF Kept
<1>3. PublishedSettings'
  BY <1>1, <1>2 DEF SettingsStaged, PublishedSettings, Configured, Frame
<1>4. ASSUME NEW p \in Reconfigurers, pc'[p] \in Staging
      PROVE  local'[p].snapshot.disabled = settings'[local'[p].snapshot.store.dir] \cap local'[p].snapshot.managed
  <2>1. CASE pc[p] \in Staging /\ local'[p] = local[p]
    BY <1>1, <2>1 DEF SettingsStaged
  <2>2. CASE LoadStaged(p)
    <3>1. /\ local'[p].snapshot.store = local[p].snapshot.store
          /\ local'[p].snapshot.managed = local[p].snapshot.managed
          /\ local'[p].snapshot.disabled = settings[local[p].snapshot.store.dir] \cap local[p].snapshot.managed
      BY Zenon, <1>0, <2>2, LoadStagedEffect
    <3> QED BY <1>1, <3>1
  <2>3. p \in Committers /\ p \notin Updaters
    BY CallerKinds, NamesAssumption
  <2> QED BY <1>0, <1>4, <2>1, <2>2, <2>3, StagingEntered
<1>5. ASSUME NEW p \in Updaters, pc'[p] \in Staging
      PROVE  local'[p].snapshot.disabled = local'[p].settings \cap r'.snapshot.managed
  <2>1. CASE pc[p] \in Staging /\ local'[p] = local[p]
    BY <1>2, <2>1 DEF SettingsStaged, Frame
  <2>2. ASSUME NEW a \in Accounts, \E disable \in BOOLEAN : CloneLive(p, a, disable)
        PROVE  local'[p].snapshot.disabled = local'[p].settings \cap r'.snapshot.managed
    <3>1. /\ a \in r.snapshot.managed /\ r.snapshot.gen # 0
          /\ \/ /\ local'[p].snapshot.disabled = r.snapshot.disabled \cup {a}
                /\ local'[p].settings = settings[r.snapshot.store.dir] \cup {a}
             \/ /\ local'[p].snapshot.disabled = r.snapshot.disabled \ {a}
                /\ local'[p].settings = settings[r.snapshot.store.dir] \ {a}
      BY Zenon, <1>0, <2>2, CloneLiveEffect
    <3>2. r.snapshot.disabled = settings[r.snapshot.store.dir] \cap r.snapshot.managed
      BY Zenon, <3>1 DEF SettingsStaged, PublishedSettings, Configured
    <3>3. r'.snapshot.managed = r.snapshot.managed
      BY <1>2 DEF Frame
    <3> QED BY <3>1, <3>2, <3>3
  <2>3. p \in Committers /\ p \notin Reconfigurers
    BY CallerKinds, NamesAssumption
  <2> QED BY <1>0, <1>5, <2>1, <2>2, <2>3, StagingEntered
<1> QED BY <1>3, <1>4, <1>5 DEF SettingsStaged

(* If no failed save of the settings took effect, the live snapshot        *)
(* disables the accounts that the settings of its directory disable,       *)
(* whatever reconfigures and updates race.                                 *)
THEOREM PublishedSettingsAlways ==
  ASSUME "applied" \notin Faults
  PROVE  Spec => []PublishedSettings
<1>1. Init => SettingsStaged
  <2>1. Init => \A p \in Callers : pc[p] \notin Staging
    BY DEF Init, Staging
  <2>2. Init => ~Configured
    BY DEF Init, Configured, NoSnapshot
  <2>3. Reconfigurers \subseteq Callers /\ Updaters \subseteq Callers
    BY CallerKinds
  <2> QED BY Zenon, <2>1, <2>2, <2>3 DEF SettingsStaged, PublishedSettings
<1>2. Base /\ SettingsStaged /\ [Next]_vars => SettingsStaged'
  BY SettingsPublish, SettingsKept
<1>3. SettingsStaged => PublishedSettings
  BY DEF SettingsStaged
<1> QED BY <1>1, <1>2, <1>3, BaseAlways, PTL DEF Spec

-----------------------------------------------------------------------------
(* A refresh is moved by its own steps only. *)
LEMMA RefresherStep ==
  ASSUME Typed, [Next]_vars, NEW q \in Refreshers
  PROVE  pc'[q] = pc[q] \/ forceRefresh(q) \/ Refuse(q)
<1> USE CallerKinds
<1>1. ASSUME NEW p \in Committers, Reconfigure(p) \/ updateAccountConfig(p) \/ commitSnapshotAfter(p)
      PROVE  pc'[q] = pc[q]
  BY <1>1, MovedCommitter, NamesAssumption DEF Moved
<1>2. ASSUME NEW u \in Usage, handleUsage(u)
      PROVE  pc'[q] = pc[q]
  BY <1>2, MovedUsage, NamesAssumption DEF Moved
<1>3. ASSUME NEW p \in Refreshers, p # q, forceRefresh(p)
      PROVE  pc'[q] = pc[q]
  BY <1>3, MovedRefresh DEF Moved
<1>4. ASSUME NEW p \in Stoppers, shutdown(p)
      PROVE  pc'[q] = pc[q]
  BY <1>4, MovedShutdown, NamesAssumption DEF Moved
<1>5. ASSUME NEW p \in Unblockers, NEW chosen \in SUBSET Accounts, unblock(p, chosen)
      PROVE  pc'[q] = pc[q]
  BY <1>5, MovedOther, NamesAssumption DEF Moved
<1>6. ASSUME NEW p \in Callers, p # q, Refuse(p)
      PROVE  pc'[q] = pc[q]
  BY <1>6, MovedOther DEF Moved
<1>7. CASE UNCHANGED vars
  BY <1>7 DEF vars
<1> QED BY Zenon, <1>1, <1>2, <1>3, <1>4, <1>5, <1>6, <1>7, MovedOther DEF Next, Quiescent

(* A shutdown is moved by its own steps only. *)
LEMMA StopperStep ==
  ASSUME Typed, [Next]_vars, NEW q \in Stoppers
  PROVE  pc'[q] = pc[q] \/ shutdown(q)
<1> USE CallerKinds
<1>1. ASSUME NEW p \in Committers, Reconfigure(p) \/ updateAccountConfig(p) \/ commitSnapshotAfter(p)
      PROVE  pc'[q] = pc[q]
  BY <1>1, MovedCommitter, NamesAssumption DEF Moved
<1>2. ASSUME NEW u \in Usage, handleUsage(u)
      PROVE  pc'[q] = pc[q]
  BY <1>2, MovedUsage, NamesAssumption DEF Moved
<1>3. ASSUME NEW p \in Refreshers, forceRefresh(p)
      PROVE  pc'[q] = pc[q]
  BY <1>3, MovedRefresh, NamesAssumption DEF Moved
<1>4. ASSUME NEW p \in Stoppers, p # q, shutdown(p)
      PROVE  pc'[q] = pc[q]
  BY <1>4, MovedShutdown DEF Moved
<1>5. ASSUME NEW p \in Unblockers, NEW chosen \in SUBSET Accounts, unblock(p, chosen)
      PROVE  pc'[q] = pc[q]
  BY <1>5, MovedOther, NamesAssumption DEF Moved
<1>6. ASSUME NEW p \in Callers, Refuse(p)
      PROVE  pc'[q] = pc[q]
  <2>1. p # q
    BY Zenon, <1>6 DEF Refuse
  <2> QED BY <1>6, <2>1, MovedOther DEF Moved
<1>7. CASE UNCHANGED vars
  BY <1>7 DEF vars
<1> QED BY Zenon, <1>1, <1>2, <1>3, <1>4, <1>5, <1>6, <1>7, MovedOther DEF Next, Quiescent

(* Once shutdown began nothing joins a group it waits for. *)
LEMMA BusyShrinks ==
  ASSUME Base, [Next]_vars, r.stopped, NEW group \in DOMAIN After
  PROVE  Busy(group)' \subseteq Busy(group)
<1>0. Typed /\ Calls
  BY DEF Base
<1>1. CASE group = "reconfigures"
  <2> SUFFICES ASSUME NEW p \in Reconfigurers, pc'[p] \notin {"idle", "ok", "error"}
               PROVE  pc[p] \notin {"idle", "ok", "error"}
    BY <1>1 DEF Busy
  <2>1. p \in Committers /\ p \notin Updaters /\ p \in Callers
    BY CallerKinds, NamesAssumption
  <2>2. CASE Reconfigure(p)
    BY <1>0, <2>1, <2>2 DEF Reconfigure, BeginReconfigure, RejectReconfigure, LoadStaged, Goto, Typed
  <2>3. CASE commitSnapshotAfter(p)
    <3>1. pc[p] \in {"lock_settings", "lock_pollers", "lock_persist", "publish", "retire"}
      BY <2>3 DEF commitSnapshotAfter, LockSettings, LockPollers, LockPersist, AbortCommit, Publish, Retire
    <3> QED BY <3>1
  <2>4. ~Refuse(p)
    BY <1>0, <2>1 DEF Refuse, Goto, Typed
  <2> QED BY <1>0, <2>1, <2>2, <2>3, <2>4, OwnStep
<1>2. CASE group = "operations"
  <2> SUFFICES ASSUME NEW p \in Updaters, pc'[p] \notin {"idle", "ok", "error"}
               PROVE  pc[p] \notin {"idle", "ok", "error"}
    BY <1>2 DEF Busy
  <2>1. p \in Committers /\ p \notin Reconfigurers /\ p \in Callers
    BY CallerKinds, NamesAssumption
  <2>2. CASE updateAccountConfig(p)
    BY <1>0, <2>1, <2>2 DEF updateAccountConfig, BeginUpdate, CloneLive, RejectUpdate
  <2>3. CASE commitSnapshotAfter(p)
    <3>1. pc[p] \in {"lock_settings", "lock_pollers", "lock_persist", "publish", "retire"}
      BY <2>3 DEF commitSnapshotAfter, LockSettings, LockPollers, LockPersist, AbortCommit, Publish, Retire
    <3> QED BY <3>1
  <2>4. ~Refuse(p)
    BY <1>0, <2>1 DEF Refuse, Goto, Typed
  <2> QED BY <1>0, <2>1, <2>2, <2>3, <2>4, OwnStep
<1>3. CASE group = "workers"
  <2>1. \A p \in Committers : ~Retire(p)
    BY <1>0, CallerKinds DEF Retire, Calls, CallOK
  <2>2. \A w \in Workers : w.kind = "poller" /\ work'[w].pc # "none" => work[w].pc # "none"
    BY <2>1, PollerStep
  <2> QED BY <1>3, <2>2 DEF Busy
<1>4. CASE group = "usage"
  <2>1. \A u \in Usage : pc'[u] = "write" => pc[u] = "write"
    BY <1>0, UsageWaits DEF ApplyUsage
  <2> QED BY <1>4, <2>1 DEF Busy
<1>5. CASE group = "refreshWorkers"
  <2> SUFFICES ASSUME NEW p \in Refreshers, pc'[p] = "lead"
               PROVE  pc[p] = "lead"
    BY <1>5 DEF Busy
  <2>1. CASE forceRefresh(p)
    <3>1. ~JoinRefresh(p) /\ ~LeadRefresh(p)
      BY DEF JoinRefresh, LeadRefresh
    <3>2. CASE EndRefresh(p)
      BY <3>2 DEF EndRefresh
    <3>3. CASE FollowRefresh(p)
      BY <1>0, <3>3, CallerKinds DEF FollowRefresh, Goto, Typed
    <3>4. CASE HangUp(p)
      BY <1>0, <3>4, CallerKinds DEF HangUp, Goto, Typed
    <3> QED BY <2>1, <3>1, <3>2, <3>3, <3>4 DEF forceRefresh
  <2>2. ~Refuse(p)
    BY <1>0, CallerKinds DEF Refuse, Goto, Typed
  <2> QED BY <1>0, <2>1, <2>2, RefresherStep
<1> QED BY <1>1, <1>2, <1>3, <1>4, <1>5 DEF After

(* No worker is at work once the groups of workers are empty. *)
LEMMA NoWorkers ==
  ASSUME Base, Busy("workers") = {}, Busy("refreshWorkers") = {}, NEW w \in Workers
  PROVE  work[w].pc = "none"
<1>1. w.kind = "poller" \/ (w.kind = "refresh" /\ w.by \in Refreshers)
  BY DEF Workers
<1>2. w.kind = "refresh" /\ work[w].pc # "none" => pc[w.by] = "lead"
  BY DEF Base, Working
<1> QED BY <1>1, <1>2 DEF Busy

(* Once shutdown has waited for the groups only its own steps change the   *)
(* state of the accounts, the disk or its result.                          *)
LEMMA StoppedQuiet ==
  ASSUME Base, [Next]_vars, r.stopped, \A group \in DOMAIN After : Busy(group) = {},
         \A p \in Stoppers : ~FinalWrite(p) /\ ~FinishShutdown(p)
  PROVE  disk' = disk /\ r'.snapshot = r.snapshot /\ r'.shutdownErr = r.shutdownErr
<1> DEFINE Same == disk' = disk /\ r'.snapshot = r.snapshot /\ r'.shutdownErr = r.shutdownErr
<1>0. Typed /\ Calls
  BY DEF Base
<1>1. \A w \in Workers : work[w].pc = "none"
  BY NoWorkers DEF After
<1>2. \A u \in Usage : pc[u] # "write"
  BY DEF After, Busy
<1>3. ASSUME NEW p \in Committers, Reconfigure(p) \/ updateAccountConfig(p) \/ commitSnapshotAfter(p)
      PROVE  Same
  <2>1. CASE RejectReconfigure(p)
    BY Zenon, <1>0, <2>1, RejectEffect DEF RejectReconfigure, SamePhase
  <2>2. CASE Reconfigure(p) /\ ~RejectReconfigure(p)
    BY <2>2 DEF Reconfigure, BeginReconfigure, LoadStaged
  <2>3. CASE updateAccountConfig(p)
    BY <2>3 DEF updateAccountConfig, BeginUpdate, CloneLive, RejectUpdate
  <2>4. CASE commitSnapshotAfter(p)
    BY <2>4 DEF commitSnapshotAfter, LockSettings, LockPollers, LockPersist, AbortCommit, Publish, Retire
  <2> QED BY <1>3, <2>1, <2>2, <2>3, <2>4
<1>4. ASSUME NEW u \in Usage, handleUsage(u)
      PROVE  Same
  BY Zenon, <1>2, <1>4 DEF handleUsage, LockUsage, DropUsage, ApplyUsage, WriteUsage
<1>5. ASSUME NEW w \in Workers, poll(w)
      PROVE  FALSE
  BY Zenon, <1>1, <1>5 DEF poll, StartPoll, StopPoller, DropAnswer, ApplyAnswer, LockPoll, WritePoll
<1>6. ASSUME NEW p \in Refreshers, forceRefresh(p)
      PROVE  Same
  <2>1. CASE JoinRefresh(p) \/ FollowRefresh(p) \/ HangUp(p)
    BY Zenon, <2>1 DEF JoinRefresh, FollowRefresh, HangUp
  <2>2. CASE LeadRefresh(p) \/ EndRefresh(p)
    BY Zenon, <1>0, <2>2, RefreshEffect DEF SamePhase, LeadRefresh, EndRefresh
  <2> QED BY <1>6, <2>1, <2>2 DEF forceRefresh
<1>7. ASSUME NEW p \in Stoppers, shutdown(p)
      PROVE  Same
  <2>1. CASE JoinShutdown(p) \/ WaitGroup(p) \/ LockFinal(p) \/ FollowShutdown(p)
    BY <2>1 DEF JoinShutdown, WaitGroup, LockFinal, FollowShutdown
  <2>2. CASE BeginShutdown(p)
    BY <1>0, <2>2, BeginShutdownEffect DEF BeginShutdown
  <2> QED BY <1>7, <2>1, <2>2 DEF shutdown
<1>8. ASSUME NEW p \in Unblockers, NEW chosen \in SUBSET Accounts, unblock(p, chosen)
      PROVE  FALSE
  BY <1>8 DEF unblock
<1>9. ASSUME NEW p \in Callers, Refuse(p)
      PROVE  Same
  BY Zenon, <1>9 DEF Refuse
<1>10. CASE UNCHANGED vars
  BY <1>10 DEF vars
<1> QED
  BY Zenon, <1>3, <1>4, <1>5, <1>6, <1>7, <1>8, <1>9, <1>10, CallerKinds DEF Next, Quiescent

-----------------------------------------------------------------------------
(* Shutdown. *)

(* The groups the first shutdown has waited for where it is. *)
WaitedFor(l) ==
  CASE l = "workers" -> {"reconfigures"}
    [] l = "usage" -> {"reconfigures", "workers"}
    [] l = "refreshWorkers" -> {"reconfigures", "workers", "usage"}
    [] l = "operations" -> {"reconfigures", "workers", "usage", "refreshWorkers"}
    [] l \in {"lock_final", "final", "close"} -> DOMAIN After
    [] OTHER -> {}

(* What the first shutdown has waited for stays finished, and once it has  *)
(* written the final state nothing changes it or the disk.                 *)
Draining ==
  /\ \A p \in Stoppers : pc[p] \in Stopping => r.shutdownDone = "open"
  /\ \A p, q \in Stoppers : pc[p] \in Stopping /\ pc[q] \in Stopping => p = q
  /\ \A p \in Stoppers : \A group \in WaitedFor(pc[p]) : Busy(group) = {}
  /\ \A p \in Stoppers : pc[p] = "close" /\ ~r.shutdownErr /\ r.snapshot.gen # 0 =>
       disk[r.snapshot.store.dir] = r.snapshot.quota
  /\ r.shutdownDone = "closed" => open = {} /\ \A group \in DOMAIN After : Busy(group) = {}
  /\ FinalStateOnDisk

(* Where a step takes a shutdown. *)
LEMMA ShutdownMoves ==
  ASSUME Typed, NEW p \in Stoppers, shutdown(p), pc'[p] \in Stopping
  PROVE  \/ BeginShutdown(p) /\ pc'[p] = "reconfigures"
         \/ WaitGroup(p) /\ pc[p] \in DOMAIN After /\ pc'[p] = After[pc[p]] /\ Busy(pc[p]) = {}
         \/ LockFinal(p) /\ pc[p] = "lock_final" /\ pc'[p] = "final"
         \/ FinalWrite(p) /\ pc[p] = "final" /\ pc'[p] = "close"
<1> USE CallerKinds
<1>1. CASE BeginShutdown(p)
  BY <1>1 DEF BeginShutdown, Goto, Typed
<1>2. ~JoinShutdown(p)
  BY DEF JoinShutdown, Goto, Typed, Stopping, After
<1>3. CASE WaitGroup(p)
  BY <1>3 DEF WaitGroup, Goto, Typed
<1>4. CASE LockFinal(p)
  BY <1>4 DEF LockFinal, Goto, Typed
<1>5. CASE FinalWrite(p)
  BY Zenon, <1>5 DEF FinalWrite, Goto, Typed
<1>6. ~FinishShutdown(p)
  BY Zenon DEF FinishShutdown, Goto, Typed, Stopping, After
<1>7. ~FollowShutdown(p)
  BY Zenon DEF FollowShutdown, Goto, Typed, Stopping, After
<1> QED BY Zenon, <1>1, <1>2, <1>3, <1>4, <1>5, <1>6, <1>7 DEF shutdown

(* A shutdown comes to wait for the others by being the first. *)
LEMMA StoppingEntered ==
  ASSUME Typed, [Next]_vars, NEW p \in Stoppers, pc'[p] \in Stopping
  PROVE  pc[p] \in Stopping \/ BeginShutdown(p)
<1>1. CASE shutdown(p)
  BY Zenon, <1>1, ShutdownMoves DEF Stopping
<1> QED BY <1>1, StopperStep

(* What the final write leaves if it reports no error. *)
LEMMA FinalWriteOnDisk ==
  ASSUME Base, NEW p \in Stoppers, FinalWrite(p), ~r'.shutdownErr, r.snapshot.gen # 0
  PROVE  disk'[r.snapshot.store.dir] = r.snapshot.quota
<1> DEFINE j == PersistenceSnapshot(r)
<1>1. j.store = r.snapshot.store /\ j.accounts = r.snapshot.quota
  BY DEF PersistenceSnapshot
<1>2. r \in Runtime /\ r.snapshot.store.dir \in Dirs /\ DOMAIN disk = Dirs
  BY Zenon DEF Base, Typed, Live, Store
<1>3. SaveState(j, TRUE)
  BY Zenon, <1>2 DEF FinalWrite, Runtime
<1> HIDE DEF j
<1> QED BY <1>1, <1>2, <1>3 DEF SaveState

(* There is one first shutdown, and it has not ended while it waits. *)
LEMMA DrainingShutdown ==
  ASSUME Base, Draining, [Next]_vars
  PROVE  /\ \A p \in Stoppers : pc'[p] \in Stopping => r'.shutdownDone = "open"
         /\ \A p, q \in Stoppers : pc'[p] \in Stopping /\ pc'[q] \in Stopping => p = q
<1>0. Typed /\ Calls
  BY DEF Base
<1>1. ASSUME NEW p \in Stoppers, pc'[p] \in Stopping
      PROVE  r'.shutdownDone = "open"
  <2>1. CASE BeginShutdown(p)
    BY Zenon, <1>0, <2>1, BeginShutdownEffect
  <2>2. CASE pc[p] \in Stopping
    <3>1. r.shutdownDone = "open"
      BY <2>2 DEF Draining
    <3>2. ASSUME NEW q \in Stoppers, BeginShutdown(q)
          PROVE  FALSE
      BY <3>1, <3>2 DEF BeginShutdown
    <3>3. ASSUME NEW q \in Stoppers, FinishShutdown(q)
          PROVE  FALSE
      <4>1. pc[q] = "close" /\ pc'[q] \in {"ok", "error"}
        BY <1>0, <3>3, CallerKinds DEF FinishShutdown, Goto, Typed
      <4>2. q = p
        BY <2>2, <4>1 DEF Draining, Stopping
      <4> QED BY <1>1, <4>1, <4>2 DEF Stopping, After
    <3> QED BY <3>1, <3>2, <3>3, PhaseCases
  <2> QED BY <1>0, <1>1, <2>1, <2>2, StoppingEntered
<1>2. ASSUME NEW p \in Stoppers, NEW q \in Stoppers, pc'[p] \in Stopping, pc'[q] \in Stopping, p # q
      PROVE  FALSE
  <2>1. ASSUME NEW s \in Stoppers, NEW t \in Stoppers, s # t, BeginShutdown(s), pc'[t] \in Stopping
        PROVE  FALSE
    <3>1. pc'[t] = pc[t] /\ r.shutdownDone = "none"
      BY <1>0, <2>1, CallerKinds DEF BeginShutdown, Goto, Typed
    <3> QED BY <2>1, <3>1 DEF Draining
  <2> QED BY <1>0, <1>2, <2>1, StoppingEntered DEF Draining
<1> QED BY <1>1, <1>2

(* What the first shutdown has waited for stays done. *)
LEMMA DrainingWaited ==
  ASSUME Base, Draining, [Next]_vars, NEW p \in Stoppers, NEW group \in WaitedFor(pc'[p])
  PROVE  Busy(group)' = {}
<1>0. Typed /\ Calls
  BY DEF Base
<1>1. pc'[p] \in Stopping /\ group \in DOMAIN After /\ pc'[p] # "reconfigures"
  BY DEF WaitedFor, Stopping, After
<1>2. CASE pc'[p] = pc[p]
  <2>1. r.stopped /\ Busy(group) = {}
    BY Zenon, <1>0, <1>1, <1>2, CallerKinds DEF Draining, Calls, CallOK
  <2> QED BY <1>1, <2>1, BusyShrinks
<1>3. CASE shutdown(p)
  <2>1. pc[p] \in Stopping
    BY Zenon, <1>0, <1>1, <1>3, ShutdownMoves DEF Stopping
  <2>2. r.stopped
    BY Zenon, <1>0, <2>1, CallerKinds DEF Calls, CallOK
  <2>3. Busy(group) = {}
    <3>1. CASE WaitGroup(p) /\ pc[p] \in DOMAIN After /\ pc'[p] = After[pc[p]] /\ Busy(pc[p]) = {}
      <4>1. group \in WaitedFor(pc[p]) \/ group = pc[p]
        BY <3>1 DEF WaitedFor, After
      <4> QED BY <3>1, <4>1 DEF Draining
    <3>2. CASE (pc[p] = "lock_final" /\ pc'[p] = "final") \/ (pc[p] = "final" /\ pc'[p] = "close")
      <4>1. group \in WaitedFor(pc[p])
        BY <3>2 DEF WaitedFor
      <4> QED BY <4>1 DEF Draining
    <3> QED BY Zenon, <1>0, <1>1, <1>3, <3>1, <3>2, ShutdownMoves
  <2> QED BY <1>1, <2>2, <2>3, BusyShrinks
<1> QED BY <1>0, <1>2, <1>3, StopperStep

(* Nothing writes after the final write. *)
LEMMA DrainingFinal ==
  ASSUME Base, Draining, [Next]_vars, NEW p \in Stoppers, pc'[p] = "close", ~r'.shutdownErr, r'.snapshot.gen # 0
  PROVE  disk'[r'.snapshot.store.dir] = r'.snapshot.quota
<1>0. Typed /\ Calls /\ Live
  BY DEF Base
<1>1. CASE FinalWrite(p)
  <2>1. r'.snapshot = r.snapshot
    BY <1>0, <1>1, FinalWriteEffect
  <2> QED BY <1>1, <2>1, FinalWriteOnDisk
<1>2. CASE pc[p] = "close"
  <2>1. pc[p] \in Stopping /\ WaitedFor(pc[p]) = DOMAIN After
    BY <1>2 DEF Stopping, WaitedFor
  <2>2. r.stopped /\ \A group \in DOMAIN After : Busy(group) = {}
    BY Zenon, <1>0, <2>1, CallerKinds DEF Draining, Calls, CallOK
  <2>3. ASSUME NEW q \in Stoppers, FinalWrite(q) \/ FinishShutdown(q)
        PROVE  FALSE
    <3>1. pc[q] \in {"final", "close"}
      BY Zenon, <2>3 DEF FinalWrite, FinishShutdown
    <3>2. q = p
      BY <2>1, <3>1 DEF Draining, Stopping
    <3>3. FinishShutdown(p)
      BY Zenon, <1>2, <2>3, <3>2 DEF FinalWrite
    <3>4. pc'[p] \in {"ok", "error"}
      BY <1>0, <3>3, CallerKinds DEF FinishShutdown, Goto, Typed
    <3> QED BY <3>4
  <2>4. disk' = disk /\ r'.snapshot = r.snapshot /\ r'.shutdownErr = r.shutdownErr
    BY <2>2, <2>3, StoppedQuiet
  <2> QED BY <1>2, <2>4 DEF Draining
<1>3. pc[p] = "close" \/ FinalWrite(p)
  <2>1. CASE shutdown(p)
    BY <1>0, <2>1, ShutdownMoves DEF Stopping, After
  <2> QED BY <1>0, <2>1, StopperStep
<1> QED BY <1>1, <1>2, <1>3

(* What shutdown leaves when it returns. *)
LEMMA DrainingClosed ==
  ASSUME Base, Base', HandlesKept', Draining, [Next]_vars, r'.shutdownDone = "closed"
  PROVE  /\ open' = {} /\ \A group \in DOMAIN After : Busy(group)' = {}
         /\ ~r'.shutdownErr /\ r'.snapshot.gen # 0 => disk'[r'.snapshot.store.dir] = r'.snapshot.quota
<1>0. Typed /\ Calls /\ Live
  BY DEF Base
<1>1. CASE r.shutdownDone = "closed"
  <2>1. r.stopped /\ open = {} /\ \A group \in DOMAIN After : Busy(group) = {}
    BY Zenon, <1>0, <1>1 DEF Draining, Live
  <2>2. \A group \in DOMAIN After : Busy(group)' = {}
    BY <2>1, BusyShrinks
  <2>3. open' = {}
    <3> SUFFICES ASSUME NEW h \in open' PROVE FALSE
      OBVIOUS
    <3>1. h \in Reconfigurers /\ pc'[h] = "lock_settings"
      BY <1>0, <2>1, OpenStep
    <3>2. h \in Busy("reconfigures")'
      BY <3>1 DEF Busy
    <3> QED BY <2>2, <3>2 DEF After
  <2>4. \A p \in Stoppers : ~FinalWrite(p) /\ ~FinishShutdown(p)
    BY Zenon, <1>1 DEF Draining, Stopping, FinalWrite, FinishShutdown
  <2>5. disk' = disk /\ r'.snapshot = r.snapshot /\ r'.shutdownErr = r.shutdownErr
    BY <2>1, <2>4, StoppedQuiet
  <2> QED BY Zenon, <1>1, <2>2, <2>3, <2>5 DEF Draining, FinalStateOnDisk, Configured
<1>2. ASSUME NEW p \in Stoppers, FinishShutdown(p)
      PROVE  /\ open' = {} /\ \A group \in DOMAIN After : Busy(group)' = {}
             /\ ~r'.shutdownErr /\ r'.snapshot.gen # 0 => disk'[r'.snapshot.store.dir] = r'.snapshot.quota
  <2>1. pc[p] = "close" /\ disk' = disk
    BY <1>2 DEF FinishShutdown
  <2>2. r'.snapshot = r.snapshot /\ r'.stopped = r.stopped /\ (r.shutdownErr => r'.shutdownErr)
    BY <1>0, <1>2, FinishShutdownEffect
  <2>3. pc[p] \in Stopping /\ WaitedFor(pc[p]) = DOMAIN After
    BY <2>1 DEF Stopping, WaitedFor
  <2>4. r.stopped /\ \A group \in DOMAIN After : Busy(group) = {}
    BY Zenon, <1>0, <2>3, CallerKinds DEF Draining, Calls, CallOK
  <2>5. \A group \in DOMAIN After : Busy(group)' = {}
    BY <2>4, BusyShrinks
  <2>6. ~r'.shutdownErr /\ r'.snapshot.gen # 0 => disk'[r'.snapshot.store.dir] = r'.snapshot.quota
    BY Zenon, <2>1, <2>2 DEF Draining
  <2>7. open' = {}
    <3> SUFFICES ASSUME NEW h \in open' PROVE FALSE
      OBVIOUS
    <3>1. h \notin Busy("reconfigures")'
      BY <2>5 DEF After
    <3>2. ~(r'.snapshot.gen # 0 /\ r'.snapshot.store.handle = h)
      BY <1>2, <2>2 DEF FinishShutdown
    <3>3. ASSUME NEW q \in Committers, pc'[q] = "retire"
          PROVE  FALSE
      BY Zenon, <2>2, <2>4, <3>3, CallerKinds DEF Base, Calls, CallOK
    <3> QED BY <3>1, <3>2, <3>3 DEF HandlesKept
  <2> QED BY <2>5, <2>6, <2>7
<1>3. r.shutdownDone = "closed" \/ \E p \in Stoppers : FinishShutdown(p)
  BY PhaseCases
<1> QED BY <1>1, <1>2, <1>3

(* Draining is invariant. *)
LEMMA DrainingAlways == Spec => []Draining
<1>1. Init => Draining
  <2> SUFFICES ASSUME Init PROVE Draining
    OBVIOUS
  <2>1. r.shutdownDone = "none" /\ \A p \in Stoppers : pc[p] = "idle"
    BY CallerKinds DEF Init
  <2>2. \A p \in Stoppers : pc[p] \notin Stopping /\ WaitedFor(pc[p]) = {} /\ pc[p] # "close"
    BY <2>1 DEF Stopping, After, WaitedFor
  <2> QED BY <2>1, <2>2 DEF Draining, FinalStateOnDisk
<1>2. Base /\ Base' /\ HandlesKept' /\ Draining /\ [Next]_vars => Draining'
  <2> SUFFICES ASSUME Base, Base', HandlesKept', Draining, [Next]_vars
               PROVE  Draining'
    OBVIOUS
  <2>1. \A p \in Stoppers : pc'[p] = "close" /\ ~r'.shutdownErr /\ r'.snapshot.gen # 0 =>
          disk'[r'.snapshot.store.dir] = r'.snapshot.quota
    BY DrainingFinal
  <2>2. r'.shutdownDone = "closed" => open' = {} /\ \A group \in DOMAIN After : Busy(group)' = {}
    BY DrainingClosed
  <2>3. FinalStateOnDisk'
    BY DrainingClosed DEF FinalStateOnDisk, Configured
  <2>4. \A p \in Stoppers : \A group \in WaitedFor(pc'[p]) : Busy(group)' = {}
    BY DrainingWaited
  <2> QED BY Zenon, <2>1, <2>2, <2>3, <2>4, DrainingShutdown DEF Draining
<1> QED BY <1>1, <1>2, BaseAlways, HandlesAlways, PTL DEF Spec

(* Once shutdown has ended no poller, refresh worker, admitted usage,      *)
(* reconfigure or update is left and every store handle is closed, for any *)
(* number of calls that raced it.                                          *)
THEOREM QuietAfterShutdownAlways == Spec => []QuietAfterShutdown
<1>1. Base /\ Draining => QuietAfterShutdown
  BY NoWorkers DEF Draining, QuietAfterShutdown, After
<1> QED BY <1>1, BaseAlways, DrainingAlways, PTL

(* A shutdown that reports no error leaves the final state of every        *)
(* account on disk: no late poll or usage follows its last write.          *)
THEOREM FinalStateOnDiskAlways == Spec => []FinalStateOnDisk
<1>1. Draining => FinalStateOnDisk
  BY DEF Draining
<1> QED BY <1>1, DrainingAlways, PTL
=============================================================================
