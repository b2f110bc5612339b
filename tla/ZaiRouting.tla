----------------------------- MODULE ZaiRouting -----------------------------
(***************************************************************************)
(* What the Z.ai module learns about its accounts over time, and how it    *)
(* routes by it (src/internal/providers/zai: handleUsage, pollOnce, pick,  *)
(* unblock and the load of the saved state).  The lifecycle around these   *)
(* handlers - snapshots, pollers, locks, saves that fail - is ZaiRuntime;  *)
(* here each handler runs whole, its save included, and the clock moves    *)
(* between them.  Time is in ticks.                                        *)
(***************************************************************************)
EXTENDS AccountHealth, FiniteSets

CONSTANTS
    Accounts,
    Disabled,       \* the accounts an operator has disabled
    Explicit,       \* the accounts whose plan or buckets are set by hand
    ConfiguredPlan, \* account -> its configured plan
    PlanBuckets,    \* plan -> its [five, weekly] buckets
    Deliveries,     \* the <<account, usage report>> pairs that may arrive
    Wires,          \* the <<account, answer>> pairs the endpoint may give
    Candidates,     \* the candidate sets of the pick requests
    Selections,     \* what an unblock may select: one account, or all
    ClockSkew,      \* how far in the future a usage record may lie
    StartTime, MaxTime,
    MaxInputs       \* bound on reports, polls, unblocks and restarts

ASSUME ZaiRoutingAssumption ==
    /\ Disabled \subseteq Accounts /\ Explicit \subseteq Accounts
    /\ {ClockSkew, StartTime, MaxTime, MaxInputs} \subseteq Nat
    /\ StartTime > 0 /\ StartTime <= MaxTime
    /\ ConfiguredPlan \in [Accounts -> DOMAIN PlanBuckets]
    /\ \A p \in DOMAIN PlanBuckets : {PlanBuckets[p].five, PlanBuckets[p].weekly} \subseteq 0 .. MaxCredits
    /\ Selections \subseteq SUBSET Accounts

(* What the host and the quota endpoint may send.                          *)
ASSUME InputAssumption ==
    /\ \A d \in Deliveries :
        /\ d[1] \in Accounts /\ d[2].status \in Nat /\ d[2].transient \in BOOLEAN
        /\ d[2].hint \in Nat \cup {None}
        /\ d[2].record # None =>
            {d[2].record.at, d[2].record.input, d[2].record.created, d[2].record.cached,
             d[2].record.output} \subseteq Nat
    /\ \A w \in Wires :
        /\ w[1] \in Accounts /\ w[2].ok \in BOOLEAN
        /\ w[2].plan \in DOMAIN PlanBuckets \cup {None}
        /\ w[2].limits \in Seq([window : STRING, usage : Int, current : Int, reset : Nat])

VARIABLES
    now,       \* the clock
    started,   \* when the process started
    health,    \* account -> its health (snapshot.Health)
    quota,     \* account -> [auth, events, hashes] (snapshot.Quota)
    plan,      \* account -> the plan whose buckets the estimator uses
    saved,     \* [health, quota] as state.json holds them
    inputs,    \* how many inputs there have been
    told,      \* history: account -> the latest block of each kind it was given,
               \* when its requests were throttled in a row (rate), and the
               \* block that too many such occasions may have earned it
    evicted    \* history: account -> the records whose hash was dropped

vars == <<now, started, health, quota, plan, saved, inputs, told, evicted>>

Latest(x, y) == IF x > y THEN x ELSE y

refreshCapacity(h, q, p, t) ==
    quotaCapacityHealth(h, view(q.auth, q.events, PlanBuckets[p], t))

(* state.json as persistenceSnapshotLocked builds it.                      *)
Save(hs, qs) == [health |-> [a \in Accounts |-> persisted(hs[a], now)], quota |-> qs]

NoQuota == [auth |-> None, events |-> <<>>, hashes |-> <<>>]

NeverTold == [suspended |-> NoTime, exhausted |-> NoTime, throttled |-> NoTime,
              rate |-> {}, earned |-> NoTime]

Init ==
    /\ now = StartTime /\ started = StartTime
    /\ health = [a \in Accounts |-> NoHealth]
    /\ quota = [a \in Accounts |-> NoQuota]
    /\ plan = ConfiguredPlan
    /\ saved = Save(health, quota)
    /\ inputs = 0
    /\ told = [a \in Accounts |-> NeverTold]
    /\ evicted = [a \in Accounts |-> {}]

Input == inputs < MaxInputs /\ inputs' = inputs + 1

---------------------------------------------------------------------------
(* A usage report: [status, transient, hint, record]; status 0 is success, *)
(* record is None for a failure that used no tokens, and otherwise stands  *)
(* for all that usageDedupHash reads.                                      *)

Failure(h, report, t) ==
    LET hint == validResetAt(report.hint, t)
    IN CASE report.status = 0 -> Served(h, t)
         [] report.status \in {401, 403} -> suspendUntil(h, t + SuspendDuration)
         [] report.status = 429 -> RateLimited(h, t, transientRateLimit(report), hint)
         [] report.status \notin {0, 401, 403, 429} -> h

usageTimestamp(record, t) == IF record.at = NoTime THEN t ELSE record.at

(* Mutant of Account: a record already seen is counted again. *)
AccountAgain(q, record, t) ==
    LET at == usageTimestamp(record, t)
        cost == estimateUsageCredits(record, at)
    IN IF at > t + ClockSkew \/ cost = None THEN q
       ELSE [q EXCEPT !.hashes = addHash(@, record),
                      !.events = compact(addEvent(@, [at |-> at, credits |-> cost, record |-> record]), t)]

(* A record too far in the future, seen before, or without a price leaves  *)
(* the events alone; only the last of these leaves a hash.                 *)
Account(q, record, t) ==
    LET at == usageTimestamp(record, t)
        cost == estimateUsageCredits(record, at)
        hashed == [q EXCEPT !.hashes = addHash(@, record)]
    IN IF at > t + ClockSkew \/ seenDedup(q.hashes, record) THEN q
       ELSE IF cost = None THEN hashed
       ELSE [hashed EXCEPT !.events = compact(addEvent(@, [at |-> at, credits |-> cost, record |-> record]), t)]

(* What the report told of the account, by itself: a request-rate 429 with *)
(* a hint beyond the cap, or on an account last seen without allowance, is *)
(* a block like any other 429.                                             *)
Hear(t, h, report) ==
    LET hint == validResetAt(report.hint, now)
        rated == report.transient /\ ~h.capacity /\ hint <= now + BackoffCap
        served == report.status = 0 /\ h.throttled <= now
    IN CASE report.status \in {401, 403} -> [t EXCEPT !.suspended = Latest(@, now + SuspendDuration)]
         [] report.status = 429 /\ rated ->
              [t EXCEPT !.throttled = Latest(@, hint), !.rate = @ \cup {now},
                        !.earned = IF Cardinality(t.rate \cup {now}) > MaxThrottles
                                   THEN Latest(@, rateLimitReset(h, now)) ELSE @]
         [] report.status = 429 /\ ~rated ->
              [t EXCEPT !.exhausted = Latest(@, IF hint # NoTime THEN hint ELSE rateLimitReset(h, now))]
         [] report.status \notin {401, 403, 429} -> IF served THEN [t EXCEPT !.rate = {}] ELSE t

HandleUsage(a, report) ==
    LET q == IF report.record = None THEN quota[a] ELSE Account(quota[a], report.record, now)
        h == refreshCapacity(Failure(health[a], report, now), q, plan[a], now)
    IN /\ Input
       /\ quota' = [quota EXCEPT ![a] = q]
       /\ health' = [health EXCEPT ![a] = h]
       /\ saved' = Save(health', quota')
       /\ told' = [told EXCEPT ![a] = Hear(@, health[a], report)]
       /\ evicted' = [evicted EXCEPT ![a] = @ \cup
              {quota[a].hashes[i] : i \in {j \in DOMAIN quota[a].hashes : ~seenDedup(q.hashes, quota[a].hashes[j])}}]
       /\ UNCHANGED <<now, started, plan>>

---------------------------------------------------------------------------
(* A named plan the endpoint reports replaces the plan of an account whose *)
(* plan and buckets were not set by hand.                                  *)
syncPlanFromUpstream(a, old, reported) ==
    IF reported = None \/ a \in Explicit THEN old ELSE reported

(* A poll asked at time t, answered now: the answer is stamped, and the    *)
(* capacity recomputed, as of t.                                           *)
Poll(a, wire, t) ==
    LET answer == fetchQuota(wire, t)
        p == IF answer = None THEN plan[a] ELSE syncPlanFromUpstream(a, plan[a], answer.plan)
        q == IF answer = None THEN quota[a] ELSE [quota[a] EXCEPT !.auth = answer]
    IN /\ Input
       /\ a \notin Disabled
       /\ quota' = [quota EXCEPT ![a] = q]
       /\ plan' = [plan EXCEPT ![a] = p]
       /\ health' = [health EXCEPT ![a] = refreshCapacity(@, q, p, t)]
       /\ saved' = Save(health', quota')
       /\ UNCHANGED <<now, started, told, evicted>>

---------------------------------------------------------------------------
(* pick: candidates are accounts, "unmanaged" for a recognised Z.ai        *)
(* credential no account owns, and "foreign" for any other.                *)

Refreshed(a) == refreshCapacity(health[a], quota[a], plan[a], now)

Status(a) == assess(Refreshed(a), a \in Disabled, now)

(* What pick answers: it delegates over healthy accounts only, else picks  *)
(* a healthy one (by rotation or session hash: any of them), else says     *)
(* whether waiting for the earliest throttle helps.                        *)
PickAnswer(candidates) ==
    LET managed == candidates \cap Accounts
        statuses == {<<a, Status(a)>> : a \in managed}
        healthy == {a \in managed : <<a, "healthy">> \in statuses}
        throttled == {a \in managed : <<a, "throttled">> \in statuses}
        waits == {health[a].throttled - now : a \in throttled}
    IN IF "unmanaged" \in candidates THEN [kind |-> "unmanaged"]
       ELSE IF managed = {} THEN [kind |-> "unhandled"]
       ELSE IF healthy = managed THEN [kind |-> "delegate", accounts |-> managed]
       ELSE IF healthy # {} THEN [kind |-> "choose", accounts |-> healthy]
       ELSE IF throttled # {}
       THEN [kind |-> "rate_limited", wait |-> CHOOSE w \in waits : \A v \in waits : w <= v]
       ELSE [kind |-> "no_capacity"]

(* A pick leaves the recomputed capacity of its managed candidates behind, *)
(* of those before the unmanaged one if there is one.  The rotation it     *)
(* also advances decides only which of the healthy accounts is picked.     *)
Pick(candidates) ==
    /\ \E seen \in IF "unmanaged" \in candidates THEN SUBSET (candidates \cap Accounts)
                  ELSE {candidates \cap Accounts} :
            health' = [a \in Accounts |-> IF a \in seen THEN Refreshed(a) ELSE health[a]]
    /\ UNCHANGED <<now, started, quota, plan, saved, inputs, told, evicted>>

(* A status request recomputes every account.                              *)
managementStatus ==
    /\ health' = [a \in Accounts |-> Refreshed(a)]
    /\ UNCHANGED <<now, started, quota, plan, saved, inputs, told, evicted>>

---------------------------------------------------------------------------
(* The management request that lifts the blocks of the accounts selected,  *)
(* suspension apart.  It is not saved.                                     *)
unblock(selected) ==
    LET q == [a \in Accounts |-> IF a \in selected THEN [quota[a] EXCEPT !.events = compact(@, now)]
                                ELSE quota[a]]
        lifted(h) == clearThrottle([h EXCEPT !.exhausted = NoTime])
    IN /\ Input
       /\ quota' = q
       /\ health' = [a \in Accounts |->
              IF a \in selected THEN refreshCapacity(lifted(health[a]), q[a], plan[a], now) ELSE health[a]]
       /\ told' = [a \in Accounts |-> IF a \in selected
                                     THEN [NeverTold EXCEPT !.suspended = told[a].suspended]
                                     ELSE told[a]]
       /\ UNCHANGED <<now, started, plan, saved, evicted>>

(* Mutant of Restart: the plan in the saved answer is not looked at. *)
RestartConfiguredPlans ==
    LET q == [a \in Accounts |-> [saved.quota[a] EXCEPT !.events = compact(@, now)]]
    IN /\ Input
       /\ started' = now
       /\ quota' = q
       /\ plan' = ConfiguredPlan
       /\ health' = [a \in Accounts |->
              refreshCapacity(restorePersistedHealth(saved.health[a], now), q[a], plan'[a], now)]
       /\ UNCHANGED <<now, saved, told, evicted>>

(* A restart: the configured plans, the saved quota and health.  The plan  *)
(* is taken from the saved answer, if that names one.                      *)
Restart ==
    LET q == [a \in Accounts |-> [saved.quota[a] EXCEPT !.events = compact(@, now)]]
        p == [a \in Accounts |-> IF q[a].auth = None THEN ConfiguredPlan[a]
                                 ELSE syncPlanFromUpstream(a, ConfiguredPlan[a], q[a].auth.plan)]
    IN /\ Input
       /\ started' = now
       /\ quota' = q
       /\ plan' = p
       /\ health' = [a \in Accounts |->
              refreshCapacity(restorePersistedHealth(saved.health[a], now), q[a], p[a], now)]
       /\ told' = [a \in Accounts |-> [told[a] EXCEPT !.throttled = NoTime, !.rate = {},
                                                      !.exhausted = Latest(@, saved.health[a].exhausted)]]
       /\ UNCHANGED <<now, saved, evicted>>

Tick ==
    /\ now < MaxTime
    /\ now' = now + 1
    /\ UNCHANGED <<started, health, quota, plan, saved, inputs, told, evicted>>

Next ==
    \/ \E d \in Deliveries : HandleUsage(d[1], d[2])
    \/ \E w \in Wires, t \in {now - 1, now} : t >= started /\ Poll(w[1], w[2], t)
    \/ \E c \in Candidates : Pick(c)
    \/ managementStatus
    \/ \E s \in Selections : unblock(s)
    \/ Restart
    \/ Tick

Spec == Init /\ [][Next]_vars

---------------------------------------------------------------------------
(* Properties                                                              *)

(* The health of an account stays within its types: in particular the      *)
(* streak of throttles is cut off at its maximum.                          *)
TypeOK ==
    /\ now \in StartTime .. MaxTime /\ started \in StartTime .. now
    /\ health \in [Accounts -> [suspended : Nat, exhausted : Nat, capacity : BOOLEAN,
                                resets : Nat, throttled : Nat, streak : 0 .. MaxThrottles]]
    /\ plan \in [Accounts -> DOMAIN PlanBuckets]
    /\ inputs \in 0 .. MaxInputs
    /\ \A a \in Accounts : {told[a].suspended, told[a].exhausted, told[a].throttled} \subseteq Nat

(* Whatever the order in which usage records and quota answers arrive, the *)
(* state that handleUsage, pollOnce and unblock leave can be written to    *)
(* state.json, and what was written loads at any later time: its events    *)
(* are in order, its answer consistent (validateAccountQuotaState).        *)
SavedStateLoads ==
    \A a \in Accounts :
        /\ validateAccountQuotaState(quota[a], ClockSkew, now)
        /\ validateAccountQuotaState(saved.quota[a], ClockSkew, now)

Blocked(a) == told[a].suspended > now \/ told[a].exhausted > now \/ told[a].throttled > now

(* No pick, by choosing or by delegating to the host, reaches an account   *)
(* that is disabled or still within a block it was told of: the longest    *)
(* suspension, the longest 429 reset, the longest retry hint, across later *)
(* shorter failures, polls, picks, successes and restarts (a throttle is   *)
(* forgotten by a restart, blocks but the suspension by an unblock).       *)
PickAvoidsBlocked ==
    \A c \in Candidates :
        LET answer == PickAnswer(c)
        IN answer.kind \in {"delegate", "choose"} =>
            /\ answer.accounts # {}
            /\ \A a \in answer.accounts : a \notin Disabled /\ ~Blocked(a)

(* The exact use of a window, and whether it reaches the threshold.        *)
Used(events, from, to) ==
    LET sum[i \in 0 .. Len(events)] ==
            IF i = 0 THEN 0
            ELSE sum[i - 1] + IF events[i].at > from /\ events[i].at <= to THEN events[i].credits ELSE 0
    IN sum[Len(events)]

Reaches(used, bucket) == 100 * (used + 1) > bucket * Threshold

Spent(a) ==
    LET auth == quota[a].auth
        fresh == Fresh(auth, now)
        bucket == PlanBuckets[plan[a]]
        estimate(d, b) == Reaches(Used(quota[a].events, now - d, now), b)
    IN \/ IF fresh THEN Reaches(auth.weekly.consumed, auth.weekly.bucket)
          ELSE estimate(Weekly, bucket.weekly)
       \/ IF fresh /\ ~auth.fiveError THEN Reaches(auth.five.consumed, auth.five.bucket)
          ELSE estimate(FiveHour, bucket.five)

(* pick reports the lane lost only if every managed candidate is disabled, *)
(* in a block it was told of, has really spent its allowance, or was sent  *)
(* away by request-rate 429s on more than MaxThrottles distinct occasions  *)
(* since it last served; and it asks to retry only if a throttle is all    *)
(* that stands in the way of some candidate, for no longer than the cap.   *)
LossIsJustified ==
    \A c \in Candidates :
        LET answer == PickAnswer(c)
            lost(a) == a \in Disabled \/ told[a].suspended > now \/ told[a].exhausted > now \/ Spent(a)
                        \/ told[a].earned > now
        IN /\ answer.kind = "no_capacity" => \A a \in c \cap Accounts : lost(a)
           /\ answer.kind = "rate_limited" =>
                /\ answer.wait \in 1 .. BackoffCap
                /\ \E a \in c \cap Accounts : a \notin Disabled /\ ~Spent(a)

(* The reset the estimator promises for a window at its threshold is the   *)
(* first moment at which the window, left alone, is below it again: not    *)
(* one tick later, and never earlier (docs: "earliest expiry after which   *)
(* utilization is below threshold").  Records from the future, which the   *)
(* estimate leaves out until their time comes, are excluded.               *)
EstimateResetExact ==
    \A a \in Accounts, w \in {<<FiveHour, "five">>, <<Weekly, "weekly">>} :
        LET events == quota[a].events
            bucket == PlanBuckets[plan[a]][w[2]]
            estimate == estimatedWindow(events, now, w[1], bucket)
            over(t) == Reaches(Used(events, t - w[1], t), bucket)
        IN (\A i \in DOMAIN events : events[i].at <= now) =>
            IF over(now)
            THEN /\ estimate.resets > now
                 /\ ~over(estimate.resets)
                 /\ \A t \in now .. estimate.resets - 1 : over(t)
            ELSE estimate.resets = NoTime

(* A usage record is charged once however often it is delivered, also over *)
(* a restart, unless the bounded filter has dropped its hash in between.   *)
CountedOnce ==
    \A a \in Accounts : \A i, j \in DOMAIN quota[a].events :
        quota[a].events[i].record = quota[a].events[j].record =>
            i = j \/ quota[a].events[i].record \in evicted[a]

(* The estimator's buckets are those of the plan named by the answer the   *)
(* account holds, unless the operator chose them, also after a restart     *)
(* from a configuration with another plan (pollOnce: an account upstream   *)
(* reports as Lite "must fall back to Lite capacity during an outage, not  *)
(* the stale configured buckets").                                         *)
PlanFollowsAnswer ==
    \A a \in Accounts \ Explicit :
        quota[a].auth # None /\ quota[a].auth.plan # None => plan[a] = quota[a].auth.plan

=============================================================================
