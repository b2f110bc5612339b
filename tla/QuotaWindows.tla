---------------------------- MODULE QuotaWindows ----------------------------
(***************************************************************************)
(* The quota data of one Z.ai account (src/internal/providers/zai, files   *)
(* windows.go, credits.go and quota.go): the ledger of priced usage with   *)
(* its bounded duplicate filter, the rolling windows estimated from it,    *)
(* the parsed answer of the quota endpoint, and the view that prefers the  *)
(* answer while it is fresh.  Pure operators; ZaiRouting puts them to work. *)
(*                                                                         *)
(* Times are integers, 0 is Go's zero time.  Credits are integers.         *)
(***************************************************************************)
EXTENDS Integers, Sequences

CONSTANTS
    FiveHour, Weekly,  \* the two window lengths
    Retention,         \* how long the ledger keeps an event
    MaxAge,            \* how long an authoritative answer is fresh
    Threshold,         \* percent of a bucket at which a window is exhausted
    MaxCredits,        \* the largest credit amount (int64)
    MaxDedup,          \* how many hashes of usage records are kept
    Rates,             \* priced model -> credits per token of each kind
    Offpeak,           \* the times at which usage costs half
    None

ASSUME QuotaWindowsAssumption ==
    /\ {FiveHour, Weekly, Retention, MaxAge, Threshold, MaxCredits, MaxDedup} \subseteq Nat \ {0}
    /\ FiveHour < Weekly /\ Weekly < Retention
    /\ Threshold <= 100
    /\ \A m \in DOMAIN Rates : {Rates[m].input, Rates[m].cached, Rates[m].output} \subseteq Nat

NoTime == 0

---------------------------------------------------------------------------
(* The threshold, in the two steps that keep the product within int64.     *)

atOrAboveThreshold(consumed, bucket) ==
    bucket <= 0 \/ consumed >= (bucket \div 100) * Threshold + ((bucket % 100) * Threshold) \div 100

saturatingAdd(left, right) ==
    IF right > 0 /\ left > MaxCredits - right THEN MaxCredits ELSE left + right

---------------------------------------------------------------------------
(* The ledger: events [at, credits, record] in order of time, and the      *)
(* hashes of the records seen, the newest last.  A hash is the record      *)
(* itself: equal records have equal hashes.                                *)

DropFirst(s, n) == SubSeq(s, n + 1, Len(s))

(* Mutant of addEvent: the event goes to the end, in order of arrival. *)
appendEvent(events, e) == IF e.credits <= 0 THEN events ELSE Append(events, e)

addEvent(events, e) ==
    IF e.credits <= 0 THEN events
    ELSE LET later == {i \in DOMAIN events : events[i].at > e.at}
             index == IF later = {} THEN Len(events) ELSE (CHOOSE i \in later : \A j \in later : i <= j) - 1
         IN SubSeq(events, 1, index) \o <<e>> \o DropFirst(events, index)

(* Drops what is older than the retention; the events are in order.        *)
compact(events, now) ==
    LET kept == {i \in DOMAIN events : events[i].at > now - Retention}
    IN IF kept = {} THEN <<>> ELSE DropFirst(events, (CHOOSE i \in kept : \A j \in kept : i <= j) - 1)

seenDedup(hashes, record) == \E i \in DOMAIN hashes : hashes[i] = record

addHash(hashes, record) ==
    LET grown == Append(hashes, record)
    IN IF Len(grown) > MaxDedup THEN DropFirst(grown, Len(grown) - MaxDedup) ELSE grown

(* The price of a record at its time, None if its model has none.          *)
estimateUsageCredits(record, at) ==
    IF record.model \notin DOMAIN Rates THEN None
    ELSE LET rates == Rates[record.model]
             total == (record.input + record.created) * rates.input
                        + record.cached * rates.cached + record.output * rates.output
             cost == IF at \in Offpeak THEN total \div 2 ELSE total
         IN IF cost > MaxCredits THEN None ELSE cost

---------------------------------------------------------------------------
(* Windows: [consumed, bucket, resets].                                    *)

Active(e, now, duration) == e.at > now - duration /\ e.at <= now

Consumed(events, now, duration) ==
    LET sum[i \in 0 .. Len(events)] ==
            IF i = 0 THEN 0
            ELSE IF Active(events[i], now, duration) THEN saturatingAdd(sum[i - 1], events[i].credits)
            ELSE sum[i - 1]
    IN sum[Len(events)]

(* What remains of the use when the first i events have left the window.   *)
Remaining(consumed, events, now, duration) ==
    LET rest[i \in 0 .. Len(events)] ==
            IF i = 0 THEN consumed
            ELSE IF Active(events[i], now, duration) THEN rest[i - 1] - events[i].credits
            ELSE rest[i - 1]
    IN rest

(* Mutant of estimatedWindow: the window resets when its oldest event ends. *)
estimatedOldest(events, now, duration, bucket) ==
    LET active == {i \in DOMAIN events : Active(events[i], now, duration)}
        consumed == Consumed(events, now, duration)
    IN [consumed |-> consumed, bucket |-> bucket,
        resets |-> IF atOrAboveThreshold(consumed, bucket) /\ active # {}
                   THEN events[CHOOSE i \in active : \A j \in active : i <= j].at + duration ELSE NoTime]

(* Above the threshold, the window resets when enough of the oldest events *)
(* have left it.                                                           *)
estimatedWindow(events, now, duration, bucket) ==
    LET consumed == Consumed(events, now, duration)
        remaining == Remaining(consumed, events, now, duration)
        below == {i \in DOMAIN events : /\ Active(events[i], now, duration)
                                        /\ ~atOrAboveThreshold(remaining[i], bucket)}
    IN [consumed |-> consumed, bucket |-> bucket,
        resets |-> IF atOrAboveThreshold(consumed, bucket) /\ below # {}
                   THEN events[CHOOSE i \in below : \A j \in below : i <= j].at + duration
                   ELSE NoTime]

---------------------------------------------------------------------------
(* The answer of the quota endpoint: its limits in order, each [window,    *)
(* usage, current, reset]; window is "five", "weekly", "other" for a limit *)
(* of another type or length, "unreadable" if its unit or number is not a  *)
(* number, and usage or current is -1 if it does not parse.                *)

NoWindow == [consumed |-> 0, bucket |-> 0, resets |-> NoTime]

ValidLimit(limit, now) ==
    /\ limit.usage > 0 /\ limit.current \in 0 .. limit.usage
    /\ IF limit.reset = NoTime THEN limit.current = 0 ELSE limit.reset > now

parseQuotaWindow(limit) ==
    [consumed |-> limit.current, bucket |-> limit.usage, resets |-> limit.reset]

(* One window's limits in order: a second one erases the first and is not  *)
(* read itself; one that does not parse leaves what was there.             *)
ParsedWindow(limits, window, now) ==
    LET read[i \in 0 .. Len(limits)] ==
            IF i = 0 THEN None
            ELSE IF limits[i].window # window THEN read[i - 1]
            ELSE IF read[i - 1] = None /\ ValidLimit(limits[i], now) THEN parseQuotaWindow(limits[i])
            ELSE None
    IN read[Len(limits)]

(* No weekly window makes the whole answer useless; no five-hour window    *)
(* only marks that window unknown.                                         *)
parseQuotaResponse(wire, now) ==
    LET weekly == ParsedWindow(wire.limits, "weekly", now)
        five == ParsedWindow(wire.limits, "five", now)
    IN IF weekly = None THEN None
       ELSE [plan |-> wire.plan, weekly |-> weekly, five |-> IF five = None THEN NoWindow ELSE five,
             fiveError |-> five = None, at |-> now]

(* A poll: ok if the request is answered with status 200 and a whole body  *)
(* that decodes and does not mark itself unsuccessful.                     *)
fetchQuota(wire, now) == IF wire.ok THEN parseQuotaResponse(wire, now) ELSE None

---------------------------------------------------------------------------
Fresh(auth, now) == auth # None /\ auth.at <= now /\ now - auth.at <= MaxAge

(* The authoritative answer while it is fresh, with an estimate for a      *)
(* five-hour window it did not tell; else the estimate, against the        *)
(* fallback buckets of the account's plan.                                 *)
view(auth, events, buckets, now) ==
    LET five == estimatedWindow(events, now, FiveHour, buckets.five)
    IN IF Fresh(auth, now)
       THEN [five |-> IF auth.fiveError THEN five ELSE auth.five, weekly |-> auth.weekly]
       ELSE [five |-> five, weekly |-> estimatedWindow(events, now, Weekly, buckets.weekly)]

---------------------------------------------------------------------------
(* What state.json must satisfy to be written, and to be loaded again.     *)

ValidWindow(window, at) ==
    /\ window.bucket > 0 /\ window.consumed \in 0 .. window.bucket
    /\ window.resets = NoTime \/ window.resets > at

validateAccountQuotaState(quota, skew, now) ==
    /\ Len(quota.hashes) <= MaxDedup
    /\ quota.auth # None =>
        /\ quota.auth.at <= now + skew
        /\ ValidWindow(quota.auth.weekly, quota.auth.at)
        /\ IF quota.auth.fiveError THEN quota.auth.five = NoWindow
           ELSE ValidWindow(quota.auth.five, quota.auth.at)
    /\ \A i \in DOMAIN quota.events :
        /\ quota.events[i].at # NoTime /\ quota.events[i].at <= now + skew
        /\ quota.events[i].credits > 0
        /\ i > 1 => quota.events[i].at >= quota.events[i - 1].at

=============================================================================
