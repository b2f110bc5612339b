--------------------------- MODULE AccountHealth ---------------------------
(***************************************************************************)
(* The health of one Z.ai account (src/internal/providers/zai, health.go   *)
(* and failures.go): suspension after an authentication failure, the       *)
(* exhaustion block of a 429, the bounded request-rate throttle with its   *)
(* streak, and the quota capacity last computed.  Pure operators.          *)
(***************************************************************************)
EXTENDS QuotaWindows

CONSTANTS
    SuspendDuration, FallbackCooldown,
    BackoffBase, BackoffCap,  \* the ladder of throttles
    MaxThrottles,             \* throttles in a row before escalation
    StreakDecay,              \* quiet time after which a streak is forgotten
    MaxHint                   \* how far ahead a reset hint may lie

ASSUME AccountHealthAssumption ==
    /\ {SuspendDuration, FallbackCooldown, BackoffBase, BackoffCap, MaxThrottles,
        StreakDecay, MaxHint} \subseteq Nat \ {0}
    /\ BackoffBase <= BackoffCap

NoHealth == [suspended |-> NoTime, exhausted |-> NoTime, capacity |-> FALSE, resets |-> NoTime,
             throttled |-> NoTime, streak |-> 0]

suspendUntil(h, at) == IF at > h.suspended THEN [h EXCEPT !.suspended = at] ELSE h

(* Mutant of exhaustUntil: the latest 429 decides. *)
exhaustLatest(h, at) == [h EXCEPT !.exhausted = at]

exhaustUntil(h, at) == IF at > h.exhausted THEN [h EXCEPT !.exhausted = at] ELSE h

(* Base, twice, four times ... the base, at most the cap and the fallback. *)
requestRateBackoff(streak) ==
    LET delay[n \in 0 .. streak] ==
            IF n <= 1 \/ delay[n - 1] >= BackoffCap
            THEN IF n <= 1 THEN BackoffBase ELSE delay[n - 1]
            ELSE 2 * delay[n - 1]
        least(x, y) == IF x <= y THEN x ELSE y
    IN least(least(delay[streak], BackoffCap), FallbackCooldown)

clearThrottle(h) == [h EXCEPT !.throttled = NoTime, !.streak = 0]

(* parseRateLimitHint, by what it makes of the headers and the body: a     *)
(* delay, or None.  One that is not in the future, or too far in it, is no *)
(* hint.                                                                   *)
validResetAt(hint, now) == IF hint # None /\ hint > 0 /\ hint <= MaxHint THEN now + hint ELSE NoTime

(* Mutant of throttle: the streak is never cut off. *)
throttleEndless(h, now, hinted) ==
    IF h.throttled > now
    THEN [health |-> IF hinted > h.throttled THEN [h EXCEPT !.throttled = hinted] ELSE h,
          escalate |-> FALSE]
    ELSE [health |-> [h EXCEPT !.streak = @ + 1,
                               !.throttled = IF hinted > now THEN hinted
                                             ELSE now + requestRateBackoff(h.streak + 1)],
          escalate |-> FALSE]

(* Mutant of throttle: a 429 during a throttle advances the streak. *)
throttleBurst(h, now, hinted) ==
    IF h.streak >= MaxThrottles
    THEN [health |-> clearThrottle(h), escalate |-> TRUE]
    ELSE [health |-> [h EXCEPT !.streak = @ + 1,
                               !.throttled = IF hinted > now THEN hinted
                                             ELSE now + requestRateBackoff(h.streak + 1)],
          escalate |-> FALSE]

(* One request-rate step: the new health, and whether to escalate.  During *)
(* a throttle only a later hint moves its end.                             *)
throttle(h, now, hinted) ==
    IF h.throttled > now
    THEN [health |-> IF hinted > h.throttled THEN [h EXCEPT !.throttled = hinted] ELSE h,
          escalate |-> FALSE]
    ELSE LET streak == IF h.streak > 0 /\ now - h.throttled >= StreakDecay THEN 0 ELSE h.streak
         IN IF streak >= MaxThrottles
            THEN [health |-> clearThrottle(h), escalate |-> TRUE]
            ELSE [health |-> [h EXCEPT !.streak = streak + 1,
                                       !.throttled = IF hinted > now THEN hinted
                                                     ELSE now + requestRateBackoff(streak + 1)],
                  escalate |-> FALSE]

(* Whether a 429 carries one of the documented request-rate codes.         *)
transientRateLimit(report) == report.status = 429 /\ report.transient

rateLimitReset(h, now) == IF h.resets > now THEN h.resets ELSE now + FallbackCooldown

(* A documented request-rate 429 on an account with allowance left, whose  *)
(* hint is short, throttles; any other 429, and a sustained streak,        *)
(* exhausts until the hint or, without one, the known or fallback reset.   *)
RateLimited(h, now, transient, hint) ==
    LET short == hint = NoTime \/ hint <= now + BackoffCap
        step == throttle(h, now, hint)
    IN IF ~(transient /\ ~h.capacity /\ short)
       THEN exhaustUntil(h, IF hint # NoTime THEN hint ELSE rateLimitReset(h, now))
       ELSE IF step.escalate THEN exhaustUntil(step.health, rateLimitReset(step.health, now))
       ELSE step.health

(* A served request after the throttle has passed ends the streak.         *)
Served(h, now) == IF h.streak > 0 /\ h.throttled <= now THEN clearThrottle(h) ELSE h

(* The capacity a view of the quota leaves: exhausted while either window  *)
(* is, until the later of their resets.                                    *)
quotaCapacityHealth(h, v) ==
    LET five == atOrAboveThreshold(v.five.consumed, v.five.bucket)
        weekly == atOrAboveThreshold(v.weekly.consumed, v.weekly.bucket)
    IN [h EXCEPT !.capacity = five \/ weekly,
                 !.resets = IF weekly /\ (~five \/ v.five.resets = NoTime \/ v.weekly.resets > v.five.resets)
                            THEN v.weekly.resets
                            ELSE IF five THEN v.five.resets ELSE NoTime]

(* What is written to disk: the blocks that have not passed.  The throttle *)
(* lives in memory only.                                                   *)
persisted(h, now) ==
    [suspended |-> IF h.suspended > now THEN h.suspended ELSE NoTime,
     exhausted |-> IF h.exhausted > now THEN h.exhausted ELSE NoTime]

restorePersistedHealth(saved, now) ==
    [NoHealth EXCEPT !.suspended = IF saved.suspended > now THEN saved.suspended ELSE NoTime,
                     !.exhausted = IF saved.exhausted > now THEN saved.exhausted ELSE NoTime]

(* The first that applies.                                                 *)
assess(h, disabled, now) ==
    CASE disabled -> "disabled"
      [] ~disabled /\ h.suspended > now -> "suspended"
      [] ~disabled /\ h.suspended <= now /\ (h.exhausted > now \/ h.capacity) -> "exhausted"
      [] ~disabled /\ h.suspended <= now /\ h.exhausted <= now /\ ~h.capacity ->
            IF h.throttled > now THEN "throttled" ELSE "healthy"

=============================================================================
