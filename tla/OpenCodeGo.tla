----------------------------- MODULE OpenCodeGo -----------------------------
(***************************************************************************)
(* The opencode-go provider module                                         *)
(* (internal/providers/opencodego/module.go, quota.go): accounts with      *)
(* quota windows that learn from 429 responses and from polls of the usage *)
(* endpoint, the pick that avoids blocked accounts, reconfigure and close. *)
(*                                                                         *)
(* The module's one mutex is the atomicity of an action.  A poll drops it  *)
(* between the request and its answer, so Status is three actions.  Time   *)
(* is a counter that starts at 1; 0 is Go's zero time.  Usage is reported  *)
(* late and in any order: a record carries the time of its request.        *)
(*                                                                         *)
(* Names are taken as already trimmed and folded, and a URL, a header or a *)
(* body is what its parser makes of it.                                    *)
(***************************************************************************)
EXTENDS Naturals, Sequences, FiniteSets

CONSTANTS
  Names,       \* account names
  AuthIDs,     \* auth ids, as numbers: Pick sorts them
  Kinds,       \* the quota windows of an account
  Keys,        \* dashboard keys
  RawConfigs,  \* provider configurations the host may pass
  Requests,    \* the candidate lists the host may ask about
  Reported,    \* bound: the auth ids usage is reported for
  Callers,     \* concurrent calls of Status
  Percents,    \* percentages the usage endpoint may report
  Offsets,     \* reset times announced, counted from the request
  MaxReset,    \* maxResetFuture
  Cooldown,    \* defaultFailureCooldown
  PollGap,     \* minPollInterval
  Rotation,    \* a cursor is kept modulo this common multiple of list lengths
  MaxTime,     \* bound on the clock
  MaxConfigs,  \* bound on successful reconfigures
  None

(* What the host passes: provider configurations, and the candidates of a  *)
(* request.                                                                *)
RawAccount == [name : Names \cup {None}, ids : SUBSET AuthIDs, connection : AuthIDs \cup {None},
               key : Keys \cup {None}, disabled : BOOLEAN]
RawConfig == [enabled : BOOLEAN, threshold : Nat, key : Keys \cup {None},
              accounts : Seq(RawAccount)]
Candidate == [id : Nat, claims : SUBSET {"own", "other"}]

ASSUME OpenCodeGoAssumption ==
  /\ RawConfigs \subseteq RawConfig /\ Requests \subseteq Seq(Candidate)
  /\ AuthIDs \subseteq Nat /\ Percents \subseteq Nat /\ Offsets \subseteq Nat
  /\ IsFiniteSet(AuthIDs) /\ Reported \subseteq AuthIDs
  /\ {MaxReset, Cooldown, PollGap, Rotation, MaxTime, MaxConfigs} \subseteq Nat \ {0}
  /\ \A n \in 1..Cardinality(AuthIDs) : Rotation % n = 0
  /\ None \notin Names \cup Keys

VARIABLES
  now,      \* the clock
  state,    \* *moduleState, or None
  closed,
  gen,      \* number of configurations taken
  status,   \* the calls of Status in progress
  answer    \* what the last Pick returned, until the next step

vars == <<now, state, closed, gen, status, answer>>

(* A utilization of nil is 0: accountHealthy takes them alike. *)
Window == [known : BOOLEAN, authoritative : BOOLEAN, exhausted : BOOLEAN, percent : Nat,
           resetAt : Nat, cooldownAt : Nat, observedAt : Nat]
NoWindow == [known |-> FALSE, authoritative |-> FALSE, exhausted |-> FALSE, percent |-> 0,
             resetAt |-> 0, cooldownAt |-> 0, observedAt |-> 0]

(* History, per window: the latest reset a 429 announced and the latest    *)
(* time a 429 blocks until, both since the last poll that was taken, and   *)
(* the reset that poll gave if it found the window exhausted.  A time that *)
(* has passed is 0.                                                        *)
Heard == [announced : Nat, until : Nat, reported : Nat]
Unheard == [announced |-> 0, until |-> 0, reported |-> 0]

(* born and heard are history: the configuration the entry was created by  *)
(* and what has been heard of it.                                          *)
Account == [ids : SUBSET AuthIDs, key : Keys \cup {None}, disabled : BOOLEAN,
            cursor : 0..(Rotation - 1), lastPollAt : Nat, windows : [Kinds -> Window],
            born : Nat, heard : [Kinds -> Heard]]

NoAnswer == [outcome |-> "none", id |-> 0, asked |-> <<>>]
Idle == [pc |-> "idle", start |-> 0, targets |-> <<>>]
Report == [Idle EXCEPT !.pc = "report"]

Later(a, b) == IF a > b THEN a ELSE b
-----------------------------------------------------------------------------
(* Configuration.  A raw account has a name, auth ids, a connection id, a  *)
(* dashboard key and the disabled flag; None is an absent one.             *)

(* parseConfig: None when the configuration is refused. *)
parseConfig(raw) ==
  LET ids(a) == a.ids \cup (IF a.connection = None THEN {} ELSE {a.connection})
      key(a) == IF a.key = None THEN raw.key ELSE a.key
  IN IF \/ raw.threshold \notin 1..100
        \/ \E i \in DOMAIN raw.accounts :
             raw.accounts[i].name = None \/ ids(raw.accounts[i]) = {}
     THEN None
     ELSE [enabled |-> raw.enabled, threshold |-> raw.threshold,
           accounts |-> [i \in DOMAIN raw.accounts |->
             [name |-> raw.accounts[i].name, ids |-> ids(raw.accounts[i]),
              key |-> key(raw.accounts[i]), disabled |-> raw.accounts[i].disabled]]]

(* buildState: None when two accounts share a name or an auth id. *)
buildState(cfg) ==
  LET items == IF cfg.enabled THEN cfg.accounts ELSE <<>>
      item(n) == CHOOSE i \in DOMAIN items : items[i].name = n
  IN IF \E i, j \in DOMAIN items :
          i # j /\ (items[i].name = items[j].name \/ items[i].ids \cap items[j].ids # {})
     THEN None
     ELSE [threshold |-> cfg.threshold,
           accounts |-> [n \in {items[i].name : i \in DOMAIN items} |->
             [ids |-> items[item(n)].ids, key |-> items[item(n)].key,
              disabled |-> items[item(n)].disabled, cursor |-> 0, lastPollAt |-> 0,
              windows |-> [k \in Kinds |-> NoWindow],
              born |-> gen + 1, heard |-> [k \in Kinds |-> Unheard]]]]

(* Mutant of carryForwardState: the time of the last poll is not carried. *)
carryForwardForgetsPoll(staged, previous) ==
  IF previous = None THEN staged
  ELSE [staged EXCEPT !.accounts = [n \in DOMAIN @ |->
    IF n \in DOMAIN previous.accounts /\ @[n].ids = previous.accounts[n].ids
    THEN [@[n] EXCEPT !.cursor = previous.accounts[n].cursor,
                      !.windows = previous.accounts[n].windows,
                      !.born = previous.accounts[n].born, !.heard = previous.accounts[n].heard]
    ELSE @[n]]]

(* carryForwardState: an account keeps its live state if its name and its  *)
(* auth ids are unchanged.                                                 *)
carryForwardState(staged, previous) ==
  IF previous = None THEN staged
  ELSE [staged EXCEPT !.accounts = [n \in DOMAIN @ |->
    IF n \in DOMAIN previous.accounts /\ @[n].ids = previous.accounts[n].ids
    THEN [previous.accounts[n] EXCEPT !.key = staged.accounts[n].key,
                                      !.disabled = staged.accounts[n].disabled]
    ELSE @[n]]]

(* Mutant of Reconfigure: closed is not looked at. *)
ReconfigureReopens(raw) ==
  LET cfg == parseConfig(raw)
      staged == IF cfg = None THEN None ELSE buildState(cfg)
  IN /\ answer' = NoAnswer
     /\ UNCHANGED <<now, closed, status>>
     /\ staged # None /\ gen < MaxConfigs
     /\ state' = carryForwardState(staged, state)
     /\ gen' = gen + 1

(* Reconfigure: a refused configuration leaves the module as it was, and   *)
(* so does any once it is closed.  The error text it records for Status is *)
(* left out.                                                               *)
Reconfigure(raw) ==
  LET cfg == parseConfig(raw)
      staged == IF cfg = None THEN None ELSE buildState(cfg)
  IN /\ answer' = NoAnswer
     /\ UNCHANGED <<now, closed, status>>
     /\ \/ (staged = None \/ closed) /\ UNCHANGED <<state, gen>>
        \/ /\ staged # None /\ ~closed /\ gen < MaxConfigs
           /\ state' = carryForwardState(staged, state)
           /\ gen' = gen + 1
-----------------------------------------------------------------------------
(* Windows *)

(* Mutant of mergeWindowSignal: a 429 always replaces the window. *)
mergeTakesLast(current, incoming) ==
  IF ~incoming.authoritative \/ ~current.known \/ incoming.observedAt >= current.observedAt
  THEN incoming
  ELSE current

(* mergeWindowSignal: whether incoming replaces current. *)
mergeWindowSignal(current, incoming) ==
  IF \/ ~current.known
     \/ incoming.authoritative /\ incoming.observedAt >= current.observedAt
     \/ /\ ~incoming.authoritative
        /\ ~(/\ current.exhausted
             /\ current.resetAt > incoming.observedAt
             /\ current.resetAt > incoming.resetAt)
  THEN incoming
  ELSE current

(* Mutant of refreshWindows: only the exhaustion is cleared. *)
refreshKeepsUtilization(account, t) ==
  [account EXCEPT !.windows = [k \in Kinds |->
    IF @[k].cooldownAt # 0 /\ @[k].cooldownAt <= t
    THEN [@[k] EXCEPT !.exhausted = FALSE, !.cooldownAt = 0]
    ELSE @[k]]]

(* refreshWindows: a window whose cooldown is over is forgotten. *)
refreshWindows(account, t) ==
  [account EXCEPT !.windows = [k \in Kinds |->
    IF @[k].cooldownAt # 0 /\ @[k].cooldownAt <= t THEN NoWindow ELSE @[k]]]

accountHealthy(account, threshold, t) ==
  /\ ~account.disabled
  /\ \A k \in Kinds :
       /\ ~(/\ account.windows[k].exhausted
            /\ account.windows[k].cooldownAt = 0 \/ account.windows[k].cooldownAt > t)
       /\ account.windows[k].percent < threshold

Managed(id) == state # None /\ \E n \in DOMAIN state.accounts : id \in state.accounts[n].ids
AccountOf(id) == CHOOSE n \in DOMAIN state.accounts : id \in state.accounts[n].ids
-----------------------------------------------------------------------------
(* Usage.  RequestedAt is at; offset is what the Retry-After header or,    *)
(* failing that, the body announces, and 0 if neither does.                *)

(* retryAfterReset, bodyReset: 0 unless the reset is ahead and near. *)
announcedReset(at, offset) == IF offset \in 1..MaxReset THEN at + offset ELSE 0

(* The window state a 429 stands for: it blocks until the announced reset  *)
(* or for the cooldown.                                                    *)
inferredWindow(at, reset) ==
  [known |-> TRUE, authoritative |-> FALSE, exhausted |-> TRUE, percent |-> 100,
   resetAt |-> reset, cooldownAt |-> IF reset # 0 THEN reset ELSE at + Cooldown,
   observedAt |-> at]

(* HandleUsage of a 429 that names a window. *)
HandleUsage(id, kind, at, offset) ==
  LET reset == announcedReset(at, offset)
      incoming == inferredWindow(at, reset)
      name == AccountOf(id)
      merged == mergeWindowSignal(state.accounts[name].windows[kind], incoming)
      heard == state.accounts[name].heard[kind]
  IN /\ Managed(id)
     /\ state' = [state EXCEPT
          !.accounts[name].windows[kind] =
            [merged EXCEPT !.cooldownAt = Later(@, incoming.cooldownAt)],
          !.accounts[name].heard[kind] =
            [heard EXCEPT !.announced = Later(@, reset),
                          !.until = Later(@, incoming.cooldownAt)]]
     /\ answer' = NoAnswer
     /\ UNCHANGED <<now, closed, gen, status>>

(* HandleUsage of anything else: a success, another failure, a brief 403   *)
(* throttle page or an auth id that is not managed changes nothing.        *)
IgnoreUsage(id, quota) ==
  /\ ~quota \/ ~Managed(id)
  /\ answer' = NoAnswer
  /\ UNCHANGED <<now, state, closed, gen, status>>
-----------------------------------------------------------------------------
(* Pick.  A candidate has an auth id and the set of claims its provider    *)
(* attributes make: "own" (this provider), "other", both or none.          *)

Eligible(c) == Managed(c.id) /\ "other" \notin c.claims
Unmanaged(c) == "own" \in c.claims /\ ~Managed(c.id)

(* The candidates the loop of Pick reaches before it gives up. *)
Reached(request) ==
  {i \in DOMAIN request : \A j \in 1..i : ~Unmanaged(request[j])}

(* The accounts after the loop has refreshed the windows it looked at. *)
Refreshed(request) ==
  [n \in DOMAIN state.accounts |->
    IF \E i \in Reached(request) : Eligible(request[i]) /\ AccountOf(request[i].id) = n
    THEN refreshWindows(state.accounts[n], now)
    ELSE state.accounts[n]]

(* Auth ids of the candidates whose account is healthy. *)
Fit(request, accounts) ==
  {id \in {request[i].id : i \in {i \in DOMAIN request : Eligible(request[i])}} :
     accountHealthy(accounts[AccountOf(id)], state.threshold, now)}

(* The n-th smallest member of a set of numbers, from 0. *)
Nth(S, n) == CHOOSE x \in S : Cardinality({y \in S : y < x}) = n

Pick(request) ==
  LET accounts == IF state = None THEN <<>> ELSE Refreshed(request)
      fit == IF state = None THEN {} ELSE Fit(request, accounts)
      lead == AccountOf(Nth(fit, 0))
      outcome ==
        CASE state = None -> "not_configured"
          [] state # None /\ \E i \in DOMAIN request : Unmanaged(request[i]) -> "unmanaged_candidate"
          [] state # None /\ \A i \in DOMAIN request :
               "own" \notin request[i].claims /\ ~Eligible(request[i]) -> "unhandled"
          [] OTHER -> IF fit = {} THEN "no_capacity" ELSE "picked"
  IN /\ answer' = [outcome |-> outcome, asked |-> request,
                   id |-> IF outcome = "picked"
                          THEN Nth(fit, accounts[lead].cursor % Cardinality(fit)) ELSE 0]
     /\ state' = IF state = None THEN None
                 ELSE [state EXCEPT !.accounts =
                        IF outcome = "picked"
                        THEN [accounts EXCEPT ![lead].cursor = (@ + 1) % Rotation]
                        ELSE accounts]
     /\ UNCHANGED <<now, closed, gen, status>>
-----------------------------------------------------------------------------
(* Status and its poll of the usage endpoint *)

(* The accounts pollUsageOnce asks for: those with a key that were not     *)
(* asked for within the last PollGap.                                      *)
Due(account) ==
  account.key # None /\ (account.lastPollAt = 0 \/ now - account.lastPollAt >= PollGap)

(* pollUsageOnce up to the request.  What is asked is fixed here: the      *)
(* names, their keys and the time the answers will carry.                  *)
BeginStatus(c) ==
  LET due == IF state = None THEN {}
             ELSE {n \in DOMAIN state.accounts : Due(state.accounts[n])}
  IN /\ status[c].pc = "idle"
     /\ status' = [status EXCEPT ![c] =
          IF due = {} THEN Report
          ELSE [pc |-> "fetch", start |-> now,
                targets |-> [n \in due |-> [key |-> state.accounts[n].key,
                                            born |-> state.accounts[n].born]]]]
     /\ state' = IF state = None THEN None
                 ELSE [state EXCEPT !.accounts = [n \in DOMAIN @ |->
                        IF n \in due THEN [@[n] EXCEPT !.lastPollAt = now] ELSE @[n]]]
     /\ answer' = NoAnswer
     /\ UNCHANGED <<now, closed, gen>>

(* What the usage endpoint may say of a window.  External. *)
Wires(observed) ==
  [status : {"ok", "rate-limited", "other"}, percent : Percents,
   resetsAt : {observed + o : o \in Offsets}]

(* parseUsageWindow: whether the answer is usable. *)
ValidWire(wire, observed) ==
  /\ wire.status # "other"
  /\ wire.percent <= 100
  /\ wire.resetsAt <= observed + MaxReset
  /\ wire.status = "rate-limited" \/ wire.percent = 100 \/ wire.resetsAt > observed

(* parseUsageWindow and the window state pollUsageOnce makes of it. *)
polledWindow(wire, observed) ==
  LET limited == wire.status = "rate-limited"
  IN [known |-> TRUE, authoritative |-> TRUE, exhausted |-> limited \/ wire.percent = 100,
      percent |-> IF limited THEN 100 ELSE wire.percent,
      resetAt |-> wire.resetsAt, cooldownAt |-> 0, observedAt |-> observed]

(* fetchUsage and parseUsageResponse: None is an error, whether of the     *)
(* request or of any of the windows.                                       *)
Answers(observed) ==
  {None} \cup {[k \in Kinds |-> polledWindow(wires[k], observed)] : wires \in
    {w \in [Kinds -> Wires(observed)] : \A k \in Kinds : ValidWire(w[k], observed)}}

(* An account after an answer: each window is merged; what was heard       *)
(* before is settled where the answer is taken.                            *)
Polled(account, polled) ==
  LET merged == [k \in Kinds |-> mergeWindowSignal(account.windows[k], polled[k])]
  IN [account EXCEPT
       !.windows = merged,
       !.heard = [k \in Kinds |->
         IF merged[k] = polled[k]
         THEN [Unheard EXCEPT !.reported = IF polled[k].exhausted THEN polled[k].resetAt ELSE 0]
         ELSE @[k]]]

(* pollUsageOnce from the answers on.  They are merged into the accounts   *)
(* that have the names now.                                                *)
ApplyPoll(c) ==
  /\ status[c].pc = "fetch"
  /\ \E polled \in [DOMAIN status[c].targets -> Answers(status[c].start)] :
       state' = IF state = None THEN None
                ELSE [state EXCEPT !.accounts = [n \in DOMAIN @ |->
                       IF n \in DOMAIN polled /\ polled[n] # None
                       THEN Polled(@[n], polled[n])
                       ELSE @[n]]]
  /\ status' = [status EXCEPT ![c] = Report]
  /\ answer' = NoAnswer
  /\ UNCHANGED <<now, closed, gen>>

(* The rest of Status: every window is refreshed and reported. *)
ReportStatus(c) ==
  /\ status[c].pc = "report"
  /\ status' = [status EXCEPT ![c] = Idle]
  /\ state' = IF state = None THEN None
              ELSE [state EXCEPT !.accounts =
                     [n \in DOMAIN @ |-> refreshWindows(@[n], now)]]
  /\ answer' = NoAnswer
  /\ UNCHANGED <<now, closed, gen>>

Close ==
  /\ closed' = TRUE
  /\ state' = None
  /\ answer' = NoAnswer
  /\ UNCHANGED <<now, gen, status>>

(* Time passes.  The module does not notice; the history drops what is     *)
(* over.                                                                   *)
Tick ==
  LET left(t) == IF t <= now + 1 THEN 0 ELSE t
      remembered(account) == [account EXCEPT !.heard = [k \in Kinds |->
        [announced |-> left(@[k].announced), until |-> left(@[k].until),
         reported |-> left(@[k].reported)]]]
  IN /\ now < MaxTime
     /\ now' = now + 1
     /\ state' = IF state = None THEN None
                 ELSE [state EXCEPT !.accounts = [n \in DOMAIN @ |-> remembered(@[n])]]
     /\ answer' = NoAnswer
     /\ UNCHANGED <<closed, gen, status>>
-----------------------------------------------------------------------------
Init ==
  /\ now = 1
  /\ state = None
  /\ closed = FALSE
  /\ gen = 0
  /\ status = [c \in Callers |-> Idle]
  /\ answer = NoAnswer

Next ==
  \/ \E raw \in RawConfigs : Reconfigure(raw)
  \/ \E id \in Reported, kind \in Kinds, at \in 1..now, offset \in Offsets :
       HandleUsage(id, kind, at, offset)
  \/ \E id \in AuthIDs, quota \in BOOLEAN : IgnoreUsage(id, quota)
  \/ \E request \in Requests : Pick(request)
  \/ \E c \in Callers : BeginStatus(c) \/ ApplyPoll(c) \/ ReportStatus(c)
  \/ Close
  \/ Tick

Spec == Init /\ [][Next]_vars
-----------------------------------------------------------------------------
(* Types; a closed module has no state, whatever poll or Reconfigure was   *)
(* in flight when it was closed, and no auth id belongs to two accounts.   *)
TypeOK ==
  /\ now \in 1..MaxTime
  /\ closed \in BOOLEAN /\ gen \in 0..MaxConfigs
  /\ state # None =>
       /\ state.threshold \in 1..100
       /\ DOMAIN state.accounts \subseteq Names
       /\ \A n \in DOMAIN state.accounts : state.accounts[n] \in Account
       /\ \A m, n \in DOMAIN state.accounts :
            m # n => state.accounts[m].ids \cap state.accounts[n].ids = {}
  /\ closed => state = None
  /\ \A c \in Callers :
       /\ status[c].pc \in {"idle", "fetch", "report"}
       /\ status[c].start \in 0..now
       /\ DOMAIN status[c].targets \subseteq Names

(* A 429 that announced a reset keeps requests away from its account until *)
(* then, whatever weaker, older or later reports follow; only a poll that  *)
(* mergeWindowSignal takes, or a new configuration of the account, ends it *)
(* earlier.                                                                *)
PickAvoidsAnnounced ==
  answer.outcome = "picked" =>
    \A k \in Kinds : state.accounts[AccountOf(answer.id)].heard[k].announced <= now

(* A poll that found a window exhausted keeps requests away from its       *)
(* account until the reset it reported or until a newer poll.              *)
PickAvoidsReported ==
  answer.outcome = "picked" =>
    \A k \in Kinds : state.accounts[AccountOf(answer.id)].heard[k].reported <= now

(* Pick gives up only for a reason: each account asked about is disabled,  *)
(* was last polled at or over the threshold, or had a 429 whose time is    *)
(* not over.  No block outlives its cause.                                 *)
NoCapacityJustified ==
  answer.outcome = "no_capacity" =>
    \A i \in DOMAIN answer.asked :
      Eligible(answer.asked[i]) =>
        LET account == state.accounts[AccountOf(answer.asked[i].id)]
        IN \/ account.disabled
           \/ \E k \in Kinds :
                \/ account.heard[k].until > now
                \/ /\ account.windows[k].authoritative
                   /\ \/ account.windows[k].exhausted
                      \/ account.windows[k].percent >= state.threshold

(* Two polls in flight for one account were started at least PollGap       *)
(* apart, across every reconfigure that keeps the account.                 *)
PollsSpaced ==
  \A c, d \in Callers : c # d =>
    \A n \in DOMAIN status[c].targets \cap DOMAIN status[d].targets :
      status[c].targets[n].born = status[d].targets[n].born =>
        \/ status[c].start >= status[d].start + PollGap
        \/ status[d].start >= status[c].start + PollGap
=============================================================================
