-------------------------- MODULE OpenCodeGoProofs --------------------------
(***************************************************************************)
(* Proofs about OpenCodeGo: its invariants hold for every set of accounts, *)
(* auth ids, configurations, requests and concurrent calls of Status, and  *)
(* without regard to the bounds on the clock and on configurations.        *)
(***************************************************************************)
EXTENDS OpenCodeGo, FiniteSetTheorems, WellFoundedInduction, TLAPS

-----------------------------------------------------------------------------
(* The inductive invariant *)

(* What is known of one window w from what was heard of it, at time t: an  *)
(* announced reset that is ahead blocks it until then, and a block that no *)
(* poll confirmed ends by a time a 429 gave.                               *)
Covered(w, h, t) ==
  /\ h.announced > t =>
       w.known /\ w.exhausted /\ w.resetAt >= h.announced /\ w.cooldownAt >= h.announced
  /\ \/ w.authoritative
     \/ ~w.exhausted /\ w.percent = 0
     \/ w.cooldownAt # 0 /\ (w.cooldownAt > t => h.until >= w.cooldownAt)

(* One account of configuration number g or earlier. *)
AccountOK(account, t, g) ==
  /\ account \in Account
  /\ account.born <= g
  /\ \A k \in Kinds : Covered(account.windows[k], account.heard[k], t)

AccountMaps == UNION {[D -> Account] : D \in SUBSET Names}
State == [threshold : 1..100, accounts : AccountMaps]

(* No auth id belongs to two accounts. *)
Apart(accounts) ==
  \A m, n \in DOMAIN accounts : m # n => accounts[m].ids \cap accounts[n].ids = {}

StateOK(s, t, g) ==
  /\ s \in State
  /\ Apart(s.accounts)
  /\ \A n \in DOMAIN s.accounts : AccountOK(s.accounts[n], t, g)

(* A poll in flight was started after the account it asks for was created, *)
(* and the account remembers a poll at least as late.                      *)
InFlight(call, s, t, g) ==
  \A n \in DOMAIN call.targets :
    /\ call.start \in 1..t
    /\ call.targets[n].born \in 0..g
    /\ s # None =>
         (n \in DOMAIN s.accounts /\ s.accounts[n].born = call.targets[n].born =>
           s.accounts[n].lastPollAt >= call.start)

IInv ==
  /\ now \in 1..MaxTime
  /\ closed \in BOOLEAN /\ gen \in 0..MaxConfigs
  /\ closed => state = None
  /\ state # None => StateOK(state, now, gen)
  /\ DOMAIN status = Callers
  /\ \A c \in Callers :
       /\ status[c].pc \in {"idle", "fetch", "report"}
       /\ status[c].start \in 0..now
       /\ DOMAIN status[c].targets \subseteq Names
       /\ InFlight(status[c], state, now, gen)
  /\ PollsSpaced
  /\ PickAvoidsAnnounced
  /\ NoCapacityJustified

-----------------------------------------------------------------------------
(* Windows *)

(* Later returns the greater of two times.                                 *)
LEMMA LaterType ==
  ASSUME NEW x \in Nat, NEW y \in Nat
  PROVE  Later(x, y) \in Nat /\ Later(x, y) >= x /\ Later(x, y) >= y /\ Later(x, y) \in {x, y}
BY DEF Later

(* A forgotten window and an empty history have their types.               *)
LEMMA NoWindowType == NoWindow \in Window /\ Unheard \in Heard
BY DEF NoWindow, Window, Unheard, Heard

(* What HandleUsage makes of a window after a 429 is covered by what was   *)
(* heard: an announced reset that is ahead survives every weaker, older or *)
(* later report.                                                           *)
LEMMA CoveredBySignal ==
  ASSUME NEW w \in Window, NEW h \in Heard, NEW t \in Nat, Covered(w, h, t),
         NEW at \in 1..t, NEW reset \in Nat,
         NEW incoming, incoming = inferredWindow(at, reset),
         NEW x, x = [mergeWindowSignal(w, incoming) EXCEPT !.cooldownAt = Later(@, incoming.cooldownAt)],
         NEW y, y = [h EXCEPT !.announced = Later(@, reset), !.until = Later(@, incoming.cooldownAt)]
  PROVE  x \in Window /\ y \in Heard /\ Covered(x, y, t)
<1>0. Cooldown \in Nat \ {0}
  BY OpenCodeGoAssumption
<1>1. incoming \in Window
  BY <1>0 DEF inferredWindow, Window
<1>2. /\ incoming.known /\ ~incoming.authoritative /\ incoming.exhausted
      /\ incoming.resetAt = reset /\ incoming.observedAt = at
      /\ incoming.cooldownAt # 0 /\ (reset # 0 => incoming.cooldownAt = reset)
  BY <1>0 DEF inferredWindow
<1> DEFINE merged == mergeWindowSignal(w, incoming)
<1>3. \/ merged = incoming /\ ~(w.known /\ w.exhausted /\ w.resetAt > at /\ w.resetAt > reset)
      \/ merged = w /\ w.known /\ w.exhausted /\ w.resetAt > reset
  BY <1>2 DEF mergeWindowSignal
<1>4. merged \in Window
  BY <1>1, <1>3
<1> HIDE DEF merged
<1>5. /\ incoming.cooldownAt \in Nat /\ merged.cooldownAt \in Nat /\ h.announced \in Nat /\ h.until \in Nat
      /\ w.resetAt \in Nat /\ w.cooldownAt \in Nat /\ w.percent \in Nat
  BY <1>1, <1>4 DEF Window, Heard
<1>6. /\ x.cooldownAt = Later(merged.cooldownAt, incoming.cooldownAt)
      /\ x.known = merged.known /\ x.exhausted = merged.exhausted /\ x.resetAt = merged.resetAt
      /\ x.authoritative = merged.authoritative /\ x.percent = merged.percent
      /\ x \in Window
  BY <1>4, <1>5, LaterType DEF Window, merged
<1>7. /\ y.announced = Later(h.announced, reset) /\ y.until = Later(h.until, incoming.cooldownAt)
      /\ y \in Heard
  BY <1>5, LaterType DEF Heard
<1>8. y.announced > t =>
       x.known /\ x.exhausted /\ x.resetAt >= y.announced /\ x.cooldownAt >= y.announced
  BY <1>2, <1>3, <1>5, <1>6, <1>7 DEF Covered, Later
<1>9. \/ x.authoritative
      \/ x.cooldownAt # 0 /\ (x.cooldownAt > t => y.until >= x.cooldownAt)
  BY <1>2, <1>3, <1>5, <1>6, <1>7 DEF Covered, Later
<1> QED BY <1>6, <1>7, <1>8, <1>9 DEF Covered

(* So is a window after a poll: either the poll is taken and settles what  *)
(* was heard, or the window stays as it was.                               *)
LEMMA CoveredByPoll ==
  ASSUME NEW w \in Window, NEW h \in Heard, NEW t \in Nat, Covered(w, h, t),
         NEW polled \in Window, polled.authoritative,
         NEW x, x = mergeWindowSignal(w, polled),
         NEW y, y = IF x = polled
                    THEN [Unheard EXCEPT !.reported = IF polled.exhausted THEN polled.resetAt ELSE 0]
                    ELSE h
  PROVE  x \in Window /\ y \in Heard /\ Covered(x, y, t)
<1>1. x = polled \/ x = w
  BY DEF mergeWindowSignal
<1>2. CASE x = polled
  <2>1. polled.resetAt \in Nat
    BY DEF Window
  <2>2. y \in Heard /\ y.announced = 0
    BY <1>2, <2>1 DEF Unheard, Heard
  <2> QED BY <1>2, <2>2 DEF Covered
<1>3. CASE x # polled
  BY <1>1, <1>3
<1> QED BY <1>2, <1>3

(* refreshWindows forgets only windows that nothing heard blocks.          *)
LEMMA CoveredAfterRefresh ==
  ASSUME NEW w \in Window, NEW h \in Heard, NEW t \in Nat, Covered(w, h, t),
         NEW x, x = IF w.cooldownAt # 0 /\ w.cooldownAt <= t THEN NoWindow ELSE w
  PROVE  x \in Window /\ Covered(x, h, t)
<1>1. w.cooldownAt \in Nat /\ h.announced \in Nat
  BY DEF Window, Heard
<1>2. ~NoWindow.exhausted /\ NoWindow.percent = 0
  BY DEF NoWindow
<1> QED BY <1>1, <1>2, NoWindowType DEF Covered

(* The passing of time alone keeps a window covered.                       *)
LEMMA CoveredAfterTick ==
  ASSUME NEW w \in Window, NEW h \in Heard, NEW t \in Nat, Covered(w, h, t),
         NEW y, y = [announced |-> IF h.announced <= t + 1 THEN 0 ELSE h.announced,
                     until |-> IF h.until <= t + 1 THEN 0 ELSE h.until,
                     reported |-> IF h.reported <= t + 1 THEN 0 ELSE h.reported]
  PROVE  y \in Heard /\ Covered(w, y, t + 1)
<1>1. w.cooldownAt \in Nat /\ h.announced \in Nat /\ h.until \in Nat /\ h.reported \in Nat
  BY DEF Window, Heard
<1>2. y \in Heard
  BY <1>1 DEF Heard
<1> QED BY <1>1, <1>2 DEF Covered
-----------------------------------------------------------------------------
(* The n-th smallest number of a set *)

(* A set of natural numbers has a least member.                            *)
LEMMA LeastNumber ==
  ASSUME NEW S \in SUBSET Nat, S # {}
  PROVE  \E x \in S : \A y \in S : x <= y
<1>0. \A y \in S : y \in Nat
  OBVIOUS
<1>1. PICK x \in S : \A y \in S : ~ (<<y, x>> \in OpToRel(<, Nat))
  BY NatLessThanWellFounded, WFMin, Zenon
<1>2. \A y \in S : <<y, x>> \in OpToRel(<, Nat) \/ ~ (y < x)
  BY <1>0 DEF OpToRel
<1>3. \A y \in S : ~ (y < x)
  BY <1>1, <1>2, Zenon
<1> QED BY <1>0, <1>3

(* The n-th smallest member exists for every n below the size: the cursor  *)
(* of Pick always selects an auth id.                                      *)
LEMMA NthExists ==
  ASSUME NEW S \in SUBSET Nat, IsFiniteSet(S), NEW n \in Nat, n < Cardinality(S)
  PROVE  Nth(S, n) \in S
<1> DEFINE below(x) == {y \in S : y < x}
           missed == {m \in Nat : m < Cardinality(S) /\ \A x \in S : Cardinality(below(x)) # m}
<1>0. \A y \in S : y \in Nat
  OBVIOUS
<1>1. Cardinality(S) \in Nat
  BY FS_CardinalityType
<1>2. \A x : IsFiniteSet(below(x))
  BY FS_Subset
<1>3. missed = {}
  <2> SUFFICES ASSUME missed # {} PROVE FALSE
    OBVIOUS
  <2>1. PICK m \in missed : \A k \in missed : m <= k
    BY LeastNumber
  <2>2. CASE m = 0
    <3>1. S # {}
      BY <2>1, <2>2, <1>1, FS_EmptySet
    <3>2. PICK x \in S : \A y \in S : x <= y
      BY <3>1, LeastNumber
    <3>3. \A y \in S : ~ (y < x)
      BY <1>0, <3>2
    <3>4. below(x) = {}
      BY <3>3, Zenon
    <3> QED BY <3>4, <2>1, <2>2, FS_EmptySet
  <2>3. CASE m # 0
    <3>1. m \in Nat /\ m - 1 \in Nat /\ m - 1 \notin missed /\ m - 1 < Cardinality(S)
      BY <2>1, <2>3, <1>1
    <3>2. PICK x \in S : Cardinality(below(x)) = m - 1
      BY <3>1
    <3> DEFINE upto == below(x) \cup {x}
    <3>3. IsFiniteSet(upto) /\ Cardinality(upto) = m
      <4>1. x \notin below(x)
        OBVIOUS
      <4> HIDE DEF below
      <4> QED BY <1>2, <3>1, <3>2, <4>1, FS_AddElement
    <3>4. upto # S /\ upto \subseteq S
      BY <1>0, <3>3, <2>1, <1>1
    <3> DEFINE above == {y \in S : y > x}
    <3>5. above # {}
      <4>1. PICK y \in S : y \notin upto
        BY <3>4, Zenon
      <4>2. ~ (y < x) /\ y # x
        BY <4>1
      <4> QED BY <1>0, <4>2
    <3>6. PICK z \in above : \A y \in above : z <= y
      BY <1>0, <3>5, LeastNumber
    <3>7. below(z) = upto
      <4>1. \A y \in S : y < z <=> y < x \/ y = x
        BY <1>0, <3>6
      <4> QED BY <4>1
    <3> QED BY <3>3, <3>6, <3>7, <2>1
  <2> QED BY <2>2, <2>3
<1>4. \E x \in S : Cardinality(below(x)) = n
  BY <1>3
<1> QED BY <1>4 DEF Nth
-----------------------------------------------------------------------------
(* Accounts *)

(* A map of accounts is a function from names to accounts.                 *)
LEMMA MapType ==
  \A f : f \in AccountMaps <=> DOMAIN f \subseteq Names /\ f \in [DOMAIN f -> Account]
BY DEF AccountMaps

(* refreshWindows keeps an account good and leaves no cooldown that is     *)
(* over.                                                                   *)
LEMMA AccountRefreshed ==
  ASSUME NEW t \in Nat, NEW g \in Nat, NEW a, AccountOK(a, t, g),
         NEW b, b = refreshWindows(a, t)
  PROVE  /\ AccountOK(b, t, g)
         /\ b.ids = a.ids /\ b.born = a.born /\ b.lastPollAt = a.lastPollAt
         /\ b.heard = a.heard /\ b.disabled = a.disabled /\ b.cursor = a.cursor
         /\ \A k \in Kinds : b.windows[k].cooldownAt = 0 \/ b.windows[k].cooldownAt > t
<1>1. /\ a \in Account /\ a.windows \in [Kinds -> Window] /\ a.heard \in [Kinds -> Heard]
      /\ a.born <= g /\ \A k \in Kinds : Covered(a.windows[k], a.heard[k], t)
  BY DEF AccountOK, Account
<1> DEFINE new(w) == IF w.cooldownAt # 0 /\ w.cooldownAt <= t THEN NoWindow ELSE w
           ws == [k \in Kinds |-> new(a.windows[k])]
<1>2. \A k \in Kinds : new(a.windows[k]) \in Window /\ Covered(new(a.windows[k]), a.heard[k], t)
  BY <1>1, CoveredAfterRefresh
<1>3. \A k \in Kinds : new(a.windows[k]).cooldownAt = 0 \/ new(a.windows[k]).cooldownAt > t
  <2> SUFFICES ASSUME NEW k \in Kinds
               PROVE  new(a.windows[k]).cooldownAt = 0 \/ new(a.windows[k]).cooldownAt > t
    OBVIOUS
  <2>1. a.windows[k].cooldownAt \in Nat /\ NoWindow.cooldownAt = 0
    BY <1>1 DEF Window, NoWindow
  <2> QED BY <2>1
<1>4. b = [a EXCEPT !.windows = ws]
  BY <1>1 DEF refreshWindows, Account
<1> HIDE DEF new
<1>5. ws \in [Kinds -> Window] /\ \A k \in Kinds : ws[k] = new(a.windows[k])
  BY <1>2
<1> HIDE DEF ws
<1>6. /\ b \in Account /\ b.windows = ws /\ b.heard = a.heard /\ b.disabled = a.disabled
      /\ b.cursor = a.cursor
      /\ b.ids = a.ids /\ b.born = a.born /\ b.lastPollAt = a.lastPollAt
  BY <1>1, <1>4, <1>5 DEF Account
<1> QED BY <1>1, <1>2, <1>3, <1>5, <1>6 DEF AccountOK

(* Merging an answer of the usage endpoint keeps an account good and does  *)
(* not change who it is.                                                   *)
LEMMA AccountPolled ==
  ASSUME NEW t \in Nat, NEW g \in Nat, NEW a, AccountOK(a, t, g),
         NEW polled \in [Kinds -> Window], \A k \in Kinds : polled[k].authoritative,
         NEW b, b = Polled(a, polled)
  PROVE  AccountOK(b, t, g) /\ b.ids = a.ids /\ b.born = a.born /\ b.lastPollAt = a.lastPollAt
<1>1. /\ a \in Account /\ a.windows \in [Kinds -> Window] /\ a.heard \in [Kinds -> Heard]
      /\ a.born <= g /\ \A k \in Kinds : Covered(a.windows[k], a.heard[k], t)
  BY DEF AccountOK, Account
<1> DEFINE x(k) == mergeWindowSignal(a.windows[k], polled[k])
           y(k) == IF x(k) = polled[k]
                   THEN [Unheard EXCEPT !.reported = IF polled[k].exhausted THEN polled[k].resetAt ELSE 0]
                   ELSE a.heard[k]
           ws == [k \in Kinds |-> x(k)]
           hs == [k \in Kinds |-> y(k)]
<1>2. \A k \in Kinds : x(k) \in Window /\ y(k) \in Heard /\ Covered(x(k), y(k), t)
  <2> SUFFICES ASSUME NEW k \in Kinds
               PROVE  x(k) \in Window /\ y(k) \in Heard /\ Covered(x(k), y(k), t)
    OBVIOUS
  <2>1. a.windows[k] \in Window /\ a.heard[k] \in Heard /\ Covered(a.windows[k], a.heard[k], t)
    BY <1>1
  <2> QED BY <2>1, CoveredByPoll
<1>3. b = [a EXCEPT !.windows = ws, !.heard = hs]
  BY <1>1 DEF Polled, Account
<1> HIDE DEF x, y
<1>4. /\ ws \in [Kinds -> Window] /\ hs \in [Kinds -> Heard]
      /\ \A k \in Kinds : Covered(ws[k], hs[k], t)
  BY <1>2
<1> HIDE DEF ws, hs
<1>5. /\ b \in Account /\ b.windows = ws /\ b.heard = hs
      /\ b.ids = a.ids /\ b.born = a.born /\ b.lastPollAt = a.lastPollAt
  BY <1>1, <1>3, <1>4 DEF Account
<1> QED BY <1>1, <1>4, <1>5 DEF AccountOK

(* Noting the time of a poll changes nothing else of an account.           *)
LEMMA AccountAsked ==
  ASSUME NEW t \in Nat, NEW g \in Nat, NEW a, AccountOK(a, t, g),
         NEW b, b = [a EXCEPT !.lastPollAt = t]
  PROVE  AccountOK(b, t, g) /\ b.ids = a.ids /\ b.born = a.born /\ b.lastPollAt = t
<1>1. /\ b \in Account /\ b.windows = a.windows /\ b.heard = a.heard
      /\ b.ids = a.ids /\ b.born = a.born /\ b.lastPollAt = t
  BY DEF AccountOK, Account
<1> QED BY <1>1 DEF AccountOK

(* Moving the cursor changes nothing else of an account.                   *)
LEMMA AccountMoved ==
  ASSUME NEW t \in Nat, NEW g \in Nat, NEW a, AccountOK(a, t, g),
         NEW b, b = [a EXCEPT !.cursor = (@ + 1) % Rotation]
  PROVE  /\ AccountOK(b, t, g) /\ b.ids = a.ids /\ b.born = a.born /\ b.lastPollAt = a.lastPollAt
         /\ b.windows = a.windows /\ b.heard = a.heard /\ b.disabled = a.disabled
<1>0. Rotation \in Nat \ {0}
  BY OpenCodeGoAssumption
<1>1. a \in Account /\ a.cursor \in 0..(Rotation - 1)
  BY DEF AccountOK, Account
<1>2. (a.cursor + 1) % Rotation \in 0..(Rotation - 1)
  BY <1>0, <1>1
<1>3. /\ b \in Account /\ b.windows = a.windows /\ b.heard = a.heard
      /\ b.ids = a.ids /\ b.born = a.born /\ b.lastPollAt = a.lastPollAt /\ b.disabled = a.disabled
  BY <1>1, <1>2 DEF Account
<1> QED BY <1>3 DEF AccountOK

(* Rewriting accounts one by one, keeping ids and creation and never moving*)
(* the last poll back, keeps the state good and the polls in flight known  *)
(* to it.                                                                  *)
LEMMA AccountsRewritten ==
  ASSUME NEW t \in Nat, NEW g \in Nat, NEW s, StateOK(s, t, g),
         NEW u \in Nat, u >= t,
         NEW accounts \in [DOMAIN s.accounts -> Account],
         \A n \in DOMAIN s.accounts :
           /\ AccountOK(accounts[n], u, g)
           /\ accounts[n].ids = s.accounts[n].ids
           /\ accounts[n].born = s.accounts[n].born
           /\ accounts[n].lastPollAt >= s.accounts[n].lastPollAt,
         NEW r, r = [s EXCEPT !.accounts = accounts]
  PROVE  /\ StateOK(r, u, g) /\ r.accounts = accounts /\ r.threshold = s.threshold
         /\ \A call : InFlight(call, s, t, g) /\ s # None => InFlight(call, r, u, g)
<1>1. s \in State /\ DOMAIN s.accounts \subseteq Names /\ Apart(s.accounts)
      /\ s.accounts \in [DOMAIN s.accounts -> Account]
  BY MapType DEF StateOK, State
<1>2. DOMAIN accounts = DOMAIN s.accounts
  OBVIOUS
<1>4. accounts \in AccountMaps
  BY <1>1, <1>2, MapType
<1>5. r \in State /\ r.accounts = accounts /\ r.threshold = s.threshold
  BY <1>1, <1>4 DEF State
<1>6. Apart(accounts)
  BY <1>1, <1>2 DEF Apart
<1>7. StateOK(r, u, g)
  BY <1>2, <1>5, <1>6 DEF StateOK
<1>8. ASSUME NEW call, InFlight(call, s, t, g), s # None
      PROVE  InFlight(call, r, u, g)
  <2> SUFFICES ASSUME NEW n \in DOMAIN call.targets
               PROVE  /\ call.start \in 1..u /\ call.targets[n].born \in 0..g
                      /\ n \in DOMAIN accounts /\ accounts[n].born = call.targets[n].born =>
                           accounts[n].lastPollAt >= call.start
    BY <1>5 DEF InFlight
  <2>1. /\ call.start \in 1..t /\ call.targets[n].born \in 0..g
        /\ n \in DOMAIN s.accounts /\ s.accounts[n].born = call.targets[n].born =>
             s.accounts[n].lastPollAt >= call.start
    BY <1>8 DEF InFlight
  <2>2. \A m \in DOMAIN s.accounts : accounts[m].lastPollAt \in Nat /\ s.accounts[m].lastPollAt \in Nat
    BY <1>1 DEF Account
  <2> QED BY <2>1, <2>2, <1>2
<1> QED BY <1>5, <1>7, <1>8
-----------------------------------------------------------------------------
(* Steps *)

(* A step that answers no Pick violates no property of answers.            *)
LEMMA NoAnswerSafe ==
  ASSUME answer' = NoAnswer
  PROVE  PickAvoidsAnnounced' /\ NoCapacityJustified'
BY DEF NoAnswer, PickAvoidsAnnounced, NoCapacityJustified

(* A step that starts no poll keeps what the invariant says of calls of    *)
(* Status.                                                                 *)
LEMMA CallsKept ==
  ASSUME IInv, now' \in 1..MaxTime, now' >= now, DOMAIN status' = Callers,
         \A c \in Callers : status'[c] \in {status[c], Idle, Report},
         \A c \in Callers : InFlight(status[c], state', now', gen')
  PROVE  /\ \A c \in Callers :
              /\ status'[c].pc \in {"idle", "fetch", "report"}
              /\ status'[c].start \in 0..now'
              /\ DOMAIN status'[c].targets \subseteq Names
              /\ InFlight(status'[c], state', now', gen')
         /\ PollsSpaced'
<1>1. now \in 1..MaxTime /\ MaxTime \in Nat
  BY OpenCodeGoAssumption DEF IInv
<1>2. \A r \in {Idle, Report} : r.pc \in {"idle", "report"} /\ r.start = 0 /\ DOMAIN r.targets = {}
  BY DEF Idle, Report
<1>3. \A c \in Callers : DOMAIN status'[c].targets # {} => status'[c] = status[c]
  BY <1>2
<1>4. PollsSpaced'
  <2> SUFFICES ASSUME NEW c \in Callers, NEW d \in Callers, c # d,
                      NEW n \in DOMAIN status'[c].targets \cap DOMAIN status'[d].targets,
                      status'[c].targets[n].born = status'[d].targets[n].born
               PROVE  \/ status'[c].start >= status'[d].start + PollGap
                      \/ status'[d].start >= status'[c].start + PollGap
    BY DEF PollsSpaced
  <2>1. status'[c] = status[c] /\ status'[d] = status[d]
    BY <1>3
  <2> QED BY <2>1 DEF IInv, PollsSpaced
<1>5. ASSUME NEW c \in Callers
      PROVE  /\ status'[c].pc \in {"idle", "fetch", "report"}
             /\ status'[c].start \in 0..now'
             /\ DOMAIN status'[c].targets \subseteq Names
             /\ InFlight(status'[c], state', now', gen')
  <2>1. CASE status'[c] = status[c]
    BY <1>1, <2>1 DEF IInv
  <2>2. CASE status'[c] \in {Idle, Report}
    BY <1>1, <1>2, <2>2 DEF InFlight
  <2> QED BY <2>1, <2>2
<1> QED BY <1>4, <1>5

(* AccountsRewritten, for a step of the module.                            *)
LEMMA RewriteStep ==
  ASSUME IInv, state # None, closed' = closed, gen' = gen, now' \in 1..MaxTime, now' >= now,
         NEW accounts \in [DOMAIN state.accounts -> Account],
         \A n \in DOMAIN state.accounts :
           /\ AccountOK(accounts[n], now', gen)
           /\ accounts[n].ids = state.accounts[n].ids
           /\ accounts[n].born = state.accounts[n].born
           /\ accounts[n].lastPollAt >= state.accounts[n].lastPollAt,
         state' = [state EXCEPT !.accounts = accounts]
  PROVE  /\ closed' = FALSE /\ gen' \in 0..MaxConfigs
         /\ StateOK(state', now', gen') /\ state'.accounts = accounts
         /\ state'.threshold = state.threshold
         /\ \A c \in Callers : InFlight(status[c], state', now', gen')
<1>1. now \in Nat /\ now' \in Nat /\ gen \in Nat
  BY OpenCodeGoAssumption DEF IInv
<1>2. StateOK(state, now, gen) /\ closed = FALSE /\ gen \in 0..MaxConfigs
  BY DEF IInv
<1>3. /\ StateOK(state', now', gen) /\ state'.accounts = accounts
      /\ state'.threshold = state.threshold
      /\ \A call : InFlight(call, state, now, gen) => InFlight(call, state', now', gen)
  BY <1>1, <1>2, AccountsRewritten
<1> QED BY <1>2, <1>3 DEF IInv

(* A managed auth id has an account.                                       *)
LEMMA OwnerType ==
  ASSUME NEW id, Managed(id)
  PROVE  state # None /\ AccountOf(id) \in DOMAIN state.accounts /\ id \in state.accounts[AccountOf(id)].ids
BY DEF Managed, AccountOf

(* A 429 preserves the invariant.                                          *)
LEMMA HandleUsageStep ==
  ASSUME IInv, NEW id, NEW kind \in Kinds, NEW at \in 1..now, NEW offset \in Offsets,
         HandleUsage(id, kind, at, offset)
  PROVE  IInv'
<1>0. now \in Nat /\ gen \in Nat /\ offset \in Nat /\ at \in Nat /\ MaxTime \in Nat
  BY OpenCodeGoAssumption DEF IInv
<1> DEFINE reset == announcedReset(at, offset)
           incoming == inferredWindow(at, reset)
           name == AccountOf(id)
           a == state.accounts[name]
           x == [mergeWindowSignal(a.windows[kind], incoming) EXCEPT
                   !.cooldownAt = Later(@, incoming.cooldownAt)]
           y == [a.heard[kind] EXCEPT !.announced = Later(@, reset),
                                      !.until = Later(@, incoming.cooldownAt)]
           b == [a EXCEPT !.windows[kind] = x, !.heard[kind] = y]
           accounts == [state.accounts EXCEPT ![name] = b]
<1>1. Managed(id) /\ answer' = NoAnswer /\ UNCHANGED <<now, closed, gen, status>>
  BY DEF HandleUsage
<1>2. state # None /\ name \in DOMAIN state.accounts
  BY <1>1, OwnerType
<1>3. StateOK(state, now, gen) /\ closed = FALSE
  BY <1>2 DEF IInv
<1>4. /\ AccountOK(a, now, gen) /\ a.windows[kind] \in Window /\ a.heard[kind] \in Heard
      /\ Covered(a.windows[kind], a.heard[kind], now)
  BY <1>2, <1>3 DEF StateOK, AccountOK, Account
<1>5. reset \in Nat
  BY <1>0, OpenCodeGoAssumption DEF announcedReset
<1>6. x \in Window /\ y \in Heard /\ Covered(x, y, now)
  <2> HIDE DEF reset, incoming, a
  <2> QED BY <1>0, <1>4, <1>5, CoveredBySignal DEF incoming
<1>7. state' = [state EXCEPT !.accounts[name].windows[kind] = x, !.accounts[name].heard[kind] = y]
  BY DEF HandleUsage
<1> HIDE DEF x, y
<1>8. state' = [state EXCEPT !.accounts = accounts]
  BY <1>2, <1>3, <1>4, <1>7, MapType DEF StateOK, State, AccountOK, Account
<1>9. AccountOK(b, now, gen) /\ b.ids = a.ids /\ b.born = a.born /\ b.lastPollAt = a.lastPollAt
  <2>1. /\ a \in Account /\ a.windows \in [Kinds -> Window] /\ a.heard \in [Kinds -> Heard]
        /\ a.born <= gen /\ \A k \in Kinds : Covered(a.windows[k], a.heard[k], now)
    BY <1>4 DEF AccountOK, Account
  <2> DEFINE ws == [a.windows EXCEPT ![kind] = x]
             hs == [a.heard EXCEPT ![kind] = y]
  <2>2. ws \in [Kinds -> Window] /\ hs \in [Kinds -> Heard]
    BY <1>6, <2>1
  <2>3. \A k \in Kinds : Covered(ws[k], hs[k], now)
    BY <1>6, <2>1
  <2>4. b = [a EXCEPT !.windows = ws, !.heard = hs]
    BY <2>1 DEF Account
  <2> HIDE DEF a, b, ws, hs
  <2>5. /\ b \in Account /\ b.windows = ws /\ b.heard = hs
        /\ b.ids = a.ids /\ b.born = a.born /\ b.lastPollAt = a.lastPollAt
    BY <2>1, <2>2, <2>4 DEF Account
  <2> QED BY <2>1, <2>3, <2>5 DEF AccountOK
<1> HIDE DEF b, name
<1>10. /\ accounts \in [DOMAIN state.accounts -> Account]
       /\ \A n \in DOMAIN state.accounts :
            /\ AccountOK(accounts[n], now, gen)
            /\ accounts[n].ids = state.accounts[n].ids
            /\ accounts[n].born = state.accounts[n].born
            /\ accounts[n].lastPollAt >= state.accounts[n].lastPollAt
  <2>1. \A n \in DOMAIN state.accounts :
          AccountOK(state.accounts[n], now, gen) /\ state.accounts[n].lastPollAt \in Nat
    BY <1>3 DEF StateOK, AccountOK, Account
  <2>2. state.accounts \in [DOMAIN state.accounts -> Account]
    BY <1>3, MapType DEF StateOK, State
  <2>3. b \in Account
    BY <1>9 DEF AccountOK
  <2> QED BY <1>2, <1>9, <2>1, <2>2, <2>3
<1> HIDE DEF accounts
<1>11. now' \in 1..MaxTime /\ now' >= now /\ DOMAIN status' = Callers /\ status' = status
  BY <1>0, <1>1 DEF IInv
<1>12. /\ closed' = FALSE /\ gen' \in 0..MaxConfigs /\ StateOK(state', now', gen')
       /\ \A c \in Callers : InFlight(status[c], state', now', gen')
  BY <1>1, <1>2, <1>8, <1>10, <1>11, RewriteStep
<1> QED BY <1>1, <1>11, <1>12, CallsKept, NoAnswerSafe DEF IInv

(* Close preserves the invariant.                                          *)
LEMMA CloseStep ==
  ASSUME IInv, Close
  PROVE  IInv'
<1>1. closed' = TRUE /\ state' = None /\ answer' = NoAnswer /\ UNCHANGED <<now, gen, status>>
  BY DEF Close
<1>2. \A c \in Callers : InFlight(status[c], state', now', gen')
  BY <1>1 DEF IInv, InFlight
<1>3. now' \in 1..MaxTime /\ now' >= now /\ DOMAIN status' = Callers /\ status' = status
  BY <1>1, OpenCodeGoAssumption DEF IInv
<1> QED BY <1>1, <1>2, <1>3, CallsKept, NoAnswerSafe DEF IInv

(* So does a step that changes nothing but the answer.                     *)
LEMMA IgnoreStep ==
  ASSUME IInv, answer' \in {answer, NoAnswer}, UNCHANGED <<now, state, closed, gen, status>>
  PROVE  IInv'
<1>1. now' \in 1..MaxTime /\ now' >= now /\ DOMAIN status' = Callers /\ status' = status
  BY OpenCodeGoAssumption DEF IInv
<1>2. \A c \in Callers : InFlight(status[c], state', now', gen')
  BY DEF IInv
<1>3. PickAvoidsAnnounced' /\ NoCapacityJustified'
  <2>1. CASE answer' = answer
    BY <2>1 DEF IInv, PickAvoidsAnnounced, NoCapacityJustified, AccountOf, Eligible, Managed
  <2> QED BY <2>1, NoAnswerSafe
<1> QED BY <1>1, <1>2, <1>3, CallsKept DEF IInv

(* So does the passing of time.                                            *)
LEMMA TickStep ==
  ASSUME IInv, Tick
  PROVE  IInv'
<1> DEFINE left(t) == IF t <= now + 1 THEN 0 ELSE t
           hs(a) == [k \in Kinds |->
             [announced |-> left(a.heard[k].announced), until |-> left(a.heard[k].until),
              reported |-> left(a.heard[k].reported)]]
           accounts == [n \in DOMAIN state.accounts |->
             [state.accounts[n] EXCEPT !.heard = hs(state.accounts[n])]]
<1>1. /\ now < MaxTime /\ now' = now + 1 /\ answer' = NoAnswer /\ UNCHANGED <<closed, gen, status>>
      /\ now \in Nat /\ gen \in Nat
      /\ now' \in 1..MaxTime /\ now' >= now /\ DOMAIN status' = Callers /\ status' = status
  <2>1. now \in 1..MaxTime /\ gen \in 0..MaxConfigs /\ DOMAIN status = Callers
    BY DEF IInv
  <2>2. now < MaxTime /\ now' = now + 1 /\ answer' = NoAnswer /\ UNCHANGED <<closed, gen, status>>
    BY DEF Tick
  <2>3. MaxTime \in Nat /\ MaxConfigs \in Nat
    BY OpenCodeGoAssumption
  <2> QED BY <2>1, <2>2, <2>3
<1>2. CASE state = None
  <2>1. state' = None
    BY <1>2 DEF Tick
  <2>2. \A c \in Callers : InFlight(status[c], state', now', gen')
    BY <1>1, <2>1 DEF IInv, InFlight
  <2> QED BY <1>1, <1>2, <2>1, <2>2, CallsKept, NoAnswerSafe DEF IInv
<1>3. CASE state # None
  <2>1. StateOK(state, now, gen)
    BY <1>3 DEF IInv
  <2>2. state' = [state EXCEPT !.accounts = accounts]
    BY <1>3 DEF Tick
  <2>3. ASSUME NEW n \in DOMAIN state.accounts
        PROVE  /\ accounts[n] \in Account
               /\ AccountOK(accounts[n], now', gen)
               /\ accounts[n].ids = state.accounts[n].ids
               /\ accounts[n].born = state.accounts[n].born
               /\ accounts[n].lastPollAt >= state.accounts[n].lastPollAt
    <3> DEFINE a == state.accounts[n]
    <3>1. /\ a \in Account /\ a.windows \in [Kinds -> Window] /\ a.heard \in [Kinds -> Heard]
          /\ a.born <= gen /\ a.lastPollAt \in Nat
          /\ \A k \in Kinds : Covered(a.windows[k], a.heard[k], now)
      BY <2>1 DEF StateOK, AccountOK, Account
    <3>2. accounts[n] = [a EXCEPT !.heard = hs(a)]
      OBVIOUS
    <3> HIDE DEF a, accounts
    <3>3. \A k \in Kinds : hs(a)[k] \in Heard /\ Covered(a.windows[k], hs(a)[k], now')
      BY <1>1, <3>1, CoveredAfterTick
    <3>4. hs(a) \in [Kinds -> Heard]
      BY <3>3
    <3> HIDE DEF hs
    <3>5. /\ accounts[n] \in Account /\ accounts[n].windows = a.windows
          /\ accounts[n].heard = hs(a) /\ accounts[n].ids = a.ids
          /\ accounts[n].born = a.born /\ accounts[n].lastPollAt = a.lastPollAt
      BY <3>1, <3>2, <3>4 DEF Account
    <3> QED BY <3>1, <3>3, <3>5 DEF a, AccountOK
  <2>4. accounts \in [DOMAIN state.accounts -> Account]
    BY <2>3
  <2> HIDE DEF accounts
  <2>5. /\ closed' = FALSE /\ gen' \in 0..MaxConfigs /\ StateOK(state', now', gen')
        /\ \A c \in Callers : InFlight(status[c], state', now', gen')
    BY <1>1, <1>3, <2>2, <2>3, <2>4, RewriteStep
  <2> QED BY <1>1, <2>5, CallsKept, NoAnswerSafe DEF IInv
<1> QED BY <1>2, <1>3

(* A call that ends or only reports leaves the other calls alone.          *)
LEMMA CallEnds ==
  ASSUME IInv, NEW c \in Callers, NEW r \in {Idle, Report}, status' = [status EXCEPT ![c] = r],
         now' = now
  PROVE  /\ now' \in 1..MaxTime /\ now' >= now /\ DOMAIN status' = Callers
         /\ \A d \in Callers : status'[d] \in {status[d], Idle, Report}
<1>1. now \in 1..MaxTime /\ DOMAIN status = Callers
  BY DEF IInv
<1> QED BY <1>1, OpenCodeGoAssumption

(* The report of Status preserves the invariant.                           *)
LEMMA ReportStep ==
  ASSUME IInv, NEW c \in Callers, ReportStatus(c)
  PROVE  IInv'
<1> DEFINE accounts == [n \in DOMAIN state.accounts |-> refreshWindows(state.accounts[n], now)]
<1>1. /\ status' = [status EXCEPT ![c] = Idle] /\ answer' = NoAnswer
      /\ UNCHANGED <<now, closed, gen>>
  BY DEF ReportStatus
<1>2. /\ now' \in 1..MaxTime /\ now' >= now /\ DOMAIN status' = Callers
      /\ \A d \in Callers : status'[d] \in {status[d], Idle, Report}
  BY <1>1, CallEnds
<1>3. CASE state = None
  <2>1. state' = None
    BY <1>3 DEF ReportStatus
  <2>2. \A d \in Callers : InFlight(status[d], state', now', gen')
    BY <1>1, <1>3, <2>1 DEF IInv
  <2> QED BY <1>1, <1>2, <1>3, <2>1, <2>2, CallsKept, NoAnswerSafe DEF IInv
<1>4. CASE state # None
  <2>1. StateOK(state, now, gen) /\ now \in Nat /\ gen \in Nat
    BY <1>4, OpenCodeGoAssumption DEF IInv
  <2>2. state' = [state EXCEPT !.accounts = accounts]
    BY <1>4 DEF ReportStatus
  <2>3. ASSUME NEW n \in DOMAIN state.accounts
        PROVE  /\ accounts[n] \in Account
               /\ AccountOK(accounts[n], now', gen)
               /\ accounts[n].ids = state.accounts[n].ids
               /\ accounts[n].born = state.accounts[n].born
               /\ accounts[n].lastPollAt >= state.accounts[n].lastPollAt
    <3>1. AccountOK(state.accounts[n], now, gen) /\ state.accounts[n].lastPollAt \in Nat
      BY <2>1 DEF StateOK, AccountOK, Account
    <3>2. accounts[n] = refreshWindows(state.accounts[n], now)
      OBVIOUS
    <3> HIDE DEF accounts
    <3>3. /\ AccountOK(accounts[n], now, gen) /\ accounts[n].ids = state.accounts[n].ids
          /\ accounts[n].born = state.accounts[n].born
          /\ accounts[n].lastPollAt = state.accounts[n].lastPollAt
      BY <2>1, <3>1, <3>2, AccountRefreshed
    <3> QED BY <1>1, <3>1, <3>3 DEF AccountOK
  <2>4. accounts \in [DOMAIN state.accounts -> Account]
    BY <2>3
  <2> HIDE DEF accounts
  <2>5. /\ closed' = FALSE /\ gen' \in 0..MaxConfigs /\ StateOK(state', now', gen')
        /\ \A d \in Callers : InFlight(status[d], state', now', gen')
    BY <1>1, <1>2, <1>4, <2>2, <2>3, <2>4, RewriteStep
  <2> QED BY <1>1, <1>2, <2>5, CallsKept, NoAnswerSafe DEF IInv
<1> QED BY <1>3, <1>4

(* A usable answer of the usage endpoint is an authoritative reading of    *)
(* every window.                                                           *)
LEMMA AnswerType ==
  ASSUME NEW observed \in Nat, NEW polled \in Answers(observed), polled # None
  PROVE  polled \in [Kinds -> Window] /\ \A k \in Kinds : polled[k].authoritative
<1>1. PICK wires \in [Kinds -> Wires(observed)] :
        polled = [k \in Kinds |-> polledWindow(wires[k], observed)]
  BY DEF Answers
<1>2. ASSUME NEW k \in Kinds
      PROVE  polledWindow(wires[k], observed) \in Window /\ polledWindow(wires[k], observed).authoritative
  <2>1. wires[k].percent \in Percents /\ \E o \in Offsets : wires[k].resetsAt = observed + o
    BY <1>1 DEF Wires
  <2>2. wires[k].percent \in Nat /\ wires[k].resetsAt \in Nat
    <3>1. Percents \subseteq Nat /\ Offsets \subseteq Nat
      BY OpenCodeGoAssumption
    <3>2. \A o \in Offsets : observed + o \in Nat
      BY <3>1
    <3> QED BY <2>1, <3>1, <3>2
  <2> QED BY <2>2 DEF polledWindow, Window
<1> QED BY <1>1, <1>2

(* Merging the answers of a poll preserves the invariant, whatever was     *)
(* reconfigured or closed since the request.                               *)
LEMMA ApplyStep ==
  ASSUME IInv, NEW c \in Callers, ApplyPoll(c)
  PROVE  IInv'
<1> DEFINE start == status[c].start
<1>1. /\ status' = [status EXCEPT ![c] = Report] /\ answer' = NoAnswer
      /\ UNCHANGED <<now, closed, gen>>
  BY DEF ApplyPoll
<1>2. /\ now' \in 1..MaxTime /\ now' >= now /\ DOMAIN status' = Callers
      /\ \A d \in Callers : status'[d] \in {status[d], Idle, Report}
  BY <1>1, CallEnds
<1>3. CASE state = None
  <2>1. state' = None
    BY <1>3 DEF ApplyPoll
  <2>2. \A d \in Callers : InFlight(status[d], state', now', gen')
    BY <1>1, <1>3, <2>1 DEF IInv
  <2> QED BY <1>1, <1>2, <1>3, <2>1, <2>2, CallsKept, NoAnswerSafe DEF IInv
<1>4. CASE state # None
  <2>1. StateOK(state, now, gen) /\ now \in Nat /\ gen \in Nat /\ start \in Nat
    BY <1>4, OpenCodeGoAssumption DEF IInv
  <2>2. PICK polled \in [DOMAIN status[c].targets -> Answers(start)] :
          state' = [state EXCEPT !.accounts = [n \in DOMAIN @ |->
                      IF n \in DOMAIN polled /\ polled[n] # None THEN Polled(@[n], polled[n]) ELSE @[n]]]
    BY <1>4 DEF ApplyPoll
  <2> DEFINE accounts == [n \in DOMAIN state.accounts |->
               IF n \in DOMAIN polled /\ polled[n] # None
               THEN Polled(state.accounts[n], polled[n]) ELSE state.accounts[n]]
  <2>3. state' = [state EXCEPT !.accounts = accounts]
    BY <2>2
  <2>4. ASSUME NEW n \in DOMAIN state.accounts
        PROVE  /\ accounts[n] \in Account
               /\ AccountOK(accounts[n], now', gen)
               /\ accounts[n].ids = state.accounts[n].ids
               /\ accounts[n].born = state.accounts[n].born
               /\ accounts[n].lastPollAt >= state.accounts[n].lastPollAt
    <3>1. /\ AccountOK(state.accounts[n], now, gen) /\ state.accounts[n].lastPollAt \in Nat
          /\ state.accounts[n] \in Account
      BY <2>1 DEF StateOK, AccountOK, Account
    <3>2. CASE n \in DOMAIN polled /\ polled[n] # None
      <4>1. accounts[n] = Polled(state.accounts[n], polled[n])
        BY <3>2
      <4>2. polled[n] \in [Kinds -> Window] /\ \A k \in Kinds : polled[n][k].authoritative
        BY <2>1, <3>2, AnswerType
      <4> HIDE DEF accounts
      <4>3. /\ AccountOK(accounts[n], now, gen) /\ accounts[n].ids = state.accounts[n].ids
            /\ accounts[n].born = state.accounts[n].born
            /\ accounts[n].lastPollAt = state.accounts[n].lastPollAt
        BY <2>1, <3>1, <4>1, <4>2, AccountPolled
      <4>4. accounts[n].lastPollAt >= state.accounts[n].lastPollAt
        BY <3>1, <4>3
      <4>5. now' = now /\ accounts[n] \in Account
        BY <1>1, <4>3 DEF AccountOK
      <4> QED BY Zenon, <4>3, <4>4, <4>5
    <3>3. CASE ~(n \in DOMAIN polled /\ polled[n] # None)
      <4>1. accounts[n] = state.accounts[n]
        BY <3>3
      <4> HIDE DEF accounts
      <4>2. accounts[n].lastPollAt >= state.accounts[n].lastPollAt
        BY <3>1, <4>1
      <4>3. now' = now
        BY <1>1
      <4> QED BY Zenon, <3>1, <4>1, <4>2, <4>3
    <3> QED BY <3>2, <3>3
  <2>5. accounts \in [DOMAIN state.accounts -> Account]
    BY <2>4
  <2> HIDE DEF accounts
  <2>6. /\ closed' = FALSE /\ gen' \in 0..MaxConfigs /\ StateOK(state', now', gen')
        /\ \A d \in Callers : InFlight(status[d], state', now', gen')
    BY <1>1, <1>2, <1>4, <2>3, <2>4, <2>5, RewriteStep
  <2> QED BY <1>1, <1>2, <2>6, CallsKept, NoAnswerSafe DEF IInv
<1> QED BY <1>3, <1>4

(* Starting a poll preserves the invariant: an account that a poll in      *)
(* flight asks for is due again only after PollGap.                        *)
LEMMA BeginStep ==
  ASSUME IInv, NEW c \in Callers, BeginStatus(c)
  PROVE  IInv'
<1>0. /\ answer' = NoAnswer /\ UNCHANGED <<now, closed, gen>>
      /\ now \in 1..MaxTime /\ now \in Nat /\ gen \in Nat /\ MaxTime \in Nat /\ PollGap \in Nat \ {0}
      /\ DOMAIN status = Callers
  BY OpenCodeGoAssumption DEF IInv, BeginStatus
<1>1. CASE state = None
  <2>1. state' = None /\ status' = [status EXCEPT ![c] = Report]
    BY <1>1 DEF BeginStatus
  <2>2. /\ now' \in 1..MaxTime /\ now' >= now /\ DOMAIN status' = Callers
        /\ \A d \in Callers : status'[d] \in {status[d], Idle, Report}
    BY <1>0, <2>1, CallEnds
  <2>3. \A d \in Callers : InFlight(status[d], state', now', gen')
    BY <1>0, <1>1, <2>1 DEF IInv
  <2> QED BY <1>0, <1>1, <2>1, <2>2, <2>3, CallsKept, NoAnswerSafe DEF IInv
<1>2. CASE state # None
  <2> DEFINE due == {n \in DOMAIN state.accounts : Due(state.accounts[n])}
             call == [pc |-> "fetch", start |-> now,
                      targets |-> [n \in due |-> [key |-> state.accounts[n].key,
                                                  born |-> state.accounts[n].born]]]
             accounts == [n \in DOMAIN state.accounts |->
               IF n \in due THEN [state.accounts[n] EXCEPT !.lastPollAt = now] ELSE state.accounts[n]]
  <2>1. StateOK(state, now, gen)
    BY <1>2 DEF IInv
  <2>2. /\ state' = [state EXCEPT !.accounts = accounts]
        /\ status' = [status EXCEPT ![c] = IF due = {} THEN Report ELSE call]
    BY <1>2 DEF BeginStatus
  <2>3. ASSUME NEW n \in DOMAIN state.accounts
        PROVE  /\ accounts[n] \in Account
               /\ AccountOK(accounts[n], now', gen)
               /\ accounts[n].ids = state.accounts[n].ids
               /\ accounts[n].born = state.accounts[n].born
               /\ n \in due => accounts[n].lastPollAt = now
               /\ n \notin due => accounts[n] = state.accounts[n]
    <3>1. AccountOK(state.accounts[n], now, gen) /\ state.accounts[n] \in Account
      BY <2>1 DEF StateOK, AccountOK
    <3>2. CASE n \in due
      <4>1. accounts[n] = [state.accounts[n] EXCEPT !.lastPollAt = now]
        BY <3>2
      <4> HIDE DEF accounts, due
      <4>2. /\ AccountOK(accounts[n], now, gen) /\ accounts[n].ids = state.accounts[n].ids
            /\ accounts[n].born = state.accounts[n].born /\ accounts[n].lastPollAt = now
        BY <1>0, <3>1, <4>1, AccountAsked
      <4> QED BY <1>0, <3>2, <4>2 DEF AccountOK
    <3>3. CASE n \notin due
      <4>1. accounts[n] = state.accounts[n]
        BY <3>3
      <4> QED BY <1>0, <3>1, <3>3, <4>1
    <3> QED BY <3>2, <3>3
  <2>4. accounts \in [DOMAIN state.accounts -> Account] /\ due \subseteq DOMAIN state.accounts
    BY <2>3
  <2>5. \A n \in due : \/ state.accounts[n].lastPollAt = 0
                       \/ now - state.accounts[n].lastPollAt >= PollGap
    BY DEF Due
  <2>6. \A n \in DOMAIN state.accounts :
          /\ state.accounts[n].lastPollAt \in Nat /\ state.accounts[n].born \in 0..gen
          /\ n \in Names
    BY <2>1, <1>0, MapType DEF StateOK, State, AccountOK, Account
  <2> HIDE DEF accounts, due
  <2>7. /\ now' \in 1..MaxTime /\ now' >= now /\ closed' = closed /\ gen' = gen
        /\ \A n \in DOMAIN state.accounts :
             /\ AccountOK(accounts[n], now', gen)
             /\ accounts[n].ids = state.accounts[n].ids
             /\ accounts[n].born = state.accounts[n].born
             /\ accounts[n].lastPollAt >= state.accounts[n].lastPollAt
    BY <1>0, <2>3, <2>5, <2>6
  <2>8. /\ closed' = FALSE /\ gen' \in 0..MaxConfigs /\ StateOK(state', now', gen')
        /\ state'.accounts = accounts
        /\ \A d \in Callers : InFlight(status[d], state', now', gen')
    BY <1>2, <2>2, <2>4, <2>7, RewriteStep
  <2>9. /\ call.pc = "fetch" /\ call.start = now /\ DOMAIN call.targets = due
        /\ \A n \in due : call.targets[n].born = state.accounts[n].born
    OBVIOUS
  <2> HIDE DEF call
  <2>10. CASE due = {}
    <3>1. /\ now' \in 1..MaxTime /\ now' >= now /\ DOMAIN status' = Callers
          /\ \A d \in Callers : status'[d] \in {status[d], Idle, Report}
      BY <1>0, <2>2, <2>10, CallEnds
    <3> QED BY <1>0, <2>8, <3>1, CallsKept, NoAnswerSafe DEF IInv
  <2>11. CASE due # {}
    <3>1. DOMAIN status' = Callers /\ status'[c] = call /\ \A d \in Callers \ {c} : status'[d] = status[d]
      BY <1>0, <2>2, <2>11
    <3>2. InFlight(call, state', now', gen')
      <4> SUFFICES ASSUME NEW n \in due
                   PROVE  /\ now \in 1..now' /\ state.accounts[n].born \in 0..gen'
                          /\ accounts[n].lastPollAt >= now
        BY <2>8, <2>9 DEF InFlight
      <4>1. n \in DOMAIN state.accounts
        BY <2>4
      <4>2. accounts[n].lastPollAt >= now
        <5>1. accounts[n].lastPollAt = now
          BY <2>3, <4>1
        <5>2. now >= now
          BY <1>0
        <5> QED BY Zenon, <5>1, <5>2
      <4>3. state.accounts[n].born \in 0..gen' /\ now \in 1..now'
        BY <1>0, <2>6, <2>7, <4>1
      <4> QED BY <4>2, <4>3
    <3>3. \A d \in Callers :
            /\ status'[d].pc \in {"idle", "fetch", "report"}
            /\ status'[d].start \in 0..now'
            /\ DOMAIN status'[d].targets \subseteq Names
            /\ InFlight(status'[d], state', now', gen')
      <4>1. call.start \in 0..now' /\ DOMAIN call.targets \subseteq Names
        BY <1>0, <2>4, <2>6, <2>9
      <4>2. ASSUME NEW d \in Callers, d # c
            PROVE  /\ status[d].pc \in {"idle", "fetch", "report"} /\ status[d].start \in 0..now'
                   /\ DOMAIN status[d].targets \subseteq Names /\ InFlight(status[d], state', now', gen')
        <5>1. /\ status[d].pc \in {"idle", "fetch", "report"} /\ status[d].start \in 0..now
              /\ DOMAIN status[d].targets \subseteq Names
          BY DEF IInv
        <5>2. status[d].start \in 0..now'
          BY <1>0, <5>1
        <5> QED BY Zenon, <2>8, <5>1, <5>2
      <4>3. call.pc \in {"idle", "fetch", "report"}
        BY <2>9
      <4> QED BY Zenon, <3>1, <3>2, <4>1, <4>2, <4>3
    <3>4. ASSUME NEW d \in Callers, d # c, NEW n \in DOMAIN status[d].targets \cap due,
                 status[d].targets[n].born = state.accounts[n].born
          PROVE  now >= status[d].start + PollGap
      <4>1. status[d].start \in 1..now /\ state.accounts[n].lastPollAt >= status[d].start
        BY <1>2, <2>4, <3>4 DEF IInv, InFlight
      <4> QED BY <1>0, <2>4, <2>5, <2>6, <4>1
    <3>5. PollsSpaced'
      <4> SUFFICES ASSUME NEW d \in Callers, NEW e \in Callers, d # e,
                          NEW n \in DOMAIN status'[d].targets \cap DOMAIN status'[e].targets,
                          status'[d].targets[n].born = status'[e].targets[n].born
                   PROVE  \/ status'[d].start >= status'[e].start + PollGap
                          \/ status'[e].start >= status'[d].start + PollGap
        BY DEF PollsSpaced
      <4>1. CASE d # c /\ e # c
        BY <3>1, <4>1 DEF IInv, PollsSpaced
      <4>2. CASE d = c \/ e = c
        BY <2>9, <3>1, <3>4, <4>2
      <4> QED BY <4>1, <4>2
    <3>6. now' \in 1..MaxTime
      BY <1>0
    <3> QED BY <1>0, <2>8, <3>1, <3>3, <3>5, <3>6, NoAnswerSafe DEF IInv
  <2> QED BY <2>10, <2>11
<1> QED BY <1>1, <1>2

(* What parseConfig makes of an account. *)
Item == [name : Names, ids : SUBSET AuthIDs, key : Keys \cup {None}, disabled : BOOLEAN]

(* parseConfig yields named accounts with auth ids.                        *)
LEMMA ParsedType ==
  ASSUME NEW raw \in RawConfig, NEW cfg, cfg = parseConfig(raw), cfg # None
  PROVE  cfg.threshold \in 1..100 /\ \A i \in DOMAIN cfg.accounts : cfg.accounts[i] \in Item
<1> DEFINE ids(a) == a.ids \cup (IF a.connection = None THEN {} ELSE {a.connection})
           key(a) == IF a.key = None THEN raw.key ELSE a.key
           items == [i \in DOMAIN raw.accounts |->
             [name |-> raw.accounts[i].name, ids |-> ids(raw.accounts[i]),
              key |-> key(raw.accounts[i]), disabled |-> raw.accounts[i].disabled]]
<1>1. /\ raw.threshold \in 1..100
      /\ \A i \in DOMAIN raw.accounts : raw.accounts[i].name # None
      /\ cfg = [enabled |-> raw.enabled, threshold |-> raw.threshold, accounts |-> items]
  BY DEF parseConfig
<1>2. raw.key \in Keys \cup {None} /\ \A i \in DOMAIN raw.accounts : raw.accounts[i] \in RawAccount
  BY DEF RawConfig
<1>3. ASSUME NEW i \in DOMAIN raw.accounts
      PROVE  items[i] \in Item
  <2>1. raw.accounts[i] \in RawAccount /\ raw.accounts[i].name # None
    BY <1>1, <1>2
  <2>2. ids(raw.accounts[i]) \subseteq AuthIDs /\ key(raw.accounts[i]) \in Keys \cup {None}
    BY <1>2, <2>1 DEF RawAccount
  <2> HIDE DEF ids, key
  <2>3. items[i] = [name |-> raw.accounts[i].name, ids |-> ids(raw.accounts[i]),
                    key |-> key(raw.accounts[i]), disabled |-> raw.accounts[i].disabled]
    OBVIOUS
  <2> QED BY <2>1, <2>2, <2>3 DEF Item, RawAccount
<1>4. DOMAIN items = DOMAIN raw.accounts
  <2> HIDE DEF ids, key
  <2> QED OBVIOUS
<1> HIDE DEF items, ids, key
<1>5. cfg.threshold = raw.threshold /\ cfg.accounts = items
  BY <1>1
<1> QED BY <1>1, <1>3, <1>4, <1>5

(* buildState yields good accounts that share no auth id.                  *)
LEMMA StagedOK ==
  ASSUME NEW t \in Nat, gen \in Nat, NEW cfg, cfg.threshold \in 1..100,
         \A i \in DOMAIN cfg.accounts : cfg.accounts[i] \in Item,
         NEW staged, staged = buildState(cfg), staged # None
  PROVE  /\ StateOK(staged, t, gen + 1)
         /\ \A n \in DOMAIN staged.accounts : staged.accounts[n].born = gen + 1
<1> DEFINE items == IF cfg.enabled THEN cfg.accounts ELSE <<>>
           item(n) == CHOOSE i \in DOMAIN items : items[i].name = n
           names == {items[i].name : i \in DOMAIN items}
           account(n) == [ids |-> items[item(n)].ids, key |-> items[item(n)].key,
              disabled |-> items[item(n)].disabled, cursor |-> 0, lastPollAt |-> 0,
              windows |-> [k \in Kinds |-> NoWindow],
              born |-> gen + 1, heard |-> [k \in Kinds |-> Unheard]]
           accounts == [n \in names |-> account(n)]
<1>1. \A i \in DOMAIN items : items[i] \in Item
  OBVIOUS
<1>2. /\ \A i, j \in DOMAIN items :
           i # j => items[i].name # items[j].name /\ items[i].ids \cap items[j].ids = {}
      /\ staged = [threshold |-> cfg.threshold, accounts |-> accounts]
  BY DEF buildState
<1> HIDE DEF items
<1>3. \A n \in names : item(n) \in DOMAIN items /\ items[item(n)].name = n
  OBVIOUS
<1>4. names \subseteq Names
  BY <1>1 DEF Item
<1> HIDE DEF item
<1>5. ASSUME NEW n \in names
      PROVE  AccountOK(account(n), t, gen + 1) /\ account(n).born = gen + 1
  <2>1. items[item(n)] \in Item
    BY <1>1, <1>3
  <2>2. Rotation \in Nat \ {0}
    BY OpenCodeGoAssumption
  <2>3. account(n) \in Account
    <3> DEFINE it == items[item(n)]
               ws == [k \in Kinds |-> NoWindow]
               hs == [k \in Kinds |-> Unheard]
    <3>1. it.ids \in SUBSET AuthIDs /\ it.key \in Keys \cup {None} /\ it.disabled \in BOOLEAN
      BY <2>1 DEF Item
    <3>2. ws \in [Kinds -> Window] /\ hs \in [Kinds -> Heard]
      BY NoWindowType
    <3>3. 0 \in 0..(Rotation - 1) /\ gen + 1 \in Nat /\ 0 \in Nat
      BY <2>2
    <3>4. account(n) = [ids |-> it.ids, key |-> it.key, disabled |-> it.disabled, cursor |-> 0,
                        lastPollAt |-> 0, windows |-> ws, born |-> gen + 1, heard |-> hs]
      BY Zenon
    <3> HIDE DEF it, ws, hs, account
    <3> QED BY <3>1, <3>2, <3>3, <3>4 DEF Account
  <2>4. account(n).born = gen + 1
    BY Zenon
  <2>5. \A k \in Kinds : account(n).windows[k] = NoWindow /\ account(n).heard[k] = Unheard
    <3>1. account(n).windows = [k \in Kinds |-> NoWindow] /\ account(n).heard = [k \in Kinds |-> Unheard]
      BY Zenon
    <3> HIDE DEF account
    <3> QED BY <3>1
  <2>6. Covered(NoWindow, Unheard, t)
    BY DEF Covered, NoWindow, Unheard
  <2> HIDE DEF account
  <2>7. account(n).born <= gen + 1
    BY <2>4
  <2> QED BY Zenon, <2>3, <2>4, <2>5, <2>6, <2>7 DEF AccountOK
<1>6. Apart(accounts)
  <2> SUFFICES ASSUME NEW m \in names, NEW n \in names, m # n
               PROVE  account(m).ids \cap account(n).ids = {}
    BY DEF Apart
  <2>1. item(m) # item(n) /\ item(m) \in DOMAIN items /\ item(n) \in DOMAIN items
    BY <1>3
  <2> QED BY <1>2, <2>1
<1> HIDE DEF account, names
<1>7. accounts \in [names -> Account] /\ DOMAIN accounts = names
  BY <1>5 DEF AccountOK
<1>8. accounts \in AccountMaps
  BY <1>4, <1>7, MapType
<1>9. /\ staged \in State /\ staged.accounts = accounts
      /\ \A n \in names : accounts[n] = account(n)
  BY <1>2, <1>8 DEF State
<1> HIDE DEF accounts
<1> QED BY <1>5, <1>6, <1>7, <1>9 DEF StateOK

(* Reconfigure preserves the invariant: an account is carried forward with *)
(* its windows and its last poll, or is a new one.                         *)
LEMMA ReconfigureStep ==
  ASSUME IInv, NEW raw \in RawConfigs, Reconfigure(raw)
  PROVE  IInv'
<1> DEFINE cfg == parseConfig(raw)
           staged == IF cfg = None THEN None ELSE buildState(cfg)
<1>0. /\ answer' = NoAnswer /\ UNCHANGED <<now, closed, status>>
      /\ \/ UNCHANGED <<state, gen>>
         \/ /\ staged # None /\ ~closed /\ gen < MaxConfigs
            /\ state' = carryForwardState(staged, state)
            /\ gen' = gen + 1
  BY DEF Reconfigure
<1>1. CASE UNCHANGED <<state, gen>>
  BY <1>0, <1>1, IgnoreStep
<1>2. CASE /\ staged # None /\ ~closed /\ gen < MaxConfigs
           /\ state' = carryForwardState(staged, state)
           /\ gen' = gen + 1
  <2>0. /\ now \in Nat /\ gen \in Nat /\ MaxConfigs \in Nat /\ gen' \in 0..MaxConfigs
        /\ now' \in 1..MaxTime /\ now' >= now /\ DOMAIN status' = Callers /\ status' = status
    BY <1>0, <1>2, OpenCodeGoAssumption DEF IInv
  <2>1. cfg # None /\ staged = buildState(cfg) /\ raw \in RawConfig
    BY <1>2, OpenCodeGoAssumption
  <2>2. cfg.threshold \in 1..100 /\ \A i \in DOMAIN cfg.accounts : cfg.accounts[i] \in Item
    BY <2>1, ParsedType
  <2> HIDE DEF cfg, staged
  <2>3. /\ StateOK(staged, now, gen + 1)
        /\ \A n \in DOMAIN staged.accounts : staged.accounts[n].born = gen + 1
    BY <1>2, <2>0, <2>1, <2>2, StagedOK
  <2>4. ASSUME NEW call, InFlight(call, state, now, gen)
        PROVE  \A n \in DOMAIN call.targets :
                 call.start \in 1..now /\ call.targets[n].born \in 0..gen /\ call.targets[n].born \in 0..(gen + 1)
    BY <2>0, <2>4 DEF InFlight
  <2>5. CASE state = None
    <3>1. state' = staged
      BY <1>2, <2>5 DEF carryForwardState
    <3>2. \A c \in Callers : InFlight(status[c], state', now', gen')
      <4> SUFFICES ASSUME NEW c \in Callers PROVE InFlight(status[c], state', now', gen')
        OBVIOUS
      <4>1. InFlight(status[c], state, now, gen)
        BY DEF IInv
      <4>2. \A n \in DOMAIN status[c].targets :
              /\ status[c].start \in 1..now /\ status[c].targets[n].born \in 0..gen
              /\ status[c].targets[n].born \in 0..(gen + 1)
        BY <2>4, <4>1
      <4>3. ASSUME NEW n \in DOMAIN status[c].targets, n \in DOMAIN staged.accounts
            PROVE  staged.accounts[n].born # status[c].targets[n].born
        BY <2>0, <2>3, <4>2, <4>3
      <4>4. now' = now /\ gen' = gen + 1
        BY <1>0, <1>2
      <4> QED BY Zenon, <3>1, <4>2, <4>3, <4>4 DEF InFlight
    <3> QED BY <1>0, <1>2, <2>0, <2>3, <3>1, <3>2, CallsKept, NoAnswerSafe DEF IInv
  <2>6. CASE state # None
    <3> DEFINE kept(n) == n \in DOMAIN state.accounts /\ staged.accounts[n].ids = state.accounts[n].ids
               accounts == [n \in DOMAIN staged.accounts |->
                 IF kept(n)
                 THEN [state.accounts[n] EXCEPT !.key = staged.accounts[n].key,
                                                !.disabled = staged.accounts[n].disabled]
                 ELSE staged.accounts[n]]
    <3>1. state' = [staged EXCEPT !.accounts = accounts]
      BY <1>2, <2>6 DEF carryForwardState
    <3>2. StateOK(state, now, gen)
      BY <2>6 DEF IInv
    <3>3. ASSUME NEW n \in DOMAIN staged.accounts
          PROVE  /\ accounts[n] \in Account
                 /\ AccountOK(accounts[n], now, gen + 1)
                 /\ accounts[n].ids = staged.accounts[n].ids
                 /\ \/ accounts[n].born = gen + 1
                    \/ /\ n \in DOMAIN state.accounts
                       /\ accounts[n].born = state.accounts[n].born
                       /\ accounts[n].lastPollAt = state.accounts[n].lastPollAt
      <4>1. AccountOK(staged.accounts[n], now, gen + 1) /\ staged.accounts[n] \in Account
        BY <2>3 DEF StateOK, AccountOK
      <4>2. CASE kept(n)
        <5> DEFINE a == state.accounts[n]
                   new == staged.accounts[n]
        <5>1. accounts[n] = [a EXCEPT !.key = new.key, !.disabled = new.disabled]
          BY <4>2
        <5>2. AccountOK(a, now, gen) /\ a \in Account /\ a.born \in Nat /\ a.ids = new.ids
          BY <3>2, <4>2 DEF StateOK, AccountOK, Account
        <5> HIDE DEF accounts, a, new
        <5>3. /\ accounts[n] \in Account /\ accounts[n].ids = a.ids /\ accounts[n].born = a.born
              /\ accounts[n].lastPollAt = a.lastPollAt /\ accounts[n].windows = a.windows
              /\ accounts[n].heard = a.heard
          BY <4>1, <5>1, <5>2 DEF Account, new
        <5>4. AccountOK(accounts[n], now, gen + 1)
          BY <2>0, <5>2, <5>3 DEF AccountOK
        <5> QED BY <4>2, <5>2, <5>3, <5>4 DEF a, new
      <4>3. CASE ~kept(n)
        <5>1. accounts[n] = staged.accounts[n]
          BY <4>3
        <5> QED BY <2>3, <4>1, <5>1
      <4> QED BY <4>2, <4>3
    <3>4. accounts \in [DOMAIN staged.accounts -> Account] /\ DOMAIN accounts = DOMAIN staged.accounts
      BY <3>3
    <3> HIDE DEF accounts
    <3>5. /\ staged \in State /\ DOMAIN staged.accounts \subseteq Names /\ Apart(staged.accounts)
      BY <2>3, MapType DEF StateOK, State
    <3>6. accounts \in AccountMaps
      BY <3>4, <3>5, MapType
    <3>7. state' \in State /\ state'.accounts = accounts
      BY <3>1, <3>5, <3>6 DEF State
    <3>8. Apart(accounts)
      BY <3>3, <3>4, <3>5 DEF Apart
    <3>9. StateOK(state', now', gen')
      BY <1>0, <1>2, <3>3, <3>4, <3>7, <3>8 DEF StateOK
    <3>10. ASSUME NEW c \in Callers
           PROVE  InFlight(status[c], state', now', gen')
      <4>1. InFlight(status[c], state, now, gen)
        BY DEF IInv
      <4> SUFFICES ASSUME NEW n \in DOMAIN status[c].targets, n \in DOMAIN accounts,
                          accounts[n].born = status[c].targets[n].born
                   PROVE  accounts[n].lastPollAt >= status[c].start
        BY <1>0, <1>2, <2>4, <3>7, <4>1 DEF InFlight
      <4>2. status[c].targets[n].born \in 0..gen
        BY <4>1 DEF InFlight
      <4>3. /\ n \in DOMAIN state.accounts /\ state.accounts[n].born = status[c].targets[n].born
            /\ accounts[n].lastPollAt = state.accounts[n].lastPollAt
        BY <2>0, <3>3, <3>4, <4>2
      <4> QED BY <2>6, <4>1, <4>3 DEF InFlight
    <3> QED BY <1>0, <1>2, <2>0, <3>9, <3>10, CallsKept, NoAnswerSafe DEF IInv
  <2> QED BY <2>5, <2>6
<1> QED BY <1>0, <1>1, <1>2

(* Where auth ids are kept and not shared, an auth id keeps its account.   *)
LEMMA OwnerKept ==
  ASSUME state # None, Apart(state.accounts), DOMAIN state'.accounts = DOMAIN state.accounts,
         \A n \in DOMAIN state.accounts : state'.accounts[n].ids = state.accounts[n].ids,
         NEW id, Managed(id)
  PROVE  AccountOf(id)' = AccountOf(id)
<1>1. AccountOf(id) \in DOMAIN state.accounts /\ id \in state.accounts[AccountOf(id)].ids
  BY OwnerType
<1>2. \E n \in DOMAIN state'.accounts : id \in state'.accounts[n].ids
  BY <1>1
<1>3. AccountOf(id)' \in DOMAIN state'.accounts /\ id \in state'.accounts[AccountOf(id)'].ids
  BY <1>2 DEF AccountOf
<1>4. AccountOf(id)' \in DOMAIN state.accounts /\ id \in state.accounts[AccountOf(id)'].ids
  BY <1>3
<1> QED BY <1>1, <1>4 DEF Apart

(* The auth ids Pick chooses from are managed and their accounts healthy.  *)
LEMMA FitType ==
  ASSUME IInv, state # None, NEW request, NEW accounts
  PROVE  /\ Fit(request, accounts) \in SUBSET Nat /\ IsFiniteSet(Fit(request, accounts))
         /\ \A id \in Fit(request, accounts) :
              Managed(id) /\ accountHealthy(accounts[AccountOf(id)], state.threshold, now)
<1>1. \A id \in Fit(request, accounts) :
        Managed(id) /\ accountHealthy(accounts[AccountOf(id)], state.threshold, now)
  BY DEF Fit, Eligible
<1>2. ASSUME NEW id, Managed(id)
      PROVE  id \in AuthIDs
  <2>1. AccountOf(id) \in DOMAIN state.accounts /\ id \in state.accounts[AccountOf(id)].ids
    BY <1>2, OwnerType
  <2>2. state.accounts[AccountOf(id)] \in Account
    BY <2>1 DEF IInv, StateOK, AccountOK
  <2> QED BY <2>1, <2>2 DEF Account
<1>3. Fit(request, accounts) \in SUBSET AuthIDs
  BY <1>1, <1>2
<1>4. AuthIDs \subseteq Nat /\ IsFiniteSet(AuthIDs)
  BY OpenCodeGoAssumption
<1>5. IsFiniteSet(Fit(request, accounts))
  BY <1>3, <1>4, FS_Subset
<1> QED BY <1>1, <1>3, <1>4, <1>5

(* Pick's cursor selects one of the auth ids it chooses from.              *)
LEMMA NthFit ==
  ASSUME NEW S \in SUBSET Nat, IsFiniteSet(S), S # {}, NEW n \in Nat
  PROVE  Nth(S, 0) \in S /\ Nth(S, n % Cardinality(S)) \in S
<1>1. Cardinality(S) \in Nat /\ Cardinality(S) # 0
  BY FS_CardinalityType, FS_EmptySet
<1>2. n % Cardinality(S) \in Nat /\ n % Cardinality(S) < Cardinality(S) /\ 0 < Cardinality(S)
  BY <1>1
<1> QED BY <1>1, <1>2, NthExists

(* The accounts after Pick has refreshed them are good, and those it looked*)
(* at have no cooldown that is over.                                       *)
LEMMA RefreshedOK ==
  ASSUME IInv, state # None, NEW request
  PROVE  /\ Refreshed(request) \in [DOMAIN state.accounts -> Account]
         /\ \A n \in DOMAIN state.accounts :
              LET b == Refreshed(request)[n]
                  a == state.accounts[n]
              IN  /\ AccountOK(b, now, gen)
                  /\ b.ids = a.ids /\ b.born = a.born /\ b.lastPollAt = a.lastPollAt
                  /\ (\E i \in Reached(request) : Eligible(request[i]) /\ AccountOf(request[i].id) = n)
                       => \A k \in Kinds : b.windows[k].cooldownAt = 0 \/ b.windows[k].cooldownAt > now
<1>1. StateOK(state, now, gen) /\ now \in Nat /\ gen \in Nat
  BY OpenCodeGoAssumption DEF IInv
<1> DEFINE seen(n) == \E i \in Reached(request) : Eligible(request[i]) /\ AccountOf(request[i].id) = n
           new == Refreshed(request)
<1>2. /\ DOMAIN new = DOMAIN state.accounts
      /\ \A n \in DOMAIN state.accounts :
           new[n] = IF seen(n) THEN refreshWindows(state.accounts[n], now) ELSE state.accounts[n]
  BY DEF Refreshed
<1>3. ASSUME NEW n \in DOMAIN state.accounts
      PROVE  /\ AccountOK(new[n], now, gen)
             /\ new[n].ids = state.accounts[n].ids /\ new[n].born = state.accounts[n].born
             /\ new[n].lastPollAt = state.accounts[n].lastPollAt
             /\ seen(n) => \A k \in Kinds : new[n].windows[k].cooldownAt = 0 \/ new[n].windows[k].cooldownAt > now
  <2> HIDE DEF seen, new
  <2>1. AccountOK(state.accounts[n], now, gen)
    BY <1>1 DEF StateOK
  <2>2. CASE seen(n)
    <3>1. new[n] = refreshWindows(state.accounts[n], now)
      BY <1>2, <2>2
    <3> QED BY <1>1, <2>1, <3>1, AccountRefreshed
  <2>3. CASE ~seen(n)
    BY <1>2, <2>1, <2>3
  <2> QED BY <2>2, <2>3
<1>4. \A n \in DOMAIN state.accounts : new[n] \in Account
  BY <1>3 DEF AccountOK
<1>5. new = [n \in DOMAIN state.accounts |-> new[n]]
  BY DEF Refreshed
<1> QED BY <1>3, <1>4, <1>5

(* Pick preserves the invariant: what it answers respects what was         *)
(* announced, and it gives up only for a reason.                           *)
LEMMA PickStep ==
  ASSUME IInv, NEW request \in Requests, Pick(request)
  PROVE  IInv'
<1>0. /\ UNCHANGED <<now, closed, gen, status>> /\ now \in Nat /\ gen \in Nat
      /\ now' \in 1..MaxTime /\ now' >= now /\ DOMAIN status' = Callers /\ status' = status
  <2>1. UNCHANGED <<now, closed, gen, status>>
    BY DEF Pick
  <2>2. now \in 1..MaxTime /\ gen \in 0..MaxConfigs /\ DOMAIN status = Callers
    BY DEF IInv
  <2> QED BY <2>1, <2>2, OpenCodeGoAssumption
<1>1. CASE state = None
  <2>1. state' = None /\ answer'.outcome = "not_configured"
    BY <1>1 DEF Pick
  <2>2. \A c \in Callers : InFlight(status[c], state', now', gen')
    BY <1>0, <1>1, <2>1 DEF IInv
  <2>3. PickAvoidsAnnounced' /\ NoCapacityJustified'
    BY <2>1 DEF PickAvoidsAnnounced, NoCapacityJustified
  <2> QED BY <1>0, <1>1, <2>1, <2>2, <2>3, CallsKept DEF IInv
<1>2. CASE state # None
  <2> DEFINE accounts == Refreshed(request)
             fit == Fit(request, accounts)
             lead == AccountOf(Nth(fit, 0))
             final == IF answer'.outcome = "picked"
                      THEN [accounts EXCEPT ![lead].cursor = (@ + 1) % Rotation]
                      ELSE accounts
  <2>1. /\ answer'.asked = request
        /\ answer'.outcome = "picked" =>
             fit # {} /\ answer'.id = Nth(fit, accounts[lead].cursor % Cardinality(fit))
        /\ answer'.outcome = "no_capacity" =>
             fit = {} /\ \A i \in DOMAIN request : ~Unmanaged(request[i])
        /\ state' = [state EXCEPT !.accounts = final]
    BY <1>2 DEF Pick
  <2>2. StateOK(state, now, gen) /\ state.threshold \in 1..100
    BY <1>2 DEF IInv, StateOK, State
  <2>3. /\ fit \in SUBSET Nat /\ IsFiniteSet(fit)
        /\ \A id \in fit :
             Managed(id) /\ accountHealthy(accounts[AccountOf(id)], state.threshold, now)
    BY <1>2, FitType
  <2>4. /\ accounts \in [DOMAIN state.accounts -> Account]
        /\ \A n \in DOMAIN state.accounts :
             /\ AccountOK(accounts[n], now, gen)
             /\ accounts[n].ids = state.accounts[n].ids
             /\ accounts[n].born = state.accounts[n].born
             /\ accounts[n].lastPollAt = state.accounts[n].lastPollAt
             /\ (\E i \in Reached(request) : Eligible(request[i]) /\ AccountOf(request[i].id) = n)
                  => \A k \in Kinds :
                       accounts[n].windows[k].cooldownAt = 0 \/ accounts[n].windows[k].cooldownAt > now
    BY <1>2, RefreshedOK
  <2> HIDE DEF accounts, fit
  <2>5. answer'.outcome = "picked" => lead \in DOMAIN state.accounts /\ answer'.id \in fit
    <3> SUFFICES ASSUME answer'.outcome = "picked"
                 PROVE  lead \in DOMAIN state.accounts /\ answer'.id \in fit
      OBVIOUS
    <3>1. Nth(fit, 0) \in fit
      BY <2>1, <2>3, NthFit
    <3>2. lead \in DOMAIN state.accounts
      BY <2>3, <3>1, OwnerType
    <3>3. accounts[lead].cursor \in Nat
      <4>1. accounts[lead].cursor \in 0..(Rotation - 1) /\ Rotation \in Nat
        BY <2>4, <3>2, OpenCodeGoAssumption DEF Account
      <4> QED BY <4>1
    <3> QED BY <2>1, <2>3, <3>2, <3>3, NthFit
  <2> HIDE DEF lead
  <2>6. ASSUME NEW n \in DOMAIN state.accounts
        PROVE  /\ final[n] \in Account
               /\ AccountOK(final[n], now', gen)
               /\ final[n].ids = state.accounts[n].ids
               /\ final[n].born = state.accounts[n].born
               /\ final[n].lastPollAt >= state.accounts[n].lastPollAt
               /\ final[n].windows = accounts[n].windows /\ final[n].heard = accounts[n].heard
               /\ final[n].disabled = accounts[n].disabled
    <3>1. /\ AccountOK(accounts[n], now, gen) /\ accounts[n] \in Account
          /\ state.accounts[n].lastPollAt \in Nat
      BY <2>2, <2>4 DEF StateOK, AccountOK, Account
    <3>2. CASE answer'.outcome = "picked" /\ n = lead
      <4>1. final[n] = [accounts[n] EXCEPT !.cursor = (@ + 1) % Rotation]
        BY <2>4, <3>2
      <4> DEFINE a == accounts[n]
                 b == final[n]
      <4> HIDE DEF final
      <4>2. /\ AccountOK(final[n], now, gen) /\ final[n].ids = accounts[n].ids
            /\ final[n].born = accounts[n].born /\ final[n].lastPollAt = accounts[n].lastPollAt
            /\ final[n].windows = accounts[n].windows /\ final[n].heard = accounts[n].heard
            /\ final[n].disabled = accounts[n].disabled
        <5>1. b = [a EXCEPT !.cursor = (@ + 1) % Rotation] /\ AccountOK(a, now, gen)
          BY <3>1, <4>1
        <5> HIDE DEF a, b
        <5>2. /\ AccountOK(b, now, gen) /\ b.ids = a.ids /\ b.born = a.born
              /\ b.lastPollAt = a.lastPollAt /\ b.windows = a.windows /\ b.heard = a.heard
              /\ b.disabled = a.disabled
          BY <1>0, <5>1, AccountMoved
        <5> QED BY <5>2 DEF a, b
      <4>3. final[n].ids = state.accounts[n].ids /\ final[n].born = state.accounts[n].born
        BY Zenon, <2>4, <4>2
      <4>4. final[n].lastPollAt = state.accounts[n].lastPollAt
        BY Zenon, <2>4, <4>2
      <4>5. final[n].lastPollAt >= state.accounts[n].lastPollAt
        BY <3>1, <4>4
      <4>6. now' = now /\ final[n] \in Account
        BY <1>0, <4>2 DEF AccountOK
      <4> QED BY Zenon, <4>2, <4>3, <4>5, <4>6
    <3>3. CASE ~(answer'.outcome = "picked" /\ n = lead)
      <4>1. final[n] = accounts[n]
        BY <2>4, <2>5, <3>3
      <4> HIDE DEF final
      <4>2. final[n].ids = state.accounts[n].ids /\ final[n].born = state.accounts[n].born
        BY Zenon, <2>4, <4>1
      <4>3. final[n].lastPollAt = state.accounts[n].lastPollAt
        BY Zenon, <2>4, <4>1
      <4>4. final[n].lastPollAt >= state.accounts[n].lastPollAt
        BY <3>1, <4>3
      <4>5. now' = now
        BY <1>0
      <4> QED BY Zenon, <3>1, <4>1, <4>2, <4>4, <4>5
    <3> QED BY <3>2, <3>3
  <2>7. final \in [DOMAIN state.accounts -> Account]
    <3>1. DOMAIN final = DOMAIN state.accounts /\ final = [n \in DOMAIN final |-> final[n]]
      BY <2>4
    <3> HIDE DEF final
    <3> QED BY <2>6, <3>1
  <2> HIDE DEF final
  <2>8. closed' = closed /\ gen' = gen
    BY <1>0
  <2>9. /\ closed' = FALSE /\ gen' \in 0..MaxConfigs /\ StateOK(state', now', gen')
        /\ state'.accounts = final /\ state'.threshold = state.threshold
        /\ \A c \in Callers : InFlight(status[c], state', now', gen')
    BY <1>0, <1>2, <2>1, <2>6, <2>7, <2>8, RewriteStep
  <2>10. ASSUME NEW id, Managed(id)
         PROVE  AccountOf(id)' = AccountOf(id) /\ AccountOf(id) \in DOMAIN state.accounts
    <3>1. Apart(state.accounts) /\ DOMAIN state'.accounts = DOMAIN state.accounts
      BY <2>2, <2>7, <2>9 DEF StateOK
    <3>2. \A n \in DOMAIN state.accounts : state'.accounts[n].ids = state.accounts[n].ids
      BY <2>6, <2>9
    <3>3. AccountOf(id)' = AccountOf(id)
      BY <1>2, <2>10, <3>1, <3>2, OwnerKept
    <3> QED BY <2>10, <3>3, OwnerType
  <2>11. PickAvoidsAnnounced'
    <3>1. PICK id : id = answer'.id
      OBVIOUS
    <3> SUFFICES ASSUME answer'.outcome = "picked", NEW k \in Kinds
                 PROVE  state'.accounts[AccountOf(id)'].heard[k].announced <= now'
      BY <3>1 DEF PickAvoidsAnnounced, AccountOf
    <3> DEFINE m == AccountOf(id)
               w == final[m].windows[k]
               h == final[m].heard[k]
    <3>2. AccountOf(id)' = m /\ m \in DOMAIN state.accounts /\ accountHealthy(accounts[m], state.threshold, now)
      BY <2>3, <2>5, <2>10, <3>1
    <3>3. Covered(w, h, now) /\ h.announced \in Nat /\ w.cooldownAt \in Nat
      BY <1>0, <2>6, <3>2 DEF AccountOK, Account, Window, Heard
    <3>4. ~(w.exhausted /\ w.cooldownAt > now)
      BY <2>6, <3>2 DEF accountHealthy
    <3> HIDE DEF w, h
    <3>5. h.announced <= now
      BY <1>0, <3>3, <3>4 DEF Covered
    <3>6. now' = now
      BY <1>0
    <3>7. state'.accounts = final
      BY <2>9
    <3> HIDE DEF final
    <3> QED BY Zenon, <3>2, <3>5, <3>6, <3>7 DEF w, h
  <2>12. NoCapacityJustified'
    <3> SUFFICES ASSUME answer'.outcome = "no_capacity", NEW i \in DOMAIN request, Eligible(request[i])'
                 PROVE  LET account == state'.accounts[AccountOf(request[i].id)']
                        IN \/ account.disabled
                           \/ \E k \in Kinds :
                                \/ account.heard[k].until > now'
                                \/ /\ account.windows[k].authoritative
                                   /\ \/ account.windows[k].exhausted
                                      \/ account.windows[k].percent >= state'.threshold
      BY <2>1 DEF NoCapacityJustified, Eligible, Managed, AccountOf
    <3> DEFINE id == request[i].id
               m == AccountOf(id)
    <3>1. Managed(id) /\ Eligible(request[i])
      BY <1>2, <2>6, <2>7, <2>9 DEF Eligible, Managed
    <3>2. AccountOf(id)' = m /\ m \in DOMAIN state.accounts
      BY <2>10, <3>1
    <3>3. i \in Reached(request)
      <4>1. 1..i \subseteq DOMAIN request
        BY OpenCodeGoAssumption
      <4> QED BY <2>1, <4>1 DEF Reached
    <3>4. ~accountHealthy(accounts[m], state.threshold, now)
      <4>1. fit = {}
        BY <2>1
      <4> QED BY <3>1, <4>1 DEF fit, Fit
    <3>5. \A k \in Kinds :
            accounts[m].windows[k].cooldownAt = 0 \/ accounts[m].windows[k].cooldownAt > now
      BY <2>4, <3>1, <3>2, <3>3
    <3>6. CASE accounts[m].disabled
      BY <2>6, <2>9, <3>2, <3>6
    <3>7. CASE ~accounts[m].disabled
      <4>1. PICK k \in Kinds : accounts[m].windows[k].exhausted \/ ~(accounts[m].windows[k].percent < state.threshold)
        BY <3>4, <3>7 DEF accountHealthy
      <4> DEFINE w == accounts[m].windows[k]
                 h == accounts[m].heard[k]
      <4>2. /\ Covered(w, h, now) /\ h.until \in Nat /\ w.cooldownAt \in Nat /\ w.percent \in Nat
        BY <2>4, <3>2 DEF AccountOK, Account, Window, Heard
      <4>3. \/ h.until > now
            \/ w.authoritative /\ (w.exhausted \/ w.percent >= state.threshold)
        <5>1. w.cooldownAt = 0 \/ w.cooldownAt > now
          BY <3>5
        <5>2. w.exhausted \/ ~(w.percent < state.threshold)
          BY <4>1
        <5>3. state.threshold \in Nat /\ state.threshold > 0
          BY <2>2
        <5> HIDE DEF w, h
        <5>4. CASE w.authoritative
          BY <4>2, <5>2, <5>3, <5>4
        <5>5. CASE ~w.exhausted /\ w.percent = 0
          BY <5>2, <5>3, <5>5
        <5>6. CASE w.cooldownAt # 0 /\ (w.cooldownAt > now => h.until >= w.cooldownAt)
          BY <1>0, <4>2, <5>1, <5>6
        <5> QED BY <4>2, <5>4, <5>5, <5>6 DEF Covered
      <4> QED BY <1>0, <2>6, <2>9, <3>2, <4>3
    <3> QED BY <3>6, <3>7
  <2> QED BY <1>0, <2>9, <2>11, <2>12, CallsKept DEF IInv
<1> QED BY <1>1, <1>2
-----------------------------------------------------------------------------
(* Theorems *)

(* The invariant implies the properties.                                   *)
LEMMA InvImplies == IInv => TypeOK /\ PickAvoidsAnnounced /\ NoCapacityJustified /\ PollsSpaced
<1> SUFFICES ASSUME IInv PROVE TypeOK
  BY DEF IInv
<1>1. ASSUME state # None
      PROVE  /\ state.threshold \in 1..100 /\ DOMAIN state.accounts \subseteq Names
             /\ \A n \in DOMAIN state.accounts : state.accounts[n] \in Account
             /\ \A m, n \in DOMAIN state.accounts :
                  m # n => state.accounts[m].ids \cap state.accounts[n].ids = {}
  <2>1. StateOK(state, now, gen)
    BY <1>1 DEF IInv
  <2> QED BY <2>1, MapType DEF StateOK, State, Apart, AccountOK
<1> QED BY <1>1 DEF IInv, TypeOK

(* IInv is an invariant of the module, for every value of the constants.   *)
THEOREM Inductive == Spec => []IInv
<1>1. Init => IInv
  <2> SUFFICES ASSUME Init PROVE IInv
    OBVIOUS
  <2>1. 1 \in 1..MaxTime /\ 0 \in 0..MaxConfigs
    BY OpenCodeGoAssumption
  <2>2. /\ DOMAIN status = Callers
        /\ \A c \in Callers : status[c].pc = "idle" /\ status[c].start = 0 /\ DOMAIN status[c].targets = {}
    BY DEF Init, Idle
  <2>3. answer.outcome = "none"
    BY DEF Init, NoAnswer
  <2>4. PollsSpaced /\ \A c \in Callers : InFlight(status[c], state, now, gen)
    BY <2>2 DEF PollsSpaced, InFlight
  <2>5. PickAvoidsAnnounced /\ NoCapacityJustified
    BY <2>3 DEF PickAvoidsAnnounced, NoCapacityJustified
  <2>6. now = 1 /\ state = None /\ closed = FALSE /\ gen = 0
    BY DEF Init
  <2>7. \A c \in Callers :
          /\ status[c].pc \in {"idle", "fetch", "report"}
          /\ status[c].start \in 0..now
          /\ DOMAIN status[c].targets \subseteq Names
    BY <2>2, <2>6
  <2>8. now \in 1..MaxTime /\ closed \in BOOLEAN /\ gen \in 0..MaxConfigs
    BY <2>1, <2>6
  <2> QED BY <2>2, <2>4, <2>5, <2>6, <2>7, <2>8 DEF IInv
<1>2. IInv /\ [Next]_vars => IInv'
  <2> SUFFICES ASSUME IInv, [Next]_vars PROVE IInv'
    OBVIOUS
  <2>1. ASSUME NEW raw \in RawConfigs, Reconfigure(raw) PROVE IInv'
    BY <2>1, ReconfigureStep
  <2>2. ASSUME NEW id \in Reported, NEW kind \in Kinds, NEW at \in 1..now, NEW offset \in Offsets,
               HandleUsage(id, kind, at, offset)
        PROVE  IInv'
    BY <2>2, HandleUsageStep
  <2>3. ASSUME NEW id \in AuthIDs, NEW quota \in BOOLEAN, IgnoreUsage(id, quota) PROVE IInv'
    BY <2>3, IgnoreStep DEF IgnoreUsage
  <2>4. ASSUME NEW request \in Requests, Pick(request) PROVE IInv'
    BY <2>4, PickStep
  <2>5. ASSUME NEW c \in Callers, BeginStatus(c) PROVE IInv'
    BY <2>5, BeginStep
  <2>6. ASSUME NEW c \in Callers, ApplyPoll(c) PROVE IInv'
    BY <2>6, ApplyStep
  <2>7. ASSUME NEW c \in Callers, ReportStatus(c) PROVE IInv'
    BY <2>7, ReportStep
  <2>8. CASE Close
    BY <2>8, CloseStep
  <2>9. CASE Tick
    BY <2>9, TickStep
  <2>10. CASE UNCHANGED vars
    BY <2>10, IgnoreStep DEF vars
  <2> QED BY <2>1, <2>2, <2>3, <2>4, <2>5, <2>6, <2>7, <2>8, <2>9, <2>10 DEF Next
<1> QED BY <1>1, <1>2, PTL DEF Spec

(* The types hold; in particular no poll or Reconfigure in flight revives a*)
(* closed module, and no auth id ever belongs to two accounts.             *)
THEOREM OpenCodeGoTypes == Spec => []TypeOK
BY Inductive, InvImplies, PTL

(* Pick never chooses an account before the reset a 429 announced for it,  *)
(* whatever reports, configurations and late poll answers follow, unless a *)
(* poll that mergeWindowSignal takes says otherwise.                       *)
THEOREM PickAvoidsAnnouncedAlways == Spec => []PickAvoidsAnnounced
BY Inductive, InvImplies, PTL

(* Pick gives up only when every account asked about is disabled, was last *)
(* polled at or over the threshold, or had a 429 whose time is not over.   *)
THEOREM NoCapacityJustifiedAlways == Spec => []NoCapacityJustified
BY Inductive, InvImplies, PTL

(* Two polls in flight for one account started at least PollGap apart,     *)
(* across any number of reconfigures and concurrent calls of Status.       *)
THEOREM PollsSpacedAlways == Spec => []PollsSpaced
BY Inductive, InvImplies, PTL
=============================================================================
