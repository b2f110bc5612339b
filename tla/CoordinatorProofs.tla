------------------------- MODULE CoordinatorProofs -------------------------
(***************************************************************************)
(* Proofs about Coordinator: its invariants hold for every set of host     *)
(* threads, auth IDs, host configurations and requests.                    *)
(***************************************************************************)
EXTENDS Coordinator, FiniteSetTheorems, TLAPS

---------------------------------------------------------------------------
(* The inductive invariant.                                                *)

RecCall == [pc : {"idle", "module", "collect", "swap", "finish"}, at : 1 .. 2,
            owned : Seq(SUBSET Ids), alone : BOOLEAN]

PickCall == [pc : {"idle", "recognize", "decide", "answered"}, req : SUBSET Candidate, at : 1 .. 3,
             recognizing : SUBSET Modules, steady : SUBSET Modules,
             answer : Modules \cup {"none", "unhandled"}]

UsageCall == [pc : {"usage", "done"}, id : Ids \cup {None}, target : Modules \cup {None},
              due : Modules \cup {None}, counted : Modules \cup {None}]

DownCall == [pc : {"idle", "wait", "close", "returned"}, at : 1 .. 3]

Types ==
    /\ TypeOK
    /\ rec \in [Reconfigurers -> RecCall]
    /\ calls \in [Callers -> PickCall \cup UsageCall]
    /\ down \in [Stoppers -> DownCall]
    /\ settled \in {"swapped", "failed", "overlapped"}

(* What a reconfigure has collected so far.                                *)
Lengths ==
    \A r \in Reconfigurers :
        /\ rec[r].pc \in {"idle", "module"} => rec[r].owned = <<>>
        /\ rec[r].pc = "collect" => Len(rec[r].owned) = rec[r].at - 1
        /\ rec[r].pc = "swap" => Len(rec[r].owned) = 2

(* A shutdown past its wait, or past the first Close, met an empty wait    *)
(* group, and the flag keeps it empty.                                     *)
Draining ==
    /\ \A s \in Stoppers :
        /\ down[s].pc \in {"wait", "close", "returned"} => stopped
        /\ down[s].pc \in {"idle", "wait"} => down[s].at = 1
        /\ down[s].pc = "close" => inflight = {} /\ down[s].at \in 1 .. 2
    /\ closed # {} => stopped /\ inflight = {}

(* A reconfigure that no other has overlapped is the only one running.     *)
Solitude == \A r \in inflight : rec[r].alone => inflight = {r}

(* What such a reconfigure has collected is what the modules own.          *)
Collected ==
    \A r \in inflight : rec[r].alone =>
        /\ rec[r].pc = "collect" /\ rec[r].at = 2 => rec[r].owned[1] = owned[Zai]
        /\ rec[r].pc = "swap" => rec[r].owned[1] = owned[Zai] /\ rec[r].owned[2] = owned[OpenCodeGo]

(* A reconfigure that may have changed a module the registry does not know *)
(* about yet.                                                              *)
Dirty(r) == rec[r].pc \in {"collect", "swap"} \/ (rec[r].pc = "module" /\ rec[r].at = 2)

Agreement ==
    settled = "swapped" /\ (\A r \in inflight : ~Dirty(r)) =>
        \A m \in Modules \ closed : \A id \in owned[m] : registry[id] = m

(* Whoever could clear the error of a reconfigure that failed alone has    *)
(* itself swapped since.                                                   *)
Reported ==
    settled = "failed" =>
        /\ \A r \in Reconfigurers : rec[r].pc # "finish"
        /\ ~stopped => lastErr

(* A module concerned all along has recognized the request once asked.     *)
PickInv(c) ==
    /\ calls[c].pc \in {"recognize", "decide"} =>
        calls[c].steady \subseteq Concerned(owned, calls[c].req)
    /\ calls[c].pc = "recognize" =>
        /\ calls[c].at \in 1 .. 2
        /\ calls[c].at = 2 /\ Zai \in calls[c].steady => Zai \in calls[c].recognizing
    /\ calls[c].pc = "decide" => calls[c].steady \subseteq calls[c].recognizing
    /\ calls[c].pc = "answered" =>
        /\ calls[c].answer = "unhandled" => calls[c].steady = {}
        /\ \A m \in Modules : calls[c].answer = m => calls[c].steady \subseteq {m}

(* A usage call is on its way to the owner it is due to.                   *)
UsageInv(c) ==
    /\ calls[c].pc = "usage" /\ calls[c].due # None =>
        /\ calls[c].due = calls[c].target
        /\ calls[c].due \notin closed
        /\ calls[c].id \in owned[calls[c].due]
    /\ calls[c].pc = "done" /\ calls[c].due # None => calls[c].counted = calls[c].due

Calls == \A c \in Callers : PickInv(c) /\ UsageInv(c)

IInv ==
    /\ Types /\ Lengths /\ Draining
    /\ Solitude /\ Collected /\ Agreement /\ Reported
    /\ Calls

---------------------------------------------------------------------------
(* The two hosted modules and their order.                                 *)
LEMMA ModulesAre ==
    /\ Modules = {Zai, OpenCodeGo} /\ Zai # OpenCodeGo
    /\ Len(modules) = 2 /\ DOMAIN modules = 1 .. 2
    /\ modules[1] = Zai /\ modules[2] = OpenCodeGo
BY CoordinatorAssumption DEF Modules, modules

(* A set of recognizing modules that is neither empty nor larger than one  *)
(* is one module: what pick's switch on its length relies on.              *)
LEMMA OneRecognizing ==
    ASSUME NEW S \in SUBSET Modules, S # {}, ~(Cardinality(S) > 1)
    PROVE  \E m \in Modules : S = {m}
<1>1. CASE Zai \in S /\ OpenCodeGo \in S
  <2>1. S = {Zai, OpenCodeGo}
    BY <1>1, ModulesAre
  <2>2. Cardinality(S) = 2
    <3>1. IsFiniteSet({OpenCodeGo}) /\ Cardinality({OpenCodeGo}) = 1
      BY FS_Singleton
    <3>2. Cardinality({OpenCodeGo} \cup {Zai}) = 2
      BY <3>1, FS_AddElement, ModulesAre
    <3>3. QED
      BY <3>2, <2>1
  <2>3. QED
    BY <2>2
<1>2. CASE ~(Zai \in S /\ OpenCodeGo \in S)
  BY <1>2, ModulesAre
<1>3. QED
  BY <1>1, <1>2

(* A thread that is not in a call.                                         *)
LEMMA NoPickType == NoPick \in PickCall
BY DEF NoPick, PickCall

(* The initial state of New satisfies the invariant.                       *)
LEMMA InitInv == Init => IInv
<1> SUFFICES ASSUME Init PROVE IInv
  OBVIOUS
<1> USE ModulesAre
<1>1. Types
  <2>1. NoCall \in RecCall
    BY DEF NoCall, RecCall
  <2>2. NoPick \in PickCall
    BY NoPickType
  <2>3. TypeOK
    BY CoordinatorAssumption DEF Init, TypeOK, NoCall
  <2>4. QED
    BY <2>1, <2>2, <2>3 DEF Init, Types, DownCall
<1>2. Lengths /\ Draining /\ Solitude /\ Collected /\ Agreement /\ Reported
  BY DEF Init, Lengths, Draining, Solitude, Collected, Agreement, Reported, NoCall
<1>3. Calls
  BY DEF Init, Calls, PickInv, UsageInv, NoPick
<1>4. QED
  BY <1>1, <1>2, <1>3 DEF IInv

---------------------------------------------------------------------------
(* A step that touches neither a module nor a call keeps what is known of  *)
(* the calls.                                                              *)
LEMMA CallsKept ==
    ASSUME Calls, UNCHANGED <<owned, closed, calls>>
    PROVE  Calls'
BY DEF Calls, PickInv, UsageInv, Concerned, Managed

(* What is known of reconfigures, registry and shutdown does not depend on *)
(* the picks and usage records in progress.                                *)
LEMMA OthersKept ==
    ASSUME Types, Lengths, Draining, Solitude, Collected, Agreement, Reported,
           calls' \in [Callers -> PickCall \cup UsageCall],
           UNCHANGED <<owned, closed, registry, lastErr, stopped, inflight, rec, down, settled>>
    PROVE  (Types /\ Lengths /\ Draining /\ Solitude /\ Collected /\ Agreement /\ Reported)'
<1>1. Types'
  BY DEF Types, TypeOK
<1>2. (Lengths /\ Draining /\ Solitude /\ Collected /\ Agreement /\ Reported)'
  BY DEF Lengths, Draining, Solitude, Collected, Agreement, Reported, Dirty
<1>3. QED
  BY <1>1, <1>2

(* The history that accompanies a change of the modules is exact enough:   *)
(* whatever a module comes to own or which is closed, a call in progress   *)
(* keeps its promises.                                                     *)
LEMMA WatchKeeps ==
    ASSUME calls \in [Callers -> PickCall \cup UsageCall], Calls, Watch
    PROVE  calls' \in [Callers -> PickCall \cup UsageCall] /\ Calls'
<1>1. ASSUME NEW c \in Callers
      PROVE  /\ calls'[c] \in PickCall \cup UsageCall
             /\ PickInv(c)' /\ UsageInv(c)'
  <2> USE CoordinatorAssumption
  <2>0. PickInv(c) /\ UsageInv(c) /\ calls[c] \in PickCall \cup UsageCall
    BY DEF Calls
  <2>1. CASE calls[c].pc \in {"recognize", "decide"}
    <3>1. calls[c] \in PickCall
      BY <2>0, <2>1 DEF PickCall, UsageCall
    <3>2. calls'[c] = [calls[c] EXCEPT !.steady = @ \cap Concerned(owned', calls[c].req)]
      BY <2>1 DEF Watch
    <3>3. calls'[c] \in PickCall /\ UsageInv(c)'
      BY <3>1, <3>2, <2>1 DEF PickCall, UsageInv
    <3>4. PickInv(c)'
      BY <3>1, <3>2, <2>0, <2>1 DEF PickCall, PickInv, Concerned
    <3>5. QED
      BY <3>3, <3>4
  <2>2. CASE calls[c].pc = "usage"
    <3>1. calls[c] \in UsageCall
      BY <2>0, <2>2 DEF PickCall, UsageCall
    <3>2. calls'[c] = [calls[c] EXCEPT !.due =
             IF @ \in closed' \/ (@ # None /\ calls[c].id \notin owned'[@]) THEN None ELSE @]
      BY <2>2 DEF Watch
    <3>3. calls'[c] \in UsageCall /\ PickInv(c)'
      BY <3>1, <3>2, <2>2 DEF UsageCall, PickInv
    <3>4. UsageInv(c)'
      BY <3>1, <3>2, <2>0, <2>2 DEF UsageCall, UsageInv
    <3>5. QED
      BY <3>3, <3>4
  <2>3. CASE calls[c].pc \notin {"recognize", "decide", "usage"}
    <3>1. calls'[c] = calls[c]
      BY <2>3 DEF Watch
    <3>2. QED
      BY <3>1, <2>0, <2>3 DEF PickInv, UsageInv
  <2>4. QED
    BY <2>1, <2>2, <2>3
<1>2. DOMAIN calls' = Callers /\ calls' = [c \in Callers |-> calls'[c]]
  BY DEF Watch
<1>3. calls' \in [Callers -> PickCall \cup UsageCall]
  BY <1>1, <1>2
<1>4. QED
  BY <1>1, <1>3 DEF Calls

---------------------------------------------------------------------------
(* One lemma per action of a pick or usage call.                           *)

(* A pick starts with the modules its request concerns at that moment.     *)
LEMMA BeginPickInv ==
    ASSUME IInv, NEW c \in Callers, BeginPick(c)
    PROVE  IInv'
<1>1. PICK req \in Requests : calls' = [calls EXCEPT ![c] =
            IF stopped THEN NoPick
            ELSE [NoPick EXCEPT !.pc = "recognize", !.req = req, !.steady = Concerned(owned, req)]]
  BY DEF BeginPick
<1>2. req \in SUBSET Candidate
  BY CoordinatorAssumption
<1>3. calls'[c] \in PickCall
  <2>1. Concerned(owned, req) \in SUBSET Modules
    BY DEF Concerned
  <2>2. [NoPick EXCEPT !.pc = "recognize", !.req = req, !.steady = Concerned(owned, req)] \in PickCall
    BY <1>2, <2>1, NoPickType DEF PickCall
  <2>3. QED
    BY <1>1, <2>2, NoPickType DEF IInv, Types
<1>4. calls' \in [Callers -> PickCall \cup UsageCall]
  BY <1>1, <1>3 DEF IInv, Types
<1>5. PickInv(c)' /\ UsageInv(c)'
  BY <1>1 DEF IInv, Types, BeginPick, NoPick, PickInv, UsageInv
<1>6. ASSUME NEW d \in Callers, d # c PROVE PickInv(d)' /\ UsageInv(d)'
  BY <1>1, <1>6 DEF IInv, Types, Calls, BeginPick, PickInv, UsageInv, Concerned, Managed
<1>7. Calls'
  BY <1>5, <1>6 DEF Calls
<1>8. QED
  BY <1>4, <1>7, OthersKept DEF IInv, BeginPick

(* The module asked next either recognizes the request or does not, in     *)
(* which case it is not one that has been concerned all along.             *)
LEMMA RecognizeNextInv ==
    ASSUME IInv, NEW c \in Callers, RecognizeNext(c)
    PROVE  IInv'
<1> DEFINE at == calls[c].at
           m == modules[at]
<1>1. /\ calls[c] \in PickCall /\ PickInv(c) /\ calls[c].pc = "recognize"
      /\ at \in 1 .. 2 /\ m \in Modules
      /\ calls[c].steady \subseteq Concerned(owned, calls[c].req)
  <2>1. calls[c] \in PickCall /\ PickInv(c) /\ calls[c].pc = "recognize"
    BY DEF IInv, Types, Calls, RecognizeNext, PickCall, UsageCall
  <2>2. at \in 1 .. 2 /\ calls[c].steady \subseteq Concerned(owned, calls[c].req)
    BY <2>1 DEF PickInv
  <2>3. QED
    BY <2>1, <2>2, ModulesAre
<1>2. calls' = [calls EXCEPT
            ![c].recognizing = IF Recognizes(m, owned[m], calls[c].req) THEN @ \cup {m} ELSE @,
            ![c].at = @ + 1,
            ![c].pc = IF at = Len(modules) THEN "decide" ELSE @]
  BY DEF RecognizeNext
<1>3. /\ calls'[c].recognizing = IF Recognizes(m, owned[m], calls[c].req)
                                 THEN calls[c].recognizing \cup {m} ELSE calls[c].recognizing
      /\ calls'[c].at = at + 1
      /\ calls'[c].pc = IF at = 2 THEN "decide" ELSE "recognize"
      /\ calls'[c].steady = calls[c].steady /\ calls'[c].req = calls[c].req
      /\ calls'[c].answer = calls[c].answer
      /\ calls'[c] \in PickCall
  <2> DEFINE call == [calls[c] EXCEPT
            !.recognizing = IF Recognizes(m, owned[m], calls[c].req) THEN @ \cup {m} ELSE @,
            !.at = @ + 1,
            !.pc = IF at = 2 THEN "decide" ELSE @]
  <2>1. calls'[c] = call
    BY <1>1, <1>2, ModulesAre DEF IInv, Types
  <2>2. /\ call.recognizing = IF Recognizes(m, owned[m], calls[c].req)
                              THEN calls[c].recognizing \cup {m} ELSE calls[c].recognizing
        /\ call.at = at + 1
        /\ call.pc = IF at = 2 THEN "decide" ELSE "recognize"
        /\ call.steady = calls[c].steady /\ call.req = calls[c].req
        /\ call.answer = calls[c].answer
    BY <1>1 DEF PickCall
  <2>3. call \in PickCall
    <3> DEFINE found == IF Recognizes(m, owned[m], calls[c].req)
                        THEN calls[c].recognizing \cup {m} ELSE calls[c].recognizing
               label == IF at = 2 THEN "decide" ELSE calls[c].pc
    <3>1. call = [calls[c] EXCEPT !.recognizing = found, !.at = at + 1, !.pc = label]
      OBVIOUS
    <3>2. found \in SUBSET Modules
      BY <1>1 DEF PickCall
    <3>3. at + 1 \in 1 .. 3 /\ label \in {"idle", "recognize", "decide", "answered"}
      BY <1>1
    <3> HIDE DEF call, found, label, m
    <3> QED BY <1>1, <3>1, <3>2, <3>3 DEF PickCall
  <2> HIDE DEF call
  <2> QED BY Zenon, <2>1, <2>2, <2>3
<1>4. calls' \in [Callers -> PickCall \cup UsageCall]
  BY <1>2, <1>3 DEF IInv, Types
<1>5. m \in calls[c].steady => m \in calls'[c].recognizing
  <2>1. ASSUME m \in calls[c].steady PROVE Recognizes(m, owned[m], calls[c].req)
    BY <1>1, <2>1 DEF Concerned, Recognizes, Recognize
  <2>2. QED
    BY <2>1, <1>3
<1>6. PickInv(c)' /\ UsageInv(c)'
  <2>1. owned' = owned
    BY DEF RecognizeNext
  <2>2. UsageInv(c)'
    BY <1>3 DEF UsageInv
  <2>3. Concerned(owned, calls[c].req)' = Concerned(owned, calls[c].req)
    BY <2>1, <1>3 DEF Concerned, Managed
  <2>4. CASE at = 1
    <3>1. m = Zai /\ calls'[c].pc = "recognize" /\ calls'[c].at = 2
      BY <2>4, <1>3, ModulesAre
    <3>2. Zai \in calls'[c].steady => Zai \in calls'[c].recognizing
      BY <3>1, <1>3, <1>5
    <3>3. calls'[c].steady \subseteq Concerned(owned, calls[c].req)'
      BY <2>3, <1>1, <1>3
    <3>4. QED
      BY <2>2, <3>1, <3>2, <3>3 DEF PickInv
  <2>5. CASE at = 2
    <3>1. m = OpenCodeGo /\ calls'[c].pc = "decide"
      BY <2>5, <1>3, ModulesAre
    <3>2. Zai \in calls[c].steady => Zai \in calls[c].recognizing
      BY <2>5, <1>1 DEF PickInv
    <3>3. calls[c].recognizing \subseteq calls'[c].recognizing
      BY <1>3
    <3>4. calls[c].steady \in SUBSET {Zai, OpenCodeGo}
      BY <1>1, ModulesAre DEF PickCall
    <3>5. calls'[c].steady \subseteq calls'[c].recognizing
      BY <3>1, <3>2, <3>3, <3>4, <1>3, <1>5
    <3>6. calls'[c].steady \subseteq Concerned(owned, calls[c].req)'
      BY <2>3, <1>1, <1>3
    <3>7. QED
      BY <2>2, <3>1, <3>5, <3>6 DEF PickInv
  <2>6. QED
    BY <1>1, <2>2, <2>4, <2>5
<1>7. ASSUME NEW d \in Callers, d # c PROVE PickInv(d)' /\ UsageInv(d)'
  <2>1. calls'[d] = calls[d]
    BY <1>2, <1>7 DEF IInv, Types
  <2>2. owned' = owned /\ closed' = closed
    BY DEF RecognizeNext
  <2>3. QED
    BY <2>1, <2>2 DEF IInv, Calls, PickInv, UsageInv, Concerned, Managed
<1>8. Calls'
  BY <1>6, <1>7 DEF Calls
<1>9. QED
  BY <1>4, <1>8, OthersKept DEF IInv, RecognizeNext

(* The answer.  A module that leaves the request alone manages none of its *)
(* candidates and sees none of its marks; with two recognizing modules     *)
(* nobody answers.                                                         *)
LEMMA DecideInv ==
    ASSUME IInv, NEW c \in Callers, Decide(c)
    PROVE  IInv'
<1> DEFINE req == calls[c].req
           recognizing == calls[c].recognizing
           steady == calls[c].steady
<1>1. /\ calls[c] \in PickCall /\ calls[c].pc = "decide"
      /\ steady \subseteq recognizing /\ steady \subseteq Concerned(owned, req)
  <2>1. calls[c] \in PickCall /\ PickInv(c) /\ calls[c].pc = "decide"
    BY DEF IInv, Types, Calls, Decide, PickCall, UsageCall
  <2>2. QED
    BY <2>1 DEF PickInv
<1>2. PICK answer \in PickAnswers(recognizing, req) :
        calls' = [calls EXCEPT ![c] =
            IF answer = "error" THEN NoPick
            ELSE [NoPick EXCEPT !.pc = "answered", !.answer = answer, !.steady = steady]]
  BY DEF Decide
<1>3. recognizing \in SUBSET Modules
  BY <1>1 DEF PickCall
<1>4. /\ answer \in Modules \cup {"unhandled", "error"}
      /\ answer = "unhandled" => steady = {}
      /\ \A m \in Modules : answer = m => steady \subseteq {m}
  <2>1. CASE recognizing = {}
    BY <2>1, <1>1, <1>2, CoordinatorAssumption DEF PickAnswers
  <2>2. CASE recognizing # {} /\ Cardinality(recognizing) > 1
    BY <2>2, <1>2, CoordinatorAssumption DEF PickAnswers
  <2>3. CASE recognizing # {} /\ ~(Cardinality(recognizing) > 1)
    <3>1. PICK m \in Modules : recognizing = {m}
      BY <2>3, <1>3, OneRecognizing
    <3>2. answer \in ModulePick(m, req)
      BY <3>1, <2>3, <1>2 DEF PickAnswers
    <3>3. answer \in {m, "error", "unhandled"}
      BY <3>2 DEF ModulePick
    <3>4. ASSUME answer = "unhandled" PROVE m \notin Concerned(owned, req)
      <4>1. m # "unhandled"
        BY CoordinatorAssumption
      <4>2. /\ \A x \in req : ~(x.claim = m /\ x.id \notin owned[m])
            /\ \A x \in req : ~Managed(m, owned[m], x)
        BY <3>2, <3>4, <4>1 DEF ModulePick
      <4>3. ASSUME NEW x \in req, x.claim = m PROVE FALSE
        BY <4>2, <4>3 DEF Managed
      <4>4. QED
        BY <4>2, <4>3 DEF Concerned
    <3>5. QED
      BY <3>1, <3>3, <3>4, <1>1, CoordinatorAssumption
  <2>4. QED
    BY <2>1, <2>2, <2>3
<1>5. calls'[c] \in PickCall
  <2>1. steady \in SUBSET Modules
    BY <1>1 DEF PickCall
  <2>2. CASE answer # "error"
    <3>1. answer \in Modules \cup {"none", "unhandled"}
      BY <2>2, <1>4
    <3>2. [NoPick EXCEPT !.pc = "answered", !.answer = answer, !.steady = steady] \in PickCall
      BY <2>1, <3>1, NoPickType DEF PickCall
    <3>3. QED
      BY <1>2, <2>2, <3>2 DEF IInv, Types
  <2>3. CASE answer = "error"
    BY <1>2, <2>3, NoPickType DEF IInv, Types
  <2>4. QED
    BY <2>2, <2>3
<1>6. calls' \in [Callers -> PickCall \cup UsageCall]
  BY <1>2, <1>5 DEF IInv, Types
<1>7. PickInv(c)' /\ UsageInv(c)'
  <2>1. CASE answer = "error"
    BY <2>1, <1>2 DEF IInv, Types, NoPick, PickInv, UsageInv
  <2>2. CASE answer # "error"
    <3>1. calls'[c].pc = "answered" /\ calls'[c].answer = answer /\ calls'[c].steady = steady
      BY <2>2, <1>2 DEF IInv, Types, NoPick
    <3>2. QED
      BY <3>1, <1>4 DEF PickInv, UsageInv
  <2>3. QED
    BY <2>1, <2>2
<1>8. ASSUME NEW d \in Callers, d # c PROVE PickInv(d)' /\ UsageInv(d)'
  BY <1>2, <1>8 DEF IInv, Types, Calls, Decide, PickInv, UsageInv, Concerned, Managed
<1>9. Calls'
  BY <1>7, <1>8 DEF Calls
<1>10. QED
  BY <1>6, <1>9, OthersKept DEF IInv, Decide

(* A lookup while nothing is being reconfigured finds the owner.           *)
LEMMA LookUpInv ==
    ASSUME IInv, NEW c \in Callers, LookUp(c)
    PROVE  IInv'
<1>1. PICK id \in Ids : calls' = [calls EXCEPT ![c] =
            IF registry[id] = None THEN [NoUsage EXCEPT !.pc = "done", !.due = QuietOwner(id)]
            ELSE [NoUsage EXCEPT !.pc = "usage", !.id = id, !.target = registry[id], !.due = QuietOwner(id)]]
  BY DEF LookUp
<1>2. QuietOwner(id) # None =>
        /\ QuietOwner(id) \in Modules \ closed /\ id \in owned[QuietOwner(id)]
        /\ registry[id] = QuietOwner(id)
  <2>1. SUFFICES ASSUME QuietOwner(id) # None
                 PROVE  /\ QuietOwner(id) \in Modules \ closed /\ id \in owned[QuietOwner(id)]
                        /\ registry[id] = QuietOwner(id)
    OBVIOUS
  <2>2. /\ inflight = {} /\ settled = "swapped"
        /\ QuietOwner(id) \in Modules \ closed /\ id \in owned[QuietOwner(id)]
    BY <2>1 DEF QuietOwner
  <2>3. QED
    BY <2>2 DEF IInv, Agreement
<1>3. QuietOwner(id) \in Modules \cup {None} /\ registry[id] \in Modules \cup {None}
  BY <1>2 DEF IInv, Types, TypeOK
<1>4. /\ [NoUsage EXCEPT !.pc = "done", !.due = QuietOwner(id)] \in UsageCall
      /\ [NoUsage EXCEPT !.pc = "usage", !.id = id, !.target = registry[id], !.due = QuietOwner(id)] \in UsageCall
  BY <1>3 DEF NoUsage, UsageCall
<1>5. calls' \in [Callers -> PickCall \cup UsageCall]
  BY <1>1, <1>4 DEF IInv, Types
<1>6. UNCHANGED <<owned, closed>>
  BY DEF LookUp
<1>7. PickInv(c)' /\ UsageInv(c)'
  <2>1. CASE registry[id] = None
    <3>1. calls'[c] = [NoUsage EXCEPT !.pc = "done", !.due = QuietOwner(id)]
      BY <1>1, <2>1 DEF IInv, Types
    <3>2. calls'[c].pc = "done" /\ calls'[c].due = QuietOwner(id)
      BY <3>1 DEF NoUsage
    <3>3. QuietOwner(id) = None
      BY <1>2, <2>1, CoordinatorAssumption
    <3>4. QED
      BY <3>2, <3>3 DEF PickInv, UsageInv
  <2>2. CASE registry[id] # None
    <3>1. calls'[c] = [NoUsage EXCEPT !.pc = "usage", !.id = id, !.target = registry[id], !.due = QuietOwner(id)]
      BY <1>1, <2>2 DEF IInv, Types
    <3>2. /\ calls'[c].pc = "usage" /\ calls'[c].due = QuietOwner(id)
          /\ calls'[c].target = registry[id] /\ calls'[c].id = id
      BY <3>1 DEF NoUsage
    <3>3. QED
      BY <3>2, <1>2, <1>6 DEF PickInv, UsageInv
  <2>3. QED
    BY <2>1, <2>2
<1>8. ASSUME NEW d \in Callers, d # c PROVE PickInv(d)' /\ UsageInv(d)'
  <2>1. calls'[d] = calls[d]
    BY <1>1, <1>8 DEF IInv, Types
  <2>2. QED
    BY <2>1, <1>6 DEF IInv, Calls, PickInv, UsageInv, Concerned, Managed
<1>9. Calls'
  BY <1>7, <1>8 DEF Calls
<1>10. QED
  BY <1>5, <1>9, OthersKept DEF IInv, LookUp

(* The owner a record is due to is open and owns its account, so counts it. *)
LEMMA HandleUsageInv ==
    ASSUME IInv, NEW c \in Callers, HandleUsage(c)
    PROVE  IInv'
<1> DEFINE m == calls[c].target
           counted == IF m \notin closed /\ calls[c].id \in owned[m] THEN m ELSE None
<1>1. calls[c] \in UsageCall /\ UsageInv(c) /\ calls[c].pc = "usage"
  BY DEF IInv, Types, Calls, HandleUsage, PickCall, UsageCall
<1>2. /\ calls' = [calls EXCEPT ![c] =
             [NoUsage EXCEPT !.pc = "done", !.due = calls[c].due, !.counted = counted]]
      /\ UNCHANGED <<owned, closed>>
  BY DEF HandleUsage
<1>3. [NoUsage EXCEPT !.pc = "done", !.due = calls[c].due, !.counted = counted] \in UsageCall
  BY <1>1 DEF NoUsage, UsageCall
<1>4. calls' \in [Callers -> PickCall \cup UsageCall]
  BY <1>2, <1>3 DEF IInv, Types
<1>5. calls'[c].pc = "done" /\ calls'[c].due = calls[c].due /\ calls'[c].counted = counted
  BY <1>2 DEF IInv, Types, NoUsage
<1>6. PickInv(c)' /\ UsageInv(c)'
  BY <1>1, <1>5 DEF PickInv, UsageInv
<1>7. ASSUME NEW d \in Callers, d # c PROVE PickInv(d)' /\ UsageInv(d)'
  <2>1. calls'[d] = calls[d]
    BY <1>2, <1>7 DEF IInv, Types
  <2>2. QED
    BY <2>1, <1>2 DEF IInv, Calls, PickInv, UsageInv, Concerned, Managed
<1>8. Calls'
  BY <1>6, <1>7 DEF Calls
<1>9. QED
  BY <1>4, <1>8, OthersKept DEF IInv, HandleUsage

---------------------------------------------------------------------------
(* One lemma per action of a shutdown.                                     *)

(* The flag is set before the call waits; a second call returns at once.   *)
LEMMA BeginShutdownInv ==
    ASSUME IInv, NEW s \in Stoppers, BeginShutdown(s)
    PROVE  IInv'
<1>1. Types'
  <2>1. down' \in [Stoppers -> DownCall]
    BY DEF IInv, Types, BeginShutdown, DownCall
  <2>2. QED
    BY <2>1 DEF IInv, Types, TypeOK, BeginShutdown
<1>2. Draining'
  <2>1. \A t \in Stoppers : t # s => down'[t] = down[t]
    BY DEF IInv, Types, BeginShutdown
  <2>2. down'[s].pc \in {"returned", "wait"} /\ down'[s].at = 1
    BY DEF IInv, Types, Draining, BeginShutdown, DownCall
  <2>3. QED
    BY <2>1, <2>2 DEF IInv, Draining, BeginShutdown
<1>3. Calls'
  BY CallsKept DEF IInv, BeginShutdown
<1>4. (Lengths /\ Solitude /\ Collected /\ Agreement /\ Reported)'
  BY DEF IInv, BeginShutdown, Lengths, Solitude, Collected, Agreement, Reported, Dirty
<1>5. QED
  BY <1>1, <1>2, <1>3, <1>4 DEF IInv

(* Only an empty wait group lets the first Close run.                      *)
LEMMA WaitReconfiguresInv ==
    ASSUME IInv, NEW s \in Stoppers, WaitReconfigures(s)
    PROVE  IInv'
<1>1. Types'
  <2>1. down' \in [Stoppers -> DownCall]
    BY DEF IInv, Types, WaitReconfigures, DownCall
  <2>2. QED
    BY <2>1 DEF IInv, Types, TypeOK, WaitReconfigures
<1>2. Draining'
  <2>1. \A t \in Stoppers : t # s => down'[t] = down[t]
    BY DEF IInv, Types, WaitReconfigures
  <2>2. down'[s].pc = "close" /\ down'[s].at = 1 /\ stopped
    BY DEF IInv, Types, Draining, WaitReconfigures, DownCall
  <2>3. QED
    BY <2>1, <2>2 DEF IInv, Draining, WaitReconfigures
<1>3. Calls'
  BY CallsKept DEF IInv, WaitReconfigures
<1>4. (Lengths /\ Solitude /\ Collected /\ Agreement /\ Reported)'
  BY DEF IInv, WaitReconfigures, Lengths, Solitude, Collected, Agreement, Reported, Dirty
<1>5. QED
  BY <1>1, <1>2, <1>3, <1>4 DEF IInv

(* Closing a module: no reconfigure runs, and the module is no longer one  *)
(* that has to agree with the registry.                                    *)
LEMMA CloseModuleInv ==
    ASSUME IInv, NEW s \in Stoppers, CloseModule(s)
    PROVE  IInv'
<1> DEFINE m == modules[down[s].at]
<1>1. /\ down[s].pc = "close" /\ inflight = {} /\ stopped /\ down[s].at \in 1 .. 2
      /\ m \in Modules
  BY ModulesAre DEF IInv, CloseModule, Draining
<1>2. /\ closed' = closed \cup {m}
      /\ owned' = IF m = OpenCodeGo THEN [owned EXCEPT ![m] = {}] ELSE owned
      /\ down' = [down EXCEPT ![s].at = @ + 1,
                              ![s].pc = IF down[s].at = Len(modules) THEN "returned" ELSE @]
      /\ Watch
      /\ UNCHANGED <<registry, lastErr, stopped, inflight, rec, settled>>
  BY DEF CloseModule
<1>3. calls' \in [Callers -> PickCall \cup UsageCall] /\ Calls'
  BY <1>2, WatchKeeps DEF IInv, Types
<1>4. /\ down' \in [Stoppers -> DownCall]
      /\ \A t \in Stoppers : t # s => down'[t] = down[t]
      /\ down'[s].pc \in {"close", "returned"}
      /\ down'[s].pc = "close" => down'[s].at = 2
  <2> DEFINE moved == [down[s] EXCEPT !.at = @ + 1]
             next == [moved EXCEPT !.pc = IF down[s].at = 2 THEN "returned" ELSE @]
  <2>1. down \in [Stoppers -> DownCall] /\ down[s] \in DownCall
    BY DEF IInv, Types
  <2>2. down' = [down EXCEPT ![s] = next]
    BY <1>2, <2>1, ModulesAre
  <2>3. moved \in DownCall /\ moved.pc = "close" /\ moved.at = down[s].at + 1
    BY <1>1, <2>1 DEF DownCall
  <2> HIDE DEF moved
  <2>4. next \in DownCall
    BY <2>3 DEF DownCall
  <2>5. next.pc = (IF down[s].at = 2 THEN "returned" ELSE "close") /\ next.at = down[s].at + 1
    BY <2>3 DEF DownCall
  <2> HIDE DEF next
  <2>6. QED
    BY <1>1, <2>1, <2>2, <2>4, <2>5
<1>5. Types'
  <2>1. TypeOK'
    BY <1>1, <1>2 DEF IInv, Types, TypeOK
  <2>2. QED
    BY <2>1, <1>2, <1>3, <1>4 DEF IInv, Types
<1>6. Draining'
  BY <1>1, <1>2, <1>4 DEF IInv, Draining
<1>7. Agreement'
  <2>1. \A n \in Modules : owned'[n] \subseteq owned[n]
    BY <1>1, <1>2 DEF IInv, Types, TypeOK
  <2>2. QED
    BY <2>1, <1>1, <1>2 DEF IInv, Agreement
<1>8. (Lengths /\ Solitude /\ Collected /\ Reported)'
  BY <1>1, <1>2 DEF IInv, Lengths, Solitude, Collected, Reported
<1>9. QED
  BY <1>3, <1>5, <1>6, <1>7, <1>8 DEF IInv

---------------------------------------------------------------------------
(* One lemma per action of a reconfigure, with the two ways a call ends    *)
(* early: refused before its admission, or failed after it.                *)

(* An error recorded before the admission changes no module.               *)
LEMMA RecordErrorInv ==
    ASSUME IInv, recordError,
           UNCHANGED <<owned, closed, registry, stopped, inflight, rec, calls, down, settled>>
    PROVE  IInv'
<1>1. lastErr' = (lastErr \/ ~stopped)
  BY DEF recordError
<1>2. Types'
  BY <1>1 DEF IInv, Types, TypeOK
<1>3. Calls'
  BY CallsKept DEF IInv
<1>4. Reported'
  BY <1>1 DEF IInv, Reported
<1>5. (Lengths /\ Draining /\ Solitude /\ Collected /\ Agreement)'
  BY DEF IInv, Lengths, Draining, Solitude, Collected, Agreement, Dirty
<1>6. QED
  BY <1>2, <1>3, <1>4, <1>5 DEF IInv

(* Joining the wait group, which marks every running call as overlapped.   *)
LEMMA AdmitInv ==
    ASSUME IInv, NEW r \in Reconfigurers, rec[r].pc = "idle", ~stopped, Admit(r),
           UNCHANGED <<owned, closed, registry, lastErr, stopped, calls, down, settled>>
    PROVE  IInv'
<1>1. /\ rec' = [other \in Reconfigurers |->
                     IF other = r THEN [rec[r] EXCEPT !.pc = "module", !.alone = inflight = {}]
                     ELSE IF other \in inflight THEN [rec[other] EXCEPT !.alone = FALSE]
                     ELSE rec[other]]
      /\ inflight' = inflight \cup {r}
  BY DEF Admit
<1>2. rec \in [Reconfigurers -> RecCall] /\ inflight = {x \in Reconfigurers : rec[x].pc # "idle"}
  BY DEF IInv, Types, TypeOK
<1>3. /\ rec'[r] \in RecCall /\ rec'[r].pc = "module" /\ rec'[r].alone = (inflight = {})
      /\ rec'[r].at = rec[r].at /\ rec'[r].owned = rec[r].owned
  BY <1>1, <1>2 DEF RecCall
<1>4. ASSUME NEW x \in Reconfigurers, x # r
      PROVE  /\ rec'[x] \in RecCall /\ rec'[x].pc = rec[x].pc /\ rec'[x].at = rec[x].at
             /\ rec'[x].owned = rec[x].owned
             /\ x \in inflight => ~rec'[x].alone
  BY <1>1, <1>2, <1>4 DEF RecCall
<1>5. rec' \in [Reconfigurers -> RecCall]
  BY <1>1, <1>3, <1>4
<1>6. Types'
  <2>1. inflight' = {x \in Reconfigurers : rec'[x].pc # "idle"}
    BY <1>1, <1>2, <1>3, <1>4
  <2>2. QED
    BY <2>1, <1>5 DEF IInv, Types, TypeOK
<1>7. Lengths'
  BY <1>3, <1>4 DEF IInv, Lengths
<1>8. Draining'
  BY DEF IInv, Draining
<1>9. Solitude' /\ Collected'
  BY <1>1, <1>2, <1>3, <1>4 DEF Solitude, Collected
<1>10. Agreement'
  <2>1. \A x \in inflight : Dirty(x) => Dirty(x)'
    BY <1>2, <1>4 DEF Dirty
  <2>2. QED
    BY <2>1, <1>1 DEF IInv, Agreement
<1>11. Reported'
  BY <1>3, <1>4 DEF IInv, Reported
<1>12. Calls'
  BY CallsKept DEF IInv
<1>13. QED
  BY <1>6, <1>7, <1>8, <1>9, <1>10, <1>11, <1>12 DEF IInv

(* A call is refused by its checks, refused by the stop flag, or admitted. *)
LEMMA BeginReconfigureInv ==
    ASSUME IInv, NEW r \in Reconfigurers, BeginReconfigure(r)
    PROVE  IInv'
<1>1. PICK host \in Hosts :
        IF Preflight(host) THEN Admit(r) /\ UNCHANGED lastErr
                           ELSE recordError /\ UNCHANGED <<rec, inflight>>
  BY DEF BeginReconfigure
<1>2. rec[r].pc = "idle" /\ UNCHANGED <<owned, closed, registry, stopped, calls, down, settled>>
  BY DEF BeginReconfigure
<1>3. CASE ~Preflight(host)
  BY <1>1, <1>2, <1>3, RecordErrorInv
<1>4. CASE Preflight(host) /\ ~stopped
  BY <1>1, <1>2, <1>4, AdmitInv
<1>5. CASE Preflight(host) /\ stopped
  <2>1. UNCHANGED vars
    BY <1>1, <1>2, <1>5 DEF Admit, vars
  <2>2. Calls'
    BY <2>1, CallsKept DEF IInv, vars
  <2>3. QED
    BY <2>1, <2>2 DEF IInv, vars, Types, TypeOK, Lengths, Draining, Solitude, Collected,
                      Agreement, Dirty, Reported
<1>6. QED
  BY <1>3, <1>4, <1>5

(* A request that does not decode is recorded and goes no further.         *)
LEMMA RejectUndecodableInv ==
    ASSUME IInv, NEW r \in Reconfigurers, RejectUndecodable(r)
    PROVE  IInv'
BY RecordErrorInv DEF RejectUndecodable

(* A call that fails leaves the wait group; the registry may disagree with *)
(* the modules from then on only if the call had changed one.              *)
LEMMA FailInv ==
    ASSUME IInv, NEW r \in Reconfigurers, rec[r].pc # "idle",
           NEW touched \in BOOLEAN, Fail(r, touched),
           ~touched => owned' = owned /\ ~Dirty(r),
           owned' \in [Modules -> SUBSET Ids],
           calls' \in [Callers -> PickCall \cup UsageCall], Calls',
           UNCHANGED <<closed, registry, stopped, down>>
    PROVE  IInv'
<1>1. /\ lastErr' = (lastErr \/ ~stopped)
      /\ rec' = [rec EXCEPT ![r] = NoCall]
      /\ inflight' = inflight \ {r}
      /\ settled' = IF touched THEN (IF rec[r].alone THEN "failed" ELSE "overlapped") ELSE settled
  BY DEF Fail, recordError, Ending
<1>2. rec \in [Reconfigurers -> RecCall] /\ inflight = {x \in Reconfigurers : rec[x].pc # "idle"}
  BY DEF IInv, Types, TypeOK
<1>3. NoCall \in RecCall /\ NoCall.pc = "idle" /\ NoCall.owned = <<>>
  BY DEF NoCall, RecCall
<1>4. rec'[r] = NoCall /\ \A x \in Reconfigurers : x # r => rec'[x] = rec[x]
  BY <1>1, <1>2
<1>5. Types'
  <2>1. rec' \in [Reconfigurers -> RecCall]
    BY <1>1, <1>2, <1>3
  <2>2. inflight' = {x \in Reconfigurers : rec'[x].pc # "idle"}
    BY <1>1, <1>2, <1>3, <1>4
  <2>3. settled' \in {"swapped", "failed", "overlapped"}
    BY <1>1 DEF IInv, Types
  <2>4. QED
    BY <2>1, <2>2, <2>3, <1>1 DEF IInv, Types, TypeOK
<1>6. Lengths'
  BY <1>3, <1>4 DEF IInv, Lengths
<1>7. Draining'
  BY <1>1, <1>2 DEF IInv, Draining
<1>8. r \in inflight /\ \A x \in inflight' : x \in inflight /\ x # r /\ ~rec[x].alone
  BY <1>1, <1>2 DEF IInv, Solitude
<1>9. Solitude' /\ Collected'
  BY <1>2, <1>4, <1>8 DEF Solitude, Collected
<1>10. Agreement'
  <2>1. CASE touched
    BY <2>1, <1>1 DEF Agreement
  <2>2. CASE ~touched
    <3>1. \A x \in inflight : Dirty(x) => x \in inflight' /\ Dirty(x)'
      BY <2>2, <1>1, <1>2, <1>4 DEF Dirty
    <3>2. settled' = settled /\ owned' = owned
      BY <2>2, <1>1
    <3>3. QED
      BY <3>1, <3>2 DEF IInv, Agreement
  <2>3. QED
    BY <2>1, <2>2
<1>11. Reported'
  <2>1. settled' = "failed" => \A x \in Reconfigurers : x # r => rec[x].pc # "finish"
    <3>1. CASE touched
      <4>1. CASE rec[r].alone
        BY <4>1, <1>2, <1>8 DEF IInv, Solitude
      <4>2. CASE ~rec[r].alone
        BY <3>1, <4>2, <1>1
      <4>3. QED
        BY <4>1, <4>2
    <3>2. CASE ~touched
      BY <3>2, <1>1 DEF IInv, Reported
    <3>3. QED
      BY <3>1, <3>2
  <2>2. QED
    BY <2>1, <1>1, <1>3, <1>4 DEF Reported
<1>12. QED
  BY <1>5, <1>6, <1>7, <1>9, <1>10, <1>11 DEF IInv

(* A module rejects its part, or installs it and the call goes on or fails. *)
LEMMA ReconfigureModuleInv ==
    ASSUME IInv, NEW r \in Reconfigurers, ReconfigureModule(r)
    PROVE  IInv'
<1> DEFINE at == rec[r].at
           m == modules[at]
<1>1. /\ rec[r].pc = "module" /\ rec[r] \in RecCall /\ at \in 1 .. 2 /\ m \in Modules
      /\ UNCHANGED <<closed, registry, stopped, down>>
  BY ModulesAre DEF IInv, Types, RecCall, ReconfigureModule
<1>2. PICK part \in Parts[m] :
        \/ /\ part = Invalid \/ m \in closed
           /\ Fail(r, at > 1)
           /\ UNCHANGED <<owned, calls>>
        \/ /\ part # Invalid /\ m \notin closed
           /\ owned' = [owned EXCEPT ![m] = part]
           /\ Watch
           /\ \/ DirFaults /\ Fail(r, TRUE)
              \/ /\ rec' = [rec EXCEPT ![r].at = IF at = Len(modules) THEN 1 ELSE at + 1,
                                       ![r].pc = IF at = Len(modules) THEN "collect" ELSE "module"]
                 /\ UNCHANGED <<lastErr, inflight, settled>>
  BY DEF ReconfigureModule
<1>3. owned \in [Modules -> SUBSET Ids] /\ calls \in [Callers -> PickCall \cup UsageCall] /\ Calls
  BY DEF IInv, Types, TypeOK
<1>4. CASE Fail(r, at > 1) /\ UNCHANGED <<owned, calls>>
  <2>1. Calls' /\ owned' \in [Modules -> SUBSET Ids] /\ calls' \in [Callers -> PickCall \cup UsageCall]
    BY <1>1, <1>3, <1>4, CallsKept
  <2>2. (at > 1) \in BOOLEAN /\ (~(at > 1) => ~Dirty(r))
    BY <1>1 DEF Dirty
  <2>3. QED
    BY <1>1, <1>4, <2>1, <2>2, FailInv
<1>5. ASSUME part # Invalid, owned' = [owned EXCEPT ![m] = part], Watch
      PROVE  /\ owned' \in [Modules -> SUBSET Ids]
             /\ calls' \in [Callers -> PickCall \cup UsageCall] /\ Calls'
  <2>1. part \in SUBSET Ids
    BY <1>1, <1>5, CoordinatorAssumption
  <2>2. QED
    BY <1>1, <1>3, <1>5, <2>1, WatchKeeps
<1>6. CASE part # Invalid /\ owned' = [owned EXCEPT ![m] = part] /\ Watch /\ Fail(r, TRUE)
  BY <1>1, <1>5, <1>6, FailInv
<1>7. CASE /\ part # Invalid /\ owned' = [owned EXCEPT ![m] = part] /\ Watch
           /\ rec' = [rec EXCEPT ![r].at = IF at = Len(modules) THEN 1 ELSE at + 1,
                                 ![r].pc = IF at = Len(modules) THEN "collect" ELSE "module"]
           /\ UNCHANGED <<lastErr, inflight, settled>>
  <2> DEFINE moved == [rec[r] EXCEPT !.at = IF at = 2 THEN 1 ELSE at + 1]
             next == [moved EXCEPT !.pc = IF at = 2 THEN "collect" ELSE "module"]
  <2>1. rec \in [Reconfigurers -> RecCall] /\ inflight = {x \in Reconfigurers : rec[x].pc # "idle"}
    BY DEF IInv, Types, TypeOK
  <2>2. rec' = [rec EXCEPT ![r] = next]
    BY <1>7, <2>1, ModulesAre
  <2>3. /\ moved \in RecCall /\ moved.at = (IF at = 2 THEN 1 ELSE at + 1)
        /\ moved.owned = rec[r].owned /\ moved.alone = rec[r].alone
    BY <1>1 DEF RecCall
  <2> HIDE DEF moved
  <2>4. next \in RecCall
    BY <2>3 DEF RecCall
  <2>5. /\ next.pc = (IF at = 2 THEN "collect" ELSE "module") /\ next.at = (IF at = 2 THEN 1 ELSE at + 1)
        /\ next.owned = rec[r].owned /\ next.alone = rec[r].alone
    BY <2>3 DEF RecCall
  <2> HIDE DEF next
  <2>6. rec'[r] = next /\ \A x \in Reconfigurers : x # r => rec'[x] = rec[x]
    BY <2>1, <2>2
  <2>7. Types'
    <3>1. rec' \in [Reconfigurers -> RecCall]
      BY <2>1, <2>2, <2>4
    <3>2. inflight' = {x \in Reconfigurers : rec'[x].pc # "idle"}
      BY <1>1, <1>7, <2>1, <2>5, <2>6
    <3>3. QED
      BY <3>1, <3>2, <1>1, <1>5, <1>7 DEF IInv, Types, TypeOK
  <2>8. Lengths'
    <3>1. rec[r].owned = <<>>
      BY <1>1 DEF IInv, Lengths
    <3>2. QED
      BY <3>1, <1>1, <2>5, <2>6 DEF IInv, Lengths
  <2>9. Draining'
    BY <1>1, <1>7 DEF IInv, Draining
  <2>10. r \in inflight /\ inflight' = inflight
         /\ \A x \in inflight : x # r => x \in Reconfigurers /\ ~rec[x].alone
    BY <1>1, <1>7, <2>1 DEF IInv, Solitude
  <2>11. Solitude'
    BY <2>5, <2>6, <2>10 DEF IInv, Solitude
  <2>12. Collected'
    BY <1>1, <2>5, <2>6, <2>10 DEF Collected
  <2>13. Agreement'
    <3>1. Dirty(r)'
      BY <1>1, <2>5, <2>6 DEF Dirty
    <3>2. QED
      BY <3>1, <2>10 DEF Agreement
  <2>14. Reported'
    <3>1. rec'[r].pc # "finish"
      BY <2>5, <2>6
    <3>2. settled' = settled /\ lastErr' = lastErr /\ stopped' = stopped
      BY <1>1, <1>7
    <3>3. QED
      BY <3>1, <3>2, <2>6 DEF IInv, Reported
  <2>15. QED
    BY <1>5, <1>7, <2>7, <2>8, <2>9, <2>11, <2>12, <2>13, <2>14 DEF IInv
<1>8. QED
  BY <1>2, <1>4, <1>6, <1>7

(* The owned IDs of one module are appended to what the call has collected. *)
LEMMA CollectInv ==
    ASSUME IInv, NEW r \in Reconfigurers, Collect(r)
    PROVE  IInv'
<1> DEFINE at == rec[r].at
           own == owned[modules[at]]
           one == [rec[r] EXCEPT !.owned = Append(@, own)]
           two == [one EXCEPT !.at = IF @ = 2 THEN 1 ELSE @ + 1]
           next == [two EXCEPT !.pc = IF at = 2 THEN "swap" ELSE @]
<1>1. /\ rec \in [Reconfigurers -> RecCall] /\ inflight = {x \in Reconfigurers : rec[x].pc # "idle"}
      /\ rec[r].pc = "collect" /\ rec[r] \in RecCall /\ at \in 1 .. 2
      /\ rec[r].owned \in Seq(SUBSET Ids) /\ own \in SUBSET Ids
  BY ModulesAre DEF IInv, Types, TypeOK, RecCall, Collect
<1>2. rec' = [rec EXCEPT ![r] = next]
      /\ UNCHANGED <<owned, closed, registry, lastErr, stopped, inflight, calls, down, settled>>
  BY <1>1, ModulesAre DEF Collect
<1>3. /\ one \in RecCall /\ one.owned = Append(rec[r].owned, own) /\ one.at = at
      /\ one.pc = "collect" /\ one.alone = rec[r].alone
  <2> HIDE DEF own
  <2>1. Append(rec[r].owned, own) \in Seq(SUBSET Ids)
    BY <1>1
  <2>2. one \in RecCall
    BY <1>1, <2>1 DEF RecCall
  <2>3. one.owned = Append(rec[r].owned, own)
    BY <1>1, <2>1 DEF RecCall
  <2>4. one.at = at /\ one.pc = "collect" /\ one.alone = rec[r].alone
    BY <1>1 DEF RecCall
  <2>5. QED
    BY <2>2, <2>3, <2>4
<1> HIDE DEF one
<1>4. /\ two \in RecCall /\ two.owned = one.owned /\ two.at = (IF at = 2 THEN 1 ELSE at + 1)
      /\ two.pc = "collect" /\ two.alone = rec[r].alone
  BY <1>1, <1>3 DEF RecCall
<1> HIDE DEF two
<1>5. /\ next \in RecCall /\ next.owned = two.owned /\ next.at = two.at
      /\ next.pc = (IF at = 2 THEN "swap" ELSE "collect") /\ next.alone = rec[r].alone
  BY <1>4 DEF RecCall
<1> HIDE DEF next
<1>6. rec'[r] = next /\ \A x \in Reconfigurers : x # r => rec'[x] = rec[x]
  BY <1>1, <1>2
<1>7. Types'
  <2>1. rec' \in [Reconfigurers -> RecCall]
    BY <1>1, <1>2, <1>5
  <2>2. inflight' = {x \in Reconfigurers : rec'[x].pc # "idle"}
    BY <1>1, <1>2, <1>5, <1>6
  <2>3. QED
    BY <2>1, <2>2, <1>2 DEF IInv, Types, TypeOK
<1>8. Len(rec[r].owned) = at - 1
  BY <1>1 DEF IInv, Lengths
<1>9. Len(next.owned) = at
  BY <1>1, <1>3, <1>4, <1>5, <1>8
<1>10. Lengths'
  <2>1. /\ next.pc \in {"collect", "swap"}
        /\ next.pc = "collect" => next.at = 2 /\ at = 1
        /\ next.pc = "swap" => at = 2
    BY <1>1, <1>4, <1>5
  <2>2. /\ rec'[r].pc \notin {"idle", "module"}
        /\ rec'[r].pc = "collect" => Len(rec'[r].owned) = rec'[r].at - 1
        /\ rec'[r].pc = "swap" => Len(rec'[r].owned) = 2
    BY <2>1, <1>6, <1>9
  <2>3. QED
    BY <2>2, <1>6 DEF IInv, Lengths
<1>11. Draining'
  BY <1>2 DEF IInv, Draining
<1>12. r \in inflight /\ inflight' = inflight
       /\ \A x \in inflight : x # r => x \in Reconfigurers /\ ~rec[x].alone
  BY <1>1, <1>2 DEF IInv, Solitude
<1>13. Solitude'
  BY <1>5, <1>6, <1>12 DEF IInv, Solitude
<1>14. Collected'
  <2>1. CASE at = 1
    <3>1. next.owned[1] = owned[Zai]
      BY <2>1, <1>1, <1>3, <1>4, <1>5, <1>8, ModulesAre
    <3>2. QED
      BY <3>1, <2>1, <1>2, <1>4, <1>5, <1>6, <1>12 DEF Collected
  <2>2. CASE at = 2
    <3>1. next.owned[2] = owned[OpenCodeGo] /\ next.owned[1] = rec[r].owned[1]
      BY <2>2, <1>1, <1>3, <1>4, <1>5, <1>8, ModulesAre
    <3>2. rec[r].alone => rec[r].owned[1] = owned[Zai]
      BY <2>2, <1>1, <1>12 DEF IInv, Collected
    <3>3. QED
      BY <3>1, <3>2, <2>2, <1>2, <1>5, <1>6, <1>12 DEF Collected
  <2>3. QED
    BY <2>1, <2>2, <1>1
<1>15. Agreement'
  <2>1. Dirty(r)'
    BY <1>5, <1>6 DEF Dirty
  <2>2. QED
    BY <2>1, <1>12 DEF Agreement
<1>16. Reported'
  BY <1>2, <1>5, <1>6 DEF IInv, Reported
<1>17. Calls'
  BY <1>2, CallsKept DEF IInv
<1>18. QED
  BY <1>7, <1>10, <1>11, <1>13, <1>14, <1>15, <1>16, <1>17 DEF IInv

(* What buildRegistry makes of two owned sets: hosted modules only, and    *)
(* the owner of every ID when no ID is claimed twice.                      *)
LEMMA RegistryOwners ==
    ASSUME NEW own \in Seq(SUBSET Ids), Len(own) = 2
    PROVE  /\ buildRegistry(own) \in [Ids -> Modules \cup {None}]
           /\ ~Conflict(own) =>
                /\ \A id \in own[1] : buildRegistry(own)[id] = Zai
                /\ \A id \in own[2] : buildRegistry(own)[id] = OpenCodeGo
<1> DEFINE at(id) == {i \in DOMAIN own : id \in own[i]}
<1>1. DOMAIN own = 1 .. 2 /\ own[1] \in SUBSET Ids /\ own[2] \in SUBSET Ids
  OBVIOUS
<1>2. ASSUME NEW id \in Ids, at(id) # {}
      PROVE  (CHOOSE i \in at(id) : TRUE) \in at(id)
  BY <1>2
<1>3. buildRegistry(own) = [id \in Ids |-> IF at(id) = {} THEN None ELSE modules[CHOOSE i \in at(id) : TRUE]]
  BY DEF buildRegistry
<1>4. buildRegistry(own) \in [Ids -> Modules \cup {None}]
  <2>1. ASSUME NEW id \in Ids
        PROVE  (IF at(id) = {} THEN None ELSE modules[CHOOSE i \in at(id) : TRUE]) \in Modules \cup {None}
    <3>1. CASE at(id) = {}
      BY <3>1
    <3>2. CASE at(id) # {}
      <4>1. (CHOOSE i \in at(id) : TRUE) \in 1 .. 2
        BY <3>2, <1>1, <1>2
      <4>2. \A i \in 1 .. 2 : modules[i] \in Modules
        BY ModulesAre
      <4> HIDE DEF at
      <4>3. QED
        BY <3>2, <4>1, <4>2
    <3>3. QED
      BY <3>1, <3>2
  <2> HIDE DEF at
  <2>2. QED
    BY <1>3, <2>1
<1>5. ASSUME ~Conflict(own), NEW k \in 1 .. 2, NEW id \in own[k]
      PROVE  buildRegistry(own)[id] = modules[k]
  <2>1. at(id) = {k} /\ id \in Ids
    BY <1>1, <1>5 DEF Conflict
  <2> HIDE DEF at
  <2>2. (CHOOSE i \in at(id) : TRUE) = k /\ at(id) # {}
    BY <2>1
  <2>3. QED
    BY <1>3, <2>1, <2>2
<1>6. QED
  BY <1>4, <1>5, ModulesAre

(* A swap by a call that ran alone makes registry and modules agree.       *)
LEMMA SwapRegistryInv ==
    ASSUME IInv, NEW r \in Reconfigurers, SwapRegistry(r)
    PROVE  IInv'
<1>1. /\ rec \in [Reconfigurers -> RecCall] /\ inflight = {x \in Reconfigurers : rec[x].pc # "idle"}
      /\ rec[r].pc = "swap" /\ rec[r] \in RecCall
      /\ rec[r].owned \in Seq(SUBSET Ids) /\ Len(rec[r].owned) = 2
      /\ UNCHANGED <<owned, closed, stopped, calls, down>>
  BY DEF IInv, Types, TypeOK, RecCall, Lengths, SwapRegistry
<1>2. Calls'
  BY <1>1, CallsKept DEF IInv
<1>3. CASE Conflict(rec[r].owned)
  <2>1. Fail(r, TRUE) /\ UNCHANGED registry
    BY <1>3 DEF SwapRegistry
  <2>2. owned' \in [Modules -> SUBSET Ids] /\ calls' \in [Callers -> PickCall \cup UsageCall]
    BY <1>1 DEF IInv, Types, TypeOK
  <2>3. QED
    BY <1>1, <1>2, <2>1, <2>2, FailInv
<1>4. CASE ~Conflict(rec[r].owned)
  <2>1. /\ registry' = buildRegistry(rec[r].owned)
        /\ rec' = [rec EXCEPT ![r].pc = "finish"]
        /\ settled' = IF rec[r].alone THEN "swapped" ELSE "overlapped"
        /\ UNCHANGED <<lastErr, inflight>>
    BY <1>4 DEF SwapRegistry, Ending
  <2>2. /\ rec'[r] \in RecCall /\ rec'[r].pc = "finish" /\ rec'[r].alone = rec[r].alone
        /\ \A x \in Reconfigurers : x # r => rec'[x] = rec[x]
    BY <1>1, <2>1 DEF RecCall
  <2>3. Types'
    <3>1. rec' \in [Reconfigurers -> RecCall]
      BY <1>1, <2>1, <2>2
    <3>2. inflight' = {x \in Reconfigurers : rec'[x].pc # "idle"}
      BY <1>1, <2>1, <2>2
    <3>3. registry' \in [Ids -> Modules \cup {None}]
      BY <1>1, <2>1, RegistryOwners
    <3>4. QED
      BY <3>1, <3>2, <3>3, <1>1, <2>1 DEF IInv, Types, TypeOK
  <2>4. Lengths'
    BY <2>2 DEF IInv, Lengths
  <2>5. Draining'
    BY <1>1, <2>1 DEF IInv, Draining
  <2>6. r \in inflight /\ inflight' = inflight
        /\ \A x \in inflight : x # r => x \in Reconfigurers /\ ~rec[x].alone
    BY <1>1, <2>1 DEF IInv, Solitude
  <2>7. Solitude' /\ Collected'
    BY <2>2, <2>6 DEF IInv, Solitude, Collected
  <2>8. Agreement'
    <3>1. CASE rec[r].alone
      <4>1. rec[r].owned[1] = owned[Zai] /\ rec[r].owned[2] = owned[OpenCodeGo]
        BY <3>1, <1>1, <2>6 DEF IInv, Collected
      <4>2. \A m \in Modules : \A id \in owned'[m] : registry'[id] = m
        BY <4>1, <1>1, <1>4, <2>1, RegistryOwners, ModulesAre
      <4>3. QED
        BY <4>2 DEF Agreement
    <3>2. CASE ~rec[r].alone
      BY <3>2, <2>1 DEF Agreement
    <3>3. QED
      BY <3>1, <3>2
  <2>9. Reported'
    BY <2>1 DEF Reported
  <2>10. QED
    BY <1>2, <2>3, <2>4, <2>5, <2>7, <2>8, <2>9 DEF IInv
<1>5. QED
  BY <1>3, <1>4

(* A call that has swapped may clear the error: none is owed any more.     *)
LEMMA FinishReconfigureInv ==
    ASSUME IInv, NEW r \in Reconfigurers, FinishReconfigure(r)
    PROVE  IInv'
<1>1. /\ rec \in [Reconfigurers -> RecCall] /\ inflight = {x \in Reconfigurers : rec[x].pc # "idle"}
      /\ rec[r].pc = "finish"
      /\ lastErr' = (lastErr /\ stopped)
      /\ rec' = [rec EXCEPT ![r] = NoCall]
      /\ inflight' = inflight \ {r}
      /\ UNCHANGED <<owned, closed, registry, stopped, calls, down, settled>>
  BY DEF IInv, Types, TypeOK, FinishReconfigure
<1>2. NoCall \in RecCall /\ NoCall.pc = "idle" /\ NoCall.owned = <<>>
  BY DEF NoCall, RecCall
<1>3. rec'[r] = NoCall /\ \A x \in Reconfigurers : x # r => rec'[x] = rec[x]
  BY <1>1
<1>4. Types'
  <2>1. rec' \in [Reconfigurers -> RecCall]
    BY <1>1, <1>2
  <2>2. inflight' = {x \in Reconfigurers : rec'[x].pc # "idle"}
    BY <1>1, <1>2, <1>3
  <2>3. QED
    BY <2>1, <2>2, <1>1 DEF IInv, Types, TypeOK
<1>5. Lengths'
  BY <1>2, <1>3 DEF IInv, Lengths
<1>6. Draining'
  BY <1>1 DEF IInv, Draining
<1>7. r \in inflight /\ \A x \in inflight' : x \in inflight /\ x # r /\ ~rec[x].alone
  BY <1>1 DEF IInv, Solitude
<1>8. Solitude' /\ Collected'
  BY <1>1, <1>3, <1>7 DEF Solitude, Collected
<1>9. Agreement'
  <2>1. \A x \in inflight : Dirty(x) => x \in inflight' /\ Dirty(x)'
    BY <1>1, <1>3 DEF Dirty
  <2>2. QED
    BY <2>1, <1>1 DEF IInv, Agreement
<1>10. Reported'
  BY <1>1 DEF IInv, Reported
<1>11. Calls'
  BY <1>1, CallsKept DEF IInv
<1>12. QED
  BY <1>4, <1>5, <1>6, <1>8, <1>9, <1>10, <1>11 DEF IInv

---------------------------------------------------------------------------
(* Every step of every host thread keeps the invariant.                    *)
LEMMA StepInv == IInv /\ [Next]_vars => IInv'
<1> SUFFICES ASSUME IInv, [Next]_vars PROVE IInv'
  OBVIOUS
<1>1. ASSUME NEW r \in Reconfigurers, BeginReconfigure(r) \/ RejectUndecodable(r) \/ ReconfigureStep(r)
      PROVE  IInv'
  BY <1>1, BeginReconfigureInv, RejectUndecodableInv, ReconfigureModuleInv, CollectInv,
     SwapRegistryInv, FinishReconfigureInv DEF ReconfigureStep
<1>2. ASSUME NEW c \in Callers, BeginPick(c) \/ RecognizeNext(c) \/ Decide(c) \/ LookUp(c) \/ HandleUsage(c)
      PROVE  IInv'
  BY <1>2, BeginPickInv, RecognizeNextInv, DecideInv, LookUpInv, HandleUsageInv
<1>3. ASSUME NEW s \in Stoppers, BeginShutdown(s) \/ ShutdownStep(s)
      PROVE  IInv'
  BY <1>3, BeginShutdownInv, WaitReconfiguresInv, CloseModuleInv DEF ShutdownStep
<1>4. CASE UNCHANGED vars
  <2>1. Calls'
    BY <1>4, CallsKept DEF IInv, vars
  <2>2. QED
    BY <1>4, <2>1 DEF IInv, vars, Types, TypeOK, Lengths, Draining, Solitude, Collected,
                      Agreement, Dirty, Reported
<1>5. QED
  BY <1>1, <1>2, <1>3, <1>4 DEF Next

(* The inductive invariant holds of every behaviour of the coordinator.    *)
THEOREM Inductive == Spec => []IInv
BY InitInv, StepInv, PTL DEF Spec

(* The wait group counts exactly the reconfigures between admission and    *)
(* return, and the registry names hosted modules only.                     *)
THEOREM CoordinatorTypes == Spec => []TypeOK
<1>1. IInv => TypeOK
  BY DEF IInv, Types
<1>2. QED
  BY <1>1, Inductive, PTL

(* A pick a module is concerned by throughout is never left to the host's  *)
(* own selection, whatever the reconfigures and shutdowns running beside it *)
(* (pick).                                                                 *)
THEOREM NeverSilentFallbackAlways == Spec => []NeverSilentFallback
<1>1. IInv => NeverSilentFallback
  BY DEF IInv, Calls, PickInv, NeverSilentFallback
<1>2. QED
  BY <1>1, Inductive, PTL

(* A module never chooses for a request that concerns the other module     *)
(* throughout the call (pick).                                             *)
THEOREM NeverBlendsDomainsAlways == Spec => []NeverBlendsDomains
<1>1. IInv => NeverBlendsDomains
  BY DEF IInv, Calls, PickInv, NeverBlendsDomains
<1>2. QED
  BY <1>1, Inductive, PTL

(* A usage record looked up in a settled registry is counted by its owner  *)
(* (handleUsage, and the registry swap of reconfigure).                    *)
THEOREM UsageReachesOwnerAlways == Spec => []UsageReachesOwner
<1>1. IInv => UsageReachesOwner
  BY DEF IInv, Calls, UsageInv, UsageReachesOwner
<1>2. QED
  BY <1>1, Inductive, PTL

(* A configuration installed only in part is reported until another one is *)
(* installed or the coordinator stops (recordError).                       *)
THEOREM PartialFailureReportedAlways == Spec => []PartialFailureReported
<1>1. IInv => PartialFailureReported
  BY DEF IInv, Reported, PartialFailureReported
<1>2. QED
  BY <1>1, Inductive, PTL

(* No reconfigure runs once a module is closed (shutdown's wait on the     *)
(* reconfigures group).                                                    *)
THEOREM DrainedBeforeCloseAlways == Spec => []DrainedBeforeClose
<1>1. IInv => DrainedBeforeClose
  BY DEF IInv, Draining, DrainedBeforeClose
<1>2. QED
  BY <1>1, Inductive, PTL

=============================================================================
