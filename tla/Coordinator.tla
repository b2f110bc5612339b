---------------------------- MODULE Coordinator ----------------------------
(***************************************************************************)
(* The coordinator (src/internal/coordinator): the object the plugin's ABI *)
(* glue calls into.  It hosts the provider modules in a fixed order, pushes *)
(* each configuration through all of them, rebuilds the registry that maps *)
(* an auth ID to the module owning it, routes picks by asking every module *)
(* whether it recognizes a candidate, routes usage by the registry, and    *)
(* closes the modules at shutdown.                                         *)
(*                                                                         *)
(* Every exported call may run on its own thread of the host, so a call is *)
(* a process whose steps are the points where it takes or leaves a lock or *)
(* enters a module.  A module is what the contract in                      *)
(* internal/providermodule promises: each of its methods is one atomic     *)
(* step.  What the two modules do inside is in ZaiRuntime, ZaiRouting and  *)
(* OpenCodeGo; here a module is the auth IDs it owns and whether it is     *)
(* closed.                                                                 *)
(***************************************************************************)
EXTENDS Integers, Sequences, FiniteSets

CONSTANTS
    Zai, OpenCodeGo,  \* the two module ids
    Ids,              \* auth IDs
    Other,            \* a provider no hosted module implements
    Plugins,          \* the other plugins a host configuration may name
    Hosts,            \* host configurations a reconfigure may read
    Parts,            \* module -> what it can make of its part of a configuration
    Invalid,          \* a part of the configuration that its module rejects
    DirFaults,        \* whether preparing a module's directory may fail
    Requests,         \* pick requests: sets of candidates
    Reconfigurers, Callers, Stoppers,  \* host threads
    None

modules == <<Zai, OpenCodeGo>>

Modules == {modules[i] : i \in DOMAIN modules}

Candidate == [id : Ids, claim : Modules \cup {Other, None}]

ASSUME CoordinatorAssumption ==
    /\ Zai # OpenCodeGo
    /\ Other \notin Modules
    /\ None \notin Modules \cup {Other}
    /\ Modules \cap {"none", "unhandled", "error"} = {}
    /\ \A m \in Modules : Parts[m] \subseteq (SUBSET Ids) \cup {Invalid}
    /\ DirFaults \in BOOLEAN
    /\ Requests \subseteq SUBSET Candidate

VARIABLES
    owned,     \* module -> the auth IDs of its live configuration
    closed,    \* the modules whose Close has run
    registry,  \* auth ID -> module, or None
    lastErr,   \* whether a validation error is recorded
    stopped,
    inflight,  \* the reconfigures WaitGroup
    rec,       \* the reconfigure calls
    calls,     \* the pick and usage calls
    down,      \* the shutdown calls
    settled    \* history: how the last reconfigure that changed a module ended

vars == <<owned, closed, registry, lastErr, stopped, inflight, rec, calls,
          down, settled>>

---------------------------------------------------------------------------
(* The modules, as the coordinator sees them.                              *)

(* zai recognizes what carries its marks or is in its snapshot; OpenCode   *)
(* Go also leaves alone a managed candidate that names another provider.   *)
Managed(m, own, c) ==
    c.id \in own /\ (m = OpenCodeGo => c.claim \in {m, None})

(* Mutant of Recognize: membership in the module's own configuration is no
   longer recognition in its own right. *)
RecognizeByMarks(m, own, c) == c.claim = m

Recognize(m, own, c) == c.claim = m \/ Managed(m, own, c)

Recognizes(m, own, req) == \E c \in req : Recognize(m, own, c)

(* What a module's Pick may answer: an error when it is closed, was never  *)
(* configured or is shown a credential it does not manage; nothing when    *)
(* it manages none of the candidates; else a choice, or an error when all  *)
(* of its accounts are impaired.                                           *)
ModulePick(m, req) ==
    IF m \in closed \/ (\E c \in req : c.claim = m /\ c.id \notin owned[m]) THEN {"error"}
    ELSE IF \A c \in req : ~Managed(m, owned[m], c) THEN {"unhandled"}
    ELSE {m, "error"}

---------------------------------------------------------------------------
(* Reconfigure.                                                            *)

(* The plugin must be enabled, at its priority, and the only plugin enabled *)
(* in the host; absent settings (None) count as disabled.                  *)
validateSchedulerDeployment(host) ==
    /\ host.enabled
    /\ host.self.enabled = TRUE
    /\ host.self.priority = host.required
    /\ \A plugin \in Plugins : host.others[plugin] # TRUE

(* Everything before the coordinator's lock: parsing the configuration,    *)
(* resolving and loading the host's, checking the deployment, and finding  *)
(* or creating the plugin's directory.                                     *)
Preflight(host) == host.usable /\ validateSchedulerDeployment(host)

NoCall == [pc |-> "idle", at |-> 1, owned |-> <<>>, alone |-> TRUE]

(* Mutant of recordError: the error is only returned to the host. *)
returnError == UNCHANGED lastErr

recordError == lastErr' = (lastErr \/ ~stopped)

(* Mutant of Admit: the stop flag is not looked at under the lock. *)
AdmitStopped(r) ==
    /\ rec' = [rec EXCEPT ![r].pc = "module", ![r].alone = inflight = {}]
    /\ inflight' = inflight \cup {r}

(* Under the lock: refuse once the coordinator is stopped, else join the   *)
(* wait group.  (alone is history: no other reconfigure overlaps this one.) *)
Admit(r) ==
    IF stopped
    THEN UNCHANGED <<rec, inflight>>
    ELSE /\ rec' = [other \in Reconfigurers |->
                     IF other = r THEN [rec[r] EXCEPT !.pc = "module", !.alone = inflight = {}]
                     ELSE IF other \in inflight THEN [rec[other] EXCEPT !.alone = FALSE]
                     ELSE rec[other]]
         /\ inflight' = inflight \cup {r}

(* What precedes the lock reads only the host's files, so it and the       *)
(* admission are one step.                                                 *)
BeginReconfigure(r) ==
    /\ rec[r].pc = "idle"
    /\ \E host \in Hosts :
        IF Preflight(host)
        THEN Admit(r) /\ UNCHANGED lastErr
        ELSE recordError /\ UNCHANGED <<rec, inflight>>
    /\ UNCHANGED <<owned, closed, registry, stopped, calls, down, settled>>

(* A lifecycle request that does not decode only records its error.        *)
RejectUndecodable(r) ==
    /\ rec[r].pc = "idle"
    /\ recordError
    /\ UNCHANGED <<owned, closed, registry, stopped, inflight, rec, calls, down, settled>>

(* History: the modules a request concerns, by a candidate's marks or by    *)
(* their own configuration.                                                *)
Concerned(own, req) == {m \in Modules : \E c \in req : c.claim = m \/ Managed(m, own[m], c)}

(* History: which modules a pick has concerned, and which owner a usage    *)
(* record is due to, ever since the call began.                            *)
Watch ==
    calls' = [c \in Callers |->
        CASE calls[c].pc \in {"recognize", "decide"} ->
                [calls[c] EXCEPT !.steady = @ \cap Concerned(owned', calls[c].req)]
          [] calls[c].pc = "usage" ->
                [calls[c] EXCEPT !.due = IF @ \in closed' \/ (@ # None /\ calls[c].id \notin owned'[@])
                                         THEN None ELSE @]
          [] OTHER -> calls[c]]

(* History: how a reconfigure that changed a module ended.                 *)
Ending(r, how) == IF rec[r].alone THEN how ELSE "overlapped"

(* Mutant of Fail: the error path leaves without its deferred Done. *)
FailWithoutDone(r, touched) ==
    /\ recordError
    /\ rec' = [rec EXCEPT ![r] = NoCall]
    /\ settled' = IF touched THEN Ending(r, "failed") ELSE settled
    /\ UNCHANGED inflight

(* Any error after admission is recorded and ends the call; what earlier   *)
(* modules have installed stays.                                           *)
Fail(r, touched) ==
    /\ recordError
    /\ rec' = [rec EXCEPT ![r] = NoCall]
    /\ inflight' = inflight \ {r}
    /\ settled' = IF touched THEN Ending(r, "failed") ELSE settled

(* One module: its part of the configuration, then its reserved directory. *)
(* A module rejects an invalid part, and any part once it is closed; else  *)
(* it installs the IDs the part gives it.                                  *)
ReconfigureModule(r) ==
    /\ rec[r].pc = "module"
    /\ UNCHANGED <<closed, registry, stopped, down>>
    /\ LET at == rec[r].at
           m == modules[at]
       IN \E part \in Parts[m] :
            \/ /\ part = Invalid \/ m \in closed
               /\ Fail(r, at > 1)
               /\ UNCHANGED <<owned, calls>>
            \/ /\ part # Invalid /\ m \notin closed
               /\ owned' = [owned EXCEPT ![m] = part]
               /\ Watch
               /\ \/ DirFaults /\ Fail(r, TRUE)
                  \/ /\ rec' = [rec EXCEPT ![r].at = IF at = Len(modules) THEN 1 ELSE at + 1,
                                           ![r].pc = IF at = Len(modules) THEN "collect" ELSE "module"]
                     /\ UNCHANGED <<lastErr, inflight, settled>>

(* The owned auth IDs, asked of one module after another.                  *)
Collect(r) ==
    /\ rec[r].pc = "collect"
    /\ rec' = [rec EXCEPT ![r].owned = Append(@, owned[modules[rec[r].at]]),
                          ![r].at = IF @ = Len(modules) THEN 1 ELSE @ + 1,
                          ![r].pc = IF rec[r].at = Len(modules) THEN "swap" ELSE @]
    /\ UNCHANGED <<owned, closed, registry, lastErr, stopped, inflight, calls, down, settled>>

Conflict(own) == \E i, j \in DOMAIN own : i # j /\ own[i] \cap own[j] # {}

(* Mutant of buildRegistry: the new entries are added to the old map. *)
buildOnOldRegistry(own) ==
    [id \in Ids |-> LET at == {i \in DOMAIN own : id \in own[i]}
                    IN IF at = {} \/ registry[id] # None THEN registry[id] ELSE modules[CHOOSE i \in at : TRUE]]

buildRegistry(own) ==
    [id \in Ids |-> LET at == {i \in DOMAIN own : id \in own[i]}
                    IN IF at = {} THEN None ELSE modules[CHOOSE i \in at : TRUE]]

(* The new map replaces the old one as a whole, or an ID claimed twice     *)
(* fails the call.                                                         *)
SwapRegistry(r) ==
    /\ rec[r].pc = "swap"
    /\ IF Conflict(rec[r].owned)
       THEN Fail(r, TRUE) /\ UNCHANGED registry
       ELSE /\ registry' = buildRegistry(rec[r].owned)
            /\ rec' = [rec EXCEPT ![r].pc = "finish"]
            /\ settled' = Ending(r, "swapped")
            /\ UNCHANGED <<lastErr, inflight>>
    /\ UNCHANGED <<owned, closed, stopped, calls, down>>

(* The manifest is written, its failure ignored; the error is cleared      *)
(* unless the coordinator has been stopped meanwhile.                      *)
FinishReconfigure(r) ==
    /\ rec[r].pc = "finish"
    /\ lastErr' = (lastErr /\ stopped)
    /\ rec' = [rec EXCEPT ![r] = NoCall]
    /\ inflight' = inflight \ {r}
    /\ UNCHANGED <<owned, closed, registry, stopped, calls, down, settled>>

---------------------------------------------------------------------------
(* Pick.                                                                   *)

(* A host thread between two calls.  The answer of the last one stays to   *)
(* be seen, unless it was an error.                                        *)
Free(c) == calls[c].pc \in {"idle", "answered", "done"}

NoPick == [pc |-> "idle", req |-> {}, at |-> 1, recognizing |-> {}, steady |-> {}, answer |-> "none"]

BeginPick(c) ==
    /\ Free(c)
    /\ \E req \in Requests :
        calls' = [calls EXCEPT ![c] =
            IF stopped THEN NoPick
            ELSE [NoPick EXCEPT !.pc = "recognize", !.req = req,
                                !.steady = Concerned(owned, req)]]
    /\ UNCHANGED <<owned, closed, registry, lastErr, stopped, inflight, rec, down, settled>>

(* The modules are asked one after another; a reconfigure may run between. *)
RecognizeNext(c) ==
    /\ calls[c].pc = "recognize"
    /\ LET m == modules[calls[c].at]
       IN calls' = [calls EXCEPT
            ![c].recognizing = IF Recognizes(m, owned[m], calls[c].req) THEN @ \cup {m} ELSE @,
            ![c].at = @ + 1,
            ![c].pc = IF calls[c].at = Len(modules) THEN "decide" ELSE @]
    /\ UNCHANGED <<owned, closed, registry, lastErr, stopped, inflight, rec, down, settled>>

(* Mutant of PickAnswers: with several recognizing modules the first of
   them is asked. *)
PickAnswersFirst(recognizing, req) ==
    IF recognizing = {} THEN {"unhandled"}
    ELSE LET i == CHOOSE j \in DOMAIN modules :
                    /\ modules[j] \in recognizing
                    /\ \A k \in 1 .. j - 1 : modules[k] \notin recognizing
         IN ModulePick(modules[i], req)

PickAnswers(recognizing, req) ==
    IF recognizing = {} THEN {"unhandled"}
    ELSE IF Cardinality(recognizing) > 1 THEN {"error"}
    ELSE UNION {ModulePick(m, req) : m \in recognizing}

(* The only recognizing module answers, in the state it has by now.        *)
Decide(c) ==
    /\ calls[c].pc = "decide"
    /\ \E answer \in PickAnswers(calls[c].recognizing, calls[c].req) :
        calls' = [calls EXCEPT ![c] =
            IF answer = "error" THEN NoPick
            ELSE [NoPick EXCEPT !.pc = "answered", !.answer = answer, !.steady = calls[c].steady]]
    /\ UNCHANGED <<owned, closed, registry, lastErr, stopped, inflight, rec, down, settled>>

---------------------------------------------------------------------------
(* Usage.                                                                  *)

NoUsage == [pc |-> "idle", id |-> None, target |-> None, due |-> None, counted |-> None]

(* The owner of an ID while no reconfigure runs and the last one settled.  *)
QuietOwner(id) ==
    IF inflight # {} \/ settled # "swapped" \/ \A m \in Modules : id \notin owned[m] \/ m \in closed THEN None
    ELSE CHOOSE m \in Modules : id \in owned[m] /\ m \notin closed

(* The registry is read; then the module it names is called, if any.       *)
LookUp(c) ==
    /\ Free(c)
    /\ \E id \in Ids :
        calls' = [calls EXCEPT ![c] =
            IF registry[id] = None THEN [NoUsage EXCEPT !.pc = "done", !.due = QuietOwner(id)]
            ELSE [NoUsage EXCEPT !.pc = "usage", !.id = id, !.target = registry[id], !.due = QuietOwner(id)]]
    /\ UNCHANGED <<owned, closed, registry, lastErr, stopped, inflight, rec, down, settled>>

(* A module counts the record if it is open and the account is its own.    *)
HandleUsage(c) ==
    /\ calls[c].pc = "usage"
    /\ LET m == calls[c].target
       IN calls' = [calls EXCEPT ![c] =
            [NoUsage EXCEPT !.pc = "done", !.due = calls[c].due,
                            !.counted = IF m \notin closed /\ calls[c].id \in owned[m] THEN m ELSE None]]
    /\ UNCHANGED <<owned, closed, registry, lastErr, stopped, inflight, rec, down, settled>>

---------------------------------------------------------------------------
(* Shutdown.                                                               *)

(* The first call sets the flag; a later one returns at once.              *)
BeginShutdown(s) ==
    /\ down[s].pc = "idle"
    /\ stopped' = TRUE
    /\ down' = [down EXCEPT ![s].pc = IF stopped THEN "returned" ELSE "wait"]
    /\ UNCHANGED <<owned, closed, registry, lastErr, inflight, rec, calls, settled>>

(* Mutant of WaitReconfigures: the wait group is not waited for. *)
WaitNothing(s) ==
    /\ down[s].pc = "wait"
    /\ down' = [down EXCEPT ![s].pc = "close"]
    /\ UNCHANGED <<owned, closed, registry, lastErr, stopped, inflight, rec, calls, settled>>

WaitReconfigures(s) ==
    /\ down[s].pc = "wait"
    /\ inflight = {}
    /\ down' = [down EXCEPT ![s].pc = "close"]
    /\ UNCHANGED <<owned, closed, registry, lastErr, stopped, inflight, rec, calls, settled>>

(* The modules are closed in order, whether or not one fails: zai keeps    *)
(* its snapshot but refuses every call, OpenCode Go drops its state.       *)
CloseModule(s) ==
    /\ down[s].pc = "close"
    /\ LET m == modules[down[s].at]
       IN /\ closed' = closed \cup {m}
          /\ owned' = IF m = OpenCodeGo THEN [owned EXCEPT ![m] = {}] ELSE owned
          /\ down' = [down EXCEPT ![s].at = @ + 1,
                                  ![s].pc = IF down[s].at = Len(modules) THEN "returned" ELSE @]
    /\ Watch
    /\ UNCHANGED <<registry, lastErr, stopped, inflight, rec, settled>>

---------------------------------------------------------------------------
Init ==
    /\ owned = [m \in Modules |-> {}]
    /\ closed = {}
    /\ registry = [id \in Ids |-> None]
    /\ lastErr = FALSE
    /\ stopped = FALSE
    /\ inflight = {}
    /\ rec = [r \in Reconfigurers |-> NoCall]
    /\ calls = [c \in Callers |-> NoPick]
    /\ down = [s \in Stoppers |-> [pc |-> "idle", at |-> 1]]
    /\ settled = "swapped"

ReconfigureStep(r) ==
    ReconfigureModule(r) \/ Collect(r) \/ SwapRegistry(r) \/ FinishReconfigure(r)

ShutdownStep(s) == WaitReconfigures(s) \/ CloseModule(s)

Next ==
    \/ \E r \in Reconfigurers : BeginReconfigure(r) \/ RejectUndecodable(r) \/ ReconfigureStep(r)
    \/ \E c \in Callers : BeginPick(c) \/ RecognizeNext(c) \/ Decide(c) \/ LookUp(c) \/ HandleUsage(c)
    \/ \E s \in Stoppers : BeginShutdown(s) \/ ShutdownStep(s)

Spec == Init /\ [][Next]_vars

(* A thread inside a call keeps running: Go schedules every runnable       *)
(* goroutine, and no step but the wait blocks.  No call need ever begin.   *)
FairSpec ==
    /\ Spec
    /\ \A r \in Reconfigurers : WF_vars(ReconfigureStep(r))
    /\ \A s \in Stoppers : WF_vars(ShutdownStep(s))

---------------------------------------------------------------------------
(* Properties.                                                             *)

(* The variables keep their types, a reconfigure is counted in the wait
   group exactly while it is between its admission and its return, and the
   registry names no module that is not hosted. *)
TypeOK ==
    /\ owned \in [Modules -> SUBSET Ids]
    /\ closed \subseteq Modules
    /\ registry \in [Ids -> Modules \cup {None}]
    /\ {lastErr, stopped} \subseteq BOOLEAN
    /\ inflight = {r \in Reconfigurers : rec[r].pc # "idle"}
    /\ closed # {} => stopped

(* Usage is accounted to the account's owner: a record whose registry
   lookup happens while no reconfigure is running, after one that ran alone
   to its swap, is counted by the module that owned the ID then, provided
   the module still owns it and is open when it is called.  This is what
   collecting the owned IDs only after every module has been reconfigured,
   and replacing the map as a whole, is for (coordinator.go, reconfigure
   and handleUsage). *)
UsageReachesOwner ==
    \A c \in Callers :
        calls[c].pc = "done" /\ calls[c].due # None => calls[c].counted = calls[c].due

(* A pick is never silently left to the host's own selection while some
   module has reason to recognize one of its candidates from the beginning of the call
   to its end, however reconfigures and the shutdown interleave with the
   one-by-one questions (dispatch invariants 2 and 5 of pick). *)
NeverSilentFallback ==
    \A c \in Callers :
        calls[c].pc = "answered" /\ calls[c].answer = "unhandled" => calls[c].steady = {}

(* The quota domains are never blended: a module chooses for a request only
   if no other module was concerned by one of the candidates throughout the call
   (dispatch invariants 3 and 6 of pick). *)
NeverBlendsDomains ==
    \A c \in Callers, m \in Modules :
        calls[c].pc = "answered" /\ calls[c].answer = m => calls[c].steady \subseteq {m}

(* A configuration that took effect in part never looks accepted: after a
   reconfigure that ran alone and failed with a module already changed, the
   status keeps reporting the rejection until another one is installed or
   the coordinator stops (recordError, and where lastErr is cleared). *)
PartialFailureReported ==
    settled = "failed" /\ inflight = {} /\ ~stopped => lastErr

(* Once shutdown has begun to close the modules no reconfigure is running
   and none begins, so no configuration is installed in a coordinator whose
   modules are going away (shutdown's wait on the reconfigures group). *)
DrainedBeforeClose == closed # {} => inflight = {}

(* A shutdown that began closes every module: the reconfigures it waits for
   all end, on their error paths too, and none joins after the flag is set. *)
ShutdownCloses == []<>(stopped => closed = Modules)

=============================================================================
