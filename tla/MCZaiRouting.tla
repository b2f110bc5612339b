---------------------------- MODULE MCZaiRouting ----------------------------
(* An instance of ZaiRouting: account a takes every kind of usage report   *)
(* and quota answer, b is only throttled, c is disabled.                   *)
EXTENDS ZaiRouting

CONSTANTS a, b, c

MCAccounts == {a, b, c}
MCConfiguredPlan == [x \in MCAccounts |-> "max"]
MCPlanBuckets == [lite |-> [five |-> 2, weekly |-> 3], max |-> [five |-> 3, weekly |-> 6]]
MCRates == [glm |-> [input |-> 1, cached |-> 0, output |-> 1]]
MCOffpeak == {3}

Use(model, at, input, output) ==
    [model |-> model, at |-> at, input |-> input, created |-> 0, cached |-> 1, output |-> output]

Report(status, transient, hint, record) ==
    [status |-> status, transient |-> transient, hint |-> hint, record |-> record]

MCDeliveries ==
    {<<a, Report(0, FALSE, None, r)>> : r \in {Use("glm", 3, 2, 2), Use("glm", 0, 0, 1)}}
    \cup {<<a, Report(500, FALSE, None, Use("unknown", 2, 1, 0))>>}
    \cup {<<a, Report(401, FALSE, None, None)>>}
    \cup {<<a, Report(429, FALSE, h, None)>> : h \in {None, 3}}
    \cup {<<a, Report(429, TRUE, h, None)>> : h \in {None, 2, 3}}
    \cup {<<b, Report(429, TRUE, None, None)>>}

Limit(window, usage, current, reset) ==
    [window |-> window, usage |-> usage, current |-> current, reset |-> reset]

Answer(plan_, limits) == [ok |-> TRUE, plan |-> plan_, limits |-> limits]

MCWires ==
    {<<a, Answer("lite", <<Limit("five", 4, 4, 4), Limit("five", 4, 0, 0), Limit("weekly", 4, 1, 7)>>)>>,
     <<a, Answer(None, <<Limit("other", 1, 1, 1), Limit("weekly", 4, 4, 6), Limit("five", 4, 0, 0)>>)>>,
     <<a, Answer("max", <<Limit("five", 4, 4, 4), Limit("unreadable", 0, 0, 0)>>)>>}

MCSelections == {{a}, MCAccounts}

MCCandidates == {{a, c}, {a, b, "foreign"}, {b, c}, {a, "unmanaged"}, {"foreign"}}

=============================================================================
