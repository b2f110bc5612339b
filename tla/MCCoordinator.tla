--------------------------- MODULE MCCoordinator ---------------------------
(* Small instances of Coordinator for TLC. *)
EXTENDS Coordinator

CONSTANTS x, y

(* Account y can move between the modules, be claimed by both or by none;  *)
(* either module can reject its part.                                      *)
MCParts ==
    [m \in Modules |-> {Invalid} \cup IF m = Zai THEN {{x}, {x, y}} ELSE {{}, {y}}]

(* Requests: bare candidates, as the host builds them for known records,   *)
(* candidates that carry the modules' marks, and one that names another    *)
(* provider.                                                               *)
MCRequests ==
    {{[id |-> y, claim |-> None]},
     {[id |-> x, claim |-> None], [id |-> y, claim |-> None]},
     {[id |-> x, claim |-> None], [id |-> y, claim |-> OpenCodeGo]},
     {[id |-> y, claim |-> Other]}}

Host(usable, enabled, priority, other) ==
    [usable |-> usable, enabled |-> TRUE, required |-> 1000,
     self |-> [enabled |-> enabled, priority |-> priority],
     others |-> [q \in Plugins |-> other]]

(* Host configurations: the supported deployment, an unreadable one, the   *)
(* plugin disabled or at another priority, and a second enabled plugin.    *)
MCHosts ==
    {Host(TRUE, TRUE, 1000, None), Host(FALSE, TRUE, 1000, None), Host(TRUE, None, 1000, None),
     Host(TRUE, TRUE, 1, FALSE), Host(TRUE, TRUE, 1000, TRUE)}
=============================================================================
