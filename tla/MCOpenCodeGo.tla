---------------------------- MODULE MCOpenCodeGo ----------------------------
(* Instances of OpenCodeGo for TLC. *)
EXTENDS OpenCodeGo, TLC

Acc(name, ids, key, disabled) ==
  [name |-> name, ids |-> ids, connection |-> None, key |-> key, disabled |-> disabled]
Cfg(accounts) == [enabled |-> TRUE, threshold |-> 97, key |-> None, accounts |-> accounts]

CONSTANTS a, b, k1

(* Refused: a threshold, a missing name, no auth id, one name or one auth  *)
(* id for two accounts.                                                    *)
MCRefused ==
  {[Cfg(<<>>) EXCEPT !.threshold = 0],
   Cfg(<<Acc(None, {1}, k1, FALSE)>>),
   Cfg(<<Acc(a, {}, k1, FALSE)>>),
   Cfg(<<Acc(a, {1}, k1, FALSE), Acc(a, {2}, k1, FALSE)>>),
   Cfg(<<Acc(a, {1}, k1, FALSE), Acc(b, {1, 2}, k1, FALSE)>>)}

(* An account; a second one without key, disabled, on a connection id;     *)
(* more credentials for the first, its key taken from the module; and a    *)
(* disabled module.                                                        *)
MCConfigs ==
  {Cfg(<<Acc(a, {1}, k1, FALSE)>>),
   Cfg(<<Acc(a, {1}, k1, FALSE), [Acc(b, {}, None, TRUE) EXCEPT !.connection = 2]>>),
   [Cfg(<<Acc(a, {1, 2}, None, FALSE)>>) EXCEPT !.key = k1],
   [Cfg(<<Acc(a, {1}, k1, FALSE)>>) EXCEPT !.enabled = FALSE]}
  \cup MCRefused

C(id, claims) == [id |-> id, claims |-> claims]
MCRequests ==
  {<<C(1, {}), C(2, {"own"})>>, <<C(2, {"own", "other"}), C(1, {"own"})>>, <<C(2, {"other"})>>}

MCSymmetry == Permutations(Callers)
=============================================================================
