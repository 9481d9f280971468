---------------------------- MODULE MCHashTries ----------------------------
(***************************************************************************)
(* Plans for HashTries.  In binary the keys are 000, 100 and 010 (root     *)
(* fragment last): all share the root slot, 0 and 4 the next one too.      *)
(***************************************************************************)
EXTENDS HashTries

CONSTANTS t1, t2

Calls(ops, keys) == {[op |-> o, key |-> k] : o \in ops, k \in keys}
PlanOf(table, keys, pools, c1, n1, c2, n2) ==
  [table |-> table, keys |-> keys, pool |-> [t \in Thread |-> pools[IF t = t1 THEN 1 ELSE 2]],
   calls |-> [t \in Thread |-> IF t = t1 THEN c1 ELSE c2],
   left |-> [t \in Thread |-> IF t = t1 THEN n1 ELSE n2]]
Every == {"insert", "update", "remove", "get"}
Empty == <<<<>>, <<>>>>

MCPlans == {
  \* the sequential table, any calls
  PlanOf("basic", <<>>, Empty, Calls(Every, Key), 4, {}, 0),
  \* threads insert and look up keys that share slots
  PlanOf("concurrent", <<>>, Empty, Calls({"insert"}, Key), 2,
         Calls({"insert"}, {0, 4}) \cup Calls({"get"}, {0}), 2),
  PlanOf("lockfree", <<0>>, Empty, Calls({"insert"}, Key), 2, Calls({"insert", "get"}, Key), 2),
  \* a key is updated or removed while its node moves down
  PlanOf("concurrent", <<0>>, Empty, Calls({"update", "remove"}, {0}), 1,
         Calls({"insert", "get"}, Key), 2),
  PlanOf("lockfree", <<0>>, Empty, Calls({"update", "remove"}, {0}), 1,
         Calls({"insert", "get"}, Key), 2),
  \* two threads update one key, or one reads while its nodes are used again
  PlanOf("lockfree", <<0>>, Empty, Calls({"update", "get"}, {0}), 2,
         Calls({"update", "get"}, {0}), 3),
  \* one key comes and goes
  PlanOf("lockfree", <<0>>, Empty, Calls({"insert", "update", "remove"}, {0}), 2,
         Calls({"update", "get"}, {0}), 2) }
=============================================================================
