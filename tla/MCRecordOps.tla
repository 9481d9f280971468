---------------------------- MODULE MCRecordOps ----------------------------
(***************************************************************************)
(* Plans for RecordOps with two threads, 1 and 2.                         *)
(***************************************************************************)
EXTENDS RecordOps

Op(o, k, x) == [op |-> o, key |-> k, arg |-> x]
R(k) == Op("read", k, 0)
U(k, x) == Op("upsert", k, x)
I(k) == Op("rmw", k, 1)
D(k) == Op("delete", k, 0)
Env(s, h, f, c) == [shifts |-> s, heads |-> h, fills |-> f, checkpoints |-> c]
PlanOf(l, h, r, x, y, e) == [log |-> l, head |-> h, ro |-> r, ops |-> [t \in Thread |-> IF t = 1 THEN x ELSE y], env |-> e, drains |-> e.checkpoints > 0]


MCPlans == {
  \* one key in memory, a checkpoint
  PlanOf(<<"k">>, 1, 1, <<I("k")>>, <<I("k"), R("k")>>, Env(0, 0, 0, 1)),
  PlanOf(<<"k">>, 1, 1, <<U("k", 5)>>, <<I("k")>>, Env(0, 0, 1, 1)),
  \* the regions move, and a key is deleted in memory
  PlanOf(<<"k">>, 1, 1, <<D("k"), R("k")>>, <<U("k", 4)>>, Env(0, 0, 0, 0)),
  PlanOf(<<"k">>, 1, 1, <<U("k", 5)>>, <<I("k"), R("k")>>, Env(1, 1, 0, 0)),
  PlanOf(<<"k", "l">>, 1, 1, <<I("k"), I("l")>>, <<I("l"), R("k")>>, Env(1, 0, 0, 0)),
  PlanOf(<<"k">>, 1, 1, <<D("k"), I("k")>>, <<R("k"), U("k", 4)>>, Env(1, 1, 0, 0)),
  \* the record is on disk, and a checkpoint
  PlanOf(<<"k">>, 2, 2, <<I("k")>>, <<I("k")>>, Env(0, 0, 0, 0)),
  PlanOf(<<"k", "l">>, 3, 3, <<R("k")>>, <<U("l", 5), R("l")>>, Env(0, 0, 0, 0)),
  PlanOf(<<"k">>, 2, 2, <<I("k")>>, <<U("k", 5)>>, Env(0, 0, 0, 1)) }

\* Two keys share the entry, and a checkpoint.
CollidingPlans ==
  {PlanOf(<<"k", "l">>, 1, 1, <<I("k"), I("l")>>, <<I("l"), R("k")>>, Env(0, 0, 0, 1))}

\* A record that is immutable is deleted, and the key read.
DeletedPlans ==
  {PlanOf(<<"k">>, 1, 2, <<D("k"), R("k")>>, <<>>, Env(0, 0, 0, 0))}
=============================================================================
