--------------------------- MODULE MCLogRecovery ---------------------------
(***************************************************************************)
(* Plans for LogRecovery: two keys with one entry, or with two, the second *)
(* of them in an overflow bucket.                                          *)
(***************************************************************************)
EXTENDS LogRecovery

Apart == [k \in Key |-> IF k = "k" THEN "e" ELSE "o"]
Together == [k \in Key |-> "e"]
PlanOf(h, l, n, c, d) == [hash |-> h, log |-> l, ops |-> n, crashes |-> c, deletes |-> d]

MCPlans == {
  PlanOf(Apart, <<"k">>, 3, 1, FALSE),
  PlanOf(Together, <<"k">>, 3, 1, FALSE),
  PlanOf(Apart, <<"k", "l">>, 2, 2, FALSE),
  PlanOf(Apart, <<"k">>, 2, 1, TRUE) }
=============================================================================
