------------------------------ MODULE MCBzTree ------------------------------
EXTENDS BzTree
CONSTANTS t1, t2

Do(o, k, p) == [op |-> o, key |-> k, payload |-> p]

\* Into an empty leaf, the same key and different ones; a leaf that is full,
\* with a split beside every other kind of call; two full leaves of a full
\* parent, with a crash; a split that goes up through two full internal nodes,
\* beside a scan.
Plans == {
  [load |-> <<>>, calls |-> 1, crashes |-> 0,
   ops |-> t1 :> {Do("insert", 2, 1)} @@ t2 :> {Do("upsert", 2, 2), Do("insert", 3, 1)}],
  [load |-> <<1, 2, 3>>, calls |-> 2, crashes |-> 0,
   ops |-> t1 :> {Do("insert", 4, 1), Do("insert", 2, 1), Do("read", 1, 1)}
           @@ t2 :> {Do("update", 3, 2), Do("upsert", 1, 2), Do("delete", 1, 1), Do("insert", 5, 1)}],
  [load |-> <<2, 4, 6, 8, 9, 3, 10, 7>>, calls |-> 1, crashes |-> 1,
   ops |-> t1 :> {Do("insert", 5, 1)} @@ t2 :> {Do("insert", 1, 1), Do("scan", 3, 1)}],
  [load |-> [i \in 1 .. 11 |-> i], calls |-> 1, crashes |-> 0,
   ops |-> t1 :> {Do("insert", 12, 1)} @@ t2 :> {Do("insert", 13, 1), Do("scan", 9, 1)}] }

\* Into an empty leaf only: an upsert beside an insertion of its key.
PlansHidden == {
  [load |-> <<>>, calls |-> 1, crashes |-> 0,
   ops |-> t1 :> {Do("insert", 2, 1)} @@ t2 :> {Do("upsert", 2, 2)}] }
=============================================================================
