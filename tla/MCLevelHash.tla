---------------------------- MODULE MCLevelHash -----------------------------
EXTENDS LevelHash, TLC
CONSTANTS ka, kb, kx, kz, a1, b1, b2, b3, b4, x1, x2, x3, x4, z1

\* Keys ka and kb share all their buckets until a resize, which gives ka another
\* first bucket; kz shares its first bucket with them and its second with kx.
HashF == [k \in Key \cup {NoKey} |-> CASE k = ka -> 2 [] k = kx -> 1 [] OTHER -> 0]
HashS == [k \in Key \cup {NoKey} |-> IF k \in {kx, kz} THEN 1 ELSE 0]

\* Keys kb and kx are inserted more than once.
KeyOfItem == [i \in Item \cup {NoItem} |->
  CASE i = NoItem -> NoKey [] i = a1 -> ka [] i = z1 -> kz
    [] i \in {b1, b2, b3, b4} -> kb [] i \in {x1, x2, x3, x4} -> kx]
LevelSymmetry == UNION {Permutations(S \cap Item) : S \in {{b1, b2, b3, b4}, {x1, x2, x3, x4}}}
                   \cup Permutations(Thread)

PlanOf(items, groups) == [items |-> items, groups |-> groups]

\* Insertions that move items, beside queries and updates; fewer items, with
\* deletions apart from the insertions; and a table whose buckets fill up, where
\* nothing can move and an insertion fails.
MCPlans == {
  PlanOf({a1, b1, b2, b3, z1}, {{"insert", "query", "update"}}),
  PlanOf({a1, b1, b2}, {{"insert", "query", "update"}, {"query", "update", "delete"}}),
  PlanOf({a1, b1, b2, b3, b4}, {{"insert"}}) }

\* Queries beside an insertion that moves an item towards the front of the table,
\* into a slot that a deletion has freed.
MovedPlans == {PlanOf({b1, x1, x2, x3, x4, z1}, {{"insert", "query"}, {"delete"}})}

\* Deletions beside insertions that move items.
RevivedPlans == {PlanOf({b1, b2, b3, a1, z1}, {{"insert", "delete"}})}
=============================================================================
