----------------------------- MODULE LevelHash ------------------------------
(***************************************************************************)
(* Level hashing (levelhash/level_hashing.c): two levels of buckets, a     *)
(* spin lock per slot, four slots in which a key may be, and items that an *)
(* insertion moves to their other bucket to make room.  A slot is examined *)
(* and changed under its lock, so one visit is one action; only a movement *)
(* keeps a slot locked from one action to the next.                        *)
(***************************************************************************)
EXTENDS Integers, FiniteSets

CONSTANTS
  Thread,
  Key,
  NoKey,          \* the empty string of a slot that was never used
  Item,           \* what insertions put into the table, told apart by identity
  NoItem,         \* what is in a slot that was never used
  KeyOf,          \* the key of every item: several may have the same
  FHash, SHash,   \* F_HASH and S_HASH of every key and of the empty string
  ASSOC_NUM,
  LevelSize,      \* level_init's argument
  MaxResize,      \* bound on the number of resizes
  Plans           \* what the host of a behaviour does: the items it inserts and
                  \* the groups of operations that it runs side by side

ASSUME KeyAssumption ==
  /\ NoKey \notin Key
  /\ NoItem \notin Item
  /\ KeyOf \in [Item \cup {NoItem} -> Key \cup {NoKey}]
  /\ KeyOf[NoItem] = NoKey
  /\ \A i \in Item : KeyOf[i] \in Key
ASSUME HashAssumption ==
  /\ FHash \in [Key \cup {NoKey} -> Nat]
  /\ SHash \in [Key \cup {NoKey} -> Nat]
ASSUME SizeAssumption ==
  /\ ASSOC_NUM \in Nat \ {0}
  /\ LevelSize \in Nat \ {0, 1}
  /\ MaxResize \in Nat
ASSUME PlansAssumption ==
  Plans \subseteq [items : SUBSET Item,
                   groups : SUBSET SUBSET {"insert", "query", "update", "delete"}]

Value == {"inserted", "updated"}
NoValue == "none"
Entry == [token : {0, 1}, item : Item \cup {NoItem}, value : Value \cup {NoValue}]
Unused == [token |-> 0, item |-> NoItem, value |-> NoValue]

VARIABLES
  plan,
  level_size, level_resize,
  buckets,        \* the slots of the top level (0) and of the bottom level (1)
  locked,         \* the slots a movement holds locked
  pc, op, key,    \* what each thread does, with which key
  item,           \* and the item that it inserts
  pos,            \* how many slots it has visited
  source, dest,   \* how many slots it has tried to move, and where to
  dict,           \* the items that are inserted and not deleted, with their values
  present, moved  \* of a lookup's key: the items in the table since it began, and
                  \* those of them that have moved since

table == <<plan, level_size, level_resize, buckets>>
locals == <<op, key, item, pos, source, dest>>
vars == <<table, locked, pc, locals, dict, present, moved>>

\* pow(2, n).
Pow2[n \in Nat] == IF n = 0 THEN 1 ELSE 2 * Pow2[n - 1]

\* The capacity that each level's indexes are computed with.
Capacity(l) == Pow2[level_size] \div (1 + l)
F_IDX(k, capacity) == FHash[k] % (capacity \div 2)
S_IDX(k, capacity) == (SHash[k] % (capacity \div 2)) + capacity \div 2

SlotsOf(size) ==
  {s \in {0, 1} \X (0 .. Pow2[size] - 1) \X (0 .. ASSOC_NUM - 1) :
     s[2] < Pow2[size - s[1]]}

Init ==
  /\ plan \in Plans
  /\ level_size = LevelSize
  /\ level_resize = 0
  /\ buckets = [s \in SlotsOf(LevelSize) |-> Unused]
  /\ locked = {}
  /\ pc = [t \in Thread |-> "idle"]
  /\ op = [t \in Thread |-> "none"]
  /\ key = [t \in Thread |-> NoKey]
  /\ item = [t \in Thread |-> NoItem]
  /\ pos = [t \in Thread |-> 0]
  /\ source = [t \in Thread |-> 0]
  /\ dest = [t \in Thread |-> 0]
  /\ dict = [i \in Item |-> NoValue]
  /\ present = [t \in Thread |-> {}]
  /\ moved = [t \in Thread |-> {}]

-----------------------------------------------------------------------------
\* How many slots a lookup visits.
Lookups == 4 * ASSOC_NUM

\* Slip: the second bucket is computed without the half of the capacity.
LookupSlotFirst(k, n) ==
  LET l == n \div (2 * ASSOC_NUM)
  IN  <<l, IF n % (2 * ASSOC_NUM) < ASSOC_NUM
           THEN F_IDX(k, Capacity(l)) ELSE SHash[k] % (Capacity(l) \div 2), n % ASSOC_NUM>>

\* The slots a lookup visits: in each level its first bucket, then the second.
LookupSlot(k, n) ==
  LET l == n \div (2 * ASSOC_NUM)
      r == n % (2 * ASSOC_NUM)
  IN  <<l, IF r < ASSOC_NUM THEN F_IDX(k, Capacity(l)) ELSE S_IDX(k, Capacity(l)),
        r % ASSOC_NUM>>

\* An insertion visits the two buckets of a level in turns.
InsertSlot(k, n) ==
  LET l == n \div (2 * ASSOC_NUM)
      r == n % (2 * ASSOC_NUM)
  IN  <<l, IF r % 2 = 0 THEN F_IDX(k, Capacity(l)) ELSE S_IDX(k, Capacity(l)), r \div 2>>

\* The slots whose item an insertion tries to move: try_movement for each of its
\* four buckets.  (b2t_movement is for a table that was resized.)
Sources == 4 * ASSOC_NUM
SourceSlot(k, n) ==
  LET q == n \div ASSOC_NUM
      l == IF q < 2 THEN 0 ELSE 1
  IN  <<l, IF q % 2 = 0 THEN F_IDX(k, Capacity(l)) ELSE S_IDX(k, Capacity(l)), n % ASSOC_NUM>>

\* try_movement: the other bucket of a slot's item, in the same level.
OtherBucket(s) ==
  LET k == KeyOf[buckets[s].item]
  IN  IF F_IDX(k, Capacity(s[1])) = s[2] THEN S_IDX(k, Capacity(s[1]))
                                         ELSE F_IDX(k, Capacity(s[1]))

\* The n-th slot to which the item of slot s may move.
DestSlot(s, n) == <<s[1], OtherBucket(s), n>>

-----------------------------------------------------------------------------
Goto(t, label) == pc' = [pc EXCEPT ![t] = label]

Return(t) ==
  /\ Goto(t, "idle")
  /\ op' = [op EXCEPT ![t] = "none"]
  /\ key' = [key EXCEPT ![t] = NoKey]
  /\ item' = [item EXCEPT ![t] = NoItem]
  /\ pos' = [pos EXCEPT ![t] = 0]
  /\ source' = [source EXCEPT ![t] = 0]
  /\ dest' = [dest EXCEPT ![t] = 0]

\* The slots that hold an item.
Holds(i) == {s \in DOMAIN buckets : buckets[s].token = 1 /\ buckets[s].item = i}

\* What a lookup of a key could find: the items with that key.
Sought(t) == IF op[t] \in {"query", "update", "delete"}
             THEN {i \in Item : KeyOf[i] = key[t]} ELSE {}
Observe ==
  /\ present' = [t \in Thread |->
       {i \in Sought(t)' : Holds(i)' # {} /\ (pc[t] = "idle" \/ i \in present[t])}]
  /\ moved' = [t \in Thread |->
       {i \in present'[t] : pc[t] # "idle" /\ (i \in moved[t] \/ Holds(i)' # Holds(i))}]

Busy == {t \in Thread : pc[t] # "idle"}

\* The host runs side by side what its plan allows.  level_resize leaves level_locks
\* as they are, too short for the second bucket of any key: what a call does after
\* a resize is undefined, and none starts.
HostAllows(o) ==
  /\ \E g \in plan.groups : {o} \cup {op[u] : u \in Busy} \subseteq g
  /\ level_resize = 0

Start(t, o, k, i) ==
  /\ pc[t] = "idle"
  /\ HostAllows(o)
  /\ Goto(t, "probe")
  /\ op' = [op EXCEPT ![t] = o]
  /\ key' = [key EXCEPT ![t] = k]
  /\ item' = [item EXCEPT ![t] = i]
  /\ UNCHANGED <<table, locked, pos, source, dest, dict>>
  /\ Observe

\* An insertion makes a new item, whatever key it is given.
StartInsert(t, i) ==
  /\ i \in plan.items
  /\ dict[i] = NoValue /\ \A u \in Thread : item[u] # i
  /\ Start(t, "insert", KeyOf[i], i)

StartLookup(t, o, k) == Start(t, o, k, NoItem)

\* The memcpy's into a slot and the store of its token.
Put(s, i, v) == buckets' = [buckets EXCEPT ![s] = [token |-> 1, item |-> i, value |-> v]]

\* A visit of level_query, level_update or level_delete to its next slot.
LookupFound(t) ==
  LET s == LookupSlot(key[t], pos[t])
      i == buckets[s].item
  IN  /\ pc[t] = "probe" /\ op[t] \in {"query", "update", "delete"}
      /\ pos[t] < Lookups
      /\ s \notin locked
      /\ buckets[s].token = 1 /\ KeyOf[i] = key[t]
      /\ \/ op[t] = "query" /\ UNCHANGED <<buckets, dict>>
         \/ /\ op[t] = "update"
            /\ Put(s, i, "updated")
            /\ dict' = [dict EXCEPT ![i] = "updated"]
         \/ /\ op[t] = "delete"
            /\ buckets' = [buckets EXCEPT ![s].token = 0]
            /\ dict' = [dict EXCEPT ![i] = NoValue]
      /\ Return(t)
      /\ UNCHANGED <<plan, level_size, level_resize, locked>>
      /\ Observe

LookupNext(t) ==
  LET s == LookupSlot(key[t], pos[t])
  IN  /\ pc[t] = "probe" /\ op[t] \in {"query", "update", "delete"}
      /\ pos[t] < Lookups
      /\ s \notin locked
      /\ ~(buckets[s].token = 1 /\ KeyOf[buckets[s].item] = key[t])
      /\ pos' = [pos EXCEPT ![t] = @ + 1]
      /\ UNCHANGED <<table, locked, pc, op, key, item, source, dest, dict>>
      /\ Observe

\* No slot is left: the key is not in the table.
NotFound(t) ==
  /\ pc[t] = "probe" /\ op[t] \in {"query", "update", "delete"}
  /\ pos[t] = Lookups
  /\ Return(t)
  /\ UNCHANGED <<table, locked, dict>>
  /\ Observe

\* A visit of level_insert to its next slot.
InsertFree(t) ==
  LET s == InsertSlot(key[t], pos[t])
  IN  /\ pc[t] = "probe" /\ op[t] = "insert"
      /\ pos[t] < 4 * ASSOC_NUM
      /\ s \notin locked
      /\ buckets[s].token = 0
      /\ Put(s, item[t], "inserted")
      /\ dict' = [dict EXCEPT ![item[t]] = "inserted"]
      /\ Return(t)
      /\ UNCHANGED <<plan, level_size, level_resize, locked>>
      /\ Observe

InsertNext(t) ==
  LET s == InsertSlot(key[t], pos[t])
  IN  /\ pc[t] = "probe" /\ op[t] = "insert"
      /\ pos[t] < 4 * ASSOC_NUM
      /\ s \notin locked
      /\ buckets[s].token = 1
      /\ pos' = [pos EXCEPT ![t] = @ + 1]
      /\ Goto(t, IF pos[t] + 1 = 4 * ASSOC_NUM THEN "lock" ELSE "probe")
      /\ UNCHANGED <<table, locked, op, key, item, source, dest, dict>>
      /\ Observe

-----------------------------------------------------------------------------
\* try_movement: lock the item that may move ...
LockSource(t) ==
  LET s == SourceSlot(key[t], source[t])
  IN  /\ pc[t] = "lock"
      /\ source[t] < Sources
      /\ s \notin locked
      /\ locked' = locked \cup {s}
      /\ dest' = [dest EXCEPT ![t] = 0]
      /\ Goto(t, "move")
      /\ UNCHANGED <<table, op, key, item, pos, source, dict>>
      /\ Observe

\* Slip: the item that moves keeps its key and takes the new item's value.
MoveItemMixed(s, d, i) ==
  buckets' = [buckets EXCEPT
                ![d] = [token |-> 1, item |-> buckets[s].item, value |-> "inserted"],
                ![s] = [token |-> 1, item |-> i, value |-> "inserted"]]

\* The item of slot s moves to d, and the new item takes its place.
MoveItem(s, d, i) ==
  buckets' = [buckets EXCEPT
                ![d] = [token |-> 1, item |-> buckets[s].item, value |-> buckets[s].value],
                ![s] = [token |-> 1, item |-> i, value |-> "inserted"]]

\* ... and visit the slots it may move to: the first free one takes it,
Move(t) ==
  LET s == SourceSlot(key[t], source[t])
      d == DestSlot(s, dest[t])
  IN  /\ pc[t] = "move"
      /\ d \notin locked
      /\ buckets[d].token = 0
      /\ MoveItem(s, d, item[t])
      /\ locked' = locked \ {s}
      /\ dict' = [dict EXCEPT ![item[t]] = "inserted"]
      /\ Return(t)
      /\ UNCHANGED <<plan, level_size, level_resize>>
      /\ Observe

\* and when none is, the item is unlocked and the next one is tried.
MoveNext(t) ==
  LET s == SourceSlot(key[t], source[t])
      d == DestSlot(s, dest[t])
  IN  /\ pc[t] = "move"
      /\ d \notin locked
      /\ buckets[d].token = 1
      /\ IF dest[t] + 1 < ASSOC_NUM
         THEN /\ dest' = [dest EXCEPT ![t] = @ + 1]
              /\ UNCHANGED <<locked, pc, source>>
         ELSE /\ dest' = [dest EXCEPT ![t] = 0]
              /\ source' = [source EXCEPT ![t] = @ + 1]
              /\ locked' = locked \ {s}
              /\ Goto(t, "lock")
      /\ UNCHANGED <<table, op, key, item, pos, dict>>
      /\ Observe

\* level_insert returns 1: no room without a resize.
InsertFails(t) ==
  /\ pc[t] = "lock"
  /\ source[t] = Sources
  /\ Return(t)
  /\ UNCHANGED <<table, locked, dict>>
  /\ Observe

-----------------------------------------------------------------------------
\* level_resize: the bottom level's items are rehashed into a new top level, in
\* the order of their slots; the old top level is the new bottom level.
NewCapacity == Pow2[level_size + 1]

RehashSlot(k, n) ==
  <<IF n % 2 = 0 THEN F_IDX(k, NewCapacity) ELSE S_IDX(k, NewCapacity), n \div 2>>

\* The slots of the new top level in which no item is yet, as visits.
FreeVisits(top, k) == {n \in 0 .. 2 * ASSOC_NUM - 1 : RehashSlot(k, n) \notin DOMAIN top}
FirstOf(F) == CHOOSE n \in F : \A m \in F : n <= m

\* Item e goes to the first free slot of its two buckets.
Place(p, e) ==
  IF ~p.ok \/ e.token = 0 THEN p
  ELSE IF FreeVisits(p.top, KeyOf[e.item]) = {} THEN [p EXCEPT !.ok = FALSE]
  ELSE LET r == RehashSlot(KeyOf[e.item], FirstOf(FreeVisits(p.top, KeyOf[e.item])))
       IN  [p EXCEPT !.top = [s \in DOMAIN @ \cup {r} |-> IF s = r THEN e ELSE @[s]]]

BottomItems == Pow2[level_size - 1] * ASSOC_NUM
BottomItem(n) == buckets[<<1, n \div ASSOC_NUM, n % ASSOC_NUM>>]
Placed[n \in 0 .. BottomItems] ==
  IF n = 0 THEN [ok |-> TRUE, top |-> [s \in {} |-> Unused]]
           ELSE Place(Placed[n - 1], BottomItem(n - 1))
Rehash == Placed[BottomItems]

\* A rehash that fails ends the process: nothing follows it.
Resize ==
  /\ Busy = {}
  /\ level_resize < MaxResize
  /\ Rehash.ok
  /\ level_size' = level_size + 1
  /\ level_resize' = level_resize + 1
  /\ buckets' = [s \in SlotsOf(level_size + 1) |->
       IF s[1] = 1 THEN buckets[<<0, s[2], s[3]>>]
       ELSE IF <<s[2], s[3]>> \in DOMAIN Rehash.top THEN Rehash.top[<<s[2], s[3]>>]
       ELSE Unused]
  /\ UNCHANGED <<plan, locked, pc, locals, dict>>
  /\ Observe

-----------------------------------------------------------------------------
Step(t) ==
  \/ LookupFound(t) \/ LookupNext(t) \/ NotFound(t)
  \/ InsertFree(t) \/ InsertNext(t)
  \/ LockSource(t) \/ Move(t) \/ MoveNext(t) \/ InsertFails(t)

Next ==
  \/ Resize
  \/ \E t \in Thread :
       \/ \E i \in Item : StartInsert(t, i)
       \/ \E o \in {"query", "update", "delete"}, k \in Key : StartLookup(t, o, k)
       \/ Step(t)

Spec == Init /\ [][Next]_vars

-----------------------------------------------------------------------------
\* The types of the table, of the locks and of the threads' locals.
TypeOK ==
  /\ plan \in Plans
  /\ level_size \in LevelSize .. LevelSize + MaxResize
  /\ level_resize \in 0 .. MaxResize
  /\ buckets \in [SlotsOf(level_size) -> Entry]
  /\ locked \subseteq SlotsOf(level_size)
  /\ pc \in [Thread -> {"idle", "probe", "lock", "move"}]
  /\ op \in [Thread -> {"none", "insert", "query", "update", "delete"}]
  /\ key \in [Thread -> Key \cup {NoKey}]
  /\ item \in [Thread -> Item \cup {NoItem}]
  /\ pos \in [Thread -> 0 .. 4 * ASSOC_NUM]
  /\ source \in [Thread -> 0 .. 4 * ASSOC_NUM]
  /\ dest \in [Thread -> 0 .. ASSOC_NUM]
  /\ dict \in [Item -> Value \cup {NoValue}]
  /\ present \in [Thread -> SUBSET Item]
  /\ moved \in [Thread -> SUBSET Item]

\* The table is what was inserted, updated and deleted: an item that was inserted
\* and not deleted is in exactly one slot, with the value written last, and in one
\* that a lookup of its key visits; no other item is in any, whatever movements
\* and resizes have done to it.
Visited(k) == {LookupSlot(k, n) : n \in 0 .. 4 * ASSOC_NUM - 1}
TableIsDict ==
  \A i \in Item :
    \/ dict[i] = NoValue /\ Holds(i) = {}
    \/ \E s \in DOMAIN buckets \cap Visited(KeyOf[i]) :
         Holds(i) = {s} /\ buckets[s].value = dict[i]

Missing(t) == pc[t] = "probe" /\ op[t] # "insert" /\ pos[t] = Lookups

\* level_query, level_update and level_delete miss only what moves: when one reports
\* a key missing, every item of the key that was in the table all through the call
\* was moved by try_movement meanwhile.
SteadyIsFound == \A t \in Thread : Missing(t) => present[t] \subseteq moved[t]

\* level_query "Lookup a key-value item in level hash table": a key is reported
\* missing only if no item of it was in the table all through the call.
MissingIsTrue == \A t \in Thread : Missing(t) => present[t] = {}

\* level_delete "Remove a key-value item from level hash table": an item that was
\* removed is not in the table.
DeletedIsGone == \A i \in Item : dict[i] = NoValue => Holds(i) = {}
=============================================================================
