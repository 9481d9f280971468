----------------------------- MODULE HashTries -----------------------------
(***************************************************************************)
(* The hash tries of mhash: BasicHashTable, for one thread, and the         *)
(* ConcurrentHashTable and LockFreeHashTable that threads share.  Each      *)
(* level of the trie is addressed by a fragment of the hash; a slot holds   *)
(* nothing, a data node or an array of slots, and an array never goes away, *)
(* so an array is known by its path from the root.  std::hash is the        *)
(* identity on the integer keys of the drivers.                             *)
(*                                                                          *)
(* LockFreeHashTable gives a node it takes out of the trie to MemoryEpoch,  *)
(* which is used here by what LightEpoch promises (SafeReclamation): the    *)
(* node goes to a pool when the threads that were in the epoch have left.   *)
(***************************************************************************)
EXTENDS Naturals, Sequences, FiniteSets, SequencesExt

CONSTANTS
  Thread, Key,
  RootArraySize, ArraySize,   \* kRootArraySize, kArraySize
  MaxLevel,                   \* maxLevel_, max_level_
  FailLimit,                  \* kFailLimit, FAIL_LIMIT
  MaxNode,                    \* bound: data nodes ever allocated
  Plans   \* what a behaviour starts from: the table, the keys it holds, the
          \* calls each thread may make and how many, the nodes in its pool

VARIABLES
  plan,
  slot,              \* the trie: path -> null, an array or a data node
  data, born,        \* the key and value in a node; nodes allocated so far
  pool,              \* data_pool_: a thread's queue of nodes to use again
  retired, inside,   \* who was in the epoch when a node was retired, and who is
  th,                \* the locals of a thread's call
  size,              \* size_
  truth, window      \* history: the value of each key, and the values that a
                     \* call's key has had since the call began

trie == <<slot, data, born>>
epoch == <<retired, inside>>
history == <<truth, window>>
vars == <<plan, trie, pool, epoch, th, size, history>>

Null == 0
Array == MaxNode + 1
None == <<>>
Node == 1 .. MaxNode

(***************************************************************************)
(* Hash fragments and paths.                                               *)
(***************************************************************************)
root_hash(hash) == hash % RootArraySize
level_hash(hash, level) == (hash \div (RootArraySize * ArraySize ^ (level - 1))) % ArraySize
Fragment(hash, level) == IF level = 0 THEN root_hash(hash) ELSE level_hash(hash, level)
Path(hash, level) == [i \in 1 .. level + 1 |-> Fragment(hash, i - 1)]
Paths == UNION {[1 .. n -> 0 .. Max({RootArraySize, ArraySize}) - 1] : n \in 1 .. MaxLevel}

\* The levels suffice: two keys part before the last.
ASSUME LevelsAssumption ==
  \A k, l \in Key : k # l => Path(k, MaxLevel - 1) # Path(l, MaxLevel - 1)

\* Where the locator for finding stops, and the node it finds there.
Located(k) == Path(k, Min({l \in 0 .. MaxLevel - 1 : slot[Path(k, l)] # Array}))
IsData(n) == n \in Node
Found(k) == LET n == slot[Located(k)] IN IF IsData(n) /\ data[n].key = k THEN n ELSE Null
ValueOf(k) == IF Found(k) = Null THEN None ELSE data[Found(k)].value

Idle == [pc |-> "idle", op |-> "none", key |-> 0, value |-> None, level |-> 0, at |-> <<>>,
         pos |-> Null, fail |-> 0, tmp |-> Null, next |-> 0, ok |-> FALSE]
Loaded(k) == <<"load", k>>

\* The trie of the keys the table is loaded with, the i-th in node i.
LoadedLevel(i) ==
  Min({l \in 0 .. MaxLevel - 1 :
         \A j \in DOMAIN plan.keys \ {i} : Path(plan.keys[j], l) # Path(plan.keys[i], l)})

LoadedSlot(p) ==
  LET ends == {i \in DOMAIN plan.keys : p = Path(plan.keys[i], LoadedLevel(i))}
      passes == {i \in DOMAIN plan.keys :
                   Len(p) <= LoadedLevel(i) /\ p = Path(plan.keys[i], Len(p) - 1)}
  IN  IF ends # {} THEN Max(ends) ELSE IF passes # {} THEN Array ELSE Null

Init ==
  /\ plan \in Plans
  /\ slot = [p \in Paths |-> LoadedSlot(p)]
  /\ data = [n \in Node |->
       IF n \in DOMAIN plan.keys THEN [key |-> plan.keys[n], value |-> Loaded(plan.keys[n])]
       ELSE [key |-> 0, value |-> None]]
  /\ pool = plan.pool
  /\ born = Len(plan.keys) + FoldSet(LAMBDA t, n : n + Len(plan.pool[t]), 0, Thread)
  /\ size = Len(plan.keys)
  /\ retired = [n \in {} |-> {}] /\ inside = {}
  /\ th = [t \in Thread |-> Idle]
  /\ truth = [k \in Key |-> IF k \in ToSet(plan.keys) THEN Loaded(k) ELSE None]
  /\ window = [t \in Thread |-> {}]

(***************************************************************************)
(* BasicHashTable: one thread, and a call is one step.                     *)
(***************************************************************************)
Called(t, c) ==
  /\ th[t].pc = "idle" /\ c \in plan.calls[t] /\ plan.left[t] > 0
  /\ plan' = [plan EXCEPT !.left[t] = @ - 1]
Fresh(t) == <<t, plan.left[t]>>
Return(t, op, k, v, ok) ==
  th' = [th EXCEPT ![t] = [Idle EXCEPT !.op = op, !.key = k, !.value = v, !.ok = ok]]

\* Insert: a node in the way moves down until the two hashes differ.
BasicInsertInto(k, n) ==
  LET here == Located(k)
      other == slot[here]
      apart == Min({l \in Len(here) .. MaxLevel - 1 :
                      Path(k, l) # Path(data[other].key, l)})
  IN  IF other = Null THEN [slot EXCEPT ![here] = n]
      ELSE [p \in Paths |->
              IF p = Path(k, apart) THEN n
              ELSE IF p = Path(data[other].key, apart) THEN other
              ELSE IF Len(p) \in Len(here) .. apart /\ p = Path(k, Len(p) - 1) THEN Array
              ELSE slot[p]]

BasicInsert(t, k) ==
  /\ IF Found(k) # Null
     THEN Return(t, "insert", k, None, FALSE) /\ UNCHANGED <<trie, size, truth>>
     ELSE /\ slot' = BasicInsertInto(k, born + 1)
          /\ born' = born + 1
          /\ data' = [data EXCEPT ![born + 1] = [key |-> k, value |-> Fresh(t)]]
          /\ size' = size + 1
          /\ truth' = [truth EXCEPT ![k] = Fresh(t)]
          /\ Return(t, "insert", k, None, TRUE)

BasicUpdate(t, k) ==
  /\ IF Found(k) = Null THEN UNCHANGED <<data, truth>>
     ELSE /\ data' = [data EXCEPT ![Found(k)].value = Fresh(t)]
          /\ truth' = [truth EXCEPT ![k] = Fresh(t)]
  /\ Return(t, "update", k, None, Found(k) # Null)
  /\ UNCHANGED <<slot, born, size>>

BasicRemove(t, k) ==
  /\ IF Found(k) = Null THEN UNCHANGED <<slot, size, truth>>
     ELSE /\ slot' = [slot EXCEPT ![Located(k)] = Null]
          /\ size' = size - 1
          /\ truth' = [truth EXCEPT ![k] = None]
  /\ Return(t, "remove", k, None, Found(k) # Null)
  /\ UNCHANGED <<data, born>>

BasicGet(t, k) ==
  Return(t, "get", k, ValueOf(k), Found(k) # Null) /\ UNCHANGED <<trie, size, truth>>

Basic(t) ==
  /\ plan.table = "basic"
  /\ \E c \in plan.calls[t] :
       /\ Called(t, c)
       /\ CASE c.op = "insert" -> BasicInsert(t, c.key)
            [] c.op = "update" -> BasicUpdate(t, c.key)
            [] c.op = "remove" -> BasicRemove(t, c.key)
            [] OTHER -> BasicGet(t, c.key)
       /\ window' = [window EXCEPT ![t] = {truth[c.key]}]
  /\ UNCHANGED <<pool, epoch>>

(***************************************************************************)
(* The locators of the shared tables, access by access.                    *)
(***************************************************************************)
LockFree == plan.table = "lockfree"
Here(t) == Append(th[t].at, Fragment(th[t].key, th[t].level))
Go(t, c) == th' = [th EXCEPT ![t] = c]
At(t, pc) == plan.table # "basic" /\ th[t].pc = pc
Done(t, v, ok) == Return(t, th[t].op, th[t].key, v, ok)

\* EnterEpoch does nothing for a thread that is in the epoch.
EnterEpoch(t) == inside' = (IF LockFree THEN inside \cup {t} ELSE inside) /\ UNCHANGED retired
LeaveEpoch(t) ==
  /\ inside' = inside \ {t}
  /\ retired' = [n \in DOMAIN retired |-> retired[n] \ {t}]

\* Slip: Get reads outside the epoch, as the other calls do.
EnterForCallNever(t, op) == UNCHANGED epoch

\* Only Get enters the epoch before it reads the trie.
EnterForCall(t, op) == IF op = "get" THEN EnterEpoch(t) ELSE UNCHANGED epoch

Call(t) ==
  /\ plan.table # "basic"
  /\ \E c \in plan.calls[t] :
       /\ Called(t, c)
       /\ EnterForCall(t, c.op)
       /\ Go(t, [Idle EXCEPT !.pc = "load", !.op = c.op, !.key = c.key, !.value = Fresh(t)])
       /\ window' = [window EXCEPT ![t] = {truth[c.key]}]
  /\ UNCHANGED <<trie, pool, size, truth>>

\* Load the slot of this level.
Load(t) ==
  /\ At(t, "load")
  /\ IF th[t].level > 0 /\ th[t].at = <<>>
     THEN Go(t, [th[t] EXCEPT !.pc = "fault"])
     ELSE Go(t, [th[t] EXCEPT !.pc = "look", !.pos = slot[Here(t)], !.fail = 0])
  /\ UNCHANGED <<plan, trie, pool, epoch, size, history>>

\* Slip: the array pointer is set, and the loop begins again at its level.
LookArrayStays(t) ==
  /\ At(t, "look") /\ th[t].pos = Array
  /\ Go(t, [th[t] EXCEPT !.pc = "load"])
  /\ UNCHANGED <<plan, trie, pool, epoch, size, history>>

\* An array: the next level.
LookArray(t) ==
  /\ At(t, "look") /\ th[t].pos = Array
  /\ IF th[t].level + 1 = MaxLevel
     THEN Done(t, None, LockFree /\ th[t].op = "insert")
     ELSE Go(t, [th[t] EXCEPT !.pc = "load", !.at = Here(t), !.level = @ + 1])
  /\ UNCHANGED <<plan, trie, pool, epoch, size, history>>

\* NodeQueue: pushed at one end, popped at the other.
Push(q, n) == Append(q, n)
Pop(q) == Tail(q)

\* NewDataNode: the oldest node of the thread's pool, or a new one.
NewDataNode(t) ==
  LET n == IF pool[t] # <<>> THEN Head(pool[t]) ELSE born + 1
  IN  /\ data' = [data EXCEPT ![n] = [key |-> th[t].key, value |-> th[t].value]]
      /\ born' = IF pool[t] # <<>> THEN born ELSE born + 1
      /\ pool' = IF pool[t] # <<>> THEN [pool EXCEPT ![t] = Pop(@)] ELSE pool
      /\ Go(t, [th[t] EXCEPT !.pc = "cas", !.tmp = n])
      /\ UNCHANGED slot

\* Nothing there.  A Get that throws and an Update or Remove that fails call
\* EnterEpoch, where LeaveEpoch is meant.
LookNull(t) ==
  /\ At(t, "look") /\ th[t].pos = Null
  /\ IF th[t].op = "insert" THEN NewDataNode(t) /\ UNCHANGED epoch
     ELSE Done(t, None, FALSE) /\ EnterEpoch(t) /\ UNCHANGED <<trie, pool>>
  /\ UNCHANGED <<plan, size, history>>

\* A data node.  Only Get and Insert look at its hash.
LookData(t) ==
  LET n == th[t].pos
  IN  /\ At(t, "look") /\ IsData(n)
      /\ CASE th[t].op = "update" -> NewDataNode(t)
           [] th[t].op = "remove" -> Go(t, [th[t] EXCEPT !.pc = "cas"]) /\ UNCHANGED <<trie, pool>>
           [] th[t].op = "get" /\ data[n].key = th[t].key ->
                Go(t, [th[t] EXCEPT !.pc = "copy"]) /\ UNCHANGED <<trie, pool>>
           [] th[t].op = "insert" /\ data[n].key # th[t].key ->
                /\ Go(t, [th[t] EXCEPT !.pc = "split",
                                       !.next = level_hash(data[n].key, th[t].level + 1)])
                /\ UNCHANGED <<trie, pool>>
           [] OTHER -> Done(t, None, FALSE) /\ UNCHANGED <<trie, pool>>
      /\ UNCHANGED <<plan, epoch, size, history>>

NextLevel(t) ==
  IF th[t].level + 1 = MaxLevel THEN Done(t, None, FALSE)
  ELSE Go(t, [th[t] EXCEPT !.pc = "load", !.level = @ + 1, !.tmp = Null])

\* Slip: a call gives up when it loses once.
LostGivesUp(t) == Done(t, None, FALSE)

\* A lost compare-and-swap gives the value it met.  At the limit LockFree
\* gives up; the other table goes to the next level of the array it was in.
Lost(t) ==
  IF th[t].fail + 1 < FailLimit
  THEN Go(t, [th[t] EXCEPT !.pc = "look", !.pos = slot[Here(t)], !.fail = @ + 1, !.tmp = Null])
  ELSE IF LockFree THEN Done(t, None, FALSE) ELSE NextLevel(t)

Published(t, v) ==
  /\ truth' = [truth EXCEPT ![th[t].key] = v]
  /\ window' = [u \in Thread |-> IF u # t /\ th[u].pc # "idle" /\ th[u].key = th[t].key
                                 THEN window[u] \cup {v} ELSE window[u]]

\* What follows a compare-and-swap that succeeded: LockFree retires the old
\* node, the other table counts an insert, and its Remove returns false.
Won(t) ==
  CASE LockFree /\ th[t].op # "insert" -> Go(t, [th[t] EXCEPT !.pc = "bump"])
    [] ~LockFree /\ th[t].op = "insert" -> Go(t, [th[t] EXCEPT !.pc = "count"])
    [] OTHER -> Done(t, None, th[t].tmp # Null)

Cas(t) ==
  /\ At(t, "cas")
  /\ IF slot[Here(t)] = th[t].pos
     THEN /\ slot' = [slot EXCEPT ![Here(t)] = th[t].tmp]
          /\ Published(t, IF th[t].op = "remove" THEN None ELSE th[t].value)
          /\ Won(t)
          /\ UNCHANGED pool
     ELSE /\ Lost(t)
          /\ pool' = IF LockFree /\ th[t].tmp # Null
                     THEN [pool EXCEPT ![t] = Push(@, th[t].tmp)] ELSE pool
          /\ UNCHANGED <<slot, history>>
  /\ UNCHANGED <<plan, data, born, epoch, size>>

\* Slip: the node goes where its fragment of the level above says.
SplitSameLevel(t) ==
  /\ At(t, "split")
  /\ IF slot[Here(t)] = th[t].pos
     THEN /\ slot' = [slot EXCEPT ![Here(t)] = Array,
            ![Append(Here(t), Fragment(data[th[t].pos].key, th[t].level))] = th[t].pos]
          /\ Go(t, [th[t] EXCEPT !.pc = "load", !.at = Here(t), !.level = @ + 1])
     ELSE Lost(t) /\ UNCHANGED slot
  /\ UNCHANGED <<plan, data, born, pool, epoch, size, history>>

\* An array that holds the node in the way takes the node's place.
Split(t) ==
  /\ At(t, "split")
  /\ IF slot[Here(t)] = th[t].pos
     THEN /\ slot' = [slot EXCEPT ![Here(t)] = Array,
                                  ![Append(Here(t), th[t].next)] = th[t].pos]
          /\ Go(t, [th[t] EXCEPT !.pc = "load", !.at = Here(t), !.level = @ + 1])
     ELSE Lost(t) /\ UNCHANGED slot
  /\ UNCHANGED <<plan, data, born, pool, epoch, size, history>>

\* Get copies the node, and leaves the epoch.
Copy(t) ==
  /\ At(t, "copy")
  /\ LET v == data[th[t].pos].value
     IN  IF LockFree THEN Go(t, [th[t] EXCEPT !.pc = "leave", !.value = v]) ELSE Done(t, v, TRUE)
  /\ UNCHANGED <<plan, trie, pool, epoch, size, history>>

Leave(t) ==
  /\ At(t, "leave")
  /\ LeaveEpoch(t)
  /\ Done(t, th[t].value, TRUE)
  /\ UNCHANGED <<plan, trie, pool, size, history>>

\* BumpEpoch: the nodes nobody can hold any more go to the thread's pool, and
\* the node it took out waits for the threads that are in the epoch.
Safe == {n \in DOMAIN retired : retired[n] = {}}

Bump(t) ==
  /\ At(t, "bump")
  /\ pool' = [pool EXCEPT ![t] = @ \o SetToSeq(Safe)]
  /\ retired' = [n \in (DOMAIN retired \ Safe) \cup {th[t].pos} |->
                   IF n = th[t].pos THEN inside ELSE retired[n]]
  /\ Done(t, None, TRUE)
  /\ UNCHANGED <<plan, trie, inside, size, history>>

Count(t) ==
  /\ At(t, "count")
  /\ size' = size + 1
  /\ Done(t, None, TRUE)
  /\ UNCHANGED <<plan, trie, pool, epoch, history>>

\* The three locators.
Descend(t) == Load(t) \/ LookArray(t) \/ LookNull(t) \/ LookData(t)
FindLocator(t) == th[t].op = "get" /\ (Descend(t) \/ Copy(t))
ModifyLocator(t) == th[t].op \in {"update", "remove"} /\ (Descend(t) \/ Cas(t))
InsertLocator(t) == th[t].op = "insert" /\ (Descend(t) \/ Cas(t) \/ Split(t))

Step(t) ==
  \/ Call(t) \/ FindLocator(t) \/ ModifyLocator(t) \/ InsertLocator(t)
  \/ Leave(t) \/ Bump(t) \/ Count(t) \/ Basic(t)

Next == \E t \in Thread : Step(t)

Spec == Init /\ [][Next]_vars /\ \A t \in Thread : WF_vars(Step(t))

(***************************************************************************)
(* Properties.                                                             *)
(***************************************************************************)
\* The slots form a trie, and nobody follows a null array pointer.
TypeOK ==
  /\ \A p \in Paths : slot[p] \in 0 .. Array
  /\ \A p \in Paths : Len(p) > 1 /\ slot[p] # Null => slot[Front(p)] = Array
  /\ \A t \in Thread : th[t].pc # "fault"

\* Every key is found, with its value, where the hash leads, at every moment:
\* no split, update or removal makes another key unreachable.
EveryKeyFound == \A k \in Key : ValueOf(k) = truth[k]

\* What a call returned was true at some moment of the call.  (Remove of
\* ConcurrentHashTable returns false when it has removed the key.)
ReturnedTrue(t) ==
  LET c == th[t]
      absent == None \in window[t]
      present == window[t] # {None}
  IN  CASE c.op = "get" -> c.value \in window[t]
        [] c.op = "insert" -> IF c.ok THEN absent ELSE present
        [] c.op = "remove" /\ plan.table = "concurrent" -> ~c.ok
        [] OTHER -> IF c.ok THEN present ELSE absent

ResultsAreTrue == \A t \in Thread : th[t].pc = "idle" /\ th[t].op # "none" => ReturnedTrue(t)

\* Where a data node can be.
InSlot(n) == {p \in Paths : slot[p] = n}
InPool(n) == {<<t, i>> \in Thread \X (1 .. MaxNode) : i <= Len(pool[t]) /\ pool[t][i] = n}
InHand(n) == {t \in Thread : \/ th[t].pc = "cas" /\ th[t].tmp = n
                             \/ th[t].pc = "bump" /\ th[t].pos = n}
Places(n) == Cardinality(InSlot(n)) + Cardinality(InPool(n)) + Cardinality(InHand(n))
             + (IF n \in DOMAIN retired THEN 1 ELSE 0)

\* A data node is in one place: in one slot, in one pool, retired, or in the
\* hands of the one thread that will put it somewhere; and a node that a Get
\* holds is neither in a pool nor being filled in again.
NodeInOnePlace ==
  /\ \A n \in Node : Places(n) <= 1 /\ (LockFree /\ n <= born => Places(n) = 1)
  /\ \A t \in Thread :
       th[t].op = "get" /\ th[t].pc \in {"look", "copy"} /\ IsData(th[t].pos) /\ LockFree
       => InPool(th[t].pos) = {} /\ ~\E u \in Thread : th[u].pc = "cas" /\ th[u].tmp = th[t].pos

\* Every call returns.
CallsReturn == \A t \in Thread : th[t].pc # "idle" ~> th[t].pc = "idle"
=============================================================================
