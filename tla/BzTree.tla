------------------------------- MODULE BzTree -------------------------------
(***************************************************************************)
(* The BzTree of bztree/bztree.h and bztree.cpp: leaves that are appended  *)
(* to, frozen and replaced by two halves, internal nodes that are replaced *)
(* as a whole, all by multi-word compare-and-swap.  PMwCAS is external: a  *)
(* MwCAS is one atomic step, and recovery leaves each one done or undone.  *)
(* Every access to shared memory that another thread can come between is   *)
(* an action of its own.  Records are of one size, so that space in a node *)
(* is counted in records.  Merging is compiled out (ENABLE_MERGE is 0).    *)
(***************************************************************************)
EXTENDS Integers, Sequences, FiniteSets, SequencesExt, TLC

CONSTANTS
  Thread,
  Key,              \* naturals; 0 is the null key of an internal node's first entry
  Payload,
  SplitAt,          \* split_threshold for a leaf, in records
  InternalMax,      \* split_threshold for an internal node, in records
  MAX_FREEZE_RETRY,
  Plan,             \* what the host does: the keys it loads, the calls each thread may make
                    \* after that, with bounds on their number and on that of crashes
  UintMax           \* the largest value of need_check

ASSUME SizeAssumption ==
  /\ Key \subseteq Nat \ {0}
  /\ SplitAt \in Nat /\ SplitAt > 3
  /\ InternalMax \in Nat /\ InternalMax > 2
  /\ MAX_FREEZE_RETRY \in Nat
  /\ UintMax \in Nat \ {0}

NullKey == 0
None == 0           \* no payload: the key is absent
Op == [op : {"insert", "update", "upsert", "delete", "read", "scan"}, key : Key, payload : Payload]

ASSUME PlanAssumption ==
  \A p \in Plan : /\ p.load \in Seq(Key)
                  /\ p.ops \in [Thread -> SUBSET Op]
                  /\ p.calls \in Nat /\ p.crashes \in Nat

VARIABLES
  nodes,    \* every node that a thread may still visit
  root,
  epoch,    \* global_epoch
  call,     \* the call each thread is in: its pc, arguments and locals
  plan, loaded, left_calls,
  aborted,  \* an assertion of a split failed, and the process has ended
  dict,     \* the map the tree stands for
  seen,     \* what the key of each call has been mapped to since the call began
  steady    \* the keys that were present all through each scan

tree == <<nodes, root, epoch>>
host == <<plan, loaded, left_calls>>
vars == <<tree, call, host, aborted, dict, seen, steady>>

\* A record and its metadata.  A record under insertion holds the epoch in the
\* place of its offset; "hidden" is one deleted, or found to be a duplicate.
Record == [st : {"inserting", "visible", "hidden"}, epoch : Nat, key : Key, payload : Payload]

NewLeaf(recs) ==
  [leaf |-> TRUE, frozen |-> FALSE, deleted |-> 0, sorted |-> Len(recs), recs |-> recs]
NewInternal(keys, kids) == [leaf |-> FALSE, frozen |-> FALSE, keys |-> keys, kids |-> kids]

\* The status word.
Status(n) == <<n.frozen, Len(n.recs), n.deleted>>
RecordCount(status) == status[2]

IsInserting(r) == r.st = "inserting" /\ r.epoch = epoch
IsVisible(r) == r.st = "visible"

Idle == [pc |-> "idle", op |-> "none", key |-> NullKey]
\* What a call answers: val is the payload that it read or left in the tree.
Returned(c, code, val) ==
  [pc |-> "done", op |-> c.first, key |-> c.key, payload |-> c.payload, code |-> code, val |-> val,
   got |-> IF c.first = "scan" THEN c.got ELSE <<>>]

\* The start of an attempt: from the root, with nothing on the stack.
Attempt(c, retry) ==
  [pc |-> "node", first |-> c.first, op |-> c.op, key |-> c.key, payload |-> c.payload, retry |-> retry,
   node |-> root, root |-> root, stack |-> <<>>, got |-> c.got]

Init ==
  /\ nodes = (1 :> NewLeaf(<<>>))
  /\ root = 1
  /\ epoch = 0
  /\ call = [t \in Thread |-> Idle]
  /\ plan \in Plan
  /\ loaded = 0
  /\ left_calls = [t \in Thread |-> plan.calls]
  /\ aborted = FALSE
  /\ dict = [k \in Key |-> None]
  /\ seen = [t \in Thread |-> {}]
  /\ steady = [t \in Thread |-> {}]

-----------------------------------------------------------------------------
\* The children that a key may be in.

\* GetChildIndex: the binary search over the separators.
GetChildIndex(n, key, le) ==
  LET Search[l \in 1 .. Len(n.keys) + 1, r \in 0 .. Len(n.keys)] ==
        LET mid == (l + r) \div 2
        IN  IF n.keys[mid] = key THEN IF le THEN mid - 1 ELSE mid
            ELSE IF l > r THEN IF key < n.keys[mid] /\ le THEN mid - 1 ELSE mid
            ELSE IF key > n.keys[mid] THEN Search[mid + 1, r] ELSE Search[l, mid - 1]
  IN  Search[1, Len(n.keys)]

\* Slip: deleted records are sorted in with the others.
SortMetadataAll(recs) == SortSeq(recs, LAMBDA a, b : a.key < b.key)

\* SortMetadataByKey: the visible records in the order of their keys.
SortMetadataByKey(recs) == SortSeq(SelectSeq(recs, IsVisible), LAMBDA a, b : a.key < b.key)

\* How many of the sorted records go to the left leaf.
SplitPoint(n) == (n + 1) \div 2

\* CopyFrom: a leaf with these records, all of them sorted.
CopyFrom(recs) == NewLeaf([i \in 1 .. Len(recs) |-> [recs[i] EXCEPT !.st = "visible", !.epoch = 0]])

\* The internal node's constructor: a separator put in its place, with the
\* children to the left and to the right of it.
WithKey(keys, kids, key, l, r) ==
  LET i == Cardinality({j \in 1 .. Len(keys) : keys[j] < key})
  IN  NewInternal(SubSeq(keys, 1, i) \o <<key>> \o SubSeq(keys, i + 1, Len(keys)),
                  SubSeq(kids, 1, i - 1) \o <<l, r>> \o SubSeq(kids, i + 1, Len(kids)))

\* The two halves of a full internal node, one of them with the new separator.
SplitInternal(n, key, l, r) ==
  LET n_left == Len(n.keys) \div 2
      sep == n.keys[n_left + 1]
      lkeys == SubSeq(n.keys, 1, n_left)
      lkids == SubSeq(n.kids, 1, n_left)
      rkeys == <<NullKey>> \o SubSeq(n.keys, n_left + 2, Len(n.keys))
      rkids == SubSeq(n.kids, n_left + 1, Len(n.kids))
  IN  [sep   |-> sep,
       left  |-> IF key < sep THEN WithKey(lkeys, lkids, key, l, r) ELSE NewInternal(lkeys, lkids),
       right |-> IF key < sep THEN NewInternal(rkeys, rkids) ELSE WithKey(rkeys, rkids, key, l, r)]

\* The three addresses an allocation takes.
Fresh == LET used == DOMAIN nodes
             first == CHOOSE i \in 1 .. Cardinality(used) + 1 : i \notin used
             next(i) == CHOOSE j \in i + 1 .. i + Cardinality(used) + 1 :
                          j \notin used /\ \A k \in i + 1 .. j - 1 : k \in used
         IN  <<first, next(first), next(next(first))>>

Without(f, S) == [x \in DOMAIN f \ S |-> f[x]]

-----------------------------------------------------------------------------
\* Steps of a call.

Set(t, fields) == call' = [call EXCEPT ![t] = fields @@ call[t]]
Return(t, code, val) == call' = [call EXCEPT ![t] = Returned(call[t], code, val)]
Restart(t, retry) == call' = [call EXCEPT ![t] = Attempt(call[t], retry)]

\* The key of every call is mapped to what dict' maps it to.
Become(k, v) ==
  /\ dict' = [dict EXCEPT ![k] = v]
  /\ seen' = [t \in Thread |-> IF call[t].key = k THEN seen[t] \cup {v} ELSE seen[t]]
  /\ steady' = [t \in Thread |-> IF v = None THEN steady[t] \ {k} ELSE steady[t]]
SameDict == UNCHANGED <<dict, seen, steady>>

Start(t, o) ==
  /\ call' = [call EXCEPT ![t] =
                Attempt([first |-> o.op, op |-> o.op, key |-> o.key, payload |-> o.payload, got |-> <<>>], 0)]
  /\ seen' = [seen EXCEPT ![t] = {dict[o.key]}]
  /\ steady' = [steady EXCEPT ![t] = IF o.op = "scan" THEN {k \in Key : dict[k] # None} ELSE {}]
  /\ UNCHANGED <<tree, dict, aborted, plan>>

\* The host fills the tree with one thread, then lets all of them run.
Load(t) ==
  /\ loaded < Len(plan.load)
  /\ \A u \in Thread : call[u].pc \in {"idle", "done"}
  /\ t = CHOOSE u \in Thread : TRUE
  /\ loaded' = loaded + 1
  /\ UNCHANGED left_calls
  /\ Start(t, [op |-> "insert", key |-> plan.load[loaded + 1], payload |-> CHOOSE p \in Payload : TRUE])

\* The load is over when its last call has returned and left_calls says so.
Begin(t) ==
  /\ loaded = Len(plan.load)
  /\ \/ left_calls # [u \in Thread |-> plan.calls]
     \/ \A u \in Thread : call[u].pc \in {"idle", "done"}
  /\ call[t].pc \in {"idle", "done"}
  /\ left_calls[t] > 0
  /\ left_calls' = [left_calls EXCEPT ![t] = @ - 1]
  /\ UNCHANGED loaded
  /\ \E o \in plan.ops[t] : Start(t, o)

\* The key a call is on its way to: an iterator goes on from its last one.
From(c) == IF c.got = <<>> THEN c.key ELSE Last(c.got)

\* The child a call descends to: right of its last key for an iterator.
NextIndex(c) == GetChildIndex(nodes[c.node], From(c), c.got = <<>>)

Push(stack, n, i) == Append(stack, [node |-> n, index |-> i])

\* TraverseToLeaf, one node: only an insertion keeps the stack.
Descend(t) ==
  LET c == call[t]
      n == nodes[c.node]
      i == NextIndex(c)
  IN  /\ c.pc = "node"
      /\ ~n.leaf
      /\ Set(t, [node |-> n.kids[i],
                 stack |-> IF c.op = "insert" THEN Push(c.stack, c.node, i) ELSE c.stack])
      /\ UNCHANGED <<tree, host, aborted>> /\ SameDict

\* What a call does when its leaf is frozen.  Slip: an insertion only retries.
OnFrozenRetry(t) ==
  LET c == call[t]
  IN  CASE c.op = "update" -> Return(t, "NodeFrozen", None)
        [] c.op = "delete" -> Restart(t, 0)
        [] OTHER -> Restart(t, c.retry)

OnFrozen(t) ==
  LET c == call[t]
  IN  CASE c.op = "update" -> Return(t, "NodeFrozen", None)
        [] c.op = "delete" -> Restart(t, 0)
        [] c.op = "insert" /\ c.retry < MAX_FREEZE_RETRY -> Restart(t, c.retry + 1)
        [] OTHER -> Set(t, [pc |-> "split", retry |-> MAX_FREEZE_RETRY + 1])

\* Arrival at a leaf: the status word is read first by a call that changes it.
ReadStatus(t) ==
  LET c == call[t]
      n == nodes[c.node]
  IN  /\ c.pc = "node"
      /\ n.leaf
      /\ IF c.op \in {"insert", "update", "delete"} /\ n.frozen
         THEN OnFrozen(t)
         ELSE Set(t, [pc |-> "search", pos |-> 1, expect |-> Status(n), items |-> <<>>])
      /\ UNCHANGED <<tree, host, aborted>> /\ SameDict

\* Slip: a reader takes a deleted record.
SeesDeleted(c, r) ==
  \/ c.op \in {"insert", "update", "delete"} /\ IsInserting(r)
  \/ (IsVisible(r) \/ (c.op = "read" /\ r.st = "hidden")) /\ r.key = c.key

\* Where a search stops: readers pass over the records under insertion.
Sees(c, r) ==
  \/ c.op \in {"insert", "update", "delete"} /\ IsInserting(r)
  \/ IsVisible(r) /\ r.key = c.key

\* SearchRecordMeta, one record.
SearchNext(t) ==
  LET c == call[t]
      recs == nodes[c.node].recs
  IN  /\ c.pc = "search" /\ c.op # "scan"
      /\ c.pos <= Len(recs)
      /\ ~Sees(c, recs[c.pos])
      /\ Set(t, [pos |-> c.pos + 1])
      /\ UNCHANGED <<tree, host, aborted>> /\ SameDict

\* What the search has found: a copy of the metadata, or nothing.
Missed(c) == c.pos > Len(nodes[c.node].recs)
Hit(c) == ~Missed(c) /\ Sees(c, nodes[c.node].recs[c.pos])
Meta(c) == nodes[c.node].recs[c.pos]

Full(c) == RecordCount(c.expect) + 1 >= SplitAt

CheckUnique(c) ==
  IF Missed(c) THEN "IsUnique" ELSE IF IsInserting(Meta(c)) THEN "ReCheck" ELSE "Duplicate"

\* LeafNode::Insert up to the reservation: CheckUnique and the space check.
InsertSearched(t) ==
  LET c == call[t]
  IN  /\ c.pc = "search" /\ c.op = "insert"
      /\ Missed(c) \/ Hit(c)
      /\ IF CheckUnique(c) = "Duplicate" THEN Return(t, "KeyExists", None)
         ELSE Set(t, [pc |-> IF Full(c) THEN "freeze" ELSE "reserve",
                      recheck |-> CheckUnique(c) = "ReCheck", dup |-> FALSE, pos |-> 1])
      /\ UNCHANGED <<tree, host, aborted>> /\ SameDict

\* The space is reserved: status word and metadata in one MwCAS.
Reserve(t) ==
  LET c == call[t]
      n == nodes[c.node]
  IN  /\ c.pc = "reserve"
      /\ IF Status(n) = c.expect
         THEN /\ nodes' = [nodes EXCEPT ![c.node].recs =
                    Append(@, [st |-> "inserting", epoch |-> epoch, key |-> c.key, payload |-> c.payload])]
              /\ Set(t, [pc |-> "phase2", slot |-> Len(n.recs) + 1])
         ELSE /\ UNCHANGED nodes
              /\ Set(t, [pc |-> "node"])
      /\ UNCHANGED <<root, epoch, host, aborted>> /\ SameDict

\* RecheckUnique starts over at every retry of the second phase.
Phase2(t) ==
  LET c == call[t]
      n == nodes[c.node]
  IN  /\ c.pc = "phase2"
      /\ IF ~c.recheck THEN Set(t, [pc |-> "final"])
         ELSE IF n.frozen THEN OnFrozen(t)
         ELSE Set(t, [pc |-> "recheck", pos |-> n.sorted + 1, check |-> 0])
      /\ UNCHANGED <<tree, host, aborted>> /\ SameDict

Duplicates(c, r) == IsVisible(r) /\ r.key = c.key

\* The unsorted records in front of the own one; those under insertion are counted.
Recheck(t) ==
  LET c == call[t]
      r == nodes[c.node].recs[c.pos]
  IN  /\ c.pc = "recheck"
      /\ IF c.pos >= c.slot THEN Set(t, [pc |-> "wait", pos |-> 1, need |-> c.check])
         ELSE IF Duplicates(c, r) THEN Set(t, [pc |-> "final", dup |-> TRUE])
         ELSE Set(t, [pos |-> c.pos + 1, check |-> c.check + IF IsInserting(r) THEN 1 ELSE 0])
      /\ UNCHANGED <<tree, host, aborted>> /\ SameDict

\* It waits for as many records as it has counted, but looks at the first ones
\* of the leaf: the loop passes i where check_idx[i] is meant.
Wait(t) ==
  LET c == call[t]
      r == nodes[c.node].recs[c.pos]
  IN  /\ c.pc = "wait"
      /\ IF c.pos = 1 /\ c.need = 0 THEN Set(t, [pc |-> "final"])
         ELSE IF c.pos > c.check THEN Set(t, [pos |-> 1])
         ELSE IF Duplicates(c, r) THEN Set(t, [pc |-> "final", dup |-> TRUE])
         ELSE Set(t, [pos |-> c.pos + 1,
                      need |-> IF IsInserting(r) THEN c.need ELSE (c.need - 1) % (UintMax + 1)])
      /\ UNCHANGED <<tree, host, aborted>> /\ SameDict

\* The status word is read once more, for the MwCAS to hold on to.
FinalStatus(t) ==
  LET c == call[t]
      n == nodes[c.node]
  IN  /\ c.pc = "final"
      /\ IF n.frozen THEN OnFrozen(t) ELSE Set(t, [pc |-> "finalize", expect |-> Status(n)])
      /\ UNCHANGED <<tree, host, aborted>> /\ SameDict

FinalizeHolds(c) == Status(nodes[c.node]) = c.expect

\* The record becomes visible, or hidden if it is a duplicate; both are Ok.
Finalize(t) ==
  LET c == call[t]
  IN  /\ c.pc = "finalize"
      /\ IF FinalizeHolds(c)
         THEN /\ nodes' = [nodes EXCEPT ![c.node].recs[c.slot] =
                             [@ EXCEPT !.st = IF c.dup THEN "hidden" ELSE "visible", !.epoch = 0]]
              /\ Return(t, "Ok", IF c.dup THEN None ELSE c.payload)
              /\ IF c.dup THEN SameDict ELSE Become(c.key, c.payload)
         ELSE /\ Set(t, [pc |-> "phase2"])
              /\ UNCHANGED nodes /\ SameDict
      /\ UNCHANGED <<root, epoch, host, aborted>>

-----------------------------------------------------------------------------
\* Update, Delete, Read, Upsert and the range scan.

\* Upsert goes on as one of the two others, with a traversal of its own.
Upsert(t, op) == call' = [call EXCEPT ![t] = [Attempt(call[t], 0) EXCEPT !.op = op]]

\* The metadata is a copy from here on; the payload is read after it.
Searched(t) ==
  LET c == call[t]
  IN  /\ c.pc = "search" /\ c.op \in {"update", "delete", "read", "upsert"}
      /\ Missed(c) \/ Hit(c)
      /\ IF Hit(c)
         THEN IF IsInserting(Meta(c)) THEN Set(t, [pc |-> "node"])
              ELSE Set(t, [pc |-> IF c.op = "delete" THEN "cas" ELSE "payload", meta |-> Meta(c)])
         ELSE IF c.op = "upsert"
              THEN Upsert(t, "insert")
              ELSE Return(t, "NotFound", None)
      /\ UNCHANGED <<tree, host, aborted>> /\ SameDict

ReadPayload(t) ==
  LET c == call[t]
      now == nodes[c.node].recs[c.pos].payload
  IN  /\ c.pc = "payload"
      /\ CASE c.op = "read" -> Return(t, "Ok", now)
           [] c.op # "read" /\ now = c.payload -> Return(t, "Ok", now)
           [] c.op = "upsert" /\ now # c.payload -> Upsert(t, "update")
           [] OTHER -> Set(t, [pc |-> "cas", meta |-> [c.meta EXCEPT !.payload = now]])
      /\ UNCHANGED <<tree, host, aborted>> /\ SameDict

\* The MwCAS of an update or a deletion compares the status word and the
\* metadata; that of an update the payload too.
CasHolds(c) ==
  /\ Status(nodes[c.node]) = c.expect
  /\ Meta(c).st = c.meta.st
  /\ c.op = "update" => Meta(c).payload = c.meta.payload

Cas(t) ==
  LET c == call[t]
  IN  /\ c.pc = "cas"
      /\ IF CasHolds(c)
         THEN /\ nodes' = IF c.op = "update"
                          THEN [nodes EXCEPT ![c.node].recs[c.pos].payload = c.payload]
                          ELSE [nodes EXCEPT ![c.node].recs[c.pos].st = "hidden", ![c.node].deleted = @ + 1]
              /\ Return(t, "Ok", IF c.op = "update" THEN c.payload ELSE None)
              /\ Become(c.key, IF c.op = "update" THEN c.payload ELSE None)
         ELSE /\ Set(t, [pc |-> "node"])
              /\ UNCHANGED nodes /\ SameDict
      /\ UNCHANGED <<root, epoch, host, aborted>>

\* RangeScanBySize: the records of a leaf, one by one, from the start key on.
ScanRecord(t) ==
  LET c == call[t]
      r == Meta(c)
  IN  /\ c.pc = "search" /\ c.op = "scan"
      /\ c.pos <= RecordCount(c.expect)
      /\ Set(t, [pos |-> c.pos + 1,
                 items |-> IF IsVisible(r) /\ r.key >= From(c) THEN Append(c.items, r.key) ELSE c.items])
      /\ UNCHANGED <<tree, host, aborted>> /\ SameDict

\* Iterator::GetNext, until the items of the leaf are used up: the next leaf is
\* found by the last key, and the iteration ends when that key comes again.
ScanLeaf(t) ==
  LET c == call[t]
      items == SortSeq(c.items, <)
      again == c.got # <<>> /\ items # <<>> /\ Head(items) = Last(c.got)
  IN  /\ c.pc = "search" /\ c.op = "scan"
      /\ c.pos > RecordCount(c.expect)
      /\ IF items = <<>> \/ again
         THEN Return(t, "Ok", None)
         ELSE call' = [call EXCEPT ![t] = Attempt([c EXCEPT !.got = c.got \o items], 0)]
      /\ UNCHANGED <<tree, host, aborted>> /\ SameDict

-----------------------------------------------------------------------------
\* Splitting a leaf.

\* The leaf is frozen by the insertion that found it full, or by another one.
FreezeLeaf(t) ==
  LET c == call[t]
  IN  /\ c.pc = "freeze"
      /\ IF ~nodes[c.node].frozen
         THEN /\ nodes' = [nodes EXCEPT ![c.node].frozen = TRUE]
              /\ Set(t, [pc |-> "split"])
         ELSE UNCHANGED nodes /\ OnFrozen(t)
      /\ UNCHANGED <<root, epoch, host, aborted>> /\ SameDict

Backoff(c) == c.retry <= MAX_FREEZE_RETRY
Abort == aborted' = TRUE /\ UNCHANGED <<tree, call, host>> /\ SameDict

\* LeafNode::PrepareForSplit: the two halves and, for a root, their parent.
SplitLeaf(t) ==
  LET c == call[t]
      recs == SortMetadataByKey(nodes[c.node].recs)
      nleft == SplitPoint(Len(recs))
      halves == (Fresh[1] :> CopyFrom(SubSeq(recs, 1, nleft)))
                @@ (Fresh[2] :> CopyFrom(SubSeq(recs, nleft + 1, Len(recs))))
  IN  /\ c.pc = "split"
      /\ IF nleft = 0 THEN Abort
         ELSE /\ IF c.stack = <<>>
                 THEN /\ nodes' = nodes @@ halves
                                  @@ (Fresh[3] :> NewInternal(<<NullKey, recs[nleft].key>>, <<Fresh[1], Fresh[2]>>))
                      /\ Set(t, [pc |-> "install", made |-> {Fresh[1], Fresh[2], Fresh[3]}, new |-> Fresh[3]])
                 ELSE /\ nodes' = nodes @@ halves
                      /\ Set(t, [pc |-> "parent", made |-> {Fresh[1], Fresh[2]}, sep |-> recs[nleft].key,
                                 left |-> Fresh[1], right |-> Fresh[2]])
              /\ UNCHANGED <<root, epoch, host, aborted>> /\ SameDict

\* InternalNode::PrepareForSplit of the node on top of the stack, after it was
\* frozen: a copy with the separator or, when that is too large, two halves and
\* a separator for the next node up.
SplitParent(t) ==
  LET c == call[t]
      p == Last(c.stack).node
      n == nodes[p]
      frozen == [nodes EXCEPT ![p].frozen = TRUE]
      halves == SplitInternal(n, c.sep, c.left, c.right)
  IN  /\ c.pc = "parent"
      /\ IF n.frozen /\ Backoff(c)
         THEN nodes' = Without(nodes, c.made) /\ Restart(t, c.retry) /\ UNCHANGED aborted
         ELSE IF \E i \in 1 .. Len(n.keys) : n.keys[i] = c.sep
         THEN aborted' = TRUE /\ UNCHANGED <<nodes, call>>
         ELSE IF Len(n.keys) + 1 <= InternalMax
         THEN /\ nodes' = frozen @@ (Fresh[1] :> WithKey(n.keys, n.kids, c.sep, c.left, c.right))
              /\ Set(t, [pc |-> "install", made |-> c.made \cup {Fresh[1]}, new |-> Fresh[1]])
              /\ UNCHANGED aborted
         ELSE /\ IF Len(c.stack) = 1
                 THEN /\ nodes' = frozen @@ (Fresh[1] :> halves.left) @@ (Fresh[2] :> halves.right)
                                  @@ (Fresh[3] :> NewInternal(<<NullKey, halves.sep>>, <<Fresh[1], Fresh[2]>>))
                      /\ Set(t, [pc |-> "install", made |-> c.made \cup {Fresh[1], Fresh[2], Fresh[3]},
                                 new |-> Fresh[3], stack |-> <<>>])
                 ELSE /\ nodes' = frozen @@ (Fresh[1] :> halves.left) @@ (Fresh[2] :> halves.right)
                      /\ Set(t, [made |-> c.made \cup {Fresh[1], Fresh[2]}, stack |-> Front(c.stack),
                                 sep |-> halves.sep, left |-> Fresh[1], right |-> Fresh[2]])
              /\ UNCHANGED aborted
      /\ UNCHANGED <<root, epoch, host>> /\ SameDict

\* InternalNode::Update: the MwCAS of a child pointer and the status word.
UpdateHolds(n, i, old) == ~n.frozen /\ n.kids[i] = old

\* The new parent is installed in the grandparent, or as the root; whether or
\* not that works, the insertion starts over.
Install(t) ==
  LET c == call[t]
      depth == Len(c.stack)
      g == c.stack[depth - 1]
      done == IF depth > 1 THEN UpdateHolds(nodes[g.node], g.index, c.stack[depth].node)
                           ELSE root = c.root
  IN  /\ c.pc = "install"
      /\ IF ~done
         THEN nodes' = Without(nodes, c.made) /\ UNCHANGED root
         ELSE IF depth > 1
         THEN nodes' = [nodes EXCEPT ![g.node].kids[g.index] = c.new] /\ UNCHANGED root
         ELSE root' = c.new /\ UNCHANGED nodes
      /\ call' = [call EXCEPT ![t] = [Attempt(c, c.retry) EXCEPT !.node = root', !.root = root']]
      /\ UNCHANGED <<epoch, host, aborted>> /\ SameDict

\* A crash and Recovery: calls are gone, and so are the nodes they had not
\* installed; a record under insertion belongs to an older epoch.
CrashAndRecover ==
  /\ epoch < plan.crashes
  /\ loaded = Len(plan.load)
  /\ epoch' = epoch + 1
  /\ nodes' = Without(nodes, UNION {call[t].made : t \in {u \in Thread : call[u].pc \in {"parent", "install"}}})
  /\ call' = [t \in Thread |-> Idle]
  /\ steady' = [t \in Thread |-> {}]
  /\ UNCHANGED <<root, host, aborted, dict, seen>>

Step(t) ==
  \/ Descend(t) \/ ReadStatus(t) \/ SearchNext(t)
  \/ InsertSearched(t) \/ Reserve(t) \/ Phase2(t) \/ Recheck(t) \/ Wait(t)
  \/ FinalStatus(t) \/ Finalize(t)
  \/ Searched(t) \/ ReadPayload(t) \/ Cas(t) \/ ScanRecord(t) \/ ScanLeaf(t)
  \/ FreezeLeaf(t) \/ SplitLeaf(t) \/ SplitParent(t) \/ Install(t)

Next ==
  \/ \E t \in Thread : Load(t) \/ Begin(t) \/ Step(t)
  \/ CrashAndRecover

\* Every thread goes on with the call it is in.
Spec == Init /\ [][Next]_vars /\ \A t \in Thread : WF_vars(Step(t))

-----------------------------------------------------------------------------
Leaves ==
  LET Below[d \in 0 .. Cardinality(DOMAIN nodes)] ==
        IF d = 0 THEN {root}
        ELSE LET above == Below[d - 1]
             IN  above \cup UNION {Range(nodes[n].kids) : n \in {m \in above : ~nodes[m].leaf}}
  IN  {n \in Below[Cardinality(DOMAIN nodes)] : nodes[n].leaf}

\* Nodes are leaves or internal nodes with one key for each child.
TypeOK ==
  /\ root \in DOMAIN nodes
  /\ \A n \in DOMAIN nodes :
       IF nodes[n].leaf THEN Range(nodes[n].recs) \subseteq Record /\ Len(nodes[n].recs) < SplitAt
       ELSE /\ Len(nodes[n].keys) = Len(nodes[n].kids)
            /\ Len(nodes[n].keys) <= InternalMax
            /\ Range(nodes[n].kids) \subseteq DOMAIN nodes
  /\ dict \in [Key -> Payload \cup {None}]

\* The visible records of the leaves in the tree are those that calls have
\* put there and not deleted, one for each key, also while leaves and their
\* parents are split and replaced and after a crash (BzTree::Insert, Delete).
TreeIsDict ==
  \A k \in Key :
    LET at == UNION {{<<n, i>> : i \in {j \in 1 .. Len(nodes[n].recs) :
                                       IsVisible(nodes[n].recs[j]) /\ nodes[n].recs[j].key = k}} : n \in Leaves}
    IN  /\ Cardinality(at) = IF dict[k] = None THEN 0 ELSE 1
        /\ \A x \in at : nodes[x[1]].recs[x[2]].payload = dict[k]

IsWrite(c) == c.op \in {"insert", "update", "upsert"}

\* A call answers what was true at some time while it ran (ReturnCode): a write
\* that answers Ok gave the key its payload, a deletion took it away, a Read
\* answers what the key had.  Exempt is an insertion whose record was hidden as a
\* duplicate: its Ok says only that some record of the key was there.  An iterator
\* gives the keys in order and leaves out none that was in the tree all the time.
AnswersAreTrue ==
  \A t \in Thread :
    LET c == call[t]
    IN  c.pc = "done" =>
          /\ c.code = "KeyExists" => \E v \in seen[t] : v # None
          /\ c.code = "NotFound" => None \in seen[t]
          /\ c.code = "Ok" /\ c.op \in {"read", "delete"} => c.val \in seen[t]
          /\ c.code = "Ok" /\ IsWrite(c) =>
               IF c.val = None THEN \E v \in seen[t] : v # None
               ELSE c.val = c.payload /\ c.val \in seen[t]
          /\ c.op = "scan" =>
               /\ \A i \in 1 .. Len(c.got) - 1 : c.got[i] < c.got[i + 1]
               /\ {k \in steady[t] : k >= c.key} \subseteq Range(c.got)

\* An insertion, update or upsert that answers Ok has stored its payload, if only
\* for a moment (FinalizeForInsert: "this record is duplicate inserted").
WritesAreKept ==
  \A t \in Thread :
    call[t].pc = "done" /\ call[t].code = "Ok" /\ IsWrite(call[t]) => call[t].payload \in seen[t]

\* The assertions of the two PrepareForSplit: there is a record to separate the
\* halves by, and its key is not a separator of the parent already.
SplitsHaveSeparators == ~aborted

\* Every call returns unless the process crashes: a leaf that is frozen is
\* replaced in the end, by whichever thread comes to it (MAX_FREEZE_RETRY).
CallsReturn ==
  \A t \in Thread : call[t].pc \notin {"idle", "done"} ~> (call[t].pc \in {"idle", "done"} \/ epoch > 0)
=============================================================================
