----------------------------- MODULE HashIndex ------------------------------
(***************************************************************************)
(* FASTER's hash index (faster/api/faster.h, FindEntry to                  *)
(* FindOrCreateEntry, and faster/core/hash_bucket.h): one chain of buckets *)
(* whose 64-bit entries (tag, tentative bit, address) are read and changed *)
(* by single atomic accesses.  Its callers are modelled by what they do to *)
(* an entry: a read, an update by compare-and-swap (InternalUpsert,        *)
(* InternalRmw), the clearing store of InternalDelete and the garbage      *)
(* collection of CleanHashTableBuckets.                                    *)
(***************************************************************************)
EXTENDS Integers, FiniteSets

CONSTANTS
  Thread,
  Tag,           \* the tags of the keys that hash to this chain
  NoTag,         \* the tag of an unused entry
  Plans,         \* the instances checked: see Plan below
  NumEntries,    \* bound on a bucket's entries
  MaxOverflow,   \* bound on the overflow buckets
  MaxAddress     \* bound on the log's tail

ASSUME ThreadAssumption == IsFiniteSet(Thread)
ASSUME TagAssumption == NoTag \notin Tag
ASSUME SizeAssumption ==
  /\ NumEntries \in Nat \ {0}
  /\ MaxOverflow \in Nat
  /\ MaxAddress \in Nat \ {0, 1}

\* An instance: which operations run for which tags, how many at once, the
\* entries of a bucket (HashBucket::kNumEntries), the allocator's buckets.
Ops == {"read", "update", "delete", "clean"}
Plan == [ops : SUBSET Ops, tags : SUBSET Tag, calls : Nat,
         entries : 1 .. NumEntries, overflow : 0 .. MaxOverflow]

ASSUME PlanAssumption == Plans \subseteq Plan

kInvalidAddress == 1
Address == kInvalidAddress + 1 .. MaxAddress       \* where a record may be
Bucket == 0 .. MaxOverflow                         \* 0 is the chain's first
Slot == Bucket \X (0 .. NumEntries - 1)
NoSlot == <<-1, -1>>

HashBucketEntry(address, tag, tentative) ==
  [address |-> address, tag |-> tag, tentative |-> tentative]
kInvalidEntry == HashBucketEntry(0, NoTag, FALSE)

VARIABLES
  plan,            \* the instance: constant in a behaviour
  entries,         \* bucket->entries[entry_idx] of every bucket
  overflow_entry,  \* the next bucket of the chain, 0 when unused
  allocated,       \* overflow buckets handed out by the allocator
  tail, begin_address, previous_address,    \* the log: only its addresses
  installed,       \* the records some compare-and-swap has put into the index
  pc, op, tag,     \* what each thread is doing, for which tag
  bucket, idx,     \* where its scan is
  atomic_entry,    \* the slot its search returned or will return
  expected_entry,
  new_bucket,      \* the overflow bucket it has allocated and not linked
  absent           \* whether its tag had no final entry at a moment of its call

index == <<entries, overflow_entry, allocated>>
log == <<tail, begin_address, previous_address, installed>>
scan == <<bucket, idx>>
vars == <<plan, index, log, pc, op, tag, scan, atomic_entry, expected_entry,
          new_bucket, absent>>

-----------------------------------------------------------------------------
Init ==
  /\ plan \in Plans
  /\ entries = [s \in Slot |-> kInvalidEntry]
  /\ overflow_entry = [b \in Bucket |-> 0]
  /\ allocated = {}
  /\ tail = kInvalidAddress + 1
  /\ begin_address = kInvalidAddress + 1
  /\ previous_address = [a \in Address |-> 0]
  /\ installed = {}
  /\ pc = [t \in Thread |-> "idle"]
  /\ op = [t \in Thread |-> "none"]
  /\ tag = [t \in Thread |-> NoTag]
  /\ bucket = [t \in Thread |-> 0]
  /\ idx = [t \in Thread |-> 0]
  /\ atomic_entry = [t \in Thread |-> NoSlot]
  /\ expected_entry = [t \in Thread |-> kInvalidEntry]
  /\ new_bucket = [t \in Thread |-> 0]
  /\ absent = [t \in Thread |-> FALSE]

Goto(t, label) == pc' = [pc EXCEPT ![t] = label]

Here(t) == <<bucket[t], idx[t]>>

\* The scan of a bucket chain: the next entry, the next bucket, the first one.
NextEntry(t) ==
  /\ idx' = [idx EXCEPT ![t] = @ + 1]
  /\ UNCHANGED bucket
NextBucketSkipping(t, b) ==      \* slip: the first entry is skipped
  /\ bucket' = [bucket EXCEPT ![t] = b]
  /\ idx' = [idx EXCEPT ![t] = IF b = 0 THEN 0 ELSE 1]
NextBucket(t, b) ==
  /\ bucket' = [bucket EXCEPT ![t] = b]
  /\ idx' = [idx EXCEPT ![t] = 0]
FirstBucket(t) == NextBucket(t, 0)

Store(slot, entry) == entries' = [entries EXCEPT ![slot] = entry]

\* Final(g): the slots of g's entries that readers may use.
Final(g) == {s \in Slot : entries[s].tag = g /\ ~entries[s].tentative}

\* absent[t] records whether t's tag was missing at a moment of t's call.
Observe ==
  absent' = [t \in Thread |->
               /\ pc'[t] # "idle"
               /\ absent[t] \/ Final(tag[t])' = {}]

Return(t) ==
  /\ Goto(t, "idle")
  /\ op' = [op EXCEPT ![t] = "none"]
  /\ tag' = [tag EXCEPT ![t] = NoTag]
  /\ FirstBucket(t)
  /\ atomic_entry' = [atomic_entry EXCEPT ![t] = NoSlot]
  /\ expected_entry' = [expected_entry EXCEPT ![t] = kInvalidEntry]
  /\ UNCHANGED new_bucket

Start(t, o, g) ==
  /\ pc[t] = "idle"
  /\ o \in plan.ops /\ g \in plan.tags
  /\ Cardinality({u \in Thread : pc[u] # "idle"}) < plan.calls
  /\ op' = [op EXCEPT ![t] = o]
  /\ tag' = [tag EXCEPT ![t] = IF o = "clean" THEN NoTag ELSE g]
  /\ Goto(t, CASE o = "read" -> "find" [] o = "clean" -> "clean" [] OTHER -> "search")
  /\ UNCHANGED <<index, log, scan, atomic_entry, expected_entry, new_bucket>>
  /\ Observe

-----------------------------------------------------------------------------
\* FindEntry: the first final entry with the tag, or none.
FindLoad(t) ==
  /\ pc[t] = "find"
  /\ idx[t] < plan.entries
  /\ \/ /\ Here(t) \in Final(tag[t])
        /\ Return(t)
     \/ /\ Here(t) \notin Final(tag[t])
        /\ NextEntry(t)
        /\ UNCHANGED <<pc, op, tag, atomic_entry, expected_entry, new_bucket>>
  /\ UNCHANGED <<index, log>>
  /\ Observe

FindNext(t) ==
  /\ pc[t] = "find"
  /\ idx[t] = plan.entries
  /\ LET b == overflow_entry[bucket[t]]
     IN  \/ b = 0 /\ Goto(t, "not_found") /\ UNCHANGED scan
         \/ b # 0 /\ NextBucket(t, b) /\ UNCHANGED pc
  /\ UNCHANGED <<index, log, op, tag, atomic_entry, expected_entry, new_bucket>>
  /\ Observe

\* InternalRead: "no record found".
NotFound(t) ==
  /\ pc[t] = "not_found"
  /\ Return(t)
  /\ UNCHANGED <<index, log>>
  /\ Observe

-----------------------------------------------------------------------------
(***************************************************************************)
(* FindTentativeEntry: a final entry with the tag, or else the first free  *)
(* slot seen, or else the first slot of a new overflow bucket.             *)
(***************************************************************************)
SearchLoad(t) ==
  /\ pc[t] = "search"
  /\ idx[t] < plan.entries
  /\ \/ /\ Here(t) \in Final(tag[t])
        /\ atomic_entry' = [atomic_entry EXCEPT ![t] = Here(t)]
        /\ expected_entry' = [expected_entry EXCEPT ![t] = entries[Here(t)]]
        /\ Goto(t, "use")
        /\ UNCHANGED scan
     \/ /\ Here(t) \notin Final(tag[t])
        /\ atomic_entry' =
             IF entries[Here(t)] = kInvalidEntry /\ atomic_entry[t] = NoSlot
             THEN [atomic_entry EXCEPT ![t] = Here(t)]
             ELSE atomic_entry
        /\ NextEntry(t)
        /\ UNCHANGED <<pc, expected_entry>>
  /\ UNCHANGED <<index, log, op, tag, new_bucket>>
  /\ Observe

SearchNext(t) ==
  /\ pc[t] = "search"
  /\ idx[t] = plan.entries
  /\ LET b == overflow_entry[bucket[t]]
     IN  \/ b # 0 /\ NextBucket(t, b) /\ UNCHANGED pc
         \/ /\ b = 0
            /\ Goto(t, IF atomic_entry[t] # NoSlot THEN "install" ELSE "allocate")
            /\ UNCHANGED scan
  /\ UNCHANGED <<index, log, op, tag, atomic_entry, expected_entry, new_bucket>>
  /\ Observe

\* Slip: the bucket that lost the race is not given back.
FreeBucketLeaked(b) == UNCHANGED allocated

\* The allocator, MallocFixedPageSize: address 0 stays reserved.
Unallocated == (1 .. plan.overflow) \ allocated
FreeBucket(b) == allocated' = allocated \ {b}

AllocateBucket(t) ==
  /\ pc[t] = "allocate"
  /\ \E b \in Unallocated :
       /\ allocated' = allocated \cup {b}
       /\ new_bucket' = [new_bucket EXCEPT ![t] = b]
  /\ Goto(t, "link")
  /\ UNCHANGED <<entries, overflow_entry, log, op, tag, scan, atomic_entry,
                 expected_entry>>
  /\ Observe

\* The compare-and-swap of the overflow entry: the new bucket becomes the end of
\* the chain, or it is freed and the search goes on in the winner's.
LinkBucket(t) ==
  /\ pc[t] = "link"
  /\ LET b == bucket[t] IN
       \/ /\ overflow_entry[b] = 0
          /\ overflow_entry' = [overflow_entry EXCEPT ![b] = new_bucket[t]]
          /\ atomic_entry' = [atomic_entry EXCEPT ![t] = <<new_bucket[t], 0>>]
          /\ Goto(t, "install")
          /\ UNCHANGED <<allocated, scan>>
       \/ /\ overflow_entry[b] # 0
          /\ FreeBucket(new_bucket[t])
          /\ NextBucket(t, overflow_entry[b])
          /\ Goto(t, "search")
          /\ UNCHANGED <<overflow_entry, atomic_entry>>
  /\ new_bucket' = [new_bucket EXCEPT ![t] = 0]
  /\ UNCHANGED <<entries, log, op, tag, expected_entry>>
  /\ Observe

-----------------------------------------------------------------------------
(***************************************************************************)
(* FindOrCreateEntry: put a tentative entry into the free slot, look for   *)
(* another entry with the tag, then back off or make the entry final.      *)
(***************************************************************************)
Retry(t) ==
  /\ Goto(t, "search")
  /\ FirstBucket(t)
  /\ atomic_entry' = [atomic_entry EXCEPT ![t] = NoSlot]
  /\ expected_entry' = [expected_entry EXCEPT ![t] = kInvalidEntry]

InstallTentative(t) ==
  /\ pc[t] = "install"
  /\ \/ /\ entries[atomic_entry[t]] = kInvalidEntry
        /\ Store(atomic_entry[t], HashBucketEntry(kInvalidAddress, tag[t], TRUE))
        /\ Goto(t, "conflict")
        /\ FirstBucket(t)
        /\ UNCHANGED <<atomic_entry, expected_entry>>
     \/ /\ entries[atomic_entry[t]] # kInvalidEntry
        /\ Retry(t)
        /\ UNCHANGED entries
  /\ UNCHANGED <<overflow_entry, allocated, log, op, tag, new_bucket>>
  /\ Observe

\* Slip: only final entries count as conflicts.
ConflictsFinal(t, s) == s # atomic_entry[t] /\ s \in Final(tag[t])

Conflicts(t, s) == s # atomic_entry[t] /\ entries[s].tag = tag[t]

ConflictLoad(t) ==
  /\ pc[t] = "conflict"
  /\ idx[t] < plan.entries
  /\ \/ Conflicts(t, Here(t)) /\ Goto(t, "back_off") /\ UNCHANGED scan
     \/ ~Conflicts(t, Here(t)) /\ NextEntry(t) /\ UNCHANGED pc
  /\ UNCHANGED <<index, log, op, tag, atomic_entry, expected_entry, new_bucket>>
  /\ Observe

ConflictNext(t) ==
  /\ pc[t] = "conflict"
  /\ idx[t] = plan.entries
  /\ LET b == overflow_entry[bucket[t]]
     IN  \/ b # 0 /\ NextBucket(t, b) /\ UNCHANGED pc
         \/ b = 0 /\ Goto(t, "finalize") /\ UNCHANGED scan
  /\ UNCHANGED <<index, log, op, tag, atomic_entry, expected_entry, new_bucket>>
  /\ Observe

BackOff(t) ==
  /\ pc[t] = "back_off"
  /\ Store(atomic_entry[t], kInvalidEntry)
  /\ Retry(t)
  /\ UNCHANGED <<overflow_entry, allocated, log, op, tag, new_bucket>>
  /\ Observe

Finalize(t) ==
  /\ pc[t] = "finalize"
  /\ LET entry == HashBucketEntry(kInvalidAddress, tag[t], FALSE)
     IN  /\ Store(atomic_entry[t], entry)
         /\ expected_entry' = [expected_entry EXCEPT ![t] = entry]
  /\ Goto(t, "use")
  /\ UNCHANGED <<overflow_entry, allocated, log, op, tag, scan, atomic_entry,
                 new_bucket>>
  /\ Observe

-----------------------------------------------------------------------------
(***************************************************************************)
(* The callers.  create_record of InternalUpsert, InternalRmw and          *)
(* InternalDelete: allocate a record that points back to the expected      *)
(* address, and swap it in; a failure starts the operation again.          *)
(***************************************************************************)
\* Slip: the swap compares the tag and not the address.
CanSwapTag(t) == entries[atomic_entry[t]].tag = tag[t]

CanSwap(t) == entries[atomic_entry[t]] = expected_entry[t]

CreateRecord(t) ==
  /\ pc[t] = "use"
  /\ tail <= MaxAddress
  /\ tail' = tail + 1
  /\ previous_address' =
       [previous_address EXCEPT ![tail] = expected_entry[t].address]
  /\ \/ /\ CanSwap(t)
        /\ Store(atomic_entry[t], HashBucketEntry(tail, tag[t], FALSE))
        /\ installed' = installed \cup {<<tag[t], tail>>}
        /\ Return(t)
     \/ /\ ~CanSwap(t)
        /\ Retry(t)
        /\ UNCHANGED <<entries, installed, op, tag, new_bucket>>
  /\ UNCHANGED <<overflow_entry, allocated, begin_address>>
  /\ Observe

\* In-place update of a mutable record, unless the entry has changed since: the
\* index itself does not change.
UpdateInPlace(t) ==
  /\ pc[t] = "use"
  /\ op[t] = "update"
  /\ expected_entry[t].address >= begin_address
  /\ \/ CanSwap(t) /\ Return(t)
     \/ ~CanSwap(t) /\ Retry(t) /\ UNCHANGED <<op, tag, new_bucket>>
  /\ UNCHANGED <<index, log>>
  /\ Observe

\* InternalDelete of a mutable record: load, compare the address, and store.
DeleteCheck(t) ==
  /\ pc[t] = "use"
  /\ op[t] = "delete"
  /\ expected_entry[t].address >= begin_address
  /\ \/ /\ entries[atomic_entry[t]].address = expected_entry[t].address
        /\ Goto(t, "clear")
        /\ UNCHANGED <<op, tag, scan, atomic_entry, expected_entry, new_bucket>>
     \/ /\ entries[atomic_entry[t]].address # expected_entry[t].address
        /\ Return(t)
  /\ UNCHANGED <<index, log>>
  /\ Observe

DeleteStore(t) ==
  /\ pc[t] = "clear"
  /\ Store(atomic_entry[t], kInvalidEntry)
  /\ Return(t)
  /\ UNCHANGED <<overflow_entry, allocated, log>>
  /\ Observe

-----------------------------------------------------------------------------
\* The condition under which CleanHashTableBuckets removes an entry.
Truncated(entry) ==
  /\ entry # kInvalidEntry
  /\ entry.address # kInvalidAddress
  /\ entry.address < begin_address

CleanLoad(t) ==
  /\ pc[t] = "clean"
  /\ idx[t] < plan.entries
  /\ \/ /\ Truncated(entries[Here(t)])
        /\ expected_entry' = [expected_entry EXCEPT ![t] = entries[Here(t)]]
        /\ Goto(t, "clean_swap")
        /\ UNCHANGED scan
     \/ /\ ~Truncated(entries[Here(t)])
        /\ NextEntry(t)
        /\ UNCHANGED <<pc, expected_entry>>
  /\ UNCHANGED <<index, log, op, tag, atomic_entry, new_bucket>>
  /\ Observe

CleanSwap(t) ==
  /\ pc[t] = "clean_swap"
  /\ IF entries[Here(t)] = expected_entry[t]
     THEN Store(Here(t), kInvalidEntry)
     ELSE UNCHANGED entries
  /\ Goto(t, "clean")
  /\ NextEntry(t)
  /\ UNCHANGED <<overflow_entry, allocated, log, op, tag, atomic_entry,
                 expected_entry, new_bucket>>
  /\ Observe

CleanNext(t) ==
  /\ pc[t] = "clean"
  /\ idx[t] = plan.entries
  /\ LET b == overflow_entry[bucket[t]]
     IN  \/ b = 0 /\ Return(t)
         \/ /\ b # 0
            /\ NextBucket(t, b)
            /\ UNCHANGED <<pc, op, tag, atomic_entry, expected_entry, new_bucket>>
  /\ UNCHANGED <<index, log>>
  /\ Observe

\* ShiftBeginAddress: the log up to an address is truncated.
Truncate ==
  /\ "clean" \in plan.ops
  /\ begin_address < tail
  /\ begin_address' = begin_address + 1
  /\ UNCHANGED <<index, tail, previous_address, installed, pc, op, tag, scan,
                 atomic_entry, expected_entry, new_bucket>>
  /\ Observe

-----------------------------------------------------------------------------
ThreadNext(t) ==
  \/ \E o \in Ops, g \in Tag : Start(t, o, g)
  \/ FindLoad(t) \/ FindNext(t) \/ NotFound(t)
  \/ SearchLoad(t) \/ SearchNext(t) \/ AllocateBucket(t) \/ LinkBucket(t)
  \/ InstallTentative(t) \/ ConflictLoad(t) \/ ConflictNext(t)
  \/ BackOff(t) \/ Finalize(t)
  \/ CreateRecord(t) \/ UpdateInPlace(t) \/ DeleteCheck(t) \/ DeleteStore(t)
  \/ CleanLoad(t) \/ CleanSwap(t) \/ CleanNext(t)

Next ==
  /\ Truncate \/ \E t \in Thread : ThreadNext(t)
  /\ UNCHANGED plan

Spec == Init /\ [][Next]_vars

-----------------------------------------------------------------------------
Labels ==
  {"idle", "find", "not_found", "search", "allocate", "link", "install",
   "conflict", "back_off", "finalize", "use", "clear", "clean", "clean_swap"}

EntryValue == [address : 0 .. MaxAddress, tag : Tag \cup {NoTag}, tentative : BOOLEAN]

IndexTypeOK ==
  /\ entries \in [Slot -> EntryValue]
  /\ overflow_entry \in [Bucket -> Bucket]
  /\ allocated \in SUBSET (Bucket \ {0})

LogTypeOK ==
  /\ tail \in Address \cup {MaxAddress + 1}
  /\ begin_address \in Address \cup {MaxAddress + 1}
  /\ previous_address \in [Address -> 0 .. MaxAddress]
  /\ installed \in SUBSET (Tag \X Address)

LocalTypeOK ==
  /\ pc \in [Thread -> Labels]
  /\ op \in [Thread -> Ops \cup {"none"}]
  /\ tag \in [Thread -> Tag \cup {NoTag}]
  /\ bucket \in [Thread -> Bucket]
  /\ idx \in [Thread -> 0 .. NumEntries]
  /\ atomic_entry \in [Thread -> Slot \cup {NoSlot}]
  /\ expected_entry \in [Thread -> EntryValue]
  /\ new_bucket \in [Thread -> Bucket]
  /\ absent \in [Thread -> BOOLEAN]

\* The types of the chain, of the log's addresses and of the threads' locals.
TypeOK == plan \in Plans /\ IndexTypeOK /\ LogTypeOK /\ LocalTypeOK

\* "No other thread was trying to install this tag": a tag never has two final
\* entries in the chain, however the inserts of FindOrCreateEntry, the swaps of
\* its callers, garbage collection and new overflow buckets interleave.  The
\* plain store of InternalDelete breaks this, so that plans that delete are
\* exempt.
OneFinalEntry ==
  "delete" \notin plan.ops => \A g \in Tag : Cardinality(Final(g)) <= 1

\* FindEntry reports a tag missing only if it was missing at some moment of the
\* call: no final entry is overlooked while buckets are added to the chain and
\* entries are freed and reused behind the scan.  (Plans that delete are exempt:
\* of two final entries, the scan may pass the place of one before it is there
\* and reach the place of the other after it is gone.)
NotFoundIsTrue ==
  "delete" \notin plan.ops => \A t \in Thread : pc[t] = "not_found" => absent[t]

\* The records that can be reached from an address: what every set of addresses
\* that holds it and follows previous_address must hold.
FollowsPrevious(S) ==
  \A a \in S \cap Address :
    previous_address[a] \in Address => previous_address[a] \in S
Reach(a) ==
  {r \in Address :
     \A S \in SUBSET (0 .. MaxAddress) : a \in S /\ FollowsPrevious(S) => r \in S}

\* Every record swapped into the index stays reachable from its tag's entry
\* until the log is truncated past it: no update is lost to a second entry, to
\* a stale expected_entry or to garbage collection.  (InternalDelete unlinks
\* records, and may by its check-then-store unlink a newer one.)
NoRecordLost ==
  "delete" \notin plan.ops =>
    \A r \in installed :
      r[2] >= begin_address =>
        \E s \in Final(r[1]) : r[2] \in Reach(entries[s].address)

\* The chain holds every allocated overflow bucket once, unless one thread is
\* about to link it: the compare-and-swap of overflow_entry neither leaks a
\* bucket nor cuts one off.
BucketsAccountedFor ==
  \A b \in Bucket \ {0} :
    Cardinality({c \in Bucket : overflow_entry[c] = b})
      + Cardinality({t \in Thread : new_bucket[t] = b})
      = IF b \in allocated THEN 1 ELSE 0
=============================================================================
