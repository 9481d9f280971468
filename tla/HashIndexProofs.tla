--------------------------- MODULE HashIndexProofs --------------------------
(***************************************************************************)
(* Proofs about FASTER's hash index.  The chain of buckets has no bound on *)
(* its length, so that "still ahead of a scan" is stated with the least    *)
(* set closed under overflow_entry, which needs no induction.              *)
(***************************************************************************)
EXTENDS HashIndex, CountingProofs

-----------------------------------------------------------------------------
(***************************************************************************)
(* The inductive invariant.                                                *)
(***************************************************************************)

\* The buckets from b to the end of the chain.
FollowsChain(S) == \A c \in S : overflow_entry[c] # 0 => overflow_entry[c] \in S
After(b) == {c \in Bucket : \A S \in SUBSET Bucket : b \in S /\ FollowsChain(S) => c \in S}

\* The slots a scan of the whole chain looks at.
Live == {s \in Slot : s[1] \in After(0) /\ s[2] < plan.entries}

\* The slots the scan of t has yet to look at.
Ahead(t, s) ==
  \/ s[1] = bucket[t] /\ s[2] >= idx[t]
  \/ s[1] # bucket[t] /\ s[1] \in After(bucket[t])

Owning == {"conflict", "back_off", "finalize"}    \* owns a tentative entry
Tentative(t) == HashBucketEntry(kInvalidAddress, tag[t], TRUE)

\* Where a thread's scan is, and what it has found so far.
Control(t) ==
  /\ pc[t] = "idle" => /\ bucket[t] = 0 /\ idx[t] = 0
                       /\ atomic_entry[t] = NoSlot
  /\ bucket[t] \in After(0)
  /\ idx[t] <= plan.entries
  /\ pc[t] = "clean_swap" => idx[t] < plan.entries
  /\ pc[t] \notin {"idle", "clean", "clean_swap"} => tag[t] \in Tag
  /\ atomic_entry[t] # NoSlot => atomic_entry[t] \in Live
  /\ pc[t] \in Owning \cup {"install", "use", "clear"} => atomic_entry[t] # NoSlot
  /\ pc[t] = "link" <=> new_bucket[t] # 0
  /\ pc[t] = "clear" => "delete" \in plan.ops
  /\ op[t] = "delete" => "delete" \in plan.ops

ControlInv == \A t \in Thread : Control(t)

\* Only slots of the chain are used, for the keys' tags, and an address in the
\* index is one the log has handed out.
EntryInv ==
  /\ \A s \in Slot :
       \/ entries[s] = kInvalidEntry
       \/ s \in Live /\ entries[s].tag \in Tag /\ entries[s].address < tail
  /\ \A t \in Thread : pc[t] = "use" =>
       /\ expected_entry[t].tag = tag[t]
       /\ ~expected_entry[t].tentative
       /\ expected_entry[t].address < tail
  /\ \A t \in Thread : pc[t] = "clean_swap" => Truncated(expected_entry[t])

\* What holds of every plan.
BaseInv == TypeOK /\ ControlInv /\ EntryInv

\* A tentative entry that is being checked is its owner's alone.
OwnerInv ==
  \A t \in Thread : pc[t] \in Owning =>
    /\ entries[atomic_entry[t]] = Tentative(t)
    /\ \A u \in Thread :
         u # t /\ pc[u] \in Owning => atomic_entry[u] # atomic_entry[t]

\* The owner of s1 will give it up because of s2, or has still to see s2.
Covers(t, s1, s2) ==
  /\ atomic_entry[t] = s1
  /\ pc[t] = "back_off" \/ (pc[t] = "conflict" /\ Ahead(t, s2))

\* Of two entries with one tag, one is about to go.
PairInv ==
  \A s1, s2 \in Slot :
    s1 # s2 /\ entries[s1].tag = entries[s2].tag /\ entries[s1].tag \in Tag =>
      \E t \in Thread : Covers(t, s1, s2) \/ Covers(t, s2, s1)

\* A reader's tag has been missing, or its entry is still ahead.
FindInv ==
  \A t \in Thread :
    /\ pc[t] = "find" => absent[t] \/ \E s \in Final(tag[t]) : Ahead(t, s)
    /\ pc[t] = "not_found" => absent[t]

\* Records point back to older records.
LogInv ==
  \A a \in Address : /\ previous_address[a] < a
                     /\ a >= tail => previous_address[a] = 0

NoDelete == "delete" \notin plan.ops

\* The inductive invariant: what every plan keeps, and what plans without
\* InternalDelete's plain store keep.
IInv ==
  /\ BaseInv
  /\ NoDelete => OwnerInv /\ PairInv /\ FindInv /\ LogInv /\ NoRecordLost

-----------------------------------------------------------------------------
(***************************************************************************)
(* The chain.                                                              *)
(***************************************************************************)
LEMMA PlanFacts ==
  ASSUME BaseInv
  PROVE  /\ plan.entries \in 1 .. NumEntries /\ plan.overflow \in 0 .. MaxOverflow
         /\ plan.entries \in Int /\ NumEntries \in Int
         /\ 0 \in Bucket /\ MaxOverflow \in Nat /\ MaxAddress \in Nat
         /\ MaxAddress \in Int /\ MaxAddress >= 2
         /\ IndexTypeOK /\ LogTypeOK /\ LocalTypeOK
  <1>1. plan \in Plan /\ IndexTypeOK /\ LogTypeOK /\ LocalTypeOK
    BY PlanAssumption DEF BaseInv, TypeOK
  <1>2. QED
    BY <1>1, SizeAssumption DEF Plan, Bucket

LEMMA AfterSelf == ASSUME NEW b \in Bucket PROVE b \in After(b)
  BY DEF After

LEMMA AfterNext ==
  ASSUME overflow_entry \in [Bucket -> Bucket], NEW b \in Bucket,
         NEW c \in After(b), c # b
  PROVE  overflow_entry[b] # 0 /\ c \in After(overflow_entry[b])
  <1>1. c \in Bucket /\ \A S \in SUBSET Bucket : b \in S /\ FollowsChain(S) => c \in S
    BY DEF After
  <1>2. overflow_entry[b] # 0
    <2> SUFFICES ASSUME overflow_entry[b] = 0 PROVE FALSE
      OBVIOUS
    <2>1. FollowsChain({b})
      BY DEF FollowsChain
    <2>2. QED
      BY <1>1, <2>1
  <1>3. ASSUME NEW S \in SUBSET Bucket, overflow_entry[b] \in S, FollowsChain(S)
        PROVE  c \in S
    <2>1. FollowsChain(S \cup {b})
      BY <1>3 DEF FollowsChain
    <2>2. QED
      BY <1>1, <2>1
  <1>4. QED
    BY <1>1, <1>2, <1>3 DEF After

LEMMA AfterStep ==
  ASSUME overflow_entry \in [Bucket -> Bucket], NEW b \in Bucket,
         NEW c \in After(b), overflow_entry[c] # 0
  PROVE  overflow_entry[c] \in After(b)
  BY DEF After, FollowsChain

\* Linking a bucket to the end of the chain only adds to what follows a bucket.
LEMMA AfterGrows ==
  ASSUME overflow_entry \in [Bucket -> Bucket], NEW b \in Bucket, NEW n \in Bucket,
         overflow_entry[b] = 0, n # 0,
         overflow_entry' = [overflow_entry EXCEPT ![b] = n],
         NEW x \in Bucket
  PROVE  /\ After(x) \subseteq After(x)'
         /\ b \in After(x) => n \in After(x)'
  <1>1. ASSUME NEW S \in SUBSET Bucket, FollowsChain(S)'
        PROVE  FollowsChain(S) /\ (b \in S => n = 0 \/ n \in S)
    BY <1>1 DEF FollowsChain
  <1>2. After(x) \subseteq After(x)'
    BY <1>1 DEF After
  <1>3. ASSUME b \in After(x) PROVE n \in After(x)'
    BY <1>1, <1>3 DEF After
  <1>4. QED
    BY <1>2, <1>3

-----------------------------------------------------------------------------
(***************************************************************************)
(* Frames and types.                                                       *)
(***************************************************************************)

\* A step of t leaves the other threads' locals alone.
Kept(u) ==
  /\ pc'[u] = pc[u] /\ op'[u] = op[u] /\ tag'[u] = tag[u]
  /\ bucket'[u] = bucket[u] /\ idx'[u] = idx[u]
  /\ atomic_entry'[u] = atomic_entry[u] /\ expected_entry'[u] = expected_entry[u]
  /\ new_bucket'[u] = new_bucket[u]

LEMMA OthersKept ==
  ASSUME LocalTypeOK, NEW t \in Thread, ThreadNext(t), NEW u \in Thread, u # t
  PROVE  Kept(u)
  <1> USE DEF LocalTypeOK, Kept, Goto, Return, Retry, NextEntry, NextBucket, FirstBucket, scan
  <1>1. CASE FindLoad(t)
    BY <1>1 DEF FindLoad
  <1>2. CASE FindNext(t)
    BY <1>2 DEF FindNext
  <1>3. CASE NotFound(t)
    BY <1>3 DEF NotFound
  <1>4. CASE SearchLoad(t)
    BY <1>4 DEF SearchLoad
  <1>5. CASE SearchNext(t)
    BY <1>5 DEF SearchNext
  <1>6. CASE AllocateBucket(t)
    BY <1>6 DEF AllocateBucket
  <1>7. CASE LinkBucket(t)
    BY <1>7 DEF LinkBucket
  <1>8. CASE InstallTentative(t)
    BY <1>8 DEF InstallTentative
  <1>9. CASE ConflictLoad(t)
    BY <1>9 DEF ConflictLoad
  <1>10. CASE ConflictNext(t)
    BY <1>10 DEF ConflictNext
  <1>11. CASE BackOff(t)
    BY <1>11 DEF BackOff
  <1>12. CASE Finalize(t)
    BY <1>12 DEF Finalize
  <1>13. CASE CreateRecord(t)
    BY <1>13 DEF CreateRecord
  <1>14. CASE UpdateInPlace(t)
    BY <1>14 DEF UpdateInPlace
  <1>15. CASE DeleteCheck(t)
    BY <1>15 DEF DeleteCheck
  <1>16. CASE DeleteStore(t)
    BY <1>16 DEF DeleteStore
  <1>17. CASE CleanLoad(t)
    BY <1>17 DEF CleanLoad
  <1>18. CASE CleanSwap(t)
    BY <1>18 DEF CleanSwap
  <1>19. CASE CleanNext(t)
    BY <1>19 DEF CleanNext
  <1>20. ASSUME NEW o \in Ops, NEW g \in Tag, Start(t, o, g) PROVE Kept(u)
    BY <1>20 DEF Start
  <1>q. QED
    BY <1>1, <1>2, <1>3, <1>4, <1>5, <1>6, <1>7, <1>8, <1>9, <1>10,
       <1>11, <1>12, <1>13, <1>14, <1>15, <1>16, <1>17, <1>18, <1>19, <1>20 DEF ThreadNext

LEMMA ObserveStep ==
  ASSUME NEW t \in Thread, ThreadNext(t)
  PROVE  Observe
  BY DEF ThreadNext, Start, FindLoad, FindNext, NotFound, SearchLoad, SearchNext, AllocateBucket, LinkBucket,
      InstallTentative, ConflictLoad, ConflictNext, BackOff, Finalize, CreateRecord, UpdateInPlace,
      DeleteCheck, DeleteStore, CleanLoad, CleanSwap, CleanNext

\* The slots and entries a step works with.
LEMMA StepFacts ==
  ASSUME BaseInv, NEW t \in Thread
  PROVE  /\ Control(t)
         /\ idx[t] < plan.entries => Here(t) \in Slot /\ entries[Here(t)] \in EntryValue
         /\ overflow_entry[bucket[t]] \in Bucket
         /\ kInvalidEntry \in EntryValue
         /\ NoSlot \notin Slot
         /\ pc[t] \notin {"idle", "clean", "clean_swap"} =>
              /\ Tentative(t) \in EntryValue
              /\ HashBucketEntry(kInvalidAddress, tag[t], FALSE) \in EntryValue
              /\ \A a \in Address : HashBucketEntry(a, tag[t], FALSE) \in EntryValue
         /\ pc[t] \in Owning \cup {"install", "use", "clear"} =>
              atomic_entry[t] \in Live /\ atomic_entry[t] \in Slot
  <1>1. Control(t)
    BY DEF BaseInv, ControlInv
  <1>2. idx[t] < plan.entries => Here(t) \in Slot /\ entries[Here(t)] \in EntryValue
    <2> SUFFICES ASSUME idx[t] < plan.entries
                 PROVE  Here(t) \in Slot /\ entries[Here(t)] \in EntryValue
      OBVIOUS
    <2>1. idx[t] \in 0 .. NumEntries - 1 /\ bucket[t] \in Bucket
      BY PlanFacts DEF LocalTypeOK
    <2>2. Here(t) \in Slot
      BY <2>1 DEF Here, Slot
    <2>3. QED
      BY <2>2, PlanFacts DEF IndexTypeOK
  <1>3. overflow_entry[bucket[t]] \in Bucket
    BY PlanFacts DEF IndexTypeOK, LocalTypeOK
  <1>4. kInvalidEntry \in EntryValue
    BY PlanFacts DEF kInvalidEntry, HashBucketEntry, EntryValue
  <1>5. NoSlot \notin Slot
    BY PlanFacts DEF NoSlot, Slot, Bucket
  <1>6. ASSUME pc[t] \notin {"idle", "clean", "clean_swap"}
        PROVE  /\ Tentative(t) \in EntryValue
               /\ HashBucketEntry(kInvalidAddress, tag[t], FALSE) \in EntryValue
               /\ \A a \in Address : HashBucketEntry(a, tag[t], FALSE) \in EntryValue
    <2>1. tag[t] \in Tag /\ kInvalidAddress \in 0 .. MaxAddress /\ Address \subseteq 0 .. MaxAddress
      BY <1>1, <1>6, PlanFacts DEF Control, kInvalidAddress, Address
    <2>2. QED
      BY <2>1 DEF Tentative, HashBucketEntry, EntryValue
  <1>7. pc[t] \in Owning \cup {"install", "use", "clear"} =>
          atomic_entry[t] \in Live /\ atomic_entry[t] \in Slot
    BY <1>1 DEF Control, Live
  <1>8. QED
    BY <1>1, <1>2, <1>3, <1>4, <1>5, <1>6, <1>7

LEMMA LocalTypeStep ==
  ASSUME BaseInv, NEW t \in Thread, ThreadNext(t)
  PROVE  LocalTypeOK'
  <1> USE SizeAssumption DEF LocalTypeOK, Goto, Return, Retry, NextEntry, NextBucket, FirstBucket,
          scan, Labels
  <1>a. /\ LocalTypeOK /\ plan.entries \in 1 .. NumEntries
        /\ plan.overflow \in 0 .. MaxOverflow /\ 0 \in Bucket
    BY PlanFacts
  <1>b. /\ idx[t] < plan.entries => Here(t) \in Slot /\ entries[Here(t)] \in EntryValue
        /\ overflow_entry[bucket[t]] \in Bucket
        /\ kInvalidEntry \in EntryValue
        /\ pc[t] = "finalize" => HashBucketEntry(kInvalidAddress, tag[t], FALSE) \in EntryValue
        /\ pc[t] = "clean_swap" => idx[t] < plan.entries
        /\ idx[t] <= plan.entries
    BY StepFacts DEF Control
  <1>c. absent' \in [Thread -> BOOLEAN]
    BY <1>a, ObserveStep DEF Observe
  <1>d. \A b \in Bucket : <<b, 0>> \in Slot
    BY DEF Slot
  <1>1. CASE FindLoad(t)
    BY <1>1, <1>a, <1>b, <1>c DEF FindLoad
  <1>2. CASE FindNext(t)
    BY <1>2, <1>a, <1>b, <1>c DEF FindNext
  <1>3. CASE NotFound(t)
    BY <1>3, <1>a, <1>b, <1>c DEF NotFound
  <1>4. CASE SearchLoad(t)
    BY <1>4, <1>a, <1>b, <1>c DEF SearchLoad
  <1>5. CASE SearchNext(t)
    BY <1>5, <1>a, <1>b, <1>c DEF SearchNext
  <1>6. CASE AllocateBucket(t)
    BY <1>6, <1>a, <1>b, <1>c DEF Unallocated, Bucket, AllocateBucket
  <1>7. CASE LinkBucket(t)
    BY <1>7, <1>a, <1>b, <1>c, <1>d DEF FreeBucket, LinkBucket
  <1>8. CASE InstallTentative(t)
    <2>1. CASE entries[atomic_entry[t]] = kInvalidEntry
      BY <1>8, <2>1, <1>a, <1>c DEF InstallTentative
    <2>2. CASE entries[atomic_entry[t]] # kInvalidEntry
      <3>1. Retry(t) /\ UNCHANGED <<op, tag, new_bucket>>
        BY <1>8, <2>2 DEF InstallTentative
      <3>2. QED
        BY <3>1, <1>a, <1>b, <1>c
    <2>3. QED
      BY <2>1, <2>2
  <1>9. CASE ConflictLoad(t)
    BY <1>9, <1>a, <1>b, <1>c DEF ConflictLoad
  <1>10. CASE ConflictNext(t)
    BY <1>10, <1>a, <1>b, <1>c DEF ConflictNext
  <1>11. CASE BackOff(t)
    BY <1>11, <1>a, <1>b, <1>c DEF BackOff
  <1>12. CASE Finalize(t)
    BY <1>12, <1>a, <1>b, <1>c DEF Finalize
  <1>13. CASE CreateRecord(t)
    <2>1. CASE CanSwap(t)
      BY <1>13, <2>1, <1>a, <1>b, <1>c DEF CreateRecord
    <2>2. CASE ~CanSwap(t)
      <3>1. Retry(t) /\ UNCHANGED <<op, tag, new_bucket>>
        BY <1>13, <2>2 DEF CreateRecord
      <3>2. QED
        BY <3>1, <1>a, <1>b, <1>c
    <2>3. QED
      BY <2>1, <2>2
  <1>14. CASE UpdateInPlace(t)
    BY <1>14, <1>a, <1>b, <1>c DEF UpdateInPlace
  <1>15. CASE DeleteCheck(t)
    BY <1>15, <1>a, <1>b, <1>c DEF DeleteCheck
  <1>16. CASE DeleteStore(t)
    BY <1>16, <1>a, <1>b, <1>c DEF DeleteStore
  <1>17. CASE CleanLoad(t)
    BY <1>17, <1>a, <1>b, <1>c DEF CleanLoad
  <1>18. CASE CleanSwap(t)
    BY <1>18, <1>a, <1>b, <1>c DEF CleanSwap
  <1>19. CASE CleanNext(t)
    BY <1>19, <1>a, <1>b, <1>c DEF CleanNext
  <1>20. ASSUME NEW o \in Ops, NEW g \in Tag, Start(t, o, g) PROVE LocalTypeOK'
    BY <1>20, <1>a, <1>b, <1>c DEF Start
  <1>q. QED
    BY <1>1, <1>2, <1>3, <1>4, <1>5, <1>6, <1>7, <1>8, <1>9, <1>10,
       <1>11, <1>12, <1>13, <1>14, <1>15, <1>16, <1>17, <1>18, <1>19, <1>20 DEF ThreadNext

-----------------------------------------------------------------------------
(***************************************************************************)
(* Most steps change neither the chain nor the log.                        *)
(***************************************************************************)
LEMMA QuietStep ==
  ASSUME NEW t \in Thread, ThreadNext(t)
  PROVE  \/ UNCHANGED <<index, log>>
         \/ AllocateBucket(t) \/ LinkBucket(t) \/ InstallTentative(t) \/ BackOff(t)
         \/ Finalize(t) \/ CreateRecord(t) \/ DeleteStore(t) \/ CleanSwap(t)
  <1>1. FindLoad(t) => UNCHANGED <<index, log>>
    BY DEF FindLoad
  <1>2. FindNext(t) => UNCHANGED <<index, log>>
    BY DEF FindNext
  <1>3. NotFound(t) => UNCHANGED <<index, log>>
    BY DEF NotFound
  <1>4. SearchLoad(t) => UNCHANGED <<index, log>>
    BY DEF SearchLoad
  <1>5. SearchNext(t) => UNCHANGED <<index, log>>
    BY DEF SearchNext
  <1>6. ConflictLoad(t) => UNCHANGED <<index, log>>
    BY DEF ConflictLoad
  <1>7. ConflictNext(t) => UNCHANGED <<index, log>>
    BY DEF ConflictNext
  <1>8. UpdateInPlace(t) => UNCHANGED <<index, log>>
    BY DEF UpdateInPlace
  <1>9. DeleteCheck(t) => UNCHANGED <<index, log>>
    BY DEF DeleteCheck
  <1>10. CleanLoad(t) => UNCHANGED <<index, log>>
    BY DEF CleanLoad
  <1>11. CleanNext(t) => UNCHANGED <<index, log>>
    BY DEF CleanNext
  <1>12. ASSUME NEW o \in Ops, NEW g \in Tag, Start(t, o, g) PROVE UNCHANGED <<index, log>>
    BY <1>12 DEF Start
  <1>13. QED
    BY <1>1, <1>2, <1>3, <1>4, <1>5, <1>6, <1>7, <1>8, <1>9, <1>10, <1>11, <1>12
    DEF ThreadNext

LEMMA AddressFacts ==
  ASSUME BaseInv
  PROVE  /\ tail \in Int /\ tail >= 2 /\ tail <= MaxAddress + 1
         /\ begin_address \in Int /\ begin_address >= 2 /\ begin_address <= MaxAddress + 1
         /\ tail <= MaxAddress => tail \in Address
         /\ \A a \in Address : a \in Int /\ a >= 2 /\ a <= MaxAddress
  <1>1. LogTypeOK /\ MaxAddress \in Int /\ MaxAddress >= 2
    BY PlanFacts
  <1>2. QED
    BY <1>1 DEF LogTypeOK, Address, kInvalidAddress

LEMMA IndexTypeStep ==
  ASSUME BaseInv, NEW t \in Thread, ThreadNext(t)
  PROVE  IndexTypeOK'
  <1> USE DEF IndexTypeOK, Store
  <1>a. IndexTypeOK /\ LocalTypeOK /\ Control(t)
    BY PlanFacts, StepFacts
  <1>b. CASE UNCHANGED <<index, log>>
    BY <1>a, <1>b DEF index
  <1>1. CASE AllocateBucket(t)
    BY <1>1, <1>a, PlanFacts DEF AllocateBucket, Unallocated, Bucket
  <1>2. CASE LinkBucket(t)
    BY <1>2, <1>a DEF LinkBucket, FreeBucket, LocalTypeOK
  <1>3. CASE InstallTentative(t)
    <2>1. Tentative(t) \in EntryValue /\ atomic_entry[t] \in Slot
      BY <1>3, StepFacts DEF InstallTentative
    <2>2. QED
      BY <1>3, <1>a, <2>1 DEF InstallTentative, Tentative
  <1>4. CASE BackOff(t)
    <2>1. kInvalidEntry \in EntryValue /\ atomic_entry[t] \in Slot
      BY <1>4, StepFacts DEF BackOff, Owning
    <2>2. QED
      BY <1>4, <1>a, <2>1 DEF BackOff
  <1>5. CASE Finalize(t)
    <2>1. /\ HashBucketEntry(kInvalidAddress, tag[t], FALSE) \in EntryValue
          /\ atomic_entry[t] \in Slot
      BY <1>5, StepFacts DEF Finalize, Owning
    <2>2. QED
      BY <1>5, <1>a, <2>1 DEF Finalize
  <1>6. CASE CreateRecord(t)
    <2>1. atomic_entry[t] \in Slot /\ tail \in Address
      BY <1>6, StepFacts, AddressFacts DEF CreateRecord
    <2>2. HashBucketEntry(tail, tag[t], FALSE) \in EntryValue
      BY <1>6, <2>1, StepFacts DEF CreateRecord
    <2>3. QED
      BY <1>6, <1>a, <2>1, <2>2 DEF CreateRecord
  <1>7. CASE DeleteStore(t)
    <2>1. kInvalidEntry \in EntryValue /\ atomic_entry[t] \in Slot
      BY <1>7, StepFacts DEF DeleteStore
    <2>2. QED
      BY <1>7, <1>a, <2>1 DEF DeleteStore
  <1>8. CASE CleanSwap(t)
    <2>1. kInvalidEntry \in EntryValue /\ Here(t) \in Slot
      BY <1>8, StepFacts DEF CleanSwap, Control
    <2>2. QED
      BY <1>8, <1>a, <2>1 DEF CleanSwap
  <1>9. QED
    BY <1>b, <1>1, <1>2, <1>3, <1>4, <1>5, <1>6, <1>7, <1>8, QuietStep

LEMMA LogTypeStep ==
  ASSUME BaseInv, NEW t \in Thread, ThreadNext(t)
  PROVE  LogTypeOK' /\ tail' >= tail /\ begin_address' = begin_address
  <1>a. LogTypeOK /\ LocalTypeOK /\ Control(t) /\ tail \in Int
    BY PlanFacts, StepFacts, AddressFacts
  <1>b. CASE UNCHANGED log
    BY <1>a, <1>b DEF log, LogTypeOK
  <1>1. CASE CreateRecord(t)
    <2>1. tail \in Address /\ tail + 1 \in Address \cup {MaxAddress + 1}
      BY <1>1, PlanFacts DEF CreateRecord, LogTypeOK, Address, kInvalidAddress
    <2>2. expected_entry[t].address \in 0 .. MaxAddress /\ tag[t] \in Tag
      BY <1>1, <1>a DEF CreateRecord, LocalTypeOK, EntryValue, Control
    <2>3. tail' = tail + 1 /\ begin_address' = begin_address
      BY <1>1 DEF CreateRecord
    <2>4. previous_address' \in [Address -> 0 .. MaxAddress]
      BY <1>1, <1>a, <2>1, <2>2 DEF CreateRecord, LogTypeOK
    <2>5. installed' \in SUBSET (Tag \X Address)
      <3>1. installed' = installed \/ installed' = installed \cup {<<tag[t], tail>>}
        BY <1>1 DEF CreateRecord
      <3>2. installed \in SUBSET (Tag \X Address)
        BY <1>a DEF LogTypeOK
      <3>3. QED
        BY <3>1, <3>2, <2>1, <2>2
    <2>6. QED
      BY <1>a, <2>1, <2>3, <2>4, <2>5 DEF LogTypeOK
  <1>2. ~CreateRecord(t) => UNCHANGED log
    BY QuietStep DEF AllocateBucket, LinkBucket, InstallTentative, BackOff, Finalize,
       DeleteStore, CleanSwap
  <1>3. QED
    BY <1>b, <1>1, <1>2

\* The chain only grows.
LEMMA ChainStep ==
  ASSUME BaseInv, UNCHANGED plan, NEW t \in Thread, ThreadNext(t)
  PROVE  /\ \A x \in Bucket : After(x) \subseteq After(x)'
         /\ Live \subseteq Live'
         /\ \/ UNCHANGED overflow_entry
            \/ /\ LinkBucket(t) /\ overflow_entry[bucket[t]] = 0
               /\ new_bucket[t] # 0 /\ new_bucket[t] \in Bucket /\ bucket[t] \in Bucket
               /\ overflow_entry' = [overflow_entry EXCEPT ![bucket[t]] = new_bucket[t]]
  <1>a. overflow_entry \in [Bucket -> Bucket] /\ bucket[t] \in Bucket /\ new_bucket[t] \in Bucket
    BY PlanFacts DEF IndexTypeOK, LocalTypeOK
  <1>1. \/ UNCHANGED overflow_entry
        \/ /\ LinkBucket(t) /\ overflow_entry[bucket[t]] = 0 /\ new_bucket[t] # 0
           /\ overflow_entry' = [overflow_entry EXCEPT ![bucket[t]] = new_bucket[t]]
    <2>1. CASE LinkBucket(t)
      BY <2>1, StepFacts DEF LinkBucket, Control
    <2>2. ~LinkBucket(t) => UNCHANGED overflow_entry
      BY QuietStep DEF AllocateBucket, InstallTentative, BackOff, Finalize, CreateRecord,
         DeleteStore, CleanSwap, index
    <2>3. QED
      BY <2>1, <2>2
  <1>2. ASSUME NEW x \in Bucket PROVE After(x) \subseteq After(x)'
    <2>1. CASE UNCHANGED overflow_entry
      BY <2>1 DEF After, FollowsChain
    <2>2. CASE ~UNCHANGED overflow_entry
      BY <2>2, <1>1, <1>a, AfterGrows
    <2>3. QED
      BY <2>1, <2>2
  <1>3. Live \subseteq Live'
    BY <1>2, PlanFacts DEF Live
  <1>4. QED
    BY <1>1, <1>2, <1>3, <1>a

LEMMA ControlStep ==
  ASSUME BaseInv, UNCHANGED plan, NEW t \in Thread, ThreadNext(t)
  PROVE  ControlInv'
  <1>a. ASSUME NEW u \in Thread, u # t PROVE Control(u)'
    <2>1. Control(u) /\ Kept(u)
      BY <1>a, OthersKept, PlanFacts DEF BaseInv, ControlInv
    <2>2. After(0) \subseteq After(0)' /\ Live \subseteq Live' /\ plan' = plan
      BY ChainStep, PlanFacts
    <2>3. QED
      BY <2>1, <2>2 DEF Control, Kept, Owning
  <1>b. Control(t)'
    <2> DEFINE x == overflow_entry[bucket[t]]
    <2>a. /\ Control(t) /\ LocalTypeOK /\ plan.entries \in 1 .. NumEntries
          /\ plan.entries \in Int /\ idx[t] \in Int /\ plan.overflow \in 0 .. MaxOverflow
          /\ plan' = plan /\ 0 \in Bucket /\ MaxOverflow \in Nat
      <3>1. LocalTypeOK /\ NumEntries \in Int
        BY PlanFacts
      <3>2. idx[t] \in Int
        BY <3>1 DEF LocalTypeOK
      <3>3. QED
        BY <3>1, <3>2, StepFacts, PlanFacts
    <2>b. /\ After(0) \subseteq After(0)' /\ Live \subseteq Live' /\ 0 \in After(0)
          /\ x # 0 => x \in After(0)
          /\ idx[t] < plan.entries => Here(t) \in Live
          /\ NoSlot \notin Live /\ NoSlot \notin Live'
      <3>1. After(0) \subseteq After(0)' /\ Live \subseteq Live' /\ 0 \in After(0)
        BY ChainStep, AfterSelf, PlanFacts
      <3>2. x # 0 => x \in After(0)
        BY <2>a, AfterStep, PlanFacts DEF Control, IndexTypeOK
      <3>3. idx[t] < plan.entries => Here(t) \in Live
        BY <2>a, StepFacts DEF Control, Live, Here
      <3>4. NoSlot \notin Live /\ NoSlot \notin Live'
        BY StepFacts DEF Live
      <3>5. QED
        BY <3>1, <3>2, <3>3, <3>4
    <2>c. pc[t] = "link" /\ x = 0 => <<new_bucket[t], 0>> \in Live' \/ ~LinkBucket(t)
      <3> SUFFICES ASSUME pc[t] = "link", x = 0, LinkBucket(t)
                   PROVE  <<new_bucket[t], 0>> \in Live'
        OBVIOUS
      <3>1. /\ overflow_entry \in [Bucket -> Bucket] /\ bucket[t] \in Bucket
            /\ new_bucket[t] \in Bucket /\ new_bucket[t] # 0
            /\ overflow_entry' = [overflow_entry EXCEPT ![bucket[t]] = new_bucket[t]]
        BY <2>a, PlanFacts DEF Control, LocalTypeOK, IndexTypeOK, LinkBucket
      <3>2. new_bucket[t] \in After(0)'
        BY <3>1, <2>a, AfterGrows DEF Control
      <3>3. <<new_bucket[t], 0>> \in Slot /\ 0 < plan'.entries
        BY <3>1, <2>a, SizeAssumption DEF Slot
      <3>4. QED
        BY <3>2, <3>3 DEF Live
    <2> HIDE DEF x
    <2> USE DEF LocalTypeOK, Control, Goto, Return, Retry, NextEntry, NextBucket, FirstBucket,
            scan, Owning
    <2>r. Retry(t) /\ UNCHANGED <<op, tag, new_bucket>> /\ pc[t] \in {"install", "use"} => Control(t)'
      BY <2>a, <2>b
    <2>s. Return(t) /\ pc[t] # "link" => Control(t)'
      BY <2>a, <2>b
    <2>1. CASE FindLoad(t)
      BY <2>1, <2>a, <2>b DEF FindLoad
    <2>2. CASE FindNext(t)
      BY <2>2, <2>a, <2>b DEF x, FindNext
    <2>3. CASE NotFound(t)
      BY <2>3, <2>a, <2>b DEF NotFound
    <2>4. CASE SearchLoad(t)
      <3>1. CASE Here(t) \in Final(tag[t])
        BY <2>4, <3>1, <2>a, <2>b DEF SearchLoad
      <3>2. CASE Here(t) \notin Final(tag[t])
        <4>1. atomic_entry'[t] \in {Here(t), atomic_entry[t]}
          BY <2>4, <3>2, <2>a DEF SearchLoad
        <4>2. QED
          BY <2>4, <3>2, <4>1, <2>a, <2>b DEF SearchLoad
      <3>3. QED
        BY <3>1, <3>2
    <2>5. CASE SearchNext(t)
      BY <2>5, <2>a, <2>b DEF x, SearchNext
    <2>6. CASE AllocateBucket(t)
      BY <2>6, <2>a, <2>b DEF Unallocated, AllocateBucket
    <2>7. CASE LinkBucket(t)
      <3>1. CASE x = 0
        BY <2>7, <3>1, <2>a, <2>b, <2>c DEF x, LinkBucket
      <3>2. CASE x # 0
        BY <2>7, <3>2, <2>a, <2>b DEF x, LinkBucket
      <3>3. QED
        BY <3>1, <3>2
    <2>8. CASE InstallTentative(t)
      <3>1. CASE entries[atomic_entry[t]] = kInvalidEntry
        BY <2>8, <3>1, <2>a, <2>b DEF InstallTentative
      <3>2. CASE entries[atomic_entry[t]] # kInvalidEntry
        BY <2>8, <3>2, <2>r DEF InstallTentative
      <3>3. QED
        BY <3>1, <3>2
    <2>9. CASE ConflictLoad(t)
      BY <2>9, <2>a, <2>b DEF ConflictLoad
    <2>10. CASE ConflictNext(t)
      BY <2>10, <2>a, <2>b DEF x, ConflictNext
    <2>11. CASE BackOff(t)
      BY <2>11, <2>a, <2>b DEF BackOff
    <2>12. CASE Finalize(t)
      BY <2>12, <2>a, <2>b DEF Finalize
    <2>13. CASE CreateRecord(t)
      <3>1. CASE CanSwap(t)
        BY <2>13, <3>1, <2>s DEF CreateRecord
      <3>2. CASE ~CanSwap(t)
        BY <2>13, <3>2, <2>r DEF CreateRecord
      <3>3. QED
        BY <3>1, <3>2
    <2>14. CASE UpdateInPlace(t)
      BY <2>14, <2>a, <2>b DEF UpdateInPlace
    <2>15. CASE DeleteCheck(t)
      BY <2>15, <2>a, <2>b DEF DeleteCheck
    <2>16. CASE DeleteStore(t)
      BY <2>16, <2>a, <2>b DEF DeleteStore
    <2>17. CASE CleanLoad(t)
      BY <2>17, <2>a, <2>b DEF CleanLoad
    <2>18. CASE CleanSwap(t)
      BY <2>18, <2>a, <2>b DEF CleanSwap
    <2>19. CASE CleanNext(t)
      BY <2>19, <2>a, <2>b DEF x, CleanNext
    <2>20. ASSUME NEW o \in Ops, NEW g \in Tag, Start(t, o, g) PROVE Control(t)'
      BY <2>20, <2>a, <2>b DEF Start
    <2>q. QED
      BY <2>1, <2>2, <2>3, <2>4, <2>5, <2>6, <2>7, <2>8, <2>9, <2>10,
         <2>11, <2>12, <2>13, <2>14, <2>15, <2>16, <2>17, <2>18, <2>19, <2>20 DEF ThreadNext
  <1>c. QED
    BY <1>a, <1>b DEF ControlInv

-----------------------------------------------------------------------------
(***************************************************************************)
(* How a thread arrives at a label, and what a step does to an entry.      *)
(***************************************************************************)
Arrives(t) ==
  /\ pc'[t] = "use" => (SearchLoad(t) /\ Here(t) \in Final(tag[t])) \/ Finalize(t)
  /\ pc'[t] = "clean_swap" => CleanLoad(t) /\ Truncated(entries[Here(t)])
  /\ pc'[t] = "conflict" =>
       \/ InstallTentative(t) /\ entries[atomic_entry[t]] = kInvalidEntry
       \/ ConflictLoad(t) /\ ~Conflicts(t, Here(t))
       \/ ConflictNext(t) /\ overflow_entry[bucket[t]] # 0
  /\ pc'[t] = "back_off" => ConflictLoad(t)
  /\ pc'[t] = "finalize" => ConflictNext(t)
  /\ pc'[t] = "find" =>
       \/ \E o \in Ops, g \in Tag : Start(t, o, g)
       \/ FindLoad(t) /\ Here(t) \notin Final(tag[t])
       \/ FindNext(t) /\ overflow_entry[bucket[t]] # 0
  /\ pc'[t] = "not_found" => FindNext(t) /\ overflow_entry[bucket[t]] = 0

LEMMA ArrivesStep ==
  ASSUME LocalTypeOK, NEW t \in Thread, ThreadNext(t)
  PROVE  Arrives(t)
  <1> USE DEF LocalTypeOK, Goto, Return, Retry, Arrives
  <1>1. CASE FindLoad(t)
    BY <1>1 DEF FindLoad
  <1>2. CASE FindNext(t)
    BY <1>2 DEF FindNext
  <1>3. CASE NotFound(t)
    BY <1>3 DEF NotFound
  <1>4. CASE SearchLoad(t)
    BY <1>4 DEF SearchLoad
  <1>5. CASE SearchNext(t)
    BY <1>5 DEF SearchNext
  <1>6. CASE AllocateBucket(t)
    BY <1>6 DEF AllocateBucket
  <1>7. CASE LinkBucket(t)
    BY <1>7 DEF LinkBucket
  <1>8. CASE InstallTentative(t)
    BY <1>8 DEF InstallTentative
  <1>9. CASE ConflictLoad(t)
    BY <1>9 DEF ConflictLoad
  <1>10. CASE ConflictNext(t)
    BY <1>10 DEF ConflictNext
  <1>11. CASE BackOff(t)
    BY <1>11 DEF BackOff
  <1>12. CASE Finalize(t)
    BY <1>12 DEF Finalize
  <1>13. CASE CreateRecord(t)
    BY <1>13 DEF CreateRecord
  <1>14. CASE UpdateInPlace(t)
    BY <1>14 DEF UpdateInPlace
  <1>15. CASE DeleteCheck(t)
    BY <1>15 DEF DeleteCheck
  <1>16. CASE DeleteStore(t)
    BY <1>16 DEF DeleteStore
  <1>17. CASE CleanLoad(t)
    BY <1>17 DEF CleanLoad
  <1>18. CASE CleanSwap(t)
    BY <1>18 DEF CleanSwap
  <1>19. CASE CleanNext(t)
    BY <1>19 DEF CleanNext
  <1>20. ASSUME NEW o \in Ops, NEW g \in Tag, Start(t, o, g) PROVE Arrives(t)
    BY <1>20 DEF Ops, Start
  <1>q. QED
    BY <1>1, <1>2, <1>3, <1>4, <1>5, <1>6, <1>7, <1>8, <1>9, <1>10,
       <1>11, <1>12, <1>13, <1>14, <1>15, <1>16, <1>17, <1>18, <1>19, <1>20 DEF ThreadNext

LEMMA EntryStep ==
  ASSUME NEW t \in Thread, ThreadNext(t)
  PROVE  \/ UNCHANGED entries
         \/ InstallTentative(t) /\ entries[atomic_entry[t]] = kInvalidEntry
         \/ BackOff(t) \/ Finalize(t) \/ DeleteStore(t)
         \/ CreateRecord(t) /\ CanSwap(t)
         \/ CleanSwap(t) /\ entries[Here(t)] = expected_entry[t]
  BY QuietStep DEF index, AllocateBucket, LinkBucket, InstallTentative, CreateRecord, CleanSwap

\* An entry that is in use, at its place in the chain.
Sound(s) ==
  \/ entries[s] = kInvalidEntry
  \/ s \in Live /\ entries[s].tag \in Tag /\ entries[s].address < tail

LEMMA SoundStep ==
  ASSUME BaseInv, UNCHANGED plan, NEW t \in Thread, ThreadNext(t), NEW s \in Slot
  PROVE  Sound(s)'
  <1>a. Sound(s) /\ Live \subseteq Live' /\ tail' >= tail /\ tail \in Int /\ tail' \in Int /\ tail >= 2
    <2>1. LogTypeOK' /\ MaxAddress \in Int
      BY LogTypeStep, PlanFacts
    <2>2. tail' \in Int
      BY <2>1 DEF LogTypeOK, Address, kInvalidAddress
    <2>3. Sound(s)
      BY DEF BaseInv, EntryInv, Sound
    <2>4. QED
      BY <2>2, <2>3, ChainStep, LogTypeStep, AddressFacts
  <1>b. entries \in [Slot -> EntryValue] /\ entries[s].address \in Int
    <2>1. entries \in [Slot -> EntryValue] /\ MaxAddress \in Int
      BY PlanFacts DEF IndexTypeOK
    <2>2. QED
      BY <2>1 DEF EntryValue
  <1>1. CASE entries'[s] = entries[s]
    BY <1>1, <1>a, <1>b DEF Sound
  <1>2. ASSUME NEW e, entries' = [entries EXCEPT ![atomic_entry[t]] = e], entries'[s] # entries[s],
               atomic_entry[t] \in Live, e.tag \in Tag, e.address < tail'
        PROVE  Sound(s)'
    <2>1. s = atomic_entry[t]
      BY <1>2, <1>b
    <2>2. entries'[s] = e
      BY <2>1, <1>2, <1>b
    <2>3. QED
      BY <2>1, <2>2, <1>2, <1>a DEF Sound
  <1>3. CASE UNCHANGED entries
    BY <1>3, <1>1
  <1>4. CASE entries'[s] = kInvalidEntry
    BY <1>4 DEF Sound, kInvalidEntry, HashBucketEntry
  <1>5. CASE InstallTentative(t) /\ entries[atomic_entry[t]] = kInvalidEntry
    <2>1. /\ entries' = [entries EXCEPT ![atomic_entry[t]] = Tentative(t)]
          /\ atomic_entry[t] \in Live /\ tag[t] \in Tag
      BY <1>5, StepFacts DEF InstallTentative, Store, Tentative, Control
    <2>2. Tentative(t).tag \in Tag /\ Tentative(t).address < tail'
      BY <2>1, <1>a DEF Tentative, HashBucketEntry, kInvalidAddress
    <2>3. QED
      BY <2>1, <2>2, <1>1, <1>2
  <1>6. CASE BackOff(t)
    BY <1>6, <1>b, <1>1, <1>4 DEF BackOff, Store
  <1>7. CASE Finalize(t)
    <2>1. /\ entries' = [entries EXCEPT ![atomic_entry[t]] = HashBucketEntry(kInvalidAddress, tag[t], FALSE)]
          /\ atomic_entry[t] \in Live /\ tag[t] \in Tag
      BY <1>7, StepFacts DEF Finalize, Store, Control, Owning
    <2>2. HashBucketEntry(kInvalidAddress, tag[t], FALSE).tag \in Tag /\ HashBucketEntry(kInvalidAddress, tag[t], FALSE).address < tail'
      BY <2>1, <1>a DEF HashBucketEntry, kInvalidAddress
    <2>3. QED
      BY <2>1, <2>2, <1>1, <1>2
  <1>8. CASE DeleteStore(t)
    BY <1>8, <1>b, <1>1, <1>4 DEF DeleteStore, Store
  <1>9. CASE CreateRecord(t) /\ CanSwap(t)
    <2>1. /\ entries' = [entries EXCEPT ![atomic_entry[t]] = HashBucketEntry(tail, tag[t], FALSE)]
          /\ atomic_entry[t] \in Live /\ tag[t] \in Tag /\ tail' = tail + 1
      BY <1>9, StepFacts DEF CreateRecord, Store, Control
    <2>2. HashBucketEntry(tail, tag[t], FALSE).tag \in Tag /\ HashBucketEntry(tail, tag[t], FALSE).address < tail'
      BY <2>1, <1>a DEF HashBucketEntry
    <2>3. QED
      BY <2>1, <2>2, <1>1, <1>2
  <1>10. CASE CleanSwap(t)
    BY <1>10, <1>b, <1>1, <1>4 DEF CleanSwap, Store
  <1>11. QED
    BY <1>3, <1>5, <1>6, <1>7, <1>8, <1>9, <1>10, EntryStep

LEMMA EntryInvStep ==
  ASSUME BaseInv, UNCHANGED plan, NEW t \in Thread, ThreadNext(t)
  PROVE  EntryInv'
  <1>a. /\ LocalTypeOK /\ tail' >= tail /\ tail \in Int /\ tail' \in Int /\ tail >= 2
        /\ begin_address' = begin_address
    <2>1. LogTypeOK' /\ MaxAddress \in Int
      BY LogTypeStep, PlanFacts
    <2>2. tail' \in Int
      BY <2>1 DEF LogTypeOK, Address, kInvalidAddress
    <2>3. QED
      BY <2>2, LogTypeStep, AddressFacts, PlanFacts
  <1>1. \A s \in Slot : Sound(s)'
    BY SoundStep
  <1>2. ASSUME NEW u \in Thread, pc'[u] = "use"
        PROVE  /\ expected_entry'[u].tag = tag'[u]
               /\ ~expected_entry'[u].tentative
               /\ expected_entry'[u].address < tail'
    <2>1. CASE u # t
      <3>1. Kept(u)
        BY <2>1, <1>a, OthersKept
      <3>2. expected_entry[u].address \in Int
        BY <1>a, PlanFacts DEF LocalTypeOK, EntryValue
      <3>3. /\ pc[u] = "use" /\ expected_entry'[u] = expected_entry[u] /\ tag'[u] = tag[u]
        BY <3>1, <1>2 DEF Kept
      <3>4. /\ expected_entry[u].tag = tag[u] /\ ~expected_entry[u].tentative
            /\ expected_entry[u].address < tail
        BY <3>3 DEF BaseInv, EntryInv
      <3>5. QED
        BY <3>2, <3>3, <3>4, <1>a
    <2>2. CASE u = t /\ SearchLoad(t) /\ Here(t) \in Final(tag[t])
      <3>1. /\ expected_entry'[t] = entries[Here(t)] /\ tag'[t] = tag[t]
            /\ tag[t] \in Tag /\ Here(t) \in Slot
        BY <2>2, <1>a, StepFacts DEF SearchLoad, LocalTypeOK, Control, Final
      <3>2. entries[Here(t)].tag = tag[t] /\ ~entries[Here(t)].tentative
        BY <2>2 DEF Final
      <3>3. entries[Here(t)].address < tail /\ entries[Here(t)].address \in Int
        <4>1. entries[Here(t)] # kInvalidEntry
          BY <3>1, <3>2, TagAssumption DEF kInvalidEntry, HashBucketEntry
        <4>2. entries[Here(t)] \in EntryValue /\ MaxAddress \in Int
          BY <3>1, PlanFacts DEF IndexTypeOK
        <4>3. QED
          BY <4>1, <4>2, <3>1 DEF BaseInv, EntryInv, EntryValue
      <3>4. QED
        BY <2>2, <3>1, <3>2, <3>3, <1>a
    <2>3. CASE u = t /\ Finalize(t)
      <3>1. expected_entry'[t] = HashBucketEntry(kInvalidAddress, tag[t], FALSE) /\ tag'[t] = tag[t]
        BY <2>3, <1>a DEF Finalize, LocalTypeOK
      <3>2. QED
        BY <2>3, <3>1, <1>a DEF HashBucketEntry, kInvalidAddress
    <2>4. QED
      BY <2>1, <2>2, <2>3, <1>2, <1>a, ArrivesStep DEF Arrives
  <1>3. ASSUME NEW u \in Thread, pc'[u] = "clean_swap"
        PROVE  Truncated(expected_entry[u])'
    <2>1. CASE u # t
      <3>1. Kept(u)
        BY <2>1, <1>a, OthersKept
      <3>2. QED
        BY <3>1, <1>3, <1>a DEF Kept, BaseInv, EntryInv, Truncated
    <2>2. CASE u = t
      <3>1. CleanLoad(t) /\ Truncated(entries[Here(t)])
        BY <2>2, <1>3, <1>a, ArrivesStep DEF Arrives
      <3>2. expected_entry'[t] = entries[Here(t)]
        BY <3>1, <1>a DEF CleanLoad, LocalTypeOK
      <3>3. QED
        BY <2>2, <3>1, <3>2, <1>a DEF Truncated
    <2>3. QED
      BY <2>1, <2>2
  <1>4. QED
    BY <1>1, <1>2, <1>3 DEF EntryInv, Sound

LEMMA TruncateStep ==
  ASSUME BaseInv, UNCHANGED plan, Truncate
  PROVE  /\ BaseInv' /\ UNCHANGED <<index, tail, previous_address, installed>>
         /\ \A u \in Thread : Kept(u)
  <1>1. /\ UNCHANGED <<index, tail, previous_address, installed, pc, op, tag, bucket, idx,
                       atomic_entry, expected_entry, new_bucket>>
        /\ begin_address < tail /\ begin_address' = begin_address + 1 /\ Observe
    BY DEF Truncate, scan
  <1>2. IndexTypeOK' /\ LocalTypeOK'
    <2>1. IndexTypeOK /\ LocalTypeOK
      BY PlanFacts
    <2>2. QED
      BY <2>1, <1>1 DEF IndexTypeOK, LocalTypeOK, index, Observe
  <1>3. LogTypeOK' /\ begin_address' > begin_address /\ begin_address \in Int
    <2>1. LogTypeOK /\ begin_address' \in Address \cup {MaxAddress + 1} /\ begin_address \in Int
      BY <1>1, PlanFacts, AddressFacts DEF Address, kInvalidAddress
    <2>2. QED
      BY <2>1, <1>1 DEF LogTypeOK
  <1>4. ControlInv'
    BY <1>1 DEF BaseInv, ControlInv, Control, Live, After, FollowsChain, index
  <1>5. EntryInv'
    <2>1. ASSUME NEW u \in Thread, pc[u] = "clean_swap"
          PROVE  Truncated(expected_entry[u])'
      <3>1. Truncated(expected_entry[u]) /\ expected_entry[u].address \in Int
        BY <2>1, PlanFacts DEF BaseInv, EntryInv, LocalTypeOK, EntryValue
      <3>2. begin_address \in Int /\ begin_address' = begin_address + 1
        BY <1>1, <1>3
      <3>3. QED
        BY <3>1, <3>2, <1>1 DEF Truncated
    <2>2. QED
      BY <1>1, <2>1 DEF BaseInv, EntryInv, Live, After, FollowsChain, index
  <1>6. QED
    BY <1>1, <1>2, <1>3, <1>4, <1>5 DEF BaseInv, TypeOK, Kept

LEMMA InitBase ==
  ASSUME Init
  PROVE  BaseInv
  <1>1. /\ plan \in Plan /\ SizeAssumption!1 /\ 0 \in Bucket
    BY PlanAssumption, SizeAssumption DEF Init, Bucket
  <1>2. IndexTypeOK /\ LogTypeOK /\ LocalTypeOK
    <2>1. kInvalidEntry \in EntryValue
      BY SizeAssumption DEF kInvalidEntry, HashBucketEntry, EntryValue
    <2>2. IndexTypeOK
      BY <1>1, <2>1 DEF Init, IndexTypeOK
    <2>3. LogTypeOK
      BY SizeAssumption DEF Init, LogTypeOK, Address, kInvalidAddress
    <2>4. LocalTypeOK
      BY <1>1, <2>1, SizeAssumption DEF Init, LocalTypeOK, Labels
    <2>5. QED
      BY <2>2, <2>3, <2>4
  <1>3. ControlInv
    BY <1>1, AfterSelf DEF Init, ControlInv, Control, Plan, Owning
  <1>4. EntryInv
    BY DEF Init, EntryInv
  <1>5. QED
    BY <1>2, <1>3, <1>4 DEF Init, BaseInv, TypeOK

LEMMA NextBase ==
  ASSUME BaseInv, [Next]_vars
  PROVE  BaseInv'
  <1>1. CASE UNCHANGED vars
    BY <1>1 DEF vars, index, log, scan, BaseInv, TypeOK, IndexTypeOK, LogTypeOK, LocalTypeOK,
       ControlInv, Control, EntryInv, Truncated, Live, After, FollowsChain
  <1>2. CASE Truncate /\ UNCHANGED plan
    BY <1>2, TruncateStep
  <1>3. ASSUME NEW t \in Thread, ThreadNext(t), UNCHANGED plan
        PROVE  BaseInv'
    BY <1>3, IndexTypeStep, LogTypeStep, LocalTypeStep, ControlStep, EntryInvStep
    DEF BaseInv, TypeOK
  <1>4. QED
    BY <1>1, <1>2, <1>3 DEF Next

\* For every number of threads, buckets, entries and records: the scans stay
\* inside the chain, the slots that searches return are slots that scans reach,
\* and an index entry never holds an address the log has not handed out.
THEOREM ChainInductive == Spec => []BaseInv
  <1>1. QED
    BY InitBase, NextBase, PTL DEF Spec

\* The types hold in every behaviour.
THEOREM HashIndexTypeCorrect == Spec => []TypeOK
  <1>1. BaseInv => TypeOK
    BY DEF BaseInv
  <1>2. QED
    BY <1>1, ChainInductive, PTL

-----------------------------------------------------------------------------
(***************************************************************************)
(* Plans without InternalDelete: who may change which entry.               *)
(***************************************************************************)

\* Nobody but its owner changes a tentative entry.
LEMMA OwnedKept ==
  ASSUME BaseInv, OwnerInv, NoDelete, NEW t \in Thread, ThreadNext(t),
         NEW u \in Thread, pc[u] \in Owning, u # t
  PROVE  entries'[atomic_entry[u]] = entries[atomic_entry[u]]
  <1>a. /\ entries \in [Slot -> EntryValue] /\ atomic_entry[u] \in Slot
        /\ entries[atomic_entry[u]] = Tentative(u)
        /\ pc[t] \in Owning => atomic_entry[u] # atomic_entry[t]
    BY PlanFacts, StepFacts DEF IndexTypeOK, OwnerInv
  <1>b. /\ Tentative(u) # kInvalidEntry /\ Tentative(u).tentative
        /\ Tentative(u).address = kInvalidAddress
    BY DEF Tentative, HashBucketEntry, kInvalidEntry, kInvalidAddress
  <1>1. CASE UNCHANGED entries
    BY <1>1
  <1>2. CASE InstallTentative(t) /\ entries[atomic_entry[t]] = kInvalidEntry
    BY <1>2, <1>a, <1>b DEF InstallTentative, Store
  <1>3. CASE BackOff(t)
    BY <1>3, <1>a DEF BackOff, Store, Owning
  <1>4. CASE Finalize(t)
    BY <1>4, <1>a DEF Finalize, Store, Owning
  <1>5. CASE DeleteStore(t)
    BY <1>5, StepFacts DEF DeleteStore, Control, NoDelete
  <1>6. CASE CreateRecord(t) /\ CanSwap(t)
    <2>1. ~entries[atomic_entry[t]].tentative
      BY <1>6 DEF CreateRecord, CanSwap, BaseInv, EntryInv
    <2>2. QED
      BY <1>6, <2>1, <1>a, <1>b DEF CreateRecord, Store
  <1>7. CASE CleanSwap(t) /\ entries[Here(t)] = expected_entry[t]
    <2>1. entries[Here(t)].address # kInvalidAddress
      BY <1>7 DEF CleanSwap, BaseInv, EntryInv, Truncated
    <2>2. QED
      BY <1>7, <2>1, <1>a, <1>b DEF CleanSwap, Store
  <1>8. QED
    BY <1>1, <1>2, <1>3, <1>4, <1>5, <1>6, <1>7, EntryStep

\* A thread comes to own an entry by installing it.
LEMMA OwnerSelf ==
  ASSUME LocalTypeOK, NEW t \in Thread, ThreadNext(t), pc'[t] \in Owning
  PROVE  \/ /\ InstallTentative(t) /\ entries[atomic_entry[t]] = kInvalidEntry
            /\ UNCHANGED <<atomic_entry, tag>> /\ pc'[t] = "conflict"
            /\ bucket'[t] = 0 /\ idx'[t] = 0
         \/ /\ ConflictLoad(t) \/ ConflictNext(t)
            /\ pc[t] = "conflict"
            /\ UNCHANGED <<entries, overflow_entry, atomic_entry, tag>>
  <1>1. \/ InstallTentative(t) /\ entries[atomic_entry[t]] = kInvalidEntry
        \/ ConflictLoad(t) \/ ConflictNext(t)
    BY ArrivesStep DEF Arrives, Owning
  <1>2. QED
    BY <1>1 DEF InstallTentative, ConflictLoad, ConflictNext, index, FirstBucket, NextBucket,
       Goto, LocalTypeOK

LEMMA OwnerStep ==
  ASSUME BaseInv, OwnerInv, NoDelete, NEW t \in Thread, ThreadNext(t)
  PROVE  OwnerInv'
  <1> DEFINE Own(u) == entries[atomic_entry[u]] = Tentative(u)
  <1>a. LocalTypeOK /\ entries \in [Slot -> EntryValue]
    BY PlanFacts DEF IndexTypeOK
  <1>b. ASSUME NEW u \in Thread, u # t
        PROVE  /\ pc'[u] = pc[u] /\ tag'[u] = tag[u] /\ atomic_entry'[u] = atomic_entry[u]
               /\ pc[u] \in Owning => entries'[atomic_entry[u]] = Tentative(u)
    BY <1>b, <1>a, OthersKept, OwnedKept DEF Kept, OwnerInv
  <1>c. ASSUME pc'[t] \in Owning
        PROVE  /\ entries'[atomic_entry[t]] = Tentative(t)
               /\ tag'[t] = tag[t] /\ atomic_entry'[t] = atomic_entry[t]
               /\ \A u \in Thread : u # t /\ pc[u] \in Owning => atomic_entry[u] # atomic_entry[t]
    <2>1. CASE InstallTentative(t) /\ entries[atomic_entry[t]] = kInvalidEntry
      <3>1. atomic_entry[t] \in Slot /\ UNCHANGED <<atomic_entry, tag>>
        BY <2>1, StepFacts, OwnerSelf, <1>c, <1>a DEF InstallTentative, Goto
      <3>2. entries'[atomic_entry[t]] = Tentative(t)
        BY <2>1, <3>1, <1>a DEF InstallTentative, Store, Tentative
      <3>3. \A u \in Thread : Tentative(u) # kInvalidEntry
        BY DEF Tentative, HashBucketEntry, kInvalidEntry, kInvalidAddress
      <3>4. QED
        BY <2>1, <3>1, <3>2, <3>3 DEF OwnerInv
    <2>2. CASE pc[t] = "conflict" /\ UNCHANGED <<entries, overflow_entry, atomic_entry, tag>>
      BY <2>2 DEF OwnerInv, Owning
    <2>3. QED
      BY <2>1, <2>2, <1>c, <1>a, OwnerSelf
  <1>1. ASSUME NEW u \in Thread, pc'[u] \in Owning
        PROVE  entries'[atomic_entry'[u]] = Tentative(u)'
    BY <1>1, <1>b, <1>c DEF Tentative
  <1>2. ASSUME NEW u \in Thread, pc'[u] \in Owning, NEW v \in Thread, v # u, pc'[v] \in Owning
        PROVE  atomic_entry'[v] # atomic_entry'[u]
    <2>1. CASE u = t
      BY <1>2, <2>1, <1>b, <1>c
    <2>2. CASE v = t
      BY <1>2, <2>2, <1>b, <1>c
    <2>3. CASE u # t /\ v # t
      BY <1>2, <2>3, <1>b DEF OwnerInv
    <2>4. QED
      BY <2>1, <2>2, <2>3
  <1>3. QED
    BY <1>1, <1>2 DEF OwnerInv

-----------------------------------------------------------------------------
(***************************************************************************)
(* Scans.                                                                  *)
(***************************************************************************)
LEMMA AheadKept ==
  ASSUME BaseInv, UNCHANGED plan, NEW t \in Thread, ThreadNext(t), NEW u \in Thread,
         bucket'[u] = bucket[u], idx'[u] = idx[u], NEW s \in Slot, Ahead(u, s)
  PROVE  Ahead(u, s)'
  <1>1. bucket[u] \in Bucket /\ After(bucket[u]) \subseteq After(bucket[u])'
    BY ChainStep, PlanFacts DEF LocalTypeOK
  <1>2. QED
    BY <1>1 DEF Ahead

LEMMA AheadEntry ==
  ASSUME BaseInv, NEW t \in Thread, NEW s \in Slot, Ahead(t, s), s # Here(t),
         NextEntry(t), UNCHANGED overflow_entry
  PROVE  Ahead(t, s)'
  <1>1. idx[t] \in Int /\ bucket'[t] = bucket[t] /\ idx'[t] = idx[t] + 1
    BY PlanFacts DEF NextEntry, LocalTypeOK
  <1>2. s = <<s[1], s[2]>> /\ s[2] \in Int
    BY DEF Slot
  <1>3. s[1] = bucket[t] => s[2] # idx[t]
    BY <1>2 DEF Here
  <1>4. CASE s[1] = bucket[t]
    BY <1>1, <1>2, <1>3, <1>4 DEF Ahead
  <1>5. CASE s[1] # bucket[t]
    BY <1>1, <1>5 DEF Ahead, After, FollowsChain
  <1>6. QED
    BY <1>4, <1>5

LEMMA AheadBucket ==
  ASSUME BaseInv, NEW t \in Thread, NEW s \in Live, Ahead(t, s), idx[t] = plan.entries
  PROVE  /\ overflow_entry[bucket[t]] # 0
         /\ NextBucket(t, overflow_entry[bucket[t]]) /\ UNCHANGED overflow_entry => Ahead(t, s)'
  <1>1. /\ s \in Slot /\ s[2] \in Int /\ s[2] >= 0 /\ s[2] < plan.entries
        /\ plan.entries \in Int /\ overflow_entry \in [Bucket -> Bucket] /\ bucket[t] \in Bucket
        /\ LocalTypeOK
    BY PlanFacts DEF Live, Slot, IndexTypeOK, LocalTypeOK
  <1>2. s[1] # bucket[t] /\ s[1] \in After(bucket[t])
    BY <1>1 DEF Ahead
  <1>3. overflow_entry[bucket[t]] # 0 /\ s[1] \in After(overflow_entry[bucket[t]])
    BY <1>1, <1>2, AfterNext
  <1>4. ASSUME NextBucket(t, overflow_entry[bucket[t]]), UNCHANGED overflow_entry
        PROVE  Ahead(t, s)'
    <2>1. bucket'[t] = overflow_entry[bucket[t]] /\ idx'[t] = 0
      BY <1>4, <1>1 DEF NextBucket, LocalTypeOK
    <2>2. s[1] \in After(bucket[t])'
      BY <1>3, <2>1, <1>4 DEF After, FollowsChain
    <2>3. QED
      BY <2>1, <2>2, <1>1 DEF Ahead
  <1>5. QED
    BY <1>3, <1>4

LEMMA AheadAll ==
  ASSUME NEW t \in Thread, NEW s \in Live, bucket[t] = 0, idx[t] = 0
  PROVE  Ahead(t, s)
  BY DEF Live, Slot, Ahead

LEMMA AheadAllNext ==
  ASSUME NEW t \in Thread, NEW s \in Live', bucket'[t] = 0, idx'[t] = 0
  PROVE  Ahead(t, s)'
  BY DEF Live, Slot, Ahead

LEMMA TaggedIsLive ==
  ASSUME BaseInv, NEW s \in Slot, entries[s].tag \in Tag
  PROVE  s \in Live /\ entries[s] # kInvalidEntry
  BY TagAssumption DEF BaseInv, EntryInv, kInvalidEntry, HashBucketEntry

LEMMA TaggedIsLiveNext ==
  ASSUME BaseInv', NEW s \in Slot, entries'[s].tag \in Tag
  PROVE  s \in Live'
  <1>1. (BaseInv => \A x \in Slot : entries[x].tag \in Tag => x \in Live)'
    BY TagAssumption DEF BaseInv, EntryInv, kInvalidEntry, HashBucketEntry
  <1>2. QED
    BY <1>1

-----------------------------------------------------------------------------
(***************************************************************************)
(* Two entries with one tag.                                               *)
(***************************************************************************)
TagKept(s) == entries'[s].tag \in Tag => entries'[s].tag = entries[s].tag

LEMMA TagStep ==
  ASSUME BaseInv, OwnerInv, NoDelete, NEW t \in Thread, ThreadNext(t), NEW s \in Slot
  PROVE  \/ TagKept(s)
         \/ /\ InstallTentative(t) /\ entries[atomic_entry[t]] = kInvalidEntry
            /\ s = atomic_entry[t]
  <1>a. entries \in [Slot -> EntryValue] /\ NoTag \notin Tag
    BY PlanFacts, TagAssumption DEF IndexTypeOK
  <1>b. kInvalidEntry.tag = NoTag
    BY DEF kInvalidEntry, HashBucketEntry
  <1>1. CASE entries'[s] = entries[s]
    BY <1>1 DEF TagKept
  <1>2. CASE entries'[s] = kInvalidEntry
    BY <1>2, <1>a, <1>b DEF TagKept
  <1>3. CASE InstallTentative(t) /\ entries[atomic_entry[t]] = kInvalidEntry
    BY <1>3, <1>1, <1>a DEF InstallTentative, Store
  <1>4. CASE BackOff(t)
    BY <1>4, <1>1, <1>2, <1>a DEF BackOff, Store
  <1>5. CASE Finalize(t)
    <2>1. pc[t] = "finalize" /\ entries[atomic_entry[t]] = Tentative(t)
      BY <1>5 DEF Finalize, OwnerInv, Owning
    <2>2. entries[atomic_entry[t]].tag = tag[t]
      BY <2>1 DEF Tentative, HashBucketEntry
    <2>3. CASE s = atomic_entry[t]
      <3>1. entries'[s].tag = tag[t]
        BY <1>5, <2>3, <1>a DEF Finalize, Store, HashBucketEntry
      <3>2. QED
        BY <2>2, <2>3, <3>1 DEF TagKept
    <2>4. CASE s # atomic_entry[t]
      BY <1>5, <2>4, <1>1, <1>a DEF Finalize, Store
    <2>5. QED
      BY <2>3, <2>4
  <1>6. CASE DeleteStore(t)
    BY <1>6, <1>1, <1>2, <1>a DEF DeleteStore, Store
  <1>7. CASE CreateRecord(t) /\ CanSwap(t)
    <2>1. entries[atomic_entry[t]].tag = tag[t]
      BY <1>7 DEF CreateRecord, CanSwap, BaseInv, EntryInv
    <2>2. CASE s = atomic_entry[t]
      <3>1. entries'[s].tag = tag[t]
        BY <1>7, <2>2, <1>a DEF CreateRecord, Store, HashBucketEntry
      <3>2. QED
        BY <2>1, <2>2, <3>1 DEF TagKept
    <2>3. CASE s # atomic_entry[t]
      BY <1>7, <2>3, <1>1, <1>a DEF CreateRecord, Store
    <2>4. QED
      BY <2>2, <2>3
  <1>8. CASE CleanSwap(t)
    BY <1>8, <1>1, <1>2, <1>a DEF CleanSwap, Store
  <1>9. QED
    BY <1>1, <1>3, <1>4, <1>5, <1>6, <1>7, <1>8, EntryStep

LEMMA CoversKept ==
  ASSUME BaseInv, UNCHANGED plan, NEW t \in Thread, ThreadNext(t), NEW u \in Thread, u # t,
         NEW s1 \in Slot, NEW s2 \in Slot, Covers(u, s1, s2)
  PROVE  Covers(u, s1, s2)'
  <1>1. Kept(u)
    BY OthersKept, PlanFacts
  <1>2. Ahead(u, s2) => Ahead(u, s2)'
    BY <1>1, AheadKept DEF Kept
  <1>3. QED
    BY <1>1, <1>2 DEF Covers, Kept

LEMMA CoversSelf ==
  ASSUME BaseInv, OwnerInv, NEW t \in Thread, ThreadNext(t),
         NEW s1 \in Slot, NEW s2 \in Slot, s1 # s2, Covers(t, s1, s2),
         entries[s1].tag = entries[s2].tag, entries[s2].tag \in Tag
  PROVE  Covers(t, s1, s2)' \/ entries'[s1] = kInvalidEntry
  <1>a. /\ LocalTypeOK /\ atomic_entry[t] = s1 /\ entries[s1].tag = tag[t] /\ s2 \in Live
        /\ entries \in [Slot -> EntryValue]
    <2>1. pc[t] \in Owning /\ atomic_entry[t] = s1
      BY DEF Covers, Owning
    <2>2. entries[s1] = Tentative(t)
      BY <2>1 DEF OwnerInv
    <2>3. entries[s1].tag = tag[t]
      BY <2>2 DEF Tentative, HashBucketEntry
    <2>4. QED
      BY <2>1, <2>3, PlanFacts, TaggedIsLive DEF IndexTypeOK
  <1>1. CASE pc[t] = "back_off"
    <2>1. BackOff(t)
      BY <1>1 DEF ThreadNext, Start, FindLoad, FindNext, NotFound, SearchLoad, SearchNext,
         AllocateBucket, LinkBucket, InstallTentative, ConflictLoad, ConflictNext, Finalize,
         CreateRecord, UpdateInPlace, DeleteCheck, DeleteStore, CleanLoad, CleanSwap, CleanNext
    <2>2. QED
      BY <2>1, <1>a DEF BackOff, Store
  <1>2. CASE pc[t] = "conflict" /\ Ahead(t, s2)
    <2>1. ConflictLoad(t) \/ ConflictNext(t)
      BY <1>2 DEF ThreadNext, Start, FindLoad, FindNext, NotFound, SearchLoad, SearchNext,
         AllocateBucket, LinkBucket, InstallTentative, BackOff, Finalize,
         CreateRecord, UpdateInPlace, DeleteCheck, DeleteStore, CleanLoad, CleanSwap, CleanNext
    <2>2. CASE ConflictLoad(t) /\ Conflicts(t, Here(t))
      <3>1. pc'[t] = "back_off" /\ atomic_entry'[t] = s1
        BY <2>2, <1>a DEF ConflictLoad, Goto, LocalTypeOK
      <3>2. QED
        BY <3>1 DEF Covers
    <2>3. CASE ConflictLoad(t) /\ ~Conflicts(t, Here(t))
      <3>1. /\ pc'[t] = "conflict" /\ atomic_entry'[t] = s1
            /\ NextEntry(t) /\ UNCHANGED overflow_entry
        BY <2>3, <1>2, <1>a DEF ConflictLoad, index
      <3>2. s2 # Here(t)
        BY <2>3, <1>a DEF Conflicts
      <3>3. Ahead(t, s2)'
        BY <3>1, <3>2, <1>2, AheadEntry
      <3>4. QED
        BY <3>1, <3>3 DEF Covers
    <2>4. CASE ConflictNext(t)
      <3>1. overflow_entry[bucket[t]] # 0
        BY <2>4, <1>2, <1>a, AheadBucket DEF ConflictNext
      <3>2. /\ pc'[t] = "conflict" /\ atomic_entry'[t] = s1
            /\ NextBucket(t, overflow_entry[bucket[t]]) /\ UNCHANGED overflow_entry
            /\ idx[t] = plan.entries
        BY <2>4, <3>1, <1>2, <1>a DEF ConflictNext, index
      <3>3. Ahead(t, s2)'
        BY <3>2, <1>2, <1>a, AheadBucket
      <3>4. QED
        BY <3>2, <3>3 DEF Covers
    <2>5. QED
      BY <2>1, <2>2, <2>3, <2>4
  <1>3. QED
    BY <1>1, <1>2 DEF Covers

LEMMA PairStep ==
  ASSUME BaseInv, BaseInv', OwnerInv, PairInv, NoDelete, UNCHANGED plan,
         NEW t \in Thread, ThreadNext(t)
  PROVE  PairInv'
  <1> SUFFICES ASSUME NEW s1 \in Slot, NEW s2 \in Slot, s1 # s2,
                      entries'[s1].tag = entries'[s2].tag, entries'[s1].tag \in Tag
               PROVE  \E u \in Thread : Covers(u, s1, s2)' \/ Covers(u, s2, s1)'
    BY DEF PairInv
  <1>1. ASSUME InstallTentative(t), entries[atomic_entry[t]] = kInvalidEntry,
               NEW a \in Slot, NEW b \in Slot, a = atomic_entry[t], entries'[b].tag \in Tag
        PROVE  Covers(t, a, b)'
    <2>1. b \in Live'
      BY <1>1, TaggedIsLiveNext
    <2>2. pc'[t] = "conflict" /\ atomic_entry'[t] = a /\ bucket'[t] = 0 /\ idx'[t] = 0
      BY <1>1, PlanFacts DEF InstallTentative, Goto, FirstBucket, NextBucket, LocalTypeOK
    <2>3. Ahead(t, b)'
      BY <2>1, <2>2, AheadAllNext
    <2>4. QED
      BY <2>2, <2>3 DEF Covers
  <1>2. CASE /\ InstallTentative(t) /\ entries[atomic_entry[t]] = kInvalidEntry
             /\ atomic_entry[t] \in {s1, s2}
    BY <1>1, <1>2
  <1>3. CASE TagKept(s1) /\ TagKept(s2)
    <2>1. entries[s1].tag = entries[s2].tag /\ entries[s1].tag \in Tag
      BY <1>3 DEF TagKept
    <2>2. PICK u \in Thread : Covers(u, s1, s2) \/ Covers(u, s2, s1)
      BY <2>1 DEF PairInv
    <2>3. CASE u # t
      BY <2>2, <2>3, CoversKept
    <2>4. entries'[s1] # kInvalidEntry /\ entries'[s2] # kInvalidEntry
      BY TagAssumption DEF kInvalidEntry, HashBucketEntry
    <2>5. CASE u = t
      BY <2>1, <2>2, <2>4, <2>5, CoversSelf
    <2>6. QED
      BY <2>3, <2>5
  <1>4. QED
    BY <1>2, <1>3, TagStep

\* Two final entries with one tag have no owner that could still give one up.
LEMMA FinalUnique ==
  ASSUME OwnerInv, PairInv, NEW g \in Tag, NEW s1 \in Final(g), NEW s2 \in Final(g)
  PROVE  s1 = s2
  <1> SUFFICES ASSUME s1 # s2 PROVE FALSE
    OBVIOUS
  <1>1. PICK t \in Thread : Covers(t, s1, s2) \/ Covers(t, s2, s1)
    BY DEF PairInv, Final
  <1>2. pc[t] \in Owning /\ atomic_entry[t] \in {s1, s2}
    BY <1>1 DEF Covers, Owning
  <1>3. entries[atomic_entry[t]] = Tentative(t)
    BY <1>2 DEF OwnerInv
  <1>4. entries[atomic_entry[t]].tentative
    BY <1>3 DEF Tentative, HashBucketEntry
  <1>5. QED
    BY <1>2, <1>4 DEF Final

-----------------------------------------------------------------------------
(***************************************************************************)
(* Readers.                                                                *)
(***************************************************************************)

\* A final entry stays as it is, gets a newer record, or leaves its tag with
\* no final entry at all.
LEMMA FinalStep ==
  ASSUME BaseInv, OwnerInv, PairInv, NoDelete, NEW t \in Thread, ThreadNext(t),
         NEW g \in Tag, NEW s \in Final(g)
  PROVE  \/ entries'[s] = entries[s] /\ s \in Final(g)'
         \/ /\ CreateRecord(t) /\ CanSwap(t) /\ s = atomic_entry[t] /\ tag[t] = g
            /\ entries'[s] = HashBucketEntry(tail, g, FALSE) /\ s \in Final(g)'
         \/ /\ CleanSwap(t) /\ s = Here(t) /\ entries[s] = expected_entry[t]
            /\ Final(g)' = {}
  <1>a. /\ entries \in [Slot -> EntryValue] /\ s \in Slot
        /\ entries[s].tag = g /\ ~entries[s].tentative /\ entries[s] # kInvalidEntry
    <2>1. s \in Slot /\ entries[s].tag = g /\ ~entries[s].tentative
      BY DEF Final
    <2>2. QED
      BY <2>1, PlanFacts, TaggedIsLive DEF IndexTypeOK
  <1>b. ASSUME pc[t] \in Owning PROVE entries[atomic_entry[t]].tentative
    <2>1. entries[atomic_entry[t]] = Tentative(t)
      BY <1>b DEF OwnerInv
    <2>2. QED
      BY <2>1 DEF Tentative, HashBucketEntry
  <1>1. CASE entries'[s] = entries[s]
    BY <1>1, <1>a DEF Final
  <1>2. CASE InstallTentative(t) /\ entries[atomic_entry[t]] = kInvalidEntry
    <2>1. s # atomic_entry[t]
      BY <1>2, <1>a
    <2>2. QED
      BY <1>1, <1>2, <2>1, <1>a DEF InstallTentative, Store
  <1>3. CASE BackOff(t)
    <2>1. s # atomic_entry[t]
      BY <1>3, <1>a, <1>b DEF BackOff, Owning
    <2>2. QED
      BY <1>1, <1>3, <2>1, <1>a DEF BackOff, Store
  <1>4. CASE Finalize(t)
    <2>1. s # atomic_entry[t]
      BY <1>4, <1>a, <1>b DEF Finalize, Owning
    <2>2. QED
      BY <1>1, <1>4, <2>1, <1>a DEF Finalize, Store
  <1>5. CASE DeleteStore(t)
    BY <1>5, StepFacts DEF DeleteStore, Control, NoDelete
  <1>6. CASE CreateRecord(t) /\ CanSwap(t)
    <2>1. CASE s # atomic_entry[t]
      BY <1>1, <1>6, <2>1, <1>a DEF CreateRecord, Store
    <2>2. CASE s = atomic_entry[t]
      <3>1. tag[t] = g
        BY <1>6, <2>2, <1>a DEF CreateRecord, CanSwap, BaseInv, EntryInv
      <3>2. entries'[s] = HashBucketEntry(tail, g, FALSE)
        BY <1>6, <2>2, <3>1, <1>a DEF CreateRecord, Store
      <3>3. s \in Final(g)'
        BY <3>2, <1>a DEF Final, HashBucketEntry
      <3>4. QED
        BY <1>6, <2>2, <3>1, <3>2, <3>3
    <2>3. QED
      BY <2>1, <2>2
  <1>7. CASE CleanSwap(t) /\ entries[Here(t)] = expected_entry[t]
    <2>1. CASE s # Here(t)
      BY <1>1, <1>7, <2>1, <1>a DEF CleanSwap, Store
    <2>2. CASE s = Here(t)
      <3>1. entries' = [entries EXCEPT ![s] = kInvalidEntry]
        BY <1>7, <2>2 DEF CleanSwap, Store
      <3>2. ASSUME NEW x \in Slot, entries'[x].tag = g, ~entries'[x].tentative PROVE FALSE
        <4>1. x # s
          BY <3>1, <3>2, <1>a, TagAssumption DEF kInvalidEntry, HashBucketEntry
        <4>2. x \in Final(g)
          BY <4>1, <3>1, <3>2, <1>a DEF Final
        <4>3. QED
          BY <4>1, <4>2, FinalUnique
      <3>3. Final(g)' = {}
        BY <3>2 DEF Final
      <3>4. QED
        BY <1>7, <2>2, <3>3
    <2>3. QED
      BY <2>1, <2>2
  <1>8. QED
    BY <1>1, <1>2, <1>3, <1>4, <1>5, <1>6, <1>7, EntryStep

\* A tag that is still present, or was missing before, has its reader in order.
Searching(t) == absent[t] \/ \E s \in Final(tag[t]) : Ahead(t, s)

LEMMA FindOther ==
  ASSUME BaseInv, OwnerInv, PairInv, FindInv, NoDelete, UNCHANGED plan,
         NEW t \in Thread, ThreadNext(t), NEW u \in Thread, u # t
  PROVE  /\ pc'[u] = "find" => Searching(u)'
         /\ pc'[u] = "not_found" => absent'[u]
  <1>1. Kept(u)
    BY OthersKept, PlanFacts
  <1>2. absent'[u] <=> pc'[u] # "idle" /\ (absent[u] \/ Final(tag[u])' = {})
    BY ObserveStep DEF Observe
  <1>3. pc'[u] = "not_found" => absent'[u]
    BY <1>1, <1>2 DEF Kept, FindInv
  <1>4. ASSUME pc'[u] = "find" PROVE Searching(u)'
    <2>1. pc[u] = "find" /\ tag'[u] = tag[u] /\ tag[u] \in Tag
      BY <1>1, <1>4, StepFacts DEF Kept, Control
    <2>2. CASE absent[u]
      BY <2>2, <1>2, <1>4 DEF Searching
    <2>3. CASE ~absent[u]
      <3>1. PICK s \in Final(tag[u]) : Ahead(u, s)
        BY <2>1, <2>3 DEF FindInv
      <3>2. s \in Slot
        BY DEF Final
      <3>3. Ahead(u, s)'
        BY <3>1, <3>2, <1>1, AheadKept DEF Kept
      <3>4. s \in Final(tag[u])' \/ Final(tag[u])' = {}
        <4>1. \A g : g = tag[u] => Final(g)' = Final(tag[u])'
          BY <2>1 DEF Final
        <4>2. PICK g \in Tag : g = tag[u]
          BY <2>1
        <4>3. s \in Final(g)' \/ Final(g)' = {}
          BY <4>2, FinalStep
        <4>4. QED
          BY <4>1, <4>2, <4>3
      <3>5. QED
        BY <3>3, <3>4, <1>2, <1>4 DEF Searching
    <2>4. QED
      BY <2>2, <2>3
  <1>5. QED
    BY <1>3, <1>4

LEMMA FindSelf ==
  ASSUME BaseInv, BaseInv', FindInv, UNCHANGED plan, NEW t \in Thread, ThreadNext(t)
  PROVE  /\ pc'[t] = "find" => Searching(t)'
         /\ pc'[t] = "not_found" => absent'[t]
  <1>1. absent'[t] <=> pc'[t] # "idle" /\ (absent[t] \/ Final(tag[t])' = {})
    BY ObserveStep DEF Observe
  <1>a. LocalTypeOK
    BY PlanFacts
  <1>b. ASSUME NEW s \in Final(tag[t]), pc[t] = "find" PROVE s \in Live /\ s \in Slot
    <2>1. s \in Slot /\ entries[s].tag = tag[t] /\ tag[t] \in Tag
      BY <1>b, StepFacts DEF Final, Control
    <2>2. QED
      BY <2>1, TaggedIsLive
  <1>2. ASSUME pc'[t] = "find", NEW o \in Ops, NEW g \in Tag, Start(t, o, g) PROVE Searching(t)'
    <2>1. bucket'[t] = 0 /\ idx'[t] = 0
      BY <1>2, StepFacts DEF Start, Control, scan
    <2>2. tag'[t] = g
      BY <1>2, <1>a DEF Start, LocalTypeOK, Goto
    <2>3. ASSUME NEW s \in Final(tag[t])' PROVE Ahead(t, s)'
      <3>1. s \in Slot /\ entries'[s].tag \in Tag
        BY <2>2, <2>3 DEF Final
      <3>2. s \in Live'
        BY <3>1, TaggedIsLiveNext
      <3>3. QED
        BY <3>2, <2>1, AheadAllNext
    <2>4. QED
      BY <2>3, <1>1, <1>2 DEF Searching
  <1>3. ASSUME pc'[t] = "find", FindLoad(t), Here(t) \notin Final(tag[t]) PROVE Searching(t)'
    <2>1. /\ NextEntry(t) /\ UNCHANGED <<entries, overflow_entry, tag>> /\ pc[t] = "find"
      BY <1>3 DEF FindLoad, index
    <2>2. CASE absent[t]
      BY <2>2, <1>1, <1>3 DEF Searching
    <2>3. CASE ~absent[t]
      <3>1. PICK s \in Final(tag[t]) : Ahead(t, s)
        BY <2>1, <2>3 DEF FindInv
      <3>2. s # Here(t) /\ s \in Slot
        BY <1>3, <1>b, <2>1
      <3>3. Ahead(t, s)'
        BY <3>1, <3>2, <2>1, AheadEntry
      <3>4. s \in Final(tag[t])'
        BY <2>1 DEF Final
      <3>5. QED
        BY <3>3, <3>4 DEF Searching
    <2>4. QED
      BY <2>2, <2>3
  <1>4. ASSUME FindNext(t), ~absent[t]
        PROVE  overflow_entry[bucket[t]] # 0 /\ (pc'[t] = "find" => Searching(t)')
    <2>1. pc[t] = "find" /\ UNCHANGED <<entries, overflow_entry, tag>> /\ idx[t] = plan.entries
      BY <1>4 DEF FindNext, index
    <2>2. PICK s \in Final(tag[t]) : Ahead(t, s)
      BY <2>1, <1>4 DEF FindInv
    <2>3. s \in Live
      BY <1>b, <2>1
    <2>4. overflow_entry[bucket[t]] # 0
      BY <2>1, <2>2, <2>3, AheadBucket
    <2>5. NextBucket(t, overflow_entry[bucket[t]])
      BY <1>4, <2>4 DEF FindNext
    <2>6. Ahead(t, s)'
      BY <2>1, <2>2, <2>3, <2>5, AheadBucket
    <2>7. s \in Final(tag[t])'
      BY <2>1 DEF Final
    <2>8. QED
      BY <2>4, <2>6, <2>7 DEF Searching
  <1>5. pc'[t] = "find" => Searching(t)'
    <2> SUFFICES ASSUME pc'[t] = "find" PROVE Searching(t)'
      OBVIOUS
    <2>1. CASE absent[t]
      BY <2>1, <1>1 DEF Searching
    <2>2. CASE ~absent[t]
      BY <2>2, <1>2, <1>3, <1>4, <1>a, ArrivesStep DEF Arrives
    <2>3. QED
      BY <2>1, <2>2
  <1>6. pc'[t] = "not_found" => absent'[t]
    BY <1>1, <1>4, <1>a, ArrivesStep DEF Arrives
  <1>7. QED
    BY <1>5, <1>6

LEMMA FindStep ==
  ASSUME BaseInv, BaseInv', OwnerInv, PairInv, FindInv, NoDelete, UNCHANGED plan,
         NEW t \in Thread, ThreadNext(t)
  PROVE  FindInv'
  BY FindOther, FindSelf DEF FindInv, Searching

-----------------------------------------------------------------------------
(***************************************************************************)
(* The records behind an entry.                                            *)
(***************************************************************************)
LEMMA LogInvStep ==
  ASSUME BaseInv, LogInv, NEW t \in Thread, ThreadNext(t)
  PROVE  /\ LogInv'
         /\ \/ UNCHANGED <<tail, previous_address, installed>>
            \/ /\ CreateRecord(t) /\ tail \in Address
               /\ previous_address' = [previous_address EXCEPT ![tail] = expected_entry[t].address]
               /\ previous_address[tail] = 0
               /\ expected_entry[t].address \in 0 .. MaxAddress
  <1>1. CASE ~CreateRecord(t)
    <2>1. UNCHANGED <<tail, previous_address, installed>>
      BY <1>1, QuietStep DEF AllocateBucket, LinkBucket, InstallTentative, BackOff, Finalize,
         DeleteStore, CleanSwap, log
    <2>2. QED
      BY <2>1 DEF LogInv
  <1>2. CASE CreateRecord(t)
    <2>1. /\ tail \in Address /\ tail' = tail + 1 /\ tail \in Int
          /\ previous_address' = [previous_address EXCEPT ![tail] = expected_entry[t].address]
      BY <1>2, AddressFacts DEF CreateRecord
    <2>2. /\ expected_entry[t].address \in 0 .. MaxAddress /\ expected_entry[t].address < tail
          /\ previous_address \in [Address -> 0 .. MaxAddress]
      BY <1>2, PlanFacts DEF CreateRecord, LocalTypeOK, LogTypeOK, EntryValue, BaseInv, EntryInv
    <2>3. previous_address[tail] = 0
      BY <2>1 DEF LogInv
    <2>4. ASSUME NEW a \in Address
          PROVE  previous_address'[a] < a /\ (a >= tail' => previous_address'[a] = 0)
      <3>1. a \in Int /\ previous_address[a] < a /\ (a >= tail => previous_address[a] = 0)
        BY AddressFacts DEF LogInv
      <3>2. CASE a = tail
        BY <2>1, <2>2, <3>2
      <3>3. CASE a # tail
        BY <2>1, <2>2, <3>1, <3>3
      <3>4. QED
        BY <3>2, <3>3
    <2>5. QED
      BY <1>2, <2>1, <2>2, <2>3, <2>4 DEF LogInv
  <1>3. QED
    BY <1>1, <1>2

\* What can be reached from an address is not above it.
LEMMA ReachBelow ==
  ASSUME BaseInv, LogInv, NEW a \in 0 .. MaxAddress, NEW r \in Reach(a)
  PROVE  r <= a
  <1>1. a \in 0 .. a /\ 0 .. a \in SUBSET (0 .. MaxAddress) /\ a \in Int
    BY PlanFacts
  <1>2. FollowsPrevious(0 .. a)
    <2> SUFFICES ASSUME NEW x \in (0 .. a) \cap Address, previous_address[x] \in Address
                 PROVE  previous_address[x] \in 0 .. a
      BY DEF FollowsPrevious
    <2>1. previous_address[x] < x /\ x \in Int /\ x <= a
      BY <1>1 DEF LogInv
    <2>2. previous_address[x] \in Int /\ previous_address[x] >= 2
      BY AddressFacts
    <2>3. QED
      BY <2>1, <2>2, <1>1
  <1>3. r \in 0 .. a
    BY <1>1, <1>2 DEF Reach
  <1>4. QED
    BY <1>1, <1>3

LEMMA ReachStep ==
  ASSUME BaseInv, LogInv, NEW t \in Thread, ThreadNext(t), NEW a, NEW r \in Reach(a)
  PROVE  r \in Reach(a)'
  <1>1. ASSUME NEW S \in SUBSET (0 .. MaxAddress), FollowsPrevious(S)'
        PROVE  FollowsPrevious(S)
    <2>1. CASE UNCHANGED previous_address
      BY <1>1, <2>1 DEF FollowsPrevious
    <2>2. CASE /\ previous_address' = [previous_address EXCEPT ![tail] = expected_entry[t].address]
               /\ previous_address[tail] = 0
      <3>1. 0 \notin Address /\ previous_address \in [Address -> 0 .. MaxAddress]
        BY AddressFacts, PlanFacts DEF LogTypeOK
      <3>2. QED
        BY <1>1, <2>2, <3>1 DEF FollowsPrevious
    <2>3. QED
      BY <2>1, <2>2, LogInvStep
  <1>2. QED
    BY <1>1 DEF Reach

\* The new record reaches everything its predecessor reaches.
LEMMA ReachNew ==
  ASSUME BaseInv, LogInv, NEW t \in Thread, ThreadNext(t), CreateRecord(t),
         NEW p, p = expected_entry[t].address, NEW n, n = tail
  PROVE  n \in Reach(n)' /\ \A r \in Reach(p) : r \in Reach(n)'
  <1>1. /\ n \in Address /\ n \in Int /\ p \in 0 .. MaxAddress
        /\ previous_address' = [previous_address EXCEPT ![n] = p]
        /\ previous_address \in [Address -> 0 .. MaxAddress]
    <2>1. tail' = tail + 1 /\ tail \in Int
      BY AddressFacts DEF CreateRecord
    <2>2. previous_address \in [Address -> 0 .. MaxAddress]
      BY PlanFacts DEF LogTypeOK
    <2>3. QED
      BY <2>1, <2>2, LogInvStep
  <1>2. n \in Reach(n)'
    BY <1>1 DEF Reach
  <1>3. ASSUME NEW r \in Reach(p) PROVE r \in Reach(n)'
    <2>1. p \in Address
      <3> SUFFICES ASSUME p \notin Address PROVE FALSE
        OBVIOUS
      <3>1. FollowsPrevious({p}) /\ {p} \in SUBSET (0 .. MaxAddress)
        BY <1>1 DEF FollowsPrevious
      <3>2. r \in {p} /\ r \in Address
        BY <3>1, <1>3 DEF Reach
      <3>3. QED
        BY <3>2
    <2>2. r \in Reach(p)'
      BY <1>3, ReachStep
    <2>3. ASSUME NEW S \in SUBSET (0 .. MaxAddress), n \in S, FollowsPrevious(S)'
          PROVE  r \in S
      <3>1. p \in S
        BY <2>1, <2>3, <1>1 DEF FollowsPrevious
      <3>2. QED
        BY <2>2, <2>3, <3>1 DEF Reach
    <2>4. QED
      BY <2>2, <2>3 DEF Reach
  <1>4. QED
    BY <1>2, <1>3

LEMMA RecordStep ==
  ASSUME BaseInv, OwnerInv, PairInv, LogInv, NoRecordLost, NoDelete, UNCHANGED plan,
         NEW t \in Thread, ThreadNext(t)
  PROVE  NoRecordLost'
  <1> SUFFICES ASSUME NEW r \in installed', r[2] >= begin_address'
               PROVE  \E s \in Final(r[1])' : r[2] \in Reach(entries[s].address)'
    BY DEF NoRecordLost
  <1>a. /\ begin_address' = begin_address /\ begin_address \in Int
        /\ entries \in [Slot -> EntryValue] /\ installed \in SUBSET (Tag \X Address)
    BY LogTypeStep, PlanFacts, AddressFacts DEF IndexTypeOK, LogTypeOK
  <1>1. CASE r \in installed
    <2>1. /\ r[1] \in Tag /\ r[2] \in Address /\ r[2] >= begin_address /\ r[2] \in Int
      BY <1>1, <1>a, AddressFacts
    <2>2. PICK s \in Final(r[1]) : r[2] \in Reach(entries[s].address)
      BY <1>1, <2>1 DEF NoRecordLost, NoDelete
    <2>3. s \in Slot
      BY DEF Final
    <2>4. PICK a : a = entries[s].address
      OBVIOUS
    <2>5. r[2] \in Reach(a)
      BY <2>2, <2>4
    <2>6. CASE entries'[s] = entries[s] /\ s \in Final(r[1])'
      <3>1. r[2] \in Reach(a)'
        BY <2>5, ReachStep
      <3>2. QED
        BY <2>4, <2>6, <3>1 DEF Reach
    <2>7. CASE /\ CreateRecord(t) /\ CanSwap(t) /\ s = atomic_entry[t]
               /\ entries'[s] = HashBucketEntry(tail, r[1], FALSE) /\ s \in Final(r[1])'
      <3>1. a = expected_entry[t].address
        BY <2>4, <2>7 DEF CanSwap
      <3>2. PICK n : n = tail
        OBVIOUS
      <3>3. r[2] \in Reach(n)'
        BY <2>5, <2>7, <3>1, <3>2, ReachNew
      <3>4. entries'[s].address = n
        BY <2>7, <3>2 DEF HashBucketEntry
      <3>5. QED
        BY <2>7, <3>3, <3>4 DEF Reach
    <2>8. CASE CleanSwap(t) /\ s = Here(t) /\ entries[s] = expected_entry[t]
      <3>1. Truncated(entries[s])
        BY <2>8 DEF CleanSwap, BaseInv, EntryInv
      <3>2. a < begin_address /\ a \in 0 .. MaxAddress
        BY <3>1, <2>3, <2>4, <1>a DEF Truncated, EntryValue
      <3>3. r[2] <= a /\ a \in Int
        BY <2>5, <3>2, ReachBelow
      <3>4. QED
        BY <3>2, <3>3, <2>1, <1>a
    <2>9. QED
      BY <2>1, <2>6, <2>7, <2>8, FinalStep
  <1>2. CASE r \notin installed
    <2>1. CreateRecord(t) /\ CanSwap(t) /\ r = <<tag[t], tail>>
      <3>1. CreateRecord(t)
        BY <1>2, LogInvStep
      <3>2. QED
        BY <1>2, <3>1 DEF CreateRecord
    <2>2. PICK n, g : n = tail /\ g = tag[t]
      OBVIOUS
    <2>3. atomic_entry[t] \in Slot
      BY <2>1, StepFacts DEF CreateRecord
    <2>4. entries'[atomic_entry[t]] = HashBucketEntry(n, g, FALSE)
      BY <2>1, <2>2, <2>3, <1>a DEF CreateRecord, Store
    <2>5. n \in Reach(n)'
      BY <2>1, <2>2, ReachNew
    <2>6. PICK s \in Slot : s = atomic_entry[t]
      BY <2>3
    <2>7. entries'[s].address = n /\ entries'[s].tag = g /\ ~entries'[s].tentative
      BY <2>4, <2>6 DEF HashBucketEntry
    <2>8. r[1] = g /\ r[2] = n
      BY <2>1, <2>2
    <2>9. s \in Final(r[1])'
      BY <2>7, <2>8 DEF Final
    <2>10. QED
      BY <2>5, <2>7, <2>8, <2>9 DEF Reach
  <1>3. QED
    BY <1>1, <1>2

-----------------------------------------------------------------------------
(***************************************************************************)
(* The theorems.                                                           *)
(***************************************************************************)
LEMMA TruncateIInv ==
  ASSUME IInv, UNCHANGED plan, Truncate
  PROVE  IInv'
  <1>1. /\ BaseInv' /\ UNCHANGED <<index, tail, previous_address, installed>>
        /\ \A u \in Thread : Kept(u)
    BY TruncateStep DEF IInv
  <1>2. /\ UNCHANGED <<entries, overflow_entry, tail, previous_address, installed>>
        /\ begin_address' = begin_address + 1 /\ begin_address \in Int
        /\ UNCHANGED <<pc, tag, bucket, idx, atomic_entry>> /\ Observe
    <2>1. BaseInv
      BY DEF IInv
    <2>2. QED
      BY <2>1, AddressFacts DEF Truncate, index, scan
  <1> SUFFICES ASSUME NoDelete, OwnerInv, PairInv, FindInv, LogInv, NoRecordLost
               PROVE  (OwnerInv /\ PairInv /\ FindInv /\ LogInv /\ NoRecordLost)'
    BY <1>1 DEF IInv, NoDelete
  <1>3. OwnerInv'
    BY <1>2 DEF OwnerInv, Tentative
  <1>4. PairInv'
    BY <1>2 DEF PairInv, Covers, Ahead, After, FollowsChain
  <1>5. FindInv'
    <2>1. \A u \in Thread : pc'[u] # "idle" /\ absent[u] => absent'[u]
      BY <1>2 DEF Observe
    <2>2. QED
      BY <1>2, <2>1 DEF FindInv, Final, Ahead, After, FollowsChain
  <1>6. LogInv'
    BY <1>2 DEF LogInv
  <1>7. NoRecordLost'
    <2> SUFFICES ASSUME NEW r \in installed, r[2] >= begin_address'
                 PROVE  \E s \in Final(r[1])' : r[2] \in Reach(entries[s].address)'
      BY <1>2 DEF NoRecordLost
    <2>1. r[2] \in Int
      <3>1. LogTypeOK /\ \A a \in Address : a \in Int
        BY PlanFacts, AddressFacts DEF IInv
      <3>2. QED
        BY <3>1 DEF LogTypeOK
    <2>2. r[2] >= begin_address
      BY <2>1, <1>2
    <2>3. \E s \in Final(r[1]) : r[2] \in Reach(entries[s].address)
      BY <2>2 DEF NoRecordLost, NoDelete
    <2>4. QED
      BY <2>3, <1>2 DEF Final, Reach, FollowsPrevious
  <1>8. QED
    BY <1>3, <1>4, <1>5, <1>6, <1>7

LEMMA InitIInv ==
  ASSUME Init
  PROVE  IInv
  <1>1. BaseInv
    BY InitBase
  <1>2. OwnerInv /\ FindInv
    BY DEF Init, OwnerInv, FindInv, Owning
  <1>3. PairInv
    BY TagAssumption DEF Init, PairInv, kInvalidEntry, HashBucketEntry
  <1>4. LogInv
    BY <1>1, AddressFacts DEF Init, LogInv
  <1>5. NoRecordLost
    BY DEF Init, NoRecordLost
  <1>6. QED
    BY <1>1, <1>2, <1>3, <1>4, <1>5 DEF IInv

LEMMA NextIInv ==
  ASSUME IInv, [Next]_vars
  PROVE  IInv'
  <1>1. CASE UNCHANGED vars
    <2>1. BaseInv'
      BY NextBase DEF IInv
    <2>2. (OwnerInv => OwnerInv') /\ (PairInv => PairInv')
      <3>1. \A u, s : Ahead(u, s) => Ahead(u, s)'
        BY <1>1 DEF vars, index, scan, Ahead, After, FollowsChain
      <3>2. \A u, r, s : Covers(u, r, s) => Covers(u, r, s)'
        BY <1>1, <3>1 DEF vars, Covers
      <3>3. PairInv => PairInv'
        BY <1>1, <3>2 DEF vars, index, PairInv
      <3>4. QED
        BY <1>1, <3>3 DEF vars, index, OwnerInv, Tentative
    <2>3. FindInv => FindInv'
      BY <1>1 DEF vars, index, scan, FindInv, Final, Ahead, After, FollowsChain
    <2>4. LogInv => LogInv'
      BY <1>1 DEF vars, log, LogInv
    <2>5. NoRecordLost => NoRecordLost'
      BY <1>1 DEF vars, index, log, NoRecordLost, Final, Reach, FollowsPrevious
    <2>6. QED
      BY <1>1, <2>1, <2>2, <2>3, <2>4, <2>5 DEF vars, IInv, NoDelete
  <1>2. CASE Truncate /\ UNCHANGED plan
    BY <1>2, TruncateIInv
  <1>3. ASSUME NEW t \in Thread, ThreadNext(t), UNCHANGED plan
        PROVE  IInv'
    <2>1. BaseInv /\ BaseInv'
      BY NextBase DEF IInv
    <2>2. ASSUME NoDelete
          PROVE  OwnerInv' /\ PairInv' /\ FindInv' /\ LogInv' /\ NoRecordLost'
      <3>1. OwnerInv /\ PairInv /\ FindInv /\ LogInv /\ NoRecordLost
        BY <2>2 DEF IInv
      <3>2. QED
        BY <1>3, <2>1, <2>2, <3>1, OwnerStep, PairStep, FindStep, LogInvStep, RecordStep
    <2>3. NoDelete' => NoDelete
      BY <1>3 DEF NoDelete
    <2>4. QED
      BY <2>1, <2>2, <2>3 DEF IInv
  <1>4. QED
    BY <1>1, <1>2, <1>3 DEF Next

\* The inductive invariant holds in every behaviour.
THEOREM IndexInductive == Spec => []IInv
  <1>1. QED
    BY InitIInv, NextIInv, PTL DEF Spec

\* However many threads insert, update, read and collect, and however the chain
\* grows under them, FindOrCreateEntry's tentative entries let a tag have at most
\* one final entry.
THEOREM OneFinalEntryHolds == Spec => []OneFinalEntry
  <1>1. IInv => OneFinalEntry
    <2> SUFFICES ASSUME IInv, NoDelete, NEW g \in Tag
                 PROVE  Cardinality(Final(g)) <= 1
      BY DEF OneFinalEntry, NoDelete
    <2>1. OwnerInv /\ PairInv
      BY DEF IInv
    <2>2. CASE Final(g) = {}
      BY <2>2, FS_EmptySet
    <2>3. CASE Final(g) # {}
      <3>1. PICK s : s \in Final(g)
        BY <2>3
      <3>2. Final(g) = {s}
        BY <3>1, <2>1, FinalUnique
      <3>3. QED
        BY <3>2, FS_Singleton
    <2>4. QED
      BY <2>2, <2>3
  <1>2. QED
    BY <1>1, IndexInductive, PTL

\* FindEntry reports a tag missing only if it was missing at some moment of the
\* call.
THEOREM NotFoundIsLinearizable == Spec => []NotFoundIsTrue
  <1>1. IInv => NotFoundIsTrue
    BY DEF IInv, NoDelete, FindInv, NotFoundIsTrue
  <1>2. QED
    BY <1>1, IndexInductive, PTL

\* A record some compare-and-swap has put into the index stays reachable from
\* its tag's entry until the log is truncated past it.
THEOREM RecordsStayReachable == Spec => []NoRecordLost
  <1>1. IInv => NoRecordLost
    BY DEF IInv, NoDelete, NoRecordLost
  <1>2. QED
    BY <1>1, IndexInductive, PTL

-----------------------------------------------------------------------------
(***************************************************************************)
(* Overflow buckets, for every plan.                                       *)
(***************************************************************************)
Linked(b) == {c \in Bucket : overflow_entry[c] = b}
Held(b) == {u \in Thread : new_bucket[u] = b}

LEMMA BucketCounts ==
  ASSUME BaseInv, UNCHANGED plan, NEW t \in Thread, ThreadNext(t), NEW b \in Bucket \ {0}
  PROVE  /\ Cardinality(Linked(b)) \in Nat /\ Cardinality(Held(b)) \in Nat
         /\ Cardinality(Linked(b)') = Cardinality(Linked(b))
              + Indicator(overflow_entry'[bucket[t]] = b) - Indicator(overflow_entry[bucket[t]] = b)
         /\ Cardinality(Held(b)') = Cardinality(Held(b))
              + Indicator(new_bucket'[t] = b) - Indicator(new_bucket[t] = b)
         /\ new_bucket[t] = b => Cardinality(Held(b)) >= 1
  <1>a. /\ LocalTypeOK /\ overflow_entry \in [Bucket -> Bucket] /\ bucket[t] \in Bucket
        /\ MaxOverflow \in Nat
    BY PlanFacts DEF LocalTypeOK, IndexTypeOK
  <1>f. IsFiniteSet(Linked(b)) /\ IsFiniteSet(Held(b))
    <2>1. IsFiniteSet(Bucket)
      BY <1>a, FS_Interval DEF Bucket
    <2>2. QED
      BY <2>1, ThreadAssumption, FS_Subset DEF Linked, Held
  <1>1. /\ Cardinality(Linked(b)) \in Nat
        /\ Cardinality(Linked(b)') = Cardinality(Linked(b))
             + Indicator(bucket[t] \in Linked(b)') - Indicator(bucket[t] \in Linked(b))
    <2>1. \A y : y # bucket[t] => (y \in Linked(b) <=> y \in Linked(b)')
      BY <1>a, ChainStep DEF Linked
    <2>2. QED
      BY <2>1, <1>f, CountStep
  <1>2. /\ Cardinality(Held(b)) \in Nat
        /\ Cardinality(Held(b)') = Cardinality(Held(b))
             + Indicator(t \in Held(b)') - Indicator(t \in Held(b))
    <2>1. \A u \in Thread : u # t => new_bucket'[u] = new_bucket[u]
      BY <1>a, OthersKept DEF Kept
    <2>2. \A y : y # t => (y \in Held(b) <=> y \in Held(b)')
      BY <2>1 DEF Held
    <2>3. QED
      BY <2>2, <1>f, CountStep
  <1>3. /\ bucket[t] \in Linked(b)' <=> overflow_entry'[bucket[t]] = b
        /\ bucket[t] \in Linked(b) <=> overflow_entry[bucket[t]] = b
        /\ t \in Held(b)' <=> new_bucket'[t] = b
        /\ t \in Held(b) <=> new_bucket[t] = b
    BY <1>a DEF Linked, Held
  <1>4. new_bucket[t] = b => Cardinality(Held(b)) >= 1
    BY <1>3, <1>f, CountPositive
  <1>5. QED
    BY <1>1, <1>2, <1>3, <1>4 DEF Indicator

LEMMA BucketStep ==
  ASSUME BaseInv, UNCHANGED plan, NEW t \in Thread, ThreadNext(t), BucketsAccountedFor
  PROVE  BucketsAccountedFor'
  <1> SUFFICES ASSUME NEW b \in Bucket \ {0}
               PROVE  Cardinality(Linked(b)') + Cardinality(Held(b)') = Indicator(b \in allocated')
    BY DEF BucketsAccountedFor, Linked, Held, Indicator
  <1> DEFINE L == Cardinality(Linked(b))  H == Cardinality(Held(b))
             x == bucket[t]  n == new_bucket[t]
  <1>a. /\ L \in Nat /\ H \in Nat
        /\ L' = L + Indicator(overflow_entry'[x] = b) - Indicator(overflow_entry[x] = b)
        /\ H' = H + Indicator(new_bucket'[t] = b) - Indicator(n = b)
        /\ n = b => H >= 1
    BY BucketCounts
  <1>b. L + H = Indicator(b \in allocated)
    BY DEF BucketsAccountedFor, Linked, Held, Indicator
  <1>c. /\ LocalTypeOK /\ overflow_entry \in [Bucket -> Bucket] /\ x \in Bucket /\ n \in Bucket
        /\ (pc[t] = "link" <=> n # 0)
    BY PlanFacts, StepFacts DEF LocalTypeOK, IndexTypeOK, Control
  <1>1. CASE AllocateBucket(t)
    <2>1. PICK d \in Unallocated : /\ allocated' = allocated \cup {d}
                                   /\ new_bucket' = [new_bucket EXCEPT ![t] = d]
      BY <1>1 DEF AllocateBucket
    <2>2. UNCHANGED overflow_entry /\ n = 0 /\ d \notin allocated /\ new_bucket'[t] = d
      BY <1>1, <1>c, <2>1 DEF AllocateBucket, Unallocated, LocalTypeOK
    <2>3. L' = L /\ H' = H + Indicator(d = b)
      BY <1>a, <2>2 DEF Indicator
    <2>4. QED
      <3>1. CASE d = b
        BY <1>a, <1>b, <2>1, <2>2, <2>3, <3>1 DEF Indicator
      <3>2. CASE d # b
        <4>1. b \in allocated' <=> b \in allocated
          BY <2>1, <3>2
        <4>2. L' + H' = L + H
          BY <1>a, <2>3, <3>2 DEF Indicator
        <4>3. QED
          BY <1>b, <4>1, <4>2 DEF Indicator
      <3>3. QED
        BY <3>1, <3>2
  <1>2. CASE LinkBucket(t) /\ overflow_entry[x] = 0
    <2>1. /\ overflow_entry'[x] = n /\ new_bucket'[t] = 0 /\ UNCHANGED allocated
      BY <1>2, <1>c DEF LinkBucket, LocalTypeOK
    <2>2. L' = L + Indicator(n = b) /\ H' = H - Indicator(n = b)
      BY <1>a, <1>2, <2>1 DEF Indicator
    <2>3. QED
      BY <1>a, <1>b, <2>1, <2>2 DEF Indicator
  <1>3. CASE LinkBucket(t) /\ overflow_entry[x] # 0
    <2>1. /\ UNCHANGED overflow_entry /\ new_bucket'[t] = 0 /\ allocated' = allocated \ {n}
      BY <1>3, <1>c DEF LinkBucket, LocalTypeOK, FreeBucket
    <2>2. L' = L /\ H' = H - Indicator(n = b)
      BY <1>a, <2>1 DEF Indicator
    <2>3. QED
      <3>1. CASE n = b
        <4>1. b \in allocated /\ L + H = 1 /\ b \notin allocated'
          <5>1. L + H >= 1 /\ b \notin allocated'
            BY <1>a, <2>1, <3>1
          <5>2. QED
            BY <1>b, <5>1 DEF Indicator
        <4>2. L' + H' = 0
          <5>1. Indicator(n = b) = 1
            BY <3>1 DEF Indicator
          <5>2. QED
            BY <1>a, <2>2, <4>1, <5>1
        <4>3. QED
          BY <4>1, <4>2 DEF Indicator
      <3>2. CASE n # b
        <4>1. b \in allocated' <=> b \in allocated
          BY <2>1, <3>2
        <4>2. L' + H' = L + H
          BY <1>a, <2>2, <3>2 DEF Indicator
        <4>3. QED
          BY <1>b, <4>1, <4>2 DEF Indicator
      <3>3. QED
        BY <3>1, <3>2
  <1>4. CASE ~AllocateBucket(t) /\ ~LinkBucket(t)
    <2>1. UNCHANGED <<overflow_entry, allocated>>
      BY <1>4, QuietStep DEF InstallTentative, BackOff, Finalize, CreateRecord, DeleteStore,
         CleanSwap, index
    <2>2. UNCHANGED new_bucket
      BY <1>4 DEF ThreadNext, Start, FindLoad, FindNext, NotFound, SearchLoad, SearchNext,
         InstallTentative, ConflictLoad, ConflictNext, BackOff, Finalize, CreateRecord,
         UpdateInPlace, DeleteCheck, DeleteStore, CleanLoad, CleanSwap, CleanNext, Return, Retry
    <2>3. L' = L /\ H' = H
      BY <2>1, <2>2 DEF Linked, Held
    <2>4. QED
      BY <1>b, <2>1, <2>3
  <1>5. QED
    BY <1>1, <1>2, <1>3, <1>4

\* Every allocated overflow bucket is in the chain once or held by one thread:
\* the compare-and-swap of overflow_entry loses none and shares none, in plans
\* with InternalDelete too.
THEOREM NoBucketLostOrShared == Spec => []BucketsAccountedFor
  <1>1. Init => BucketsAccountedFor
    <2> SUFFICES ASSUME Init, NEW b \in Bucket \ {0}
                 PROVE  Cardinality(Linked(b)) + Cardinality(Held(b)) = 0 /\ b \notin allocated
      BY DEF BucketsAccountedFor, Linked, Held
    <2>1. Linked(b) = {} /\ Held(b) = {} /\ b \notin allocated
      BY DEF Init, Linked, Held
    <2>2. QED
      BY <2>1, FS_EmptySet
  <1>2. BaseInv /\ BucketsAccountedFor /\ [Next]_vars => BucketsAccountedFor'
    <2> SUFFICES ASSUME BaseInv, BucketsAccountedFor, [Next]_vars
                 PROVE  BucketsAccountedFor'
      OBVIOUS
    <2>1. CASE UNCHANGED <<overflow_entry, new_bucket, allocated>>
      BY <2>1 DEF BucketsAccountedFor
    <2>2. UNCHANGED vars \/ Truncate => UNCHANGED <<overflow_entry, new_bucket, allocated>>
      BY DEF vars, index, Truncate
    <2>3. QED
      BY <2>1, <2>2, BucketStep DEF Next
  <1>3. QED
    BY <1>1, <1>2, ChainInductive, PTL DEF Spec
=============================================================================
