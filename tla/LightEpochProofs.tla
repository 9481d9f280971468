-------------------------- MODULE LightEpochProofs --------------------------
EXTENDS LightEpoch, SequenceTheorems, CountingProofs

LEMMA CountRange == \A n \in Int : n % CountMod \in 0 .. CountMod - 1
  BY BoundAssumption

LEMMA SlotRange == \A n \in Int : n % DrainListSize \in Slot
  BY BoundAssumption DEF Slot

LEMMA TypeFacts ==
  ASSUME BaseInv
  PROVE  /\ current_epoch \in 1 .. MaxEpoch /\ safe_to_reclaim_epoch \in 0 .. MaxEpoch
         /\ current_epoch \in Int /\ safe_to_reclaim_epoch \in Int
         /\ drain_list_ \in [Slot -> [epoch : 0 .. kFree, context : Object \cup {None}]]
         /\ table_ \in [Entry -> 0 .. MaxEpoch]
         /\ pc \in [Thread -> Labels]
         /\ next \in [Thread -> 0 .. MaxEpoch] /\ idx \in [Thread -> Nat]
         /\ oldest \in [Thread -> 0 .. MaxEpoch] /\ trigger \in [Thread -> 0 .. kFree]
         /\ ctx \in [Thread -> Object \cup {None}]
         /\ popped \in [Thread -> Object \cup {None}]
         /\ linked \subseteq Object /\ held \in [Thread -> SUBSET Object]
         /\ freed \subseteq Object
  <1>1. SharedTypeOK /\ EntryTypeOK /\ LocalTypeOK /\ ClientTypeOK
    BY DEF BaseInv, TypeOK
  <1>2. table_ \in [Entry -> 0 .. MaxEpoch]
    BY <1>1 DEF EntryTypeOK
  <1>3. current_epoch \in Int /\ safe_to_reclaim_epoch \in Int
    BY <1>1, BoundAssumption DEF SharedTypeOK
  <1>4. QED
    BY <1>1, <1>2, <1>3 DEF SharedTypeOK, LocalTypeOK, ClientTypeOK

LEMMA Basics ==
  ASSUME BaseInv, NEW t \in Thread
  PROVE  TypeOK /\ Control(t) /\ t \in Entry
  BY ThreadAssumption DEF BaseInv, ControlInv, Entry

\* The epochs a thread can see, its own pending stores included, have existed.
LEMMA ViewBound ==
  ASSUME BaseInv, NEW t \in Thread, NEW i \in Entry
  PROVE  View(t, i) \in 0 .. MaxEpoch /\ View(t, i) <= current_epoch
  <1>1. /\ table_[i] \in 0 .. MaxEpoch /\ table_[i] <= current_epoch
        /\ store_buffer[t] \in Seq(0 .. MaxEpoch)
    BY DEF BaseInv, TypeOK, EntryTypeOK, EpochInv
  <1>2. CASE store_buffer[t] = <<>>
    BY <1>1, <1>2 DEF View
  <1>3. CASE store_buffer[t] # <<>>
    <2>1. Len(store_buffer[t]) \in 1 .. Len(store_buffer[t])
      BY <1>1, <1>3
    <2>2. store_buffer[t][Len(store_buffer[t])] <= current_epoch
      BY <2>1 DEF BaseInv, EpochInv
    <2>3. store_buffer[t][Len(store_buffer[t])] \in 0 .. MaxEpoch
      BY <1>1, <2>1, ElementOfSeq
    <2>4. QED
      BY <1>1, <2>2, <2>3 DEF View
  <1>4. QED
    BY <1>2, <1>3

LEMMA InitBase == Init => BaseInv
  <1> SUFFICES ASSUME Init PROVE BaseInv
    OBVIOUS
  <1> USE DEF Init, kLocked, kFree, kUnprotected
  <1>1. TypeOK
    BY ThreadAssumption, BoundAssumption
    DEF TypeOK, SharedTypeOK, EntryTypeOK, LocalTypeOK, ClientTypeOK, Labels, Entry
  <1>2. ControlInv
    BY DEF ControlInv, Control, Registering, DrainLabels, PushLabels
  <1>3. EpochInv /\ LockInv
    BY BoundAssumption DEF EpochInv, LockInv, Owning, Entry
  <1>4. UnlinkedInv
    BY ObjectAssumption DEF UnlinkedInv
  <1>5. QED
    BY <1>1, <1>2, <1>3, <1>4 DEF BaseInv

LEMMA LocalTypeStep ==
  ASSUME BaseInv, NEW t \in Thread, ThreadNext(t)
  PROVE  LocalTypeOK'
  <1> USE BoundAssumption DEF LocalTypeOK, Goto, SetIdx, Labels, kFree, kLocked, Slot, locals
  <1>0. LocalTypeOK /\ current_epoch \in 1 .. MaxEpoch
    BY DEF BaseInv, TypeOK, SharedTypeOK
  <1>b. pc[t] = "scan" /\ idx[t] <= NumEntries => View(t, idx[t]) \in 0 .. MaxEpoch
    BY <1>0, ViewBound, ThreadAssumption DEF Entry
  <1>e. idx[t] \in Slot => drain_list_[idx[t]].epoch \in 0 .. kFree
    BY DEF BaseInv, TypeOK, SharedTypeOK
  <1>f. pc[t] = "push" => idx[t] \in Slot
    BY Basics DEF Control, PushLabels
  <1>m. (idx[t] + 1) % DrainListSize \in Nat
    BY <1>0, SlotRange
  <1>1. CASE ProtectStore(t)
    BY <1>1, <1>0 DEF ProtectStore, Return
  <1>2. CASE ReentrantProtectStore(t)
    BY <1>2, <1>0 DEF ReentrantProtectStore, Return
  <1>3. CASE ProtectAndDrainStore(t)
    BY <1>3, <1>0 DEF ProtectAndDrainStore
  <1>4. CASE CheckDrainCount(t)
    BY <1>4, <1>0 DEF CheckDrainCount, EndDrain, Return
  <1>5. CASE ScanEntry(t)
    BY <1>5, <1>0, <1>b DEF ScanEntry
  <1>6. CASE ScanDone(t)
    BY <1>6, <1>0 DEF ScanDone
  <1>7. CASE DrainLoad(t)
    BY <1>7, <1>0, <1>e DEF DrainLoad, EndDrain, Return
  <1>8. CASE DrainCompare(t)
    BY <1>8, <1>0 DEF DrainCompare, NextSlot
  <1>9. CASE TryPop(t)
    BY <1>9, <1>0 DEF TryPop, CanLock, CannotLock, Lock, NextSlot
  <1>10. CASE TryPopRelease(t)
    BY <1>10, <1>0 DEF TryPopRelease, Unlock
  <1>11. CASE RunPopped(t)
    BY <1>11, <1>0 DEF RunPopped
  <1>12. CASE DecrementDrainCount(t)
    BY <1>12, <1>0 DEF DecrementDrainCount, AddDrainCount, EndDrain, Return, NextSlot
  <1>13. CASE IncrementEpoch(t)
    BY <1>13, <1>0 DEF IncrementEpoch
  <1>14. CASE PushLoad(t)
    BY <1>14, <1>0, <1>e, <1>f DEF PushLoad
  <1>15. CASE PushCompare(t)
    BY <1>15, <1>0, <1>m DEF PushCompare, TryNextSlot
  <1>16. CASE TryPush(t)
    BY <1>16, <1>0, <1>m DEF TryPush, CanLock, CannotLock, Lock, TryNextSlot
  <1>17. CASE TryPushRelease(t)
    BY <1>17, <1>0 DEF TryPushRelease, Unlock, PriorEpoch
  <1>18. CASE IncrementDrainCount(t)
    BY <1>18, <1>0 DEF IncrementDrainCount, AddDrainCount, Return
  <1>19. CASE TrySwap(t)
    BY <1>19, <1>0, <1>m DEF TrySwap, CanLock, CannotLock, Lock, TryNextSlot
  <1>20. CASE TrySwapRelease(t)
    BY <1>20, <1>0 DEF TrySwapRelease, Unlock, PriorEpoch
  <1>21. CASE RunSwapped(t)
    BY <1>21, <1>0 DEF RunSwapped, Return
  <1>22. ASSUME NEW call \in {"protect", "refresh", "reenter"}, EnterLoad(t, call) PROVE LocalTypeOK'
    BY <1>22, <1>0 DEF EnterLoad
  <1>23. CASE Unprotect(t)
    BY <1>23, <1>0 DEF Unprotect
  <1>24. CASE ReentrantUnprotect(t)
    BY <1>24, <1>0 DEF ReentrantUnprotect
  <1>25. ASSUME NEW o \in Object, Acquire(t, o) PROVE LocalTypeOK'
    BY <1>25, <1>0 DEF Acquire
  <1>26. ASSUME NEW o \in Object, Retire(t, o) PROVE LocalTypeOK'
    BY <1>26, <1>0 DEF Retire
  <1>27. CASE FlushStore(t)
    BY <1>27, <1>0 DEF FlushStore
  <1>q. QED
    BY <1>1, <1>2, <1>3, <1>4, <1>5, <1>6, <1>7, <1>8, <1>9, <1>10, <1>11,
        <1>12, <1>13, <1>14, <1>15, <1>16, <1>17, <1>18, <1>19, <1>20, <1>21,
        <1>22, <1>23, <1>24, <1>25, <1>26, <1>27 DEF ThreadNext, Step

\* Which actions write the epoch table.
LEMMA EntryFrame ==
  ASSUME BaseInv, NEW t \in Thread, ThreadNext(t)
  PROVE  \/ UNCHANGED <<table_, reentrant, store_buffer>>
         \/ ProtectStore(t) \/ ReentrantProtectStore(t) \/ ProtectAndDrainStore(t)
         \/ Unprotect(t) \/ ReentrantUnprotect(t) \/ FlushStore(t)
  BY DEF entries, ThreadNext, Step, CheckDrainCount, ScanEntry,
      ScanDone, DrainLoad, DrainCompare, TryPop, TryPopRelease, RunPopped,
      DecrementDrainCount, IncrementEpoch, PushLoad, PushCompare, TryPush,
      TryPushRelease, IncrementDrainCount, TrySwap, TrySwapRelease,
      RunSwapped, EnterLoad, Acquire, Retire

LEMMA PublishType ==
  ASSUME EntryTypeOK, NEW t \in Thread, NEW e \in 0 .. MaxEpoch, Publish(t, e)
  PROVE  /\ table_' \in [Entry -> 0 .. MaxEpoch]
         /\ store_buffer' \in [Thread -> Seq(0 .. MaxEpoch)]
  <1>1. t \in Entry
    BY ThreadAssumption DEF Entry
  <1>2. Append(store_buffer[t], e) \in Seq(0 .. MaxEpoch)
    BY DEF EntryTypeOK
  <1>3. QED
    BY <1>1, <1>2 DEF Publish, EntryTypeOK

LEMMA EntryTypeStep ==
  ASSUME BaseInv, NEW t \in Thread, ThreadNext(t)
  PROVE  EntryTypeOK'
  <1>0. /\ EntryTypeOK
        /\ next[t] \in 0 .. MaxEpoch
        /\ t \in Entry
        /\ kUnprotected \in 0 .. MaxEpoch
    BY Basics, BoundAssumption
    DEF BaseInv, TypeOK, LocalTypeOK, kUnprotected
  <1>r. reentrant[t] \in Int
    BY <1>0, BoundAssumption DEF EntryTypeOK
  <1>1. (reentrant[t] + 1) % CountMod \in 0 .. CountMod - 1
    BY <1>r, CountRange
  <1>2. (reentrant[t] - 1) % CountMod \in 0 .. CountMod - 1
    BY <1>r, CountRange
  <1>a. reentrant' \in [Thread -> 0 .. CountMod - 1]
    BY <1>0, <1>1, <1>2, EntryFrame
    DEF EntryTypeOK, ProtectStore, ReentrantProtectStore, ProtectAndDrainStore,
        Unprotect, ReentrantUnprotect, FlushStore
  <1>b. \/ UNCHANGED <<table_, store_buffer>>
        \/ Publish(t, next[t])
        \/ Publish(t, kUnprotected)
        \/ FlushStore(t)
    BY EntryFrame
    DEF ProtectStore, ReentrantProtectStore, ProtectAndDrainStore, Unprotect,
        ReentrantUnprotect
  <1>3. CASE UNCHANGED <<table_, store_buffer>>
    BY <1>0, <1>3, <1>a DEF EntryTypeOK
  <1>4. CASE Publish(t, next[t]) \/ Publish(t, kUnprotected)
    BY <1>0, <1>4, <1>a, PublishType DEF EntryTypeOK
  <1>5. CASE FlushStore(t)
    <2>1. store_buffer[t] \in Seq(0 .. MaxEpoch) /\ store_buffer[t] # <<>>
      BY <1>0, <1>5 DEF EntryTypeOK, FlushStore
    <2>2. Head(store_buffer[t]) \in 0 .. MaxEpoch /\ Tail(store_buffer[t]) \in Seq(0 .. MaxEpoch)
      BY <2>1, HeadTailProperties
    <2>3. QED
      BY <1>0, <1>5, <1>a, <2>2 DEF EntryTypeOK, FlushStore
  <1>6. QED
    BY <1>b, <1>3, <1>4, <1>5

\* Which actions write current_epoch, safe_to_reclaim_epoch, drain_count_ and
\* the drain list.
LEMMA SharedFrame ==
  ASSUME BaseInv, NEW t \in Thread, ThreadNext(t)
  PROVE  \/ UNCHANGED <<current_epoch, safe_to_reclaim_epoch, drain_count_, drain_list_>>
         \/ ScanDone(t) \/ DecrementDrainCount(t)
         \/ IncrementEpoch(t) \/ IncrementDrainCount(t)
         \/ TryPop(t) /\ CanLock(t, trigger[t]) /\ Lock(t) /\ pc'[t] = "popped"
         \/ TryPush(t) /\ CanLock(t, kFree) /\ Lock(t) /\ pc'[t] = "pushing"
         \/ TrySwap(t) /\ CanLock(t, trigger[t]) /\ Lock(t) /\ pc'[t] = "swapping"
         \/ TryPopRelease(t) \/ TryPushRelease(t) \/ TrySwapRelease(t)
  <1>1. pc \in [Thread -> Labels]
    BY DEF BaseInv, TypeOK, LocalTypeOK
  <1>2. QED
    BY <1>1 DEF shared, Goto, FlushStore, ThreadNext, Step, ProtectStore, ReentrantProtectStore,
      ProtectAndDrainStore, CheckDrainCount, ScanEntry, DrainLoad,
      DrainCompare, TryPop, RunPopped, PushLoad, PushCompare, TryPush,
      TrySwap, RunSwapped, EnterLoad, Unprotect, ReentrantUnprotect, Acquire,
      Retire

\* Which actions write the contexts and the client's sets.
LEMMA ClientFrame ==
  ASSUME BaseInv, NEW t \in Thread, ThreadNext(t)
  PROVE  \/ UNCHANGED <<ctx, popped, linked, held, freed>>
         \/ \E call \in {"protect", "refresh", "reenter"} : EnterLoad(t, call)
         \/ Unprotect(t) \/ ReentrantUnprotect(t)
         \/ \E o \in Object : Acquire(t, o) \/ Retire(t, o)
         \/ TryPopRelease(t) \/ RunPopped(t) \/ TryPushRelease(t)
         \/ TrySwapRelease(t) \/ RunSwapped(t)
  BY DEF client, FlushStore, ThreadNext, Step, ProtectStore, ReentrantProtectStore,
      ProtectAndDrainStore, CheckDrainCount, ScanEntry, ScanDone, DrainLoad,
      DrainCompare, TryPop, DecrementDrainCount, IncrementEpoch, PushLoad,
      PushCompare, TryPush, IncrementDrainCount, TrySwap

\* A step of t leaves the other threads' locals, contexts and references alone.
Kept(u) ==
  /\ pc'[u] = pc[u] /\ next'[u] = next[u] /\ idx'[u] = idx[u]
  /\ oldest'[u] = oldest[u] /\ trigger'[u] = trigger[u]
  /\ ctx'[u] = ctx[u] /\ popped'[u] = popped[u] /\ held'[u] = held[u]

LEMMA OthersKept ==
  ASSUME BaseInv, NEW t \in Thread, ThreadNext(t),
         NEW u \in Thread, u # t
  PROVE  Kept(u)
  <1> USE DEF Kept, Goto, SetIdx, locals, client
  <1>0. LocalTypeOK /\ ClientTypeOK
    BY DEF BaseInv, TypeOK
  <1>1. CASE ProtectStore(t)
    BY <1>1, <1>0 DEF LocalTypeOK, ClientTypeOK, ProtectStore, Return
  <1>2. CASE ReentrantProtectStore(t)
    BY <1>2, <1>0 DEF LocalTypeOK, ClientTypeOK, ReentrantProtectStore, Return
  <1>3. CASE ProtectAndDrainStore(t)
    BY <1>3, <1>0 DEF LocalTypeOK, ClientTypeOK, ProtectAndDrainStore
  <1>4. CASE CheckDrainCount(t)
    BY <1>4, <1>0 DEF LocalTypeOK, ClientTypeOK, CheckDrainCount, EndDrain, Return
  <1>5. CASE ScanEntry(t)
    BY <1>5, <1>0 DEF LocalTypeOK, ClientTypeOK, ScanEntry
  <1>6. CASE ScanDone(t)
    BY <1>6, <1>0 DEF LocalTypeOK, ClientTypeOK, ScanDone
  <1>7. CASE DrainLoad(t)
    BY <1>7, <1>0 DEF LocalTypeOK, ClientTypeOK, DrainLoad, EndDrain, Return
  <1>8. CASE DrainCompare(t)
    BY <1>8, <1>0 DEF LocalTypeOK, ClientTypeOK, DrainCompare, NextSlot
  <1>9. CASE TryPop(t)
    BY <1>9, <1>0 DEF LocalTypeOK, ClientTypeOK, TryPop, CanLock, CannotLock, Lock, NextSlot
  <1>10. CASE TryPopRelease(t)
    BY <1>10, <1>0 DEF LocalTypeOK, ClientTypeOK, TryPopRelease, Unlock
  <1>11. CASE RunPopped(t)
    BY <1>11, <1>0 DEF LocalTypeOK, ClientTypeOK, RunPopped
  <1>12. CASE DecrementDrainCount(t)
    BY <1>12, <1>0 DEF LocalTypeOK, ClientTypeOK, DecrementDrainCount, AddDrainCount, EndDrain, Return, NextSlot
  <1>13. CASE IncrementEpoch(t)
    BY <1>13, <1>0 DEF LocalTypeOK, ClientTypeOK, IncrementEpoch
  <1>14. CASE PushLoad(t)
    BY <1>14, <1>0 DEF LocalTypeOK, ClientTypeOK, PushLoad
  <1>15. CASE PushCompare(t)
    BY <1>15, <1>0 DEF LocalTypeOK, ClientTypeOK, PushCompare, TryNextSlot
  <1>16. CASE TryPush(t)
    BY <1>16, <1>0 DEF LocalTypeOK, ClientTypeOK, TryPush, CanLock, CannotLock, Lock, TryNextSlot
  <1>17. CASE TryPushRelease(t)
    BY <1>17, <1>0 DEF LocalTypeOK, ClientTypeOK, TryPushRelease, Unlock, PriorEpoch
  <1>18. CASE IncrementDrainCount(t)
    BY <1>18, <1>0 DEF LocalTypeOK, ClientTypeOK, IncrementDrainCount, AddDrainCount, Return
  <1>19. CASE TrySwap(t)
    BY <1>19, <1>0 DEF LocalTypeOK, ClientTypeOK, TrySwap, CanLock, CannotLock, Lock, TryNextSlot
  <1>20. CASE TrySwapRelease(t)
    BY <1>20, <1>0 DEF LocalTypeOK, ClientTypeOK, TrySwapRelease, Unlock, PriorEpoch
  <1>21. CASE RunSwapped(t)
    BY <1>21, <1>0 DEF LocalTypeOK, ClientTypeOK, RunSwapped, Return
  <1>22. ASSUME NEW call \in {"protect", "refresh", "reenter"}, EnterLoad(t, call) PROVE Kept(u)
    BY <1>22, <1>0 DEF LocalTypeOK, ClientTypeOK, EnterLoad
  <1>23. CASE Unprotect(t)
    BY <1>23, <1>0 DEF LocalTypeOK, ClientTypeOK, Unprotect
  <1>24. CASE ReentrantUnprotect(t)
    BY <1>24, <1>0 DEF LocalTypeOK, ClientTypeOK, ReentrantUnprotect
  <1>25. ASSUME NEW o \in Object, Acquire(t, o) PROVE Kept(u)
    BY <1>25, <1>0 DEF LocalTypeOK, ClientTypeOK, Acquire
  <1>26. ASSUME NEW o \in Object, Retire(t, o) PROVE Kept(u)
    BY <1>26, <1>0 DEF LocalTypeOK, ClientTypeOK, Retire
  <1>27. CASE FlushStore(t)
    BY <1>27 DEF FlushStore
  <1>q. QED
    BY <1>1, <1>2, <1>3, <1>4, <1>5, <1>6, <1>7, <1>8, <1>9, <1>10, <1>11,
        <1>12, <1>13, <1>14, <1>15, <1>16, <1>17, <1>18, <1>19, <1>20, <1>21,
        <1>22, <1>23, <1>24, <1>25, <1>26, <1>27 DEF ThreadNext, Step

LEMMA LockType ==
  ASSUME SharedTypeOK, NEW t \in Thread, idx[t] \in Slot, Lock(t)
  PROVE  SharedTypeOK'
  <1>1. kLocked \in 0 .. kFree
    BY BoundAssumption DEF kLocked, kFree
  <1>2. drain_list_' \in [Slot -> [epoch : 0 .. kFree, context : Object \cup {None}]]
    BY <1>1 DEF SharedTypeOK, Lock
  <1>3. QED
    BY <1>2 DEF SharedTypeOK, Lock

LEMMA UnlockType ==
  ASSUME SharedTypeOK, NEW t \in Thread, idx[t] \in Slot,
         NEW e \in 0 .. kFree, NEW c \in Object \cup {None}, Unlock(t, e, c)
  PROVE  SharedTypeOK'
  <1>1. drain_list_' \in [Slot -> [epoch : 0 .. kFree, context : Object \cup {None}]]
    BY DEF SharedTypeOK, Unlock
  <1>2. QED
    BY <1>1 DEF SharedTypeOK, Unlock

LEMMA SharedTypeStep ==
  ASSUME BaseInv, NEW t \in Thread, ThreadNext(t)
  PROVE  SharedTypeOK'
  <1>0. SharedTypeOK /\ Control(t) /\ LocalTypeOK /\ ClientTypeOK
    BY Basics DEF BaseInv, TypeOK
  <1>1. CASE UNCHANGED <<current_epoch, safe_to_reclaim_epoch, drain_count_, drain_list_>>
    BY <1>0, <1>1 DEF SharedTypeOK
  <1>2. CASE ScanDone(t)
    <2>1. oldest[t] \in 1 .. MaxEpoch
      BY <1>0, <1>2 DEF ScanDone, Control, LocalTypeOK
    <2>2. safe_to_reclaim_epoch' \in 0 .. MaxEpoch
      BY <1>2, <2>1, BoundAssumption DEF ScanDone
    <2>3. QED
      BY <1>0, <1>2, <2>2 DEF ScanDone, SharedTypeOK
  <1>3. CASE DecrementDrainCount(t) \/ IncrementDrainCount(t)
    <2>1. drain_count_ \in Int
      BY <1>0, BoundAssumption DEF SharedTypeOK
    <2>2. drain_count_' \in 0 .. CountMod - 1
      BY <1>3, <2>1, CountRange
      DEF DecrementDrainCount, IncrementDrainCount, AddDrainCount
    <2>3. QED
      BY <1>0, <1>3, <2>2 DEF DecrementDrainCount, IncrementDrainCount, SharedTypeOK
  <1>4. CASE IncrementEpoch(t)
    BY <1>0, <1>4, BoundAssumption DEF IncrementEpoch, SharedTypeOK
  <1>5. CASE Lock(t) /\ (TryPop(t) \/ TryPush(t) \/ TrySwap(t))
    <2>1. idx[t] \in Slot
      BY <1>0, <1>5 DEF TryPop, TryPush, TrySwap, Control, DrainLabels, PushLabels
    <2>2. QED
      BY <1>0, <1>5, <2>1, LockType
  <1>6. CASE TryPopRelease(t) \/ TryPushRelease(t) \/ TrySwapRelease(t)
    <2>1. idx[t] \in Slot /\ next[t] >= 1
      BY <1>0, <1>6
      DEF TryPopRelease, TryPushRelease, TrySwapRelease, Control, DrainLabels, PushLabels
    <2>2. PriorEpoch(t) \in 0 .. kFree /\ kFree \in 0 .. kFree
      BY <1>0, <2>1, BoundAssumption DEF PriorEpoch, kFree, LocalTypeOK
    <2>3. ctx[t] \in Object \cup {None}
      BY <1>0 DEF ClientTypeOK
    <2>4. QED
      BY <1>0, <1>6, <2>1, <2>2, <2>3, UnlockType
      DEF TryPopRelease, TryPushRelease, TrySwapRelease
  <1>7. QED
    BY <1>1, <1>2, <1>3, <1>4, <1>5, <1>6, SharedFrame

LEMMA ClientTypeStep ==
  ASSUME BaseInv, NEW t \in Thread, ThreadNext(t)
  PROVE  ClientTypeOK'
  <1>0. ClientTypeOK /\ Control(t)
    BY Basics DEF BaseInv, TypeOK
  <1>c. idx[t] \in Slot => drain_list_[idx[t]].context \in Object \cup {None}
    BY DEF BaseInv, TypeOK, SharedTypeOK
  <1>1. CASE UNCHANGED <<ctx, popped, linked, held, freed>>
    BY <1>0, <1>1 DEF ClientTypeOK
  <1>2. ASSUME NEW call \in {"protect", "refresh", "reenter"}, EnterLoad(t, call)
        PROVE  ClientTypeOK'
    BY <1>0, <1>2 DEF EnterLoad, ClientTypeOK
  <1>3. CASE Unprotect(t)
    BY <1>0, <1>3 DEF Unprotect, ClientTypeOK
  <1>4. CASE ReentrantUnprotect(t)
    BY <1>0, <1>4 DEF ReentrantUnprotect, ClientTypeOK
  <1>5. ASSUME NEW o \in Object, Acquire(t, o) PROVE ClientTypeOK'
    BY <1>0, <1>5 DEF Acquire, ClientTypeOK
  <1>6. ASSUME NEW o \in Object, Retire(t, o) PROVE ClientTypeOK'
    BY <1>0, <1>6 DEF Retire, ClientTypeOK
  <1>7. CASE TryPopRelease(t)
    <2>1. drain_list_[idx[t]].context \in Object \cup {None}
      BY <1>0, <1>7, <1>c DEF TryPopRelease, Control, DrainLabels
    <2>2. QED
      BY <1>0, <1>7, <2>1 DEF TryPopRelease, ClientTypeOK, client
  <1>8. CASE RunPopped(t)
    BY <1>0, <1>8 DEF RunPopped, ClientTypeOK, Control
  <1>9. CASE TryPushRelease(t)
    BY <1>0, <1>9 DEF TryPushRelease, ClientTypeOK, client
  <1>10. CASE TrySwapRelease(t)
    <2>1. drain_list_[idx[t]].context \in Object \cup {None}
      BY <1>0, <1>10, <1>c DEF TrySwapRelease, Control, PushLabels
    <2>2. QED
      BY <1>0, <1>10, <2>1 DEF TrySwapRelease, ClientTypeOK, client
  <1>11. CASE RunSwapped(t)
    BY <1>0, <1>11 DEF RunSwapped, ClientTypeOK, Control
  <1>12. QED
    BY <1>1, <1>2, <1>3, <1>4, <1>5, <1>6, <1>7, <1>8, <1>9, <1>10, <1>11,
       ClientFrame

LEMMA EpochGrows ==
  ASSUME BaseInv, NEW t \in Thread, ThreadNext(t)
  PROVE  /\ current_epoch' \in Int /\ current_epoch \in Int
         /\ current_epoch' >= current_epoch
  <1>1. current_epoch' = current_epoch \/ current_epoch' = current_epoch + 1
    BY SharedFrame
    DEF ScanDone, DecrementDrainCount, IncrementEpoch, IncrementDrainCount, Lock,
        TryPopRelease, TryPushRelease, TrySwapRelease, Unlock
  <1>2. QED
    BY <1>1, BoundAssumption DEF BaseInv, TypeOK, SharedTypeOK

LEMMA OwnedSlotKept ==
  ASSUME BaseInv, NEW t \in Thread, ThreadNext(t),
         NEW u \in Thread, u # t, pc[u] \in Owning
  PROVE  drain_list_'[idx[u]] = drain_list_[idx[u]]
  <1>0. /\ drain_list_[idx[u]].epoch = kLocked
        /\ pc[t] \in Owning => idx[u] # idx[t]
        /\ drain_list_ \in [Slot -> [epoch : 0 .. kFree, context : Object \cup {None}]]
        /\ idx[u] \in Slot
    BY Basics DEF BaseInv, LockInv, TypeOK, SharedTypeOK, Control, DrainLabels, PushLabels, Owning
  <1>1. CASE UNCHANGED drain_list_
    BY <1>1
  <1>2. CASE /\ Lock(t)
             /\ \/ TryPop(t) /\ CanLock(t, trigger[t])
                \/ TryPush(t) /\ CanLock(t, kFree)
                \/ TrySwap(t) /\ CanLock(t, trigger[t])
    <2>1. pc[t] \in {"pop", "swap_lock"} => trigger[t] # kLocked
      BY Basics, BoundAssumption DEF Control, kLocked
    <2>2. kFree # kLocked
      BY BoundAssumption DEF kFree, kLocked
    <2>3. drain_list_[idx[t]].epoch # kLocked
      BY <1>2, <2>1, <2>2 DEF TryPop, TrySwap, CanLock
    <2>4. QED
      <3>1. idx[u] # idx[t]
        BY <1>0, <2>3
      <3>2. drain_list_' = [drain_list_ EXCEPT ![idx[t]].epoch = kLocked]
        BY <1>2 DEF Lock
      <3>3. QED
        BY <1>0, <3>1, <3>2
  <1>3. CASE TryPopRelease(t) \/ TryPushRelease(t) \/ TrySwapRelease(t)
    <2>1. idx[u] # idx[t]
      BY <1>0, <1>3 DEF TryPopRelease, TryPushRelease, TrySwapRelease, Owning
    <2>2. \E r : drain_list_' = [drain_list_ EXCEPT ![idx[t]] = r]
      BY <1>3 DEF TryPopRelease, TryPushRelease, TrySwapRelease, Unlock
    <2>3. QED
      BY <1>0, <2>1, <2>2
  <1>4. QED
    <2>1. ScanDone(t) \/ DecrementDrainCount(t) \/ IncrementEpoch(t) \/ IncrementDrainCount(t)
            => UNCHANGED drain_list_
      BY DEF ScanDone, DecrementDrainCount, IncrementEpoch, IncrementDrainCount
    <2>2. QED
      BY <1>1, <1>2, <1>3, <2>1, SharedFrame

\* What a step does to its own thread's locals and contexts.
Now(t, l, n, i, o, c, p) ==
  /\ pc'[t] = l /\ next'[t] = n /\ idx'[t] = i
  /\ oldest'[t] = o /\ ctx'[t] = c /\ popped'[t] = p

LEMMA LockedHasContext ==
  ASSUME BaseInv, NEW t \in Thread, TryPop(t) \/ TrySwap(t),
         pc'[t] \in {"popped", "swapping"}
  PROVE  drain_list_'[idx'[t]].context # None
  <1>0. /\ pc \in [Thread -> Labels]
        /\ drain_list_ \in [Slot -> [epoch : 0 .. kFree, context : Object \cup {None}]]
        /\ idx[t] \in Slot
    BY Basics DEF BaseInv, TypeOK, LocalTypeOK, SharedTypeOK, TryPop, TrySwap, Control,
                  DrainLabels, PushLabels
  <1>1. CanLock(t, trigger[t]) /\ Lock(t) /\ UNCHANGED idx
    BY <1>0 DEF TryPop, TrySwap, NextSlot, TryNextSlot, Goto
  <1>2. trigger[t] < kLocked
    BY Basics DEF TryPop, TrySwap, Control
  <1>3. drain_list_[idx[t]].context # None
    BY <1>0, <1>1, <1>2 DEF CanLock, BaseInv, EpochInv
  <1>4. QED
    BY <1>0, <1>1, <1>3 DEF Lock

LEMMA FreeHasNoContext ==
  ASSUME BaseInv, NEW t \in Thread, TryPush(t), pc'[t] = "pushing"
  PROVE  drain_list_'[idx'[t]].context = None
  <1>0. /\ pc \in [Thread -> Labels]
        /\ drain_list_ \in [Slot -> [epoch : 0 .. kFree, context : Object \cup {None}]]
        /\ idx[t] \in Slot
    BY Basics DEF BaseInv, TypeOK, LocalTypeOK, SharedTypeOK, TryPush, Control, PushLabels
  <1>1. CanLock(t, kFree) /\ Lock(t) /\ UNCHANGED idx
    BY <1>0 DEF TryPush, TryNextSlot, Goto
  <1>2. drain_list_[idx[t]].context = None
    BY <1>0, <1>1 DEF CanLock, BaseInv, EpochInv
  <1>3. QED
    BY <1>0, <1>1, <1>2 DEF Lock

LEMMA ControlSelf ==
  ASSUME BaseInv, NEW t \in Thread, ThreadNext(t)
  PROVE  Control(t)'
  <1> USE BoundAssumption DEF Goto, SetIdx, locals, client
  <1>0. LocalTypeOK /\ ClientTypeOK
    BY DEF BaseInv, TypeOK
  <1>k. /\ Control(t)
        /\ current_epoch \in 1 .. MaxEpoch
        /\ current_epoch' \in Int /\ current_epoch' >= current_epoch
    BY EpochGrows, Basics DEF BaseInv, TypeOK, SharedTypeOK
  <1>s. TryPop(t) \/ TrySwap(t) =>
          (pc'[t] \in {"popped", "swapping"} => drain_list_'[idx'[t]].context # None)
    BY LockedHasContext
  <1>m. (idx[t] + 1) % DrainListSize \in Slot
    BY <1>0, SlotRange DEF LocalTypeOK
  <1>c. trigger[t] <= safe_to_reclaim_epoch => trigger[t] < kLocked
    BY <1>0 DEF LocalTypeOK, BaseInv, TypeOK, SharedTypeOK, kLocked, kFree
  <1>1. CASE ProtectStore(t)
    <2>1. Now(t, "idle", 0, 0, 0, ctx[t], popped[t])
      BY <1>1, <1>0 DEF LocalTypeOK, ClientTypeOK, Now, ProtectStore, Return
    <2>2. QED
      BY <1>1, <1>0, <1>k, <2>1 DEF Control, DrainLabels, PushLabels, Registering, Slot, LocalTypeOK, Now, ProtectStore
  <1>2. CASE ReentrantProtectStore(t)
    <2>1. Now(t, "idle", 0, 0, 0, ctx[t], popped[t])
      BY <1>2, <1>0 DEF LocalTypeOK, ClientTypeOK, Now, ReentrantProtectStore, Return
    <2>2. QED
      BY <1>2, <1>0, <1>k, <2>1 DEF Control, DrainLabels, PushLabels, Registering, Slot, LocalTypeOK, Now, ReentrantProtectStore
  <1>3. CASE ProtectAndDrainStore(t)
    <2>1. Now(t, "check", next[t], idx[t], oldest[t], ctx[t], popped[t])
      BY <1>3, <1>0 DEF LocalTypeOK, ClientTypeOK, Now, ProtectAndDrainStore
    <2>2. QED
      BY <1>3, <1>0, <1>k, <2>1 DEF Control, DrainLabels, PushLabels, Registering, Slot, LocalTypeOK, Now, ProtectAndDrainStore
  <1>4. CASE CheckDrainCount(t)
    <2>1. \/ Now(t, "scan", next[t], 1, next[t], ctx[t], popped[t])
          \/ ctx[t] = None /\ Now(t, "idle", 0, 0, 0, ctx[t], popped[t])
          \/ ctx[t] # None /\ Now(t, "push", next[t], 0, 0, ctx[t], popped[t])
      BY <1>4, <1>0 DEF LocalTypeOK, ClientTypeOK, Now, CheckDrainCount, EndDrain, Return
    <2>2. pc[t] = "check" /\ UNCHANGED held
      BY <1>4 DEF CheckDrainCount
    <2>3. CASE Now(t, "scan", next[t], 1, next[t], ctx[t], popped[t])
      BY <1>0, <1>k, <2>2, <2>3
      DEF Control, DrainLabels, PushLabels, Registering, Slot, LocalTypeOK, Now
    <2>4. CASE ctx[t] = None /\ Now(t, "idle", 0, 0, 0, ctx[t], popped[t])
      BY <1>0, <1>k, <2>2, <2>4
      DEF Control, DrainLabels, PushLabels, Registering, Slot, LocalTypeOK, Now
    <2>5. CASE ctx[t] # None /\ Now(t, "push", next[t], 0, 0, ctx[t], popped[t])
      BY <1>0, <1>k, <2>2, <2>5
      DEF Control, DrainLabels, PushLabels, Registering, Slot, LocalTypeOK, Now
    <2>6. QED
      BY <2>1, <2>3, <2>4, <2>5
  <1>5. CASE ScanEntry(t)
    <2>0. View(t, idx[t]) \in 0 .. current_epoch /\ oldest[t] \in 1 .. current_epoch
      <3>1. idx[t] \in Entry
        BY <1>5, <1>0, ThreadAssumption DEF ScanEntry, LocalTypeOK, Entry
      <3>2. View(t, idx[t]) <= current_epoch /\ View(t, idx[t]) \in 0 .. MaxEpoch
        BY <3>1, ViewBound
      <3>3. QED
        BY <1>5, <1>k, <3>2 DEF ScanEntry, Control
    <2>1. \E e \in 1 .. current_epoch :
            Now(t, "scan", next[t], idx[t] + 1, e, ctx[t], popped[t])
      <3>2. oldest'[t] \in 1 .. current_epoch
        BY <1>5, <1>0, <2>0 DEF ScanEntry, LocalTypeOK, kUnprotected
      <3>3. QED
        BY <1>5, <1>0, <3>2 DEF ScanEntry, LocalTypeOK, ClientTypeOK, Now
    <2>2. QED
      BY <1>5, <1>0, <1>k, <2>1 DEF Control, DrainLabels, PushLabels, Registering, Slot, LocalTypeOK, Now, ScanEntry
  <1>6. CASE ScanDone(t)
    <2>1. Now(t, "drain", next[t], 0, 0, ctx[t], popped[t])
      BY <1>6, <1>0 DEF LocalTypeOK, ClientTypeOK, Now, ScanDone
    <2>2. QED
      BY <1>6, <1>0, <1>k, <2>1 DEF Control, DrainLabels, PushLabels, Registering, Slot, LocalTypeOK, Now, ScanDone
  <1>7. CASE DrainLoad(t)
    <2>1. \/ idx[t] < DrainListSize /\ Now(t, "drain_cmp", next[t], idx[t], oldest[t], ctx[t], popped[t])
          \/ ctx[t] = None /\ Now(t, "idle", 0, 0, 0, ctx[t], popped[t])
          \/ ctx[t] # None /\ Now(t, "push", next[t], 0, 0, ctx[t], popped[t])
      BY <1>7, <1>0 DEF LocalTypeOK, ClientTypeOK, Now, DrainLoad, EndDrain, Return
    <2>2. pc[t] = "drain" /\ UNCHANGED held
      BY <1>7 DEF DrainLoad
    <2>3. CASE idx[t] < DrainListSize /\ Now(t, "drain_cmp", next[t], idx[t], oldest[t], ctx[t], popped[t])
      BY <1>0, <1>k, <2>2, <2>3
      DEF Control, DrainLabels, PushLabels, Registering, Slot, LocalTypeOK, Now
    <2>4. CASE ctx[t] = None /\ Now(t, "idle", 0, 0, 0, ctx[t], popped[t])
      BY <1>0, <1>k, <2>2, <2>4
      DEF Control, DrainLabels, PushLabels, Registering, Slot, LocalTypeOK, Now
    <2>5. CASE ctx[t] # None /\ Now(t, "push", next[t], 0, 0, ctx[t], popped[t])
      BY <1>0, <1>k, <2>2, <2>5
      DEF Control, DrainLabels, PushLabels, Registering, Slot, LocalTypeOK, Now
    <2>6. QED
      BY <2>1, <2>3, <2>4, <2>5
  <1>8. CASE DrainCompare(t)
    <2>1. \/ Now(t, "pop", next[t], idx[t], oldest[t], ctx[t], popped[t])
          \/ Now(t, "drain", next[t], idx[t] + 1, oldest[t], ctx[t], popped[t])
      BY <1>8, <1>0 DEF LocalTypeOK, ClientTypeOK, Now, DrainCompare, NextSlot
    <2>2. pc[t] = "drain_cmp" /\ UNCHANGED held
      BY <1>8 DEF DrainCompare
    <2>d. pc'[t] = "pop" => trigger'[t] < kLocked
      BY <1>8, <1>0, <1>c DEF DrainCompare, NextSlot, LocalTypeOK
    <2>3. CASE Now(t, "pop", next[t], idx[t], oldest[t], ctx[t], popped[t])
      BY <1>0, <1>k, <2>2, <2>3, <2>d
      DEF Control, DrainLabels, PushLabels, Registering, Slot, LocalTypeOK, Now
    <2>4. CASE Now(t, "drain", next[t], idx[t] + 1, oldest[t], ctx[t], popped[t])
      BY <1>0, <1>k, <2>2, <2>4
      DEF Control, DrainLabels, PushLabels, Registering, Slot, LocalTypeOK, Now
    <2>5. QED
      BY <2>1, <2>3, <2>4
  <1>9. CASE TryPop(t)
    <2>1. \/ Now(t, "popped", next[t], idx[t], oldest[t], ctx[t], popped[t])
          \/ Now(t, "drain", next[t], idx[t] + 1, oldest[t], ctx[t], popped[t])
      BY <1>9, <1>0 DEF LocalTypeOK, ClientTypeOK, Now, TryPop, CanLock, CannotLock, Lock, NextSlot
    <2>2. pc[t] = "pop" /\ UNCHANGED held
      BY <1>9 DEF TryPop
    <2>3. CASE Now(t, "popped", next[t], idx[t], oldest[t], ctx[t], popped[t])
      BY <1>9, <1>0, <1>k, <2>2, <2>3, <1>s
      DEF Control, DrainLabels, PushLabels, Registering, Slot, LocalTypeOK, Now
    <2>4. CASE Now(t, "drain", next[t], idx[t] + 1, oldest[t], ctx[t], popped[t])
      BY <1>9, <1>0, <1>k, <2>2, <2>4, <1>s
      DEF Control, DrainLabels, PushLabels, Registering, Slot, LocalTypeOK, Now
    <2>5. QED
      BY <2>1, <2>3, <2>4
  <1>10. CASE TryPopRelease(t)
    <2>1. Now(t, "run", next[t], idx[t], oldest[t], ctx[t], drain_list_[idx[t]].context)
      BY <1>10, <1>0 DEF LocalTypeOK, ClientTypeOK, Now, TryPopRelease, Unlock
    <2>2. QED
      BY <1>10, <1>0, <1>k, <2>1 DEF Control, DrainLabels, PushLabels, Registering, Slot, LocalTypeOK, Now, TryPopRelease
  <1>11. CASE RunPopped(t)
    <2>1. Now(t, "dec", next[t], idx[t], oldest[t], ctx[t], None)
      BY <1>11, <1>0 DEF LocalTypeOK, ClientTypeOK, Now, RunPopped
    <2>2. QED
      BY <1>11, <1>0, <1>k, <2>1 DEF Control, DrainLabels, PushLabels, Registering, Slot, LocalTypeOK, Now, RunPopped
  <1>12. CASE DecrementDrainCount(t)
    <2>1. \/ ctx[t] = None /\ Now(t, "idle", 0, 0, 0, ctx[t], popped[t])
          \/ ctx[t] # None /\ Now(t, "push", next[t], 0, 0, ctx[t], popped[t])
          \/ Now(t, "drain", next[t], idx[t] + 1, oldest[t], ctx[t], popped[t])
      BY <1>12, <1>0 DEF LocalTypeOK, ClientTypeOK, Now, DecrementDrainCount, AddDrainCount, EndDrain, Return, NextSlot
    <2>2. pc[t] = "dec" /\ UNCHANGED held
      BY <1>12 DEF DecrementDrainCount
    <2>3. CASE ctx[t] = None /\ Now(t, "idle", 0, 0, 0, ctx[t], popped[t])
      BY <1>0, <1>k, <2>2, <2>3
      DEF Control, DrainLabels, PushLabels, Registering, Slot, LocalTypeOK, Now
    <2>4. CASE ctx[t] # None /\ Now(t, "push", next[t], 0, 0, ctx[t], popped[t])
      BY <1>0, <1>k, <2>2, <2>4
      DEF Control, DrainLabels, PushLabels, Registering, Slot, LocalTypeOK, Now
    <2>5. CASE Now(t, "drain", next[t], idx[t] + 1, oldest[t], ctx[t], popped[t])
      BY <1>0, <1>k, <2>2, <2>5
      DEF Control, DrainLabels, PushLabels, Registering, Slot, LocalTypeOK, Now
    <2>6. QED
      BY <2>1, <2>3, <2>4, <2>5
  <1>13. CASE IncrementEpoch(t)
    <2>1. Now(t, "check", current_epoch + 1, idx[t], oldest[t], ctx[t], popped[t])
      BY <1>13, <1>0 DEF LocalTypeOK, ClientTypeOK, Now, IncrementEpoch
    <2>2. QED
      BY <1>13, <1>0, <1>k, <2>1 DEF Control, DrainLabels, PushLabels, Registering, Slot, LocalTypeOK, Now, IncrementEpoch
  <1>14. CASE PushLoad(t)
    <2>1. \/ Now(t, "push_lock", next[t], idx[t], oldest[t], ctx[t], popped[t])
          \/ Now(t, "push_cmp", next[t], idx[t], oldest[t], ctx[t], popped[t])
      BY <1>14, <1>0 DEF LocalTypeOK, ClientTypeOK, Now, PushLoad
    <2>2. pc[t] = "push" /\ UNCHANGED held
      BY <1>14 DEF PushLoad
    <2>3. CASE Now(t, "push_lock", next[t], idx[t], oldest[t], ctx[t], popped[t])
      BY <1>0, <1>k, <2>2, <2>3
      DEF Control, DrainLabels, PushLabels, Registering, Slot, LocalTypeOK, Now
    <2>4. CASE Now(t, "push_cmp", next[t], idx[t], oldest[t], ctx[t], popped[t])
      BY <1>0, <1>k, <2>2, <2>4
      DEF Control, DrainLabels, PushLabels, Registering, Slot, LocalTypeOK, Now
    <2>5. QED
      BY <2>1, <2>3, <2>4
  <1>15. CASE PushCompare(t)
    <2>1. \/ Now(t, "swap_lock", next[t], idx[t], oldest[t], ctx[t], popped[t])
          \/ Now(t, "push", next[t], (idx[t] + 1) % DrainListSize, oldest[t], ctx[t], popped[t])
      BY <1>15, <1>0 DEF LocalTypeOK, ClientTypeOK, Now, PushCompare, TryNextSlot
    <2>2. pc[t] = "push_cmp" /\ UNCHANGED held
      BY <1>15 DEF PushCompare
    <2>d. pc'[t] = "swap_lock" => trigger'[t] < kLocked
      BY <1>15, <1>0, <1>c DEF PushCompare, TryNextSlot, LocalTypeOK
    <2>3. CASE Now(t, "swap_lock", next[t], idx[t], oldest[t], ctx[t], popped[t])
      BY <1>0, <1>k, <2>2, <2>3, <2>d
      DEF Control, DrainLabels, PushLabels, Registering, Slot, LocalTypeOK, Now
    <2>4. CASE Now(t, "push", next[t], (idx[t] + 1) % DrainListSize, oldest[t], ctx[t], popped[t])
      BY <1>0, <1>k, <2>2, <2>4, <1>m
      DEF Control, DrainLabels, PushLabels, Registering, Slot, LocalTypeOK, Now
    <2>5. QED
      BY <2>1, <2>3, <2>4
  <1>16. CASE TryPush(t)
    <2>1. \/ Now(t, "pushing", next[t], idx[t], oldest[t], ctx[t], popped[t])
          \/ Now(t, "push", next[t], (idx[t] + 1) % DrainListSize, oldest[t], ctx[t], popped[t])
      BY <1>16, <1>0 DEF LocalTypeOK, ClientTypeOK, Now, TryPush, CanLock, CannotLock, Lock, TryNextSlot
    <2>2. pc[t] = "push_lock" /\ UNCHANGED held
      BY <1>16 DEF TryPush
    <2>d. pc'[t] = "pushing" => drain_list_'[idx'[t]].context = None
      BY <1>16, FreeHasNoContext
    <2>3. CASE Now(t, "pushing", next[t], idx[t], oldest[t], ctx[t], popped[t])
      BY <1>0, <1>k, <2>2, <2>3, <2>d
      DEF Control, DrainLabels, PushLabels, Registering, Slot, LocalTypeOK, Now
    <2>4. CASE Now(t, "push", next[t], (idx[t] + 1) % DrainListSize, oldest[t], ctx[t], popped[t])
      BY <1>0, <1>k, <2>2, <2>4, <1>m
      DEF Control, DrainLabels, PushLabels, Registering, Slot, LocalTypeOK, Now
    <2>5. QED
      BY <2>1, <2>3, <2>4
  <1>17. CASE TryPushRelease(t)
    <2>1. Now(t, "inc", next[t], idx[t], oldest[t], None, popped[t])
      BY <1>17, <1>0 DEF LocalTypeOK, ClientTypeOK, Now, TryPushRelease, Unlock, PriorEpoch
    <2>2. QED
      BY <1>17, <1>0, <1>k, <2>1 DEF Control, DrainLabels, PushLabels, Registering, Slot, LocalTypeOK, Now, TryPushRelease
  <1>18. CASE IncrementDrainCount(t)
    <2>1. Now(t, "idle", 0, 0, 0, ctx[t], popped[t])
      BY <1>18, <1>0 DEF LocalTypeOK, ClientTypeOK, Now, IncrementDrainCount, AddDrainCount, Return
    <2>2. QED
      BY <1>18, <1>0, <1>k, <2>1 DEF Control, DrainLabels, PushLabels, Registering, Slot, LocalTypeOK, Now, IncrementDrainCount
  <1>19. CASE TrySwap(t)
    <2>1. \/ Now(t, "swapping", next[t], idx[t], oldest[t], ctx[t], popped[t])
          \/ Now(t, "push", next[t], (idx[t] + 1) % DrainListSize, oldest[t], ctx[t], popped[t])
      BY <1>19, <1>0 DEF LocalTypeOK, ClientTypeOK, Now, TrySwap, CanLock, CannotLock, Lock, TryNextSlot
    <2>2. pc[t] = "swap_lock" /\ UNCHANGED held
      BY <1>19 DEF TrySwap
    <2>3. CASE Now(t, "swapping", next[t], idx[t], oldest[t], ctx[t], popped[t])
      BY <1>19, <1>0, <1>k, <2>2, <2>3, <1>s, <1>m
      DEF Control, DrainLabels, PushLabels, Registering, Slot, LocalTypeOK, Now
    <2>4. CASE Now(t, "push", next[t], (idx[t] + 1) % DrainListSize, oldest[t], ctx[t], popped[t])
      BY <1>19, <1>0, <1>k, <2>2, <2>4, <1>s, <1>m
      DEF Control, DrainLabels, PushLabels, Registering, Slot, LocalTypeOK, Now
    <2>5. QED
      BY <2>1, <2>3, <2>4
  <1>20. CASE TrySwapRelease(t)
    <2>1. Now(t, "run_swapped", next[t], idx[t], oldest[t], None, drain_list_[idx[t]].context)
      BY <1>20, <1>0 DEF LocalTypeOK, ClientTypeOK, Now, TrySwapRelease, Unlock, PriorEpoch
    <2>2. QED
      BY <1>20, <1>0, <1>k, <2>1 DEF Control, DrainLabels, PushLabels, Registering, Slot, LocalTypeOK, Now, TrySwapRelease
  <1>21. CASE RunSwapped(t)
    <2>1. Now(t, "idle", 0, 0, 0, ctx[t], None)
      BY <1>21, <1>0 DEF LocalTypeOK, ClientTypeOK, Now, RunSwapped, Return
    <2>2. QED
      BY <1>21, <1>0, <1>k, <2>1 DEF Control, DrainLabels, PushLabels, Registering, Slot, LocalTypeOK, Now, RunSwapped
  <1>22. ASSUME NEW call \in {"protect", "refresh", "reenter"}, EnterLoad(t, call) PROVE Control(t)'
    <2>1. Now(t, call, current_epoch, idx[t], oldest[t], ctx[t], popped[t])
      BY <1>22, <1>0 DEF LocalTypeOK, ClientTypeOK, Now, EnterLoad
    <2>h. held'[t] = {}
      BY <1>22, <1>0 DEF EnterLoad, ClientTypeOK
    <2>2. QED
      BY <1>22, <1>0, <1>k, <2>1, <2>h DEF Control, DrainLabels, PushLabels, Registering, Slot, LocalTypeOK, Now, EnterLoad
  <1>23. CASE Unprotect(t)
    <2>1. Now(t, "idle", next[t], idx[t], oldest[t], ctx[t], popped[t])
      BY <1>23, <1>0 DEF LocalTypeOK, ClientTypeOK, Now, Unprotect
    <2>2. QED
      BY <1>23, <1>0, <1>k, <2>1 DEF Control, DrainLabels, PushLabels, Registering, Slot, LocalTypeOK, Now, Unprotect
  <1>24. CASE ReentrantUnprotect(t)
    <2>1. Now(t, "idle", next[t], idx[t], oldest[t], ctx[t], popped[t])
      BY <1>24, <1>0 DEF LocalTypeOK, ClientTypeOK, Now, ReentrantUnprotect
    <2>2. QED
      BY <1>24, <1>0, <1>k, <2>1 DEF Control, DrainLabels, PushLabels, Registering, Slot, LocalTypeOK, Now, ReentrantUnprotect
  <1>25. ASSUME NEW o \in Object, Acquire(t, o) PROVE Control(t)'
    <2>1. Now(t, "idle", next[t], idx[t], oldest[t], ctx[t], popped[t])
      BY <1>25, <1>0 DEF LocalTypeOK, ClientTypeOK, Now, Acquire
    <2>2. QED
      BY <1>25, <1>0, <1>k, <2>1 DEF Control, DrainLabels, PushLabels, Registering, Slot, LocalTypeOK, Now, Acquire
  <1>26. ASSUME NEW o \in Object, Retire(t, o) PROVE Control(t)'
    <2>1. Now(t, "bump", next[t], idx[t], oldest[t], o, popped[t])
      BY <1>26, <1>0 DEF LocalTypeOK, ClientTypeOK, Now, Retire
    <2>2. QED
      BY <1>26, <1>0, <1>k, <2>1, ObjectAssumption DEF Control, DrainLabels, PushLabels, Registering, Slot, LocalTypeOK, Now, Retire
  <1>27. CASE FlushStore(t)
    <2>1. UNCHANGED <<pc, next, idx, oldest, trigger, ctx, popped, held, drain_list_, current_epoch>>
      BY <1>27 DEF FlushStore, shared
    <2>2. QED
      BY <1>k, <2>1 DEF Control, Registering
  <1>q. QED
    BY <1>1, <1>2, <1>3, <1>4, <1>5, <1>6, <1>7, <1>8, <1>9, <1>10, <1>11,
        <1>12, <1>13, <1>14, <1>15, <1>16, <1>17, <1>18, <1>19, <1>20, <1>21,
        <1>22, <1>23, <1>24, <1>25, <1>26, <1>27 DEF ThreadNext, Step

LEMMA ControlStep ==
  ASSUME BaseInv, NEW t \in Thread, ThreadNext(t)
  PROVE  ControlInv'
  <1> SUFFICES ASSUME NEW u \in Thread PROVE Control(u)'
    BY DEF ControlInv
  <1>1. CASE u = t
    BY <1>1, ControlSelf
  <1>2. CASE u # t
    <2>1. Kept(u)
      BY <1>2, OthersKept
    <2>2. /\ Control(u)
          /\ current_epoch \in Int /\ current_epoch' \in Int
          /\ current_epoch' >= current_epoch
          /\ next[u] \in Int /\ oldest[u] \in Int
      BY Basics, EpochGrows, BoundAssumption DEF BaseInv, TypeOK, LocalTypeOK
    <2>3. pc[u] \in Owning => drain_list_'[idx[u]] = drain_list_[idx[u]]
      BY <1>2, OwnedSlotKept
    <2>4. QED
      BY <2>1, <2>2, <2>3 DEF Control, Kept, Registering, Owning
  <1>3. QED
    BY <1>1, <1>2

\* What a step may publish or leave pending: an epoch that was there before, the
\* epoch the thread has loaded, or kUnprotected.
LEMMA StoreStep ==
  ASSUME BaseInv, NEW t \in Thread, ThreadNext(t)
  PROVE  /\ \A i \in Entry : table_'[i] <= current_epoch
         /\ \A u \in Thread : \A k \in 1 .. Len(store_buffer'[u]) :
              store_buffer'[u][k] <= current_epoch
  <1>0. /\ EntryTypeOK /\ EpochInv /\ t \in Entry
        /\ current_epoch \in 1 .. MaxEpoch
        /\ store_buffer[t] \in Seq(0 .. MaxEpoch)
    BY Basics DEF BaseInv, TypeOK, SharedTypeOK, EntryTypeOK
  <1>1. ASSUME NEW e \in 0 .. MaxEpoch, e <= current_epoch, Publish(t, e)
        PROVE  /\ \A i \in Entry : table_'[i] <= current_epoch
               /\ \A u \in Thread : \A k \in 1 .. Len(store_buffer'[u]) :
                    store_buffer'[u][k] <= current_epoch
    <2>1. CASE table_' = [table_ EXCEPT ![t] = e] /\ UNCHANGED store_buffer
      BY <1>0, <1>1, <2>1 DEF EntryTypeOK, EpochInv
    <2>2. CASE /\ store_buffer' = [store_buffer EXCEPT ![t] = Append(@, e)]
               /\ UNCHANGED table_
      <3>1. ASSUME NEW k \in 1 .. Len(Append(store_buffer[t], e))
            PROVE  Append(store_buffer[t], e)[k] <= current_epoch
        BY <1>0, <1>1, <3>1 DEF EpochInv
      <3>2. QED
        BY <1>0, <2>2, <3>1 DEF EntryTypeOK, EpochInv
    <2>3. QED
      BY <1>1, <2>1, <2>2 DEF Publish
  <1>2. CASE FlushStore(t)
    <2>1. store_buffer[t] # <<>>
      BY <1>2 DEF FlushStore
    <2>2. Head(store_buffer[t]) <= current_epoch
      BY <1>0, <2>1 DEF EpochInv
    <2>3. ASSUME NEW k \in 1 .. Len(Tail(store_buffer[t]))
          PROVE  Tail(store_buffer[t])[k] <= current_epoch
      <3>1. k + 1 \in 1 .. Len(store_buffer[t]) /\ Tail(store_buffer[t])[k] = store_buffer[t][k + 1]
        BY <1>0, <2>1, <2>3
      <3>2. QED
        BY <1>0, <3>1 DEF EpochInv
    <2>4. QED
      BY <1>0, <1>2, <2>2, <2>3 DEF EntryTypeOK, EpochInv, FlushStore
  <1>3. CASE UNCHANGED <<table_, store_buffer>>
    BY <1>0, <1>3 DEF EpochInv
  <1>4. /\ next[t] \in 0 .. MaxEpoch /\ next[t] <= current_epoch
        /\ kUnprotected \in 0 .. MaxEpoch /\ kUnprotected <= current_epoch
    BY <1>0, Basics, BoundAssumption DEF Control, TypeOK, LocalTypeOK, kUnprotected
  <1>5. \/ UNCHANGED <<table_, store_buffer>>
        \/ Publish(t, next[t])
        \/ Publish(t, kUnprotected)
        \/ FlushStore(t)
    BY EntryFrame
    DEF ProtectStore, ReentrantProtectStore, ProtectAndDrainStore, Unprotect,
        ReentrantUnprotect
  <1>6. QED
    BY <1>1, <1>2, <1>3, <1>4, <1>5

LEMMA SafeStep ==
  ASSUME BaseInv, NEW t \in Thread, ThreadNext(t)
  PROVE  \/ safe_to_reclaim_epoch' = safe_to_reclaim_epoch
         \/ ScanDone(t)
  BY SharedFrame
  DEF DecrementDrainCount, IncrementEpoch, IncrementDrainCount, Lock,
      TryPopRelease, TryPushRelease, TrySwapRelease, Unlock

\* How a step changes the drain list: it locks a slot, or its owner gives the
\* slot a new content.
LEMMA ListStep ==
  ASSUME BaseInv, NEW t \in Thread, ThreadNext(t)
  PROVE  \/ drain_list_' = drain_list_
         \/ /\ idx[t] \in Slot
            /\ drain_list_[idx[t]].epoch # kLocked
            /\ drain_list_' = [drain_list_ EXCEPT ![idx[t]].epoch = kLocked]
         \/ /\ idx[t] \in Slot
            /\ TryPopRelease(t)
            /\ drain_list_' = [drain_list_ EXCEPT ![idx[t]] =
                                 [epoch |-> kFree, context |-> None]]
         \/ /\ idx[t] \in Slot
            /\ TryPushRelease(t) \/ TrySwapRelease(t)
            /\ drain_list_' = [drain_list_ EXCEPT ![idx[t]] =
                                 [epoch |-> PriorEpoch(t), context |-> ctx[t]]]
  <1>1. CASE /\ Lock(t)
             /\ \/ TryPop(t) /\ CanLock(t, trigger[t])
                \/ TryPush(t) /\ CanLock(t, kFree)
                \/ TrySwap(t) /\ CanLock(t, trigger[t])
    <2>1. pc[t] \in {"pop", "swap_lock"} => trigger[t] # kLocked
      BY Basics, BoundAssumption DEF Control, kLocked
    <2>2. kFree # kLocked
      BY BoundAssumption DEF kFree, kLocked
    <2>3. drain_list_[idx[t]].epoch # kLocked
      BY <1>1, <2>1, <2>2 DEF TryPop, TrySwap, CanLock
    <2>4. idx[t] \in Slot
      BY <1>1, Basics DEF TryPop, TryPush, TrySwap, Control, DrainLabels, PushLabels
    <2>5. QED
      BY <1>1, <2>3, <2>4 DEF Lock
  <1>2. CASE TryPopRelease(t) \/ TryPushRelease(t) \/ TrySwapRelease(t)
    <2>1. idx[t] \in Slot
      BY <1>2, Basics
      DEF TryPopRelease, TryPushRelease, TrySwapRelease, Control, DrainLabels, PushLabels
    <2>2. QED
      BY <1>2, <2>1 DEF TryPopRelease, TryPushRelease, TrySwapRelease, Unlock
  <1>3. ScanDone(t) \/ DecrementDrainCount(t) \/ IncrementEpoch(t) \/ IncrementDrainCount(t)
          => drain_list_' = drain_list_
    BY DEF ScanDone, DecrementDrainCount, IncrementEpoch, IncrementDrainCount
  <1>4. QED
    BY <1>1, <1>2, <1>3, SharedFrame

LEMMA EpochStep ==
  ASSUME BaseInv, NEW t \in Thread, ThreadNext(t)
  PROVE  EpochInv'
  <1>0. /\ EpochInv /\ Control(t) /\ t \in Entry
        /\ current_epoch \in Int /\ current_epoch' \in Int
        /\ current_epoch' >= current_epoch
        /\ safe_to_reclaim_epoch \in Int
        /\ table_ \in [Entry -> 0 .. MaxEpoch]
        /\ next[t] \in 0 .. MaxEpoch
        /\ drain_list_ \in [Slot -> [epoch : 0 .. kFree, context : Object \cup {None}]]
    BY Basics, EpochGrows, TypeFacts, BoundAssumption DEF BaseInv
  <1>1. safe_to_reclaim_epoch' < current_epoch'
    <2>1. safe_to_reclaim_epoch < current_epoch
      BY <1>0 DEF EpochInv
    <2>2. ScanDone(t) =>
            safe_to_reclaim_epoch' = oldest[t] - 1 /\ oldest[t] \in 1 .. current_epoch
      BY <1>0 DEF ScanDone, Control
    <2>3. QED
      BY <1>0, <2>1, <2>2, SafeStep
  <1>2. /\ \A i \in Entry : table_'[i] <= current_epoch'
        /\ \A u \in Thread : \A k \in 1 .. Len(store_buffer'[u]) :
             store_buffer'[u][k] <= current_epoch'
    <2>1. /\ table_' \in [Entry -> 0 .. MaxEpoch]
          /\ \A u \in Thread : \A k \in 1 .. Len(store_buffer'[u]) :
               store_buffer'[u][k] \in 0 .. MaxEpoch
      BY EntryTypeStep, ElementOfSeq DEF EntryTypeOK
    <2>2. \A n \in Int : n <= current_epoch => n <= current_epoch'
      BY <1>0
    <2>3. \A i \in Entry : table_'[i] \in Int
      BY <2>1, BoundAssumption
    <2>4. QED
      BY <2>1, <2>2, <2>3, StoreStep
  <1>3. ASSUME NEW i \in Slot
        PROVE  /\ drain_list_'[i].epoch < kLocked => drain_list_'[i].context # None
               /\ drain_list_'[i].epoch = kFree => drain_list_'[i].context = None
    <2>1. /\ drain_list_[i].epoch < kLocked => drain_list_[i].context # None
          /\ drain_list_[i].epoch = kFree => drain_list_[i].context = None
      BY <1>0 DEF EpochInv
    <2>2. kFree # kLocked /\ ~(kFree < kLocked) /\ ~(kLocked < kLocked)
      BY BoundAssumption DEF kFree, kLocked
    <2>3. TryPushRelease(t) \/ TrySwapRelease(t) => PriorEpoch(t) # kFree /\ ctx[t] # None
      BY <1>0, BoundAssumption
      DEF TryPushRelease, TrySwapRelease, PriorEpoch, kFree, Control, PushLabels
    <2>4. \/ drain_list_'[i] = drain_list_[i]
          \/ drain_list_'[i].epoch = kLocked
          \/ drain_list_'[i] = [epoch |-> kFree, context |-> None]
          \/ /\ TryPushRelease(t) \/ TrySwapRelease(t)
             /\ drain_list_'[i] = [epoch |-> PriorEpoch(t), context |-> ctx[t]]
      <3>1. CASE drain_list_' = [drain_list_ EXCEPT ![idx[t]].epoch = kLocked]
        BY <1>0, <3>1
      <3>2. CASE drain_list_' = [drain_list_ EXCEPT ![idx[t]] =
                                   [epoch |-> kFree, context |-> None]]
        BY <1>0, <3>2
      <3>3. CASE /\ TryPushRelease(t) \/ TrySwapRelease(t)
                 /\ drain_list_' = [drain_list_ EXCEPT ![idx[t]] =
                                      [epoch |-> PriorEpoch(t), context |-> ctx[t]]]
        BY <1>0, <3>3
      <3>4. QED
        BY <3>1, <3>2, <3>3, ListStep
    <2>5. QED
      BY <2>1, <2>2, <2>3, <2>4
  <1>4. QED
    BY <1>1, <1>2, <1>3 DEF EpochInv

\* A step that acquires the lock of a slot.
LEMMA BecomesOwner ==
  ASSUME BaseInv, NEW t \in Thread, ThreadNext(t), ~FlushStore(t),
         pc'[t] \in Owning
  PROVE  /\ idx'[t] = idx[t] /\ idx[t] \in Slot
         /\ drain_list_[idx[t]].epoch # kLocked
         /\ drain_list_' = [drain_list_ EXCEPT ![idx[t]].epoch = kLocked]
         /\ pc'[t] \in {"popped", "swapping"} =>
              pc[t] \in {"pop", "swap_lock"} /\ drain_list_[idx[t]].epoch = trigger[t]
  <1>0. pc \in [Thread -> Labels] /\ idx \in [Thread -> Nat]
    BY TypeFacts
  <1>1. \/ TryPop(t) /\ CanLock(t, trigger[t]) /\ Lock(t) /\ UNCHANGED idx
        \/ TryPush(t) /\ CanLock(t, kFree) /\ Lock(t) /\ UNCHANGED idx /\ pc'[t] = "pushing"
        \/ TrySwap(t) /\ CanLock(t, trigger[t]) /\ Lock(t) /\ UNCHANGED idx
    <2>1. CASE TryPop(t) \/ TryPush(t) \/ TrySwap(t)
      BY <1>0, <2>1 DEF TryPop, TryPush, TrySwap, NextSlot, TryNextSlot, Goto, Owning
    <2>2. ~(TryPop(t) \/ TryPush(t) \/ TrySwap(t)) => pc'[t] \notin Owning
      <3>1. ~(TryPop(t) \/ TryPush(t) \/ TrySwap(t)) =>
              pc'[t] \in Labels \ Owning \/ (pc'[t] = pc[t] /\ pc[t] \in Labels \ Owning)
        BY <1>0 DEF Owning, Labels, Goto, Return, EndDrain, NextSlot, TryNextSlot,
          ThreadNext, Step, ProtectStore, ReentrantProtectStore,
          ProtectAndDrainStore, CheckDrainCount, ScanEntry, ScanDone, DrainLoad,
          DrainCompare, TryPopRelease, RunPopped, DecrementDrainCount,
          IncrementEpoch, PushLoad, PushCompare, TryPushRelease,
          IncrementDrainCount, TrySwapRelease, RunSwapped, EnterLoad, Unprotect,
          ReentrantUnprotect, Acquire, Retire
      <3>2. QED
        BY <3>1
    <2>3. QED
      BY <2>1, <2>2
  <1>2. pc[t] \in {"pop", "swap_lock"} => trigger[t] # kLocked
    BY Basics, BoundAssumption DEF Control, kLocked
  <1>3. kFree # kLocked
    BY BoundAssumption DEF kFree, kLocked
  <1>4. idx[t] \in Slot
    BY <1>1, Basics DEF TryPop, TryPush, TrySwap, Control, DrainLabels, PushLabels
  <1>5. QED
    BY <1>1, <1>2, <1>3, <1>4 DEF TryPop, TryPush, TrySwap, CanLock, Lock

LEMMA LockStep ==
  ASSUME BaseInv, NEW t \in Thread, ThreadNext(t)
  PROVE  LockInv'
  <1> SUFFICES ASSUME ~FlushStore(t) PROVE LockInv'
    BY DEF FlushStore, shared, locals, BaseInv, LockInv
  <1>0. drain_list_ \in [Slot -> [epoch : 0 .. kFree, context : Object \cup {None}]]
    BY TypeFacts
  <1>1. ASSUME NEW u \in Thread, u # t, pc'[u] \in Owning
        PROVE  /\ drain_list_'[idx'[u]].epoch = kLocked
               /\ pc[u] \in Owning /\ idx'[u] = idx[u]
               /\ drain_list_[idx[u]].epoch = kLocked
    <2>1. Kept(u)
      BY <1>1, OthersKept
    <2>2. pc[u] \in Owning /\ idx'[u] = idx[u]
      BY <1>1, <2>1 DEF Kept
    <2>3. QED
      BY <1>1, <2>2, OwnedSlotKept DEF BaseInv, LockInv
  <1>2. ASSUME pc'[t] \in Owning, NEW u \in Thread, u # t, pc'[u] \in Owning
        PROVE  idx'[u] # idx'[t]
    <2>1. drain_list_[idx[t]].epoch # kLocked /\ idx'[t] = idx[t]
      BY <1>2, BecomesOwner
    <2>2. QED
      BY <1>1, <1>2, <2>1
  <1>3. ASSUME NEW u \in Thread, NEW v \in Thread, u # t, v # t, u # v,
               pc'[u] \in Owning, pc'[v] \in Owning
        PROVE  idx'[u] # idx'[v]
    BY <1>1, <1>3 DEF BaseInv, LockInv
  <1>4. ASSUME pc'[t] \in Owning PROVE drain_list_'[idx'[t]].epoch = kLocked
    <2>1. /\ idx'[t] = idx[t] /\ idx[t] \in Slot
          /\ drain_list_' = [drain_list_ EXCEPT ![idx[t]].epoch = kLocked]
      BY <1>4, BecomesOwner
    <2>2. QED
      BY <1>0, <2>1
  <1>5. QED
    BY <1>1, <1>2, <1>3, <1>4 DEF LockInv

\* What a step may put into the drain list.
LEMMA SlotStep ==
  ASSUME BaseInv, NEW t \in Thread, ThreadNext(t), NEW i \in Slot
  PROVE  \/ drain_list_'[i] = drain_list_[i]
         \/ /\ drain_list_'[i].epoch = kLocked
            /\ drain_list_'[i].context = drain_list_[i].context
         \/ /\ drain_list_'[i].epoch = kFree
            /\ drain_list_'[i].context = None
         \/ /\ Registering(t)
            /\ drain_list_'[i].epoch = PriorEpoch(t)
            /\ drain_list_'[i].context = ctx[t]
  <1>0. drain_list_ \in [Slot -> [epoch : 0 .. kFree, context : Object \cup {None}]]
    BY TypeFacts
  <1>1. TryPushRelease(t) \/ TrySwapRelease(t) => Registering(t)
    BY Basics DEF TryPushRelease, TrySwapRelease, Control, PushLabels, Registering
  <1>2. CASE drain_list_' = [drain_list_ EXCEPT ![idx[t]].epoch = kLocked]
    BY <1>0, <1>2
  <1>3. CASE drain_list_' = [drain_list_ EXCEPT ![idx[t]] =
                               [epoch |-> kFree, context |-> None]]
    BY <1>0, <1>3
  <1>4. CASE /\ TryPushRelease(t) \/ TrySwapRelease(t)
             /\ drain_list_' = [drain_list_ EXCEPT ![idx[t]] =
                                  [epoch |-> PriorEpoch(t), context |-> ctx[t]]]
    BY <1>0, <1>1, <1>4
  <1>5. QED
    BY <1>2, <1>3, <1>4, ListStep

\* Where a step may get the object of a thread's ctx, popped or freed from.
LEMMA ContextStep ==
  ASSUME BaseInv, NEW t \in Thread, ThreadNext(t)
  PROVE  /\ linked' \subseteq linked
         /\ ctx'[t] = ctx[t] \/ ctx'[t] = None \/ ctx'[t] \notin linked'
         /\ \/ popped'[t] = popped[t] \/ popped'[t] = None
            \/ /\ pc[t] \in {"popped", "swapping"} /\ idx[t] \in Slot
               /\ popped'[t] = drain_list_[idx[t]].context
         /\ freed' = freed \/ (freed' = freed \cup {popped[t]} /\ popped[t] # None)
  <1>0. /\ ctx \in [Thread -> Object \cup {None}]
        /\ popped \in [Thread -> Object \cup {None}]
        /\ Control(t)
    BY TypeFacts, Basics
  <1>1. CASE UNCHANGED <<ctx, popped, linked, held, freed>>
    BY <1>1
  <1>2. ASSUME NEW call \in {"protect", "refresh", "reenter"}, EnterLoad(t, call)
        PROVE  UNCHANGED <<ctx, popped, linked, freed>>
    BY <1>2 DEF EnterLoad
  <1>3. CASE Unprotect(t) \/ ReentrantUnprotect(t)
    BY <1>3 DEF Unprotect, ReentrantUnprotect
  <1>4. ASSUME NEW o \in Object, Acquire(t, o)
        PROVE  UNCHANGED <<ctx, popped, linked, freed>>
    BY <1>4 DEF Acquire
  <1>5. ASSUME NEW o \in Object, Retire(t, o)
        PROVE  /\ linked' \subseteq linked /\ ctx'[t] \notin linked'
               /\ popped' = popped /\ freed' = freed
    BY <1>0, <1>5 DEF Retire
  <1>6. CASE TryPopRelease(t) \/ TrySwapRelease(t)
    BY <1>0, <1>6
    DEF TryPopRelease, TrySwapRelease, client, Control, DrainLabels, PushLabels
  <1>7. CASE TryPushRelease(t)
    BY <1>0, <1>7 DEF TryPushRelease, client
  <1>8. CASE RunPopped(t) \/ RunSwapped(t)
    BY <1>0, <1>8 DEF RunPopped, RunSwapped, Control
  <1>9. QED
    BY <1>1, <1>2, <1>3, <1>4, <1>5, <1>6, <1>7, <1>8, ClientFrame

LEMMA UnlinkedStep ==
  ASSUME BaseInv, NEW t \in Thread, ThreadNext(t)
  PROVE  UnlinkedInv'
  <1>0. UnlinkedInv /\ None \notin linked /\ linked' \subseteq linked
    BY ContextStep, TypeFacts, ObjectAssumption DEF BaseInv
  <1>1. freed' \cap linked' = {}
    BY <1>0, ContextStep DEF UnlinkedInv
  <1>2. ASSUME NEW i \in Slot PROVE drain_list_'[i].context \notin linked'
    BY <1>0, SlotStep DEF UnlinkedInv
  <1>3. ASSUME NEW u \in Thread PROVE ctx'[u] \notin linked' /\ popped'[u] \notin linked'
    <2>1. CASE u = t
      BY <1>0, <2>1, ContextStep DEF UnlinkedInv
    <2>2. CASE u # t
      BY <1>0, <2>2, OthersKept DEF UnlinkedInv, Kept
    <2>3. QED
      BY <2>1, <2>2
  <1>4. QED
    BY <1>1, <1>2, <1>3 DEF UnlinkedInv

LEMMA BaseStep ==
  ASSUME BaseInv, [Next]_vars
  PROVE  BaseInv'
  <1>1. ASSUME NEW t \in Thread, ThreadNext(t) PROVE BaseInv'
    <2>1. TypeOK'
      BY <1>1, SharedTypeStep, EntryTypeStep, LocalTypeStep, ClientTypeStep DEF TypeOK
    <2>2. QED
      BY <1>1, <2>1, ControlStep, EpochStep, LockStep, UnlinkedStep DEF BaseInv
  <1>2. CASE UNCHANGED vars
    <2>1. BaseInv' <=> BaseInv
      BY <1>2 DEF vars, shared, entries, locals, client, BaseInv, TypeOK,
        SharedTypeOK, EntryTypeOK, LocalTypeOK, ClientTypeOK, ControlInv, Control,
        EpochInv, LockInv, UnlinkedInv, Registering
    <2>2. QED
      BY <2>1
  <1>3. QED
    BY <1>1, <1>2 DEF Next

\* BaseInv is an inductive invariant of LightEpoch for any threads, epochs, drain
\* list, objects and store buffers.
THEOREM BaseInductive == Spec => []BaseInv
  <1>1. Init => BaseInv
    BY InitBase
  <1>2. BaseInv /\ [Next]_vars => BaseInv'
    BY BaseStep
  <1>3. QED
    BY <1>1, <1>2, PTL DEF Spec

\* Every variable of LightEpoch keeps its type: epochs never pass kLocked, and
\* drain_count_ and reentrant stay 32-bit words through their wrap-arounds.
THEOREM TypeCorrect == Spec => []TypeOK
  <1>1. BaseInv => TypeOK
    BY DEF BaseInv
  <1>2. QED
    BY <1>1, BaseInductive, PTL

-----------------------------------------------------------------------------
(***************************************************************************)
(* From here on the stores of local_current_epoch are not delayed.         *)
(***************************************************************************)
LEMMA Direct ==
  ASSUME BaseInv, Undelayed, NEW t \in Thread
  PROVE  /\ Control(t)
         /\ t \in Entry
         /\ View(t, t) = table_[t]
         /\ View(t, idx[t]) = table_[idx[t]]
         /\ Publish(t, next[t]) => /\ table_' = [table_ EXCEPT ![t] = next[t]]
                                   /\ UNCHANGED store_buffer
         /\ Publish(t, kUnprotected) =>
              /\ table_' = [table_ EXCEPT ![t] = kUnprotected]
              /\ UNCHANGED store_buffer
         /\ ~FlushStore(t)
  <1>1. Control(t) /\ t \in Entry
    BY Basics
  <1>2. BufferDepth = 0 /\ store_buffer[t] = <<>> /\ Len(store_buffer[t]) = 0
    BY DEF Undelayed
  <1>3. QED
    BY <1>1, <1>2 DEF View, Publish, FlushStore

LEMMA UndelayedStep ==
  ASSUME BaseInv, Undelayed, NEW t \in Thread, ThreadNext(t)
  PROVE  Undelayed'
  BY Direct, EntryFrame
  DEF Undelayed, ProtectStore, ReentrantProtectStore, ProtectAndDrainStore, Unprotect,
      ReentrantUnprotect

\* Who writes the epoch table holds nothing, or drops what it holds.
LEMMA TableStep ==
  ASSUME BaseInv, Undelayed, NEW t \in Thread, ThreadNext(t)
  PROVE  \/ table_' = table_
         \/ /\ table_' = [table_ EXCEPT ![t] = next[t]]
            /\ held[t] = {} /\ held' = held
         \/ /\ table_' = [table_ EXCEPT ![t] = kUnprotected]
            /\ held' = [held EXCEPT ![t] = {}]
  <1>1. CASE ProtectStore(t) \/ ReentrantProtectStore(t) \/ ProtectAndDrainStore(t)
    BY <1>1, Direct
    DEF ProtectStore, ReentrantProtectStore, ProtectAndDrainStore, Control, client
  <1>2. CASE Unprotect(t) \/ ReentrantUnprotect(t)
    BY <1>2, Direct DEF Unprotect, ReentrantUnprotect
  <1>3. QED
    BY <1>1, <1>2, Direct, EntryFrame

\* How a step changes the references a thread holds.
LEMMA HeldStep ==
  ASSUME BaseInv, Undelayed, ReclaimInv, NEW t \in Thread, ThreadNext(t)
  PROVE  \/ held' = held
         \/ held' = [held EXCEPT ![t] = {}]
         \/ \E o \in linked : /\ held' = [held EXCEPT ![t] = @ \cup {o}]
                              /\ table_[t] # kUnprotected
                              /\ table_' = table_
  <1>1. CASE UNCHANGED <<ctx, popped, linked, held, freed>>
    BY <1>1
  <1>2. ASSUME NEW call \in {"protect", "refresh", "reenter"}, EnterLoad(t, call)
        PROVE  held' = [held EXCEPT ![t] = {}]
    BY <1>2 DEF EnterLoad
  <1>3. CASE Unprotect(t) \/ ReentrantUnprotect(t)
    BY <1>3 DEF Unprotect, ReentrantUnprotect
  <1>4. ASSUME NEW o \in Object, Acquire(t, o)
        PROVE  /\ o \in linked
               /\ held' = [held EXCEPT ![t] = @ \cup {o}]
               /\ table_[t] # kUnprotected
               /\ table_' = table_
    BY <1>4, Direct DEF Acquire, entries
  <1>5. ASSUME NEW o \in Object, Retire(t, o) PROVE held' = held
    BY <1>5 DEF Retire
  <1>6. CASE \/ TryPopRelease(t) \/ RunPopped(t) \/ TryPushRelease(t)
             \/ TrySwapRelease(t) \/ RunSwapped(t)
    BY <1>6 DEF TryPopRelease, RunPopped, TryPushRelease, TrySwapRelease, RunSwapped, client
  <1>7. QED
    BY <1>1, <1>2, <1>3, <1>4, <1>5, <1>6, ClientFrame

\* An unlinked object gets no new holder.
LEMMA NoNewHolder ==
  ASSUME BaseInv, Undelayed, ReclaimInv, NEW t \in Thread, ThreadNext(t),
         NEW o, o \notin linked, NEW h \in Thread, o \in held'[h]
  PROVE  o \in held[h]
  <1>1. held \in [Thread -> SUBSET Object]
    BY TypeFacts
  <1>2. QED
    BY <1>1, HeldStep

LEMMA UnheldKept ==
  ASSUME BaseInv, Undelayed, ReclaimInv, NEW t \in Thread, ThreadNext(t),
         NEW o, o \notin linked, Unheld(o)
  PROVE  Unheld(o)'
  <1>1. \A h \in Scanned : o \in held'[h] => o \in held[h]
    BY NoNewHolder DEF Scanned
  <1>2. QED
    BY <1>1 DEF Unheld

\* A holder's entry in the epoch table does not move.
LEMMA HolderKept ==
  ASSUME BaseInv, Undelayed, ReclaimInv, NEW t \in Thread, ThreadNext(t),
         NEW h \in Thread, held[h] # {}, held'[h] # {}
  PROVE  table_'[h] = table_[h]
  <1>1. held \in [Thread -> SUBSET Object] /\ table_ \in [Entry -> 0 .. MaxEpoch]
    BY TypeFacts
  <1>2. h \in Entry
    BY Direct
  <1>3. QED
    BY <1>1, <1>2, TableStep

\* How a scan under way moves on.
LEMMA ScanStep ==
  ASSUME BaseInv, Undelayed, ReclaimInv, NEW t \in Thread, ThreadNext(t), pc'[t] = "scan"
  PROVE  \/ idx'[t] = 1
         \/ /\ pc[t] = "scan"
            /\ idx'[t] = idx[t] + 1
            /\ oldest'[t] <= oldest[t]
            /\ table_[idx[t]] # kUnprotected => oldest'[t] <= table_[idx[t]]
  <1>0. /\ pc \in [Thread -> Labels] /\ idx \in [Thread -> Nat]
        /\ oldest \in [Thread -> 0 .. MaxEpoch]
    BY TypeFacts
  <1>1. CASE CheckDrainCount(t)
    BY <1>0, <1>1 DEF CheckDrainCount, EndDrain, Return, Goto, SetIdx
  <1>2. CASE ScanEntry(t)
    <2>1. View(t, idx[t]) = table_[idx[t]]
      BY Direct
    <2>2. /\ pc[t] = "scan" /\ idx'[t] = idx[t] + 1
          /\ oldest' = IF table_[idx[t]] # kUnprotected /\ table_[idx[t]] < oldest[t]
                       THEN [oldest EXCEPT ![t] = table_[idx[t]]]
                       ELSE oldest
      BY <1>0, <1>2, <2>1 DEF ScanEntry, SetIdx
    <2>3. idx[t] \in Entry
      BY <1>0, <1>2, ThreadAssumption DEF ScanEntry, Entry
    <2>4. table_[idx[t]] \in Int /\ oldest[t] \in Int
      BY <1>0, <2>3, TypeFacts, BoundAssumption
    <2>5. QED
      BY <1>0, <2>2, <2>4
  <1>3. CheckDrainCount(t) \/ ScanEntry(t)
    <2>1. ~(CheckDrainCount(t) \/ ScanEntry(t)) =>
            pc'[t] # "scan"
      BY <1>0, Direct DEF Labels, Goto, Return, EndDrain, NextSlot, TryNextSlot,
          ThreadNext, Step, ProtectStore, ReentrantProtectStore,
          ProtectAndDrainStore, ScanDone, DrainLoad,
          DrainCompare, TryPop, TryPopRelease, RunPopped, DecrementDrainCount,
          IncrementEpoch, PushLoad, PushCompare, TryPush, TryPushRelease,
          IncrementDrainCount, TrySwap, TrySwapRelease, RunSwapped, EnterLoad, Unprotect,
          ReentrantUnprotect, Acquire, Retire
    <2>2. QED
      BY <2>1
  <1>4. QED
    BY <1>1, <1>2, <1>3

\* The heart of the argument: what guards an unlinked object from an action of
\* trigger epoch e is kept by every step, a scan's steps included.
LEMMA GuardedKept ==
  ASSUME BaseInv, Undelayed, ReclaimInv, NEW t \in Thread, ThreadNext(t),
         NEW o, o \notin linked, NEW e \in Int, Guarded(o, e)
  PROVE  Guarded(o, e)'
  <1> SUFFICES ASSUME NEW h \in Scanned, o \in held'[h]
               PROVE  /\ table_'[h] <= e
                      /\ safe_to_reclaim_epoch' < e
                      /\ \A s \in Thread : pc'[s] = "scan" => oldest'[s] <= e \/ idx'[s] <= h
    BY DEF Guarded
  <1>0. /\ h \in Thread /\ h \in 1 .. NumEntries /\ h \in Entry
        /\ NumEntries \in Int /\ h \in Int
    BY ThreadAssumption DEF Scanned, Entry
  <1>1. o \in held[h]
    BY <1>0, NoNewHolder
  <1>2. /\ table_[h] <= e
        /\ safe_to_reclaim_epoch < e
        /\ \A s \in Thread : pc[s] = "scan" => oldest[s] <= e \/ idx[s] <= h
    BY <1>1 DEF Guarded
  <1>3. table_'[h] = table_[h]
    BY <1>0, <1>1, HolderKept
  <1>4. table_[h] # kUnprotected
    BY <1>1 DEF ReclaimInv
  <1>5. safe_to_reclaim_epoch' < e
    <2>1. CASE ScanDone(t)
      <3>1. /\ safe_to_reclaim_epoch' = oldest[t] - 1
            /\ idx[t] > NumEntries /\ pc[t] = "scan"
        BY <2>1 DEF ScanDone
      <3>2. oldest[t] \in Int /\ idx[t] \in Int
        BY TypeFacts, BoundAssumption
      <3>3. oldest[t] <= e
        BY <1>0, <1>2, <3>1, <3>2
      <3>4. QED
        BY <3>1, <3>2, <3>3
    <2>2. QED
      BY <1>2, <2>1, SafeStep
  <1>6. ASSUME NEW s \in Thread, pc'[s] = "scan"
        PROVE  oldest'[s] <= e \/ idx'[s] <= h
    <2>1. CASE s # t
      BY <1>2, <1>6, <2>1, OthersKept DEF Kept
    <2>2. CASE s = t /\ idx'[t] = 1
      BY <1>0, <2>2
    <2>3. CASE s = t /\ idx'[t] # 1
      <3>1. /\ pc[t] = "scan"
            /\ idx'[t] = idx[t] + 1
            /\ oldest'[t] <= oldest[t]
            /\ table_[idx[t]] # kUnprotected => oldest'[t] <= table_[idx[t]]
        BY <1>6, <2>3, ScanStep
      <3>2. oldest[t] \in Int /\ idx[t] \in Int /\ table_[h] \in Int
        BY <1>0, TypeFacts, BoundAssumption
      <3>3. oldest'[t] \in Int
        BY LocalTypeStep, BoundAssumption DEF LocalTypeOK
      <3>4. oldest[t] <= e \/ idx[t] <= h
        BY <1>2, <3>1
      <3>5. CASE oldest[t] <= e
        BY <2>3, <3>1, <3>2, <3>3, <3>5
      <3>6. CASE idx[t] = h
        BY <1>2, <1>4, <2>3, <3>1, <3>2, <3>3, <3>6
      <3>7. CASE idx[t] < h
        BY <1>0, <2>3, <3>1, <3>2, <3>7
      <3>8. QED
        BY <1>0, <3>2, <3>4, <3>5, <3>6, <3>7
    <2>4. QED
      BY <2>1, <2>2, <2>3
  <1>7. QED
    BY <1>2, <1>3, <1>5, <1>6

\* A call that owes the drain list an action has just bumped the epoch, or owed
\* it before.
LEMMA RegisterStep ==
  ASSUME BaseInv, Undelayed, ReclaimInv, NEW t \in Thread, ThreadNext(t), Registering(t)'
  PROVE  \/ Registering(t) /\ ctx'[t] = ctx[t] /\ next'[t] = next[t]
         \/ IncrementEpoch(t) /\ ctx'[t] = ctx[t] /\ next'[t] = current_epoch + 1
  <1>0. /\ pc \in [Thread -> Labels] /\ next \in [Thread -> 0 .. MaxEpoch]
        /\ ctx \in [Thread -> Object \cup {None}]
        /\ Control(t)
    BY TypeFacts, Direct
  <1>1. CASE IncrementEpoch(t)
    BY <1>0, <1>1 DEF IncrementEpoch
  <1>2. CASE ~IncrementEpoch(t)
    <2>1. CASE UNCHANGED ctx
      <3>1. pc[t] # "bump"
        <4>1. pc[t] = "bump" => pc'[t] = "bump" \/ IncrementEpoch(t)
          BY <1>0, Direct DEF Goto, ThreadNext, Step, ProtectStore, ReentrantProtectStore,
            ProtectAndDrainStore, CheckDrainCount, ScanEntry, ScanDone, DrainLoad,
            DrainCompare, TryPop, TryPopRelease, RunPopped, DecrementDrainCount,
            PushLoad, PushCompare, TryPush, TryPushRelease, IncrementDrainCount,
            TrySwap, TrySwapRelease, RunSwapped, EnterLoad, Unprotect,
            ReentrantUnprotect, Acquire, Retire
        <4>2. QED
          BY <1>2, <4>1 DEF Registering
      <3>2. Registering(t)
        BY <2>1, <3>1 DEF Registering
      <3>3. pc[t] \notin {"idle", "protect", "reenter", "refresh", "inc", "run_swapped", "bump"}
        BY <1>0, <3>1, <3>2 DEF Registering, Control
      <3>4. next'[t] = next[t]
        BY <1>0, <1>2, <3>2, <3>3, Direct DEF locals, EndDrain, Registering,
          ThreadNext, Step, ProtectStore, ReentrantProtectStore,
          ProtectAndDrainStore, CheckDrainCount, ScanEntry, ScanDone, DrainLoad,
          DrainCompare, TryPop, TryPopRelease, RunPopped, DecrementDrainCount,
          PushLoad, PushCompare, TryPush, TryPushRelease, IncrementDrainCount,
          TrySwap, TrySwapRelease, RunSwapped, EnterLoad, Unprotect,
          ReentrantUnprotect, Acquire, Retire
      <3>5. QED
        BY <2>1, <3>2, <3>4
    <2>2. CASE ~UNCHANGED ctx
      <3>1. \/ TryPushRelease(t) \/ TrySwapRelease(t)
            \/ \E o \in Object : Retire(t, o)
        BY <2>2, ClientFrame DEF EnterLoad, Unprotect, ReentrantUnprotect, Acquire,
          TryPopRelease, RunPopped, RunSwapped
      <3>2. ctx'[t] = None \/ pc'[t] = "bump"
        BY <1>0, <3>1 DEF TryPushRelease, TrySwapRelease, Retire, Goto
      <3>3. QED
        BY <3>2 DEF Registering
    <2>3. QED
      BY <2>1, <2>2
  <1>3. QED
    BY <1>1, <1>2

\* An action of an epoch that is already past stays without holders.
LEMMA ExpiredKept ==
  ASSUME BaseInv, Undelayed, ReclaimInv, NEW t \in Thread, ThreadNext(t),
         NEW e \in Int, e < current_epoch, Expired(e)
  PROVE  Expired(e)'
  <1>0. current_epoch \in 1 .. MaxEpoch /\ e # kLocked /\ e # kFree
    BY TypeFacts, BoundAssumption DEF kLocked, kFree
  <1>1. ASSUME NEW i \in Slot, drain_list_'[i].epoch = e
        PROVE  \A h \in Scanned : drain_list_'[i].context \notin held'[h]
    <2>1. CASE drain_list_'[i] = drain_list_[i]
      <3>1. Unheld(drain_list_[i].context) /\ drain_list_[i].context \notin linked
        BY <1>1, <2>1 DEF Expired, BaseInv, UnlinkedInv
      <3>2. QED
        BY <2>1, <3>1, NoNewHolder DEF Scanned, Unheld
    <2>2. CASE Registering(t) /\ PriorEpoch(t) = e /\ drain_list_'[i].context = ctx[t]
      <3>1. Unheld(ctx[t]) /\ ctx[t] \notin linked
        BY <2>2 DEF Expired, BaseInv, UnlinkedInv
      <3>2. QED
        BY <2>2, <3>1, NoNewHolder DEF Scanned, Unheld
    <2>3. QED
      BY <1>0, <1>1, <2>1, <2>2, SlotStep
  <1>2. ASSUME NEW u \in Thread, Registering(u)', PriorEpoch(u)' = e
        PROVE  \A h \in Scanned : ctx'[u] \notin held'[h]
    <2>1. Registering(u) /\ ctx'[u] = ctx[u] /\ next'[u] = next[u]
      <3>1. CASE u # t
        BY <1>2, <3>1, OthersKept DEF Kept, Registering
      <3>2. CASE u = t
        <4>1. ~(next'[t] = current_epoch + 1)
          BY <1>0, <1>2, <3>2 DEF PriorEpoch
        <4>2. QED
          BY <1>2, <3>2, <4>1, RegisterStep
      <3>3. QED
        BY <3>1, <3>2
    <2>2. Unheld(ctx[u]) /\ ctx[u] \notin linked
      BY <1>2, <2>1 DEF Expired, PriorEpoch, BaseInv, UnlinkedInv
    <2>3. QED
      BY <2>1, <2>2, NoNewHolder DEF Scanned, Unheld
  <1>3. QED
    BY <1>1, <1>2 DEF Expired, Unheld, Scanned

\* An action whose trigger epoch safe_to_reclaim_epoch has reached has no holder.
LEMMA DueExpired ==
  ASSUME BaseInv, ReclaimInv, NEW e \in Int, e <= safe_to_reclaim_epoch
  PROVE  Expired(e) /\ e < current_epoch
  <1>0. /\ safe_to_reclaim_epoch \in Int /\ current_epoch \in Int
        /\ e < current_epoch
        /\ e # kLocked
    BY TypeFacts, BoundAssumption DEF BaseInv, EpochInv, kLocked
  <1>1. \A o : Guarded(o, e) => Unheld(o)
    BY <1>0 DEF Guarded, Unheld
  <1>2. Unheld(None)
    BY TypeFacts, ObjectAssumption DEF Unheld, Scanned
  <1>3. ASSUME NEW i \in Slot, drain_list_[i].epoch = e
        PROVE  Unheld(drain_list_[i].context)
    BY <1>0, <1>1, <1>2, <1>3 DEF ReclaimInv
  <1>4. ASSUME NEW u \in Thread, Registering(u), PriorEpoch(u) = e
        PROVE  Unheld(ctx[u])
    BY <1>1, <1>4 DEF ReclaimInv
  <1>5. QED
    BY <1>0, <1>3, <1>4 DEF Expired

\* The bump itself: no scan under way and no published epoch is past the one it
\* ends.
LEMMA BumpGuards ==
  ASSUME BaseInv, Undelayed, ReclaimInv, NEW t \in Thread, IncrementEpoch(t), NEW o
  PROVE  Guarded(o, current_epoch)
  <1>1. ASSUME NEW h \in Scanned PROVE table_[h] <= current_epoch
    BY Direct DEF Scanned, BaseInv, EpochInv
  <1>2. safe_to_reclaim_epoch < current_epoch
    BY DEF BaseInv, EpochInv
  <1>3. ASSUME NEW s \in Thread, pc[s] = "scan" PROVE oldest[s] <= current_epoch
    <2>1. oldest[s] \in 1 .. current_epoch /\ current_epoch \in Int
      BY <1>3, Direct, TypeFacts DEF Control
    <2>2. QED
      BY <2>1
  <1>4. QED
    BY <1>1, <1>2, <1>3 DEF Guarded

\* A thread that is about to lock a slot of a due action has found it due.
LEMMA DueStep ==
  ASSUME BaseInv, Undelayed, ReclaimInv, NEW t \in Thread, ThreadNext(t),
         pc'[t] \in {"pop", "swap_lock"}
  PROVE  trigger'[t] = trigger[t] /\ trigger[t] <= safe_to_reclaim_epoch
  <1>0. pc \in [Thread -> Labels]
    BY TypeFacts
  <1>1. ~(DrainCompare(t) \/ PushCompare(t)) => pc'[t] \notin {"pop", "swap_lock"}
    BY <1>0, Direct DEF Labels, Goto, Return, EndDrain, NextSlot, TryNextSlot,
        ThreadNext, Step, ProtectStore, ReentrantProtectStore,
        ProtectAndDrainStore, CheckDrainCount, ScanEntry, ScanDone, DrainLoad,
        TryPop, TryPopRelease, RunPopped, DecrementDrainCount,
        IncrementEpoch, PushLoad, TryPush, TryPushRelease,
        IncrementDrainCount, TrySwap, TrySwapRelease, RunSwapped, EnterLoad,
        Unprotect, ReentrantUnprotect, Acquire, Retire
  <1>2. QED
    BY <1>0, <1>1 DEF DrainCompare, PushCompare, NextSlot, TryNextSlot, Goto

LEMMA ReclaimStep ==
  ASSUME BaseInv, Undelayed, ReclaimInv, NEW t \in Thread, ThreadNext(t)
  PROVE  ReclaimInv'
  <1>0. UnlinkedInv /\ ControlInv
    BY DEF BaseInv
  <1>1. ASSUME NEW h \in Scanned, held'[h] # {} PROVE table_'[h] # kUnprotected
    <2>0. h \in Thread /\ t \in Thread /\ held \in [Thread -> SUBSET Object]
      BY TypeFacts DEF Scanned
    <2>1. CASE held[h] # {}
      BY <1>0, <1>1, <2>0, <2>1, HolderKept DEF ReclaimInv
    <2>2. CASE held[h] = {}
      BY <1>1, <2>0, <2>2, HeldStep
    <2>3. QED
      BY <2>1, <2>2
  <1>2. ASSUME NEW i \in Slot, drain_list_'[i].context # None,
               drain_list_'[i].epoch # kLocked
        PROVE  Guarded(drain_list_[i].context, drain_list_[i].epoch)'
    <2>1. PICK c \in Object \cup {None}, e \in Int : /\ Guarded(c, e) /\ c \notin linked
                              /\ drain_list_'[i].context = c
                              /\ drain_list_'[i].epoch = e
      <3>0. /\ drain_list_ \in [Slot -> [epoch : 0 .. kFree, context : Object \cup {None}]]
            /\ next \in [Thread -> 0 .. MaxEpoch]
            /\ ctx \in [Thread -> Object \cup {None}]
        BY TypeFacts
      <3>1. CASE drain_list_'[i] = drain_list_[i]
        <4>1. drain_list_[i].epoch \in Int
          BY <3>0, BoundAssumption DEF kFree
        <4>2. Guarded(drain_list_[i].context, drain_list_[i].epoch)
          BY <1>0, <1>2, <3>1 DEF ReclaimInv
        <4>3. QED
          BY <1>0, <3>0, <3>1, <4>1, <4>2 DEF UnlinkedInv
      <3>2. CASE /\ Registering(t)
                 /\ drain_list_'[i].epoch = PriorEpoch(t)
                 /\ drain_list_'[i].context = ctx[t]
        <4>1. PriorEpoch(t) \in Int
          BY <3>0, BoundAssumption DEF PriorEpoch
        <4>2. QED
          BY <1>0, <3>0, <3>2, <4>1 DEF ReclaimInv, UnlinkedInv
      <3>3. QED
        BY <1>2, <3>1, <3>2, SlotStep
    <2>2. Guarded(c, e)'
      BY <2>1, GuardedKept
    <2>3. QED
      BY <2>1, <2>2 DEF Guarded
  <1>3. ASSUME NEW u \in Thread, Registering(u)' PROVE Guarded(ctx[u], PriorEpoch(u))'
    <2>1. PICK c \in Object \cup {None}, e \in Int : /\ Guarded(c, e) /\ c \notin linked
                              /\ ctx'[u] = c /\ next'[u] - 1 = e
      <3>0. /\ next[u] \in 0 .. MaxEpoch /\ current_epoch \in Int
            /\ ctx \in [Thread -> Object \cup {None}]
        BY TypeFacts
      <3>1. CASE Registering(u) /\ ctx'[u] = ctx[u] /\ next'[u] = next[u]
        <4>1. PriorEpoch(u) \in Int /\ PriorEpoch(u) = next[u] - 1
          BY <3>0, BoundAssumption DEF PriorEpoch
        <4>2. QED
          BY <1>0, <3>0, <3>1, <4>1 DEF ReclaimInv, UnlinkedInv
      <3>2. CASE /\ u = t /\ IncrementEpoch(t)
                 /\ ctx'[t] = ctx[t] /\ next'[t] = current_epoch + 1
        <4>1. Guarded(ctx[t], current_epoch) /\ ctx[t] \notin linked
          BY <1>0, <3>2, BumpGuards DEF UnlinkedInv
        <4>2. QED
          BY <3>0, <3>2, <4>1
      <3>3. u # t => Registering(u) /\ ctx'[u] = ctx[u] /\ next'[u] = next[u]
        BY <1>3, OthersKept DEF Kept, Registering
      <3>4. QED
        BY <1>3, <3>1, <3>2, <3>3, RegisterStep
    <2>2. Guarded(c, e)'
      BY <2>1, GuardedKept
    <2>3. QED
      BY <2>1, <2>2 DEF Guarded, PriorEpoch
  <1>4. ASSUME NEW u \in Thread, pc'[u] \in {"pop", "swap_lock"}
        PROVE  (trigger[u] < current_epoch)' /\ Expired(trigger[u])'
    <2>1. trigger'[u] = trigger[u] /\ trigger[u] < current_epoch /\ Expired(trigger[u])
      <3>0. trigger[u] \in Int
        BY TypeFacts, BoundAssumption DEF kFree
      <3>1. CASE u # t
        BY <1>0, <1>4, <3>1, OthersKept DEF Kept, ReclaimInv
      <3>2. CASE u = t
        BY <1>4, <3>0, <3>2, DueStep, DueExpired
      <3>3. QED
        BY <3>1, <3>2
    <2>2. PICK e \in Int : e = trigger[u] /\ e = trigger'[u]
      BY <2>1, TypeFacts, BoundAssumption DEF kFree
    <2>3. Expired(e)' /\ e < current_epoch'
      BY <2>1, <2>2, ExpiredKept, EpochGrows
    <2>4. QED
      BY <2>2, <2>3 DEF Expired
  <1>5. ASSUME NEW u \in Thread, pc'[u] \in {"popped", "swapping"}
        PROVE  Unheld(drain_list_[idx[u]].context)'
    <2>1. PICK c : /\ Unheld(c) /\ c \notin linked
                   /\ drain_list_'[idx'[u]].context = c
      <3>0. drain_list_ \in [Slot -> [epoch : 0 .. kFree, context : Object \cup {None}]]
        BY TypeFacts
      <3>1. CASE u # t
        <4>1. Kept(u)
          BY <3>1, OthersKept
        <4>2. pc[u] \in {"popped", "swapping"} /\ idx'[u] = idx[u]
          BY <1>5, <4>1 DEF Kept
        <4>3. drain_list_'[idx[u]] = drain_list_[idx[u]]
          BY <3>1, <4>2, OwnedSlotKept DEF Owning
        <4>4. idx[u] \in Slot
          BY <4>2, Direct DEF Control, DrainLabels, PushLabels
        <4>5. QED
          BY <1>0, <4>2, <4>3, <4>4 DEF ReclaimInv, UnlinkedInv
      <3>2. CASE u = t
        <4>1. /\ idx'[t] = idx[t] /\ idx[t] \in Slot
              /\ drain_list_' = [drain_list_ EXCEPT ![idx[t]].epoch = kLocked]
              /\ pc[t] \in {"pop", "swap_lock"}
              /\ drain_list_[idx[t]].epoch = trigger[t]
          BY <1>5, <3>2, BecomesOwner, Direct DEF Owning
        <4>2. drain_list_'[idx[t]].context = drain_list_[idx[t]].context
          BY <3>0, <4>1
        <4>3. Unheld(drain_list_[idx[t]].context)
          BY <1>0, <4>1 DEF ReclaimInv, Expired
        <4>4. QED
          BY <1>0, <3>2, <4>1, <4>2, <4>3 DEF UnlinkedInv
      <3>3. QED
        BY <3>1, <3>2
    <2>2. Unheld(c)'
      BY <2>1, UnheldKept
    <2>3. QED
      BY <2>1, <2>2 DEF Unheld
  <1>6. ASSUME NEW u \in Thread, popped'[u] # None PROVE Unheld(popped[u])'
    <2>1. PICK c : Unheld(c) /\ c \notin linked /\ popped'[u] = c
      <3>1. CASE popped'[u] = popped[u]
        BY <1>0, <1>6, <3>1 DEF ReclaimInv, UnlinkedInv
      <3>2. CASE /\ pc[u] \in {"popped", "swapping"} /\ idx[u] \in Slot
                 /\ popped'[u] = drain_list_[idx[u]].context
        BY <1>0, <3>2 DEF ReclaimInv, UnlinkedInv
      <3>3. u # t => popped'[u] = popped[u]
        BY OthersKept DEF Kept
      <3>4. QED
        BY <1>6, <3>1, <3>2, <3>3, ContextStep
    <2>2. Unheld(c)'
      BY <2>1, UnheldKept
    <2>3. QED
      BY <2>1, <2>2 DEF Unheld
  <1>7. ASSUME NEW o \in freed' PROVE Unheld(o)'
    <2>1. Unheld(o) /\ o \notin linked
      BY <1>0, <1>7, ContextStep DEF ReclaimInv, UnlinkedInv
    <2>2. QED
      BY <2>1, UnheldKept
  <1>8. QED
    BY <1>1, <1>2, <1>3, <1>4, <1>5, <1>6, <1>7 DEF ReclaimInv

LEMMA StepInv ==
  ASSUME IInv, [Next]_vars
  PROVE  IInv'
  <1>0. BaseInv /\ Undelayed /\ ReclaimInv /\ BaseInv'
    BY BaseStep DEF IInv
  <1>1. ASSUME NEW t \in Thread, ThreadNext(t) PROVE IInv'
    BY <1>0, <1>1, UndelayedStep, ReclaimStep DEF IInv
  <1>2. CASE UNCHANGED vars
    <2>1. Undelayed' /\ (ReclaimInv' <=> ReclaimInv)
      BY <1>0, <1>2 DEF vars, shared, entries, locals, client, Undelayed,
        ReclaimInv, Guarded, Expired, Unheld, Registering, PriorEpoch
    <2>2. QED
      BY <1>0, <2>1 DEF IInv
  <1>3. QED
    BY <1>1, <1>2 DEF Next

\* IInv is an inductive invariant of LightEpoch for any threads, epochs, drain
\* list and objects, when the stores of local_current_epoch are not delayed.
THEOREM Inductive ==
  ASSUME BufferDepth = 0
  PROVE  Spec => []IInv
  <1>1. Init => IInv
    <2> SUFFICES ASSUME Init PROVE Undelayed /\ ReclaimInv
      BY InitBase DEF IInv
    <2>1. Undelayed
      BY DEF Init, Undelayed
    <2>2. ReclaimInv
      BY DEF Init, ReclaimInv, Registering, Unheld, Scanned, kFree, kLocked
    <2>3. QED
      BY <2>1, <2>2
  <1>2. IInv /\ [Next]_vars => IInv'
    BY StepInv
  <1>3. QED
    BY <1>1, <1>2, PTL DEF Spec

\* No callback of BumpCurrentEpoch(callback, context) reclaims an object that a
\* thread the scan looks at still holds.
THEOREM ReclamationIsSafe ==
  ASSUME BufferDepth = 0
  PROVE  Spec => []SafeReclaim
  <1>1. IInv => SafeReclaim
    BY DEF IInv, ReclaimInv, Unheld, SafeReclaim
  <1>2. QED
    BY <1>1, Inductive, PTL

-----------------------------------------------------------------------------
(***************************************************************************)
(* Refinement of SafeReclamation.                                          *)
(***************************************************************************)
heldByScanned == [r \in Scanned |-> held[r]]

LEMMA AbstractVars ==
  UNCHANGED <<linked, held, freed>> => UNCHANGED Abstract!vars
  BY DEF Abstract!vars

\* A thread drops its references.
LEMMA QuiesceStep ==
  ASSUME held \in [Thread -> SUBSET Object], NEW t \in Thread,
         held' = [held EXCEPT ![t] = {}], UNCHANGED <<linked, freed>>
  PROVE  [Abstract!Next]_(Abstract!vars)
  <1>1. heldByScanned' = IF t \in Scanned THEN [heldByScanned EXCEPT ![t] = {}]
                         ELSE heldByScanned
    BY DEF heldByScanned, Scanned
  <1>2. CASE t \in Scanned
    BY <1>1, <1>2 DEF heldByScanned, Abstract!Next, Abstract!Quiesce
  <1>3. CASE t \notin Scanned
    BY <1>1, <1>3 DEF heldByScanned, Abstract!vars
  <1>4. QED
    BY <1>2, <1>3

\* A thread takes a reference to a linked object.
LEMMA AcquireStep ==
  ASSUME held \in [Thread -> SUBSET Object], NEW t \in Thread,
         NEW o \in Object, o \in linked,
         held' = [held EXCEPT ![t] = @ \cup {o}], UNCHANGED <<linked, freed>>
  PROVE  [Abstract!Next]_(Abstract!vars)
  <1>1. heldByScanned' = IF t \in Scanned
                         THEN [heldByScanned EXCEPT ![t] = @ \cup {o}]
                         ELSE heldByScanned
    BY DEF heldByScanned, Scanned
  <1>2. CASE t \in Scanned
    BY <1>1, <1>2 DEF heldByScanned, Abstract!Next, Abstract!Acquire
  <1>3. CASE t \notin Scanned
    BY <1>1, <1>3 DEF heldByScanned, Abstract!vars
  <1>4. QED
    BY <1>2, <1>3

\* A callback runs: its object is unlinked and nobody holds it.
LEMMA ReclaimImplements ==
  ASSUME IInv, NEW t \in Thread, popped[t] # None,
         freed' = freed \cup {popped[t]}, UNCHANGED <<linked, held>>
  PROVE  [Abstract!Next]_(Abstract!vars)
  <1>1. popped[t] \in Object \ linked /\ Unheld(popped[t])
    BY TypeFacts DEF IInv, BaseInv, UnlinkedInv, ReclaimInv
  <1>2. \A r \in Scanned : popped[t] \notin heldByScanned[r]
    BY <1>1 DEF Unheld, heldByScanned
  <1>3. CASE popped[t] \in freed
    <2>1. freed' = freed
      BY <1>3
    <2>2. QED
      BY <2>1, AbstractVars
  <1>4. CASE popped[t] \notin freed
    <2>1. Abstract!Reclaim(popped[t])
      BY <1>1, <1>2, <1>4 DEF heldByScanned, Abstract!Reclaim
    <2>2. QED
      BY <1>1, <2>1 DEF Abstract!Next
  <1>5. QED
    BY <1>3, <1>4

LEMMA AbstractStep ==
  ASSUME IInv, NEW t \in Thread, ThreadNext(t)
  PROVE  [Abstract!Next]_(Abstract!vars)
  <1>0. /\ BaseInv /\ Control(t) /\ held \in [Thread -> SUBSET Object]
    BY Basics, TypeFacts DEF IInv
  <1>1. CASE UNCHANGED <<ctx, popped, linked, held, freed>>
    BY <1>1, AbstractVars
  <1>2. ASSUME NEW call \in {"protect", "refresh", "reenter"}, EnterLoad(t, call)
        PROVE  held' = [held EXCEPT ![t] = {}] /\ UNCHANGED <<linked, freed>>
    BY <1>2 DEF EnterLoad
  <1>3. CASE Unprotect(t) \/ ReentrantUnprotect(t)
    BY <1>0, <1>3, QuiesceStep DEF Unprotect, ReentrantUnprotect
  <1>4. ASSUME NEW o \in Object, Acquire(t, o)
        PROVE  [Abstract!Next]_(Abstract!vars)
    BY <1>0, <1>4, AcquireStep DEF Acquire
  <1>5. ASSUME NEW o \in Object, Retire(t, o)
        PROVE  [Abstract!Next]_(Abstract!vars)
    <2>1. Abstract!Unlink(o)
      BY <1>5 DEF Retire, Abstract!Unlink
    <2>2. QED
      BY <2>1 DEF Abstract!Next
  <1>6. CASE TryPopRelease(t) \/ TryPushRelease(t) \/ TrySwapRelease(t)
    BY <1>6, AbstractVars DEF TryPopRelease, TryPushRelease, TrySwapRelease, client
  <1>7. CASE RunPopped(t) \/ RunSwapped(t)
    <2>1. /\ popped[t] # None /\ freed' = freed \cup {popped[t]}
          /\ UNCHANGED <<linked, held>>
      BY <1>0, <1>7 DEF RunPopped, RunSwapped, Control
    <2>2. QED
      BY <2>1, ReclaimImplements
  <1>8. QED
    BY <1>0, <1>1, <1>2, <1>3, <1>4, <1>5, <1>6, <1>7, ClientFrame, QuiesceStep

\* LightEpoch implements SafeReclamation: seen from the client, every step of
\* Protect, Unprotect, Drain and BumpCurrentEpoch either changes nothing or is a
\* reader acquiring or dropping references, an unlink, or the reclamation of an
\* unlinked object that no scanned reader holds.
THEOREM ImplementsSafeReclamation ==
  ASSUME BufferDepth = 0
  PROVE  Spec => RefinesSafeReclamation
  <1>1. Init => Abstract!Init
    BY DEF Init, Abstract!Init, Scanned
  <1>2. IInv /\ [Next]_vars => [Abstract!Next]_(Abstract!vars)
    <2> SUFFICES ASSUME IInv, [Next]_vars PROVE [Abstract!Next]_(Abstract!vars)
      OBVIOUS
    <2>1. CASE UNCHANGED vars
      BY <2>1, AbstractVars DEF vars, client
    <2>2. CASE Next
      BY <2>2, AbstractStep DEF Next
    <2>3. QED
      BY <2>1, <2>2
  <1>3. QED
    BY <1>1, <1>2, Inductive, PTL DEF Spec, RefinesSafeReclamation, Abstract!Spec

-----------------------------------------------------------------------------
(***************************************************************************)
(* No action of the drain list is lost or run twice, and drain_count_ is   *)
(* exact, whatever the store buffers hold: by counting.  A step of thread  *)
(* t changes what t itself carries and at most slot idx[t], so each count  *)
(* moves by what happens at t and at idx[t] alone.                         *)
(***************************************************************************)
LEMMA FiniteTables == IsFiniteSet(Thread) /\ IsFiniteSet(Slot)
  <1>1. IsFiniteSet(0 .. NumEntries + 1)
    BY FS_Interval, ThreadAssumption
  <1>2. IsFiniteSet(0 .. DrainListSize - 1)
    BY FS_Interval, BoundAssumption
  <1>3. QED
    BY <1>1, <1>2, FS_Subset, ThreadAssumption DEF Slot

\* Where an object's action may be.
Waiting(o) == {t \in Thread : ctx[t] = o}
Taken(o) == {t \in Thread : popped[t] = o}
Listed(o) == {i \in Slot : drain_list_[i].context = o}

LEMMA FinitePlaces ==
  ASSUME NEW o
  PROVE  IsFiniteSet(Waiting(o)) /\ IsFiniteSet(Taken(o)) /\ IsFiniteSet(Listed(o))
  BY FiniteTables, FS_Subset DEF Waiting, Taken, Listed

\* What a step does to the slot it works on.
LEMMA OtherSlotsKept ==
  ASSUME BaseInv, NEW t \in Thread, ThreadNext(t), NEW i \in Slot, i # idx[t]
  PROVE  drain_list_'[i] = drain_list_[i]
  <1>1. drain_list_ \in [Slot -> [epoch : 0 .. kFree, context : Object \cup {None}]]
    BY TypeFacts
  <1>2. QED
    BY <1>1, ListStep

\* Each count changes by what the step does at t and at idx[t].
LEMMA PlaceCounts ==
  ASSUME BaseInv, NEW t \in Thread, ThreadNext(t), NEW o
  PROVE  /\ Cardinality(Waiting(o)) \in Nat
         /\ Cardinality(Taken(o)) \in Nat
         /\ Cardinality(Listed(o)) \in Nat
         /\ Cardinality(Waiting(o)') = Cardinality(Waiting(o))
              + Indicator(ctx'[t] = o) - Indicator(ctx[t] = o)
         /\ Cardinality(Taken(o)') = Cardinality(Taken(o))
              + Indicator(popped'[t] = o) - Indicator(popped[t] = o)
         /\ idx[t] \in Slot =>
              Cardinality(Listed(o)') = Cardinality(Listed(o))
                + Indicator(drain_list_'[idx[t]].context = o)
                - Indicator(drain_list_[idx[t]].context = o)
         /\ idx[t] \notin Slot => Listed(o)' = Listed(o)
  <1>0. \A u \in Thread : u # t => ctx'[u] = ctx[u] /\ popped'[u] = popped[u]
    BY OthersKept DEF Kept
  <1>1. /\ Cardinality(Waiting(o)) \in Nat
        /\ Cardinality(Waiting(o)') = Cardinality(Waiting(o))
             + Indicator(t \in Waiting(o)') - Indicator(t \in Waiting(o))
    <2>1. \A y : y # t => (y \in Waiting(o) <=> y \in Waiting(o)')
      BY <1>0 DEF Waiting
    <2>2. QED
      BY <2>1, FinitePlaces, CountStep
  <1>2. /\ Cardinality(Taken(o)) \in Nat
        /\ Cardinality(Taken(o)') = Cardinality(Taken(o))
             + Indicator(t \in Taken(o)') - Indicator(t \in Taken(o))
    <2>1. \A y : y # t => (y \in Taken(o) <=> y \in Taken(o)')
      BY <1>0 DEF Taken
    <2>2. QED
      BY <2>1, FinitePlaces, CountStep
  <1>3. /\ Cardinality(Listed(o)) \in Nat
        /\ Cardinality(Listed(o)') = Cardinality(Listed(o))
             + Indicator(idx[t] \in Listed(o)') - Indicator(idx[t] \in Listed(o))
    <2>1. \A y : y # idx[t] => (y \in Listed(o) <=> y \in Listed(o)')
      BY OtherSlotsKept DEF Listed
    <2>2. QED
      BY <2>1, FinitePlaces, CountStep
  <1>4. idx[t] \notin Slot => Listed(o)' = Listed(o)
    BY OtherSlotsKept DEF Listed
  <1>5. /\ t \in Waiting(o)' <=> ctx'[t] = o
        /\ t \in Waiting(o) <=> ctx[t] = o
        /\ t \in Taken(o)' <=> popped'[t] = o
        /\ t \in Taken(o) <=> popped[t] = o
        /\ idx[t] \in Slot => (idx[t] \in Listed(o)' <=> drain_list_'[idx[t]].context = o)
        /\ idx[t] \in Slot => (idx[t] \in Listed(o) <=> drain_list_[idx[t]].context = o)
    BY DEF Waiting, Taken, Listed
  <1>6. QED
    BY <1>1, <1>2, <1>3, <1>4, <1>5 DEF Indicator

\* How a step moves actions from place to place.
LEMMA Moves ==
  ASSUME BaseInv, NEW t \in Thread, ThreadNext(t)
  PROVE  \/ /\ \A i \in Slot : drain_list_'[i].context = drain_list_[i].context
            /\ UNCHANGED <<ctx[t], popped[t], linked, freed>>
         \/ /\ ctx[t] = None /\ ctx'[t] \in linked /\ linked' = linked \ {ctx'[t]}
            /\ UNCHANGED <<drain_list_, popped[t], freed>>
         \/ /\ idx[t] \in Slot
            /\ popped[t] = None /\ popped'[t] = drain_list_[idx[t]].context
            /\ drain_list_'[idx[t]].context = None
            /\ UNCHANGED <<ctx[t], linked, freed>>
         \/ /\ idx[t] \in Slot
            /\ drain_list_[idx[t]].context = None
            /\ drain_list_'[idx[t]].context = ctx[t] /\ ctx'[t] = None
            /\ UNCHANGED <<popped[t], linked, freed>>
         \/ /\ idx[t] \in Slot
            /\ popped[t] = None /\ popped'[t] = drain_list_[idx[t]].context
            /\ drain_list_'[idx[t]].context = ctx[t] /\ ctx'[t] = None
            /\ UNCHANGED <<linked, freed>>
         \/ /\ popped[t] # None /\ popped'[t] = None
            /\ freed' = freed \cup {popped[t]}
            /\ UNCHANGED <<drain_list_, ctx[t], linked>>
  <1>0. /\ Control(t)
        /\ ctx \in [Thread -> Object \cup {None}]
        /\ popped \in [Thread -> Object \cup {None}]
        /\ drain_list_ \in [Slot -> [epoch : 0 .. kFree, context : Object \cup {None}]]
    BY Basics, TypeFacts
  <1>1. CASE TryPopRelease(t)
    <2>1. pc[t] = "popped" /\ idx[t] \in Slot /\ popped[t] = None
      BY <1>0, <1>1 DEF TryPopRelease, Control, DrainLabels
    <2>2. drain_list_'[idx[t]].context = None
      BY <1>0, <1>1, <2>1 DEF TryPopRelease, Unlock
    <2>3. popped'[t] = drain_list_[idx[t]].context /\ UNCHANGED <<ctx[t], linked, freed>>
      BY <1>0, <1>1 DEF TryPopRelease, client
    <2>4. QED
      BY <2>1, <2>2, <2>3
  <1>2. CASE TryPushRelease(t)
    <2>1. idx[t] \in Slot /\ drain_list_[idx[t]].context = None
      BY <1>0, <1>2 DEF TryPushRelease, Control, PushLabels
    <2>2. drain_list_'[idx[t]].context = ctx[t]
      BY <1>0, <1>2, <2>1 DEF TryPushRelease, Unlock
    <2>3. ctx'[t] = None /\ UNCHANGED <<popped[t], linked, freed>>
      BY <1>0, <1>2 DEF TryPushRelease, client
    <2>4. QED
      BY <2>1, <2>2, <2>3
  <1>3. CASE TrySwapRelease(t)
    <2>1. idx[t] \in Slot /\ popped[t] = None
      BY <1>0, <1>3 DEF TrySwapRelease, Control, PushLabels
    <2>2. drain_list_'[idx[t]].context = ctx[t]
      BY <1>0, <1>3, <2>1 DEF TrySwapRelease, Unlock
    <2>3. /\ popped'[t] = drain_list_[idx[t]].context
          /\ ctx'[t] = None /\ UNCHANGED <<linked, freed>>
      BY <1>0, <1>3 DEF TrySwapRelease, client
    <2>4. QED
      BY <2>1, <2>2, <2>3
  <1>4. CASE RunPopped(t) \/ RunSwapped(t)
    BY <1>0, <1>4 DEF RunPopped, RunSwapped, Control, shared
  <1>5. ASSUME NEW o \in Object, Retire(t, o)
        PROVE  /\ ctx[t] = None /\ ctx'[t] \in linked /\ linked' = linked \ {ctx'[t]}
               /\ UNCHANGED <<drain_list_, popped[t], freed>>
    BY <1>0, <1>5 DEF Retire, Control, shared
  <1>6. CASE /\ ~TryPopRelease(t) /\ ~TryPushRelease(t) /\ ~TrySwapRelease(t)
             /\ ~RunPopped(t) /\ ~RunSwapped(t) /\ \A o \in Object : ~Retire(t, o)
    <2>1. \A i \in Slot : drain_list_'[i].context = drain_list_[i].context
      <3>1. CASE drain_list_' = [drain_list_ EXCEPT ![idx[t]].epoch = kLocked]
        BY <1>0, <3>1
      <3>2. QED
        BY <1>6, <3>1, ListStep
    <2>2. UNCHANGED <<ctx[t], popped[t], linked, freed>>
      BY <1>6, ClientFrame DEF EnterLoad, Unprotect, ReentrantUnprotect, Acquire
    <2>3. QED
      BY <2>1, <2>2
  <1>7. QED
    BY <1>1, <1>2, <1>3, <1>4, <1>5, <1>6

\* The number of places an object's action is in.
Places(o) ==
  Cardinality(Waiting(o)) + Cardinality(Taken(o)) + Cardinality(Listed(o))
    + Indicator(o \in linked) + Indicator(o \in freed)

LEMMA OnePlace == ActionInOnePlace <=> \A o \in Object : Places(o) = 1
  BY SingletonCount DEF ActionInOnePlace, Places, Waiting, Taken, Listed

LEMMA PlacesStep ==
  ASSUME BaseInv, NEW t \in Thread, ThreadNext(t), NEW o \in Object, Places(o) = 1
  PROVE  Places(o)' = 1
  <1> DEFINE W == Cardinality(Waiting(o))
             T == Cardinality(Taken(o))
             L == Cardinality(Listed(o))
  <1>0. /\ W \in Nat /\ T \in Nat /\ L \in Nat
        /\ W' = W + Indicator(ctx'[t] = o) - Indicator(ctx[t] = o)
        /\ T' = T + Indicator(popped'[t] = o) - Indicator(popped[t] = o)
        /\ idx[t] \in Slot =>
             L' = L + Indicator(drain_list_'[idx[t]].context = o)
                    - Indicator(drain_list_[idx[t]].context = o)
        /\ idx[t] \notin Slot => L' = L
    BY PlaceCounts
  <1>1. W + T + L + Indicator(o \in linked) + Indicator(o \in freed) = 1
    BY DEF Places
  <1>2. o # None
    BY ObjectAssumption
  <1>3. UNCHANGED drain_list_ => L' = L
    BY DEF Listed
  <1>4. popped[t] = o => T >= 1
    <2>1. popped[t] = o => t \in Taken(o)
      BY DEF Taken
    <2>2. QED
      BY <2>1, FinitePlaces, CountPositive
  <1> SUFFICES W' + T' + L' + Indicator(o \in linked') + Indicator(o \in freed') = 1
    BY DEF Places
  <1> HIDE DEF W, T, L
  <1>5. CASE /\ \A i \in Slot : drain_list_'[i].context = drain_list_[i].context
             /\ UNCHANGED <<ctx[t], popped[t], linked, freed>>
    BY <1>0, <1>1, <1>5 DEF Indicator
  <1>6. CASE /\ ctx[t] = None /\ ctx'[t] \in linked /\ linked' = linked \ {ctx'[t]}
             /\ UNCHANGED <<drain_list_, popped[t], freed>>
    BY <1>0, <1>1, <1>2, <1>3, <1>6 DEF Indicator
  <1>7. CASE /\ idx[t] \in Slot
             /\ popped[t] = None /\ popped'[t] = drain_list_[idx[t]].context
             /\ drain_list_'[idx[t]].context = None
             /\ UNCHANGED <<ctx[t], linked, freed>>
    BY <1>0, <1>1, <1>2, <1>7 DEF Indicator
  <1>8. CASE /\ idx[t] \in Slot
             /\ drain_list_[idx[t]].context = None
             /\ drain_list_'[idx[t]].context = ctx[t] /\ ctx'[t] = None
             /\ UNCHANGED <<popped[t], linked, freed>>
    BY <1>0, <1>1, <1>2, <1>8 DEF Indicator
  <1>9. CASE /\ idx[t] \in Slot
             /\ popped[t] = None /\ popped'[t] = drain_list_[idx[t]].context
             /\ drain_list_'[idx[t]].context = ctx[t] /\ ctx'[t] = None
             /\ UNCHANGED <<linked, freed>>
    BY <1>0, <1>1, <1>2, <1>9 DEF Indicator
  <1>10. CASE /\ popped[t] # None /\ popped'[t] = None
              /\ freed' = freed \cup {popped[t]}
              /\ UNCHANGED <<drain_list_, ctx[t], linked>>
    BY <1>0, <1>1, <1>2, <1>3, <1>4, <1>10 DEF Indicator
  <1>11. QED
    BY <1>5, <1>6, <1>7, <1>8, <1>9, <1>10, Moves

\* Every action is in exactly one place at every moment, for any number of
\* threads, slots, objects and epochs and however long stores are delayed: the
\* compare-exchanges of TryPush, TryPop and TrySwap lose none and run none twice.
THEOREM NoActionLostOrRepeated == Spec => []ActionInOnePlace
  <1>1. Init => ActionInOnePlace
    <2> SUFFICES ASSUME Init, NEW o \in Object PROVE Places(o) = 1
      BY OnePlace
    <2>1. Waiting(o) = {} /\ Taken(o) = {} /\ Listed(o) = {}
      BY ObjectAssumption DEF Init, Waiting, Taken, Listed
    <2>2. o \in linked /\ o \notin freed
      BY DEF Init
    <2>3. QED
      BY <2>1, <2>2, FS_EmptySet DEF Places, Indicator
  <1>2. BaseInv /\ ActionInOnePlace /\ [Next]_vars => ActionInOnePlace'
    <2> SUFFICES ASSUME BaseInv, ActionInOnePlace, [Next]_vars PROVE ActionInOnePlace'
      OBVIOUS
    <2>1. CASE UNCHANGED vars
      BY <2>1 DEF vars, shared, client, ActionInOnePlace
    <2>2. ASSUME NEW t \in Thread, ThreadNext(t) PROVE ActionInOnePlace'
      <3>1. \A o \in Object : Places(o)' = 1
        BY <2>2, OnePlace, PlacesStep
      <3>2. (ActionInOnePlace <=> \A o \in Object : Places(o) = 1)'
        BY OnePlace, PTL
      <3>3. QED
        BY <3>1, <3>2
    <2>3. QED
      BY <2>1, <2>2 DEF Next
  <1>3. QED
    BY <1>1, <1>2, BaseInductive, PTL DEF Spec

-----------------------------------------------------------------------------
(***************************************************************************)
(* drain_count_.                                                           *)
(***************************************************************************)
LEMMA Quotient ==
  ASSUME NEW m \in Nat, m > 0, NEW n \in Int
  PROVE  \E q \in Int, x \in 0 .. m - 1 : n % m = x /\ n = q * m + x
  <1>1. n \div m \in Int /\ n % m \in 0 .. m - 1
    OBVIOUS
  <1>2. n = (n \div m) * m + (n % m)
    BY Z3
  <1>3. QED
    BY <1>1, <1>2, Zenon

\* Modular counting: a wrapped counter follows the number it counts.
LEMMA WrappedStep ==
  ASSUME NEW m \in Nat, m > 0, NEW n \in Int, NEW d \in Int
  PROVE  ((n % m) + d) % m = (n + d) % m
  <1>1. PICK a \in Int, x \in 0 .. m - 1 : n % m = x /\ n = a * m + x
    BY Quotient
  <1>i. x \in Int /\ x + d \in Int /\ n + d \in Int
    OBVIOUS
  <1>2. PICK b \in Int, r \in 0 .. m - 1 : (x + d) % m = r /\ x + d = b * m + r
    BY <1>i, Quotient
  <1>3. PICK c \in Int, s \in 0 .. m - 1 : (n + d) % m = s /\ n + d = c * m + s
    BY <1>i, Quotient, Zenon
  <1>4. r = s
    <2>1. n = a * m + x /\ x + d = b * m + r /\ n + d = c * m + s
      BY <1>1, <1>2, <1>3, Zenon
    <2>2. (a + b) * m + r = c * m + s
      BY <1>i, <2>1
    <2>3. PICK e \in Int : e = (a + b) - c
      OBVIOUS
    <2>4. e * m = s - r
      BY <2>2, <2>3
    <2>5. e >= 1 => e * m >= m
      OBVIOUS
    <2>6. e <= -1 => e * m <= -m
      OBVIOUS
    <2>7. e = 0
      BY <2>4, <2>5, <2>6
    <2>8. QED
      BY <2>4, <2>7
  <1>5. ((n % m) + d) % m = (x + d) % m
    BY <1>1, Zenon
  <1>6. (x + d) % m = r /\ (n + d) % m = s
    BY <1>2, <1>3, Zenon
  <1>7. QED
    BY <1>4, <1>5, <1>6, Zenon

Registered == {i \in Slot : drain_list_[i].context # None}
Decrementing == {t \in Thread : pc[t] \in {"run", "dec"}}
Incrementing == {t \in Thread : pc[t] = "inc"}

\* Each count changes by what the step does at t and at idx[t].
LEMMA DrainCounts ==
  ASSUME BaseInv, NEW t \in Thread, ThreadNext(t)
  PROVE  /\ Cardinality(Registered) \in Int
         /\ Cardinality(Decrementing) \in Int
         /\ Cardinality(Incrementing) \in Int
         /\ Cardinality(Decrementing') = Cardinality(Decrementing)
              + Indicator(pc'[t] \in {"run", "dec"}) - Indicator(pc[t] \in {"run", "dec"})
         /\ Cardinality(Incrementing') = Cardinality(Incrementing)
              + Indicator(pc'[t] = "inc") - Indicator(pc[t] = "inc")
         /\ idx[t] \in Slot =>
              Cardinality(Registered') = Cardinality(Registered)
                + Indicator(drain_list_'[idx[t]].context # None)
                - Indicator(drain_list_[idx[t]].context # None)
         /\ idx[t] \notin Slot => Registered' = Registered
  <1>0. \A u \in Thread : u # t => pc'[u] = pc[u]
    BY OthersKept DEF Kept
  <1>f. IsFiniteSet(Registered) /\ IsFiniteSet(Decrementing) /\ IsFiniteSet(Incrementing)
    BY FiniteTables, FS_Subset DEF Registered, Decrementing, Incrementing
  <1>1. /\ Cardinality(Decrementing) \in Nat
        /\ Cardinality(Decrementing') = Cardinality(Decrementing)
             + Indicator(t \in Decrementing') - Indicator(t \in Decrementing)
    <2>1. \A y : y # t => (y \in Decrementing <=> y \in Decrementing')
      BY <1>0 DEF Decrementing
    <2>2. QED
      BY <2>1, <1>f, CountStep
  <1>2. /\ Cardinality(Incrementing) \in Nat
        /\ Cardinality(Incrementing') = Cardinality(Incrementing)
             + Indicator(t \in Incrementing') - Indicator(t \in Incrementing)
    <2>1. \A y : y # t => (y \in Incrementing <=> y \in Incrementing')
      BY <1>0 DEF Incrementing
    <2>2. QED
      BY <2>1, <1>f, CountStep
  <1>3. /\ Cardinality(Registered) \in Nat
        /\ Cardinality(Registered') = Cardinality(Registered)
             + Indicator(idx[t] \in Registered') - Indicator(idx[t] \in Registered)
    <2>1. \A y : y # idx[t] => (y \in Registered <=> y \in Registered')
      BY OtherSlotsKept DEF Registered
    <2>2. QED
      BY <2>1, <1>f, CountStep
  <1>4. idx[t] \notin Slot => Registered' = Registered
    BY OtherSlotsKept DEF Registered
  <1>5. /\ t \in Decrementing' <=> pc'[t] \in {"run", "dec"}
        /\ t \in Decrementing <=> pc[t] \in {"run", "dec"}
        /\ t \in Incrementing' <=> pc'[t] = "inc"
        /\ t \in Incrementing <=> pc[t] = "inc"
        /\ idx[t] \in Slot => (idx[t] \in Registered' <=> drain_list_'[idx[t]].context # None)
        /\ idx[t] \in Slot => (idx[t] \in Registered <=> drain_list_[idx[t]].context # None)
    BY DEF Decrementing, Incrementing, Registered
  <1>6. QED
    BY <1>1, <1>2, <1>3, <1>4, <1>5 DEF Indicator

\* How a step moves the count and what it counts.
LEMMA CountMoves ==
  ASSUME BaseInv, NEW t \in Thread, ThreadNext(t)
  PROVE  \/ /\ \A i \in Slot : drain_list_'[i].context = drain_list_[i].context
            /\ pc[t] \in {"run", "dec"} <=> pc'[t] \in {"run", "dec"}
            /\ pc[t] = "inc" <=> pc'[t] = "inc"
            /\ drain_count_' = drain_count_
         \/ /\ idx[t] \in Slot /\ pc[t] = "popped" /\ pc'[t] = "run"
            /\ drain_list_[idx[t]].context # None
            /\ drain_list_'[idx[t]].context = None
            /\ drain_count_' = drain_count_
         \/ /\ idx[t] \in Slot /\ pc[t] = "pushing" /\ pc'[t] = "inc"
            /\ drain_list_[idx[t]].context = None
            /\ drain_list_'[idx[t]].context # None
            /\ drain_count_' = drain_count_
         \/ /\ idx[t] \in Slot /\ pc[t] = "swapping" /\ pc'[t] = "run_swapped"
            /\ drain_list_[idx[t]].context # None
            /\ drain_list_'[idx[t]].context # None
            /\ drain_count_' = drain_count_
         \/ /\ pc[t] = "dec" /\ pc'[t] \notin {"run", "dec", "inc"}
            /\ drain_list_' = drain_list_
            /\ drain_count_' = (drain_count_ - 1) % CountMod
         \/ /\ pc[t] = "inc" /\ pc'[t] \notin {"run", "dec", "inc"}
            /\ drain_list_' = drain_list_
            /\ drain_count_' = (drain_count_ + 1) % CountMod
  <1>0. /\ Control(t) /\ pc \in [Thread -> Labels] /\ drain_count_ \in Int
        /\ drain_list_ \in [Slot -> [epoch : 0 .. kFree, context : Object \cup {None}]]
    BY Basics, TypeFacts, BoundAssumption DEF TypeOK, SharedTypeOK
  <1>1. CASE TryPopRelease(t)
    <2>1. /\ idx[t] \in Slot /\ pc[t] = "popped" /\ pc'[t] = "run"
          /\ drain_list_[idx[t]].context # None
      BY <1>0, <1>1 DEF TryPopRelease, Control, DrainLabels, Goto
    <2>2. drain_list_'[idx[t]].context = None /\ drain_count_' = drain_count_
      BY <1>0, <1>1, <2>1 DEF TryPopRelease, Unlock
    <2>3. QED
      BY <2>1, <2>2
  <1>2. CASE TryPushRelease(t)
    <2>1. /\ idx[t] \in Slot /\ pc[t] = "pushing" /\ pc'[t] = "inc"
          /\ drain_list_[idx[t]].context = None /\ ctx[t] # None
      BY <1>0, <1>2 DEF TryPushRelease, Control, PushLabels, Goto
    <2>2. drain_list_'[idx[t]].context = ctx[t] /\ drain_count_' = drain_count_
      BY <1>0, <1>2, <2>1 DEF TryPushRelease, Unlock
    <2>3. QED
      BY <2>1, <2>2
  <1>3. CASE TrySwapRelease(t)
    <2>1. /\ idx[t] \in Slot /\ pc[t] = "swapping" /\ pc'[t] = "run_swapped"
          /\ drain_list_[idx[t]].context # None /\ ctx[t] # None
      BY <1>0, <1>3 DEF TrySwapRelease, Control, PushLabels, Goto
    <2>2. drain_list_'[idx[t]].context = ctx[t] /\ drain_count_' = drain_count_
      BY <1>0, <1>3, <2>1 DEF TrySwapRelease, Unlock
    <2>3. QED
      BY <2>1, <2>2
  <1>4. CASE DecrementDrainCount(t)
    <2>1. /\ pc[t] = "dec" /\ drain_list_' = drain_list_
          /\ drain_count_' = (drain_count_ - 1) % CountMod
      BY <1>0, <1>4 DEF DecrementDrainCount, AddDrainCount
    <2>2. pc'[t] \notin {"run", "dec", "inc"}
      BY <1>0, <1>4 DEF DecrementDrainCount, EndDrain, Return, NextSlot, Goto
    <2>3. QED
      BY <2>1, <2>2
  <1>5. CASE IncrementDrainCount(t)
    BY <1>0, <1>5 DEF IncrementDrainCount, AddDrainCount, Return, Goto
  <1>6. CASE /\ ~TryPopRelease(t) /\ ~TryPushRelease(t) /\ ~TrySwapRelease(t)
             /\ ~DecrementDrainCount(t) /\ ~IncrementDrainCount(t)
    <2>1. \A i \in Slot : drain_list_'[i].context = drain_list_[i].context
      <3>1. CASE drain_list_' = [drain_list_ EXCEPT ![idx[t]].epoch = kLocked]
        BY <1>0, <3>1
      <3>2. QED
        BY <1>6, <3>1, ListStep
    <2>2. drain_count_' = drain_count_
      BY <1>6, SharedFrame DEF ScanDone, IncrementEpoch, Lock
    <2>3. /\ pc[t] \in {"run", "dec"} <=> pc'[t] \in {"run", "dec"}
          /\ pc[t] = "inc" <=> pc'[t] = "inc"
      BY <1>0, <1>6 DEF Labels, Goto, Return, EndDrain, NextSlot, TryNextSlot,
          ThreadNext, Step, ProtectStore, ReentrantProtectStore,
          ProtectAndDrainStore, CheckDrainCount, ScanEntry, ScanDone, DrainLoad,
          DrainCompare, TryPop, RunPopped, IncrementEpoch, PushLoad, PushCompare,
          TryPush, TrySwap, RunSwapped, EnterLoad, Unprotect, ReentrantUnprotect,
          Acquire, Retire, FlushStore
    <2>4. QED
      BY <2>1, <2>2, <2>3
  <1>7. QED
    BY <1>1, <1>2, <1>3, <1>4, <1>5, <1>6

LEMMA DrainCountStep ==
  ASSUME BaseInv, NEW t \in Thread, ThreadNext(t), DrainCountExact
  PROVE  DrainCountExact'
  <1> DEFINE A == Cardinality(Registered)
             B == Cardinality(Decrementing)
             C == Cardinality(Incrementing)
  <1>0. /\ A \in Int /\ B \in Int /\ C \in Int
        /\ B' = B + Indicator(pc'[t] \in {"run", "dec"}) - Indicator(pc[t] \in {"run", "dec"})
        /\ C' = C + Indicator(pc'[t] = "inc") - Indicator(pc[t] = "inc")
        /\ idx[t] \in Slot =>
             A' = A + Indicator(drain_list_'[idx[t]].context # None)
                    - Indicator(drain_list_[idx[t]].context # None)
        /\ idx[t] \notin Slot => A' = A
    BY DrainCounts
  <1>1. drain_count_ = (A + B - C) % CountMod
    BY DEF DrainCountExact, Registered, Decrementing, Incrementing
  <1>2. UNCHANGED drain_list_ => A' = A
    BY DEF Registered
  <1>m. CountMod \in Nat /\ CountMod > 0
    BY BoundAssumption
  <1> SUFFICES drain_count_' = (A' + B' - C') % CountMod
    BY DEF DrainCountExact, Registered, Decrementing, Incrementing
  <1> HIDE DEF A, B, C
  <1>3. CASE A' + B' - C' = A + B - C /\ drain_count_' = drain_count_
    BY <1>1, <1>3
  <1>4. CASE A' + B' - C' = (A + B - C) + (-1) /\ drain_count_' = (drain_count_ + (-1)) % CountMod
    <2>1. PICK n \in Int : n = A + B - C
      BY <1>0
    <2>2. -1 \in Int
      OBVIOUS
    <2>3. ((n % CountMod) + (-1)) % CountMod = (n + (-1)) % CountMod
      BY <1>m, <2>2, WrappedStep
    <2>4. QED
      BY <1>1, <1>4, <2>1, <2>3, Zenon
  <1>5. CASE A' + B' - C' = (A + B - C) + 1 /\ drain_count_' = (drain_count_ + 1) % CountMod
    <2>1. PICK n \in Int : n = A + B - C
      BY <1>0
    <2>2. 1 \in Int
      OBVIOUS
    <2>3. ((n % CountMod) + 1) % CountMod = (n + 1) % CountMod
      BY <1>m, <2>2, WrappedStep, Zenon
    <2>4. QED
      BY <1>1, <1>5, <2>1, <2>3, Zenon
  <1>6. CASE /\ \A i \in Slot : drain_list_'[i].context = drain_list_[i].context
             /\ pc[t] \in {"run", "dec"} <=> pc'[t] \in {"run", "dec"}
             /\ pc[t] = "inc" <=> pc'[t] = "inc"
             /\ drain_count_' = drain_count_
    BY <1>0, <1>3, <1>6 DEF Indicator
  <1>7. CASE /\ idx[t] \in Slot /\ pc[t] = "popped" /\ pc'[t] = "run"
             /\ drain_list_[idx[t]].context # None
             /\ drain_list_'[idx[t]].context = None
             /\ drain_count_' = drain_count_
    BY <1>0, <1>3, <1>7 DEF Indicator
  <1>8. CASE /\ idx[t] \in Slot /\ pc[t] = "pushing" /\ pc'[t] = "inc"
             /\ drain_list_[idx[t]].context = None
             /\ drain_list_'[idx[t]].context # None
             /\ drain_count_' = drain_count_
    BY <1>0, <1>3, <1>8 DEF Indicator
  <1>9. CASE /\ idx[t] \in Slot /\ pc[t] = "swapping" /\ pc'[t] = "run_swapped"
             /\ drain_list_[idx[t]].context # None
             /\ drain_list_'[idx[t]].context # None
             /\ drain_count_' = drain_count_
    BY <1>0, <1>3, <1>9 DEF Indicator
  <1>10. CASE /\ pc[t] = "dec" /\ pc'[t] \notin {"run", "dec", "inc"}
              /\ drain_list_' = drain_list_
              /\ drain_count_' = (drain_count_ - 1) % CountMod
    <2>1. drain_count_ \in Int
      BY BoundAssumption DEF BaseInv, TypeOK, SharedTypeOK
    <2>2. drain_count_ - 1 = drain_count_ + (-1)
      BY <2>1
    <2>3. QED
      BY <1>0, <1>2, <1>4, <1>10, <2>2 DEF Indicator
  <1>11. CASE /\ pc[t] = "inc" /\ pc'[t] \notin {"run", "dec", "inc"}
              /\ drain_list_' = drain_list_
              /\ drain_count_' = (drain_count_ + 1) % CountMod
    BY <1>0, <1>2, <1>5, <1>11 DEF Indicator
  <1>12. QED
    BY <1>6, <1>7, <1>8, <1>9, <1>10, <1>11, CountMoves

\* drain_count_ equals the number of registered actions, corrected by the calls
\* whose ++ or -- is still to come, for every table size, every modulus and every
\* interleaving: "if (drain_count_ > 0)" hides no action once the calls are over.
THEOREM DrainCountIsExact == Spec => []DrainCountExact
  <1>1. Init => DrainCountExact
    <2> SUFFICES ASSUME Init PROVE DrainCountExact
      OBVIOUS
    <2>1. Registered = {} /\ Decrementing = {} /\ Incrementing = {}
      BY DEF Init, Registered, Decrementing, Incrementing
    <2>2. 0 = (0 + 0 - 0) % CountMod
      BY BoundAssumption
    <2>3. drain_count_ = 0
      BY DEF Init
    <2>4. QED
      BY <2>1, <2>2, <2>3, FS_EmptySet DEF DrainCountExact, Registered, Decrementing, Incrementing
  <1>2. BaseInv /\ DrainCountExact /\ [Next]_vars => DrainCountExact'
    <2> SUFFICES ASSUME BaseInv, DrainCountExact, [Next]_vars PROVE DrainCountExact'
      OBVIOUS
    <2>1. CASE UNCHANGED vars
      BY <2>1 DEF vars, shared, DrainCountExact
    <2>2. CASE Next
      BY <2>2, DrainCountStep DEF Next
    <2>3. QED
      BY <2>1, <2>2
  <1>3. QED
    BY <1>1, <1>2, BaseInductive, PTL DEF Spec
=============================================================================
