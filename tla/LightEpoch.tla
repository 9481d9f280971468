----------------------------- MODULE LightEpoch -----------------------------
(***************************************************************************)
(* FASTER's epoch protection (faster/memory/light_epoch.h and its copy in  *)
(* mhash/epoch/faster), at the grain of its atomic accesses, together with *)
(* the client it is written for: threads that read linked objects inside a *)
(* protected region, and threads that unlink an object and register, with  *)
(* BumpCurrentEpoch(callback, context), the action that reclaims it.       *)
(*                                                                         *)
(* Entry::local_current_epoch is a plain uint64_t, read by other threads:  *)
(* its stores may linger in the writer's store buffer (x86-TSO), which     *)
(* BufferDepth bounds.  BufferDepth = 0 is the sequentially consistent     *)
(* reading of the code.                                                    *)
(***************************************************************************)
EXTENDS Integers, Sequences, FiniteSets

CONSTANTS
  Thread,          \* thread ids, as Thread::id() hands them out
  Reentrant,       \* the threads that enter through ReentrantProtect
  Object,          \* what the client protects, unlinks and reclaims
  None,            \* no object
  NumEntries,      \* num_entries_
  DrainListSize,   \* kDrainListSize
  MaxEpoch,        \* bound on current_epoch
  CountMod,        \* 2^32, the modulus of drain_count_ and reentrant
  BufferDepth      \* stores of local_current_epoch a thread may have pending

ASSUME ThreadAssumption ==
  /\ NumEntries \in Nat
  /\ Thread \subseteq 0 .. NumEntries + 1
  /\ Reentrant \subseteq Thread
ASSUME ObjectAssumption == None \notin Object
ASSUME BoundAssumption ==
  /\ DrainListSize \in Nat \ {0}
  /\ MaxEpoch \in Nat \ {0}
  /\ CountMod \in Nat \ {0, 1}
  /\ BufferDepth \in Nat

kUnprotected == 0
kLocked == MaxEpoch + 1     \* UINT64_MAX - 1: above every epoch
kFree == MaxEpoch + 2       \* UINT64_MAX

Entry == 0 .. NumEntries + 1
Slot == 0 .. DrainListSize - 1

VARIABLES
  current_epoch, safe_to_reclaim_epoch, drain_count_, drain_list_,
  table_,          \* Entry::local_current_epoch as the other threads see it
  reentrant,       \* Entry::reentrant
  store_buffer,    \* pending stores of a thread's own local_current_epoch
  pc,              \* where each thread is
  next,            \* the epoch a call read or created
  idx,             \* loop counter of the scan, of Drain or of the push loop
  oldest,          \* oldest_ongoing_call
  trigger,         \* trigger_epoch
  ctx,             \* context a call of BumpCurrentEpoch has yet to register
  popped,          \* context a TryPop or TrySwap has yet to run
  linked, held, freed   \* client: reachable, referenced and reclaimed objects

shared == <<current_epoch, safe_to_reclaim_epoch, drain_count_, drain_list_>>
entries == <<table_, reentrant, store_buffer>>
locals == <<next, idx, oldest, trigger>>
client == <<linked, held, freed>>
vars == <<shared, entries, pc, locals, ctx, popped, client>>

-----------------------------------------------------------------------------
Init ==
  /\ current_epoch = 1
  /\ safe_to_reclaim_epoch = 0
  /\ drain_count_ = 0
  /\ drain_list_ = [i \in Slot |-> [epoch |-> kFree, context |-> None]]
  /\ table_ = [i \in Entry |-> kUnprotected]
  /\ reentrant = [t \in Thread |-> 0]
  /\ store_buffer = [t \in Thread |-> <<>>]
  /\ pc = [t \in Thread |-> "idle"]
  /\ next = [t \in Thread |-> 0]
  /\ idx = [t \in Thread |-> 0]
  /\ oldest = [t \in Thread |-> 0]
  /\ trigger = [t \in Thread |-> 0]
  /\ ctx = [t \in Thread |-> None]
  /\ popped = [t \in Thread |-> None]
  /\ linked = Object
  /\ held = [t \in Thread |-> {}]
  /\ freed = {}

(***************************************************************************)
(* Memory.  A locked instruction or a sequentially consistent store waits  *)
(* for the thread's store buffer; a thread reads its own pending stores.   *)
(***************************************************************************)
Fenced(t) == store_buffer[t] = <<>>

View(t, i) ==
  IF i = t /\ store_buffer[t] # <<>>
  THEN store_buffer[t][Len(store_buffer[t])]
  ELSE table_[i]

Publish(t, e) ==
  \/ /\ BufferDepth = 0
     /\ table_' = [table_ EXCEPT ![t] = e]
     /\ UNCHANGED store_buffer
  \/ /\ Len(store_buffer[t]) < BufferDepth
     /\ store_buffer' = [store_buffer EXCEPT ![t] = Append(@, e)]
     /\ UNCHANGED table_

FlushStore(t) ==
  /\ store_buffer[t] # <<>>
  /\ table_' = [table_ EXCEPT ![t] = Head(store_buffer[t])]
  /\ store_buffer' = [store_buffer EXCEPT ![t] = Tail(@)]
  /\ UNCHANGED <<shared, reentrant, pc, locals, ctx, popped, client>>

\* Slips: drain_count_ stops at zero, is never incremented, is a wide integer.
AddSaturated(d) ==
  drain_count_' = IF drain_count_ + d < 0 THEN 0 ELSE drain_count_ + d
AddOnlyDecrements(d) == drain_count_' = IF d > 0 THEN drain_count_ ELSE
                                        (drain_count_ + d) % CountMod
AddUnwrapped(d) == drain_count_' = drain_count_ + d

AddDrainCount(d) == drain_count_' = (drain_count_ + d) % CountMod

\* Slip: the action is registered one epoch too early.
PriorEpochEarly(t) == next[t] - 2

\* prior_epoch of BumpCurrentEpoch(callback, context)
PriorEpoch(t) == next[t] - 1

Goto(t, label) == pc' = [pc EXCEPT ![t] = label]

SetIdx(t, i) == idx' = [idx EXCEPT ![t] = i]

\* Return from the outermost call: its locals die.
Return(t) ==
  /\ Goto(t, "idle")
  /\ SetIdx(t, 0)
  /\ next' = [next EXCEPT ![t] = 0]
  /\ oldest' = [oldest EXCEPT ![t] = 0]
  /\ trigger' = [trigger EXCEPT ![t] = 0]

-----------------------------------------------------------------------------
(***************************************************************************)
(* Protect, ProtectAndDrain and ReentrantProtect load current_epoch and    *)
(* then store it in the thread's entry.  Each is a point where the client  *)
(* holds no reference: it drops them before it (re)enters.                 *)
(***************************************************************************)
EnterLoad(t, call) ==
  /\ pc[t] = "idle"
  /\ call = "reenter" => View(t, t) = kUnprotected
  /\ (call = "reenter") <=> (t \in Reentrant)
  /\ next' = [next EXCEPT ![t] = current_epoch]
  /\ held' = [held EXCEPT ![t] = {}]
  /\ Goto(t, call)
  /\ UNCHANGED <<shared, entries, idx, oldest, trigger, ctx, popped, linked,
                 freed>>

ProtectStore(t) ==
  /\ pc[t] = "protect"
  /\ Publish(t, next[t])
  /\ Return(t)
  /\ UNCHANGED <<shared, reentrant, ctx, popped, client>>

ReentrantProtectStore(t) ==
  /\ pc[t] = "reenter"
  /\ Publish(t, next[t])
  /\ reentrant' = [reentrant EXCEPT ![t] = (@ + 1) % CountMod]
  /\ Return(t)
  /\ UNCHANGED <<shared, ctx, popped, client>>

ProtectAndDrainStore(t) ==
  /\ pc[t] = "refresh"
  /\ Publish(t, next[t])
  /\ Goto(t, "check")
  /\ UNCHANGED <<shared, reentrant, locals, ctx, popped, client>>

Unprotect(t) ==
  /\ pc[t] = "idle"
  /\ t \notin Reentrant
  /\ View(t, t) # kUnprotected
  /\ Publish(t, kUnprotected)
  /\ held' = [held EXCEPT ![t] = {}]
  /\ UNCHANGED <<shared, reentrant, pc, locals, ctx, popped, linked, freed>>

ReentrantUnprotect(t) ==
  /\ pc[t] = "idle"
  /\ t \in Reentrant
  /\ View(t, t) # kUnprotected
  /\ reentrant' = [reentrant EXCEPT ![t] = (@ - 1) % CountMod]
  /\ IF reentrant'[t] = 0
     THEN Publish(t, kUnprotected)
     ELSE UNCHANGED <<table_, store_buffer>>
  /\ held' = [held EXCEPT ![t] = {}]
  /\ UNCHANGED <<shared, pc, locals, ctx, popped, linked, freed>>

-----------------------------------------------------------------------------
(***************************************************************************)
(* Drain(nextEpoch): ComputeNewSafeToReclaimEpoch, then one pass over the  *)
(* drain list.  It ends in its caller: ProtectAndDrain returns,            *)
(* BumpCurrentEpoch(callback, context) goes on to its push loop.           *)
(***************************************************************************)
EndDrain(t) ==
  \/ /\ ctx[t] = None
     /\ Return(t)
  \/ /\ ctx[t] # None
     /\ Goto(t, "push")
     /\ SetIdx(t, 0)
     /\ oldest' = [oldest EXCEPT ![t] = 0]
     /\ trigger' = [trigger EXCEPT ![t] = 0]
     /\ UNCHANGED next

CheckDrainCount(t) ==
  /\ pc[t] = "check"
  /\ \/ /\ drain_count_ > 0
        /\ Goto(t, "scan")
        /\ SetIdx(t, 1)
        /\ oldest' = [oldest EXCEPT ![t] = next[t]]
        /\ UNCHANGED <<next, trigger>>
     \/ /\ drain_count_ = 0
        /\ EndDrain(t)
  /\ UNCHANGED <<shared, entries, ctx, popped, client>>

ScanEntry(t) ==
  /\ pc[t] = "scan"
  /\ idx[t] <= NumEntries
  /\ LET entry_epoch == View(t, idx[t])
     IN  oldest' = IF entry_epoch # kUnprotected /\ entry_epoch < oldest[t]
                   THEN [oldest EXCEPT ![t] = entry_epoch]
                   ELSE oldest
  /\ SetIdx(t, idx[t] + 1)
  /\ UNCHANGED <<shared, entries, pc, next, trigger, ctx, popped, client>>

ScanDone(t) ==
  /\ pc[t] = "scan"
  /\ idx[t] > NumEntries
  /\ Fenced(t)
  /\ safe_to_reclaim_epoch' = oldest[t] - 1
  /\ Goto(t, "drain")
  /\ SetIdx(t, 0)
  /\ oldest' = [oldest EXCEPT ![t] = 0]
  /\ UNCHANGED <<current_epoch, drain_count_, drain_list_, entries, next,
                 trigger, ctx, popped, client>>

DrainLoad(t) ==
  /\ pc[t] = "drain"
  /\ \/ /\ idx[t] < DrainListSize
        /\ trigger' = [trigger EXCEPT ![t] = drain_list_[idx[t]].epoch]
        /\ Goto(t, "drain_cmp")
        /\ UNCHANGED <<next, idx, oldest>>
     \/ /\ idx[t] = DrainListSize
        /\ EndDrain(t)
  /\ UNCHANGED <<shared, entries, ctx, popped, client>>

NextSlot(t) ==
  /\ Goto(t, "drain")
  /\ SetIdx(t, idx[t] + 1)

DrainCompare(t) ==
  /\ pc[t] = "drain_cmp"
  /\ IF trigger[t] <= safe_to_reclaim_epoch
     THEN Goto(t, "pop") /\ UNCHANGED idx
     ELSE NextSlot(t)
  /\ UNCHANGED <<shared, entries, next, oldest, trigger, ctx, popped, client>>

\* Slip: a load and a store where the code has one compare-exchange.
CanLockUnchecked(t, expected) == Fenced(t)

\* EpochAction::compare_exchange_strong(expected, kLocked) on slot idx[t].
CanLock(t, expected) == Fenced(t) /\ drain_list_[idx[t]].epoch = expected
CannotLock(t, expected) == Fenced(t) /\ drain_list_[idx[t]].epoch # expected

Lock(t) ==
  /\ drain_list_' = [drain_list_ EXCEPT ![idx[t]].epoch = kLocked]
  /\ UNCHANGED <<current_epoch, safe_to_reclaim_epoch, drain_count_>>

Unlock(t, epoch, context) ==
  /\ drain_list_' = [drain_list_ EXCEPT ![idx[t]] =
                       [epoch |-> epoch, context |-> context]]
  /\ UNCHANGED <<current_epoch, safe_to_reclaim_epoch, drain_count_>>

TryPop(t) ==
  /\ pc[t] = "pop"
  /\ \/ CanLock(t, trigger[t]) /\ Lock(t) /\ Goto(t, "popped") /\ UNCHANGED idx
     \/ CannotLock(t, trigger[t]) /\ NextSlot(t) /\ UNCHANGED shared
  /\ UNCHANGED <<entries, next, oldest, trigger, ctx, popped, client>>

TryPopRelease(t) ==
  /\ pc[t] = "popped"
  /\ popped' = [popped EXCEPT ![t] = drain_list_[idx[t]].context]
  /\ Unlock(t, kFree, None)
  /\ Goto(t, "run")
  /\ UNCHANGED <<entries, locals, ctx, client>>

\* callback_(context_): the client's action reclaims the object.
RunPopped(t) ==
  /\ pc[t] = "run"
  /\ freed' = freed \cup {popped[t]}
  /\ popped' = [popped EXCEPT ![t] = None]
  /\ Goto(t, "dec")
  /\ UNCHANGED <<shared, entries, locals, ctx, linked, held>>

DecrementDrainCount(t) ==
  /\ pc[t] = "dec"
  /\ Fenced(t)
  /\ AddDrainCount(-1)
  /\ \/ drain_count_' = 0 /\ EndDrain(t)
     \/ drain_count_' # 0 /\ NextSlot(t) /\ UNCHANGED <<next, oldest, trigger>>
  /\ UNCHANGED <<current_epoch, safe_to_reclaim_epoch, drain_list_, entries,
                 ctx, popped, client>>

-----------------------------------------------------------------------------
(***************************************************************************)
(* BumpCurrentEpoch(callback, context): increment current_epoch, drain if  *)
(* there is something to drain, then look for a free slot or one whose     *)
(* action is due, whose place the new action takes.                        *)
(***************************************************************************)
IncrementEpoch(t) ==
  /\ pc[t] = "bump"
  /\ Fenced(t)
  /\ current_epoch < MaxEpoch
  /\ current_epoch' = current_epoch + 1
  /\ next' = [next EXCEPT ![t] = current_epoch + 1]
  /\ Goto(t, "check")
  /\ UNCHANGED <<safe_to_reclaim_epoch, drain_count_, drain_list_, entries, idx,
                 oldest, trigger, ctx, popped, client>>

PushLoad(t) ==
  /\ pc[t] = "push"
  /\ trigger' = [trigger EXCEPT ![t] = drain_list_[idx[t]].epoch]
  /\ Goto(t, IF trigger'[t] = kFree THEN "push_lock" ELSE "push_cmp")
  /\ UNCHANGED <<shared, entries, next, idx, oldest, ctx, popped, client>>

TryNextSlot(t) ==
  /\ Goto(t, "push")
  /\ SetIdx(t, (idx[t] + 1) % DrainListSize)

PushCompare(t) ==
  /\ pc[t] = "push_cmp"
  /\ IF trigger[t] <= safe_to_reclaim_epoch
     THEN Goto(t, "swap_lock") /\ UNCHANGED idx
     ELSE TryNextSlot(t)
  /\ UNCHANGED <<shared, entries, next, oldest, trigger, ctx, popped, client>>

TryPush(t) ==
  /\ pc[t] = "push_lock"
  /\ \/ CanLock(t, kFree) /\ Lock(t) /\ Goto(t, "pushing") /\ UNCHANGED idx
     \/ CannotLock(t, kFree) /\ TryNextSlot(t) /\ UNCHANGED shared
  /\ UNCHANGED <<entries, next, oldest, trigger, ctx, popped, client>>

TryPushRelease(t) ==
  /\ pc[t] = "pushing"
  /\ Unlock(t, PriorEpoch(t), ctx[t])
  /\ ctx' = [ctx EXCEPT ![t] = None]
  /\ Goto(t, "inc")
  /\ UNCHANGED <<entries, locals, popped, client>>

IncrementDrainCount(t) ==
  /\ pc[t] = "inc"
  /\ Fenced(t)
  /\ AddDrainCount(1)
  /\ Return(t)
  /\ UNCHANGED <<current_epoch, safe_to_reclaim_epoch, drain_list_, entries,
                 ctx, popped, client>>

TrySwap(t) ==
  /\ pc[t] = "swap_lock"
  /\ \/ /\ CanLock(t, trigger[t])
        /\ Lock(t)
        /\ Goto(t, "swapping")
        /\ UNCHANGED idx
     \/ CannotLock(t, trigger[t]) /\ TryNextSlot(t) /\ UNCHANGED shared
  /\ UNCHANGED <<entries, next, oldest, trigger, ctx, popped, client>>

TrySwapRelease(t) ==
  /\ pc[t] = "swapping"
  /\ popped' = [popped EXCEPT ![t] = drain_list_[idx[t]].context]
  /\ Unlock(t, PriorEpoch(t), ctx[t])
  /\ ctx' = [ctx EXCEPT ![t] = None]
  /\ Goto(t, "run_swapped")
  /\ UNCHANGED <<entries, locals, client>>

RunSwapped(t) ==
  /\ pc[t] = "run_swapped"
  /\ freed' = freed \cup {popped[t]}
  /\ popped' = [popped EXCEPT ![t] = None]
  /\ Return(t)
  /\ UNCHANGED <<shared, entries, ctx, linked, held>>

-----------------------------------------------------------------------------
(***************************************************************************)
(* The client: a protected thread may take a reference to a linked object; *)
(* a thread unlinks an object with an atomic instruction and then calls    *)
(* BumpCurrentEpoch with the action that reclaims it.                      *)
(***************************************************************************)
Acquire(t, o) ==
  /\ pc[t] = "idle"
  /\ View(t, t) # kUnprotected
  /\ o \in linked
  /\ held' = [held EXCEPT ![t] = @ \cup {o}]
  /\ UNCHANGED <<shared, entries, pc, locals, ctx, popped, linked, freed>>

Retire(t, o) ==
  /\ pc[t] = "idle"
  /\ Fenced(t)
  /\ o \in linked
  /\ linked' = linked \ {o}
  /\ ctx' = [ctx EXCEPT ![t] = o]
  /\ Goto(t, "bump")
  /\ UNCHANGED <<shared, entries, locals, popped, held, freed>>

-----------------------------------------------------------------------------
\* The steps of a call that has begun.
Step(t) ==
  \/ ProtectStore(t) \/ ReentrantProtectStore(t) \/ ProtectAndDrainStore(t)
  \/ CheckDrainCount(t) \/ ScanEntry(t) \/ ScanDone(t)
  \/ DrainLoad(t) \/ DrainCompare(t)
  \/ TryPop(t) \/ TryPopRelease(t) \/ RunPopped(t) \/ DecrementDrainCount(t)
  \/ IncrementEpoch(t) \/ PushLoad(t) \/ PushCompare(t)
  \/ TryPush(t) \/ TryPushRelease(t) \/ IncrementDrainCount(t)
  \/ TrySwap(t) \/ TrySwapRelease(t) \/ RunSwapped(t)

ThreadNext(t) ==
  \/ Step(t)
  \/ FlushStore(t)
  \/ \E call \in {"protect", "refresh", "reenter"} : EnterLoad(t, call)
  \/ Unprotect(t)
  \/ ReentrantUnprotect(t)
  \/ \E o \in Object : Acquire(t, o) \/ Retire(t, o)

Next == \E t \in Thread : ThreadNext(t)

Spec == Init /\ [][Next]_vars

(***************************************************************************)
(* Fairness: a call that has begun goes on, a pending store drains, and    *)
(* every session keeps calling Refresh (ProtectAndDrain) between its other *)
(* calls, which is what FASTER asks of its sessions.                       *)
(***************************************************************************)
Fairness ==
  \A t \in Thread :
    /\ WF_vars(Step(t))
    /\ WF_vars(FlushStore(t))
    /\ SF_vars(EnterLoad(t, "refresh"))

LiveSpec == Spec /\ Fairness

-----------------------------------------------------------------------------
Labels ==
  {"idle", "protect", "reenter", "refresh", "check", "scan", "drain",
   "drain_cmp", "pop", "popped", "run", "dec", "bump", "push", "push_cmp",
   "push_lock", "pushing", "inc", "swap_lock", "swapping", "run_swapped"}

SharedTypeOK ==
  /\ current_epoch \in 1 .. MaxEpoch
  /\ safe_to_reclaim_epoch \in 0 .. MaxEpoch
  /\ drain_count_ \in 0 .. CountMod - 1
  /\ drain_list_ \in [Slot -> [epoch : 0 .. kFree, context : Object \cup {None}]]

EntryTypeOK ==
  /\ table_ \in [Entry -> 0 .. MaxEpoch]
  /\ reentrant \in [Thread -> 0 .. CountMod - 1]
  /\ store_buffer \in [Thread -> Seq(0 .. MaxEpoch)]

LocalTypeOK ==
  /\ pc \in [Thread -> Labels]
  /\ next \in [Thread -> 0 .. MaxEpoch]
  /\ idx \in [Thread -> Nat]
  /\ oldest \in [Thread -> 0 .. MaxEpoch]
  /\ trigger \in [Thread -> 0 .. kFree]

ClientTypeOK ==
  /\ ctx \in [Thread -> Object \cup {None}]
  /\ popped \in [Thread -> Object \cup {None}]
  /\ linked \in SUBSET Object
  /\ held \in [Thread -> SUBSET Object]
  /\ freed \in SUBSET Object

\* The types of the shared words, of the epoch table, of the threads' locals and
\* of what the client passes around.
TypeOK == SharedTypeOK /\ EntryTypeOK /\ LocalTypeOK /\ ClientTypeOK

\* The threads ComputeNewSafeToReclaimEpoch looks at.
Scanned == Thread \cap 1 .. NumEntries

\* A thread the scan looks at never holds an object that has been reclaimed:
\* between the scan's reads and the callback no protected reader is passed
\* over, whatever bumps, scans, pops and swaps interleave.
SafeReclaim == \A t \in Scanned : held[t] \cap freed = {}

\* The same promise for every thread, as "Enter the thread into the protected
\* code region" (Protect) makes it: thread 0 included.
EveryReaderProtected == \A t \in Thread : held[t] \cap freed = {}

\* Every retired object's action is in exactly one place (waiting to be
\* registered, in the drain list, taken out by one thread, done): the races of
\* TryPush, TryPop and TrySwap neither lose an action nor run one twice.
ActionInOnePlace ==
  \A o \in Object :
    Cardinality({t \in Thread : ctx[t] = o})
      + Cardinality({t \in Thread : popped[t] = o})
      + Cardinality({i \in Slot : drain_list_[i].context = o})
      + Cardinality({o} \cap linked) + Cardinality({o} \cap freed) = 1

\* drain_count_ is the number of registered actions, up to the pushes whose
\* ++drain_count_ and the pops whose --drain_count_ are still to come; it may
\* wrap below zero in between, but when no call is in flight it is exact, so no
\* registered action is hidden from "if (drain_count_ > 0)".
DrainCountExact ==
  drain_count_ =
    (Cardinality({i \in Slot : drain_list_[i].context # None})
       + Cardinality({t \in Thread : pc[t] \in {"run", "dec"}})
       - Cardinality({t \in Thread : pc[t] = "inc"})) % CountMod

\* LightEpoch implements SafeReclamation for the threads its scan looks at:
\* the callback of BumpCurrentEpoch runs once, after every reader that could
\* still hold the object has left or refreshed.
Abstract == INSTANCE SafeReclamation
              WITH Reader <- Scanned, held <- [t \in Scanned |-> held[t]]

RefinesSafeReclamation == Abstract!Spec

\* An object that has been unlinked is in the end reclaimed, as long as the
\* sessions keep refreshing: no race on the drain list or on the (not monotone)
\* safe_to_reclaim_epoch leaves an action behind for ever.
RetiredIsReclaimed == \A o \in Object : (o \notin linked) ~> (o \in freed)

-----------------------------------------------------------------------------
(***************************************************************************)
(* The inductive invariants: BaseInv holds however long the stores of      *)
(* local_current_epoch are delayed, IInv, behind SafeReclaim, when they    *)
(* are not delayed (BufferDepth = 0).                                      *)
(***************************************************************************)

\* No scanned thread holds o.
Unheld(o) == \A h \in Scanned : o \notin held[h]

\* A call that has bumped current_epoch and not yet registered its action.
Registering(t) == ctx[t] # None /\ pc[t] # "bump"

\* An action whose trigger epoch is e may not become due while a scanned thread
\* holds o: safe_to_reclaim_epoch is below e, and every scan under way has
\* already seen an epoch no later than e or has yet to reach the holder.
Guarded(o, e) ==
  \A h \in Scanned :
    o \in held[h] =>
      /\ table_[h] <= e
      /\ safe_to_reclaim_epoch < e
      /\ \A s \in Thread : pc[s] = "scan" => oldest[s] <= e \/ idx[s] <= h

\* Nobody holds an object whose action has trigger epoch e.
Expired(e) ==
  /\ \A i \in Slot : drain_list_[i].epoch = e => Unheld(drain_list_[i].context)
  /\ \A u \in Thread : Registering(u) /\ PriorEpoch(u) = e => Unheld(ctx[u])

Owning == {"popped", "pushing", "swapping"}   \* holds the lock of slot idx[t]
PushLabels == {"push", "push_cmp", "push_lock", "pushing", "swap_lock", "swapping"}
DrainLabels == {"drain_cmp", "pop", "popped", "run", "dec"}

\* The loop counters stay inside the tables, the epochs a call works with are
\* epochs that have existed, and a call has a context exactly while it needs it.
Control(t) ==
  /\ next[t] <= current_epoch
  /\ pc[t] \notin {"idle", "bump"} => next[t] >= 1
  /\ Registering(t) => next[t] >= 2
  /\ pc[t] = "scan" => oldest[t] \in 1 .. current_epoch /\ idx[t] >= 1
  /\ pc[t] = "drain" => idx[t] \in 0 .. DrainListSize
  /\ pc[t] \in DrainLabels \cup PushLabels => idx[t] \in Slot
  /\ pc[t] \in {"idle", "protect", "reenter", "refresh", "inc", "run_swapped"}
       => ctx[t] = None
  /\ pc[t] \in PushLabels \cup {"bump"} => ctx[t] # None
  /\ pc[t] \in {"run", "run_swapped"} <=> popped[t] # None
  /\ pc[t] \in {"popped", "swapping"} => drain_list_[idx[t]].context # None
  /\ pc[t] = "pushing" => drain_list_[idx[t]].context = None
  /\ pc[t] \in {"protect", "reenter", "refresh"} => held[t] = {}
  /\ pc[t] \in {"pop", "swap_lock"} => trigger[t] < kLocked

ControlInv == \A t \in Thread : Control(t)

\* Epochs, published or pending, are bounded by current_epoch, and a slot has a
\* context exactly while it has a trigger epoch.
EpochInv ==
  /\ safe_to_reclaim_epoch < current_epoch
  /\ \A i \in Entry : table_[i] <= current_epoch
  /\ \A t \in Thread : \A k \in 1 .. Len(store_buffer[t]) :
       store_buffer[t][k] <= current_epoch
  /\ \A i \in Slot : drain_list_[i].epoch < kLocked => drain_list_[i].context # None
  /\ \A i \in Slot : drain_list_[i].epoch = kFree => drain_list_[i].context = None

\* A locked slot has one owner.
LockInv ==
  \A t \in Thread :
    pc[t] \in Owning =>
      /\ drain_list_[idx[t]].epoch = kLocked
      /\ \A u \in Thread : u # t /\ pc[u] \in Owning => idx[u] # idx[t]

\* Whatever waits for reclamation is no longer reachable.
UnlinkedInv ==
  /\ freed \cap linked = {}
  /\ \A i \in Slot : drain_list_[i].context \notin linked
  /\ \A t \in Thread : ctx[t] \notin linked /\ popped[t] \notin linked

\* What the drain list, its locks and its callers keep consistent whatever the
\* store buffers hold.
BaseInv == TypeOK /\ ControlInv /\ EpochInv /\ LockInv /\ UnlinkedInv

\* No store of local_current_epoch is pending, now or later.
Undelayed == BufferDepth = 0 /\ \A t \in Thread : store_buffer[t] = <<>>

\* A holder's epoch is published; pending actions are guarded; actions that
\* were found due, and objects already reclaimed, have no holder.
ReclaimInv ==
  /\ \A h \in Scanned : held[h] # {} => table_[h] # kUnprotected
  /\ \A i \in Slot :
       drain_list_[i].context # None /\ drain_list_[i].epoch # kLocked
         => Guarded(drain_list_[i].context, drain_list_[i].epoch)
  /\ \A t \in Thread : Registering(t) => Guarded(ctx[t], PriorEpoch(t))
  /\ \A t \in Thread : pc[t] \in {"pop", "swap_lock"} =>
       trigger[t] < current_epoch /\ Expired(trigger[t])
  /\ \A t \in Thread : pc[t] \in {"popped", "swapping"} =>
       Unheld(drain_list_[idx[t]].context)
  /\ \A t \in Thread : popped[t] # None => Unheld(popped[t])
  /\ \A o \in freed : Unheld(o)

\* The inductive invariant: the epochs, the locks and the readers of LightEpoch
\* stay consistent at every step of Protect, Drain and BumpCurrentEpoch.
IInv == BaseInv /\ Undelayed /\ ReclaimInv
=============================================================================
