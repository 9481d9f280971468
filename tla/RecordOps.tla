----------------------------- MODULE RecordOps -----------------------------
(***************************************************************************)
(* Read, Upsert, Rmw and Delete of FASTER (api/faster.h) on the records of *)
(* one hash bucket entry, during a fold-over checkpoint of the hybrid log: *)
(* the regions of the log, the checkpoint locks, the requests that go      *)
(* pending, and CompletePending, which goes on with them.                  *)
(*                                                                         *)
(* An address is the position of a record in log.  Records below head are  *)
(* on disk, those below safe_ro are immutable, those in safe_ro..ro-1 are  *)
(* the fuzzy region and those from ro on are updated in place.  How the    *)
(* entry comes to be is HashIndex's subject, the phases are SystemPhases's *)
(* and the epochs LightEpoch's: here a thread follows the phase in one     *)
(* step of Refresh, and safe_ro follows ro once every thread has refreshed.*)
(***************************************************************************)
EXTENDS Naturals, Sequences, FiniteSets, SequencesExt

CONSTANTS
  Thread,
  Plans      \* what one behaviour starts from: the keys of the records in the
             \* log, where the regions begin, the operations of each thread, and
             \* how often read-only and head move, pages fill, checkpoints start

ASSUME PlansAssumption ==
  \A p \in Plans :
    /\ p.log \in Seq(Range(p.log))
    /\ p.ro \in 1 .. Len(p.log) + 1 /\ p.head \in 1 .. p.ro
    /\ p.env \in [shifts : Nat, heads : Nat, fills : Nat, checkpoints : Nat]
    /\ \A t \in Thread :
         /\ p.ops[t] \in Seq(Range(p.ops[t]))
         /\ \A o \in Range(p.ops[t]) : o.op \in {"read", "upsert", "rmw", "delete"}
\* A Delete that goes pending, as it may during a checkpoint, is gone on with by a
\* static_cast to a class it is not of, which is undefined: plans leave it out.
ASSUME DeletionsAssumption ==
  \A p \in Plans : p.env.checkpoints > 0 =>
    \A t \in Thread : \A o \in Range(p.ops[t]) : o.op # "delete"

kInvalidAddress == 0
begin_address == 1
NoValue == 0
Garbage == 90    \* what DeleteContext::Put writes: its input_ is never set

VARIABLES
  plan,
  log, entry,                 \* the records, and the bucket entry's address
  head, safe_ro, ro, unsafe,  \* unsafe: who has not refreshed since ro moved
  sys, acked, final,          \* system_state_, acknowledgements, final_address
  locks,                      \* the bucket's checkpoint lock
  ctx, prev,                  \* thread_ctx(), prev_thread_ctx()
  call,                       \* what each thread is executing
  env,                        \* how often the environment may still interfere
  truth,                      \* history: what each key's value should be
  seen, answer, applied,      \* history: of each operation
  fault                       \* assertions of the code that failed

logvars == <<log, entry>>
regions == <<head, safe_ro, ro, unsafe>>
system == <<sys, acked, final>>
history == <<truth, seen, answer, applied>>
vars == <<plan, logvars, regions, system, locks, ctx, prev, call, env, history, fault>>

Keys == Range(plan.log) \cup UNION {{o.key : o \in Range(plan.ops[t])} : t \in Thread}
Ids == UNION {{<<t, i>> : i \in DOMAIN plan.ops[t]} : t \in Thread}
TailAddress == Len(log) + 1

\* An ExecutionContext.  A response is a request of ios whose read is done.
ExecutionContext(p, v, s) ==
  [phase |-> p, version |-> v, serial_num |-> s,
   retry_requests |-> <<>>, pending_ios |-> {}, io_responses |-> <<>>]

\* A PendingContext before it goes asynchronous.
PendingContext(id, o) ==
  [id |-> id, op |-> o.op, key |-> o.key, arg |-> o.arg,
   phase |-> "INVALID", version |-> 0, address |-> kInvalidAddress,
   entry |-> kInvalidAddress]

NoRequest == PendingContext(<<>>, [op |-> "none", key |-> "none", arg |-> 0])

\* A thread between two calls.  stage is its place in CompletePending, old and
\* new the locks its CheckpointLockGuards hold, target the context whose
\* requests it works on, and the rest the locals of the Internal functions.
IdleCall ==
  [pc |-> "idle", stage |-> "none", todo |-> 0, target |-> "cur",
   req |-> NoRequest, retrying |-> FALSE, again |-> FALSE, disk |-> FALSE,
   status |-> "none", old |-> 0, new |-> 0, phase |-> "REST", version |-> 0,
   expected |-> 0, address |-> 0, latest |-> 0, head |-> 0, safe |-> 0,
   ro |-> 0, new_address |-> 0]

Unlocked == [exists |-> FALSE, old |-> 0, new |-> 0]

InitialRecord(keys, a) ==
  [key |-> keys[a], value |-> 10 * a, version |-> 1, prev |-> a - 1,
   invalid |-> FALSE, by |-> "upsert"]    \* by: history

InitialValue(keys, k) ==
  LET at == {a \in DOMAIN keys : keys[a] = k}
  IN  IF at = {} THEN NoValue ELSE 10 * (CHOOSE a \in at : \A b \in at : b <= a)

Init ==
  /\ plan \in Plans
  /\ log = [a \in DOMAIN plan.log |-> InitialRecord(plan.log, a)]
  /\ entry = Len(plan.log)
  /\ head = plan.head /\ safe_ro = plan.ro /\ ro = plan.ro /\ unsafe = {}
  /\ sys = [phase |-> "REST", version |-> 1] /\ acked = {} /\ final = 0
  /\ locks = Unlocked
  /\ ctx = [t \in Thread |-> ExecutionContext("REST", 1, 0)]
  /\ prev = [t \in Thread |-> ExecutionContext("INVALID", 0, 0)]
  /\ call = [t \in Thread |-> IdleCall]
  /\ env = plan.env
  /\ truth = [k \in Keys |-> InitialValue(plan.log, k)]
  /\ seen = [i \in Ids |-> {}]
  /\ answer = [i \in Ids |-> <<>>]
  /\ applied = [i \in Ids |-> <<>>]
  /\ fault = {}

At(t, label) == call[t].pc = label
Check(label, holds) == fault' = IF holds THEN fault ELSE fault \cup {label}
-----------------------------------------------------------------------------
(***************************************************************************)
(* Refresh: the epoch, then HandleSpecialPhases.                           *)
(***************************************************************************)
PhaseAfter == [PREPARE |-> "IN_PROGRESS", IN_PROGRESS |-> "WAIT_PENDING",
               WAIT_PENDING |-> "WAIT_FLUSH", WAIT_FLUSH |-> "PERSISTENCE_CALLBACK",
               PERSISTENCE_CALLBACK |-> "REST"]

\* MarkAllPendingRequests: one old lock for every request that is pending.
Marks(t) == Len(ctx[t].retry_requests) + Cardinality(ctx[t].pending_ios)

\* Slip: waits for one record more than the checkpoint has.
FlushedPast == safe_ro > final

\* The log is on disk up to final_address: it is flushed as safe_ro moves.
Flushed == safe_ro >= final

\* Is there something for t to acknowledge in the phase the system is in?
MustAck(t) ==
  CASE sys.phase = "PREPARE" -> ctx[t].phase # "PREPARE"
    [] sys.phase = "IN_PROGRESS" -> ctx[t].phase = "PREPARE"
    [] sys.phase = "WAIT_PENDING" ->
         /\ t \notin acked
         /\ prev[t].pending_ios = {} /\ prev[t].retry_requests = <<>>
    [] sys.phase = "WAIT_FLUSH" -> t \notin acked /\ Flushed
    [] sys.phase = "PERSISTENCE_CALLBACK" -> ctx[t].phase = "WAIT_FLUSH"
    [] OTHER -> FALSE

SwapsContexts(t) == sys.phase = "IN_PROGRESS" /\ ctx[t].phase = "PREPARE"

\* Slip: safe_ro does not wait for the other threads.
DrainAtOnce(t) ==
  /\ unsafe' = unsafe \ {t}
  /\ safe_ro' = ro

\* Drained: the epoch in which ro moved is safe, so safe_ro follows it.
Drain(t) ==
  /\ unsafe' = unsafe \ {t}
  /\ safe_ro' = IF unsafe \ {t} = {} THEN ro ELSE safe_ro

GlobalMoveToNextState ==
  /\ sys' = [phase |-> PhaseAfter[sys.phase],
             version |-> IF sys.phase = "PREPARE" THEN sys.version + 1 ELSE sys.version]
  /\ acked' = {}

Refresh(t) ==
  /\ IF SwapsContexts(t)
     THEN /\ prev' = [prev EXCEPT ![t] = ctx[t]]
          /\ ctx' = [ctx EXCEPT ![t] = ExecutionContext("IN_PROGRESS", sys.version,
                                                        ctx[t].serial_num)]
     ELSE /\ ctx' = [ctx EXCEPT ![t].phase = sys.phase, ![t].version = sys.version]
          /\ UNCHANGED prev
  /\ LET last == MustAck(t) /\ acked \cup {t} = Thread
     IN  /\ IF last THEN GlobalMoveToNextState
            ELSE /\ acked' = IF MustAck(t) THEN acked \cup {t} ELSE acked
                 /\ UNCHANGED sys
         /\ IF last /\ sys.phase = "WAIT_PENDING"
            THEN \* ShiftReadOnlyToTail
                 ro' = TailAddress /\ unsafe' = Thread /\ final' = TailAddress /\ UNCHANGED safe_ro
            ELSE Drain(t) /\ UNCHANGED <<ro, final>>
         /\ locks' = CASE last /\ sys.phase = "PERSISTENCE_CALLBACK" ->    \* Free
                            [locks EXCEPT !.exists = FALSE]
                       [] MustAck(t) /\ sys.phase = "PREPARE" ->
                            [locks EXCEPT !.old = @ + Marks(t)]
                       [] OTHER -> locks
  /\ UNCHANGED head

\* Requests of the context that was the thread's own stay with that context.
TargetAfterRefresh(t) ==
  IF SwapsContexts(t) /\ call[t].stage # "none" THEN "prev" ELSE call[t].target

\* CheckpointHybridLog, and the marks Initialize clears.
Checkpoint(t) ==
  /\ At(t, "idle")
  /\ env.checkpoints > 0
  /\ sys.phase = "REST"
  /\ env' = [env EXCEPT !.checkpoints = @ - 1]
  /\ sys' = [sys EXCEPT !.phase = "PREPARE"]
  /\ acked' = {}
  /\ locks' = [Unlocked EXCEPT !.exists = TRUE]
  /\ UNCHANGED <<plan, logvars, regions, final, ctx, prev, call, history, fault>>

\* The log's own doing while pages fill: PageAlignedShiftReadOnlyAddress and
\* PageAlignedShiftHeadAddress.
ShiftReadOnly ==
  /\ env.shifts > 0
  /\ unsafe = {} /\ ro < TailAddress
  /\ env' = [env EXCEPT !.shifts = @ - 1]
  /\ ro' = TailAddress
  /\ unsafe' = Thread
  /\ UNCHANGED <<plan, logvars, head, safe_ro, system, locks, ctx, prev, call, history, fault>>

ShiftHead ==
  /\ env.heads > 0
  /\ head < safe_ro
  /\ env' = [env EXCEPT !.heads = @ - 1]
  /\ head' = safe_ro
  /\ UNCHANGED <<plan, logvars, safe_ro, ro, unsafe, system, locks, ctx, prev, call, history, fault>>

HasPending(t) == ctx[t].pending_ios # {} \/ ctx[t].retry_requests # <<>>

\* The host calls Refresh between two operations.  One that drains completes its
\* pending requests first.
HostRefresh(t) ==
  /\ At(t, "idle")
  /\ plan.drains => ~HasPending(t)
  /\ Refresh(t)
  /\ UNCHANGED <<plan, logvars, call, env, history, fault>>
-----------------------------------------------------------------------------
(***************************************************************************)
(* The Internal functions.                                                 *)
(***************************************************************************)
Set(t, c) == call' = [call EXCEPT ![t] = c]

\* The CheckpointLockGuards of the call are destroyed when it returns.
Released(c) == [locks EXCEPT !.old = @ - c.old, !.new = @ - c.new]

Exit(t, c, st) ==
  /\ Set(t, [c EXCEPT !.pc = "handle", !.status = st, !.old = 0, !.new = 0])
  /\ locks' = Released(c)

\* go_async, or continue_async of a request that has been pending.
Continued(c) == c.retrying \/ c.disk

GoAsync(c) ==
  [c EXCEPT !.req.phase = IF Continued(c) THEN @ ELSE c.phase,
            !.req.version = IF Continued(c) THEN @ ELSE c.version,
            !.req.address = c.address, !.req.entry = c.expected]

\* The first address of stop that is met from the record at from on, back along
\* the previous addresses.
TraceBack(stop, from) ==
  LET trace[a \in 0..Len(log)] == IF a \in stop THEN a ELSE trace[log[a].prev]
  IN  trace[from]

TraceBackForKeyMatch(key, from, min) ==
  TraceBack({a \in 0..Len(log) : a < min \/ a = kInvalidAddress \/ log[a].key = key}, from)

\* Every Internal function begins by reading the entry and the regions.
LookedUp(t) ==
  LET c == call[t]
      in_memory == entry >= head
  IN  [c EXCEPT
         !.pc = IF c.disk THEN "continue" ELSE "decide",
         !.phase = IF c.retrying THEN c.req.phase ELSE ctx[t].phase,
         !.version = IF c.retrying THEN c.req.version ELSE ctx[t].version,
         !.expected = entry,
         !.address = IF in_memory THEN TraceBackForKeyMatch(c.req.key, entry, head)
                     ELSE entry,
         !.latest = IF in_memory /\ entry # kInvalidAddress
                    THEN log[entry].version ELSE 0,
         !.head = head, !.safe = safe_ro, !.ro = ro]

Lookup(t) ==
  /\ At(t, "internal")
  /\ Set(t, LookedUp(t))
  /\ UNCHANGED <<plan, logvars, regions, system, locks, ctx, prev, env, history, fault>>

\* History: an operation on key takes effect in a record of version v, and what
\* the key's value is from then on.  Pending reads of the key may answer shown.
Effect(c, v, value, shown) ==
  /\ truth' = [truth EXCEPT ![c.req.key] = value]
  /\ applied' = [applied EXCEPT ![c.req.id] = Append(@, v)]
  /\ seen' = [i \in Ids |-> IF seen[i] # {} /\ plan.ops[i[1]][i[2]].key = c.req.key
                            THEN seen[i] \cup {shown} ELSE seen[i]]
  /\ UNCHANGED answer

\* What a record gets: a Delete that appends one writes no value into it.
New(c, old) == CASE c.req.op = "upsert" -> c.req.arg
                 [] c.req.op = "delete" -> Garbage
                 [] OTHER -> old + c.req.arg

\* History: what the key's value should be from then on.
Due(c, old) == IF c.req.op = "delete" THEN NoValue ELSE New(c, old)

\* InternalRead.
CprShift(c) == c.phase = "PREPARE" /\ c.latest > c.version

DecideRead(t) ==
  /\ At(t, "decide")
  /\ call[t].req.op = "read"
  /\ LET c == call[t]
     IN  \/ /\ CprShift(c)
            /\ Exit(t, GoAsync(c), "CPR_SHIFT_DETECTED")
            /\ UNCHANGED history
         \/ /\ ~CprShift(c)
            /\ c.address >= c.head
            /\ answer' = [answer EXCEPT ![c.req.id] = <<log[c.address].value>>]
            /\ Exit(t, c, "SUCCESS")
            /\ UNCHANGED <<truth, seen, applied>>
         \/ /\ ~CprShift(c)
            /\ c.address < c.head
            /\ c.address >= begin_address
            /\ Exit(t, GoAsync(c), "RECORD_ON_DISK")
            /\ UNCHANGED history
         \/ /\ ~CprShift(c)
            /\ c.address < begin_address
            /\ answer' = [answer EXCEPT ![c.req.id] = <<NoValue>>]
            /\ Exit(t, c, "NOT_FOUND")
            /\ UNCHANGED <<truth, seen, applied>>
  /\ UNCHANGED <<plan, logvars, regions, system, ctx, prev, env, fault>>

\* The common case of Upsert and Rmw: no lock and no second look at the entry.
CommonCase(c) == c.req.op # "delete" /\ c.phase = "REST" /\ c.address >= c.ro

\* Slip: updates records of version v in place until every thread has moved on.
ShiftsVersionLate(c) ==
  /\ c.phase \in {"WAIT_PENDING", "WAIT_FLUSH"}
  /\ c.latest < c.version

\* Version v+1 comes to a key whose newest record in memory has version v.
ShiftsVersion(c) ==
  /\ c.phase \in {"IN_PROGRESS", "WAIT_PENDING", "WAIT_FLUSH"}
  /\ c.latest < c.version

try_lock_old == locks.new = 0
try_lock_new == locks.old = 0
old_locked == locks.old > 0

\* Slip: copies a record that others may still be updating in place.
RegionNoFuzzy(c) ==
  IF c.address >= c.ro THEN "recheck"
  ELSE IF c.req.op # "rmw" \/ c.address >= c.head \/ c.address < begin_address THEN "create"
  ELSE "RECORD_ON_DISK"

\* What is left to do with the locks held, by the region the record is in.
Region(c) ==
  IF c.address >= c.ro THEN "recheck"
  ELSE IF c.req.op # "rmw" THEN "create"
  ELSE IF c.address >= c.safe THEN "RETRY_LATER"
  ELSE IF c.address >= c.head \/ c.address < begin_address THEN "create"
  ELSE "RECORD_ON_DISK"

Proceed(t, c, where) ==
  IF where \in {"recheck", "create"}
  THEN Set(t, [c EXCEPT !.pc = where])
       /\ locks' = [locks EXCEPT !.old = @ + c.old - call[t].old,
                                 !.new = @ + c.new - call[t].new]
  ELSE Exit(t, [GoAsync(c) EXCEPT !.old = call[t].old, !.new = call[t].new], where)

DecideUpdate(t) ==
  /\ At(t, "decide")
  /\ call[t].req.op # "read"
  /\ LET c == call[t]
     IN  \/ /\ CommonCase(c)
            /\ Set(t, [c EXCEPT !.pc = "in place"])
            /\ UNCHANGED <<locks, fault>>
         \/ /\ ~CommonCase(c) /\ c.phase = "PREPARE"
            /\ IF try_lock_old /\ ~CprShift(c)
               THEN Proceed(t, [c EXCEPT !.old = @ + 1], Region(c)) /\ UNCHANGED fault
               ELSE Exit(t, GoAsync(c), "CPR_SHIFT_DETECTED") /\ Check("retrying", ~c.retrying)
         \/ /\ ~CommonCase(c) /\ ShiftsVersion(c) /\ c.phase = "IN_PROGRESS"
            /\ IF locks.exists /\ try_lock_new
               THEN Proceed(t, [c EXCEPT !.new = @ + 1], "create")
               ELSE Exit(t, GoAsync(c), "RETRY_LATER")
            /\ Check("lock", locks.exists)
         \/ /\ ~CommonCase(c) /\ ShiftsVersion(c) /\ c.phase = "WAIT_PENDING"
            /\ IF old_locked THEN Exit(t, GoAsync(c), "RETRY_LATER")
               ELSE Proceed(t, c, "create")
            /\ Check("lock", locks.exists)
         \/ /\ ~CommonCase(c) /\ ShiftsVersion(c) /\ c.phase = "WAIT_FLUSH"
            /\ Proceed(t, c, "create")
            /\ UNCHANGED fault
         \/ /\ ~CommonCase(c) /\ ~ShiftsVersion(c) /\ c.phase # "PREPARE"
            /\ Proceed(t, c, Region(c))
            /\ UNCHANGED fault
  /\ UNCHANGED <<plan, logvars, regions, system, ctx, prev, env, history>>

\* Mutable region: is the entry still the one that was read?
Recheck(t) ==
  /\ At(t, "recheck")
  /\ LET c == call[t]
     IN  \/ /\ c.req.op # "delete" /\ entry # c.expected
            /\ Exit(t, c, "RETRY_NOW")
         \/ /\ c.req.op # "delete" /\ entry = c.expected
            /\ Set(t, [c EXCEPT !.pc = "in place"]) /\ UNCHANGED locks
         \/ /\ c.req.op = "delete"
            /\ Set(t, [c EXCEPT !.pc = IF entry = c.address THEN "drop" ELSE "dropped"])
            /\ UNCHANGED locks
  /\ UNCHANGED <<plan, logvars, regions, system, ctx, prev, env, history, fault>>

ContextOf(t) == IF call[t].target = "cur" THEN ctx[t] ELSE prev[t]

\* InternalRetryPendingRmw and the end of InternalContinuePendingRmw: a request
\* of the version before gives up the lock it was marked with.
Success(t) ==
  LET c == call[t]
      unmark == IF c.disk THEN ctx[t].version # ContextOf(t).version
                ELSE c.retrying /\ c.req.version # ctx[t].version
  IN  IF unmark THEN "SUCCESS_UNMARK" ELSE "SUCCESS"

\* Is the record at a one of the entry's chain?
Linked(a) == TraceBack(0..a, entry) = a

\* History: a blind update or a delete has replaced the record at a, so an update
\* of a that was already under way comes before it.
Overwritten(a) ==
  \/ ~Linked(a)
  \/ \E b \in a + 1 .. Len(log) :
       /\ Linked(b) /\ log[b].key = log[a].key /\ log[b].by # "rmw"
       /\ TraceBackForKeyMatch(log[a].key, log[b].prev, begin_address) = a

\* PutAtomic and RmwAtomic.
UpdateInPlace(t) ==
  /\ At(t, "in place")
  /\ LET c == call[t]
         a == c.address
         value == New(c, log[a].value)
     IN  /\ log' = [log EXCEPT ![a].value = value]
         /\ Effect(c, log[a].version,
                   IF Overwritten(a) THEN truth[c.req.key] ELSE New(c, truth[c.req.key]),
                   value)
         /\ Exit(t, c, Success(t))
  /\ UNCHANGED <<plan, entry, regions, system, ctx, prev, env, fault>>

\* InternalDelete wipes the entry with a store.
DropEntry(t) ==
  /\ call[t].pc \in {"drop", "dropped"}
  /\ entry' = IF At(t, "drop") THEN kInvalidAddress ELSE entry
  /\ Effect(call[t], call[t].version,
            IF At(t, "dropped") /\ Overwritten(call[t].address)
            THEN truth[call[t].req.key] ELSE NoValue,
            NoValue)
  /\ Exit(t, call[t], "SUCCESS")
  /\ UNCHANGED <<plan, log, regions, system, ctx, prev, env, fault>>

\* BlockAllocate refreshes the thread when it has to wait for a page.
AwaitPage(t) ==
  /\ At(t, "create")
  /\ env.fills > 0
  /\ env' = [env EXCEPT !.fills = @ - 1]
  /\ Refresh(t)
  /\ call' = [call EXCEPT ![t].target = TargetAfterRefresh(t)]
  /\ UNCHANGED <<plan, logvars, history, fault>>

\* The version the new record gets: the thread's after BlockAllocate, the
\* request's own when it is retried, and its context's after a disk read.
RecordVersion(t) ==
  LET c == call[t]
  IN  CASE c.disk -> ContextOf(t).version
        [] c.retrying -> c.version
        [] OTHER -> ctx[t].version

\* The value the new record starts from.
OldValue(c) ==
  LET from == IF c.disk THEN c.req.address ELSE c.address
  IN  IF from < begin_address THEN NoValue ELSE log[from].value

CreateRecord(t) ==
  /\ At(t, "create")
  /\ LET c == call[t]
         lost == c.req.op = "rmw" /\ ~c.disk /\ c.address >= begin_address
                   /\ c.address < head
         d == IF Continued(c) THEN c
              ELSE [c EXCEPT !.phase = ctx[t].phase, !.version = ctx[t].version]
     IN  /\ log' = Append(log, [key |-> c.req.key,
                                value |-> IF lost THEN NoValue ELSE New(c, OldValue(c)),
                                version |-> RecordVersion(t), prev |-> c.expected,
                                invalid |-> lost, by |-> c.req.op])
         /\ IF lost THEN Exit(t, GoAsync(d), "RECORD_ON_DISK")
            ELSE Set(t, [d EXCEPT !.pc = "swap", !.new_address = TailAddress]) /\ UNCHANGED locks
  /\ UNCHANGED <<plan, entry, regions, system, ctx, prev, env, history, fault>>

\* The compare-and-swap on the bucket entry.  Upsert and Delete call themselves
\* when it fails, and keep the locks of the outer call.
SwapEntry(t) ==
  /\ At(t, "swap")
  /\ LET c == call[t]
     IN  \/ /\ entry = c.expected
            /\ entry' = c.new_address
            /\ Effect(c, log[c.new_address].version, Due(c, truth[c.req.key]),
                      Due(c, truth[c.req.key]))
            /\ Exit(t, c, Success(t))
            /\ UNCHANGED log
         \/ /\ entry # c.expected
            /\ log' = [log EXCEPT ![c.new_address].invalid = TRUE]
            /\ IF c.req.op = "rmw" THEN Exit(t, GoAsync(c), "RETRY_NOW")
               ELSE Set(t, [c EXCEPT !.pc = "internal"]) /\ UNCHANGED locks
            /\ UNCHANGED <<entry, history>>
  /\ UNCHANGED <<plan, regions, system, ctx, prev, env, fault>>

\* InternalContinuePendingRmw: may the record read from disk still be replaced?
ContinueRmw(t) ==
  /\ At(t, "continue")
  /\ LET c == call[t]
     IN  IF c.address > c.req.entry
         THEN Exit(t, GoAsync(c), "RETRY_NOW") /\ UNCHANGED fault
         ELSE /\ Set(t, [c EXCEPT !.pc = "create"])
              /\ Check("trace", c.address < begin_address \/ c.address = c.req.entry)
              /\ UNCHANGED locks
  /\ UNCHANGED <<plan, logvars, regions, system, ctx, prev, env, history>>
-----------------------------------------------------------------------------
(***************************************************************************)
(* The calls, HandleOperationStatus, and CompletePending.                  *)
(***************************************************************************)
\* Read, Upsert, Rmw and Delete.
Begin(t) ==
  /\ At(t, "idle")
  /\ ctx[t].serial_num < Len(plan.ops[t])
  /\ LET id == <<t, ctx[t].serial_num + 1>>
         o == plan.ops[t][id[2]]
     IN  /\ Set(t, [IdleCall EXCEPT !.pc = "internal", !.req = PendingContext(id, o)])
         /\ seen' = IF o.op = "read" THEN [seen EXCEPT ![id] = {truth[o.key]}] ELSE seen
  /\ UNCHANGED <<plan, logvars, regions, system, locks, ctx, prev, env, truth, answer,
                 applied, fault>>

\* The thread is done with a request: the call returns with its serial number,
\* or CompletePending goes on.
Returned(c) ==
  IF c.stage = "none" THEN IdleCall
  ELSE [IdleCall EXCEPT !.pc = "completing", !.stage = c.stage, !.todo = c.todo,
                        !.target = c.target]

Serial(c, x) == IF c.stage = "none" THEN [x EXCEPT !.serial_num = c.req.id[2]] ELSE x

Again(c) ==
  [c EXCEPT !.pc = "internal", !.again = TRUE, !.retrying = FALSE, !.disk = FALSE]

Return(t) ==
  /\ Set(t, Returned(call[t]))
  /\ ctx' = [ctx EXCEPT ![t] = Serial(call[t], @)]

HandleDone(t) ==
  /\ At(t, "handle")
  /\ call[t].status \in {"SUCCESS", "NOT_FOUND"}
  /\ Return(t)
  /\ Check("status", call[t].status = "SUCCESS" \/ ~call[t].again)
  /\ UNCHANGED <<plan, logvars, regions, system, locks, prev, env, history>>

HandleUnmark(t) ==
  /\ At(t, "handle")
  /\ call[t].status \in {"SUCCESS_UNMARK", "NOT_FOUND_UNMARK"}
  /\ Return(t)
  /\ Check("unlock", locks.old > 0)
  /\ locks' = [locks EXCEPT !.old = @ - 1]
  /\ UNCHANGED <<plan, logvars, regions, system, prev, env, history>>

HandleRetryNow(t) ==
  /\ At(t, "handle")
  /\ call[t].status = "RETRY_NOW"
  /\ Set(t, Again(call[t]))
  /\ UNCHANGED <<plan, logvars, regions, system, locks, ctx, prev, env, history, fault>>

\* In PREPARE a request that goes pending is marked with an old lock.
MarkFails(t) == ctx[t].phase = "PREPARE" /\ ~try_lock_old

\* IssueAsyncIoRequest and RetryLater: where the request goes.
Sent(x, r) == [x EXCEPT !.pending_ios = @ \cup {r}]
Retried(x, r) == [x EXCEPT !.retry_requests = Append(@, r)]

GoPending(t) ==
  /\ At(t, "handle")
  /\ call[t].status \in {"RETRY_LATER", "RECORD_ON_DISK"}
  /\ ~MarkFails(t)
  /\ locks' = IF ctx[t].phase = "PREPARE" THEN [locks EXCEPT !.old = @ + 1] ELSE locks
  /\ LET c == call[t]
     IN  /\ Set(t, Returned(c))
         /\ \/ /\ c.status = "RECORD_ON_DISK"    \* IssueAsyncIoRequest: always thread_ctx()
               /\ ctx' = [ctx EXCEPT ![t] = Serial(c, Sent(@, c.req))]
               /\ UNCHANGED prev
            \/ /\ c.status = "RETRY_LATER" /\ c.target = "cur"
               /\ ctx' = [ctx EXCEPT ![t] = Serial(c, Retried(@, c.req))]
               /\ UNCHANGED prev
            \/ /\ c.status = "RETRY_LATER" /\ c.target = "prev"
               /\ prev' = [prev EXCEPT ![t] = Retried(@, c.req)]
               /\ UNCHANGED ctx
  /\ UNCHANGED <<plan, logvars, regions, system, env, history, fault>>

PivotAndRetry(t) ==
  /\ At(t, "handle")
  /\ \/ call[t].status = "CPR_SHIFT_DETECTED"
     \/ call[t].status \in {"RETRY_LATER", "RECORD_ON_DISK"} /\ MarkFails(t)
  /\ Check("pivot", ContextOf(t).version = ctx[t].version /\ SwapsContexts(t))
  /\ Refresh(t)
  /\ Set(t, [Again(call[t]) EXCEPT !.target = "cur", !.req.phase = ctx'[t].phase,
                                   !.req.version = ctx'[t].version])
  /\ UNCHANGED <<plan, logvars, env, history>>

\* Slip: takes the first record read for the one asked for.
FoundFirst(r) == r.address

Found(r) == TraceBackForKeyMatch(r.key, r.address, begin_address)

\* The request has its answer: the address at which the key's record was found.
Responded(x, r) == [x EXCEPT !.io_responses = Append(@, [r EXCEPT !.address = Found(r)])]

\* The disk answers: the record of the key is searched along the chain.
AsyncGetFromDisk(t) ==
  /\ \E r \in ctx[t].pending_ios \cup prev[t].pending_ios :
       LET answered(x) == \E i \in DOMAIN x.io_responses : x.io_responses[i].id = r.id
       IN  /\ ~answered(ctx[t]) /\ ~answered(prev[t])
           /\ \/ /\ r \in ctx[t].pending_ios
                 /\ ctx' = [ctx EXCEPT ![t] = Responded(@, r)] /\ UNCHANGED prev
              \/ /\ r \in prev[t].pending_ios
                 /\ prev' = [prev EXCEPT ![t] = Responded(@, r)] /\ UNCHANGED ctx
  /\ UNCHANGED <<plan, logvars, regions, system, locks, call, env, history, fault>>

\* CompletePending: I/O responses, Refresh and retries of the thread's context,
\* then the same of the one before it.
CallCompletePending(t) ==
  /\ At(t, "idle")
  /\ ctx[t].phase # "REST" \/ HasPending(t)
  /\ Set(t, [IdleCall EXCEPT !.pc = "completing",
       !.stage = IF ctx[t].phase \in {"WAIT_PENDING", "IN_PROGRESS"} THEN "refresh" ELSE "io"])
  /\ UNCHANGED <<plan, logvars, regions, system, locks, ctx, prev, env, history, fault>>

\* CompleteIoPendingRequests pops a response and erases its pending I/O.
Popped(x) ==
  [x EXCEPT !.io_responses = Tail(@),
            !.pending_ios = {r \in @ : r.id # Head(x.io_responses).id}]

\* InternalContinuePendingRead: what Get reads, and the status.
DiskValue(r) == IF r.address < begin_address THEN NoValue ELSE log[r.address].value

ReadStatus(t, x, r) ==
  IF r.address >= begin_address
  THEN IF ctx[t].version > x.version THEN "SUCCESS_UNMARK" ELSE "SUCCESS"
  ELSE IF ctx[t].version > x.version THEN "NOT_FOUND_UNMARK" ELSE "NOT_FOUND"

CompleteIo(t) ==
  /\ At(t, "completing") /\ call[t].stage \in {"io", "prev io"}
  /\ LET c == call[t]
         x == ContextOf(t)
         r == Head(x.io_responses)
     IN  \/ /\ x.io_responses = <<>>
            /\ Set(t, [c EXCEPT !.stage = IF @ = "io" THEN "refresh" ELSE "prev refresh"])
            /\ UNCHANGED <<ctx, prev, answer>>
         \/ /\ x.io_responses # <<>>
            /\ IF c.target = "cur" THEN ctx' = [ctx EXCEPT ![t] = Popped(@)] /\ UNCHANGED prev
               ELSE prev' = [prev EXCEPT ![t] = Popped(@)] /\ UNCHANGED ctx
            /\ \/ /\ r.op = "rmw"
                  /\ Set(t, [c EXCEPT !.pc = "internal", !.req = r, !.disk = TRUE])
                  /\ UNCHANGED answer
               \/ /\ r.op = "read"
                  /\ answer' = [answer EXCEPT ![r.id] = <<DiskValue(r)>>]
                  /\ Set(t, [c EXCEPT !.pc = "handle", !.req = r, !.status = ReadStatus(t, x, r)])
  /\ UNCHANGED <<plan, logvars, regions, system, locks, env, truth, seen, applied, fault>>

CompleteRefresh(t) ==
  /\ At(t, "completing") /\ call[t].stage \in {"refresh", "prev refresh"}
  /\ Refresh(t)
  /\ Set(t, IF call[t].stage = "refresh"
            THEN [call[t] EXCEPT !.stage = "retry", !.target = "cur",
                                 !.todo = Len(ctx'[t].retry_requests)]
            ELSE [call[t] EXCEPT !.stage = "prev retry",
                                 !.todo = Len(prev'[t].retry_requests)])
  /\ UNCHANGED <<plan, logvars, env, history, fault>>

\* CompleteRetryRequests takes up a request again: a Rmw is retried, the others
\* begin anew.
TakenUp(c, r) ==
  [c EXCEPT !.pc = "internal", !.todo = @ - 1, !.req = r, !.retrying = r.op = "rmw"]

CompleteRetry(t) ==
  /\ At(t, "completing") /\ call[t].stage \in {"retry", "prev retry"}
  /\ LET c == call[t]
         r == Head(ContextOf(t).retry_requests)
     IN  \/ /\ c.todo > 0
            /\ IF c.target = "cur"
               THEN ctx' = [ctx EXCEPT ![t].retry_requests = Tail(@)] /\ UNCHANGED prev
               ELSE prev' = [prev EXCEPT ![t].retry_requests = Tail(@)] /\ UNCHANGED ctx
            /\ Set(t, TakenUp(c, r))
         \/ /\ c.todo = 0
            /\ Set(t, IF c.stage = "retry" /\ ctx[t].phase # "REST"
                      THEN [c EXCEPT !.stage = "prev io", !.target = "prev"] ELSE IdleCall)
            /\ UNCHANGED <<ctx, prev>>
  /\ UNCHANGED <<plan, logvars, regions, system, locks, env, history, fault>>

\* What a thread does on its own once it is in a call.
Step(t) ==
  \/ Lookup(t) \/ DecideRead(t) \/ DecideUpdate(t) \/ Recheck(t) \/ UpdateInPlace(t)
  \/ DropEntry(t) \/ CreateRecord(t) \/ SwapEntry(t) \/ ContinueRmw(t)
  \/ HandleDone(t) \/ HandleUnmark(t) \/ HandleRetryNow(t) \/ GoPending(t)
  \/ PivotAndRetry(t) \/ CompleteIo(t) \/ CompleteRefresh(t) \/ CompleteRetry(t)

Next ==
  \/ \E t \in Thread : Step(t) \/ Begin(t) \/ CallCompletePending(t) \/ HostRefresh(t)
                       \/ AsyncGetFromDisk(t) \/ AwaitPage(t) \/ Checkpoint(t)
  \/ ShiftReadOnly \/ ShiftHead

\* A host goes on calling its operations, Refresh and CompletePending, and a disk
\* answers.
Fairness ==
  \A t \in Thread : /\ WF_vars(Step(t) \/ Begin(t))
                    /\ WF_vars(CallCompletePending(t))
                    /\ WF_vars(HostRefresh(t))
                    /\ WF_vars(AsyncGetFromDisk(t))

Spec == Init /\ [][Next]_vars /\ Fairness
-----------------------------------------------------------------------------
(***************************************************************************)
(* Properties.                                                             *)
(***************************************************************************)
\* The addresses of the regions are in order, and the two halves of the
\* checkpoint lock exclude each other (try_lock_old and try_lock_new).
TypeOK ==
  /\ entry \in 0..Len(log)
  /\ head <= safe_ro /\ safe_ro <= ro /\ ro <= TailAddress
  /\ locks.old \in Nat /\ locks.new \in Nat
  /\ ~(locks.old > 0 /\ locks.new > 0)

Value(k) ==
  LET a == TraceBackForKeyMatch(k, entry, begin_address)
  IN  IF a = kInvalidAddress THEN NoValue ELSE log[a].value

Updates == {i \in Ids : plan.ops[i[1]][i[2]].op # "read"}

Outstanding(t) ==
  {call[t].req.id} \cup {r.id : r \in ctx[t].pending_ios \cup prev[t].pending_ios}
   \cup {r.id : r \in Range(ctx[t].retry_requests) \cup Range(prev[t].retry_requests)}

\* A Delete has appended a record of the key, which searches take for one with a
\* value.
Buried(k) == \E a \in DOMAIN log : log[a].key = k /\ log[a].by = "delete"

\* What is found along the chain of records is what the updates that took effect
\* add up to, and an update that is done has taken effect just once, whichever of
\* them were in place, by copy, retried or read from disk, and wherever the
\* regions and the phases moved in between.  The values of buried keys are exempt.
NoUpdateLost ==
  /\ \A k \in Keys : Value(k) = truth[k] \/ Buried(k)
  /\ \A i \in Updates :
       /\ Len(applied[i]) <= 1
       /\ i[2] <= ctx[i[1]].serial_num /\ i \notin Outstanding(i[1]) => applied[i] # <<>>

\* A Read answers a value the key had between its call and its answer, also when
\* the record had to be read from disk; exempt are buried keys.
AnswersAreTrue ==
  \A i \in Ids : Range(answer[i]) \subseteq seen[i] \/ Buried(plan.ops[i[1]][i[2]].key)

\* The same without the exemption: a key that was deleted is not found
\* (FH_UnitTest.cpp: "assert(rStat == Status::NotFound)").
ReadsAreTrue == \A i \in Ids : Range(answer[i]) \subseteq seen[i]

\* No request goes pending in the version that is checkpointed, and no other key
\* shares the entry.
Undisturbed ==
  plan.env.checkpoints > 0 =>
    Cardinality(Keys) = 1 /\ plan.head = 1 /\ plan.env.shifts = 0 /\ plan.drains

\* The checkpoint is a prefix of each session: the records of the old version hold
\* the effects of just the operations up to the serial number the session is told.
Cut ==
  sys.phase \in {"WAIT_FLUSH", "PERSISTENCE_CALLBACK"} =>
    \A i \in Updates : (applied[i] # <<>> /\ applied[i][1] < sys.version)
                         <=> i[2] <= prev[i[1]].serial_num

CutIsConsistent == Undisturbed => Cut

\* When CheckpointLocks::Free frees the locks nobody holds one or counts on one.
LocksFreed == ~locks.exists => locks.old = 0 /\ locks.new = 0

\* The assertions of the Internal functions, HandleOperationStatus, PivotAndRetry
\* and CheckpointLockGuard hold.
NoAssertionFails == Undisturbed => fault = {}

\* Nothing below the safe read-only address changes any more: it is being written
\* to disk.
ImmutableStays == [][\A a \in 1..(safe_ro - 1) : log'[a] = log[a]]_vars

\* Every call and every request it left pending completes, and so does the
\* checkpoint.
Quiet == /\ sys.phase = "REST"
         /\ \A t \in Thread : /\ ctx[t].serial_num = Len(plan.ops[t])
                              /\ Outstanding(t) = {<<>>}

RequestsComplete == []<>(Undisturbed => Quiet)
=============================================================================
