---------------------------- MODULE SystemPhases ----------------------------
(***************************************************************************)
(* The global state machine of FASTER (faster/api/faster.h,                *)
(* GlobalMoveToNextState and HandleSpecialPhases; cc/state_transitions.h;  *)
(* phase_finished in memory/light_epoch.h).  An action (a checkpoint, a    *)
(* garbage collection, an index growth) moves through phases; each thread  *)
(* adopts them when it refreshes, acknowledges those that need it, and the *)
(* thread that sees every acknowledgement moves the system on.             *)
(***************************************************************************)
EXTENDS Integers, Sequences, FiniteSets

CONSTANTS
  NumThreads,    \* threads have the ids 1 .. NumThreads
  Hosts,         \* the hosts checked: see Host below
  MaxStarts,     \* bound on the number of actions started
  NumChunks,     \* gc_.num_chunks and grow_.num_chunks
  MaxVersion     \* bound on the version a thread can count to

ASSUME BoundsAssumption ==
  /\ NumThreads \in Nat \ {0}
  /\ NumChunks \in Nat \ {0}
  /\ MaxStarts \in Nat
  /\ MaxVersion \in Nat \ {0}

(***************************************************************************)
(* The program that uses the store: the actions it starts, whether only    *)
(* when all threads rest, whether it starts and stops sessions meanwhile,  *)
(* and whether its operations may fill a page, and refresh in the middle.  *)
(***************************************************************************)
Actions == {"CheckpointFull", "CheckpointIndex", "CheckpointHybridLog", "GC", "GrowIndex"}
Host == [actions : SUBSET Actions, sessions : SUBSET {"start", "stop"},
         waits : BOOLEAN, page_fills : BOOLEAN]

ASSUME HostAssumption == Hosts \subseteq Host

Thread == 1 .. NumThreads
Chunk == 0 .. NumChunks - 1
NoTable == 2

\* SystemState::GetNextState: the phases of each action, in a cycle.
PhaseOrder ==
  [CheckpointFull |-> <<"REST", "PREP_INDEX_CHKPT", "INDEX_CHKPT", "PREPARE",
                        "IN_PROGRESS", "WAIT_PENDING", "WAIT_FLUSH",
                        "PERSISTENCE_CALLBACK">>,
   CheckpointIndex |-> <<"REST", "PREP_INDEX_CHKPT", "INDEX_CHKPT">>,
   CheckpointHybridLog |-> <<"REST", "PREPARE", "IN_PROGRESS", "WAIT_PENDING",
                             "WAIT_FLUSH", "PERSISTENCE_CALLBACK">>,
   GC |-> <<"REST", "GC_IO_PENDING", "GC_IN_PROGRESS">>,
   GrowIndex |-> <<"REST", "GROW_PREPARE", "GROW_IN_PROGRESS">>]

Phase == UNION {{PhaseOrder[a][i] : i \in DOMAIN PhaseOrder[a]} : a \in DOMAIN PhaseOrder}

SystemState(action, phase, version) ==
  [action |-> action, phase |-> phase, version |-> version]

\* The phases for which GetNextState has a case; any other is "not reached".
HasNextState(s) == \E i \in DOMAIN PhaseOrder[s.action] : PhaseOrder[s.action][i] = s.phase

GetNextState(s) ==
  LET order == PhaseOrder[s.action]
      i == CHOOSE j \in DOMAIN order : order[j] = s.phase
  IN  SystemState(s.action, order[(i % Len(order)) + 1],
                  IF s.phase = "PREPARE" THEN s.version + 1 ELSE s.version)

VARIABLES
  host,            \* constant in a behaviour
  system_state,
  index_io,        \* the index checkpoint's I/O: "none", "started", "done"
  flush,           \* the log up to final_address: "none", "started", "done"
  guids,           \* log_metadata.guids: the sessions the checkpoint counts
  contexts,        \* the sessions whose context WriteCprContext has written
  notified,        \* the sessions told that the checkpoint is persistent
  gc_, grow_,      \* chunks: the next one to claim, and those finished
  resize_info,     \* which of the two hash tables is in use
  starts,
  session,         \* "none", "starting" or "active" (local_current_epoch # 0)
  phase, version,  \* thread_ctx()
  pending,         \* does thread_ctx() have pending requests
  prev_pending,    \* does prev_thread_ctx()
  phase_finished,  \* the epoch table's acknowledgements
  op,              \* the table an operation in progress points into
  pc, caller, previous_state, final_state, moving, idx, chunk    \* locals

checkpoint == <<index_io, flush, guids, contexts, notified>>
tables == <<gc_, grow_, resize_info>>
global == <<system_state, checkpoint, tables, starts>>
context == <<phase, version, pending, prev_pending>>
locals == <<caller, previous_state, final_state, moving, idx, chunk>>
call == <<session, op, caller, previous_state, final_state, chunk>>
vars == <<host, global, session, context, phase_finished, op, pc, locals>>

-----------------------------------------------------------------------------
Rest == SystemState("None", "REST", 1)

Init ==
  /\ host \in Hosts
  /\ system_state = Rest
  /\ index_io = "none" /\ flush = "none"
  /\ guids = {} /\ contexts = {} /\ notified = {}
  /\ gc_ = [next_chunk |-> 0, done |-> {}]
  /\ grow_ = [next_chunk |-> 0, done |-> {}]
  /\ resize_info = 0
  /\ starts = 0
  /\ session = [t \in Thread |-> IF "start" \in host.sessions THEN "none" ELSE "active"]
  /\ phase = [t \in Thread |-> "REST"]
  /\ version = [t \in Thread |-> 1]
  /\ pending = [t \in Thread |-> FALSE]
  /\ prev_pending = [t \in Thread |-> FALSE]
  /\ phase_finished = [t \in Thread |-> "REST"]
  /\ op = [t \in Thread |-> NoTable]
  /\ pc = [t \in Thread |-> "idle"]
  /\ caller = [t \in Thread |-> "none"]
  /\ previous_state = [t \in Thread |-> Rest]
  /\ final_state = [t \in Thread |-> Rest]
  /\ moving = [t \in Thread |-> Rest]
  /\ idx = [t \in Thread |-> 0]
  /\ chunk = [t \in Thread |-> 0]

At(t, label) == pc[t] = label
Goto(t, label) == pc' = [pc EXCEPT ![t] = label]

\* The thread is between two calls, or inside an operation.
Return(t) ==
  /\ Goto(t, "idle")
  /\ caller' = [caller EXCEPT ![t] = "none"]
  /\ previous_state' = [previous_state EXCEPT ![t] = Rest]
  /\ final_state' = [final_state EXCEPT ![t] = Rest]
  /\ moving' = [moving EXCEPT ![t] = Rest]
  /\ idx' = [idx EXCEPT ![t] = 0]
  /\ chunk' = [chunk EXCEPT ![t] = 0]

BeginOp(t) == op' = [op EXCEPT ![t] = resize_info]

\* Where work done on the way goes on: in the operation that HeavyEnter is the
\* start of, or in the loop of HandleSpecialPhases.
Resume(t) ==
  \/ caller[t] = "heavy" /\ Return(t) /\ BeginOp(t)
  \/ caller[t] # "heavy" /\ Goto(t, "tail") /\ UNCHANGED <<op, locals>>

-----------------------------------------------------------------------------
(***************************************************************************)
(* The host: sessions, actions, operations and their completion.           *)
(***************************************************************************)
StartSession(t) ==
  /\ "start" \in host.sessions
  /\ session[t] = "none"
  /\ system_state.phase = "REST"
  /\ session' = [session EXCEPT ![t] = "starting"]
  /\ phase' = [phase EXCEPT ![t] = "REST"]
  /\ version' = [version EXCEPT ![t] = system_state.version]
  /\ UNCHANGED <<global, pending, prev_pending, phase_finished, op, pc, locals>>

Running(t) == session[t] = "active" /\ At(t, "idle")
Free(t) == Running(t) /\ op[t] = NoTable

MayStop(t) == phase[t] = "REST" /\ ~pending[t]

StopSession(t) ==
  /\ "stop" \in host.sessions
  /\ Free(t)
  /\ MayStop(t)
  /\ session' = [session EXCEPT ![t] = "none"]
  /\ UNCHANGED <<global, context, phase_finished, op, pc, locals>>

Resting(t) == session[t] # "none" => Running(t) /\ phase[t] = "REST"

\* Checkpoint, CheckpointIndex, CheckpointHybridLog, ShiftBeginAddress and
\* GrowIndex: claim the system, then reset the acknowledgements and announce.
StartAction(t, a) ==
  /\ Free(t)
  /\ starts < MaxStarts
  /\ host.waits => \A u \in Thread : Resting(u)
  /\ system_state.action = "None"
  /\ system_state' = SystemState(a, "REST", system_state.version)
  /\ starts' = starts + 1
  /\ Goto(t, "init_action")
  /\ UNCHANGED <<checkpoint, tables, session, context, phase_finished, op, locals>>

ResetPhaseFinished == phase_finished' = [t \in Thread |-> "REST"]

InitAction(t) ==
  /\ At(t, "init_action")
  /\ ResetPhaseFinished
  /\ LET fresh == [next_chunk |-> 0, done |-> {}]
         a == system_state.action
     IN  /\ IF a \in {"GC", "GrowIndex"}
            THEN UNCHANGED checkpoint
            ELSE /\ index_io' = "none" /\ flush' = "none"
                 /\ guids' = {} /\ contexts' = {} /\ notified' = {}
         /\ gc_' = IF a = "GC" THEN fresh ELSE gc_
         /\ grow_' = IF a = "GrowIndex" THEN fresh ELSE grow_
         /\ Goto(t, IF a = "GrowIndex" THEN "refresh" ELSE "idle")
  /\ system_state' = GetNextState(system_state)
  /\ UNCHANGED <<resize_info, starts, session, context, op, locals>>

\* Slip: an operation goes on while the table is being grown.
HeavyEnterSkipped(t) == TRUE
ChunkLeft(state) == state.next_chunk < NumChunks

\* HeavyEnter lets an operation through: it spins in Refresh while growth is
\* being prepared, and in the other two phases it has work to do first.
HeavyEnter(t) ==
  /\ phase[t] \notin {"GROW_PREPARE", "GROW_IN_PROGRESS"}
  /\ phase[t] \in {"GC_IO_PENDING", "GC_IN_PROGRESS"} => ~ChunkLeft(gc_)

Enter(t) ==
  /\ Free(t)
  /\ HeavyEnter(t)
  /\ BeginOp(t)
  /\ UNCHANGED <<global, session, context, phase_finished, pc, locals>>

ClaimGcChunk(t) ==
  /\ ChunkLeft(gc_)
  /\ chunk' = [chunk EXCEPT ![t] = gc_.next_chunk]
  /\ gc_' = [gc_ EXCEPT !.next_chunk = @ + 1]
  /\ Goto(t, "clean")
  /\ UNCHANGED <<system_state, checkpoint, grow_, resize_info, starts>>

EnterGc(t) ==
  /\ Free(t)
  /\ phase[t] \in {"GC_IO_PENDING", "GC_IN_PROGRESS"}
  /\ ClaimGcChunk(t)
  /\ caller' = [caller EXCEPT ![t] = "heavy"]
  /\ UNCHANGED <<session, context, phase_finished, op, previous_state,
                 final_state, moving, idx>>

EnterGrow(t) ==
  /\ Free(t)
  /\ phase[t] = "GROW_IN_PROGRESS"
  /\ Goto(t, "split")
  /\ caller' = [caller EXCEPT ![t] = "heavy"]
  /\ UNCHANGED <<global, session, context, phase_finished, op, previous_state,
                 final_state, moving, idx, chunk>>

\* The operation returns, or leaves a pending request behind.
Leave(t, async) ==
  /\ Running(t)
  /\ op[t] # NoTable
  /\ op' = [op EXCEPT ![t] = NoTable]
  /\ pending' = [pending EXCEPT ![t] = @ \/ async]
  /\ UNCHANGED <<global, session, phase, version, prev_pending, phase_finished,
                 pc, locals>>

\* CompletePending.
CompletePending(t) ==
  /\ Free(t)
  /\ pending[t]
  /\ phase[t] \notin {"WAIT_PENDING", "IN_PROGRESS"}
  /\ pending' = [pending EXCEPT ![t] = FALSE]
  /\ UNCHANGED <<global, session, phase, version, prev_pending, phase_finished,
                 op, pc, locals>>

CompletePrevPending(t) ==
  /\ Free(t)
  /\ prev_pending[t]
  /\ phase[t] # "REST"
  /\ prev_pending' = [prev_pending EXCEPT ![t] = FALSE]
  /\ UNCHANGED <<global, session, phase, version, pending, phase_finished, op,
                 pc, locals>>

\* The disk finishes the index checkpoint, or the flush of the log.
IndexIoDone ==
  /\ index_io = "started"
  /\ index_io' = "done"
  /\ UNCHANGED <<system_state, flush, guids, contexts, notified, tables, starts,
                 session, context, phase_finished, op, pc, locals>>

FlushDone ==
  /\ flush = "started"
  /\ flush' = "done"
  /\ UNCHANGED <<system_state, index_io, guids, contexts, notified, tables,
                 starts, session, context, phase_finished, op, pc, locals>>

-----------------------------------------------------------------------------
(***************************************************************************)
(* Refresh: protect the epoch, look at the system state, and catch up with *)
(* it in HandleSpecialPhases.                                              *)
(***************************************************************************)
Refresh(t) ==
  /\ At(t, "idle")
  /\ session[t] # "none"
  /\ op[t] # NoTable => host.page_fills
  /\ session' = [session EXCEPT ![t] = "active"]
  /\ Goto(t, "refresh")
  /\ UNCHANGED <<global, context, phase_finished, op, locals>>

RefreshLoad(t) ==
  /\ At(t, "refresh")
  /\ Goto(t, IF phase[t] = "REST" /\ system_state.phase = "REST"
             THEN "idle" ELSE "handle")
  /\ UNCHANGED <<global, session, context, phase_finished, op, locals>>

HandleLoad(t) ==
  /\ At(t, "handle")
  /\ \/ /\ system_state.phase = "REST"
        /\ phase' = [phase EXCEPT ![t] = "REST"]
        /\ version' = [version EXCEPT ![t] = system_state.version]
        /\ Goto(t, "idle")
        /\ UNCHANGED <<final_state, previous_state>>
     \/ /\ system_state.phase # "REST"
        /\ final_state' = [final_state EXCEPT ![t] = system_state]
        /\ previous_state' = [previous_state EXCEPT
             ![t] = SystemState(system_state.action, phase[t], version[t])]
        /\ Goto(t, "step")
        /\ UNCHANGED <<phase, version>>
  /\ UNCHANGED <<global, session, pending, prev_pending, phase_finished, op,
                 caller, moving, idx, chunk>>

Current(t) ==
  IF previous_state[t] = final_state[t] THEN final_state[t]
  ELSE GetNextState(previous_state[t])

\* "not reached": GetNextState has no case, or a collection is at rest.
Unexpected(t) ==
  /\ previous_state[t] # final_state[t]
  /\ \/ ~HasNextState(previous_state[t])
     \/ previous_state[t].action = "GC" /\ Current(t).phase = "REST"

Step(t, p) == At(t, "step") /\ ~Unexpected(t) /\ Current(t).phase = p

\* Slip: what belongs to the first step into a phase is done on every step.
FromAny(t, p) == TRUE

From(t, p) == previous_state[t].phase = p

\* The end of the loop: the thread has adopted the current state.
Adopt(t) ==
  /\ At(t, "tail")
  /\ version[t] < MaxVersion
  /\ phase' = [phase EXCEPT ![t] = Current(t).phase]
  /\ version' = [version EXCEPT ![t] = Current(t).version]
  /\ \/ Current(t) = final_state[t] /\ Return(t)
     \/ /\ Current(t) # final_state[t]
        /\ previous_state' = [previous_state EXCEPT ![t] = Current(t)]
        /\ Goto(t, "step")
        /\ UNCHANGED <<caller, final_state, moving, idx, chunk>>
  /\ UNCHANGED <<global, session, pending, prev_pending, phase_finished, op>>

\* The phase needs nothing (more) from this thread.
Skip(t) == Goto(t, "tail") /\ UNCHANGED <<phase_finished, moving, idx>>

\* FinishThreadPhase: acknowledge, then look at every entry of the epoch table.
FinishThreadPhase(t, s) ==
  /\ phase_finished' = [phase_finished EXCEPT ![t] = s.phase]
  /\ moving' = [moving EXCEPT ![t] = s]
  /\ idx' = [idx EXCEPT ![t] = 1]
  /\ Goto(t, "scan")

HasThreadFinishedPhase(t) == phase_finished[t] = Current(t).phase

\* Slip: an acknowledgement of an earlier phase is taken for one of this phase.
MissingOnlyRest(t, u) == session[u] = "active" /\ phase_finished[u] = "REST"

Missing(t, u) == session[u] = "active" /\ phase_finished[u] # moving[t].phase

Scan(t) ==
  /\ At(t, "scan")
  /\ \/ /\ Missing(t, idx[t])
        /\ Goto(t, IF caller[t] = "none" THEN "tail" ELSE "spin")
        /\ UNCHANGED idx
     \/ /\ ~Missing(t, idx[t])
        /\ Goto(t, IF idx[t] = NumThreads THEN "move" ELSE "scan")
        /\ idx' = [idx EXCEPT ![t] = IF @ = NumThreads THEN 0 ELSE @ + 1]
  /\ UNCHANGED <<global, session, context, phase_finished, op, caller,
                 previous_state, final_state, moving, chunk>>

-----------------------------------------------------------------------------
\* HandleSpecialPhases, the checkpoint's phases.
StepRest(t) ==
  /\ Step(t, "REST")
  /\ Skip(t)
  /\ UNCHANGED <<global, context, call>>

StepPrepIndexChkpt(t) ==
  /\ Step(t, "PREP_INDEX_CHKPT")
  /\ IF From(t, "REST") THEN FinishThreadPhase(t, Current(t)) ELSE Skip(t)
  /\ UNCHANGED <<global, context, call>>

StepIndexChkpt(t) ==
  /\ Step(t, "INDEX_CHKPT")
  /\ \/ index_io # "done" /\ Skip(t)
     \/ /\ index_io = "done"
        /\ Current(t).action = "CheckpointIndex"
        /\ FinishThreadPhase(t, Current(t))
     \/ /\ index_io = "done"
        /\ Current(t).action # "CheckpointIndex"
        /\ moving' = [moving EXCEPT ![t] = Current(t)]
        /\ Goto(t, "move")
        /\ UNCHANGED <<phase_finished, idx>>
  /\ UNCHANGED <<global, context, call>>

\* Slip: the system is moved on whether or not the others have acknowledged.
StepPrepareAlone(t) ==
  /\ Step(t, "PREPARE")
  /\ guids' = guids \cup {t}
  /\ phase_finished' = [phase_finished EXCEPT ![t] = "PREPARE"]
  /\ moving' = [moving EXCEPT ![t] = Current(t)]
  /\ Goto(t, "move")
  /\ UNCHANGED <<system_state, index_io, flush, contexts, notified, tables,
                 starts, context, idx, call>>

StepPrepare(t) ==
  /\ Step(t, "PREPARE")
  /\ \/ From(t, "PREPARE") /\ Skip(t) /\ UNCHANGED guids
     \/ /\ ~From(t, "PREPARE")
        /\ guids' = guids \cup {t}
        /\ FinishThreadPhase(t, Current(t))
  /\ UNCHANGED <<system_state, index_io, flush, contexts, notified, tables,
                 starts, context, call>>

\* The current context becomes the previous one; a fresh one takes its place.
SwapContexts(t) ==
  /\ prev_pending' = [prev_pending EXCEPT ![t] = pending[t]]
  /\ pending' = [pending EXCEPT ![t] = FALSE]

StepInProgress(t) ==
  /\ Step(t, "IN_PROGRESS")
  /\ \/ /\ From(t, "PREPARE")
        /\ SwapContexts(t)
        /\ FinishThreadPhase(t, Current(t))
     \/ ~From(t, "PREPARE") /\ Skip(t) /\ UNCHANGED <<pending, prev_pending>>
  /\ UNCHANGED <<global, phase, version, call>>

\* Slip: a phase is acknowledged with requests of the old context pending.
PrevDoneAlways(t) == TRUE

PrevDone(t) == ~prev_pending[t]

\* Slip: the wait for the requests of the old version is dropped.
StepWaitPendingAtOnce(t) ==
  /\ Step(t, "WAIT_PENDING")
  /\ IF ~HasThreadFinishedPhase(t) THEN FinishThreadPhase(t, Current(t)) ELSE Skip(t)
  /\ UNCHANGED <<global, context, call>>

StepWaitPending(t) ==
  /\ Step(t, "WAIT_PENDING")
  /\ IF ~HasThreadFinishedPhase(t) /\ PrevDone(t)
     THEN FinishThreadPhase(t, Current(t)) ELSE Skip(t)
  /\ UNCHANGED <<global, context, call>>

\* Slip: the wait for the flush is dropped.
FlushedAlways == TRUE

Flushed == flush = "done"

StepWaitFlush(t) ==
  /\ Step(t, "WAIT_FLUSH")
  /\ \/ /\ ~HasThreadFinishedPhase(t) /\ Flushed
        /\ contexts' = contexts \cup {t}
        /\ FinishThreadPhase(t, Current(t))
     \/ /\ HasThreadFinishedPhase(t) \/ ~Flushed
        /\ Skip(t)
        /\ UNCHANGED contexts
  /\ UNCHANGED <<system_state, index_io, flush, guids, notified, tables, starts, context,
                 call>>

StepPersistenceCallback(t) ==
  /\ Step(t, "PERSISTENCE_CALLBACK")
  /\ \/ /\ From(t, "WAIT_FLUSH")
        /\ notified' = notified \cup {t}
        /\ FinishThreadPhase(t, Current(t))
     \/ ~From(t, "WAIT_FLUSH") /\ Skip(t) /\ UNCHANGED notified
  /\ UNCHANGED <<system_state, index_io, flush, guids, contexts, tables, starts, context,
                 call>>

-----------------------------------------------------------------------------
\* HandleSpecialPhases, garbage collection.
StepGcIoPending(t) ==
  /\ Step(t, "GC_IO_PENDING")
  /\ \/ /\ From(t, "REST")
        /\ SwapContexts(t)
        /\ IF ~HasThreadFinishedPhase(t) /\ ~pending[t]
           THEN FinishThreadPhase(t, Current(t)) ELSE Skip(t)
     \/ /\ ~From(t, "REST")
        /\ IF ~HasThreadFinishedPhase(t) /\ PrevDone(t)
           THEN FinishThreadPhase(t, Current(t)) ELSE Skip(t)
        /\ UNCHANGED <<pending, prev_pending>>
  /\ UNCHANGED <<global, phase, version, call>>

StepGcInProgress(t) ==
  /\ Step(t, "GC_IN_PROGRESS")
  /\ \/ /\ ~HasThreadFinishedPhase(t)
        /\ ClaimGcChunk(t)
        /\ UNCHANGED <<phase_finished, moving, idx>>
     \/ /\ ~HasThreadFinishedPhase(t)
        /\ ~ChunkLeft(gc_)
        /\ FinishThreadPhase(t, Current(t))
        /\ UNCHANGED <<global, chunk>>
     \/ HasThreadFinishedPhase(t) /\ Skip(t) /\ UNCHANGED <<global, chunk>>
  /\ UNCHANGED <<session, context, op, caller, previous_state, final_state>>

CleanHashTableBuckets(t) ==
  /\ At(t, "clean")
  /\ gc_' = [gc_ EXCEPT !.done = @ \cup {chunk[t]}]
  /\ Resume(t)
  /\ UNCHANGED <<system_state, checkpoint, grow_, resize_info, starts, session,
                 context, phase_finished>>

-----------------------------------------------------------------------------
\* HandleSpecialPhases, growing the index.
StepGrowPrepare(t) ==
  /\ Step(t, "GROW_PREPARE")
  /\ IF From(t, "REST") THEN FinishThreadPhase(t, Current(t)) ELSE Skip(t)
  /\ UNCHANGED <<global, context, call>>

StepGrowInProgress(t) ==
  /\ Step(t, "GROW_IN_PROGRESS")
  /\ Goto(t, "split")
  /\ caller' = [caller EXCEPT ![t] = "split"]
  /\ UNCHANGED <<global, session, context, phase_finished, op, previous_state,
                 final_state, moving, idx, chunk>>

\* SplitHashTableBuckets: claim chunks until none is left, then acknowledge.
SplitClaim(t) ==
  /\ At(t, "split")
  /\ ChunkLeft(grow_)
  /\ chunk' = [chunk EXCEPT ![t] = grow_.next_chunk]
  /\ grow_' = [grow_ EXCEPT !.next_chunk = @ + 1]
  /\ Goto(t, "split_chunk")
  /\ UNCHANGED <<system_state, checkpoint, gc_, resize_info, starts, session,
                 context, phase_finished, op, caller, previous_state,
                 final_state, moving, idx>>

SplitChunk(t) ==
  /\ At(t, "split_chunk")
  /\ grow_' = [grow_ EXCEPT !.done = @ \cup {chunk[t]}]
  /\ Goto(t, "split")
  /\ UNCHANGED <<system_state, checkpoint, gc_, resize_info, starts, session,
                 context, phase_finished, op, locals>>

SplitDone(t) ==
  /\ At(t, "split")
  /\ ~ChunkLeft(grow_)
  /\ phase' = [phase EXCEPT ![t] = "REST"]
  /\ FinishThreadPhase(t, SystemState("GrowIndex", "GROW_IN_PROGRESS", version[t]))
  /\ UNCHANGED <<global, version, pending, prev_pending, call>>

SplitSpin(t) ==
  /\ At(t, "spin")
  /\ system_state.phase # "GROW_IN_PROGRESS"
  /\ Resume(t)
  /\ UNCHANGED <<global, session, context, phase_finished>>

-----------------------------------------------------------------------------
(***************************************************************************)
(* GlobalMoveToNextState: the compare-and-swap, then what comes with it.   *)
(***************************************************************************)
MoveCas(t) ==
  /\ At(t, "move")
  /\ \/ /\ system_state = moving[t]
        /\ system_state' = GetNextState(system_state)
        /\ moving' = [moving EXCEPT ![t] = GetNextState(system_state)]
        /\ Goto(t, "moved")
        /\ UNCHANGED <<op, caller, previous_state, final_state, idx, chunk>>
     \/ /\ system_state # moving[t]
        /\ Resume(t)
        /\ UNCHANGED system_state
  /\ UNCHANGED <<checkpoint, tables, starts, session, context, phase_finished>>

Moved(t, p) ==
  /\ At(t, "moved")
  /\ moving[t].phase = p
  /\ Resume(t)
  /\ UNCHANGED <<starts, session, context, phase_finished>>

\* CheckpointFuzzyIndex starts the index's I/O.
MovedToIndexChkpt(t) ==
  /\ Moved(t, "INDEX_CHKPT")
  /\ index_io' = "started"
  /\ UNCHANGED <<system_state, flush, guids, contexts, notified, tables>>

\* The log is read-only up to its tail, which is the final address.
MovedToWaitFlush(t) ==
  /\ Moved(t, "WAIT_FLUSH")
  /\ flush' = "started"
  /\ UNCHANGED <<system_state, index_io, guids, contexts, notified, tables>>

\* Every thread is to use the new table.
MovedToGrowInProgress(t) ==
  /\ Moved(t, "GROW_IN_PROGRESS")
  /\ resize_info' = 1 - resize_info
  /\ UNCHANGED <<system_state, checkpoint, gc_, grow_>>

\* The action is over; CheckpointDone resets the checkpoint's metadata.
MovedToRest(t) ==
  /\ Moved(t, "REST")
  /\ IF moving[t].action \in {"GC", "GrowIndex"}
     THEN UNCHANGED checkpoint
     ELSE /\ flush' = "none"
          /\ guids' = {} /\ contexts' = {} /\ notified' = {}
          /\ UNCHANGED index_io
  /\ system_state' = SystemState("None", "REST", moving[t].version)
  /\ UNCHANGED tables

\* The other phases change no state kept here.
MovedQuietly(t) ==
  /\ \E p \in {"PREPARE", "IN_PROGRESS", "WAIT_PENDING", "PERSISTENCE_CALLBACK",
               "GC_IN_PROGRESS"} : Moved(t, p)
  /\ UNCHANGED <<system_state, checkpoint, tables>>

-----------------------------------------------------------------------------
\* The steps a thread takes once it is inside Refresh or an action's start.
Continue(t) ==
  \/ InitAction(t) \/ RefreshLoad(t) \/ HandleLoad(t) \/ Adopt(t)
  \/ Scan(t) \/ StepRest(t) \/ StepPrepIndexChkpt(t) \/ StepIndexChkpt(t)
  \/ StepPrepare(t) \/ StepInProgress(t) \/ StepWaitPending(t)
  \/ StepWaitFlush(t) \/ StepPersistenceCallback(t)
  \/ StepGcIoPending(t) \/ StepGcInProgress(t) \/ CleanHashTableBuckets(t)
  \/ StepGrowPrepare(t) \/ StepGrowInProgress(t)
  \/ SplitClaim(t) \/ SplitChunk(t) \/ SplitDone(t) \/ SplitSpin(t)
  \/ MoveCas(t) \/ MovedToIndexChkpt(t) \/ MovedToWaitFlush(t)
  \/ MovedToGrowInProgress(t) \/ MovedToRest(t) \/ MovedQuietly(t)

Call(t) ==
  \/ StartSession(t) \/ StopSession(t)
  \/ \E a \in host.actions : StartAction(t, a)
  \/ Enter(t) \/ EnterGc(t) \/ EnterGrow(t)
  \/ \E async \in BOOLEAN : Leave(t, async)
  \/ CompletePending(t) \/ CompletePrevPending(t)
  \/ Refresh(t)

Next ==
  /\ IndexIoDone \/ FlushDone \/ \E t \in Thread : Call(t) \/ Continue(t)
  /\ UNCHANGED host

Spec == Init /\ [][Next]_vars

(***************************************************************************)
(* What the scheduler and the host owe: a call that has begun goes on, the *)
(* disk answers, operations end, and every session keeps refreshing and    *)
(* completing its pending requests.                                        *)
(***************************************************************************)
Fairness ==
  /\ WF_vars(IndexIoDone /\ UNCHANGED host)
  /\ WF_vars(FlushDone /\ UNCHANGED host)
  /\ \A t \in Thread :
       /\ WF_vars(Continue(t) /\ UNCHANGED host)
       /\ WF_vars((\E async \in BOOLEAN : Leave(t, async)) /\ UNCHANGED host)
       /\ SF_vars(Refresh(t) /\ UNCHANGED host)
       /\ SF_vars(CompletePrevPending(t) /\ UNCHANGED host)

FairSpec == Spec /\ Fairness

-----------------------------------------------------------------------------
Labels ==
  {"idle", "init_action", "refresh", "handle", "step", "scan", "tail",
   "clean", "split", "split_chunk", "spin", "move", "moved"}

State == [action : DOMAIN PhaseOrder \cup {"None"}, phase : Phase, version : 1 .. MaxVersion]

ChunkState == [next_chunk : 0 .. NumChunks, done : SUBSET Chunk]

\* The types of the system state, of the actions' states and of the threads.
TypeOK ==
  /\ host \in Hosts
  /\ system_state \in State
  /\ index_io \in {"none", "started", "done"}
  /\ flush \in {"none", "started", "done"}
  /\ guids \subseteq Thread /\ contexts \subseteq Thread /\ notified \subseteq Thread
  /\ gc_ \in ChunkState /\ grow_ \in ChunkState
  /\ resize_info \in {0, 1}
  /\ starts \in 0 .. MaxStarts
  /\ session \in [Thread -> {"none", "starting", "active"}]
  /\ phase \in [Thread -> Phase]
  /\ version \in [Thread -> 1 .. MaxVersion]
  /\ pending \in [Thread -> BOOLEAN]
  /\ prev_pending \in [Thread -> BOOLEAN]
  /\ phase_finished \in [Thread -> Phase]
  /\ op \in [Thread -> {0, 1, NoTable}]
  /\ pc \in [Thread -> Labels]
  /\ caller \in [Thread -> {"none", "heavy", "split"}]
  /\ previous_state \in [Thread -> State]
  /\ final_state \in [Thread -> State]
  /\ moving \in [Thread -> State]
  /\ idx \in [Thread -> 0 .. NumThreads]
  /\ chunk \in [Thread -> Chunk]

(***************************************************************************)
(* StartSession reads the system state before it protects the epoch, so a  *)
(* session that starts while an action begins joins it with the phase and  *)
(* version of a past moment, which breaks five of the properties below.     *)
(* They are stated for hosts whose sessions run before the first action.   *)
(***************************************************************************)
JoinedAtStart == "start" \notin host.sessions

\* The assertions of HandleSpecialPhases and ResetPhaseFinished: a thread is never
\* asked to continue an action from a phase that the action does not have ("not
\* reached"); the contexts are swapped only when the one to be reused has nothing
\* pending, so that no request is dropped; when an action starts, every
\* acknowledgement of the last one is of its last phase.
Swaps(t) ==
  \/ Current(t).phase = "IN_PROGRESS" /\ From(t, "PREPARE")
  \/ Current(t).phase = "GC_IO_PENDING" /\ From(t, "REST")
AssertionsHold ==
  \A t \in Thread :
    /\ JoinedAtStart /\ At(t, "step") => ~Unexpected(t) /\ (Swaps(t) => ~prev_pending[t])
    /\ At(t, "init_action") =>
         \A u \in Thread : phase_finished[u] \in
           {"REST", "INDEX_CHKPT", "PERSISTENCE_CALLBACK", "GC_IN_PROGRESS", "GROW_IN_PROGRESS"}

\* "All other threads are in phase {PREPARE,IN_PROGRESS,WAIT_PENDING}" and the
\* like (InternalUpsert, InternalRmw): while a thread works in one of these
\* phases, every thread at work is in that phase, the one before or the next.
Beside ==
  [IN_PROGRESS |-> {"PREPARE", "IN_PROGRESS", "WAIT_PENDING"},
   WAIT_PENDING |-> {"IN_PROGRESS", "WAIT_PENDING", "WAIT_FLUSH"},
   WAIT_FLUSH |-> {"WAIT_PENDING", "WAIT_FLUSH", "PERSISTENCE_CALLBACK"}]
ThreadsAreBeside ==
  JoinedAtStart =>
    \A t, u \in Thread :
      Running(t) /\ Running(u) /\ phase[t] \in DOMAIN Beside => phase[u] \in Beside[phase[t]]

\* The checkpoint is a consistent cut: once the log's final address is taken, no
\* thread works in the old version or has requests of the old version pending,
\* and every session is counted in the metadata.
ConsistentCut ==
  JoinedAtStart /\ flush # "none" /\ system_state.action \in {"CheckpointFull", "CheckpointHybridLog"}
    => \A t \in Thread : session[t] = "active" =>
         version[t] = system_state.version /\ ~prev_pending[t] /\ t \in guids

\* A session is told that its operations are persistent only when the log is on
\* disk up to the final address and every session's context has been written.
NotifiedIsPersistent ==
  JoinedAtStart /\ notified # {} =>
    flush = "done" /\ \A t \in Thread : session[t] = "active" => t \in contexts

\* The log is truncated when no request that may read below the new begin
\* address is pending ("finish all outstanding I/Os before trying to truncate").
TruncateWaits ==
  system_state.phase = "GC_IN_PROGRESS" => \A t \in Thread : ~prev_pending[t]

\* An action comes to rest with its work done: every chunk of the hash table has
\* been cleaned, or split, by the thread that claimed it.
AtRestAllDone ==
  \A t \in Thread : At(t, "moved") /\ moving[t].phase = "REST" =>
    /\ moving[t].action = "GC" => gc_.done = Chunk
    /\ moving[t].action = "GrowIndex" => grow_.done = Chunk

\* "Each thread waits for all other threads to complete outstanding (synchronous)
\* operations against the hash table": no chunk is split while an operation is
\* in progress, and no operation holds an entry of the table that was replaced.
GrowWaitsForOperations ==
  JoinedAtStart => \A t \in Thread : op[t] # NoTable =>
    op[t] = resize_info /\ \A u \in Thread : ~At(u, "split_chunk")

\* Every action comes to its end if the sessions that take part stay: of the
\* threads that acknowledge a phase, the last one sees all the others'
\* acknowledgements, however their scans of the epoch table interleave.  A
\* session that stops in the middle of an action can leave the others waiting.
EveryActionEnds ==
  (system_state.action # "None") ~>
    \/ system_state.action = "None"
    \/ \A t \in Thread : session[t] = "none"
=============================================================================
