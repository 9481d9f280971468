---------------------------- MODULE LogRecovery ----------------------------
(***************************************************************************)
(* A full fold-over checkpoint of FASTER, what it leaves on disk, and       *)
(* Recover (api/faster.h).  The checkpoint writes the index while threads   *)
(* change it (the table and the overflow buckets to two files, at different *)
(* moments), shifts the version, and flushes the log up to final_address.   *)
(* After a crash at any point, Recover reads the metadata, the threads'     *)
(* contexts and the index, and replays the pages of the log from the tail   *)
(* at the start of the checkpoint to final_address, through a window of     *)
(* Capacity pages of memory.                                                *)
(*                                                                          *)
(* An address is a record's position in the log.  A record carries its key, *)
(* version, previous address and invalid bit.  The phases are those of      *)
(* SystemPhases that matter to the log; a thread is in no operation when it *)
(* refreshes.                                                               *)
(***************************************************************************)
EXTENDS Integers, Sequences, FiniteSets, FiniteSetsExt

CONSTANTS
  Thread, Key,
  Entry,       \* the hash bucket entries
  Overflow,    \* those of them that lie in an overflow bucket
  PageSize,    \* records per page
  Capacity,    \* buffer_size_, in pages
  MaxLog,      \* bound: records in the log
  Plans        \* what one behaviour starts from: the entry of each key, the
               \* keys of the first records, the operations, the crashes

\* Pages and buffer are not empty (the constructor checks more), somebody uses
\* the store, and a plan's records fit the log.
ASSUME SizesAssumption ==
  /\ PageSize \in Nat \ {0} /\ Capacity \in Nat \ {0} /\ MaxLog \in Nat \ {0}
  /\ Thread # {} /\ Overflow \subseteq Entry

PlanRec ==
  [hash : [Key -> Entry], log : Seq(Key), ops : Nat, crashes : Nat, deletes : BOOLEAN]

ASSUME PlansAssumption ==
  Plans \subseteq PlanRec /\ \A p \in Plans : Len(p.log) <= MaxLog

VARIABLES
  plan,
  log, entry, linked,     \* in memory: the log, the entries, and whether the
                          \* bucket of the Overflow entries is in its chain
  phase, seen, call,      \* system_state_, the phase and operation of a thread
  start, final,           \* checkpoint_start_address, final_address
  index_file, link_file,  \* the index on disk: entries, and the chain's link
  index_info, log_info, contexts,   \* metadata and context files on disk
  disk,                   \* the log on disk
  page_status, mem, replayed,       \* recovery: pages, the window, progress
  result,                 \* what Recover has returned
  truth, deleted          \* history: each key's last record of the version,
                          \* and the keys whose last operation was a delete

memory == <<log, entry, linked>>
threads == <<phase, seen, call>>
bounds == <<start, final>>
files == <<index_file, link_file, index_info, log_info, contexts>>
history == <<truth, deleted>>
recovery == <<page_status, mem, replayed, result>>
vars == <<plan, memory, threads, bounds, files, disk, recovery, history>>

kInvalidAddress == 0
kInvalidEntry == [address |-> 0, used |-> FALSE, tentative |-> FALSE]
EntryAt(a) == [address |-> a, used |-> TRUE, tentative |-> FALSE]
Tentative == [address |-> 0, used |-> TRUE, tentative |-> TRUE]
Record(k, v, p) == [key |-> k, version |-> v, previous |-> p, invalid |-> FALSE]
Null == [key |-> "null", version |-> 0, previous |-> 0, invalid |-> FALSE]

Page(a) == (a - 1) \div PageSize
FirstOf(p) == p * PageSize + 1
Pages == 0 .. Page(MaxLog)
PageOf(f, p) == [i \in 1 .. PageSize |-> f[p * PageSize + i]]
InLog(f, a) == IF a \in DOMAIN f THEN f[a] ELSE Null

Phases == <<"REST", "PREP_INDEX_CHKPT", "INDEX_CHKPT", "PREPARE", "IN_PROGRESS",
            "WAIT_PENDING", "WAIT_FLUSH", "PERSISTENCE_CALLBACK">>
Number(p) == CHOOSE i \in DOMAIN Phases : Phases[i] = p
Version(t) == IF Number(seen[t]) < Number("IN_PROGRESS") THEN 1 ELSE 2
Idle == [pc |-> "idle", key |-> "none", entry |-> kInvalidEntry, at |-> 0]
Running == phase \in {Phases[i] : i \in DOMAIN Phases}

\* The records of the plan are in the log and in the index.
Chained(p) ==
  [i \in DOMAIN p.log |->
     LET before == {j \in 1 .. i - 1 : p.hash[p.log[j]] = p.hash[p.log[i]]}
     IN  Record(p.log[i], 1, Max(before \cup {kInvalidAddress}))]

Init ==
  /\ plan \in Plans
  /\ log = Chained(plan)
  /\ entry = [e \in Entry |->
       LET mine == {i \in DOMAIN plan.log : plan.hash[plan.log[i]] = e}
       IN  IF mine = {} THEN kInvalidEntry ELSE EntryAt(Max(mine))]
  /\ linked = \E e \in Overflow : entry[e].used
  /\ phase = "REST" /\ seen = [t \in Thread |-> "REST"] /\ call = [t \in Thread |-> Idle]
  /\ start = 0 /\ final = 0
  /\ index_file = [e \in {} |-> kInvalidEntry] /\ link_file = "none"
  /\ index_info = FALSE /\ log_info = FALSE /\ contexts = {}
  /\ disk = [a \in 1 .. MaxLog + PageSize |-> Null]
  /\ page_status = [p \in Pages |-> "NotStarted"]
  /\ mem = [s \in 0 .. Capacity - 1 |-> [page |-> -1, recs |-> <<>>]]
  /\ replayed = 0 /\ result = "none"
  /\ truth = [k \in Key |-> Max({i \in DOMAIN plan.log : plan.log[i] = k} \cup {0})]
  /\ deleted = {}

(***************************************************************************)
(* An operation: find or make the entry, append a record, swap the entry.  *)
(***************************************************************************)
Do(t, c) == call' = [call EXCEPT ![t] = c]

\* FindOrCreateEntry puts a tentative entry into a free slot; an overflow
\* bucket is allocated and linked first.
Find(t, k) ==
  /\ Running /\ call[t].pc = "idle" /\ plan.ops > 0 /\ Len(log) < MaxLog
  /\ plan' = [plan EXCEPT !.ops = @ - 1]
  /\ LET e == plan.hash[k]
     IN  IF ~entry[e].used
         THEN /\ entry' = [entry EXCEPT ![e] = Tentative]
              /\ linked' = (linked \/ e \in Overflow)
              /\ Do(t, [Idle EXCEPT !.pc = "confirm", !.key = k])
         ELSE /\ ~entry[e].tentative
              /\ Do(t, [Idle EXCEPT !.pc = "append", !.key = k, !.entry = entry[e]])
              /\ UNCHANGED <<entry, linked>>
  /\ UNCHANGED <<log, phase, seen, bounds, files, disk, recovery, history>>

Confirm(t) ==
  /\ Running /\ call[t].pc = "confirm"
  /\ entry' = [entry EXCEPT ![plan.hash[call[t].key]] = EntryAt(kInvalidAddress)]
  /\ Do(t, [call[t] EXCEPT !.pc = "append", !.entry = EntryAt(kInvalidAddress)])
  /\ UNCHANGED <<plan, log, linked, phase, seen, bounds, files, disk, recovery, history>>

\* A record on top of one of a later version is refused: the thread is to
\* refresh first.
Append_(t) ==
  /\ Running /\ call[t].pc = "append" /\ Len(log) < MaxLog
  /\ IF InLog(log, call[t].entry.address).version > Version(t)
     THEN Do(t, Idle) /\ UNCHANGED log
     ELSE /\ log' = Append(log, Record(call[t].key, Version(t), call[t].entry.address))
          /\ Do(t, [call[t] EXCEPT !.pc = "swap", !.at = Len(log) + 1])
  /\ UNCHANGED <<plan, entry, linked, phase, seen, bounds, files, disk, recovery, history>>

\* The compare-and-swap; who loses it marks the record invalid.
Swap(t) ==
  /\ Running /\ call[t].pc = "swap"
  /\ LET e == plan.hash[call[t].key]
     IN  IF entry[e] = call[t].entry
         THEN /\ entry' = [entry EXCEPT ![e] = EntryAt(call[t].at)]
              /\ IF log[call[t].at].version = 1
                 THEN /\ truth' = [truth EXCEPT ![call[t].key] = call[t].at]
                      /\ deleted' = deleted \ {call[t].key}
                 ELSE UNCHANGED history
              /\ UNCHANGED log
         ELSE /\ log' = [log EXCEPT ![call[t].at].invalid = TRUE]
              /\ UNCHANGED <<entry, history>>
  /\ Do(t, Idle)
  /\ UNCHANGED <<plan, linked, phase, seen, bounds, files, disk, recovery>>

\* InternalDelete of a mutable record of the thread's version at the head of
\* its chain clears the entry, and logs nothing.  (Any other delete appends a
\* tombstone, as an update appends a record.)
Delete(t, k) ==
  /\ Running /\ call[t].pc = "idle" /\ plan.ops > 0 /\ plan.deletes
  /\ LET e == plan.hash[k]
         r == InLog(log, entry[e].address)
     IN  /\ entry[e].used /\ ~entry[e].tentative /\ r.key = k /\ r.version = Version(t)
         /\ entry' = [entry EXCEPT ![e] = kInvalidEntry]
         /\ IF r.version = 1
            THEN truth' = [truth EXCEPT ![k] = 0] /\ deleted' = deleted \cup {k}
            ELSE UNCHANGED history
  /\ plan' = [plan EXCEPT !.ops = @ - 1]
  /\ UNCHANGED <<log, linked, threads, bounds, files, disk, recovery>>

(***************************************************************************)
(* The checkpoint.                                                         *)
(***************************************************************************)
\* Checkpoint: the tail is noted, then the phase is published.
Checkpoint ==
  /\ phase = "REST"
  /\ start' = Len(log) + 1
  /\ phase' = "PREP_INDEX_CHKPT"
  /\ UNCHANGED <<plan, memory, seen, call, final, files, disk, recovery, history>>

\* Refresh, outside an operation.  In WAIT_FLUSH a thread waits for the flush
\* and writes its context.
Flushed == \A a \in 1 .. final - 1 : disk[a] # Null

Refresh(t) ==
  /\ Running /\ call[t].pc = "idle" /\ seen[t] # phase
  /\ seen' = [seen EXCEPT ![t] = phase]
  /\ UNCHANGED <<plan, memory, phase, call, bounds, files, disk, recovery, history>>

WriteCprContext(t) ==
  /\ phase = "WAIT_FLUSH" /\ seen[t] = "WAIT_FLUSH" /\ Flushed /\ t \notin contexts
  /\ contexts' = contexts \cup {t}
  /\ UNCHANGED <<plan, memory, threads, bounds, index_file, link_file, index_info, log_info,
                 disk, recovery, history>>

\* CheckpointFuzzyIndex issues the writes of the table and of the overflow
\* buckets when INDEX_CHKPT begins; an entry is read at some moment of the
\* phase.
WriteEntry(e) ==
  /\ phase = "INDEX_CHKPT" /\ e \notin DOMAIN index_file
  /\ index_file' = [x \in DOMAIN index_file \cup {e} |->
                      IF x = e THEN entry[e] ELSE index_file[x]]
  /\ UNCHANGED <<plan, memory, threads, bounds, link_file, index_info, log_info, contexts,
                 disk, recovery, history>>

WriteTable(e) == e \notin Overflow /\ WriteEntry(e)
WriteOverflowBuckets(e) == e \in Overflow /\ WriteEntry(e)

\* The link to the overflow bucket is a word of the table's bucket.
WriteLink ==
  /\ phase = "INDEX_CHKPT" /\ link_file = "none"
  /\ link_file' = IF linked THEN "linked" ELSE "unlinked"
  /\ UNCHANGED <<plan, memory, threads, bounds, index_file, index_info, log_info, contexts,
                 disk, recovery, history>>

TableWritten == Entry \ Overflow \subseteq DOMAIN index_file /\ link_file # "none"
OverflowBucketsWritten == Overflow \subseteq DOMAIN index_file
CheckpointFuzzyIndexComplete == TableWritten /\ OverflowBucketsWritten

\* The first thread that finds the writes complete ends INDEX_CHKPT.
IndexIsWritten == CheckpointFuzzyIndexComplete /\ \E t \in Thread : seen[t] = "INDEX_CHKPT"

\* Slip: the index is written while operations that began before the
\* checkpoint are still at work.
AcknowledgedAtOnce(p) ==
  /\ phase = p
  /\ IF p = "INDEX_CHKPT" THEN IndexIsWritten
     ELSE p = "PREP_INDEX_CHKPT" \/ \A t \in Thread : seen[t] = p
  /\ p = "WAIT_FLUSH" => contexts = Thread

\* Slip: the host is notified when the log is flushed, contexts or not.
AcknowledgedWithoutContexts(p) ==
  /\ phase = p
  /\ IF p = "INDEX_CHKPT" THEN IndexIsWritten ELSE \A t \in Thread : seen[t] = p
  /\ p = "WAIT_FLUSH" => Flushed

\* Every other phase ends when all threads have acknowledged it; in WAIT_FLUSH
\* they do so after writing their contexts.
Acknowledged(p) ==
  /\ phase = p
  /\ IF p = "INDEX_CHKPT" THEN IndexIsWritten ELSE \A t \in Thread : seen[t] = p
  /\ p = "WAIT_FLUSH" => contexts = Thread

\* The metadata files are written on the way to PREPARE and to WAIT_FLUSH, the
\* second with the tail of that moment.
WriteIndexMetadata(next) == index_info' = (index_info \/ next = "PREPARE")
WriteCprMetadata(next) ==
  /\ log_info' = (log_info \/ next = "WAIT_FLUSH")
  /\ final' = IF next = "WAIT_FLUSH" THEN Len(log) + 1 ELSE final

GlobalMoveToNextState ==
  \E i \in 2 .. Len(Phases) - 1 :
    /\ Acknowledged(Phases[i])
    /\ phase' = Phases[i + 1]
    /\ WriteIndexMetadata(Phases[i + 1])
    /\ WriteCprMetadata(Phases[i + 1])
    /\ UNCHANGED <<plan, memory, seen, call, start, index_file, link_file, contexts, disk,
                   recovery, history>>

\* A page below final_address is flushed, in any order, once every thread has
\* seen the new read-only address.
FlushPage(p) ==
  /\ phase = "WAIT_FLUSH" /\ \A t \in Thread : seen[t] = "WAIT_FLUSH"
  /\ FirstOf(p) < final /\ disk[FirstOf(p)] = Null
  /\ disk' = [a \in DOMAIN disk |-> IF Page(a) = p THEN InLog(log, a) ELSE disk[a]]
  /\ UNCHANGED <<plan, memory, threads, bounds, files, recovery, history>>

(***************************************************************************)
(* A crash, and Recover.                                                   *)
(***************************************************************************)
Crash ==
  /\ plan.crashes > 0
  /\ phase \notin {"REST", "crashed"}
  /\ plan' = [plan EXCEPT !.crashes = @ - 1]
  /\ phase' = "crashed"
  /\ log' = <<>> /\ entry' = [e \in Entry |-> kInvalidEntry] /\ linked' = FALSE
  /\ call' = [t \in Thread |-> Idle] /\ seen' = [t \in Thread |-> "REST"]
  /\ page_status' = [p \in Pages |-> "NotStarted"]
  /\ mem' = [s \in 0 .. Capacity - 1 |-> [page |-> -1, recs |-> <<>>]]
  /\ replayed' = 0
  /\ result' = IF result = "none" /\ phase = "PERSISTENCE_CALLBACK" THEN "notified" ELSE result
  /\ UNCHANGED <<bounds, files, disk, history>>

EndPage == IF final = 1 THEN 0 ELSE Page(final - 1) + 1
ToRecover == IF start > final - 1 THEN {} ELSE Page(start) .. EndPage - 1

\* The index as it was written: an entry of an overflow bucket counts only if
\* the chain reaches the bucket.
ReadTable(e) == index_file[e]
ReadOverflowBuckets(e) == IF link_file = "linked" THEN index_file[e] ELSE kInvalidEntry
RecoverFuzzyIndex(e) == IF e \in Overflow THEN ReadOverflowBuckets(e) ELSE ReadTable(e)

\* Tentative entries are cleared.
RecoveredEntry(e) ==
  IF RecoverFuzzyIndex(e).tentative THEN kInvalidEntry ELSE RecoverFuzzyIndex(e)

ReadIndexMetadata == index_info
ReadCprMetadata == log_info
ReadCprContexts == contexts = Thread

\* The first pages RecoverHybridLog reads: as many as fit.
ReadFirst == {p \in ToRecover : p < Page(start) + Capacity}

\* Both info files, and as many contexts as there were threads.
Recover ==
  /\ phase = "crashed"
  /\ IF ReadIndexMetadata /\ ReadCprMetadata /\ ReadCprContexts
     THEN /\ phase' = "recovering"
          /\ entry' = [e \in Entry |-> RecoveredEntry(e)]
          /\ linked' = (link_file = "linked")
          /\ replayed' = Page(start)
          /\ page_status' = [p \in Pages |->
               IF p \in ReadFirst THEN "IssuedRead" ELSE "NotStarted"]
          /\ UNCHANGED result
     ELSE /\ phase' = "refused"
          /\ result' = IF result = "notified" THEN "lost" ELSE result
          /\ UNCHANGED <<entry, linked, replayed, page_status>>
  /\ UNCHANGED <<plan, log, seen, call, bounds, files, disk, mem, history>>

Slot(p) == p % Capacity
SetStatus(p, s) == page_status' = [page_status EXCEPT ![p] = s]

\* The read of AsyncReadPages ends.
ReadDone(p) ==
  /\ phase = "recovering" /\ page_status[p] = "IssuedRead"
  /\ mem' = [mem EXCEPT ![Slot(p)] = [page |-> p, recs |-> PageOf(disk, p)]]
  /\ SetStatus(p, "ReadDone")
  /\ UNCHANGED <<plan, memory, threads, bounds, files, disk, replayed, result, history>>

\* What RecoverFromPage does with one record: the record and its entry.
ReplayRecord(r, a, e) ==
  IF r = Null \/ r.invalid THEN <<r, e>>
  ELSE IF r.version <= 1 THEN <<r, EntryAt(a)>>
  ELSE <<[r EXCEPT !.invalid = TRUE],
         IF r.previous < start THEN EntryAt(r.previous)
         ELSE IF e.used THEN e ELSE EntryAt(kInvalidAddress)>>

\* The places of page p with records from start to final.
InCheckpoint(p) ==
  {i \in 1 .. PageSize : p * PageSize + i >= start /\ p * PageSize + i < final}

\* RecoverFromPage goes through them in order: the entry and the records after it.
EntryAfter(p, recs, e) ==
  LET mine == {i \in InCheckpoint(p) : recs[i] # Null /\ plan.hash[recs[i].key] = e}
      after[i \in 0 .. PageSize] ==
        IF i = 0 THEN entry[e]
        ELSE IF i \in mine THEN ReplayRecord(recs[i], p * PageSize + i, after[i - 1])[2]
        ELSE after[i - 1]
  IN  after[PageSize]

RecordsAfter(p, recs) ==
  [i \in 1 .. PageSize |->
     IF i \in InCheckpoint(p) THEN ReplayRecord(recs[i], 0, kInvalidEntry)[1] ELSE recs[i]]

RecoverFromPage(p) ==
  /\ entry' = [e \in Entry |-> EntryAfter(p, mem[Slot(p)].recs, e)]
  /\ mem' = [mem EXCEPT ![Slot(p)].recs = RecordsAfter(p, @)]

\* RecoverHybridLog takes the pages in order; a page that is done is flushed.
Replay(p) ==
  /\ phase = "recovering" /\ replayed = p /\ page_status[p] = "ReadDone"
  /\ RecoverFromPage(p)
  /\ replayed' = p + 1
  /\ SetStatus(p, "IssuedFlush")
  /\ UNCHANGED <<plan, log, linked, threads, bounds, files, disk, result, history>>

\* Slip: the flush has no callback.
FlushDoneReadsNothing(p) ==
  /\ phase = "recovering" /\ page_status[p] = "IssuedFlush"
  /\ disk' = [a \in DOMAIN disk |->
       IF Page(a) = p THEN mem[Slot(p)].recs[a - p * PageSize] ELSE disk[a]]
  /\ SetStatus(p, "FlushDone")
  /\ UNCHANGED <<plan, memory, threads, bounds, files, mem, replayed, result, history>>

\* The flush ends; its callback reads the next page into the slot.
FlushDone(p) ==
  /\ phase = "recovering" /\ page_status[p] = "IssuedFlush"
  /\ disk' = [a \in DOMAIN disk |->
       IF Page(a) = p THEN mem[Slot(p)].recs[a - p * PageSize] ELSE disk[a]]
  /\ page_status' = [q \in Pages |->
       IF q = p THEN "FlushDone"
       ELSE IF q = p + Capacity /\ q \in ToRecover THEN "IssuedRead" ELSE page_status[q]]
  /\ UNCHANGED <<plan, memory, threads, bounds, files, mem, replayed, result, history>>

\* RestoreHybridLog: the log goes on after final_address.
RestoreHybridLog ==
  /\ phase = "recovering" /\ \A p \in ToRecover : page_status[p] = "FlushDone"
  /\ log' = [a \in 1 .. final - 1 |-> disk[a]]
  /\ phase' = "recovered"
  /\ UNCHANGED <<plan, entry, linked, seen, call, bounds, files, disk, recovery, history>>

RecoverStep ==
  \/ Recover \/ RestoreHybridLog
  \/ \E p \in Pages : ReadDone(p) \/ Replay(p) \/ FlushDone(p)

Operate(t) ==
  \/ \E k \in Key : Find(t, k) \/ Delete(t, k)
  \/ Confirm(t) \/ Append_(t) \/ Swap(t)

Next ==
  \/ \E t \in Thread : Operate(t) \/ Refresh(t) \/ WriteCprContext(t)
  \/ Checkpoint \/ WriteLink \/ GlobalMoveToNextState
  \/ \E e \in Entry : WriteTable(e) \/ WriteOverflowBuckets(e)
  \/ \E p \in Pages : FlushPage(p)
  \/ Crash \/ RecoverStep

\* Recover waits for its reads and writes, which the device ends.
Spec == Init /\ [][Next]_vars /\ WF_vars(RecoverStep)

(***************************************************************************)
(* Properties.                                                             *)
(***************************************************************************)
\* Files, pages and calls have their form, and the window holds whole pages.
TypeOK ==
  /\ start \in 0 .. MaxLog + 1 /\ final \in 0 .. MaxLog + 1
  /\ \A e \in Entry : entry[e].address \in 0 .. MaxLog
  /\ DOMAIN index_file \subseteq Entry /\ contexts \subseteq Thread
  /\ \A p \in Pages : page_status[p] \in
       {"NotStarted", "IssuedRead", "ReadDone", "IssuedFlush", "FlushDone"}
  /\ \A s \in DOMAIN mem : Len(mem[s].recs) \in {0, PageSize}

\* The record a lookup finds: from the entry along the previous addresses to
\* the first record of the key.
Lookup(k) ==
  LET found[a \in 0 .. Len(log)] ==
        IF a = 0 THEN 0
        ELSE IF log[a].key = k THEN a ELSE found[log[a].previous]
  IN  found[entry[plan.hash[k]].address]

\* After a recovery every key has the last record the checkpointed version
\* gave it: no update of that version is lost, none of the next is left in the
\* index, and those in the log are marked on disk, so that a later recovery does
\* not take them for its own.  A key that was deleted may come back, but only
\* with a record of that version.
RecoveredIsCut ==
  phase = "recovered" =>
    /\ \A k \in Key :
         \/ Lookup(k) = truth[k]
         \/ k \in deleted /\ log[Lookup(k)].version = 1
    /\ \A a \in start .. final - 1 : disk[a].version > 1 => disk[a].invalid

\* A checkpoint the host was told of is not refused.
NotifiedRecovers == result # "lost"

\* The inductive invariant behind NotifiedRecovers: each phase's files are on
\* disk once the phase has begun.
CheckpointComplete == index_info /\ log_info /\ contexts = Thread

NotifiedInv ==
  /\ contexts \subseteq Thread
  /\ phase \in {"PREPARE", "IN_PROGRESS", "WAIT_PENDING", "WAIT_FLUSH",
               "PERSISTENCE_CALLBACK"} => index_info
  /\ phase \in {"WAIT_FLUSH", "PERSISTENCE_CALLBACK"} => log_info
  /\ phase = "PERSISTENCE_CALLBACK" => contexts = Thread
  /\ result \in {"none", "notified"}
  /\ result = "notified" =>
       CheckpointComplete /\ phase \in {"crashed", "recovering", "recovered", "refused"}

\* A recovery ends, unless the process dies again.
RecoveryEnds == phase = "recovering" ~> phase \in {"recovered", "crashed"}
=============================================================================
