----------------------------- MODULE HybridLog -----------------------------
(***************************************************************************)
(* The hybrid log of FASTER (io/persistent_memory_malloc.h): threads        *)
(* reserve room at the tail and fill it, the read-only and head addresses   *)
(* follow the tail, pages below the first are flushed and pages below the   *)
(* second are closed once every thread has refreshed, and the slots of the  *)
(* circular buffer are cleared and reused.  A crash loses the memory; the   *)
(* log is restored up to the last checkpoint's final address.               *)
(*                                                                          *)
(* An address is page * PageSize + offset.  A record is its address and the *)
(* incarnation of the process that wrote it.  The epoch (LightEpoch) is     *)
(* abstracted to the set of threads an action still waits for.  A flush     *)
(* reads the page at some moment between its submission and its completion, *)
(* as asynchronous direct I/O does.                                         *)
(***************************************************************************)
EXTENDS Naturals, Sequences, FiniteSets, FiniteSetsExt, SequencesExt

CONSTANTS
  Thread,
  BufferSize,      \* buffer_size_, in pages
  kNumHeadPages,
  MutablePages,    \* num_mutable_pages_
  PageSize,        \* kPageSize, in the units of an offset
  RecordSize,
  kCacheLineBytes, \* what the constructor reserves at address 0
  MaxPage,         \* bound: the last page of any behaviour
  Environments     \* what one behaviour may meet: which threads have a session,
                   \* where the log starts (0: a new log), whether writes end in order, whether the host
                   \* waits for a checkpoint, how many checkpoints and
                   \* crashes, whether threads read, and the last page filled

\* What the constructor checks.
ASSUME SizesAssumption ==
  /\ BufferSize \in Nat /\ kNumHeadPages \in Nat /\ MutablePages \in Nat /\ PageSize \in Nat
  /\ BufferSize > kNumHeadPages + 1
  /\ MutablePages > 1
  /\ RecordSize \in 1 .. PageSize /\ kCacheLineBytes \in 1 .. PageSize - 1

\* A log starts empty or at an address of its own.
ASSUME EnvironmentsAssumption ==
  Environments \subseteq
    [threads : SUBSET Thread, start : Nat, disk : {"ordered", "any"}, host : {"waits", "runs"},
     checkpoints : Nat, crashes : Nat, reads : BOOLEAN, last : 0 .. MaxPage]

VARIABLES
  env,
  tail,                    \* tail_page_offset_
  read_only_address, safe_read_only_address,
  head_address, safe_head_address, flushed_until_address,
  pages,                   \* pages_: the records in each slot, or NoPage
  page_status, last_flushed,
  actions, running,        \* waiting for the epoch; being run
  writes, disk,            \* submitted to the device; what it holds
  call,                    \* where each thread is
  final_address,           \* of the checkpoint that is not flushed, or 0
  durable,                 \* final_address of the last checkpoint that is, or 0
  incarnation,
  kept                     \* history: the records the threads have filled in

addresses == <<read_only_address, safe_read_only_address, head_address,
               safe_head_address, flushed_until_address>>
buffer == <<pages, page_status, last_flushed>>
io == <<writes, disk>>
checkpoint == <<final_address, durable>>
vars == <<env, tail, addresses, buffer, actions, running, io, call, checkpoint,
          incarnation, kept>>

NoPage == {<<0, 0>>}
Page(a) == a \div PageSize
Offset(a) == a % PageSize
Start(p) == p * PageSize
Slot(p) == p % BufferSize
Slots == 0 .. BufferSize - 1
PageStatus(f, c) == [flush |-> f, close |-> c]
Ready(s) == s = PageStatus("Flushed", "Open")
kMaxOffset == PageSize - 1

\* GetTailAddress: a full page's offset is cut.
GetTailAddress == Start(tail.page) + Min({kMaxOffset, tail.offset})

\* MonotonicUpdate ignores a value that is not larger.
MonotonicUpdate(old, new) == IF old < new THEN new ELSE old

\* Pages from start_page to the one until lies in: those a flush writes.
EndPage(until) == IF Offset(until) > 0 THEN Page(until) + 1 ELSE Page(until)

\* Slip: the action waits for nobody.
BumpedAtOnce(acts, kind, a) == acts \cup {[kind |-> kind, until |-> a, waits |-> {}]}

\* BumpCurrentEpoch with an action; every thread with a session is protected.
Bumped(acts, kind, a) == acts \cup {[kind |-> kind, until |-> a, waits |-> env.threads]}
Refreshed(t) == {[x EXCEPT !.waits = @ \ {t}] : x \in actions}

\* Who is inside a drained action does nothing else, and one is entered from a
\* refresh or from a bump of the epoch.
Free(t) == \A x \in running : x.by # t
AtHost(t) == t \in env.threads /\ call[t].pc = "idle" /\ Free(t)
MayDrain(t) == t \in env.threads /\ Free(t) /\ call[t].pc \notin {"check", "fill", "read", "shift_ro"}

Idle == [pc |-> "idle", page |-> 0, at |-> 0, won |-> FALSE]

(***************************************************************************)
(* A log of which the first T units are in memory or on disk.              *)
(***************************************************************************)
\* The pages RestoreHybridLog reads.
RestoredPages(T) ==
  LET end == EndPage(T)
      lag == BufferSize - kNumHeadPages
  IN  (IF end < lag THEN 0 ELSE end - lag) .. end - 1

\* The slots after RestoreHybridLog and RecoveryReset.
RestoredSlots(T, d) ==
  [s \in Slots |->
     IF \E p \in RestoredPages(T) : Slot(p) = s
     THEN d[CHOOSE p \in RestoredPages(T) : Slot(p) = s]
     ELSE IF s \in {Slot(EndPage(T)), Slot(EndPage(T) + 1), 0, 1} THEN {} ELSE NoPage]

RestoredLastFlushed(T) ==
  [s \in Slots |->
     IF \E p \in RestoredPages(T) : Slot(p) = s
     THEN Start((CHOOSE p \in RestoredPages(T) : Slot(p) = s) + 1) ELSE 0]

RestoredHead(T) ==
  LET first == Min(RestoredPages(T) \cup {EndPage(T)})
  IN  IF first = 0 THEN kCacheLineBytes ELSE Start(first)

\* Two constructors; a log that starts at T > 0 was restored before.
Init ==
  /\ env \in Environments
  /\ LET T == env.start
         old == {<<a, 0>> : a \in {x \in 0 .. T - 1 : x >= kCacheLineBytes /\ x % RecordSize = 0}}
         d == [p \in 0 .. MaxPage + 1 |-> {r \in old : Page(r[1]) = p}]
         at == IF T = 0 THEN kCacheLineBytes ELSE T
     IN  /\ tail = [page |-> Page(at), offset |-> Offset(at)]
         /\ read_only_address = at /\ safe_read_only_address = at
         /\ head_address = IF T = 0 THEN at ELSE RestoredHead(T)
         /\ safe_head_address = head_address
         /\ flushed_until_address = IF T = 0 THEN 0 ELSE Start(Page(T))
         /\ pages = IF T = 0 THEN [s \in Slots |-> IF s \in {0, 1} THEN {} ELSE NoPage]
                             ELSE RestoredSlots(T, d)
         /\ page_status = [s \in Slots |->
              PageStatus("Flushed", IF T = 0 /\ s > 1 THEN "Closed" ELSE "Open")]
         /\ last_flushed = IF T = 0 THEN [s \in Slots |-> 0] ELSE RestoredLastFlushed(T)
         /\ disk = d /\ kept = old
         /\ durable = T
  /\ actions = {} /\ running = {} /\ writes = <<>>
  /\ call = [t \in Thread |-> Idle]
  /\ final_address = 0 /\ incarnation = 0

(***************************************************************************)
(* A thread: Refresh, BlockAllocate, filling the record in, reading one.   *)
(***************************************************************************)
Refresh(t) ==
  /\ AtHost(t) /\ \E x \in actions : t \in x.waits
  /\ actions' = Refreshed(t)
  /\ UNCHANGED <<env, tail, addresses, buffer, running, io, call, checkpoint, incarnation, kept>>

\* A host that waits starts nothing while a checkpoint is being flushed.
MayStart == env.host = "waits" => final_address = 0

\* The tail's Reserve and NewPage; the offset of a reservation can lie past the
\* end of the page.
Reserve == [tail EXCEPT !.offset = @ + RecordSize]
Turn(old) == IF tail.page = old THEN [page |-> old + 1, offset |-> 0] ELSE tail

\* Allocate: fetch_add on the tail; past the end of the page, the page is closed.
Allocate(t) ==
  /\ AtHost(t) /\ MayStart
  /\ tail.page < env.last \/ tail.offset + RecordSize <= PageSize
  /\ tail' = Reserve
  /\ IF tail.offset + RecordSize > PageSize
     THEN /\ call' = [call EXCEPT ![t] = [Idle EXCEPT !.pc = "closed", !.page = tail.page]]
          /\ actions' = Refreshed(t)
     ELSE /\ call' = [call EXCEPT ![t] =
                        [Idle EXCEPT !.pc = "check", !.at = Start(tail.page) + tail.offset]]
          /\ UNCHANGED actions
  /\ UNCHANGED <<env, addresses, buffer, running, io, checkpoint, incarnation, kept>>

\* BlockAllocate drops an address that has become read-only, and starts again.
CheckReadOnly(t) ==
  /\ call[t].pc = "check"
  /\ IF call[t].at < read_only_address
     THEN actions' = Refreshed(t) /\ call' = [call EXCEPT ![t] = Idle]
     ELSE UNCHANGED actions /\ call' = [call EXCEPT ![t].pc = "fill"]
  /\ UNCHANGED <<env, tail, addresses, buffer, running, io, checkpoint, incarnation, kept>>

\* The operation fills the record in, and goes back to the host.
Fill(t) ==
  /\ call[t].pc = "fill"
  /\ LET a == call[t].at
         s == Slot(Page(a))
         new == <<a, incarnation>>
     IN  /\ pages' = [pages EXCEPT ![s] = {r \in @ : r[1] # a} \cup {new}]
         /\ kept' = kept \cup {new}
  /\ call' = [call EXCEPT ![t] = Idle]
  /\ UNCHANGED <<env, tail, addresses, page_status, last_flushed, actions, running, io,
                 checkpoint, incarnation>>

\* A reader takes an address at or above head_address, and reads it later.  The
\* lowest one stands for all: its page is the next to be closed.
BeginRead(t) ==
  /\ AtHost(t) /\ env.reads
  /\ LET inMemory == {r[1] : r \in kept} \ (0 .. head_address - 1)
     IN  /\ inMemory # {}
         /\ call' = [call EXCEPT ![t] = [Idle EXCEPT !.pc = "read", !.at = Min(inMemory)]]
  /\ UNCHANGED <<env, tail, addresses, buffer, actions, running, io, checkpoint, incarnation, kept>>

EndRead(t) ==
  /\ call[t].pc = "read"
  /\ call' = [call EXCEPT ![t] = Idle]
  /\ UNCHANGED <<env, tail, addresses, buffer, actions, running, io, checkpoint, incarnation, kept>>

(***************************************************************************)
(* NewPage: the thread that moves the tail also moves the two addresses    *)
(* and allocates the page after the next.                                  *)
(***************************************************************************)
\* When the tail advances to page k + 1, page k + 2 is cleared.
Full(old) == old + 2 >= Page(safe_head_address) + BufferSize

NewPage(t) ==
  /\ call[t].pc = "closed"
  /\ LET old == call[t].page
         wait == Full(old) \/ ~Ready(page_status[Slot(old + 1)])
         wins == ~wait /\ tail.page = old
     IN  /\ tail' = IF wait THEN tail ELSE Turn(old)
         /\ IF wait \/ wins
            THEN call' = [call EXCEPT ![t].pc = "shift_ro", ![t].won = wins] /\ UNCHANGED actions
            ELSE call' = [call EXCEPT ![t] = Idle] /\ actions' = Refreshed(t)
  /\ UNCHANGED <<env, addresses, buffer, running, io, checkpoint, incarnation, kept>>

PageAlignedShiftReadOnlyAddress(t) ==
  /\ call[t].pc = "shift_ro"
  /\ call' = [call EXCEPT ![t].pc = "shift_head"]
  /\ LET tail_page == call[t].page + 1
         desired == Start(tail_page - MutablePages)
     IN  IF tail_page > MutablePages /\ read_only_address < desired
         THEN /\ read_only_address' = desired
              /\ actions' = Bumped(actions, "read_only", desired)
         ELSE UNCHANGED <<read_only_address, actions>>
  /\ UNCHANGED <<env, tail, safe_read_only_address, head_address, safe_head_address,
                 flushed_until_address, buffer, running, io, checkpoint, incarnation, kept>>

\* Slip: does not wait for the flush.
DesiredHeadUnflushed(tail_page) == Start(tail_page - (BufferSize - kNumHeadPages))

DesiredHead(tail_page) ==
  LET lagging == Start(tail_page - (BufferSize - kNumHeadPages))
  IN  IF flushed_until_address < lagging THEN Start(Page(flushed_until_address)) ELSE lagging

\* The thread that won the tail returns false all the same, and calls again.
PageAlignedShiftHeadAddress(t) ==
  /\ call[t].pc = "shift_head"
  /\ call' = [call EXCEPT ![t].pc = IF call[t].won THEN "grow" ELSE "refresh"]
  /\ LET tail_page == call[t].page + 1
         desired == DesiredHead(tail_page)
     IN  IF tail_page > BufferSize - kNumHeadPages /\ head_address < desired
         THEN /\ head_address' = desired
              /\ actions' = Bumped(actions, "closed", desired)
         ELSE UNCHANGED <<head_address, actions>>
  /\ UNCHANGED <<env, tail, read_only_address, safe_read_only_address, safe_head_address,
                 flushed_until_address, buffer, running, io, checkpoint, incarnation, kept>>

\* AllocatePage, by the thread that won.
AllocatePage(t) ==
  /\ call[t].pc = "grow"
  /\ LET s == Slot(call[t].page + 2)
     IN  IF pages[s] = NoPage
         THEN /\ pages' = [pages EXCEPT ![s] = {}]
              /\ page_status' = [page_status EXCEPT ![s] = PageStatus("Flushed", "Open")]
         ELSE UNCHANGED <<pages, page_status>>
  /\ call' = [call EXCEPT ![t].pc = "refresh"]
  /\ UNCHANGED <<env, tail, addresses, last_flushed, actions, running, io, checkpoint,
                 incarnation, kept>>

\* Slip: does not refresh.
RetryWithoutRefresh(t) ==
  /\ call[t].pc = "refresh"
  /\ call' = [call EXCEPT ![t].pc = "closed", ![t].won = FALSE]
  /\ UNCHANGED <<env, tail, addresses, buffer, actions, running, io, checkpoint, incarnation, kept>>

\* BlockAllocate refreshes between two calls of NewPage.
RefreshAndRetry(t) ==
  /\ call[t].pc = "refresh"
  /\ actions' = Refreshed(t)
  /\ call' = [call EXCEPT ![t].pc = "closed", ![t].won = FALSE]
  /\ UNCHANGED <<env, tail, addresses, buffer, running, io, checkpoint, incarnation, kept>>

(***************************************************************************)
(* The actions the epoch drains, run by the thread that drains them.       *)
(***************************************************************************)
\* OnPagesMarkedReadOnly and OnPagesClosed first move the safe address; if they
\* do, the pages between the old one and the new one are theirs.
OnPagesMarkedReadOnly(t, x) ==
  /\ x.kind = "read_only"
  /\ safe_read_only_address' = MonotonicUpdate(safe_read_only_address, x.until)
  /\ running' = IF safe_read_only_address < x.until
                THEN running \cup {[kind |-> "flush", by |-> t, until |-> x.until,
                                    page |-> Page(safe_read_only_address)]}
                ELSE running
  /\ UNCHANGED safe_head_address

OnPagesClosed(t, x) ==
  /\ x.kind = "closed"
  /\ safe_head_address' = MonotonicUpdate(safe_head_address, x.until)
  /\ running' = IF Page(safe_head_address) < Page(x.until)
                THEN running \cup {[kind |-> "close", by |-> t, until |-> x.until,
                                    page |-> Page(safe_head_address)]}
                ELSE running
  /\ UNCHANGED safe_read_only_address

Drain(t) ==
  /\ MayDrain(t)
  /\ \E x \in actions :
       /\ x.waits = {}
       /\ actions' = actions \ {x}
       /\ OnPagesMarkedReadOnly(t, x) \/ OnPagesClosed(t, x)
  /\ UNCHANGED <<env, tail, read_only_address, head_address, flushed_until_address, buffer, io,
                 call, checkpoint, incarnation, kept>>

\* The next page of a running action, if there is one.
Stepped(x, end) ==
  running' = (running \ {x}) \cup
             (IF x.page + 1 < end THEN {[x EXCEPT !.page = @ + 1]} ELSE {})

\* AsyncFlushPages, one page.
AsyncFlushPages ==
  \E x \in running :
    /\ x.kind = "flush"
    /\ LET s == Slot(x.page)
       IN  /\ page_status' = [page_status EXCEPT ![s].flush = "InProgress"]
           /\ last_flushed' = [last_flushed EXCEPT ![s] = 0]
           /\ writes' = Append(writes, [page |-> x.page, done |-> FALSE,
                                        until |-> Min({Start(x.page + 1), x.until})])
    /\ Stepped(x, EndPage(x.until))
    /\ UNCHANGED <<env, tail, addresses, pages, actions, disk, call, checkpoint, incarnation, kept>>

\* Whoever comes second, the flush or the close, clears the page and opens it.
Cleared(s, status) ==
  IF status = PageStatus("Flushed", "Closed")
  THEN /\ pages' = [pages EXCEPT ![s] = {}]
       /\ page_status' = [page_status EXCEPT ![s] = PageStatus("Flushed", "Open")]
  ELSE /\ page_status' = [page_status EXCEPT ![s] = status]
       /\ UNCHANGED pages

\* The loop of OnPagesClosed, one page.
ClosePages ==
  \E x \in running :
    /\ x.kind = "close"
    /\ LET s == Slot(x.page) IN Cleared(s, [page_status[s] EXCEPT !.close = "Closed"])
    /\ Stepped(x, Page(x.until))
    /\ UNCHANGED <<env, tail, addresses, last_flushed, actions, io, call, checkpoint,
                   incarnation, kept>>

(***************************************************************************)
(* The device: it writes the page, then the callback runs.                 *)
(***************************************************************************)
MayEnd(i) == env.disk = "ordered" => i = 1

WritePage ==
  \E i \in DOMAIN writes :
    /\ ~writes[i].done /\ MayEnd(i)
    /\ disk' = [disk EXCEPT ![writes[i].page] = pages[Slot(writes[i].page)]]
    /\ writes' = [writes EXCEPT ![i].done = TRUE]
    /\ UNCHANGED <<env, tail, addresses, buffer, actions, running, call, checkpoint,
                   incarnation, kept>>

\* Slip: does not look at the pages before.
ShiftToLastFlushed(last) == MonotonicUpdate(flushed_until_address, Max({last[s] : s \in Slots}))

\* ShiftFlushedUntilAddress: page by page, as long as what each page has
\* flushed is not below what was reached.
ShiftFlushedUntilAddress(last) ==
  LET first == Page(flushed_until_address)
      reached(p) == IF p = first THEN flushed_until_address ELSE last[Slot(p - 1)]
      stop == Min({p \in first .. first + BufferSize : last[Slot(p)] < reached(p)})
  IN  MonotonicUpdate(flushed_until_address, reached(stop))

OnFlushed ==
  \E i \in DOMAIN writes :
    /\ writes[i].done /\ MayEnd(i)
    /\ LET w == writes[i]
           s == Slot(w.page)
       IN  /\ last_flushed' = [last_flushed EXCEPT ![s] = w.until]
           /\ Cleared(s, [page_status[s] EXCEPT !.flush = "Flushed"])
           /\ flushed_until_address' = ShiftFlushedUntilAddress(last_flushed')
    /\ writes' = RemoveAt(writes, i)
    /\ UNCHANGED <<env, tail, read_only_address, safe_read_only_address, head_address,
                   safe_head_address, actions, running, disk, call, checkpoint, incarnation, kept>>

(***************************************************************************)
(* A fold-over checkpoint, and a crash after one.                          *)
(***************************************************************************)
ShiftReadOnlyToTail ==
  /\ env.checkpoints > 0 /\ final_address = 0
  /\ \E t \in Thread : AtHost(t)
  /\ env' = [env EXCEPT !.checkpoints = @ - 1]
  /\ final_address' = GetTailAddress
  /\ IF read_only_address < GetTailAddress
     THEN /\ read_only_address' = GetTailAddress
          /\ actions' = Bumped(actions, "read_only", GetTailAddress)
     ELSE UNCHANGED <<read_only_address, actions>>
  /\ UNCHANGED <<tail, safe_read_only_address, head_address, safe_head_address,
                 flushed_until_address, buffer, running, io, call, durable, incarnation, kept>>

\* WAIT_FLUSH ends: the metadata is written.
CheckpointFlushed ==
  /\ final_address # 0 /\ flushed_until_address >= final_address
  /\ durable' = final_address /\ final_address' = 0
  /\ UNCHANGED <<env, tail, addresses, buffer, actions, running, io, call, incarnation, kept>>

\* The process dies and RestoreHybridLog brings the log back up to durable.
CrashAndRestore ==
  /\ env.crashes > 0 /\ durable > 0
  /\ env' = [env EXCEPT !.crashes = @ - 1]
  /\ LET T == durable
     IN  /\ tail' = [page |-> Page(T), offset |-> Offset(T)]
         /\ read_only_address' = T /\ safe_read_only_address' = T
         /\ head_address' = RestoredHead(T) /\ safe_head_address' = head_address'
         /\ flushed_until_address' = Start(Page(T))
         /\ pages' = RestoredSlots(T, disk)
         /\ last_flushed' = RestoredLastFlushed(T)
         /\ kept' = {r \in kept : r[1] < T}
  /\ page_status' = [s \in Slots |-> PageStatus("Flushed", "Open")]
  /\ actions' = {} /\ running' = {} /\ writes' = <<>>
  /\ call' = [t \in Thread |-> Idle]
  /\ final_address' = 0 /\ incarnation' = incarnation + 1
  /\ UNCHANGED <<disk, durable>>

\* A thread inside an operation, somebody inside an action of the epoch, and
\* the device.
Continue(t) ==
  /\ Free(t)
  /\ \/ CheckReadOnly(t) \/ Fill(t) \/ EndRead(t)
     \/ NewPage(t) \/ PageAlignedShiftReadOnlyAddress(t) \/ PageAlignedShiftHeadAddress(t)
     \/ AllocatePage(t) \/ RefreshAndRetry(t)
RunActions == (\E t \in Thread : Drain(t)) \/ AsyncFlushPages \/ ClosePages
Device == WritePage \/ OnFlushed

Next ==
  \/ \E t \in Thread : Refresh(t) \/ Allocate(t) \/ BeginRead(t) \/ Continue(t)
  \/ RunActions \/ Device
  \/ ShiftReadOnlyToTail \/ CheckpointFlushed \/ CrashAndRestore

\* A thread goes on with what it has begun and refreshes now and then, what
\* it can drain again and again is drained, and the device ends its writes.
Fairness ==
  /\ \A t \in Thread : WF_vars(Continue(t)) /\ SF_vars(Refresh(t))
  /\ SF_vars(RunActions) /\ WF_vars(Device)

Spec == Init /\ [][Next]_vars /\ Fairness

(***************************************************************************)
(* Properties.                                                             *)
(***************************************************************************)
Addresses == 0 .. Start(MaxPage + 3)

\* Every address is one, every slot and call has its form, and a write ends in
\* its page.
TypeOK ==
  /\ \A a \in {read_only_address, safe_read_only_address, head_address, safe_head_address,
               flushed_until_address, final_address, durable} : a \in Addresses
  /\ tail.page \in 0 .. MaxPage /\ tail.offset \in Nat
  /\ page_status \in [Slots -> [flush : {"Flushed", "InProgress"}, close : {"Closed", "Open"}]]
  /\ last_flushed \in [Slots -> Addresses]
  /\ \A s \in Slots : pages[s] = NoPage \/ pages[s] \subseteq Addresses \X Nat
  /\ \A i \in DOMAIN writes :
       /\ writes[i].page \in 0 .. MaxPage
       /\ writes[i].until \in Start(writes[i].page) + 1 .. Start(writes[i].page + 1)
  /\ \A x \in actions : x.waits \subseteq Thread
  /\ \A x \in running : x.kind \in {"flush", "close"}
  /\ \A t \in Thread : call[t].pc \in
       {"idle", "check", "fill", "read", "closed", "shift_ro", "shift_head", "grow", "refresh"}

\* Every record below the final address of a checkpoint that was reported
\* flushed is on disk, whatever was written afterwards.
DurableStays == \A r \in kept : r[1] < durable => r \in disk[Page(r[1])]

\* Every record is where an operation that has its address looks for it: below
\* head_address on disk ("must read those pages from disk"), otherwise in its
\* slot of the buffer; and what a checkpoint reported flushed stays on disk,
\* where a recovery looks for it.
RecordsStay ==
  /\ \A r \in kept :
       r \in IF r[1] < head_address THEN disk[Page(r[1])] ELSE pages[Slot(Page(r[1]))]
  /\ DurableStays

\* The page a thread writes to or reads from stays in its slot until the
\* thread is done with it: nobody clears or reuses it.
PagesInUseStay ==
  \A t \in Thread :
    /\ call[t].pc \in {"check", "fill"} =>
         LET s == Slot(Page(call[t].at))
         IN  pages[s] # NoPage /\ \A r \in pages[s] : Page(r[1]) = Page(call[t].at)
    /\ call[t].pc = "read" =>
         \E r \in pages[Slot(Page(call[t].at))] : r[1] = call[t].at

\* What a thread does between two refreshes is protected by the epoch: no write
\* that was submitted covers a record that is still being filled in, and no page
\* that is being closed holds a record that is still being read.
EpochGuards ==
  \A t \in Thread :
    /\ call[t].pc = "fill" => \A i \in DOMAIN writes : writes[i].until <= call[t].at
    /\ call[t].pc = "read" => safe_head_address <= call[t].at

\* A thread that waits for a new page gets to allocate again.
PagesTurn == \A t \in Thread : call[t].pc = "closed" ~> call[t].pc = "idle"
=============================================================================
