------------------------- MODULE LogRecoveryProofs -------------------------
(***************************************************************************)
(* Proofs that a checkpoint the host was told of is never refused by       *)
(* Recover, and that what a recovery brings back is a cut of the history,  *)
(* for every set of threads, keys and entries, every page size and plan.   *)
(***************************************************************************)
EXTENDS LogRecovery, CountingProofs

\* The values of Phases, one by one.
LEMMA PhaseNumbers ==
  /\ Len(Phases) = 8
  /\ DOMAIN Phases = 1 .. 8
  /\ Phases[1] = "REST" /\ Phases[2] = "PREP_INDEX_CHKPT" /\ Phases[3] = "INDEX_CHKPT"
  /\ Phases[4] = "PREPARE" /\ Phases[5] = "IN_PROGRESS" /\ Phases[6] = "WAIT_PENDING"
  /\ Phases[7] = "WAIT_FLUSH" /\ Phases[8] = "PERSISTENCE_CALLBACK"
BY DEF Phases

\* No phase of a running store is one of a store that is down or recovering.
LEMMA RunningPhases ==
  Running <=> phase \in {"REST", "PREP_INDEX_CHKPT", "INDEX_CHKPT", "PREPARE", "IN_PROGRESS",
                         "WAIT_PENDING", "WAIT_FLUSH", "PERSISTENCE_CALLBACK"}
BY PhaseNumbers DEF Running

\* A step that keeps the phase, the metadata and the result, and adds at most
\* one thread's context, keeps the invariant.
LEMMA FilesOnlyGrow ==
  ASSUME NotifiedInv,
         UNCHANGED <<phase, index_info, log_info, result>>,
         contexts \subseteq contexts', contexts' \subseteq Thread
  PROVE  NotifiedInv'
BY DEF NotifiedInv, CheckpointComplete

LEMMA NotifiedInit == Init => NotifiedInv
BY DEF Init, NotifiedInv

LEMMA NotifiedNext == NotifiedInv /\ [Next]_vars => NotifiedInv'
<1> SUFFICES ASSUME NotifiedInv, [Next]_vars PROVE NotifiedInv'
  OBVIOUS
<1>0. contexts \subseteq Thread
  BY DEF NotifiedInv
<1>1. ASSUME NEW t \in Thread, Operate(t) PROVE NotifiedInv'
  <2>1. ASSUME NEW k \in Key, Find(t, k) \/ Delete(t, k) PROVE NotifiedInv'
    BY <2>1, <1>0, FilesOnlyGrow DEF Find, Delete, threads, files, recovery
  <2>2. CASE Confirm(t) \/ Append_(t) \/ Swap(t)
    BY <2>2, <1>0, FilesOnlyGrow DEF Confirm, Append_, Swap, files, recovery
  <2> QED
    BY <1>1, <2>1, <2>2 DEF Operate
<1>2. ASSUME NEW t \in Thread, Refresh(t) PROVE NotifiedInv'
  BY <1>2, <1>0, FilesOnlyGrow DEF Refresh, files, recovery
<1>3. ASSUME NEW t \in Thread, WriteCprContext(t) PROVE NotifiedInv'
  BY <1>3, <1>0, FilesOnlyGrow DEF WriteCprContext, threads, recovery
<1>4. CASE Checkpoint
  <2>1. /\ phase = "REST" /\ phase' = "PREP_INDEX_CHKPT"
        /\ UNCHANGED <<index_info, log_info, contexts, result>>
    BY <1>4 DEF Checkpoint, files, recovery
  <2> QED
    BY <2>1, PhaseNumbers DEF NotifiedInv, CheckpointComplete
<1>5. CASE WriteLink
  BY <1>5, <1>0, FilesOnlyGrow DEF WriteLink, threads, recovery
<1>6. CASE GlobalMoveToNextState
  <2>1. PICK i \in 2 .. 7 : /\ Acknowledged(Phases[i]) /\ phase' = Phases[i + 1]
                            /\ WriteIndexMetadata(Phases[i + 1])
                            /\ WriteCprMetadata(Phases[i + 1])
                            /\ UNCHANGED <<contexts, result>>
    BY <1>6, PhaseNumbers DEF GlobalMoveToNextState, recovery
  <2>2. /\ phase = Phases[i]
        /\ index_info' = (index_info \/ Phases[i + 1] = "PREPARE")
        /\ log_info' = (log_info \/ Phases[i + 1] = "WAIT_FLUSH")
        /\ phase = "WAIT_FLUSH" => contexts = Thread
    BY <2>1 DEF Acknowledged, WriteIndexMetadata, WriteCprMetadata
  <2>3. result # "notified"
    BY <2>2, PhaseNumbers DEF NotifiedInv
  <2>4. /\ contexts' \subseteq Thread /\ result' \in {"none", "notified"} /\ result' # "notified"
    BY <1>0, <2>1, <2>3 DEF NotifiedInv
  <2>5. CASE i = 2
    <3>1. phase = "PREP_INDEX_CHKPT" /\ phase' = "INDEX_CHKPT"
      BY <2>5, <2>1, <2>2, PhaseNumbers
    <3>2. /\ index_info' = (index_info \/ phase' = "PREPARE")
          /\ log_info' = (log_info \/ phase' = "WAIT_FLUSH")
      BY <2>1, <2>2
    <3> QED
      BY <3>1, <3>2, <2>1, <2>2, <2>4 DEF NotifiedInv
  <2>6. CASE i = 3
    <3>1. phase = "INDEX_CHKPT" /\ phase' = "PREPARE"
      BY <2>6, <2>1, <2>2, PhaseNumbers
    <3>2. /\ index_info' = (index_info \/ phase' = "PREPARE")
          /\ log_info' = (log_info \/ phase' = "WAIT_FLUSH")
      BY <2>1, <2>2
    <3> QED
      BY <3>1, <3>2, <2>1, <2>2, <2>4 DEF NotifiedInv
  <2>7. CASE i = 4
    <3>1. phase = "PREPARE" /\ phase' = "IN_PROGRESS"
      BY <2>7, <2>1, <2>2, PhaseNumbers
    <3>2. /\ index_info' = (index_info \/ phase' = "PREPARE")
          /\ log_info' = (log_info \/ phase' = "WAIT_FLUSH")
      BY <2>1, <2>2
    <3> QED
      BY <3>1, <3>2, <2>1, <2>2, <2>4 DEF NotifiedInv
  <2>8. CASE i = 5
    <3>1. phase = "IN_PROGRESS" /\ phase' = "WAIT_PENDING"
      BY <2>8, <2>1, <2>2, PhaseNumbers
    <3>2. /\ index_info' = (index_info \/ phase' = "PREPARE")
          /\ log_info' = (log_info \/ phase' = "WAIT_FLUSH")
      BY <2>1, <2>2
    <3> QED
      BY <3>1, <3>2, <2>1, <2>2, <2>4 DEF NotifiedInv
  <2>9. CASE i = 6
    <3>1. phase = "WAIT_PENDING" /\ phase' = "WAIT_FLUSH"
      BY <2>9, <2>1, <2>2, PhaseNumbers
    <3>2. /\ index_info' = (index_info \/ phase' = "PREPARE")
          /\ log_info' = (log_info \/ phase' = "WAIT_FLUSH")
      BY <2>1, <2>2
    <3> QED
      BY <3>1, <3>2, <2>1, <2>2, <2>4 DEF NotifiedInv
  <2>10. CASE i = 7
    <3>1. phase = "WAIT_FLUSH" /\ phase' = "PERSISTENCE_CALLBACK"
      BY <2>10, <2>1, <2>2, PhaseNumbers
    <3>2. /\ index_info' = (index_info \/ phase' = "PREPARE")
          /\ log_info' = (log_info \/ phase' = "WAIT_FLUSH")
      BY <2>1, <2>2
    <3> QED
      BY <3>1, <3>2, <2>1, <2>2, <2>4 DEF NotifiedInv
  <2> QED
    BY <2>5, <2>6, <2>7, <2>8, <2>9, <2>10
<1>7. ASSUME NEW e \in Entry, WriteTable(e) \/ WriteOverflowBuckets(e) PROVE NotifiedInv'
  BY <1>7, <1>0, FilesOnlyGrow DEF WriteTable, WriteOverflowBuckets, WriteEntry, threads, recovery
<1>8. ASSUME NEW p \in Pages, FlushPage(p) PROVE NotifiedInv'
  BY <1>8, <1>0, FilesOnlyGrow DEF FlushPage, threads, files, recovery
<1>9. CASE Crash
  <2>1. /\ phase' = "crashed"
        /\ result' = IF result = "none" /\ phase = "PERSISTENCE_CALLBACK"
                     THEN "notified" ELSE result
        /\ UNCHANGED <<index_info, log_info, contexts>>
    BY <1>9 DEF Crash, files
  <2> QED
    BY <2>1 DEF NotifiedInv, CheckpointComplete
<1>10. CASE RecoverStep
  <2>1. CASE Recover
    <3>1. UNCHANGED <<index_info, log_info, contexts>> /\ phase' \in {"recovering", "refused"}
      BY <2>1 DEF Recover, files
    <3>2. result' = result \/ (~CheckpointComplete /\ result' = IF result = "notified" THEN "lost" ELSE result)
      BY <2>1 DEF Recover, ReadIndexMetadata, ReadCprMetadata, ReadCprContexts, CheckpointComplete
    <3>3. result' = result
      BY <3>2 DEF NotifiedInv
    <3> QED
      BY <3>1, <3>3 DEF NotifiedInv, CheckpointComplete
  <2>2. CASE RestoreHybridLog
    <3>1. UNCHANGED <<index_info, log_info, contexts, result>> /\ phase' = "recovered"
      BY <2>2 DEF RestoreHybridLog, files, recovery
    <3> QED
      BY <3>1 DEF NotifiedInv, CheckpointComplete
  <2>3. ASSUME NEW p \in Pages, ReadDone(p) \/ Replay(p) \/ FlushDone(p) PROVE NotifiedInv'
    BY <2>3, <1>0, FilesOnlyGrow DEF ReadDone, Replay, FlushDone, threads, files
  <2> QED
    BY <1>10, <2>1, <2>2, <2>3 DEF RecoverStep
<1>11. CASE UNCHANGED vars
  BY <1>11, <1>0, FilesOnlyGrow DEF vars, threads, files, recovery
<1> QED
  BY <1>1, <1>2, <1>3, <1>4, <1>5, <1>6, <1>7, <1>8, <1>9, <1>10, <1>11 DEF Next

\* NotifiedInv holds in every reachable state: the files a phase relies on are
\* on disk when the store is in it, and stay there through crashes and
\* recoveries (WriteIndexMetadata, WriteCprMetadata, WriteCprContext).
THEOREM NotifiedInductive == Spec => []NotifiedInv
BY NotifiedInit, NotifiedNext, PTL DEF Spec

\* Recover does not refuse a checkpoint whose persistence callback was issued:
\* both metadata files and the contexts of all threads were written before the
\* move to PERSISTENCE_CALLBACK, whatever crashes follow, also during Recover.
THEOREM NotifiedCheckpointRecovers == Spec => []NotifiedRecovers
<1>1. NotifiedInv => NotifiedRecovers
  BY DEF NotifiedInv, NotifiedRecovers
<1> QED
  BY <1>1, NotifiedInductive, PTL

-----------------------------------------------------------------------------
\* The record at m is the last of S; 0 if S is empty.
IsTop(S, m) == m \in S \cup {0} /\ \A x \in S : x <= m

PhaseSet == {"REST", "PREP_INDEX_CHKPT", "INDEX_CHKPT", "PREPARE", "IN_PROGRESS",
             "WAIT_PENDING", "WAIT_FLUSH", "PERSISTENCE_CALLBACK"}
Down == {"crashed", "recovering", "recovered", "refused"}
Early == {"REST", "PREP_INDEX_CHKPT", "INDEX_CHKPT", "PREPARE"}
BeforeIndex == {"REST", "PREP_INDEX_CHKPT"}
AfterLog == {"WAIT_FLUSH", "PERSISTENCE_CALLBACK"}

\* The phases a thread can be in while the system is in phase p.
Beside(p) ==
  CASE p = "REST" -> {"REST"}
    [] p = "PREP_INDEX_CHKPT" -> {"REST", "PREP_INDEX_CHKPT"}
    [] p = "INDEX_CHKPT" -> {"PREP_INDEX_CHKPT", "INDEX_CHKPT"}
    [] p = "PREPARE" -> {"PREP_INDEX_CHKPT", "INDEX_CHKPT", "PREPARE"}
    [] p = "IN_PROGRESS" -> {"PREPARE", "IN_PROGRESS"}
    [] p = "WAIT_PENDING" -> {"IN_PROGRESS", "WAIT_PENDING"}
    [] p = "WAIT_FLUSH" -> {"WAIT_PENDING", "WAIT_FLUSH"}
    [] OTHER -> {"WAIT_FLUSH", "PERSISTENCE_CALLBACK"}

LogRec == [key : Key, version : {1, 2}, previous : Nat, invalid : BOOLEAN]
EntryRec == [address : Nat, used : BOOLEAN, tentative : BOOLEAN]
CallRec == [pc : {"idle", "confirm", "append", "swap"}, key : Key \cup {"none"},
            entry : EntryRec, at : Nat]

\* The records in the chain of an entry are those that are valid and not still
\* to be swapped in; the checkpoint's are those of the first version.
Pending(a) == \E t \in Thread : call[t].pc = "swap" /\ call[t].at = a
Kept(e) == {a \in DOMAIN log : ~log[a].invalid /\ plan.hash[log[a].key] = e /\ ~Pending(a)}
Cut(e) == {a \in Kept(e) : log[a].version = 1}

PlanInv ==
  /\ plan \in PlanRec /\ plan.hash \in [Key -> Entry] /\ ~plan.deletes
  /\ start \in Nat /\ final \in Nat
  /\ DOMAIN disk = 1 .. MaxLog + PageSize
  /\ DOMAIN mem = 0 .. Capacity - 1
  /\ \A s \in DOMAIN mem : mem[s] = [page |-> mem[s].page, recs |-> mem[s].recs]

LogInv ==
  /\ log \in Seq(LogRec) /\ Len(log) <= MaxLog
  /\ \A a \in DOMAIN log : log[a].previous < a

EntryInv ==
  /\ entry \in [Entry -> EntryRec] /\ linked \in BOOLEAN
  /\ \A e \in Entry :
       /\ IsTop(Kept(e), entry[e].address)
       /\ entry[e].address # 0 => entry[e].used /\ ~entry[e].tentative
       /\ entry[e].used /\ e \in Overflow => linked

ChainInv ==
  \A e \in Entry : \A a \in Kept(e) :
    /\ IsTop({b \in Kept(e) : b < a}, log[a].previous)
    /\ \A b \in Kept(e) : b < a => log[b].version <= log[a].version

TruthInv ==
  /\ truth \in [Key -> Nat]
  /\ \A k \in Key : IsTop({a \in Cut(plan.hash[k]) : log[a].key = k}, truth[k])

\* An entry a thread has made is its own until it is confirmed.
Confirming(t, c) ==
  /\ entry[plan.hash[c.key]] = Tentative
  /\ \A u \in Thread \ {t} :
       call[u].pc = "confirm" => plan.hash[call[u].key] # plan.hash[c.key]

\* A record that is still to be swapped in leads to the entry the swap expects.
Appended(t, c) ==
  /\ c.at \in DOMAIN log /\ ~log[c.at].invalid
  /\ log[c.at].key = c.key /\ log[c.at].previous = c.entry.address
  /\ log[c.at].version = Version(t)
  /\ c.entry.address > 0 => log[c.entry.address].version <= Version(t)
  /\ \A u \in Thread \ {t} : call[u].pc = "swap" => call[u].at # c.at

CallOK(t, c) ==
  /\ c.pc # "idle" => c.key \in Key
  /\ c.pc = "confirm" => Confirming(t, c)
  /\ c.pc \in {"append", "swap"} => c.entry = EntryAt(c.entry.address)
                                    /\ c.entry.address <= Len(log)
  /\ c.pc = "swap" => Appended(t, c)

CallInv ==
  /\ call \in [Thread -> CallRec]
  /\ \A t \in Thread : CallOK(t, call[t])

PhaseInv == seen \in [Thread -> PhaseSet] /\ \A t \in Thread : seen[t] \in Beside(phase)

VersionInv ==
  /\ phase \in Early => \A a \in DOMAIN log : log[a].version = 1
  /\ phase # "REST" => /\ start \in 1 .. Len(log) + 1
                       /\ \A a \in DOMAIN log : a < start => log[a].version = 1
  /\ phase \in AfterLog => /\ final \in start .. Len(log) + 1
                           /\ \A a \in DOMAIN log : log[a].version = 1 => a < final

PendingInv ==
  \A t \in Thread :
    /\ phase # "REST" /\ call[t].pc = "swap" /\ call[t].at < start => seen[t] = "REST"
    /\ phase \in AfterLog /\ call[t].pc = "swap" /\ call[t].at < final
       => seen[t] = "WAIT_PENDING"

\* The flush begins when nothing below final is pending.
DiskInv ==
  /\ phase \notin AfterLog => contexts = {} /\ \A a \in DOMAIN disk : disk[a] = Null
  /\ phase \in AfterLog =>
       /\ \A a \in 1 .. final - 1 : disk[a] # Null =>
            disk[a] = log[a] /\ \A t \in Thread : seen[t] # "WAIT_PENDING"
       /\ contexts # {} => Flushed

\* What the index file says of an entry: a record of the chain of its time.
Indexed(C, x) == x \in C \cup {0} /\ \A b \in C : b < start => b <= x

IndexInv ==
  /\ DOMAIN index_file \subseteq Entry
  /\ phase \in BeforeIndex => DOMAIN index_file = {} /\ link_file = "none"
  /\ phase \notin BeforeIndex \cup {"INDEX_CHKPT"} => DOMAIN index_file = Entry /\ link_file # "none"
  /\ \A e \in DOMAIN index_file :
       /\ index_file[e] \in EntryRec /\ Indexed(Cut(e), index_file[e].address)
       /\ index_file[e].address # 0 => index_file[e].used /\ ~index_file[e].tentative
  /\ link_file \in {"none", "linked", "unlinked"}
  /\ link_file = "unlinked" => \A e \in Overflow : Indexed(Cut(e), 0)

RunInv ==
  /\ LogInv /\ EntryInv /\ ChainInv /\ TruthInv /\ CallInv
  /\ PhaseInv /\ VersionInv /\ PendingInv /\ DiskInv /\ IndexInv

\* What is on disk once the checkpoint is complete.
SavedCut(e) ==
  {a \in 1 .. final - 1 : disk[a].version = 1 /\ ~disk[a].invalid /\ plan.hash[disk[a].key] = e}

SavedLog ==
  /\ 1 <= start /\ start <= final /\ final <= MaxLog + 1
  /\ \A a \in 1 .. final - 1 : disk[a] \in LogRec /\ disk[a].previous < a
SavedChain ==
  /\ \A e \in Entry : \A a \in SavedCut(e) : IsTop({b \in SavedCut(e) : b < a}, disk[a].previous)
  /\ \A a \in 1 .. final - 1 :
       ~disk[a].invalid /\ disk[a].version = 2 /\ disk[a].previous < start
       => IsTop(SavedCut(plan.hash[disk[a].key]), disk[a].previous)
SavedTruth ==
  \A k \in Key : IsTop({a \in SavedCut(plan.hash[k]) : disk[a].key = k}, truth[k])
SavedIndex ==
  /\ DOMAIN index_file = Entry
  /\ \A e \in Entry :
       /\ RecoveredEntry(e) \in EntryRec /\ Indexed(SavedCut(e), RecoveredEntry(e).address)
       /\ RecoveredEntry(e).address # 0 => RecoveredEntry(e).used
SavedInv == SavedLog /\ SavedChain /\ SavedTruth /\ SavedIndex

\* The replay.
Begun(p) == page_status[p] # "NotStarted"
EndOf(p) == p * PageSize
WindowInv ==
  /\ \A p \in Pages : page_status[p] \in
       {"NotStarted", "IssuedRead", "ReadDone", "IssuedFlush", "FlushDone"}
  /\ DOMAIN page_status = Pages
  /\ \A p \in Pages \ ToRecover : page_status[p] = "NotStarted"
  /\ \A p, q \in Pages : p < q /\ Slot(p) = Slot(q) /\ Begun(q) /\ p \in ToRecover
                         => page_status[p] = "FlushDone"
  /\ \A p \in Pages :
       /\ page_status[p] = "ReadDone" => mem[Slot(p)].recs = PageOf(disk, p)
       /\ page_status[p] = "IssuedFlush" => mem[Slot(p)].recs = RecordsAfter(p, PageOf(disk, p))

Marked(p) == \A a \in start .. final - 1 : Page(a) = p /\ disk[a].version > 1 => disk[a].invalid

ReplayInv ==
  /\ replayed \in Nat /\ Page(start) <= replayed
  /\ ToRecover # {} => replayed <= EndPage
  /\ \A p \in ToRecover :
       /\ p < replayed => page_status[p] \in {"IssuedFlush", "FlushDone"}
       /\ p >= replayed => page_status[p] \in {"NotStarted", "IssuedRead", "ReadDone"}
  /\ \A p \in Pages : page_status[p] = "FlushDone" => Marked(p)

\* The entry once the records below address n have been replayed.
Replayed(e, n, x) ==
  LET seen_by == {a \in SavedCut(e) : start <= a /\ a <= n}
  IN  IF seen_by = {} THEN x = RecoveredEntry(e).address ELSE IsTop(seen_by, x)

EntryDone(e, n, x) ==
  x \in EntryRec /\ (x.address # 0 => x.used) /\ Replayed(e, n, x.address)

EntriesInv ==
  /\ entry \in [Entry -> EntryRec]
  /\ \A e \in Entry : EntryDone(e, EndOf(replayed), entry[e])

RecoveredInv ==
  /\ log = [a \in 1 .. final - 1 |-> disk[a]]
  /\ \A a \in start .. final - 1 : disk[a].version > 1 => disk[a].invalid
  /\ \A e \in Entry : IsTop(SavedCut(e), entry[e].address)

RecoveryInv ==
  /\ PlanInv
  /\ phase \in PhaseSet \cup Down
  /\ phase \in PhaseSet => RunInv
  /\ phase \in Down /\ CheckpointComplete => SavedInv
  /\ phase \in {"recovering", "recovered"} => CheckpointComplete
  /\ phase = "recovering" => WindowInv /\ ReplayInv /\ EntriesInv
  /\ phase = "recovered" => RecoveredInv

-----------------------------------------------------------------------------
(***************************************************************************)
(* While the store runs: the operations.                                   *)
(***************************************************************************)
LEMMA RunningIs == Running <=> phase \in PhaseSet
BY RunningPhases DEF PhaseSet

LEMMA VersionIs ==
  ASSUME NEW t, seen[t] \in PhaseSet
  PROVE  Version(t) = IF seen[t] \in Early THEN 1 ELSE 2
<1>1. /\ Number("REST") = 1 /\ Number("PREP_INDEX_CHKPT") = 2 /\ Number("INDEX_CHKPT") = 3
      /\ Number("PREPARE") = 4 /\ Number("IN_PROGRESS") = 5
  BY PhaseNumbers DEF Number
<1>2. /\ Number("WAIT_PENDING") = 6 /\ Number("WAIT_FLUSH") = 7
      /\ Number("PERSISTENCE_CALLBACK") = 8
  BY PhaseNumbers DEF Number
<1> QED
  BY <1>1, <1>2 DEF Version, PhaseSet, Early

LEMMA LogFacts ==
  ASSUME LogInv
  PROVE  /\ Len(log) \in Nat /\ DOMAIN log = 1 .. Len(log) /\ Len(log) <= MaxLog
         /\ \A a \in DOMAIN log :
              /\ log[a] \in LogRec /\ log[a].previous \in Nat /\ log[a].previous < a
              /\ log[a].version \in {1, 2} /\ log[a].key \in Key /\ log[a].invalid \in BOOLEAN
              /\ a \in Nat /\ a > 0
<1>1. Len(log) \in Nat /\ DOMAIN log = 1 .. Len(log) /\ Len(log) <= MaxLog
  BY DEF LogInv
<1>2. \A a \in DOMAIN log : log[a] \in LogRec
  BY DEF LogInv
<1>3. ASSUME NEW r \in LogRec
      PROVE  r.previous \in Nat /\ r.version \in {1, 2} /\ r.key \in Key /\ r.invalid \in BOOLEAN
  BY DEF LogRec
<1> QED
  BY <1>1, <1>2, <1>3 DEF LogInv

LEMMA CallFacts ==
  ASSUME PlanInv, CallInv, NEW t \in Thread
  PROVE  /\ call[t] \in CallRec /\ call[t].entry \in EntryRec /\ call[t].at \in Nat
         /\ call[t].pc # "idle" => plan.hash[call[t].key] \in Entry
         /\ CallOK(t, call[t])
BY DEF CallInv, PlanInv, CallRec, CallOK

LEMMA NextCall ==
  ASSUME CallInv, NEW t \in Thread, NEW c, Do(t, c)
  PROVE  call'[t] = c /\ \A u \in Thread \ {t} : call'[u] = call[u]
BY DEF CallInv, Do

\* What an operation leaves alone.
OpFrame ==
  /\ UNCHANGED <<seen, phase, start, final, files, disk, mem>>
  /\ plan'.hash = plan.hash /\ plan'.deletes = plan.deletes

\* The log grows by records of the threads' versions, and only a record that is
\* still to be swapped in becomes invalid.
LogGrows ==
  /\ log' \in Seq(LogRec) /\ Len(log') <= MaxLog /\ DOMAIN log \subseteq DOMAIN log'
  /\ \A a \in DOMAIN log :
       \/ log'[a] = log[a]
       \/ Pending(a) /\ log'[a] = [log[a] EXCEPT !.invalid = TRUE]
  /\ \A a \in DOMAIN log' \ DOMAIN log :
       log'[a].previous < a /\ a > Len(log) /\ \E t \in Thread : log'[a].version = Version(t)

LEMMA LogGrowsFacts ==
  ASSUME PlanInv, RunInv, OpFrame, LogGrows
  PROVE  /\ LogInv' /\ PhaseInv' /\ VersionInv'
         /\ \A a \in DOMAIN log : log'[a].version = log[a].version /\ log'[a].key = log[a].key
                                  /\ log'[a].previous = log[a].previous
<1>0. LogInv /\ PhaseInv /\ VersionInv
  BY DEF RunInv
<1>1. \A a \in DOMAIN log : log'[a].version = log[a].version /\ log'[a].key = log[a].key
                            /\ log'[a].previous = log[a].previous
  <2>1. SUFFICES ASSUME NEW a \in DOMAIN log
                 PROVE  log'[a].version = log[a].version /\ log'[a].key = log[a].key
                        /\ log'[a].previous = log[a].previous
    OBVIOUS
  <2>2. log[a] \in LogRec
    BY <1>0, LogFacts
  <2> QED
    BY <2>2 DEF LogGrows, LogRec
<1>2. LogInv'
  BY <1>0, <1>1 DEF LogInv, LogGrows
<1>3. PhaseInv'
  BY <1>0 DEF PhaseInv, OpFrame
<1>4. Len(log) \in Nat /\ Len(log') \in Nat /\ Len(log) <= Len(log') /\ DOMAIN log' = 1 .. Len(log')
      /\ DOMAIN log = 1 .. Len(log)
  BY <1>0, <1>2, LogFacts DEF LogGrows, LogInv
<1>5. \A a \in DOMAIN log' \ DOMAIN log : log'[a].version = 1 => \E t \in Thread : seen[t] \in Early
  <2>1. SUFFICES ASSUME NEW t \in Thread, Version(t) = 1 PROVE seen[t] \in Early
    BY DEF LogGrows
  <2>2. seen[t] \in PhaseSet
    BY <1>0 DEF PhaseInv
  <2> QED
    BY <2>1, <2>2, VersionIs
<1>6. \A a \in DOMAIN log' \ DOMAIN log : phase \in Early => log'[a].version = 1
  <2>1. SUFFICES ASSUME NEW t \in Thread, phase \in Early PROVE Version(t) = 1
    BY DEF LogGrows
  <2>2. seen[t] \in Early
    BY <1>0, <2>1 DEF PhaseInv, Beside, Early
  <2>3. seen[t] \in PhaseSet
    BY <2>2 DEF PhaseSet, Early
  <2> QED
    BY <2>2, <2>3, VersionIs
<1>7. phase \in AfterLog => \A t \in Thread : seen[t] \notin Early
  BY <1>0 DEF PhaseInv, Beside, Early, AfterLog
<1>8. VersionInv'
  <2>1. phase \in Early => \A a \in DOMAIN log' : log'[a].version = 1
    BY <1>0, <1>1, <1>6 DEF VersionInv
  <2>2. phase # "REST" => start \in 1 .. Len(log') + 1
                          /\ \A a \in DOMAIN log' : a < start => log'[a].version = 1
    <3>1. SUFFICES ASSUME phase # "REST"
                   PROVE  start \in 1 .. Len(log') + 1
                          /\ \A a \in DOMAIN log' : a < start => log'[a].version = 1
      OBVIOUS
    <3>2. start \in 1 .. Len(log) + 1
      BY <1>0, <3>1 DEF VersionInv
    <3>3. ASSUME NEW a \in DOMAIN log', a < start PROVE a \in DOMAIN log
      BY <1>4, <3>2, <3>3
    <3> QED
      BY <1>0, <1>1, <1>4, <3>1, <3>2, <3>3 DEF VersionInv
  <2>3. phase \in AfterLog => final \in start .. Len(log') + 1
                              /\ \A a \in DOMAIN log' : log'[a].version = 1 => a < final
    <3>1. SUFFICES ASSUME phase \in AfterLog
                   PROVE  final \in start .. Len(log') + 1
                          /\ \A a \in DOMAIN log' : log'[a].version = 1 => a < final
      OBVIOUS
    <3>2. final \in start .. Len(log) + 1 /\ start \in Nat
      <4>1. phase # "REST"
        BY <3>1 DEF AfterLog
      <4> QED
        BY <1>0, <3>1, <4>1 DEF VersionInv
    <3>3. ASSUME NEW a \in DOMAIN log', log'[a].version = 1 PROVE a \in DOMAIN log
      BY <1>5, <1>7, <3>1, <3>3
    <3> QED
      BY <1>0, <1>1, <1>4, <3>1, <3>2, <3>3 DEF VersionInv
  <2> QED
    BY <2>1, <2>2, <2>3 DEF VersionInv, OpFrame
<1> QED
  BY <1>1, <1>2, <1>3, <1>8

\* The chains stay as they are.
SameChains == \A e \in Entry : Kept(e)' = Kept(e)

LEMMA ChainsStay ==
  ASSUME PlanInv, RunInv, OpFrame, LogGrows, SameChains, truth' = truth
  PROVE  /\ ChainInv' /\ TruthInv' /\ IndexInv' /\ \A e \in Entry : Cut(e)' = Cut(e)
<1>0. LogInv /\ ChainInv /\ TruthInv /\ IndexInv
  BY DEF RunInv
<1>1. \A a \in DOMAIN log : log'[a].version = log[a].version /\ log'[a].key = log[a].key
                            /\ log'[a].previous = log[a].previous
  BY LogGrowsFacts
<1>2. \A e \in Entry : \A a \in Kept(e) : a \in DOMAIN log
  BY DEF Kept
<1>3. \A e \in Entry : Cut(e)' = Cut(e)
  BY <1>1, <1>2 DEF SameChains, Cut
<1>4. ChainInv'
  <2>1. SUFFICES ASSUME NEW e \in Entry, NEW a \in Kept(e)
                 PROVE  /\ IsTop({b \in Kept(e) : b < a}, log'[a].previous)
                        /\ \A b \in Kept(e) : b < a => log'[b].version <= log'[a].version
    BY DEF ChainInv, SameChains, IsTop
  <2> QED
    BY <1>0, <1>1, <1>2 DEF ChainInv
<1>5. TruthInv'
  <2>1. ASSUME NEW k \in Key
        PROVE  IsTop({a \in Cut(plan.hash[k]) : log[a].key = k}, truth[k])'
    <3>1. PICK e \in Entry : e = plan.hash[k] /\ e = plan'.hash[k]
      BY DEF OpFrame, PlanInv
    <3>2. Cut(e)' = Cut(e) /\ \A a \in Cut(e) : a \in DOMAIN log
      BY <1>2, <1>3 DEF Cut
    <3>3. {a \in Cut(e) : log'[a].key = k} = {a \in Cut(e) : log[a].key = k}
      BY <1>1, <3>2
    <3>4. IsTop({a \in Cut(e) : log[a].key = k}, truth[k])
      BY <1>0, <3>1 DEF TruthInv
    <3>5. Cut(plan.hash[k])' = Cut(e)
      <4>1. Cut(plan.hash[k])' = Cut(e)'
        BY <3>1 DEF Cut, Kept
      <4> QED
        BY <3>2, <4>1
    <3>6. PICK C : C = Cut(e) /\ C = Cut(plan.hash[k])'
      BY <3>5
    <3>7. {a \in C : log'[a].key = k} = {a \in C : log[a].key = k}
      BY <3>3, <3>6
    <3> QED
      BY <3>4, <3>6, <3>7 DEF IsTop
  <2> QED
    BY <1>0, <2>1 DEF TruthInv
<1>6. IndexInv'
  <2>1. \A e \in DOMAIN index_file : e \in Entry
    BY <1>0 DEF IndexInv
  <2>2. \A e \in Overflow : e \in Entry
    BY SizesAssumption
  <2>3. index_file' = index_file /\ link_file' = link_file /\ phase' = phase /\ start' = start
    BY DEF OpFrame, files
  <2>4. \A e \in Entry : \A x : Indexed(Cut(e), x)' <=> Indexed(Cut(e), x)
    BY <1>3, <2>3 DEF Indexed
  <2> QED
    BY <1>0, <2>1, <2>2, <2>3, <2>4 DEF IndexInv
<1> QED
  BY <1>3, <1>4, <1>5, <1>6

LEMMA DiskStays ==
  ASSUME PlanInv, RunInv, OpFrame, LogGrows
  PROVE  DiskInv'
<1>0. LogInv /\ DiskInv /\ PendingInv /\ VersionInv
  BY DEF RunInv
<1>1. phase' = phase /\ disk' = disk /\ final' = final /\ seen' = seen /\ contexts' = contexts
  BY DEF OpFrame, files
<1>2. SUFFICES ASSUME phase \in AfterLog, NEW a \in 1 .. final - 1, disk[a] # Null
               PROVE  log'[a] = disk[a]
  BY <1>0, <1>1 DEF DiskInv, Flushed
<1>3. disk[a] = log[a] /\ \A t \in Thread : seen[t] # "WAIT_PENDING"
  BY <1>0, <1>2 DEF DiskInv
<1>4. ~Pending(a)
  <2>1. SUFFICES ASSUME NEW t \in Thread, call[t].pc = "swap", call[t].at = a PROVE FALSE
    BY DEF Pending
  <2>2. a < final
    BY <1>2 DEF PlanInv
  <2> QED
    BY <1>0, <1>2, <1>3, <2>1, <2>2 DEF PendingInv
<1>5. a \in DOMAIN log
  <2>1. phase # "REST" /\ Len(log) \in Nat /\ DOMAIN log = 1 .. Len(log)
    BY <1>0, <1>2, LogFacts DEF AfterLog
  <2>2. final \in start .. Len(log) + 1 /\ start \in Nat
    BY <1>0, <1>2, <2>1 DEF VersionInv, PlanInv
  <2> QED
    BY <1>2, <2>1, <2>2
<1> QED
  BY <1>3, <1>4, <1>5 DEF LogGrows

\* The threads that do not move keep what they know.
LEMMA OthersOK ==
  ASSUME PlanInv, RunInv, OpFrame, LogGrows, NEW t \in Thread, NEW c \in CallRec, Do(t, c),
         CallOK(t, c)',
         \A u \in Thread \ {t} :
           /\ call[u].pc = "confirm" => entry'[plan.hash[call[u].key]] = Tentative
           /\ call[u].pc = "swap" => log'[call[u].at] = log[call[u].at]
  PROVE  CallInv'
<1>0. LogInv /\ CallInv /\ LogInv'
  BY LogGrowsFacts DEF RunInv
<1>1. call' \in [Thread -> CallRec]
  BY <1>0 DEF CallInv, Do
<1>2. call'[t] = c /\ \A u \in Thread \ {t} : call'[u] = call[u]
  BY <1>0, NextCall
<1>3. CallOK(t, call[t])'
  BY <1>2 DEF CallOK, Confirming, Appended, Version
<1>4. ASSUME NEW u \in Thread \ {t} PROVE CallOK(u, call[u])'
  <2>1. CallOK(u, call[u])
    BY <1>0 DEF CallInv
  <2>2. PICK d \in CallRec : d = call[u] /\ d = call'[u] /\ d.entry \in EntryRec
    BY <1>0, <1>2 DEF CallInv, CallRec
  <2>3. d.entry.address \in Nat /\ d.at \in Nat /\ Len(log) \in Nat /\ Len(log') \in Nat
        /\ Len(log) <= Len(log') /\ DOMAIN log = 1 .. Len(log) /\ DOMAIN log' = 1 .. Len(log')
    <3>1. d.entry.address \in Nat /\ d.at \in Nat
      BY <2>2 DEF CallRec, EntryRec
    <3>2. DOMAIN log \subseteq DOMAIN log' /\ Len(log) \in Nat /\ Len(log') \in Nat
          /\ DOMAIN log = 1 .. Len(log) /\ DOMAIN log' = 1 .. Len(log')
      BY <1>0, LogFacts DEF LogGrows, LogInv
    <3> QED
      BY <3>1, <3>2
  <2>4. d.pc = "confirm" => Confirming(u, d)'
    <3>1. SUFFICES ASSUME d.pc = "confirm" PROVE Confirming(u, d)'
      OBVIOUS
    <3>2. entry'[plan.hash[d.key]] = Tentative
      BY <2>2, <3>1
    <3>3. ASSUME NEW v \in Thread \ {u}, call'[v].pc = "confirm"
          PROVE  plan.hash[call'[v].key] # plan.hash[d.key]
      <4>1. CASE v = t
        BY <1>2, <2>2, <3>1, <3>3, <4>1 DEF CallOK, Confirming, OpFrame
      <4>2. CASE v # t
        BY <1>2, <2>1, <2>2, <3>1, <3>3, <4>2 DEF CallOK, Confirming
      <4> QED
        BY <4>1, <4>2
    <3> QED
      BY <3>2, <3>3 DEF Confirming, OpFrame
  <2>5. d.pc = "swap" => Appended(u, d)'
    <3>1. SUFFICES ASSUME d.pc = "swap" PROVE Appended(u, d)'
      OBVIOUS
    <3>2. Appended(u, d) /\ d.entry.address <= Len(log)
      BY <2>1, <2>2, <3>1 DEF CallOK
    <3>3. log'[d.at] = log[d.at] /\ d.at \in DOMAIN log'
      BY <2>2, <3>1, <3>2 DEF LogGrows, Appended
    <3>4. d.entry.address > 0 => log'[d.entry.address].version = log[d.entry.address].version
      <4>1. d.entry.address > 0 => d.entry.address \in DOMAIN log
        BY <2>3, <3>2
      <4> QED
        BY <4>1, LogGrowsFacts
    <3>5. ASSUME NEW v \in Thread \ {u}, call'[v].pc = "swap" PROVE call'[v].at # d.at
      <4>1. CASE v = t
        BY <1>2, <2>2, <3>1, <3>5, <4>1 DEF CallOK, Appended
      <4>2. CASE v # t
        BY <1>2, <3>2, <3>5, <4>2 DEF Appended
      <4> QED
        BY <4>1, <4>2
    <3>6. Version(u)' = Version(u)
      BY DEF Version, OpFrame
    <3> QED
      BY <3>2, <3>3, <3>4, <3>5, <3>6 DEF Appended
  <2>6. d.pc \in {"append", "swap"} => d.entry.address <= Len(log')
    BY <2>1, <2>2, <2>3 DEF CallOK
  <2> QED
    BY <2>1, <2>2, <2>4, <2>5, <2>6 DEF CallOK
<1> QED
  BY <1>1, <1>3, <1>4 DEF CallInv

\* What is left to show for an operation that changes no chain.
LEMMA OperationKeeps ==
  ASSUME PlanInv, RunInv, OpFrame, LogGrows, SameChains, truth' = truth, plan' \in PlanRec,
         EntryInv', CallInv', PendingInv'
  PROVE  PlanInv' /\ RunInv'
<1>1. PlanInv'
  BY DEF PlanInv, OpFrame, bounds
<1>2. LogInv' /\ PhaseInv' /\ VersionInv'
  BY LogGrowsFacts
<1>3. ChainInv' /\ TruthInv' /\ IndexInv'
  BY ChainsStay
<1>4. DiskInv'
  BY DiskStays
<1> QED
  BY <1>1, <1>2, <1>3, <1>4 DEF RunInv

LEMMA PendingSame ==
  ASSUME CallInv, NEW t \in Thread, NEW c, Do(t, c), call[t].pc # "swap", c.pc # "swap"
  PROVE  \A a : Pending(a)' <=> Pending(a)
BY NextCall DEF Pending

LEMMA LogSame ==
  ASSUME RunInv, log' = log
  PROVE  LogGrows
<1>1. log \in Seq(LogRec) /\ Len(log) <= MaxLog
  BY DEF RunInv, LogInv
<1> QED
  BY <1>1 DEF LogGrows

\* The entries of a step that touches one of them.
LEMMA EntriesKeep ==
  ASSUME EntryInv, SameChains, NEW e \in Entry, NEW x \in EntryRec,
         entry' = [entry EXCEPT ![e] = x], linked' \in BOOLEAN, linked => linked',
         x.address = entry[e].address,
         x.address # 0 => x.used /\ ~x.tentative,
         e \in Overflow /\ x.used => linked'
  PROVE  EntryInv'
<1>1. entry' \in [Entry -> EntryRec] /\ entry'[e] = x
      /\ \A f \in Entry \ {e} : entry'[f] = entry[f]
  BY DEF EntryInv
<1>2. ASSUME NEW f \in Entry
      PROVE  /\ IsTop(Kept(f)', entry'[f].address)
             /\ entry'[f].address # 0 => entry'[f].used /\ ~entry'[f].tentative
             /\ entry'[f].used /\ f \in Overflow => linked'
  <2>1. CASE f = e
    BY <1>1, <2>1 DEF EntryInv, SameChains
  <2>2. CASE f # e
    BY <1>1, <2>2 DEF EntryInv, SameChains
  <2> QED
    BY <2>1, <2>2
<1> QED
  BY <1>1, <1>2 DEF EntryInv, IsTop

LEMMA FindOK ==
  ASSUME PlanInv, RunInv, NEW t \in Thread, NEW k \in Key, Find(t, k)
  PROVE  PlanInv' /\ RunInv'
<1>0. EntryInv /\ CallInv /\ PendingInv /\ LogInv
  BY DEF RunInv
<1>1. PICK e \in Entry : e = plan.hash[k]
  BY DEF PlanInv
<1>2. OpFrame /\ truth' = truth /\ log' = log /\ call[t].pc = "idle" /\ plan' \in PlanRec
  <2>1. plan' = [plan EXCEPT !.ops = @ - 1] /\ plan.ops \in Nat /\ plan.ops > 0
    BY DEF Find, PlanInv, PlanRec
  <2>2. plan'.hash = plan.hash /\ plan'.deletes = plan.deletes /\ plan' \in PlanRec
    BY <2>1 DEF PlanInv, PlanRec
  <2> QED
    BY <2>2 DEF Find, OpFrame, bounds, recovery, history
<1>3. LogGrows
  BY <1>2, LogSame
<1>4. PICK c \in CallRec :
        /\ Do(t, c) /\ c.key = k
        /\ \/ /\ c.pc = "confirm" /\ ~entry[e].used
              /\ entry' = [entry EXCEPT ![e] = Tentative]
              /\ linked' = (linked \/ e \in Overflow)
           \/ /\ c.pc = "append" /\ entry[e].used /\ ~entry[e].tentative
              /\ c.entry = entry[e] /\ UNCHANGED <<entry, linked>>
  <2>1. entry[e] \in EntryRec /\ kInvalidEntry \in EntryRec
    BY <1>0 DEF EntryInv, kInvalidEntry, EntryRec
  <2>2. [Idle EXCEPT !.pc = "confirm", !.key = k] \in CallRec
        /\ [Idle EXCEPT !.pc = "append", !.key = k, !.entry = entry[e]] \in CallRec
    BY <2>1 DEF Idle, CallRec
  <2>3. CASE ~entry[e].used
    <3>1. PICK c : c = [Idle EXCEPT !.pc = "confirm", !.key = k]
      OBVIOUS
    <3>2. c \in CallRec /\ c.key = k /\ c.pc = "confirm" /\ Do(t, c)
      BY <1>1, <2>2, <2>3, <3>1 DEF Find, Idle
    <3>3. entry' = [entry EXCEPT ![e] = Tentative]
      BY <1>1, <2>3 DEF Find
    <3>4. linked' = (linked \/ e \in Overflow)
      BY <1>1, <2>3, Zenon DEF Find
    <3> QED
      BY <2>3, <3>2, <3>3, <3>4
  <2>4. CASE entry[e].used
    <3>1. PICK c : c = [Idle EXCEPT !.pc = "append", !.key = k, !.entry = entry[e]]
      OBVIOUS
    <3>2. c \in CallRec /\ c.key = k /\ c.pc = "append" /\ c.entry = entry[e]
          /\ Do(t, c) /\ ~entry[e].tentative /\ UNCHANGED <<entry, linked>>
      BY <1>1, <2>2, <2>4, <3>1 DEF Find, Idle
    <3> QED
      BY <2>4, <3>2
  <2>5. entry[e].used \in BOOLEAN
    BY <2>1 DEF EntryRec
  <2> QED
    BY <2>3, <2>4
<1>5. c.pc # "swap"
  BY <1>4
<1>6. SameChains
  <2>1. \A a : Pending(a)' <=> Pending(a)
    BY <1>0, <1>2, <1>4, <1>5, PendingSame
  <2> QED
    BY <1>2, <2>1 DEF SameChains, Kept, OpFrame
<1>7. EntryInv'
  <2>1. CASE c.pc = "confirm"
    <3>1. entry[e] \in EntryRec /\ entry[e].address = 0
      BY <1>0, <1>4, <2>1 DEF EntryInv
    <3>2. Tentative \in EntryRec /\ Tentative.address = 0 /\ Tentative.used
      BY DEF Tentative, EntryRec
    <3>3. linked' \in BOOLEAN /\ (linked => linked') /\ (e \in Overflow => linked')
      BY <1>0, <1>4, <2>1 DEF EntryInv
    <3> QED
      BY <1>0, <1>4, <1>6, <2>1, <3>1, <3>2, <3>3, EntriesKeep
  <2>2. CASE c.pc = "append"
    BY <1>0, <1>4, <1>6, <2>2 DEF EntryInv, SameChains, IsTop
  <2> QED
    BY <1>4, <2>1, <2>2
<1>8. CallInv'
  <2>1. ASSUME NEW u \in Thread \ {t}, call[u].pc = "confirm"
        PROVE  /\ entry'[plan.hash[call[u].key]] = Tentative
               /\ c.pc = "confirm" => plan.hash[call[u].key] # e
    <3>1. entry[plan.hash[call[u].key]] = Tentative /\ plan.hash[call[u].key] \in Entry
      BY <1>0, <2>1, CallFacts DEF CallOK, Confirming
    <3>2. c.pc = "confirm" => plan.hash[call[u].key] # e
      BY <1>4, <3>1 DEF Tentative
    <3> QED
      BY <1>0, <1>4, <3>1, <3>2 DEF EntryInv
  <2>2. CallOK(t, c)'
    <3>1. plan'.hash = plan.hash /\ c.key \in Key /\ plan.hash[c.key] = e
      BY <1>1, <1>2, <1>4 DEF OpFrame
    <3>2. CASE c.pc = "confirm"
      <4>1. entry'[e] = Tentative
        BY <1>0, <1>4, <3>2 DEF EntryInv
      <4>2. \A u \in Thread \ {t} : call'[u] = call[u]
        BY <1>0, <1>4, NextCall
      <4> QED
        BY <2>1, <3>1, <3>2, <4>1, <4>2 DEF CallOK, Confirming
    <3>3. CASE c.pc = "append"
      <4>1. entry[e] \in EntryRec /\ IsTop(Kept(e), entry[e].address)
        BY <1>0 DEF EntryInv
      <4>2. c.entry = EntryAt(c.entry.address)
        BY <1>4, <3>3, <4>1 DEF EntryAt, EntryRec
      <4>3. Len(log) \in Nat /\ DOMAIN log = 1 .. Len(log)
        BY <1>0, LogFacts
      <4>4. entry[e].address <= Len(log)
        BY <4>1, <4>3 DEF IsTop, Kept
      <4> QED
        BY <1>2, <1>4, <3>1, <3>3, <4>2, <4>4 DEF CallOK
    <3> QED
      BY <1>4, <3>2, <3>3
  <2> QED
    BY <1>2, <1>3, <1>4, <2>1, <2>2, OthersOK
<1>9. PendingInv'
  <2>1. call'[t] = c /\ \A u \in Thread \ {t} : call'[u] = call[u]
    BY <1>0, <1>4, NextCall
  <2> QED
    BY <1>0, <1>2, <1>5, <2>1 DEF PendingInv, OpFrame
<1> QED
  BY <1>2, <1>3, <1>6, <1>7, <1>8, <1>9, OperationKeeps

LEMMA ConfirmOK ==
  ASSUME PlanInv, RunInv, NEW t \in Thread, Confirm(t)
  PROVE  PlanInv' /\ RunInv'
<1>0. EntryInv /\ CallInv /\ PendingInv /\ LogInv
  BY DEF RunInv
<1>1. call[t].pc = "confirm" /\ call[t] \in CallRec /\ call[t].key \in Key
      /\ Confirming(t, call[t])
  BY <1>0, CallFacts DEF Confirm, CallOK
<1>2. PICK e \in Entry : e = plan.hash[call[t].key]
  BY <1>1 DEF PlanInv
<1>3. OpFrame /\ truth' = truth /\ log' = log /\ plan' \in PlanRec /\ linked' = linked
  BY DEF Confirm, OpFrame, bounds, recovery, history, PlanInv
<1>4. LogGrows
  BY <1>3, LogSame
<1>5. EntryAt(kInvalidAddress) \in EntryRec /\ EntryAt(kInvalidAddress).address = 0
      /\ EntryAt(kInvalidAddress).used /\ ~EntryAt(kInvalidAddress).tentative
  BY DEF EntryAt, kInvalidAddress, EntryRec
<1>6. PICK c \in CallRec : /\ Do(t, c) /\ c.key = call[t].key /\ c.pc = "append"
                           /\ c.entry = EntryAt(kInvalidAddress)
  <2>1. PICK c : c = [call[t] EXCEPT !.pc = "append", !.entry = EntryAt(kInvalidAddress)]
    OBVIOUS
  <2>2. c \in CallRec /\ c.key = call[t].key /\ c.pc = "append"
        /\ c.entry = EntryAt(kInvalidAddress)
    BY <1>1, <1>5, <2>1 DEF CallRec
  <2>3. Do(t, c)
    BY <2>1 DEF Confirm
  <2> QED
    BY <2>2, <2>3
<1>7. entry' = [entry EXCEPT ![e] = EntryAt(kInvalidAddress)] /\ entry[e] = Tentative
  BY <1>1, <1>2 DEF Confirm, Confirming
<1>8. SameChains
  <2>1. \A a : Pending(a)' <=> Pending(a)
    BY <1>0, <1>1, <1>6, PendingSame
  <2> QED
    BY <1>3, <2>1 DEF SameChains, Kept, OpFrame
<1>9. EntryInv'
  <2>1. entry[e].address = 0 /\ entry[e].used
    BY <1>7 DEF Tentative
  <2>2. linked \in BOOLEAN /\ (e \in Overflow => linked)
    BY <1>0, <2>1 DEF EntryInv
  <2> QED
    BY <1>0, <1>3, <1>5, <1>7, <1>8, <2>1, <2>2, EntriesKeep
<1>10. CallInv'
  <2>1. ASSUME NEW u \in Thread \ {t}, call[u].pc = "confirm"
        PROVE  entry'[plan.hash[call[u].key]] = Tentative
    <3>1. entry[plan.hash[call[u].key]] = Tentative /\ plan.hash[call[u].key] \in Entry
      BY <1>0, <2>1, CallFacts DEF CallOK, Confirming
    <3>2. plan.hash[call[u].key] # e
      BY <1>1, <1>2, <2>1 DEF Confirming
    <3> QED
      BY <1>0, <1>7, <3>1, <3>2 DEF EntryInv
  <2>2. CallOK(t, c)'
    <3>1. Len(log) \in Nat /\ c.entry.address = 0
      BY <1>0, <1>5, <1>6, LogFacts
    <3>2. EntryAt(c.entry.address) = c.entry
      BY <1>6, <3>1 DEF kInvalidAddress
    <3> QED
      BY <1>1, <1>3, <1>6, <3>1, <3>2 DEF CallOK
  <2> QED
    BY <1>3, <1>4, <1>6, <2>1, <2>2, OthersOK
<1>11. PendingInv'
  <2>1. call'[t] = c /\ \A u \in Thread \ {t} : call'[u] = call[u]
    BY <1>0, <1>6, NextCall
  <2> QED
    BY <1>0, <1>3, <1>6, <2>1 DEF PendingInv, OpFrame
<1> QED
  BY <1>3, <1>4, <1>8, <1>9, <1>10, <1>11, OperationKeeps

LEMMA IdleCall == Idle \in CallRec /\ Idle.pc = "idle"
BY DEF Idle, CallRec, kInvalidEntry, EntryRec

\* A step that only ends thread t's call, which had no record in the log.
LEMMA GiveUpOK ==
  ASSUME PlanInv, RunInv, OpFrame, plan' \in PlanRec, NEW t \in Thread,
         call[t].pc # "swap", Do(t, Idle), UNCHANGED <<log, entry, linked, truth>>
  PROVE  PlanInv' /\ RunInv'
<1>0. EntryInv /\ CallInv /\ PendingInv /\ LogInv
  BY DEF RunInv
<1>1. LogGrows
  BY LogSame
<1>2. \A a : Pending(a)' <=> Pending(a)
  BY <1>0, IdleCall, PendingSame
<1>3. SameChains
  BY <1>2 DEF SameChains, Kept, OpFrame
<1>4. EntryInv'
  BY <1>0, <1>3 DEF EntryInv, SameChains, IsTop
<1>5. CallInv'
  <2>1. CallOK(t, Idle)'
    BY IdleCall DEF CallOK
  <2>2. ASSUME NEW u \in Thread \ {t}, call[u].pc = "confirm"
        PROVE  entry'[plan.hash[call[u].key]] = Tentative
    BY <1>0, <2>2, CallFacts DEF CallOK, Confirming
  <2> QED
    BY <1>1, <2>1, <2>2, IdleCall, OthersOK
<1>6. PendingInv'
  <2>1. call'[t] = Idle /\ \A u \in Thread \ {t} : call'[u] = call[u]
    BY <1>0, NextCall
  <2> QED
    BY <1>0, <2>1, IdleCall DEF PendingInv, OpFrame
<1> QED
  BY <1>1, <1>3, <1>4, <1>5, <1>6, OperationKeeps

LEMMA AppendOK ==
  ASSUME PlanInv, RunInv, NEW t \in Thread, Append_(t)
  PROVE  PlanInv' /\ RunInv'
<1>0. EntryInv /\ CallInv /\ PendingInv /\ LogInv /\ PhaseInv /\ VersionInv
  BY DEF RunInv
<1>1. /\ call[t].pc = "append" /\ call[t] \in CallRec /\ call[t].key \in Key
      /\ call[t].entry.address \in Nat /\ call[t].entry.address <= Len(log)
      /\ call[t].entry = EntryAt(call[t].entry.address)
  BY <1>0, CallFacts DEF Append_, CallOK, EntryRec
<1>2. OpFrame /\ truth' = truth /\ plan' \in PlanRec /\ entry' = entry /\ linked' = linked
  BY DEF Append_, OpFrame, bounds, recovery, history, PlanInv
<1>3. Len(log) \in Nat /\ DOMAIN log = 1 .. Len(log) /\ Len(log) < MaxLog /\ MaxLog \in Nat
  BY <1>0, LogFacts, SizesAssumption DEF Append_
<1>4. CASE InLog(log, call[t].entry.address).version > Version(t)
  BY <1>1, <1>2, <1>4, GiveUpOK DEF Append_
<1>5. CASE ~(InLog(log, call[t].entry.address).version > Version(t))
  <2>1. PICK r : r = Record(call[t].key, Version(t), call[t].entry.address)
    OBVIOUS
  <2>2. PICK n \in Nat : n = Len(log) + 1
    BY <1>3
  <2>3. Version(t) \in {1, 2}
    BY <1>0, VersionIs DEF PhaseInv
  <2>4. r \in LogRec /\ r.previous = call[t].entry.address /\ r.version = Version(t)
        /\ r.key = call[t].key /\ ~r.invalid
    BY <1>1, <2>1, <2>3 DEF Record, LogRec
  <2>5. log' = Append(log, r)
    BY <1>5, <2>1 DEF Append_
  <2>6. /\ log' \in Seq(LogRec) /\ Len(log') = n /\ DOMAIN log' = 1 .. n /\ log'[n] = r
        /\ \A a \in DOMAIN log : log'[a] = log[a]
    <3>1. log \in Seq(LogRec)
      BY <1>0 DEF LogInv
    <3> QED
      BY <1>3, <2>2, <2>4, <2>5, <3>1
  <2>7. LogGrows
    <3>1. DOMAIN log \subseteq DOMAIN log' /\ Len(log') <= MaxLog
      BY <1>3, <2>2, <2>6
    <3>2. ASSUME NEW a \in DOMAIN log' \ DOMAIN log
          PROVE  log'[a].previous < a /\ a > Len(log) /\ \E u \in Thread : log'[a].version = Version(u)
      <4>1. a = n
        BY <1>3, <2>2, <2>6
      <4> QED
        BY <1>1, <1>3, <2>2, <2>4, <2>6, <4>1
    <3> QED
      BY <2>6, <3>1, <3>2 DEF LogGrows
  <2>8. PICK c \in CallRec : /\ Do(t, c) /\ c.pc = "swap" /\ c.at = n
                             /\ c.key = call[t].key /\ c.entry = call[t].entry
    <3>1. PICK c : c = [call[t] EXCEPT !.pc = "swap", !.at = Len(log) + 1]
      OBVIOUS
    <3>2. c \in CallRec /\ c.pc = "swap" /\ c.at = n /\ c.key = call[t].key
          /\ c.entry = call[t].entry
      BY <1>1, <2>2, <3>1 DEF CallRec
    <3>3. Do(t, c)
      BY <1>5, <3>1 DEF Append_
    <3> QED
      BY <3>2, <3>3
  <2>9. call'[t] = c /\ \A u \in Thread \ {t} : call'[u] = call[u]
    BY <1>0, <2>8, NextCall
  <2>10. \A u \in Thread \ {t} : call[u].pc = "swap" => call[u].at \in DOMAIN log
    BY <1>0, CallFacts DEF CallOK, Appended
  <2>11. Pending(n)' /\ \A a \in DOMAIN log : Pending(a)' <=> Pending(a)
    <3>1. Pending(n)'
      BY <2>8, <2>9 DEF Pending
    <3>2. n \notin DOMAIN log
      BY <1>3, <2>2
    <3> QED
      BY <1>1, <2>8, <2>9, <3>1, <3>2 DEF Pending
  <2>12. SameChains
    <3>1. DOMAIN log' = DOMAIN log \cup {n}
      BY <1>3, <2>2, <2>6
    <3>2. ASSUME NEW e \in Entry PROVE Kept(e)' = Kept(e)
      <4>1. \A a \in DOMAIN log : a \in Kept(e)' <=> a \in Kept(e)
        BY <1>2, <2>6, <2>11, <3>1 DEF Kept, OpFrame
      <4>2. n \notin Kept(e)'
        BY <2>11 DEF Kept
      <4>3. Kept(e)' \subseteq DOMAIN log' /\ Kept(e) \subseteq DOMAIN log
        BY DEF Kept
      <4>4. PICK K : K = Kept(e)'
        OBVIOUS
      <4>5. K \subseteq DOMAIN log
        BY <3>1, <4>2, <4>3, <4>4
      <4>6. K = Kept(e)
        BY <4>1, <4>3, <4>4, <4>5
      <4> QED
        BY <4>4, <4>6
    <3> QED
      BY <3>2 DEF SameChains
  <2>13. EntryInv'
    BY <1>0, <1>2, <2>12 DEF EntryInv, SameChains, IsTop
  <2>14. CallInv'
    <3>1. ASSUME NEW u \in Thread \ {t}
          PROVE  /\ call[u].pc = "confirm" => entry'[plan.hash[call[u].key]] = Tentative
                 /\ call[u].pc = "swap" => log'[call[u].at] = log[call[u].at]
      BY <1>0, <1>2, <2>6, <2>10, CallFacts DEF CallOK, Confirming
    <3>2. Appended(t, c)'
      <4>1. c.at \in DOMAIN log' /\ log'[c.at] = r
        BY <1>3, <2>2, <2>6, <2>8
      <4>2. c.entry.address > 0 => log'[c.entry.address].version <= Version(t)
        <5>1. SUFFICES ASSUME c.entry.address > 0
                       PROVE  log'[c.entry.address].version <= Version(t)
          OBVIOUS
        <5>2. c.entry.address \in DOMAIN log
          BY <1>1, <1>3, <2>8, <5>1
        <5>3. InLog(log, c.entry.address) = log[c.entry.address]
          BY <5>2 DEF InLog
        <5>4. log[c.entry.address].version \in {1, 2}
          BY <1>0, <5>2, LogFacts
        <5> QED
          BY <1>5, <2>3, <2>6, <2>8, <5>2, <5>3, <5>4
      <4>3. Version(t)' = Version(t)
        BY <1>2 DEF Version, OpFrame
      <4>4. \A u \in Thread \ {t} : call'[u].pc = "swap" => call'[u].at # c.at
        <5>1. n \notin DOMAIN log
          BY <1>3, <2>2
        <5> QED
          BY <2>8, <2>9, <2>10, <5>1
      <4> QED
        BY <2>4, <2>8, <4>1, <4>2, <4>3, <4>4 DEF Appended
    <3>3. CallOK(t, c)'
      BY <1>1, <1>3, <2>2, <2>6, <2>8, <3>2 DEF CallOK
    <3> QED
      BY <1>2, <2>7, <2>8, <3>1, <3>3, OthersOK
  <2>15. PendingInv'
    <3>1. phase # "REST" => c.at >= start /\ start \in Nat
      BY <1>0, <1>3, <2>2, <2>8 DEF VersionInv
    <3>2. phase \in AfterLog => c.at >= final
      <4>1. SUFFICES ASSUME phase \in AfterLog PROVE c.at >= final
        OBVIOUS
      <4>2. final \in start .. Len(log) + 1
        BY <1>0, <4>1 DEF VersionInv
      <4> QED
        BY <1>3, <2>2, <2>8, <4>2 DEF PlanInv
    <3>3. c.at \in Nat /\ start \in Nat /\ final \in Nat
      BY <2>2, <2>8 DEF PlanInv
    <3>4. ~(phase # "REST" /\ c.at < start) /\ ~(phase \in AfterLog /\ c.at < final)
      BY <3>1, <3>2, <3>3
    <3>5. ASSUME NEW u \in Thread
          PROVE  /\ phase # "REST" /\ call'[u].pc = "swap" /\ call'[u].at < start
                    => seen[u] = "REST"
                 /\ phase \in AfterLog /\ call'[u].pc = "swap" /\ call'[u].at < final
                    => seen[u] = "WAIT_PENDING"
      <4>1. CASE u = t
        BY <2>9, <3>4, <4>1
      <4>2. CASE u # t
        BY <1>0, <2>9, <4>2 DEF PendingInv
      <4> QED
        BY <4>1, <4>2
    <3> QED
      BY <1>2, <3>5 DEF PendingInv, OpFrame
  <2> QED
    BY <1>2, <2>7, <2>12, <2>13, <2>14, <2>15, OperationKeeps
<1> QED
  BY <1>4, <1>5

\* Thread t is about to swap in the record at a for the entry e.
Swapping(t, e, a) ==
  /\ call[t].pc = "swap" /\ call[t].at = a /\ a \in DOMAIN log /\ ~log[a].invalid
  /\ plan.hash[call[t].key] = e /\ log[a].key = call[t].key
  /\ log[a].previous = call[t].entry.address
  /\ log[a].version = Version(t)
  /\ log[a].previous > 0 => log[log[a].previous].version <= log[a].version
  /\ \A u \in Thread \ {t} : call[u].pc = "swap" => call[u].at # a

LEMMA SwapBegins ==
  ASSUME PlanInv, RunInv, NEW t \in Thread, Swap(t)
  PROVE  /\ \E e \in Entry, a \in Nat : Swapping(t, e, a)
         /\ OpFrame /\ plan' \in PlanRec /\ linked' = linked /\ Do(t, Idle)
<1>0. CallInv
  BY DEF RunInv
<1>1. call[t].pc = "swap" /\ CallOK(t, call[t]) /\ call[t].at \in Nat
      /\ plan.hash[call[t].key] \in Entry
  BY <1>0, CallFacts DEF Swap
<1>2. Appended(t, call[t])
  BY <1>1 DEF CallOK
<1>3. Swapping(t, plan.hash[call[t].key], call[t].at)
  BY <1>1, <1>2 DEF Appended, Swapping
<1>4. OpFrame /\ plan' \in PlanRec /\ linked' = linked /\ Do(t, Idle)
  BY DEF Swap, OpFrame, bounds, recovery, PlanInv
<1> QED
  BY <1>1, <1>3, <1>4

LEMMA PendingLess ==
  ASSUME CallInv, NEW t \in Thread, NEW e, NEW a \in Nat, Swapping(t, e, a), Do(t, Idle)
  PROVE  /\ Pending(a) /\ ~Pending(a)'
         /\ \A b : b # a => (Pending(b)' <=> Pending(b))
<1>1. call'[t] = Idle /\ \A u \in Thread \ {t} : call'[u] = call[u]
  BY NextCall
<1> QED
  BY <1>1, IdleCall DEF Pending, Swapping

\* The compare-and-swap that fails.
LEMMA SwapLost ==
  ASSUME PlanInv, RunInv, NEW t \in Thread, Swap(t), NEW e \in Entry, NEW a \in Nat,
         Swapping(t, e, a), entry[e] # call[t].entry
  PROVE  PlanInv' /\ RunInv'
<1>0. EntryInv /\ CallInv /\ PendingInv /\ LogInv
  BY DEF RunInv
<1>1. OpFrame /\ plan' \in PlanRec /\ linked' = linked /\ Do(t, Idle)
  BY SwapBegins
<1>2. log' = [log EXCEPT ![a].invalid = TRUE] /\ entry' = entry /\ truth' = truth
      /\ a \in DOMAIN log
  BY DEF Swap, Swapping, history
<1>3. Pending(a) /\ ~Pending(a)' /\ \A b : b # a => (Pending(b)' <=> Pending(b))
  BY <1>0, <1>1, PendingLess
<1>4. /\ log' \in Seq(LogRec) /\ DOMAIN log' = DOMAIN log /\ Len(log') = Len(log)
      /\ log'[a] = [log[a] EXCEPT !.invalid = TRUE]
      /\ \A b \in DOMAIN log \ {a} : log'[b] = log[b]
  <2>1. log[a] \in LogRec /\ DOMAIN log = 1 .. Len(log) /\ Len(log) \in Nat
    BY <1>0, <1>2, LogFacts
  <2>2. [log[a] EXCEPT !.invalid = TRUE] \in LogRec
    BY <2>1 DEF LogRec
  <2>3. log \in Seq(LogRec)
    BY <1>0 DEF LogInv
  <2>4. log' = [log EXCEPT ![a] = [log[a] EXCEPT !.invalid = TRUE]]
    BY <1>2
  <2> QED
    BY <1>2, <2>1, <2>2, <2>3, <2>4
<1>5. log[a] \in LogRec /\ log'[a].invalid /\ log'[a].version = log[a].version
      /\ log'[a].key = log[a].key /\ log'[a].previous = log[a].previous
  <2>1. log[a] \in LogRec
    BY <1>0, <1>2, LogFacts
  <2> QED
    BY <1>4, <2>1 DEF LogRec
<1>6. LogGrows
  BY <1>0, <1>3, <1>4 DEF LogGrows, LogInv
<1>7. SameChains
  <2>1. ASSUME NEW f \in Entry PROVE Kept(f)' = Kept(f)
    <3>1. \A b \in DOMAIN log \ {a} : b \in Kept(f)' <=> b \in Kept(f)
      BY <1>1, <1>3, <1>4 DEF Kept, OpFrame
    <3>2. a \notin Kept(f)' /\ a \notin Kept(f)
      BY <1>3, <1>5 DEF Kept
    <3>3. Kept(f)' \subseteq DOMAIN log /\ Kept(f) \subseteq DOMAIN log
      BY <1>4 DEF Kept
    <3> QED
      BY <3>1, <3>2, <3>3
  <2> QED
    BY <2>1 DEF SameChains
<1>8. EntryInv'
  BY <1>0, <1>1, <1>2, <1>7 DEF EntryInv, SameChains, IsTop
<1>9. CallInv'
  <2>1. CallOK(t, Idle)'
    BY IdleCall DEF CallOK
  <2>2. ASSUME NEW u \in Thread \ {t}
        PROVE  /\ call[u].pc = "confirm" => entry'[plan.hash[call[u].key]] = Tentative
               /\ call[u].pc = "swap" => log'[call[u].at] = log[call[u].at]
    <3>1. call[u].pc = "swap" => call[u].at # a /\ call[u].at \in DOMAIN log
      BY <1>0, CallFacts DEF Swapping, CallOK, Appended
    <3>2. call[u].pc = "confirm" => entry[plan.hash[call[u].key]] = Tentative
      BY <1>0, CallFacts DEF CallOK, Confirming
    <3> QED
      BY <1>2, <1>4, <3>1, <3>2
  <2> QED
    BY <1>1, <1>6, <2>1, <2>2, IdleCall, OthersOK
<1>10. PendingInv'
  <2>1. call'[t] = Idle /\ \A u \in Thread \ {t} : call'[u] = call[u]
    BY <1>0, <1>1, NextCall
  <2> QED
    BY <1>0, <1>1, <2>1, IdleCall DEF PendingInv, OpFrame
<1> QED
  BY <1>1, <1>2, <1>6, <1>7, <1>8, <1>9, <1>10, OperationKeeps

\* The compare-and-swap that succeeds: the record becomes the last of its chain.
LEMMA SwapWon ==
  ASSUME PlanInv, RunInv, NEW t \in Thread, Swap(t), NEW e \in Entry, NEW a \in Nat,
         Swapping(t, e, a), entry[e] = call[t].entry
  PROVE  PlanInv' /\ RunInv'
<1>0. EntryInv /\ CallInv /\ PendingInv /\ LogInv /\ ChainInv /\ TruthInv /\ IndexInv
      /\ PhaseInv
  BY DEF RunInv
<1>1. OpFrame /\ plan' \in PlanRec /\ linked' = linked /\ Do(t, Idle)
  BY SwapBegins
<1>2. /\ log' = log /\ entry' = [entry EXCEPT ![e] = EntryAt(a)] /\ a \in DOMAIN log
      /\ log[a].version = 1 => truth' = [truth EXCEPT ![log[a].key] = a]
      /\ log[a].version # 1 => truth' = truth
  BY DEF Swap, Swapping, history
<1>3. Pending(a) /\ ~Pending(a)' /\ \A b : b # a => (Pending(b)' <=> Pending(b))
  BY <1>0, <1>1, PendingLess
<1>4. LogGrows
  BY <1>2, LogSame
<1>5. LogInv' /\ PhaseInv' /\ VersionInv' /\ DiskInv'
  BY <1>1, <1>4, LogGrowsFacts, DiskStays
<1>6. PICK p \in Nat : p = log[a].previous /\ p = entry[e].address /\ p < a
  BY <1>0, <1>2, LogFacts DEF Swapping
<1>7. \A f \in Entry \ {e} : Kept(f)' = Kept(f)
  <2>1. SUFFICES ASSUME NEW f \in Entry \ {e} PROVE Kept(f)' = Kept(f)
    OBVIOUS
  <2>2. plan.hash[log[a].key] # f
    BY DEF Swapping
  <2>3. \A b \in DOMAIN log : b \in Kept(f)' <=> b \in Kept(f)
    BY <1>1, <1>2, <1>3, <2>2 DEF Kept, OpFrame
  <2>4. Kept(f)' \subseteq DOMAIN log /\ Kept(f) \subseteq DOMAIN log
    BY <1>2 DEF Kept
  <2> QED
    BY <2>3, <2>4
<1>8. Kept(e)' = Kept(e) \cup {a} /\ a \notin Kept(e)
  <2>1. a \in Kept(e)' /\ a \notin Kept(e)
    BY <1>1, <1>2, <1>3 DEF Kept, OpFrame, Swapping
  <2>2. \A b \in DOMAIN log \ {a} : b \in Kept(e)' <=> b \in Kept(e)
    BY <1>1, <1>2, <1>3 DEF Kept, OpFrame
  <2>3. Kept(e)' \subseteq DOMAIN log /\ Kept(e) \subseteq DOMAIN log
    BY <1>2 DEF Kept
  <2> QED
    BY <1>2, <2>1, <2>2, <2>3
<1>9. \A b \in Kept(e) : b \in DOMAIN log /\ b \in Nat /\ b > 0 /\ b <= p /\ b < a
  <2>1. IsTop(Kept(e), p)
    BY <1>0, <1>6 DEF EntryInv
  <2>2. \A b \in Kept(e) : b \in DOMAIN log /\ b \in Nat /\ b > 0
    BY <1>0, LogFacts DEF Kept
  <2>3. \A b \in Kept(e) : b <= p
    BY <2>1 DEF IsTop
  <2>4. ASSUME NEW b \in Nat, b <= p PROVE b < a
    BY <1>6, <2>4
  <2> QED
    BY <2>2, <2>3, <2>4
<1>10. EntryInv'
  <2>1. EntryAt(a) \in EntryRec /\ EntryAt(a).address = a /\ EntryAt(a).used
        /\ ~EntryAt(a).tentative
    BY DEF EntryAt, EntryRec
  <2>2. IsTop(Kept(e)', a)
    BY <1>8, <1>9 DEF IsTop
  <2>3. e \in Overflow => linked
    <3>1. entry[e].used
      <4>1. call[t].entry = EntryAt(call[t].entry.address)
        BY <1>0, CallFacts DEF Swapping, CallOK
      <4> QED
        BY <4>1 DEF EntryAt
    <3> QED
      BY <1>0, <3>1 DEF EntryInv
  <2>4. entry' \in [Entry -> EntryRec] /\ entry'[e] = EntryAt(a)
        /\ \A f \in Entry \ {e} : entry'[f] = entry[f]
    BY <1>0, <1>2, <2>1 DEF EntryInv
  <2>5. ASSUME NEW f \in Entry
        PROVE  /\ IsTop(Kept(f)', entry'[f].address)
               /\ entry'[f].address # 0 => entry'[f].used /\ ~entry'[f].tentative
               /\ entry'[f].used /\ f \in Overflow => linked
    <3>1. CASE f = e
      BY <2>1, <2>2, <2>3, <2>4, <3>1
    <3>2. CASE f # e
      BY <1>0, <1>7, <2>4, <3>2 DEF EntryInv
    <3> QED
      BY <3>1, <3>2
  <2> QED
    BY <1>0, <1>1, <2>4, <2>5 DEF EntryInv, IsTop
<1>11. ChainInv'
  <2>1. ASSUME NEW f \in Entry, NEW b \in Kept(f)'
        PROVE  /\ IsTop({x \in Kept(f)' : x < b}, log[b].previous)
               /\ \A x \in Kept(f)' : x < b => log[x].version <= log[b].version
    <3>1. CASE f # e
      BY <1>0, <1>7, <2>1, <3>1 DEF ChainInv
    <3>2. CASE f = e /\ b = a
      <4>1. {x \in Kept(f)' : x < b} = Kept(e)
        BY <1>8, <1>9, <3>2
      <4>2. IsTop(Kept(e), p)
        BY <1>0, <1>6 DEF EntryInv
      <4>3. ASSUME NEW x \in Kept(e) PROVE log[x].version <= log[a].version
        <5>1. p \in Kept(e) /\ p > 0
          <6>1. x \in Nat /\ x > 0 /\ x <= p
            BY <1>9
          <6>2. p > 0
            BY <1>6, <6>1
          <6>3. p \in Kept(e) \cup {0}
            BY <4>2 DEF IsTop
          <6> QED
            BY <6>2, <6>3
        <5>2. log[x].version <= log[p].version
          <6>1. log[x].version \in {1, 2}
            BY <1>0, <1>9, LogFacts
          <6>2. CASE x = p
            BY <6>1, <6>2
          <6>3. CASE x # p
            <7>1. x \in Nat /\ x <= p
              BY <1>9
            <7>2. x < p
              BY <1>6, <6>3, <7>1
            <7> QED
              BY <1>0, <5>1, <7>2 DEF ChainInv
          <6> QED
            BY <6>2, <6>3
        <5>3. log[p].version <= log[a].version
          BY <1>6, <5>1 DEF Swapping
        <5>4. log[x].version \in {1, 2} /\ log[p].version \in {1, 2} /\ log[a].version \in {1, 2}
          <6>1. x \in DOMAIN log /\ p \in DOMAIN log
            BY <1>9, <5>1
          <6> QED
            BY <1>0, <1>2, <6>1, LogFacts
        <5> QED
          BY <5>2, <5>3, <5>4
      <4>4. \A x \in Kept(f)' : x < b => x \in Kept(e)
        BY <1>8, <3>2
      <4> QED
        BY <1>6, <3>2, <4>1, <4>2, <4>3, <4>4
    <3>3. CASE f = e /\ b # a
      <4>1. b \in Kept(e)
        BY <1>8, <2>1, <3>3
      <4>2. \A x : x \in Kept(f)' /\ x < b <=> x \in Kept(e) /\ x < b
        BY <1>8, <1>9, <3>3, <4>1
      <4>3. {x \in Kept(f)' : x < b} = {x \in Kept(e) : x < b}
        BY <4>2
      <4> QED
        BY <1>0, <4>1, <4>2, <4>3 DEF ChainInv
    <3> QED
      BY <3>1, <3>2, <3>3
  <2> QED
    BY <1>2, <2>1 DEF ChainInv, IsTop
<1>12. /\ \A f \in Entry \ {e} : Cut(f)' = Cut(f)
       /\ log[a].version = 1 => Cut(e)' = Cut(e) \cup {a}
       /\ log[a].version # 1 => Cut(e)' = Cut(e)
  BY <1>2, <1>7, <1>8 DEF Cut
<1>13. TruthInv'
  <2>1. truth \in [Key -> Nat] /\ log[a].key \in Key /\ plan.hash[log[a].key] = e
    BY <1>0, <1>2, LogFacts DEF TruthInv, Swapping
  <2>2. truth' \in [Key -> Nat]
    BY <1>2, <2>1
  <2>3. ASSUME NEW k \in Key
        PROVE  IsTop({x \in Cut(plan.hash[k]) : log[x].key = k}, truth[k])'
    <3>1. PICK f \in Entry : f = plan.hash[k] /\ f = plan'.hash[k]
      BY <1>1 DEF OpFrame, PlanInv
    <3>2. IsTop({x \in Cut(f) : log[x].key = k}, truth[k])
      BY <1>0, <3>1 DEF TruthInv
    <3>3. PICK C : C = Cut(f)' /\ C = Cut(plan.hash[k])'
      BY <3>1 DEF Cut, Kept
    <3>4. IsTop({x \in C : log[x].key = k}, truth'[k])
      <4>1. CASE f = e /\ k = log[a].key /\ log[a].version = 1
        <5>1. C = Cut(e) \cup {a} /\ truth'[k] = a
          BY <1>2, <1>12, <2>1, <3>3, <4>1
        <5>2. \A x \in Cut(e) : x <= a
          BY <1>9 DEF Cut
        <5> QED
          BY <4>1, <5>1, <5>2 DEF IsTop
      <4>2. CASE f = e /\ k # log[a].key /\ log[a].version = 1
        <5>1. C = Cut(e) \cup {a} /\ truth'[k] = truth[k]
          BY <1>2, <1>12, <2>1, <3>3, <4>2
        <5>2. {x \in C : log[x].key = k} = {x \in Cut(f) : log[x].key = k}
          BY <4>2, <5>1
        <5> QED
          BY <3>2, <5>1, <5>2
      <4>3. CASE ~(f = e /\ log[a].version = 1)
        <5>1. C = Cut(f)
          BY <1>12, <3>3, <4>3
        <5>2. truth'[k] = truth[k]
          <6>1. CASE log[a].version # 1
            BY <1>2, <6>1
          <6>2. CASE log[a].version = 1
            <7>1. k # log[a].key
              BY <2>1, <3>1, <4>3, <6>2
            <7> QED
              BY <1>2, <2>1, <6>2, <7>1
          <6> QED
            BY <6>1, <6>2
        <5> QED
          BY <3>2, <5>1, <5>2
      <4> QED
        BY <4>1, <4>2, <4>3
    <3> QED
      BY <1>2, <3>3, <3>4 DEF IsTop
  <2> QED
    BY <2>2, <2>3 DEF TruthInv
<1>14. IndexInv'
  <2>1. index_file' = index_file /\ link_file' = link_file /\ phase' = phase /\ start' = start
    BY <1>1 DEF OpFrame, files
  <2>2. phase \notin BeforeIndex => ~(a < start)
    <3>1. SUFFICES ASSUME phase \notin BeforeIndex, a < start PROVE FALSE
      OBVIOUS
    <3>2. seen[t] = "REST"
      BY <1>0, <3>1 DEF PendingInv, Swapping, BeforeIndex
    <3> QED
      BY <1>0, <3>1, <3>2 DEF PhaseInv, Beside, BeforeIndex
  <2>3. ASSUME phase \notin BeforeIndex, NEW f \in Entry, NEW x, Indexed(Cut(f), x)
        PROVE  Indexed(Cut(f), x)'
    <3>1. PICK C : C = Cut(f)' /\ Cut(f) \subseteq C /\ C \subseteq Cut(f) \cup {a}
      BY <1>12
    <3>2. Indexed(C, x)
      BY <2>2, <2>3, <3>1 DEF Indexed
    <3> QED
      BY <2>1, <3>1, <3>2 DEF Indexed
  <2>4. \A f \in DOMAIN index_file : f \in Entry /\ phase \notin BeforeIndex
    BY <1>0 DEF IndexInv
  <2>5. link_file = "unlinked" => phase \notin BeforeIndex
    BY <1>0 DEF IndexInv
  <2>6. \A f \in Overflow : f \in Entry
    BY SizesAssumption
  <2>7. ASSUME NEW f \in DOMAIN index_file PROVE Indexed(Cut(f), index_file[f].address)'
    <3>1. Indexed(Cut(f), index_file[f].address)
      BY <1>0 DEF IndexInv
    <3>2. PICK x : x = index_file[f].address /\ x = index_file'[f].address
      BY <2>1
    <3>3. Indexed(Cut(f), x)'
      BY <2>3, <2>4, <3>1, <3>2
    <3> QED
      BY <3>2, <3>3 DEF Indexed
  <2>8. ASSUME link_file = "unlinked", NEW f \in Overflow PROVE Indexed(Cut(f), 0)'
    <3>1. Indexed(Cut(f), 0)
      BY <1>0, <2>8 DEF IndexInv
    <3> QED
      BY <2>3, <2>5, <2>6, <2>8, <3>1
  <2> QED
    BY <1>0, <2>1, <2>7, <2>8 DEF IndexInv
<1>15. CallInv'
  <2>1. CallOK(t, Idle)'
    BY IdleCall DEF CallOK
  <2>2. ASSUME NEW u \in Thread \ {t}
        PROVE  /\ call[u].pc = "confirm" => entry'[plan.hash[call[u].key]] = Tentative
               /\ call[u].pc = "swap" => log'[call[u].at] = log[call[u].at]
    <3>1. SUFFICES ASSUME call[u].pc = "confirm"
                   PROVE  entry'[plan.hash[call[u].key]] = Tentative
      BY <1>2
    <3>2. entry[plan.hash[call[u].key]] = Tentative /\ plan.hash[call[u].key] \in Entry
      BY <1>0, <3>1, CallFacts DEF CallOK, Confirming
    <3>3. call[t].entry = EntryAt(call[t].entry.address)
      BY <1>0, CallFacts DEF Swapping, CallOK
    <3>4. plan.hash[call[u].key] # e
      BY <3>2, <3>3 DEF EntryAt, Tentative
    <3> QED
      BY <1>0, <1>2, <3>2, <3>4 DEF EntryInv
  <2> QED
    BY <1>1, <1>4, <2>1, <2>2, IdleCall, OthersOK
<1>16. PendingInv'
  <2>1. call'[t] = Idle /\ \A u \in Thread \ {t} : call'[u] = call[u]
    BY <1>0, <1>1, NextCall
  <2> QED
    BY <1>0, <1>1, <2>1, IdleCall DEF PendingInv, OpFrame
<1>17. PlanInv'
  BY <1>1 DEF PlanInv, OpFrame
<1> QED
  BY <1>5, <1>10, <1>11, <1>13, <1>14, <1>15, <1>16, <1>17 DEF RunInv

LEMMA SwapOK ==
  ASSUME PlanInv, RunInv, NEW t \in Thread, Swap(t)
  PROVE  PlanInv' /\ RunInv'
<1>1. PICK e \in Entry, a \in Nat : Swapping(t, e, a)
  BY SwapBegins
<1> QED
  BY <1>1, SwapLost, SwapWon

(***************************************************************************)
(* While the store runs: the checkpoint.                                   *)
(***************************************************************************)
\* What a step of the checkpoint leaves alone.
StandStill == UNCHANGED <<plan, memory, call, mem, truth>>

LEMMA StandStillFacts ==
  ASSUME PlanInv, RunInv, StandStill
  PROVE  /\ LogInv' /\ EntryInv' /\ ChainInv' /\ TruthInv'
         /\ \A e : Kept(e)' = Kept(e) /\ Cut(e)' = Cut(e)
<1>0. LogInv /\ EntryInv /\ ChainInv /\ TruthInv
  BY DEF RunInv
<1>1. plan' = plan /\ log' = log /\ entry' = entry /\ linked' = linked /\ call' = call
      /\ truth' = truth
  BY DEF StandStill, memory
<1>2. \A a : Pending(a)' <=> Pending(a)
  BY <1>1 DEF Pending
<1>3. \A e : Kept(e)' = Kept(e)
  BY <1>1, <1>2 DEF Kept
<1>4. \A e : Cut(e)' = Cut(e)
  BY <1>1, <1>3 DEF Cut
<1>5. LogInv'
  BY <1>0, <1>1 DEF LogInv
<1>6. EntryInv'
  BY <1>0, <1>1, <1>3 DEF EntryInv, IsTop
<1>7. ChainInv'
  <2>1. ASSUME NEW e \in Entry, NEW a \in Kept(e)'
        PROVE  /\ IsTop({b \in Kept(e)' : b < a}, log[a].previous)
               /\ \A b \in Kept(e)' : b < a => log[b].version <= log[a].version
    BY <1>0, <1>3, <2>1 DEF ChainInv
  <2> QED
    BY <1>1, <2>1 DEF ChainInv, IsTop
<1>8. TruthInv'
  <2>1. ASSUME NEW k \in Key
        PROVE  IsTop({a \in Cut(plan.hash[k]) : log[a].key = k}, truth[k])'
    <3>1. PICK C : C = Cut(plan.hash[k]) /\ C = Cut(plan.hash[k])'
      <4>1. Cut(plan.hash[k])' = Cut(plan.hash[k])
        BY <1>1, <1>2 DEF Cut, Kept
      <4> QED
        BY <4>1
    <3>2. IsTop({a \in C : log[a].key = k}, truth[k])
      BY <1>0, <3>1 DEF TruthInv
    <3> QED
      BY <1>1, <3>1, <3>2 DEF IsTop
  <2> QED
    BY <1>0, <1>1, <2>1 DEF TruthInv
<1> QED
  BY <1>3, <1>4, <1>5, <1>6, <1>7, <1>8

\* The calls of threads that keep their version.
LEMMA CallsStand ==
  ASSUME PlanInv, RunInv, StandStill,
         \A t \in Thread : seen'[t] = seen[t] \/ call[t].pc = "idle"
  PROVE  CallInv'
<1>0. CallInv
  BY DEF RunInv
<1>1. plan' = plan /\ log' = log /\ entry' = entry /\ call' = call
  BY DEF StandStill, memory
<1>2. ASSUME NEW t \in Thread PROVE CallOK(t, call[t])'
  <2>1. CASE call[t].pc = "idle"
    BY <1>1, <2>1 DEF CallOK
  <2>2. CASE seen'[t] = seen[t]
    <3>1. Version(t)' = Version(t)
      BY <2>2 DEF Version
    <3>2. CallOK(t, call[t])
      BY <1>0 DEF CallInv
    <3> QED
      BY <1>1, <3>1, <3>2 DEF CallOK, Confirming, Appended
  <2> QED
    BY <2>1, <2>2
<1> QED
  BY <1>0, <1>1, <1>2 DEF CallInv

\* The index file of a step that does not write it.
LEMMA IndexStands ==
  ASSUME PlanInv, RunInv, StandStill, UNCHANGED <<index_file, link_file, start>>,
         phase' \in BeforeIndex => phase \in BeforeIndex,
         phase' \notin BeforeIndex \cup {"INDEX_CHKPT"}
           => DOMAIN index_file = Entry /\ link_file # "none"
  PROVE  IndexInv'
<1>0. IndexInv /\ \A e : Cut(e)' = Cut(e)
  BY StandStillFacts DEF RunInv
<1>1. ASSUME NEW e, NEW x, Indexed(Cut(e), x) PROVE Indexed(Cut(e), x)'
  BY <1>0, <1>1 DEF Indexed
<1>2. ASSUME NEW e \in DOMAIN index_file PROVE Indexed(Cut(e), index_file[e].address)'
  <2>1. Indexed(Cut(e), index_file[e].address)
    BY <1>0 DEF IndexInv
  <2>2. PICK x : x = index_file[e].address /\ x = index_file'[e].address
    OBVIOUS
  <2>3. Indexed(Cut(e), x)'
    BY <1>1, <2>1, <2>2
  <2> QED
    BY <2>2, <2>3 DEF Indexed
<1>3. ASSUME link_file = "unlinked", NEW e \in Overflow PROVE Indexed(Cut(e), 0)'
  BY <1>0, <1>1, <1>3 DEF IndexInv
<1> QED
  BY <1>0, <1>2, <1>3 DEF IndexInv

LEMMA RefreshOK ==
  ASSUME PlanInv, RunInv, phase \in PhaseSet, NEW t \in Thread, Refresh(t)
  PROVE  PlanInv' /\ RunInv'
<1>0. PhaseInv /\ VersionInv /\ PendingInv /\ DiskInv /\ IndexInv
  BY DEF RunInv
<1>1. /\ call[t].pc = "idle" /\ seen' = [seen EXCEPT ![t] = phase]
      /\ UNCHANGED <<plan, log, entry, linked, phase, call, start, final, index_file, link_file,
                     contexts, disk, mem, truth>>
  BY DEF Refresh, memory, bounds, files, recovery, history
<1>2. StandStill
  BY <1>1 DEF StandStill, memory
<1>3. seen' \in [Thread -> PhaseSet] /\ seen'[t] = phase
      /\ \A u \in Thread \ {t} : seen'[u] = seen[u]
  BY <1>0, <1>1 DEF PhaseInv
<1>4. phase \in Beside(phase)
  BY DEF PhaseSet, Beside
<1>5. PhaseInv'
  BY <1>0, <1>1, <1>3, <1>4 DEF PhaseInv
<1>6. VersionInv'
  BY <1>0, <1>1 DEF VersionInv
<1>7. PendingInv'
  BY <1>0, <1>1, <1>3 DEF PendingInv
<1>8. DiskInv'
  <2>1. phase \in AfterLog => phase # "WAIT_PENDING"
    BY DEF AfterLog
  <2> QED
    BY <1>0, <1>1, <1>3, <2>1 DEF DiskInv, Flushed
<1>9. CallInv'
  BY <1>1, <1>2, <1>3, CallsStand
<1>10. IndexInv'
  BY <1>0, <1>1, <1>2, IndexStands DEF IndexInv
<1>11. PlanInv'
  BY <1>1 DEF PlanInv
<1> QED
  BY <1>2, <1>5, <1>6, <1>7, <1>8, <1>9, <1>10, <1>11, StandStillFacts DEF RunInv

LEMMA ContextOK ==
  ASSUME PlanInv, RunInv, NEW t \in Thread, WriteCprContext(t)
  PROVE  PlanInv' /\ RunInv'
<1>0. PhaseInv /\ VersionInv /\ PendingInv /\ DiskInv /\ IndexInv
  BY DEF RunInv
<1>1. /\ phase = "WAIT_FLUSH" /\ Flushed
      /\ UNCHANGED <<plan, log, entry, linked, phase, seen, call, start, final, index_file,
                     link_file, disk, mem, truth>>
  BY DEF WriteCprContext, memory, bounds, threads, recovery, history
<1>2. StandStill
  BY <1>1 DEF StandStill, memory
<1>3. PhaseInv' /\ VersionInv' /\ PendingInv'
  BY <1>0, <1>1 DEF PhaseInv, VersionInv, PendingInv
<1>4. DiskInv'
  BY <1>0, <1>1 DEF DiskInv, Flushed, AfterLog
<1>5. CallInv'
  BY <1>1, <1>2, CallsStand
<1>6. IndexInv'
  BY <1>0, <1>1, <1>2, IndexStands DEF IndexInv
<1>7. PlanInv'
  BY <1>1 DEF PlanInv
<1> QED
  BY <1>2, <1>3, <1>4, <1>5, <1>6, <1>7, StandStillFacts DEF RunInv

LEMMA CheckpointOK ==
  ASSUME PlanInv, RunInv, Checkpoint
  PROVE  PlanInv' /\ RunInv'
<1>0. LogInv /\ PhaseInv /\ VersionInv /\ PendingInv /\ DiskInv /\ IndexInv
  BY DEF RunInv
<1>1. /\ phase = "REST" /\ phase' = "PREP_INDEX_CHKPT" /\ start' = Len(log) + 1
      /\ UNCHANGED <<plan, log, entry, linked, seen, call, final, index_file, link_file,
                     contexts, disk, mem, truth>>
  BY DEF Checkpoint, memory, files, recovery, history
<1>2. StandStill
  BY <1>1 DEF StandStill, memory
<1>3. Len(log) \in Nat
  BY <1>0, LogFacts
<1>4. \A t \in Thread : seen[t] = "REST"
  BY <1>0, <1>1 DEF PhaseInv, Beside
<1>5. PhaseInv'
  BY <1>0, <1>1, <1>4 DEF PhaseInv, Beside
<1>6. VersionInv'
  BY <1>0, <1>1, <1>3 DEF VersionInv, Early, AfterLog
<1>7. PendingInv'
  BY <1>1, <1>4 DEF PendingInv, AfterLog
<1>8. DiskInv'
  BY <1>0, <1>1 DEF DiskInv, AfterLog
<1>9. CallInv'
  BY <1>1, <1>2, CallsStand
<1>10. IndexInv'
  BY <1>0, <1>1 DEF IndexInv, BeforeIndex
<1>11. PlanInv'
  BY <1>1, <1>3 DEF PlanInv
<1> QED
  BY <1>2, <1>5, <1>6, <1>7, <1>8, <1>9, <1>10, <1>11, StandStillFacts DEF RunInv

\* While the index is written every record is of the first version.
LEMMA EarlyCut ==
  ASSUME RunInv, phase \in Early, NEW e
  PROVE  Cut(e) = Kept(e)
<1>1. \A a \in DOMAIN log : log[a].version = 1
  BY DEF RunInv, VersionInv
<1> QED
  BY <1>1 DEF Cut, Kept

LEMMA WriteEntryOK ==
  ASSUME PlanInv, RunInv, NEW e \in Entry, WriteEntry(e)
  PROVE  PlanInv' /\ RunInv'
<1>0. EntryInv /\ PhaseInv /\ VersionInv /\ PendingInv /\ DiskInv /\ IndexInv
  BY DEF RunInv
<1>1. /\ phase = "INDEX_CHKPT"
      /\ index_file' = [x \in DOMAIN index_file \cup {e} |->
                          IF x = e THEN entry[e] ELSE index_file[x]]
      /\ UNCHANGED <<plan, log, entry, linked, phase, seen, call, start, final, link_file,
                     contexts, disk, mem, truth>>
  BY DEF WriteEntry, memory, bounds, threads, recovery, history
<1>2. StandStill
  BY <1>1 DEF StandStill, memory
<1>3. PhaseInv' /\ VersionInv' /\ PendingInv' /\ DiskInv'
  BY <1>0, <1>1 DEF PhaseInv, VersionInv, PendingInv, DiskInv, Flushed
<1>4. CallInv'
  BY <1>1, <1>2, CallsStand
<1>5. \A x : Cut(x)' = Cut(x)
  BY <1>2, StandStillFacts
<1>6. /\ entry[e] \in EntryRec /\ IsTop(Cut(e), entry[e].address)
      /\ entry[e].address # 0 => entry[e].used /\ ~entry[e].tentative
  <2>1. Cut(e) = Kept(e)
    BY <1>1, EarlyCut DEF Early
  <2> QED
    BY <1>0, <2>1 DEF EntryInv
<1>7. Indexed(Cut(e), entry[e].address)
  BY <1>6 DEF IsTop, Indexed
<1>8. DOMAIN index_file' = DOMAIN index_file \cup {e}
  BY <1>1
<1>9. ASSUME NEW x \in DOMAIN index_file'
      PROVE  /\ index_file'[x] \in EntryRec /\ Indexed(Cut(x), index_file[x].address)'
             /\ index_file'[x].address # 0 => index_file'[x].used /\ ~index_file'[x].tentative
  <2>1. PICK y : y = index_file'[x].address
    OBVIOUS
  <2>2. Indexed(Cut(x), y)
    <3>1. CASE x = e
      BY <1>1, <1>7, <1>8, <2>1, <3>1
    <3>2. CASE x # e
      BY <1>0, <1>1, <1>8, <2>1, <3>2 DEF IndexInv
    <3> QED
      BY <3>1, <3>2
  <2>3. /\ index_file'[x] \in EntryRec
        /\ index_file'[x].address # 0 => index_file'[x].used /\ ~index_file'[x].tentative
    <3>1. CASE x = e
      BY <1>1, <1>6, <1>8, <3>1
    <3>2. CASE x # e
      BY <1>0, <1>1, <1>8, <3>2 DEF IndexInv
    <3> QED
      BY <3>1, <3>2
  <2> QED
    BY <1>1, <1>5, <2>1, <2>2, <2>3 DEF Indexed
<1>10. link_file = "unlinked" => \A x \in Overflow : Indexed(Cut(x), 0)'
  BY <1>0, <1>1, <1>5 DEF IndexInv, Indexed
<1>11. IndexInv'
  BY <1>0, <1>1, <1>8, <1>9, <1>10 DEF IndexInv, BeforeIndex
<1>12. PlanInv'
  BY <1>1 DEF PlanInv
<1> QED
  BY <1>2, <1>3, <1>4, <1>11, <1>12, StandStillFacts DEF RunInv

LEMMA WriteLinkOK ==
  ASSUME PlanInv, RunInv, WriteLink
  PROVE  PlanInv' /\ RunInv'
<1>0. EntryInv /\ PhaseInv /\ VersionInv /\ PendingInv /\ DiskInv /\ IndexInv
  BY DEF RunInv
<1>1. /\ phase = "INDEX_CHKPT" /\ link_file' = IF linked THEN "linked" ELSE "unlinked"
      /\ UNCHANGED <<plan, log, entry, linked, phase, seen, call, start, final, index_file,
                     contexts, disk, mem, truth>>
  BY DEF WriteLink, memory, bounds, threads, recovery, history
<1>2. StandStill
  BY <1>1 DEF StandStill, memory
<1>3. PhaseInv' /\ VersionInv' /\ PendingInv' /\ DiskInv'
  BY <1>0, <1>1 DEF PhaseInv, VersionInv, PendingInv, DiskInv, Flushed
<1>4. CallInv'
  BY <1>1, <1>2, CallsStand
<1>5. \A x : Cut(x)' = Cut(x)
  BY <1>2, StandStillFacts
<1>6. ASSUME NEW x, NEW y, Indexed(Cut(x), y) PROVE Indexed(Cut(x), y)'
  BY <1>1, <1>5, <1>6 DEF Indexed
<1>7. ASSUME NEW x \in DOMAIN index_file PROVE Indexed(Cut(x), index_file[x].address)'
  <2>1. PICK y : y = index_file[x].address /\ y = index_file'[x].address
    BY <1>1
  <2>2. Indexed(Cut(x), y)'
    BY <1>0, <1>6, <2>1 DEF IndexInv
  <2> QED
    BY <2>1, <2>2 DEF Indexed
<1>8. ASSUME ~linked, NEW x \in Overflow PROVE Indexed(Cut(x), 0)'
  <2>1. x \in Entry /\ ~entry[x].used
    BY <1>0, <1>8, SizesAssumption DEF EntryInv
  <2>2. entry[x].address = 0 /\ IsTop(Kept(x), 0)
    BY <1>0, <2>1 DEF EntryInv
  <2>3. Cut(x) = Kept(x)
    BY <1>1, EarlyCut DEF Early
  <2>4. Indexed(Cut(x), 0)
    BY <2>2, <2>3 DEF IsTop, Indexed
  <2> QED
    BY <1>6, <2>4
<1>9. IndexInv'
  BY <1>0, <1>1, <1>7, <1>8 DEF IndexInv, BeforeIndex
<1>10. PlanInv'
  BY <1>1 DEF PlanInv
<1> QED
  BY <1>2, <1>3, <1>4, <1>9, <1>10, StandStillFacts DEF RunInv

\* The phases follow one another.
Precedes(p, q) ==
  \/ p = "PREP_INDEX_CHKPT" /\ q = "INDEX_CHKPT"
  \/ p = "INDEX_CHKPT" /\ q = "PREPARE"
  \/ p = "PREPARE" /\ q = "IN_PROGRESS"
  \/ p = "IN_PROGRESS" /\ q = "WAIT_PENDING"
  \/ p = "WAIT_PENDING" /\ q = "WAIT_FLUSH"
  \/ p = "WAIT_FLUSH" /\ q = "PERSISTENCE_CALLBACK"

LEMMA MoveIs ==
  ASSUME GlobalMoveToNextState
  PROVE  /\ Precedes(phase, phase')
         /\ phase = "INDEX_CHKPT" => CheckpointFuzzyIndexComplete
         /\ phase # "INDEX_CHKPT" => \A t \in Thread : seen[t] = phase
         /\ final' = IF phase' = "WAIT_FLUSH" THEN Len(log) + 1 ELSE final
         /\ UNCHANGED <<plan, log, entry, linked, seen, call, start, index_file, link_file,
                        contexts, disk, mem, truth>>
<1>1. PICK i \in 2 .. Len(Phases) - 1 :
        /\ Acknowledged(Phases[i]) /\ phase' = Phases[i + 1]
        /\ WriteCprMetadata(Phases[i + 1])
        /\ UNCHANGED <<plan, memory, seen, call, start, index_file, link_file, contexts, disk,
                       recovery, history>>
  BY DEF GlobalMoveToNextState
<1>2. i \in 2 .. 7
  BY <1>1, PhaseNumbers
<1>3. phase = Phases[i] /\ Precedes(Phases[i], Phases[i + 1])
  <2>1. CASE i = 2
    BY <1>1, <2>1, PhaseNumbers DEF Precedes, Acknowledged
  <2>2. CASE i = 3
    BY <1>1, <2>2, PhaseNumbers DEF Precedes, Acknowledged
  <2>3. CASE i = 4
    BY <1>1, <2>3, PhaseNumbers DEF Precedes, Acknowledged
  <2>4. CASE i = 5
    BY <1>1, <2>4, PhaseNumbers DEF Precedes, Acknowledged
  <2>5. CASE i = 6
    BY <1>1, <2>5, PhaseNumbers DEF Precedes, Acknowledged
  <2>6. CASE i = 7
    BY <1>1, <2>6, PhaseNumbers DEF Precedes, Acknowledged
  <2> QED
    BY <1>2, <2>1, <2>2, <2>3, <2>4, <2>5, <2>6
<1> QED
  BY <1>1, <1>3 DEF Acknowledged, IndexIsWritten, WriteCprMetadata, memory, recovery, history

LEMMA MoveOK ==
  ASSUME PlanInv, RunInv, GlobalMoveToNextState
  PROVE  PlanInv' /\ RunInv' /\ phase' \in PhaseSet
<1>0. LogInv /\ PhaseInv /\ VersionInv /\ PendingInv /\ DiskInv /\ IndexInv
  BY DEF RunInv
<1>1. /\ Precedes(phase, phase')
      /\ phase = "INDEX_CHKPT" => CheckpointFuzzyIndexComplete
      /\ phase # "INDEX_CHKPT" => \A t \in Thread : seen[t] = phase
      /\ final' = IF phase' = "WAIT_FLUSH" THEN Len(log) + 1 ELSE final
      /\ UNCHANGED <<plan, log, entry, linked, seen, call, start, index_file, link_file,
                     contexts, disk, mem, truth>>
  BY MoveIs
<1>2. StandStill
  BY <1>1 DEF StandStill, memory
<1>3. Len(log) \in Nat /\ start \in Nat /\ DOMAIN log = 1 .. Len(log)
  BY <1>0, LogFacts DEF PlanInv
<1>4. phase # "REST" /\ start \in 1 .. Len(log) + 1
  BY <1>0, <1>1 DEF VersionInv, Precedes
<1>5. PhaseInv'
  <2>1. \A t \in Thread : seen[t] \in Beside(phase')
    <3>1. CASE phase = "INDEX_CHKPT"
      BY <1>0, <1>1, <3>1 DEF PhaseInv, Beside, Precedes
    <3>2. CASE phase # "INDEX_CHKPT"
      BY <1>1, <3>2 DEF Beside, Precedes
    <3> QED
      BY <3>1, <3>2
  <2> QED
    BY <1>0, <1>1, <2>1 DEF PhaseInv
<1>6. phase' \in AfterLog => phase \in AfterLog \/ phase' = "WAIT_FLUSH"
  BY <1>1 DEF Precedes, AfterLog
<1>7. VersionInv'
  <2>1. phase' \in Early => phase \in Early
    BY <1>1 DEF Precedes, Early
  <2>2. phase' \in AfterLog => /\ final' \in start .. Len(log) + 1
                               /\ \A a \in DOMAIN log : log[a].version = 1 => a < final'
    <3>1. CASE phase' = "WAIT_FLUSH"
      BY <1>1, <1>3, <1>4, <3>1
    <3>2. CASE phase' # "WAIT_FLUSH"
      BY <1>0, <1>1, <1>6, <3>2 DEF VersionInv
    <3> QED
      BY <3>1, <3>2
  <2> QED
    BY <1>0, <1>1, <1>4, <2>1, <2>2 DEF VersionInv
<1>8. PendingInv'
  <2>1. phase' = "WAIT_FLUSH" => \A t \in Thread : seen[t] = "WAIT_PENDING"
    BY <1>1 DEF Precedes
  <2>2. phase' # "WAIT_FLUSH" => final' = final
    BY <1>1
  <2> QED
    BY <1>0, <1>1, <1>4, <1>6, <2>1, <2>2 DEF PendingInv
<1>9. DiskInv'
  <2>1. phase' \notin AfterLog => phase \notin AfterLog
    BY <1>1 DEF Precedes, AfterLog
  <2>2. ASSUME phase' = "WAIT_FLUSH"
        PROVE  contexts = {} /\ \A a \in 1 .. final' - 1 : disk[a] = Null
    <3>1. phase \notin AfterLog
      BY <1>1, <2>2 DEF Precedes, AfterLog
    <3>2. \A a \in 1 .. Len(log) : a \in DOMAIN disk
      <4>1. Len(log) <= MaxLog /\ MaxLog \in Nat /\ PageSize \in Nat
        BY <1>0, LogFacts, SizesAssumption
      <4> QED
        BY <1>3, <4>1 DEF PlanInv
    <3> QED
      BY <1>0, <1>1, <1>3, <2>2, <3>1, <3>2 DEF DiskInv
  <2>3. phase' # "WAIT_FLUSH" => final' = final
    BY <1>1
  <2> QED
    BY <1>0, <1>1, <1>6, <2>1, <2>2, <2>3 DEF DiskInv, Flushed
<1>10. CallInv'
  BY <1>1, <1>2, CallsStand
<1>11. IndexInv'
  <2>1. phase' \in BeforeIndex => phase \in BeforeIndex
    BY <1>1 DEF Precedes, BeforeIndex
  <2>2. phase' \notin BeforeIndex \cup {"INDEX_CHKPT"}
          => DOMAIN index_file = Entry /\ link_file # "none"
    <3>1. CASE phase = "INDEX_CHKPT"
      BY <1>0, <1>1, <3>1
         DEF IndexInv, CheckpointFuzzyIndexComplete, TableWritten, OverflowBucketsWritten
    <3>2. CASE phase # "INDEX_CHKPT"
      BY <1>0, <1>1, <3>2 DEF IndexInv, Precedes, BeforeIndex
    <3> QED
      BY <3>1, <3>2
  <2> QED
    BY <1>1, <1>2, <2>1, <2>2, IndexStands
<1>12. PlanInv'
  BY <1>1, <1>3 DEF PlanInv
<1>13. phase' \in PhaseSet
  BY <1>1 DEF Precedes, PhaseSet
<1> QED
  BY <1>2, <1>5, <1>7, <1>8, <1>9, <1>10, <1>11, <1>12, <1>13, StandStillFacts DEF RunInv

LEMMA FlushPageOK ==
  ASSUME PlanInv, RunInv, NEW p \in Pages, FlushPage(p)
  PROVE  PlanInv' /\ RunInv'
<1>0. LogInv /\ PhaseInv /\ VersionInv /\ PendingInv /\ DiskInv /\ IndexInv
  BY DEF RunInv
<1>1. /\ phase = "WAIT_FLUSH" /\ \A t \in Thread : seen[t] = "WAIT_FLUSH"
      /\ disk' = [a \in DOMAIN disk |-> IF Page(a) = p THEN InLog(log, a) ELSE disk[a]]
      /\ UNCHANGED <<plan, log, entry, linked, phase, seen, call, start, final, index_file,
                     link_file, contexts, mem, truth>>
  BY DEF FlushPage, memory, bounds, threads, files, recovery, history
<1>2. StandStill
  BY <1>1 DEF StandStill, memory
<1>3. PhaseInv' /\ VersionInv' /\ PendingInv'
  BY <1>0, <1>1 DEF PhaseInv, VersionInv, PendingInv
<1>4. CallInv'
  BY <1>1, <1>2, CallsStand
<1>5. IndexInv'
  BY <1>0, <1>1, <1>2, IndexStands DEF IndexInv
<1>6. phase \in AfterLog /\ final \in start .. Len(log) + 1 /\ start \in Nat /\ final \in Nat
  BY <1>0, <1>1 DEF VersionInv, AfterLog, PlanInv
<1>7. \A a \in 1 .. final - 1 : a \in DOMAIN log /\ a \in DOMAIN disk
  <2>1. Len(log) \in Nat /\ DOMAIN log = 1 .. Len(log) /\ Len(log) <= MaxLog
        /\ MaxLog \in Nat /\ PageSize \in Nat
    BY <1>0, LogFacts, SizesAssumption
  <2> QED
    BY <1>6, <2>1 DEF PlanInv
<1>8. \A a \in 1 .. final - 1 : disk'[a] = IF Page(a) = p THEN log[a] ELSE disk[a]
  BY <1>1, <1>7 DEF InLog
<1>9. \A a \in DOMAIN log : log[a] # Null
  <2>1. \A a \in DOMAIN log : log[a].version \in {1, 2}
    BY <1>0, LogFacts
  <2> QED
    BY <2>1 DEF Null
<1>10. DiskInv'
  BY <1>0, <1>1, <1>6, <1>7, <1>8, <1>9 DEF DiskInv, Flushed
<1>11. PlanInv'
  BY <1>1 DEF PlanInv
<1> QED
  BY <1>2, <1>3, <1>4, <1>5, <1>10, <1>11, StandStillFacts DEF RunInv

(***************************************************************************)
(* What a crash leaves.                                                    *)
(***************************************************************************)
\* Once a context is written the checkpoint on disk is the store's: the log up
\* to final_address, and an index that misses no record below start.
LEMMA CutOnDisk ==
  ASSUME PlanInv, RunInv, contexts # {}
  PROVE  /\ phase \in AfterLog
         /\ start \in 1 .. Len(log) + 1 /\ final \in start .. Len(log) + 1
         /\ \A a \in 1 .. final - 1 : a \in DOMAIN log /\ disk[a] = log[a] /\ ~Pending(a)
         /\ \A e : SavedCut(e) = Cut(e)
<1>0. LogInv /\ VersionInv /\ PendingInv /\ DiskInv
  BY DEF RunInv
<1>1. phase \in AfterLog /\ Flushed /\ phase # "REST"
  BY <1>0 DEF DiskInv, AfterLog
<1>2. /\ start \in 1 .. Len(log) + 1 /\ final \in start .. Len(log) + 1
      /\ Len(log) \in Nat /\ DOMAIN log = 1 .. Len(log)
  BY <1>0, <1>1, LogFacts DEF VersionInv
<1>3. ASSUME NEW a \in 1 .. final - 1
      PROVE  a \in DOMAIN log /\ disk[a] = log[a] /\ ~Pending(a)
  <2>1. a \in DOMAIN log /\ a < final
    BY <1>2
  <2>2. disk[a] = log[a] /\ \A t \in Thread : seen[t] # "WAIT_PENDING"
    BY <1>0, <1>1 DEF DiskInv, Flushed
  <2>3. ~Pending(a)
    BY <1>0, <1>1, <2>1, <2>2 DEF Pending, PendingInv
  <2> QED
    BY <2>1, <2>2, <2>3
<1>4. ASSUME NEW e PROVE SavedCut(e) = Cut(e)
  <2>1. ASSUME NEW a \in Cut(e) PROVE a \in SavedCut(e)
    <3>1. a \in DOMAIN log /\ log[a].version = 1 /\ ~log[a].invalid /\ plan.hash[log[a].key] = e
      BY <2>1 DEF Cut, Kept
    <3>2. a \in 1 .. final - 1
      <4>1. a < final
        BY <1>0, <1>1, <3>1 DEF VersionInv
      <4> QED
        BY <1>2, <3>1, <4>1
    <3> QED
      BY <1>3, <3>1, <3>2 DEF SavedCut
  <2>2. ASSUME NEW a \in SavedCut(e) PROVE a \in Cut(e)
    BY <1>3, <2>2 DEF SavedCut, Cut, Kept
  <2> QED
    BY <2>1, <2>2
<1> QED
  BY <1>1, <1>2, <1>3, <1>4

LEMMA CompleteIsSaved ==
  ASSUME PlanInv, RunInv, contexts # {}
  PROVE  SavedInv
<1>0. LogInv /\ ChainInv /\ TruthInv /\ VersionInv /\ IndexInv
  BY DEF RunInv
<1>1. /\ phase \in AfterLog
      /\ start \in 1 .. Len(log) + 1 /\ final \in start .. Len(log) + 1
      /\ \A a \in 1 .. final - 1 : a \in DOMAIN log /\ disk[a] = log[a] /\ ~Pending(a)
      /\ \A e : SavedCut(e) = Cut(e)
  BY CutOnDisk
<1>2. Len(log) \in Nat /\ DOMAIN log = 1 .. Len(log) /\ Len(log) <= MaxLog /\ MaxLog \in Nat
  BY <1>0, LogFacts, SizesAssumption
<1>3. SavedLog
  <2>1. 1 <= start /\ start <= final /\ final <= MaxLog + 1
    BY <1>1, <1>2
  <2>2. \A a \in 1 .. final - 1 : disk[a] \in LogRec /\ disk[a].previous < a
    BY <1>0, <1>1, LogFacts
  <2> QED
    BY <2>1, <2>2 DEF SavedLog
<1>4. ASSUME NEW e, NEW a \in Cut(e)
      PROVE  a \in DOMAIN log /\ a \in Kept(e) /\ log[a].version = 1 /\ a \in 1 .. final - 1
             /\ disk[a] = log[a]
  <2>1. a \in SavedCut(e)
    BY <1>1, <1>4
  <2> QED
    BY <1>1, <1>4, <2>1 DEF Cut, Kept, SavedCut
<1>5. ASSUME NEW e \in Entry, NEW a \in Cut(e)
      PROVE  IsTop({b \in Cut(e) : b < a}, disk[a].previous)
  <2>1. a \in Kept(e) /\ log[a].version = 1 /\ disk[a] = log[a]
    BY <1>4, <1>5
  <2>2. \A b \in Kept(e) : b < a => log[b].version = 1
    <3>1. SUFFICES ASSUME NEW b \in Kept(e), b < a PROVE log[b].version = 1
      OBVIOUS
    <3>2. log[b].version <= log[a].version
      BY <1>0, <2>1, <3>1 DEF ChainInv
    <3>3. log[b].version \in {1, 2}
      BY <1>0, <3>1, LogFacts DEF Kept
    <3> QED
      BY <2>1, <3>2, <3>3
  <2>3. {b \in Cut(e) : b < a} = {b \in Kept(e) : b < a}
    BY <2>2 DEF Cut
  <2> QED
    BY <1>0, <2>1, <2>3 DEF ChainInv
<1>6. ASSUME NEW a \in 1 .. final - 1, ~disk[a].invalid, disk[a].version = 2,
             disk[a].previous < start
      PROVE  IsTop(Cut(plan.hash[disk[a].key]), disk[a].previous)
  <2>1. a \in DOMAIN log /\ disk[a] = log[a] /\ ~Pending(a) /\ log[a].key \in Key
        /\ log[a].previous \in Nat
    BY <1>0, <1>1, <1>6, LogFacts
  <2>2. PICK e \in Entry : e = plan.hash[disk[a].key]
    BY <2>1 DEF PlanInv
  <2>3. a \in Kept(e)
    BY <1>6, <2>1, <2>2 DEF Kept
  <2>4. PICK p \in Nat : p = log[a].previous /\ p < start
    BY <1>6, <2>1
  <2>5. IsTop({b \in Kept(e) : b < a}, p)
    BY <1>0, <2>3, <2>4 DEF ChainInv
  <2>6. ASSUME NEW b \in Cut(e) PROVE b <= p
    <3>1. b \in Kept(e) /\ log[b].version = 1 /\ b \in Nat /\ a \in Nat
      BY <1>4, <2>6
    <3>2. ~(a < b)
      <4>1. a < b => log[a].version <= log[b].version
        BY <1>0, <2>3, <3>1 DEF ChainInv
      <4> QED
        BY <1>6, <2>1, <3>1, <4>1
    <3>3. b # a
      BY <1>6, <2>1, <3>1
    <3>4. b < a
      BY <3>1, <3>2, <3>3
    <3> QED
      BY <2>5, <3>1, <3>4 DEF IsTop
  <2>7. p \in Cut(e) \cup {0}
    <3>1. SUFFICES ASSUME p # 0 PROVE p \in Cut(e)
      OBVIOUS
    <3>2. p \in Kept(e)
      BY <2>5, <3>1 DEF IsTop
    <3>3. log[p].version = 1
      BY <1>0, <1>1, <2>4, <3>2 DEF VersionInv, Kept, AfterLog
    <3> QED
      BY <3>2, <3>3 DEF Cut
  <2> QED
    BY <2>1, <2>2, <2>4, <2>6, <2>7 DEF IsTop
<1>7. SavedChain
  BY <1>1, <1>5, <1>6 DEF SavedChain
<1>8. SavedTruth
  <2>1. ASSUME NEW k \in Key
        PROVE  IsTop({a \in SavedCut(plan.hash[k]) : disk[a].key = k}, truth[k])
    <3>1. {a \in SavedCut(plan.hash[k]) : disk[a].key = k}
            = {a \in Cut(plan.hash[k]) : log[a].key = k}
      BY <1>1, <1>4
    <3> QED
      BY <1>0, <3>1 DEF TruthInv
  <2> QED
    BY <2>1 DEF SavedTruth
<1>9. SavedIndex
  <2>1. DOMAIN index_file = Entry /\ link_file # "none"
    BY <1>0, <1>1 DEF IndexInv, BeforeIndex, AfterLog
  <2>2. ASSUME NEW e \in Entry
        PROVE  /\ RecoveredEntry(e) \in EntryRec /\ Indexed(Cut(e), RecoveredEntry(e).address)
               /\ RecoveredEntry(e).address # 0 => RecoveredEntry(e).used
    <3>1. /\ index_file[e] \in EntryRec /\ Indexed(Cut(e), index_file[e].address)
          /\ index_file[e].address # 0 => index_file[e].used /\ ~index_file[e].tentative
      BY <1>0, <2>1 DEF IndexInv
    <3>2. kInvalidEntry \in EntryRec /\ kInvalidEntry.address = 0 /\ ~kInvalidEntry.tentative
      BY DEF kInvalidEntry, EntryRec
    <3>3. CASE e \in Overflow /\ link_file # "linked"
      <4>1. RecoveredEntry(e) = kInvalidEntry
        BY <3>2, <3>3 DEF RecoveredEntry, RecoverFuzzyIndex, ReadOverflowBuckets
      <4>2. Indexed(Cut(e), 0)
        BY <1>0, <2>1, <3>3 DEF IndexInv
      <4> QED
        BY <3>2, <4>1, <4>2
    <3>4. CASE ~(e \in Overflow /\ link_file # "linked")
      <4>1. RecoveredEntry(e) = IF index_file[e].tentative THEN kInvalidEntry ELSE index_file[e]
        BY <3>4 DEF RecoveredEntry, RecoverFuzzyIndex, ReadOverflowBuckets, ReadTable
      <4> QED
        BY <3>1, <3>2, <4>1
    <3> QED
      BY <3>3, <3>4
  <2> QED
    BY <1>1, <2>1, <2>2 DEF SavedIndex
<1> QED
  BY <1>3, <1>7, <1>8, <1>9 DEF SavedInv

\* A step after the crash changes nothing of the checkpoint but the invalid bits
\* of records of the second version.
DiskFrame ==
  /\ UNCHANGED <<start, final, index_file, link_file, truth>>
  /\ plan'.hash = plan.hash
  /\ \A a \in 1 .. final - 1 :
       \/ disk'[a] = disk[a]
       \/ disk[a].version = 2 /\ disk'[a] = [disk[a] EXCEPT !.invalid = TRUE]

LEMMA SavedStays ==
  ASSUME PlanInv, SavedInv, DiskFrame
  PROVE  /\ SavedInv'
         /\ \A e : SavedCut(e)' = SavedCut(e)
         /\ \A e : RecoveredEntry(e)' = RecoveredEntry(e)
<1>0. SavedLog /\ SavedChain /\ SavedTruth /\ SavedIndex
  BY DEF SavedInv
<1>1. ASSUME NEW a \in 1 .. final - 1
      PROVE  /\ disk'[a] \in LogRec /\ disk'[a].version = disk[a].version
             /\ disk'[a].key = disk[a].key /\ disk'[a].previous = disk[a].previous
             /\ disk[a].invalid => disk'[a].invalid
             /\ disk[a].version = 1 => disk'[a] = disk[a]
             /\ disk[a].key \in Key
  <2>1. PICK d \in LogRec : d = disk[a]
    BY <1>0 DEF SavedLog
  <2>2. d.version \in {1, 2} /\ d.key \in Key
    BY DEF LogRec
  <2>3. CASE disk'[a] = d
    BY <2>1, <2>2, <2>3
  <2>4. CASE d.version = 2 /\ disk'[a] = [d EXCEPT !.invalid = TRUE]
    <3>1. /\ [d EXCEPT !.invalid = TRUE] \in LogRec
          /\ [d EXCEPT !.invalid = TRUE].version = d.version
          /\ [d EXCEPT !.invalid = TRUE].key = d.key
          /\ [d EXCEPT !.invalid = TRUE].previous = d.previous
          /\ [d EXCEPT !.invalid = TRUE].invalid
      BY DEF LogRec
    <3> QED
      BY <2>1, <2>2, <2>4, <3>1
  <2> QED
    BY <2>1, <2>3, <2>4 DEF DiskFrame
<1>2. start' = start /\ final' = final /\ truth' = truth /\ plan'.hash = plan.hash
      /\ index_file' = index_file /\ link_file' = link_file
  BY DEF DiskFrame
<1>3. \A e : SavedCut(e)' = SavedCut(e)
  BY <1>1, <1>2 DEF SavedCut
<1>4. \A e : RecoveredEntry(e)' = RecoveredEntry(e)
  BY <1>2 DEF RecoveredEntry, RecoverFuzzyIndex, ReadOverflowBuckets, ReadTable
<1>5. SavedLog'
  BY <1>0, <1>1, <1>2 DEF SavedLog
<1>6. SavedChain'
  <2>1. ASSUME NEW e \in Entry, NEW a \in SavedCut(e)
        PROVE  IsTop({b \in SavedCut(e) : b < a}, disk'[a].previous)
    <3>1. a \in 1 .. final - 1
      BY <2>1 DEF SavedCut
    <3> QED
      BY <1>0, <1>1, <2>1, <3>1 DEF SavedChain
  <2>2. ASSUME NEW a \in 1 .. final - 1, ~disk'[a].invalid, disk'[a].version = 2,
               disk'[a].previous < start
        PROVE  IsTop(SavedCut(plan.hash[disk'[a].key]), disk'[a].previous)
    <3>1. disk[a] \in LogRec /\ disk[a].invalid \in BOOLEAN
      BY <1>0 DEF SavedLog, LogRec
    <3> QED
      BY <1>0, <1>1, <2>2, <3>1 DEF SavedChain
  <2>3. ASSUME NEW e \in Entry, NEW a \in SavedCut(e)'
        PROVE  IsTop({b \in SavedCut(e)' : b < a}, disk'[a].previous)
    BY <1>3, <2>1, <2>3
  <2>4. ASSUME NEW a \in 1 .. final - 1, ~disk'[a].invalid, disk'[a].version = 2,
               disk'[a].previous < start
        PROVE  IsTop(SavedCut(plan.hash[disk[a].key]), disk[a].previous)'
    <3>1. PICK f : f = plan.hash[disk'[a].key] /\ f = plan'.hash[disk'[a].key]
      BY <1>2
    <3>2. PICK C : C = SavedCut(f) /\ C = SavedCut(plan.hash[disk[a].key])'
      <4>1. SavedCut(plan.hash[disk[a].key])' = SavedCut(f)'
        BY <3>1 DEF SavedCut
      <4> QED
        BY <1>3, <4>1
    <3>3. IsTop(C, disk'[a].previous)
      BY <2>2, <2>4, <3>1, <3>2
    <3> QED
      BY <3>2, <3>3 DEF IsTop
  <2> QED
    BY <1>2, <2>3, <2>4 DEF SavedChain, IsTop
<1>7. SavedTruth'
  <2>1. ASSUME NEW k \in Key
        PROVE  IsTop({a \in SavedCut(plan.hash[k]) : disk[a].key = k}, truth[k])'
    <3>1. PICK f : f = plan.hash[k] /\ f = plan'.hash[k]
      BY <1>2
    <3>2. PICK C : C = SavedCut(f) /\ C = SavedCut(plan.hash[k])'
      <4>1. SavedCut(plan.hash[k])' = SavedCut(f)'
        BY <3>1 DEF SavedCut
      <4> QED
        BY <1>3, <4>1
    <3>3. \A a \in C : disk'[a].key = disk[a].key
      BY <1>1, <3>2 DEF SavedCut
    <3>4. IsTop({a \in C : disk[a].key = k}, truth[k])
      BY <1>0, <3>1, <3>2 DEF SavedTruth
    <3>5. {a \in C : disk'[a].key = k} = {a \in C : disk[a].key = k}
      BY <3>3
    <3> QED
      BY <1>2, <3>2, <3>4, <3>5 DEF IsTop
  <2> QED
    BY <2>1 DEF SavedTruth
<1>8. SavedIndex'
  <2>1. ASSUME NEW e \in Entry
        PROVE  /\ (RecoveredEntry(e) \in EntryRec /\ Indexed(SavedCut(e), RecoveredEntry(e).address))'
               /\ (RecoveredEntry(e).address # 0 => RecoveredEntry(e).used)'
    <3>1. /\ RecoveredEntry(e) \in EntryRec /\ Indexed(SavedCut(e), RecoveredEntry(e).address)
          /\ RecoveredEntry(e).address # 0 => RecoveredEntry(e).used
      BY <1>0 DEF SavedIndex
    <3> QED
      BY <1>2, <1>3, <1>4, <3>1 DEF Indexed
  <2> QED
    BY <1>0, <1>2, <2>1 DEF SavedIndex
<1> QED
  BY <1>3, <1>4, <1>5, <1>6, <1>7, <1>8 DEF SavedInv

LEMMA CrashOK ==
  ASSUME RecoveryInv, Crash
  PROVE  RecoveryInv'
<1>0. /\ PlanInv /\ phase \in PhaseSet \cup Down
      /\ phase \in PhaseSet => RunInv
      /\ phase \in Down /\ CheckpointComplete => SavedInv
  BY DEF RecoveryInv
<1>1. /\ plan' = [plan EXCEPT !.crashes = @ - 1] /\ plan.crashes > 0 /\ phase' = "crashed"
      /\ mem' = [s \in 0 .. Capacity - 1 |-> [page |-> -1, recs |-> <<>>]]
      /\ UNCHANGED <<start, final, index_file, link_file, index_info, log_info, contexts, disk,
                     truth>>
  BY DEF Crash, bounds, files, history
<1>2. plan' \in PlanRec /\ plan'.hash = plan.hash /\ plan'.deletes = plan.deletes
  BY <1>0, <1>1 DEF PlanInv, PlanRec
<1>3. PlanInv'
  BY <1>0, <1>1, <1>2 DEF PlanInv
<1>4. CheckpointComplete => SavedInv
  <2>1. CheckpointComplete => contexts # {}
    BY SizesAssumption DEF CheckpointComplete
  <2> QED
    BY <1>0, <2>1, CompleteIsSaved
<1>5. CheckpointComplete' => SavedInv'
  <2>1. CheckpointComplete' => CheckpointComplete
    BY <1>1 DEF CheckpointComplete
  <2>2. DiskFrame
    BY <1>1, <1>2 DEF DiskFrame
  <2> QED
    BY <1>0, <1>4, <2>1, <2>2, SavedStays
<1> QED
  BY <1>1, <1>3, <1>5 DEF RecoveryInv, PhaseSet, Down

(***************************************************************************)
(* Pages.                                                                  *)
(***************************************************************************)
LEMMA TimesMono ==
  ASSUME NEW m \in Nat, NEW n \in Nat, NEW d \in Nat, m <= n
  PROVE  m * d <= n * d
<1>1. PICK x \in Nat : n = m + x
  <2>1. n - m \in Nat /\ n = m + (n - m)
    OBVIOUS
  <2> QED
    BY <2>1
<1>2. n * d = m * d + x * d /\ x * d \in Nat /\ m * d \in Nat
  BY <1>1, Z3
<1> QED
  BY <1>2

\* Place i of page p.
LEMMA PlaceOf ==
  ASSUME NEW p \in Nat, NEW i \in 1 .. PageSize
  PROVE  /\ p * PageSize \in Nat /\ p * PageSize + i \in Nat
         /\ p * PageSize + i > 0 /\ Page(p * PageSize + i) = p
<1>1. PageSize \in Nat \ {0}
  BY SizesAssumption
<1>2. p * PageSize \in Nat /\ PageSize * p = p * PageSize
  BY <1>1, Z3
<1>3. (PageSize * p + (i - 1)) \div PageSize = p
  BY <1>1, DivModUnique
<1>4. p * PageSize + i - 1 = PageSize * p + (i - 1)
  BY <1>1, <1>2
<1> QED
  BY <1>1, <1>2, <1>3, <1>4 DEF Page

LEMMA PageOfAddress ==
  ASSUME NEW a \in Nat, a > 0
  PROVE  /\ Page(a) \in Nat /\ Page(a) * PageSize \in Nat
         /\ a - Page(a) * PageSize \in 1 .. PageSize
<1>1. PageSize \in Nat \ {0} /\ a - 1 \in Nat
  BY SizesAssumption
<1>2. /\ (a - 1) \div PageSize \in Nat /\ (a - 1) % PageSize \in 0 .. PageSize - 1
      /\ a - 1 = PageSize * ((a - 1) \div PageSize) + ((a - 1) % PageSize)
  BY <1>1, DivMod
<1>3. PICK q \in Nat, r \in 0 .. PageSize - 1 : q = Page(a) /\ a - 1 = PageSize * q + r
  BY <1>2 DEF Page
<1>4. q * PageSize \in Nat /\ PageSize * q = q * PageSize
  BY <1>1, <1>3, Z3
<1> QED
  BY <1>1, <1>3, <1>4

\* A page ends at EndOf of the next.
LEMMA PageEnd ==
  ASSUME NEW a \in Nat, a > 0, NEW p \in Nat
  PROVE  EndOf(p) \in Nat /\ (a <= EndOf(p) <=> Page(a) < p)
<1>1. PICK q \in Nat, i \in 1 .. PageSize : q = Page(a) /\ a = q * PageSize + i
  <2>1. /\ Page(a) \in Nat /\ Page(a) * PageSize \in Nat
        /\ a - Page(a) * PageSize \in 1 .. PageSize
    BY PageOfAddress
  <2>2. a = Page(a) * PageSize + (a - Page(a) * PageSize)
    BY <2>1
  <2> QED
    BY <2>1, <2>2
<1>2. PageSize \in Nat /\ p * PageSize \in Nat /\ q * PageSize \in Nat
      /\ (q + 1) * PageSize = q * PageSize + PageSize
  <2>1. PageSize \in Nat
    BY SizesAssumption
  <2> QED
    BY <2>1, Z3
<1>3. CASE q < p
  <2>1. q + 1 <= p
    BY <1>3
  <2>2. (q + 1) * PageSize <= p * PageSize
    BY <1>2, <2>1, TimesMono
  <2> QED
    BY <1>1, <1>2, <1>3, <2>2 DEF EndOf
<1>4. CASE ~(q < p)
  <2>1. p * PageSize <= q * PageSize
    BY <1>2, <1>4, TimesMono
  <2> QED
    BY <1>1, <1>2, <1>4, <2>1 DEF EndOf
<1> QED
  BY <1>3, <1>4

LEMMA PageOrder ==
  ASSUME NEW a \in Nat, NEW b \in Nat, a > 0, a <= b
  PROVE  Page(a) \in Nat /\ Page(b) \in Nat /\ Page(a) <= Page(b)
<1>1. Page(a) \in Nat /\ Page(b) \in Nat
  BY PageOfAddress
<1>2. b <= EndOf(Page(b) + 1) /\ EndOf(Page(b) + 1) \in Nat
  BY <1>1, PageEnd
<1>3. Page(a) < Page(b) + 1
  BY <1>1, <1>2, PageEnd
<1> QED
  BY <1>1, <1>3

\* Pages that share a slot of the window are Capacity pages apart or more.
LEMMA SlotApart ==
  ASSUME NEW p \in Nat, NEW q \in Nat, p < q, Slot(p) = Slot(q)
  PROVE  q >= p + Capacity
<1>1. Capacity \in Nat \ {0}
  BY SizesAssumption
<1>2. \A m \in Nat : /\ m \div Capacity \in Nat /\ m % Capacity \in 0 .. Capacity - 1
                       /\ m = Capacity * (m \div Capacity) + (m % Capacity)
  BY <1>1, DivMod
<1>3. PICK x \in Nat, y \in Nat, r \in Nat : p = Capacity * x + r /\ q = Capacity * y + r
  <2>1. Slot(p) \in Nat /\ p = Capacity * (p \div Capacity) + Slot(p)
        /\ q = Capacity * (q \div Capacity) + Slot(p)
    BY <1>1, <1>2 DEF Slot
  <2> QED
    BY <1>2, <2>1
<1>4. PICK u \in Nat, v \in Nat : u = x * Capacity /\ v = y * Capacity
  BY <1>1, Z3
<1>5. p = u + r /\ q = v + r /\ (x + 1) * Capacity = u + Capacity
  <2>1. Capacity * x = x * Capacity /\ Capacity * y = y * Capacity
        /\ (x + 1) * Capacity = x * Capacity + Capacity
    BY <1>1, Z3
  <2> QED
    BY <1>3, <1>4, <2>1
<1>6. u < v
  BY <1>4, <1>5
<1>7. x < y
  <2>1. SUFFICES ASSUME y <= x PROVE FALSE
    OBVIOUS
  <2>2. v <= u
    BY <1>1, <1>4, <2>1, TimesMono
  <2> QED
    BY <1>4, <1>6, <2>2
<1>8. u + Capacity <= v
  <2>1. x + 1 <= y
    BY <1>7
  <2>2. (x + 1) * Capacity <= y * Capacity
    BY <1>1, <2>1, TimesMono
  <2> QED
    BY <1>4, <1>5, <2>2
<1> QED
  BY <1>1, <1>4, <1>5, <1>8

LEMMA SlotIn ==
  ASSUME NEW p \in Nat
  PROVE  Slot(p) \in 0 .. Capacity - 1 /\ Slot(p + Capacity) = Slot(p)
<1>1. Capacity \in Nat \ {0}
  BY SizesAssumption
<1>2. PICK x \in Nat, r \in 0 .. Capacity - 1 : p = Capacity * x + r /\ r = Slot(p)
  BY <1>1, DivMod DEF Slot
<1>3. (Capacity * (x + 1) + r) % Capacity = r
  BY <1>1, DivModUnique
<1>4. Capacity * (x + 1) = Capacity * x + Capacity /\ Capacity * x \in Nat
  BY <1>1, Z3
<1>5. p + Capacity = Capacity * (x + 1) + r
  BY <1>1, <1>2, <1>4
<1> QED
  BY <1>2, <1>3, <1>5 DEF Slot

\* The pages Recover goes through.
LEMMA ToRecoverIs ==
  ASSUME PlanInv, SavedLog
  PROVE  /\ ToRecover \subseteq Pages /\ Pages \subseteq Nat /\ Page(start) \in Nat
         /\ start >= final => ToRecover = {}
         /\ start < final => /\ Page(final - 1) \in Nat /\ Page(start) <= Page(final - 1)
                             /\ EndPage = Page(final - 1) + 1
                             /\ ToRecover = Page(start) .. Page(final - 1)
<1>1. start \in Nat /\ start > 0 /\ final \in Nat /\ start <= final /\ final - 1 <= MaxLog
      /\ MaxLog \in Nat /\ MaxLog > 0
  BY SizesAssumption DEF PlanInv, SavedLog
<1>2. Pages \subseteq Nat /\ Page(start) \in Nat /\ Page(MaxLog) \in Nat
  BY <1>1, PageOfAddress DEF Pages
<1>3. CASE start >= final
  BY <1>1, <1>2, <1>3 DEF ToRecover
<1>4. CASE start < final
  <2>1. Page(final - 1) \in Nat /\ Page(start) <= Page(final - 1)
        /\ Page(final - 1) <= Page(MaxLog)
    BY <1>1, <1>4, PageOrder
  <2>2. EndPage = Page(final - 1) + 1
    BY <1>1, <1>4 DEF EndPage
  <2>3. ToRecover = Page(start) .. Page(final - 1)
    BY <1>1, <1>2, <1>4, <2>1, <2>2 DEF ToRecover
  <2>4. ToRecover \subseteq Pages
    BY <1>2, <2>1, <2>3 DEF Pages
  <2> QED
    BY <1>1, <1>2, <1>4, <2>1, <2>2, <2>3, <2>4
<1> QED
  BY <1>1, <1>3, <1>4

(***************************************************************************)
(* The replay of a page.                                                   *)
(***************************************************************************)
LEMMA ReplayedRecordIs ==
  ASSUME NEW r \in LogRec, NEW a, NEW x
  PROVE  ReplayRecord(r, a, x)[1] = IF r.invalid \/ r.version = 1 THEN r
                                    ELSE [r EXCEPT !.invalid = TRUE]
<1>1. r.version \in {1, 2} /\ r # Null
  BY DEF LogRec, Null
<1> QED
  BY <1>1 DEF ReplayRecord

LEMMA ReplayedEntryIs ==
  ASSUME NEW r \in LogRec, NEW a, NEW x
  PROVE  ReplayRecord(r, a, x)[2] =
           IF r.invalid THEN x
           ELSE IF r.version = 1 THEN EntryAt(a)
           ELSE IF r.previous < start THEN EntryAt(r.previous)
           ELSE IF x.used THEN x ELSE EntryAt(kInvalidAddress)
<1>1. r.version \in {1, 2} /\ r # Null
  BY DEF LogRec, Null
<1> QED
  BY <1>1 DEF ReplayRecord

\* One step of the loop over a page, and a function that does what it does.
Mine(p, recs, e) ==
  {i \in InCheckpoint(p) : recs[i] # Null /\ plan.hash[recs[i].key] = e}
PlaceDone(p, recs, e, i, x) ==
  IF i \in Mine(p, recs, e) THEN ReplayRecord(recs[i], p * PageSize + i, x)[2] ELSE x
GoesThrough(p, recs, e, f) ==
  f = [i \in 0 .. PageSize |-> IF i = 0 THEN entry[e] ELSE PlaceDone(p, recs, e, i, f[i - 1])]

\* The records of a page on disk.
LEMMA PageRecords ==
  ASSUME PlanInv, SavedInv, NEW p \in Nat, NEW i \in 1 .. PageSize
  PROVE  /\ PageOf(disk, p)[i] = disk[p * PageSize + i]
         /\ i \in InCheckpoint(p)
              <=> start <= p * PageSize + i /\ p * PageSize + i <= final - 1
         /\ i \in InCheckpoint(p) => /\ p * PageSize + i \in 1 .. final - 1
                                     /\ PageOf(disk, p)[i] \in LogRec
                                     /\ PageOf(disk, p)[i] # Null
<1>1. p * PageSize \in Nat /\ p * PageSize + i \in Nat /\ p * PageSize + i > 0
  BY PlaceOf
<1>2. start \in Nat /\ final \in Nat
  BY DEF PlanInv
<1>3. PageOf(disk, p)[i] = disk[p * PageSize + i]
  BY DEF PageOf
<1>4. i \in InCheckpoint(p) <=> start <= p * PageSize + i /\ p * PageSize + i <= final - 1
  <2>1. PICK a \in Nat : a = p * PageSize + i
    BY <1>1
  <2>2. i \in InCheckpoint(p) <=> a >= start /\ a < final
    BY <2>1 DEF InCheckpoint
  <2> QED
    BY <1>2, <2>1, <2>2
<1>5. ASSUME i \in InCheckpoint(p)
      PROVE  /\ p * PageSize + i \in 1 .. final - 1
             /\ PageOf(disk, p)[i] \in LogRec /\ PageOf(disk, p)[i] # Null
  <2>1. p * PageSize + i \in 1 .. final - 1
    BY <1>1, <1>2, <1>4, <1>5
  <2>2. disk[p * PageSize + i] \in LogRec
    BY <2>1 DEF SavedInv, SavedLog
  <2>3. \A r \in LogRec : r # Null
    BY DEF LogRec, Null
  <2> QED
    BY <1>3, <2>1, <2>2, <2>3
<1> QED
  BY <1>3, <1>4, <1>5

LEMMA PlaceDoneType ==
  ASSUME PlanInv, SavedInv, NEW p \in Nat, NEW e, NEW i \in 1 .. PageSize, NEW x \in EntryRec
  PROVE  PlaceDone(p, PageOf(disk, p), e, i, x) \in EntryRec
<1>1. CASE i \notin Mine(p, PageOf(disk, p), e)
  BY <1>1 DEF PlaceDone
<1>2. CASE i \in Mine(p, PageOf(disk, p), e)
  <2>1. i \in InCheckpoint(p)
    BY <1>2 DEF Mine
  <2>2. PICK r \in LogRec : r = PageOf(disk, p)[i]
    BY <2>1, PageRecords
  <2>3. r.previous \in Nat /\ p * PageSize + i \in Nat
    BY PlaceOf DEF LogRec
  <2>4. \A a \in Nat : EntryAt(a) \in EntryRec
    BY DEF EntryAt, EntryRec
  <2>5. kInvalidAddress \in Nat
    BY DEF kInvalidAddress
  <2>6. PICK a \in Nat : a = p * PageSize + i
    BY <2>3
  <2>7. ReplayRecord(r, a, x)[2] \in {x, EntryAt(a), EntryAt(r.previous), EntryAt(kInvalidAddress)}
    <3>1. ReplayRecord(r, a, x)[2] =
            IF r.invalid THEN x
            ELSE IF r.version = 1 THEN EntryAt(a)
            ELSE IF r.previous < start THEN EntryAt(r.previous)
            ELSE IF x.used THEN x ELSE EntryAt(kInvalidAddress)
      BY <2>2, ReplayedEntryIs
    <3> QED
      BY <3>1, Zenon
  <2>8. ReplayRecord(r, a, x)[2] \in EntryRec
    BY <2>3, <2>4, <2>5, <2>7
  <2> QED
    BY <1>2, <2>2, <2>6, <2>8 DEF PlaceDone
<1> QED
  BY <1>1, <1>2

LEMMA ReplayExists ==
  ASSUME PlanInv, SavedInv, NEW p \in Nat, NEW e \in Entry, entry[e] \in EntryRec
  PROVE  \E f : GoesThrough(p, PageOf(disk, p), e, f)
<1>1. PICK recs : recs = PageOf(disk, p)
  OBVIOUS
<1>2. DEFINE h == [u \in Nat \X EntryRec |->
                     IF u[1] + 1 \in 1 .. PageSize THEN PlaceDone(p, recs, e, u[1] + 1, u[2])
                     ELSE u[2]]
<1>3. \A i \in 1 .. PageSize : \A x \in EntryRec : PlaceDone(p, recs, e, i, x) \in EntryRec
  BY <1>1, PlaceDoneType
<1>4. h \in [Nat \X EntryRec -> EntryRec]
  BY <1>3
<1>5. \A n \in Nat : \A x \in EntryRec :
        n + 1 \in 1 .. PageSize => h[<<n, x>>] = PlaceDone(p, recs, e, n + 1, x)
  OBVIOUS
<1>6. PICK g : Iterates(EntryRec, entry[e], h, g)
  <2>1. IsStep(EntryRec, entry[e], h)
    BY <1>4 DEF IsStep
  <2>2. HIDE DEF h
  <2> QED
    BY <2>1, Recursion
<1>7. DEFINE f == [i \in 0 .. PageSize |-> g[i]]
<1>8. PageSize \in Nat
  BY SizesAssumption
<1>9. ASSUME NEW i \in 0 .. PageSize
      PROVE  f[i] = IF i = 0 THEN entry[e] ELSE PlaceDone(p, recs, e, i, f[i - 1])
  <2>1. CASE i = 0
    BY <1>6, <1>8, <2>1 DEF Iterates
  <2>2. CASE i # 0
    <3>1. i - 1 \in Nat /\ i - 1 \in 0 .. PageSize /\ (i - 1) + 1 = i /\ i \in 1 .. PageSize
      BY <1>8, <2>2
    <3>2. g[i - 1] \in EntryRec /\ g[(i - 1) + 1] = h[<<i - 1, g[i - 1]>>]
      <4>1. HIDE DEF h
      <4> QED
        BY <1>6, <3>1 DEF Iterates
    <3>3. h[<<i - 1, g[i - 1]>>] = PlaceDone(p, recs, e, (i - 1) + 1, g[i - 1])
      <4>1. HIDE DEF h
      <4> QED
        BY <1>5, <3>1, <3>2
    <3>4. f[i] = g[i] /\ f[i - 1] = g[i - 1]
      BY <3>1
    <3>5. HIDE DEF f, h
    <3> QED
      BY <2>2, <3>1, <3>2, <3>3, <3>4
  <2> QED
    BY <2>1, <2>2
<1>10. GoesThrough(p, recs, e, f)
  <2>1. f = [i \in 0 .. PageSize |-> f[i]]
    OBVIOUS
  <2>2. HIDE DEF f
  <2> QED
    BY <1>9, <2>1 DEF GoesThrough
<1> QED
  BY <1>1, <1>10

LEMMA EntryAfterIs ==
  ASSUME PlanInv, SavedInv, NEW p \in Nat, NEW e \in Entry, entry[e] \in EntryRec
  PROVE  \E f : /\ f[0] = entry[e] /\ f[PageSize] = EntryAfter(p, PageOf(disk, p), e)
                /\ \A i \in 1 .. PageSize :
                     f[i] = PlaceDone(p, PageOf(disk, p), e, i, f[i - 1])
<1>1. PICK f : f = CHOOSE g : GoesThrough(p, PageOf(disk, p), e, g)
  OBVIOUS
<1>2. GoesThrough(p, PageOf(disk, p), e, f)
  BY <1>1, ReplayExists
<1>3. EntryAfter(p, PageOf(disk, p), e) = f[PageSize]
  BY <1>1 DEF EntryAfter, GoesThrough, PlaceDone, Mine
<1>4. PageSize \in Nat
  BY SizesAssumption
<1>5. \A i \in 0 .. PageSize : f[i] = IF i = 0 THEN entry[e]
                                      ELSE PlaceDone(p, PageOf(disk, p), e, i, f[i - 1])
  BY <1>2 DEF GoesThrough
<1>6. f[0] = entry[e] /\ \A i \in 1 .. PageSize :
                           f[i] = PlaceDone(p, PageOf(disk, p), e, i, f[i - 1])
  BY <1>4, <1>5
<1> QED
  BY <1>3, <1>6

\* A record that is not in the chain of e leaves its entry alone.
LEMMA ReplayedSkips ==
  ASSUME NEW e, NEW n \in Nat, NEW x, Replayed(e, n, x), n + 1 \notin SavedCut(e) \/ n + 1 < start,
         SavedCut(e) \subseteq Nat, start \in Nat
  PROVE  Replayed(e, n + 1, x)
<1>1. PICK S : S = {a \in SavedCut(e) : start <= a /\ a <= n}
  OBVIOUS
<1>2. {a \in SavedCut(e) : start <= a /\ a <= n + 1} = S
  BY <1>1
<1> QED
  BY <1>1, <1>2 DEF Replayed

LEMMA PlaceReplayed ==
  ASSUME PlanInv, SavedInv, NEW p \in Nat, NEW e \in Entry, NEW i \in 1 .. PageSize,
         NEW x, EntryDone(e, p * PageSize + i - 1, x)
  PROVE  EntryDone(e, p * PageSize + i, PlaceDone(p, PageOf(disk, p), e, i, x))
<1>0. SavedLog /\ SavedChain /\ SavedIndex
  BY DEF SavedInv
<1>1. PICK a \in Nat : a = p * PageSize + i /\ a > 0
  BY PlaceOf
<1>2. PICK n \in Nat : n = a - 1 /\ n = p * PageSize + i - 1 /\ a = n + 1
  <2>1. a - 1 \in Nat /\ a = (a - 1) + 1
    BY <1>1
  <2>2. p * PageSize + i - 1 = a - 1
    BY <1>1, PlaceOf
  <2> QED
    BY <2>1, <2>2
<1>3. x \in EntryRec /\ (x.address # 0 => x.used) /\ Replayed(e, n, x.address)
  BY <1>2 DEF EntryDone
<1>4. PICK y : y = PlaceDone(p, PageOf(disk, p), e, i, x)
  OBVIOUS
<1>5. y \in EntryRec
  BY <1>3, <1>4, PlaceDoneType
<1>6. start \in Nat /\ start > 0 /\ final \in Nat
  BY <1>0 DEF PlanInv, SavedLog
<1>7. SavedCut(e) \subseteq Nat /\ \A b \in SavedCut(e) : b > 0 /\ b \in 1 .. final - 1
  BY <1>6 DEF SavedCut
<1>8. i \in InCheckpoint(p) <=> start <= a /\ a <= final - 1
  BY <1>1, PageRecords
<1>9. CASE i \notin InCheckpoint(p)
  <2>1. y = x
    BY <1>4, <1>9 DEF PlaceDone, Mine
  <2>2. n + 1 \notin SavedCut(e) \/ n + 1 < start
    BY <1>1, <1>2, <1>6, <1>7, <1>8, <1>9
  <2>3. Replayed(e, a, x.address)
    BY <1>2, <1>3, <1>7, <1>6, <2>2, ReplayedSkips
  <2> QED
    BY <1>1, <1>3, <1>4, <2>1, <2>3 DEF EntryDone
<1>10. CASE i \in InCheckpoint(p)
  <2>1. PICK r \in LogRec : r = disk[a] /\ r = PageOf(disk, p)[i] /\ r # Null
    BY <1>1, <1>10, PageRecords
  <2>2. r.version \in {1, 2} /\ r.previous \in Nat /\ r.key \in Key /\ start <= a
        /\ a \in 1 .. final - 1
    BY <1>1, <1>6, <1>8, <1>10 DEF LogRec
  <2>3. a \in SavedCut(e) <=> r.version = 1 /\ ~r.invalid /\ plan.hash[r.key] = e
    BY <2>1, <2>2 DEF SavedCut
  <2>4. CASE plan.hash[r.key] # e \/ r.invalid
    <3>1. y = x
      <4>1. CASE plan.hash[r.key] # e
        BY <1>4, <2>1, <4>1 DEF PlaceDone, Mine
      <4>2. CASE r.invalid /\ plan.hash[r.key] = e
        <5>1. ReplayRecord(r, p * PageSize + i, x)[2] = x
          BY <2>1, <4>2, ReplayedEntryIs
        <5> QED
          BY <1>4, <2>1, <5>1 DEF PlaceDone
      <4> QED
        BY <2>4, <4>1, <4>2
    <3>2. Replayed(e, a, x.address)
      <4>1. n + 1 \notin SavedCut(e)
        BY <1>2, <2>3, <2>4
      <4> QED
        BY <1>2, <1>3, <1>7, <1>6, <4>1, ReplayedSkips
    <3> QED
      BY <1>1, <1>3, <1>4, <3>1, <3>2 DEF EntryDone
  <2>5. CASE plan.hash[r.key] = e /\ ~r.invalid
    <3>1. i \in Mine(p, PageOf(disk, p), e)
      BY <1>10, <2>1, <2>5 DEF Mine
    <3>2. y = ReplayRecord(r, a, x)[2]
      BY <1>1, <1>4, <2>1, <3>1 DEF PlaceDone
    <3>3. y = IF r.version = 1 THEN EntryAt(a)
              ELSE IF r.previous < start THEN EntryAt(r.previous)
              ELSE IF x.used THEN x ELSE EntryAt(kInvalidAddress)
      BY <2>1, <2>5, <3>2, ReplayedEntryIs
    <3>4. CASE r.version = 1
      <4>1. y = EntryAt(a) /\ y.address = a /\ y.used
        BY <3>3, <3>4 DEF EntryAt
      <4>2. a \in SavedCut(e)
        BY <2>3, <2>5, <3>4
      <4>3. PICK S : S = {b \in SavedCut(e) : start <= b /\ b <= a}
        OBVIOUS
      <4>4. a \in S /\ \A b \in S : b <= a
        BY <2>2, <4>2, <4>3
      <4>5. Replayed(e, a, a)
        BY <4>3, <4>4 DEF Replayed, IsTop
      <4> QED
        BY <1>1, <1>4, <1>5, <4>1, <4>5 DEF EntryDone
    <3>5. CASE r.version = 2 /\ r.previous < start
      <4>1. y = EntryAt(r.previous) /\ y.address = r.previous /\ y.used
        BY <3>3, <3>5 DEF EntryAt
      <4>2. PICK q \in Nat : q = r.previous /\ q < start
        BY <2>2, <3>5
      <4>3. IsTop(SavedCut(e), q)
        BY <1>0, <2>1, <2>2, <2>5, <3>5, <4>2 DEF SavedChain
      <4>4. {b \in SavedCut(e) : start <= b /\ b <= a} = {}
        <5>1. \A b \in SavedCut(e) : b <= q /\ b \in Nat
          BY <1>7, <4>3 DEF IsTop
        <5> QED
          BY <1>6, <4>2, <5>1
      <4>5. q = RecoveredEntry(e).address
        <5>1. PICK z : z = RecoveredEntry(e).address
          OBVIOUS
        <5>2. z \in SavedCut(e) \cup {0} /\ \A b \in SavedCut(e) : b < start => b <= z
          BY <1>0, <5>1 DEF SavedIndex, Indexed
        <5>3. q \in SavedCut(e) \cup {0} /\ \A b \in SavedCut(e) : b <= q
          BY <4>3 DEF IsTop
        <5>4. z \in Nat
          BY <1>7, <5>2
        <5>5. z <= q
          BY <4>2, <5>2, <5>3
        <5>6. q <= z
          BY <4>2, <5>2, <5>3, <5>4
        <5> QED
          BY <4>2, <5>1, <5>4, <5>5, <5>6
      <4>6. Replayed(e, a, q)
        BY <4>4, <4>5 DEF Replayed
      <4> QED
        BY <1>1, <1>4, <1>5, <4>1, <4>2, <4>6 DEF EntryDone
    <3>6. CASE r.version = 2 /\ ~(r.previous < start)
      <4>1. y.address = x.address /\ y.used
        <5>1. CASE x.used
          BY <3>3, <3>6, <5>1
        <5>2. CASE ~x.used
          BY <1>3, <3>3, <3>6, <5>2 DEF EntryAt, kInvalidAddress
        <5> QED
          BY <5>1, <5>2
      <4>2. Replayed(e, a, x.address)
        <5>1. n + 1 \notin SavedCut(e)
          BY <1>2, <2>3, <3>6
        <5> QED
          BY <1>2, <1>3, <1>7, <1>6, <5>1, ReplayedSkips
      <4> QED
        BY <1>1, <1>4, <1>5, <4>1, <4>2 DEF EntryDone
    <3> QED
      BY <2>2, <3>4, <3>5, <3>6
  <2> QED
    BY <2>4, <2>5
<1> QED
  BY <1>9, <1>10

LEMMA PageReplayed ==
  ASSUME PlanInv, SavedInv, NEW p \in Nat, NEW e \in Entry, EntryDone(e, EndOf(p), entry[e])
  PROVE  EntryDone(e, EndOf(p + 1), EntryAfter(p, PageOf(disk, p), e))
<1>1. PICK f : /\ f[0] = entry[e] /\ f[PageSize] = EntryAfter(p, PageOf(disk, p), e)
               /\ \A i \in 1 .. PageSize :
                    f[i] = PlaceDone(p, PageOf(disk, p), e, i, f[i - 1])
  BY EntryAfterIs DEF EntryDone
<1>2. PageSize \in Nat
  BY SizesAssumption
<1>3. p * PageSize \in Nat /\ (p + 1) * PageSize = p * PageSize + PageSize
  BY <1>2, Z3
<1>4. DEFINE S == {i \in 0 .. PageSize : EntryDone(e, p * PageSize + i, f[i])}
<1>5. 0 \in S
  <2>1. p * PageSize + 0 = EndOf(p)
    BY <1>3 DEF EndOf
  <2> QED
    BY <1>1, <1>2, <2>1
<1>6. ASSUME NEW i \in 0 .. PageSize - 1, i \in S PROVE i + 1 \in S
  <2>1. i + 1 \in 1 .. PageSize /\ (i + 1) - 1 = i
        /\ p * PageSize + (i + 1) - 1 = p * PageSize + i
    BY <1>2, <1>3
  <2>2. EntryDone(e, p * PageSize + (i + 1) - 1, f[i])
    BY <1>6, <2>1
  <2>3. EntryDone(e, p * PageSize + (i + 1), PlaceDone(p, PageOf(disk, p), e, i + 1, f[i]))
    BY <2>1, <2>2, PlaceReplayed
  <2>4. f[i + 1] = PlaceDone(p, PageOf(disk, p), e, i + 1, f[i])
    BY <1>1, <2>1
  <2> QED
    BY <1>2, <2>1, <2>3, <2>4
<1>7. 0 .. PageSize \subseteq S
  <2>1. HIDE DEF S
  <2> QED
    BY <1>2, <1>5, <1>6, UptoInductionSet
<1>8. EntryDone(e, p * PageSize + PageSize, f[PageSize])
  BY <1>2, <1>7
<1> QED
  BY <1>1, <1>3, <1>8 DEF EndOf

(***************************************************************************)
(* Recover.                                                                *)
(***************************************************************************)
\* What a step of the recovery needs and leaves alone.
RecoveringInv ==
  PlanInv /\ SavedInv /\ CheckpointComplete /\ WindowInv /\ ReplayInv /\ EntriesInv

LEMMA RecoveringIs ==
  /\ RecoveryInv /\ phase = "recovering" => RecoveringInv
  /\ RecoveringInv' /\ phase' = "recovering" => RecoveryInv'
BY DEF RecoveryInv, RecoveringInv, Down, PhaseSet

LEMMA NoStatusIs ==
  /\ "NotStarted" # "IssuedRead" /\ "NotStarted" # "ReadDone" /\ "NotStarted" # "IssuedFlush"
  /\ "NotStarted" # "FlushDone"
OBVIOUS

LEMMA RecoverOK ==
  ASSUME RecoveryInv, Recover
  PROVE  RecoveryInv'
<1>0. PlanInv /\ phase = "crashed" /\ (CheckpointComplete => SavedInv)
  BY DEF RecoveryInv, Recover, Down
<1>1. UNCHANGED <<plan, start, final, index_file, link_file, index_info, log_info, contexts,
                  disk, mem, truth>>
  BY DEF Recover, bounds, files, history
<1>2. PlanInv'
  BY <1>0, <1>1 DEF PlanInv
<1>3. DiskFrame
  BY <1>1 DEF DiskFrame
<1>4. CheckpointComplete' => CheckpointComplete
  BY <1>1 DEF CheckpointComplete
<1>5. CheckpointComplete' => SavedInv'
  BY <1>0, <1>3, <1>4, SavedStays
<1>6. CASE ~(ReadIndexMetadata /\ ReadCprMetadata /\ ReadCprContexts)
  <2>1. phase' = "refused"
    BY <1>6 DEF Recover
  <2> QED
    BY <1>2, <1>5, <2>1 DEF RecoveryInv, PhaseSet, Down
<1>7. CASE ReadIndexMetadata /\ ReadCprMetadata /\ ReadCprContexts
  <2>1. /\ phase' = "recovering" /\ entry' = [e \in Entry |-> RecoveredEntry(e)]
        /\ replayed' = Page(start)
        /\ page_status' = [p \in Pages |->
             IF p \in ReadFirst THEN "IssuedRead" ELSE "NotStarted"]
    BY <1>7 DEF Recover
  <2>2. CheckpointComplete /\ CheckpointComplete'
    BY <1>1, <1>7
       DEF CheckpointComplete, ReadIndexMetadata, ReadCprMetadata, ReadCprContexts
  <2>3. SavedInv /\ SavedLog /\ SavedIndex /\ SavedInv'
    BY <1>0, <1>5, <2>2 DEF SavedInv
  <2>4. \A e : SavedCut(e)' = SavedCut(e) /\ RecoveredEntry(e)' = RecoveredEntry(e)
    BY <1>0, <1>3, <2>3, SavedStays
  <2>5. start \in Nat /\ start > 0 /\ Page(start) \in Nat /\ final \in Nat
    <3>1. start \in Nat /\ start > 0 /\ final \in Nat
      BY <1>0, <2>3 DEF PlanInv, SavedLog
    <3> QED
      BY <3>1, PageOfAddress
  <2>6. ToRecover' = ToRecover
    BY <1>1 DEF ToRecover, EndPage
  <2>7. /\ ToRecover \subseteq Pages /\ Pages \subseteq Nat
        /\ \A p \in ToRecover : Page(start) <= p
        /\ ToRecover # {} => EndPage \in Nat /\ Page(start) <= EndPage
    BY <1>0, <2>3, <2>5, ToRecoverIs
  <2>8. \A p \in Pages : /\ page_status'[p] \in {"NotStarted", "IssuedRead"}
                         /\ page_status'[p] # "NotStarted" <=> p \in ReadFirst
    BY <2>1
  <2>9. ASSUME NEW p \in Pages, NEW q \in Pages, p < q, Slot(p) = Slot(q),
               q \in ReadFirst, p \in ToRecover
        PROVE  FALSE
    <3>1. p \in Nat /\ q \in Nat /\ Page(start) <= p
      BY <2>7, <2>9
    <3>2. q < Page(start) + Capacity
      BY <2>9 DEF ReadFirst
    <3>3. q >= p + Capacity
      BY <2>9, <3>1, SlotApart
    <3>4. Capacity \in Nat
      BY SizesAssumption
    <3> QED
      BY <2>5, <3>1, <3>2, <3>3, <3>4
  <2>10. WindowInv'
    <3>1. DOMAIN page_status' = Pages
      BY <2>1
    <3>2. \A p \in Pages \ ToRecover : page_status'[p] = "NotStarted"
      BY <2>8 DEF ReadFirst
    <3> QED
      BY <2>6, <2>8, <2>9, <3>1, <3>2 DEF WindowInv, Begun
  <2>11. ReplayInv'
    <3>1. \A p \in ToRecover : ~(p < Page(start))
      BY <2>5, <2>7
    <3>2. EndPage' = EndPage
      BY <1>1 DEF EndPage
    <3>3. \A p \in ToRecover : page_status'[p] \in {"NotStarted", "IssuedRead", "ReadDone"}
      BY <2>7, <2>8
    <3>4. \A p \in Pages : page_status'[p] # "FlushDone"
      BY <2>8
    <3>5. replayed' \in Nat /\ Page(start)' <= replayed'
          /\ (ToRecover # {} => replayed' <= EndPage)
      BY <1>1, <2>1, <2>5, <2>7
    <3> QED
      BY <1>1, <2>1, <2>6, <3>1, <3>2, <3>3, <3>4, <3>5 DEF ReplayInv
  <2>12. EntriesInv'
    <3>1. \A e \in Entry : entry'[e] = RecoveredEntry(e) /\ RecoveredEntry(e) \in EntryRec
                           /\ (RecoveredEntry(e).address # 0 => RecoveredEntry(e).used)
      BY <2>1, <2>3 DEF SavedIndex
    <3>2. ASSUME NEW e \in Entry PROVE EntryDone(e, EndOf(replayed), entry[e])'
      <4>1. EndOf(replayed)' = EndOf(Page(start))
        BY <2>1 DEF EndOf
      <4>2. ~(start <= EndOf(Page(start))) /\ EndOf(Page(start)) \in Nat
        BY <2>5, PageEnd
      <4>3. PICK n \in Nat : n = EndOf(Page(start)) /\ n < start
        BY <2>5, <4>2
      <4>4. {a \in SavedCut(e)' : start <= a /\ a <= n} = {}
        BY <2>4, <2>5, <4>3 DEF SavedCut
      <4>5. Replayed(e, EndOf(replayed), entry[e].address)'
        BY <1>1, <2>4, <3>1, <4>1, <4>3, <4>4 DEF Replayed
      <4> QED
        BY <3>1, <4>5 DEF EntryDone
    <3>3. entry' \in [Entry -> EntryRec]
      BY <2>1, <3>1
    <3> QED
      BY <3>2, <3>3 DEF EntriesInv
  <2> QED
    BY <1>2, <2>1, <2>2, <2>3, <2>10, <2>11, <2>12, RecoveringIs DEF RecoveringInv
<1> QED
  BY <1>6, <1>7

\* No two pages of a slot are at work at once.
LEMMA OneInSlot ==
  ASSUME PlanInv, SavedInv, WindowInv, NEW p \in Pages, NEW q \in Pages, p # q,
         Slot(p) = Slot(q), Begun(p), Begun(q)
  PROVE  page_status[p] = "FlushDone" \/ page_status[q] = "FlushDone"
<1>1. p \in Nat /\ q \in Nat
  BY ToRecoverIs DEF SavedInv
<1>2. p \in ToRecover /\ q \in ToRecover
  BY DEF WindowInv, Begun
<1>3. p < q \/ q < p
  BY <1>1
<1> QED
  BY <1>2, <1>3 DEF WindowInv

LEMMA ReadDoneOK ==
  ASSUME RecoveringInv, NEW p \in Pages, ReadDone(p)
  PROVE  RecoveringInv'
<1>0. PlanInv /\ SavedInv /\ CheckpointComplete /\ WindowInv /\ ReplayInv /\ EntriesInv
  BY DEF RecoveringInv
<1>1. /\ page_status[p] = "IssuedRead"
      /\ mem' = [mem EXCEPT ![Slot(p)] = [page |-> p, recs |-> PageOf(disk, p)]]
      /\ page_status' = [page_status EXCEPT ![p] = "ReadDone"]
      /\ UNCHANGED <<plan, entry, start, final, index_file, link_file, index_info, log_info,
                     contexts, disk, replayed, truth>>
  BY DEF ReadDone, SetStatus, memory, bounds, files, history
<1>2. p \in Nat /\ Slot(p) \in DOMAIN mem /\ Pages \subseteq Nat
  BY <1>0, ToRecoverIs, SlotIn DEF SavedInv, PlanInv
<1>3. /\ page_status'[p] = "ReadDone" /\ DOMAIN page_status' = Pages
      /\ \A q \in Pages \ {p} : page_status'[q] = page_status[q]
  BY <1>0, <1>1 DEF WindowInv
<1>4. /\ mem'[Slot(p)].recs = PageOf(disk, p) /\ DOMAIN mem' = DOMAIN mem
      /\ \A s \in DOMAIN mem \ {Slot(p)} : mem'[s] = mem[s]
      /\ mem'[Slot(p)] = [page |-> p, recs |-> PageOf(disk, p)]
  BY <1>1, <1>2
<1>5. PlanInv'
  <2>1. \A s \in DOMAIN mem' : mem'[s] = [page |-> mem'[s].page, recs |-> mem'[s].recs]
    BY <1>0, <1>4 DEF PlanInv
  <2> QED
    BY <1>0, <1>1, <1>4, <2>1 DEF PlanInv
<1>6. DiskFrame
  BY <1>1 DEF DiskFrame
<1>7. /\ SavedInv' /\ \A e : SavedCut(e)' = SavedCut(e) /\ RecoveredEntry(e)' = RecoveredEntry(e)
  BY <1>0, <1>6, SavedStays
<1>8. ToRecover' = ToRecover /\ EndPage' = EndPage
  BY <1>1 DEF ToRecover, EndPage
<1>9. p \in ToRecover
  BY <1>0, <1>1 DEF WindowInv
<1>10. \A q \in Pages : RecordsAfter(q, PageOf(disk, q))' = RecordsAfter(q, PageOf(disk, q))
                        /\ PageOf(disk, q)' = PageOf(disk, q)
  BY <1>1 DEF RecordsAfter, PageOf, InCheckpoint, ReplayRecord
<1>11. WindowInv'
  <2>1. \A q \in Pages : Begun(q)' <=> Begun(q)
    BY <1>1, <1>3 DEF Begun
  <2>2. ASSUME NEW q \in Pages
        PROVE  /\ page_status'[q] = "ReadDone" => mem'[Slot(q)].recs = PageOf(disk, q)
               /\ page_status'[q] = "IssuedFlush"
                    => mem'[Slot(q)].recs = RecordsAfter(q, PageOf(disk, q))
    <3>1. CASE q = p
      BY <1>3, <1>4, <3>1
    <3>2. CASE q # p /\ Slot(q) = Slot(p)
      <4>1. page_status[q] \in {"NotStarted", "FlushDone"}
        BY <1>0, <1>1, <3>2, OneInSlot DEF Begun
      <4> QED
        BY <1>3, <3>2, <4>1
    <3>3. CASE q # p /\ Slot(q) # Slot(p)
      <4>1. mem'[Slot(q)] = mem[Slot(q)]
        BY <1>0, <1>2, <1>4, <3>3, SlotIn DEF PlanInv
      <4> QED
        BY <1>0, <1>3, <3>3, <4>1 DEF WindowInv
    <3> QED
      BY <3>1, <3>2, <3>3
  <2>3. \A q \in Pages : page_status'[q] \in
          {"NotStarted", "IssuedRead", "ReadDone", "IssuedFlush", "FlushDone"}
    BY <1>0, <1>3 DEF WindowInv
  <2>4. \A q \in Pages \ ToRecover : page_status'[q] = "NotStarted"
    BY <1>0, <1>3, <1>9 DEF WindowInv
  <2>5. \A r \in Pages : \A q \in Pages :
          r < q /\ Slot(r) = Slot(q) /\ Begun(q) /\ r \in ToRecover
          => page_status'[r] = "FlushDone"
    <3>1. \A r \in Pages : page_status[r] = "FlushDone" => page_status'[r] = "FlushDone"
      BY <1>1, <1>3
    <3> QED
      BY <1>0, <3>1 DEF WindowInv
  <2>6. \A q \in Pages : Slot(q)' = Slot(q)
    OBVIOUS
  <2> QED
    BY <1>3, <1>8, <1>10, <2>1, <2>2, <2>3, <2>4, <2>5 DEF WindowInv
<1>12. ReplayInv'
  BY <1>0, <1>1, <1>3, <1>8, <1>9 DEF ReplayInv, Marked
<1>13. EntriesInv'
  BY <1>0, <1>1, <1>7 DEF EntriesInv, EntryDone, Replayed, IsTop
<1>14. CheckpointComplete'
  BY <1>0, <1>1 DEF CheckpointComplete
<1> QED
  BY <1>5, <1>7, <1>11, <1>12, <1>13, <1>14 DEF RecoveringInv

LEMMA ReplayOK ==
  ASSUME RecoveringInv, NEW p \in Pages, Replay(p)
  PROVE  RecoveringInv'
<1>0. PlanInv /\ SavedInv /\ CheckpointComplete /\ WindowInv /\ ReplayInv /\ EntriesInv
  BY DEF RecoveringInv
<1>1. /\ replayed = p /\ page_status[p] = "ReadDone"
      /\ entry' = [e \in Entry |-> EntryAfter(p, mem[Slot(p)].recs, e)]
      /\ mem' = [mem EXCEPT ![Slot(p)].recs = RecordsAfter(p, @)]
      /\ replayed' = p + 1
      /\ page_status' = [page_status EXCEPT ![p] = "IssuedFlush"]
      /\ UNCHANGED <<plan, start, final, index_file, link_file, index_info, log_info,
                     contexts, disk, truth>>
  BY DEF Replay, RecoverFromPage, SetStatus, bounds, files, history
<1>2. p \in Nat /\ Slot(p) \in DOMAIN mem /\ Pages \subseteq Nat
  BY <1>0, ToRecoverIs, SlotIn DEF SavedInv, PlanInv
<1>3. /\ page_status'[p] = "IssuedFlush" /\ DOMAIN page_status' = Pages
      /\ \A q \in Pages \ {p} : page_status'[q] = page_status[q]
  BY <1>0, <1>1 DEF WindowInv
<1>4. mem[Slot(p)].recs = PageOf(disk, p)
  BY <1>0, <1>1 DEF WindowInv
<1>5. /\ mem'[Slot(p)].recs = RecordsAfter(p, PageOf(disk, p)) /\ DOMAIN mem' = DOMAIN mem
      /\ \A s \in DOMAIN mem \ {Slot(p)} : mem'[s] = mem[s]
      /\ mem'[Slot(p)] = [page |-> mem'[Slot(p)].page, recs |-> mem'[Slot(p)].recs]
  <2>1. mem[Slot(p)] = [page |-> mem[Slot(p)].page, recs |-> mem[Slot(p)].recs]
    BY <1>0, <1>2 DEF PlanInv
  <2>2. PICK pg, rs : mem[Slot(p)] = [page |-> pg, recs |-> rs] /\ rs = mem[Slot(p)].recs
    BY <2>1
  <2>3. PICK new : new = RecordsAfter(p, rs)
    OBVIOUS
  <2>4. mem' = [mem EXCEPT ![Slot(p)] = [mem[Slot(p)] EXCEPT !.recs = new]]
    BY <1>1, <2>2, <2>3
  <2>5. [mem[Slot(p)] EXCEPT !.recs = new] = [page |-> pg, recs |-> new]
    BY <2>2
  <2>6. mem'[Slot(p)] = [page |-> pg, recs |-> new] /\ DOMAIN mem' = DOMAIN mem
        /\ \A s \in DOMAIN mem \ {Slot(p)} : mem'[s] = mem[s]
    BY <1>2, <2>4, <2>5
  <2> QED
    BY <1>4, <2>2, <2>3, <2>6
<1>6. PlanInv'
  <2>1. \A s \in DOMAIN mem' : mem'[s] = [page |-> mem'[s].page, recs |-> mem'[s].recs]
    BY <1>0, <1>5 DEF PlanInv
  <2> QED
    BY <1>0, <1>1, <1>5, <2>1 DEF PlanInv
<1>7. DiskFrame
  BY <1>1 DEF DiskFrame
<1>8. /\ SavedInv' /\ \A e : SavedCut(e)' = SavedCut(e) /\ RecoveredEntry(e)' = RecoveredEntry(e)
  BY <1>0, <1>7, SavedStays
<1>9. ToRecover' = ToRecover /\ EndPage' = EndPage
  BY <1>1 DEF ToRecover, EndPage
<1>10. p \in ToRecover
  BY <1>0, <1>1 DEF WindowInv
<1>11. \A q \in Pages : RecordsAfter(q, PageOf(disk, q))' = RecordsAfter(q, PageOf(disk, q))
                        /\ PageOf(disk, q)' = PageOf(disk, q)
  BY <1>1 DEF RecordsAfter, PageOf, InCheckpoint, ReplayRecord
<1>12. WindowInv'
  <2>1. \A q \in Pages : Begun(q)' <=> Begun(q)
    BY <1>1, <1>3 DEF Begun
  <2>2. ASSUME NEW q \in Pages
        PROVE  /\ page_status'[q] = "ReadDone" => mem'[Slot(q)].recs = PageOf(disk, q)
               /\ page_status'[q] = "IssuedFlush"
                    => mem'[Slot(q)].recs = RecordsAfter(q, PageOf(disk, q))
    <3>1. CASE q = p
      BY <1>3, <1>5, <3>1
    <3>2. CASE q # p /\ Slot(q) = Slot(p)
      <4>1. page_status[q] \in {"NotStarted", "FlushDone"}
        BY <1>0, <1>1, <3>2, OneInSlot DEF Begun
      <4> QED
        BY <1>3, <3>2, <4>1
    <3>3. CASE q # p /\ Slot(q) # Slot(p)
      <4>1. mem'[Slot(q)] = mem[Slot(q)]
        BY <1>0, <1>2, <1>5, <3>3, SlotIn DEF PlanInv
      <4> QED
        BY <1>0, <1>3, <3>3, <4>1 DEF WindowInv
    <3> QED
      BY <3>1, <3>2, <3>3
  <2>3. \A q \in Pages : page_status'[q] \in
          {"NotStarted", "IssuedRead", "ReadDone", "IssuedFlush", "FlushDone"}
    BY <1>0, <1>3 DEF WindowInv
  <2>4. \A q \in Pages \ ToRecover : page_status'[q] = "NotStarted"
    BY <1>0, <1>3, <1>10 DEF WindowInv
  <2>5. \A r \in Pages : \A q \in Pages :
          r < q /\ Slot(r) = Slot(q) /\ Begun(q) /\ r \in ToRecover
          => page_status'[r] = "FlushDone"
    <3>1. \A r \in Pages : page_status[r] = "FlushDone" => page_status'[r] = "FlushDone"
      BY <1>1, <1>3
    <3> QED
      BY <1>0, <3>1 DEF WindowInv
  <2> QED
    BY <1>3, <1>9, <1>11, <2>1, <2>2, <2>3, <2>4, <2>5 DEF WindowInv
<1>13. ReplayInv'
  <2>1. start \in Nat /\ Page(start) \in Nat /\ Page(start) <= p
    BY <1>0, <1>1, ToRecoverIs DEF ReplayInv, SavedInv, PlanInv
  <2>2. p + 1 <= EndPage
    <3>1. start < final \/ start >= final
      BY <1>0 DEF PlanInv
    <3> QED
      BY <1>0, <1>2, <1>10, <3>1, ToRecoverIs DEF SavedInv
  <2>3. ASSUME NEW q \in ToRecover
        PROVE  /\ q < p + 1 => page_status'[q] \in {"IssuedFlush", "FlushDone"}
               /\ q >= p + 1 => page_status'[q] \in {"NotStarted", "IssuedRead", "ReadDone"}
    <3>1. q \in Nat /\ q \in Pages
      BY <1>0, <1>2, <2>3, ToRecoverIs DEF SavedInv
    <3>2. CASE q = p
      BY <1>2, <1>3, <3>2
    <3>3. CASE q # p
      BY <1>0, <1>1, <1>2, <1>3, <2>3, <3>1, <3>3 DEF ReplayInv
    <3> QED
      BY <3>2, <3>3
  <2>4. \A q \in Pages : page_status'[q] = "FlushDone" => Marked(q)'
    BY <1>0, <1>1, <1>3 DEF ReplayInv, Marked
  <2>5. replayed' \in Nat /\ Page(start)' <= replayed'
    BY <1>1, <1>2, <2>1
  <2> QED
    BY <1>1, <1>9, <2>2, <2>3, <2>4, <2>5 DEF ReplayInv
<1>14. EntriesInv'
  <2>1. ASSUME NEW e \in Entry PROVE EntryDone(e, EndOf(p + 1), entry'[e]) /\ entry'[e] \in EntryRec
    <3>1. EntryDone(e, EndOf(p), entry[e])
      BY <1>0, <1>1 DEF EntriesInv
    <3>2. entry'[e] = EntryAfter(p, PageOf(disk, p), e)
      BY <1>1, <1>4
    <3> QED
      BY <1>0, <1>2, <3>1, <3>2, PageReplayed DEF EntryDone
  <2>2. ASSUME NEW e \in Entry PROVE EntryDone(e, EndOf(replayed), entry[e])'
    <3>1. EndOf(replayed)' = EndOf(p + 1)
      BY <1>1 DEF EndOf
    <3> QED
      BY <1>1, <1>8, <2>1, <3>1 DEF EntryDone, Replayed, IsTop
  <2>3. entry' \in [Entry -> EntryRec]
    BY <1>1, <2>1
  <2> QED
    BY <2>2, <2>3 DEF EntriesInv
<1>15. CheckpointComplete'
  BY <1>0, <1>1 DEF CheckpointComplete
<1> QED
  BY <1>6, <1>8, <1>12, <1>13, <1>14, <1>15 DEF RecoveringInv

\* The records of a page, replayed: those of the second version are invalid.
LEMMA RecordsAfterIs ==
  ASSUME PlanInv, SavedInv, NEW p \in Nat, NEW i \in 1 .. PageSize, NEW a \in Nat,
         a = p * PageSize + i
  PROVE  LET r == RecordsAfter(p, PageOf(disk, p))[i]
         IN  /\ a \in 1 .. final - 1 =>
                  \/ r = disk[a]
                  \/ disk[a].version = 2 /\ r = [disk[a] EXCEPT !.invalid = TRUE]
             /\ a \in start .. final - 1 /\ r.version > 1 => r.invalid
<1>1. PICK r : r = RecordsAfter(p, PageOf(disk, p))[i]
  OBVIOUS
<1>2. r = IF i \in InCheckpoint(p)
          THEN ReplayRecord(PageOf(disk, p)[i], 0, kInvalidEntry)[1] ELSE disk[a]
  BY <1>1, PageRecords DEF RecordsAfter
<1>3. i \in InCheckpoint(p) <=> start <= a /\ a <= final - 1
  BY PageRecords
<1>4. start \in Nat /\ final \in Nat
  BY DEF PlanInv
<1>5. CASE i \notin InCheckpoint(p)
  BY <1>1, <1>2, <1>3, <1>4, <1>5
<1>6. CASE i \in InCheckpoint(p)
  <2>1. PICK d \in LogRec : d = disk[a] /\ d = PageOf(disk, p)[i]
    BY <1>6, PageRecords
  <2>2. r = IF d.invalid \/ d.version = 1 THEN d ELSE [d EXCEPT !.invalid = TRUE]
    BY <1>2, <1>6, <2>1, ReplayedRecordIs
  <2>3. d.version \in {1, 2} /\ [d EXCEPT !.invalid = TRUE].invalid
    BY <2>1 DEF LogRec
  <2>4. CASE d.invalid \/ d.version = 1
    BY <1>1, <2>1, <2>2, <2>3, <2>4
  <2>5. CASE ~(d.invalid \/ d.version = 1)
    <3>1. r = [d EXCEPT !.invalid = TRUE] /\ d.version = 2
      BY <2>2, <2>3, <2>5
    <3> QED
      BY <1>1, <2>1, <2>3, <3>1
  <2> QED
    BY <2>4, <2>5
<1> QED
  BY <1>5, <1>6

LEMMA FlushDoneOK ==
  ASSUME RecoveringInv, NEW p \in Pages, FlushDone(p)
  PROVE  RecoveringInv'
<1>0. PlanInv /\ SavedInv /\ CheckpointComplete /\ WindowInv /\ ReplayInv /\ EntriesInv
  BY DEF RecoveringInv
<1>1. /\ page_status[p] = "IssuedFlush"
      /\ disk' = [a \in DOMAIN disk |->
           IF Page(a) = p THEN mem[Slot(p)].recs[a - p * PageSize] ELSE disk[a]]
      /\ page_status' = [q \in Pages |->
           IF q = p THEN "FlushDone"
           ELSE IF q = p + Capacity /\ q \in ToRecover THEN "IssuedRead" ELSE page_status[q]]
      /\ UNCHANGED <<plan, entry, start, final, index_file, link_file, index_info, log_info,
                     contexts, mem, replayed, truth>>
  BY DEF FlushDone, memory, bounds, files, history
<1>2. p \in Nat /\ Slot(p) \in DOMAIN mem /\ Pages \subseteq Nat /\ ToRecover \subseteq Pages
  BY <1>0, ToRecoverIs, SlotIn DEF SavedInv, PlanInv
<1>3. Capacity \in Nat \ {0} /\ PageSize \in Nat \ {0} /\ MaxLog \in Nat \ {0}
  BY SizesAssumption
<1>4. mem[Slot(p)].recs = RecordsAfter(p, PageOf(disk, p))
  BY <1>0, <1>1 DEF WindowInv
<1>5. start \in Nat /\ start > 0 /\ final \in Nat /\ final <= MaxLog + 1
      /\ DOMAIN disk = 1 .. MaxLog + PageSize
  BY <1>0 DEF PlanInv, SavedInv, SavedLog
<1>6. ASSUME NEW a \in DOMAIN disk
      PROVE  /\ Page(a) # p => disk'[a] = disk[a]
             /\ Page(a) = p => /\ disk'[a] = RecordsAfter(p, PageOf(disk, p))[a - p * PageSize]
                               /\ a - p * PageSize \in 1 .. PageSize
                               /\ a = p * PageSize + (a - p * PageSize)
  <2>1. a \in Nat /\ a > 0
    BY <1>3, <1>5
  <2>2. Page(a) \in Nat /\ Page(a) * PageSize \in Nat
        /\ a - Page(a) * PageSize \in 1 .. PageSize
    BY <2>1, PageOfAddress
  <2>3. a = Page(a) * PageSize + (a - Page(a) * PageSize)
    BY <2>1, <2>2
  <2> QED
    BY <1>1, <1>4, <2>2, <2>3
<1>7. \A a \in 1 .. final - 1 : a \in DOMAIN disk /\ a \in Nat
  BY <1>3, <1>5
<1>8. DiskFrame
  <2>1. ASSUME NEW a \in 1 .. final - 1
        PROVE  \/ disk'[a] = disk[a]
               \/ disk[a].version = 2 /\ disk'[a] = [disk[a] EXCEPT !.invalid = TRUE]
    <3>1. CASE Page(a) # p
      BY <1>6, <1>7, <3>1
    <3>2. CASE Page(a) = p
      <4>1. PICK i \in 1 .. PageSize :
              a = p * PageSize + i /\ disk'[a] = RecordsAfter(p, PageOf(disk, p))[i]
        BY <1>6, <1>7, <3>2
      <4> QED
        BY <1>0, <1>2, <1>7, <4>1, RecordsAfterIs
    <3> QED
      BY <3>1, <3>2
  <2> QED
    BY <1>1, <2>1 DEF DiskFrame
<1>9. /\ SavedInv' /\ \A e : SavedCut(e)' = SavedCut(e) /\ RecoveredEntry(e)' = RecoveredEntry(e)
  BY <1>0, <1>8, SavedStays
<1>10. ToRecover' = ToRecover /\ EndPage' = EndPage
  BY <1>1 DEF ToRecover, EndPage
<1>11. p \in ToRecover
  BY <1>0, <1>1 DEF WindowInv
<1>12. ASSUME NEW q \in Pages, q # p
       PROVE  PageOf(disk, q)' = PageOf(disk, q)
              /\ RecordsAfter(q, PageOf(disk, q))' = RecordsAfter(q, PageOf(disk, q))
  <2>1. ASSUME NEW i \in 1 .. PageSize
        PROVE  disk'[q * PageSize + i] = disk[q * PageSize + i]
    <3>1. PICK a \in Nat : a = q * PageSize + i /\ a > 0 /\ Page(a) = q
      BY <1>2, PlaceOf
    <3>2. a \in DOMAIN disk
      <4>1. Page(MaxLog) \in Nat /\ Page(MaxLog) * PageSize \in Nat
            /\ MaxLog - Page(MaxLog) * PageSize \in 1 .. PageSize
        BY <1>3, PageOfAddress
      <4>2. q <= Page(MaxLog)
        BY <4>1 DEF Pages
      <4>3. q * PageSize <= Page(MaxLog) * PageSize /\ q * PageSize \in Nat
        BY <1>2, <1>3, <4>1, <4>2, TimesMono, PlaceOf
      <4> QED
        BY <1>3, <1>5, <3>1, <4>1, <4>3
    <3> QED
      BY <1>6, <3>1, <3>2, <1>12
  <2>2. PageOf(disk, q)' = PageOf(disk, q)
    BY <2>1 DEF PageOf
  <2>3. PICK recs : recs = PageOf(disk, q) /\ recs = PageOf(disk, q)'
    BY <2>2
  <2>4. RecordsAfter(q, recs)' = RecordsAfter(q, recs)
    BY <1>1 DEF RecordsAfter, InCheckpoint, ReplayRecord
  <2>5. RecordsAfter(q, PageOf(disk, q))' = RecordsAfter(q, recs)'
    BY <2>3 DEF RecordsAfter, InCheckpoint, ReplayRecord
  <2> QED
    BY <2>2, <2>3, <2>4, <2>5
<1>13. \A q \in Pages : page_status'[q] =
         IF q = p THEN "FlushDone"
         ELSE IF q = p + Capacity /\ q \in ToRecover THEN "IssuedRead" ELSE page_status[q]
  BY <1>1
<1>14. \A q \in Pages : q = p + Capacity => page_status[q] = "NotStarted"
  <2>1. SUFFICES ASSUME NEW q \in Pages, q = p + Capacity, page_status[q] # "NotStarted"
                 PROVE  FALSE
    OBVIOUS
  <2>2. p < q /\ Slot(q) = Slot(p)
    BY <1>2, <1>3, <2>1, SlotIn
  <2>3. page_status[p] = "FlushDone"
    BY <1>0, <1>11, <2>1, <2>2 DEF WindowInv, Begun
  <2> QED
    BY <1>1, <2>3
<1>15. WindowInv'
  <2>1. \A q \in Pages : page_status'[q] \in
          {"NotStarted", "IssuedRead", "ReadDone", "IssuedFlush", "FlushDone"}
    BY <1>0, <1>13 DEF WindowInv
  <2>2. \A q \in Pages \ ToRecover : page_status'[q] = "NotStarted"
    BY <1>0, <1>11, <1>13 DEF WindowInv
  <2>3. ASSUME NEW r \in Pages, NEW q \in Pages, r < q, Slot(r) = Slot(q), Begun(q)',
               r \in ToRecover
        PROVE  page_status'[r] = "FlushDone"
    <3>1. r \in Nat /\ q \in Nat
      BY <1>2
    <3>2. page_status[r] = "FlushDone" => page_status'[r] = "FlushDone"
      BY <1>13, <1>14
    <3>3. CASE r = p
      BY <1>13, <3>3
    <3>4. CASE r # p /\ q = p + Capacity
      <4>1. Slot(r) = Slot(p)
        BY <1>2, <2>3, <3>4, SlotIn
      <4>2. r < p
        <5>1. SUFFICES ASSUME p < r PROVE FALSE
          BY <1>2, <3>1, <3>4
        <5>2. r >= p + Capacity
          BY <1>2, <3>1, <4>1, <5>1, SlotApart
        <5> QED
          BY <1>2, <1>3, <2>3, <3>1, <3>4, <5>2
      <4>3. page_status[r] = "FlushDone"
        BY <1>0, <1>1, <2>3, <4>1, <4>2 DEF WindowInv, Begun
      <4> QED
        BY <3>2, <4>3
    <3>5. CASE r # p /\ q # p + Capacity
      <4>1. Begun(q)
        BY <1>1, <1>13, <2>3, <3>5 DEF Begun
      <4>2. page_status[r] = "FlushDone"
        BY <1>0, <2>3, <4>1 DEF WindowInv
      <4> QED
        BY <3>2, <4>2
    <3> QED
      BY <3>3, <3>4, <3>5
  <2>4. ASSUME NEW q \in Pages
        PROVE  /\ page_status'[q] = "ReadDone" => mem'[Slot(q)].recs = PageOf(disk, q)'
               /\ page_status'[q] = "IssuedFlush"
                    => mem'[Slot(q)].recs = RecordsAfter(q, PageOf(disk, q))'
    <3>1. CASE q = p
      BY <1>13, <3>1
    <3>2. CASE q # p
      <4>1. page_status'[q] \in {"ReadDone", "IssuedFlush"} => page_status[q] = page_status'[q]
        BY <1>13, <3>2
      <4> QED
        BY <1>0, <1>1, <1>12, <3>2, <4>1 DEF WindowInv
    <3> QED
      BY <3>1, <3>2
  <2>5. DOMAIN page_status' = Pages
    BY <1>1
  <2> QED
    BY <1>10, <2>1, <2>2, <2>3, <2>4, <2>5 DEF WindowInv
<1>16. ReplayInv'
  <2>1. Marked(p)'
    <3>1. SUFFICES ASSUME NEW a \in start .. final - 1, Page(a) = p, disk'[a].version > 1
                   PROVE  disk'[a].invalid
      BY <1>1 DEF Marked
    <3>2. a \in 1 .. final - 1
      BY <1>5
    <3>3. PICK i \in 1 .. PageSize :
            a = p * PageSize + i /\ disk'[a] = RecordsAfter(p, PageOf(disk, p))[i]
      BY <1>6, <1>7, <3>1, <3>2
    <3> QED
      BY <1>0, <1>2, <1>7, <3>1, <3>2, <3>3, RecordsAfterIs
  <2>2. ASSUME NEW q \in Pages, page_status'[q] = "FlushDone" PROVE Marked(q)'
    <3>1. CASE q = p
      BY <2>1, <3>1
    <3>2. CASE q # p
      <4>1. Marked(q)
        BY <1>0, <1>13, <2>2, <3>2 DEF ReplayInv
      <4>2. \A a \in start .. final - 1 : a \in DOMAIN disk
        BY <1>5, <1>7
      <4> QED
        BY <1>1, <1>6, <3>2, <4>1, <4>2 DEF Marked
    <3> QED
      BY <3>1, <3>2
  <2>3. ASSUME NEW q \in ToRecover
        PROVE  /\ q < replayed => page_status'[q] \in {"IssuedFlush", "FlushDone"}
               /\ q >= replayed => page_status'[q] \in {"NotStarted", "IssuedRead", "ReadDone"}
    <3>1. q \in Pages /\ q \in Nat /\ replayed \in Nat
      BY <1>0, <1>2, <2>3 DEF ReplayInv
    <3>2. CASE q = p
      <4>1. ~(q >= replayed)
        BY <1>0, <1>1, <2>3, <3>2 DEF ReplayInv
      <4> QED
        BY <1>13, <3>1, <3>2, <4>1
    <3>3. CASE q # p /\ q = p + Capacity
      <4>1. page_status[q] = "NotStarted" /\ page_status'[q] = "IssuedRead"
        BY <1>13, <1>14, <2>3, <3>1, <3>3
      <4>2. ~(q < replayed)
        BY <1>0, <2>3, <4>1 DEF ReplayInv
      <4> QED
        BY <4>1, <4>2
    <3>4. CASE q # p /\ q # p + Capacity
      BY <1>0, <1>13, <2>3, <3>1, <3>4 DEF ReplayInv
    <3> QED
      BY <3>2, <3>3, <3>4
  <2>4. replayed \in Nat /\ Page(start) <= replayed /\ (ToRecover # {} => replayed <= EndPage)
    BY <1>0 DEF ReplayInv
  <2> QED
    BY <1>1, <1>10, <2>2, <2>3, <2>4 DEF ReplayInv
<1>17. EntriesInv'
  BY <1>0, <1>1, <1>9 DEF EntriesInv, EntryDone, Replayed, IsTop
<1>18. CheckpointComplete'
  BY <1>0, <1>1 DEF CheckpointComplete
<1>19. PlanInv'
  <2>1. DOMAIN disk' = DOMAIN disk
    BY <1>1
  <2> QED
    BY <1>0, <1>1, <2>1 DEF PlanInv
<1> QED
  BY <1>9, <1>15, <1>16, <1>17, <1>18, <1>19 DEF RecoveringInv

LEMMA RestoreOK ==
  ASSUME RecoveryInv, RestoreHybridLog
  PROVE  RecoveryInv'
<1>0. PlanInv /\ SavedInv /\ CheckpointComplete /\ WindowInv /\ ReplayInv /\ EntriesInv
  BY RecoveringIs DEF RecoveringInv, RestoreHybridLog
<1>1. /\ \A p \in ToRecover : page_status[p] = "FlushDone"
      /\ log' = [a \in 1 .. final - 1 |-> disk[a]] /\ phase' = "recovered"
      /\ UNCHANGED <<plan, entry, start, final, index_file, link_file, index_info, log_info,
                     contexts, disk, mem, truth>>
  BY DEF RestoreHybridLog, bounds, files, history, recovery
<1>2. DiskFrame
  BY <1>1 DEF DiskFrame
<1>3. /\ SavedInv' /\ \A e : SavedCut(e)' = SavedCut(e)
  BY <1>0, <1>2, SavedStays
<1>4. start \in Nat /\ start > 0 /\ final \in Nat /\ start <= final
  BY <1>0 DEF PlanInv, SavedInv, SavedLog
<1>5. \A e : SavedCut(e) \subseteq 1 .. final - 1
  BY DEF SavedCut
<1>6. ASSUME NEW a \in start .. final - 1 PROVE Page(a) \in ToRecover /\ Page(a) < replayed
  <2>1. start < final /\ a \in Nat /\ a > 0 /\ final - 1 \in Nat
    BY <1>4, <1>6
  <2>2. Page(start) <= Page(a) /\ Page(a) <= Page(final - 1) /\ Page(a) \in Nat
    BY <1>4, <1>6, <2>1, PageOrder
  <2>3. ToRecover = Page(start) .. Page(final - 1) /\ Page(start) \in Nat
        /\ Page(final - 1) \in Nat
    BY <1>0, <2>1, ToRecoverIs DEF SavedInv
  <2>4. Page(a) \in ToRecover
    BY <2>2, <2>3
  <2>5. ~(Page(a) >= replayed)
    BY <1>0, <1>1, <2>4 DEF ReplayInv
  <2> QED
    BY <1>0, <2>2, <2>4, <2>5 DEF ReplayInv
<1>7. \A a \in start .. final - 1 : disk[a].version > 1 => disk[a].invalid
  <2>1. SUFFICES ASSUME NEW a \in start .. final - 1, disk[a].version > 1 PROVE disk[a].invalid
    OBVIOUS
  <2>2. Page(a) \in ToRecover /\ Page(a) \in Pages
    BY <1>0, <1>6, ToRecoverIs DEF SavedInv
  <2>3. Marked(Page(a))
    BY <1>0, <1>1, <2>2 DEF ReplayInv
  <2> QED
    BY <2>1, <2>3 DEF Marked
<1>8. ASSUME NEW e \in Entry PROVE IsTop(SavedCut(e), entry[e].address)
  <2>1. PICK x \in Nat : x = entry[e].address
    BY <1>0 DEF EntriesInv, EntryRec
  <2>2. PICK S : S = {a \in SavedCut(e) : start <= a /\ a <= EndOf(replayed)}
    OBVIOUS
  <2>3. ASSUME NEW a \in SavedCut(e), start <= a PROVE a \in S
    <3>1. a \in start .. final - 1 /\ a \in Nat /\ a > 0
      BY <1>4, <1>5, <2>3
    <3>2. a <= EndOf(replayed)
      BY <1>0, <1>6, <3>1, PageEnd DEF ReplayInv
    <3> QED
      BY <2>2, <2>3, <3>2
  <2>4. IF S = {} THEN x = RecoveredEntry(e).address ELSE IsTop(S, x)
    BY <1>0, <2>1, <2>2 DEF EntriesInv, EntryDone, Replayed
  <2>5. \A a \in SavedCut(e) : a \in Nat /\ (a < start \/ start <= a)
    BY <1>4, <1>5
  <2>6. CASE S = {}
    <3>1. \A a \in SavedCut(e) : a < start
      BY <2>3, <2>5, <2>6
    <3>2. Indexed(SavedCut(e), x)
      BY <1>0, <2>4, <2>6 DEF SavedInv, SavedIndex
    <3> QED
      BY <2>1, <3>1, <3>2 DEF Indexed, IsTop
  <2>7. CASE S # {}
    <3>1. IsTop(S, x)
      BY <2>4, <2>7
    <3>2. PICK b \in S : b <= x /\ b \in Nat /\ start <= b /\ b > 0
      <4>1. PICK b \in S : TRUE
        BY <2>7
      <4>2. b \in SavedCut(e) /\ start <= b
        BY <2>2, <4>1
      <4>3. b \in Nat /\ b > 0
        BY <1>4, <2>5, <4>2
      <4>4. b <= x
        BY <3>1, <4>1 DEF IsTop
      <4> QED
        BY <4>1, <4>2, <4>3, <4>4
    <3>3. x > 0 /\ start <= x
      BY <1>4, <3>2
    <3>4. x \in SavedCut(e)
      BY <2>2, <3>1, <3>3 DEF IsTop
    <3>5. \A a \in SavedCut(e) : a <= x
      <4>1. SUFFICES ASSUME NEW a \in SavedCut(e) PROVE a <= x
        OBVIOUS
      <4>2. a \in Nat /\ (a < start \/ start <= a)
        BY <2>5
      <4>3. start <= a => a <= x
        BY <2>3, <3>1 DEF IsTop
      <4> QED
        BY <1>4, <3>3, <4>2, <4>3
    <3> QED
      BY <2>1, <3>4, <3>5 DEF IsTop
  <2> QED
    BY <2>6, <2>7
<1>9. RecoveredInv'
  <2>1. \A e \in Entry : IsTop(SavedCut(e)', entry'[e].address)
    BY <1>1, <1>3, <1>8
  <2> QED
    BY <1>1, <1>7, <2>1 DEF RecoveredInv, IsTop
<1>10. CheckpointComplete'
  BY <1>0, <1>1 DEF CheckpointComplete
<1>11. PlanInv'
  BY <1>0, <1>1 DEF PlanInv
<1> QED
  BY <1>1, <1>3, <1>9, <1>10, <1>11 DEF RecoveryInv, Down, PhaseSet

(***************************************************************************)
(* What has been recovered is the checkpointed version.                    *)
(***************************************************************************)
\* A lookup goes from a record to the one before it.
LookupFrom(k, f) ==
  f = [a \in 0 .. Len(log) |->
         IF a = 0 THEN 0 ELSE IF log[a].key = k THEN a ELSE f[log[a].previous]]

\* f does it up to m.
LookupTo(k, m, f) ==
  /\ f \in [0 .. Len(log) -> Nat]
  /\ f[0] = 0
  /\ \A a \in 1 .. m : f[a] = IF log[a].key = k THEN a ELSE f[log[a].previous]

LEMMA LookupExists ==
  ASSUME NEW n \in Nat, n = Len(log), \A a \in 1 .. n : log[a].previous \in 0 .. a - 1, NEW k
  PROVE  \E f : LookupFrom(k, f)
<1>1. DEFINE S == {m \in 0 .. n : \E f : LookupTo(k, m, f)}
<1>2. 0 \in S
  <2>1. DEFINE f == [a \in 0 .. n |-> 0]
  <2>2. f \in [0 .. Len(log) -> Nat] /\ f[0] = 0 /\ 1 .. 0 = {}
    OBVIOUS
  <2>3. LookupTo(k, 0, f)
    <3>1. HIDE DEF f
    <3> QED
      BY <2>2 DEF LookupTo
  <2> QED
    BY <2>3
<1>3. ASSUME NEW m \in 0 .. n - 1, m \in S PROVE m + 1 \in S
  <2>1. PICK g : LookupTo(k, m, g)
    BY <1>3
  <2>2. /\ g \in [0 .. n -> Nat] /\ g[0] = 0
        /\ \A a \in 1 .. m : g[a] = IF log[a].key = k THEN a ELSE g[log[a].previous]
    BY <2>1 DEF LookupTo
  <2>3. log[m + 1].previous \in 0 .. m /\ m + 1 \in 1 .. n /\ m \in Nat
    BY <1>3
  <2>4. DEFINE v == IF log[m + 1].key = k THEN m + 1 ELSE g[log[m + 1].previous]
               f == [g EXCEPT ![m + 1] = v]
  <2>5. v \in Nat
    BY <2>2, <2>3
  <2>6. f \in [0 .. n -> Nat] /\ f[m + 1] = v /\ \A a \in 0 .. m : f[a] = g[a]
    BY <2>2, <2>3, <2>5
  <2>7. ASSUME NEW a \in 1 .. m + 1
        PROVE  f[a] = IF log[a].key = k THEN a ELSE f[log[a].previous]
    <3>1. CASE a = m + 1
      BY <2>3, <2>6, <3>1
    <3>2. CASE a # m + 1
      <4>1. a \in 1 .. m /\ a \in 0 .. m /\ log[a].previous \in 0 .. m
        BY <2>3, <3>2
      <4>2. f[a] = g[a] /\ f[log[a].previous] = g[log[a].previous]
        BY <2>6, <4>1
      <4>3. g[a] = IF log[a].key = k THEN a ELSE g[log[a].previous]
        BY <2>2, <4>1
      <4>4. HIDE DEF f
      <4> QED
        BY <4>2, <4>3
    <3> QED
      BY <3>1, <3>2
  <2>8. LookupTo(k, m + 1, f)
    <3>1. f[0] = 0
      BY <2>2, <2>3, <2>6
    <3>2. HIDE DEF f
    <3> QED
      BY <2>6, <2>7, <3>1 DEF LookupTo
  <2> QED
    BY <2>3, <2>8
<1>4. 0 .. n \subseteq S
  <2>1. HIDE DEF S
  <2> QED
    BY <1>2, <1>3, UptoInductionSet
<1>5. PICK f : LookupTo(k, n, f)
  BY <1>4
<1>6. \A a \in 0 .. n : f[a] = IF a = 0 THEN 0
                               ELSE IF log[a].key = k THEN a ELSE f[log[a].previous]
  BY <1>5 DEF LookupTo
<1>7. f = [a \in 0 .. Len(log) |-> f[a]]
  BY <1>5 DEF LookupTo
<1> QED
  BY <1>6, <1>7 DEF LookupFrom

\* From the last record of a chain the lookup comes to the last of its key.
Chain(C) == \A a \in C : IsTop({b \in C : b < a}, log[a].previous)
RecordsOf(C, k) == {a \in C : log[a].key = k}

Searched(n, C, k, x, y) ==
  /\ n \in Nat /\ n = Len(log) /\ \A a \in 1 .. n : log[a].previous \in 0 .. a - 1
  /\ C \subseteq 1 .. n /\ Chain(C) /\ x \in 0 .. n /\ IsTop(C, x)
  /\ y \in Nat /\ IsTop(RecordsOf(C, k), y)

LEMMA LookupFinds ==
  ASSUME NEW n, NEW C, NEW k, NEW x, NEW y, Searched(n, C, k, x, y), NEW f, LookupFrom(k, f)
  PROVE  f[x] = y
<1> /\ n \in Nat /\ n = Len(log) /\ \A a \in 1 .. n : log[a].previous \in 0 .. a - 1
    /\ C \subseteq 1 .. n /\ Chain(C) /\ x \in 0 .. n /\ IsTop(C, x)
    /\ y \in Nat /\ IsTop(RecordsOf(C, k), y)
  BY DEF Searched
<1>0. \A a \in C : a \in 1 .. n /\ a \in Nat /\ a > 0
  <2>1. SUFFICES ASSUME NEW a \in C PROVE a \in 1 .. n /\ a \in Nat /\ a > 0
    OBVIOUS
  <2>2. a \in 1 .. n
    BY Zenon
  <2> QED
    BY <2>2
<1>1. \A a \in 0 .. n : f[a] = IF a = 0 THEN 0
                               ELSE IF log[a].key = k THEN a ELSE f[log[a].previous]
  BY DEF LookupFrom
<1>2. DEFINE OfKey(a) == {b \in C : b <= a /\ log[b].key = k}
             S == {a \in 0 .. n : a \in C \cup {0} => IsTop(OfKey(a), f[a])}
<1>3. ASSUME NEW a \in 0 .. n, \A m \in 0 .. a - 1 : m \in S PROVE a \in S
  <2>1. SUFFICES ASSUME a \in C \cup {0} PROVE IsTop(OfKey(a), f[a])
    OBVIOUS
  <2>2. CASE a = 0
    <3>1. OfKey(a) = {}
      <4>1. \A b \in C : ~(b <= 0)
        BY <1>0
      <4> QED
        BY <2>2, <4>1
    <3>2. f[a] = 0
      BY <1>1, <2>2
    <3> QED
      BY <3>1, <3>2 DEF IsTop
  <2>3. CASE a # 0 /\ log[a].key = k
    <3>1. f[a] = a /\ a \in C
      BY <1>1, <2>1, <2>3
    <3>2. a \in OfKey(a) /\ \A b \in OfKey(a) : b <= a
      BY <2>3, <3>1
    <3> QED
      BY <3>1, <3>2 DEF IsTop
  <2>4. CASE a # 0 /\ log[a].key # k
    <3>1. a \in C /\ a \in 1 .. n
      BY <2>1, <2>4
    <3>2. PICK p \in 0 .. a - 1 : p = log[a].previous
      BY <3>1
    <3>3. f[a] = f[p]
      BY <1>1, <2>4, <3>2
    <3>4. IsTop({b \in C : b < a}, p)
      BY <3>1, <3>2 DEF Chain
    <3>5. p \in C \cup {0}
      BY <3>4 DEF IsTop
    <3>6. IsTop(OfKey(p), f[p])
      BY <1>3, <3>2, <3>5
    <3>7. OfKey(p) = OfKey(a)
      <4>1. \A b \in C : b <= a /\ b # a => b <= p
        BY <3>1, <3>4 DEF IsTop
      <4>2. \A b \in C : b <= p => b <= a
        BY <1>0, <3>1, <3>2
      <4> QED
        <5>1. \A b \in C : log[b].key = k => b # a
          BY <2>4
        <5>2. ASSUME NEW b \in C, log[b].key = k PROVE b <= p <=> b <= a
          BY <4>1, <4>2, <5>1, <5>2
        <5> QED
          BY <5>2
    <3> QED
      BY <3>3, <3>6, <3>7
  <2> QED
    BY <2>2, <2>3, <2>4
<1>4. 0 .. n \subseteq S
  <2>1. HIDE DEF S
  <2> QED
    BY <1>3, StrongInductionSet
<1>5. IsTop(OfKey(x), f[x])
  BY <1>4 DEF IsTop
<1>6. OfKey(x) = {a \in C : log[a].key = k}
  BY DEF IsTop
<1>7. IsTop({a \in C : log[a].key = k}, f[x])
  BY <1>5, <1>6
<1>8. {a \in C : log[a].key = k} \subseteq Nat
  BY <1>0
<1>9. f[x] \in Nat
  BY <1>7, <1>8 DEF IsTop
<1> QED
  BY <1>7, <1>8, <1>9 DEF IsTop, RecordsOf

LEMMA RecoveredIsCutHolds ==
  ASSUME RecoveryInv, phase = "recovered"
  PROVE  RecoveredIsCut
<1>0. PlanInv /\ SavedInv /\ RecoveredInv /\ SavedLog /\ SavedChain /\ SavedTruth
  BY DEF RecoveryInv, Down, SavedInv
<1>1. final \in Nat /\ final - 1 \in Nat /\ final <= MaxLog + 1
  BY <1>0 DEF PlanInv, SavedLog
<1>2. log = [a \in 1 .. final - 1 |-> disk[a]]
  BY <1>0 DEF RecoveredInv
<1>3. PICK n \in Nat : n = final - 1 /\ n = Len(log)
  BY <1>1, <1>2
<1>4. \A a \in 1 .. n : log[a] = disk[a] /\ disk[a] \in LogRec /\ log[a].previous \in 0 .. a - 1
  <2>1. SUFFICES ASSUME NEW a \in 1 .. n
                 PROVE  log[a] = disk[a] /\ disk[a] \in LogRec /\ log[a].previous \in 0 .. a - 1
    OBVIOUS
  <2>2. log[a] = disk[a] /\ disk[a] \in LogRec /\ disk[a].previous < a
    BY <1>0, <1>2, <1>3 DEF SavedLog
  <2>3. disk[a].previous \in Nat
    BY <2>2 DEF LogRec
  <2> QED
    BY <2>2, <2>3
<1>5. ASSUME NEW k \in Key PROVE Lookup(k) = truth[k]
  <2>1. PICK e \in Entry : e = plan.hash[k]
    BY <1>0 DEF PlanInv
  <2>2. PICK C \in SUBSET (1 .. n) : C = SavedCut(e)
    BY <1>3 DEF SavedCut
  <2>3. \A a \in C : IsTop({b \in C : b < a}, log[a].previous)
    BY <1>0, <1>4, <2>2 DEF SavedChain
  <2>4. PICK x \in 0 .. n : x = entry[e].address /\ IsTop(C, x)
    <3>1. IsTop(C, entry[e].address)
      BY <1>0, <2>2 DEF RecoveredInv
    <3> QED
      BY <2>2, <3>1 DEF IsTop
  <2>5. PICK y \in Nat : y = truth[k] /\ IsTop({a \in C : log[a].key = k}, y)
    <3>1. IsTop({a \in C : disk[a].key = k}, truth[k])
      BY <1>0, <2>1, <2>2 DEF SavedTruth
    <3>2. {a \in C : disk[a].key = k} = {a \in C : log[a].key = k}
      BY <1>4
    <3>3. IsTop({a \in C : log[a].key = k}, truth[k])
      BY <3>1, <3>2
    <3>4. truth[k] \in Nat
      <4>1. {a \in C : log[a].key = k} \subseteq Nat
        BY <2>2
      <4> QED
        BY <3>3, <4>1 DEF IsTop
    <3> QED
      BY <3>3, <3>4
  <2>6. PICK f : f = CHOOSE g : LookupFrom(k, g)
    OBVIOUS
  <2>7. LookupFrom(k, f)
    BY <1>3, <1>4, <2>6, LookupExists
  <2>8. Lookup(k) = f[x]
    BY <2>1, <2>4, <2>6 DEF Lookup, LookupFrom
  <2>9. f[x] = y
    <3>1. \A a \in 1 .. n : log[a].previous \in 0 .. a - 1
      BY <1>4
    <3>2. n \in Nat /\ n = Len(log)
      BY <1>3
    <3>3. C \in SUBSET (1 .. n) /\ Chain(C) /\ x \in 0 .. n /\ IsTop(C, x)
      BY <2>2, <2>3, <2>4 DEF Chain
    <3>4. y \in Nat /\ IsTop(RecordsOf(C, k), y)
      BY <2>5 DEF RecordsOf
    <3>5. Searched(n, C, k, x, y)
      BY <3>1, <3>2, <3>3, <3>4 DEF Searched
    <3> QED
      BY <2>7, <3>5, LookupFinds
  <2> QED
    BY <2>5, <2>8, <2>9
<1>6. \A a \in start .. final - 1 : disk[a].version > 1 => disk[a].invalid
  BY <1>0 DEF RecoveredInv
<1> QED
  BY <1>5, <1>6 DEF RecoveredIsCut

(***************************************************************************)
(* The invariant.                                                          *)
(***************************************************************************)
LEMMA MaxIsTop ==
  ASSUME NEW n \in Nat, NEW S, S \subseteq 1 .. n
  PROVE  /\ IsTop(S, Max(S \cup {0})) /\ Max(S \cup {0}) \in 0 .. n
         /\ S # {} => IsTop(S, Max(S)) /\ Max(S) \in 1 .. n
<1>1. ASSUME NEW T, T \subseteq 0 .. n, T # {}
      PROVE  Max(T) \in T /\ \A x \in T : x <= Max(T)
  <2>1. PICK U \in SUBSET Nat : U = {m \in Nat : \A x \in T : x <= m}
    OBVIOUS
  <2>2. n \in U
    BY <1>1, <2>1
  <2>3. PICK m \in U : \A l \in U : m <= l
    BY <2>2, LeastNat
  <2>4. m \in Nat /\ \A x \in T : x <= m
    BY <2>1, <2>3
  <2>5. m \in T
    <3>1. SUFFICES ASSUME m \notin T PROVE FALSE
      OBVIOUS
    <3>2a. PICK x \in T : TRUE
      BY <1>1
    <3>2. x \in Nat /\ x <= m
      BY <1>1, <2>4, <3>2a
    <3>3. m - 1 \in Nat
      BY <2>4, <3>1, <3>2
    <3>4. \A y \in T : y <= m - 1
      BY <1>1, <2>4, <3>1
    <3>5. m - 1 \in U
      BY <2>1, <3>3, <3>4
    <3> QED
      BY <2>3, <2>4, <3>5
  <2>6. \E y \in T : \A x \in T : y >= x
    BY <1>1, <2>4, <2>5
  <2>7. Max(T) \in T /\ \A x \in T : Max(T) >= x
    BY <2>6 DEF Max
  <2> QED
    BY <1>1, <2>7
<1>2. IsTop(S, Max(S \cup {0})) /\ Max(S \cup {0}) \in 0 .. n
  <2>1. S \cup {0} \subseteq 0 .. n /\ S \cup {0} # {}
    OBVIOUS
  <2> QED
    BY <1>1, <2>1 DEF IsTop
<1>3. S # {} => IsTop(S, Max(S)) /\ Max(S) \in 1 .. n
  <2>1. S \subseteq 0 .. n
    OBVIOUS
  <2> QED
    BY <1>1, <2>1 DEF IsTop
<1> QED
  BY <1>2, <1>3

LEMMA SeqOfFunction ==
  ASSUME NEW n \in Nat, NEW R, NEW f \in [1 .. n -> R]
  PROVE  f \in Seq(R) /\ Len(f) = n
OBVIOUS

NoDeletes == \A p \in Plans : ~p.deletes

LEMMA RecoveryInit ==
  ASSUME NoDeletes, Init
  PROVE  RecoveryInv
<1>1. /\ plan \in Plans /\ plan \in PlanRec /\ ~plan.deletes /\ Len(plan.log) <= MaxLog
      /\ plan.hash \in [Key -> Entry] /\ plan.log \in Seq(Key)
  BY PlansAssumption DEF Init, NoDeletes, PlanRec
<1>2. PICK n \in Nat : n = Len(plan.log) /\ DOMAIN plan.log = 1 .. n /\ n <= MaxLog
                       /\ \A i \in 1 .. n : plan.log[i] \in Key
  BY <1>1
<1>3. PICK mine : mine = [e \in Entry |-> {i \in 1 .. n : plan.hash[plan.log[i]] = e}]
  OBVIOUS
<1>4. \A e \in Entry : mine[e] = {i \in 1 .. n : plan.hash[plan.log[i]] = e}
                       /\ mine[e] \subseteq 1 .. n
  BY <1>3
<1>5. /\ DOMAIN log = 1 .. n
      /\ \A i \in 1 .. n :
           log[i] = Record(plan.log[i], 1,
                      Max({j \in 1 .. i - 1 : plan.hash[plan.log[j]] = plan.hash[plan.log[i]]}
                          \cup {0}))
  BY <1>2 DEF Init, Chained, kInvalidAddress
<1>6. ASSUME NEW i \in 1 .. n
      PROVE  /\ log[i].key = plan.log[i] /\ log[i].version = 1 /\ ~log[i].invalid
             /\ log[i].previous \in 0 .. i - 1 /\ log[i] \in LogRec
             /\ IsTop({j \in 1 .. i - 1 : plan.hash[plan.log[j]] = plan.hash[plan.log[i]]},
                      log[i].previous)
  <2>1. PICK S : S = {j \in 1 .. i - 1 : plan.hash[plan.log[j]] = plan.hash[plan.log[i]]}
    OBVIOUS
  <2>2. i - 1 \in Nat /\ S \subseteq 1 .. i - 1
    BY <1>6, <2>1
  <2>3. IsTop(S, Max(S \cup {0})) /\ Max(S \cup {0}) \in 0 .. i - 1
    BY <2>2, MaxIsTop
  <2>4. log[i] = Record(plan.log[i], 1, Max(S \cup {0}))
    BY <1>5, <2>1
  <2>5. Max(S \cup {0}) \in Nat /\ plan.log[i] \in Key
    BY <1>2, <2>2, <2>3
  <2>6. PICK m \in Nat : m = Max(S \cup {0})
    BY <2>5
  <2>7. log[i] = [key |-> plan.log[i], version |-> 1, previous |-> m, invalid |-> FALSE]
    BY <2>4, <2>6 DEF Record
  <2>8. /\ log[i].key = plan.log[i] /\ log[i].version = 1 /\ ~log[i].invalid
        /\ log[i].previous = m
    BY <2>7
  <2>9. log[i] \in LogRec
    <3>1. plan.log[i] \in Key /\ m \in Nat
      BY <2>5
    <3> QED
      BY <2>7, <3>1 DEF LogRec
  <2>10. m \in 0 .. i - 1 /\ IsTop(S, m)
    BY <2>3, <2>6
  <2> QED
    BY <2>1, <2>8, <2>9, <2>10
<1>7. \A t \in Thread : call[t] = Idle /\ seen[t] = "REST"
  BY DEF Init
<1>8. \A a : ~Pending(a)
  BY <1>7, IdleCall DEF Pending
<1>9. ASSUME NEW e \in Entry
      PROVE  Kept(e) = mine[e] /\ Cut(e) = mine[e]
  <2>1. DOMAIN log = 1 .. n
    BY <1>5
  <2>2. \A a \in 1 .. n : /\ plan.hash[log[a].key] = plan.hash[plan.log[a]]
                          /\ log[a].version = 1 /\ ~log[a].invalid
    BY <1>6
  <2>3. mine[e] = {a \in 1 .. n : plan.hash[plan.log[a]] = e}
    BY <1>4, <1>9
  <2>4. Kept(e) = mine[e]
    BY <1>8, <2>1, <2>2, <2>3 DEF Kept
  <2>5. Cut(e) = Kept(e)
    BY <2>1, <2>2 DEF Cut, Kept
  <2> QED
    BY <2>4, <2>5
<1>10. LogInv
  <2>1. log = [i \in 1 .. n |-> log[i]]
    BY <1>2 DEF Init, Chained
  <2>2. log \in [1 .. n -> LogRec]
    BY <1>6, <2>1
  <2>3. log \in Seq(LogRec) /\ Len(log) = n
    BY <2>2, SeqOfFunction
  <2>4. \A a \in DOMAIN log : log[a].previous < a
    <3>1. \A a \in 1 .. n : log[a].previous \in 0 .. a - 1
      BY <1>6
    <3> QED
      BY <1>5, <3>1
  <2> QED
    BY <1>2, <2>3, <2>4 DEF LogInv
<1>11. \A e \in Entry : entry[e] = IF mine[e] = {} THEN kInvalidEntry ELSE EntryAt(Max(mine[e]))
  BY <1>2, <1>4 DEF Init
<1>12. EntryInv
  <2>1. ASSUME NEW e \in Entry
        PROVE  /\ entry[e] \in EntryRec /\ IsTop(Kept(e), entry[e].address)
               /\ entry[e].address # 0 => entry[e].used /\ ~entry[e].tentative
    <3>1. CASE mine[e] = {}
      <4>1. entry[e] = kInvalidEntry
        BY <1>11, <3>1
      <4> QED
        BY <1>9, <3>1, <4>1 DEF kInvalidEntry, EntryRec, IsTop
    <3>2. CASE mine[e] # {}
      <4>1. PICK m \in 1 .. n : m = Max(mine[e]) /\ IsTop(mine[e], m)
        BY <1>4, <3>2, MaxIsTop
      <4>2. entry[e] = EntryAt(m)
        BY <1>11, <3>2, <4>1
      <4> QED
        BY <1>9, <4>1, <4>2 DEF EntryAt, EntryRec
    <3> QED
      BY <3>1, <3>2
  <2>2. linked \in BOOLEAN /\ \A e \in Entry : entry[e].used /\ e \in Overflow => linked
    BY DEF Init
  <2>3. entry \in [Entry -> EntryRec]
    <3>1. entry = [e \in Entry |-> entry[e]]
      BY DEF Init
    <3> QED
      BY <2>1, <3>1
  <2> QED
    BY <2>1, <2>2, <2>3 DEF EntryInv
<1>13. ChainInv
  <2>1. ASSUME NEW e \in Entry, NEW a \in Kept(e)
        PROVE  /\ IsTop({b \in Kept(e) : b < a}, log[a].previous)
               /\ \A b \in Kept(e) : b < a => log[b].version <= log[a].version
    <3>1. a \in 1 .. n /\ plan.hash[plan.log[a]] = e
      BY <1>4, <1>9, <2>1
    <3>2. {b \in Kept(e) : b < a}
            = {j \in 1 .. a - 1 : plan.hash[plan.log[j]] = plan.hash[plan.log[a]]}
      BY <1>4, <1>9, <3>1
    <3>3. \A b \in Kept(e) : log[b].version = 1
      BY <1>4, <1>6, <1>9
    <3>4. IsTop({j \in 1 .. a - 1 : plan.hash[plan.log[j]] = plan.hash[plan.log[a]]},
                log[a].previous)
      BY <1>6, <3>1
    <3>5. log[a].version = 1
      BY <2>1, <3>3
    <3>6. IsTop({b \in Kept(e) : b < a}, log[a].previous)
      BY <3>2, <3>4
    <3>7. \A b \in Kept(e) : log[b].version <= log[a].version
      BY <3>3, <3>5
    <3> QED
      BY <3>6, <3>7
  <2> QED
    BY <2>1 DEF ChainInv
<1>14. TruthInv
  <2>1. ASSUME NEW k \in Key
        PROVE  /\ truth[k] \in Nat
               /\ IsTop({a \in Cut(plan.hash[k]) : log[a].key = k}, truth[k])
    <3>1. PICK S : S = {i \in 1 .. n : plan.log[i] = k} /\ S \subseteq 1 .. n
      OBVIOUS
    <3>2. truth[k] = Max(S \cup {0})
      BY <1>2, <3>1 DEF Init
    <3>3. {a \in Cut(plan.hash[k]) : log[a].key = k} = S
      <4>1. Cut(plan.hash[k]) = {i \in 1 .. n : plan.hash[plan.log[i]] = plan.hash[k]}
        BY <1>1, <1>4, <1>9
      <4> QED
        BY <1>6, <3>1, <4>1
    <3>4. IsTop(S, Max(S \cup {0})) /\ Max(S \cup {0}) \in 0 .. n
      BY <3>1, MaxIsTop
    <3>5. truth[k] \in Nat /\ IsTop(S, truth[k])
      BY <3>2, <3>4
    <3> QED
      BY <3>3, <3>5
  <2>2. truth = [k \in Key |-> truth[k]]
    BY DEF Init
  <2> QED
    BY <2>1, <2>2 DEF TruthInv
<1>15. CallInv
  BY <1>7, IdleCall DEF CallInv, CallOK, Init
<1>16. PhaseInv /\ PendingInv
  BY <1>7, IdleCall DEF PhaseInv, PendingInv, PhaseSet, Beside, AfterLog, Init
<1>17. VersionInv
  BY <1>5, <1>6 DEF VersionInv, AfterLog, Init
<1>18. DiskInv
  BY DEF DiskInv, AfterLog, Init
<1>19. IndexInv
  BY DEF IndexInv, BeforeIndex, Init
<1>20. PlanInv
  <2>1. start \in Nat /\ final \in Nat /\ DOMAIN disk = 1 .. MaxLog + PageSize
        /\ mem = [s \in 0 .. Capacity - 1 |-> [page |-> -1, recs |-> <<>>]]
    BY DEF Init
  <2> QED
    BY <1>1, <2>1 DEF PlanInv
<1>21. phase = "REST"
  BY DEF Init
<1> QED
  BY <1>10, <1>12, <1>13, <1>14, <1>15, <1>16, <1>17, <1>18, <1>19, <1>20, <1>21
     DEF RecoveryInv, RunInv, PhaseSet, Down

LEMMA RunningStep ==
  ASSUME RecoveryInv, phase \in PhaseSet, PlanInv', RunInv', phase' \in PhaseSet
  PROVE  RecoveryInv'
BY DEF RecoveryInv, PhaseSet, Down

LEMMA Unmoved ==
  ASSUME RecoveryInv, UNCHANGED vars
  PROVE  RecoveryInv'
<1>1. /\ phase' = phase /\ call' = call /\ seen' = seen /\ log' = log /\ entry' = entry
      /\ linked' = linked /\ truth' = truth /\ disk' = disk /\ plan' = plan
      /\ start' = start /\ final' = final /\ contexts' = contexts
      /\ index_file' = index_file /\ link_file' = link_file
      /\ index_info' = index_info /\ log_info' = log_info /\ mem' = mem /\ page_status' = page_status /\ replayed' = replayed /\ UNCHANGED vars
  BY DEF vars, memory, threads, bounds, files, recovery, history
<1>2. PlanInv => PlanInv'
  BY <1>1 DEF PlanInv
<1>3. \A a : Pending(a)' = Pending(a)
  BY <1>1 DEF Pending
<1>4. \A e : Kept(e)' = Kept(e) /\ Cut(e)' = Cut(e)
  BY <1>1, <1>3 DEF Kept, Cut
<1>5. RunInv => RunInv'
  <2>1. LogInv => LogInv'
    BY <1>1 DEF LogInv
  <2>2. EntryInv => EntryInv'
    BY <1>1, <1>4 DEF EntryInv
  <2>3. ChainInv => ChainInv'
    BY <1>1, <1>4 DEF ChainInv
  <2>4. TruthInv => TruthInv'
    BY <1>1, <1>4 DEF TruthInv
  <2>5. CallInv => CallInv'
    BY <1>1 DEF CallInv, CallOK, Confirming, Appended, Version
  <2>6. PhaseInv => PhaseInv'
    BY <1>1 DEF PhaseInv
  <2>7. VersionInv => VersionInv'
    BY <1>1 DEF VersionInv
  <2>8. PendingInv => PendingInv'
    BY <1>1 DEF PendingInv
  <2>9. DiskInv => DiskInv'
    BY <1>1 DEF DiskInv, Flushed
  <2>10. IndexInv => IndexInv'
    BY <1>1, <1>4 DEF IndexInv, Indexed
  <2> QED
    BY <2>1, <2>2, <2>3, <2>4, <2>5, <2>6, <2>7, <2>8, <2>9, <2>10 DEF RunInv
<1>6. \A e : SavedCut(e)' = SavedCut(e) /\ RecoveredEntry(e)' = RecoveredEntry(e)
  BY <1>1 DEF SavedCut, RecoveredEntry, RecoverFuzzyIndex, ReadTable, ReadOverflowBuckets
<1>7. SavedInv => SavedInv'
  BY <1>1, <1>6 DEF SavedInv, SavedLog, SavedChain, SavedTruth, SavedIndex, Indexed
<1>8. CheckpointComplete' = CheckpointComplete
  BY <1>1 DEF CheckpointComplete
<1>9. ToRecover' = ToRecover /\ EndPage' = EndPage
  BY <1>1 DEF ToRecover, EndPage
<1>10. WindowInv => WindowInv'
  BY <1>1, <1>9 DEF WindowInv, Begun, RecordsAfter, InCheckpoint, PageOf, ReplayRecord
<1>11. ReplayInv => ReplayInv'
  BY <1>1, <1>9 DEF ReplayInv, Marked
<1>12. EntriesInv => EntriesInv'
  BY <1>1, <1>6 DEF EntriesInv, EntryDone, Replayed
<1>13. RecoveredInv => RecoveredInv'
  BY <1>1, <1>6 DEF RecoveredInv
<1> QED
  BY <1>1, <1>2, <1>5, <1>7, <1>8, <1>10, <1>11, <1>12, <1>13 DEF RecoveryInv

\* The invariant survives every step.
LEMMA RecoveryNext == RecoveryInv /\ [Next]_vars => RecoveryInv'
<1> SUFFICES ASSUME RecoveryInv, [Next]_vars PROVE RecoveryInv'
  OBVIOUS
<1>0. /\ PlanInv /\ phase \in PhaseSet \cup Down
      /\ phase \in PhaseSet => RunInv
  BY DEF RecoveryInv
<1>1. ASSUME NEW t \in Thread, Operate(t) PROVE RecoveryInv'
  <2>1. phase \in PhaseSet /\ RunInv
    BY <1>0, <1>1, RunningIs DEF Operate, Find, Delete, Confirm, Append_, Swap
  <2>2. phase' = phase
    BY <1>1 DEF Operate, Find, Delete, Confirm, Append_, Swap, threads
  <2>3. PlanInv' /\ RunInv'
    <3>1. ASSUME NEW k \in Key, Find(t, k) PROVE PlanInv' /\ RunInv'
      BY <1>0, <2>1, <3>1, FindOK
    <3>2. ASSUME NEW k \in Key, Delete(t, k) PROVE FALSE
      BY <1>0, <3>2 DEF Delete, PlanInv
    <3>3. CASE Confirm(t)
      BY <1>0, <2>1, <3>3, ConfirmOK
    <3>4. CASE Append_(t)
      BY <1>0, <2>1, <3>4, AppendOK
    <3>5. CASE Swap(t)
      BY <1>0, <2>1, <3>5, SwapOK
    <3> QED
      BY <1>1, <3>1, <3>2, <3>3, <3>4, <3>5 DEF Operate
  <2> QED
    BY <2>1, <2>2, <2>3, RunningStep
<1>2. ASSUME NEW t \in Thread, Refresh(t) PROVE RecoveryInv'
  <2>1. phase \in PhaseSet /\ RunInv /\ phase' = phase
    BY <1>0, <1>2, RunningIs DEF Refresh
  <2> QED
    BY <1>0, <1>2, <2>1, RefreshOK, RunningStep
<1>3. ASSUME NEW t \in Thread, WriteCprContext(t) PROVE RecoveryInv'
  <2>1. phase \in PhaseSet /\ RunInv /\ phase' = phase
    BY <1>0, <1>3 DEF WriteCprContext, threads, PhaseSet
  <2> QED
    BY <1>0, <1>3, <2>1, ContextOK, RunningStep
<1>4. CASE Checkpoint
  <2>1. phase \in PhaseSet /\ RunInv /\ phase' \in PhaseSet
    BY <1>0, <1>4 DEF Checkpoint, PhaseSet
  <2> QED
    BY <1>0, <1>4, <2>1, CheckpointOK, RunningStep
<1>5. CASE WriteLink
  <2>1. phase \in PhaseSet /\ RunInv /\ phase' = phase
    BY <1>0, <1>5 DEF WriteLink, threads, PhaseSet
  <2> QED
    BY <1>0, <1>5, <2>1, WriteLinkOK, RunningStep
<1>6. CASE GlobalMoveToNextState
  <2>1. phase \in PhaseSet /\ RunInv
    BY <1>0, <1>6, MoveIs DEF Precedes, PhaseSet
  <2> QED
    BY <1>0, <1>6, <2>1, MoveOK, RunningStep
<1>7. ASSUME NEW e \in Entry, WriteEntry(e) PROVE RecoveryInv'
  <2>1. phase \in PhaseSet /\ RunInv /\ phase' = phase
    BY <1>0, <1>7 DEF WriteEntry, threads, PhaseSet
  <2> QED
    BY <1>0, <1>7, <2>1, WriteEntryOK, RunningStep
<1>8. ASSUME NEW p \in Pages, FlushPage(p) PROVE RecoveryInv'
  <2>1. phase \in PhaseSet /\ RunInv /\ phase' = phase
    BY <1>0, <1>8 DEF FlushPage, threads, PhaseSet
  <2> QED
    BY <1>0, <1>8, <2>1, FlushPageOK, RunningStep
<1>9. CASE Crash
  BY <1>9, CrashOK
<1>10. CASE RecoverStep
  <2>1. CASE Recover
    BY <2>1, RecoverOK
  <2>2. CASE RestoreHybridLog
    BY <2>2, RestoreOK
  <2>3. ASSUME NEW p \in Pages, ReadDone(p) \/ Replay(p) \/ FlushDone(p) PROVE RecoveryInv'
    <3>1. phase = "recovering" /\ phase' = phase
      BY <2>3 DEF ReadDone, Replay, FlushDone, threads
    <3>2. RecoveringInv
      BY <3>1, RecoveringIs
    <3>3. RecoveringInv'
      BY <2>3, <3>2, ReadDoneOK, ReplayOK, FlushDoneOK
    <3> QED
      BY <3>1, <3>3, RecoveringIs
  <2> QED
    BY <1>10, <2>1, <2>2, <2>3 DEF RecoverStep
<1>11. CASE UNCHANGED vars
  BY <1>11, Unmoved
<1> QED
  BY <1>1, <1>2, <1>3, <1>4, <1>5, <1>6, <1>7, <1>8, <1>9, <1>10, <1>11
     DEF Next, WriteTable, WriteOverflowBuckets

\* What Recover has recovered is the checkpointed version: every key has the
\* last record that version gave it, and the records of the next are marked on
\* disk.  For plans that do not delete: InternalDelete of the chain's first
\* record logs nothing, and the key may come back.
THEOREM RecoveryYieldsCut ==
  ASSUME \A p \in Plans : ~p.deletes
  PROVE  Spec => []RecoveredIsCut
<1>1. Init => RecoveryInv
  BY RecoveryInit DEF NoDeletes
<1>2. RecoveryInv => RecoveredIsCut
  BY RecoveredIsCutHolds DEF RecoveredIsCut
<1> QED
  BY <1>1, <1>2, RecoveryNext, PTL DEF Spec
=============================================================================
