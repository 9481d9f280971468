------------------------ MODULE SystemPhasesProofs ------------------------
(***************************************************************************)
(* Proofs about SystemPhases: the barrier between the phases of an action  *)
(* (phase_finished, FinishThreadPhase and GlobalMoveToNextState) holds for *)
(* any number of threads, chunks and actions, and with it the properties   *)
(* of checkpoints, garbage collection and index growth.                    *)
(*                                                                         *)
(* The invariant follows each thread through its calls: the phase it has   *)
(* acknowledged, the one it works in, the two states of its loop and the   *)
(* one it wants to move the system on from.  The lemmas go action by       *)
(* action; the theorems are at the end.                                    *)
(***************************************************************************)
EXTENDS SystemPhases, TLAPS

(***************************************************************************)
(* The hosts the proofs are about: they start an action only when all      *)
(* threads rest, and their sessions run before the first action.           *)
(***************************************************************************)
HostWaits == host.waits /\ JoinedAtStart

(***************************************************************************)
(* The inductive invariant.  The order of an action's phases is their      *)
(* Rank; an action ends with the phase LastOf[a].                          *)
(***************************************************************************)
Rank ==
  [REST |-> 0, PREP_INDEX_CHKPT |-> 1, INDEX_CHKPT |-> 2, PREPARE |-> 3, IN_PROGRESS |-> 4,
   WAIT_PENDING |-> 5, WAIT_FLUSH |-> 6, PERSISTENCE_CALLBACK |-> 7, GC_IO_PENDING |-> 8,
   GC_IN_PROGRESS |-> 9, GROW_PREPARE |-> 10, GROW_IN_PROGRESS |-> 11]
PhasesOf(a) == {PhaseOrder[a][i] : i \in DOMAIN PhaseOrder[a]}
LastOf ==
  [CheckpointFull |-> "PERSISTENCE_CALLBACK", CheckpointIndex |-> "INDEX_CHKPT",
   CheckpointHybridLog |-> "PERSISTENCE_CALLBACK", GC |-> "GC_IN_PROGRESS",
   GrowIndex |-> "GROW_IN_PROGRESS"]
LastPhases == {LastOf[a] : a \in Actions}
LogCheckpoints == {"CheckpointFull", "CheckpointHybridLog"}

\* The version of a state without the shift of PREPARE -> IN_PROGRESS.
Shifted(p) == IF p \in {"IN_PROGRESS", "WAIT_PENDING", "WAIT_FLUSH", "PERSISTENCE_CALLBACK"}
              THEN 1 ELSE 0
Base(s) == s.version - Shifted(s.phase)

Alive(t) == session[t] = "active"
Starting == \E t \in Thread : At(t, "init_action")
Underway == system_state.phase # "REST"
Unacknowledged(a, p) == a = "CheckpointFull" /\ p = "INDEX_CHKPT"

StateSet == [action : Actions \cup {"None"}, phase : Phase, version : Nat]
PhaseTypeOK ==
  /\ host \in Hosts
  /\ system_state \in StateSet
  /\ index_io \in {"none", "started", "done"} /\ flush \in {"none", "started", "done"}
  /\ gc_ \in ChunkState /\ grow_ \in ChunkState /\ resize_info \in {0, 1}
  /\ session \in [Thread -> {"none", "active"}]
  /\ phase \in [Thread -> Phase] /\ version \in [Thread -> Nat]
  /\ pending \in [Thread -> BOOLEAN] /\ prev_pending \in [Thread -> BOOLEAN]
  /\ phase_finished \in [Thread -> Phase]
  /\ op \in [Thread -> {0, 1, NoTable}]
  /\ pc \in [Thread -> Labels] /\ caller \in [Thread -> {"none", "heavy", "split"}]
  /\ previous_state \in [Thread -> StateSet] /\ final_state \in [Thread -> StateSet]
  /\ moving \in [Thread -> StateSet]
  /\ idx \in [Thread -> 0 .. NumThreads] /\ chunk \in [Thread -> Chunk]

SystemInv ==
  /\ system_state.action = "None" => ~Underway /\ ~Starting
  /\ Underway => ~Starting /\ system_state.phase \in PhasesOf(system_state.action)
  /\ \A t, u \in Thread : At(t, "init_action") /\ At(u, "init_action") => t = u
  /\ \A t, u \in Thread : At(t, "moved") /\ At(u, "moved") => t = u

Outside == {"idle", "init_action", "refresh", "handle"}

\* A thread without a session is at rest; one with a session is inside a call
\* of the kind its label says.
ControlInv(t) ==
  /\ ~Alive(t) => At(t, "idle") /\ op[t] = NoTable /\ ~prev_pending[t]
                  /\ phase_finished[t] \in LastPhases \cup {"REST"}
  /\ pc[t] \in Outside => caller[t] = "none"
  /\ pc[t] \in {"step"} => caller[t] = "none"
  /\ At(t, "tail") => caller[t] # "heavy"
  /\ At(t, "clean") => caller[t] # "split"
  /\ pc[t] \in {"split", "split_chunk", "spin"} => caller[t] # "none"
  /\ Starting => /\ pc[t] \in {"idle", "refresh", "init_action"}
                 /\ Alive(t) => phase[t] = "REST"
  /\ At(t, "scan") => idx[t] \in 1 .. NumThreads

\* The barrier: a live thread has acknowledged every phase the system has left.
AckInv(t) ==
  /\ ~Underway => phase_finished[t] \in LastPhases \cup {"REST"}
  /\ Alive(t) /\ Underway =>
       /\ phase_finished[t] \in PhasesOf(system_state.action)
       /\ ~Unacknowledged(system_state.action, phase_finished[t])
       /\ Rank[phase_finished[t]] <= Rank[system_state.phase]
       /\ \A p \in PhasesOf(system_state.action) :
            Rank[p] < Rank[system_state.phase] /\ ~Unacknowledged(system_state.action, p)
              => Rank[p] <= Rank[phase_finished[t]]
  /\ Alive(t) /\ ~Underway /\ ~Starting /\ system_state.action # "None" =>
       phase_finished[t] = LastOf[system_state.action]

VersionInv(t) ==
  Alive(t) =>
    IF Underway THEN version[t] - Shifted(phase[t]) = Base(system_state)
    ELSE version[t] = system_state.version

\* Between calls, and in the work that HeavyEnter does first: the phase lies
\* between the last one acknowledged and the system's.
OutsideInv(t) ==
  Alive(t) /\ (pc[t] \in Outside \/ (caller[t] = "heavy" /\ pc[t] \in {"clean", "split", "split_chunk"})) =>
    IF Underway
    THEN /\ phase[t] \in PhasesOf(system_state.action)
         /\ Rank[phase_finished[t]] <= Rank[phase[t]]
         /\ Rank[phase[t]] <= Rank[system_state.phase]
    ELSE phase[t] = "REST" \/ (phase[t] \in LastPhases /\ phase_finished[t] = phase[t])

\* In the loop of HandleSpecialPhases.
LoopInv(t) ==
  LET p == previous_state[t]
      f == final_state[t]
  IN  Alive(t) /\ pc[t] \notin Outside /\ caller[t] # "heavy" =>
        /\ f.action \in Actions /\ p.action = f.action
        /\ p.phase \in PhasesOf(f.action) /\ f.phase \in PhasesOf(f.action)
        /\ f.phase # "REST" /\ Rank[p.phase] <= Rank[f.phase]
        /\ Base(p) = Base(f)
        /\ IF Underway
           THEN /\ system_state.action = f.action
                /\ Rank[f.phase] <= Rank[system_state.phase]
                /\ Base(f) = Base(system_state)
           ELSE /\ f.phase = LastOf[f.action] /\ phase_finished[t] = f.phase
                /\ f.version = system_state.version
        /\ version[t] = p.version
        /\ \/ phase[t] = p.phase
           \/ /\ caller[t] = "split" /\ pc[t] \notin {"split", "split_chunk"}
              /\ phase[t] = "REST"
        /\ Rank[phase_finished[t]] <= Rank[Current(t).phase]
        /\ At(t, "step") => Rank[phase_finished[t]] <= Rank[p.phase]
        /\ caller[t] = "split" => Current(t).phase = "GROW_IN_PROGRESS"
        /\ caller[t] = "split" /\ pc[t] \notin {"split", "split_chunk"} =>
             phase_finished[t] = "GROW_IN_PROGRESS"

\* HeavyEnter splits, and is at rest once it has acknowledged.
HeavyInv(t) ==
  Alive(t) /\ caller[t] = "heavy" =>
    /\ pc[t] \in {"split", "split_chunk"} => phase[t] = "GROW_IN_PROGRESS"
    /\ pc[t] \in {"scan", "spin", "move", "moved"} =>
         /\ phase[t] = "REST" /\ phase_finished[t] = "GROW_IN_PROGRESS"
         /\ At(t, "moved") => ~Underway

\* Work on chunks is done before the last acknowledgement.
ChunkInv(t) ==
  /\ At(t, "clean") => /\ Underway /\ system_state.action = "GC"
                       /\ phase_finished[t] # "GC_IN_PROGRESS"
  /\ At(t, "split_chunk") => /\ Underway /\ system_state.action = "GrowIndex"
                             /\ system_state.phase = "GROW_IN_PROGRESS"
                             /\ phase_finished[t] # "GROW_IN_PROGRESS"
  /\ phase_finished[t] = "GC_IN_PROGRESS" => gc_.next_chunk = NumChunks
  /\ phase_finished[t] = "GROW_IN_PROGRESS" => grow_.next_chunk = NumChunks

HeldInv ==
  /\ \A c \in Chunk : c < gc_.next_chunk =>
       c \in gc_.done \/ \E t \in Thread : At(t, "clean") /\ chunk[t] = c
  /\ \A c \in Chunk : c < grow_.next_chunk =>
       c \in grow_.done \/ \E t \in Thread : At(t, "split_chunk") /\ chunk[t] = c

\* The state a thread wants to move on from, and what it has seen of the others.
MoveInv(t) ==
  /\ pc[t] \in {"scan", "move"} =>
       moving[t] = IF caller[t] = "heavy"
                   THEN SystemState("GrowIndex", "GROW_IN_PROGRESS", version[t])
                   ELSE Current(t)
  /\ At(t, "scan") => phase_finished[t] = moving[t].phase
  /\ At(t, "scan") /\ moving[t] = system_state =>
       \A u \in Thread : u < idx[t] /\ Alive(u) => phase_finished[u] = moving[t].phase
  /\ At(t, "move") /\ moving[t] = system_state =>
       IF Unacknowledged(moving[t].action, moving[t].phase) THEN index_io = "done"
       ELSE \A u \in Thread : Alive(u) => phase_finished[u] = moving[t].phase
  /\ At(t, "moved") =>
       /\ moving[t] = system_state
       /\ system_state.action # "None"
       /\ phase_finished[t] # system_state.phase
       /\ system_state.phase = "INDEX_CHKPT" => index_io = "none"
       /\ system_state.phase = "WAIT_FLUSH" => flush = "none"

PrevInv(t) ==
  prev_pending[t] =>
    /\ Underway
    /\ \/ system_state.action \in LogCheckpoints /\ phase_finished[t] = "IN_PROGRESS"
       \/ /\ system_state.action = "GC" /\ phase_finished[t] = "REST"
          /\ phase[t] = "GC_IO_PENDING" \/ At(t, "tail")

CheckpointInv ==
  /\ system_state.action \in {"CheckpointFull", "CheckpointIndex"} /\
     system_state.phase = "PREP_INDEX_CHKPT" => index_io = "none"
  /\ flush # "none" =>
       /\ system_state.action \in LogCheckpoints /\ ~Starting
       /\ system_state.phase \in {"WAIT_FLUSH", "PERSISTENCE_CALLBACK", "REST"}
  /\ notified # {} =>
       /\ system_state.action \in LogCheckpoints /\ ~Starting
       /\ system_state.phase \in {"PERSISTENCE_CALLBACK", "REST"}
  /\ system_state.action \in LogCheckpoints /\ ~Starting =>
       /\ system_state.phase \in {"PERSISTENCE_CALLBACK", "REST"} => flush = "done"
       /\ \A t \in Thread : Alive(t) =>
            /\ Rank[phase_finished[t]] >= Rank["PREPARE"] => t \in guids
            /\ Rank[phase_finished[t]] >= Rank["WAIT_FLUSH"] => t \in contexts /\ flush = "done"

ThreadInv(t) ==
  /\ ControlInv(t) /\ AckInv(t) /\ VersionInv(t) /\ OutsideInv(t) /\ LoopInv(t)
  /\ HeavyInv(t) /\ ChunkInv(t) /\ MoveInv(t) /\ PrevInv(t)

PhaseInv == PhaseTypeOK /\ SystemInv /\ HeldInv /\ CheckpointInv /\ \A t \in Thread : ThreadInv(t)

OpInv == \A t \in Thread : op[t] # NoTable =>
  At(t, "idle") /\ phase[t] \notin {"GROW_PREPARE", "GROW_IN_PROGRESS"} /\ op[t] = resize_info
  /\ system_state.phase # "GROW_IN_PROGRESS"

-----------------------------------------------------------------------------
(***************************************************************************)
(* The table of phases.                                                    *)
(***************************************************************************)
LEMMA RankTable ==
  /\ Rank["REST"] = 0 /\ Rank["PREP_INDEX_CHKPT"] = 1 /\ Rank["INDEX_CHKPT"] = 2
  /\ Rank["PREPARE"] = 3 /\ Rank["IN_PROGRESS"] = 4 /\ Rank["WAIT_PENDING"] = 5
  /\ Rank["WAIT_FLUSH"] = 6 /\ Rank["PERSISTENCE_CALLBACK"] = 7 /\ Rank["GC_IO_PENDING"] = 8
  /\ Rank["GC_IN_PROGRESS"] = 9 /\ Rank["GROW_PREPARE"] = 10 /\ Rank["GROW_IN_PROGRESS"] = 11
BY DEF Rank

LEMMA PhasesTable ==
  /\ PhasesOf("CheckpointFull") =
       {"REST", "PREP_INDEX_CHKPT", "INDEX_CHKPT", "PREPARE", "IN_PROGRESS",
        "WAIT_PENDING", "WAIT_FLUSH", "PERSISTENCE_CALLBACK"}
  /\ PhasesOf("CheckpointIndex") = {"REST", "PREP_INDEX_CHKPT", "INDEX_CHKPT"}
  /\ PhasesOf("CheckpointHybridLog") =
       {"REST", "PREPARE", "IN_PROGRESS", "WAIT_PENDING", "WAIT_FLUSH", "PERSISTENCE_CALLBACK"}
  /\ PhasesOf("GC") = {"REST", "GC_IO_PENDING", "GC_IN_PROGRESS"}
  /\ PhasesOf("GrowIndex") = {"REST", "GROW_PREPARE", "GROW_IN_PROGRESS"}
  <1>1. DOMAIN PhaseOrder["CheckpointFull"] = 1 .. 8
    BY DEF PhaseOrder
  <1>2. DOMAIN PhaseOrder["CheckpointIndex"] = 1 .. 3
    BY DEF PhaseOrder
  <1>3. DOMAIN PhaseOrder["CheckpointHybridLog"] = 1 .. 6
    BY DEF PhaseOrder
  <1>4. DOMAIN PhaseOrder["GC"] = 1 .. 3
    BY DEF PhaseOrder
  <1>5. DOMAIN PhaseOrder["GrowIndex"] = 1 .. 3
    BY DEF PhaseOrder
  <1>6. /\ PhaseOrder["CheckpointFull"][1] = "REST"
        /\ PhaseOrder["CheckpointFull"][2] = "PREP_INDEX_CHKPT"
        /\ PhaseOrder["CheckpointFull"][3] = "INDEX_CHKPT"
        /\ PhaseOrder["CheckpointFull"][4] = "PREPARE"
        /\ PhaseOrder["CheckpointFull"][5] = "IN_PROGRESS"
        /\ PhaseOrder["CheckpointFull"][6] = "WAIT_PENDING"
        /\ PhaseOrder["CheckpointFull"][7] = "WAIT_FLUSH"
        /\ PhaseOrder["CheckpointFull"][8] = "PERSISTENCE_CALLBACK"
    BY DEF PhaseOrder
  <1>7. /\ PhaseOrder["CheckpointHybridLog"][1] = "REST"
        /\ PhaseOrder["CheckpointHybridLog"][2] = "PREPARE"
        /\ PhaseOrder["CheckpointHybridLog"][3] = "IN_PROGRESS"
        /\ PhaseOrder["CheckpointHybridLog"][4] = "WAIT_PENDING"
        /\ PhaseOrder["CheckpointHybridLog"][5] = "WAIT_FLUSH"
        /\ PhaseOrder["CheckpointHybridLog"][6] = "PERSISTENCE_CALLBACK"
    BY DEF PhaseOrder
  <1>8. /\ PhaseOrder["CheckpointIndex"][1] = "REST"
        /\ PhaseOrder["CheckpointIndex"][2] = "PREP_INDEX_CHKPT"
        /\ PhaseOrder["CheckpointIndex"][3] = "INDEX_CHKPT"
        /\ PhaseOrder["GC"][1] = "REST" /\ PhaseOrder["GC"][2] = "GC_IO_PENDING"
        /\ PhaseOrder["GC"][3] = "GC_IN_PROGRESS"
        /\ PhaseOrder["GrowIndex"][1] = "REST" /\ PhaseOrder["GrowIndex"][2] = "GROW_PREPARE"
        /\ PhaseOrder["GrowIndex"][3] = "GROW_IN_PROGRESS"
    BY DEF PhaseOrder
  <1>9. \A i : i \in 1 .. 8 <=> i \in {1, 2, 3, 4, 5, 6, 7, 8}
    OBVIOUS
  <1>10. \A i : i \in 1 .. 6 <=> i \in {1, 2, 3, 4, 5, 6}
    OBVIOUS
  <1>11. \A i : i \in 1 .. 3 <=> i \in {1, 2, 3}
    OBVIOUS
  <1>12. PhasesOf("CheckpointFull") =
       {"REST", "PREP_INDEX_CHKPT", "INDEX_CHKPT", "PREPARE", "IN_PROGRESS",
        "WAIT_PENDING", "WAIT_FLUSH", "PERSISTENCE_CALLBACK"}
    BY <1>1, <1>6, <1>9 DEF PhasesOf
  <1>13. PhasesOf("CheckpointHybridLog") =
       {"REST", "PREPARE", "IN_PROGRESS", "WAIT_PENDING", "WAIT_FLUSH", "PERSISTENCE_CALLBACK"}
    BY <1>3, <1>7, <1>10 DEF PhasesOf
  <1>14. PhasesOf("CheckpointIndex") = {"REST", "PREP_INDEX_CHKPT", "INDEX_CHKPT"}
    BY <1>2, <1>8, <1>11 DEF PhasesOf
  <1>15. PhasesOf("GC") = {"REST", "GC_IO_PENDING", "GC_IN_PROGRESS"}
    BY <1>4, <1>8, <1>11 DEF PhasesOf
  <1>16. PhasesOf("GrowIndex") = {"REST", "GROW_PREPARE", "GROW_IN_PROGRESS"}
    BY <1>5, <1>8, <1>11 DEF PhasesOf
  <1> QED
    BY <1>12, <1>13, <1>14, <1>15, <1>16

LEMMA LastTable ==
  /\ LastOf["CheckpointFull"] = "PERSISTENCE_CALLBACK"
  /\ LastOf["CheckpointIndex"] = "INDEX_CHKPT"
  /\ LastOf["CheckpointHybridLog"] = "PERSISTENCE_CALLBACK"
  /\ LastOf["GC"] = "GC_IN_PROGRESS" /\ LastOf["GrowIndex"] = "GROW_IN_PROGRESS"
  /\ LastPhases = {"PERSISTENCE_CALLBACK", "INDEX_CHKPT", "GC_IN_PROGRESS", "GROW_IN_PROGRESS"}
BY DEF LastOf, LastPhases, Actions

\* GetNextState, case by case.

LEMMA NextAt ==
  ASSUME NEW s, NEW o, o = PhaseOrder[s.action],
         NEW i \in DOMAIN o, o[i] = s.phase, \A j \in DOMAIN o : o[j] = s.phase => j = i,
         NEW k, (i % Len(o)) + 1 = k
  PROVE  GetNextState(s) = SystemState(s.action, o[k],
                             IF s.phase = "PREPARE" THEN s.version + 1 ELSE s.version)
  <1>1. (CHOOSE j \in DOMAIN o : o[j] = s.phase) = i
    BY Zenon
  <1>2. o[((CHOOSE j \in DOMAIN o : o[j] = s.phase) % Len(o)) + 1] = o[k]
    BY <1>1, Zenon
  <1>3. PhaseOrder[s.action][((CHOOSE j \in DOMAIN PhaseOrder[s.action] :
                                PhaseOrder[s.action][j] = s.phase)
                              % Len(PhaseOrder[s.action])) + 1] = o[k]
    BY <1>2, Zenon
  <1> QED
    BY <1>3, Zenon DEF GetNextState

LEMMA NextOfFull ==
  ASSUME NEW s, s.action = "CheckpointFull"
  PROVE  /\ s.phase \in PhasesOf("CheckpointFull") => HasNextState(s)
         /\ s.phase = "REST" =>
              GetNextState(s) = SystemState("CheckpointFull", "PREP_INDEX_CHKPT", s.version)
         /\ s.phase = "PREP_INDEX_CHKPT" =>
              GetNextState(s) = SystemState("CheckpointFull", "INDEX_CHKPT", s.version)
         /\ s.phase = "INDEX_CHKPT" =>
              GetNextState(s) = SystemState("CheckpointFull", "PREPARE", s.version)
         /\ s.phase = "PREPARE" =>
              GetNextState(s) = SystemState("CheckpointFull", "IN_PROGRESS", s.version + 1)
         /\ s.phase = "IN_PROGRESS" =>
              GetNextState(s) = SystemState("CheckpointFull", "WAIT_PENDING", s.version)
         /\ s.phase = "WAIT_PENDING" =>
              GetNextState(s) = SystemState("CheckpointFull", "WAIT_FLUSH", s.version)
         /\ s.phase = "WAIT_FLUSH" =>
              GetNextState(s) = SystemState("CheckpointFull", "PERSISTENCE_CALLBACK", s.version)
         /\ s.phase = "PERSISTENCE_CALLBACK" =>
              GetNextState(s) = SystemState("CheckpointFull", "REST", s.version)
  <1>1. PICK o : o = PhaseOrder["CheckpointFull"]
    OBVIOUS
  <1>2. /\ Len(o) = 8 /\ DOMAIN o = 1 .. 8
        /\ o[1] = "REST" /\ o[2] = "PREP_INDEX_CHKPT" /\ o[3] = "INDEX_CHKPT" /\ o[4] = "PREPARE" /\ o[5] = "IN_PROGRESS" /\ o[6] = "WAIT_PENDING" /\ o[7] = "WAIT_FLUSH" /\ o[8] = "PERSISTENCE_CALLBACK"
    BY <1>1 DEF PhaseOrder
  <1>3. \A i : i \in 1 .. 8 <=> i \in {1, 2, 3, 4, 5, 6, 7, 8}
    OBVIOUS
  <1>4. (1 % 8) + 1 = 2 /\ (2 % 8) + 1 = 3 /\ (3 % 8) + 1 = 4 /\ (4 % 8) + 1 = 5 /\ (5 % 8) + 1 = 6 /\ (6 % 8) + 1 = 7 /\ (7 % 8) + 1 = 8 /\ (8 % 8) + 1 = 1
    BY Z3
  <1>5. ASSUME s.phase = "REST" PROVE GetNextState(s) = SystemState("CheckpointFull", "PREP_INDEX_CHKPT", s.version)
    <2>1. 1 \in DOMAIN o /\ \A j \in DOMAIN o : o[j] = s.phase => j = 1
      BY <1>5, <1>2, <1>3
    <2>2. (1 % Len(o)) + 1 = 2
      BY <1>2, <1>4
    <2>3. o[1] = s.phase /\ o = PhaseOrder[s.action]
      BY <1>1, <1>2, <1>5
    <2>4. GetNextState(s) = SystemState(s.action, o[2],
                             IF s.phase = "PREPARE" THEN s.version + 1 ELSE s.version)
      BY <2>1, <2>2, <2>3, NextAt, Zenon
    <2> QED
      BY <2>4, <1>2, <1>5
  <1>6. ASSUME s.phase = "PREP_INDEX_CHKPT" PROVE GetNextState(s) = SystemState("CheckpointFull", "INDEX_CHKPT", s.version)
    <2>1. 2 \in DOMAIN o /\ \A j \in DOMAIN o : o[j] = s.phase => j = 2
      BY <1>6, <1>2, <1>3
    <2>2. (2 % Len(o)) + 1 = 3
      BY <1>2, <1>4
    <2>3. o[2] = s.phase /\ o = PhaseOrder[s.action]
      BY <1>1, <1>2, <1>6
    <2>4. GetNextState(s) = SystemState(s.action, o[3],
                             IF s.phase = "PREPARE" THEN s.version + 1 ELSE s.version)
      BY <2>1, <2>2, <2>3, NextAt, Zenon
    <2> QED
      BY <2>4, <1>2, <1>6
  <1>7. ASSUME s.phase = "INDEX_CHKPT" PROVE GetNextState(s) = SystemState("CheckpointFull", "PREPARE", s.version)
    <2>1. 3 \in DOMAIN o /\ \A j \in DOMAIN o : o[j] = s.phase => j = 3
      BY <1>7, <1>2, <1>3
    <2>2. (3 % Len(o)) + 1 = 4
      BY <1>2, <1>4
    <2>3. o[3] = s.phase /\ o = PhaseOrder[s.action]
      BY <1>1, <1>2, <1>7
    <2>4. GetNextState(s) = SystemState(s.action, o[4],
                             IF s.phase = "PREPARE" THEN s.version + 1 ELSE s.version)
      BY <2>1, <2>2, <2>3, NextAt, Zenon
    <2> QED
      BY <2>4, <1>2, <1>7
  <1>8. ASSUME s.phase = "PREPARE" PROVE GetNextState(s) = SystemState("CheckpointFull", "IN_PROGRESS", s.version + 1)
    <2>1. 4 \in DOMAIN o /\ \A j \in DOMAIN o : o[j] = s.phase => j = 4
      BY <1>8, <1>2, <1>3
    <2>2. (4 % Len(o)) + 1 = 5
      BY <1>2, <1>4
    <2>3. o[4] = s.phase /\ o = PhaseOrder[s.action]
      BY <1>1, <1>2, <1>8
    <2>4. GetNextState(s) = SystemState(s.action, o[5],
                             IF s.phase = "PREPARE" THEN s.version + 1 ELSE s.version)
      BY <2>1, <2>2, <2>3, NextAt, Zenon
    <2> QED
      BY <2>4, <1>2, <1>8
  <1>9. ASSUME s.phase = "IN_PROGRESS" PROVE GetNextState(s) = SystemState("CheckpointFull", "WAIT_PENDING", s.version)
    <2>1. 5 \in DOMAIN o /\ \A j \in DOMAIN o : o[j] = s.phase => j = 5
      BY <1>9, <1>2, <1>3
    <2>2. (5 % Len(o)) + 1 = 6
      BY <1>2, <1>4
    <2>3. o[5] = s.phase /\ o = PhaseOrder[s.action]
      BY <1>1, <1>2, <1>9
    <2>4. GetNextState(s) = SystemState(s.action, o[6],
                             IF s.phase = "PREPARE" THEN s.version + 1 ELSE s.version)
      BY <2>1, <2>2, <2>3, NextAt, Zenon
    <2> QED
      BY <2>4, <1>2, <1>9
  <1>10. ASSUME s.phase = "WAIT_PENDING" PROVE GetNextState(s) = SystemState("CheckpointFull", "WAIT_FLUSH", s.version)
    <2>1. 6 \in DOMAIN o /\ \A j \in DOMAIN o : o[j] = s.phase => j = 6
      BY <1>10, <1>2, <1>3
    <2>2. (6 % Len(o)) + 1 = 7
      BY <1>2, <1>4
    <2>3. o[6] = s.phase /\ o = PhaseOrder[s.action]
      BY <1>1, <1>2, <1>10
    <2>4. GetNextState(s) = SystemState(s.action, o[7],
                             IF s.phase = "PREPARE" THEN s.version + 1 ELSE s.version)
      BY <2>1, <2>2, <2>3, NextAt, Zenon
    <2> QED
      BY <2>4, <1>2, <1>10
  <1>11. ASSUME s.phase = "WAIT_FLUSH" PROVE GetNextState(s) = SystemState("CheckpointFull", "PERSISTENCE_CALLBACK", s.version)
    <2>1. 7 \in DOMAIN o /\ \A j \in DOMAIN o : o[j] = s.phase => j = 7
      BY <1>11, <1>2, <1>3
    <2>2. (7 % Len(o)) + 1 = 8
      BY <1>2, <1>4
    <2>3. o[7] = s.phase /\ o = PhaseOrder[s.action]
      BY <1>1, <1>2, <1>11
    <2>4. GetNextState(s) = SystemState(s.action, o[8],
                             IF s.phase = "PREPARE" THEN s.version + 1 ELSE s.version)
      BY <2>1, <2>2, <2>3, NextAt, Zenon
    <2> QED
      BY <2>4, <1>2, <1>11
  <1>12. ASSUME s.phase = "PERSISTENCE_CALLBACK" PROVE GetNextState(s) = SystemState("CheckpointFull", "REST", s.version)
    <2>1. 8 \in DOMAIN o /\ \A j \in DOMAIN o : o[j] = s.phase => j = 8
      BY <1>12, <1>2, <1>3
    <2>2. (8 % Len(o)) + 1 = 1
      BY <1>2, <1>4
    <2>3. o[8] = s.phase /\ o = PhaseOrder[s.action]
      BY <1>1, <1>2, <1>12
    <2>4. GetNextState(s) = SystemState(s.action, o[1],
                             IF s.phase = "PREPARE" THEN s.version + 1 ELSE s.version)
      BY <2>1, <2>2, <2>3, NextAt, Zenon
    <2> QED
      BY <2>4, <1>2, <1>12
  <1>13. s.phase \in PhasesOf("CheckpointFull") => HasNextState(s)
    BY DEF PhasesOf, HasNextState
  <1> QED
    BY <1>5, <1>6, <1>7, <1>8, <1>9, <1>10, <1>11, <1>12, <1>13

LEMMA NextOfIndex ==
  ASSUME NEW s, s.action = "CheckpointIndex"
  PROVE  /\ s.phase \in PhasesOf("CheckpointIndex") => HasNextState(s)
         /\ s.phase = "REST" =>
              GetNextState(s) = SystemState("CheckpointIndex", "PREP_INDEX_CHKPT", s.version)
         /\ s.phase = "PREP_INDEX_CHKPT" =>
              GetNextState(s) = SystemState("CheckpointIndex", "INDEX_CHKPT", s.version)
         /\ s.phase = "INDEX_CHKPT" =>
              GetNextState(s) = SystemState("CheckpointIndex", "REST", s.version)
  <1>1. PICK o : o = PhaseOrder["CheckpointIndex"]
    OBVIOUS
  <1>2. /\ Len(o) = 3 /\ DOMAIN o = 1 .. 3
        /\ o[1] = "REST" /\ o[2] = "PREP_INDEX_CHKPT" /\ o[3] = "INDEX_CHKPT"
    BY <1>1 DEF PhaseOrder
  <1>3. \A i : i \in 1 .. 3 <=> i \in {1, 2, 3}
    OBVIOUS
  <1>4. (1 % 3) + 1 = 2 /\ (2 % 3) + 1 = 3 /\ (3 % 3) + 1 = 1
    BY Z3
  <1>5. ASSUME s.phase = "REST" PROVE GetNextState(s) = SystemState("CheckpointIndex", "PREP_INDEX_CHKPT", s.version)
    <2>1. 1 \in DOMAIN o /\ \A j \in DOMAIN o : o[j] = s.phase => j = 1
      BY <1>5, <1>2, <1>3
    <2>2. (1 % Len(o)) + 1 = 2
      BY <1>2, <1>4
    <2>3. o[1] = s.phase /\ o = PhaseOrder[s.action]
      BY <1>1, <1>2, <1>5
    <2>4. GetNextState(s) = SystemState(s.action, o[2],
                             IF s.phase = "PREPARE" THEN s.version + 1 ELSE s.version)
      BY <2>1, <2>2, <2>3, NextAt, Zenon
    <2> QED
      BY <2>4, <1>2, <1>5
  <1>6. ASSUME s.phase = "PREP_INDEX_CHKPT" PROVE GetNextState(s) = SystemState("CheckpointIndex", "INDEX_CHKPT", s.version)
    <2>1. 2 \in DOMAIN o /\ \A j \in DOMAIN o : o[j] = s.phase => j = 2
      BY <1>6, <1>2, <1>3
    <2>2. (2 % Len(o)) + 1 = 3
      BY <1>2, <1>4
    <2>3. o[2] = s.phase /\ o = PhaseOrder[s.action]
      BY <1>1, <1>2, <1>6
    <2>4. GetNextState(s) = SystemState(s.action, o[3],
                             IF s.phase = "PREPARE" THEN s.version + 1 ELSE s.version)
      BY <2>1, <2>2, <2>3, NextAt, Zenon
    <2> QED
      BY <2>4, <1>2, <1>6
  <1>7. ASSUME s.phase = "INDEX_CHKPT" PROVE GetNextState(s) = SystemState("CheckpointIndex", "REST", s.version)
    <2>1. 3 \in DOMAIN o /\ \A j \in DOMAIN o : o[j] = s.phase => j = 3
      BY <1>7, <1>2, <1>3
    <2>2. (3 % Len(o)) + 1 = 1
      BY <1>2, <1>4
    <2>3. o[3] = s.phase /\ o = PhaseOrder[s.action]
      BY <1>1, <1>2, <1>7
    <2>4. GetNextState(s) = SystemState(s.action, o[1],
                             IF s.phase = "PREPARE" THEN s.version + 1 ELSE s.version)
      BY <2>1, <2>2, <2>3, NextAt, Zenon
    <2> QED
      BY <2>4, <1>2, <1>7
  <1>8. s.phase \in PhasesOf("CheckpointIndex") => HasNextState(s)
    BY DEF PhasesOf, HasNextState
  <1> QED
    BY <1>5, <1>6, <1>7, <1>8

LEMMA NextOfHybridLog ==
  ASSUME NEW s, s.action = "CheckpointHybridLog"
  PROVE  /\ s.phase \in PhasesOf("CheckpointHybridLog") => HasNextState(s)
         /\ s.phase = "REST" =>
              GetNextState(s) = SystemState("CheckpointHybridLog", "PREPARE", s.version)
         /\ s.phase = "PREPARE" =>
              GetNextState(s) = SystemState("CheckpointHybridLog", "IN_PROGRESS", s.version + 1)
         /\ s.phase = "IN_PROGRESS" =>
              GetNextState(s) = SystemState("CheckpointHybridLog", "WAIT_PENDING", s.version)
         /\ s.phase = "WAIT_PENDING" =>
              GetNextState(s) = SystemState("CheckpointHybridLog", "WAIT_FLUSH", s.version)
         /\ s.phase = "WAIT_FLUSH" =>
              GetNextState(s) = SystemState("CheckpointHybridLog", "PERSISTENCE_CALLBACK", s.version)
         /\ s.phase = "PERSISTENCE_CALLBACK" =>
              GetNextState(s) = SystemState("CheckpointHybridLog", "REST", s.version)
  <1>1. PICK o : o = PhaseOrder["CheckpointHybridLog"]
    OBVIOUS
  <1>2. /\ Len(o) = 6 /\ DOMAIN o = 1 .. 6
        /\ o[1] = "REST" /\ o[2] = "PREPARE" /\ o[3] = "IN_PROGRESS" /\ o[4] = "WAIT_PENDING" /\ o[5] = "WAIT_FLUSH" /\ o[6] = "PERSISTENCE_CALLBACK"
    BY <1>1 DEF PhaseOrder
  <1>3. \A i : i \in 1 .. 6 <=> i \in {1, 2, 3, 4, 5, 6}
    OBVIOUS
  <1>4. (1 % 6) + 1 = 2 /\ (2 % 6) + 1 = 3 /\ (3 % 6) + 1 = 4 /\ (4 % 6) + 1 = 5 /\ (5 % 6) + 1 = 6 /\ (6 % 6) + 1 = 1
    BY Z3
  <1>5. ASSUME s.phase = "REST" PROVE GetNextState(s) = SystemState("CheckpointHybridLog", "PREPARE", s.version)
    <2>1. 1 \in DOMAIN o /\ \A j \in DOMAIN o : o[j] = s.phase => j = 1
      BY <1>5, <1>2, <1>3
    <2>2. (1 % Len(o)) + 1 = 2
      BY <1>2, <1>4
    <2>3. o[1] = s.phase /\ o = PhaseOrder[s.action]
      BY <1>1, <1>2, <1>5
    <2>4. GetNextState(s) = SystemState(s.action, o[2],
                             IF s.phase = "PREPARE" THEN s.version + 1 ELSE s.version)
      BY <2>1, <2>2, <2>3, NextAt, Zenon
    <2> QED
      BY <2>4, <1>2, <1>5
  <1>6. ASSUME s.phase = "PREPARE" PROVE GetNextState(s) = SystemState("CheckpointHybridLog", "IN_PROGRESS", s.version + 1)
    <2>1. 2 \in DOMAIN o /\ \A j \in DOMAIN o : o[j] = s.phase => j = 2
      BY <1>6, <1>2, <1>3
    <2>2. (2 % Len(o)) + 1 = 3
      BY <1>2, <1>4
    <2>3. o[2] = s.phase /\ o = PhaseOrder[s.action]
      BY <1>1, <1>2, <1>6
    <2>4. GetNextState(s) = SystemState(s.action, o[3],
                             IF s.phase = "PREPARE" THEN s.version + 1 ELSE s.version)
      BY <2>1, <2>2, <2>3, NextAt, Zenon
    <2> QED
      BY <2>4, <1>2, <1>6
  <1>7. ASSUME s.phase = "IN_PROGRESS" PROVE GetNextState(s) = SystemState("CheckpointHybridLog", "WAIT_PENDING", s.version)
    <2>1. 3 \in DOMAIN o /\ \A j \in DOMAIN o : o[j] = s.phase => j = 3
      BY <1>7, <1>2, <1>3
    <2>2. (3 % Len(o)) + 1 = 4
      BY <1>2, <1>4
    <2>3. o[3] = s.phase /\ o = PhaseOrder[s.action]
      BY <1>1, <1>2, <1>7
    <2>4. GetNextState(s) = SystemState(s.action, o[4],
                             IF s.phase = "PREPARE" THEN s.version + 1 ELSE s.version)
      BY <2>1, <2>2, <2>3, NextAt, Zenon
    <2> QED
      BY <2>4, <1>2, <1>7
  <1>8. ASSUME s.phase = "WAIT_PENDING" PROVE GetNextState(s) = SystemState("CheckpointHybridLog", "WAIT_FLUSH", s.version)
    <2>1. 4 \in DOMAIN o /\ \A j \in DOMAIN o : o[j] = s.phase => j = 4
      BY <1>8, <1>2, <1>3
    <2>2. (4 % Len(o)) + 1 = 5
      BY <1>2, <1>4
    <2>3. o[4] = s.phase /\ o = PhaseOrder[s.action]
      BY <1>1, <1>2, <1>8
    <2>4. GetNextState(s) = SystemState(s.action, o[5],
                             IF s.phase = "PREPARE" THEN s.version + 1 ELSE s.version)
      BY <2>1, <2>2, <2>3, NextAt, Zenon
    <2> QED
      BY <2>4, <1>2, <1>8
  <1>9. ASSUME s.phase = "WAIT_FLUSH" PROVE GetNextState(s) = SystemState("CheckpointHybridLog", "PERSISTENCE_CALLBACK", s.version)
    <2>1. 5 \in DOMAIN o /\ \A j \in DOMAIN o : o[j] = s.phase => j = 5
      BY <1>9, <1>2, <1>3
    <2>2. (5 % Len(o)) + 1 = 6
      BY <1>2, <1>4
    <2>3. o[5] = s.phase /\ o = PhaseOrder[s.action]
      BY <1>1, <1>2, <1>9
    <2>4. GetNextState(s) = SystemState(s.action, o[6],
                             IF s.phase = "PREPARE" THEN s.version + 1 ELSE s.version)
      BY <2>1, <2>2, <2>3, NextAt, Zenon
    <2> QED
      BY <2>4, <1>2, <1>9
  <1>10. ASSUME s.phase = "PERSISTENCE_CALLBACK" PROVE GetNextState(s) = SystemState("CheckpointHybridLog", "REST", s.version)
    <2>1. 6 \in DOMAIN o /\ \A j \in DOMAIN o : o[j] = s.phase => j = 6
      BY <1>10, <1>2, <1>3
    <2>2. (6 % Len(o)) + 1 = 1
      BY <1>2, <1>4
    <2>3. o[6] = s.phase /\ o = PhaseOrder[s.action]
      BY <1>1, <1>2, <1>10
    <2>4. GetNextState(s) = SystemState(s.action, o[1],
                             IF s.phase = "PREPARE" THEN s.version + 1 ELSE s.version)
      BY <2>1, <2>2, <2>3, NextAt, Zenon
    <2> QED
      BY <2>4, <1>2, <1>10
  <1>11. s.phase \in PhasesOf("CheckpointHybridLog") => HasNextState(s)
    BY DEF PhasesOf, HasNextState
  <1> QED
    BY <1>5, <1>6, <1>7, <1>8, <1>9, <1>10, <1>11

LEMMA NextOfGC ==
  ASSUME NEW s, s.action = "GC"
  PROVE  /\ s.phase \in PhasesOf("GC") => HasNextState(s)
         /\ s.phase = "REST" =>
              GetNextState(s) = SystemState("GC", "GC_IO_PENDING", s.version)
         /\ s.phase = "GC_IO_PENDING" =>
              GetNextState(s) = SystemState("GC", "GC_IN_PROGRESS", s.version)
         /\ s.phase = "GC_IN_PROGRESS" =>
              GetNextState(s) = SystemState("GC", "REST", s.version)
  <1>1. PICK o : o = PhaseOrder["GC"]
    OBVIOUS
  <1>2. /\ Len(o) = 3 /\ DOMAIN o = 1 .. 3
        /\ o[1] = "REST" /\ o[2] = "GC_IO_PENDING" /\ o[3] = "GC_IN_PROGRESS"
    BY <1>1 DEF PhaseOrder
  <1>3. \A i : i \in 1 .. 3 <=> i \in {1, 2, 3}
    OBVIOUS
  <1>4. (1 % 3) + 1 = 2 /\ (2 % 3) + 1 = 3 /\ (3 % 3) + 1 = 1
    BY Z3
  <1>5. ASSUME s.phase = "REST" PROVE GetNextState(s) = SystemState("GC", "GC_IO_PENDING", s.version)
    <2>1. 1 \in DOMAIN o /\ \A j \in DOMAIN o : o[j] = s.phase => j = 1
      BY <1>5, <1>2, <1>3
    <2>2. (1 % Len(o)) + 1 = 2
      BY <1>2, <1>4
    <2>3. o[1] = s.phase /\ o = PhaseOrder[s.action]
      BY <1>1, <1>2, <1>5
    <2>4. GetNextState(s) = SystemState(s.action, o[2],
                             IF s.phase = "PREPARE" THEN s.version + 1 ELSE s.version)
      BY <2>1, <2>2, <2>3, NextAt, Zenon
    <2> QED
      BY <2>4, <1>2, <1>5
  <1>6. ASSUME s.phase = "GC_IO_PENDING" PROVE GetNextState(s) = SystemState("GC", "GC_IN_PROGRESS", s.version)
    <2>1. 2 \in DOMAIN o /\ \A j \in DOMAIN o : o[j] = s.phase => j = 2
      BY <1>6, <1>2, <1>3
    <2>2. (2 % Len(o)) + 1 = 3
      BY <1>2, <1>4
    <2>3. o[2] = s.phase /\ o = PhaseOrder[s.action]
      BY <1>1, <1>2, <1>6
    <2>4. GetNextState(s) = SystemState(s.action, o[3],
                             IF s.phase = "PREPARE" THEN s.version + 1 ELSE s.version)
      BY <2>1, <2>2, <2>3, NextAt, Zenon
    <2> QED
      BY <2>4, <1>2, <1>6
  <1>7. ASSUME s.phase = "GC_IN_PROGRESS" PROVE GetNextState(s) = SystemState("GC", "REST", s.version)
    <2>1. 3 \in DOMAIN o /\ \A j \in DOMAIN o : o[j] = s.phase => j = 3
      BY <1>7, <1>2, <1>3
    <2>2. (3 % Len(o)) + 1 = 1
      BY <1>2, <1>4
    <2>3. o[3] = s.phase /\ o = PhaseOrder[s.action]
      BY <1>1, <1>2, <1>7
    <2>4. GetNextState(s) = SystemState(s.action, o[1],
                             IF s.phase = "PREPARE" THEN s.version + 1 ELSE s.version)
      BY <2>1, <2>2, <2>3, NextAt, Zenon
    <2> QED
      BY <2>4, <1>2, <1>7
  <1>8. s.phase \in PhasesOf("GC") => HasNextState(s)
    BY DEF PhasesOf, HasNextState
  <1> QED
    BY <1>5, <1>6, <1>7, <1>8

LEMMA NextOfGrow ==
  ASSUME NEW s, s.action = "GrowIndex"
  PROVE  /\ s.phase \in PhasesOf("GrowIndex") => HasNextState(s)
         /\ s.phase = "REST" =>
              GetNextState(s) = SystemState("GrowIndex", "GROW_PREPARE", s.version)
         /\ s.phase = "GROW_PREPARE" =>
              GetNextState(s) = SystemState("GrowIndex", "GROW_IN_PROGRESS", s.version)
         /\ s.phase = "GROW_IN_PROGRESS" =>
              GetNextState(s) = SystemState("GrowIndex", "REST", s.version)
  <1>1. PICK o : o = PhaseOrder["GrowIndex"]
    OBVIOUS
  <1>2. /\ Len(o) = 3 /\ DOMAIN o = 1 .. 3
        /\ o[1] = "REST" /\ o[2] = "GROW_PREPARE" /\ o[3] = "GROW_IN_PROGRESS"
    BY <1>1 DEF PhaseOrder
  <1>3. \A i : i \in 1 .. 3 <=> i \in {1, 2, 3}
    OBVIOUS
  <1>4. (1 % 3) + 1 = 2 /\ (2 % 3) + 1 = 3 /\ (3 % 3) + 1 = 1
    BY Z3
  <1>5. ASSUME s.phase = "REST" PROVE GetNextState(s) = SystemState("GrowIndex", "GROW_PREPARE", s.version)
    <2>1. 1 \in DOMAIN o /\ \A j \in DOMAIN o : o[j] = s.phase => j = 1
      BY <1>5, <1>2, <1>3
    <2>2. (1 % Len(o)) + 1 = 2
      BY <1>2, <1>4
    <2>3. o[1] = s.phase /\ o = PhaseOrder[s.action]
      BY <1>1, <1>2, <1>5
    <2>4. GetNextState(s) = SystemState(s.action, o[2],
                             IF s.phase = "PREPARE" THEN s.version + 1 ELSE s.version)
      BY <2>1, <2>2, <2>3, NextAt, Zenon
    <2> QED
      BY <2>4, <1>2, <1>5
  <1>6. ASSUME s.phase = "GROW_PREPARE" PROVE GetNextState(s) = SystemState("GrowIndex", "GROW_IN_PROGRESS", s.version)
    <2>1. 2 \in DOMAIN o /\ \A j \in DOMAIN o : o[j] = s.phase => j = 2
      BY <1>6, <1>2, <1>3
    <2>2. (2 % Len(o)) + 1 = 3
      BY <1>2, <1>4
    <2>3. o[2] = s.phase /\ o = PhaseOrder[s.action]
      BY <1>1, <1>2, <1>6
    <2>4. GetNextState(s) = SystemState(s.action, o[3],
                             IF s.phase = "PREPARE" THEN s.version + 1 ELSE s.version)
      BY <2>1, <2>2, <2>3, NextAt, Zenon
    <2> QED
      BY <2>4, <1>2, <1>6
  <1>7. ASSUME s.phase = "GROW_IN_PROGRESS" PROVE GetNextState(s) = SystemState("GrowIndex", "REST", s.version)
    <2>1. 3 \in DOMAIN o /\ \A j \in DOMAIN o : o[j] = s.phase => j = 3
      BY <1>7, <1>2, <1>3
    <2>2. (3 % Len(o)) + 1 = 1
      BY <1>2, <1>4
    <2>3. o[3] = s.phase /\ o = PhaseOrder[s.action]
      BY <1>1, <1>2, <1>7
    <2>4. GetNextState(s) = SystemState(s.action, o[1],
                             IF s.phase = "PREPARE" THEN s.version + 1 ELSE s.version)
      BY <2>1, <2>2, <2>3, NextAt, Zenon
    <2> QED
      BY <2>4, <1>2, <1>7
  <1>8. s.phase \in PhasesOf("GrowIndex") => HasNextState(s)
    BY DEF PhasesOf, HasNextState
  <1> QED
    BY <1>5, <1>6, <1>7, <1>8

LEMMA PhaseSet ==
  Phase = {"REST", "PREP_INDEX_CHKPT", "INDEX_CHKPT", "PREPARE", "IN_PROGRESS", "WAIT_PENDING",
           "WAIT_FLUSH", "PERSISTENCE_CALLBACK", "GC_IO_PENDING", "GC_IN_PROGRESS",
           "GROW_PREPARE", "GROW_IN_PROGRESS"}
  <1>1. DOMAIN PhaseOrder = Actions
    BY DEF PhaseOrder, Actions
  <1>2. Phase = UNION {PhasesOf(a) : a \in Actions}
    BY <1>1 DEF Phase, PhasesOf
  <1> QED
    BY <1>2, PhasesTable DEF Actions

\* Phases are told apart by their rank.
LEMMA RankFacts ==
  /\ \A p \in Phase : Rank[p] \in 0 .. 11 /\ Rank[p] \in Nat /\ Rank[p] \in Int
  /\ \A p, q \in Phase : Rank[p] = Rank[q] => p = q
  /\ \A p \in Phase : p # "REST" => Rank[p] > 0
BY PhaseSet, RankTable

LEMMA ActionPhases ==
  ASSUME NEW a \in Actions
  PROVE  /\ PhasesOf(a) \subseteq Phase /\ "REST" \in PhasesOf(a)
         /\ LastOf[a] \in PhasesOf(a) /\ LastOf[a] # "REST" /\ LastOf[a] \in LastPhases
         /\ \A q \in PhasesOf(a) : Rank[q] <= Rank[LastOf[a]]
BY PhasesTable, PhaseSet, LastTable, RankTable DEF Actions

LEMMA StateEquality ==
  ASSUME NEW s \in StateSet, NEW r \in StateSet,
         s.action = r.action, s.phase = r.phase, s.version = r.version
  PROVE  s = r
BY DEF StateSet

LEMMA StateFields ==
  ASSUME NEW s \in StateSet
  PROVE  /\ s.action \in Actions \cup {"None"} /\ s.phase \in Phase
         /\ s.version \in Nat /\ s.version \in Int
         /\ Shifted(s.phase) \in {0, 1} /\ Base(s) \in Int
BY DEF StateSet, Shifted, Base

\* GetNextState goes to the next phase of the action, and from the last to REST.
LEMMA NextFacts ==
  ASSUME NEW s \in StateSet, s.action \in Actions, s.phase \in PhasesOf(s.action),
         NEW n, n = GetNextState(s)
  PROVE  /\ n \in StateSet /\ n.action = s.action /\ n.phase \in PhasesOf(s.action)
         /\ HasNextState(s)
         /\ s.phase = LastOf[s.action] => n.phase = "REST" /\ n.version = s.version
         /\ s.phase # LastOf[s.action] =>
              /\ n.phase # "REST" /\ Rank[s.phase] < Rank[n.phase] /\ Base(n) = Base(s)
              /\ \A q \in PhasesOf(s.action) :
                   Rank[q] <= Rank[s.phase] \/ Rank[n.phase] <= Rank[q]
  <1>0. s.version \in Nat
    BY DEF StateSet
  <1>1. CASE s.action = "CheckpointFull"
    <2>0. HasNextState(s)
      BY <1>1, NextOfFull
    <2>0a. s.phase \in {"REST", "PREP_INDEX_CHKPT", "INDEX_CHKPT", "PREPARE", "IN_PROGRESS", "WAIT_PENDING", "WAIT_FLUSH", "PERSISTENCE_CALLBACK"}
      BY <1>1, PhasesTable
    <2>1. CASE s.phase = "REST"
      <3>1. n = SystemState("CheckpointFull", "PREP_INDEX_CHKPT", s.version)
        BY <1>1, <2>1, NextOfFull
      <3>2. n \in StateSet /\ n.action = "CheckpointFull" /\ n.phase = "PREP_INDEX_CHKPT" /\ n.version = s.version
        BY <3>1, <1>0, PhaseSet DEF SystemState, StateSet, Actions
      <3> QED
        BY <3>2, <2>0, <1>0, <1>1, <2>1, PhasesTable, LastTable, RankTable DEF Base, Shifted
    <2>2. CASE s.phase = "PREP_INDEX_CHKPT"
      <3>1. n = SystemState("CheckpointFull", "INDEX_CHKPT", s.version)
        BY <1>1, <2>2, NextOfFull
      <3>2. n \in StateSet /\ n.action = "CheckpointFull" /\ n.phase = "INDEX_CHKPT" /\ n.version = s.version
        BY <3>1, <1>0, PhaseSet DEF SystemState, StateSet, Actions
      <3> QED
        BY <3>2, <2>0, <1>0, <1>1, <2>2, PhasesTable, LastTable, RankTable DEF Base, Shifted
    <2>3. CASE s.phase = "INDEX_CHKPT"
      <3>1. n = SystemState("CheckpointFull", "PREPARE", s.version)
        BY <1>1, <2>3, NextOfFull
      <3>2. n \in StateSet /\ n.action = "CheckpointFull" /\ n.phase = "PREPARE" /\ n.version = s.version
        BY <3>1, <1>0, PhaseSet DEF SystemState, StateSet, Actions
      <3> QED
        BY <3>2, <2>0, <1>0, <1>1, <2>3, PhasesTable, LastTable, RankTable DEF Base, Shifted
    <2>4. CASE s.phase = "PREPARE"
      <3>1. n = SystemState("CheckpointFull", "IN_PROGRESS", s.version + 1)
        BY <1>1, <2>4, NextOfFull
      <3>2. n \in StateSet /\ n.action = "CheckpointFull" /\ n.phase = "IN_PROGRESS" /\ n.version = s.version + 1
        BY <3>1, <1>0, PhaseSet DEF SystemState, StateSet, Actions
      <3> QED
        BY <3>2, <2>0, <1>0, <1>1, <2>4, PhasesTable, LastTable, RankTable DEF Base, Shifted
    <2>5. CASE s.phase = "IN_PROGRESS"
      <3>1. n = SystemState("CheckpointFull", "WAIT_PENDING", s.version)
        BY <1>1, <2>5, NextOfFull
      <3>2. n \in StateSet /\ n.action = "CheckpointFull" /\ n.phase = "WAIT_PENDING" /\ n.version = s.version
        BY <3>1, <1>0, PhaseSet DEF SystemState, StateSet, Actions
      <3> QED
        BY <3>2, <2>0, <1>0, <1>1, <2>5, PhasesTable, LastTable, RankTable DEF Base, Shifted
    <2>6. CASE s.phase = "WAIT_PENDING"
      <3>1. n = SystemState("CheckpointFull", "WAIT_FLUSH", s.version)
        BY <1>1, <2>6, NextOfFull
      <3>2. n \in StateSet /\ n.action = "CheckpointFull" /\ n.phase = "WAIT_FLUSH" /\ n.version = s.version
        BY <3>1, <1>0, PhaseSet DEF SystemState, StateSet, Actions
      <3> QED
        BY <3>2, <2>0, <1>0, <1>1, <2>6, PhasesTable, LastTable, RankTable DEF Base, Shifted
    <2>7. CASE s.phase = "WAIT_FLUSH"
      <3>1. n = SystemState("CheckpointFull", "PERSISTENCE_CALLBACK", s.version)
        BY <1>1, <2>7, NextOfFull
      <3>2. n \in StateSet /\ n.action = "CheckpointFull" /\ n.phase = "PERSISTENCE_CALLBACK" /\ n.version = s.version
        BY <3>1, <1>0, PhaseSet DEF SystemState, StateSet, Actions
      <3> QED
        BY <3>2, <2>0, <1>0, <1>1, <2>7, PhasesTable, LastTable, RankTable DEF Base, Shifted
    <2>8. CASE s.phase = "PERSISTENCE_CALLBACK"
      <3>1. n = SystemState("CheckpointFull", "REST", s.version)
        BY <1>1, <2>8, NextOfFull
      <3>2. n \in StateSet /\ n.action = "CheckpointFull" /\ n.phase = "REST" /\ n.version = s.version
        BY <3>1, <1>0, PhaseSet DEF SystemState, StateSet, Actions
      <3> QED
        BY <3>2, <2>0, <1>0, <1>1, <2>8, PhasesTable, LastTable, RankTable DEF Base, Shifted
    <2> QED
      BY <2>0a, <2>1, <2>2, <2>3, <2>4, <2>5, <2>6, <2>7, <2>8
  <1>2. CASE s.action = "CheckpointIndex"
    <2>0. HasNextState(s)
      BY <1>2, NextOfIndex
    <2>0a. s.phase \in {"REST", "PREP_INDEX_CHKPT", "INDEX_CHKPT"}
      BY <1>2, PhasesTable
    <2>1. CASE s.phase = "REST"
      <3>1. n = SystemState("CheckpointIndex", "PREP_INDEX_CHKPT", s.version)
        BY <1>2, <2>1, NextOfIndex
      <3>2. n \in StateSet /\ n.action = "CheckpointIndex" /\ n.phase = "PREP_INDEX_CHKPT" /\ n.version = s.version
        BY <3>1, <1>0, PhaseSet DEF SystemState, StateSet, Actions
      <3> QED
        BY <3>2, <2>0, <1>0, <1>2, <2>1, PhasesTable, LastTable, RankTable DEF Base, Shifted
    <2>2. CASE s.phase = "PREP_INDEX_CHKPT"
      <3>1. n = SystemState("CheckpointIndex", "INDEX_CHKPT", s.version)
        BY <1>2, <2>2, NextOfIndex
      <3>2. n \in StateSet /\ n.action = "CheckpointIndex" /\ n.phase = "INDEX_CHKPT" /\ n.version = s.version
        BY <3>1, <1>0, PhaseSet DEF SystemState, StateSet, Actions
      <3> QED
        BY <3>2, <2>0, <1>0, <1>2, <2>2, PhasesTable, LastTable, RankTable DEF Base, Shifted
    <2>3. CASE s.phase = "INDEX_CHKPT"
      <3>1. n = SystemState("CheckpointIndex", "REST", s.version)
        BY <1>2, <2>3, NextOfIndex
      <3>2. n \in StateSet /\ n.action = "CheckpointIndex" /\ n.phase = "REST" /\ n.version = s.version
        BY <3>1, <1>0, PhaseSet DEF SystemState, StateSet, Actions
      <3> QED
        BY <3>2, <2>0, <1>0, <1>2, <2>3, PhasesTable, LastTable, RankTable DEF Base, Shifted
    <2> QED
      BY <2>0a, <2>1, <2>2, <2>3
  <1>3. CASE s.action = "CheckpointHybridLog"
    <2>0. HasNextState(s)
      BY <1>3, NextOfHybridLog
    <2>0a. s.phase \in {"REST", "PREPARE", "IN_PROGRESS", "WAIT_PENDING", "WAIT_FLUSH", "PERSISTENCE_CALLBACK"}
      BY <1>3, PhasesTable
    <2>1. CASE s.phase = "REST"
      <3>1. n = SystemState("CheckpointHybridLog", "PREPARE", s.version)
        BY <1>3, <2>1, NextOfHybridLog
      <3>2. n \in StateSet /\ n.action = "CheckpointHybridLog" /\ n.phase = "PREPARE" /\ n.version = s.version
        BY <3>1, <1>0, PhaseSet DEF SystemState, StateSet, Actions
      <3> QED
        BY <3>2, <2>0, <1>0, <1>3, <2>1, PhasesTable, LastTable, RankTable DEF Base, Shifted
    <2>2. CASE s.phase = "PREPARE"
      <3>1. n = SystemState("CheckpointHybridLog", "IN_PROGRESS", s.version + 1)
        BY <1>3, <2>2, NextOfHybridLog
      <3>2. n \in StateSet /\ n.action = "CheckpointHybridLog" /\ n.phase = "IN_PROGRESS" /\ n.version = s.version + 1
        BY <3>1, <1>0, PhaseSet DEF SystemState, StateSet, Actions
      <3> QED
        BY <3>2, <2>0, <1>0, <1>3, <2>2, PhasesTable, LastTable, RankTable DEF Base, Shifted
    <2>3. CASE s.phase = "IN_PROGRESS"
      <3>1. n = SystemState("CheckpointHybridLog", "WAIT_PENDING", s.version)
        BY <1>3, <2>3, NextOfHybridLog
      <3>2. n \in StateSet /\ n.action = "CheckpointHybridLog" /\ n.phase = "WAIT_PENDING" /\ n.version = s.version
        BY <3>1, <1>0, PhaseSet DEF SystemState, StateSet, Actions
      <3> QED
        BY <3>2, <2>0, <1>0, <1>3, <2>3, PhasesTable, LastTable, RankTable DEF Base, Shifted
    <2>4. CASE s.phase = "WAIT_PENDING"
      <3>1. n = SystemState("CheckpointHybridLog", "WAIT_FLUSH", s.version)
        BY <1>3, <2>4, NextOfHybridLog
      <3>2. n \in StateSet /\ n.action = "CheckpointHybridLog" /\ n.phase = "WAIT_FLUSH" /\ n.version = s.version
        BY <3>1, <1>0, PhaseSet DEF SystemState, StateSet, Actions
      <3> QED
        BY <3>2, <2>0, <1>0, <1>3, <2>4, PhasesTable, LastTable, RankTable DEF Base, Shifted
    <2>5. CASE s.phase = "WAIT_FLUSH"
      <3>1. n = SystemState("CheckpointHybridLog", "PERSISTENCE_CALLBACK", s.version)
        BY <1>3, <2>5, NextOfHybridLog
      <3>2. n \in StateSet /\ n.action = "CheckpointHybridLog" /\ n.phase = "PERSISTENCE_CALLBACK" /\ n.version = s.version
        BY <3>1, <1>0, PhaseSet DEF SystemState, StateSet, Actions
      <3> QED
        BY <3>2, <2>0, <1>0, <1>3, <2>5, PhasesTable, LastTable, RankTable DEF Base, Shifted
    <2>6. CASE s.phase = "PERSISTENCE_CALLBACK"
      <3>1. n = SystemState("CheckpointHybridLog", "REST", s.version)
        BY <1>3, <2>6, NextOfHybridLog
      <3>2. n \in StateSet /\ n.action = "CheckpointHybridLog" /\ n.phase = "REST" /\ n.version = s.version
        BY <3>1, <1>0, PhaseSet DEF SystemState, StateSet, Actions
      <3> QED
        BY <3>2, <2>0, <1>0, <1>3, <2>6, PhasesTable, LastTable, RankTable DEF Base, Shifted
    <2> QED
      BY <2>0a, <2>1, <2>2, <2>3, <2>4, <2>5, <2>6
  <1>4. CASE s.action = "GC"
    <2>0. HasNextState(s)
      BY <1>4, NextOfGC
    <2>0a. s.phase \in {"REST", "GC_IO_PENDING", "GC_IN_PROGRESS"}
      BY <1>4, PhasesTable
    <2>1. CASE s.phase = "REST"
      <3>1. n = SystemState("GC", "GC_IO_PENDING", s.version)
        BY <1>4, <2>1, NextOfGC
      <3>2. n \in StateSet /\ n.action = "GC" /\ n.phase = "GC_IO_PENDING" /\ n.version = s.version
        BY <3>1, <1>0, PhaseSet DEF SystemState, StateSet, Actions
      <3> QED
        BY <3>2, <2>0, <1>0, <1>4, <2>1, PhasesTable, LastTable, RankTable DEF Base, Shifted
    <2>2. CASE s.phase = "GC_IO_PENDING"
      <3>1. n = SystemState("GC", "GC_IN_PROGRESS", s.version)
        BY <1>4, <2>2, NextOfGC
      <3>2. n \in StateSet /\ n.action = "GC" /\ n.phase = "GC_IN_PROGRESS" /\ n.version = s.version
        BY <3>1, <1>0, PhaseSet DEF SystemState, StateSet, Actions
      <3> QED
        BY <3>2, <2>0, <1>0, <1>4, <2>2, PhasesTable, LastTable, RankTable DEF Base, Shifted
    <2>3. CASE s.phase = "GC_IN_PROGRESS"
      <3>1. n = SystemState("GC", "REST", s.version)
        BY <1>4, <2>3, NextOfGC
      <3>2. n \in StateSet /\ n.action = "GC" /\ n.phase = "REST" /\ n.version = s.version
        BY <3>1, <1>0, PhaseSet DEF SystemState, StateSet, Actions
      <3> QED
        BY <3>2, <2>0, <1>0, <1>4, <2>3, PhasesTable, LastTable, RankTable DEF Base, Shifted
    <2> QED
      BY <2>0a, <2>1, <2>2, <2>3
  <1>5. CASE s.action = "GrowIndex"
    <2>0. HasNextState(s)
      BY <1>5, NextOfGrow
    <2>0a. s.phase \in {"REST", "GROW_PREPARE", "GROW_IN_PROGRESS"}
      BY <1>5, PhasesTable
    <2>1. CASE s.phase = "REST"
      <3>1. n = SystemState("GrowIndex", "GROW_PREPARE", s.version)
        BY <1>5, <2>1, NextOfGrow
      <3>2. n \in StateSet /\ n.action = "GrowIndex" /\ n.phase = "GROW_PREPARE" /\ n.version = s.version
        BY <3>1, <1>0, PhaseSet DEF SystemState, StateSet, Actions
      <3> QED
        BY <3>2, <2>0, <1>0, <1>5, <2>1, PhasesTable, LastTable, RankTable DEF Base, Shifted
    <2>2. CASE s.phase = "GROW_PREPARE"
      <3>1. n = SystemState("GrowIndex", "GROW_IN_PROGRESS", s.version)
        BY <1>5, <2>2, NextOfGrow
      <3>2. n \in StateSet /\ n.action = "GrowIndex" /\ n.phase = "GROW_IN_PROGRESS" /\ n.version = s.version
        BY <3>1, <1>0, PhaseSet DEF SystemState, StateSet, Actions
      <3> QED
        BY <3>2, <2>0, <1>0, <1>5, <2>2, PhasesTable, LastTable, RankTable DEF Base, Shifted
    <2>3. CASE s.phase = "GROW_IN_PROGRESS"
      <3>1. n = SystemState("GrowIndex", "REST", s.version)
        BY <1>5, <2>3, NextOfGrow
      <3>2. n \in StateSet /\ n.action = "GrowIndex" /\ n.phase = "REST" /\ n.version = s.version
        BY <3>1, <1>0, PhaseSet DEF SystemState, StateSet, Actions
      <3> QED
        BY <3>2, <2>0, <1>0, <1>5, <2>3, PhasesTable, LastTable, RankTable DEF Base, Shifted
    <2> QED
      BY <2>0a, <2>1, <2>2, <2>3
  <1> QED
    BY <1>1, <1>2, <1>3, <1>4, <1>5 DEF Actions

-----------------------------------------------------------------------------
(***************************************************************************)
(* What a step of one thread leaves alone.                                 *)
(***************************************************************************)
SameThread(u) ==
  /\ session'[u] = session[u] /\ op'[u] = op[u]
  /\ phase'[u] = phase[u] /\ version'[u] = version[u] /\ prev_pending'[u] = prev_pending[u]
  /\ phase_finished'[u] = phase_finished[u]
  /\ pc'[u] = pc[u] /\ caller'[u] = caller[u]
  /\ previous_state'[u] = previous_state[u] /\ final_state'[u] = final_state[u]
  /\ moving'[u] = moving[u] /\ idx'[u] = idx[u] /\ chunk'[u] = chunk[u]

\* Counters of chunks only grow.
ChunksGrow ==
  /\ gc_.next_chunk = NumChunks => gc_'.next_chunk = NumChunks
  /\ grow_.next_chunk = NumChunks => grow_'.next_chunk = NumChunks

\* All of ThreadInv but what it says of other threads and of the disk.
OwnInv(t) ==
  /\ ControlInv(t) /\ AckInv(t) /\ VersionInv(t) /\ OutsideInv(t) /\ LoopInv(t)
  /\ HeavyInv(t) /\ ChunkInv(t) /\ PrevInv(t)

LEMMA OtherThread ==
  ASSUME NEW u \in Thread, OwnInv(u), SameThread(u),
         system_state' = system_state, Starting' <=> Starting, ChunksGrow
  PROVE  OwnInv(u)'
  <1> USE DEF SameThread
  <1>0. (Alive(u)' <=> Alive(u)) /\ (Underway' <=> Underway) /\ Current(u)' = Current(u)
    BY DEF Alive, Underway, Current
  <1>1. ControlInv(u)'
    BY <1>0 DEF OwnInv, ControlInv, At
  <1>2. AckInv(u)'
    BY <1>0 DEF OwnInv, AckInv
  <1>3. VersionInv(u)'
    BY <1>0 DEF OwnInv, VersionInv
  <1>4. OutsideInv(u)'
    BY <1>0 DEF OwnInv, OutsideInv
  <1>5. LoopInv(u)'
    BY <1>0 DEF OwnInv, LoopInv, At
  <1>6. HeavyInv(u)'
    BY <1>0 DEF OwnInv, HeavyInv, At
  <1>7. ChunkInv(u)'
    BY <1>0 DEF OwnInv, ChunkInv, At, ChunksGrow
  <1>8. PrevInv(u)'
    BY <1>0 DEF OwnInv, PrevInv, At
  <1> QED
    BY <1>1, <1>2, <1>3, <1>4, <1>5, <1>6, <1>7, <1>8 DEF OwnInv

\* What a scan has seen stays so, as long as acknowledgements of the system's
\* phase stay and the disk's work is not undone.
LEMMA OtherMoves ==
  ASSUME NEW u \in Thread, MoveInv(u), SameThread(u), system_state' = system_state,
         \A v \in Thread : Alive(v)' =>
           Alive(v) /\ (phase_finished[v] = system_state.phase =>
                          phase_finished'[v] = system_state.phase),
         index_io = "done" => index_io' = "done",
         At(u, "moved") => (index_io = "none" => index_io' = "none")
                           /\ (flush = "none" => flush' = "none")
  PROVE  MoveInv(u)'
  <1> USE DEF SameThread
  <1>0. Current(u)' = Current(u)
    BY DEF Current
  <1>1. (pc[u] \in {"scan", "move"})' =>
          moving'[u] = IF caller'[u] = "heavy"
                       THEN SystemState("GrowIndex", "GROW_IN_PROGRESS", version'[u])
                       ELSE Current(u)'
    BY <1>0 DEF MoveInv
  <1>2. At(u, "scan")' => phase_finished'[u] = moving'[u].phase
    BY DEF MoveInv, At
  <1>3. At(u, "scan")' /\ moving'[u] = system_state' =>
          \A v \in Thread : v < idx'[u] /\ Alive(v)' => phase_finished'[v] = moving'[u].phase
    BY DEF MoveInv, At
  <1>4. At(u, "move")' /\ moving'[u] = system_state' =>
          IF Unacknowledged(moving'[u].action, moving'[u].phase) THEN index_io' = "done"
          ELSE \A v \in Thread : Alive(v)' => phase_finished'[v] = moving'[u].phase
    BY DEF MoveInv, At
  <1>5. At(u, "moved")' =>
          /\ moving'[u] = system_state' /\ system_state'.action # "None"
          /\ phase_finished'[u] # system_state'.phase
          /\ system_state'.phase = "INDEX_CHKPT" => index_io' = "none"
          /\ system_state'.phase = "WAIT_FLUSH" => flush' = "none"
    BY DEF MoveInv, At
  <1> QED
    BY <1>1, <1>2, <1>3, <1>4, <1>5 DEF MoveInv, At

LEMMA StartingStays ==
  ASSUME NEW t \in Thread, \A u \in Thread \ {t} : pc'[u] = pc[u],
         pc[t] # "init_action", pc'[t] # "init_action"
  PROVE  Starting' <=> Starting
BY DEF Starting, At

\* A step of t that leaves the system state and the other threads alone.
Local(t) ==
  /\ system_state' = system_state
  /\ \A u \in Thread \ {t} : SameThread(u)
  /\ pc[t] # "init_action" /\ pc'[t] # "init_action"
  /\ pc'[t] = "moved" => pc[t] = "moved"
  /\ session'[t] = "active" => session[t] = "active"
  /\ phase_finished[t] = system_state.phase => phase_finished'[t] = system_state.phase
  /\ ChunksGrow
  /\ index_io = "done" => index_io' = "done"
  /\ pc[t] # "moved" => (index_io = "none" => index_io' = "none")
                        /\ (flush = "none" => flush' = "none")

LEMMA LocalStep ==
  ASSUME PhaseInv, NEW t \in Thread, Local(t), PhaseTypeOK',
         OwnInv(t)', MoveInv(t)', HeldInv', CheckpointInv'
  PROVE  PhaseInv'
  <1>1. Starting' <=> Starting
    BY StartingStays DEF Local, SameThread
  <1>2. ASSUME NEW u \in Thread PROVE OwnInv(u)'
    <2>1. CASE u = t
      BY <2>1
    <2>2. CASE u # t
      <3>1. OwnInv(u) /\ SameThread(u) /\ system_state' = system_state /\ ChunksGrow
        BY <2>2 DEF PhaseInv, ThreadInv, OwnInv, Local
      <3> QED
        BY <3>1, <1>1, OtherThread
    <2> QED
      BY <2>1, <2>2
  <1>3. SystemInv'
    BY <1>1 DEF PhaseInv, SystemInv, Local, SameThread, At, Underway
  <1>4. \A v \in Thread : Alive(v)' =>
           Alive(v) /\ (phase_finished[v] = system_state.phase =>
                          phase_finished'[v] = system_state.phase)
    BY DEF Local, SameThread, Alive
  <1>5. ASSUME NEW u \in Thread PROVE MoveInv(u)'
    <2>1. CASE u = t
      BY <2>1
    <2>2. CASE u # t
      <3>1. MoveInv(u) /\ SameThread(u) /\ system_state' = system_state
        BY <2>2 DEF PhaseInv, ThreadInv, Local
      <3>2. At(u, "moved") => pc[t] # "moved"
        BY <2>2 DEF PhaseInv, SystemInv, At
      <3>3. /\ index_io = "done" => index_io' = "done"
            /\ At(u, "moved") => (index_io = "none" => index_io' = "none")
                                 /\ (flush = "none" => flush' = "none")
        BY <3>2 DEF Local
      <3> QED
        BY <3>1, <3>3, <1>4, OtherMoves
    <2> QED
      BY <2>1, <2>2
  <1> QED
    BY <1>2, <1>3, <1>5 DEF PhaseInv, ThreadInv, OwnInv

LEMMA HeldStays ==
  ASSUME HeldInv, NEW t \in Thread, UNCHANGED <<gc_, grow_>>,
         \A u \in Thread \ {t} : pc'[u] = pc[u] /\ chunk'[u] = chunk[u],
         pc[t] \notin {"clean", "split_chunk"}
  PROVE  HeldInv'
  <1>1. ASSUME NEW u \in Thread, NEW c, At(u, "clean") /\ chunk[u] = c
        PROVE  At(u, "clean")' /\ chunk'[u] = c
    BY <1>1 DEF At
  <1>2. ASSUME NEW u \in Thread, NEW c, At(u, "split_chunk") /\ chunk[u] = c
        PROVE  At(u, "split_chunk")' /\ chunk'[u] = c
    BY <1>2 DEF At
  <1> QED
    BY <1>1, <1>2 DEF HeldInv

LEMMA CheckpointStays ==
  ASSUME CheckpointInv, UNCHANGED <<system_state, checkpoint>>, Starting' <=> Starting,
         \A u \in Thread : Alive(u)' => Alive(u) /\ phase_finished'[u] = phase_finished[u]
  PROVE  CheckpointInv'
BY DEF CheckpointInv, checkpoint

\* A step of t that acknowledges nothing, claims or finishes no chunk and does
\* nothing for the checkpoint.
Plain(t) ==
  /\ UNCHANGED <<system_state, checkpoint, gc_, grow_>>
  /\ phase_finished'[t] = phase_finished[t]
  /\ \A u \in Thread \ {t} : SameThread(u)
  /\ pc[t] \notin {"init_action", "clean", "split_chunk"}
  /\ pc'[t] \notin {"init_action", "moved"}
  /\ session'[t] = "active" => session[t] = "active"

LEMMA PlainStep ==
  ASSUME PhaseInv, NEW t \in Thread, Plain(t), PhaseTypeOK', OwnInv(t)', MoveInv(t)'
  PROVE  PhaseInv'
  <1>1. Local(t)
    BY DEF Plain, Local, ChunksGrow, checkpoint
  <1>2. HeldInv'
    BY HeldStays DEF Plain, SameThread, PhaseInv
  <1>3. Starting' <=> Starting
    BY StartingStays DEF Plain, SameThread
  <1>4. \A u \in Thread : Alive(u)' => Alive(u) /\ phase_finished'[u] = phase_finished[u]
    BY DEF Plain, SameThread, Alive
  <1>5. CheckpointInv'
    <2>1. CheckpointInv /\ UNCHANGED <<system_state, checkpoint>>
      BY DEF PhaseInv, Plain
    <2> QED
      BY <2>1, <1>3, <1>4, CheckpointStays
  <1> QED
    BY <1>1, <1>2, <1>5, LocalStep

\* Between calls nothing but the label, the operation and the requests change.
LEMMA OutsideStep ==
  ASSUME PhaseInv, NEW t \in Thread, Plain(t), PhaseTypeOK',
         pc[t] \in Outside, pc'[t] \in {"idle", "refresh", "handle"},
         pc'[t] = "handle" => Underway \/ phase[t] # "REST",
         caller'[t] = caller[t], phase'[t] = phase[t], version'[t] = version[t],
         prev_pending'[t] => prev_pending[t],
         session'[t] = session[t] \/ (phase[t] = "REST" /\ session'[t] = "none"),
         session'[t] = "none" => pc'[t] = "idle" /\ op'[t] = NoTable
  PROVE  PhaseInv'
  <1>0. /\ OwnInv(t) /\ MoveInv(t) /\ system_state' = system_state
        /\ phase_finished'[t] = phase_finished[t] /\ UNCHANGED <<gc_, grow_>>
        /\ pc[t] # "init_action" /\ pc[t] \in Labels
    BY DEF PhaseInv, ThreadInv, OwnInv, Plain, PhaseTypeOK
  <1>1. (Starting' <=> Starting) /\ (Underway' <=> Underway)
    BY StartingStays DEF Plain, SameThread, Underway
  <1>2. pc[t] \in {"idle", "refresh", "handle"} /\ caller[t] = "none"
    BY <1>0 DEF OwnInv, ControlInv, Outside
  <1>3. Alive(t)' => Alive(t)
    BY DEF Plain, Alive
  <1>4. Starting => ~Underway
    BY DEF PhaseInv, SystemInv
  <1>5. session'[t] = "none" \/ Alive(t)'
    BY DEF PhaseTypeOK, Alive
  <1>6. session[t] = "none" \/ Alive(t)
    BY DEF PhaseInv, PhaseTypeOK, Alive
  <1>7. prev_pending'[t] => Alive(t)
    BY <1>0, <1>6 DEF OwnInv, ControlInv
  <1>8. ~Alive(t)' /\ Alive(t) => /\ phase[t] = "REST" /\ ~prev_pending'[t]
                                  /\ phase_finished[t] \in LastPhases \cup {"REST"}
    <2> SUFFICES ASSUME ~Alive(t)', Alive(t)
                 PROVE  /\ phase[t] = "REST" /\ ~prev_pending'[t]
                        /\ phase_finished[t] \in LastPhases \cup {"REST"}
      OBVIOUS
    <2>1. phase[t] = "REST"
      BY DEF Alive
    <2>2. ~prev_pending[t]
      <3>1. CASE Underway
        <4>1. Rank[phase_finished[t]] <= Rank[phase[t]] /\ phase_finished[t] \in Phase
          BY <1>0, <1>2, <3>1 DEF OwnInv, OutsideInv, Outside, PhaseInv, PhaseTypeOK
        <4>2. phase_finished[t] = "REST"
          BY <4>1, <2>1, RankFacts, RankTable
        <4> QED
          BY <4>2, <2>1, <1>0, <1>2 DEF OwnInv, PrevInv, At
      <3>2. CASE ~Underway
        BY <3>2, <1>0 DEF OwnInv, PrevInv
      <3> QED
        BY <3>1, <3>2
    <2>3. phase_finished[t] \in LastPhases \cup {"REST"}
      <3>1. CASE Underway
        <4>1. Rank[phase_finished[t]] <= Rank[phase[t]] /\ phase_finished[t] \in Phase
          BY <1>0, <1>2, <3>1 DEF OwnInv, OutsideInv, Outside, PhaseInv, PhaseTypeOK
        <4> QED
          BY <4>1, <2>1, RankFacts, RankTable
      <3>2. CASE ~Underway
        BY <3>2, <1>0 DEF OwnInv, AckInv
      <3> QED
        BY <3>1, <3>2
    <2> QED
      BY <2>1, <2>2, <2>3
  <1>9. ControlInv(t)'
    BY <1>0, <1>1, <1>2, <1>3, <1>4, <1>5, <1>8 DEF OwnInv, ControlInv, At, Outside
  <1>10. AckInv(t)' /\ VersionInv(t)'
    BY <1>0, <1>1, <1>3 DEF OwnInv, AckInv, VersionInv
  <1>11. OutsideInv(t)'
    BY <1>0, <1>1, <1>2, <1>3 DEF OwnInv, OutsideInv, Outside
  <1>12. LoopInv(t)' /\ HeavyInv(t)' /\ MoveInv(t)'
    BY <1>2 DEF LoopInv, HeavyInv, MoveInv, Outside, At
  <1>13. ChunkInv(t)'
    BY <1>0, <1>1, <1>2 DEF OwnInv, ChunkInv, At
  <1>14. PrevInv(t)'
    BY <1>0, <1>1, <1>2 DEF OwnInv, PrevInv, At
  <1> QED
    BY <1>9, <1>10, <1>11, <1>12, <1>13, <1>14, PlainStep DEF OwnInv

-----------------------------------------------------------------------------
(***************************************************************************)
(* Steps between calls.                                                    *)
(***************************************************************************)
LEMMA Operations ==
  ASSUME PhaseInv, HostWaits, UNCHANGED host, NEW t \in Thread,
         \/ StartSession(t) \/ StopSession(t) \/ Enter(t) \/ (\E async \in BOOLEAN : Leave(t, async))
         \/ CompletePending(t) \/ CompletePrevPending(t) \/ Refresh(t) \/ RefreshLoad(t)
  PROVE  PhaseInv'
  <1> USE DEF Plain, SameThread, global, context, locals, tables, checkpoint, At, Goto
  <1>0. PhaseTypeOK /\ OwnInv(t) /\ host \in Hosts /\ pc[t] \in Labels
    BY DEF PhaseInv, ThreadInv, OwnInv, PhaseTypeOK
  <1>1. CASE StartSession(t)
    BY <1>1 DEF StartSession, HostWaits, JoinedAtStart
  <1>2. CASE StopSession(t)
    <2>1. PhaseTypeOK'
      BY <1>0, <1>2 DEF PhaseTypeOK, StopSession
    <2>2. Plain(t) /\ pc[t] = "idle" /\ pc'[t] = "idle" /\ session'[t] = "none"
      BY <1>0, <1>2 DEF PhaseTypeOK, StopSession, Free, Running
    <2>3. phase[t] = "REST" /\ op'[t] = NoTable
      BY <1>2 DEF StopSession, MayStop, Free
    <2>4. caller'[t] = caller[t] /\ phase'[t] = phase[t] /\ version'[t] = version[t]
          /\ prev_pending'[t] = prev_pending[t]
      BY <1>2 DEF StopSession
    <2> QED
      BY <2>1, <2>2, <2>3, <2>4, OutsideStep DEF Outside
  <1>3. CASE Enter(t)
    <2>1. PhaseTypeOK'
      BY <1>0, <1>3 DEF PhaseTypeOK, Enter, BeginOp
    <2>2. /\ Plain(t) /\ pc[t] = "idle" /\ pc'[t] = "idle" /\ session[t] = "active"
          /\ session'[t] = session[t]
          /\ caller'[t] = caller[t] /\ phase'[t] = phase[t] /\ version'[t] = version[t]
          /\ prev_pending'[t] = prev_pending[t]
      BY <1>0, <1>3 DEF PhaseTypeOK, Enter, BeginOp, Free, Running
    <2> QED
      BY <2>1, <2>2, OutsideStep DEF Outside
  <1>4. ASSUME NEW async \in BOOLEAN, Leave(t, async) PROVE PhaseInv'
    <2>1. PhaseTypeOK'
      BY <1>0, <1>4 DEF PhaseTypeOK, Leave
    <2>2. /\ Plain(t) /\ pc[t] = "idle" /\ pc'[t] = "idle" /\ session[t] = "active"
          /\ session'[t] = session[t]
          /\ caller'[t] = caller[t] /\ phase'[t] = phase[t] /\ version'[t] = version[t]
          /\ prev_pending'[t] = prev_pending[t]
      BY <1>0, <1>4 DEF PhaseTypeOK, Leave, Running
    <2> QED
      BY <2>1, <2>2, OutsideStep DEF Outside
  <1>5. CASE CompletePending(t) \/ CompletePrevPending(t)
    <2>1. PhaseTypeOK'
      BY <1>0, <1>5 DEF PhaseTypeOK, CompletePending, CompletePrevPending
    <2>2. /\ Plain(t) /\ pc[t] = "idle" /\ pc'[t] = "idle" /\ session[t] = "active"
          /\ session'[t] = session[t]
          /\ caller'[t] = caller[t] /\ phase'[t] = phase[t] /\ version'[t] = version[t]
          /\ (prev_pending'[t] => prev_pending[t])
      BY <1>0, <1>5 DEF PhaseTypeOK, CompletePending, CompletePrevPending, Free, Running
    <2> QED
      BY <2>1, <2>2, OutsideStep DEF Outside
  <1>6. CASE Refresh(t)
    <2>1. PhaseTypeOK'
      BY <1>0, <1>6 DEF PhaseTypeOK, Refresh, Labels
    <2>2. session[t] = "active"
      BY <1>0, <1>6 DEF PhaseTypeOK, Refresh
    <2>3. /\ Plain(t) /\ pc[t] = "idle" /\ pc'[t] = "refresh"
          /\ session'[t] = session[t]
          /\ caller'[t] = caller[t] /\ phase'[t] = phase[t] /\ version'[t] = version[t]
          /\ (prev_pending'[t] => prev_pending[t])
      BY <1>0, <1>6, <2>2 DEF PhaseTypeOK, Refresh
    <2> QED
      BY <2>1, <2>2, <2>3, OutsideStep DEF Outside
  <1>7. CASE RefreshLoad(t)
    <2>1. PhaseTypeOK'
      BY <1>0, <1>7 DEF PhaseTypeOK, RefreshLoad, Labels
    <2>2. session[t] = "active"
      BY <1>0, <1>7 DEF PhaseTypeOK, RefreshLoad, OwnInv, ControlInv, Alive
    <2>3. /\ Plain(t) /\ pc[t] = "refresh" /\ pc'[t] \in {"idle", "handle"}
          /\ session'[t] = session[t]
          /\ pc'[t] = "handle" => Underway \/ phase[t] # "REST"
          /\ caller'[t] = caller[t] /\ phase'[t] = phase[t] /\ version'[t] = version[t]
          /\ (prev_pending'[t] => prev_pending[t])
      BY <1>0, <1>7, <2>2 DEF PhaseTypeOK, RefreshLoad, Underway
    <2> QED
      BY <2>1, <2>2, <2>3, OutsideStep DEF Outside
  <1> QED
    BY <1>1, <1>2, <1>3, <1>4, <1>5, <1>6, <1>7

LEMMA Disk ==
  ASSUME PhaseInv, UNCHANGED host, IndexIoDone \/ FlushDone
  PROVE  PhaseInv'
  <1> USE DEF global, context, locals, tables, checkpoint, IndexIoDone, FlushDone
  <1>1. /\ UNCHANGED <<system_state, session, op, phase, version, prev_pending, phase_finished, pc,
                       caller, previous_state, final_state, moving, idx, chunk, gc_, grow_>>
        /\ index_io = "done" => index_io' = "done"
        /\ index_io = "none" => index_io' = "none"
        /\ flush = "none" <=> flush' = "none"
        /\ flush = "done" => flush' = "done"
        /\ UNCHANGED <<guids, contexts, notified>>
    OBVIOUS
  <1>2. PhaseTypeOK'
    BY DEF PhaseInv, PhaseTypeOK
  <1>3. /\ Starting' <=> Starting
        /\ \A u \in Thread : SameThread(u)
        /\ ChunksGrow
        /\ \A u \in Thread : (Alive(u)' <=> Alive(u)) /\ phase_finished'[u] = phase_finished[u]
    BY <1>1 DEF Starting, At, SameThread, ChunksGrow, Alive
  <1>4. ASSUME NEW u \in Thread PROVE OwnInv(u)'
    <2>1. OwnInv(u) /\ SameThread(u) /\ system_state' = system_state
      BY <1>1, <1>3 DEF PhaseInv, ThreadInv, OwnInv
    <2> QED
      BY <2>1, <1>3, OtherThread
  <1>5. ASSUME NEW u \in Thread PROVE MoveInv(u)'
    <2>1. MoveInv(u) /\ SameThread(u) /\ system_state' = system_state
      BY <1>1, <1>3 DEF PhaseInv, ThreadInv
    <2> QED
      BY <2>1, <1>1, <1>3, OtherMoves
  <1>6. HeldInv'
    BY <1>1 DEF PhaseInv, HeldInv, At
  <1>7. SystemInv'
    BY <1>1, <1>3 DEF PhaseInv, SystemInv, At, Underway
  <1>8. CheckpointInv'
    BY <1>1, <1>3 DEF PhaseInv, CheckpointInv
  <1> QED
    BY <1>2, <1>4, <1>5, <1>6, <1>7, <1>8 DEF PhaseInv, ThreadInv, OwnInv

-----------------------------------------------------------------------------
(***************************************************************************)
(* The loop of HandleSpecialPhases.                                        *)
(***************************************************************************)

\* The state a round of the loop is about, from the previous and the final one.
LEMMA CurrentTable ==
  ASSUME NEW p \in StateSet, NEW f \in StateSet, f.action \in Actions, p.action = f.action,
         p.phase \in PhasesOf(f.action), f.phase \in PhasesOf(f.action),
         f.phase # "REST", Rank[p.phase] <= Rank[f.phase], Base(p) = Base(f),
         NEW c, c = IF p = f THEN f ELSE GetNextState(p)
  PROVE  /\ c \in StateSet /\ c.action = f.action /\ c.phase \in PhasesOf(f.action)
         /\ c.phase # "REST" /\ c.phase \in Phase /\ Base(c) = Base(f)
         /\ Rank[p.phase] <= Rank[c.phase] /\ Rank[c.phase] <= Rank[f.phase]
         /\ p # f => c = GetNextState(p) /\ HasNextState(p) /\ Rank[p.phase] < Rank[c.phase]
         /\ c.phase = f.phase => c = f
         /\ \A q \in PhasesOf(f.action) :
              Rank[q] < Rank[c.phase] => Rank[q] <= Rank[p.phase]
         /\ Rank[p.phase] \in Int /\ Rank[c.phase] \in Int /\ Rank[f.phase] \in Int
  <1>0. /\ p.phase \in Phase /\ f.phase \in Phase
        /\ \A q \in PhasesOf(f.action) : q \in Phase /\ Rank[q] \in Int
        /\ Rank[p.phase] \in Int /\ Rank[f.phase] \in Int
        /\ p.version \in Int /\ f.version \in Int
        /\ Shifted(p.phase) \in {0, 1} /\ Shifted(f.phase) \in {0, 1}
    BY ActionPhases, RankFacts, StateFields
  <1>1. CASE p = f
    BY <1>1, <1>0
  <1>2. CASE p # f
    <2>1. p.phase # f.phase
      <3> SUFFICES ASSUME p.phase = f.phase PROVE FALSE
        OBVIOUS
      <3>1. p.version = f.version
        BY <1>0 DEF Base
      <3> QED
        BY <3>1, <1>2, StateEquality
    <2>2. Rank[p.phase] < Rank[f.phase]
      BY <2>1, <1>0, RankFacts
    <2>3. p.phase # LastOf[p.action]
      BY <2>2, <1>0, ActionPhases
    <2>4. /\ c \in StateSet /\ c.action = p.action /\ c.phase \in PhasesOf(p.action)
          /\ HasNextState(p) /\ c.phase # "REST" /\ Rank[p.phase] < Rank[c.phase]
          /\ Base(c) = Base(p)
          /\ \A q \in PhasesOf(p.action) :
                   Rank[q] <= Rank[p.phase] \/ Rank[c.phase] <= Rank[q]
      BY <1>2, <2>3, NextFacts
    <2>5. Rank[c.phase] <= Rank[f.phase] /\ Rank[c.phase] \in Int /\ c.phase \in Phase
      BY <2>2, <2>4, <1>0
    <2>6. c.phase = f.phase => c = f
      <3> SUFFICES ASSUME c.phase = f.phase PROVE c = f
        OBVIOUS
      <3>1. c.version \in Int
        BY <2>4, StateFields
      <3>2. c.version = f.version
        BY <3>1, <2>4, <1>0 DEF Base
      <3> QED
        BY <3>2, <2>4, StateEquality
    <2> QED
      BY <1>2, <2>4, <2>5, <2>6, <1>0
  <1> QED
    BY <1>1, <1>2

\* The same of a thread in the loop.
LEMMA CurrentFacts ==
  ASSUME PhaseInv, NEW t \in Thread, Alive(t), pc[t] \notin Outside, caller[t] # "heavy",
         NEW p, p = previous_state[t], NEW f, f = final_state[t], NEW c, c = Current(t)
  PROVE  /\ p \in StateSet /\ f \in StateSet /\ f.action \in Actions /\ p.action = f.action
         /\ p.phase \in PhasesOf(f.action) /\ f.phase \in PhasesOf(f.action)
         /\ p.phase \in Phase /\ f.phase \in Phase
         /\ c \in StateSet /\ c.action = f.action /\ c.phase \in PhasesOf(f.action)
         /\ c.phase # "REST" /\ c.phase \in Phase /\ Base(c) = Base(f) /\ Base(p) = Base(f)
         /\ Rank[p.phase] <= Rank[c.phase] /\ Rank[c.phase] <= Rank[f.phase]
         /\ p # f => c = GetNextState(p) /\ HasNextState(p) /\ Rank[p.phase] < Rank[c.phase]
         /\ c.phase = f.phase => c = f
         /\ \A q \in PhasesOf(f.action) : Rank[q] < Rank[c.phase] => Rank[q] <= Rank[p.phase]
         /\ Rank[p.phase] \in Int /\ Rank[c.phase] \in Int /\ Rank[f.phase] \in Int
         /\ phase_finished[t] \in Phase /\ Rank[phase_finished[t]] \in Int
         /\ Rank[phase_finished[t]] <= Rank[c.phase]
         /\ ~Underway => c = f /\ c.phase = LastOf[c.action] /\ phase_finished[t] = c.phase
                         /\ c.version = system_state.version
         /\ Underway => /\ system_state.action = c.action
                        /\ Rank[c.phase] <= Rank[system_state.phase]
                        /\ Base(c) = Base(system_state)
                        /\ c.phase = system_state.phase => c = system_state
         /\ system_state \in StateSet /\ system_state.phase \in Phase
         /\ Rank[system_state.phase] \in Int
         /\ version[t] = p.version
  <1>0. LoopInv(t) /\ PhaseTypeOK
    BY DEF PhaseInv, ThreadInv
  <1>1. /\ p \in StateSet /\ f \in StateSet /\ system_state \in StateSet
        /\ phase_finished[t] \in Phase
    BY <1>0 DEF PhaseTypeOK
  <1>2. /\ f.action \in Actions /\ p.action = f.action
        /\ p.phase \in PhasesOf(f.action) /\ f.phase \in PhasesOf(f.action)
        /\ f.phase # "REST" /\ Rank[p.phase] <= Rank[f.phase] /\ Base(p) = Base(f)
        /\ Rank[phase_finished[t]] <= Rank[c.phase]
        /\ version[t] = p.version
        /\ Underway => /\ system_state.action = f.action
                       /\ Rank[f.phase] <= Rank[system_state.phase]
                       /\ Base(f) = Base(system_state)
        /\ ~Underway => /\ f.phase = LastOf[f.action] /\ phase_finished[t] = f.phase
                        /\ f.version = system_state.version
    BY <1>0 DEF LoopInv
  <1>3. c = IF p = f THEN f ELSE GetNextState(p)
    BY DEF Current
  <1>4. /\ c \in StateSet /\ c.action = f.action /\ c.phase \in PhasesOf(f.action)
        /\ c.phase # "REST" /\ c.phase \in Phase /\ Base(c) = Base(f)
        /\ Rank[p.phase] <= Rank[c.phase] /\ Rank[c.phase] <= Rank[f.phase]
        /\ p # f => c = GetNextState(p) /\ HasNextState(p) /\ Rank[p.phase] < Rank[c.phase]
        /\ c.phase = f.phase => c = f
        /\ \A q \in PhasesOf(f.action) : Rank[q] < Rank[c.phase] => Rank[q] <= Rank[p.phase]
        /\ Rank[p.phase] \in Int /\ Rank[c.phase] \in Int /\ Rank[f.phase] \in Int
    BY <1>1, <1>2, <1>3, CurrentTable
  <1>5. /\ p.phase \in Phase /\ f.phase \in Phase /\ system_state.phase \in Phase
        /\ Rank[system_state.phase] \in Int /\ Rank[phase_finished[t]] \in Int
    BY <1>1, StateFields, RankFacts
  <1>6. ~Underway => c = f /\ c.phase = LastOf[c.action] /\ phase_finished[t] = c.phase
                         /\ c.version = system_state.version
    <2> SUFFICES ASSUME ~Underway PROVE c.phase = f.phase
      BY <1>2, <1>4
    <2>1. Rank[c.phase] = Rank[f.phase]
      BY <1>2, <1>4
    <2> QED
      BY <2>1, <1>4, <1>5, RankFacts
  <1>7. Underway /\ c.phase = system_state.phase => c = system_state
    <2> SUFFICES ASSUME Underway, c.phase = system_state.phase PROVE c = system_state
      OBVIOUS
    <2>1. c.version \in Int /\ system_state.version \in Int /\ Shifted(c.phase) \in {0, 1}
      BY <1>1, <1>4, StateFields
    <2>2. c.version = system_state.version
      BY <2>1, <1>2, <1>4 DEF Base
    <2> QED
      BY <2>2, <1>1, <1>2, <1>4, StateEquality
  <1> QED
    BY <1>1, <1>2, <1>4, <1>5, <1>6, <1>7

LEMMA HandleLoads ==
  ASSUME PhaseInv, UNCHANGED host, NEW t \in Thread, HandleLoad(t)
  PROVE  PhaseInv'
  <1> USE DEF Plain, SameThread, global, context, locals, tables, checkpoint, Goto
  <1>0. /\ PhaseTypeOK /\ OwnInv(t) /\ pc[t] = "handle" /\ SystemInv
        /\ phase[t] \in Phase /\ version[t] \in Nat /\ system_state \in StateSet
        /\ phase_finished[t] \in Phase
    BY DEF PhaseInv, ThreadInv, OwnInv, PhaseTypeOK, HandleLoad, At
  <1>1. Alive(t) /\ caller[t] = "none" /\ ~Starting
    BY <1>0 DEF OwnInv, ControlInv, At, Outside
  <1>2. /\ UNCHANGED <<session, op, prev_pending, pending, phase_finished, caller, moving, idx, chunk,
                       system_state, gc_, grow_, resize_info, index_io, flush, guids, contexts,
                       notified>>
        /\ pc'[t] \in {"idle", "step"}
        /\ \A u \in Thread \ {t} : SameThread(u)
    BY <1>0 DEF PhaseTypeOK, HandleLoad
  <1>3. Plain(t)
    BY <1>0, <1>2
  <1>4. PhaseTypeOK'
    <2>1. SystemState(system_state.action, phase[t], version[t]) \in StateSet
      BY <1>0 DEF SystemState, StateSet
    <2>2. system_state.version \in Nat
      BY <1>0 DEF StateSet
    <2>3. "REST" \in Phase
      BY PhaseSet
    <2> QED
      BY <2>1, <2>2, <2>3, <1>0, <1>2 DEF PhaseTypeOK, HandleLoad, Labels
  <1>5. (Starting' <=> Starting) /\ (Underway' <=> Underway) /\ Alive(t)'
    BY <1>0, <1>1, <1>2, StartingStays DEF Underway, Alive
  <1>6. CASE system_state.phase = "REST"
    <2>1. /\ phase'[t] = "REST" /\ version'[t] = system_state.version /\ pc'[t] = "idle"
      BY <1>0, <1>6 DEF HandleLoad, PhaseTypeOK
    <2>2. ~Underway
      BY <1>6 DEF Underway
    <2>3. ControlInv(t)'
      BY <1>0, <1>1, <1>2, <1>5, <2>1 DEF ControlInv, At, Outside
    <2>4. AckInv(t)' /\ VersionInv(t)' /\ OutsideInv(t)'
      BY <1>0, <1>1, <1>2, <1>5, <2>1, <2>2 DEF OwnInv, AckInv, VersionInv, OutsideInv
    <2>5. LoopInv(t)' /\ HeavyInv(t)' /\ MoveInv(t)'
      BY <1>1, <1>2, <2>1 DEF LoopInv, HeavyInv, MoveInv, Outside, At
    <2>6. ChunkInv(t)' /\ PrevInv(t)'
      BY <1>0, <1>2, <2>1, <2>2 DEF OwnInv, ChunkInv, PrevInv, At
    <2> QED
      BY <1>3, <1>4, <2>3, <2>4, <2>5, <2>6, PlainStep DEF OwnInv
  <1>7. CASE system_state.phase # "REST"
    <2>1. /\ phase'[t] = phase[t] /\ version'[t] = version[t] /\ pc'[t] = "step"
          /\ final_state'[t] = system_state
          /\ previous_state'[t] = SystemState(system_state.action, phase[t], version[t])
      BY <1>0, <1>7 DEF HandleLoad, PhaseTypeOK
    <2>2. Underway /\ Underway'
      BY <1>5, <1>7 DEF Underway
    <2>3. PICK p : p = SystemState(system_state.action, phase[t], version[t])
      OBVIOUS
    <2>4. /\ p \in StateSet /\ p.action = system_state.action /\ p.phase = phase[t]
          /\ p.version = version[t]
      BY <1>0, <2>3 DEF SystemState, StateSet
    <2>5. /\ system_state.action \in Actions
          /\ system_state.phase \in PhasesOf(system_state.action)
      BY <1>0, <2>2 DEF SystemInv, StateSet
    <2>6. /\ phase[t] \in PhasesOf(system_state.action)
          /\ Rank[phase_finished[t]] <= Rank[phase[t]]
          /\ Rank[phase[t]] <= Rank[system_state.phase]
      BY <1>0, <1>1, <2>2 DEF OwnInv, OutsideInv, Outside
    <2>7. Base(p) = Base(system_state)
      BY <1>0, <1>1, <2>2, <2>4 DEF OwnInv, VersionInv, Base
    <2>8. PICK c : c = IF p = system_state THEN system_state ELSE GetNextState(p)
      OBVIOUS
    <2>9. Current(t)' = c
      BY <2>1, <2>3, <2>8 DEF Current
    <2>10. Rank[p.phase] <= Rank[c.phase] /\ Rank[p.phase] \in Int /\ Rank[c.phase] \in Int
      BY <1>0, <1>7, <2>4, <2>5, <2>6, <2>7, <2>8, CurrentTable
    <2>11. Rank[phase_finished[t]] \in Int
      BY <1>0, RankFacts
    <2>12. Rank[phase_finished[t]] <= Rank[c.phase]
      BY <2>4, <2>6, <2>10, <2>11
    <2>13. ControlInv(t)'
      BY <1>0, <1>1, <1>2, <1>5, <2>1 DEF ControlInv, At, Outside
    <2>14. AckInv(t)' /\ VersionInv(t)' /\ OutsideInv(t)'
      BY <1>0, <1>1, <1>2, <1>5, <2>1, <2>2 DEF OwnInv, AckInv, VersionInv, OutsideInv, Outside
    <2>15. LoopInv(t)'
      <3>1. PICK f : f = system_state
        OBVIOUS
      <3>2. /\ previous_state'[t] = p /\ final_state'[t] = f /\ system_state' = f
            /\ caller'[t] = "none" /\ phase'[t] = p.phase /\ version'[t] = p.version
            /\ phase_finished'[t] = phase_finished[t]
        BY <1>1, <1>2, <2>1, <2>3, <2>4, <3>1
      <3>3. /\ f.action \in Actions /\ p.action = f.action
            /\ p.phase \in PhasesOf(f.action) /\ f.phase \in PhasesOf(f.action)
            /\ f.phase # "REST" /\ Rank[p.phase] <= Rank[f.phase] /\ Base(p) = Base(f)
            /\ Rank[phase_finished[t]] <= Rank[p.phase]
            /\ Rank[f.phase] \in Int
        BY <1>0, <1>7, <2>4, <2>5, <2>6, <2>7, <3>1, StateFields, RankFacts
      <3> QED
        BY <2>2, <2>9, <2>12, <3>2, <3>3 DEF LoopInv
    <2>16. HeavyInv(t)' /\ MoveInv(t)'
      BY <1>1, <1>2, <2>1 DEF HeavyInv, MoveInv, Outside, At
    <2>17. ChunkInv(t)' /\ PrevInv(t)'
      BY <1>0, <1>2, <2>1, <2>2 DEF OwnInv, ChunkInv, PrevInv, At, Underway
    <2> QED
      BY <1>3, <1>4, <2>13, <2>14, <2>15, <2>16, <2>17, PlainStep DEF OwnInv
  <1> QED
    BY <1>6, <1>7

\* The facts about a thread at the start of a round.
LEMMA StepFacts ==
  ASSUME PhaseInv, NEW t \in Thread, At(t, "step"),
         NEW p, p = previous_state[t], NEW c, c = Current(t)
  PROVE  /\ Alive(t) /\ caller[t] = "none" /\ ~Starting
         /\ phase[t] = p.phase /\ version[t] = p.version
         /\ Rank[phase_finished[t]] <= Rank[p.phase]
         /\ p \in StateSet /\ c \in StateSet /\ c.action \in Actions
         /\ p.phase \in PhasesOf(c.action) /\ c.phase \in PhasesOf(c.action) /\ c.phase # "REST"
         /\ p.phase \in Phase /\ c.phase \in Phase /\ phase_finished[t] \in Phase
         /\ Rank[p.phase] <= Rank[c.phase]
         /\ Rank[p.phase] \in Int /\ Rank[c.phase] \in Int /\ Rank[phase_finished[t]] \in Int
         /\ Rank[system_state.phase] \in Int /\ system_state.phase \in Phase
         /\ ~Underway => c.phase = LastOf[c.action] /\ phase_finished[t] = c.phase
         /\ Underway => /\ system_state.action = c.action
                        /\ Rank[c.phase] <= Rank[system_state.phase]
                        /\ c.phase = system_state.phase => c = system_state
  <1>1. Alive(t) /\ caller[t] = "none" /\ ~Starting
    BY DEF PhaseInv, ThreadInv, ControlInv, At
  <1>2. pc[t] \notin Outside
    BY DEF At, Outside
  <1>3. /\ phase[t] = p.phase /\ version[t] = p.version
        /\ Rank[phase_finished[t]] <= Rank[p.phase]
    BY <1>1, <1>2 DEF PhaseInv, ThreadInv, LoopInv
  <1>4. PICK f : f = final_state[t]
    OBVIOUS
  <1>5. caller[t] # "heavy"
    BY <1>1
  <1>6. /\ p \in StateSet /\ c \in StateSet /\ c.action = f.action /\ f.action \in Actions
        /\ p.phase \in PhasesOf(f.action) /\ c.phase \in PhasesOf(f.action) /\ c.phase # "REST"
        /\ p.phase \in Phase /\ c.phase \in Phase /\ phase_finished[t] \in Phase
        /\ Rank[p.phase] <= Rank[c.phase]
        /\ Rank[p.phase] \in Int /\ Rank[c.phase] \in Int /\ Rank[phase_finished[t]] \in Int
        /\ Rank[system_state.phase] \in Int /\ system_state.phase \in Phase
        /\ ~Underway => c.phase = LastOf[c.action] /\ phase_finished[t] = c.phase
        /\ Underway => /\ system_state.action = c.action
                       /\ Rank[c.phase] <= Rank[system_state.phase]
                       /\ c.phase = system_state.phase => c = system_state
    BY <1>1, <1>2, <1>4, <1>5, CurrentFacts
  <1> QED
    BY <1>1, <1>3, <1>6

\* What a phase of a live thread says about the acknowledgements it has given.
LEMMA Acknowledges ==
  ASSUME PhaseInv, NEW t \in Thread, Alive(t), Underway, NEW q \in PhasesOf(system_state.action),
         Rank[q] < Rank[system_state.phase], ~Unacknowledged(system_state.action, q)
  PROVE  Rank[q] <= Rank[phase_finished[t]]
BY DEF PhaseInv, ThreadInv, AckInv

\* Requests of the old context are pending only in these rounds.
LEMMA PrevAtStep ==
  ASSUME PhaseInv, NEW t \in Thread, At(t, "step"), prev_pending[t],
         NEW p, p = previous_state[t], NEW c, c = Current(t)
  PROVE  /\ Underway
         /\ \/ /\ c.phase \in {"IN_PROGRESS", "WAIT_PENDING"}
               /\ p.phase \in {"IN_PROGRESS", "WAIT_PENDING"}
            \/ c.phase = "GC_IO_PENDING" /\ p.phase = "GC_IO_PENDING"
  <1>1. /\ Alive(t) /\ caller[t] = "none"
        /\ phase[t] = p.phase
        /\ Rank[phase_finished[t]] <= Rank[p.phase]
        /\ p.phase \in PhasesOf(c.action) /\ c.phase \in PhasesOf(c.action) /\ c.phase # "REST"
        /\ p.phase \in Phase /\ c.phase \in Phase
        /\ Rank[p.phase] <= Rank[c.phase]
        /\ Rank[p.phase] \in Int /\ Rank[c.phase] \in Int /\ Rank[phase_finished[t]] \in Int
        /\ Rank[system_state.phase] \in Int /\ system_state.phase \in Phase
        /\ Underway => /\ system_state.action = c.action
                       /\ Rank[c.phase] <= Rank[system_state.phase]
    BY StepFacts
  <1>2. /\ Underway
        /\ \/ system_state.action \in LogCheckpoints /\ phase_finished[t] = "IN_PROGRESS"
           \/ /\ system_state.action = "GC" /\ phase_finished[t] = "REST"
              /\ phase[t] = "GC_IO_PENDING"
    BY DEF PhaseInv, ThreadInv, PrevInv, At
  <1>3. CASE system_state.action \in LogCheckpoints /\ phase_finished[t] = "IN_PROGRESS"
    <2>1. "WAIT_PENDING" \in PhasesOf(system_state.action)
      BY <1>3, PhasesTable DEF LogCheckpoints
    <2>2. ~(Rank["WAIT_PENDING"] < Rank[system_state.phase])
      BY <1>1, <1>2, <1>3, <2>1, Acknowledges, RankTable DEF Unacknowledged
    <2>3. Rank[p.phase] \in 4 .. 5 /\ Rank[c.phase] \in 4 .. 5
      BY <1>1, <1>2, <1>3, <2>2, RankTable
    <2> QED
      BY <1>1, <1>2, <2>3, RankTable, PhaseSet
  <1>4. CASE /\ system_state.action = "GC" /\ phase_finished[t] = "REST"
             /\ phase[t] = "GC_IO_PENDING"
    <2>1. "GC_IO_PENDING" \in PhasesOf(system_state.action)
      BY <1>4, PhasesTable
    <2>2. ~(Rank["GC_IO_PENDING"] < Rank[system_state.phase])
      BY <1>1, <1>2, <1>4, <2>1, Acknowledges, RankTable DEF Unacknowledged
    <2>3. p.phase = "GC_IO_PENDING" /\ Rank[c.phase] = 8
      BY <1>1, <1>2, <1>4, <2>2, RankTable
    <2> QED
      BY <1>1, <1>2, <2>3, RankTable, PhaseSet
  <1> QED
    BY <1>2, <1>3, <1>4

\* A round that does nothing, or nothing but swap the contexts.
LEMMA SkipStep ==
  ASSUME PhaseInv, NEW t \in Thread, Plain(t), PhaseTypeOK', At(t, "step"), pc'[t] = "tail",
         session'[t] = session[t], phase'[t] = phase[t], version'[t] = version[t],
         caller'[t] = caller[t], previous_state'[t] = previous_state[t],
         final_state'[t] = final_state[t], PrevInv(t)'
  PROVE  PhaseInv'
  <1>0. /\ OwnInv(t) /\ system_state' = system_state
        /\ phase_finished'[t] = phase_finished[t] /\ UNCHANGED <<gc_, grow_>> /\ pc[t] = "step"
    BY DEF PhaseInv, ThreadInv, OwnInv, Plain, At
  <1>1. (Starting' <=> Starting) /\ (Underway' <=> Underway) /\ (Alive(t)' <=> Alive(t))
        /\ Current(t)' = Current(t)
    BY StartingStays DEF Plain, SameThread, Underway, Alive, Current
  <1>2. Alive(t) /\ caller[t] = "none" /\ ~Starting
    BY <1>0 DEF OwnInv, ControlInv, At
  <1>3. ControlInv(t)'
    BY <1>0, <1>1, <1>2 DEF ControlInv, At, Outside
  <1>4. AckInv(t)' /\ VersionInv(t)'
    BY <1>0, <1>1 DEF OwnInv, AckInv, VersionInv
  <1>5. OutsideInv(t)' /\ HeavyInv(t)' /\ MoveInv(t)'
    BY <1>2 DEF OutsideInv, Outside, HeavyInv, MoveInv, At
  <1>6. LoopInv(t)'
    BY <1>0, <1>1, <1>2 DEF OwnInv, LoopInv, Outside, At
  <1>7. ChunkInv(t)'
    BY <1>0, <1>1 DEF OwnInv, ChunkInv, At
  <1> QED
    BY <1>3, <1>4, <1>5, <1>6, <1>7, PlainStep DEF OwnInv


\* A round that acknowledges its phase.
Acks(t) ==
  /\ UNCHANGED <<system_state, index_io, flush, gc_, grow_>>
  /\ \A u \in Thread \ {t} : SameThread(u)
  /\ session'[t] = session[t] /\ phase'[t] = phase[t] /\ version'[t] = version[t]
  /\ caller'[t] = caller[t] /\ previous_state'[t] = previous_state[t]
  /\ final_state'[t] = final_state[t]
  /\ phase_finished'[t] = Current(t).phase /\ moving'[t] = Current(t)
  /\ idx'[t] = 1 /\ pc'[t] = "scan"
  /\ guids \subseteq guids' /\ contexts \subseteq contexts'

LEMMA AckStep ==
  ASSUME PhaseInv, NEW t \in Thread, Acks(t), PhaseTypeOK', At(t, "step"),
         NEW c, c = Current(t),
         ~Unacknowledged(c.action, c.phase), c.phase # "GROW_IN_PROGRESS",
         c.phase = "GC_IN_PROGRESS" => gc_.next_chunk = NumChunks,
         c.phase = "PREPARE" => t \in guids',
         c.phase = "WAIT_FLUSH" => t \in contexts' /\ flush = "done",
         notified' = notified \/ (c.phase = "PERSISTENCE_CALLBACK" /\ Underway),
         PrevInv(t)'
  PROVE  PhaseInv'
  <1>0. /\ OwnInv(t) /\ CheckpointInv /\ HeldInv /\ pc[t] = "step" /\ SystemInv
        /\ NumThreads >= 1 /\ PhaseTypeOK
    BY BoundsAssumption DEF PhaseInv, ThreadInv, OwnInv, At
  <1>1. PICK p : p = previous_state[t]
    OBVIOUS
  <1>2. PICK f : f = final_state[t]
    OBVIOUS
  <1>3. /\ Alive(t) /\ caller[t] = "none" /\ ~Starting
        /\ Rank[phase_finished[t]] <= Rank[p.phase]
        /\ c \in StateSet /\ c.action \in Actions
        /\ c.phase \in PhasesOf(c.action) /\ c.phase # "REST"
        /\ p.phase \in Phase /\ c.phase \in Phase /\ phase_finished[t] \in Phase
        /\ Rank[p.phase] <= Rank[c.phase]
        /\ Rank[p.phase] \in Int /\ Rank[c.phase] \in Int /\ Rank[phase_finished[t]] \in Int
        /\ Rank[system_state.phase] \in Int /\ system_state.phase \in Phase
        /\ ~Underway => c.phase = LastOf[c.action] /\ phase_finished[t] = c.phase
        /\ Underway => /\ system_state.action = c.action
                       /\ Rank[c.phase] <= Rank[system_state.phase]
                       /\ c.phase = system_state.phase => c = system_state
    BY <1>1, StepFacts
  <1>4. /\ phase_finished'[t] = c.phase /\ moving'[t] = c /\ idx'[t] = 1 /\ pc'[t] = "scan"
        /\ system_state' = system_state /\ caller'[t] = "none"
        /\ gc_' = gc_ /\ grow_' = grow_ /\ index_io' = index_io /\ flush' = flush
        /\ guids \subseteq guids' /\ contexts \subseteq contexts'
        /\ phase'[t] = phase[t] /\ version'[t] = version[t]
        /\ previous_state'[t] = previous_state[t] /\ final_state'[t] = final_state[t]
    BY <1>3 DEF Acks
  <1>5. (Starting' <=> Starting) /\ (Underway' <=> Underway) /\ (Alive(t)' <=> Alive(t))
        /\ Current(t)' = c
    BY <1>0, StartingStays DEF Acks, SameThread, Underway, Alive, Current
  <1>6. Rank[phase_finished[t]] <= Rank[c.phase]
    BY <1>3
  <1>7. phase_finished[t] = system_state.phase => c.phase = system_state.phase
    <2> SUFFICES ASSUME phase_finished[t] = system_state.phase PROVE c.phase = system_state.phase
      OBVIOUS
    <2>1. CASE Underway
      <3>1. Rank[c.phase] = Rank[system_state.phase]
        BY <2>1, <1>3, <1>6
      <3> QED
        BY <3>1, <1>3, RankFacts
    <2>2. CASE ~Underway
      BY <2>2, <1>3 DEF Underway
    <2> QED
      BY <2>1, <2>2
  <1>8. Local(t)
    BY <1>0, <1>4, <1>7 DEF Local, Acks, ChunksGrow
  <1>9. ControlInv(t)'
    BY <1>0, <1>3, <1>4, <1>5 DEF ControlInv, At, Outside
  <1>10. AckInv(t)'
    <2>1. CASE Underway
      <3>1. \A q \in PhasesOf(system_state.action) : q \in Phase /\ Rank[q] \in Int
        BY <2>1, <1>3, ActionPhases, RankFacts
      <3>2. \A q \in PhasesOf(system_state.action) :
              Rank[q] < Rank[system_state.phase] /\ ~Unacknowledged(system_state.action, q)
                => Rank[q] <= Rank[phase_finished[t]]
        BY <2>1, <1>3, Acknowledges
      <3>3. \A q \in PhasesOf(system_state.action) :
              Rank[q] < Rank[system_state.phase] /\ ~Unacknowledged(system_state.action, q)
                => Rank[q] <= Rank[c.phase]
        BY <3>1, <3>2, <1>3, <1>6
      <3> QED
        BY <2>1, <3>3, <1>3, <1>4, <1>5 DEF AckInv
    <2>2. CASE ~Underway
      BY <2>2, <1>0, <1>3, <1>4, <1>5 DEF OwnInv, AckInv
    <2> QED
      BY <2>1, <2>2
  <1>11. VersionInv(t)'
    BY <1>0, <1>4, <1>5 DEF OwnInv, VersionInv
  <1>12. OutsideInv(t)' /\ HeavyInv(t)'
    BY <1>4 DEF OutsideInv, HeavyInv, Outside
  <1>13. LoopInv(t)'
    BY <1>0, <1>3, <1>4, <1>5 DEF OwnInv, LoopInv, Outside, At
  <1>14. ChunkInv(t)'
    BY <1>4, <1>5 DEF ChunkInv, At
  <1>15. MoveInv(t)'
    <2>1. \A u \in Thread : ~(u < 1)
      BY DEF Thread
    <2> QED
      BY <2>1, <1>4, <1>5 DEF MoveInv, At
  <1>16. HeldInv'
    BY <1>0, HeldStays DEF Acks, SameThread
  <1>17. CheckpointInv'
    <2>1. ASSUME NEW u \in Thread, u # t
          PROVE  (Alive(u)' <=> Alive(u)) /\ phase_finished'[u] = phase_finished[u]
      BY <2>1 DEF Acks, SameThread, Alive
    <2>2. ASSUME system_state.action \in LogCheckpoints
          PROVE  /\ Rank[c.phase] >= Rank["PREPARE"] => t \in guids'
                 /\ Rank[c.phase] >= Rank["WAIT_FLUSH"] => t \in contexts' /\ flush = "done"
      <3>0. /\ Rank[phase_finished[t]] >= Rank["PREPARE"] => t \in guids'
            /\ Rank[phase_finished[t]] >= Rank["WAIT_FLUSH"] => t \in contexts' /\ flush = "done"
        BY <2>2, <1>0, <1>3, <1>4 DEF CheckpointInv
      <3>1. CASE Underway
        <4>1. "PREPARE" \in PhasesOf(system_state.action) /\ "WAIT_FLUSH" \in PhasesOf(system_state.action)
          BY <2>2, PhasesTable DEF LogCheckpoints
        <4>2. /\ Rank["PREPARE"] < Rank[system_state.phase] => Rank["PREPARE"] <= Rank[phase_finished[t]]
              /\ Rank["WAIT_FLUSH"] < Rank[system_state.phase] => Rank["WAIT_FLUSH"] <= Rank[phase_finished[t]]
          BY <3>1, <4>1, <1>3, Acknowledges DEF Unacknowledged
        <4>3. /\ Rank[c.phase] = 3 => c.phase = "PREPARE"
              /\ Rank[c.phase] = 6 => c.phase = "WAIT_FLUSH"
          BY <1>3, RankTable, PhaseSet
        <4> QED
          BY <3>0, <3>1, <4>2, <4>3, <1>3, RankTable
      <3>2. CASE ~Underway
        BY <3>0, <3>2, <1>3
      <3> QED
        BY <3>1, <3>2
    <2>3. ASSUME notified' # notified
          PROVE  system_state.action \in LogCheckpoints /\ system_state.phase = "PERSISTENCE_CALLBACK"
      <3>1. Underway /\ c.phase = "PERSISTENCE_CALLBACK"
        BY <2>3
      <3>2. system_state.action \in LogCheckpoints
        BY <3>1, <1>3, PhasesTable DEF Actions, LogCheckpoints
      <3>3. system_state.phase \in PhasesOf(system_state.action)
        BY <3>1, <1>0 DEF SystemInv
      <3> QED
        BY <3>1, <3>2, <3>3, <1>3, PhasesTable, RankTable DEF LogCheckpoints
    <2>4. /\ system_state.action \in {"CheckpointFull", "CheckpointIndex"} /\
             system_state.phase = "PREP_INDEX_CHKPT" => index_io = "none"
          /\ flush # "none" =>
               /\ system_state.action \in LogCheckpoints /\ ~Starting
               /\ system_state.phase \in {"WAIT_FLUSH", "PERSISTENCE_CALLBACK", "REST"}
          /\ notified' # {} =>
               /\ system_state.action \in LogCheckpoints /\ ~Starting
               /\ system_state.phase \in {"PERSISTENCE_CALLBACK", "REST"}
          /\ system_state.action \in LogCheckpoints /\ ~Starting =>
               (system_state.phase \in {"PERSISTENCE_CALLBACK", "REST"} => flush = "done")
      BY <1>0, <1>3, <2>3 DEF CheckpointInv
    <2>5. ASSUME system_state.action \in LogCheckpoints, NEW u \in Thread, Alive(u)'
          PROVE  /\ Rank[phase_finished'[u]] >= Rank["PREPARE"] => u \in guids'
                 /\ Rank[phase_finished'[u]] >= Rank["WAIT_FLUSH"] => u \in contexts' /\ flush = "done"
      <3>1. CASE u = t
        BY <3>1, <2>2, <2>5, <1>4
      <3>2. CASE u # t
        BY <3>2, <2>1, <2>5, <1>0, <1>3, <1>4 DEF CheckpointInv
      <3> QED
        BY <3>1, <3>2
    <2> QED
      BY <2>4, <2>5, <1>4, <1>5 DEF CheckpointInv
  <1> QED
    BY <1>8, <1>9, <1>10, <1>11, <1>12, <1>13, <1>14, <1>15, <1>16, <1>17, LocalStep DEF OwnInv


LEMMA SkipRound ==
  ASSUME PhaseInv, UNCHANGED host, NEW t \in Thread, At(t, "step"), Skip(t),
         UNCHANGED <<global, context, call>>
  PROVE  PhaseInv'
  <1> USE DEF global, context, call, tables, checkpoint, Skip, Goto
  <1>0. PhaseTypeOK /\ PrevInv(t) /\ pc[t] = "step"
    BY DEF PhaseInv, ThreadInv, At
  <1>1. PhaseTypeOK'
    BY <1>0 DEF PhaseTypeOK, Labels
  <1>2. pc'[t] = "tail" /\ \A u \in Thread \ {t} : pc'[u] = pc[u]
    BY <1>0 DEF PhaseTypeOK
  <1>3. Plain(t)
    BY <1>0, <1>2 DEF Plain, SameThread
  <1>4. PrevInv(t)'
    BY <1>0, <1>2 DEF PrevInv, At, Underway
  <1> QED
    BY <1>1, <1>2, <1>3, <1>4, SkipStep

LEMMA AckRound ==
  ASSUME PhaseInv, UNCHANGED host, NEW t \in Thread, At(t, "step"),
         NEW c, c = Current(t), FinishThreadPhase(t, c),
         UNCHANGED <<system_state, index_io, flush, tables, starts, phase, version, call>>,
         guids \subseteq guids', contexts \subseteq contexts',
         notified' = notified \/ (c.phase = "PERSISTENCE_CALLBACK" /\ Underway),
         pending' \in [Thread -> BOOLEAN], prev_pending' \in [Thread -> BOOLEAN],
         \A u \in Thread \ {t} : prev_pending'[u] = prev_pending[u],
         ~Unacknowledged(c.action, c.phase), c.phase # "GROW_IN_PROGRESS",
         c.phase = "GC_IN_PROGRESS" => gc_.next_chunk = NumChunks,
         c.phase = "PREPARE" => t \in guids',
         c.phase = "WAIT_FLUSH" => t \in contexts' /\ flush = "done",
         prev_pending'[t] => c.phase = "IN_PROGRESS" /\ Underway
  PROVE  PhaseInv'
  <1> USE DEF call, tables, Goto
  <1>0. PhaseTypeOK /\ pc[t] = "step" /\ 1 \in 0 .. NumThreads
    BY BoundsAssumption DEF PhaseInv, At
  <1>1. c \in StateSet /\ c.phase \in Phase /\ c.action \in Actions /\ c.phase \in PhasesOf(c.action)
        /\ (Underway => system_state.action = c.action)
    BY StepFacts
  <1>2. PhaseTypeOK'
    BY <1>0, <1>1 DEF PhaseTypeOK, Labels, FinishThreadPhase
  <1>3. Acks(t)
    BY <1>0 DEF PhaseTypeOK, Acks, SameThread, FinishThreadPhase
  <1>4. phase_finished'[t] = c.phase
    BY <1>3 DEF Acks
  <1>5. c.phase = "IN_PROGRESS" => c.action \in LogCheckpoints
    BY <1>1, PhasesTable DEF Actions, LogCheckpoints
  <1>6. PrevInv(t)'
    BY <1>1, <1>4, <1>5 DEF PrevInv, Underway
  <1> QED
    BY <1>2, <1>3, <1>6, AckStep

LEMMA CheckpointRounds ==
  ASSUME PhaseInv, UNCHANGED host, NEW t \in Thread,
         \/ StepRest(t) \/ StepPrepIndexChkpt(t) \/ StepPrepare(t) \/ StepInProgress(t)
         \/ StepWaitPending(t) \/ StepWaitFlush(t) \/ StepPersistenceCallback(t)
  PROVE  PhaseInv'
  <1> USE DEF global, tables, checkpoint, context
  <1>0. /\ At(t, "step") /\ PhaseTypeOK
    BY DEF PhaseInv, Step, StepRest, StepPrepIndexChkpt, StepPrepare, StepInProgress,
           StepWaitPending, StepWaitFlush, StepPersistenceCallback
  <1>1. PICK p : p = previous_state[t]
    OBVIOUS
  <1>2. PICK c : c = Current(t)
    OBVIOUS
  <1>3. /\ Rank[phase_finished[t]] <= Rank[p.phase]
        /\ c.phase # "REST"
        /\ ~Underway => phase_finished[t] = c.phase
    BY <1>0, <1>1, <1>2, StepFacts
  <1>4. prev_pending[t] => c.phase \in {"IN_PROGRESS", "WAIT_PENDING", "GC_IO_PENDING"}
    BY <1>0, <1>1, <1>2, PrevAtStep
  <1>5. pending \in [Thread -> BOOLEAN] /\ prev_pending \in [Thread -> BOOLEAN]
    BY <1>0 DEF PhaseTypeOK
  <1>6. CASE StepRest(t)
    BY <1>2, <1>3, <1>6 DEF StepRest, Step
  <1>7. CASE StepPrepIndexChkpt(t)
    <2>1. c.phase = "PREP_INDEX_CHKPT" /\ UNCHANGED <<global, context, call>>
      BY <1>2, <1>7 DEF StepPrepIndexChkpt, Step
    <2>2. CASE Skip(t)
      BY <1>0, <2>1, <2>2, SkipRound
    <2>3. CASE FinishThreadPhase(t, c)
      BY <1>0, <1>2, <1>4, <1>5, <2>1, <2>3, AckRound DEF Unacknowledged
    <2> QED
      BY <1>2, <1>7, <2>2, <2>3 DEF StepPrepIndexChkpt
  <1>8. CASE StepPrepare(t)
    <2>1. /\ c.phase = "PREPARE"
          /\ UNCHANGED <<system_state, index_io, flush, contexts, notified, tables, starts,
                         context, call>>
      BY <1>2, <1>8 DEF StepPrepare, Step
    <2>2. CASE Skip(t) /\ UNCHANGED guids
      BY <1>0, <2>1, <2>2, SkipRound
    <2>3. CASE FinishThreadPhase(t, c) /\ guids' = guids \cup {t}
      BY <1>0, <1>2, <1>4, <1>5, <2>1, <2>3, AckRound DEF Unacknowledged
    <2> QED
      BY <1>2, <1>8, <2>2, <2>3 DEF StepPrepare
  <1>9. CASE StepInProgress(t)
    <2>1. c.phase = "IN_PROGRESS" /\ UNCHANGED <<global, phase, version, call>>
      BY <1>2, <1>9 DEF StepInProgress, Step
    <2>2. CASE Skip(t) /\ UNCHANGED <<pending, prev_pending>>
      BY <1>0, <2>1, <2>2, SkipRound
    <2>3. CASE FinishThreadPhase(t, c) /\ From(t, "PREPARE") /\ SwapContexts(t)
      <3>1. Underway
        BY <1>1, <1>3, <2>1, <2>3, RankTable DEF From
      <3>2. /\ pending' \in [Thread -> BOOLEAN] /\ prev_pending' \in [Thread -> BOOLEAN]
            /\ \A u \in Thread \ {t} : prev_pending'[u] = prev_pending[u]
        BY <1>5, <2>3 DEF SwapContexts
      <3> QED
        BY <1>0, <1>2, <2>1, <2>3, <3>1, <3>2, AckRound DEF Unacknowledged
    <2> QED
      BY <1>2, <1>9, <2>2, <2>3 DEF StepInProgress
  <1>10. CASE StepWaitPending(t)
    <2>1. c.phase = "WAIT_PENDING" /\ UNCHANGED <<global, context, call>>
      BY <1>2, <1>10 DEF StepWaitPending, Step
    <2>2. CASE Skip(t)
      BY <1>0, <2>1, <2>2, SkipRound
    <2>3. CASE FinishThreadPhase(t, c) /\ PrevDone(t)
      BY <1>0, <1>2, <1>5, <2>1, <2>3, AckRound DEF Unacknowledged, PrevDone
    <2> QED
      BY <1>2, <1>10, <2>2, <2>3 DEF StepWaitPending
  <1>11. CASE StepWaitFlush(t)
    <2>1. /\ c.phase = "WAIT_FLUSH"
          /\ UNCHANGED <<system_state, index_io, flush, guids, notified, tables, starts, context,
                         call>>
      BY <1>2, <1>11 DEF StepWaitFlush, Step
    <2>2. CASE Skip(t) /\ UNCHANGED contexts
      BY <1>0, <2>1, <2>2, SkipRound
    <2>3. CASE FinishThreadPhase(t, c) /\ Flushed /\ contexts' = contexts \cup {t}
      BY <1>0, <1>2, <1>4, <1>5, <2>1, <2>3, AckRound DEF Unacknowledged, Flushed
    <2> QED
      BY <1>2, <1>11, <2>2, <2>3 DEF StepWaitFlush
  <1>12. CASE StepPersistenceCallback(t)
    <2>1. /\ c.phase = "PERSISTENCE_CALLBACK"
          /\ UNCHANGED <<system_state, index_io, flush, guids, contexts, tables, starts, context,
                         call>>
      BY <1>2, <1>12 DEF StepPersistenceCallback, Step
    <2>2. CASE Skip(t) /\ UNCHANGED notified
      BY <1>0, <2>1, <2>2, SkipRound
    <2>3. CASE FinishThreadPhase(t, c) /\ From(t, "WAIT_FLUSH")
      <3>1. Underway
        BY <1>1, <1>3, <2>1, <2>3, RankTable DEF From
      <3> QED
        BY <1>0, <1>2, <1>4, <1>5, <2>1, <2>3, <3>1, AckRound DEF Unacknowledged
    <2> QED
      BY <1>2, <1>12, <2>2, <2>3 DEF StepPersistenceCallback
  <1> QED
    BY <1>6, <1>7, <1>8, <1>9, <1>10, <1>11, <1>12


\* The rounds with the same control as a skip: the label is one of the loop.
LEMMA OnwardStep ==
  ASSUME PhaseInv, NEW t \in Thread, Plain(t), PhaseTypeOK', At(t, "step"),
         pc'[t] \in {"move", "split"}, caller'[t] = IF pc'[t] = "split" THEN "split" ELSE "none",
         session'[t] = session[t], phase'[t] = phase[t], version'[t] = version[t],
         previous_state'[t] = previous_state[t], final_state'[t] = final_state[t],
         pc'[t] = "split" => Current(t).phase = "GROW_IN_PROGRESS",
         PrevInv(t)', MoveInv(t)'
  PROVE  PhaseInv'
  <1>0. /\ OwnInv(t) /\ system_state' = system_state
        /\ phase_finished'[t] = phase_finished[t] /\ UNCHANGED <<gc_, grow_>> /\ pc[t] = "step"
    BY DEF PhaseInv, ThreadInv, OwnInv, Plain, At
  <1>1. (Starting' <=> Starting) /\ (Underway' <=> Underway) /\ (Alive(t)' <=> Alive(t))
        /\ Current(t)' = Current(t)
    BY StartingStays DEF Plain, SameThread, Underway, Alive, Current
  <1>2. Alive(t) /\ caller[t] = "none" /\ ~Starting
    BY <1>0 DEF OwnInv, ControlInv, At
  <1>3. ControlInv(t)'
    BY <1>0, <1>1, <1>2 DEF ControlInv, At, Outside
  <1>4. AckInv(t)' /\ VersionInv(t)'
    BY <1>0, <1>1 DEF OwnInv, AckInv, VersionInv
  <1>5. OutsideInv(t)' /\ HeavyInv(t)'
    BY <1>2 DEF OutsideInv, Outside, HeavyInv, At
  <1>6. LoopInv(t)'
    BY <1>0, <1>1, <1>2 DEF OwnInv, LoopInv, Outside, At
  <1>7. ChunkInv(t)'
    BY <1>0, <1>1 DEF OwnInv, ChunkInv, At
  <1> QED
    BY <1>3, <1>4, <1>5, <1>6, <1>7, PlainStep DEF OwnInv

LEMMA IndexRound ==
  ASSUME PhaseInv, UNCHANGED host, NEW t \in Thread, StepIndexChkpt(t)
  PROVE  PhaseInv'
  <1> USE DEF global, tables, checkpoint, context
  <1>0. At(t, "step") /\ PhaseTypeOK /\ UNCHANGED <<global, context, call>>
    BY DEF PhaseInv, Step, StepIndexChkpt
  <1>1. PICK c : c = Current(t)
    OBVIOUS
  <1>2. c.phase = "INDEX_CHKPT"
    BY <1>1 DEF StepIndexChkpt, Step
  <1>3. /\ c \in StateSet /\ c.action \in Actions /\ c.phase \in PhasesOf(c.action)
        /\ caller[t] = "none"
    BY <1>0, <1>1, StepFacts
  <1>4. ~prev_pending[t] /\ pending \in [Thread -> BOOLEAN] /\ prev_pending \in [Thread -> BOOLEAN]
    <2>1. prev_pending[t] => c.phase \in {"IN_PROGRESS", "WAIT_PENDING", "GC_IO_PENDING"}
      BY <1>0, <1>1, PrevAtStep
    <2> QED
      BY <1>0, <1>2, <2>1 DEF PhaseTypeOK
  <1>5. CASE Skip(t)
    BY <1>0, <1>5, SkipRound
  <1>6. CASE c.action = "CheckpointIndex" /\ FinishThreadPhase(t, c)
    BY <1>0, <1>1, <1>2, <1>4, <1>6, AckRound DEF Unacknowledged
  <1>7. CASE /\ index_io = "done" /\ c.action # "CheckpointIndex"
             /\ moving' = [moving EXCEPT ![t] = c]
             /\ Goto(t, "move")
             /\ UNCHANGED <<phase_finished, idx>>
    <2>1. c.action = "CheckpointFull"
      BY <1>2, <1>3, <1>7, PhasesTable DEF Actions
    <2>2. PhaseTypeOK'
      BY <1>0, <1>3, <1>7 DEF PhaseTypeOK, Goto, call, Labels
    <2>3. /\ pc'[t] = "move" /\ moving'[t] = c /\ caller'[t] = "none" /\ pc[t] = "step"
          /\ \A u \in Thread \ {t} : SameThread(u)
      BY <1>0, <1>3, <1>7 DEF PhaseTypeOK, Goto, call, At, SameThread
    <2>4. Plain(t)
      BY <1>0, <1>7, <2>3 DEF Plain, call
    <2>5. Current(t)' = c /\ PrevInv(t)'
      BY <1>0, <1>1, <1>4 DEF Current, call, PrevInv
    <2>6. MoveInv(t)'
      BY <1>0, <1>2, <1>7, <2>1, <2>3, <2>5 DEF MoveInv, At, Unacknowledged
    <2> QED
      BY <1>0, <2>2, <2>3, <2>4, <2>5, <2>6, OnwardStep DEF call
  <1> QED
    BY <1>1, <1>5, <1>6, <1>7 DEF StepIndexChkpt

LEMMA GrowRounds ==
  ASSUME PhaseInv, UNCHANGED host, NEW t \in Thread, StepGrowPrepare(t) \/ StepGrowInProgress(t)
  PROVE  PhaseInv'
  <1> USE DEF global, tables, checkpoint, context
  <1>0. At(t, "step") /\ PhaseTypeOK /\ UNCHANGED <<global, context>>
    BY DEF PhaseInv, Step, StepGrowPrepare, StepGrowInProgress
  <1>1. PICK c : c = Current(t)
    OBVIOUS
  <1>2. c.phase \in {"GROW_PREPARE", "GROW_IN_PROGRESS"} /\ caller[t] = "none"
    BY <1>0, <1>1, StepFacts DEF StepGrowPrepare, StepGrowInProgress, Step
  <1>3. ~prev_pending[t] /\ pending \in [Thread -> BOOLEAN] /\ prev_pending \in [Thread -> BOOLEAN]
    <2>1. prev_pending[t] => c.phase \in {"IN_PROGRESS", "WAIT_PENDING", "GC_IO_PENDING"}
      BY <1>0, <1>1, PrevAtStep
    <2> QED
      BY <1>0, <1>2, <2>1 DEF PhaseTypeOK
  <1>4. CASE StepGrowPrepare(t)
    <2>1. c.phase = "GROW_PREPARE" /\ UNCHANGED call
      BY <1>1, <1>4 DEF StepGrowPrepare, Step
    <2>2. CASE Skip(t)
      BY <1>0, <2>1, <2>2, SkipRound
    <2>3. CASE FinishThreadPhase(t, c)
      BY <1>0, <1>1, <1>3, <2>1, <2>3, AckRound DEF Unacknowledged
    <2> QED
      BY <1>1, <1>4, <2>2, <2>3 DEF StepGrowPrepare
  <1>5. CASE StepGrowInProgress(t)
    <2>1. c.phase = "GROW_IN_PROGRESS"
      BY <1>1, <1>5 DEF StepGrowInProgress, Step
    <2>2. PhaseTypeOK'
      BY <1>0, <1>5 DEF PhaseTypeOK, StepGrowInProgress, Goto, Labels
    <2>3. /\ pc'[t] = "split" /\ caller'[t] = "split" /\ pc[t] = "step"
          /\ \A u \in Thread \ {t} : SameThread(u)
      BY <1>0, <1>5 DEF PhaseTypeOK, StepGrowInProgress, Goto, At, SameThread
    <2>4. Plain(t)
      BY <1>0, <1>5, <2>3 DEF Plain, StepGrowInProgress
    <2>5. PrevInv(t)' /\ MoveInv(t)'
      BY <1>0, <1>3, <2>3 DEF PrevInv, MoveInv, At
    <2>6. /\ session'[t] = session[t] /\ phase'[t] = phase[t] /\ version'[t] = version[t]
          /\ previous_state'[t] = previous_state[t] /\ final_state'[t] = final_state[t]
      BY <1>0, <1>5 DEF StepGrowInProgress
    <2> QED
      BY <1>0, <1>1, <2>1, <2>2, <2>3, <2>4, <2>5, <2>6, OnwardStep
  <1> QED
    BY <1>4, <1>5

\* A chunk that is claimed is held by the thread that claimed it.
LEMMA GcClaimed ==
  ASSUME PhaseTypeOK, HeldInv, NEW t \in Thread, ClaimGcChunk(t),
         pc[t] \notin {"clean", "split_chunk"}, NEW n, n = gc_.next_chunk
  PROVE  /\ HeldInv'
         /\ n < NumChunks /\ n \in Nat /\ NumChunks \in Nat
         /\ gc_'.next_chunk = n + 1 /\ gc_' \in ChunkState
         /\ pc'[t] = "clean" /\ pc' \in [Thread -> Labels] /\ chunk' \in [Thread -> Chunk]
         /\ \A u \in Thread \ {t} : pc'[u] = pc[u] /\ chunk'[u] = chunk[u]
         /\ UNCHANGED <<system_state, checkpoint, grow_, resize_info>>
  <1> USE DEF ClaimGcChunk, Goto
  <1>1. n \in 0 .. NumChunks - 1 /\ NumChunks \in Nat /\ n \in Chunk
    BY BoundsAssumption DEF PhaseTypeOK, ChunkState, ChunkLeft, Chunk
  <1>2. /\ gc_'.next_chunk = n + 1 /\ gc_'.done = gc_.done /\ gc_' \in ChunkState
        /\ pc'[t] = "clean" /\ chunk'[t] = n /\ grow_' = grow_
        /\ \A u \in Thread \ {t} : pc'[u] = pc[u] /\ chunk'[u] = chunk[u]
        /\ pc' \in [Thread -> Labels] /\ chunk' \in [Thread -> Chunk]
    BY <1>1 DEF PhaseTypeOK, ChunkState, Labels
  <1>3. ASSUME NEW k \in Chunk, k < n + 1
        PROVE  k \in gc_.done \/ \E u \in Thread : At(u, "clean")' /\ chunk'[u] = k
    <2>1. CASE k = n
      BY <2>1, <1>2 DEF At
    <2>2. CASE k < n
      <3>1. k \in gc_.done \/ \E u \in Thread : At(u, "clean") /\ chunk[u] = k
        BY <2>2 DEF HeldInv
      <3> QED
        BY <3>1, <1>2 DEF At
    <2> QED
      BY <2>1, <2>2, <1>1, <1>3 DEF Chunk
  <1>4. ASSUME NEW k \in Chunk, k < grow_.next_chunk
        PROVE  k \in grow_.done \/ \E u \in Thread : At(u, "split_chunk")' /\ chunk'[u] = k
    <2>1. k \in grow_.done \/ \E u \in Thread : At(u, "split_chunk") /\ chunk[u] = k
      BY <1>4 DEF HeldInv
    <2> QED
      BY <2>1, <1>2 DEF At
  <1>5. HeldInv'
    BY <1>2, <1>3, <1>4 DEF HeldInv
  <1> QED
    BY <1>1, <1>2, <1>5

LEMMA GcRounds ==
  ASSUME PhaseInv, UNCHANGED host, NEW t \in Thread, StepGcIoPending(t) \/ StepGcInProgress(t)
  PROVE  PhaseInv'
  <1> USE DEF global, tables, checkpoint, context
  <1>0. At(t, "step") /\ pc[t] = "step" /\ PhaseTypeOK
    BY DEF PhaseInv, Step, StepGcIoPending, StepGcInProgress, At
  <1>1. PICK p : p = previous_state[t]
    OBVIOUS
  <1>2. PICK c : c = Current(t)
    OBVIOUS
  <1>3. /\ Rank[phase_finished[t]] <= Rank[p.phase] /\ Rank[phase_finished[t]] \in Int
        /\ phase_finished[t] \in Phase /\ Alive(t) /\ caller[t] = "none" /\ ~Starting
        /\ c.action \in Actions /\ c.phase \in PhasesOf(c.action)
        /\ ~Underway => phase_finished[t] = c.phase
        /\ Underway => system_state.action = c.action
    BY <1>0, <1>1, <1>2, StepFacts
  <1>4. prev_pending[t] => c.phase \in {"IN_PROGRESS", "WAIT_PENDING", "GC_IO_PENDING"}
    BY <1>0, <1>1, <1>2, PrevAtStep
  <1>5. pending \in [Thread -> BOOLEAN] /\ prev_pending \in [Thread -> BOOLEAN]
    BY <1>0 DEF PhaseTypeOK
  <1>6. c.phase \in {"GC_IO_PENDING", "GC_IN_PROGRESS"}
    BY <1>2 DEF StepGcIoPending, StepGcInProgress, Step
  <1>7. c.action = "GC"
    BY <1>3, <1>6, PhasesTable DEF Actions
  <1>8. CASE StepGcIoPending(t)
    <2>1. c.phase = "GC_IO_PENDING" /\ UNCHANGED <<global, phase, version, call>>
      BY <1>2, <1>8 DEF StepGcIoPending, Step
    <2>2. CASE Skip(t) /\ UNCHANGED <<pending, prev_pending>>
      BY <1>0, <2>1, <2>2, SkipRound
    <2>3. CASE FinishThreadPhase(t, c) /\ PrevDone(t) /\ UNCHANGED <<pending, prev_pending>>
      BY <1>0, <1>2, <1>5, <2>1, <2>3, AckRound DEF Unacknowledged, PrevDone
    <2>4. CASE FinishThreadPhase(t, c) /\ SwapContexts(t) /\ ~pending[t]
      <3>1. /\ pending' \in [Thread -> BOOLEAN] /\ prev_pending' \in [Thread -> BOOLEAN]
            /\ \A u \in Thread \ {t} : prev_pending'[u] = prev_pending[u]
            /\ ~prev_pending'[t]
        BY <1>5, <2>4 DEF SwapContexts
      <3> QED
        BY <1>0, <1>2, <2>1, <2>4, <3>1, AckRound DEF Unacknowledged
    <2>5. CASE Skip(t) /\ SwapContexts(t) /\ From(t, "REST")
      <3>1. /\ pending' \in [Thread -> BOOLEAN] /\ prev_pending' \in [Thread -> BOOLEAN]
            /\ \A u \in Thread \ {t} : prev_pending'[u] = prev_pending[u]
        BY <1>5, <2>5 DEF SwapContexts
      <3>2. PhaseTypeOK'
        BY <1>0, <2>1, <2>5, <3>1 DEF PhaseTypeOK, Labels, Skip, Goto, call
      <3>3. pc'[t] = "tail" /\ \A u \in Thread \ {t} : SameThread(u)
        BY <1>0, <2>1, <2>5, <3>1 DEF PhaseTypeOK, Skip, Goto, call, SameThread
      <3>4. Plain(t)
        BY <1>0, <2>1, <2>5, <3>3 DEF Plain, Skip, call
      <3>5. phase_finished[t] = "REST"
        BY <1>1, <1>3, <2>5, RankFacts, RankTable DEF From
      <3>6. Underway /\ system_state.action = "GC"
        BY <1>3, <1>7, <2>1, <3>5
      <3>7. PrevInv(t)'
        BY <2>1, <2>5, <3>3, <3>5, <3>6 DEF PrevInv, Underway, At, Skip
      <3> QED
        BY <1>0, <2>1, <3>2, <3>3, <3>4, <3>7, SkipStep DEF call
    <2> QED
      BY <1>2, <1>8, <2>2, <2>3, <2>4, <2>5 DEF StepGcIoPending
  <1>9. CASE StepGcInProgress(t)
    <2>1. /\ c.phase = "GC_IN_PROGRESS" /\ ~prev_pending[t]
          /\ UNCHANGED <<session, context, op, caller, previous_state, final_state>>
      BY <1>2, <1>4, <1>9 DEF StepGcInProgress, Step
    <2>2. CASE Skip(t) /\ UNCHANGED <<global, chunk>>
      BY <1>0, <2>1, <2>2, SkipRound DEF call
    <2>3. CASE FinishThreadPhase(t, c) /\ ~ChunkLeft(gc_) /\ UNCHANGED <<global, chunk>>
      <3>1. gc_.next_chunk = NumChunks
        BY <1>0, <2>3, BoundsAssumption DEF PhaseTypeOK, ChunkState, ChunkLeft
      <3> QED
        BY <1>0, <1>2, <1>5, <2>1, <2>3, <3>1, AckRound DEF Unacknowledged, call
    <2>4. CASE /\ ~HasThreadFinishedPhase(t) /\ ClaimGcChunk(t)
               /\ UNCHANGED <<phase_finished, moving, idx>>
      <3>0. PICK n : n = gc_.next_chunk
        OBVIOUS
      <3>1. HeldInv /\ CheckpointInv /\ OwnInv(t)
        BY DEF PhaseInv, ThreadInv, OwnInv
      <3>2. /\ HeldInv'
            /\ n < NumChunks /\ n \in Nat /\ NumChunks \in Nat
            /\ gc_'.next_chunk = n + 1 /\ gc_' \in ChunkState
            /\ pc'[t] = "clean" /\ pc' \in [Thread -> Labels] /\ chunk' \in [Thread -> Chunk]
            /\ \A u \in Thread \ {t} : pc'[u] = pc[u] /\ chunk'[u] = chunk[u]
            /\ UNCHANGED <<system_state, checkpoint, grow_, resize_info>>
        BY <1>0, <2>4, <3>0, <3>1, GcClaimed
      <3>3. PhaseTypeOK'
        BY <1>0, <2>1, <2>4, <3>2 DEF PhaseTypeOK
      <3>4. \A u \in Thread \ {t} : SameThread(u)
        BY <1>0, <2>1, <2>4, <3>2 DEF SameThread
      <3>5. phase_finished[t] # "GC_IN_PROGRESS" /\ phase_finished'[t] = phase_finished[t]
        BY <1>2, <2>1, <2>4 DEF HasThreadFinishedPhase
      <3>6. Underway /\ system_state.action = "GC"
        BY <1>3, <1>7, <2>1, <3>5
      <3>7. Local(t)
        BY <1>0, <2>1, <3>0, <3>2, <3>4, <3>5 DEF Local, ChunksGrow
      <3>8. (Starting' <=> Starting) /\ (Underway' <=> Underway) /\ (Alive(t)' <=> Alive(t))
            /\ Current(t)' = Current(t) /\ system_state' = system_state
        BY <1>0, <2>1, <3>2, <3>4, StartingStays DEF SameThread, Underway, Alive, Current
      <3>10. ControlInv(t)' /\ AckInv(t)' /\ VersionInv(t)' /\ OutsideInv(t)' /\ HeavyInv(t)'
             /\ MoveInv(t)' /\ PrevInv(t)'
        <4>1. ControlInv(t)'
          BY <1>3, <2>1, <3>2, <3>8 DEF ControlInv, At, Outside
        <4>2. AckInv(t)' /\ VersionInv(t)'
          BY <2>1, <3>5, <3>8, <3>1 DEF OwnInv, AckInv, VersionInv
        <4>3. OutsideInv(t)' /\ HeavyInv(t)' /\ MoveInv(t)' /\ PrevInv(t)'
          BY <1>3, <2>1, <3>2 DEF OutsideInv, HeavyInv, MoveInv, PrevInv, Outside, At
        <4> QED
          BY <4>1, <4>2, <4>3
      <3>11. LoopInv(t)'
        BY <1>0, <1>3, <2>1, <3>2, <3>5, <3>8, <3>1 DEF OwnInv, LoopInv, Outside, At
      <3>12. ChunkInv(t)'
        BY <3>2, <3>5, <3>6, <3>8, <3>1 DEF OwnInv, ChunkInv, At
      <3>14. CheckpointInv'
        <4>2. \A u \in Thread : Alive(u)' => Alive(u) /\ phase_finished'[u] = phase_finished[u]
          BY <2>1, <2>4 DEF Alive
        <4> QED
          BY <4>2, <3>1, <3>2, <3>8, CheckpointStays
      <3> QED
        BY <3>3, <3>7, <3>10, <3>11, <3>12, <3>2, <3>14, LocalStep DEF OwnInv
    <2> QED
      BY <1>2, <1>9, <2>2, <2>3, <2>4 DEF StepGcInProgress
  <1> QED
    BY <1>8, <1>9

-----------------------------------------------------------------------------
(***************************************************************************)
(* Work on chunks, and what comes after an acknowledgement.                *)
(***************************************************************************)
LEMMA RestInStates == Rest \in StateSet
BY PhaseSet DEF Rest, SystemState, StateSet

\* Where a thread goes on after work on chunks, a wait or a move.
LEMMA ResumeStep ==
  ASSUME PhaseInv, NEW t \in Thread, Local(t), PhaseTypeOK', HeldInv', CheckpointInv', Resume(t),
         pc[t] \in {"clean", "spin", "move", "moved"},
         session'[t] = session[t], phase'[t] = phase[t], version'[t] = version[t],
         phase_finished'[t] = phase_finished[t], prev_pending'[t] = prev_pending[t],
         caller[t] = "heavy" /\ pc[t] # "clean" => ~Underway
  PROVE  PhaseInv'
  <1>0. /\ OwnInv(t) /\ PhaseTypeOK /\ system_state' = system_state /\ ChunksGrow
    BY DEF PhaseInv, ThreadInv, OwnInv, Local
  <1>1. (Starting' <=> Starting) /\ (Underway' <=> Underway) /\ (Alive(t)' <=> Alive(t))
    BY StartingStays DEF Local, SameThread, Underway, Alive
  <1>2. Alive(t) /\ ~Starting
    BY <1>0 DEF OwnInv, ControlInv, At
  <1>3. AckInv(t)' /\ VersionInv(t)'
    BY <1>0, <1>1 DEF OwnInv, AckInv, VersionInv
  <1>4. CASE caller[t] = "heavy"
    <2>1. pc'[t] = "idle" /\ caller'[t] = "none"
      BY <1>0, <1>4 DEF Resume, Return, Goto, PhaseTypeOK
    <2>2. ControlInv(t)'
      BY <1>1, <1>2, <2>1 DEF ControlInv, At, Outside
    <2>3. OutsideInv(t)'
      <3>1. CASE pc[t] = "clean"
        BY <3>1, <1>0, <1>1, <1>2, <1>4 DEF OwnInv, OutsideInv
      <3>2. CASE pc[t] # "clean"
        <4>1. phase[t] = "REST" /\ ~Underway
          BY <3>2, <1>0, <1>2, <1>4 DEF OwnInv, HeavyInv
        <4> QED
          BY <4>1, <1>1 DEF OutsideInv
      <3> QED
        BY <3>1, <3>2
    <2>4. LoopInv(t)' /\ HeavyInv(t)' /\ MoveInv(t)'
      BY <2>1 DEF LoopInv, HeavyInv, MoveInv, Outside, At
    <2>5. ChunkInv(t)' /\ PrevInv(t)'
      BY <1>0, <1>1, <2>1 DEF OwnInv, ChunkInv, PrevInv, At, ChunksGrow
    <2> QED
      BY <1>3, <2>2, <2>3, <2>4, <2>5, LocalStep DEF OwnInv
  <1>5. CASE caller[t] # "heavy"
    <2>1. /\ pc'[t] = "tail" /\ caller'[t] = caller[t] /\ previous_state'[t] = previous_state[t]
          /\ final_state'[t] = final_state[t]
      BY <1>0, <1>5 DEF Resume, Goto, PhaseTypeOK, locals
    <2>2. Current(t)' = Current(t)
      BY <2>1 DEF Current
    <2>3. ControlInv(t)'
      BY <1>1, <1>2, <1>5, <2>1 DEF ControlInv, At, Outside
    <2>4. OutsideInv(t)' /\ HeavyInv(t)' /\ MoveInv(t)'
      BY <1>5, <2>1 DEF OutsideInv, HeavyInv, MoveInv, Outside, At
    <2>5. LoopInv(t)'
      <3>1. caller[t] = "split" => pc[t] \notin {"split", "split_chunk"}
        OBVIOUS
      <3> QED
        BY <3>1, <1>0, <1>1, <1>2, <1>5, <2>1, <2>2 DEF OwnInv, LoopInv, Outside, At
    <2>6. ChunkInv(t)' /\ PrevInv(t)'
      BY <1>0, <1>1, <2>1 DEF OwnInv, ChunkInv, PrevInv, At, ChunksGrow
    <2> QED
      BY <1>3, <2>3, <2>4, <2>5, <2>6, LocalStep DEF OwnInv
  <1> QED
    BY <1>4, <1>5

LEMMA ResumeTypes ==
  ASSUME NEW t \in Thread, PhaseTypeOK, Resume(t)
  PROVE  /\ pc' \in [Thread -> Labels] /\ caller' \in [Thread -> {"none", "heavy", "split"}]
         /\ previous_state' \in [Thread -> StateSet] /\ final_state' \in [Thread -> StateSet]
         /\ moving' \in [Thread -> StateSet] /\ idx' \in [Thread -> 0 .. NumThreads]
         /\ chunk' \in [Thread -> Chunk] /\ op' \in [Thread -> {0, 1, NoTable}]
         /\ pc'[t] \in {"idle", "tail"}
         /\ \A u \in Thread \ {t} :
              /\ op'[u] = op[u] /\ pc'[u] = pc[u] /\ caller'[u] = caller[u]
              /\ previous_state'[u] = previous_state[u] /\ final_state'[u] = final_state[u]
              /\ moving'[u] = moving[u] /\ idx'[u] = idx[u] /\ chunk'[u] = chunk[u]
  <1>0. Rest \in StateSet /\ 0 \in 0 .. NumThreads /\ 0 \in Chunk
        /\ {"idle", "tail"} \subseteq Labels
    BY RestInStates, BoundsAssumption DEF Chunk, Labels
  <1>1. CASE Return(t) /\ BeginOp(t)
    BY <1>0, <1>1 DEF Return, BeginOp, Goto, PhaseTypeOK
  <1>2. CASE Goto(t, "tail") /\ UNCHANGED <<op, locals>>
    BY <1>0, <1>2 DEF Goto, PhaseTypeOK, locals
  <1> QED
    BY <1>1, <1>2 DEF Resume

\* A thread that splits the table's chunks is in the last phase of a growth,
\* which is not over before the thread has acknowledged it.
LEMMA SplitFacts ==
  ASSUME PhaseInv, NEW t \in Thread, pc[t] \in {"split", "split_chunk"}
  PROVE  /\ Alive(t) /\ ~Starting /\ caller[t] \in {"heavy", "split"}
         /\ ~Underway => phase_finished[t] = "GROW_IN_PROGRESS"
         /\ Underway => /\ system_state.action = "GrowIndex"
                        /\ system_state.phase = "GROW_IN_PROGRESS"
         /\ ~prev_pending[t] /\ Shifted(phase[t]) = 0
         /\ caller[t] = "split" => /\ Current(t) = SystemState("GrowIndex", "GROW_IN_PROGRESS", version[t])
                                   /\ phase[t] \in PhasesOf("GrowIndex")
  <1>0. /\ OwnInv(t) /\ SystemInv /\ PhaseTypeOK
    BY DEF PhaseInv, ThreadInv, OwnInv
  <1>1. Alive(t) /\ ~Starting /\ caller[t] \in {"heavy", "split"}
    BY <1>0 DEF OwnInv, ControlInv, At, PhaseTypeOK
  <1>2. /\ system_state \in StateSet /\ system_state.phase \in Phase
        /\ Rank[system_state.phase] \in Int
        /\ Underway => /\ system_state.action \in Actions
                       /\ system_state.phase \in PhasesOf(system_state.action)
    <2>1. system_state \in StateSet
      BY <1>0 DEF PhaseTypeOK
    <2>2. system_state.phase \in Phase /\ system_state.action \in Actions \cup {"None"}
      BY <2>1, StateFields
    <2> QED
      BY <1>0, <2>1, <2>2, RankFacts DEF SystemInv
  <1>3. CASE caller[t] = "heavy"
    <2>1. phase[t] = "GROW_IN_PROGRESS"
      BY <1>0, <1>1, <1>3 DEF OwnInv, HeavyInv
    <2>2. CASE ~Underway
      <3>1. phase_finished[t] = "GROW_IN_PROGRESS" /\ ~prev_pending[t]
        BY <1>0, <1>1, <1>3, <2>1, <2>2 DEF OwnInv, OutsideInv, PrevInv
      <3> QED
        BY <1>1, <1>3, <2>1, <2>2, <3>1 DEF Shifted
    <2>3. CASE Underway
      <3>1. phase[t] \in PhasesOf(system_state.action) /\ Rank[phase[t]] <= Rank[system_state.phase]
        BY <1>0, <1>1, <1>3, <2>3 DEF OwnInv, OutsideInv
      <3>2. system_state.action = "GrowIndex"
        BY <1>2, <2>1, <2>3, <3>1, PhasesTable DEF Actions
      <3>3. system_state.phase = "GROW_IN_PROGRESS"
        BY <1>2, <2>1, <2>3, <3>1, <3>2, PhasesTable, RankTable
      <3>4. ~prev_pending[t]
        BY <1>0, <3>2 DEF OwnInv, PrevInv, LogCheckpoints
      <3> QED
        BY <1>1, <1>3, <2>1, <2>3, <3>2, <3>3, <3>4 DEF Shifted
    <2> QED
      BY <2>2, <2>3
  <1>4. CASE caller[t] = "split"
    <2>1. PICK p : p = previous_state[t]
      OBVIOUS
    <2>2. PICK f : f = final_state[t]
      OBVIOUS
    <2>3. PICK c : c = Current(t)
      OBVIOUS
    <2>4. pc[t] \notin Outside /\ caller[t] # "heavy"
      BY <1>4 DEF Outside
    <2>5. /\ p \in StateSet /\ f.action \in Actions /\ p.action = f.action
          /\ p.phase \in PhasesOf(f.action) /\ p.phase \in Phase
          /\ c \in StateSet /\ c.action = f.action /\ c.phase \in PhasesOf(f.action)
          /\ Base(c) = Base(f) /\ Base(p) = Base(f)
          /\ Rank[c.phase] \in Int
          /\ ~Underway => phase_finished[t] = c.phase
          /\ Underway => /\ system_state.action = c.action
                         /\ Rank[c.phase] <= Rank[system_state.phase]
          /\ version[t] = p.version
      BY <1>1, <2>1, <2>2, <2>3, <2>4, CurrentFacts
    <2>6. c.phase = "GROW_IN_PROGRESS" /\ phase[t] = p.phase
      BY <1>0, <1>1, <1>4, <2>1, <2>3, <2>4 DEF OwnInv, LoopInv
    <2>7. f.action = "GrowIndex"
      BY <2>5, <2>6, PhasesTable DEF Actions
    <2>8. Shifted(p.phase) = 0 /\ Shifted(c.phase) = 0
      BY <2>5, <2>6, <2>7, PhasesTable DEF Shifted
    <2>9. c.version = p.version
      <3>1. c.version \in Int /\ p.version \in Int
        BY <2>5, StateFields
      <3> QED
        BY <2>5, <2>8, <3>1 DEF Base
    <2>10. c = SystemState("GrowIndex", "GROW_IN_PROGRESS", version[t])
      BY <2>5, <2>6, <2>7, <2>9 DEF StateSet, SystemState
    <2>11. Underway => system_state.phase = "GROW_IN_PROGRESS"
      BY <1>2, <2>5, <2>6, <2>7, PhasesTable, RankTable
    <2>12. ~prev_pending[t]
      BY <1>0, <2>5, <2>7 DEF OwnInv, PrevInv, LogCheckpoints
    <2> QED
      BY <1>1, <1>4, <2>3, <2>5, <2>6, <2>7, <2>8, <2>10, <2>11, <2>12
  <1> QED
    BY <1>1, <1>3, <1>4


LEMMA EnterGcStep ==
  ASSUME PhaseInv, UNCHANGED host, NEW t \in Thread, EnterGc(t)
  PROVE  PhaseInv'
  <1> USE DEF context
  <1>0. /\ PhaseTypeOK /\ HeldInv /\ CheckpointInv /\ OwnInv(t) /\ SystemInv
        /\ pc[t] = "idle" /\ Alive(t) /\ phase[t] \in {"GC_IO_PENDING", "GC_IN_PROGRESS"}
        /\ ClaimGcChunk(t)
        /\ UNCHANGED <<session, phase, version, pending, prev_pending, phase_finished, op,
                       previous_state, final_state, moving, idx>>
        /\ system_state \in StateSet
    BY DEF PhaseInv, ThreadInv, OwnInv, EnterGc, Free, Running, At, Alive, PhaseTypeOK
  <1>1. PICK n : n = gc_.next_chunk
    OBVIOUS
  <1>2. /\ HeldInv'
        /\ n < NumChunks /\ n \in Nat /\ NumChunks \in Nat
        /\ gc_'.next_chunk = n + 1 /\ gc_' \in ChunkState
        /\ pc'[t] = "clean" /\ pc' \in [Thread -> Labels] /\ chunk' \in [Thread -> Chunk]
        /\ \A u \in Thread \ {t} : pc'[u] = pc[u] /\ chunk'[u] = chunk[u]
        /\ UNCHANGED <<system_state, checkpoint, grow_, resize_info>>
    BY <1>0, <1>1, GcClaimed
  <1>3. /\ caller'[t] = "heavy" /\ caller' \in [Thread -> {"none", "heavy", "split"}]
        /\ \A u \in Thread \ {t} : caller'[u] = caller[u]
    BY <1>0 DEF EnterGc, PhaseTypeOK
  <1>4. PhaseTypeOK'
    BY <1>0, <1>2, <1>3 DEF PhaseTypeOK, checkpoint
  <1>5. \A u \in Thread \ {t} : SameThread(u)
    BY <1>0, <1>2, <1>3 DEF SameThread
  <1>6. phase_finished[t] # "GC_IN_PROGRESS"
    BY <1>0, <1>1, <1>2 DEF OwnInv, ChunkInv
  <1>7. Underway
    <2> SUFFICES ASSUME ~Underway PROVE FALSE
      OBVIOUS
    <2>1. phase[t] \in LastPhases /\ phase_finished[t] = phase[t]
      BY <1>0 DEF OwnInv, OutsideInv, Outside
    <2>2. phase[t] = "GC_IN_PROGRESS"
      BY <1>0, <2>1, LastTable
    <2> QED
      BY <1>6, <2>1, <2>2
  <1>8. system_state.action = "GC"
    <2>1. phase[t] \in PhasesOf(system_state.action)
      BY <1>0, <1>7 DEF OwnInv, OutsideInv, Outside
    <2>2. system_state.action \in Actions
      BY <1>0, <1>7, StateFields DEF SystemInv
    <2> QED
      BY <1>0, <2>1, <2>2, PhasesTable DEF Actions
  <1>9. /\ (Starting' <=> Starting) /\ (Underway' <=> Underway) /\ (Alive(t)' <=> Alive(t))
        /\ ~Starting
    BY <1>0, <1>2, <1>5, <1>7, StartingStays DEF SameThread, Underway, Alive, SystemInv
  <1>10. Local(t)
    BY <1>0, <1>1, <1>2, <1>5 DEF Local, ChunksGrow, checkpoint
  <1>11. ControlInv(t)'
    BY <1>0, <1>2, <1>3, <1>9 DEF ControlInv, At, Outside
  <1>12. AckInv(t)' /\ VersionInv(t)'
    BY <1>0, <1>2, <1>9 DEF OwnInv, AckInv, VersionInv
  <1>13. OutsideInv(t)'
    BY <1>0, <1>2, <1>7, <1>9 DEF OwnInv, OutsideInv, Outside
  <1>14. LoopInv(t)' /\ HeavyInv(t)' /\ MoveInv(t)'
    BY <1>2, <1>3 DEF LoopInv, HeavyInv, MoveInv, At
  <1>15. ChunkInv(t)'
    BY <1>0, <1>2, <1>6, <1>7, <1>8, <1>9 DEF OwnInv, ChunkInv, At
  <1>16. PrevInv(t)'
    BY <1>0, <1>2, <1>7, <1>9 DEF OwnInv, PrevInv, At
  <1>17. CheckpointInv'
    <2>1. \A u \in Thread : Alive(u)' => Alive(u) /\ phase_finished'[u] = phase_finished[u]
      BY <1>0 DEF Alive
    <2> QED
      BY <2>1, <1>0, <1>2, <1>9, CheckpointStays
  <1> QED
    BY <1>2, <1>4, <1>10, <1>11, <1>12, <1>13, <1>14, <1>15, <1>16, <1>17, LocalStep DEF OwnInv

LEMMA EnterGrowStep ==
  ASSUME PhaseInv, UNCHANGED host, NEW t \in Thread, EnterGrow(t)
  PROVE  PhaseInv'
  <1> USE DEF context, global, tables, checkpoint, Goto
  <1>0. /\ PhaseTypeOK /\ OwnInv(t) /\ SystemInv
        /\ pc[t] = "idle" /\ Alive(t) /\ phase[t] = "GROW_IN_PROGRESS"
        /\ UNCHANGED <<global, session, phase, version, pending, prev_pending, phase_finished, op,
                       previous_state, final_state, moving, idx, chunk>>
    BY DEF PhaseInv, ThreadInv, OwnInv, EnterGrow, Free, Running, At, Alive
  <1>1. PhaseTypeOK'
    BY <1>0 DEF PhaseTypeOK, EnterGrow, Labels
  <1>2. /\ pc'[t] = "split" /\ caller'[t] = "heavy"
        /\ \A u \in Thread \ {t} : SameThread(u)
    BY <1>0 DEF PhaseTypeOK, EnterGrow, SameThread
  <1>3. Plain(t)
    BY <1>0, <1>2 DEF Plain
  <1>4. /\ (Starting' <=> Starting) /\ (Underway' <=> Underway) /\ (Alive(t)' <=> Alive(t))
        /\ ~Starting
    BY <1>0, <1>2, StartingStays DEF SameThread, Underway, Alive, OwnInv, ControlInv
  <1>5. ControlInv(t)'
    BY <1>0, <1>2, <1>4 DEF ControlInv, At, Outside
  <1>6. AckInv(t)' /\ VersionInv(t)'
    BY <1>0, <1>4 DEF OwnInv, AckInv, VersionInv
  <1>7. OutsideInv(t)'
    BY <1>0, <1>4 DEF OwnInv, OutsideInv, Outside
  <1>8. LoopInv(t)' /\ HeavyInv(t)' /\ MoveInv(t)'
    BY <1>0, <1>2 DEF LoopInv, HeavyInv, MoveInv, At
  <1>9. ChunkInv(t)' /\ PrevInv(t)'
    BY <1>0, <1>2, <1>4 DEF OwnInv, ChunkInv, PrevInv, At
  <1> QED
    BY <1>1, <1>3, <1>5, <1>6, <1>7, <1>8, <1>9, PlainStep DEF OwnInv

LEMMA Cleaning ==
  ASSUME PhaseInv, UNCHANGED host, NEW t \in Thread, CleanHashTableBuckets(t)
  PROVE  PhaseInv'
  <1> USE DEF context, checkpoint
  <1>0. /\ PhaseTypeOK /\ HeldInv /\ CheckpointInv /\ OwnInv(t) /\ pc[t] = "clean" /\ Resume(t)
        /\ UNCHANGED <<system_state, checkpoint, grow_, resize_info, session, phase, version,
                       pending, prev_pending, phase_finished>>
    BY DEF PhaseInv, ThreadInv, OwnInv, CleanHashTableBuckets, At
  <1>1. /\ pc' \in [Thread -> Labels] /\ caller' \in [Thread -> {"none", "heavy", "split"}]
        /\ previous_state' \in [Thread -> StateSet] /\ final_state' \in [Thread -> StateSet]
        /\ moving' \in [Thread -> StateSet] /\ idx' \in [Thread -> 0 .. NumThreads]
        /\ chunk' \in [Thread -> Chunk] /\ op' \in [Thread -> {0, 1, NoTable}]
        /\ pc'[t] \in {"idle", "tail"}
        /\ \A u \in Thread \ {t} :
             /\ op'[u] = op[u] /\ pc'[u] = pc[u] /\ caller'[u] = caller[u]
             /\ previous_state'[u] = previous_state[u] /\ final_state'[u] = final_state[u]
             /\ moving'[u] = moving[u] /\ idx'[u] = idx[u] /\ chunk'[u] = chunk[u]
    BY <1>0, ResumeTypes
  <1>2. PICK k : k = chunk[t]
    OBVIOUS
  <1>3. /\ gc_' \in ChunkState /\ gc_'.next_chunk = gc_.next_chunk
        /\ gc_'.done = gc_.done \cup {k}
    BY <1>0, <1>2 DEF PhaseTypeOK, ChunkState, CleanHashTableBuckets
  <1>4. PhaseTypeOK'
    BY <1>0, <1>1, <1>3 DEF PhaseTypeOK
  <1>5. \A u \in Thread \ {t} : SameThread(u)
    BY <1>0, <1>1 DEF SameThread
  <1>6. Local(t)
    BY <1>0, <1>1, <1>3, <1>5 DEF Local, ChunksGrow
  <1>7. HeldInv'
    <2>1. ASSUME NEW i \in Chunk, i < gc_.next_chunk
          PROVE  i \in gc_'.done \/ \E u \in Thread : At(u, "clean")' /\ chunk'[u] = i
      <3>1. i \in gc_.done \/ \E u \in Thread : At(u, "clean") /\ chunk[u] = i
        BY <1>0, <2>1 DEF HeldInv
      <3> QED
        BY <3>1, <1>1, <1>2, <1>3 DEF At
    <2>2. ASSUME NEW i \in Chunk, i < grow_.next_chunk
          PROVE  i \in grow_.done \/ \E u \in Thread : At(u, "split_chunk")' /\ chunk'[u] = i
      <3>1. i \in grow_.done \/ \E u \in Thread : At(u, "split_chunk") /\ chunk[u] = i
        BY <1>0, <2>2 DEF HeldInv
      <3> QED
        BY <3>1, <1>0, <1>1 DEF At
    <2> QED
      BY <2>1, <2>2, <1>0, <1>3 DEF HeldInv
  <1>8. CheckpointInv'
    <2>1. Starting' <=> Starting
      BY <1>0, <1>1, StartingStays
    <2>2. \A u \in Thread : Alive(u)' => Alive(u) /\ phase_finished'[u] = phase_finished[u]
      BY <1>0 DEF Alive
    <2> QED
      BY <2>1, <2>2, <1>0, CheckpointStays
  <1> QED
    BY <1>0, <1>4, <1>6, <1>7, <1>8, ResumeStep


LEMMA SplitClaimStep ==
  ASSUME PhaseInv, UNCHANGED host, NEW t \in Thread, SplitClaim(t) \/ SplitChunk(t)
  PROVE  PhaseInv'
  <1> USE DEF context, checkpoint, Goto
  <1>0. /\ PhaseTypeOK /\ HeldInv /\ CheckpointInv /\ OwnInv(t) /\ pc[t] \in {"split", "split_chunk"}
        /\ UNCHANGED <<system_state, checkpoint, gc_, resize_info, session, phase, version,
                       pending, prev_pending, phase_finished, op, caller, previous_state,
                       final_state, moving, idx>>
    BY DEF PhaseInv, ThreadInv, OwnInv, SplitClaim, SplitChunk, At, locals
  <1>1. /\ Alive(t) /\ ~Starting /\ caller[t] \in {"heavy", "split"}
        /\ ~Underway => phase_finished[t] = "GROW_IN_PROGRESS"
        /\ Underway => /\ system_state.action = "GrowIndex"
                       /\ system_state.phase = "GROW_IN_PROGRESS"
    BY <1>0, SplitFacts
  <1>2. PICK n : n = grow_.next_chunk
    OBVIOUS
  <1>3. n \in 0 .. NumChunks /\ NumChunks \in Nat
    BY <1>0, <1>2, BoundsAssumption DEF PhaseTypeOK, ChunkState
  <1>4. /\ grow_' \in ChunkState /\ pc' \in [Thread -> Labels] /\ chunk' \in [Thread -> Chunk]
        /\ n = NumChunks => grow_'.next_chunk = NumChunks
        /\ pc'[t] \in {"split", "split_chunk"}
        /\ \A u \in Thread \ {t} : pc'[u] = pc[u] /\ chunk'[u] = chunk[u]
        /\ pc'[t] = "split_chunk" => n < NumChunks
        /\ HeldInv'
    <2>1. CASE SplitClaim(t)
      <3>1. n < NumChunks /\ n \in Chunk
        BY <1>2, <1>3, <2>1 DEF SplitClaim, ChunkLeft, Chunk
      <3>2. /\ grow_'.next_chunk = n + 1 /\ grow_'.done = grow_.done /\ grow_' \in ChunkState
            /\ pc'[t] = "split_chunk" /\ chunk'[t] = n /\ pc[t] = "split"
            /\ \A u \in Thread \ {t} : pc'[u] = pc[u] /\ chunk'[u] = chunk[u]
            /\ pc' \in [Thread -> Labels] /\ chunk' \in [Thread -> Chunk]
        BY <1>0, <1>2, <1>3, <2>1, <3>1 DEF PhaseTypeOK, ChunkState, SplitClaim, At, Labels
      <3>3. ASSUME NEW k \in Chunk, k < n + 1
            PROVE  k \in grow_.done \/ \E u \in Thread : At(u, "split_chunk")' /\ chunk'[u] = k
        <4>1. CASE k = n
          BY <4>1, <3>2 DEF At
        <4>2. CASE k < n
          <5>1. k \in grow_.done \/ \E u \in Thread : At(u, "split_chunk") /\ chunk[u] = k
            BY <4>2, <1>0, <1>2 DEF HeldInv
          <5> QED
            BY <5>1, <3>2 DEF At
        <4> QED
          BY <4>1, <4>2, <1>3, <3>3 DEF Chunk
      <3>4. ASSUME NEW k \in Chunk, k < gc_.next_chunk
            PROVE  k \in gc_.done \/ \E u \in Thread : At(u, "clean")' /\ chunk'[u] = k
        <4>1. k \in gc_.done \/ \E u \in Thread : At(u, "clean") /\ chunk[u] = k
          BY <1>0, <3>4 DEF HeldInv
        <4> QED
          BY <4>1, <3>2 DEF At
      <3>5. HeldInv'
        BY <1>0, <3>2, <3>3, <3>4 DEF HeldInv
      <3> QED
        BY <1>3, <3>1, <3>2, <3>5
    <2>2. CASE SplitChunk(t)
      <3>1. PICK k : k = chunk[t]
        OBVIOUS
      <3>2. /\ grow_'.next_chunk = n /\ grow_'.done = grow_.done \cup {k} /\ grow_' \in ChunkState
            /\ pc'[t] = "split" /\ chunk' = chunk /\ pc[t] = "split_chunk"
            /\ \A u \in Thread \ {t} : pc'[u] = pc[u]
            /\ pc' \in [Thread -> Labels] /\ chunk' \in [Thread -> Chunk]
        BY <1>0, <1>2, <2>2, <3>1 DEF PhaseTypeOK, ChunkState, SplitChunk, At, Labels, locals
      <3>3. ASSUME NEW i \in Chunk, i < n
            PROVE  i \in grow_'.done \/ \E u \in Thread : At(u, "split_chunk")' /\ chunk'[u] = i
        <4>1. i \in grow_.done \/ \E u \in Thread : At(u, "split_chunk") /\ chunk[u] = i
          BY <1>0, <1>2, <3>3 DEF HeldInv
        <4> QED
          BY <4>1, <3>1, <3>2 DEF At
      <3>4. ASSUME NEW i \in Chunk, i < gc_.next_chunk
            PROVE  i \in gc_.done \/ \E u \in Thread : At(u, "clean")' /\ chunk'[u] = i
        <4>1. i \in gc_.done \/ \E u \in Thread : At(u, "clean") /\ chunk[u] = i
          BY <1>0, <3>4 DEF HeldInv
        <4> QED
          BY <4>1, <3>2 DEF At
      <3>5. HeldInv'
        BY <1>0, <3>2, <3>3, <3>4 DEF HeldInv
      <3> QED
        BY <3>2, <3>5
    <2> QED
      BY <2>1, <2>2
  <1>5. PhaseTypeOK'
    BY <1>0, <1>4 DEF PhaseTypeOK
  <1>6. \A u \in Thread \ {t} : SameThread(u)
    BY <1>0, <1>4 DEF SameThread
  <1>7. Local(t)
    BY <1>0, <1>2, <1>4, <1>6 DEF Local, ChunksGrow
  <1>8. /\ (Starting' <=> Starting) /\ (Underway' <=> Underway) /\ (Alive(t)' <=> Alive(t))
        /\ Current(t)' = Current(t)
    BY <1>0, <1>4, StartingStays DEF Underway, Alive, Current
  <1>9. CheckpointInv'
    <2>1. \A u \in Thread : Alive(u)' => Alive(u) /\ phase_finished'[u] = phase_finished[u]
      BY <1>0 DEF Alive
    <2> QED
      BY <2>1, <1>0, <1>8, CheckpointStays
  <1>10. ControlInv(t)'
    BY <1>0, <1>1, <1>4, <1>8 DEF ControlInv, At, Outside
  <1>11. AckInv(t)' /\ VersionInv(t)'
    BY <1>0, <1>8 DEF OwnInv, AckInv, VersionInv
  <1>12. OutsideInv(t)'
    BY <1>0, <1>4, <1>8 DEF OwnInv, OutsideInv, Outside
  <1>13. LoopInv(t)'
    <2>1. CASE caller[t] = "heavy"
      BY <2>1, <1>0 DEF LoopInv
    <2>2. CASE caller[t] = "split"
      BY <2>2, <1>0, <1>1, <1>4, <1>8 DEF OwnInv, LoopInv, Outside, At
    <2> QED
      BY <2>1, <2>2, <1>1
  <1>14. HeavyInv(t)' /\ MoveInv(t)'
    BY <1>0, <1>4, <1>8 DEF OwnInv, HeavyInv, MoveInv, At
  <1>15. ChunkInv(t)'
    <2>1. pc'[t] = "split_chunk" => phase_finished[t] # "GROW_IN_PROGRESS"
      BY <1>0, <1>2, <1>3, <1>4 DEF OwnInv, ChunkInv
    <2> QED
      BY <2>1, <1>0, <1>1, <1>2, <1>4, <1>8 DEF OwnInv, ChunkInv, At
  <1>16. PrevInv(t)'
    BY <1>0, <1>8 DEF OwnInv, PrevInv, At
  <1> QED
    BY <1>4, <1>5, <1>7, <1>9, <1>10, <1>11, <1>12, <1>13, <1>14, <1>15, <1>16, LocalStep
    DEF OwnInv

LEMMA SplitDoneStep ==
  ASSUME PhaseInv, UNCHANGED host, NEW t \in Thread, SplitDone(t)
  PROVE  PhaseInv'
  <1> USE DEF global, tables, checkpoint, call, Goto
  <1>0. /\ PhaseTypeOK /\ HeldInv /\ CheckpointInv /\ OwnInv(t) /\ pc[t] = "split" /\ SystemInv
        /\ UNCHANGED <<global, version, pending, prev_pending, call>>
        /\ 1 \in 0 .. NumThreads
    BY BoundsAssumption DEF PhaseInv, ThreadInv, OwnInv, SplitDone, At
  <1>1. PICK m : m = SystemState("GrowIndex", "GROW_IN_PROGRESS", version[t])
    OBVIOUS
  <1>2. m \in StateSet /\ m.action = "GrowIndex" /\ m.phase = "GROW_IN_PROGRESS"
        /\ m.version = version[t] /\ {"REST", "GROW_IN_PROGRESS"} \subseteq Phase
    BY <1>0, <1>1, PhaseSet DEF SystemState, StateSet, Actions, PhaseTypeOK
  <1>3. /\ Alive(t) /\ ~Starting /\ caller[t] \in {"heavy", "split"}
        /\ ~Underway => phase_finished[t] = "GROW_IN_PROGRESS"
        /\ Underway => /\ system_state.action = "GrowIndex"
                       /\ system_state.phase = "GROW_IN_PROGRESS"
        /\ ~prev_pending[t] /\ Shifted(phase[t]) = 0
        /\ caller[t] = "split" => Current(t) = m
    BY <1>0, <1>1, SplitFacts
  <1>4. grow_.next_chunk = NumChunks
    BY <1>0, BoundsAssumption DEF SplitDone, ChunkLeft, PhaseTypeOK, ChunkState
  <1>5. FinishThreadPhase(t, m) /\ phase' = [phase EXCEPT ![t] = "REST"]
    BY <1>1 DEF SplitDone
  <1>6. PhaseTypeOK'
    BY <1>0, <1>2, <1>5 DEF PhaseTypeOK, FinishThreadPhase, Labels
  <1>7. /\ pc'[t] = "scan" /\ phase_finished'[t] = "GROW_IN_PROGRESS" /\ moving'[t] = m
        /\ idx'[t] = 1 /\ phase'[t] = "REST"
        /\ \A u \in Thread \ {t} : SameThread(u)
    BY <1>0, <1>2, <1>5 DEF PhaseTypeOK, FinishThreadPhase, SameThread
  <1>8. Local(t)
    <2>1. phase_finished[t] = system_state.phase => phase_finished'[t] = system_state.phase
      BY <1>3, <1>7
    <2> QED
      BY <2>1, <1>0, <1>7 DEF Local, ChunksGrow
  <1>9. /\ (Starting' <=> Starting) /\ (Underway' <=> Underway) /\ (Alive(t)' <=> Alive(t))
        /\ Current(t)' = Current(t)
    BY <1>0, <1>7, StartingStays DEF Underway, Alive, Current, SameThread
  <1>10. ControlInv(t)'
    BY <1>0, <1>3, <1>7, <1>9, BoundsAssumption DEF ControlInv, At, Outside
  <1>11. AckInv(t)'
    <2>1. CASE ~Underway
      BY <2>1, <1>0, <1>3, <1>7, <1>9 DEF OwnInv, AckInv
    <2>2. CASE Underway
      <3>1. "GROW_IN_PROGRESS" \in PhasesOf("GrowIndex")
        BY PhasesTable
      <3>2. \A q \in PhasesOf("GrowIndex") : Rank[q] <= Rank["GROW_IN_PROGRESS"]
        BY PhasesTable, RankTable
      <3>3. Rank["GROW_IN_PROGRESS"] <= Rank["GROW_IN_PROGRESS"]
        BY <3>1, <3>2
      <3> QED
        BY <2>2, <3>1, <3>2, <3>3, <1>0, <1>3, <1>7, <1>9 DEF AckInv, Unacknowledged
    <2> QED
      BY <2>1, <2>2
  <1>12. VersionInv(t)'
    <2>1. Shifted("REST") = 0
      BY DEF Shifted
    <2> QED
      BY <2>1, <1>0, <1>3, <1>7, <1>9 DEF OwnInv, VersionInv
  <1>13. OutsideInv(t)' /\ HeavyInv(t)'
    BY <1>7 DEF OutsideInv, HeavyInv, Outside, At
  <1>14. LoopInv(t)'
    <2>1. CASE caller[t] = "heavy"
      BY <2>1, <1>0 DEF LoopInv
    <2>2. CASE caller[t] = "split"
      <3>1. Rank["GROW_IN_PROGRESS"] <= Rank["GROW_IN_PROGRESS"]
        BY RankTable
      <3>2. Current(t)'.phase = "GROW_IN_PROGRESS"
        BY <2>2, <1>2, <1>3, <1>9
      <3> QED
        BY <2>2, <3>1, <3>2, <1>0, <1>3, <1>7, <1>9 DEF OwnInv, LoopInv, Outside, At
    <2> QED
      BY <2>1, <2>2, <1>3
  <1>15. ChunkInv(t)'
    BY <1>0, <1>4, <1>7 DEF ChunkInv, At
  <1>16. MoveInv(t)'
    <2>1. \A u \in Thread : ~(u < 1)
      BY DEF Thread
    <2>2. moving'[t] = IF caller'[t] = "heavy"
                       THEN SystemState("GrowIndex", "GROW_IN_PROGRESS", version'[t])
                       ELSE Current(t)'
      BY <1>0, <1>1, <1>3, <1>7, <1>9
    <2> QED
      BY <2>1, <2>2, <1>2, <1>7 DEF MoveInv, At
  <1>17. PrevInv(t)'
    BY <1>0, <1>3 DEF PrevInv
  <1>18. HeldInv'
    BY <1>0, <1>7, HeldStays DEF SameThread
  <1>19. CheckpointInv'
    <2>1. ASSUME NEW u \in Thread, u # t
          PROVE  (Alive(u)' <=> Alive(u)) /\ phase_finished'[u] = phase_finished[u]
      BY <2>1, <1>7 DEF SameThread, Alive
    <2>2. system_state.action \in LogCheckpoints => phase_finished'[t] = phase_finished[t]
      BY <1>3, <1>7 DEF LogCheckpoints
    <2>3. system_state.action \in LogCheckpoints =>
            \A u \in Thread : Alive(u)' => Alive(u) /\ phase_finished'[u] = phase_finished[u]
      BY <2>1, <2>2, <1>9
    <2> QED
      BY <2>3, <1>0, <1>9 DEF CheckpointInv
  <1> QED
    BY <1>6, <1>8, <1>10, <1>11, <1>12, <1>13, <1>14, <1>15, <1>16, <1>17, <1>18, <1>19, LocalStep
    DEF OwnInv


\* Once a thread has acknowledged the last phase of a growth, the growth stays
\* in that phase, in the version of the thread, until it is over.
LEMMA HeavyFacts ==
  ASSUME PhaseInv, NEW t \in Thread, caller[t] = "heavy", pc[t] \in {"scan", "spin", "move", "moved"}
  PROVE  /\ Alive(t) /\ phase[t] = "REST" /\ phase_finished[t] = "GROW_IN_PROGRESS"
         /\ Underway => system_state = SystemState("GrowIndex", "GROW_IN_PROGRESS", version[t])
  <1>0. /\ OwnInv(t) /\ SystemInv /\ PhaseTypeOK /\ system_state \in StateSet
        /\ version[t] \in Nat
    BY DEF PhaseInv, ThreadInv, OwnInv, PhaseTypeOK
  <1>1. Alive(t)
    BY <1>0 DEF OwnInv, ControlInv, At
  <1>2. phase[t] = "REST" /\ phase_finished[t] = "GROW_IN_PROGRESS"
    BY <1>0, <1>1 DEF OwnInv, HeavyInv
  <1>3. ASSUME Underway PROVE system_state = SystemState("GrowIndex", "GROW_IN_PROGRESS", version[t])
    <2>1. /\ system_state.action \in Actions /\ system_state.phase \in PhasesOf(system_state.action)
          /\ system_state.version \in Int
      BY <1>0, <1>3, StateFields DEF SystemInv
    <2>2. /\ phase_finished[t] \in PhasesOf(system_state.action)
          /\ Rank[phase_finished[t]] <= Rank[system_state.phase]
      BY <1>0, <1>1, <1>3 DEF OwnInv, AckInv
    <2>3. system_state.action = "GrowIndex"
      BY <1>2, <2>1, <2>2, PhasesTable DEF Actions
    <2>4. system_state.phase = "GROW_IN_PROGRESS"
      BY <1>2, <2>1, <2>2, <2>3, PhasesTable, RankTable
    <2>5. version[t] - Shifted("REST") = Base(system_state)
      BY <1>0, <1>1, <1>2, <1>3 DEF OwnInv, VersionInv
    <2>6. version[t] = system_state.version
      BY <1>0, <2>1, <2>4, <2>5 DEF Shifted, Base
    <2> QED
      BY <1>0, <2>3, <2>4, <2>6 DEF StateSet, SystemState
  <1> QED
    BY <1>1, <1>2, <1>3

\* A wait or a failed compare-and-swap ends: nothing changes but the control.
LEMMA WaitEnds ==
  ASSUME PhaseInv, UNCHANGED host, NEW t \in Thread, Resume(t), pc[t] \in {"spin", "move"},
         UNCHANGED <<global, session, context, phase_finished>>,
         caller[t] = "heavy" => ~Underway
  PROVE  PhaseInv'
  <1> USE DEF global, tables, checkpoint, context
  <1>0. PhaseTypeOK /\ HeldInv /\ CheckpointInv
    BY DEF PhaseInv
  <1>1. /\ pc' \in [Thread -> Labels] /\ caller' \in [Thread -> {"none", "heavy", "split"}]
        /\ previous_state' \in [Thread -> StateSet] /\ final_state' \in [Thread -> StateSet]
        /\ moving' \in [Thread -> StateSet] /\ idx' \in [Thread -> 0 .. NumThreads]
        /\ chunk' \in [Thread -> Chunk] /\ op' \in [Thread -> {0, 1, NoTable}]
        /\ pc'[t] \in {"idle", "tail"}
        /\ \A u \in Thread \ {t} :
             /\ op'[u] = op[u] /\ pc'[u] = pc[u] /\ caller'[u] = caller[u]
             /\ previous_state'[u] = previous_state[u] /\ final_state'[u] = final_state[u]
             /\ moving'[u] = moving[u] /\ idx'[u] = idx[u] /\ chunk'[u] = chunk[u]
    BY <1>0, ResumeTypes
  <1>2. PhaseTypeOK'
    BY <1>0, <1>1 DEF PhaseTypeOK
  <1>3. \A u \in Thread \ {t} : SameThread(u)
    BY <1>1 DEF SameThread
  <1>4. Local(t)
    BY <1>1, <1>3 DEF Local, ChunksGrow
  <1>5. HeldInv'
    BY <1>0, <1>1, HeldStays
  <1>6. CheckpointInv'
    <2>1. Starting' <=> Starting
      BY <1>1, StartingStays
    <2>2. \A u \in Thread : Alive(u)' => Alive(u) /\ phase_finished'[u] = phase_finished[u]
      BY DEF Alive
    <2> QED
      BY <2>1, <2>2, <1>0, CheckpointStays
  <1> QED
    BY <1>2, <1>4, <1>5, <1>6, ResumeStep

LEMMA SplitSpinStep ==
  ASSUME PhaseInv, UNCHANGED host, NEW t \in Thread, SplitSpin(t)
  PROVE  PhaseInv'
  <1>1. /\ pc[t] = "spin" /\ Resume(t) /\ system_state.phase # "GROW_IN_PROGRESS"
        /\ UNCHANGED <<global, session, context, phase_finished>>
    BY DEF SplitSpin, At
  <1>2. ASSUME caller[t] = "heavy" PROVE ~Underway
    <2>1. Underway => system_state = SystemState("GrowIndex", "GROW_IN_PROGRESS", version[t])
      BY <1>1, <1>2, HeavyFacts
    <2> QED
      BY <1>1, <2>1 DEF SystemState
  <1> QED
    BY <1>1, <1>2, WaitEnds

LEMMA ScanStep ==
  ASSUME PhaseInv, UNCHANGED host, NEW t \in Thread, Scan(t)
  PROVE  PhaseInv'
  <1> USE DEF global, tables, checkpoint, context, Goto
  <1>0. /\ PhaseTypeOK /\ OwnInv(t) /\ MoveInv(t) /\ SystemInv /\ pc[t] = "scan"
        /\ UNCHANGED <<global, session, context, phase_finished, op, caller,
                       previous_state, final_state, moving, chunk>>
    BY DEF PhaseInv, ThreadInv, OwnInv, Scan, At
  <1>1. PICK i : i = idx[t]
    OBVIOUS
  <1>2. i \in 1 .. NumThreads /\ NumThreads \in Nat /\ i \in Thread
    BY <1>0, <1>1, BoundsAssumption DEF OwnInv, ControlInv, At, Thread
  <1>3. /\ \A u \in Thread \ {t} : SameThread(u)
        /\ PhaseTypeOK'
        /\ \/ /\ pc'[t] = IF caller[t] = "none" THEN "tail" ELSE "spin"
              /\ idx'[t] = i
           \/ /\ ~Missing(t, i) /\ i # NumThreads /\ pc'[t] = "scan" /\ idx'[t] = i + 1
           \/ /\ ~Missing(t, i) /\ i = NumThreads /\ pc'[t] = "move"
    <2>1. CASE Missing(t, i) /\ UNCHANGED idx
               /\ Goto(t, IF caller[t] = "none" THEN "tail" ELSE "spin")
      BY <1>0, <1>1, <2>1 DEF PhaseTypeOK, SameThread, Labels
    <2>2. CASE /\ ~Missing(t, i)
               /\ Goto(t, IF i = NumThreads THEN "move" ELSE "scan")
               /\ idx' = [idx EXCEPT ![t] = IF @ = NumThreads THEN 0 ELSE @ + 1]
      BY <1>0, <1>1, <1>2, <2>2 DEF PhaseTypeOK, SameThread, Labels
    <2> QED
      BY <1>1, <2>1, <2>2 DEF Scan
  <1>4. Plain(t)
    BY <1>0, <1>3 DEF Plain
  <1>5. /\ (Starting' <=> Starting) /\ (Underway' <=> Underway) /\ (\A u \in Thread : Alive(u)' <=> Alive(u))
        /\ Current(t)' = Current(t) /\ Alive(t) /\ ~Starting
    <2>1. Alive(t) /\ ~Starting
      BY <1>0 DEF OwnInv, ControlInv, At
    <2>2. Starting' <=> Starting
      BY <1>0, <1>3, StartingStays DEF SameThread
    <2> QED
      BY <1>0, <2>1, <2>2 DEF Underway, Alive, Current
  <1>6. pc'[t] \in {"tail", "spin", "scan", "move"}
        /\ (pc'[t] = "tail" => caller[t] = "none") /\ (pc'[t] = "spin" => caller[t] # "none")
    BY <1>3
  <1>7. ControlInv(t)'
    BY <1>0, <1>2, <1>3, <1>5, <1>6 DEF ControlInv, At, Outside
  <1>8. AckInv(t)' /\ VersionInv(t)'
    BY <1>0, <1>5 DEF OwnInv, AckInv, VersionInv
  <1>9. OutsideInv(t)'
    BY <1>0, <1>6 DEF OutsideInv, Outside
  <1>10. LoopInv(t)'
    BY <1>0, <1>5, <1>6 DEF OwnInv, LoopInv, Outside, At
  <1>11. HeavyInv(t)'
    BY <1>0, <1>5, <1>6 DEF OwnInv, HeavyInv, At
  <1>12. ChunkInv(t)' /\ PrevInv(t)'
    BY <1>0, <1>5, <1>6 DEF OwnInv, ChunkInv, PrevInv, At
  <1>13. MoveInv(t)'
    <2>1. PICK m : m = moving[t]
      OBVIOUS
    <2>2. /\ moving'[t] = m
          /\ m = IF caller[t] = "heavy"
                 THEN SystemState("GrowIndex", "GROW_IN_PROGRESS", version[t]) ELSE Current(t)
          /\ phase_finished[t] = m.phase
          /\ m = system_state => \A u \in Thread : u < i /\ Alive(u) => phase_finished[u] = m.phase
      BY <1>0, <1>1, <2>1 DEF MoveInv, At
    <2>3. ~Missing(t, i) => (Alive(i) => phase_finished[i] = m.phase)
      BY <2>1 DEF Missing, Alive
    <2>4. m = system_state => ~Unacknowledged(m.action, m.phase)
      <3> SUFFICES ASSUME m = system_state, Unacknowledged(m.action, m.phase) PROVE FALSE
        OBVIOUS
      <3>1. Underway
        BY DEF Underway, Unacknowledged
      <3>2. ~Unacknowledged(system_state.action, phase_finished[t])
        BY <3>1, <1>0, <1>5 DEF OwnInv, AckInv
      <3> QED
        BY <3>2, <2>2
    <2>5. ASSUME ~Missing(t, i), m = system_state, NEW u \in Thread, u < i + 1, Alive(u)
          PROVE  phase_finished[u] = m.phase
      <3>1. u < i \/ u = i
        BY <1>2, <2>5 DEF Thread
      <3> QED
        BY <3>1, <2>2, <2>3, <2>5
    <2>6. CASE pc'[t] = "scan"
      BY <2>6, <2>2, <2>5, <1>0, <1>3, <1>5 DEF MoveInv, At
    <2>7. CASE pc'[t] = "move"
      <3>1. \A u \in Thread : u < i + 1
        BY <2>7, <1>2, <1>3 DEF Thread
      <3> QED
        BY <2>7, <3>1, <2>2, <2>4, <2>5, <1>0, <1>3, <1>5 DEF MoveInv, At
    <2>8. CASE pc'[t] \in {"tail", "spin"}
      BY <2>8 DEF MoveInv, At
    <2> QED
      BY <2>6, <2>7, <2>8, <1>6
  <1> QED
    BY <1>3, <1>4, <1>7, <1>8, <1>9, <1>10, <1>11, <1>12, <1>13, PlainStep DEF OwnInv


LEMMA AdoptStep ==
  ASSUME PhaseInv, UNCHANGED host, NEW t \in Thread, Adopt(t)
  PROVE  PhaseInv'
  <1> USE DEF global, tables, checkpoint
  <1>0. /\ PhaseTypeOK /\ OwnInv(t) /\ SystemInv /\ pc[t] = "tail"
        /\ UNCHANGED <<global, session, pending, prev_pending, phase_finished, op>>
        /\ Rest \in StateSet /\ 0 \in 0 .. NumThreads /\ 0 \in Chunk
    BY RestInStates, BoundsAssumption
    DEF PhaseInv, ThreadInv, OwnInv, Adopt, At, Chunk
  <1>1. PICK p : p = previous_state[t]
    OBVIOUS
  <1>2. PICK f : f = final_state[t]
    OBVIOUS
  <1>3. PICK c : c = Current(t)
    OBVIOUS
  <1>4. Alive(t) /\ caller[t] # "heavy" /\ ~Starting /\ pc[t] \notin Outside
    BY <1>0 DEF OwnInv, ControlInv, At, Outside
  <1>5. /\ f \in StateSet /\ f.action \in Actions
        /\ f.phase \in PhasesOf(f.action) /\ f.phase \in Phase
        /\ c \in StateSet /\ c.action = f.action /\ c.phase \in PhasesOf(f.action)
        /\ c.phase # "REST" /\ c.phase \in Phase /\ Base(c) = Base(f)
        /\ Rank[c.phase] <= Rank[f.phase]
        /\ c.phase = f.phase => c = f
        /\ Rank[c.phase] \in Int /\ Rank[f.phase] \in Int
        /\ phase_finished[t] \in Phase /\ Rank[phase_finished[t]] \in Int
        /\ Rank[phase_finished[t]] <= Rank[c.phase]
        /\ ~Underway => c = f /\ c.phase = LastOf[c.action] /\ phase_finished[t] = c.phase
                        /\ c.version = system_state.version
        /\ Underway => /\ system_state.action = c.action
                       /\ Rank[c.phase] <= Rank[system_state.phase]
                       /\ Base(c) = Base(system_state)
        /\ system_state.phase \in Phase /\ Rank[system_state.phase] \in Int
    BY <1>1, <1>2, <1>3, <1>4, CurrentFacts
  <1>6. /\ f.phase # "REST"
        /\ Underway => Rank[f.phase] <= Rank[system_state.phase] /\ Base(f) = Base(system_state)
        /\ caller[t] = "split" => c.phase = "GROW_IN_PROGRESS"
    BY <1>0, <1>2, <1>3, <1>4 DEF OwnInv, LoopInv
  <1>7. c.version \in Nat /\ c.version \in Int
    BY <1>5, StateFields
  <1>8. /\ phase' = [phase EXCEPT ![t] = c.phase] /\ version' = [version EXCEPT ![t] = c.version]
        /\ \/ c = f /\ Return(t)
           \/ /\ c # f
              /\ previous_state' = [previous_state EXCEPT ![t] = c]
              /\ Goto(t, "step")
              /\ UNCHANGED <<caller, final_state, moving, idx, chunk>>
    BY <1>2, <1>3 DEF Adopt
  <1>9. PhaseTypeOK'
    <2>1. CASE Return(t)
      BY <2>1, <1>0, <1>5, <1>7, <1>8 DEF PhaseTypeOK, Return, Goto, Labels
    <2>2. CASE /\ previous_state' = [previous_state EXCEPT ![t] = c]
               /\ Goto(t, "step")
               /\ UNCHANGED <<caller, final_state, moving, idx, chunk>>
      BY <2>2, <1>0, <1>5, <1>7, <1>8 DEF PhaseTypeOK, Goto, Labels
    <2> QED
      BY <2>1, <2>2, <1>8
  <1>10. /\ phase'[t] = c.phase /\ version'[t] = c.version
         /\ \/ c = f /\ pc'[t] = "idle" /\ caller'[t] = "none"
            \/ /\ c # f /\ pc'[t] = "step" /\ caller'[t] = caller[t]
               /\ previous_state'[t] = c /\ final_state'[t] = f
         /\ \A u \in Thread \ {t} : SameThread(u)
    <2>1. CASE c = f /\ Return(t)
      BY <2>1, <1>0, <1>8 DEF PhaseTypeOK, Return, Goto, SameThread
    <2>2. CASE /\ c # f /\ previous_state' = [previous_state EXCEPT ![t] = c]
               /\ Goto(t, "step")
               /\ UNCHANGED <<caller, final_state, moving, idx, chunk>>
      BY <2>2, <1>0, <1>2, <1>8 DEF PhaseTypeOK, Goto, SameThread
    <2> QED
      BY <2>1, <2>2, <1>8
  <1>11. Plain(t)
    BY <1>0, <1>10 DEF Plain
  <1>12. (Starting' <=> Starting) /\ (Underway' <=> Underway) /\ (Alive(t)' <=> Alive(t))
         /\ phase_finished'[t] = phase_finished[t] /\ system_state' = system_state
    BY <1>0, <1>10, StartingStays DEF SameThread, Underway, Alive
  <1>13. c # f => caller[t] = "none" /\ Underway
    <2> SUFFICES ASSUME c # f PROVE caller[t] = "none" /\ Underway
      OBVIOUS
    <2>1. Underway
      BY <1>5
    <2>2. caller[t] # "split"
      <3> SUFFICES ASSUME caller[t] = "split" PROVE FALSE
        OBVIOUS
      <3>1. c.phase = "GROW_IN_PROGRESS"
        BY <1>6
      <3>2. f.action = "GrowIndex"
        BY <3>1, <1>5, PhasesTable DEF Actions
      <3>3. f.phase = "GROW_IN_PROGRESS"
        BY <3>1, <3>2, <1>5, PhasesTable, RankTable
      <3> QED
        BY <3>1, <3>3, <1>5
    <2> QED
      BY <2>1, <2>2, <1>0, <1>4 DEF PhaseTypeOK
  <1>14. ControlInv(t)'
    BY <1>4, <1>10, <1>12, <1>13 DEF ControlInv, At, Outside
  <1>15. AckInv(t)'
    BY <1>0, <1>12 DEF OwnInv, AckInv
  <1>16. VersionInv(t)'
    <2>1. CASE Underway
      <3>1. Base(c) = c.version - Shifted(c.phase)
        BY DEF Base
      <3> QED
        BY <2>1, <3>1, <1>5, <1>10, <1>12 DEF VersionInv
    <2>2. CASE ~Underway
      BY <2>2, <1>5, <1>10, <1>12 DEF VersionInv
    <2> QED
      BY <2>1, <2>2
  <1>17. OutsideInv(t)'
    <2>1. CASE pc'[t] = "idle"
      <3>1. ~Underway => c.phase \in LastPhases
        BY <1>5, ActionPhases
      <3> QED
        BY <2>1, <3>1, <1>5, <1>10, <1>12 DEF OutsideInv
    <2>2. CASE pc'[t] = "step"
      BY <2>2 DEF OutsideInv, Outside
    <2> QED
      BY <2>1, <2>2, <1>10
  <1>18. LoopInv(t)'
    <2>1. CASE pc'[t] = "idle"
      BY <2>1 DEF LoopInv, Outside
    <2>2. CASE pc'[t] = "step"
      <3>1. /\ c # f /\ caller'[t] = "none" /\ previous_state'[t] = c /\ final_state'[t] = f
            /\ Underway
        BY <2>2, <1>10, <1>13
      <3>2. PICK d : d = IF c = f THEN f ELSE GetNextState(c)
        OBVIOUS
      <3>3. Current(t)' = d
        BY <3>1, <3>2 DEF Current
      <3>4. /\ d.phase \in Phase /\ Rank[c.phase] <= Rank[d.phase] /\ Rank[d.phase] \in Int
        BY <1>5, <1>6, <3>2, CurrentTable
      <3>5. Rank[phase_finished[t]] <= Rank[d.phase]
        BY <1>5, <3>4
      <3> QED
        BY <2>2, <3>1, <3>3, <3>5, <1>5, <1>6, <1>10, <1>12 DEF LoopInv
    <2> QED
      BY <2>1, <2>2, <1>10
  <1>19. HeavyInv(t)' /\ MoveInv(t)'
    BY <1>10, <1>13 DEF HeavyInv, MoveInv, At
  <1>20. ChunkInv(t)'
    BY <1>0, <1>10, <1>12 DEF OwnInv, ChunkInv, At
  <1>21. PrevInv(t)'
    <2> SUFFICES ASSUME prev_pending[t] PROVE PrevInv(t)'
      BY <1>0 DEF PrevInv
    <2>1. /\ Underway
          /\ \/ system_state.action \in LogCheckpoints /\ phase_finished[t] = "IN_PROGRESS"
             \/ system_state.action = "GC" /\ phase_finished[t] = "REST"
      BY <1>0 DEF OwnInv, PrevInv
    <2>2. CASE system_state.action \in LogCheckpoints /\ phase_finished[t] = "IN_PROGRESS"
      BY <2>1, <2>2, <1>12 DEF PrevInv
    <2>3. CASE system_state.action = "GC" /\ phase_finished[t] = "REST"
      <3>1. "GC_IO_PENDING" \in PhasesOf(system_state.action)
        BY <2>3, PhasesTable
      <3>2. ~(Rank["GC_IO_PENDING"] < Rank[system_state.phase])
        BY <2>1, <2>3, <3>1, <1>4, Acknowledges, RankTable DEF Unacknowledged
      <3>3. Rank[c.phase] <= 8
        BY <3>2, <2>1, <1>5, RankTable
      <3>4. c.phase = "GC_IO_PENDING"
        BY <3>3, <2>1, <2>3, <1>5, PhasesTable, RankTable
      <3> QED
        BY <3>4, <2>1, <2>3, <1>10, <1>12 DEF PrevInv
    <2> QED
      BY <2>1, <2>2, <2>3
  <1> QED
    BY <1>9, <1>11, <1>14, <1>15, <1>16, <1>17, <1>18, <1>19, <1>20, <1>21, PlainStep DEF OwnInv

-----------------------------------------------------------------------------
(***************************************************************************)
(* GlobalMoveToNextState, after the compare-and-swap.                      *)
(***************************************************************************)
\* The state a thread wants to move on from is one of the action's phases that
\* the system has reached.
LEMMA MovingFacts ==
  ASSUME PhaseInv, NEW t \in Thread, pc[t] \in {"scan", "move"}, NEW m, m = moving[t]
  PROVE  /\ Alive(t) /\ m.phase # "REST" /\ m.phase \in Phase /\ Rank[m.phase] \in Int
         /\ Underway => Rank[m.phase] <= Rank[system_state.phase]
  <1>0. OwnInv(t) /\ MoveInv(t) /\ PhaseTypeOK
    BY DEF PhaseInv, ThreadInv, OwnInv
  <1>1. Alive(t) /\ pc[t] \notin Outside
    BY <1>0 DEF OwnInv, ControlInv, At, Outside
  <1>2. m = IF caller[t] = "heavy"
            THEN SystemState("GrowIndex", "GROW_IN_PROGRESS", version[t]) ELSE Current(t)
    BY <1>0 DEF MoveInv
  <1>3. CASE caller[t] = "heavy"
    <2>1. m.phase = "GROW_IN_PROGRESS"
      BY <1>2, <1>3 DEF SystemState
    <2>2. Underway => system_state = SystemState("GrowIndex", "GROW_IN_PROGRESS", version[t])
      BY <1>3, HeavyFacts
    <2>3. Underway => system_state.phase = "GROW_IN_PROGRESS"
      BY <2>2 DEF SystemState
    <2> QED
      BY <1>1, <2>1, <2>3, PhaseSet, RankTable
  <1>4. CASE caller[t] # "heavy"
    <2>1. PICK p : p = previous_state[t]
      OBVIOUS
    <2>2. PICK f : f = final_state[t]
      OBVIOUS
    <2>3. m = Current(t)
      BY <1>2, <1>4
    <2>4. /\ m.phase # "REST" /\ m.phase \in Phase /\ Rank[m.phase] \in Int
          /\ Underway => Rank[m.phase] <= Rank[system_state.phase]
      BY <1>1, <1>4, <2>1, <2>2, <2>3, CurrentFacts
    <2> QED
      BY <1>1, <2>4
  <1> QED
    BY <1>3, <1>4

LEMMA MovedSteps ==
  ASSUME PhaseInv, UNCHANGED host, NEW t \in Thread,
         \/ MovedToIndexChkpt(t) \/ MovedToWaitFlush(t) \/ MovedToGrowInProgress(t)
         \/ MovedQuietly(t)
  PROVE  PhaseInv'
  <1> USE DEF context, tables, checkpoint
  <1>0. /\ PhaseTypeOK /\ HeldInv /\ CheckpointInv /\ OwnInv(t) /\ MoveInv(t) /\ SystemInv
        /\ pc[t] = "moved" /\ Resume(t)
        /\ UNCHANGED <<system_state, gc_, grow_, session, phase, version, pending, prev_pending,
                       phase_finished, guids, contexts, notified>>
    BY DEF PhaseInv, ThreadInv, OwnInv, MovedToIndexChkpt, MovedToWaitFlush, MovedToGrowInProgress,
           MovedQuietly, Moved, At
  <1>1. /\ pc' \in [Thread -> Labels] /\ caller' \in [Thread -> {"none", "heavy", "split"}]
        /\ previous_state' \in [Thread -> StateSet] /\ final_state' \in [Thread -> StateSet]
        /\ moving' \in [Thread -> StateSet] /\ idx' \in [Thread -> 0 .. NumThreads]
        /\ chunk' \in [Thread -> Chunk] /\ op' \in [Thread -> {0, 1, NoTable}]
        /\ pc'[t] \in {"idle", "tail"}
        /\ \A u \in Thread \ {t} :
             /\ op'[u] = op[u] /\ pc'[u] = pc[u] /\ caller'[u] = caller[u]
             /\ previous_state'[u] = previous_state[u] /\ final_state'[u] = final_state[u]
             /\ moving'[u] = moving[u] /\ idx'[u] = idx[u] /\ chunk'[u] = chunk[u]
    BY <1>0, ResumeTypes
  <1>2. /\ moving[t] = system_state
        /\ system_state.phase = "INDEX_CHKPT" => index_io = "none"
        /\ system_state.phase = "WAIT_FLUSH" => flush = "none"
    BY <1>0 DEF MoveInv, At
  <1>3. /\ index_io' \in {"none", "started", "done"} /\ flush' \in {"none", "started", "done"}
        /\ resize_info' \in {0, 1}
        /\ index_io' # index_io => system_state.phase = "INDEX_CHKPT"
        /\ flush' # flush => system_state.phase = "WAIT_FLUSH"
    <2>1. CASE MovedToIndexChkpt(t)
      BY <2>1, <1>0, <1>2 DEF MovedToIndexChkpt, Moved, PhaseTypeOK
    <2>2. CASE MovedToWaitFlush(t)
      BY <2>2, <1>0, <1>2 DEF MovedToWaitFlush, Moved, PhaseTypeOK
    <2>3. CASE MovedToGrowInProgress(t)
      BY <2>3, <1>0, <1>2 DEF MovedToGrowInProgress, Moved, PhaseTypeOK
    <2>4. CASE MovedQuietly(t)
      BY <2>4, <1>0, <1>2 DEF MovedQuietly, Moved, PhaseTypeOK
    <2> QED
      BY <2>1, <2>2, <2>3, <2>4
  <1>4. PhaseTypeOK'
    BY <1>0, <1>1, <1>3 DEF PhaseTypeOK
  <1>5. \A u \in Thread \ {t} : SameThread(u)
    BY <1>0, <1>1 DEF SameThread
  <1>6. Local(t)
    BY <1>0, <1>1, <1>2, <1>3, <1>5 DEF Local, ChunksGrow
  <1>7. HeldInv'
    BY <1>0, <1>1, HeldStays
  <1>8. Starting' <=> Starting
    BY <1>0, <1>1, StartingStays
  <1>9. ~Starting
    BY <1>0 DEF OwnInv, ControlInv
  <1>10. CheckpointInv'
    <2>1. \A u \in Thread : (Alive(u)' <=> Alive(u)) /\ phase_finished'[u] = phase_finished[u]
      BY <1>0 DEF Alive
    <2>2. CASE flush' = flush
      BY <2>1, <2>2, <1>0, <1>3, <1>8 DEF CheckpointInv
    <2>3. CASE flush' # flush
      <3>1. system_state.phase = "WAIT_FLUSH" /\ flush = "none"
        BY <2>3, <1>2, <1>3
      <3>2. Underway /\ system_state.action \in Actions
            /\ system_state.phase \in PhasesOf(system_state.action)
        <4>1. Underway
          BY <3>1 DEF Underway
        <4>2. system_state.action \in Actions \cup {"None"}
          BY <1>0, StateFields DEF PhaseTypeOK
        <4> QED
          BY <4>1, <4>2, <1>0 DEF SystemInv
      <3>3. system_state.action \in LogCheckpoints
        BY <3>1, <3>2, PhasesTable DEF Actions, LogCheckpoints
      <3>4. ASSUME NEW u \in Thread, Alive(u)'
            PROVE  /\ Rank[phase_finished'[u]] >= Rank["PREPARE"] => u \in guids'
                   /\ ~(Rank[phase_finished'[u]] >= Rank["WAIT_FLUSH"])
        BY <3>1, <3>3, <3>4, <2>1, <1>0, <1>9 DEF CheckpointInv
      <3> QED
        BY <3>1, <3>3, <3>4, <1>0, <1>8, <1>9 DEF CheckpointInv
    <2> QED
      BY <2>2, <2>3
  <1>11. caller[t] = "heavy" => ~Underway
    <2> SUFFICES ASSUME caller[t] = "heavy" PROVE ~Underway
      OBVIOUS
    <2>1. Alive(t)
      BY <1>0 DEF OwnInv, ControlInv, At
    <2> QED
      BY <2>1, <1>0 DEF OwnInv, HeavyInv, At
  <1> QED
    BY <1>0, <1>4, <1>6, <1>7, <1>10, <1>11, ResumeStep


\* An action's end: what is known of a thread when the system is at rest does
\* not depend on which action has ended.
LEMMA EndedThread ==
  ASSUME NEW u \in Thread, OwnInv(u), SameThread(u), ChunksGrow, ~Underway, ~Starting,
         ~Underway', ~Starting', system_state'.action = "None",
         system_state'.version = system_state.version
  PROVE  OwnInv(u)'
  <1> USE DEF SameThread
  <1>0. (Alive(u)' <=> Alive(u)) /\ Current(u)' = Current(u)
    BY DEF Alive, Current
  <1>1. ControlInv(u)'
    BY <1>0 DEF OwnInv, ControlInv, At
  <1>2. AckInv(u)' /\ VersionInv(u)' /\ OutsideInv(u)'
    BY <1>0 DEF OwnInv, AckInv, VersionInv, OutsideInv
  <1>3. LoopInv(u)'
    BY <1>0 DEF OwnInv, LoopInv, At
  <1>4. HeavyInv(u)' /\ PrevInv(u)'
    BY <1>0 DEF OwnInv, HeavyInv, PrevInv, At
  <1>5. ChunkInv(u)'
    BY <1>0 DEF OwnInv, ChunkInv, At, ChunksGrow
  <1> QED
    BY <1>1, <1>2, <1>3, <1>4, <1>5 DEF OwnInv

LEMMA MovedToRestStep ==
  ASSUME PhaseInv, UNCHANGED host, NEW t \in Thread, MovedToRest(t)
  PROVE  PhaseInv'
  <1> USE DEF context, tables, checkpoint
  <1>0. /\ PhaseTypeOK /\ HeldInv /\ CheckpointInv /\ OwnInv(t) /\ MoveInv(t) /\ SystemInv
        /\ pc[t] = "moved" /\ Resume(t) /\ moving[t].phase = "REST"
        /\ UNCHANGED <<gc_, grow_, resize_info, session, phase, version, pending, prev_pending,
                       phase_finished, index_io>>
    BY DEF PhaseInv, ThreadInv, OwnInv, MovedToRest, Moved, At
  <1>1. /\ pc' \in [Thread -> Labels] /\ caller' \in [Thread -> {"none", "heavy", "split"}]
        /\ previous_state' \in [Thread -> StateSet] /\ final_state' \in [Thread -> StateSet]
        /\ moving' \in [Thread -> StateSet] /\ idx' \in [Thread -> 0 .. NumThreads]
        /\ chunk' \in [Thread -> Chunk] /\ op' \in [Thread -> {0, 1, NoTable}]
        /\ pc'[t] \in {"idle", "tail"}
        /\ \A u \in Thread \ {t} :
             /\ op'[u] = op[u] /\ pc'[u] = pc[u] /\ caller'[u] = caller[u]
             /\ previous_state'[u] = previous_state[u] /\ final_state'[u] = final_state[u]
             /\ moving'[u] = moving[u] /\ idx'[u] = idx[u] /\ chunk'[u] = chunk[u]
    BY <1>0, ResumeTypes
  <1>2. moving[t] = system_state /\ system_state.action # "None" /\ ~Underway
    BY <1>0 DEF MoveInv, At, Underway
  <1>3. /\ system_state' \in StateSet /\ system_state'.action = "None" /\ system_state'.phase = "REST"
        /\ system_state'.version = system_state.version /\ ~Underway'
    <2>1. system_state' = SystemState("None", "REST", system_state.version)
      BY <1>2 DEF MovedToRest
    <2>2. system_state.version \in Nat /\ "REST" \in Phase
      BY <1>0, StateFields, PhaseSet DEF PhaseTypeOK
    <2> QED
      BY <2>1, <2>2 DEF SystemState, StateSet, Underway
  <1>4. flush' = "none" /\ notified' = {}
    <2>1. CASE moving[t].action \in {"GC", "GrowIndex"}
      BY <2>1, <1>0, <1>2 DEF MovedToRest, CheckpointInv, LogCheckpoints
    <2>2. CASE moving[t].action \notin {"GC", "GrowIndex"}
      BY <2>2 DEF MovedToRest
    <2> QED
      BY <2>1, <2>2
  <1>5. PhaseTypeOK'
    BY <1>0, <1>1, <1>3, <1>4 DEF PhaseTypeOK
  <1>6. \A u \in Thread \ {t} : SameThread(u)
    BY <1>0, <1>1 DEF SameThread
  <1>7. ~Starting /\ Alive(t) /\ (Alive(t)' <=> Alive(t))
    BY <1>0 DEF OwnInv, ControlInv, At, Alive
  <1>8. ~Starting'
    BY <1>0, <1>1, <1>7, StartingStays
  <1>9. ChunksGrow
    BY <1>0 DEF ChunksGrow
  <1>10. OwnInv(t)'
    <2>1. AckInv(t)' /\ VersionInv(t)'
      BY <1>0, <1>2, <1>3, <1>7, <1>8 DEF OwnInv, AckInv, VersionInv
    <2>2. ChunkInv(t)' /\ PrevInv(t)'
      BY <1>0, <1>1, <1>2 DEF OwnInv, ChunkInv, PrevInv, At
    <2>3. CASE caller[t] = "heavy"
      <3>1. pc'[t] = "idle" /\ caller'[t] = "none" /\ phase[t] = "REST"
        BY <2>3, <1>0, <1>7 DEF Resume, Return, Goto, PhaseTypeOK, OwnInv, HeavyInv
      <3>2. ControlInv(t)' /\ OutsideInv(t)' /\ LoopInv(t)' /\ HeavyInv(t)'
        BY <3>1, <1>0, <1>3, <1>7, <1>8
        DEF ControlInv, OutsideInv, LoopInv, HeavyInv, Outside, At
      <3> QED
        BY <2>1, <2>2, <3>2 DEF OwnInv
    <2>4. CASE caller[t] # "heavy"
      <3>1. /\ pc'[t] = "tail" /\ caller'[t] = caller[t] /\ previous_state'[t] = previous_state[t]
            /\ final_state'[t] = final_state[t] /\ Current(t)' = Current(t)
        BY <2>4, <1>0 DEF Resume, Goto, PhaseTypeOK, locals, Current
      <3>2. ControlInv(t)' /\ OutsideInv(t)' /\ HeavyInv(t)'
        BY <2>4, <3>1, <1>3, <1>7, <1>8 DEF ControlInv, OutsideInv, HeavyInv, Outside, At
      <3>3. LoopInv(t)'
        BY <2>4, <3>1, <1>0, <1>2, <1>3, <1>7 DEF OwnInv, LoopInv, Outside, At
      <3> QED
        BY <2>1, <2>2, <3>2, <3>3 DEF OwnInv
    <2> QED
      BY <2>3, <2>4
  <1>11. ASSUME NEW u \in Thread PROVE OwnInv(u)'
    <2>1. CASE u = t
      BY <2>1, <1>10
    <2>2. CASE u # t
      <3>1. OwnInv(u) /\ SameThread(u)
        BY <2>2, <1>6 DEF PhaseInv, ThreadInv, OwnInv
      <3> QED
        BY <3>1, <1>2, <1>3, <1>7, <1>8, <1>9, EndedThread
    <2> QED
      BY <2>1, <2>2
  <1>12. ASSUME NEW u \in Thread PROVE MoveInv(u)'
    <2>1. CASE u = t
      BY <2>1, <1>1 DEF MoveInv, At
    <2>2. CASE u # t
      <3>1. SameThread(u) /\ MoveInv(u) /\ pc[u] # "moved"
        BY <2>2, <1>0, <1>6 DEF PhaseInv, ThreadInv, SystemInv, At
      <3>2. PICK m : m = moving[u]
        OBVIOUS
      <3>3. pc[u] \in {"scan", "move"} => m.phase # "REST"
        BY <3>2, MovingFacts
      <3>4. Current(u)' = Current(u)
        BY <3>1 DEF SameThread, Current
      <3>5. pc[u] \in {"scan", "move"} => moving'[u] # system_state'
        BY <3>1, <3>2, <3>3, <1>3 DEF SameThread
      <3> QED
        BY <3>1, <3>4, <3>5 DEF SameThread, MoveInv, At
    <2> QED
      BY <2>1, <2>2
  <1>13. SystemInv'
    BY <1>0, <1>1, <1>3, <1>8 DEF SystemInv, At, Starting
  <1>14. HeldInv'
    BY <1>0, <1>1, HeldStays
  <1>15. CheckpointInv'
    BY <1>3, <1>4 DEF CheckpointInv, LogCheckpoints
  <1> QED
    BY <1>5, <1>11, <1>12, <1>13, <1>14, <1>15 DEF PhaseInv, ThreadInv, OwnInv

-----------------------------------------------------------------------------
(***************************************************************************)
(* The compare-and-swap: the barrier.                                      *)
(***************************************************************************)
\* The compare-and-swap of t succeeds.
MoveSucceeds(t) ==
  /\ At(t, "move") /\ system_state = moving[t]
  /\ system_state' = GetNextState(system_state)
  /\ moving' = [moving EXCEPT ![t] = GetNextState(system_state)]
  /\ Goto(t, "moved")
  /\ UNCHANGED <<op, caller, previous_state, final_state, idx, chunk, checkpoint, tables, session,
                 context, phase_finished>>

\* When it does, every thread has acknowledged the phase, or the index is on
\* disk; and nobody is still busy with the move before.
LEMMA MoveFacts ==
  ASSUME PhaseInv, NEW t \in Thread, At(t, "move"), system_state = moving[t],
         NEW s, s = system_state
  PROVE  /\ s \in StateSet /\ s.action \in Actions /\ s.phase \in PhasesOf(s.action)
         /\ s.phase # "REST" /\ s.phase \in Phase /\ Rank[s.phase] \in Int
         /\ Underway /\ ~Starting /\ Alive(t)
         /\ ~Unacknowledged(s.action, s.phase) =>
              \A u \in Thread : Alive(u) => phase_finished[u] = s.phase
         /\ \A u \in Thread : pc[u] # "moved"
  <1>0. /\ PhaseTypeOK /\ OwnInv(t) /\ MoveInv(t) /\ SystemInv
        /\ pc[t] = "move" /\ s \in StateSet
    BY DEF PhaseInv, ThreadInv, OwnInv, At, PhaseTypeOK
  <1>1. PICK m : m = moving[t]
    OBVIOUS
  <1>2. Alive(t) /\ m.phase # "REST"
    BY <1>0, <1>1, MovingFacts
  <1>3. Underway
    BY <1>1, <1>2 DEF Underway
  <1>4. s.action \in Actions \cup {"None"} /\ s.phase \in Phase
    BY <1>0, StateFields
  <1>5. s.action \in Actions /\ s.phase \in PhasesOf(s.action) /\ ~Starting
    BY <1>0, <1>3, <1>4 DEF SystemInv
  <1>6. IF Unacknowledged(s.action, s.phase) THEN index_io = "done"
        ELSE \A u \in Thread : Alive(u) => phase_finished[u] = s.phase
    BY <1>0 DEF MoveInv, At
  <1>7. ASSUME NEW u \in Thread, pc[u] = "moved" PROVE FALSE
    <2>1. Alive(u)
      BY <1>7 DEF PhaseInv, ThreadInv, ControlInv, At
    <2>2. phase_finished[u] # s.phase /\ (s.phase = "INDEX_CHKPT" => index_io = "none")
      BY <1>7 DEF PhaseInv, ThreadInv, MoveInv, At
    <2> QED
      BY <2>1, <2>2, <1>6 DEF Unacknowledged
  <1> QED
    BY <1>0, <1>1, <1>2, <1>3, <1>4, <1>5, <1>6, <1>7, RankFacts

\* The move keeps the types, and no thread changes but the one that moves.
LEMMA MoveFrame ==
  ASSUME PhaseInv, UNCHANGED host, NEW t \in Thread, MoveSucceeds(t), NEW n, n = GetNextState(system_state)
  PROVE  /\ PhaseTypeOK' /\ HeldInv' /\ ~Starting' /\ system_state' = n
         /\ pc'[t] = "moved" /\ moving'[t] = n
         /\ \A u \in Thread \ {t} : pc'[u] = pc[u] /\ moving'[u] = moving[u]
         /\ \A u \in Thread : (Alive(u)' <=> Alive(u)) /\ Current(u)' = Current(u)
  <1> USE DEF context, tables, checkpoint
  <1>0. /\ PhaseTypeOK /\ HeldInv /\ At(t, "move") /\ pc[t] = "move" /\ system_state = moving[t]
    BY DEF PhaseInv, MoveSucceeds, At
  <1>1. PICK s : s = system_state
    OBVIOUS
  <1>2. s \in StateSet /\ s.action \in Actions /\ s.phase \in PhasesOf(s.action) /\ ~Starting
    BY <1>0, <1>1, MoveFacts
  <1>3. n \in StateSet
    BY <1>1, <1>2, NextFacts
  <1>4. PhaseTypeOK'
    BY <1>0, <1>3 DEF PhaseTypeOK, MoveSucceeds, Goto, Labels
  <1>5. /\ pc'[t] = "moved" /\ moving'[t] = n
        /\ \A u \in Thread \ {t} : pc'[u] = pc[u] /\ moving'[u] = moving[u]
    BY <1>0 DEF PhaseTypeOK, MoveSucceeds, Goto
  <1>6. HeldInv'
    BY <1>0, <1>5, HeldStays DEF MoveSucceeds
  <1>7. ~Starting'
    BY <1>0, <1>2, <1>5, StartingStays
  <1>8. \A u \in Thread : (Alive(u)' <=> Alive(u)) /\ Current(u)' = Current(u)
    BY DEF MoveSucceeds, Alive, Current
  <1> QED
    BY <1>4, <1>5, <1>6, <1>7, <1>8 DEF MoveSucceeds

\* The system moves on to the action's next phase.
LEMMA MoveOn ==
  ASSUME PhaseInv, UNCHANGED host, NEW t \in Thread, MoveSucceeds(t),
         system_state.phase # LastOf[system_state.action]
  PROVE  PhaseInv'
  <1> USE DEF context, tables, checkpoint
  <1>0. /\ SystemInv /\ CheckpointInv /\ At(t, "move") /\ pc[t] = "move" /\ system_state = moving[t]
        /\ PhaseTypeOK
        /\ UNCHANGED <<op, caller, previous_state, final_state, idx, chunk, index_io, flush, guids,
                       contexts, notified, gc_, grow_, session, phase, version, prev_pending,
                       phase_finished>>
    BY DEF PhaseInv, MoveSucceeds, At
  <1>1. PICK s : s = system_state
    OBVIOUS
  <1>2. PICK n : n = GetNextState(s)
    OBVIOUS
  <1>3. /\ s \in StateSet /\ s.action \in Actions /\ s.phase \in PhasesOf(s.action)
        /\ s.phase # "REST" /\ s.phase \in Phase /\ Rank[s.phase] \in Int
        /\ Underway /\ ~Starting /\ Alive(t)
        /\ ~Unacknowledged(s.action, s.phase) =>
             \A u \in Thread : Alive(u) => phase_finished[u] = s.phase
        /\ \A u \in Thread : pc[u] # "moved"
    BY <1>0, <1>1, MoveFacts
  <1>4. /\ PhaseTypeOK' /\ HeldInv' /\ ~Starting' /\ system_state' = n
        /\ pc'[t] = "moved" /\ moving'[t] = n
        /\ \A u \in Thread \ {t} : pc'[u] = pc[u] /\ moving'[u] = moving[u]
        /\ \A u \in Thread : (Alive(u)' <=> Alive(u)) /\ Current(u)' = Current(u)
    BY <1>1, <1>2, MoveFrame
  <1>5. /\ n \in StateSet /\ n.action = s.action /\ n.phase \in PhasesOf(s.action)
        /\ n.phase # "REST" /\ Rank[s.phase] < Rank[n.phase] /\ Base(n) = Base(s)
        /\ \A q \in PhasesOf(s.action) : Rank[q] <= Rank[s.phase] \/ Rank[n.phase] <= Rank[q]
    BY <1>1, <1>2, <1>3, NextFacts
  <1>6. /\ Underway' /\ n.phase \in Phase /\ Rank[n.phase] \in Int
        /\ \A q \in PhasesOf(s.action) : q \in Phase /\ Rank[q] \in Int
    BY <1>3, <1>4, <1>5, ActionPhases, RankFacts DEF Underway
  <1>7. s.phase \notin {"GROW_IN_PROGRESS", "GC_IN_PROGRESS", "PERSISTENCE_CALLBACK"}
    BY <1>1, <1>3, PhasesTable, LastTable DEF Actions
  <1>8. ASSUME NEW u \in Thread PROVE OwnInv(u)'
    <2>0. /\ OwnInv(u) /\ pc'[u] = (IF u = t THEN "moved" ELSE pc[u])
          /\ (Alive(u)' <=> Alive(u)) /\ Current(u)' = Current(u)
          /\ phase_finished[u] \in Phase /\ Rank[phase_finished[u]] \in Int
          /\ phase[u] \in Phase /\ Rank[phase[u]] \in Int
          /\ final_state[u] \in StateSet
      BY <1>0, <1>4, RankFacts DEF PhaseInv, ThreadInv, OwnInv, PhaseTypeOK
    <2>1. ControlInv(u)'
      BY <2>0, <1>0, <1>3, <1>4 DEF OwnInv, ControlInv, At, Outside
    <2>2. AckInv(u)'
      <3> SUFFICES ASSUME Alive(u)
                   PROVE  /\ phase_finished[u] \in PhasesOf(s.action)
                          /\ ~Unacknowledged(s.action, phase_finished[u])
                          /\ Rank[phase_finished[u]] <= Rank[n.phase]
                          /\ \A q \in PhasesOf(s.action) :
                               Rank[q] < Rank[n.phase] /\ ~Unacknowledged(s.action, q)
                                 => Rank[q] <= Rank[phase_finished[u]]
        BY <2>0, <1>0, <1>4, <1>5, <1>6 DEF AckInv
      <3>1. /\ phase_finished[u] \in PhasesOf(s.action)
            /\ ~Unacknowledged(s.action, phase_finished[u])
            /\ Rank[phase_finished[u]] <= Rank[s.phase]
            /\ \A q \in PhasesOf(s.action) :
                 Rank[q] < Rank[s.phase] /\ ~Unacknowledged(s.action, q)
                   => Rank[q] <= Rank[phase_finished[u]]
        BY <2>0, <1>1, <1>3 DEF OwnInv, AckInv
      <3>2. Rank[phase_finished[u]] <= Rank[n.phase]
        BY <3>1, <2>0, <1>3, <1>5, <1>6
      <3>3. ASSUME NEW q \in PhasesOf(s.action), Rank[q] < Rank[n.phase],
                   ~Unacknowledged(s.action, q)
            PROVE  Rank[q] <= Rank[phase_finished[u]]
        <4>1. Rank[q] <= Rank[s.phase] /\ Rank[q] \in Int /\ q \in Phase
          BY <3>3, <1>5, <1>6
        <4>2. CASE Rank[q] < Rank[s.phase]
          BY <4>2, <3>1, <3>3
        <4>3. CASE Rank[q] = Rank[s.phase]
          <5>1. q = s.phase
            BY <4>1, <4>3, <1>3, RankFacts
          <5>2. phase_finished[u] = q
            BY <5>1, <3>3, <1>3
          <5> QED
            BY <5>2, <4>1
        <4> QED
          BY <4>1, <4>2, <4>3, <1>3
      <3> QED
        BY <3>1, <3>2, <3>3
    <2>3. VersionInv(u)'
      BY <2>0, <1>0, <1>1, <1>3, <1>4, <1>5, <1>6 DEF OwnInv, VersionInv
    <2>4. OutsideInv(u)'
      <3> SUFFICES ASSUME Alive(u), \/ pc[u] \in Outside
                                    \/ caller[u] = "heavy" /\ pc[u] \in {"clean", "split", "split_chunk"}
                   PROVE  /\ phase[u] \in PhasesOf(s.action)
                          /\ Rank[phase_finished[u]] <= Rank[phase[u]]
                          /\ Rank[phase[u]] <= Rank[n.phase]
        BY <2>0, <1>0, <1>4, <1>5, <1>6 DEF OutsideInv, Outside
      <3>1. /\ phase[u] \in PhasesOf(s.action)
            /\ Rank[phase_finished[u]] <= Rank[phase[u]]
            /\ Rank[phase[u]] <= Rank[s.phase]
        BY <2>0, <1>1, <1>3 DEF OwnInv, OutsideInv
      <3> QED
        BY <3>1, <2>0, <1>3, <1>5, <1>6
    <2>5. LoopInv(u)'
      <3>1. final_state[u].phase \in Phase /\ Rank[final_state[u].phase] \in Int
        BY <2>0, StateFields, RankFacts
      <3>2. Rank[final_state[u].phase] <= Rank[s.phase] => Rank[final_state[u].phase] <= Rank[n.phase]
        BY <3>1, <1>3, <1>5, <1>6
      <3> QED
        BY <2>0, <3>2, <1>0, <1>1, <1>3, <1>4, <1>5, <1>6 DEF OwnInv, LoopInv, Outside, At
    <2>6. HeavyInv(u)'
      <3>1. u = t => caller[t] # "heavy"
        <4> SUFFICES ASSUME caller[t] = "heavy" PROVE FALSE
          OBVIOUS
        <4>1. system_state = SystemState("GrowIndex", "GROW_IN_PROGRESS", version[t])
          BY <1>0, <1>3, HeavyFacts
        <4> QED
          BY <4>1, <1>1, <1>7 DEF SystemState
      <3> QED
        BY <3>1, <2>0, <1>0, <1>3 DEF OwnInv, HeavyInv, At
    <2>7. ChunkInv(u)'
      <3>1. pc[u] # "split_chunk"
        BY <2>0, <1>1, <1>7 DEF OwnInv, ChunkInv, At
      <3> QED
        BY <3>1, <2>0, <1>0, <1>1, <1>4, <1>5, <1>6 DEF OwnInv, ChunkInv, At
    <2>8. PrevInv(u)'
      BY <2>0, <1>0, <1>1, <1>4, <1>5, <1>6 DEF OwnInv, PrevInv, At
    <2> QED
      BY <2>1, <2>2, <2>3, <2>4, <2>5, <2>6, <2>7, <2>8 DEF OwnInv
  <1>9. ASSUME NEW u \in Thread PROVE MoveInv(u)'
    <2>1. CASE u = t
      <3>1. /\ Rank[phase_finished[t]] <= Rank[s.phase] /\ phase_finished[t] \in Phase
            /\ Rank[phase_finished[t]] \in Int
        BY <1>0, <1>1, <1>3, RankFacts DEF PhaseInv, ThreadInv, AckInv, PhaseTypeOK
      <3>2. phase_finished[t] # n.phase
        BY <3>1, <1>3, <1>5, <1>6
      <3>3. n.phase = "INDEX_CHKPT" => index_io = "none"
        <4> SUFFICES ASSUME n.phase = "INDEX_CHKPT" PROVE index_io = "none"
          OBVIOUS
        <4>1. s.action \in {"CheckpointFull", "CheckpointIndex"}
          BY <1>3, <1>5, PhasesTable DEF Actions
        <4>2. "PREP_INDEX_CHKPT" \in PhasesOf(s.action)
          BY <4>1, PhasesTable
        <4>3. Rank[s.phase] = 1
          BY <4>2, <1>3, <1>5, RankTable
        <4>4. s.phase = "PREP_INDEX_CHKPT"
          BY <4>3, <1>3, RankTable, RankFacts, PhaseSet
        <4> QED
          BY <4>1, <4>4, <1>0, <1>1 DEF CheckpointInv
      <3>4. n.phase = "WAIT_FLUSH" => flush = "none"
        <4> SUFFICES ASSUME n.phase = "WAIT_FLUSH", flush # "none" PROVE FALSE
          BY <1>0
        <4>1. s.phase \in {"WAIT_FLUSH", "PERSISTENCE_CALLBACK"}
          BY <1>0, <1>1, <1>3 DEF CheckpointInv
        <4> QED
          BY <4>1, <1>5, RankTable
      <3>5. n.action # "None"
        BY <1>3, <1>5 DEF Actions
      <3> QED
        BY <2>1, <3>2, <3>3, <3>4, <3>5, <1>0, <1>4 DEF MoveInv, At
    <2>2. CASE u # t
      <3>1. /\ pc'[u] = pc[u] /\ moving'[u] = moving[u] /\ pc[u] # "moved" /\ MoveInv(u)
            /\ Current(u)' = Current(u)
        BY <2>2, <1>3, <1>4 DEF PhaseInv, ThreadInv
      <3>2. PICK m : m = moving[u]
        OBVIOUS
      <3>3. pc[u] \in {"scan", "move"} => Rank[m.phase] <= Rank[s.phase] /\ Rank[m.phase] \in Int
        BY <3>2, <1>1, <1>3, MovingFacts
      <3>4. pc[u] \in {"scan", "move"} => moving'[u] # system_state'
        BY <3>1, <3>2, <3>3, <1>3, <1>4, <1>5, <1>6
      <3> QED
        BY <3>1, <3>4, <1>0 DEF MoveInv, At
    <2> QED
      BY <2>1, <2>2
  <1>10. SystemInv'
    <2>1. \A u \in Thread : pc'[u] = "moved" => u = t
      BY <1>3, <1>4
    <2>2. \A u \in Thread : pc'[u] # "init_action"
      BY <1>4 DEF Starting, At
    <2>3. n.action # "None"
      BY <1>3, <1>5 DEF Actions
    <2> QED
      BY <2>1, <2>2, <2>3, <1>4, <1>5, <1>6 DEF SystemInv, At
  <1>11. CheckpointInv'
    <2>1. n.phase # "PREP_INDEX_CHKPT"
      BY <1>3, <1>5, RankFacts, RankTable
    <2>2. flush # "none" => s.action \in LogCheckpoints /\ n.phase = "PERSISTENCE_CALLBACK"
      <3> SUFFICES ASSUME flush # "none"
                   PROVE  s.action \in LogCheckpoints /\ n.phase = "PERSISTENCE_CALLBACK"
        OBVIOUS
      <3>1. s.action \in LogCheckpoints /\ s.phase = "WAIT_FLUSH"
        BY <1>0, <1>1, <1>3, <1>7 DEF CheckpointInv
      <3> QED
        BY <3>1, <1>5, PhasesTable, RankTable DEF LogCheckpoints
    <2>3. notified = {}
      BY <1>0, <1>1, <1>3, <1>7 DEF CheckpointInv
    <2>4. s.action \in LogCheckpoints /\ n.phase = "PERSISTENCE_CALLBACK" => flush = "done"
      <3> SUFFICES ASSUME s.action \in LogCheckpoints, n.phase = "PERSISTENCE_CALLBACK"
                   PROVE  flush = "done"
        OBVIOUS
      <3>1. "WAIT_FLUSH" \in PhasesOf(s.action)
        BY PhasesTable DEF LogCheckpoints
      <3>2. Rank[s.phase] = 6
        BY <3>1, <1>3, <1>5, RankTable
      <3>3. s.phase = "WAIT_FLUSH"
        BY <3>2, <1>3, RankTable, RankFacts, PhaseSet
      <3>4. phase_finished[t] = "WAIT_FLUSH"
        BY <3>3, <1>3 DEF Unacknowledged
      <3>5. Rank["WAIT_FLUSH"] >= Rank["WAIT_FLUSH"]
        BY RankTable
      <3> QED
        BY <3>4, <3>5, <1>0, <1>1, <1>3 DEF CheckpointInv
    <2>5. s.action \in LogCheckpoints =>
            \A u \in Thread : Alive(u) =>
              /\ Rank[phase_finished[u]] >= Rank["PREPARE"] => u \in guids
              /\ Rank[phase_finished[u]] >= Rank["WAIT_FLUSH"] => u \in contexts /\ flush = "done"
      BY <1>0, <1>1, <1>3 DEF CheckpointInv
    <2> QED
      BY <2>1, <2>2, <2>3, <2>4, <2>5, <1>0, <1>4, <1>5 DEF CheckpointInv
  <1> QED
    BY <1>4, <1>8, <1>9, <1>10, <1>11 DEF PhaseInv, ThreadInv, OwnInv


\* Once a thread has left a checkpoint's IN_PROGRESS behind, it has the version
\* of the system: it is not before the shift.  The other actions do not shift.
LEMMA VersionsAgree ==
  ASSUME PhaseInv, NEW u \in Thread, Alive(u), NEW s, s = system_state, Underway,
         s.action \in LogCheckpoints => Rank[phase_finished[u]] >= 5
  PROVE  version[u] = s.version
  <1>0. /\ OwnInv(u) /\ SystemInv /\ PhaseTypeOK /\ s \in StateSet
        /\ version[u] \in Nat /\ phase[u] \in Phase /\ pc[u] \in Labels
        /\ caller[u] \in {"none", "heavy", "split"}
        /\ phase_finished[u] \in Phase /\ Rank[phase_finished[u]] \in Int
    BY RankFacts DEF PhaseInv, ThreadInv, OwnInv, PhaseTypeOK
  <1>1. /\ s.action \in Actions /\ s.phase \in PhasesOf(s.action) /\ s.version \in Int
        /\ Rank[s.phase] \in Int
    BY <1>0, StateFields, RankFacts DEF SystemInv
  <1>2. version[u] - Shifted(phase[u]) = Base(s)
    BY <1>0 DEF OwnInv, VersionInv
  <1>3. s.action \notin LogCheckpoints => \A q \in PhasesOf(s.action) : Shifted(q) = 0
    BY <1>1, PhasesTable DEF Actions, LogCheckpoints, Shifted
  <1>4. s.action \in LogCheckpoints =>
          \A q \in PhasesOf(s.action) : Rank[q] >= 4 => Shifted(q) = 1
    BY PhasesTable, RankTable DEF LogCheckpoints, Shifted
  <1>5. Shifted(phase[u]) = Shifted(s.phase)
    <2>1. CASE \/ pc[u] \in Outside
               \/ caller[u] = "heavy" /\ pc[u] \in {"clean", "split", "split_chunk"}
      <3>1. /\ phase[u] \in PhasesOf(s.action) /\ Rank[phase_finished[u]] <= Rank[phase[u]]
            /\ Rank[phase[u]] <= Rank[s.phase]
        BY <2>1, <1>0 DEF OwnInv, OutsideInv
      <3>2. Rank[phase[u]] \in Int
        BY <1>0, RankFacts
      <3> QED
        BY <3>1, <3>2, <1>0, <1>1, <1>3, <1>4
    <2>2. CASE caller[u] = "heavy" /\ pc[u] \in {"scan", "spin", "move", "moved"}
      <3>1. phase[u] = "REST" /\ s = SystemState("GrowIndex", "GROW_IN_PROGRESS", version[u])
        BY <2>2, HeavyFacts
      <3> QED
        BY <3>1 DEF SystemState, Shifted
    <2>3. CASE caller[u] # "heavy" /\ pc[u] \notin Outside
      <3>1. PICK p : p = previous_state[u]
        OBVIOUS
      <3>2. PICK f : f = final_state[u]
        OBVIOUS
      <3>3. PICK c : c = Current(u)
        OBVIOUS
      <3>4. /\ p.phase \in PhasesOf(f.action) /\ c.phase \in PhasesOf(f.action)
            /\ c.action = f.action /\ s.action = c.action
            /\ \A q \in PhasesOf(f.action) : Rank[q] < Rank[c.phase] => Rank[q] <= Rank[p.phase]
            /\ Rank[p.phase] \in Int /\ Rank[c.phase] \in Int
            /\ Rank[phase_finished[u]] <= Rank[c.phase] /\ Rank[c.phase] <= Rank[s.phase]
        BY <2>3, <3>1, <3>2, <3>3, CurrentFacts
      <3>5. phase[u] = p.phase \/ (c.phase = "GROW_IN_PROGRESS" /\ phase[u] = "REST")
        BY <2>3, <3>1, <3>3, <1>0 DEF OwnInv, LoopInv
      <3>6. CASE s.action \in LogCheckpoints
        <4>1. "IN_PROGRESS" \in PhasesOf(f.action) /\ c.phase # "GROW_IN_PROGRESS"
          BY <3>4, <3>6, PhasesTable DEF LogCheckpoints
        <4>2. Rank[p.phase] >= 4 /\ Rank[s.phase] >= 4
          BY <3>4, <3>6, <4>1, <1>0, <1>1, RankTable
        <4>3. phase[u] = p.phase
          BY <3>5, <4>1
        <4> QED
          BY <3>4, <3>6, <4>2, <4>3, <1>1, <1>4
      <3>7. CASE s.action \notin LogCheckpoints
        <4>1. Shifted("REST") = 0
          BY DEF Shifted
        <4> QED
          BY <3>4, <3>5, <3>7, <4>1, <1>1, <1>3
      <3> QED
        BY <3>6, <3>7
    <2> QED
      <3>1. pc[u] \notin {"tail", "step"} \/ caller[u] # "heavy"
        BY <1>0 DEF OwnInv, ControlInv, At
      <3> QED
        BY <2>1, <2>2, <2>3, <3>1, <1>0 DEF Labels, Outside
  <1> QED
    BY <1>0, <1>1, <1>2, <1>5 DEF Base, Shifted

\* The system comes to rest.
LEMMA MoveToRest ==
  ASSUME PhaseInv, UNCHANGED host, NEW t \in Thread, MoveSucceeds(t),
         system_state.phase = LastOf[system_state.action]
  PROVE  PhaseInv'
  <1> USE DEF context, tables, checkpoint
  <1>0. /\ SystemInv /\ CheckpointInv /\ At(t, "move") /\ pc[t] = "move" /\ system_state = moving[t]
        /\ PhaseTypeOK
        /\ UNCHANGED <<op, caller, previous_state, final_state, idx, chunk, index_io, flush, guids,
                       contexts, notified, gc_, grow_, session, phase, version, prev_pending,
                       phase_finished>>
    BY DEF PhaseInv, MoveSucceeds, At
  <1>1. PICK s : s = system_state
    OBVIOUS
  <1>2. PICK n : n = GetNextState(s)
    OBVIOUS
  <1>3. /\ s \in StateSet /\ s.action \in Actions /\ s.phase \in PhasesOf(s.action)
        /\ s.phase # "REST" /\ s.phase \in Phase /\ Rank[s.phase] \in Int
        /\ Underway /\ ~Starting /\ Alive(t)
        /\ ~Unacknowledged(s.action, s.phase) =>
             \A u \in Thread : Alive(u) => phase_finished[u] = s.phase
        /\ \A u \in Thread : pc[u] # "moved"
    BY <1>0, <1>1, MoveFacts
  <1>4. /\ PhaseTypeOK' /\ HeldInv' /\ ~Starting' /\ system_state' = n
        /\ pc'[t] = "moved" /\ moving'[t] = n
        /\ \A u \in Thread \ {t} : pc'[u] = pc[u] /\ moving'[u] = moving[u]
        /\ \A u \in Thread : (Alive(u)' <=> Alive(u)) /\ Current(u)' = Current(u)
    BY <1>1, <1>2, MoveFrame
  <1>5. /\ n \in StateSet /\ n.action = s.action /\ n.phase = "REST" /\ n.version = s.version
        /\ ~Underway' /\ n.action # "None"
    <2>1. /\ n \in StateSet /\ n.action = s.action /\ n.phase = "REST" /\ n.version = s.version
      BY <1>1, <1>2, <1>3, NextFacts
    <2> QED
      BY <2>1, <1>3, <1>4 DEF Underway, Actions
  <1>6. /\ \A u \in Thread : Alive(u) => phase_finished[u] = s.phase
        /\ s.phase = LastOf[s.action] /\ s.phase \in LastPhases
    <2>1. ~Unacknowledged(s.action, s.phase)
      BY <1>1, LastTable DEF Unacknowledged
    <2> QED
      BY <2>1, <1>1, <1>3, ActionPhases
  <1>7. ASSUME NEW u \in Thread PROVE OwnInv(u)'
    <2>0. /\ OwnInv(u) /\ pc'[u] = (IF u = t THEN "moved" ELSE pc[u])
          /\ (Alive(u)' <=> Alive(u)) /\ Current(u)' = Current(u)
          /\ phase[u] \in Phase /\ Rank[phase[u]] \in Int
          /\ (pc[u] # "idle" => Alive(u))
      BY <1>0, <1>4, RankFacts DEF PhaseInv, ThreadInv, OwnInv, PhaseTypeOK, ControlInv, At
    <2>1. ControlInv(u)'
      BY <2>0, <1>0, <1>3, <1>4 DEF OwnInv, ControlInv, At, Outside
    <2>2. AckInv(u)'
      <3>1. phase_finished[u] \in LastPhases \cup {"REST"}
        BY <2>0, <1>6 DEF OwnInv, ControlInv
      <3> QED
        BY <3>1, <2>0, <1>0, <1>4, <1>5, <1>6 DEF AckInv
    <2>3. VersionInv(u)'
      <3> SUFFICES ASSUME Alive(u) PROVE version[u] = s.version
        BY <2>0, <1>0, <1>4, <1>5 DEF VersionInv
      <3>1. s.action \in LogCheckpoints => Rank[phase_finished[u]] >= 5
        BY <1>6, LastTable, RankTable DEF LogCheckpoints
      <3> QED
        BY <3>1, <1>1, <1>3, VersionsAgree
    <2>4. OutsideInv(u)'
      <3> SUFFICES ASSUME Alive(u), \/ pc[u] \in Outside
                                    \/ caller[u] = "heavy" /\ pc[u] \in {"clean", "split", "split_chunk"}
                   PROVE  phase[u] = s.phase
        BY <2>0, <1>0, <1>4, <1>5, <1>6 DEF OutsideInv, Outside
      <3>1. Rank[s.phase] <= Rank[phase[u]] /\ Rank[phase[u]] <= Rank[s.phase]
        BY <2>0, <1>1, <1>3, <1>6 DEF OwnInv, OutsideInv
      <3> QED
        BY <3>1, <2>0, <1>3, RankFacts
    <2>5. LoopInv(u)'
      <3> SUFFICES ASSUME Alive(u), pc[u] \notin Outside, caller[u] # "heavy" PROVE LoopInv(u)'
        BY <2>0, <1>0 DEF LoopInv, Outside
      <3>1. PICK p : p = previous_state[u]
        OBVIOUS
      <3>2. PICK f : f = final_state[u]
        OBVIOUS
      <3>3. PICK c : c = Current(u)
        OBVIOUS
      <3>4. /\ f \in StateSet /\ f.phase \in Phase
            /\ c.action = f.action /\ Base(c) = Base(f)
            /\ Rank[c.phase] <= Rank[f.phase] /\ Rank[c.phase] \in Int /\ Rank[f.phase] \in Int
            /\ Rank[phase_finished[u]] <= Rank[c.phase]
            /\ s.action = c.action
        BY <3>1, <3>2, <3>3, <1>1, <1>3, CurrentFacts
      <3>5. Rank[f.phase] <= Rank[s.phase] /\ Base(f) = Base(s)
        BY <3>2, <2>0, <1>1, <1>3 DEF OwnInv, LoopInv
      <3>6. f.phase = s.phase
        BY <3>4, <3>5, <1>3, <1>6, RankFacts
      <3>7. f.version = s.version
        <4>1. f.version \in Int /\ s.version \in Int /\ Shifted(s.phase) \in {0, 1}
          BY <3>4, <1>3, StateFields
        <4> QED
          BY <4>1, <3>5, <3>6 DEF Base
      <3>8. f.phase = LastOf[f.action] /\ phase_finished[u] = f.phase
        BY <3>4, <3>6, <1>6
      <3> QED
        BY <3>2, <3>7, <3>8, <2>0, <1>0, <1>4, <1>5 DEF OwnInv, LoopInv, Outside, At
    <2>6. HeavyInv(u)'
      BY <2>0, <1>0, <1>5 DEF OwnInv, HeavyInv, At
    <2>7. pc[u] # "clean" /\ pc[u] # "split_chunk"
      <3>1. pc[u] = "clean" => s.action = "GC" /\ phase_finished[u] # "GC_IN_PROGRESS"
        BY <2>0, <1>1 DEF OwnInv, ChunkInv, At
      <3>2. pc[u] = "split_chunk" => s.action = "GrowIndex" /\ phase_finished[u] # "GROW_IN_PROGRESS"
        BY <2>0, <1>1 DEF OwnInv, ChunkInv, At
      <3> QED
        BY <3>1, <3>2, <2>0, <1>6, LastTable
    <2>8. ChunkInv(u)'
      BY <2>0, <2>7, <1>0 DEF OwnInv, ChunkInv, At
    <2>9. PrevInv(u)'
      <3> SUFFICES ASSUME prev_pending[u] PROVE FALSE
        BY <1>0 DEF PrevInv
      <3>1. Alive(u)
        BY <2>0 DEF OwnInv, ControlInv
      <3>2. phase_finished[u] \in {"IN_PROGRESS", "REST"}
        BY <2>0 DEF OwnInv, PrevInv
      <3> QED
        BY <3>1, <3>2, <1>3, <1>6, LastTable DEF Actions
    <2> QED
      BY <2>1, <2>2, <2>3, <2>4, <2>5, <2>6, <2>8, <2>9 DEF OwnInv
  <1>8. ASSUME NEW u \in Thread PROVE MoveInv(u)'
    <2>1. CASE u = t
      <3>1. phase_finished[t] # n.phase
        BY <1>3, <1>5, <1>6
      <3> QED
        BY <2>1, <3>1, <1>0, <1>4, <1>5 DEF MoveInv, At
    <2>2. CASE u # t
      <3>1. /\ pc'[u] = pc[u] /\ moving'[u] = moving[u] /\ pc[u] # "moved" /\ MoveInv(u)
            /\ Current(u)' = Current(u)
        BY <2>2, <1>3, <1>4 DEF PhaseInv, ThreadInv
      <3>2. PICK m : m = moving[u]
        OBVIOUS
      <3>3. pc[u] \in {"scan", "move"} => m.phase # "REST"
        BY <3>2, MovingFacts
      <3>4. pc[u] \in {"scan", "move"} => moving'[u] # system_state'
        BY <3>1, <3>2, <3>3, <1>4, <1>5
      <3> QED
        BY <3>1, <3>4, <1>0 DEF MoveInv, At
    <2> QED
      BY <2>1, <2>2
  <1>9. SystemInv'
    <2>1. \A u \in Thread : pc'[u] = "moved" => u = t
      BY <1>3, <1>4
    <2>2. \A u \in Thread : pc'[u] # "init_action"
      BY <1>4 DEF Starting, At
    <2> QED
      BY <2>1, <2>2, <1>4, <1>5 DEF SystemInv, At
  <1>10. CheckpointInv'
    <2>1. s.action \in LogCheckpoints => s.phase = "PERSISTENCE_CALLBACK"
      BY <1>6, LastTable DEF LogCheckpoints
    <2>2. s.action \in LogCheckpoints => flush = "done"
      BY <2>1, <1>0, <1>1, <1>3 DEF CheckpointInv
    <2> QED
      BY <2>2, <1>0, <1>1, <1>3, <1>4, <1>5 DEF CheckpointInv
  <1> QED
    BY <1>4, <1>7, <1>8, <1>9, <1>10 DEF PhaseInv, ThreadInv, OwnInv

LEMMA MoveCasStep ==
  ASSUME PhaseInv, UNCHANGED host, NEW t \in Thread, MoveCas(t)
  PROVE  PhaseInv'
  <1>1. CASE MoveSucceeds(t)
    BY <1>1, MoveOn, MoveToRest
  <1>2. CASE /\ At(t, "move") /\ system_state # moving[t] /\ Resume(t)
             /\ UNCHANGED <<global, session, context, phase_finished>>
    <2>1. pc[t] = "move" /\ MoveInv(t)
      BY <1>2 DEF At, PhaseInv, ThreadInv
    <2>2. ASSUME caller[t] = "heavy" PROVE ~Underway
      <3>1. Underway => system_state = SystemState("GrowIndex", "GROW_IN_PROGRESS", version[t])
        BY <2>1, <2>2, HeavyFacts
      <3>2. moving[t] = SystemState("GrowIndex", "GROW_IN_PROGRESS", version[t])
        BY <2>1, <2>2 DEF MoveInv
      <3> QED
        BY <1>2, <3>1, <3>2
    <2> QED
      BY <1>2, <2>1, <2>2, WaitEnds
  <1> QED
    BY <1>1, <1>2 DEF MoveCas, MoveSucceeds, global

-----------------------------------------------------------------------------
(***************************************************************************)
(* The start of an action.                                                 *)
(***************************************************************************)
LEMMA StartActionStep ==
  ASSUME PhaseInv, HostWaits, UNCHANGED host, NEW t \in Thread, NEW a \in host.actions,
         StartAction(t, a)
  PROVE  PhaseInv'
  <1> USE DEF context, tables, checkpoint, locals, Goto
  <1>0. /\ PhaseTypeOK /\ SystemInv /\ CheckpointInv /\ HeldInv
        /\ system_state.action = "None" /\ system_state \in StateSet /\ pc[t] = "idle"
        /\ session[t] = "active"
        /\ UNCHANGED <<index_io, flush, guids, contexts, notified, gc_, grow_, resize_info, session,
                       phase, version, pending, prev_pending, phase_finished, op, caller,
                       previous_state, final_state, moving, idx, chunk>>
    BY DEF PhaseInv, PhaseTypeOK, StartAction, Free, Running, At
  <1>1. a \in Actions
    BY <1>0, HostAssumption DEF PhaseTypeOK, Host
  <1>2. ASSUME NEW u \in Thread PROVE pc[u] = "idle" /\ (Alive(u) => phase[u] = "REST")
    <2>1. Resting(u)
      BY DEF StartAction, HostWaits
    <2>2. ~Alive(u) => pc[u] = "idle"
      BY DEF PhaseInv, ThreadInv, ControlInv, At
    <2> QED
      BY <2>1, <2>2 DEF Resting, Running, Alive, At
  <1>3. ~Underway /\ ~Starting
    BY <1>0 DEF SystemInv
  <1>4. /\ system_state' \in StateSet /\ system_state'.action = a /\ system_state'.phase = "REST"
        /\ system_state'.version = system_state.version /\ ~Underway' /\ a # "None"
    <2>1. system_state' = SystemState(a, "REST", system_state.version)
      BY DEF StartAction
    <2>2. system_state.version \in Nat /\ "REST" \in Phase
      BY <1>0, StateFields, PhaseSet
    <2> QED
      BY <2>1, <2>2, <1>1 DEF SystemState, StateSet, Underway, Actions
  <1>5. PhaseTypeOK'
    BY <1>0, <1>4 DEF PhaseTypeOK, StartAction, Labels
  <1>6. pc'[t] = "init_action" /\ \A u \in Thread \ {t} : pc'[u] = "idle"
    BY <1>0, <1>2 DEF PhaseTypeOK, StartAction
  <1>7. Starting'
    BY <1>6 DEF Starting, At
  <1>8. ASSUME NEW u \in Thread PROVE ThreadInv(u)'
    <2>0. /\ ThreadInv(u) /\ (Alive(u)' <=> Alive(u)) /\ pc[u] = "idle"
          /\ pc'[u] \in {"idle", "init_action"} /\ (pc'[u] = "idle" \/ u = t)
          /\ (Alive(u) => phase[u] = "REST") /\ caller[u] = "none"
      BY <1>0, <1>2, <1>6 DEF PhaseInv, ThreadInv, Alive, ControlInv, Outside
    <2>1. ControlInv(u)'
      <3>1. ~Alive(u) => pc'[u] = "idle"
        BY <2>0, <1>0 DEF Alive
      <3> QED
        BY <3>1, <2>0, <1>0 DEF ThreadInv, ControlInv, At, Outside
    <2>2. AckInv(u)' /\ VersionInv(u)' /\ OutsideInv(u)'
      BY <2>0, <1>0, <1>3, <1>4, <1>7 DEF ThreadInv, AckInv, VersionInv, OutsideInv
    <2>3. LoopInv(u)' /\ HeavyInv(u)' /\ MoveInv(u)'
      BY <2>0, <1>0 DEF LoopInv, HeavyInv, MoveInv, Outside, At
    <2>4. ChunkInv(u)' /\ PrevInv(u)'
      BY <2>0, <1>0, <1>3 DEF ThreadInv, ChunkInv, PrevInv, At
    <2> QED
      BY <2>1, <2>2, <2>3, <2>4 DEF ThreadInv
  <1>9. SystemInv'
    BY <1>4, <1>6, <1>7 DEF SystemInv, At
  <1>10. HeldInv'
    <2>1. \A u \in Thread \ {t} : pc'[u] = pc[u] /\ chunk'[u] = chunk[u]
      BY <1>0, <1>2, <1>6
    <2> QED
      BY <2>1, <1>0, HeldStays
  <1>11. CheckpointInv'
    BY <1>0, <1>4, <1>7 DEF CheckpointInv, LogCheckpoints
  <1> QED
    BY <1>5, <1>8, <1>9, <1>10, <1>11 DEF PhaseInv

LEMMA InitActionStep ==
  ASSUME PhaseInv, UNCHANGED host, NEW t \in Thread, InitAction(t)
  PROVE  PhaseInv'
  <1> USE DEF context, tables, checkpoint, locals, Goto
  <1>0. /\ PhaseTypeOK /\ SystemInv /\ CheckpointInv /\ HeldInv
        /\ system_state \in StateSet /\ pc[t] = "init_action" /\ At(t, "init_action")
        /\ phase_finished' = [u \in Thread |-> "REST"]
        /\ UNCHANGED <<resize_info, session,
                       phase, version, pending, prev_pending, op, caller,
                       previous_state, final_state, moving, idx, chunk>>
    BY DEF PhaseInv, PhaseTypeOK, InitAction, At, ResetPhaseFinished
  <1>1. Starting /\ ~Underway /\ system_state.action # "None"
    BY <1>0 DEF Starting, SystemInv
  <1>2. PICK s : s = system_state
    OBVIOUS
  <1>3. PICK n : n = GetNextState(s)
    OBVIOUS
  <1>4. /\ s.action \in Actions /\ s.phase = "REST" /\ s.version \in Int
        /\ "REST" \in PhasesOf(s.action) /\ LastOf[s.action] # "REST"
        /\ \A q \in PhasesOf(s.action) : q \in Phase /\ Rank[q] \in Int
    BY <1>0, <1>1, <1>2, StateFields, ActionPhases, RankFacts DEF Underway
  <1>5. /\ n \in StateSet /\ n.action = s.action /\ n.phase \in PhasesOf(s.action)
        /\ n.phase # "REST" /\ Rank["REST"] < Rank[n.phase] /\ Base(n) = Base(s)
        /\ \A q \in PhasesOf(s.action) : Rank[q] <= Rank["REST"] \/ Rank[n.phase] <= Rank[q]
    BY <1>0, <1>2, <1>3, <1>4, NextFacts
  <1>6. /\ system_state' = n /\ Underway'
    BY <1>2, <1>3, <1>5 DEF InitAction, Underway
  <1>7. ASSUME NEW u \in Thread
        PROVE  /\ pc[u] \in {"idle", "refresh", "init_action"} /\ caller[u] = "none"
               /\ pc[u] = "init_action" => u = t
               /\ ~prev_pending[u]
               /\ Alive(u) => phase[u] = "REST" /\ version[u] = s.version
               /\ ~Alive(u) => pc[u] = "idle" /\ op[u] = NoTable
    <2>1. ThreadInv(u)
      BY DEF PhaseInv
    <2>2. pc[u] \in {"idle", "refresh", "init_action"} /\ (Alive(u) => phase[u] = "REST")
          /\ (~Alive(u) => pc[u] = "idle" /\ op[u] = NoTable)
      BY <2>1, <1>1 DEF ThreadInv, ControlInv, At
    <2>3. caller[u] = "none"
      BY <2>1, <2>2 DEF ThreadInv, ControlInv, Outside
    <2>4. ~prev_pending[u]
      BY <2>1, <1>1 DEF ThreadInv, PrevInv
    <2>5. Alive(u) => version[u] = s.version
      BY <2>1, <1>1, <1>2 DEF ThreadInv, VersionInv
    <2>6. pc[u] = "init_action" => u = t
      BY <1>0 DEF SystemInv, At
    <2> QED
      BY <2>2, <2>3, <2>4, <2>5, <2>6
  <1>8. /\ pc' \in [Thread -> Labels] /\ pc'[t] \in {"idle", "refresh"}
        /\ \A u \in Thread \ {t} : pc'[u] = pc[u]
    BY <1>0 DEF PhaseTypeOK, InitAction, Labels
  <1>9. \A u \in Thread : pc'[u] \in {"idle", "refresh"}
    BY <1>7, <1>8
  <1>10. ~Starting'
    BY <1>9 DEF Starting, At
  <1>11. /\ gc_' \in ChunkState /\ grow_' \in ChunkState
         /\ gc_' = gc_ \/ gc_'.next_chunk = 0
         /\ grow_' = grow_ \/ grow_'.next_chunk = 0
    <2>1. PICK z : z = [next_chunk |-> 0, done |-> {}]
      OBVIOUS
    <2>2. z \in ChunkState /\ z.next_chunk = 0
      BY <2>1, BoundsAssumption DEF ChunkState
    <2>3. (gc_' = gc_ \/ gc_' = z) /\ (grow_' = grow_ \/ grow_' = z)
      BY <2>1 DEF InitAction
    <2> QED
      BY <2>2, <2>3, <1>0 DEF PhaseTypeOK
  <1>12. \/ /\ s.action \in {"GC", "GrowIndex"}
            /\ UNCHANGED <<index_io, flush, guids, contexts, notified>>
         \/ /\ s.action \notin {"GC", "GrowIndex"}
            /\ index_io' = "none" /\ flush' = "none" /\ notified' = {}
    BY <1>2 DEF InitAction
  <1>13. PhaseTypeOK'
    <2>1. index_io' \in {"none", "started", "done"} /\ flush' \in {"none", "started", "done"}
      BY <1>0, <1>12 DEF PhaseTypeOK
    <2>2. phase_finished' \in [Thread -> Phase]
      BY <1>0, PhaseSet
    <2> QED
      BY <2>1, <2>2, <1>0, <1>5, <1>6, <1>8, <1>11 DEF PhaseTypeOK
  <1>14. ASSUME NEW u \in Thread PROVE ThreadInv(u)'
    <2>0. /\ (Alive(u)' <=> Alive(u)) /\ phase_finished'[u] = "REST"
          /\ pc'[u] \in {"idle", "refresh"} /\ caller'[u] = "none"
          /\ phase'[u] = phase[u] /\ version'[u] = version[u] /\ ~prev_pending'[u]
          /\ op'[u] = op[u]
          /\ (Alive(u) => phase[u] = "REST" /\ version[u] = s.version)
          /\ (~Alive(u) => pc'[u] = "idle" /\ op[u] = NoTable)
      <3>1. ~Alive(u) => u # t
        BY <1>0, <1>7
      <3> QED
        BY <3>1, <1>0, <1>7, <1>8, <1>9 DEF Alive
    <2>1. ControlInv(u)'
      BY <2>0, <1>10 DEF ControlInv, At, Outside
    <2>2. AckInv(u)'
      <3>1. Rank["REST"] = 0
        BY RankTable
      <3>2. \A q \in PhasesOf(s.action) : Rank[q] < Rank[n.phase] => Rank[q] <= Rank["REST"]
        <4>1. n.phase \in Phase /\ Rank[n.phase] \in Int
          BY <1>4, <1>5
        <4> QED
          BY <4>1, <1>4, <1>5
      <3>3. Rank["REST"] <= Rank[n.phase]
        BY <3>1, <1>4, <1>5
      <3> QED
        BY <2>0, <3>2, <3>3, <1>4, <1>5, <1>6 DEF AckInv, Unacknowledged
    <2>3. VersionInv(u)'
      <3>1. Alive(u) => version[u] - Shifted(phase[u]) = Base(s)
        BY <2>0, <1>4 DEF Base
      <3> QED
        BY <3>1, <2>0, <1>5, <1>6 DEF VersionInv
    <2>4. OutsideInv(u)'
      <3>1. Rank["REST"] <= Rank["REST"] /\ Rank["REST"] <= Rank[n.phase]
        BY <1>4, <1>5, RankTable
      <3> QED
        BY <2>0, <3>1, <1>4, <1>5, <1>6 DEF OutsideInv
    <2>5. LoopInv(u)' /\ HeavyInv(u)' /\ MoveInv(u)'
      BY <2>0 DEF LoopInv, HeavyInv, MoveInv, Outside, At
    <2>6. ChunkInv(u)' /\ PrevInv(u)'
      BY <2>0 DEF ChunkInv, PrevInv, At
    <2> QED
      BY <2>1, <2>2, <2>3, <2>4, <2>5, <2>6 DEF ThreadInv
  <1>15. SystemInv'
    <2>1. n.action # "None"
      BY <1>4, <1>5 DEF Actions
    <2> QED
      BY <2>1, <1>5, <1>6, <1>9, <1>10 DEF SystemInv, At
  <1>16. HeldInv'
    <2>1. \A c \in Chunk : ~(c < 0)
      BY DEF Chunk
    <2>2. \A c \in Chunk : c < gc_.next_chunk => c \in gc_.done
      BY <1>0, <1>7 DEF HeldInv, At
    <2>3. \A c \in Chunk : c < grow_.next_chunk => c \in grow_.done
      BY <1>0, <1>7 DEF HeldInv, At
    <2> QED
      BY <2>1, <2>2, <2>3, <1>11 DEF HeldInv
  <1>17. CheckpointInv'
    <2>1. CASE s.action \in {"GC", "GrowIndex"}
      <3>1. flush = "none" /\ notified = {} /\ s.action \notin LogCheckpoints
        BY <2>1, <1>0, <1>2 DEF CheckpointInv, LogCheckpoints
      <3> QED
        BY <2>1, <3>1, <1>5, <1>6, <1>12 DEF CheckpointInv
    <2>2. CASE s.action \notin {"GC", "GrowIndex"}
      <3>1. s.action \in LogCheckpoints => n.phase # "PERSISTENCE_CALLBACK"
        <4> SUFFICES ASSUME s.action \in LogCheckpoints, n.phase = "PERSISTENCE_CALLBACK" PROVE FALSE
          OBVIOUS
        <4>1. "PREPARE" \in PhasesOf(s.action)
          BY PhasesTable DEF LogCheckpoints
        <4> QED
          BY <4>1, <1>5, RankTable
      <3>2. \A u \in Thread : /\ ~(Rank[phase_finished'[u]] >= Rank["PREPARE"])
                              /\ ~(Rank[phase_finished'[u]] >= Rank["WAIT_FLUSH"])
        BY <1>0, RankTable
      <3>3. index_io' = "none" /\ flush' = "none" /\ notified' = {}
        BY <2>2, <1>12
      <3> QED
        BY <3>1, <3>2, <3>3, <1>5, <1>6 DEF CheckpointInv
    <2> QED
      BY <2>1, <2>2
  <1> QED
    BY <1>13, <1>14, <1>15, <1>16, <1>17 DEF PhaseInv

-----------------------------------------------------------------------------
(***************************************************************************)
(* The invariant holds.                                                    *)
(***************************************************************************)
LEMMA InitialPhases == Init /\ HostWaits => PhaseInv
  <1> SUFFICES ASSUME Init, HostWaits PROVE PhaseInv
    OBVIOUS
  <1> USE DEF Init
  <1>1. /\ Rest \in StateSet /\ Rest.action = "None" /\ Rest.phase = "REST" /\ Rest.version = 1
        /\ 0 \in 0 .. NumThreads /\ 0 \in Chunk /\ "REST" \in Phase
        /\ [next_chunk |-> 0, done |-> {}] \in ChunkState
    BY RestInStates, BoundsAssumption, PhaseSet DEF Rest, SystemState, Chunk, ChunkState
  <1>2. \A t \in Thread : session[t] = "active"
    BY DEF HostWaits, JoinedAtStart
  <1>3. PhaseTypeOK
    BY <1>1, <1>2 DEF PhaseTypeOK, Labels
  <1>4. ~Starting /\ ~Underway
    BY <1>1 DEF Starting, Underway, At
  <1>5. SystemInv
    BY <1>1, <1>4 DEF SystemInv, At
  <1>6. HeldInv
    <2>1. \A c \in Chunk : ~(c < 0)
      BY DEF Chunk
    <2> QED
      BY <2>1 DEF HeldInv
  <1>7. CheckpointInv
    BY <1>1 DEF CheckpointInv, LogCheckpoints
  <1>8. ASSUME NEW t \in Thread PROVE ThreadInv(t)
    <2>1. ControlInv(t) /\ AckInv(t)
      BY <1>1, <1>2, <1>4 DEF ControlInv, AckInv, Alive, At, Outside
    <2>2. VersionInv(t) /\ OutsideInv(t)
      BY <1>1, <1>4 DEF VersionInv, OutsideInv
    <2>3. LoopInv(t) /\ HeavyInv(t) /\ MoveInv(t)
      BY DEF LoopInv, HeavyInv, MoveInv, Outside, At
    <2>4. ChunkInv(t) /\ PrevInv(t)
      BY DEF ChunkInv, PrevInv, At
    <2> QED
      BY <2>1, <2>2, <2>3, <2>4 DEF ThreadInv
  <1> QED
    BY <1>3, <1>5, <1>6, <1>7, <1>8 DEF PhaseInv

LEMMA StutterPhases == PhaseInv /\ UNCHANGED vars => PhaseInv'
  <1> SUFFICES ASSUME PhaseInv, UNCHANGED vars PROVE PhaseInv'
    OBVIOUS
  <1> USE DEF vars, global, context, locals, tables, checkpoint
  <1>1. PhaseTypeOK' /\ HeldInv'
    BY DEF PhaseInv, PhaseTypeOK, HeldInv, At
  <1>2. /\ Starting' <=> Starting
        /\ \A u \in Thread : SameThread(u)
        /\ ChunksGrow /\ system_state' = system_state
        /\ \A u \in Thread : (Alive(u)' <=> Alive(u)) /\ phase_finished'[u] = phase_finished[u]
    BY DEF Starting, At, SameThread, ChunksGrow, Alive
  <1>3. ASSUME NEW u \in Thread PROVE OwnInv(u)'
    <2>1. OwnInv(u)
      BY DEF PhaseInv, ThreadInv, OwnInv
    <2> QED
      BY <2>1, <1>2, OtherThread
  <1>4. ASSUME NEW u \in Thread PROVE MoveInv(u)'
    <2>1. MoveInv(u) /\ index_io' = index_io /\ flush' = flush
      BY DEF PhaseInv, ThreadInv
    <2> QED
      BY <2>1, <1>2, OtherMoves
  <1>5. SystemInv'
    BY <1>2 DEF PhaseInv, SystemInv, At, Underway
  <1>6. CheckpointInv'
    BY <1>2 DEF PhaseInv, CheckpointInv
  <1> QED
    BY <1>1, <1>3, <1>4, <1>5, <1>6 DEF PhaseInv, ThreadInv, OwnInv

LEMMA NextPhases == PhaseInv /\ HostWaits /\ Next => PhaseInv'
  <1> SUFFICES ASSUME PhaseInv, HostWaits, Next PROVE PhaseInv'
    OBVIOUS
  <1>0. UNCHANGED host
    BY DEF Next
  <1>1. CASE IndexIoDone \/ FlushDone
    BY <1>0, <1>1, Disk
  <1>2. ASSUME NEW t \in Thread, Call(t) PROVE PhaseInv'
    <2>1. CASE \/ StartSession(t) \/ StopSession(t) \/ Enter(t)
               \/ (\E async \in BOOLEAN : Leave(t, async))
               \/ CompletePending(t) \/ CompletePrevPending(t) \/ Refresh(t)
      BY <1>0, <2>1, Operations
    <2>2. CASE \E a \in host.actions : StartAction(t, a)
      BY <1>0, <2>2, StartActionStep
    <2>3. CASE EnterGc(t)
      BY <1>0, <2>3, EnterGcStep
    <2>4. CASE EnterGrow(t)
      BY <1>0, <2>4, EnterGrowStep
    <2> QED
      BY <1>2, <2>1, <2>2, <2>3, <2>4 DEF Call
  <1>3. ASSUME NEW t \in Thread, Continue(t) PROVE PhaseInv'
    <2>1. CASE InitAction(t)
      BY <1>0, <2>1, InitActionStep
    <2>2. CASE RefreshLoad(t)
      BY <1>0, <2>2, Operations
    <2>3. CASE HandleLoad(t)
      BY <1>0, <2>3, HandleLoads
    <2>4. CASE Adopt(t)
      BY <1>0, <2>4, AdoptStep
    <2>5. CASE Scan(t)
      BY <1>0, <2>5, ScanStep
    <2>6. CASE \/ StepRest(t) \/ StepPrepIndexChkpt(t) \/ StepPrepare(t) \/ StepInProgress(t)
               \/ StepWaitPending(t) \/ StepWaitFlush(t) \/ StepPersistenceCallback(t)
      BY <1>0, <2>6, CheckpointRounds
    <2>7. CASE StepIndexChkpt(t)
      BY <1>0, <2>7, IndexRound
    <2>8. CASE StepGcIoPending(t) \/ StepGcInProgress(t)
      BY <1>0, <2>8, GcRounds
    <2>9. CASE CleanHashTableBuckets(t)
      BY <1>0, <2>9, Cleaning
    <2>10. CASE StepGrowPrepare(t) \/ StepGrowInProgress(t)
      BY <1>0, <2>10, GrowRounds
    <2>11. CASE SplitClaim(t) \/ SplitChunk(t)
      BY <1>0, <2>11, SplitClaimStep
    <2>12. CASE SplitDone(t)
      BY <1>0, <2>12, SplitDoneStep
    <2>13. CASE SplitSpin(t)
      BY <1>0, <2>13, SplitSpinStep
    <2>14. CASE MoveCas(t)
      BY <1>0, <2>14, MoveCasStep
    <2>15. CASE \/ MovedToIndexChkpt(t) \/ MovedToWaitFlush(t) \/ MovedToGrowInProgress(t)
                \/ MovedQuietly(t)
      BY <1>0, <2>15, MovedSteps
    <2>16. CASE MovedToRest(t)
      BY <1>0, <2>16, MovedToRestStep
    <2> QED
      BY <1>3, <2>1, <2>2, <2>3, <2>4, <2>5, <2>6, <2>7, <2>8, <2>9, <2>10, <2>11, <2>12, <2>13,
         <2>14, <2>15, <2>16 DEF Continue
  <1> QED
    BY <1>1, <1>2, <1>3 DEF Next

\* The host does not change, so it waits in every state or in none.
LEMMA HostStays == [Next]_vars => (HostWaits' <=> HostWaits)
BY DEF Next, vars, HostWaits, JoinedAtStart

\* Under a host that waits, PhaseInv is an invariant of the state machine, for
\* any number of threads, actions and chunks: it is what the barrier of
\* GlobalMoveToNextState, HandleSpecialPhases and phase_finished maintains.
THEOREM PhaseInductive == Spec => [](HostWaits => PhaseInv)
  <1>1. Init => (HostWaits => PhaseInv)
    BY InitialPhases
  <1>2. (HostWaits => PhaseInv) /\ [Next]_vars => (HostWaits => PhaseInv)'
    <2> SUFFICES ASSUME HostWaits => PhaseInv, [Next]_vars, HostWaits' PROVE PhaseInv'
      OBVIOUS
    <2>1. HostWaits /\ PhaseInv
      BY HostStays
    <2>2. CASE Next
      BY <2>1, <2>2, NextPhases
    <2>3. CASE UNCHANGED vars
      BY <2>1, <2>3, StutterPhases
    <2> QED
      BY <2>2, <2>3
  <1> QED
    BY <1>1, <1>2, PTL DEF Spec

-----------------------------------------------------------------------------
(***************************************************************************)
(* What the invariant says.                                                *)
(***************************************************************************)
LEMMA SystemFacts ==
  ASSUME PhaseInv, NEW s, s = system_state
  PROVE  /\ s \in StateSet /\ s.action \in Actions \cup {"None"} /\ s.phase \in Phase
         /\ Rank[s.phase] \in Int
         /\ Underway => /\ s.action \in Actions /\ s.phase \in PhasesOf(s.action)
                        /\ s.phase # "REST"
         /\ \A t \in Thread : /\ phase[t] \in Phase /\ Rank[phase[t]] \in Int
                              /\ phase_finished[t] \in Phase /\ Rank[phase_finished[t]] \in Int
  <1>1. s \in StateSet /\ \A t \in Thread : phase[t] \in Phase /\ phase_finished[t] \in Phase
    BY DEF PhaseInv, PhaseTypeOK
  <1>2. s.action \in Actions \cup {"None"} /\ s.phase \in Phase
    BY <1>1, StateFields
  <1>3. Underway => s.action \in Actions /\ s.phase \in PhasesOf(s.action) /\ s.phase # "REST"
    BY <1>2 DEF PhaseInv, SystemInv, Underway
  <1> QED
    BY <1>1, <1>2, <1>3, RankFacts

LEMMA AssertionsFollow == PhaseInv => AssertionsHold
  <1> SUFFICES ASSUME PhaseInv, NEW t \in Thread
               PROVE  /\ At(t, "step") => ~Unexpected(t) /\ (Swaps(t) => ~prev_pending[t])
                      /\ At(t, "init_action") => \A u \in Thread : phase_finished[u] \in
                           {"REST", "INDEX_CHKPT", "PERSISTENCE_CALLBACK", "GC_IN_PROGRESS",
                            "GROW_IN_PROGRESS"}
    BY DEF AssertionsHold
  <1>1. PICK p : p = previous_state[t]
    OBVIOUS
  <1>2. PICK f : f = final_state[t]
    OBVIOUS
  <1>3. PICK c : c = Current(t)
    OBVIOUS
  <1>4. ASSUME At(t, "step") PROVE ~Unexpected(t)
    <2>1. Alive(t) /\ caller[t] = "none"
      BY <1>1, <1>3, <1>4, StepFacts
    <2>2. pc[t] \notin Outside /\ caller[t] # "heavy"
      BY <1>4, <2>1 DEF At, Outside
    <2>3. c.phase # "REST" /\ (p # f => HasNextState(p))
      BY <1>1, <1>2, <1>3, <2>1, <2>2, CurrentFacts
    <2> QED
      BY <1>1, <1>2, <1>3, <2>3 DEF Unexpected
  <1>5. ASSUME At(t, "step"), Swaps(t), prev_pending[t] PROVE FALSE
    <2>1. \/ /\ c.phase \in {"IN_PROGRESS", "WAIT_PENDING"}
             /\ p.phase \in {"IN_PROGRESS", "WAIT_PENDING"}
          \/ c.phase = "GC_IO_PENDING" /\ p.phase = "GC_IO_PENDING"
      BY <1>1, <1>3, <1>5, PrevAtStep
    <2>2. \/ c.phase = "IN_PROGRESS" /\ p.phase = "PREPARE"
          \/ c.phase = "GC_IO_PENDING" /\ p.phase = "REST"
      BY <1>1, <1>3, <1>5 DEF Swaps, From
    <2> QED
      BY <2>1, <2>2
  <1>6. ASSUME At(t, "init_action"), NEW u \in Thread
        PROVE  phase_finished[u] \in {"REST", "INDEX_CHKPT", "PERSISTENCE_CALLBACK",
                                      "GC_IN_PROGRESS", "GROW_IN_PROGRESS"}
    <2>1. ~Underway
      BY <1>6 DEF PhaseInv, SystemInv, Starting
    <2>2. phase_finished[u] \in LastPhases \cup {"REST"}
      BY <2>1 DEF PhaseInv, ThreadInv, AckInv
    <2> QED
      BY <2>2, LastTable
  <1> QED
    BY <1>4, <1>5, <1>6

LEMMA BesideFollows == PhaseInv => ThreadsAreBeside
  <1> SUFFICES ASSUME PhaseInv, NEW t \in Thread, NEW u \in Thread, Running(t), Running(u),
                      phase[t] \in DOMAIN Beside
               PROVE  phase[u] \in Beside[phase[t]]
    BY DEF ThreadsAreBeside
  <1>1. phase[t] \in {"IN_PROGRESS", "WAIT_PENDING", "WAIT_FLUSH"}
    BY DEF Beside
  <1>2. PICK s : s = system_state
    OBVIOUS
  <1>3. /\ Alive(t) /\ Alive(u) /\ pc[t] \in Outside /\ pc[u] \in Outside
    BY DEF Running, Alive, At, Outside
  <1>4. /\ OutsideInv(t) /\ OutsideInv(u)
    BY DEF PhaseInv, ThreadInv
  <1>5. Underway
    BY <1>1, <1>3, <1>4, LastTable DEF OutsideInv
  <1>6. /\ s.action \in Actions /\ s.phase \in PhasesOf(s.action) /\ Rank[s.phase] \in Int
        /\ s.phase \in Phase
        /\ \A w \in Thread : /\ phase[w] \in Phase /\ Rank[phase[w]] \in Int
                             /\ phase_finished[w] \in Phase /\ Rank[phase_finished[w]] \in Int
    BY <1>2, <1>5, SystemFacts
  <1>7. /\ phase[t] \in PhasesOf(s.action) /\ phase[u] \in PhasesOf(s.action)
        /\ Rank[phase_finished[t]] <= Rank[phase[t]] /\ Rank[phase[t]] <= Rank[s.phase]
        /\ Rank[phase_finished[u]] <= Rank[phase[u]] /\ Rank[phase[u]] <= Rank[s.phase]
    BY <1>2, <1>3, <1>4, <1>5 DEF OutsideInv
  <1>8. s.action \in LogCheckpoints
    BY <1>1, <1>6, <1>7, PhasesTable DEF Actions, LogCheckpoints
  <1>9. {"PREPARE", "IN_PROGRESS", "WAIT_PENDING", "WAIT_FLUSH", "PERSISTENCE_CALLBACK"}
          \subseteq PhasesOf(s.action)
    BY <1>8, PhasesTable DEF LogCheckpoints
  <1>10. ASSUME NEW w \in {t, u},
                NEW q \in {"PREPARE", "IN_PROGRESS", "WAIT_PENDING", "WAIT_FLUSH",
                           "PERSISTENCE_CALLBACK"},
                Rank[q] < Rank[s.phase]
         PROVE  Rank[q] <= Rank[phase_finished[w]]
    <2>1. q \in PhasesOf(s.action) /\ ~Unacknowledged(s.action, q)
      BY <1>9 DEF Unacknowledged
    <2>2. Alive(w) /\ w \in Thread
      BY <1>3
    <2> QED
      BY <1>2, <1>5, <1>10, <2>1, <2>2, Acknowledges
  <1>11. CASE phase[t] = "IN_PROGRESS"
    <2>1. Rank["PREPARE"] <= Rank[phase_finished[u]]
      BY <1>6, <1>7, <1>10, <1>11, RankTable
    <2>2. Rank[s.phase] <= Rank["WAIT_PENDING"]
      BY <1>6, <1>7, <1>10, <1>11, RankTable
    <2>3. 3 <= Rank[phase[u]] /\ Rank[phase[u]] <= 5
      BY <1>6, <1>7, <2>1, <2>2, RankTable
    <2>4. phase[u] \in {"PREPARE", "IN_PROGRESS", "WAIT_PENDING"}
      BY <1>6, <2>3, PhaseSet, RankTable
    <2> QED
      BY <1>11, <2>4 DEF Beside
  <1>12. CASE phase[t] = "WAIT_PENDING"
    <2>1. Rank["IN_PROGRESS"] <= Rank[phase_finished[u]]
      BY <1>6, <1>7, <1>10, <1>12, RankTable
    <2>2. Rank[s.phase] <= Rank["WAIT_FLUSH"]
      BY <1>6, <1>7, <1>10, <1>12, RankTable
    <2>3. 4 <= Rank[phase[u]] /\ Rank[phase[u]] <= 6
      BY <1>6, <1>7, <2>1, <2>2, RankTable
    <2>4. phase[u] \in {"IN_PROGRESS", "WAIT_PENDING", "WAIT_FLUSH"}
      BY <1>6, <2>3, PhaseSet, RankTable
    <2> QED
      BY <1>12, <2>4 DEF Beside
  <1>13. CASE phase[t] = "WAIT_FLUSH"
    <2>1. Rank["WAIT_PENDING"] <= Rank[phase_finished[u]]
      BY <1>6, <1>7, <1>10, <1>13, RankTable
    <2>2. Rank[s.phase] <= Rank["PERSISTENCE_CALLBACK"]
      BY <1>6, <1>8, PhasesTable, RankTable DEF LogCheckpoints
    <2>3. 5 <= Rank[phase[u]] /\ Rank[phase[u]] <= 7
      BY <1>6, <1>7, <2>1, <2>2, RankTable
    <2>4. phase[u] \in {"WAIT_PENDING", "WAIT_FLUSH", "PERSISTENCE_CALLBACK"}
      BY <1>6, <2>3, PhaseSet, RankTable
    <2> QED
      BY <1>13, <2>4 DEF Beside
  <1> QED
    BY <1>1, <1>11, <1>12, <1>13

LEMMA CutFollows == PhaseInv => ConsistentCut
  <1> SUFFICES ASSUME PhaseInv, flush # "none", NEW t \in Thread, Alive(t)
               PROVE  version[t] = system_state.version /\ ~prev_pending[t] /\ t \in guids
    BY DEF ConsistentCut, Alive
  <1>1. PICK s : s = system_state
    OBVIOUS
  <1>2. /\ s.action \in LogCheckpoints /\ ~Starting
        /\ s.phase \in {"WAIT_FLUSH", "PERSISTENCE_CALLBACK", "REST"}
        /\ Rank[phase_finished[t]] >= Rank["PREPARE"] => t \in guids
    BY <1>1 DEF PhaseInv, CheckpointInv
  <1>3. Rank[phase_finished[t]] \in Int
    BY <1>1, SystemFacts
  <1>4. CASE Underway
    <2>1. /\ s.phase \in {"WAIT_FLUSH", "PERSISTENCE_CALLBACK"}
          /\ "WAIT_PENDING" \in PhasesOf(s.action) /\ ~Unacknowledged(s.action, "WAIT_PENDING")
      BY <1>1, <1>2, <1>4, PhasesTable DEF Underway, LogCheckpoints, Unacknowledged
    <2>2. Rank["WAIT_PENDING"] < Rank[s.phase]
      BY <2>1, RankTable
    <2>3. Rank["WAIT_PENDING"] <= Rank[phase_finished[t]]
      BY <1>1, <1>4, <2>1, <2>2, Acknowledges
    <2>4. Rank[phase_finished[t]] >= 5
      BY <1>3, <2>3, RankTable
    <2>5. version[t] = s.version
      BY <1>1, <1>4, <2>4, VersionsAgree
    <2>6. t \in guids
      BY <1>2, <1>3, <2>4, RankTable
    <2>7. phase_finished[t] # "IN_PROGRESS" /\ s.action # "GC"
      BY <1>2, <2>4, RankTable DEF LogCheckpoints
    <2>8. ~prev_pending[t]
      BY <1>1, <2>7 DEF PhaseInv, ThreadInv, PrevInv
    <2> QED
      BY <1>1, <2>5, <2>6, <2>8
  <1>5. CASE ~Underway
    <2>1. version[t] = s.version /\ ~prev_pending[t]
      BY <1>1, <1>5 DEF PhaseInv, ThreadInv, VersionInv, PrevInv
    <2>2. s.action # "None"
      BY <1>2 DEF LogCheckpoints
    <2>3. phase_finished[t] = LastOf[s.action]
      BY <1>1, <1>2, <1>5, <2>2 DEF PhaseInv, ThreadInv, AckInv
    <2>4. phase_finished[t] = "PERSISTENCE_CALLBACK"
      BY <1>2, <2>3, LastTable DEF LogCheckpoints
    <2>5. t \in guids
      BY <1>2, <2>4, RankTable
    <2> QED
      BY <1>1, <2>1, <2>5
  <1> QED
    BY <1>4, <1>5

LEMMA NotifiedFollows == PhaseInv => NotifiedIsPersistent
  <1> SUFFICES ASSUME PhaseInv, notified # {}
               PROVE  flush = "done" /\ \A t \in Thread : Alive(t) => t \in contexts
    BY DEF NotifiedIsPersistent, Alive
  <1>1. PICK s : s = system_state
    OBVIOUS
  <1>2. /\ s.action \in LogCheckpoints /\ ~Starting
        /\ s.phase \in {"PERSISTENCE_CALLBACK", "REST"} /\ flush = "done"
        /\ \A t \in Thread : Alive(t) =>
             (Rank[phase_finished[t]] >= Rank["WAIT_FLUSH"] => t \in contexts)
    BY <1>1 DEF PhaseInv, CheckpointInv
  <1>3. ASSUME NEW t \in Thread, Alive(t) PROVE t \in contexts
    <2>0. Rank[phase_finished[t]] \in Int
      BY <1>1, SystemFacts
    <2>1. CASE Underway
      <3>1. /\ s.phase = "PERSISTENCE_CALLBACK"
            /\ "WAIT_FLUSH" \in PhasesOf(s.action) /\ ~Unacknowledged(s.action, "WAIT_FLUSH")
        BY <1>1, <1>2, <2>1, PhasesTable DEF Underway, LogCheckpoints, Unacknowledged
      <3>2. Rank["WAIT_FLUSH"] < Rank[s.phase]
        BY <3>1, RankTable
      <3>3. Rank["WAIT_FLUSH"] <= Rank[phase_finished[t]]
        BY <1>1, <1>3, <2>1, <3>1, <3>2, Acknowledges
      <3> QED
        BY <1>2, <1>3, <2>0, <3>3, RankTable
    <2>2. CASE ~Underway
      <3>1. s.action # "None"
        BY <1>2 DEF LogCheckpoints
      <3>2. phase_finished[t] = LastOf[s.action]
        BY <1>1, <1>2, <1>3, <2>2, <3>1 DEF PhaseInv, ThreadInv, AckInv
      <3>3. phase_finished[t] = "PERSISTENCE_CALLBACK"
        BY <1>2, <3>2, LastTable DEF LogCheckpoints
      <3> QED
        BY <1>2, <1>3, <3>3, RankTable
    <2> QED
      BY <2>1, <2>2
  <1> QED
    BY <1>2, <1>3

LEMMA TruncateFollows == PhaseInv => TruncateWaits
  <1> SUFFICES ASSUME PhaseInv, system_state.phase = "GC_IN_PROGRESS", NEW t \in Thread,
                      prev_pending[t]
               PROVE  FALSE
    BY DEF TruncateWaits
  <1>1. PICK s : s = system_state
    OBVIOUS
  <1>2. Underway
    BY DEF Underway
  <1>3. s.action \in Actions /\ s.phase \in PhasesOf(s.action) /\ Rank[phase_finished[t]] \in Int
    BY <1>1, <1>2, SystemFacts
  <1>4. s.action = "GC"
    BY <1>1, <1>3, PhasesTable DEF Actions
  <1>5. Alive(t) /\ phase_finished[t] = "REST"
    BY <1>1, <1>4 DEF PhaseInv, ThreadInv, ControlInv, PrevInv, LogCheckpoints
  <1>6. /\ "GC_IO_PENDING" \in PhasesOf(s.action) /\ Rank["GC_IO_PENDING"] < Rank[s.phase]
        /\ ~Unacknowledged(s.action, "GC_IO_PENDING")
    BY <1>1, <1>4, PhasesTable, RankTable DEF Unacknowledged
  <1>7. Rank["GC_IO_PENDING"] <= Rank[phase_finished[t]]
    BY <1>1, <1>2, <1>5, <1>6, Acknowledges
  <1> QED
    BY <1>5, <1>7, RankTable

LEMMA RestFollows == PhaseInv => AtRestAllDone
  <1> SUFFICES ASSUME PhaseInv, NEW t \in Thread, At(t, "moved"), moving[t].phase = "REST"
               PROVE  /\ moving[t].action = "GC" => gc_.done = Chunk
                      /\ moving[t].action = "GrowIndex" => grow_.done = Chunk
    BY DEF AtRestAllDone
  <1>1. moving[t] = system_state /\ system_state.action # "None"
    BY DEF PhaseInv, ThreadInv, MoveInv
  <1>2. ~Underway
    BY <1>1 DEF Underway
  <1>3. Alive(t) /\ ~Starting
    BY DEF PhaseInv, ThreadInv, ControlInv, At
  <1>4. phase_finished[t] = LastOf[system_state.action]
    BY <1>1, <1>2, <1>3 DEF PhaseInv, ThreadInv, AckInv
  <1>5. \A u \in Thread : ~At(u, "clean") /\ ~At(u, "split_chunk")
    BY <1>2 DEF PhaseInv, ThreadInv, ChunkInv
  <1>6. gc_.done \subseteq Chunk /\ grow_.done \subseteq Chunk
    BY DEF PhaseInv, PhaseTypeOK, ChunkState
  <1>7. \A c \in Chunk : c < NumChunks
    BY BoundsAssumption DEF Chunk
  <1>8. ASSUME moving[t].action = "GC" PROVE gc_.done = Chunk
    <2>1. gc_.next_chunk = NumChunks
      BY <1>1, <1>4, <1>8, LastTable DEF PhaseInv, ThreadInv, ChunkInv
    <2>2. \A c \in Chunk : c \in gc_.done
      BY <1>5, <1>7, <2>1 DEF PhaseInv, HeldInv
    <2> QED
      BY <1>6, <2>2
  <1>9. ASSUME moving[t].action = "GrowIndex" PROVE grow_.done = Chunk
    <2>1. grow_.next_chunk = NumChunks
      BY <1>1, <1>4, <1>9, LastTable DEF PhaseInv, ThreadInv, ChunkInv
    <2>2. \A c \in Chunk : c \in grow_.done
      BY <1>5, <1>7, <2>1 DEF PhaseInv, HeldInv
    <2> QED
      BY <1>6, <2>2
  <1> QED
    BY <1>8, <1>9

-----------------------------------------------------------------------------
(***************************************************************************)
(* Growth and operations, for hosts whose operations fill no page: an      *)
(* operation in progress is of a thread that has not acknowledged growth.  *)
(***************************************************************************)
NoOperation == \A u \in Thread : op[u] = NoTable

\* A step of t, which has no operation, leaves the other threads' alone.
LEMMA OperationsStay ==
  ASSUME OpInv, NEW t \in Thread, op[t] = NoTable, op' = op, resize_info' = resize_info,
         system_state'.phase = "GROW_IN_PROGRESS" /\ system_state.phase # "GROW_IN_PROGRESS"
           => NoOperation,
         \A u \in Thread : u # t => pc'[u] = pc[u] /\ phase'[u] = phase[u]
  PROVE  OpInv'
BY DEF OpInv, At, NoOperation

\* An operation ends, or nothing happens to operations.
LEMMA OperationsEnd ==
  ASSUME OpInv, \A u \in Thread : op'[u] \in {op[u], NoTable},
         UNCHANGED <<resize_info, system_state, pc, phase>>
  PROVE  OpInv'
BY DEF OpInv, At

\* An operation of t begins.
LEMMA OperationBegins ==
  ASSUME PhaseTypeOK, OpInv, NEW t \in Thread, BeginOp(t), resize_info' = resize_info, pc'[t] = "idle",
         phase'[t] \notin {"GROW_PREPARE", "GROW_IN_PROGRESS"},
         system_state'.phase # "GROW_IN_PROGRESS",
         \A u \in Thread : u # t => pc'[u] = pc[u] /\ phase'[u] = phase[u]
  PROVE  OpInv'
  <1>1. op'[t] = resize_info /\ \A u \in Thread : u # t => op'[u] = op[u]
    BY DEF BeginOp, PhaseTypeOK
  <1> QED
    BY <1>1 DEF OpInv, At

\* A thread at rest enters an operation: growth has not begun, as it has not
\* acknowledged its preparation.
LEMMA GrowthWaits ==
  ASSUME PhaseInv, NEW u \in Thread, Alive(u), At(u, "idle"),
         phase[u] \notin {"GROW_PREPARE", "GROW_IN_PROGRESS"}
  PROVE  /\ system_state.phase # "GROW_IN_PROGRESS"
         /\ system_state.phase = "GROW_PREPARE" => phase_finished[u] # "GROW_PREPARE"
  <1>1. PICK s : s = system_state
    OBVIOUS
  <1>2. OutsideInv(u) /\ pc[u] \in Outside
    BY DEF PhaseInv, ThreadInv, At, Outside
  <1>3. /\ s.phase \in Phase /\ phase[u] \in Phase
        /\ Rank[phase[u]] \in Int /\ Rank[phase_finished[u]] \in Int
        /\ Underway => s.action \in Actions /\ s.phase \in PhasesOf(s.action)
    BY <1>1, SystemFacts
  <1>4. ASSUME s.phase \in {"GROW_PREPARE", "GROW_IN_PROGRESS"}
        PROVE  /\ s.action = "GrowIndex" /\ Underway /\ phase[u] = "REST"
               /\ Rank[phase_finished[u]] <= 0
    <2>1. Underway
      BY <1>1, <1>4 DEF Underway
    <2>2. s.action = "GrowIndex"
      BY <1>3, <1>4, <2>1, PhasesTable DEF Actions
    <2>3. phase[u] \in PhasesOf("GrowIndex") /\ Rank[phase_finished[u]] <= Rank[phase[u]]
      BY <1>1, <1>2, <2>1, <2>2 DEF OutsideInv
    <2>4. phase[u] = "REST"
      BY <2>3, PhasesTable
    <2> QED
      BY <2>1, <2>2, <2>3, <2>4, RankTable
  <1>5. ASSUME s.phase = "GROW_IN_PROGRESS" PROVE FALSE
    <2>1. s.action = "GrowIndex" /\ Underway /\ Rank[phase_finished[u]] <= 0
      BY <1>4, <1>5
    <2>2. /\ "GROW_PREPARE" \in PhasesOf(s.action) /\ Rank["GROW_PREPARE"] < Rank[s.phase]
          /\ ~Unacknowledged(s.action, "GROW_PREPARE")
      BY <1>5, <2>1, PhasesTable, RankTable DEF Unacknowledged
    <2>3. Rank["GROW_PREPARE"] <= Rank[phase_finished[u]]
      BY <1>1, <2>1, <2>2, Acknowledges
    <2> QED
      BY <1>3, <2>1, <2>3, RankTable
  <1>6. ASSUME s.phase = "GROW_PREPARE", phase_finished[u] = "GROW_PREPARE" PROVE FALSE
    <2>1. Rank[phase_finished[u]] <= 0
      BY <1>4, <1>6
    <2> QED
      BY <1>6, <2>1, RankTable
  <1> QED
    BY <1>1, <1>5, <1>6

\* Growth begins when everyone has acknowledged, and so without operations.
LEMMA NoOperationAtGrowth ==
  ASSUME PhaseInv, OpInv, NEW s, s = system_state, s.action \in Actions,
         s.phase \in PhasesOf(s.action),
         GetNextState(s).phase = "GROW_IN_PROGRESS",
         s.phase = "GROW_PREPARE" =>
           \A u \in Thread : Alive(u) => phase_finished[u] = "GROW_PREPARE"
  PROVE  NoOperation /\ s.phase # "REST"
  <1>0. PICK n : n = GetNextState(s)
    OBVIOUS
  <1>1. s \in StateSet /\ Rank[s.phase] \in Int
    BY SystemFacts
  <1>2. /\ n.phase = "GROW_IN_PROGRESS" /\ n.phase \in PhasesOf(s.action)
        /\ s.phase # LastOf[s.action]
        /\ \A q \in PhasesOf(s.action) : Rank[q] <= Rank[s.phase] \/ Rank[n.phase] <= Rank[q]
    BY <1>0, <1>1, NextFacts
  <1>3. s.action = "GrowIndex"
    BY <1>2, PhasesTable DEF Actions
  <1>4. s.phase = "GROW_PREPARE"
    BY <1>1, <1>2, <1>3, PhasesTable, RankTable, LastTable
  <1>5. ASSUME NEW u \in Thread, op[u] # NoTable PROVE FALSE
    <2>1. Alive(u)
      BY <1>5 DEF PhaseInv, ThreadInv, ControlInv
    <2>2. At(u, "idle") /\ phase[u] \notin {"GROW_PREPARE", "GROW_IN_PROGRESS"}
      BY <1>5 DEF OpInv
    <2> QED
      BY <1>4, <2>1, <2>2, GrowthWaits
  <1> QED
    BY <1>4, <1>5 DEF NoOperation

\* The end of work done on the way.
LEMMA ResumeOperations ==
  ASSUME PhaseInv, OpInv, NEW t \in Thread, Resume(t), pc[t] # "idle",
         UNCHANGED <<resize_info, phase>>,
         system_state' = system_state \/ system_state'.phase = "REST",
         caller[t] = "heavy" =>
           /\ phase[t] \notin {"GROW_PREPARE", "GROW_IN_PROGRESS"}
           /\ system_state'.phase # "GROW_IN_PROGRESS"
  PROVE  OpInv'
  <1>1. PhaseTypeOK /\ op[t] = NoTable
    BY DEF PhaseInv, OpInv, At
  <1>2. \A u \in Thread : u # t => pc'[u] = pc[u] /\ phase'[u] = phase[u]
    BY <1>1 DEF Resume, Return, Goto, PhaseTypeOK
  <1>3. CASE caller[t] = "heavy"
    <2>1. BeginOp(t) /\ pc'[t] = "idle"
      BY <1>1, <1>3 DEF Resume, Return, Goto, PhaseTypeOK
    <2> QED
      BY <1>1, <1>2, <1>3, <2>1, OperationBegins
  <1>4. CASE caller[t] # "heavy"
    <2>1. op' = op
      BY <1>4 DEF Resume
    <2> QED
      BY <1>1, <1>2, <2>1, OperationsStay
  <1> QED
    BY <1>3, <1>4

LEMMA CallOperations ==
  ASSUME PhaseInv, OpInv, HostWaits, ~host.page_fills, NEW t \in Thread, Call(t)
  PROVE  OpInv'
  <1>0. PhaseTypeOK
    BY DEF PhaseInv
  <1> USE DEF global, tables, context, locals
  <1>1. CASE StartSession(t)
    BY <1>1 DEF StartSession, HostWaits, JoinedAtStart
  <1>2. CASE StopSession(t) \/ CompletePending(t) \/ CompletePrevPending(t)
    <2>1. op' = op /\ UNCHANGED <<resize_info, system_state, pc, phase>>
      BY <1>2 DEF StopSession, CompletePending, CompletePrevPending
    <2> QED
      BY <2>1, OperationsEnd
  <1>3. CASE \E async \in BOOLEAN : Leave(t, async)
    <2>1. UNCHANGED <<resize_info, system_state, pc, phase>>
      BY <1>3 DEF Leave
    <2>2. \A u \in Thread : op'[u] \in {op[u], NoTable}
      BY <1>0, <1>3 DEF Leave, PhaseTypeOK
    <2> QED
      BY <2>1, <2>2, OperationsEnd
  <1>4. CASE \E a \in host.actions : StartAction(t, a)
    <2>1. PICK a : StartAction(t, a)
      BY <1>4
    <2>2. /\ op[t] = NoTable /\ op' = op /\ resize_info' = resize_info /\ phase' = phase
          /\ system_state'.phase = "REST"
      BY <2>1 DEF StartAction, Free, SystemState
    <2>3. \A u \in Thread : u # t => pc'[u] = pc[u]
      BY <1>0, <2>1 DEF StartAction, Goto, PhaseTypeOK
    <2> QED
      BY <2>2, <2>3, OperationsStay
  <1>5. CASE Enter(t)
    <2>1. /\ Alive(t) /\ At(t, "idle") /\ phase[t] \notin {"GROW_PREPARE", "GROW_IN_PROGRESS"}
          /\ BeginOp(t) /\ UNCHANGED <<resize_info, system_state, pc, phase>>
      BY <1>5 DEF Enter, Free, Running, Alive, HeavyEnter
    <2>2. system_state.phase # "GROW_IN_PROGRESS"
      BY <2>1, GrowthWaits
    <2>3. pc'[t] = "idle"
      BY <2>1 DEF At
    <2> QED
      BY <1>0, <2>1, <2>2, <2>3, OperationBegins
  <1>6. CASE EnterGc(t) \/ EnterGrow(t) \/ Refresh(t)
    <2>1. op[t] = NoTable /\ op' = op /\ UNCHANGED <<resize_info, system_state, phase>>
      BY <1>6 DEF EnterGc, EnterGrow, Refresh, Free, ClaimGcChunk
    <2>2. \A u \in Thread : u # t => pc'[u] = pc[u]
      BY <1>0, <1>6 DEF EnterGc, EnterGrow, Refresh, ClaimGcChunk, Goto, PhaseTypeOK
    <2> QED
      BY <2>1, <2>2, OperationsStay
  <1> QED
    BY <1>1, <1>2, <1>3, <1>4, <1>5, <1>6 DEF Call

\* Steps inside Refresh that neither begin an operation nor move the system.
LEMMA InnerOperations ==
  ASSUME PhaseInv, OpInv, NEW t \in Thread,
         \/ RefreshLoad(t) \/ HandleLoad(t) \/ Adopt(t) \/ Scan(t) \/ StepRest(t)
         \/ StepPrepIndexChkpt(t) \/ StepIndexChkpt(t) \/ StepPrepare(t) \/ StepInProgress(t)
         \/ StepWaitPending(t) \/ StepWaitFlush(t) \/ StepPersistenceCallback(t)
         \/ StepGcIoPending(t) \/ StepGcInProgress(t) \/ StepGrowPrepare(t)
         \/ StepGrowInProgress(t) \/ SplitClaim(t) \/ SplitChunk(t) \/ SplitDone(t)
  PROVE  OpInv'
  <1>0. PhaseTypeOK
    BY DEF PhaseInv
  <1> DEFINE Inner ==
        /\ pc[t] # "idle" /\ UNCHANGED <<op, resize_info, system_state>>
        /\ \E l : Goto(t, l)
        /\ \A u \in Thread : u # t => phase'[u] = phase[u]
  <1> USE DEF global, tables, context, call
  <1>1. ASSUME RefreshLoad(t) \/ Scan(t) PROVE Inner
    BY <1>1 DEF RefreshLoad, Scan, At
  <1>2. ASSUME HandleLoad(t) \/ SplitDone(t) PROVE Inner
    BY <1>0, <1>2 DEF HandleLoad, SplitDone, FinishThreadPhase, At, PhaseTypeOK
  <1>3. ASSUME Adopt(t) PROVE Inner
    BY <1>0, <1>3 DEF Adopt, Return, At, PhaseTypeOK
  <1>4. ASSUME StepRest(t) \/ StepPrepIndexChkpt(t) \/ StepWaitPending(t) \/ StepGrowPrepare(t) PROVE Inner
    BY <1>4 DEF StepRest, StepPrepIndexChkpt, StepWaitPending, StepGrowPrepare,
                Step, Skip, FinishThreadPhase, At
  <1>5. ASSUME StepIndexChkpt(t) \/ StepPrepare(t) PROVE Inner
    BY <1>5 DEF StepIndexChkpt, StepPrepare, Step, Skip, FinishThreadPhase, At
  <1>6. ASSUME StepInProgress(t) \/ StepGcIoPending(t) PROVE Inner
    BY <1>6 DEF StepInProgress, StepGcIoPending, Step, Skip, FinishThreadPhase, At
  <1>7. ASSUME StepWaitFlush(t) \/ StepPersistenceCallback(t) PROVE Inner
    BY <1>7 DEF StepWaitFlush, StepPersistenceCallback, Step, Skip, FinishThreadPhase, At
  <1>8. ASSUME StepGcInProgress(t) PROVE Inner
    BY <1>8 DEF StepGcInProgress, ClaimGcChunk, Step, Skip, FinishThreadPhase, At
  <1>9. ASSUME StepGrowInProgress(t) \/ SplitClaim(t) \/ SplitChunk(t) PROVE Inner
    BY <1>9 DEF StepGrowInProgress, SplitClaim, SplitChunk, Step, At
  <1>10. Inner
    BY <1>1, <1>2, <1>3, <1>4, <1>5, <1>6, <1>7, <1>8, <1>9
  <1>11. op[t] = NoTable
    BY <1>10 DEF OpInv, At
  <1>12. \A u \in Thread : u # t => pc'[u] = pc[u]
    BY <1>0, <1>10 DEF Goto, PhaseTypeOK
  <1> QED
    BY <1>10, <1>11, <1>12, OperationsStay

LEMMA CleanOperations ==
  ASSUME PhaseInv, OpInv, NEW t \in Thread, CleanHashTableBuckets(t)
  PROVE  OpInv'
  <1>1. /\ pc[t] = "clean" /\ Resume(t)
        /\ UNCHANGED <<resize_info, phase, system_state>>
    BY DEF CleanHashTableBuckets, At, context
  <1>2. PICK s : s = system_state
    OBVIOUS
  <1>3. Underway /\ s.action = "GC" /\ Alive(t)
    BY <1>1, <1>2 DEF PhaseInv, ThreadInv, ControlInv, ChunkInv, At
  <1>4. s.phase \in PhasesOf("GC")
    BY <1>2, <1>3, SystemFacts
  <1>5. caller[t] = "heavy" => phase[t] \in PhasesOf("GC")
    BY <1>1, <1>2, <1>3 DEF PhaseInv, ThreadInv, OutsideInv
  <1> QED
    BY <1>1, <1>2, <1>4, <1>5, PhasesTable, ResumeOperations

LEMMA SpinOperations ==
  ASSUME PhaseInv, OpInv, NEW t \in Thread, SplitSpin(t)
  PROVE  OpInv'
  <1>1. /\ pc[t] = "spin" /\ Resume(t) /\ system_state.phase # "GROW_IN_PROGRESS"
        /\ UNCHANGED <<resize_info, phase, system_state>>
    BY DEF SplitSpin, At, context, global, tables
  <1>2. caller[t] = "heavy" => phase[t] = "REST"
    BY <1>1, HeavyFacts
  <1> QED
    BY <1>1, <1>2, ResumeOperations

LEMMA MoveOperations ==
  ASSUME PhaseInv, OpInv, NEW t \in Thread, MoveCas(t)
  PROVE  OpInv'
  <1>0. /\ PhaseTypeOK /\ pc[t] = "move" /\ At(t, "move") /\ op[t] = NoTable
        /\ UNCHANGED <<resize_info, phase>>
    BY DEF PhaseInv, OpInv, MoveCas, At, tables, context
  <1>1. CASE system_state = moving[t]
    <2>1. PICK s : s = system_state
      OBVIOUS
    <2>2. /\ system_state' = GetNextState(s) /\ op' = op
          /\ \A u \in Thread : u # t => pc'[u] = pc[u]
      BY <1>0, <1>1, <2>1 DEF MoveCas, Goto, PhaseTypeOK
    <2>3. /\ s.action \in Actions /\ s.phase \in PhasesOf(s.action)
          /\ ~Unacknowledged(s.action, s.phase) =>
               \A u \in Thread : Alive(u) => phase_finished[u] = s.phase
      BY <1>0, <1>1, <2>1, MoveFacts
    <2>4. GetNextState(s).phase = "GROW_IN_PROGRESS" => NoOperation
      <3>1. s.phase = "GROW_PREPARE" => ~Unacknowledged(s.action, s.phase)
        BY DEF Unacknowledged
      <3> QED
        BY <2>1, <2>3, <3>1, NoOperationAtGrowth
    <2> QED
      BY <1>0, <2>2, <2>4, OperationsStay
  <1>2. CASE system_state # moving[t]
    <2>1. Resume(t) /\ system_state' = system_state
      BY <1>2 DEF MoveCas
    <2>2. ASSUME caller[t] = "heavy"
          PROVE  phase[t] = "REST" /\ system_state.phase # "GROW_IN_PROGRESS"
      <3>1. moving[t] = SystemState("GrowIndex", "GROW_IN_PROGRESS", version[t])
        BY <1>0, <2>2 DEF PhaseInv, ThreadInv, MoveInv
      <3>2. /\ phase[t] = "REST"
            /\ Underway => system_state = SystemState("GrowIndex", "GROW_IN_PROGRESS", version[t])
        BY <1>0, <2>2, HeavyFacts
      <3>3. ~Underway
        BY <1>2, <3>1, <3>2
      <3> QED
        BY <3>2, <3>3 DEF Underway
    <2> QED
      BY <1>0, <2>1, <2>2, ResumeOperations
  <1> QED
    BY <1>1, <1>2

LEMMA MovedOperations ==
  ASSUME PhaseInv, OpInv, NEW t \in Thread,
         \/ MovedToIndexChkpt(t) \/ MovedToWaitFlush(t) \/ MovedToGrowInProgress(t)
         \/ MovedToRest(t) \/ MovedQuietly(t)
  PROVE  OpInv'
  <1>0. /\ At(t, "moved") /\ pc[t] = "moved" /\ Resume(t) /\ UNCHANGED phase
    BY DEF MovedToIndexChkpt, MovedToWaitFlush, MovedToGrowInProgress, MovedToRest,
           MovedQuietly, Moved, At, context
  <1>1. Alive(t) /\ moving[t] = system_state
    BY <1>0 DEF PhaseInv, ThreadInv, ControlInv, MoveInv, At
  <1>2. caller[t] = "heavy" => phase[t] = "REST" /\ ~Underway
    BY <1>0, <1>1 DEF PhaseInv, ThreadInv, HeavyInv, At
  <1>3. caller[t] = "heavy" => system_state.phase = "REST"
    BY <1>2 DEF Underway
  <1>4. CASE MovedToGrowInProgress(t)
    <2>1. system_state.phase = "GROW_IN_PROGRESS"
      BY <1>1, <1>4 DEF MovedToGrowInProgress, Moved
    <2>2. op' = op
      BY <1>0, <1>3, <2>1 DEF Resume
    <2>3. \A u \in Thread : op[u] = NoTable
      BY <2>1 DEF OpInv
    <2> QED
      BY <2>2, <2>3 DEF OpInv
  <1>5. CASE MovedToIndexChkpt(t) \/ MovedToWaitFlush(t) \/ MovedQuietly(t)
    <2>1. UNCHANGED <<resize_info, system_state>>
      BY <1>5 DEF MovedToIndexChkpt, MovedToWaitFlush, MovedQuietly, tables
    <2> QED
      BY <1>0, <1>2, <1>3, <2>1, ResumeOperations
  <1>6. CASE MovedToRest(t)
    <2>1. UNCHANGED resize_info /\ system_state'.phase = "REST"
      BY <1>6 DEF MovedToRest, tables, SystemState
    <2> QED
      BY <1>0, <1>2, <2>1, ResumeOperations
  <1> QED
    BY <1>4, <1>5, <1>6

LEMMA NextOperations == PhaseInv /\ OpInv /\ HostWaits /\ ~host.page_fills /\ [Next]_vars => OpInv'
  <1> SUFFICES ASSUME PhaseInv, OpInv, HostWaits, ~host.page_fills, [Next]_vars PROVE OpInv'
    OBVIOUS
  <1>1. CASE UNCHANGED vars \/ IndexIoDone \/ FlushDone
    <2>1. op' = op /\ UNCHANGED <<resize_info, system_state, pc, phase>>
      BY <1>1 DEF vars, IndexIoDone, FlushDone, global, tables, context
    <2> QED
      BY <2>1, OperationsEnd
  <1>2. ASSUME NEW t \in Thread, Call(t) PROVE OpInv'
    BY <1>2, CallOperations
  <1>3. ASSUME NEW t \in Thread, Continue(t) PROVE OpInv'
    <2>1. CASE InitAction(t)
      <3>1. PICK s : s = system_state
        OBVIOUS
      <3>2. /\ Starting /\ op[t] = NoTable /\ PhaseTypeOK
        BY <2>1 DEF PhaseInv, OpInv, InitAction, Starting, At
      <3>3. s.action \in Actions /\ s.phase = "REST"
        <4>1. s.action # "None" /\ s.phase = "REST"
          BY <3>1, <3>2 DEF PhaseInv, SystemInv, Underway
        <4> QED
          BY <3>1, <4>1, SystemFacts
      <3>4. GetNextState(s).phase # "GROW_IN_PROGRESS"
        BY <3>1, <3>3, ActionPhases, NoOperationAtGrowth
      <3>5. /\ system_state' = GetNextState(s) /\ op' = op /\ UNCHANGED <<resize_info, phase>>
            /\ \A u \in Thread : u # t => pc'[u] = pc[u]
        BY <2>1, <3>1, <3>2 DEF InitAction, Goto, PhaseTypeOK, context
      <3> QED
        BY <3>2, <3>4, <3>5, OperationsStay
    <2>2. CASE CleanHashTableBuckets(t)
      BY <2>2, CleanOperations
    <2>3. CASE SplitSpin(t)
      BY <2>3, SpinOperations
    <2>4. CASE MoveCas(t)
      BY <2>4, MoveOperations
    <2>5. CASE \/ MovedToIndexChkpt(t) \/ MovedToWaitFlush(t) \/ MovedToGrowInProgress(t)
               \/ MovedToRest(t) \/ MovedQuietly(t)
      BY <2>5, MovedOperations
    <2> QED
      BY <1>3, <2>1, <2>2, <2>3, <2>4, <2>5, InnerOperations DEF Continue
  <1> QED
    BY <1>1, <1>2, <1>3 DEF Next

-----------------------------------------------------------------------------
(***************************************************************************)
(* The theorems.  PhaseInductive carries them all; the last one needs      *)
(* OpInv beside it.                                                        *)
(***************************************************************************)
\* The assertions of HandleSpecialPhases and ResetPhaseFinished hold: no thread is
\* asked to continue an action from a phase the action does not have, no context
\* with pending requests is reused, and an action starts over the acknowledgements
\* of a last phase only.
THEOREM AssertionsNeverFail == Spec => [](HostWaits => AssertionsHold)
BY PhaseInductive, AssertionsFollow, PTL

\* What the comments of InternalUpsert and InternalRmw take for granted: a thread at
\* work in IN_PROGRESS, WAIT_PENDING or WAIT_FLUSH has all other threads at work in
\* that phase or in a neighbouring one.
THEOREM NeighbouringPhases == Spec => [](HostWaits => ThreadsAreBeside)
BY PhaseInductive, BesideFollows, PTL

\* The checkpoint of GlobalMoveToNextState is a consistent cut: once it has taken the
\* final address (WAIT_FLUSH), every session works in the new version, has no request
\* of the old one pending, and is counted in the metadata.
THEOREM CheckpointIsConsistent == Spec => [](HostWaits => ConsistentCut)
BY PhaseInductive, CutFollows, PTL

\* The persistence callback of HandleSpecialPhases tells a session no lie: the log is
\* on disk up to the final address and every session's context has been written.
THEOREM CallbackIsTrue == Spec => [](HostWaits => NotifiedIsPersistent)
BY PhaseInductive, NotifiedFollows, PTL

\* GlobalMoveToNextState truncates the log (GC_IN_PROGRESS) only when no request that
\* was issued before the collection is pending.
THEOREM TruncationWaits == Spec => [](HostWaits => TruncateWaits)
BY PhaseInductive, TruncateFollows, PTL

\* When GlobalMoveToNextState brings a collection or a growth to rest, every chunk has
\* been cleaned or split, also those claimed by threads that were slower than the rest.
THEOREM AllChunksDone == Spec => [](HostWaits => AtRestAllDone)
BY PhaseInductive, RestFollows, PTL

\* SplitHashTableBuckets runs without operations beside it, and none holds an entry of
\* the replaced table: for hosts whose operations do not refresh in the middle.
THEOREM GrowthIsExclusive ==
  Spec => [](HostWaits /\ ~host.page_fills => GrowWaitsForOperations)
  <1> DEFINE Quiet == HostWaits /\ ~host.page_fills
  <1>1. Init => (Quiet => OpInv)
    BY DEF Init, OpInv
  <1>2. (HostWaits => PhaseInv) /\ (Quiet => OpInv) /\ [Next]_vars => (Quiet => OpInv)'
    <2> SUFFICES ASSUME HostWaits => PhaseInv, Quiet => OpInv, [Next]_vars, Quiet'
                 PROVE  OpInv'
      OBVIOUS
    <2>1. host' = host
      BY DEF Next, vars
    <2>2. Quiet
      BY <2>1, HostStays
    <2> QED
      BY <2>2, NextOperations
  <1>3. (HostWaits => PhaseInv) /\ (Quiet => OpInv) => (Quiet => GrowWaitsForOperations)
    <2> SUFFICES ASSUME PhaseInv, OpInv, NEW t \in Thread, op[t] # NoTable
                 PROVE  op[t] = resize_info /\ \A u \in Thread : ~At(u, "split_chunk")
      BY DEF GrowWaitsForOperations
    <2>1. op[t] = resize_info /\ system_state.phase # "GROW_IN_PROGRESS"
      BY DEF OpInv
    <2>2. \A u \in Thread : At(u, "split_chunk") => system_state.phase = "GROW_IN_PROGRESS"
      BY DEF PhaseInv, ThreadInv, ChunkInv
    <2> QED
      BY <2>1, <2>2
  <1> QED
    BY <1>1, <1>2, <1>3, PhaseInductive, PTL DEF Spec
=============================================================================
