-------------------------- MODULE RecordOpsProofs ---------------------------
(***************************************************************************)
(* Proofs about RecordOps: the records below the safe read-only address    *)
(* never change; without deletions and checkpoints no update is lost or    *)
(* made twice, and reads answer values that the key had during the call.   *)
(***************************************************************************)
EXTENDS RecordOps, CountingProofs

-----------------------------------------------------------------------------
(***************************************************************************)
(* The chains of records, in any log.                                      *)
(***************************************************************************)
\* Every record points to an earlier one, or to none.
IsLog(lg) == Len(lg) \in Nat /\ \A a \in 1 .. Len(lg) : lg[a].prev \in 0 .. a - 1

\* TraceBack in the log lg, and a function that does what its loop does.
Walk(lg, stop, from) ==
  LET trace[a \in 0..Len(lg)] == IF a \in stop THEN a ELSE trace[lg[a].prev]
  IN  trace[from]

Traces(lg, stop, f) ==
  f = [a \in 0 .. Len(lg) |-> IF a \in stop THEN a ELSE f[lg[a].prev]]

\* f does it up to m.
TracesTo(lg, n, stop, m, f) ==
  /\ f \in [0 .. n -> Nat]
  /\ \A a \in 0 .. m : f[a] = IF a \in stop THEN a ELSE f[lg[a].prev]

LEMMA TraceExists ==
  ASSUME NEW lg, IsLog(lg), NEW stop, 0 \in stop
  PROVE  \E f : Traces(lg, stop, f)
  <1>0. PICK n \in Nat : n = Len(lg) /\ \A a \in 1 .. n : lg[a].prev \in 0 .. a - 1
    BY DEF IsLog
  <1>1. DEFINE S == {m \in Nat : m <= n => \E f : TracesTo(lg, n, stop, m, f)}
  <1>2. 0 \in S
    <2>1. DEFINE f == [a \in 0 .. n |-> a]
    <2>2. f \in [0 .. n -> Nat] /\ \A a \in 0 .. 0 : f[a] = a /\ a \in stop
      OBVIOUS
    <2>3. TracesTo(lg, n, stop, 0, f)
      BY <2>2 DEF TracesTo
    <2>4. QED
      BY <2>3
  <1>3. ASSUME NEW m \in Nat, m \in S PROVE m + 1 \in S
    <2>1. SUFFICES ASSUME m + 1 <= n
                   PROVE  \E f : TracesTo(lg, n, stop, m + 1, f)
      OBVIOUS
    <2>0. PICK g : TracesTo(lg, n, stop, m, g)
      BY <1>3, <2>1
    <2>2. /\ g \in [0 .. n -> Nat]
          /\ \A a \in 0 .. m : g[a] = IF a \in stop THEN a ELSE g[lg[a].prev]
      BY <2>0 DEF TracesTo
    <2>3. lg[m + 1].prev \in 0 .. m
      BY <1>0, <2>1
    <2>4. DEFINE v == IF m + 1 \in stop THEN m + 1 ELSE g[lg[m + 1].prev]
                 f == [g EXCEPT ![m + 1] = v]
    <2>5. v \in Nat /\ m + 1 \in 0 .. n
      BY <2>1, <2>2, <2>3
    <2>6. f \in [0 .. n -> Nat] /\ f[m + 1] = v /\ \A a \in 0 .. m : f[a] = g[a]
      BY <2>2, <2>5
    <2>7. ASSUME NEW a \in 0 .. m + 1
          PROVE  f[a] = IF a \in stop THEN a ELSE f[lg[a].prev]
      <3>1. CASE a = m + 1
        BY <2>3, <2>6, <3>1
      <3>2. CASE a # m + 1 /\ a # 0
        <4>1. a \in 0 .. m /\ a \in 1 .. n
          BY <2>1, <3>2
        <4>2. lg[a].prev \in 0 .. m
          BY <1>0, <4>1
        <4>3. QED
          BY <2>2, <2>6, <4>1, <4>2
      <3>3. CASE a = 0
        BY <2>2, <2>6, <3>3
      <3>4. QED
        BY <3>1, <3>2, <3>3
    <2>8. TracesTo(lg, n, stop, m + 1, f)
      <3>1. HIDE DEF f
      <3>2. QED
        BY <2>6, <2>7 DEF TracesTo
    <2>9. QED
      BY <2>8
  <1>4. Nat \subseteq S
    <2>1. HIDE DEF S
    <2>2. QED
      BY <1>2, <1>3, NatInductionSet
  <1>5. PICK f : TracesTo(lg, n, stop, n, f)
    BY <1>4
  <1>6. Traces(lg, stop, f)
    BY <1>0, <1>5 DEF Traces, TracesTo
  <1>7. QED
    BY <1>6

\* The loop, unfolded once.
LEMMA WalkStep ==
  ASSUME NEW lg, IsLog(lg), NEW stop, 0 \in stop, NEW from \in 0 .. Len(lg)
  PROVE  Walk(lg, stop, from) = IF from \in stop THEN from ELSE Walk(lg, stop, lg[from].prev)
  <1>1. PICK g : g = CHOOSE f : Traces(lg, stop, f)
    OBVIOUS
  <1>2. Traces(lg, stop, g)
    BY <1>1, TraceExists
  <1>3. ASSUME NEW x PROVE Walk(lg, stop, x) = g[x]
    BY <1>1 DEF Walk, Traces
  <1>4. g[from] = IF from \in stop THEN from ELSE g[lg[from].prev]
    BY <1>2 DEF Traces
  <1>5. QED
    BY <1>3, <1>4

LEMMA WalkRange ==
  ASSUME NEW lg, IsLog(lg), NEW stop, 0 \in stop, NEW from \in 0 .. Len(lg)
  PROVE  Walk(lg, stop, from) \in stop /\ Walk(lg, stop, from) \in 0 .. from
  <1>0. PICK n \in Nat : n = Len(lg) /\ \A a \in 1 .. n : lg[a].prev \in 0 .. a - 1
    BY DEF IsLog
  <1>1. DEFINE S == {a \in 0 .. n : Walk(lg, stop, a) \in stop /\ Walk(lg, stop, a) \in 0 .. a}
  <1>2. ASSUME NEW a \in 0 .. n, \A b \in 0 .. a - 1 : b \in S PROVE a \in S
    <2>1. Walk(lg, stop, a) = IF a \in stop THEN a ELSE Walk(lg, stop, lg[a].prev)
      BY <1>0, WalkStep
    <2>2. CASE a \in stop
      BY <2>1, <2>2
    <2>3. CASE a \notin stop
      <3>1. lg[a].prev \in 0 .. a - 1
        BY <1>0, <2>3
      <3>2. lg[a].prev \in S
        BY <1>2, <3>1
      <3>3. QED
        BY <2>1, <2>3, <3>1, <3>2
    <2>4. QED
      BY <2>2, <2>3
  <1>3. 0 .. n \subseteq S
    <2>1. HIDE DEF S
    <2>2. QED
      BY <1>2, StrongInductionSet
  <1>4. QED
    BY <1>0, <1>3

\* A walk depends on the previous addresses and on where it may stop.
LEMMA WalkSame ==
  ASSUME NEW lg, IsLog(lg), NEW lh, IsLog(lh), Len(lg) <= Len(lh),
         \A a \in 1 .. Len(lg) : lh[a].prev = lg[a].prev,
         NEW stop, 0 \in stop, NEW stoq, 0 \in stoq,
         \A a \in 0 .. Len(lg) : a \in stop <=> a \in stoq
  PROVE  \A a \in 0 .. Len(lg) : Walk(lh, stoq, a) = Walk(lg, stop, a)
  <1>0. PICK n \in Nat : n = Len(lg) /\ \A a \in 1 .. n : lg[a].prev \in 0 .. a - 1
    BY DEF IsLog
  <1>1. DEFINE S == {a \in 0 .. n : Walk(lh, stoq, a) = Walk(lg, stop, a)}
  <1>2. ASSUME NEW a \in 0 .. n, \A b \in 0 .. a - 1 : b \in S PROVE a \in S
    <2>0. a \in 0 .. Len(lh)
      BY <1>0 DEF IsLog
    <2>1. Walk(lg, stop, a) = IF a \in stop THEN a ELSE Walk(lg, stop, lg[a].prev)
      BY <1>0, WalkStep
    <2>2. Walk(lh, stoq, a) = IF a \in stoq THEN a ELSE Walk(lh, stoq, lh[a].prev)
      BY <2>0, WalkStep
    <2>3. CASE a \in stop
      BY <1>0, <2>1, <2>2, <2>3
    <2>4. CASE a \notin stop
      <3>1. lg[a].prev \in 0 .. a - 1 /\ lh[a].prev = lg[a].prev
        BY <1>0, <2>4
      <3>2. lg[a].prev \in S
        BY <1>2, <3>1
      <3>3. QED
        BY <1>0, <2>1, <2>2, <2>4, <3>1, <3>2
    <2>5. QED
      BY <2>3, <2>4
  <1>3. 0 .. n \subseteq S
    <2>1. HIDE DEF S
    <2>2. QED
      BY <1>2, StrongInductionSet
  <1>4. QED
    BY <1>0, <1>3

\* TraceBackForKeyMatch in the log lg.
StopAt(lg, k, min) == {a \in 0 .. Len(lg) : a < min \/ a = 0 \/ lg[a].key = k}
Match(lg, k, from, min) == Walk(lg, StopAt(lg, k, min), from)

\* The record at a is on the chain that begins at from.
Reach(lg, a, from) == Walk(lg, 0 .. a, from) = a

LEMMA MatchStep ==
  ASSUME NEW lg, IsLog(lg), NEW k, NEW min \in Nat, NEW from \in 0 .. Len(lg)
  PROVE  Match(lg, k, from, min) =
           IF from < min \/ from = 0 \/ lg[from].key = k THEN from
           ELSE Match(lg, k, lg[from].prev, min)
  <1>1. Len(lg) \in Nat
    BY DEF IsLog
  <1>2. 0 \in StopAt(lg, k, min)
    BY <1>1 DEF StopAt
  <1>3. from \in StopAt(lg, k, min) <=> (from < min \/ from = 0 \/ lg[from].key = k)
    BY DEF StopAt
  <1>4. PICK stop : stop = StopAt(lg, k, min)
    OBVIOUS
  <1>5. Walk(lg, stop, from) = IF from \in stop THEN from ELSE Walk(lg, stop, lg[from].prev)
    BY <1>2, <1>4, WalkStep
  <1>6. QED
    BY <1>3, <1>4, <1>5 DEF Match

LEMMA MatchRange ==
  ASSUME NEW lg, IsLog(lg), NEW k, NEW min \in Nat, NEW from \in 0 .. Len(lg)
  PROVE  LET a == Match(lg, k, from, min)
         IN  a \in 0 .. from /\ a \in Nat /\ (a < min \/ a = 0 \/ lg[a].key = k)
  <1>1. Len(lg) \in Nat
    BY DEF IsLog
  <1>2. PICK stop : stop = StopAt(lg, k, min)
    OBVIOUS
  <1>3. 0 \in stop
    BY <1>1, <1>2 DEF StopAt
  <1>4. Walk(lg, stop, from) \in stop /\ Walk(lg, stop, from) \in 0 .. from
    BY <1>3, WalkRange
  <1>5. PICK a : a = Match(lg, k, from, min)
    OBVIOUS
  <1>6. a \in StopAt(lg, k, min) /\ a \in 0 .. from
    BY <1>2, <1>4, <1>5 DEF Match
  <1>7. a \in 0 .. from /\ a \in Nat /\ (a < min \/ a = 0 \/ lg[a].key = k)
    BY <1>1, <1>6 DEF StopAt
  <1>8. QED
    BY <1>5, <1>7

\* A search that goes on from where a search for the same key has stopped.
LEMMA MatchGoesOn ==
  ASSUME NEW lg, IsLog(lg), NEW k, NEW min \in Nat, 1 <= min, NEW from \in 0 .. Len(lg)
  PROVE  Match(lg, k, Match(lg, k, from, min), 1) = Match(lg, k, from, 1)
  <1>0. PICK n \in Nat : n = Len(lg) /\ \A a \in 1 .. n : lg[a].prev \in 0 .. a - 1
    BY DEF IsLog
  <1>1. DEFINE S == {a \in 0 .. n : Match(lg, k, Match(lg, k, a, min), 1) = Match(lg, k, a, 1)}
  <1>2. ASSUME NEW a \in 0 .. n, \A b \in 0 .. a - 1 : b \in S PROVE a \in S
    <2>1. Match(lg, k, a, min) = IF a < min \/ a = 0 \/ lg[a].key = k THEN a
                                 ELSE Match(lg, k, lg[a].prev, min)
      BY <1>0, MatchStep
    <2>2. Match(lg, k, a, 1) = IF a < 1 \/ a = 0 \/ lg[a].key = k THEN a
                               ELSE Match(lg, k, lg[a].prev, 1)
      BY <1>0, MatchStep
    <2>3. CASE a < min \/ a = 0 \/ lg[a].key = k
      BY <2>1, <2>3
    <2>4. CASE ~(a < min \/ a = 0 \/ lg[a].key = k)
      <3>1. lg[a].prev \in 0 .. a - 1
        BY <1>0, <2>4
      <3>2. lg[a].prev \in S
        BY <1>2, <3>1
      <3>3. ~(a < 1 \/ a = 0 \/ lg[a].key = k)
        BY <2>4
      <3>4. QED
        BY <2>1, <2>2, <2>4, <3>2, <3>3
    <2>5. QED
      BY <2>3, <2>4
  <1>3. 0 .. n \subseteq S
    <2>1. HIDE DEF S
    <2>2. QED
      BY <1>2, StrongInductionSet
  <1>4. QED
    BY <1>0, <1>3

LEMMA ReachStep ==
  ASSUME NEW lg, IsLog(lg), NEW a \in Nat, NEW from \in 0 .. Len(lg)
  PROVE  /\ Reach(lg, from, from)
         /\ Reach(lg, a, from) => a <= from
         /\ a < from => (Reach(lg, a, from) <=> Reach(lg, a, lg[from].prev))
  <1>0. Len(lg) \in Nat /\ from \in Nat
    BY DEF IsLog
  <1>1. PICK s, u : s = 0 .. a /\ u = 0 .. from
    OBVIOUS
  <1>2. 0 \in s /\ 0 \in u /\ from \in u
    BY <1>0, <1>1
  <1>3. Walk(lg, s, from) = IF from \in s THEN from ELSE Walk(lg, s, lg[from].prev)
    BY <1>2, WalkStep
  <1>4. Walk(lg, u, from) = IF from \in u THEN from ELSE Walk(lg, u, lg[from].prev)
    BY <1>2, WalkStep
  <1>5. Walk(lg, s, from) \in 0 .. from
    BY <1>2, WalkRange
  <1>6. Reach(lg, from, from)
    BY <1>1, <1>2, <1>4 DEF Reach
  <1>7. Reach(lg, a, from) => a <= from
    BY <1>1, <1>5 DEF Reach
  <1>8. a < from => (Reach(lg, a, from) <=> Reach(lg, a, lg[from].prev))
    BY <1>0, <1>1, <1>3 DEF Reach
  <1>9. QED
    BY <1>6, <1>7, <1>8

LEMMA ReachTrans ==
  ASSUME NEW lg, IsLog(lg), NEW a \in Nat, NEW b \in Nat, NEW from \in 0 .. Len(lg),
         Reach(lg, a, b), Reach(lg, b, from)
  PROVE  Reach(lg, a, from)
  <1>0. PICK n \in Nat : n = Len(lg) /\ \A i \in 1 .. n : lg[i].prev \in 0 .. i - 1
    BY DEF IsLog
  <1>1. DEFINE S == {i \in 0 .. n : Reach(lg, b, i) => Reach(lg, a, i)}
  <1>2. ASSUME NEW i \in 0 .. n, \A j \in 0 .. i - 1 : j \in S PROVE i \in S
    <2>1. SUFFICES ASSUME Reach(lg, b, i) PROVE Reach(lg, a, i)
      OBVIOUS
    <2>2. b <= i /\ (b < i => Reach(lg, b, lg[i].prev))
      BY <1>0, <2>1, ReachStep
    <2>3. CASE b = i
      BY <2>3
    <2>4. CASE b < i
      <3>1. lg[i].prev \in 0 .. i - 1
        BY <1>0, <2>4
      <3>2. Reach(lg, a, lg[i].prev)
        BY <1>2, <2>2, <2>4, <3>1
      <3>3. a <= b
        BY <1>0, <2>4, ReachStep
      <3>4. QED
        BY <1>0, <2>4, <3>2, <3>3, ReachStep
    <2>5. QED
      BY <2>2, <2>3, <2>4
  <1>3. 0 .. n \subseteq S
    <2>1. HIDE DEF S
    <2>2. QED
      BY <1>2, StrongInductionSet
  <1>4. QED
    BY <1>0, <1>3

\* Where a search stops is on the chain, and its predecessor points to it.
LEMMA MatchReached ==
  ASSUME NEW lg, IsLog(lg), NEW k, NEW min \in Nat, NEW from \in 0 .. Len(lg)
  PROVE  LET a == Match(lg, k, from, min)
         IN  Reach(lg, a, from) /\ (a = from \/ \E i \in 1 .. Len(lg) : lg[i].prev = a)
  <1>0. PICK n \in Nat : n = Len(lg) /\ \A i \in 1 .. n : lg[i].prev \in 0 .. i - 1
    BY DEF IsLog
  <1>1. DEFINE Ok(i, a) == Reach(lg, a, i) /\ (a = i \/ \E j \in 1 .. n : lg[j].prev = a)
               S == {i \in 0 .. n : Ok(i, Match(lg, k, i, min))}
  <1>2. ASSUME NEW i \in 0 .. n, \A j \in 0 .. i - 1 : j \in S PROVE i \in S
    <2>0. PICK a : a = Match(lg, k, i, min)
      OBVIOUS
    <2>1. a = IF i < min \/ i = 0 \/ lg[i].key = k THEN i ELSE Match(lg, k, lg[i].prev, min)
      BY <1>0, <2>0, MatchStep
    <2>2. CASE a = i
      <3>1. Reach(lg, i, i)
        BY <1>0, ReachStep
      <3>2. QED
        BY <2>0, <2>2, <3>1
    <2>3. CASE a # i
      <3>1. i \in 1 .. n /\ lg[i].prev \in 0 .. i - 1 /\ a = Match(lg, k, lg[i].prev, min)
        BY <1>0, <2>1, <2>3
      <3>2. Ok(lg[i].prev, a)
        BY <1>2, <3>1
      <3>3. a \in 0 .. lg[i].prev
        BY <1>0, <3>1, MatchRange
      <3>4. a \in Nat /\ a < i
        BY <3>1, <3>3
      <3>5. Reach(lg, a, i)
        BY <1>0, <3>2, <3>4, ReachStep
      <3>6. \E j \in 1 .. n : lg[j].prev = a
        BY <3>1, <3>2
      <3>7. QED
        BY <2>0, <3>5, <3>6
    <2>4. QED
      BY <2>2, <2>3
  <1>3. 0 .. n \subseteq S
    <2>1. HIDE DEF S
    <2>2. QED
      BY <1>2, StrongInductionSet
  <1>4. QED
    BY <1>0, <1>3

\* A search does not pass a record of its key.
LEMMA MatchAbove ==
  ASSUME NEW lg, IsLog(lg), NEW k, NEW a \in Nat \ {0}, NEW from \in 0 .. Len(lg),
         Reach(lg, a, from), lg[a].key = k
  PROVE  a <= Match(lg, k, from, 1)
  <1>0. PICK n \in Nat : n = Len(lg) /\ \A i \in 1 .. n : lg[i].prev \in 0 .. i - 1
    BY DEF IsLog
  <1>1. DEFINE S == {i \in 0 .. n : Reach(lg, a, i) => a <= Match(lg, k, i, 1)}
  <1>2. ASSUME NEW i \in 0 .. n, \A j \in 0 .. i - 1 : j \in S PROVE i \in S
    <2>1. SUFFICES ASSUME Reach(lg, a, i) PROVE a <= Match(lg, k, i, 1)
      OBVIOUS
    <2>2. Match(lg, k, i, 1) = IF i < 1 \/ i = 0 \/ lg[i].key = k THEN i
                               ELSE Match(lg, k, lg[i].prev, 1)
      BY <1>0, MatchStep
    <2>3. a <= i /\ (a < i => Reach(lg, a, lg[i].prev))
      BY <1>0, <2>1, ReachStep
    <2>4. CASE i < 1 \/ i = 0 \/ lg[i].key = k
      BY <2>2, <2>3, <2>4
    <2>5. CASE ~(i < 1 \/ i = 0 \/ lg[i].key = k)
      <3>1. a < i /\ lg[i].prev \in 0 .. i - 1
        BY <1>0, <2>3, <2>5
      <3>2. QED
        BY <1>2, <2>2, <2>3, <2>5, <3>1
    <2>6. QED
      BY <2>4, <2>5
  <1>3. 0 .. n \subseteq S
    <2>1. HIDE DEF S
    <2>2. QED
      BY <1>2, StrongInductionSet
  <1>4. QED
    BY <1>0, <1>3

\* A search that passes a on its chain finds what a search from a finds.
LEMMA MatchPast ==
  ASSUME NEW lg, IsLog(lg), NEW k, NEW min \in Nat, 1 <= min, NEW a \in Nat,
         NEW from \in 0 .. Len(lg), Reach(lg, a, from), Match(lg, k, from, min) <= a
  PROVE  Match(lg, k, from, 1) = Match(lg, k, a, 1)
  <1>0. PICK n \in Nat : n = Len(lg) /\ \A i \in 1 .. n : lg[i].prev \in 0 .. i - 1
    BY DEF IsLog
  <1>a. ASSUME NEW i \in 0 .. n, NEW m \in Nat
        PROVE  Match(lg, k, i, m) = IF i < m \/ i = 0 \/ lg[i].key = k THEN i
                                    ELSE Match(lg, k, lg[i].prev, m)
    <2>1. i \in 0 .. Len(lg)
      BY <1>0
    <2>2. QED
      BY <2>1, MatchStep
  <1>1. DEFINE S == {i \in 0 .. n : Reach(lg, a, i) /\ Match(lg, k, i, min) <= a
                                    => Match(lg, k, i, 1) = Match(lg, k, a, 1)}
  <1>2. ASSUME NEW i \in 0 .. n, \A j \in 0 .. i - 1 : j \in S PROVE i \in S
    <2>1. SUFFICES ASSUME Reach(lg, a, i), Match(lg, k, i, min) <= a
                   PROVE  Match(lg, k, i, 1) = Match(lg, k, a, 1)
      OBVIOUS
    <2>2. Match(lg, k, i, 1) = IF i < 1 \/ i = 0 \/ lg[i].key = k THEN i
                               ELSE Match(lg, k, lg[i].prev, 1)
      BY <1>a
    <2>3. Match(lg, k, i, min) = IF i < min \/ i = 0 \/ lg[i].key = k THEN i
                                 ELSE Match(lg, k, lg[i].prev, min)
      BY <1>a
    <2>4. a <= i /\ (a < i => Reach(lg, a, lg[i].prev))
      BY <1>0, <2>1, ReachStep
    <2>5. CASE a = i
      BY <2>5
    <2>6. CASE a # i
      <3>1. ~(i < min \/ i = 0 \/ lg[i].key = k)
        BY <2>1, <2>3, <2>4, <2>6
      <3>2. lg[i].prev \in 0 .. i - 1 /\ ~(i < 1 \/ i = 0 \/ lg[i].key = k) /\ a < i
        BY <1>0, <2>4, <2>6, <3>1
      <3>3. lg[i].prev \in S
        BY <1>2, <3>2
      <3>4. Match(lg, k, lg[i].prev, min) <= a
        BY <2>1, <2>3, <3>1
      <3>5. QED
        BY <2>2, <2>4, <3>2, <3>3, <3>4
    <2>7. QED
      BY <2>5, <2>6
  <1>3. 0 .. n \subseteq S
    <2>1. HIDE DEF S
    <2>2. QED
      BY <1>2, StrongInductionSet
  <1>4. QED
    BY <1>0, <1>3

\* A record that is not the first of its key has one of the key right above it.
LEMMA MatchNext ==
  ASSUME NEW lg, IsLog(lg), NEW k, NEW a \in Nat \ {0}, NEW from \in 0 .. Len(lg),
         Reach(lg, a, from), lg[a].key = k, Match(lg, k, from, 1) # a
  PROVE  \E b \in a + 1 .. Len(lg) :
           Reach(lg, b, from) /\ lg[b].key = k /\ Match(lg, k, lg[b].prev, 1) = a
  <1>0. PICK n \in Nat : n = Len(lg) /\ \A i \in 1 .. n : lg[i].prev \in 0 .. i - 1
    BY DEF IsLog
  <1>1. DEFINE Next_(i, b) == /\ Reach(lg, b, i) /\ lg[b].key = k
                              /\ Match(lg, k, lg[b].prev, 1) = a
               S == {i \in 0 .. n : Reach(lg, a, i) /\ Match(lg, k, i, 1) # a
                                    => \E b \in a + 1 .. n : Next_(i, b)}
  <1>2. ASSUME NEW i \in 0 .. n, \A j \in 0 .. i - 1 : j \in S PROVE i \in S
    <2>1. SUFFICES ASSUME Reach(lg, a, i), Match(lg, k, i, 1) # a
                   PROVE  \E b \in a + 1 .. n : Next_(i, b)
      OBVIOUS
    <2>2. Match(lg, k, i, 1) = IF i < 1 \/ i = 0 \/ lg[i].key = k THEN i
                               ELSE Match(lg, k, lg[i].prev, 1)
      <3>1. i \in 0 .. Len(lg)
        BY <1>0
      <3>2. QED
        BY <3>1, MatchStep
    <2>3. a <= i /\ (a < i => Reach(lg, a, lg[i].prev))
      BY <1>0, <2>1, ReachStep
    <2>4. a < i
      <3>1. a # i
        BY <2>1, <2>2
      <3>2. QED
        BY <2>3, <3>1
    <2>5. lg[i].prev \in 0 .. i - 1 /\ Reach(lg, a, lg[i].prev)
      BY <1>0, <2>3, <2>4
    <2>6. CASE Match(lg, k, lg[i].prev, 1) # a
      <3>1. PICK b \in a + 1 .. n : Next_(lg[i].prev, b)
        BY <1>2, <2>5, <2>6
      <3>2. b <= lg[i].prev
        BY <1>0, <2>5, <3>1, ReachStep
      <3>3. b \in Nat /\ b < i
        BY <2>5, <3>2
      <3>4. Reach(lg, b, i)
        BY <1>0, <3>1, <3>3, ReachStep
      <3>5. QED
        BY <3>1, <3>4
    <2>7. CASE Match(lg, k, lg[i].prev, 1) = a
      <3>1. lg[i].key = k
        BY <2>1, <2>2, <2>4, <2>7
      <3>2. Reach(lg, i, i) /\ i \in a + 1 .. n
        BY <1>0, <2>4, ReachStep
      <3>3. Next_(i, i)
        BY <2>7, <3>1, <3>2
      <3>4. QED
        BY <3>2, <3>3
    <2>8. QED
      BY <2>6, <2>7
  <1>3. 0 .. n \subseteq S
    <2>1. HIDE DEF S
    <2>2. QED
      BY <1>2, StrongInductionSet
  <1>4. QED
    BY <1>0, <1>3

\* A log that has grown: the old records have their keys and links.
Extends(lg, lh) ==
  /\ IsLog(lg) /\ IsLog(lh) /\ Len(lg) <= Len(lh)
  /\ \A a \in 1 .. Len(lg) : lh[a].prev = lg[a].prev /\ lh[a].key = lg[a].key

LEMMA MatchSame ==
  ASSUME NEW lg, NEW lh, Extends(lg, lh), NEW k, NEW min \in Nat, NEW from \in 0 .. Len(lg)
  PROVE  Match(lh, k, from, min) = Match(lg, k, from, min)
  <1>1. Len(lg) \in Nat /\ Len(lh) \in Nat /\ Len(lg) <= Len(lh) /\ IsLog(lg) /\ IsLog(lh)
        /\ \A a \in 1 .. Len(lg) : lh[a].prev = lg[a].prev /\ lh[a].key = lg[a].key
    BY DEF Extends, IsLog
  <1>2. PICK s, u : s = StopAt(lg, k, min) /\ u = StopAt(lh, k, min)
    OBVIOUS
  <1>3. 0 \in s /\ 0 \in u
    BY <1>1, <1>2 DEF StopAt
  <1>4. \A a \in 0 .. Len(lg) : a \in s <=> a \in u
    BY <1>1, <1>2 DEF StopAt
  <1>5. \A a \in 0 .. Len(lg) : Walk(lh, u, a) = Walk(lg, s, a)
    BY <1>1, <1>3, <1>4, WalkSame
  <1>6. QED
    BY <1>2, <1>5 DEF Match

LEMMA ReachSame ==
  ASSUME NEW lg, NEW lh, Extends(lg, lh), NEW a \in Nat, NEW from \in 0 .. Len(lg)
  PROVE  Reach(lh, a, from) <=> Reach(lg, a, from)
  <1>1. Len(lg) \in Nat /\ Len(lg) <= Len(lh) /\ IsLog(lg) /\ IsLog(lh)
        /\ \A i \in 1 .. Len(lg) : lh[i].prev = lg[i].prev
    BY DEF Extends, IsLog
  <1>2. PICK s : s = 0 .. a
    OBVIOUS
  <1>3. 0 \in s
    BY <1>2
  <1>4. \A i \in 0 .. Len(lg) : Walk(lh, s, i) = Walk(lg, s, i)
    BY <1>1, <1>3, WalkSame
  <1>5. QED
    BY <1>2, <1>4 DEF Reach

-----------------------------------------------------------------------------
(***************************************************************************)
(* What is below the safe read-only address does not change.               *)
(***************************************************************************)
\* The fields of a call.
CallFields ==
  {"pc", "stage", "todo", "target", "req", "retrying", "again", "disk", "status", "old",
   "new", "phase", "version", "expected", "address", "latest", "head", "safe", "ro",
   "new_address"}
IsCall(c) == DOMAIN c = CallFields

\* Thread t may still change the record at a: no other thread is past the moment
\* in which a becomes immutable.
Mutable(t, a) == safe_ro <= a /\ (t \notin unsafe => ro <= a)

Changes == {"decide", "recheck", "in place", "swap"}

Snapshot(t) ==
  /\ call[t].pc \in {"decide", "recheck", "in place"} =>
       call[t].ro \in Nat /\ Mutable(t, call[t].ro)
  /\ call[t].pc \in {"recheck", "in place"} => call[t].address >= call[t].ro
  /\ call[t].pc = "swap" =>
       call[t].new_address \in Nat /\ Mutable(t, call[t].new_address)

RegionsInv ==
  /\ safe_ro \in Nat /\ ro \in Nat /\ Len(log) \in Nat
  /\ safe_ro <= ro /\ ro <= Len(log) + 1
SnapshotInv ==
  /\ \E S : log \in Seq(S)
  /\ RegionsInv
  /\ DOMAIN call = Thread
  /\ \A t \in Thread : IsCall(call[t]) /\ Snapshot(t)

\* What happens to the regions in one step of thread t.
RegionsMove(t) ==
  \/ UNCHANGED <<safe_ro, ro, unsafe>>
  \/ /\ unsafe' = unsafe \ {t} /\ ro' = ro
     /\ safe_ro' = IF unsafe \ {t} = {} THEN ro ELSE safe_ro
  \/ unsafe' = Thread /\ ro' = Len(log) + 1 /\ safe_ro' = safe_ro

LEMMA RefreshMoves ==
  ASSUME NEW t, Refresh(t)
  PROVE  RegionsMove(t)
  BY DEF Refresh, Drain, RegionsMove, TailAddress

LEMMA RegionsKept ==
  ASSUME RegionsInv, NEW t, RegionsMove(t), Len(log') \in Nat, Len(log) <= Len(log')
  PROVE  RegionsInv'
  BY DEF RegionsInv, RegionsMove

LEMMA OtherMutable ==
  ASSUME RegionsInv, NEW t, RegionsMove(t), NEW u \in Thread, u # t, NEW a \in Nat, Mutable(u, a)
  PROVE  Mutable(u, a)'
  BY DEF RegionsInv, RegionsMove, Mutable

\* A step of thread t, after which its own snapshot is right.
LEMMA ThreadStep ==
  ASSUME SnapshotInv, NEW t \in Thread, NEW c, call' = [call EXCEPT ![t] = c], IsCall(c),
         c.pc \notin Changes \/ Snapshot(t)', RegionsMove(t),
         \E S : log' \in Seq(S), Len(log) <= Len(log')
  PROVE  SnapshotInv'
  <1>1. DOMAIN call' = Thread /\ call'[t] = c /\ \A u \in Thread : u # t => call'[u] = call[u]
    BY DEF SnapshotInv
  <1>2. RegionsInv'
    <2>1. Len(log') \in Nat
      OBVIOUS
    <2>2. QED
      BY <2>1, RegionsKept DEF SnapshotInv
  <1>3. Snapshot(t)' /\ IsCall(call'[t])
    BY <1>1 DEF Snapshot, Changes
  <1>4. ASSUME NEW u \in Thread, u # t PROVE Snapshot(u)' /\ IsCall(call'[u])
    <2>1. call'[u] = call[u] /\ IsCall(call[u]) /\ Snapshot(u) /\ RegionsInv
      BY <1>1, <1>4 DEF SnapshotInv
    <2>2. \A a \in Nat : Mutable(u, a) => Mutable(u, a)'
      BY <1>4, <2>1, OtherMutable
    <2>3. QED
      BY <2>1, <2>2 DEF Snapshot
  <1>5. QED
    BY <1>1, <1>2, <1>3, <1>4 DEF SnapshotInv

\* The updates of a call.
LEMMA CallUpdates ==
  ASSUME NEW c, IsCall(c)
  PROVE  /\ \A p : IsCall([c EXCEPT !.pc = p]) /\ [c EXCEPT !.pc = p].pc = p
         /\ \A p, st : /\ IsCall([c EXCEPT !.pc = p, !.status = st, !.old = 0, !.new = 0])
                       /\ [c EXCEPT !.pc = p, !.status = st, !.old = 0, !.new = 0].pc = p
         /\ \A x : IsCall([c EXCEPT !.old = x]) /\ IsCall([c EXCEPT !.new = x])
         /\ \A x, y : IsCall([c EXCEPT !.old = x, !.new = y])
         /\ \A x : IsCall([c EXCEPT !.target = x]) /\ [c EXCEPT !.target = x].pc = c.pc
         /\ IsCall(GoAsync(c)) /\ GoAsync(c).pc = c.pc
         /\ IsCall(Again(c)) /\ Again(c).pc = "internal"
         /\ IsCall(Returned(c)) /\ Returned(c).pc \in {"idle", "completing"}
  <1>1. \A p : IsCall([c EXCEPT !.pc = p]) /\ [c EXCEPT !.pc = p].pc = p
    BY DEF IsCall, CallFields
  <1>2. \A p, st : /\ IsCall([c EXCEPT !.pc = p, !.status = st, !.old = 0, !.new = 0])
                   /\ [c EXCEPT !.pc = p, !.status = st, !.old = 0, !.new = 0].pc = p
    BY DEF IsCall, CallFields
  <1>3. \A x : IsCall([c EXCEPT !.old = x]) /\ IsCall([c EXCEPT !.new = x])
    BY DEF IsCall, CallFields
  <1>4. \A x, y : IsCall([c EXCEPT !.old = x, !.new = y])
    BY DEF IsCall, CallFields
  <1>5. \A x : IsCall([c EXCEPT !.target = x]) /\ [c EXCEPT !.target = x].pc = c.pc
    BY DEF IsCall, CallFields
  <1>6. IsCall(GoAsync(c)) /\ GoAsync(c).pc = c.pc
    BY DEF IsCall, CallFields, GoAsync
  <1>7. IsCall(Again(c)) /\ Again(c).pc = "internal"
    BY DEF IsCall, CallFields, Again
  <1>8. IsCall(Returned(c)) /\ Returned(c).pc \in {"idle", "completing"}
    BY DEF IsCall, CallFields, Returned, IdleCall
  <1>9. QED
    BY <1>1, <1>2, <1>3, <1>4, <1>5, <1>6, <1>7, <1>8

Frozen == \A a \in 1 .. safe_ro - 1 : log'[a] = log[a]

LEMMA LogKept ==
  ASSUME SnapshotInv, log' = log
  PROVE  (\E S : log' \in Seq(S)) /\ Len(log) <= Len(log') /\ Frozen
  BY DEF SnapshotInv, RegionsInv, Frozen

\* A step that changes neither the log nor what the thread may change.
LEMMA QuietStep ==
  ASSUME SnapshotInv, NEW t \in Thread, NEW c, call' = [call EXCEPT ![t] = c], IsCall(c),
         c.pc \notin Changes, RegionsMove(t), log' = log
  PROVE  SnapshotInv' /\ Frozen
  <1>1. (\E S : log' \in Seq(S)) /\ Len(log) <= Len(log')
    BY DEF SnapshotInv, RegionsInv
  <1>2. SnapshotInv'
    BY <1>1, ThreadStep
  <1>3. QED
    BY <1>2 DEF Frozen

LEMMA SameCalls ==
  ASSUME SnapshotInv, call' = call, log' = log,
         \/ UNCHANGED <<safe_ro, ro, unsafe>>
         \/ unsafe' = Thread /\ ro' = Len(log) + 1 /\ safe_ro' = safe_ro
  PROVE  SnapshotInv' /\ Frozen
  <1>1. RegionsInv'
    BY DEF SnapshotInv, RegionsInv
  <1>2. ASSUME NEW u \in Thread, NEW a \in Nat, Mutable(u, a) PROVE Mutable(u, a)'
    BY <1>2 DEF Mutable
  <1>3. ASSUME NEW u \in Thread PROVE Snapshot(u)'
    BY <1>2 DEF SnapshotInv, Snapshot
  <1>4. QED
    BY <1>1, <1>3 DEF SnapshotInv, Frozen

LEMMA SnapshotLookup ==
  ASSUME SnapshotInv, NEW t \in Thread, Lookup(t)
  PROVE  SnapshotInv' /\ Frozen
  <1>0. IsCall(call[t]) /\ RegionsInv /\ DOMAIN call = Thread
    BY DEF SnapshotInv
  <1>1. UNCHANGED <<log, safe_ro, ro, unsafe>>
    BY DEF Lookup, regions, logvars
  <1>a. PICK c : c = LookedUp(t)
    OBVIOUS
  <1>2. call' = [call EXCEPT ![t] = c] /\ IsCall(c) /\ c.ro = ro
        /\ c.pc \in {"continue", "decide"}
    BY <1>0, <1>a DEF Lookup, LookedUp, Set, IsCall, CallFields
  <1>3. call'[t] = c
    BY <1>0, <1>2
  <1>b. Mutable(t, ro)' /\ ro \in Nat
    BY <1>0, <1>1 DEF Mutable, RegionsInv
  <1>4. Snapshot(t)'
    BY <1>1, <1>2, <1>3, <1>b DEF Snapshot
  <1>5. RegionsMove(t)
    BY <1>1 DEF RegionsMove
  <1>6. (\E S : log' \in Seq(S)) /\ Len(log) <= Len(log')
    BY <1>1 DEF SnapshotInv, RegionsInv
  <1>7. SnapshotInv'
    BY <1>2, <1>4, <1>5, <1>6, ThreadStep
  <1>8. QED
    BY <1>1, <1>7 DEF Frozen

LEMMA ExitIsQuiet ==
  ASSUME SnapshotInv, NEW t \in Thread, NEW c, IsCall(c), NEW st, Exit(t, c, st),
         RegionsMove(t), log' = log
  PROVE  SnapshotInv' /\ Frozen
  <1>1. PICK d : d = [c EXCEPT !.pc = "handle", !.status = st, !.old = 0, !.new = 0]
    OBVIOUS
  <1>2. call' = [call EXCEPT ![t] = d] /\ IsCall(d) /\ d.pc = "handle"
    BY <1>1 DEF Exit, Set, IsCall, CallFields
  <1>3. QED
    BY <1>2, QuietStep DEF Changes

LEMMA SnapshotDecideRead ==
  ASSUME SnapshotInv, NEW t \in Thread, DecideRead(t)
  PROVE  SnapshotInv' /\ Frozen
  <1>0. PICK c : c = call[t] /\ IsCall(c) /\ IsCall(GoAsync(c))
    BY CallUpdates DEF SnapshotInv
  <1>1. log' = log /\ RegionsMove(t)
    BY DEF DecideRead, regions, logvars, RegionsMove
  <1>2. \E d, st : IsCall(d) /\ Exit(t, d, st)
    BY <1>0 DEF DecideRead
  <1>3. QED
    BY <1>1, <1>2, ExitIsQuiet

\* A step to a new place of the program.
LEMMA SnapshotGoes ==
  ASSUME SnapshotInv, NEW t \in Thread, NEW p, Set(t, [call[t] EXCEPT !.pc = p]),
         log' = log, UNCHANGED <<safe_ro, ro, unsafe>>,
         p \in {"recheck", "in place"} =>
           /\ call[t].pc \in {"decide", "recheck", "in place"}
           /\ call[t].address >= call[t].ro,
         p \notin {"decide", "swap"}
  PROVE  SnapshotInv' /\ Frozen
  <1>0. PICK c : c = [call[t] EXCEPT !.pc = p]
    OBVIOUS
  <1>a. IsCall(call[t]) /\ Snapshot(t) /\ DOMAIN call = Thread
    BY DEF SnapshotInv
  <1>1. IsCall(c) /\ c.pc = p /\ c.address = call[t].address /\ c.ro = call[t].ro
    BY <1>0, <1>a DEF IsCall, CallFields
  <1>2. call' = [call EXCEPT ![t] = c] /\ call'[t] = c
    BY <1>0, <1>a DEF Set
  <1>3. Snapshot(t)'
    BY <1>a, <1>1, <1>2 DEF Snapshot, Mutable
  <1>4. RegionsMove(t)
    BY DEF RegionsMove
  <1>5. (\E S : log' \in Seq(S)) /\ Len(log) <= Len(log')
    BY LogKept
  <1>6. SnapshotInv'
    BY <1>1, <1>2, <1>3, <1>4, <1>5, ThreadStep
  <1>7. QED
    BY <1>6 DEF Frozen

LEMMA SnapshotProceed ==
  ASSUME SnapshotInv, NEW t \in Thread, NEW c, NEW where, Proceed(t, c, where),
         call[t].pc = "decide",
         \/ c = call[t]
         \/ c = [call[t] EXCEPT !.old = @ + 1]
         \/ c = [call[t] EXCEPT !.new = @ + 1],
         where = "recheck" => call[t].address >= call[t].ro,
         log' = log, UNCHANGED <<safe_ro, ro, unsafe>>
  PROVE  SnapshotInv' /\ Frozen
  <1>0. IsCall(call[t]) /\ Snapshot(t) /\ DOMAIN call = Thread
    BY DEF SnapshotInv
  <1>1. IsCall(c) /\ c.ro = call[t].ro /\ c.address = call[t].address
    BY <1>0 DEF IsCall, CallFields
  <1>2. RegionsMove(t)
    BY DEF RegionsMove
  <1>3. CASE where \in {"recheck", "create"}
    <2>1. PICK d : d = [c EXCEPT !.pc = where]
      OBVIOUS
    <2>2. IsCall(d) /\ d.pc = where /\ d.ro = call[t].ro /\ d.address = call[t].address
      BY <1>1, <2>1 DEF IsCall, CallFields
    <2>3. call' = [call EXCEPT ![t] = d] /\ call'[t] = d
      BY <1>0, <1>3, <2>1 DEF Proceed, Set
    <2>4. Snapshot(t)'
      BY <1>0, <1>3, <2>2, <2>3 DEF Snapshot, Mutable
    <2>5. QED
      BY <1>2, <2>2, <2>3, <2>4, LogKept, ThreadStep
  <1>4. CASE where \notin {"recheck", "create"}
    <2>1. PICK d : d = [GoAsync(c) EXCEPT !.old = call[t].old, !.new = call[t].new]
      OBVIOUS
    <2>2. IsCall(GoAsync(c))
      BY <1>1, CallUpdates
    <2>3. IsCall(d)
      BY <2>1, <2>2 DEF IsCall
    <2>4. Exit(t, d, where)
      BY <1>4, <2>1 DEF Proceed
    <2>5. QED
      BY <1>2, <2>3, <2>4, ExitIsQuiet
  <1>5. QED
    BY <1>3, <1>4

LEMMA SnapshotDecideUpdate ==
  ASSUME SnapshotInv, NEW t \in Thread, DecideUpdate(t)
  PROVE  SnapshotInv' /\ Frozen
  <1>0. PICK c : c = call[t] /\ IsCall(c) /\ IsCall(GoAsync(c))
    BY CallUpdates DEF SnapshotInv
  <1>1. log' = log /\ UNCHANGED <<safe_ro, ro, unsafe>> /\ RegionsMove(t) /\ c.pc = "decide"
    BY <1>0 DEF DecideUpdate, regions, logvars, RegionsMove, At
  <1>2. Region(c) = "recheck" => c.address >= c.ro
    BY DEF Region
  <1>3. \/ CommonCase(c) /\ Set(t, [c EXCEPT !.pc = "in place"])
        \/ Proceed(t, [c EXCEPT !.old = @ + 1], Region(c))
        \/ Proceed(t, [c EXCEPT !.new = @ + 1], "create")
        \/ Proceed(t, c, "create")
        \/ Proceed(t, c, Region(c))
        \/ \E st : Exit(t, GoAsync(c), st)
    BY <1>0 DEF DecideUpdate
  <1>4. CASE CommonCase(c) /\ Set(t, [c EXCEPT !.pc = "in place"])
    <2>1. c.address >= c.ro
      BY <1>4 DEF CommonCase
    <2>2. PICK p : p = "in place"
      OBVIOUS
    <2>3. /\ Set(t, [call[t] EXCEPT !.pc = p])
          /\ p \in {"recheck", "in place"} =>
               /\ call[t].pc \in {"decide", "recheck", "in place"}
               /\ call[t].address >= call[t].ro
          /\ p \notin {"decide", "swap"}
      BY <1>0, <1>1, <1>4, <2>1, <2>2
    <2>4. QED
      BY <1>1, <2>3, SnapshotGoes
  <1>5. CASE Proceed(t, [c EXCEPT !.old = @ + 1], Region(c))
    <2>1. PICK d : d = [c EXCEPT !.old = @ + 1]
      OBVIOUS
    <2>2. QED
      BY <1>0, <1>1, <1>2, <1>5, <2>1, SnapshotProceed
  <1>6. CASE Proceed(t, [c EXCEPT !.new = @ + 1], "create")
    <2>1. PICK d : d = [c EXCEPT !.new = @ + 1]
      OBVIOUS
    <2>2. QED
      BY <1>0, <1>1, <1>2, <1>6, <2>1, SnapshotProceed
  <1>7. CASE Proceed(t, c, "create") \/ Proceed(t, c, Region(c))
    BY <1>0, <1>1, <1>2, <1>7, SnapshotProceed
  <1>8. CASE \E st : Exit(t, GoAsync(c), st)
    BY <1>0, <1>1, <1>8, ExitIsQuiet
  <1>9. QED
    BY <1>3, <1>4, <1>5, <1>6, <1>7, <1>8

LEMMA SnapshotRecheck ==
  ASSUME SnapshotInv, NEW t \in Thread, Recheck(t)
  PROVE  SnapshotInv' /\ Frozen
  <1>0. PICK c : c = call[t] /\ IsCall(c) /\ Snapshot(t)
    BY DEF SnapshotInv
  <1>1. log' = log /\ UNCHANGED <<safe_ro, ro, unsafe>> /\ RegionsMove(t) /\ c.pc = "recheck"
    BY <1>0 DEF Recheck, regions, logvars, RegionsMove, At
  <1>2. c.address >= c.ro
    BY <1>0, <1>1 DEF Snapshot
  <1>3. \/ Exit(t, c, "RETRY_NOW")
        \/ \E p \in {"in place", "drop", "dropped"} : Set(t, [c EXCEPT !.pc = p])
    BY <1>0 DEF Recheck
  <1>4. CASE Exit(t, c, "RETRY_NOW")
    BY <1>0, <1>1, <1>4, ExitIsQuiet
  <1>5. ASSUME NEW p \in {"in place", "drop", "dropped"}, Set(t, [c EXCEPT !.pc = p])
        PROVE  SnapshotInv' /\ Frozen
    BY <1>0, <1>1, <1>2, <1>5, SnapshotGoes
  <1>6. QED
    BY <1>3, <1>4, <1>5

\* The record at a, which t may change, is not below the safe read-only address.
LEMMA FrozenElsewhere ==
  ASSUME SnapshotInv, NEW a, a \in 1 .. safe_ro - 1 => FALSE, NEW v, log' = [log EXCEPT ![a] = v]
  PROVE  (\E S : log' \in Seq(S)) /\ Len(log') = Len(log) /\ Frozen
  <1>1. PICK S : log \in Seq(S)
    BY DEF SnapshotInv
  <1>2. log' \in Seq(S \cup {v}) /\ Len(log') = Len(log)
    <2>1. PICK n \in Nat : n = Len(log) /\ log \in [1 .. n -> S]
      BY <1>1
    <2>2. log' \in [1 .. n -> S \cup {v}]
      BY <2>1
    <2>3. \A T : [1 .. n -> T] \subseteq Seq(T) /\ \A f \in [1 .. n -> T] : Len(f) = n
      BY <2>1
    <2>4. QED
      BY <2>1, <2>2, <2>3
  <1>3. \A b \in 1 .. safe_ro - 1 : b \in 1 .. Len(log) /\ b # a
    BY DEF SnapshotInv, RegionsInv
  <1>4. \A b \in 1 .. Len(log) : b # a => log'[b] = log[b]
    BY <1>1
  <1>5. QED
    BY <1>2, <1>3, <1>4 DEF Frozen

LEMMA SnapshotUpdateInPlace ==
  ASSUME SnapshotInv, NEW t \in Thread, UpdateInPlace(t)
  PROVE  SnapshotInv' /\ Frozen
  <1>0. PICK c : c = call[t] /\ IsCall(c) /\ Snapshot(t) /\ RegionsInv
    BY DEF SnapshotInv
  <1>1. UNCHANGED <<safe_ro, ro, unsafe>> /\ RegionsMove(t) /\ c.pc = "in place"
    BY <1>0 DEF UpdateInPlace, regions, RegionsMove, At
  <1>2. PICK v : log' = [log EXCEPT ![c.address] = v]
    BY <1>0 DEF UpdateInPlace
  <1>3. c.address \in 1 .. safe_ro - 1 => FALSE
    <2>1. c.address >= c.ro /\ c.ro \in Nat /\ safe_ro <= c.ro
      BY <1>0, <1>1 DEF Snapshot, Mutable
    <2>2. QED
      BY <1>0, <2>1 DEF RegionsInv
  <1>4. PICK a : a = c.address
    OBVIOUS
  <1>5. (\E S : log' \in Seq(S)) /\ Len(log') = Len(log) /\ Frozen
    BY <1>2, <1>3, <1>4, FrozenElsewhere
  <1>6. PICK d : d = [c EXCEPT !.pc = "handle", !.status = Success(t), !.old = 0, !.new = 0]
    OBVIOUS
  <1>7. call' = [call EXCEPT ![t] = d]
    BY <1>0, <1>6 DEF UpdateInPlace, Exit, Set
  <1>8. IsCall(d) /\ d.pc \notin Changes
    BY <1>0, <1>6 DEF IsCall, CallFields, Changes
  <1>9. Len(log) <= Len(log')
    BY <1>0, <1>5 DEF RegionsInv
  <1>10. SnapshotInv'
    BY <1>1, <1>5, <1>7, <1>8, <1>9, ThreadStep
  <1>11. QED
    BY <1>5, <1>10

LEMMA SnapshotCreateRecord ==
  ASSUME SnapshotInv, NEW t \in Thread, CreateRecord(t)
  PROVE  SnapshotInv' /\ Frozen
  <1>0. PICK c : c = call[t] /\ IsCall(c) /\ RegionsInv /\ DOMAIN call = Thread
    BY DEF SnapshotInv
  <1>1. UNCHANGED <<safe_ro, ro, unsafe>> /\ RegionsMove(t)
    BY DEF CreateRecord, regions, RegionsMove
  <1>2. PICK r : log' = Append(log, r)
    BY DEF CreateRecord
  <1>3. PICK S : log \in Seq(S)
    BY DEF SnapshotInv
  <1>4. /\ log' \in Seq(S \cup {r}) /\ Len(log') = Len(log) + 1
        /\ \A a \in 1 .. Len(log) : log'[a] = log[a]
    BY <1>2, <1>3
  <1>5. Frozen
    <2>1. \A a \in 1 .. safe_ro - 1 : a \in 1 .. Len(log)
      BY <1>0 DEF RegionsInv
    <2>2. QED
      BY <1>4, <2>1 DEF Frozen
  <1>6. PICK d : d = IF Continued(c) THEN c
                     ELSE [c EXCEPT !.phase = ctx[t].phase, !.version = ctx[t].version]
    OBVIOUS
  <1>7. IsCall(d) /\ IsCall(GoAsync(d))
    <2>1. IsCall(d)
      BY <1>0, <1>6 DEF IsCall
    <2>2. QED
      BY <2>1, CallUpdates
  <1>8. \/ Exit(t, GoAsync(d), "RECORD_ON_DISK")
        \/ Set(t, [d EXCEPT !.pc = "swap", !.new_address = TailAddress])
    BY <1>0, <1>6 DEF CreateRecord
  <1>9. Len(log) <= Len(log') /\ \E U : log' \in Seq(U)
    BY <1>0, <1>4 DEF RegionsInv
  <1>10. CASE Exit(t, GoAsync(d), "RECORD_ON_DISK")
    <2>1. PICK e : e = [GoAsync(d) EXCEPT !.pc = "handle", !.status = "RECORD_ON_DISK",
                                           !.old = 0, !.new = 0]
      OBVIOUS
    <2>2. call' = [call EXCEPT ![t] = e] /\ IsCall(e) /\ e.pc = "handle"
      BY <1>7, <1>10, <2>1 DEF Exit, Set, IsCall, CallFields
    <2>3. SnapshotInv'
      BY <1>1, <1>9, <2>2, ThreadStep DEF Changes
    <2>4. QED
      BY <1>5, <2>3
  <1>11. CASE Set(t, [d EXCEPT !.pc = "swap", !.new_address = TailAddress])
    <2>1. PICK e : e = [d EXCEPT !.pc = "swap", !.new_address = TailAddress]
      OBVIOUS
    <2>2. IsCall(e) /\ e.pc = "swap" /\ e.new_address = Len(log) + 1
      BY <1>7, <2>1 DEF IsCall, CallFields, TailAddress
    <2>3. call' = [call EXCEPT ![t] = e] /\ call'[t] = e
      BY <1>0, <1>11, <2>1 DEF Set
    <2>4. Len(log) + 1 \in Nat /\ Mutable(t, Len(log) + 1)
      BY <1>0 DEF RegionsInv, Mutable
    <2>5. Snapshot(t)'
      BY <1>1, <2>2, <2>3, <2>4 DEF Snapshot, Mutable
    <2>6. SnapshotInv'
      BY <1>1, <1>9, <2>2, <2>3, <2>5, ThreadStep
    <2>7. QED
      BY <1>5, <2>6
  <1>12. QED
    BY <1>8, <1>10, <1>11

LEMMA SnapshotSwapEntry ==
  ASSUME SnapshotInv, NEW t \in Thread, SwapEntry(t)
  PROVE  SnapshotInv' /\ Frozen
  <1>0. PICK c : c = call[t] /\ IsCall(c) /\ Snapshot(t) /\ RegionsInv /\ IsCall(GoAsync(c))
    BY CallUpdates DEF SnapshotInv
  <1>1. UNCHANGED <<safe_ro, ro, unsafe>> /\ RegionsMove(t) /\ c.pc = "swap"
    BY <1>0 DEF SwapEntry, regions, RegionsMove, At
  <1>2. c.new_address \in 1 .. safe_ro - 1 => FALSE
    BY <1>0, <1>1 DEF Snapshot, Mutable, RegionsInv
  <1>3. log' = log \/ \E v : log' = [log EXCEPT ![c.new_address] = v]
    BY <1>0 DEF SwapEntry
  <1>4. (\E S : log' \in Seq(S)) /\ Len(log) <= Len(log') /\ Frozen
    <2>1. CASE log' = log
      BY <2>1, LogKept
    <2>2. ASSUME NEW v, log' = [log EXCEPT ![c.new_address] = v]
          PROVE  (\E S : log' \in Seq(S)) /\ Len(log) <= Len(log') /\ Frozen
      <3>1. PICK a : a = c.new_address
        OBVIOUS
      <3>2. (\E S : log' \in Seq(S)) /\ Len(log') = Len(log) /\ Frozen
        BY <1>2, <2>2, <3>1, FrozenElsewhere
      <3>3. QED
        BY <1>0, <3>2 DEF RegionsInv
    <2>3. QED
      BY <1>3, <2>1, <2>2
  <1>5. \/ \E e, st : IsCall(e) /\ Exit(t, e, st)
        \/ Set(t, [c EXCEPT !.pc = "internal"])
    BY <1>0 DEF SwapEntry
  <1>6. PICK d : call' = [call EXCEPT ![t] = d] /\ IsCall(d) /\ d.pc \in {"handle", "internal"}
    <2>1. ASSUME NEW e, NEW st, IsCall(e), Exit(t, e, st)
          PROVE  \E d : call' = [call EXCEPT ![t] = d] /\ IsCall(d)
                        /\ d.pc \in {"handle", "internal"}
      <3>1. PICK d : d = [e EXCEPT !.pc = "handle", !.status = st, !.old = 0, !.new = 0]
        OBVIOUS
      <3>2. call' = [call EXCEPT ![t] = d] /\ IsCall(d) /\ d.pc = "handle"
        BY <2>1, <3>1 DEF Exit, Set, IsCall, CallFields
      <3>3. QED
        BY <3>2
    <2>2. CASE Set(t, [c EXCEPT !.pc = "internal"])
      <3>1. PICK d : d = [c EXCEPT !.pc = "internal"]
        OBVIOUS
      <3>2. call' = [call EXCEPT ![t] = d] /\ IsCall(d) /\ d.pc = "internal"
        BY <1>0, <2>2, <3>1 DEF Set, IsCall, CallFields
      <3>3. QED
        BY <3>2
    <2>3. QED
      BY <1>5, <2>1, <2>2
  <1>7. SnapshotInv'
    BY <1>1, <1>4, <1>6, ThreadStep DEF Changes
  <1>8. QED
    BY <1>4, <1>7

LEMMA SnapshotDropEntry ==
  ASSUME SnapshotInv, NEW t \in Thread, DropEntry(t)
  PROVE  SnapshotInv' /\ Frozen
  <1>1. IsCall(call[t]) /\ Exit(t, call[t], "SUCCESS") /\ log' = log /\ RegionsMove(t)
    BY DEF DropEntry, SnapshotInv, regions, RegionsMove
  <1>2. QED
    BY <1>1, ExitIsQuiet

LEMMA SnapshotContinueRmw ==
  ASSUME SnapshotInv, NEW t \in Thread, ContinueRmw(t)
  PROVE  SnapshotInv' /\ Frozen
  <1>0. PICK c : c = call[t] /\ IsCall(c) /\ IsCall(GoAsync(c))
    BY CallUpdates DEF SnapshotInv
  <1>1. log' = log /\ RegionsMove(t)
    BY DEF ContinueRmw, regions, logvars, RegionsMove
  <1>2. Exit(t, GoAsync(c), "RETRY_NOW") \/ Set(t, [c EXCEPT !.pc = "create"])
    BY <1>0 DEF ContinueRmw
  <1>3. CASE Exit(t, GoAsync(c), "RETRY_NOW")
    BY <1>0, <1>1, <1>3, ExitIsQuiet
  <1>4. CASE Set(t, [c EXCEPT !.pc = "create"])
    <2>1. PICK d : d = [c EXCEPT !.pc = "create"]
      OBVIOUS
    <2>2. call' = [call EXCEPT ![t] = d] /\ IsCall(d) /\ d.pc = "create"
      BY <1>0, <1>4, <2>1 DEF Set, IsCall, CallFields
    <2>3. QED
      BY <1>1, <2>2, QuietStep DEF Changes
  <1>5. QED
    BY <1>2, <1>3, <1>4

LEMMA SnapshotHandle ==
  ASSUME SnapshotInv, NEW t \in Thread,
         HandleDone(t) \/ HandleUnmark(t) \/ HandleRetryNow(t) \/ GoPending(t)
  PROVE  SnapshotInv' /\ Frozen
  <1>0. PICK e : e = call[t] /\ IsCall(e)
    BY DEF SnapshotInv
  <1>a. /\ IsCall(Again(e)) /\ Again(e).pc = "internal"
        /\ IsCall(Returned(e)) /\ Returned(e).pc \in {"idle", "completing"}
    BY <1>0, CallUpdates
  <1>1. PICK c, d : /\ c = Returned(call[t]) /\ d = Again(call[t])
                    /\ IsCall(c) /\ c.pc \in {"idle", "completing"}
                    /\ IsCall(d) /\ d.pc = "internal"
    BY <1>0, <1>a
  <1>2. log' = log /\ RegionsMove(t)
    BY DEF HandleDone, HandleUnmark, HandleRetryNow, GoPending, regions, logvars, RegionsMove
  <1>3. call' = [call EXCEPT ![t] = c] \/ call' = [call EXCEPT ![t] = d]
    BY <1>1 DEF HandleDone, HandleUnmark, HandleRetryNow, GoPending, Return, Set
  <1>4. QED
    BY <1>1, <1>2, <1>3, QuietStep DEF Changes

LEMMA SnapshotPivot ==
  ASSUME SnapshotInv, NEW t \in Thread, PivotAndRetry(t)
  PROVE  SnapshotInv' /\ Frozen
  <1>0. PICK e : e = call[t] /\ IsCall(e)
    BY DEF SnapshotInv
  <1>a. IsCall(Again(e)) /\ Again(e).pc = "internal"
    BY <1>0, CallUpdates
  <1>1. PICK c : c = Again(call[t]) /\ IsCall(c) /\ c.pc = "internal"
    BY <1>0, <1>a
  <1>2. PICK d : d = [c EXCEPT !.target = "cur", !.req.phase = ctx'[t].phase,
                               !.req.version = ctx'[t].version]
    OBVIOUS
  <1>3. IsCall(d) /\ d.pc = "internal"
    BY <1>1, <1>2 DEF IsCall, CallFields
  <1>4. call' = [call EXCEPT ![t] = d] /\ log' = log
    BY <1>1, <1>2 DEF PivotAndRetry, Set, logvars
  <1>5. RegionsMove(t)
    BY RefreshMoves DEF PivotAndRetry
  <1>6. QED
    BY <1>3, <1>4, <1>5, QuietStep DEF Changes

LEMMA SnapshotBegin ==
  ASSUME SnapshotInv, NEW t \in Thread, Begin(t) \/ CallCompletePending(t)
  PROVE  SnapshotInv' /\ Frozen
  <1>1. IsCall(IdleCall)
    BY DEF IsCall, IdleCall, CallFields
  <1>2. PICK d : call' = [call EXCEPT ![t] = d] /\ IsCall(d) /\ d.pc \in {"internal", "completing"}
    <2>1. CASE Begin(t)
      <3>1. PICK r : call' = [call EXCEPT ![t] = [IdleCall EXCEPT !.pc = "internal", !.req = r]]
        BY <2>1 DEF Begin, Set
      <3>2. PICK d : d = [IdleCall EXCEPT !.pc = "internal", !.req = r]
        OBVIOUS
      <3>3. IsCall(d) /\ d.pc = "internal"
        BY <1>1, <3>2 DEF IsCall, CallFields
      <3>4. QED
        BY <3>1, <3>2, <3>3
    <2>2. CASE CallCompletePending(t)
      <3>1. PICK g : call' = [call EXCEPT ![t] = [IdleCall EXCEPT !.pc = "completing", !.stage = g]]
        BY <2>2 DEF CallCompletePending, Set
      <3>2. PICK d : d = [IdleCall EXCEPT !.pc = "completing", !.stage = g]
        OBVIOUS
      <3>3. IsCall(d) /\ d.pc = "completing"
        BY <1>1, <3>2 DEF IsCall, CallFields
      <3>4. QED
        BY <3>1, <3>2, <3>3
    <2>3. QED
      BY <2>1, <2>2
  <1>3. log' = log /\ RegionsMove(t)
    BY DEF Begin, CallCompletePending, regions, logvars, RegionsMove
  <1>4. QED
    BY <1>2, <1>3, QuietStep DEF Changes

LEMMA SnapshotComplete ==
  ASSUME SnapshotInv, NEW t \in Thread, CompleteIo(t) \/ CompleteRefresh(t) \/ CompleteRetry(t)
  PROVE  SnapshotInv' /\ Frozen
  <1>0. PICK c : c = call[t] /\ IsCall(c) /\ c.pc = "completing"
    BY DEF SnapshotInv, CompleteIo, CompleteRefresh, CompleteRetry, At
  <1>1. log' = log /\ RegionsMove(t)
    <2>1. CASE CompleteRefresh(t)
      BY <2>1, RefreshMoves DEF CompleteRefresh, logvars
    <2>2. CASE CompleteIo(t) \/ CompleteRetry(t)
      BY <2>2 DEF CompleteIo, CompleteRetry, regions, logvars, RegionsMove
    <2>3. QED
      BY <2>1, <2>2
  <1>2. PICK d : call' = [call EXCEPT ![t] = d] /\ IsCall(d) /\ d.pc \notin Changes
    <2>1. IsCall(IdleCall) /\ IdleCall.pc = "idle"
      BY DEF IsCall, IdleCall, CallFields
    <2>2. ASSUME NEW d,
                 \/ d = IdleCall
                 \/ \E g : d = [c EXCEPT !.stage = g]
                 \/ \E g, k : d = [c EXCEPT !.stage = g, !.target = k]
                 \/ \E g, k : d = [c EXCEPT !.stage = g, !.todo = k]
                 \/ \E g, k, n : d = [c EXCEPT !.stage = g, !.target = k, !.todo = n]
                 \/ \E r, b : d = [c EXCEPT !.pc = "internal", !.req = r, !.disk = b]
                 \/ \E r, s : d = [c EXCEPT !.pc = "handle", !.req = r, !.status = s]
                 \/ \E r : d = TakenUp(c, r)
          PROVE  IsCall(d) /\ d.pc \notin Changes
      <3>1. CASE d = IdleCall
        BY <2>1, <3>1 DEF Changes
      <3>2. CASE \/ \E g : d = [c EXCEPT !.stage = g]
                 \/ \E g, k : d = [c EXCEPT !.stage = g, !.target = k]
                 \/ \E g, k : d = [c EXCEPT !.stage = g, !.todo = k]
                 \/ \E g, k, n : d = [c EXCEPT !.stage = g, !.target = k, !.todo = n]
        BY <1>0, <3>2 DEF IsCall, CallFields, Changes
      <3>3. CASE \/ \E r, b : d = [c EXCEPT !.pc = "internal", !.req = r, !.disk = b]
                 \/ \E r, s : d = [c EXCEPT !.pc = "handle", !.req = r, !.status = s]
        BY <1>0, <3>3 DEF IsCall, CallFields, Changes
      <3>4. CASE \E r : d = TakenUp(c, r)
        BY <1>0, <3>4 DEF IsCall, CallFields, Changes, TakenUp
      <3>5. QED
        BY <2>2, <3>1, <3>2, <3>3, <3>4
    <2>3. CASE CompleteIo(t)
      <3>1. \/ \E g : Set(t, [c EXCEPT !.stage = g])
            \/ \E r, b : Set(t, [c EXCEPT !.pc = "internal", !.req = r, !.disk = b])
            \/ \E r, s : Set(t, [c EXCEPT !.pc = "handle", !.req = r, !.status = s])
        BY <1>0, <2>3 DEF CompleteIo
      <3>2. QED
        BY <2>2, <3>1 DEF Set
    <2>4. CASE CompleteRefresh(t)
      <3>1. \/ \E g, k : Set(t, [c EXCEPT !.stage = g, !.todo = k])
            \/ \E g, k, n : Set(t, [c EXCEPT !.stage = g, !.target = k, !.todo = n])
        <4>1. CASE c.stage = "refresh"
          <5>1. Set(t, [c EXCEPT !.stage = "retry", !.target = "cur",
                                 !.todo = Len(ctx'[t].retry_requests)])
            BY <1>0, <2>4, <4>1 DEF CompleteRefresh
          <5>2. QED
            BY <5>1
        <4>2. CASE c.stage # "refresh"
          <5>1. Set(t, [c EXCEPT !.stage = "prev retry", !.todo = Len(prev'[t].retry_requests)])
            BY <1>0, <2>4, <4>2 DEF CompleteRefresh
          <5>2. QED
            BY <5>1
        <4>3. QED
          BY <4>1, <4>2
      <3>2. QED
        BY <2>2, <3>1 DEF Set
    <2>5. CASE CompleteRetry(t)
      <3>1. \/ Set(t, IdleCall)
            \/ \E g, k : Set(t, [c EXCEPT !.stage = g, !.target = k])
            \/ \E r : Set(t, TakenUp(c, r))
        <4>1. CASE c.todo > 0
          BY <1>0, <2>5, <4>1 DEF CompleteRetry
        <4>2. CASE ~(c.todo > 0)
          <5>1. Set(t, IF c.stage = "retry" /\ ctx[t].phase # "REST"
                      THEN [c EXCEPT !.stage = "prev io", !.target = "prev"] ELSE IdleCall)
            BY <1>0, <2>5, <4>2 DEF CompleteRetry
          <5>2. QED
            BY <5>1
        <4>3. QED
          BY <4>1, <4>2
      <3>2. QED
        BY <2>2, <3>1 DEF Set
    <2>6. QED
      BY <2>3, <2>4, <2>5
  <1>3. QED
    BY <1>1, <1>2, QuietStep

LEMMA SnapshotHostRefresh ==
  ASSUME SnapshotInv, NEW t \in Thread, HostRefresh(t)
  PROVE  SnapshotInv' /\ Frozen
  <1>1. RegionsInv /\ call[t].pc = "idle" /\ call' = call /\ log' = log
    BY DEF SnapshotInv, HostRefresh, At, logvars
  <1>2. RegionsMove(t)
    BY RefreshMoves DEF HostRefresh
  <1>3. RegionsInv'
    <2>1. Len(log') \in Nat /\ Len(log) <= Len(log')
      BY <1>1 DEF RegionsInv
    <2>2. QED
      BY <1>1, <1>2, <2>1, RegionsKept
  <1>4. Snapshot(t)'
    BY <1>1 DEF Snapshot
  <1>5. ASSUME NEW u \in Thread, u # t PROVE Snapshot(u)'
    <2>1. \A a \in Nat : Mutable(u, a) => Mutable(u, a)'
      BY <1>1, <1>2, <1>5, OtherMutable
    <2>2. QED
      BY <1>1, <2>1 DEF SnapshotInv, Snapshot
  <1>6. QED
    BY <1>1, <1>3, <1>4, <1>5 DEF SnapshotInv, Frozen

LEMMA SnapshotAwaitPage ==
  ASSUME SnapshotInv, NEW t \in Thread, AwaitPage(t)
  PROVE  SnapshotInv' /\ Frozen
  <1>1. IsCall(call[t]) /\ call[t].pc = "create" /\ log' = log
    BY DEF SnapshotInv, AwaitPage, At, logvars
  <1>2. RegionsMove(t)
    BY RefreshMoves DEF AwaitPage
  <1>3. PICK k : call' = [call EXCEPT ![t].target = k]
    BY DEF AwaitPage
  <1>4. PICK d : d = [call[t] EXCEPT !.target = k]
    OBVIOUS
  <1>5. call' = [call EXCEPT ![t] = d]
    BY <1>3, <1>4
  <1>6. IsCall(d) /\ d.pc = "create"
    BY <1>1, <1>4 DEF IsCall, CallFields
  <1>7. QED
    BY <1>1, <1>2, <1>5, <1>6, QuietStep DEF Changes

LEMMA SnapshotEnvironment ==
  ASSUME SnapshotInv, (\E t \in Thread : AsyncGetFromDisk(t) \/ Checkpoint(t))
                        \/ ShiftReadOnly \/ ShiftHead \/ UNCHANGED vars
  PROVE  SnapshotInv' /\ Frozen
  <1>1. call' = call /\ log' = log
    BY DEF AsyncGetFromDisk, Checkpoint, ShiftReadOnly, ShiftHead, logvars, vars
  <1>2. \/ UNCHANGED <<safe_ro, ro, unsafe>>
        \/ unsafe' = Thread /\ ro' = Len(log) + 1 /\ safe_ro' = safe_ro
    BY DEF AsyncGetFromDisk, Checkpoint, ShiftReadOnly, ShiftHead, regions, vars, TailAddress
  <1>3. QED
    BY <1>1, <1>2, SameCalls

LEMMA SnapshotNext ==
  ASSUME SnapshotInv, [Next]_vars
  PROVE  SnapshotInv' /\ Frozen
  <1>1. CASE UNCHANGED vars \/ ShiftReadOnly \/ ShiftHead
    BY <1>1, SnapshotEnvironment
  <1>2. ASSUME NEW t \in Thread, AsyncGetFromDisk(t) \/ Checkpoint(t)
        PROVE  SnapshotInv' /\ Frozen
    BY <1>2, SnapshotEnvironment
  <1>3. ASSUME NEW t \in Thread, Step(t)
        PROVE  SnapshotInv' /\ Frozen
    BY <1>3, SnapshotLookup, SnapshotDecideRead, SnapshotDecideUpdate, SnapshotRecheck,
       SnapshotUpdateInPlace, SnapshotDropEntry, SnapshotCreateRecord, SnapshotSwapEntry,
       SnapshotContinueRmw, SnapshotHandle, SnapshotPivot, SnapshotComplete DEF Step
  <1>4. ASSUME NEW t \in Thread, Begin(t) \/ CallCompletePending(t) \/ HostRefresh(t) \/ AwaitPage(t)
        PROVE  SnapshotInv' /\ Frozen
    BY <1>4, SnapshotBegin, SnapshotHostRefresh, SnapshotAwaitPage
  <1>5. QED
    BY <1>1, <1>2, <1>3, <1>4 DEF Next

LEMMA SnapshotInit ==
  ASSUME Init
  PROVE  SnapshotInv
  <1>1. PICK p \in Plans : p = plan
    BY DEF Init
  <1>2. p.log \in Seq(Range(p.log)) /\ p.ro \in 1 .. Len(p.log) + 1
    BY <1>1, PlansAssumption
  <1>3. PICK n \in Nat : n = Len(p.log) /\ DOMAIN p.log = 1 .. n
    BY <1>2
  <1>4. log = [a \in 1 .. n |-> InitialRecord(p.log, a)]
    BY <1>1, <1>3 DEF Init
  <1>5. PICK S : S = {InitialRecord(p.log, a) : a \in 1 .. n}
    OBVIOUS
  <1>6. log \in [1 .. n -> S]
    BY <1>4, <1>5
  <1>7. log \in Seq(S) /\ Len(log) = n
    BY <1>3, <1>6
  <1>8. RegionsInv
    BY <1>1, <1>2, <1>3, <1>7 DEF Init, RegionsInv
  <1>9. DOMAIN call = Thread /\ \A t \in Thread : call[t] = IdleCall
    BY DEF Init
  <1>10. ASSUME NEW t \in Thread PROVE IsCall(call[t]) /\ Snapshot(t)
    <2>1. IsCall(IdleCall) /\ IdleCall.pc = "idle"
      BY DEF IsCall, IdleCall, CallFields
    <2>2. QED
      BY <1>9, <2>1 DEF Snapshot
  <1>11. QED
    BY <1>7, <1>8, <1>9, <1>10 DEF SnapshotInv

\* Records below the safe read-only address never change, whatever the operations
\* of the threads, the checkpoints and the moves of the regions: a thread that has
\* still to update a record in place, or to invalidate one it has written, has not
\* refreshed since the record became read-only (UpdateInPlace, SwapEntry, Refresh).
THEOREM ImmutableRecords == Spec => ImmutableStays
  <1>1. Init => SnapshotInv
    BY SnapshotInit
  <1>2. SnapshotInv /\ [Next]_vars => SnapshotInv'
    BY SnapshotNext
  <1>3. SnapshotInv /\ [Next]_vars => [\A a \in 1..(safe_ro - 1) : log'[a] = log[a]]_vars
    BY SnapshotNext DEF Frozen
  <1>4. QED
    BY <1>1, <1>2, <1>3, PTL DEF Spec, ImmutableStays

-----------------------------------------------------------------------------
(***************************************************************************)
(* Without deletions and checkpoints: the invariant.                       *)
(***************************************************************************)
PlainPlan ==
  /\ plan.env.checkpoints = 0
  /\ \A t \in Thread : \A o \in Range(plan.ops[t]) : o.op # "delete"

ReqFields == {"id", "op", "key", "arg", "phase", "version", "address", "entry"}
RecFields == {"key", "value", "version", "prev", "invalid", "by"}
CtxFields == {"phase", "version", "serial_num", "retry_requests", "pending_ios", "io_responses"}
IsSeq(s) == \E S : s \in Seq(S)

\* The value that is found along the chain from an address on.
Val(lg, k, from) ==
  IF Match(lg, k, from, 1) = 0 THEN NoValue ELSE lg[Match(lg, k, from, 1)].value

\* r is a request of thread t.
IsReq(t, r) ==
  /\ DOMAIN r = ReqFields
  /\ r.op \in {"read", "upsert", "rmw"}
  /\ \E m \in DOMAIN plan.ops[t] :
       /\ r.id = <<t, m>>
       /\ r.op = plan.ops[t][m].op /\ r.key = plan.ops[t][m].key /\ r.arg = plan.ops[t][m].arg

\* A Read that has no answer yet may answer the present value.
ReqInv(t, r) == IsReq(t, r) /\ (r.op = "read" => truth[r.key] \in seen[r.id])

\* A request to read the record at r.address, on disk, for the key's record in the
\* chain from r.entry on.
IoInv(r) ==
  /\ r.entry \in 0 .. Len(log) /\ Reach(log, r.entry, entry)
  /\ r.address \in 0 .. Len(log) /\ r.address < head
  /\ Match(log, r.key, r.address, 1) = Match(log, r.key, r.entry, 1)
  /\ r.op = "read" => Val(log, r.key, r.address) \in seen[r.id]

\* The answer to one: the record's own address.
ResponseInv(r) == IoInv(r) /\ r.address = Match(log, r.key, r.entry, 1)

\* r is in the context x of thread t.
Held(t, x, r) == ReqInv(t, r) /\ r.phase = "REST" /\ r.id[2] <= x.serial_num

CtxInv(t, x) ==
  /\ DOMAIN x = CtxFields /\ x.phase = "REST"
  /\ x.serial_num \in 0 .. Len(plan.ops[t])
  /\ IsSeq(x.retry_requests) /\ IsSeq(x.io_responses)
  /\ \A r \in x.pending_ios : Held(t, x, r) /\ IoInv(r)
  /\ \A j \in 1 .. Len(x.retry_requests) : Held(t, x, x.retry_requests[j])
  /\ \A j \in 1 .. Len(x.io_responses) :
       Held(t, x, x.io_responses[j]) /\ ResponseInv(x.io_responses[j])

PendIds(x) == {r.id : r \in x.pending_ios}
               \cup {x.retry_requests[j].id : j \in 1 .. Len(x.retry_requests)}

DistinctIds(s, P, g) ==
  /\ \A i, j \in 1 .. Len(s) : s[i].id = s[j].id => i = j
  /\ \A r \in P, j \in 1 .. Len(s) : r.id # s[j].id
  /\ \A i, j \in 1 .. Len(g) : g[i].id = g[j].id => i = j
  /\ \A i \in 1 .. Len(g) : \E r \in P : r.id = g[i].id
Distinct(x) == DistinctIds(x.retry_requests, x.pending_ios, x.io_responses)

InCall(c) == c.pc \notin {"idle", "completing"}
Done == {"SUCCESS", "SUCCESS_UNMARK", "NOT_FOUND", "NOT_FOUND_UNMARK"}
Finished(c) == c.pc = "handle" /\ c.status \in Done
Looked == {"decide", "continue", "in place", "create", "swap"}

\* What the calls of the operations and of CompletePending rely on.
CallInv(t, c, x) ==
  /\ IsCall(c)
  /\ c.pc \in {"idle", "completing", "internal", "handle"} \cup Looked
  /\ c.target = "cur" /\ c.stage \in {"none", "io", "refresh", "retry"}
  /\ c.todo \in Nat /\ (c.stage = "retry" => c.todo <= Len(x.retry_requests))
  /\ ~InCall(c) => ~c.disk /\ ~c.retrying
  /\ c.pc = "idle" => c.stage = "none"
  /\ InCall(c) =>
       /\ IsReq(t, c.req) /\ c.req.id \notin PendIds(x)
       /\ c.stage = "none" => c.req.id[2] = x.serial_num + 1
       /\ c.stage # "none" => c.req.id[2] <= x.serial_num
       /\ c.disk => c.req.op = "rmw"
       /\ ~Finished(c) => ReqInv(t, c.req)
       /\ Continued(c) => c.req.phase = "REST"

\* The record an update by copy starts from.
From(c) == IF c.disk THEN c.req.address ELSE c.address

\* What the Internal functions rely on.
LookInv(c) ==
  /\ c.pc \in Looked => /\ c.phase = "REST"
                        /\ c.expected \in 0 .. Len(log) /\ Reach(log, c.expected, entry)
  /\ c.pc \in {"decide", "continue", "in place"} =>
       /\ c.head \in Nat \ {0} /\ c.safe \in Nat /\ c.ro \in Nat
       /\ c.head <= c.safe /\ c.safe <= c.ro /\ c.head <= head /\ c.safe <= safe_ro
       /\ c.address = Match(log, c.req.key, c.expected, c.head)
  /\ c.pc = "decide" =>
       /\ ~c.disk
       /\ c.req.op = "read" => Val(log, c.req.key, c.expected) \in seen[c.req.id]
  /\ c.pc = "continue" => c.disk /\ Reach(log, c.req.entry, c.expected)
  /\ c.pc = "in place" => c.address >= c.ro
  /\ c.pc \in {"in place", "create", "swap"} => c.req.op # "read"
  /\ c.pc = "create" /\ c.req.op = "rmw" =>
       From(c) = Match(log, c.req.key, c.expected, 1) /\ From(c) < safe_ro
  /\ c.pc \in {"internal", "continue"} /\ c.disk => ResponseInv(c.req)
  /\ c.pc = "handle" =>
       /\ c.status \in Done \cup {"RETRY_NOW", "RETRY_LATER", "RECORD_ON_DISK"}
       /\ c.status \in {"NOT_FOUND", "NOT_FOUND_UNMARK"} => c.req.op = "read"
       /\ c.status \in {"RETRY_LATER", "RECORD_ON_DISK"} => c.req.phase = "REST"
       /\ c.status = "RECORD_ON_DISK" => IoInv(c.req)

\* The new record of a call before its compare-and-swap.
SwapInv(c) ==
  c.pc = "swap" =>
    /\ c.new_address \in 1 .. Len(log) /\ ~Reach(log, c.new_address, entry)
    /\ log[c.new_address].key = c.req.key /\ log[c.new_address].prev = c.expected
    /\ c.req.op = "rmw" => Match(log, c.req.key, c.expected, 1) < safe_ro
    /\ log[c.new_address].value = New(c, Val(log, c.req.key, c.expected))

\* Has the operation i of the thread still to take effect?
Begun(c, x, i) == i[2] <= x.serial_num \/ (InCall(c) /\ c.req.id = i)
Waiting(c, x, i) ==
  \/ i \in PendIds(x)
  \/ InCall(c) /\ c.req.id = i /\ ~Finished(c)
  \/ ~Begun(c, x, i)

AppliedInv(t, c, x) ==
  \A m \in DOMAIN plan.ops[t] :
    /\ Waiting(c, x, <<t, m>>) => applied[<<t, m>>] = <<>>
    /\ ~Waiting(c, x, <<t, m>>) /\ plan.ops[t][m].op # "read" => Len(applied[<<t, m>>]) = 1
    /\ ~Begun(c, x, <<t, m>>) => seen[<<t, m>>] = {}

\* What an update by copy replaces has become immutable.
RmwInv ==
  \A b \in 1 .. Len(log) :
    log[b].by = "rmw" => Match(log, log[b].key, log[b].prev, 1) < safe_ro

\* The records of a log have all their fields.
Records(lg) == IsSeq(lg) /\ \A a \in 1 .. Len(lg) : DOMAIN lg[a] = RecFields

ChainInv ==
  /\ IsLog(log) /\ Records(log)
  /\ entry \in 0 .. Len(log) /\ head \in Nat \ {0} /\ head <= safe_ro
  /\ RmwInv
  /\ DOMAIN truth = Keys /\ \A k \in Keys : Val(log, k, entry) = truth[k]

HistoryInv ==
  /\ DOMAIN seen = Ids /\ DOMAIN answer = Ids /\ DOMAIN applied = Ids
  /\ \A i \in Ids : Range(answer[i]) \subseteq seen[i]

PlainInv ==
  /\ plan \in Plans /\ sys.phase = "REST"
  /\ "checkpoints" \in DOMAIN env /\ env.checkpoints = 0
  /\ \A t \in Thread : prev[t].pending_ios = {}

LocalInv(t, c, x) ==
  CtxInv(t, x) /\ Distinct(x) /\ CallInv(t, c, x) /\ LookInv(c) /\ AppliedInv(t, c, x)

SwapsInv ==
  \A t \in Thread :
    /\ SwapInv(call[t])
    /\ \A u \in Thread : t # u /\ call[t].pc = "swap" /\ call[u].pc = "swap" =>
         call[t].new_address # call[u].new_address

OpsInv ==
  /\ SnapshotInv /\ PlainInv /\ ChainInv /\ HistoryInv /\ SwapsInv
  /\ DOMAIN ctx = Thread /\ \A t \in Thread : LocalInv(t, call[t], ctx[t])

-----------------------------------------------------------------------------
(***************************************************************************)
(* What the steps of other threads leave true.                             *)
(***************************************************************************)
\* What a Read of key k may answer, along with its operation i.
SeenMoves(i, k) ==
  /\ seen[i] \subseteq seen'[i]
  /\ truth[k] \in seen[i] => truth'[k] \in seen'[i]
  /\ \A from \in 0 .. Len(log) : Val(log, k, from) \in seen[i] => Val(log', k, from) \in seen'[i]

Onward ==
  /\ Extends(log, log') /\ plan' = plan
  /\ entry \in 0 .. Len(log) /\ entry' \in 0 .. Len(log') /\ Reach(log', entry, entry')
  /\ head \in Nat /\ head' \in Nat /\ head <= head'
  /\ safe_ro \in Nat /\ safe_ro' \in Nat /\ safe_ro <= safe_ro'
  /\ \A t \in Thread : \A m \in DOMAIN plan.ops[t] : SeenMoves(<<t, m>>, plan.ops[t][m].key)

LEMMA OnReach ==
  ASSUME Onward, NEW e \in 0 .. Len(log), Reach(log, e, entry)
  PROVE  e \in 0 .. Len(log') /\ Reach(log', e, entry')
  <1>1. PICK lg, lh, a, b : lg = log /\ lh = log' /\ a = entry /\ b = entry'
    OBVIOUS
  <1>2. /\ Extends(lg, lh) /\ a \in 0 .. Len(lg) /\ b \in 0 .. Len(lh) /\ Reach(lh, a, b)
        /\ Reach(lg, e, a) /\ e \in 0 .. Len(lg)
    BY <1>1 DEF Onward
  <1>3. IsLog(lh) /\ Len(lg) \in Nat /\ Len(lh) \in Nat /\ Len(lg) <= Len(lh)
    BY <1>2 DEF Extends, IsLog
  <1>4. e \in Nat /\ a \in Nat /\ e \in 0 .. Len(lh)
    BY <1>2, <1>3
  <1>5. Reach(lh, e, a)
    BY <1>2, <1>4, ReachSame
  <1>6. Reach(lh, e, b)
    BY <1>2, <1>3, <1>4, <1>5, ReachTrans
  <1>7. QED
    BY <1>1, <1>4, <1>6

LEMMA OnMatch ==
  ASSUME Onward, NEW k, NEW min \in Nat, NEW from \in 0 .. Len(log)
  PROVE  Match(log', k, from, min) = Match(log, k, from, min)
  BY MatchSame DEF Onward

LEMMA OnReq ==
  ASSUME Onward, NEW t \in Thread, NEW r, IsReq(t, r)
  PROVE  /\ IsReq(t, r)' /\ SeenMoves(r.id, r.key)
         /\ ReqInv(t, r) => ReqInv(t, r)'
  <1>1. IsReq(t, r)'
    BY DEF IsReq, Onward
  <1>2. PICK m \in DOMAIN plan.ops[t] : r.id = <<t, m>> /\ r.key = plan.ops[t][m].key
    BY DEF IsReq
  <1>3. SeenMoves(r.id, r.key)
    BY <1>2 DEF Onward
  <1>4. ReqInv(t, r) => ReqInv(t, r)'
    BY <1>1, <1>3 DEF ReqInv, SeenMoves
  <1>5. QED
    BY <1>1, <1>3, <1>4

LEMMA OnIo ==
  ASSUME Onward, NEW t \in Thread, NEW r, IsReq(t, r), IoInv(r)
  PROVE  IoInv(r)' /\ (ResponseInv(r) => ResponseInv(r)')
  <1>1. SeenMoves(r.id, r.key)
    BY OnReq
  <1>2. /\ r.entry \in 0 .. Len(log) /\ Reach(log, r.entry, entry)
        /\ r.address \in 0 .. Len(log) /\ r.address < head
        /\ Match(log, r.key, r.address, 1) = Match(log, r.key, r.entry, 1)
        /\ r.op = "read" => Val(log, r.key, r.address) \in seen[r.id]
    BY DEF IoInv
  <1>3. r.entry \in 0 .. Len(log') /\ Reach(log', r.entry, entry')
    BY <1>2, OnReach
  <1>4. r.address \in 0 .. Len(log') /\ r.address < head'
    BY <1>2 DEF Onward, Extends, IsLog
  <1>5. /\ Match(log', r.key, r.address, 1) = Match(log, r.key, r.address, 1)
        /\ Match(log', r.key, r.entry, 1) = Match(log, r.key, r.entry, 1)
    BY <1>2, OnMatch
  <1>6. r.op = "read" => Val(log', r.key, r.address) \in seen'[r.id]
    BY <1>1, <1>2 DEF SeenMoves
  <1>7. IoInv(r)'
    BY <1>2, <1>3, <1>4, <1>5, <1>6 DEF IoInv
  <1>8. QED
    BY <1>5, <1>7 DEF ResponseInv

LEMMA OnHeld ==
  ASSUME Onward, NEW t \in Thread, NEW x, NEW r, Held(t, x, r)
  PROVE  /\ Held(t, x, r)'
         /\ IoInv(r) => IoInv(r)'
         /\ ResponseInv(r) => ResponseInv(r)'
  <1>1. IsReq(t, r) /\ ReqInv(t, r)
    BY DEF Held, ReqInv
  <1>2. ReqInv(t, r)'
    BY <1>1, OnReq
  <1>3. IoInv(r) => IoInv(r)' /\ (ResponseInv(r) => ResponseInv(r)')
    BY <1>1, OnIo
  <1>4. ResponseInv(r) => IoInv(r)
    BY DEF ResponseInv
  <1>5. QED
    BY <1>2, <1>3, <1>4 DEF Held

LEMMA OnCtx ==
  ASSUME Onward, NEW t \in Thread, NEW x, CtxInv(t, x)
  PROVE  CtxInv(t, x)'
  <1>1. \A r : Held(t, x, r) => /\ Held(t, x, r)'
                                /\ IoInv(r) => IoInv(r)'
                                /\ ResponseInv(r) => ResponseInv(r)'
    BY OnHeld
  <1>2. plan' = plan
    BY DEF Onward
  <1>3. QED
    BY <1>1, <1>2 DEF CtxInv

LEMMA OnCall ==
  ASSUME Onward, NEW t \in Thread, NEW c, NEW x, CallInv(t, c, x)
  PROVE  CallInv(t, c, x)'
  <1>1. \A r : IsReq(t, r) => IsReq(t, r)' /\ (ReqInv(t, r) => ReqInv(t, r)')
    BY OnReq
  <1>2. QED
    BY <1>1 DEF CallInv

LEMMA OnLook ==
  ASSUME Onward, NEW t \in Thread, NEW c, NEW x, CallInv(t, c, x), LookInv(c)
  PROVE  LookInv(c)'
  <1>1. InCall(c) => IsReq(t, c.req)
    BY DEF CallInv
  <1>2. /\ head \in Nat /\ head' \in Nat /\ head <= head'
        /\ safe_ro \in Nat /\ safe_ro' \in Nat /\ safe_ro <= safe_ro'
    BY DEF Onward
  <1>3. c.pc \in Looked => /\ c.phase = "REST" /\ c.expected \in 0 .. Len(log')
                           /\ Reach(log', c.expected, entry')
    <2>1. SUFFICES ASSUME c.pc \in Looked
                   PROVE  c.phase = "REST" /\ c.expected \in 0 .. Len(log')
                          /\ Reach(log', c.expected, entry')
      OBVIOUS
    <2>2. c.phase = "REST" /\ c.expected \in 0 .. Len(log) /\ Reach(log, c.expected, entry)
      BY <2>1 DEF LookInv, Done
    <2>3. QED
      BY <2>2, OnReach
  <1>4. ASSUME c.pc \in Looked, NEW min \in Nat
        PROVE  Match(log', c.req.key, c.expected, min) = Match(log, c.req.key, c.expected, min)
    <2>1. c.expected \in 0 .. Len(log)
      BY <1>4 DEF LookInv, Done
    <2>2. QED
      BY <2>1, OnMatch
  <1>5. c.pc \in {"decide", "continue", "in place"} =>
          /\ c.head \in Nat \ {0} /\ c.safe \in Nat /\ c.ro \in Nat
          /\ c.head <= c.safe /\ c.safe <= c.ro /\ c.head <= head' /\ c.safe <= safe_ro'
          /\ c.address = Match(log', c.req.key, c.expected, c.head)
    <2>1. SUFFICES ASSUME c.pc \in {"decide", "continue", "in place"}
                   PROVE  /\ c.head \in Nat \ {0} /\ c.safe \in Nat /\ c.ro \in Nat
                          /\ c.head <= c.safe /\ c.safe <= c.ro /\ c.head <= head'
                          /\ c.safe <= safe_ro'
                          /\ c.address = Match(log', c.req.key, c.expected, c.head)
      OBVIOUS
    <2>2. /\ c.head \in Nat \ {0} /\ c.safe \in Nat /\ c.ro \in Nat
          /\ c.head <= c.safe /\ c.safe <= c.ro /\ c.head <= head /\ c.safe <= safe_ro
          /\ c.address = Match(log, c.req.key, c.expected, c.head)
      BY <2>1 DEF LookInv, Done
    <2>3. c.pc \in Looked
      BY <2>1 DEF Looked
    <2>4. QED
      BY <1>2, <1>4, <2>2, <2>3
  <1>6. c.pc = "decide" =>
          /\ ~c.disk
          /\ c.req.op = "read" => Val(log', c.req.key, c.expected) \in seen'[c.req.id]
    <2>1. SUFFICES ASSUME c.pc = "decide"
                   PROVE  /\ ~c.disk
                          /\ c.req.op = "read" => Val(log', c.req.key, c.expected) \in seen'[c.req.id]
      OBVIOUS
    <2>2. /\ ~c.disk /\ c.expected \in 0 .. Len(log)
          /\ c.req.op = "read" => Val(log, c.req.key, c.expected) \in seen[c.req.id]
      BY <2>1 DEF LookInv, Done, Looked
    <2>3. IsReq(t, c.req)
      BY <1>1, <2>1 DEF InCall
    <2>4. SeenMoves(c.req.id, c.req.key)
      BY <2>3, OnReq
    <2>5. QED
      BY <2>2, <2>4 DEF SeenMoves
  <1>7. c.pc = "create" /\ c.req.op = "rmw" =>
          From(c) = Match(log', c.req.key, c.expected, 1) /\ From(c) < safe_ro'
    <2>1. SUFFICES ASSUME c.pc = "create", c.req.op = "rmw"
                   PROVE  From(c) = Match(log', c.req.key, c.expected, 1) /\ From(c) < safe_ro'
      OBVIOUS
    <2>2. /\ From(c) = Match(log, c.req.key, c.expected, 1) /\ From(c) < safe_ro
          /\ c.expected \in 0 .. Len(log)
      BY <2>1 DEF LookInv, Done, Looked
    <2>3. Match(log', c.req.key, c.expected, 1) = Match(log, c.req.key, c.expected, 1)
      BY <2>2, OnMatch
    <2>4. From(c) \in Nat
      BY <2>2, MatchRange DEF Onward, Extends
    <2>5. QED
      BY <1>2, <2>2, <2>3, <2>4
  <1>8. c.pc \in {"internal", "continue"} /\ c.disk => ResponseInv(c.req)'
    <2>1. SUFFICES ASSUME c.pc \in {"internal", "continue"}, c.disk PROVE ResponseInv(c.req)'
      OBVIOUS
    <2>2. IsReq(t, c.req) /\ ResponseInv(c.req)
      BY <1>1, <2>1 DEF InCall, LookInv, Done
    <2>3. QED
      BY <2>2, OnIo DEF ResponseInv
  <1>9. c.pc = "handle" /\ c.status = "RECORD_ON_DISK" => IoInv(c.req)'
    <2>1. SUFFICES ASSUME c.pc = "handle", c.status = "RECORD_ON_DISK" PROVE IoInv(c.req)'
      OBVIOUS
    <2>2. IsReq(t, c.req) /\ IoInv(c.req)
      BY <1>1, <2>1 DEF InCall, LookInv, Done
    <2>3. QED
      BY <2>2, OnIo
  <1>10. c.pc = "continue" => Reach(log', c.req.entry, c.expected)
    <2>1. SUFFICES ASSUME c.pc = "continue" PROVE Reach(log', c.req.entry, c.expected)
      OBVIOUS
    <2>2. c.disk /\ Reach(log, c.req.entry, c.expected) /\ c.expected \in 0 .. Len(log)
      BY <2>1 DEF LookInv, Done, Looked
    <2>3. c.req.entry \in Nat
      BY <2>1, <2>2 DEF LookInv, Done, ResponseInv, IoInv
    <2>4. PICK a, f : a = c.req.entry /\ f = c.expected
      OBVIOUS
    <2>5. Extends(log, log')
      BY DEF Onward
    <2>6. Reach(log', a, f) <=> Reach(log, a, f)
      BY <2>2, <2>3, <2>4, <2>5, ReachSame
    <2>7. QED
      BY <2>2, <2>4, <2>6
  <1>11. QED
    BY <1>3, <1>5, <1>6, <1>7, <1>8, <1>9, <1>10 DEF LookInv, Done

-----------------------------------------------------------------------------
(***************************************************************************)
(* Steps.                                                                  *)
(***************************************************************************)
\* Thread t goes to the call c with the context x.
Goes(t, c, x) ==
  /\ DOMAIN ctx' = Thread /\ call'[t] = c /\ ctx'[t] = x
  /\ \A u \in Thread : u # t => call'[u] = call[u] /\ ctx'[u] = ctx[u]

AppliedElsewhere(t) ==
  \A u \in Thread : u # t => \A m \in DOMAIN plan.ops[u] :
    /\ applied'[<<u, m>>] = applied[<<u, m>>]
    /\ seen[<<u, m>>] = {} => seen'[<<u, m>>] = {}

LEMMA OpsStep ==
  ASSUME OpsInv, NEW t \in Thread, NEW c, NEW x, Goes(t, c, x), Onward, AppliedElsewhere(t),
         SnapshotInv', PlainInv', ChainInv', HistoryInv', SwapsInv', LocalInv(t, c, x)'
  PROVE  OpsInv'
  <1>1. call'[t] = c /\ ctx'[t] = x /\ DOMAIN ctx' = Thread /\ plan' = plan
    BY DEF Goes, Onward
  <1>2. ASSUME NEW u \in Thread, u # t PROVE LocalInv(u, call[u], ctx[u])'
    <2>1. PICK d, y : d = call[u] /\ y = ctx[u] /\ d = call'[u] /\ y = ctx'[u]
      BY <1>2 DEF Goes
    <2>2. LocalInv(u, d, y)
      BY <2>1 DEF OpsInv
    <2>3. CtxInv(u, y)'
      BY <2>2, OnCtx DEF LocalInv
    <2>4. CallInv(u, d, y)'
      BY <2>2, OnCall DEF LocalInv
    <2>5. LookInv(d)'
      BY <2>2, OnLook DEF LocalInv
    <2>6. AppliedInv(u, d, y)'
      <3>1. AppliedInv(u, d, y)
        BY <2>2 DEF LocalInv
      <3>2. \A m \in DOMAIN plan.ops[u] : /\ applied'[<<u, m>>] = applied[<<u, m>>]
                                          /\ seen[<<u, m>>] = {} => seen'[<<u, m>>] = {}
        BY <1>2 DEF AppliedElsewhere
      <3>3. QED
        BY <1>1, <3>1, <3>2 DEF AppliedInv
    <2>7. LocalInv(u, d, y)'
      BY <2>2, <2>3, <2>4, <2>5, <2>6 DEF LocalInv
    <2>8. QED
      BY <2>1, <2>7
  <1>3. LocalInv(t, call[t], ctx[t])'
    BY <1>1
  <1>4. QED
    BY <1>1, <1>2, <1>3 DEF OpsInv

\* Nothing happens to the records.
Still ==
  /\ UNCHANGED <<plan, log, entry, truth, applied, seen>>
  /\ head' \in Nat /\ head <= head' /\ head' <= safe_ro'
  /\ safe_ro' \in Nat /\ safe_ro <= safe_ro'

LEMMA StillOnward ==
  ASSUME OpsInv, Still
  PROVE  Onward /\ ChainInv'
  <1>1. IsLog(log) /\ entry \in 0 .. Len(log) /\ head \in Nat \ {0} /\ safe_ro \in Nat
    BY DEF OpsInv, ChainInv, SnapshotInv, RegionsInv
  <1>2. Extends(log, log') /\ UNCHANGED <<plan, log, entry, truth, applied, seen>>
    BY <1>1 DEF Extends, Still, IsLog
  <1>3. Reach(log', entry, entry')
    BY <1>1, <1>2, ReachStep
  <1>4. \A i, k : SeenMoves(i, k)
    BY <1>2 DEF SeenMoves
  <1>5. Onward
    BY <1>1, <1>2, <1>3, <1>4 DEF Onward, Still
  <1>6. ASSUME NEW b \in 1 .. Len(log), log[b].by = "rmw"
        PROVE  Match(log, log[b].key, log[b].prev, 1) < safe_ro'
    <2>1. Match(log, log[b].key, log[b].prev, 1) < safe_ro
      BY <1>6 DEF OpsInv, ChainInv, RmwInv
    <2>2. log[b].prev \in 0 .. Len(log)
      BY <1>1 DEF IsLog
    <2>3. Match(log, log[b].key, log[b].prev, 1) \in Nat
      BY <1>1, <2>2, MatchRange
    <2>4. QED
      BY <1>1, <2>1, <2>3 DEF Still
  <1>7. RmwInv'
    BY <1>2, <1>6 DEF RmwInv
  <1>8. Keys' = Keys
    BY <1>2 DEF Keys
  <1>9. Records(log) /\ DOMAIN truth = Keys /\ \A k \in Keys : Val(log, k, entry) = truth[k]
    BY DEF OpsInv, ChainInv
  <1>10. ChainInv'
    BY <1>1, <1>2, <1>7, <1>8, <1>9 DEF ChainInv, Still
  <1>11. QED
    BY <1>5, <1>10

LEMMA StillHistory ==
  ASSUME OpsInv, Still, answer' = answer
  PROVE  HistoryInv'
  <1>1. Ids' = Ids
    BY DEF Still, Ids
  <1>2. QED
    BY <1>1 DEF OpsInv, HistoryInv, Still

LEMMA SwapInvKept ==
  ASSUME Still, IsLog(log), safe_ro \in Nat, NEW d, SwapInv(d), d.pc = "swap" => d.expected \in 0 .. Len(log)
  PROVE  SwapInv(d)'
  <1>1. SUFFICES ASSUME d.pc = "swap" PROVE SwapInv(d)'
    BY DEF SwapInv
  <1>2. Match(log, d.req.key, d.expected, 1) \in Nat
    BY <1>1, MatchRange
  <1>3. UNCHANGED <<log, entry>> /\ safe_ro' \in Nat /\ safe_ro <= safe_ro'
    BY DEF Still
  <1>4. QED
    BY <1>1, <1>2, <1>3 DEF SwapInv

LEMMA StillStep ==
  ASSUME OpsInv, NEW t \in Thread, NEW c, NEW x, Goes(t, c, x), Still, c.pc # "swap" \/ c = call[t],
         SnapshotInv', PlainInv', HistoryInv', LocalInv(t, c, x)
  PROVE  OpsInv'
  <1>1. Onward /\ ChainInv'
    BY StillOnward
  <1>2. UNCHANGED <<plan, log, entry, truth, applied, seen>>
    BY DEF Still
  <1>3. AppliedElsewhere(t)
    BY <1>2 DEF AppliedElsewhere
  <1>4. CtxInv(t, x) /\ Distinct(x) /\ CallInv(t, c, x) /\ LookInv(c) /\ AppliedInv(t, c, x)
    BY DEF LocalInv
  <1>5. CtxInv(t, x)' /\ CallInv(t, c, x)' /\ LookInv(c)'
    BY <1>1, <1>4, OnCtx, OnCall, OnLook
  <1>6. AppliedInv(t, c, x)'
    BY <1>2, <1>4 DEF AppliedInv
  <1>7. LocalInv(t, c, x)'
    BY <1>4, <1>5, <1>6 DEF LocalInv
  <1>8. IsLog(log) /\ safe_ro \in Nat
    BY DEF OpsInv, ChainInv, SnapshotInv, RegionsInv
  <1>9. ASSUME NEW u \in Thread PROVE SwapInv(call[u])' /\ (call'[u].pc = "swap" => call'[u] = call[u])
    <2>1. CASE u = t /\ c.pc # "swap"
      BY <2>1 DEF Goes, SwapInv
    <2>2. CASE u # t \/ c = call[t]
      <3>1. PICK d : d = call[u] /\ d = call'[u]
        BY <2>2 DEF Goes
      <3>2. SwapInv(d) /\ LookInv(d)
        BY <3>1 DEF OpsInv, SwapsInv, LocalInv
      <3>3. d.pc = "swap" => d.expected \in 0 .. Len(log)
        BY <3>2 DEF LookInv, Done, Looked
      <3>4. SwapInv(d)'
        BY <1>8, <3>2, <3>3, SwapInvKept
      <3>5. QED
        BY <3>1, <3>4
    <2>3. QED
      BY <2>1, <2>2
  <1>10. SwapsInv'
    BY <1>9 DEF OpsInv, SwapsInv
  <1>11. QED
    BY <1>1, <1>3, <1>7, <1>10, OpsStep

LEMMA SameStep ==
  ASSUME OpsInv, Still, UNCHANGED <<call, ctx, answer>>, SnapshotInv', PlainInv'
  PROVE  OpsInv'
  <1>1. HistoryInv' /\ Onward /\ ChainInv'
    BY StillHistory, StillOnward
  <1>2. CASE Thread = {}
    BY <1>1, <1>2 DEF OpsInv, SwapsInv
  <1>3. ASSUME NEW t \in Thread PROVE OpsInv'
    <2>1. PICK c, x : c = call[t] /\ x = ctx[t]
      OBVIOUS
    <2>2. LocalInv(t, c, x)
      BY <2>1 DEF OpsInv
    <2>3. Goes(t, c, x)
      BY <2>1 DEF Goes, OpsInv
    <2>4. CtxInv(t, x)' /\ CallInv(t, c, x)' /\ LookInv(c)'
      BY <1>1, <2>2, OnCtx, OnCall, OnLook DEF LocalInv
    <2>5. AppliedInv(t, c, x)'
      BY <2>2 DEF AppliedInv, LocalInv, Still
    <2>6. LocalInv(t, c, x)'
      BY <2>2, <2>4, <2>5 DEF LocalInv
    <2>7. IsLog(log) /\ safe_ro \in Nat
      BY DEF OpsInv, ChainInv, SnapshotInv, RegionsInv
    <2>8. ASSUME NEW u \in Thread PROVE SwapInv(call[u])'
      <3>1. PICK d : d = call[u] /\ d = call'[u]
        OBVIOUS
      <3>2. SwapInv(d) /\ LookInv(d)
        BY <3>1 DEF OpsInv, SwapsInv, LocalInv
      <3>3. d.pc = "swap" => d.expected \in 0 .. Len(log)
        BY <3>2 DEF LookInv, Done, Looked
      <3>4. SwapInv(d)'
        BY <2>7, <3>2, <3>3, SwapInvKept
      <3>5. QED
        BY <3>1, <3>4
    <2>9. SwapsInv'
      BY <2>8 DEF OpsInv, SwapsInv
    <2>10. AppliedElsewhere(t)
      BY DEF AppliedElsewhere, Still
    <2>11. QED
      BY <1>1, <2>3, <2>6, <2>9, <2>10, OpsStep
  <1>4. QED
    BY <1>2, <1>3

LEMMA PlainKept ==
  ASSUME OpsInv, UNCHANGED <<plan, sys, env, prev>>
  PROVE  PlainInv'
  BY DEF OpsInv, PlainInv

\* The log, the regions and the history stay as they are.
Unmoved == UNCHANGED <<plan, log, entry, head, safe_ro, sys, prev, env, truth, seen, applied>>

LEMMA UnmovedStill ==
  ASSUME OpsInv, Unmoved
  PROVE  Still /\ PlainInv'
  <1>1. head \in Nat /\ safe_ro \in Nat /\ head <= safe_ro
    BY DEF OpsInv, ChainInv, SnapshotInv, RegionsInv
  <1>2. Still
    BY <1>1 DEF Unmoved, Still
  <1>3. QED
    BY <1>2, PlainKept DEF Unmoved

LEMMA LocalStep ==
  ASSUME OpsInv, NEW t \in Thread, NEW c, NEW x, call' = [call EXCEPT ![t] = c],
         ctx' = [ctx EXCEPT ![t] = x] \/ (ctx' = ctx /\ x = ctx[t]),
         Unmoved, answer' = answer \/ HistoryInv',
         c.pc # "swap", SnapshotInv', LocalInv(t, c, x)
  PROVE  OpsInv'
  <1>1. Still /\ PlainInv'
    BY UnmovedStill
  <1>2. HistoryInv'
    BY <1>1, StillHistory
  <1>3. DOMAIN call = Thread /\ DOMAIN ctx = Thread
    BY DEF OpsInv, SnapshotInv
  <1>4. Goes(t, c, x)
    BY <1>3 DEF Goes
  <1>5. QED
    BY <1>1, <1>2, <1>4, StillStep

\* The same operation, further on in its call.
SameReq(r, q) ==
  DOMAIN q = DOMAIN r /\ q.id = r.id /\ q.op = r.op /\ q.key = r.key /\ q.arg = r.arg

SameOp(b, c) ==
  /\ IsCall(c) /\ c.target = b.target /\ c.stage = b.stage /\ c.todo = b.todo
  /\ SameReq(b.req, c.req) /\ (c.disk => b.disk)
  /\ Continued(c) => c.req.phase = "REST"

LEMMA SameOpCall ==
  ASSUME NEW t, NEW b, NEW c, NEW x, CallInv(t, b, x), SameOp(b, c), InCall(b), ~Finished(b),
         c.pc \in {"internal", "handle"} \cup Looked
  PROVE  CallInv(t, c, x)
  <1>1. /\ IsReq(t, b.req) /\ ReqInv(t, b.req) /\ b.req.id \notin PendIds(x)
        /\ b.stage = "none" => b.req.id[2] = x.serial_num + 1
        /\ b.stage # "none" => b.req.id[2] <= x.serial_num
        /\ b.disk => b.req.op = "rmw"
        /\ b.target = "cur" /\ b.stage \in {"none", "io", "refresh", "retry"}
        /\ b.todo \in Nat /\ (b.stage = "retry" => b.todo <= Len(x.retry_requests))
    BY DEF CallInv
  <1>2. /\ IsCall(c) /\ c.target = b.target /\ c.stage = b.stage /\ c.todo = b.todo
        /\ SameReq(b.req, c.req) /\ (c.disk => b.disk)
        /\ Continued(c) => c.req.phase = "REST"
    BY DEF SameOp
  <1>3. IsReq(t, c.req) /\ ReqInv(t, c.req)
    BY <1>1, <1>2 DEF SameReq, IsReq, ReqInv
  <1>4. c.pc # "idle" /\ InCall(c)
    BY DEF InCall, Looked
  <1>5. c.req.id = b.req.id /\ c.req.op = b.req.op
    BY <1>2 DEF SameReq
  <1>6. QED
    BY <1>1, <1>2, <1>3, <1>4, <1>5 DEF CallInv

LEMMA SameOpLocal ==
  ASSUME NEW t, NEW b, NEW c, NEW x, LocalInv(t, b, x), SameOp(b, c), InCall(b), ~Finished(b),
         c.pc \in {"internal", "handle"} \cup Looked, Finished(c) => b.req.op = "read",
         LookInv(c)
  PROVE  LocalInv(t, c, x)
  <1>1. CtxInv(t, x) /\ Distinct(x) /\ CallInv(t, b, x) /\ AppliedInv(t, b, x)
    BY DEF LocalInv
  <1>2. CallInv(t, c, x)
    BY <1>1, SameOpCall
  <1>3. InCall(c) /\ c.req.id = b.req.id
    BY DEF InCall, Looked, SameOp, SameReq
  <1>4. IsReq(t, b.req)
    BY <1>1 DEF CallInv
  <1>5. ASSUME NEW m \in DOMAIN plan.ops[t]
        PROVE  /\ Waiting(c, x, <<t, m>>) => applied[<<t, m>>] = <<>>
               /\ ~Waiting(c, x, <<t, m>>) /\ plan.ops[t][m].op # "read" => Len(applied[<<t, m>>]) = 1
               /\ ~Begun(c, x, <<t, m>>) => seen[<<t, m>>] = {}
    <2>1. /\ Waiting(b, x, <<t, m>>) => applied[<<t, m>>] = <<>>
          /\ ~Waiting(b, x, <<t, m>>) /\ plan.ops[t][m].op # "read" => Len(applied[<<t, m>>]) = 1
          /\ ~Begun(b, x, <<t, m>>) => seen[<<t, m>>] = {}
      BY <1>1 DEF AppliedInv
    <2>2. Begun(c, x, <<t, m>>) <=> Begun(b, x, <<t, m>>)
      BY <1>3 DEF Begun
    <2>3. Waiting(c, x, <<t, m>>) => Waiting(b, x, <<t, m>>)
      BY <1>3, <2>2 DEF Waiting
    <2>4. Waiting(b, x, <<t, m>>) => Waiting(c, x, <<t, m>>) \/ plan.ops[t][m].op = "read"
      <3>1. CASE b.req.id = <<t, m>>
        <4>1. b.req.op = plan.ops[t][m].op
          BY <1>4, <3>1 DEF IsReq
        <4>2. QED
          BY <1>3, <2>2, <4>1 DEF Waiting
      <3>2. CASE b.req.id # <<t, m>>
        BY <1>3, <2>2, <3>2 DEF Waiting
      <3>3. QED
        BY <3>1, <3>2
    <2>5. QED
      BY <2>1, <2>2, <2>3, <2>4
  <1>6. QED
    BY <1>1, <1>2, <1>5 DEF LocalInv, AppliedInv

LEMMA TraceIsMatch ==
  ASSUME NEW k, NEW from, NEW min
  PROVE  TraceBackForKeyMatch(k, from, min) = Match(log, k, from, min)
  BY DEF TraceBackForKeyMatch, TraceBack, Match, Walk, StopAt, kInvalidAddress

LEMMA LookValue ==
  ASSUME NEW lg, IsLog(lg), NEW k, NEW e \in 0 .. Len(lg), NEW h \in Nat \ {0}, NEW a,
         a = Match(lg, k, e, h)
  PROVE  /\ a \in 0 .. Len(lg) /\ a \in Nat /\ a <= e
         /\ Match(lg, k, a, 1) = Match(lg, k, e, 1) /\ Val(lg, k, a) = Val(lg, k, e)
         /\ a >= h \/ a = 0 => Match(lg, k, e, 1) = a
         /\ a >= h => lg[a].key = k /\ a >= 1
  <1>0. Len(lg) \in Nat
    BY DEF IsLog
  <1>1. a \in 0 .. e /\ a \in Nat /\ (a < h \/ a = 0 \/ lg[a].key = k)
    BY MatchRange
  <1>2. a \in 0 .. Len(lg)
    BY <1>0, <1>1
  <1>3. Match(lg, k, a, 1) = Match(lg, k, e, 1)
    BY MatchGoesOn
  <1>4. Match(lg, k, a, 1) = IF a < 1 \/ a = 0 \/ lg[a].key = k THEN a
                             ELSE Match(lg, k, lg[a].prev, 1)
    BY <1>2, MatchStep
  <1>5. Val(lg, k, a) = Val(lg, k, e)
    BY <1>3 DEF Val
  <1>6. QED
    BY <1>1, <1>2, <1>3, <1>4, <1>5

LEMMA ReqKey ==
  ASSUME NEW u \in Thread, NEW r, IsReq(u, r)
  PROVE  r.key \in Keys /\ r.id \in Ids
  <1>1. PICK m \in DOMAIN plan.ops[u] : r.id = <<u, m>> /\ r.key = plan.ops[u][m].key
    BY DEF IsReq
  <1>2. plan.ops[u][m] \in Range(plan.ops[u])
    BY DEF Range
  <1>3. r.key \in {o.key : o \in Range(plan.ops[u])}
    BY <1>1, <1>2
  <1>6. r.key \in Keys
    BY <1>3 DEF Keys
  <1>7. <<u, m>> \in {<<u, i>> : i \in DOMAIN plan.ops[u]}
    OBVIOUS
  <1>8. r.id \in Ids
    BY <1>1, <1>7 DEF Ids
  <1>9. QED
    BY <1>6, <1>8

LEMMA OpsLookup ==
  ASSUME OpsInv, SnapshotInv', NEW t \in Thread, Lookup(t)
  PROVE  OpsInv'
  <1>0. PICK b, x : b = call[t] /\ x = ctx[t]
    OBVIOUS
  <1>1. LocalInv(t, b, x) /\ b.pc = "internal"
    BY <1>0 DEF OpsInv, Lookup, At
  <1>2. IsCall(b) /\ IsReq(t, b.req) /\ ReqInv(t, b.req) /\ InCall(b) /\ ~Finished(b)
        /\ (Continued(b) => b.req.phase = "REST") /\ x.phase = "REST"
    BY <1>1 DEF LocalInv, CallInv, CtxInv, InCall, Finished, Done
  <1>3. IsLog(log) /\ entry \in 0 .. Len(log) /\ head \in Nat \ {0} /\ head <= safe_ro
        /\ safe_ro \in Nat /\ ro \in Nat /\ safe_ro <= ro
    BY DEF OpsInv, ChainInv, SnapshotInv, RegionsInv
  <1>4. PICK a : a = IF entry >= head THEN Match(log, b.req.key, entry, head) ELSE entry
    OBVIOUS
  <1>5. a = Match(log, b.req.key, entry, head)
    <2>1. entry \in Nat /\ (entry < head => Match(log, b.req.key, entry, head) = entry)
      BY <1>3, MatchStep
    <2>2. QED
      BY <1>3, <1>4, <2>1
  <1>6. PICK c : c = LookedUp(t)
    OBVIOUS
  <1>7. /\ IsCall(c) /\ c.target = b.target /\ c.stage = b.stage /\ c.todo = b.todo
        /\ c.req = b.req /\ c.disk = b.disk /\ c.retrying = b.retrying
        /\ c.pc = IF c.disk THEN "continue" ELSE "decide"
        /\ c.phase = IF b.retrying THEN b.req.phase ELSE x.phase
        /\ c.expected = entry /\ c.head = head /\ c.safe = safe_ro /\ c.ro = ro
    BY <1>0, <1>2, <1>6 DEF LookedUp, IsCall, CallFields
  <1>8. c.address = a
    <2>1. c.address = IF entry >= head THEN TraceBackForKeyMatch(b.req.key, entry, head) ELSE entry
      BY <1>0, <1>2, <1>6 DEF LookedUp, IsCall, CallFields
    <2>2. QED
      BY <1>4, <2>1, TraceIsMatch
  <1>9. c.phase = "REST"
    BY <1>2, <1>7 DEF Continued
  <1>10. Reach(log, entry, entry)
    BY <1>3, ReachStep
  <1>11. b.req.op = "read" => Val(log, b.req.key, entry) \in seen[b.req.id]
    <2>1. b.req.key \in Keys
      BY <1>2, ReqKey
    <2>2. Val(log, b.req.key, entry) = truth[b.req.key]
      BY <2>1 DEF OpsInv, ChainInv
    <2>3. QED
      BY <1>2, <2>2 DEF ReqInv
  <1>12. b.disk => ResponseInv(b.req) /\ Reach(log, b.req.entry, entry)
    BY <1>1 DEF LocalInv, LookInv, Done, ResponseInv, IoInv
  <1>13. c.pc \in {"continue", "decide"} /\ (c.pc = "decide" => ~c.disk) /\ (c.pc = "continue" => c.disk)
    BY <1>7
  <1>14. LookInv(c)
    BY <1>3, <1>5, <1>7, <1>8, <1>9, <1>10, <1>11, <1>12, <1>13 DEF LookInv, Done
  <1>15. SameOp(b, c)
    BY <1>2, <1>7 DEF SameOp, SameReq, Continued
  <1>16. ~Finished(c) /\ c.pc \in {"internal", "handle"} \cup Looked
    BY <1>13 DEF Finished, Done, Looked
  <1>17. LocalInv(t, c, x)
    BY <1>1, <1>2, <1>14, <1>15, <1>16, SameOpLocal
  <1>18. call' = [call EXCEPT ![t] = c] /\ ctx' = ctx /\ Unmoved /\ answer' = answer
    BY <1>6 DEF Lookup, Set, logvars, regions, system, history, Unmoved
  <1>19. QED
    BY <1>0, <1>13, <1>17, <1>18, LocalStep

\* A call that returns to its caller.
Exited(e, st) == [e EXCEPT !.pc = "handle", !.status = st, !.old = 0, !.new = 0]

LEMMA ExitedFields ==
  ASSUME NEW e, IsCall(e), NEW st, NEW c, c = Exited(e, st)
  PROVE  /\ IsCall(c) /\ c.pc = "handle" /\ c.status = st
         /\ c.target = e.target /\ c.stage = e.stage /\ c.todo = e.todo
         /\ c.req = e.req /\ c.disk = e.disk /\ c.retrying = e.retrying
  BY DEF Exited, IsCall, CallFields

\* A call whose request is to go pending.
LEMMA AsyncFields ==
  ASSUME NEW b, IsCall(b), DOMAIN b.req = ReqFields, NEW c, c = GoAsync(b)
  PROVE  /\ IsCall(c) /\ c.target = b.target /\ c.stage = b.stage /\ c.todo = b.todo
         /\ c.disk = b.disk /\ c.retrying = b.retrying
         /\ SameReq(b.req, c.req) /\ c.req.address = b.address /\ c.req.entry = b.expected
         /\ c.req.phase = IF Continued(b) THEN b.req.phase ELSE b.phase
  <1>1. IsCall(c) /\ c.target = b.target /\ c.stage = b.stage /\ c.todo = b.todo
        /\ c.disk = b.disk /\ c.retrying = b.retrying
    BY DEF GoAsync, IsCall, CallFields
  <1>2. c.req = [b.req EXCEPT !.phase = IF Continued(b) THEN @ ELSE b.phase,
                              !.version = IF Continued(b) THEN @ ELSE b.version,
                              !.address = b.address, !.entry = b.expected]
    BY DEF GoAsync, IsCall, CallFields
  <1>3. QED
    BY <1>1, <1>2 DEF SameReq, ReqFields

LEMMA AsyncLocal ==
  ASSUME NEW t, NEW b, NEW x, LocalInv(t, b, x), b.pc \in Looked,
         NEW st \in {"RETRY_NOW", "RETRY_LATER", "RECORD_ON_DISK"},
         NEW c, c = Exited(GoAsync(b), st),
         st = "RECORD_ON_DISK" =>
           /\ b.address \in 0 .. Len(log) /\ b.address < head
           /\ Match(log, b.req.key, b.address, 1) = Match(log, b.req.key, b.expected, 1)
           /\ b.req.op = "read" => Val(log, b.req.key, b.address) \in seen[b.req.id]
  PROVE  LocalInv(t, c, x) /\ c.pc = "handle"
  <1>2. InCall(b) /\ ~Finished(b)
    BY DEF InCall, Finished, Done, Looked
  <1>3. IsCall(b) /\ IsReq(t, b.req) /\ (Continued(b) => b.req.phase = "REST")
        /\ b.phase = "REST" /\ b.expected \in 0 .. Len(log) /\ Reach(log, b.expected, entry)
    BY <1>2 DEF LocalInv, CallInv, LookInv, Done
  <1>4. DOMAIN b.req = ReqFields
    BY <1>3 DEF IsReq
  <1>5. PICK e : e = GoAsync(b)
    OBVIOUS
  <1>6. /\ IsCall(e) /\ e.target = b.target /\ e.stage = b.stage /\ e.todo = b.todo
        /\ e.disk = b.disk /\ e.retrying = b.retrying
        /\ SameReq(b.req, e.req) /\ e.req.address = b.address /\ e.req.entry = b.expected
        /\ e.req.phase = IF Continued(b) THEN b.req.phase ELSE b.phase
    BY <1>3, <1>4, <1>5, AsyncFields
  <1>8. /\ IsCall(c) /\ c.pc = "handle" /\ c.status = st
        /\ c.target = e.target /\ c.stage = e.stage /\ c.todo = e.todo
        /\ c.req = e.req /\ c.disk = e.disk /\ c.retrying = e.retrying
    BY <1>5, <1>6, ExitedFields
  <1>9. c.req.phase = "REST"
    BY <1>3, <1>6, <1>8
  <1>10. SameOp(b, c)
    BY <1>6, <1>8, <1>9 DEF SameOp, SameReq
  <1>11. st = "RECORD_ON_DISK" => IoInv(c.req)
    <2>1. c.req.key = b.req.key /\ c.req.op = b.req.op /\ c.req.id = b.req.id
      BY <1>6, <1>8 DEF SameReq
    <2>2. QED
      BY <1>3, <1>6, <1>8, <2>1 DEF IoInv
  <1>12. LookInv(c)
    BY <1>8, <1>9, <1>11 DEF LookInv, Done, Looked
  <1>13. ~Finished(c)
    BY <1>8 DEF Finished, Done
  <1>14. QED
    BY <1>2, <1>8, <1>10, <1>12, <1>13, SameOpLocal

\* A step that returns to the caller with a request that is to be made again.
LEMMA ExitAsync ==
  ASSUME OpsInv, SnapshotInv', NEW t \in Thread, NEW b, b = call[t], b.pc \in Looked,
         NEW st \in {"RETRY_NOW", "RETRY_LATER", "RECORD_ON_DISK"}, Exit(t, GoAsync(b), st),
         st = "RECORD_ON_DISK" =>
           /\ b.address \in 0 .. Len(log) /\ b.address < head
           /\ Match(log, b.req.key, b.address, 1) = Match(log, b.req.key, b.expected, 1)
           /\ b.req.op = "read" => Val(log, b.req.key, b.address) \in seen[b.req.id],
         ctx' = ctx, Unmoved, answer' = answer
  PROVE  OpsInv'
  <1>0. PICK x, c : x = ctx[t] /\ c = Exited(GoAsync(b), st)
    OBVIOUS
  <1>1. LocalInv(t, b, x)
    BY <1>0 DEF OpsInv
  <1>2. LocalInv(t, c, x) /\ c.pc = "handle"
    BY <1>0, <1>1, AsyncLocal
  <1>3. call' = [call EXCEPT ![t] = c]
    BY <1>0 DEF Exit, Set, Exited
  <1>4. QED
    BY <1>0, <1>2, <1>3, LocalStep

\* A Read that answers v.
LEMMA ReadAnswers ==
  ASSUME OpsInv, SnapshotInv', NEW t \in Thread, NEW b, b = call[t], b.pc = "decide",
         b.req.op = "read", NEW st \in {"SUCCESS", "NOT_FOUND"}, Exit(t, b, st),
         NEW v, v \in seen[b.req.id], answer' = [answer EXCEPT ![b.req.id] = <<v>>],
         ctx' = ctx, Unmoved
  PROVE  OpsInv'
  <1>0. PICK x : x = ctx[t]
    OBVIOUS
  <1>1. LocalInv(t, b, x)
    BY <1>0 DEF OpsInv
  <1>2. InCall(b) /\ ~Finished(b)
    BY DEF InCall, Finished, Done
  <1>3. IsCall(b) /\ IsReq(t, b.req) /\ (Continued(b) => b.req.phase = "REST")
    BY <1>1, <1>2 DEF LocalInv, CallInv
  <1>4. PICK c : c = Exited(b, st)
    OBVIOUS
  <1>5. /\ IsCall(c) /\ c.pc = "handle" /\ c.status = st
        /\ c.target = b.target /\ c.stage = b.stage /\ c.todo = b.todo
        /\ c.req = b.req /\ c.disk = b.disk /\ c.retrying = b.retrying
    BY <1>3, <1>4, ExitedFields
  <1>6. SameOp(b, c)
    BY <1>3, <1>5 DEF SameOp, SameReq, Continued
  <1>7. LookInv(c)
    BY <1>5 DEF LookInv, Done, Looked
  <1>8. LocalInv(t, c, x)
    BY <1>1, <1>2, <1>5, <1>6, <1>7, SameOpLocal
  <1>9. call' = [call EXCEPT ![t] = c] /\ c.pc # "swap"
    BY <1>4, <1>5 DEF Exit, Set, Exited
  <1>10. HistoryInv'
    <2>1. Ids' = Ids /\ seen' = seen /\ applied' = applied
      BY DEF Unmoved, Ids
    <2>2. DOMAIN seen = Ids /\ DOMAIN answer = Ids /\ DOMAIN applied = Ids
          /\ \A i \in Ids : Range(answer[i]) \subseteq seen[i]
      BY DEF OpsInv, HistoryInv
    <2>3. Range(<<v>>) = {v}
      BY DEF Range
    <2>4. \A i \in Ids : Range(answer'[i]) \subseteq seen[i]
      BY <2>2, <2>3
    <2>5. QED
      BY <2>1, <2>2, <2>4 DEF HistoryInv
  <1>11. QED
    BY <1>0, <1>8, <1>9, <1>10, LocalStep

LEMMA OpsDecideRead ==
  ASSUME OpsInv, SnapshotInv', NEW t \in Thread, DecideRead(t)
  PROVE  OpsInv'
  <1>0. PICK b : b = call[t] /\ b.pc = "decide" /\ b.req.op = "read"
    BY DEF DecideRead, At
  <1>1. LookInv(b)
    BY <1>0 DEF OpsInv, LocalInv
  <1>2. /\ b.phase = "REST" /\ b.expected \in 0 .. Len(log) /\ b.head \in Nat \ {0}
        /\ b.head <= head /\ b.address = Match(log, b.req.key, b.expected, b.head)
        /\ Val(log, b.req.key, b.expected) \in seen[b.req.id]
    BY <1>0, <1>1 DEF LookInv, Done, Looked
  <1>3. IsLog(log) /\ head \in Nat
    BY DEF OpsInv, ChainInv
  <1>4. /\ b.address \in 0 .. Len(log) /\ b.address \in Nat
        /\ Match(log, b.req.key, b.address, 1) = Match(log, b.req.key, b.expected, 1)
        /\ Val(log, b.req.key, b.address) = Val(log, b.req.key, b.expected)
        /\ b.address >= b.head \/ b.address = 0 => Match(log, b.req.key, b.expected, 1) = b.address
        /\ b.address >= b.head => b.address >= 1
    <2>1. PICK e, h, k : e = b.expected /\ h = b.head /\ k = b.req.key
      OBVIOUS
    <2>2. e \in 0 .. Len(log) /\ h \in Nat \ {0} /\ b.address = Match(log, k, e, h)
      BY <1>2, <2>1
    <2>3. /\ b.address \in 0 .. Len(log) /\ b.address \in Nat
          /\ Match(log, k, b.address, 1) = Match(log, k, e, 1)
          /\ Val(log, k, b.address) = Val(log, k, e)
          /\ b.address >= h \/ b.address = 0 => Match(log, k, e, 1) = b.address
          /\ b.address >= h => b.address >= 1
      BY <1>3, <2>2, LookValue
    <2>4. QED
      BY <2>1, <2>3
  <1>5. ~CprShift(b) /\ b.pc \in Looked
    BY <1>0, <1>2 DEF CprShift, Looked
  <1>6. ctx' = ctx
    BY DEF DecideRead
  <1>7. CASE /\ b.address >= b.head
             /\ answer' = [answer EXCEPT ![b.req.id] = <<log[b.address].value>>]
             /\ Exit(t, b, "SUCCESS")
             /\ UNCHANGED <<truth, seen, applied>>
    <2>1. log[b.address].value \in seen[b.req.id]
      BY <1>2, <1>4, <1>7 DEF Val
    <2>2. Unmoved
      BY <1>7 DEF DecideRead, logvars, regions, system, Unmoved
    <2>3. QED
      BY <1>0, <1>6, <1>7, <2>1, <2>2, ReadAnswers
  <1>8. CASE /\ b.address < b.head
             /\ Exit(t, GoAsync(b), "RECORD_ON_DISK")
             /\ UNCHANGED history
    <2>1. b.address < head
      BY <1>2, <1>3, <1>4, <1>8
    <2>2. Unmoved /\ answer' = answer
      BY <1>8 DEF DecideRead, logvars, regions, system, history, Unmoved
    <2>3. QED
      BY <1>0, <1>2, <1>4, <1>5, <1>6, <1>8, <2>1, <2>2, ExitAsync
  <1>9. CASE /\ b.address < begin_address
             /\ answer' = [answer EXCEPT ![b.req.id] = <<NoValue>>]
             /\ Exit(t, b, "NOT_FOUND")
             /\ UNCHANGED <<truth, seen, applied>>
    <2>1. b.address = 0
      BY <1>4, <1>9 DEF begin_address
    <2>2. NoValue \in seen[b.req.id]
      BY <1>2, <1>4, <2>1 DEF Val
    <2>3. Unmoved
      BY <1>9 DEF DecideRead, logvars, regions, system, Unmoved
    <2>4. QED
      BY <1>0, <1>6, <1>9, <2>2, <2>3, ReadAnswers
  <1>10. QED
    BY <1>0, <1>5, <1>7, <1>8, <1>9 DEF DecideRead

\* A step from one place of the Internal functions to the next.
LEMMA PlaceStep ==
  ASSUME OpsInv, SnapshotInv', NEW t \in Thread, NEW b, b = call[t], b.pc \in Looked,
         NEW p \in {"in place", "create"}, NEW c, c = [b EXCEPT !.pc = p],
         call' = [call EXCEPT ![t] = c], LookInv(c), ctx' = ctx, Unmoved, answer' = answer
  PROVE  OpsInv'
  <1>0. PICK x : x = ctx[t]
    OBVIOUS
  <1>1. LocalInv(t, b, x)
    BY <1>0 DEF OpsInv
  <1>2. InCall(b) /\ ~Finished(b)
    BY DEF InCall, Finished, Done, Looked
  <1>3. IsCall(b) /\ (Continued(b) => b.req.phase = "REST")
    BY <1>1, <1>2 DEF LocalInv, CallInv
  <1>4. /\ IsCall(c) /\ c.pc = p /\ c.target = b.target /\ c.stage = b.stage /\ c.todo = b.todo
        /\ c.req = b.req /\ c.disk = b.disk /\ c.retrying = b.retrying
    BY <1>3 DEF IsCall, CallFields
  <1>5. SameOp(b, c)
    BY <1>3, <1>4 DEF SameOp, SameReq, Continued
  <1>6. ~Finished(c) /\ c.pc # "swap" /\ c.pc \in Looked
    BY <1>4 DEF Finished, Done, Looked
  <1>7. LocalInv(t, c, x)
    BY <1>1, <1>2, <1>5, <1>6, SameOpLocal
  <1>8. QED
    BY <1>0, <1>6, <1>7, LocalStep

LEMMA OpsDecideUpdate ==
  ASSUME OpsInv, SnapshotInv', NEW t \in Thread, DecideUpdate(t)
  PROVE  OpsInv'
  <1>0. PICK b : b = call[t] /\ b.pc = "decide" /\ b.req.op # "read"
    BY DEF DecideUpdate, At
  <1>1. LookInv(b) /\ CallInv(t, b, ctx[t])
    BY <1>0 DEF OpsInv, LocalInv
  <1>2. /\ b.phase = "REST" /\ b.expected \in 0 .. Len(log) /\ Reach(log, b.expected, entry)
        /\ b.head \in Nat \ {0} /\ b.safe \in Nat /\ b.ro \in Nat
        /\ b.head <= b.safe /\ b.safe <= b.ro /\ b.head <= head /\ b.safe <= safe_ro
        /\ b.address = Match(log, b.req.key, b.expected, b.head) /\ ~b.disk
    BY <1>0, <1>1 DEF LookInv, Done, Looked
  <1>3. IsLog(log) /\ head \in Nat /\ safe_ro \in Nat
    BY DEF OpsInv, ChainInv, SnapshotInv, RegionsInv
  <1>4. /\ b.address \in 0 .. Len(log) /\ b.address \in Nat
        /\ Match(log, b.req.key, b.address, 1) = Match(log, b.req.key, b.expected, 1)
        /\ b.address >= b.head \/ b.address = 0 => Match(log, b.req.key, b.expected, 1) = b.address
    BY <1>2, <1>3, LookValue
  <1>5. IsCall(b) /\ b.pc \in Looked /\ InCall(b) /\ b.req.op \in {"upsert", "rmw"}
    BY <1>0, <1>1 DEF CallInv, IsReq, Looked, InCall
  <1>6. ctx' = ctx /\ Unmoved /\ answer' = answer
    BY DEF DecideUpdate, logvars, regions, system, history, Unmoved
  <1>7. \/ CommonCase(b) /\ Set(t, [b EXCEPT !.pc = "in place"])
        \/ ~CommonCase(b) /\ Proceed(t, b, Region(b))
    BY <1>0, <1>2 DEF DecideUpdate, ShiftsVersion
  <1>8. CASE CommonCase(b) /\ Set(t, [b EXCEPT !.pc = "in place"])
    <2>1. PICK c, p : p = "in place" /\ c = [b EXCEPT !.pc = p]
      OBVIOUS
    <2>2. c.pc = "in place" /\ c.address >= c.ro
      BY <1>5, <1>8, <2>1 DEF CommonCase, IsCall, CallFields
    <2>3. /\ c.phase = b.phase /\ c.expected = b.expected /\ c.head = b.head /\ c.safe = b.safe
          /\ c.ro = b.ro /\ c.address = b.address /\ c.req = b.req /\ c.disk = b.disk
      BY <1>5, <2>1 DEF IsCall, CallFields
    <2>4. LookInv(c)
      BY <1>2, <1>5, <2>2, <2>3 DEF LookInv, Done, Looked
    <2>5. call' = [call EXCEPT ![t] = c]
      BY <1>8, <2>1 DEF Set
    <2>6. QED
      BY <1>0, <1>5, <1>6, <2>1, <2>4, <2>5, PlaceStep
  <1>9. CASE ~CommonCase(b) /\ Proceed(t, b, Region(b))
    <2>1. ~(b.address >= b.ro)
      BY <1>2, <1>5, <1>9 DEF CommonCase
    <2>2. Region(b) = IF b.req.op # "rmw" THEN "create"
                      ELSE IF b.address >= b.safe THEN "RETRY_LATER"
                      ELSE IF b.address >= b.head \/ b.address < begin_address THEN "create"
                      ELSE "RECORD_ON_DISK"
      BY <2>1 DEF Region
    <2>3. CASE Region(b) = "create"
      <3>1. PICK c, p : p = "create" /\ c = [b EXCEPT !.pc = p]
        OBVIOUS
      <3>2. call' = [call EXCEPT ![t] = c]
        BY <1>9, <2>3, <3>1 DEF Proceed, Set
      <3>3. /\ c.pc = "create" /\ c.phase = b.phase /\ c.expected = b.expected
            /\ c.address = b.address /\ c.req = b.req /\ c.disk = b.disk
        BY <1>5, <3>1 DEF IsCall, CallFields
      <3>4. b.req.op = "rmw" => /\ b.address = Match(log, b.req.key, b.expected, 1)
                                /\ b.address < safe_ro
        <4>1. SUFFICES ASSUME b.req.op = "rmw"
                       PROVE  /\ b.address = Match(log, b.req.key, b.expected, 1)
                              /\ b.address < safe_ro
          OBVIOUS
        <4>2. ~(b.address >= b.safe) /\ (b.address >= b.head \/ b.address < begin_address)
          BY <2>2, <2>3, <4>1
        <4>3. QED
          BY <1>2, <1>3, <1>4, <4>2 DEF begin_address
      <3>5. From(c) = b.address
        BY <1>2, <3>3 DEF From
      <3>6. LookInv(c)
        BY <1>2, <1>5, <3>3, <3>4, <3>5 DEF LookInv, Done, Looked
      <3>7. QED
        BY <1>0, <1>5, <1>6, <3>1, <3>2, <3>6, PlaceStep
    <2>4. CASE Region(b) # "create"
      <3>1. PICK st : st = Region(b)
        OBVIOUS
      <3>2. st \in {"RETRY_LATER", "RECORD_ON_DISK"}
            /\ (st = "RECORD_ON_DISK" => ~(b.address >= b.head))
        BY <2>2, <2>4, <3>1
      <3>3. PICK e : e = GoAsync(b)
        OBVIOUS
      <3>4. Exit(t, e, st)
        <4>1. IsCall(e) /\ e.old = b.old /\ e.new = b.new
          BY <1>5, <3>3 DEF GoAsync, IsCall, CallFields
        <4>2. Exit(t, [e EXCEPT !.old = b.old, !.new = b.new], st)
          BY <1>0, <1>9, <3>1, <3>2, <3>3 DEF Proceed
        <4>3. [e EXCEPT !.old = b.old, !.new = b.new] = e
          <5>1. e = [f \in CallFields |-> e[f]]
            BY <3>3, <4>1 DEF GoAsync, IsCall
          <5>2. e = [e EXCEPT !.old = e.old, !.new = e.new]
            BY <5>1 DEF CallFields
          <5>3. QED
            BY <4>1, <5>2
        <4>4. QED
          BY <4>2, <4>3
      <3>5. st = "RECORD_ON_DISK" => b.address < head
        BY <1>2, <1>3, <1>4, <3>2
      <3>6. QED
        BY <1>0, <1>4, <1>5, <1>6, <3>2, <3>3, <3>4, <3>5, ExitAsync
    <2>5. QED
      BY <2>3, <2>4
  <1>10. QED
    BY <1>7, <1>8, <1>9

LEMMA OpsContinueRmw ==
  ASSUME OpsInv, SnapshotInv', NEW t \in Thread, ContinueRmw(t)
  PROVE  OpsInv'
  <1>0. PICK b : b = call[t] /\ b.pc = "continue"
    BY DEF ContinueRmw, At
  <1>1. LookInv(b) /\ CallInv(t, b, ctx[t])
    BY <1>0 DEF OpsInv, LocalInv
  <1>2. /\ b.phase = "REST" /\ b.expected \in 0 .. Len(log) /\ Reach(log, b.expected, entry)
        /\ b.head \in Nat \ {0}
        /\ b.address = Match(log, b.req.key, b.expected, b.head) /\ b.disk
        /\ ResponseInv(b.req)
    BY <1>0, <1>1 DEF LookInv, Done, Looked
  <1>3. IsLog(log) /\ head \in Nat /\ safe_ro \in Nat /\ head <= safe_ro /\ entry \in 0 .. Len(log)
    BY DEF OpsInv, ChainInv, SnapshotInv, RegionsInv
  <1>4. IsCall(b) /\ b.pc \in Looked /\ b.req.op = "rmw"
    BY <1>0, <1>1, <1>2 DEF CallInv, IsReq, Looked, InCall
  <1>5. ctx' = ctx /\ Unmoved /\ answer' = answer
    BY DEF ContinueRmw, logvars, regions, system, history, Unmoved
  <1>6. CASE b.address > b.req.entry
    <2>1. Exit(t, GoAsync(b), "RETRY_NOW")
      BY <1>0, <1>6 DEF ContinueRmw
    <2>2. QED
      BY <1>0, <1>4, <1>5, <2>1, ExitAsync
  <1>7. CASE ~(b.address > b.req.entry)
    <2>1. PICK c, p : p = "create" /\ c = [b EXCEPT !.pc = p]
      OBVIOUS
    <2>2. call' = [call EXCEPT ![t] = c]
      BY <1>0, <1>7, <2>1 DEF ContinueRmw, Set
    <2>3. /\ c.pc = "create" /\ c.phase = b.phase /\ c.expected = b.expected
          /\ c.address = b.address /\ c.req = b.req /\ c.disk = b.disk
      BY <1>4, <2>1 DEF IsCall, CallFields
    <2>4. /\ b.req.entry \in 0 .. Len(log) /\ Reach(log, b.req.entry, entry)
          /\ b.req.address = Match(log, b.req.key, b.req.entry, 1) /\ b.req.address < head
          /\ b.req.address \in Nat
      BY <1>2, <1>3 DEF ResponseInv, IoInv
    <2>5. Match(log, b.req.key, b.expected, 1) = b.req.address
      <3>1. b.address <= b.req.entry /\ b.req.entry \in Nat
        <4>1. Len(log) \in Nat
          BY <1>3 DEF IsLog
        <4>2. b.address \in Nat
          <5>1. PICK k, e, h : k = b.req.key /\ e = b.expected /\ h = b.head
            OBVIOUS
          <5>2. Match(log, k, e, h) \in Nat
            BY <1>2, <1>3, <5>1, MatchRange
          <5>3. QED
            BY <1>2, <5>1, <5>2
        <4>3. QED
          BY <1>7, <2>4, <4>1, <4>2
      <3>2. Reach(log, b.req.entry, b.expected)
        BY <1>0, <1>1 DEF LookInv, Done
      <3>3. 1 <= b.head /\ b.head \in Nat
        BY <1>2
      <3>4. PICK k, h, a, f : k = b.req.key /\ h = b.head /\ a = b.req.entry /\ f = b.expected
        OBVIOUS
      <3>5. Match(log, k, f, 1) = Match(log, k, a, 1)
        BY <1>2, <1>3, <3>1, <3>2, <3>3, <3>4, MatchPast
      <3>6. QED
        BY <2>4, <3>4, <3>5
    <2>6. From(c) = b.req.address /\ b.req.address < safe_ro
      BY <1>2, <1>3, <2>3, <2>4 DEF From
    <2>7. LookInv(c)
      BY <1>2, <1>4, <2>3, <2>5, <2>6 DEF LookInv, Done, Looked
    <2>8. QED
      BY <1>0, <1>4, <1>5, <2>1, <2>2, <2>7, PlaceStep
  <1>8. QED
    BY <1>6, <1>7

-----------------------------------------------------------------------------
(***************************************************************************)
(* Steps that change records.                                              *)
(***************************************************************************)
\* The log lg with v for the record at a, and with v after its last record.
Replaced(lg, a, v, lh) ==
  /\ IsLog(lg) /\ Records(lg) /\ a \in 1 .. Len(lg) /\ DOMAIN v = RecFields
  /\ v.key = lg[a].key /\ v.prev = lg[a].prev /\ lh = [lg EXCEPT ![a] = v]

Appended(lg, v, lh) ==
  /\ IsLog(lg) /\ Records(lg) /\ DOMAIN v = RecFields /\ v.prev \in 0 .. Len(lg)
  /\ lh = Append(lg, v)

LEMMA ChangedRecord ==
  ASSUME NEW lg, NEW a, NEW v, NEW lh, Replaced(lg, a, v, lh)
  PROVE  /\ Extends(lg, lh) /\ Records(lh) /\ Len(lh) = Len(lg) /\ lh[a] = v
         /\ \A b \in 1 .. Len(lg) : b # a => lh[b] = lg[b]
  <1>0. /\ IsLog(lg) /\ Records(lg) /\ a \in 1 .. Len(lg) /\ DOMAIN v = RecFields
        /\ v.key = lg[a].key /\ v.prev = lg[a].prev /\ lh = [lg EXCEPT ![a] = v]
    BY DEF Replaced
  <1>1. PICK S : lg \in Seq(S)
    BY <1>0 DEF Records, IsSeq
  <1>2. PICK n \in Nat : n = Len(lg) /\ lg \in [1 .. n -> S]
    BY <1>1
  <1>3. lh \in [1 .. n -> S \cup {v}]
    BY <1>0, <1>2
  <1>4. \A T : [1 .. n -> T] \subseteq Seq(T) /\ \A f \in [1 .. n -> T] : Len(f) = n
    BY <1>2
  <1>5. IsSeq(lh) /\ Len(lh) = n
    BY <1>3, <1>4 DEF IsSeq
  <1>6. lh[a] = v /\ \A b \in 1 .. n : b # a => lh[b] = lg[b]
    BY <1>0, <1>2
  <1>7. \A b \in 1 .. n : DOMAIN lh[b] = RecFields /\ lh[b].key = lg[b].key /\ lh[b].prev = lg[b].prev
    BY <1>0, <1>2, <1>6 DEF Records
  <1>8. QED
    BY <1>0, <1>2, <1>5, <1>6, <1>7 DEF Extends, Records, IsLog

LEMMA AppendedRecord ==
  ASSUME NEW lg, NEW v, NEW lh, Appended(lg, v, lh)
  PROVE  /\ Extends(lg, lh) /\ Records(lh) /\ Len(lh) = Len(lg) + 1 /\ lh[Len(lh)] = v
         /\ \A b \in 1 .. Len(lg) : lh[b] = lg[b]
  <1>0. /\ IsLog(lg) /\ Records(lg) /\ DOMAIN v = RecFields /\ v.prev \in 0 .. Len(lg)
        /\ lh = Append(lg, v)
    BY DEF Appended
  <1>1. PICK S : lg \in Seq(S)
    BY <1>0 DEF Records, IsSeq
  <1>2. PICK n \in Nat : n = Len(lg)
    BY <1>1
  <1>3. /\ lh \in Seq(S \cup {v}) /\ Len(lh) = n + 1 /\ lh[n + 1] = v
        /\ \A b \in 1 .. n : lh[b] = lg[b]
    BY <1>0, <1>1, <1>2
  <1>4. \A b \in 1 .. n + 1 : DOMAIN lh[b] = RecFields /\ lh[b].prev \in 0 .. b - 1
    BY <1>0, <1>2, <1>3 DEF Records, IsLog
  <1>5. IsSeq(lh)
    BY <1>3 DEF IsSeq
  <1>6. QED
    BY <1>0, <1>2, <1>3, <1>4, <1>5 DEF Extends, Records, IsLog

\* Values found along the chains of a log that has grown.
LEMMA ValSame ==
  ASSUME NEW lg, NEW lh, Extends(lg, lh), NEW k, NEW from \in 0 .. Len(lg),
         Match(lg, k, from, 1) = 0 \/ lh[Match(lg, k, from, 1)].value = lg[Match(lg, k, from, 1)].value
  PROVE  Val(lh, k, from) = Val(lg, k, from)
  <1>1. Match(lh, k, from, 1) = Match(lg, k, from, 1)
    BY MatchSame
  <1>2. QED
    BY <1>1 DEF Val

LEMMA LocalMoves ==
  ASSUME Onward, NEW t \in Thread, NEW c, NEW x, LocalInv(t, c, x), UNCHANGED <<applied, seen>>
  PROVE  LocalInv(t, c, x)'
  <1>1. CtxInv(t, x) /\ Distinct(x) /\ CallInv(t, c, x) /\ LookInv(c) /\ AppliedInv(t, c, x)
    BY DEF LocalInv
  <1>2. CtxInv(t, x)' /\ CallInv(t, c, x)' /\ LookInv(c)'
    BY <1>1, OnCtx, OnCall, OnLook
  <1>3. plan' = plan
    BY DEF Onward
  <1>4. AppliedInv(t, c, x)'
    BY <1>1, <1>3 DEF AppliedInv
  <1>5. QED
    BY <1>1, <1>2, <1>4 DEF LocalInv

\* The log grows, or a record is marked invalid.
Grown ==
  /\ Extends(log, log') /\ Records(log')
  /\ \A a \in 1 .. Len(log) : log'[a].value = log[a].value /\ log'[a].by = log[a].by
  /\ \A a \in 1 .. Len(log') :
       a > Len(log) /\ log'[a].by = "rmw" => Match(log', log'[a].key, log'[a].prev, 1) < safe_ro
  /\ UNCHANGED <<plan, entry, head, safe_ro, sys, prev, env, truth, seen, applied, answer, ctx>>

LEMMA GrownOnward ==
  ASSUME OpsInv, Grown
  PROVE  /\ Onward /\ ChainInv' /\ HistoryInv' /\ PlainInv'
         /\ \A k : \A from \in 0 .. Len(log) : Val(log', k, from) = Val(log, k, from)
  <1>1. /\ IsLog(log) /\ entry \in 0 .. Len(log) /\ head \in Nat \ {0} /\ head <= safe_ro
        /\ safe_ro \in Nat /\ Len(log) \in Nat
    BY DEF OpsInv, ChainInv, SnapshotInv, RegionsInv
  <1>2. /\ Extends(log, log') /\ Records(log') /\ IsLog(log') /\ Len(log') \in Nat
        /\ Len(log) <= Len(log')
        /\ UNCHANGED <<plan, entry, head, safe_ro, truth, seen, applied, answer>>
    BY DEF Grown, Extends, IsLog
  <1>3. ASSUME NEW k, NEW from \in 0 .. Len(log) PROVE Val(log', k, from) = Val(log, k, from)
    <2>1. PICK m : m = Match(log, k, from, 1)
      OBVIOUS
    <2>2. m \in 0 .. from /\ m \in Nat
      BY <1>1, <2>1, MatchRange
    <2>3. m = 0 \/ log'[m].value = log[m].value
      BY <1>1, <2>2 DEF Grown
    <2>4. QED
      BY <1>2, <2>1, <2>3, ValSame
  <1>4. entry \in 0 .. Len(log')
    BY <1>1, <1>2
  <1>5. Reach(log', entry, entry')
    BY <1>2, <1>4, ReachStep
  <1>6. \A i, k : SeenMoves(i, k)
    BY <1>2, <1>3 DEF SeenMoves
  <1>7. Onward
    BY <1>1, <1>2, <1>4, <1>5, <1>6 DEF Onward
  <1>8. ASSUME NEW b \in 1 .. Len(log'), log'[b].by = "rmw"
        PROVE  Match(log', log'[b].key, log'[b].prev, 1) < safe_ro
    <2>1. CASE b > Len(log)
      BY <1>8, <2>1 DEF Grown
    <2>2. CASE ~(b > Len(log))
      <3>1. b \in 1 .. Len(log)
        BY <1>1, <1>2, <2>2
      <3>2. log'[b].key = log[b].key /\ log'[b].prev = log[b].prev /\ log[b].by = "rmw"
        BY <1>2, <1>8, <3>1 DEF Grown, Extends
      <3>3. log[b].prev \in 0 .. Len(log)
        BY <1>1, <3>1 DEF IsLog
      <3>4. PICK k, f : k = log[b].key /\ f = log[b].prev
        OBVIOUS
      <3>5. Match(log', k, f, 1) = Match(log, k, f, 1)
        BY <1>2, <3>3, <3>4, MatchSame
      <3>6. Match(log, k, f, 1) < safe_ro
        BY <3>1, <3>2, <3>4 DEF OpsInv, ChainInv, RmwInv
      <3>7. QED
        BY <3>2, <3>4, <3>5, <3>6
    <2>3. QED
      BY <2>1, <2>2
  <1>9. RmwInv'
    BY <1>2, <1>8 DEF RmwInv
  <1>10. Keys' = Keys /\ Ids' = Ids
    BY <1>2 DEF Keys, Ids
  <1>11. DOMAIN truth = Keys /\ \A k \in Keys : Val(log, k, entry) = truth[k]
    BY DEF OpsInv, ChainInv
  <1>12. ChainInv'
    BY <1>1, <1>2, <1>3, <1>4, <1>9, <1>10, <1>11 DEF ChainInv
  <1>13. HistoryInv'
    BY <1>2, <1>10 DEF OpsInv, HistoryInv
  <1>14. PlainInv'
    BY PlainKept DEF Grown
  <1>15. QED
    BY <1>3, <1>7, <1>12, <1>13, <1>14

LEMMA GrownSwap ==
  ASSUME OpsInv, Grown, NEW d, SwapInv(d), d.pc = "swap" => d.expected \in 0 .. Len(log)
  PROVE  SwapInv(d)'
  <1>1. SUFFICES ASSUME d.pc = "swap" PROVE SwapInv(d)'
    BY DEF SwapInv
  <1>2. /\ Extends(log, log') /\ entry' = entry /\ safe_ro' = safe_ro
        /\ \A a \in 1 .. Len(log) : log'[a].value = log[a].value
    BY DEF Grown
  <1>3. /\ d.new_address \in 1 .. Len(log) /\ ~Reach(log, d.new_address, entry)
        /\ log[d.new_address].key = d.req.key /\ log[d.new_address].prev = d.expected
        /\ d.req.op = "rmw" => Match(log, d.req.key, d.expected, 1) < safe_ro
        /\ log[d.new_address].value = New(d, Val(log, d.req.key, d.expected))
    BY <1>1 DEF SwapInv
  <1>4. entry \in 0 .. Len(log) /\ Len(log) \in Nat
    BY DEF OpsInv, ChainInv, IsLog
  <1>5. PICK n, e, k : n = d.new_address /\ e = d.expected /\ k = d.req.key
    OBVIOUS
  <1>6. n \in 1 .. Len(log) /\ n \in Nat /\ e \in 0 .. Len(log)
    BY <1>1, <1>3, <1>4, <1>5
  <1>7. Reach(log', n, entry) <=> Reach(log, n, entry)
    BY <1>2, <1>4, <1>6, ReachSame
  <1>8. Match(log', k, e, 1) = Match(log, k, e, 1)
    BY <1>2, <1>6, MatchSame
  <1>9. Val(log', k, e) = Val(log, k, e)
    BY <1>6, GrownOnward
  <1>10. /\ log'[n].key = log[n].key /\ log'[n].prev = log[n].prev
         /\ log'[n].value = log[n].value /\ n \in 1 .. Len(log')
    BY <1>2, <1>4, <1>6 DEF Extends, IsLog
  <1>11. QED
    BY <1>1, <1>2, <1>3, <1>5, <1>7, <1>8, <1>9, <1>10 DEF SwapInv

LEMMA GrownStep ==
  ASSUME OpsInv, SnapshotInv', Grown, NEW t \in Thread, NEW c, NEW x, x = ctx[t],
         call' = [call EXCEPT ![t] = c], LocalInv(t, c, x), SwapInv(c)',
         c.pc = "swap" => \A u \in Thread :
           u # t /\ call[u].pc = "swap" => call[u].new_address # c.new_address
  PROVE  OpsInv'
  <1>1. Onward /\ ChainInv' /\ HistoryInv' /\ PlainInv'
    BY GrownOnward
  <1>2. UNCHANGED <<plan, applied, seen, ctx>>
    BY DEF Grown
  <1>3. LocalInv(t, c, x)'
    BY <1>1, <1>2, LocalMoves
  <1>4. DOMAIN call = Thread /\ DOMAIN ctx = Thread
    BY DEF OpsInv, SnapshotInv
  <1>5. Goes(t, c, x)
    BY <1>2, <1>4 DEF Goes
  <1>6. AppliedElsewhere(t)
    BY <1>2 DEF AppliedElsewhere
  <1>7. ASSUME NEW u \in Thread, u # t PROVE SwapInv(call[u])' /\ call'[u] = call[u]
    <2>1. PICK d : d = call[u] /\ d = call'[u]
      BY <1>4, <1>7
    <2>2. SwapInv(d) /\ LookInv(d)
      BY <2>1 DEF OpsInv, SwapsInv, LocalInv
    <2>3. d.pc = "swap" => d.expected \in 0 .. Len(log)
      BY <2>2 DEF LookInv, Done, Looked
    <2>4. SwapInv(d)'
      BY <2>2, <2>3, GrownSwap
    <2>5. QED
      BY <2>1, <2>4
  <1>8. call'[t] = c /\ SwapInv(call[t])'
    BY <1>4
  <1>9. SwapsInv'
    BY <1>7, <1>8 DEF OpsInv, SwapsInv
  <1>10. QED
    BY <1>1, <1>3, <1>5, <1>6, <1>9, OpsStep

LEMMA OpsCreateRecord ==
  ASSUME OpsInv, SnapshotInv', NEW t \in Thread, CreateRecord(t)
  PROVE  OpsInv'
  <1>0. PICK b, x : b = call[t] /\ x = ctx[t] /\ b.pc = "create"
    BY DEF CreateRecord, At
  <1>1. LocalInv(t, b, x)
    BY <1>0 DEF OpsInv
  <1>2. b.pc \in Looked /\ InCall(b) /\ ~Finished(b)
    BY <1>0 DEF Looked, InCall, Finished, Done
  <1>3. /\ IsCall(b) /\ IsReq(t, b.req) /\ (Continued(b) => b.req.phase = "REST")
        /\ b.phase = "REST" /\ b.expected \in 0 .. Len(log) /\ Reach(log, b.expected, entry)
        /\ b.req.op \in {"upsert", "rmw"} /\ x.phase = "REST"
        /\ b.req.op = "rmw" =>
             From(b) = Match(log, b.req.key, b.expected, 1) /\ From(b) < safe_ro
    BY <1>0, <1>1, <1>2 DEF LocalInv, CallInv, LookInv, Done, IsReq, CtxInv
  <1>4. /\ IsLog(log) /\ Records(log) /\ entry \in 0 .. Len(log) /\ head \in Nat
        /\ Len(log) \in Nat /\ safe_ro \in Nat
    BY DEF OpsInv, ChainInv, IsLog, SnapshotInv, RegionsInv
  <1>5. PICK lost : lost = (b.req.op = "rmw" /\ ~b.disk /\ b.address >= begin_address
                              /\ b.address < head)
    OBVIOUS
  <1>6. PICK d : d = IF Continued(b) THEN b
                     ELSE [b EXCEPT !.phase = ctx[t].phase, !.version = ctx[t].version]
    OBVIOUS
  <1>7. /\ IsCall(d) /\ d.pc = b.pc /\ d.target = b.target /\ d.stage = b.stage /\ d.todo = b.todo
        /\ d.req = b.req /\ d.disk = b.disk /\ d.retrying = b.retrying /\ d.phase = "REST"
        /\ d.expected = b.expected /\ d.address = b.address
    BY <1>0, <1>3, <1>6 DEF IsCall, CallFields
  <1>8. PICK v : v = [key |-> b.req.key,
                      value |-> IF lost THEN NoValue ELSE New(b, OldValue(b)),
                      version |-> RecordVersion(t), prev |-> b.expected,
                      invalid |-> lost, by |-> b.req.op]
    OBVIOUS
  <1>9. DOMAIN v = RecFields /\ v.prev = b.expected /\ v.key = b.req.key /\ v.by = b.req.op
        /\ v.value = IF lost THEN NoValue ELSE New(b, OldValue(b))
    BY <1>8 DEF RecFields
  <1>10. log' = Append(log, v)
    BY <1>0, <1>5, <1>8 DEF CreateRecord
  <1>11. /\ Extends(log, log') /\ Records(log') /\ Len(log') = Len(log) + 1
         /\ log'[Len(log) + 1] = v /\ \A a \in 1 .. Len(log) : log'[a] = log[a]
    <2>1. /\ Extends(log, log') /\ Records(log') /\ Len(log') = Len(log) + 1
          /\ log'[Len(log')] = v /\ \A a \in 1 .. Len(log) : log'[a] = log[a]
      <3>1. PICK lg, lh : lg = log /\ lh = log'
        OBVIOUS
      <3>2. Appended(lg, v, lh)
        BY <1>3, <1>4, <1>9, <1>10, <3>1 DEF Appended
      <3>3. QED
        BY <3>1, <3>2, AppendedRecord
    <2>2. QED
      BY <2>1
  <1>12. Match(log', b.req.key, b.expected, 1) = Match(log, b.req.key, b.expected, 1)
    BY <1>3, <1>11, MatchSame
  <1>13. Grown
    <2>1. ASSUME NEW a \in 1 .. Len(log'), a > Len(log), log'[a].by = "rmw"
          PROVE  Match(log', log'[a].key, log'[a].prev, 1) < safe_ro
      <3>1. a = Len(log) + 1
        BY <1>4, <1>11, <2>1
      <3>2. log'[a].key = b.req.key /\ log'[a].prev = b.expected /\ b.req.op = "rmw"
        BY <1>9, <1>11, <2>1, <3>1
      <3>3. QED
        BY <1>3, <1>12, <3>2
    <2>2. UNCHANGED <<plan, entry, head, safe_ro, sys, prev, env, truth, seen, applied, answer, ctx>>
      BY DEF CreateRecord, regions, system, history
    <2>3. QED
      BY <1>11, <2>1, <2>2 DEF Grown
  <1>14. LocalInv(t, d, x)
    <2>1. SameOp(b, d)
      BY <1>3, <1>7 DEF SameOp, SameReq, Continued
    <2>2. From(d) = From(b)
      BY <1>7 DEF From
    <2>3. LookInv(d)
      BY <1>0, <1>3, <1>7, <2>2 DEF LookInv, Done, Looked
    <2>4. ~Finished(d) /\ d.pc \in Looked
      BY <1>0, <1>7 DEF Finished, Done, Looked
    <2>5. QED
      BY <1>1, <1>2, <2>1, <2>3, <2>4, SameOpLocal
  <1>15. CASE lost
    <2>1. PICK c, st : st = "RECORD_ON_DISK" /\ c = Exited(GoAsync(d), st)
      OBVIOUS
    <2>2. Exit(t, GoAsync(d), st)
      BY <1>0, <1>5, <1>6, <1>15, <2>1 DEF CreateRecord
    <2>3. call' = [call EXCEPT ![t] = c]
      BY <2>1, <2>2 DEF Exit, Set, Exited
    <2>4. /\ d.address = Match(log, d.req.key, d.expected, 1) /\ d.address < head
          /\ d.req.op = "rmw"
      BY <1>3, <1>5, <1>7, <1>15 DEF From
    <2>5. PICK k, e, a : k = d.req.key /\ e = d.expected /\ a = d.address
      OBVIOUS
    <2>6. 1 \in Nat \ {0}
      OBVIOUS
    <2>7. a \in 0 .. Len(log) /\ Match(log, k, a, 1) = Match(log, k, e, 1)
      BY <1>3, <1>4, <1>7, <2>4, <2>5, <2>6, LookValue
    <2>8. d.pc \in Looked
      BY <1>2, <1>7
    <2>9. LocalInv(t, c, x) /\ c.pc = "handle"
      BY <1>14, <2>1, <2>4, <2>5, <2>7, <2>8, AsyncLocal
    <2>10. SwapInv(c)'
      BY <2>9 DEF SwapInv
    <2>11. QED
      BY <1>0, <1>13, <2>3, <2>9, <2>10, GrownStep
  <1>16. CASE ~lost
    <2>1. PICK c : c = [d EXCEPT !.pc = "swap", !.new_address = TailAddress]
      OBVIOUS
    <2>2. call' = [call EXCEPT ![t] = c]
      BY <1>0, <1>5, <1>6, <1>16, <2>1 DEF CreateRecord, Set
    <2>3. /\ IsCall(c) /\ c.pc = "swap" /\ c.target = d.target /\ c.stage = d.stage
          /\ c.todo = d.todo /\ c.req = d.req /\ c.disk = d.disk /\ c.retrying = d.retrying
          /\ c.phase = d.phase /\ c.expected = d.expected /\ c.new_address = Len(log) + 1
      BY <1>7, <2>1 DEF IsCall, CallFields, TailAddress
    <2>4. LocalInv(t, c, x)
      <3>1. SameOp(d, c)
        BY <1>3, <1>7, <2>3 DEF SameOp, SameReq, Continued
      <3>2. LookInv(c)
        BY <1>3, <1>7, <2>3 DEF LookInv, Done, Looked
      <3>3. InCall(d) /\ ~Finished(d) /\ ~Finished(c) /\ c.pc \in Looked
        BY <1>0, <1>7, <2>3 DEF InCall, Finished, Done, Looked
      <3>4. QED
        BY <1>14, <3>1, <3>2, <3>3, SameOpLocal
    <2>5. SwapInv(c)'
      <3>1. PICK n, k, e : n = Len(log) + 1 /\ k = b.req.key /\ e = b.expected
        OBVIOUS
      <3>2. n \in 1 .. Len(log') /\ n \in Nat
        BY <1>4, <1>11, <3>1
      <3>3. ~Reach(log', n, entry)
        <4>1. IsLog(log') /\ entry \in 0 .. Len(log')
          BY <1>4, <1>11 DEF Extends
        <4>2. Reach(log', n, entry) => n <= entry
          BY <3>2, <4>1, ReachStep
        <4>3. QED
          BY <1>4, <3>1, <4>2
      <3>4. log'[n].key = k /\ log'[n].prev = e /\ log'[n].value = New(b, OldValue(b))
        BY <1>9, <1>11, <1>16, <3>1
      <3>5. b.req.op = "rmw" => OldValue(b) = Val(log', k, e)
        <4>1. SUFFICES ASSUME b.req.op = "rmw" PROVE OldValue(b) = Val(log', k, e)
          OBVIOUS
        <4>2. From(b) = Match(log', k, e, 1) /\ From(b) = Match(log, k, e, 1)
          BY <1>3, <1>12, <3>1, <4>1
        <4>3. e \in 0 .. Len(log)
          BY <1>3, <3>1
        <4>4. From(b) \in 0 .. e
          BY <1>4, <4>2, <4>3, MatchRange
        <4>5. OldValue(b) = IF From(b) < 1 THEN NoValue ELSE log[From(b)].value
          BY DEF OldValue, From, begin_address
        <4>6. From(b) = 0 \/ From(b) \in 1 .. Len(log)
          BY <1>4, <4>3, <4>4
        <4>7. QED
          BY <1>11, <4>2, <4>5, <4>6 DEF Val
      <3>6. New(b, OldValue(b)) = New(c, Val(log', k, e))
        BY <1>3, <1>7, <2>3, <3>5 DEF New
      <3>7. b.req.op = "rmw" => Match(log', k, e, 1) < safe_ro
        BY <1>3, <1>12, <3>1
      <3>8. c.new_address = n /\ c.req.key = k /\ c.expected = e /\ c.req.op = b.req.op
        BY <1>7, <2>3, <3>1
      <3>9. entry' = entry /\ safe_ro' = safe_ro
        BY <1>13 DEF Grown
      <3>10. QED
        BY <2>3, <3>2, <3>3, <3>4, <3>6, <3>7, <3>8, <3>9 DEF SwapInv
    <2>6. ASSUME NEW u \in Thread, call[u].pc = "swap" PROVE call[u].new_address # c.new_address
      <3>1. call[u].new_address \in 1 .. Len(log)
        BY <2>6 DEF OpsInv, SwapsInv, SwapInv
      <3>2. QED
        BY <1>4, <2>3, <3>1
    <2>7. QED
      BY <1>0, <1>13, <2>2, <2>4, <2>5, <2>6, GrownStep
  <1>17. QED
    BY <1>15, <1>16

\* The compare-and-swap fails.
LEMMA OpsSwapFails ==
  ASSUME OpsInv, SnapshotInv', NEW t \in Thread, SwapEntry(t), entry # call[t].expected
  PROVE  OpsInv'
  <1>0. PICK b, x : b = call[t] /\ x = ctx[t] /\ b.pc = "swap"
    BY DEF SwapEntry, At
  <1>1. LocalInv(t, b, x) /\ SwapInv(b)
    BY <1>0 DEF OpsInv, SwapsInv
  <1>2. b.pc \in Looked /\ InCall(b) /\ ~Finished(b)
    BY <1>0 DEF Looked, InCall, Finished, Done
  <1>3. /\ IsCall(b) /\ IsReq(t, b.req) /\ (Continued(b) => b.req.phase = "REST")
        /\ b.req.op \in {"upsert", "rmw"} /\ (b.disk => b.req.op = "rmw")
        /\ b.new_address \in 1 .. Len(log)
    BY <1>0, <1>1, <1>2 DEF LocalInv, CallInv, LookInv, Done, IsReq, SwapInv
  <1>4. IsLog(log) /\ Records(log) /\ Len(log) \in Nat
    BY DEF OpsInv, ChainInv, IsLog
  <1>5. PICK n : n = b.new_address /\ n \in 1 .. Len(log)
    BY <1>3
  <1>6. PICK v : v = [log[n] EXCEPT !.invalid = TRUE]
    OBVIOUS
  <1>7. log' = [log EXCEPT ![n] = v]
    BY <1>0, <1>5, <1>6 DEF SwapEntry
  <1>8. /\ DOMAIN v = RecFields /\ v.key = log[n].key /\ v.prev = log[n].prev
        /\ v.value = log[n].value /\ v.by = log[n].by
    BY <1>4, <1>5, <1>6 DEF Records, RecFields
  <1>9. /\ Extends(log, log') /\ Records(log') /\ Len(log') = Len(log) /\ log'[n] = v
        /\ \A a \in 1 .. Len(log) : a # n => log'[a] = log[a]
    <2>1. PICK lg, lh : lg = log /\ lh = log'
      OBVIOUS
    <2>2. Replaced(lg, n, v, lh)
      BY <1>4, <1>5, <1>7, <1>8, <2>1 DEF Replaced
    <2>3. QED
      BY <2>1, <2>2, ChangedRecord
  <1>10. Grown
    <2>1. \A a \in 1 .. Len(log) : log'[a].value = log[a].value /\ log'[a].by = log[a].by
      BY <1>8, <1>9
    <2>2. \A a \in 1 .. Len(log') : ~(a > Len(log))
      BY <1>4, <1>9
    <2>3. UNCHANGED <<plan, entry, head, safe_ro, sys, prev, env, truth, seen, applied, answer, ctx>>
      BY DEF SwapEntry, regions, system, history
    <2>4. QED
      BY <1>9, <2>1, <2>2, <2>3 DEF Grown
  <1>11. CASE b.req.op = "rmw"
    <2>1. PICK c, st : st = "RETRY_NOW" /\ c = Exited(GoAsync(b), st)
      OBVIOUS
    <2>2. Exit(t, GoAsync(b), st)
      BY <1>0, <1>11, <2>1 DEF SwapEntry
    <2>3. call' = [call EXCEPT ![t] = c]
      BY <2>1, <2>2 DEF Exit, Set, Exited
    <2>4. LocalInv(t, c, x) /\ c.pc = "handle"
      BY <1>1, <1>2, <2>1, AsyncLocal
    <2>5. SwapInv(c)'
      BY <2>4 DEF SwapInv
    <2>6. QED
      BY <1>0, <1>10, <2>3, <2>4, <2>5, GrownStep
  <1>12. CASE b.req.op # "rmw"
    <2>1. PICK c : c = [b EXCEPT !.pc = "internal"]
      OBVIOUS
    <2>2. call' = [call EXCEPT ![t] = c]
      BY <1>0, <1>12, <2>1 DEF SwapEntry, Set
    <2>3. /\ IsCall(c) /\ c.pc = "internal" /\ c.target = b.target /\ c.stage = b.stage
          /\ c.todo = b.todo /\ c.req = b.req /\ c.disk = b.disk /\ c.retrying = b.retrying
      BY <1>3, <2>1 DEF IsCall, CallFields
    <2>4. SameOp(b, c)
      BY <1>3, <2>3 DEF SameOp, SameReq, Continued
    <2>5. LookInv(c)
      BY <1>3, <1>12, <2>3 DEF LookInv, Done, Looked
    <2>6. ~Finished(c)
      BY <2>3 DEF Finished, Done
    <2>7. LocalInv(t, c, x)
      BY <1>1, <1>2, <2>3, <2>4, <2>5, <2>6, SameOpLocal
    <2>8. SwapInv(c)'
      BY <2>3 DEF SwapInv
    <2>9. QED
      BY <1>0, <1>10, <2>2, <2>3, <2>7, <2>8, GrownStep
  <1>13. QED
    BY <1>11, <1>12

-----------------------------------------------------------------------------
(***************************************************************************)
(* Steps in which an operation takes effect.                               *)
(***************************************************************************)
Effected(t, b, v, w, shown) ==
  /\ DOMAIN truth' = Keys /\ truth'[b.req.key] = w /\ answer' = answer
  /\ \A k \in Keys : k # b.req.key => truth'[k] = truth[k]
  /\ DOMAIN seen' = Ids /\ DOMAIN applied' = Ids
  /\ applied'[b.req.id] = Append(applied[b.req.id], v)
  /\ \A i \in Ids : i # b.req.id => applied'[i] = applied[i]
  /\ \A i \in Ids : seen'[i] = IF seen[i] # {} /\ plan.ops[i[1]][i[2]].key = b.req.key
                                THEN seen[i] \cup {shown} ELSE seen[i]
  /\ AppliedElsewhere(t) /\ HistoryInv'

LEMMA EffectFacts ==
  ASSUME HistoryInv, DOMAIN truth = Keys, NEW t \in Thread, NEW b, IsReq(t, b.req),
         NEW v, NEW w, NEW shown, Effect(b, v, w, shown), plan' = plan
  PROVE  Effected(t, b, v, w, shown)
  <1>1. DOMAIN seen = Ids /\ DOMAIN answer = Ids /\ DOMAIN applied = Ids
        /\ \A i \in Ids : Range(answer[i]) \subseteq seen[i]
    BY DEF HistoryInv
  <1>2. b.req.key \in Keys /\ b.req.id \in Ids
    BY ReqKey
  <1>3. /\ truth' = [truth EXCEPT ![b.req.key] = w]
        /\ applied' = [applied EXCEPT ![b.req.id] = Append(@, v)]
        /\ seen' = [i \in Ids |-> IF seen[i] # {} /\ plan.ops[i[1]][i[2]].key = b.req.key
                                  THEN seen[i] \cup {shown} ELSE seen[i]]
        /\ answer' = answer
    BY DEF Effect
  <1>4. /\ DOMAIN truth' = Keys /\ truth'[b.req.key] = w
        /\ \A k \in Keys : k # b.req.key => truth'[k] = truth[k]
    BY <1>2, <1>3
  <1>5. /\ DOMAIN applied' = Ids /\ applied'[b.req.id] = Append(applied[b.req.id], v)
        /\ \A i \in Ids : i # b.req.id => applied'[i] = applied[i]
    BY <1>1, <1>2, <1>3
  <1>6. /\ DOMAIN seen' = Ids
        /\ \A i \in Ids : seen'[i] = IF seen[i] # {} /\ plan.ops[i[1]][i[2]].key = b.req.key
                                     THEN seen[i] \cup {shown} ELSE seen[i]
    BY <1>3
  <1>7. Ids' = Ids
    BY DEF Ids
  <1>8. HistoryInv'
    BY <1>1, <1>3, <1>5, <1>6, <1>7 DEF HistoryInv
  <1>9. ASSUME NEW u \in Thread, u # t, NEW m \in DOMAIN plan.ops[u]
        PROVE  /\ applied'[<<u, m>>] = applied[<<u, m>>]
               /\ seen[<<u, m>>] = {} => seen'[<<u, m>>] = {}
    <2>1. <<u, m>> \in Ids
      <3>1. <<u, m>> \in {<<u, i>> : i \in DOMAIN plan.ops[u]}
        OBVIOUS
      <3>2. QED
        BY <3>1 DEF Ids
    <2>2. <<u, m>> # b.req.id
      BY <1>9 DEF IsReq
    <2>3. QED
      BY <1>5, <1>6, <2>1, <2>2
  <1>10. AppliedElsewhere(t)
    BY <1>9 DEF AppliedElsewhere
  <1>11. QED
    BY <1>3, <1>4, <1>5, <1>6, <1>8, <1>10 DEF Effected

\* A thread whose update has taken effect.
LEMMA TookEffect ==
  ASSUME OpsInv, NEW t \in Thread, NEW b, NEW x, LocalInv(t, b, x), NEW c, SameOp(b, c),
         InCall(b), ~Finished(b), c.pc = "handle", c.status \in {"SUCCESS", "SUCCESS_UNMARK"},
         NEW v, NEW w, NEW shown, Effect(b, v, w, shown), Onward
  PROVE  LocalInv(t, c, x)'
  <1>1. CtxInv(t, x) /\ Distinct(x) /\ CallInv(t, b, x) /\ AppliedInv(t, b, x)
    BY DEF LocalInv
  <1>2. InCall(c) /\ Finished(c)
    BY DEF Finished, Done, InCall
  <1>3. CallInv(t, c, x)
    BY <1>1, SameOpCall
  <1>4. IsReq(t, b.req) /\ b.req.id \notin PendIds(x) /\ c.req.id = b.req.id /\ c.req.op = b.req.op
        /\ (b.stage = "none" => b.req.id[2] = x.serial_num + 1)
        /\ (b.stage # "none" => b.req.id[2] <= x.serial_num)
    BY <1>1 DEF CallInv, SameOp, SameReq
  <1>5. plan' = plan
    BY DEF Onward
  <1>a. HistoryInv /\ DOMAIN truth = Keys
    BY DEF OpsInv, ChainInv
  <1>6. /\ applied'[b.req.id] = Append(applied[b.req.id], v)
        /\ \A i \in Ids : i # b.req.id => applied'[i] = applied[i]
        /\ \A i \in Ids : seen'[i] = IF seen[i] # {} /\ plan.ops[i[1]][i[2]].key = b.req.key
                                     THEN seen[i] \cup {shown} ELSE seen[i]
    <2>1. Effected(t, b, v, w, shown)
      BY <1>4, <1>5, <1>a, EffectFacts
    <2>2. QED
      BY <2>1 DEF Effected
  <1>7. ASSUME NEW m \in DOMAIN plan.ops[t]
        PROVE  /\ Waiting(c, x, <<t, m>>) => applied'[<<t, m>>] = <<>>
               /\ ~Waiting(c, x, <<t, m>>) /\ plan.ops[t][m].op # "read" => Len(applied'[<<t, m>>]) = 1
               /\ ~Begun(c, x, <<t, m>>) => seen'[<<t, m>>] = {}
    <2>1. /\ Waiting(b, x, <<t, m>>) => applied[<<t, m>>] = <<>>
          /\ ~Waiting(b, x, <<t, m>>) /\ plan.ops[t][m].op # "read" => Len(applied[<<t, m>>]) = 1
          /\ ~Begun(b, x, <<t, m>>) => seen[<<t, m>>] = {}
      BY <1>1 DEF AppliedInv
    <2>2. Begun(c, x, <<t, m>>) <=> Begun(b, x, <<t, m>>)
      BY <1>2, <1>4 DEF Begun
    <2>3. <<t, m>> \in Ids
      <3>1. <<t, m>> \in {<<t, i>> : i \in DOMAIN plan.ops[t]}
        OBVIOUS
      <3>2. QED
        BY <3>1 DEF Ids
    <2>4. ~Begun(c, x, <<t, m>>) => seen'[<<t, m>>] = {}
      BY <1>6, <2>1, <2>2, <2>3
    <2>5. CASE <<t, m>> = b.req.id
      <3>1. Waiting(b, x, <<t, m>>) /\ Begun(c, x, <<t, m>>)
        BY <1>2, <1>4, <2>5 DEF Waiting, Begun
      <3>2. ~Waiting(c, x, <<t, m>>)
        BY <1>2, <1>4, <2>5, <3>1 DEF Waiting
      <3>3. applied'[<<t, m>>] = Append(<<>>, v)
        BY <1>6, <2>1, <2>5, <3>1
      <3>4. Len(Append(<<>>, v)) = 1
        OBVIOUS
      <3>5. QED
        BY <2>4, <3>2, <3>3, <3>4
    <2>6. CASE <<t, m>> # b.req.id
      <3>1. Waiting(c, x, <<t, m>>) <=> Waiting(b, x, <<t, m>>)
        BY <1>2, <1>4, <2>2, <2>6 DEF Waiting
      <3>2. applied'[<<t, m>>] = applied[<<t, m>>]
        BY <1>6, <2>3, <2>6
      <3>3. QED
        BY <2>1, <2>4, <3>1, <3>2
    <2>7. QED
      BY <2>5, <2>6
  <1>8. AppliedInv(t, c, x)'
    BY <1>5, <1>7 DEF AppliedInv
  <1>9. CtxInv(t, x)' /\ CallInv(t, c, x)'
    BY <1>1, <1>3, OnCtx, OnCall
  <1>10. LookInv(c)'
    BY DEF LookInv, Done, Looked
  <1>11. QED
    BY <1>1, <1>8, <1>9, <1>10 DEF LocalInv

LEMMA OpKey ==
  ASSUME NEW u \in Thread, NEW m \in DOMAIN plan.ops[u]
  PROVE  plan.ops[u][m].key \in Keys /\ <<u, m>> \in Ids
  <1>1. plan.ops[u][m] \in Range(plan.ops[u])
    BY DEF Range
  <1>2. plan.ops[u][m].key \in {o.key : o \in Range(plan.ops[u])}
    BY <1>1
  <1>3. <<u, m>> \in {<<u, i>> : i \in DOMAIN plan.ops[u]}
    OBVIOUS
  <1>4. QED
    BY <1>2, <1>3 DEF Keys, Ids

LEMMA EffectSeen ==
  ASSUME NEW t, NEW b, NEW v, NEW w, NEW shown, Effected(t, b, v, w, shown),
         w = shown \/ w = truth[b.req.key],
         \A k : \A from \in 0 .. Len(log) :
           \/ Val(log', k, from) = Val(log, k, from)
           \/ k = b.req.key /\ Val(log', k, from) = shown
  PROVE  \A u \in Thread : \A m \in DOMAIN plan.ops[u] : SeenMoves(<<u, m>>, plan.ops[u][m].key)
  <1>1. SUFFICES ASSUME NEW u \in Thread, NEW m \in DOMAIN plan.ops[u]
                 PROVE  SeenMoves(<<u, m>>, plan.ops[u][m].key)
    OBVIOUS
  <1>2. PICK k, i : k = plan.ops[u][m].key /\ i = <<u, m>>
    OBVIOUS
  <1>3. k \in Keys /\ i \in Ids
    BY <1>2, OpKey
  <1>4. /\ truth'[b.req.key] = w /\ (k # b.req.key => truth'[k] = truth[k])
        /\ seen'[i] = IF seen[i] # {} /\ plan.ops[i[1]][i[2]].key = b.req.key
                      THEN seen[i] \cup {shown} ELSE seen[i]
    BY <1>3 DEF Effected
  <1>5. i[1] = u /\ i[2] = m
    BY <1>2
  <1>6. seen[i] \subseteq seen'[i] /\ (seen[i] # {} /\ k = b.req.key => shown \in seen'[i])
    BY <1>2, <1>4, <1>5
  <1>7. truth[k] \in seen[i] => truth'[k] \in seen'[i]
    BY <1>4, <1>6
  <1>8. \A from \in 0 .. Len(log) : Val(log, k, from) \in seen[i] => Val(log', k, from) \in seen'[i]
    BY <1>6
  <1>9. QED
    BY <1>2, <1>6, <1>7, <1>8 DEF SeenMoves

\* A step in which an update takes effect.
LEMMA EffectStep ==
  ASSUME OpsInv, SnapshotInv', NEW t \in Thread, NEW b, b = call[t], b.pc \in Looked,
         NEW v, NEW w, NEW shown, Effect(b, v, w, shown),
         NEW st \in {"SUCCESS", "SUCCESS_UNMARK"}, Exit(t, b, st),
         UNCHANGED <<plan, sys, prev, env, ctx>>, Onward, ChainInv',
         \A u \in Thread : u # t => SwapInv(call[u])'
  PROVE  OpsInv'
  <1>0. PICK x, c : x = ctx[t] /\ c = Exited(b, st)
    OBVIOUS
  <1>1. LocalInv(t, b, x)
    BY <1>0 DEF OpsInv
  <1>2. InCall(b) /\ ~Finished(b)
    BY DEF Looked, InCall, Finished, Done
  <1>3. IsCall(b) /\ IsReq(t, b.req) /\ (Continued(b) => b.req.phase = "REST")
    BY <1>1, <1>2 DEF LocalInv, CallInv
  <1>4. /\ IsCall(c) /\ c.pc = "handle" /\ c.status = st
        /\ c.target = b.target /\ c.stage = b.stage /\ c.todo = b.todo
        /\ c.req = b.req /\ c.disk = b.disk /\ c.retrying = b.retrying
    BY <1>0, <1>3, ExitedFields
  <1>5. SameOp(b, c)
    BY <1>3, <1>4 DEF SameOp, SameReq, Continued
  <1>6. c.status \in {"SUCCESS", "SUCCESS_UNMARK"}
    BY <1>4
  <1>7. LocalInv(t, c, x)'
    BY <1>1, <1>2, <1>4, <1>5, <1>6, TookEffect
  <1>8. DOMAIN call = Thread /\ DOMAIN ctx = Thread
    BY DEF OpsInv, SnapshotInv
  <1>9. call' = [call EXCEPT ![t] = c]
    BY <1>0 DEF Exit, Set, Exited
  <1>10. Goes(t, c, x)
    BY <1>0, <1>8, <1>9 DEF Goes
  <1>11. HistoryInv /\ DOMAIN truth = Keys
    BY DEF OpsInv, ChainInv
  <1>12. Effected(t, b, v, w, shown)
    BY <1>3, <1>11, EffectFacts
  <1>13. HistoryInv' /\ AppliedElsewhere(t)
    BY <1>12 DEF Effected
  <1>14. PlainInv'
    BY PlainKept
  <1>15. call'[t] = c /\ SwapInv(call[t])' /\ \A u \in Thread : u # t => call'[u] = call[u]
    BY <1>4, <1>8, <1>9 DEF SwapInv
  <1>16. \A u \in Thread : SwapInv(call[u])'
    BY <1>15
  <1>17. call'[t].pc # "swap"
    BY <1>4, <1>15
  <1>18. SwapsInv'
    BY <1>15, <1>16, <1>17 DEF OpsInv, SwapsInv
  <1>19. QED
    BY <1>7, <1>10, <1>13, <1>14, <1>18, OpsStep

\* The compare-and-swap puts the new record at the head of the chain.
LEMMA OpsSwapSucceeds ==
  ASSUME OpsInv, SnapshotInv', NEW t \in Thread, SwapEntry(t), entry = call[t].expected
  PROVE  OpsInv'
  <1>0. PICK b, k, e, n, w, v, st :
          /\ b = call[t] /\ b.pc = "swap" /\ k = b.req.key /\ e = entry /\ n = b.new_address
          /\ w = New(b, truth[k]) /\ v = log[n].version /\ st = Success(t)
    BY DEF SwapEntry, At
  <1>1. LookInv(b) /\ CallInv(t, b, ctx[t]) /\ SwapInv(b)
    BY <1>0 DEF OpsInv, LocalInv, SwapsInv
  <1>2. b.pc \in Looked /\ IsReq(t, b.req)
    BY <1>0, <1>1 DEF Looked, CallInv, InCall
  <1>3. k \in Keys
    BY <1>0, <1>2, ReqKey
  <1>4. /\ n \in 1 .. Len(log) /\ log[n].key = k /\ log[n].prev = e
        /\ log[n].value = New(b, Val(log, k, e))
    BY <1>0, <1>1 DEF SwapInv
  <1>5. /\ IsLog(log) /\ Len(log) \in Nat /\ e \in 0 .. Len(log) /\ entry = e
        /\ head \in Nat \ {0} /\ head <= safe_ro /\ safe_ro \in Nat /\ HistoryInv
        /\ DOMAIN truth = Keys /\ \A i \in Keys : Val(log, i, e) = truth[i]
    BY <1>0 DEF OpsInv, ChainInv, IsLog, SnapshotInv, RegionsInv
  <1>6. e \in Nat /\ n \in Nat /\ e < n /\ n \in 0 .. Len(log) /\ n # 0
    BY <1>4, <1>5 DEF IsLog
  <1>7. log[n].value = w
    BY <1>0, <1>3, <1>4, <1>5
  <1>8. /\ entry' = n /\ Effect(b, v, w, w) /\ Exit(t, b, st)
        /\ UNCHANGED <<plan, log, head, safe_ro, sys, prev, env, ctx>>
    <2>1. b.req.op # "delete"
      BY <1>2 DEF IsReq
    <2>2. Due(b, truth[k]) = w
      BY <1>0, <2>1 DEF Due
    <2>3. QED
      BY <1>0, <2>2 DEF SwapEntry, regions, system
  <1>9. Effected(t, b, v, w, w)
    BY <1>2, <1>5, <1>8, EffectFacts
  <1>10. /\ DOMAIN truth' = Keys /\ truth'[k] = w
         /\ \A i \in Keys : i # k => truth'[i] = truth[i]
    BY <1>0, <1>9 DEF Effected
  <1>11. ASSUME NEW i \in Keys PROVE Val(log, i, n) = truth'[i]
    <2>1. Match(log, i, n, 1) = IF log[n].key = i THEN n ELSE Match(log, i, e, 1)
      BY <1>4, <1>5, <1>6, MatchStep
    <2>2. CASE i = k
      BY <1>4, <1>6, <1>7, <1>10, <2>1, <2>2 DEF Val
    <2>3. CASE i # k
      <3>1. Val(log, i, n) = Val(log, i, e)
        BY <1>4, <2>1, <2>3 DEF Val
      <3>2. QED
        BY <1>5, <1>10, <2>3, <3>1
    <2>4. QED
      BY <2>2, <2>3
  <1>12. Keys' = Keys
    BY <1>8 DEF Keys
  <1>13. ChainInv'
    <2>1. Records(log) /\ RmwInv
      BY DEF OpsInv, ChainInv
    <2>2. RmwInv'
      BY <1>8, <2>1 DEF RmwInv
    <2>3. QED
      BY <1>5, <1>6, <1>8, <1>10, <1>11, <1>12, <2>1, <2>2 DEF ChainInv
  <1>14. Reach(log, e, n)
    BY <1>4, <1>5, <1>6, ReachStep
  <1>15. Onward
    <2>1. Extends(log, log')
      BY <1>5, <1>8 DEF Extends
    <2>2. \A i : \A from \in 0 .. Len(log) : Val(log', i, from) = Val(log, i, from)
      BY <1>8
    <2>3. \A u \in Thread : \A m \in DOMAIN plan.ops[u] : SeenMoves(<<u, m>>, plan.ops[u][m].key)
      BY <1>9, <2>2, EffectSeen
    <2>4. head \in Nat /\ head' \in Nat /\ head <= head'
          /\ safe_ro' \in Nat /\ safe_ro <= safe_ro'
      BY <1>5, <1>8
    <2>5. entry \in 0 .. Len(log) /\ entry' \in 0 .. Len(log') /\ Reach(log', entry, entry')
      BY <1>5, <1>6, <1>8, <1>14
    <2>6. QED
      BY <1>5, <1>8, <2>1, <2>3, <2>4, <2>5 DEF Onward
  <1>16. ASSUME NEW u \in Thread, u # t PROVE SwapInv(call[u])'
    <2>1. PICK d : d = call[u] /\ d = call'[u]
      <3>1. DOMAIN call = Thread
        BY DEF OpsInv, SnapshotInv
      <3>2. QED
        BY <1>8, <1>16, <3>1 DEF Exit, Set
    <2>2. SUFFICES ASSUME d.pc = "swap" PROVE SwapInv(d)'
      BY <2>1 DEF SwapInv
    <2>3. PICK m : m = d.new_address
      OBVIOUS
    <2>4. SwapInv(d) /\ m # n
      BY <1>0, <1>16, <2>1, <2>2, <2>3 DEF OpsInv, SwapsInv
    <2>5. m \in 1 .. Len(log) /\ ~Reach(log, m, e)
      BY <1>5, <2>2, <2>3, <2>4 DEF SwapInv
    <2>6. m \in Nat /\ ~Reach(log, m, n)
      BY <1>4, <1>5, <1>6, <2>4, <2>5, ReachStep
    <2>7. QED
      BY <1>8, <2>2, <2>3, <2>4, <2>6 DEF SwapInv
  <1>17. st \in {"SUCCESS", "SUCCESS_UNMARK"}
    BY <1>0 DEF Success
  <1>18. UNCHANGED <<plan, sys, prev, env, ctx>>
    BY <1>8
  <1>19. QED
    BY <1>0, <1>2, <1>8, <1>13, <1>15, <1>16, <1>17, <1>18, EffectStep

LEMMA LinkedIsReached ==
  ASSUME NEW a
  PROVE  Linked(a) <=> Reach(log, a, entry)
  BY DEF Linked, TraceBack, Reach, Walk

InPlace(b) == b.pc = "in place"

\* The record that is updated in place.
LEMMA InPlaceTarget ==
  ASSUME OpsInv, NEW t \in Thread, NEW b, b = call[t], InPlace(b), NEW a, a = b.address
  PROVE  /\ a \in 1 .. Len(log) /\ a \in Nat \ {0} /\ log[a].key = b.req.key
         /\ Reach(log, a, entry) /\ safe_ro <= a /\ IsReq(t, b.req) /\ b.pc \in Looked
  <1>1. LookInv(b) /\ CallInv(t, b, ctx[t])
    BY DEF OpsInv, LocalInv
  <1>2. IsReq(t, b.req) /\ b.pc \in Looked
    BY <1>1 DEF CallInv, InCall, Looked, InPlace
  <1>3. IsLog(log) /\ Len(log) \in Nat /\ entry \in 0 .. Len(log) /\ safe_ro \in Nat
    BY DEF OpsInv, ChainInv, IsLog, SnapshotInv, RegionsInv
  <1>4. PICK k, f, h : k = b.req.key /\ f = b.expected /\ h = b.head
    OBVIOUS
  <1>5. f \in 0 .. Len(log) /\ Reach(log, f, entry) /\ h \in Nat \ {0} /\ a = Match(log, k, f, h)
    BY <1>1, <1>4 DEF LookInv, Done, Looked, InPlace
  <1>b. PICK r \in Nat : r = b.ro /\ h <= r /\ a >= r
    <2>1. h <= b.safe /\ b.safe <= b.ro /\ b.safe \in Nat /\ b.ro \in Nat /\ a >= b.ro
      BY <1>1, <1>4 DEF LookInv, Done, InPlace
    <2>2. QED
      BY <1>5, <2>1
  <1>6. a \in 0 .. Len(log) /\ a \in Nat /\ (a >= h => log[a].key = k /\ a >= 1)
    <2>1. PICK m : m = Match(log, k, f, h)
      OBVIOUS
    <2>2. m \in 0 .. f /\ m \in Nat /\ (m < h \/ m = 0 \/ log[m].key = k)
      BY <1>3, <1>5, <2>1, MatchRange
    <2>3. QED
      BY <1>3, <1>5, <2>1, <2>2
  <1>7. a >= h
    BY <1>5, <1>6, <1>b
  <1>8. Reach(log, a, f)
    BY <1>3, <1>5, MatchReached
  <1>9. Reach(log, a, entry)
    <2>1. f \in Nat
      BY <1>3, <1>5
    <2>2. QED
      BY <1>3, <1>5, <1>6, <1>8, <2>1, ReachTrans
  <1>10. safe_ro <= a
    <2>1. Mutable(t, b.ro)
      BY DEF OpsInv, SnapshotInv, Snapshot, InPlace
    <2>2. QED
      BY <1>3, <1>6, <1>b, <2>1 DEF Mutable
  <1>11. QED
    BY <1>2, <1>3, <1>4, <1>6, <1>7, <1>9, <1>10

LEMMA OverwrittenIs ==
  ASSUME OpsInv, NEW a \in Nat \ {0}, a \in 1 .. Len(log), safe_ro <= a, Reach(log, a, entry),
         NEW k, k = log[a].key
  PROVE  Overwritten(a) <=> Match(log, k, entry, 1) # a
  <1>1. IsLog(log) /\ Len(log) \in Nat /\ entry \in 0 .. Len(log) /\ safe_ro \in Nat /\ RmwInv
    BY DEF OpsInv, ChainInv, IsLog, SnapshotInv, RegionsInv
  <1>2. PICK m : m = Match(log, k, entry, 1)
    OBVIOUS
  <1>3. Linked(a)
    BY LinkedIsReached
  <1>4. ASSUME Overwritten(a), m = a PROVE FALSE
    <2>1. PICK b \in a + 1 .. Len(log) : Linked(b) /\ log[b].key = k
      BY <1>3, <1>4 DEF Overwritten
    <2>2. Reach(log, b, entry) /\ b \in Nat \ {0}
      BY <2>1, LinkedIsReached
    <2>3. b <= m
      BY <1>1, <1>2, <2>1, <2>2, MatchAbove
    <2>4. QED
      BY <1>4, <2>1, <2>3
  <1>5. ASSUME m # a PROVE Overwritten(a)
    <2>1. PICK b \in a + 1 .. Len(log) :
            Reach(log, b, entry) /\ log[b].key = k /\ Match(log, k, log[b].prev, 1) = a
      BY <1>1, <1>2, <1>5, MatchNext
    <2>2. b \in 1 .. Len(log) /\ Linked(b)
      BY <1>1, <2>1, LinkedIsReached
    <2>3. log[b].by # "rmw"
      BY <1>1, <2>1, <2>2 DEF RmwInv
    <2>4. TraceBackForKeyMatch(log[a].key, log[b].prev, begin_address) = a
      BY <2>1, TraceIsMatch DEF begin_address
    <2>5. QED
      BY <2>1, <2>2, <2>3, <2>4 DEF Overwritten
  <1>6. QED
    BY <1>2, <1>4, <1>5

\* Another value for the record at a.
Updated(a, k, value) ==
  /\ Extends(log, log') /\ Records(log') /\ Len(log') = Len(log)
  /\ log'[a].value = value /\ log'[a].by = log[a].by /\ log[a].key = k
  /\ a \in 1 .. Len(log)
  /\ \A b \in 1 .. Len(log) : b # a => log'[b] = log[b]

LEMMA UpdatedValue ==
  ASSUME IsLog(log), NEW a, NEW k, NEW value, Updated(a, k, value), NEW i,
         NEW from \in 0 .. Len(log)
  PROVE  /\ Match(log, i, from, 1) # a => Val(log', i, from) = Val(log, i, from)
         /\ Match(log, i, from, 1) = a => i = k /\ Val(log', i, from) = value
  <1>1. PICK m : m = Match(log, i, from, 1)
    OBVIOUS
  <1>2. Len(log) \in Nat
    BY DEF IsLog
  <1>3. m \in 0 .. from /\ m \in Nat /\ (m < 1 \/ m = 0 \/ log[m].key = i)
    BY <1>1, MatchRange
  <1>4. Match(log', i, from, 1) = m
    BY <1>1, MatchSame DEF Updated
  <1>5. m # a => m = 0 \/ log'[m] = log[m]
    BY <1>2, <1>3 DEF Updated
  <1>6. m = a => m # 0 /\ i = k
    BY <1>3 DEF Updated
  <1>7. QED
    BY <1>1, <1>4, <1>5, <1>6 DEF Val, Updated

\* The call of another thread that is about to swap in its new record.
LEMMA UpdatedSwap ==
  ASSUME OpsInv, NEW a, NEW k, NEW value, Updated(a, k, value), Reach(log, a, entry),
         safe_ro <= a, a \in Nat, UNCHANGED <<plan, entry, safe_ro>>,
         NEW u \in Thread, NEW d, d = call[u], d.pc = "swap"
  PROVE  SwapInv(d)'
  <1>1. SwapInv(d) /\ LookInv(d) /\ CallInv(u, d, ctx[u])
    BY DEF OpsInv, SwapsInv, LocalInv
  <1>2. PICK n, e, i : n = d.new_address /\ e = d.expected /\ i = d.req.key
    OBVIOUS
  <1>3. /\ n \in 1 .. Len(log) /\ ~Reach(log, n, entry)
        /\ log[n].key = i /\ log[n].prev = e
        /\ d.req.op = "rmw" => Match(log, i, e, 1) < safe_ro
        /\ log[n].value = New(d, Val(log, i, e))
    BY <1>1, <1>2 DEF SwapInv
  <1>4. IsReq(u, d.req) /\ d.req.op # "read" /\ e \in 0 .. Len(log)
    BY <1>1, <1>2 DEF CallInv, InCall, LookInv, Done, Looked
  <1>5. d.req.op \in {"upsert", "rmw"}
    BY <1>4 DEF IsReq
  <1>6. /\ IsLog(log) /\ Len(log) \in Nat /\ entry \in 0 .. Len(log) /\ safe_ro \in Nat
    BY DEF OpsInv, ChainInv, IsLog, SnapshotInv, RegionsInv
  <1>7. n # a
    BY <1>3
  <1>8. log'[n] = log[n] /\ Extends(log, log') /\ Len(log') = Len(log) /\ n \in Nat
    BY <1>3, <1>6, <1>7 DEF Updated
  <1>9. ~Reach(log', n, entry)
    BY <1>3, <1>6, <1>8, ReachSame
  <1>10. Match(log', i, e, 1) = Match(log, i, e, 1) /\ Match(log, i, e, 1) \in Nat
    BY <1>4, <1>6, <1>8, MatchSame, MatchRange
  <1>11. New(d, Val(log', i, e)) = New(d, Val(log, i, e))
    <2>1. CASE d.req.op = "upsert"
      BY <2>1 DEF New
    <2>2. CASE d.req.op = "rmw"
      <3>1. Match(log, i, e, 1) # a
        BY <1>3, <1>6, <1>10, <2>2
      <3>2. Val(log', i, e) = Val(log, i, e)
        BY <1>4, <1>6, <3>1, UpdatedValue
      <3>3. QED
        BY <3>2
    <2>3. QED
      BY <1>5, <2>1, <2>2
  <1>12. QED
    BY <1>2, <1>3, <1>8, <1>9, <1>10, <1>11 DEF SwapInv

\* PutAtomic and RmwAtomic.
LEMMA OpsUpdateInPlace ==
  ASSUME OpsInv, SnapshotInv', NEW t \in Thread, UpdateInPlace(t)
  PROVE  OpsInv'
  <1>0. PICK b, k, a, old, value, w, v, st :
          /\ b = call[t] /\ InPlace(b) /\ k = b.req.key /\ a = b.address
          /\ old = log[a].value /\ value = New(b, old) /\ v = log[a].version /\ st = Success(t)
          /\ w = IF Overwritten(a) THEN truth[k] ELSE New(b, truth[k])
    BY DEF UpdateInPlace, At, InPlace
  <1>1. /\ a \in 1 .. Len(log) /\ a \in Nat \ {0} /\ log[a].key = k
        /\ Reach(log, a, entry) /\ safe_ro <= a /\ IsReq(t, b.req) /\ b.pc \in Looked
    BY <1>0, InPlaceTarget
  <1>2. k \in Keys
    BY <1>0, <1>1, ReqKey
  <1>3. /\ IsLog(log) /\ Records(log) /\ Len(log) \in Nat /\ entry \in 0 .. Len(log)
        /\ head \in Nat \ {0} /\ head <= safe_ro /\ safe_ro \in Nat /\ HistoryInv /\ RmwInv
        /\ DOMAIN truth = Keys /\ \A i \in Keys : Val(log, i, entry) = truth[i]
    BY DEF OpsInv, ChainInv, IsLog, SnapshotInv, RegionsInv
  <1>4. /\ log' = [log EXCEPT ![a].value = value]
        /\ Effect(b, v, w, value) /\ Exit(t, b, st)
        /\ UNCHANGED <<plan, entry, head, safe_ro, sys, prev, env, ctx>>
    BY <1>0 DEF UpdateInPlace, regions, system
  <1>5. Updated(a, k, value) /\ Extends(log, log')
    <2>1. PICK r : r = [log[a] EXCEPT !.value = value]
      OBVIOUS
    <2>2. DOMAIN log[a] = RecFields
      BY <1>1, <1>3 DEF Records
    <2>3. /\ DOMAIN r = RecFields /\ r.key = log[a].key /\ r.prev = log[a].prev
          /\ r.value = value /\ r.by = log[a].by
      BY <2>1, <2>2 DEF RecFields
    <2>4. log' = [log EXCEPT ![a] = r]
      BY <1>4, <2>1
    <2>5. Replaced(log, a, r, log')
      BY <1>1, <1>3, <2>3, <2>4 DEF Replaced
    <2>6. /\ Extends(log, log') /\ Records(log') /\ Len(log') = Len(log) /\ log'[a] = r
          /\ \A j \in 1 .. Len(log) : j # a => log'[j] = log[j]
      BY <2>5, ChangedRecord
    <2>7. QED
      BY <1>1, <2>3, <2>6 DEF Updated
  <1>6. Effected(t, b, v, w, value)
    BY <1>1, <1>3, <1>4, EffectFacts
  <1>7. /\ DOMAIN truth' = Keys /\ truth'[k] = w
        /\ \A i \in Keys : i # k => truth'[i] = truth[i]
    BY <1>0, <1>6 DEF Effected
  <1>8. ASSUME NEW i, NEW from \in 0 .. Len(log)
        PROVE  /\ Match(log, i, from, 1) # a => Val(log', i, from) = Val(log, i, from)
               /\ Match(log, i, from, 1) = a => i = k /\ Val(log', i, from) = value
    BY <1>3, <1>5, UpdatedValue
  <1>9. /\ Match(log, k, entry, 1) = a => w = value
        /\ Match(log, k, entry, 1) # a => w = truth[k]
    <2>1. Overwritten(a) <=> Match(log, k, entry, 1) # a
      BY <1>1, OverwrittenIs
    <2>2. CASE Match(log, k, entry, 1) = a
      <3>1. Val(log, k, entry) = old
        BY <1>0, <1>1, <2>2 DEF Val
      <3>2. QED
        BY <1>0, <1>2, <1>3, <2>1, <2>2, <3>1
    <2>3. CASE Match(log, k, entry, 1) # a
      BY <1>0, <2>1, <2>3
    <2>4. QED
      BY <2>2, <2>3
  <1>10. ASSUME NEW i \in Keys PROVE Val(log', i, entry) = truth'[i]
    <2>1. CASE i = k
      <3>1. CASE Match(log, k, entry, 1) = a
        BY <1>3, <1>7, <1>8, <1>9, <2>1, <3>1
      <3>2. CASE Match(log, k, entry, 1) # a
        BY <1>2, <1>3, <1>7, <1>8, <1>9, <2>1, <3>2
      <3>3. QED
        BY <3>1, <3>2
    <2>2. CASE i # k
      BY <1>3, <1>7, <1>8, <2>2
    <2>3. QED
      BY <2>1, <2>2
  <1>11. RmwInv'
    <2>1. SUFFICES ASSUME NEW j \in 1 .. Len(log), log'[j].by = "rmw"
                   PROVE  Match(log', log'[j].key, log'[j].prev, 1) < safe_ro
      BY <1>4, <1>5 DEF RmwInv, Updated
    <2>2. PICK i, f : i = log[j].key /\ f = log[j].prev
      OBVIOUS
    <2>3. log'[j].key = i /\ log'[j].prev = f
      BY <1>5, <2>2 DEF Extends
    <2>4. log[j].by = "rmw"
      BY <1>5, <2>1 DEF Updated
    <2>5. Match(log, i, f, 1) < safe_ro
      BY <1>3, <2>2, <2>4 DEF RmwInv
    <2>6. f \in 0 .. Len(log)
      BY <1>3, <2>2 DEF IsLog
    <2>7. Match(log', i, f, 1) = Match(log, i, f, 1)
      BY <1>5, <2>6, MatchSame
    <2>8. QED
      BY <2>3, <2>5, <2>7
  <1>12. Keys' = Keys
    BY <1>4 DEF Keys
  <1>13. IsLog(log') /\ Records(log') /\ Len(log') = Len(log)
    BY <1>5 DEF Updated, Extends
  <1>14. ChainInv'
    BY <1>3, <1>4, <1>7, <1>10, <1>11, <1>12, <1>13 DEF ChainInv
  <1>15. Onward
    <2>1. entry \in 0 .. Len(log')
      BY <1>3, <1>13
    <2>2. Reach(log', entry, entry)
      <3>1. PICK e : e = entry
        OBVIOUS
      <3>2. e \in 0 .. Len(log') /\ e \in Nat
        BY <1>3, <2>1, <3>1
      <3>3. Reach(log', e, e)
        BY <1>13, <3>2, ReachStep
      <3>4. QED
        BY <3>1, <3>3
    <2>3. \A i : \A from \in 0 .. Len(log) :
            \/ Val(log', i, from) = Val(log, i, from)
            \/ i = b.req.key /\ Val(log', i, from) = value
      BY <1>0, <1>8
    <2>4. w = value \/ w = truth[b.req.key]
      BY <1>0, <1>9
    <2>5. \A u \in Thread : \A m \in DOMAIN plan.ops[u] : SeenMoves(<<u, m>>, plan.ops[u][m].key)
      BY <1>6, <2>3, <2>4, EffectSeen
    <2>6. head \in Nat /\ head' \in Nat /\ head <= head'
          /\ safe_ro' \in Nat /\ safe_ro <= safe_ro'
      BY <1>3, <1>4
    <2>7. QED
      BY <1>3, <1>4, <1>5, <2>1, <2>2, <2>5, <2>6 DEF Onward
  <1>16. ASSUME NEW u \in Thread, u # t PROVE SwapInv(call[u])'
    <2>1. PICK d : d = call[u] /\ d = call'[u]
      <3>1. DOMAIN call = Thread
        BY DEF OpsInv, SnapshotInv
      <3>2. QED
        BY <1>4, <1>16, <3>1 DEF Exit, Set
    <2>2. SUFFICES ASSUME d.pc = "swap" PROVE SwapInv(d)'
      BY <2>1 DEF SwapInv
    <2>3. UNCHANGED <<plan, entry, safe_ro>> /\ a \in Nat
      BY <1>1, <1>4
    <2>4. QED
      BY <1>1, <1>5, <2>1, <2>2, <2>3, UpdatedSwap
  <1>17. st \in {"SUCCESS", "SUCCESS_UNMARK"}
    BY <1>0 DEF Success
  <1>18. UNCHANGED <<plan, sys, prev, env, ctx>>
    BY <1>4
  <1>19. QED
    BY <1>0, <1>1, <1>4, <1>14, <1>15, <1>16, <1>17, <1>18, EffectStep

-----------------------------------------------------------------------------
(***************************************************************************)
(* Steps of the calls and of CompletePending.                              *)
(***************************************************************************)
LEMMA OpsTyped ==
  ASSUME OpsInv, NEW t \in Thread
  PROVE  /\ Len(plan.ops[t]) \in Nat /\ DOMAIN plan.ops[t] = 1 .. Len(plan.ops[t])
         /\ plan.ops[t] \in Seq(Range(plan.ops[t]))
         /\ \A o \in Range(plan.ops[t]) : o.op \in {"read", "upsert", "rmw", "delete"}
  <1>1. plan \in Plans
    BY DEF OpsInv, PlainInv
  <1>2. /\ plan.ops[t] \in Seq(Range(plan.ops[t]))
        /\ \A o \in Range(plan.ops[t]) : o.op \in {"read", "upsert", "rmw", "delete"}
    BY <1>1, PlansAssumption
  <1>3. PICK s, S : s = plan.ops[t] /\ s \in Seq(S)
    BY <1>2
  <1>4. Len(s) \in Nat /\ DOMAIN s = 1 .. Len(s)
    BY <1>3
  <1>5. QED
    BY <1>2, <1>3, <1>4

\* y is x after the call b has returned, but for the requests that are pending.
Serials(b, x, y) ==
  /\ DOMAIN y = CtxFields /\ y.phase = "REST" /\ y.io_responses = x.io_responses
  /\ y.serial_num = IF b.stage = "none" THEN b.req.id[2] ELSE x.serial_num

LEMMA ReturnSerial ==
  ASSUME OpsInv, NEW t \in Thread, NEW b, NEW x, LocalInv(t, b, x), InCall(b), NEW y, Serials(b, x, y)
  PROVE  /\ y.serial_num \in 0 .. Len(plan.ops[t]) /\ b.req.id[2] <= y.serial_num
         /\ \A r : Held(t, x, r) => Held(t, y, r)
         /\ \A m \in DOMAIN plan.ops[t] :
              m <= y.serial_num <=> m <= x.serial_num \/ b.req.id = <<t, m>>
  <1>1. PICK n, s, i : /\ n = Len(plan.ops[t]) /\ n \in Nat /\ DOMAIN plan.ops[t] = 1 .. n
                       /\ s = x.serial_num /\ s \in 0 .. n
                       /\ i \in 1 .. n /\ b.req.id = <<t, i>>
                       /\ b.stage = "none" => i = s + 1
                       /\ b.stage # "none" => i <= s
    <2>1. CtxInv(t, x) /\ CallInv(t, b, x)
      BY DEF LocalInv
    <2>2. /\ IsReq(t, b.req) /\ x.serial_num \in 0 .. Len(plan.ops[t])
          /\ b.stage = "none" => b.req.id[2] = x.serial_num + 1
          /\ b.stage # "none" => b.req.id[2] <= x.serial_num
      BY <2>1 DEF CtxInv, CallInv
    <2>3. PICK i \in DOMAIN plan.ops[t] : b.req.id = <<t, i>>
      BY <2>2 DEF IsReq
    <2>4. b.req.id[2] = i
      BY <2>3
    <2>5. QED
      BY <2>2, <2>3, <2>4, OpsTyped
  <1>2. y.serial_num = IF b.stage = "none" THEN i ELSE s
    BY <1>1 DEF Serials
  <1>3. PICK p \in 0 .. n : p = y.serial_num /\ i <= p /\ s <= p /\ (p = s \/ (p = i /\ p = s + 1))
                            /\ (p = s => i <= s)
    BY <1>1, <1>2
  <1>4. ASSUME NEW r, Held(t, x, r) PROVE Held(t, y, r)
    <2>1. ReqInv(t, r) /\ r.phase = "REST" /\ r.id[2] <= s
      BY <1>1, <1>4 DEF Held
    <2>2. PICK m \in 1 .. n : r.id = <<t, m>>
      BY <1>1, <2>1 DEF ReqInv, IsReq
    <2>3. r.id[2] = m
      BY <2>2
    <2>4. r.id[2] <= p
      BY <1>1, <1>3, <2>1, <2>3
    <2>5. QED
      BY <1>3, <2>1, <2>4 DEF Held
  <1>5. ASSUME NEW m \in DOMAIN plan.ops[t]
        PROVE  m <= y.serial_num <=> m <= x.serial_num \/ b.req.id = <<t, m>>
    <2>1. m \in 1 .. n
      BY <1>1
    <2>2. b.req.id = <<t, m>> <=> i = m
      BY <1>1
    <2>3. m <= p <=> m <= s \/ i = m
      BY <1>1, <1>3, <2>1
    <2>4. QED
      BY <1>1, <1>3, <2>2, <2>3
  <1>6. b.req.id[2] <= y.serial_num
    BY <1>1, <1>3
  <1>7. y.serial_num \in 0 .. Len(plan.ops[t])
    BY <1>1, <1>3
  <1>8. QED
    BY <1>4, <1>5, <1>6, <1>7

\* The requests that are pending when the call b has returned.
Returns(t, b, x, y) ==
  /\ Serials(b, x, y)
  /\ IsSeq(y.retry_requests) /\ Len(x.retry_requests) <= Len(y.retry_requests)
  /\ \A r \in y.pending_ios : Held(t, y, r) /\ IoInv(r)
  /\ \A j \in 1 .. Len(y.retry_requests) : Held(t, y, y.retry_requests[j])
  /\ Distinct(y)
  /\ PendIds(y) = IF Finished(b) THEN PendIds(x) ELSE PendIds(x) \cup {b.req.id}

LEMMA ReturnLocal ==
  ASSUME OpsInv, NEW t \in Thread, NEW b, NEW x, LocalInv(t, b, x), InCall(b),
         NEW y, Returns(t, b, x, y), NEW c, c = Returned(b)
  PROVE  LocalInv(t, c, y) /\ c.pc \in {"idle", "completing"}
  <1>0. /\ Serials(b, x, y)
        /\ IsSeq(y.retry_requests) /\ Len(x.retry_requests) <= Len(y.retry_requests)
        /\ \A r \in y.pending_ios : Held(t, y, r) /\ IoInv(r)
        /\ \A j \in 1 .. Len(y.retry_requests) : Held(t, y, y.retry_requests[j])
        /\ Distinct(y)
        /\ PendIds(y) = IF Finished(b) THEN PendIds(x) ELSE PendIds(x) \cup {b.req.id}
    BY DEF Returns
  <1>1. CtxInv(t, x) /\ CallInv(t, b, x) /\ AppliedInv(t, b, x)
    BY DEF LocalInv
  <1>2. /\ y.serial_num \in 0 .. Len(plan.ops[t])
        /\ \A r : Held(t, x, r) => Held(t, y, r)
        /\ \A m \in DOMAIN plan.ops[t] :
             m <= y.serial_num <=> m <= x.serial_num \/ b.req.id = <<t, m>>
    BY <1>0, ReturnSerial
  <1>3. DOMAIN y = CtxFields /\ y.phase = "REST" /\ y.io_responses = x.io_responses
    BY <1>0 DEF Serials
  <1>4. CtxInv(t, y)
    <2>1. IsSeq(x.io_responses) /\ \A j \in 1 .. Len(x.io_responses) :
            Held(t, x, x.io_responses[j]) /\ ResponseInv(x.io_responses[j])
      BY <1>1 DEF CtxInv
    <2>2. QED
      BY <1>0, <1>2, <1>3, <2>1 DEF CtxInv
  <1>5. IsCall(IdleCall) /\ IdleCall.pc = "idle" /\ IdleCall.stage = "none" /\ IdleCall.todo = 0
        /\ IdleCall.target = "cur" /\ IdleCall.disk = FALSE /\ IdleCall.retrying = FALSE
    BY DEF IdleCall, IsCall, CallFields
  <1>6. /\ b.target = "cur" /\ b.stage \in {"none", "io", "refresh", "retry"}
        /\ b.todo \in Nat /\ (b.stage = "retry" => b.todo <= Len(x.retry_requests))
    BY <1>1 DEF CallInv
  <1>7. /\ IsCall(c) /\ c.target = "cur" /\ c.disk = FALSE /\ c.retrying = FALSE
        /\ c.pc = IF b.stage = "none" THEN "idle" ELSE "completing"
        /\ c.stage = b.stage /\ c.todo = IF b.stage = "none" THEN 0 ELSE b.todo
    <2>1. CASE b.stage = "none"
      BY <1>5, <2>1 DEF Returned
    <2>2. CASE b.stage # "none"
      <3>1. c = [IdleCall EXCEPT !.pc = "completing", !.stage = b.stage, !.todo = b.todo,
                                 !.target = b.target]
        BY <2>2 DEF Returned
      <3>2. QED
        BY <1>5, <1>6, <2>2, <3>1 DEF IsCall, CallFields
    <2>3. QED
      BY <2>1, <2>2
  <1>8. ~InCall(c) /\ c.pc \in {"idle", "completing"}
    BY <1>7 DEF InCall
  <1>9. CallInv(t, c, y)
    <2>1. c.stage = "retry" => c.todo <= Len(y.retry_requests)
      <3>1. Len(x.retry_requests) \in Nat /\ Len(y.retry_requests) \in Nat
        BY <1>0, <1>1 DEF CtxInv, IsSeq
      <3>2. QED
        BY <1>0, <1>6, <1>7, <3>1
    <2>2. c.todo \in Nat /\ c.stage \in {"none", "io", "refresh", "retry"}
          /\ (c.pc = "idle" => c.stage = "none")
      BY <1>6, <1>7
    <2>3. QED
      BY <1>7, <1>8, <2>1, <2>2 DEF CallInv
  <1>10. LookInv(c)
    BY <1>8 DEF LookInv, Done, Looked
  <1>11. AppliedInv(t, c, y)
    <2>1. SUFFICES ASSUME NEW m \in DOMAIN plan.ops[t]
                   PROVE  /\ Begun(c, y, <<t, m>>) <=> Begun(b, x, <<t, m>>)
                          /\ Waiting(c, y, <<t, m>>) <=> Waiting(b, x, <<t, m>>)
      BY <1>1 DEF AppliedInv
    <2>2. Begun(c, y, <<t, m>>) <=> Begun(b, x, <<t, m>>)
      BY <1>2, <1>8 DEF Begun
    <2>3. Waiting(c, y, <<t, m>>) <=> Waiting(b, x, <<t, m>>)
      BY <1>0, <1>8, <2>2 DEF Waiting
    <2>4. QED
      BY <2>2, <2>3
  <1>12. QED
    BY <1>0, <1>4, <1>8, <1>9, <1>10, <1>11 DEF LocalInv

LEMMA ReturnsDone ==
  ASSUME OpsInv, NEW t \in Thread, NEW b, NEW x, LocalInv(t, b, x), Finished(b), InCall(b),
         NEW y, y = Serial(b, x)
  PROVE  Returns(t, b, x, y)
  <1>1. CtxInv(t, x) /\ Distinct(x)
    BY DEF LocalInv
  <1>2. /\ DOMAIN x = CtxFields /\ x.phase = "REST" /\ IsSeq(x.retry_requests)
        /\ \A r \in x.pending_ios : Held(t, x, r) /\ IoInv(r)
        /\ \A j \in 1 .. Len(x.retry_requests) : Held(t, x, x.retry_requests[j])
    BY <1>1 DEF CtxInv
  <1>3. y = IF b.stage = "none" THEN [x EXCEPT !.serial_num = b.req.id[2]] ELSE x
    BY DEF Serial
  <1>4. /\ DOMAIN y = CtxFields /\ y.phase = x.phase /\ y.io_responses = x.io_responses
        /\ y.serial_num = IF b.stage = "none" THEN b.req.id[2] ELSE x.serial_num
        /\ y.retry_requests = x.retry_requests /\ y.pending_ios = x.pending_ios
    BY <1>2, <1>3 DEF CtxFields
  <1>5. Serials(b, x, y)
    BY <1>2, <1>4 DEF Serials
  <1>6. \A r : Held(t, x, r) => Held(t, y, r)
    BY <1>5, ReturnSerial
  <1>7. PendIds(y) = PendIds(x) /\ Distinct(y)
    BY <1>1, <1>4 DEF PendIds, Distinct
  <1>8. Len(x.retry_requests) <= Len(y.retry_requests)
    <2>1. PICK s, S : s = x.retry_requests /\ s \in Seq(S)
      BY <1>2 DEF IsSeq
    <2>2. Len(s) <= Len(s)
      BY <2>1
    <2>3. QED
      BY <1>4, <2>1, <2>2
  <1>9. QED
    BY <1>2, <1>4, <1>5, <1>6, <1>7, <1>8 DEF Returns

\* The request of b goes to the disk, or to the requests to retry.
LEMMA ReturnsIo ==
  ASSUME OpsInv, NEW t \in Thread, NEW b, NEW x, LocalInv(t, b, x), InCall(b), ~Finished(b),
         b.req.phase = "REST", IoInv(b.req),
         NEW z, z = [x EXCEPT !.pending_ios = @ \cup {b.req}], NEW y, y = Serial(b, z)
  PROVE  Returns(t, b, x, y)
  <1>1. CtxInv(t, x) /\ Distinct(x) /\ CallInv(t, b, x)
    BY DEF LocalInv
  <1>2. /\ DOMAIN x = CtxFields /\ x.phase = "REST" /\ IsSeq(x.retry_requests)
        /\ \A r \in x.pending_ios : Held(t, x, r) /\ IoInv(r)
        /\ \A j \in 1 .. Len(x.retry_requests) : Held(t, x, x.retry_requests[j])
    BY <1>1 DEF CtxInv
  <1>3. ReqInv(t, b.req) /\ b.req.id \notin PendIds(x)
    BY <1>1 DEF CallInv
  <1>4. /\ DOMAIN z = CtxFields /\ z.phase = x.phase /\ z.io_responses = x.io_responses
        /\ z.serial_num = x.serial_num /\ z.retry_requests = x.retry_requests
        /\ z.pending_ios = x.pending_ios \cup {b.req}
    BY <1>2 DEF CtxFields
  <1>5. y = IF b.stage = "none" THEN [z EXCEPT !.serial_num = b.req.id[2]] ELSE z
    BY DEF Serial
  <1>6. /\ DOMAIN y = CtxFields /\ y.phase = x.phase /\ y.io_responses = x.io_responses
        /\ y.serial_num = IF b.stage = "none" THEN b.req.id[2] ELSE x.serial_num
        /\ y.retry_requests = x.retry_requests /\ y.pending_ios = x.pending_ios \cup {b.req}
    BY <1>4, <1>5 DEF CtxFields
  <1>7. Serials(b, x, y)
    BY <1>2, <1>6 DEF Serials
  <1>8. b.req.id[2] <= y.serial_num /\ \A r : Held(t, x, r) => Held(t, y, r)
    BY <1>7, ReturnSerial
  <1>9. Held(t, y, b.req)
    BY <1>3, <1>8 DEF Held
  <1>10. \A r \in y.pending_ios : Held(t, y, r) /\ IoInv(r)
    BY <1>2, <1>6, <1>8, <1>9
  <1>11. PendIds(y) = PendIds(x) \cup {b.req.id}
    <2>1. {r.id : r \in y.pending_ios} = {r.id : r \in x.pending_ios} \cup {b.req.id}
      BY <1>6
    <2>2. {y.retry_requests[j].id : j \in 1 .. Len(y.retry_requests)}
            = {x.retry_requests[j].id : j \in 1 .. Len(x.retry_requests)}
      BY <1>6
    <2>3. QED
      BY <2>1, <2>2 DEF PendIds
  <1>12. Distinct(y)
    <2>1. \A j \in 1 .. Len(x.retry_requests) : b.req.id # x.retry_requests[j].id
      BY <1>3 DEF PendIds
    <2>2. PICK s, q : s = x.retry_requests /\ q = x.io_responses
      OBVIOUS
    <2>3. /\ \A i, j \in 1 .. Len(s) : s[i].id = s[j].id => i = j
          /\ \A r \in x.pending_ios, j \in 1 .. Len(s) : r.id # s[j].id
          /\ \A i, j \in 1 .. Len(q) : q[i].id = q[j].id => i = j
          /\ \A i \in 1 .. Len(q) : \E r \in x.pending_ios : r.id = q[i].id
      BY <1>1, <2>2 DEF Distinct, DistinctIds
    <2>4. y.retry_requests = s /\ y.io_responses = q
      BY <1>6, <2>2
    <2>5. ASSUME NEW r \in y.pending_ios, NEW j \in 1 .. Len(s) PROVE r.id # s[j].id
      <3>1. r \in x.pending_ios \/ r = b.req
        BY <1>6
      <3>2. b.req.id # s[j].id
        BY <2>1, <2>2
      <3>3. QED
        BY <2>3, <3>1, <3>2
    <2>6. \A i \in 1 .. Len(q) : \E r \in y.pending_ios : r.id = q[i].id
      BY <1>6, <2>3
    <2>7. PICK P : P = y.pending_ios
      OBVIOUS
    <2>8. DistinctIds(s, P, q)
      BY <2>3, <2>5, <2>6, <2>7 DEF DistinctIds
    <2>9. QED
      BY <2>4, <2>7, <2>8 DEF Distinct
  <1>13. Len(x.retry_requests) <= Len(y.retry_requests)
    <2>1. PICK s, S : s = x.retry_requests /\ s \in Seq(S)
      BY <1>2 DEF IsSeq
    <2>2. Len(s) <= Len(s)
      BY <2>1
    <2>3. QED
      BY <1>6, <2>1, <2>2
  <1>14. QED
    BY <1>2, <1>6, <1>7, <1>8, <1>10, <1>11, <1>12, <1>13 DEF Returns

LEMMA ReturnsRetry ==
  ASSUME OpsInv, NEW t \in Thread, NEW b, NEW x, LocalInv(t, b, x), InCall(b), ~Finished(b),
         b.req.phase = "REST",
         NEW z, z = [x EXCEPT !.retry_requests = Append(@, b.req)], NEW y, y = Serial(b, z)
  PROVE  Returns(t, b, x, y)
  <1>1. CtxInv(t, x) /\ Distinct(x) /\ CallInv(t, b, x)
    BY DEF LocalInv
  <1>2. /\ DOMAIN x = CtxFields /\ x.phase = "REST" /\ IsSeq(x.retry_requests)
        /\ \A r \in x.pending_ios : Held(t, x, r) /\ IoInv(r)
        /\ \A j \in 1 .. Len(x.retry_requests) : Held(t, x, x.retry_requests[j])
    BY <1>1 DEF CtxInv
  <1>3. ReqInv(t, b.req) /\ b.req.id \notin PendIds(x)
    BY <1>1 DEF CallInv
  <1>4. /\ DOMAIN z = CtxFields /\ z.phase = x.phase /\ z.io_responses = x.io_responses
        /\ z.serial_num = x.serial_num /\ z.pending_ios = x.pending_ios
        /\ z.retry_requests = Append(x.retry_requests, b.req)
    BY <1>2 DEF CtxFields
  <1>5. y = IF b.stage = "none" THEN [z EXCEPT !.serial_num = b.req.id[2]] ELSE z
    BY DEF Serial
  <1>6. /\ DOMAIN y = CtxFields /\ y.phase = x.phase /\ y.io_responses = x.io_responses
        /\ y.serial_num = IF b.stage = "none" THEN b.req.id[2] ELSE x.serial_num
        /\ y.pending_ios = x.pending_ios
        /\ y.retry_requests = Append(x.retry_requests, b.req)
    BY <1>4, <1>5 DEF CtxFields
  <1>7. Serials(b, x, y)
    BY <1>2, <1>6 DEF Serials
  <1>8. b.req.id[2] <= y.serial_num /\ \A r : Held(t, x, r) => Held(t, y, r)
    BY <1>7, ReturnSerial
  <1>9. Held(t, y, b.req)
    BY <1>3, <1>8 DEF Held
  <1>a. PICK s, q, n : s = x.retry_requests /\ q = y.retry_requests /\ n = Len(s)
    OBVIOUS
  <1>10. /\ n \in Nat /\ s = x.retry_requests /\ q = y.retry_requests /\ n = Len(s)
         /\ IsSeq(q) /\ Len(q) = n + 1 /\ q[n + 1] = b.req
         /\ \A j \in 1 .. n : q[j] = s[j]
    <2>1. PICK S, r : s \in Seq(S) /\ r = b.req
      BY <1>2, <1>a DEF IsSeq
    <2>2. q = Append(s, r)
      BY <1>6, <1>a, <2>1
    <2>3. q \in Seq(S \cup {r}) /\ Len(q) = Len(s) + 1 /\ q[Len(s) + 1] = r /\ Len(s) \in Nat
          /\ \A j \in 1 .. Len(s) : q[j] = s[j]
      BY <2>1, <2>2
    <2>4. IsSeq(q)
      BY <2>3 DEF IsSeq
    <2>5. QED
      BY <1>a, <2>1, <2>3, <2>4
  <1>11. \A j \in 1 .. n + 1 : j \in 1 .. n \/ j = n + 1
    BY <1>10
  <1>12. \A j \in 1 .. n + 1 : Held(t, y, q[j])
    BY <1>2, <1>8, <1>9, <1>10, <1>11
  <1>13. PendIds(y) = PendIds(x) \cup {b.req.id}
    <2>1. {q[j].id : j \in 1 .. n + 1} = {s[j].id : j \in 1 .. n} \cup {b.req.id}
      <3>1. \A j \in 1 .. n : j \in 1 .. n + 1
        BY <1>10
      <3>2. n + 1 \in 1 .. n + 1
        BY <1>10
      <3>3. ASSUME NEW j \in 1 .. n + 1 PROVE q[j].id \in {s[l].id : l \in 1 .. n} \cup {b.req.id}
        BY <1>10, <1>11
      <3>4. ASSUME NEW l \in 1 .. n PROVE s[l].id \in {q[j].id : j \in 1 .. n + 1}
        <4>1. q[l].id \in {q[j].id : j \in 1 .. n + 1}
          BY <3>1
        <4>2. QED
          BY <1>10, <4>1
      <3>5. b.req.id \in {q[j].id : j \in 1 .. n + 1}
        <4>1. q[n + 1].id \in {q[j].id : j \in 1 .. n + 1}
          BY <3>2
        <4>2. QED
          BY <1>10, <4>1
      <3>6. QED
        BY <3>3, <3>4, <3>5
    <2>2. {y.retry_requests[j].id : j \in 1 .. Len(y.retry_requests)} = {q[j].id : j \in 1 .. n + 1}
      BY <1>10
    <2>3. {x.retry_requests[j].id : j \in 1 .. Len(x.retry_requests)} = {s[j].id : j \in 1 .. n}
      BY <1>10
    <2>4. QED
      BY <1>6, <2>1, <2>2, <2>3 DEF PendIds
  <1>14. Distinct(y)
    <2>1. /\ \A i, j \in 1 .. n : s[i].id = s[j].id => i = j
          /\ \A r \in x.pending_ios, j \in 1 .. n : r.id # s[j].id
          /\ \A i, j \in 1 .. Len(x.io_responses) :
               x.io_responses[i].id = x.io_responses[j].id => i = j
          /\ \A i \in 1 .. Len(x.io_responses) :
               \E r \in x.pending_ios : r.id = x.io_responses[i].id
      BY <1>1, <1>10 DEF Distinct, DistinctIds
    <2>2. /\ \A j \in 1 .. n : b.req.id # s[j].id
          /\ \A r \in x.pending_ios : r.id # b.req.id
      BY <1>3, <1>10 DEF PendIds
    <2>a. PICK d : d = b.req.id
      OBVIOUS
    <2>b. /\ \A j \in 1 .. n : q[j].id = s[j].id /\ s[j].id # d
          /\ q[n + 1].id = d /\ \A r \in x.pending_ios : r.id # d
      BY <1>10, <2>2, <2>a
    <2>3. ASSUME NEW i \in 1 .. n + 1, NEW j \in 1 .. n + 1, q[i].id = q[j].id PROVE i = j
      <3>1. (i \in 1 .. n \/ i = n + 1) /\ (j \in 1 .. n \/ j = n + 1)
        BY <1>11
      <3>2. i \in 1 .. n /\ j \in 1 .. n => i = j
        BY <2>1, <2>3, <2>b
      <3>3. i \in 1 .. n => j # n + 1
        BY <2>3, <2>b
      <3>4. j \in 1 .. n => i # n + 1
        BY <2>3, <2>b
      <3>5. QED
        BY <3>1, <3>2, <3>3, <3>4
    <2>4. ASSUME NEW r \in x.pending_ios, NEW j \in 1 .. n + 1 PROVE r.id # q[j].id
      <3>1. j \in 1 .. n \/ j = n + 1
        BY <1>11
      <3>2. j \in 1 .. n => r.id # q[j].id
        BY <2>1, <2>b
      <3>3. j = n + 1 => r.id # q[j].id
        BY <2>b
      <3>4. QED
        BY <3>1, <3>2, <3>3
    <2>c. PICK g : g = x.io_responses
      OBVIOUS
    <2>d. PICK P : P = x.pending_ios
      OBVIOUS
    <2>e. y.retry_requests = q /\ y.pending_ios = P /\ y.io_responses = g
      BY <1>6, <1>10, <2>c, <2>d
    <2>5. /\ Len(q) = n + 1
          /\ \A i, j \in 1 .. Len(g) : g[i].id = g[j].id => i = j
          /\ \A i \in 1 .. Len(g) : \E r \in x.pending_ios : r.id = g[i].id
      BY <1>10, <2>1, <2>c
    <2>6. DistinctIds(q, P, g)
      BY <2>3, <2>4, <2>5, <2>d DEF DistinctIds
    <2>7. QED
      BY <2>6, <2>e DEF Distinct
  <1>15. Len(x.retry_requests) <= Len(y.retry_requests)
    BY <1>10
  <1>16. QED
    BY <1>2, <1>6, <1>7, <1>8, <1>10, <1>12, <1>13, <1>14, <1>15 DEF Returns

\* A step that returns to the caller of the operation.
LEMMA ReturnStep ==
  ASSUME OpsInv, SnapshotInv', NEW t \in Thread, NEW b, b = call[t], InCall(b),
         NEW y, Returns(t, b, ctx[t], y), call' = [call EXCEPT ![t] = Returned(b)],
         ctx' = [ctx EXCEPT ![t] = y], Unmoved, answer' = answer
  PROVE  OpsInv'
  <1>0. PICK x, c : x = ctx[t] /\ c = Returned(b)
    OBVIOUS
  <1>1. LocalInv(t, b, x)
    BY <1>0 DEF OpsInv
  <1>2. LocalInv(t, c, y) /\ c.pc \in {"idle", "completing"}
    BY <1>0, <1>1, ReturnLocal
  <1>3. QED
    BY <1>0, <1>2, LocalStep

LEMMA OpsHandle ==
  ASSUME OpsInv, SnapshotInv', NEW t \in Thread,
         HandleDone(t) \/ HandleUnmark(t) \/ HandleRetryNow(t) \/ GoPending(t)
  PROVE  OpsInv'
  <1>0. PICK b, x : b = call[t] /\ x = ctx[t] /\ b.pc = "handle"
    BY DEF HandleDone, HandleUnmark, HandleRetryNow, GoPending, At
  <1>1. LocalInv(t, b, x)
    BY <1>0 DEF OpsInv
  <1>2. InCall(b) /\ LookInv(b) /\ CallInv(t, b, x) /\ CtxInv(t, x)
    BY <1>0, <1>1 DEF InCall, LocalInv
  <1>3. CASE HandleDone(t) \/ HandleUnmark(t)
    <2>1. b.status \in {"SUCCESS", "NOT_FOUND", "SUCCESS_UNMARK", "NOT_FOUND_UNMARK"}
      BY <1>0, <1>3 DEF HandleDone, HandleUnmark
    <2>2. Finished(b)
      BY <1>0, <1>2, <2>1 DEF LookInv, Done, Finished
    <2>3. PICK y : y = Serial(b, x)
      OBVIOUS
    <2>4. Returns(t, b, x, y)
      BY <1>1, <1>2, <2>2, <2>3, ReturnsDone
    <2>5. /\ call' = [call EXCEPT ![t] = Returned(b)] /\ ctx' = [ctx EXCEPT ![t] = y]
          /\ Unmoved /\ answer' = answer
      BY <1>0, <1>3, <2>3
      DEF HandleDone, HandleUnmark, Return, Set, logvars, regions, system, history, Unmoved
    <2>6. QED
      BY <1>0, <1>2, <2>4, <2>5, ReturnStep
  <1>4. CASE HandleRetryNow(t)
    <2>1. b.status = "RETRY_NOW"
      BY <1>0, <1>4 DEF HandleRetryNow
    <2>2. ~Finished(b)
      BY <2>1 DEF Finished, Done
    <2>3. IsCall(b) /\ IsReq(t, b.req)
      BY <1>2 DEF CallInv
    <2>5. PICK c : c = Again(b)
      OBVIOUS
    <2>6. /\ IsCall(c) /\ c.pc = "internal" /\ c.target = b.target /\ c.stage = b.stage
          /\ c.todo = b.todo /\ c.req = b.req /\ c.disk = FALSE /\ c.retrying = FALSE
      BY <2>3, <2>5 DEF Again, IsCall, CallFields
    <2>7. SameOp(b, c)
      BY <2>6 DEF SameOp, SameReq, Continued
    <2>8. LookInv(c) /\ ~Finished(c)
      BY <2>6 DEF LookInv, Done, Looked, Finished
    <2>9. LocalInv(t, c, x)
      BY <1>1, <1>2, <2>2, <2>6, <2>7, <2>8, SameOpLocal
    <2>10. call' = [call EXCEPT ![t] = c] /\ ctx' = ctx /\ Unmoved /\ answer' = answer
      BY <1>0, <1>4, <2>5
      DEF HandleRetryNow, Set, logvars, regions, system, history, Unmoved
    <2>11. c.pc # "swap"
      BY <2>6
    <2>12. QED
      BY <1>0, <2>9, <2>10, <2>11, LocalStep
  <1>5. CASE GoPending(t)
    <2>1. b.status \in {"RETRY_LATER", "RECORD_ON_DISK"}
      BY <1>0, <1>5 DEF GoPending
    <2>2. ~Finished(b) /\ b.req.phase = "REST" /\ (b.status = "RECORD_ON_DISK" => IoInv(b.req))
      BY <1>0, <1>2, <2>1 DEF LookInv, Done, Finished
    <2>3. b.target = "cur"
      BY <1>2 DEF CallInv
    <2>4. call' = [call EXCEPT ![t] = Returned(b)]
      BY <1>0, <1>5 DEF GoPending, Set
    <2>5. CASE /\ b.status = "RECORD_ON_DISK"
               /\ ctx' = [ctx EXCEPT ![t] = Serial(call[t], Sent(ctx[t], call[t].req))]
               /\ UNCHANGED prev
      <3>1. PICK z, y : z = Sent(x, b.req) /\ y = Serial(b, z)
        OBVIOUS
      <3>a. z = [x EXCEPT !.pending_ios = @ \cup {b.req}]
        BY <3>1 DEF Sent
      <3>2. Returns(t, b, x, y)
        BY <1>1, <1>2, <2>2, <2>5, <3>1, <3>a, ReturnsIo
      <3>3. ctx' = [ctx EXCEPT ![t] = y]
        BY <1>0, <2>5, <3>1
      <3>4. Unmoved /\ answer' = answer
        BY <1>5, <2>5 DEF GoPending, logvars, regions, system, history, Unmoved
      <3>5. QED
        BY <1>0, <1>2, <2>4, <3>2, <3>3, <3>4, ReturnStep
    <2>6. CASE /\ ctx' = [ctx EXCEPT ![t] = Serial(call[t], Retried(ctx[t], call[t].req))]
               /\ UNCHANGED prev
      <3>1. PICK z, y : z = Retried(x, b.req) /\ y = Serial(b, z)
        OBVIOUS
      <3>a. z = [x EXCEPT !.retry_requests = Append(@, b.req)]
        BY <3>1 DEF Retried
      <3>2. Returns(t, b, x, y)
        BY <1>1, <1>2, <2>2, <3>1, <3>a, ReturnsRetry
      <3>3. ctx' = [ctx EXCEPT ![t] = y]
        BY <1>0, <2>6, <3>1
      <3>4. Unmoved /\ answer' = answer
        BY <1>5, <2>6 DEF GoPending, logvars, regions, system, history, Unmoved
      <3>5. QED
        BY <1>0, <1>2, <2>4, <3>2, <3>3, <3>4, ReturnStep
    <2>7. \/ /\ call[t].status = "RECORD_ON_DISK"
             /\ ctx' = [ctx EXCEPT ![t] = Serial(call[t], Sent(ctx[t], call[t].req))]
             /\ UNCHANGED prev
          \/ /\ ctx' = [ctx EXCEPT ![t] = Serial(call[t], Retried(ctx[t], call[t].req))]
             /\ UNCHANGED prev
          \/ call[t].target = "prev"
      BY <1>5 DEF GoPending
    <2>8. QED
      BY <1>0, <2>3, <2>5, <2>6, <2>7
  <1>6. QED
    BY <1>3, <1>4, <1>5

\* Steps that the invariant rules out.
LEMMA OpsNever ==
  ASSUME OpsInv, NEW t \in Thread
  PROVE  ~Recheck(t) /\ ~DropEntry(t) /\ ~PivotAndRetry(t) /\ ~Checkpoint(t)
  <1>0. PICK b, x : b = call[t] /\ x = ctx[t]
    OBVIOUS
  <1>1. LookInv(b) /\ CallInv(t, b, x) /\ CtxInv(t, x)
    BY <1>0 DEF OpsInv, LocalInv
  <1>2. b.pc \notin {"recheck", "drop", "dropped"}
    BY <1>1 DEF CallInv, Looked
  <1>3. ~Recheck(t) /\ ~DropEntry(t)
    BY <1>0, <1>2 DEF Recheck, DropEntry, At
  <1>4. ~PivotAndRetry(t)
    <2>1. SUFFICES ASSUME PivotAndRetry(t) PROVE FALSE
      OBVIOUS
    <2>2. b.pc = "handle" /\ (b.status = "CPR_SHIFT_DETECTED" \/ ctx[t].phase = "PREPARE")
      BY <1>0, <2>1 DEF PivotAndRetry, MarkFails, At
    <2>3. b.status # "CPR_SHIFT_DETECTED"
      BY <1>1, <2>2 DEF LookInv, Done
    <2>4. x.phase = "REST"
      BY <1>1 DEF CtxInv
    <2>5. QED
      BY <1>0, <2>2, <2>3, <2>4
  <1>5. ~Checkpoint(t)
    <2>1. env.checkpoints = 0
      BY DEF OpsInv, PlainInv
    <2>2. QED
      BY <2>1 DEF Checkpoint
  <1>6. QED
    BY <1>3, <1>4, <1>5

\* A context with the same requests.
SameCtx(x, y) ==
  /\ DOMAIN y = CtxFields /\ y.phase = "REST" /\ y.serial_num = x.serial_num
  /\ y.retry_requests = x.retry_requests /\ y.pending_ios = x.pending_ios
  /\ y.io_responses = x.io_responses

LEMMA SameCtxLocal ==
  ASSUME NEW t, NEW c, NEW x, LocalInv(t, c, x), NEW y, SameCtx(x, y)
  PROVE  LocalInv(t, c, y)
  <1>1. CtxInv(t, x) /\ Distinct(x) /\ CallInv(t, c, x) /\ LookInv(c) /\ AppliedInv(t, c, x)
    BY DEF LocalInv
  <1>2. /\ DOMAIN y = CtxFields /\ y.phase = "REST" /\ y.serial_num = x.serial_num
        /\ y.retry_requests = x.retry_requests /\ y.pending_ios = x.pending_ios
        /\ y.io_responses = x.io_responses
    BY DEF SameCtx
  <1>3. \A r : Held(t, x, r) => Held(t, y, r)
    BY <1>2 DEF Held
  <1>4. CtxInv(t, y)
    BY <1>1, <1>2, <1>3 DEF CtxInv
  <1>5. PendIds(y) = PendIds(x) /\ Distinct(y)
    BY <1>1, <1>2 DEF PendIds, Distinct
  <1>6. CallInv(t, c, y)
    BY <1>1, <1>2, <1>5 DEF CallInv
  <1>7. \A i : /\ Begun(c, y, i) <=> Begun(c, x, i)
               /\ Waiting(c, y, i) <=> Waiting(c, x, i)
    BY <1>2, <1>5 DEF Begun, Waiting
  <1>8. AppliedInv(t, c, y)
    BY <1>1, <1>7 DEF AppliedInv
  <1>9. QED
    BY <1>1, <1>4, <1>5, <1>6, <1>8 DEF LocalInv

\* A thread that stays between two operations.
LEMMA BetweenLocal ==
  ASSUME NEW t, NEW b, NEW x, LocalInv(t, b, x), ~InCall(b), NEW c, IsCall(c),
         c.pc \in {"idle", "completing"}, c.target = "cur",
         c.stage \in {"none", "io", "refresh", "retry"}, c.pc = "idle" => c.stage = "none",
         c.todo \in Nat, c.stage = "retry" => c.todo <= Len(x.retry_requests),
         ~c.disk, ~c.retrying
  PROVE  LocalInv(t, c, x) /\ c.pc # "swap"
  <1>1. CtxInv(t, x) /\ Distinct(x) /\ AppliedInv(t, b, x)
    BY DEF LocalInv
  <1>2. ~InCall(c)
    BY DEF InCall
  <1>3. CallInv(t, c, x)
    BY <1>2 DEF CallInv
  <1>4. LookInv(c)
    BY DEF LookInv, Done, Looked
  <1>5. \A i : /\ Begun(c, x, i) <=> Begun(b, x, i)
               /\ Waiting(c, x, i) <=> Waiting(b, x, i)
    BY <1>2 DEF Begun, Waiting
  <1>6. AppliedInv(t, c, x)
    BY <1>1, <1>5 DEF AppliedInv
  <1>7. QED
    BY <1>1, <1>3, <1>4, <1>6 DEF LocalInv

\* Refresh outside a checkpoint: only the safe read-only address may move.
LEMMA RefreshPlain ==
  ASSUME OpsInv, NEW t \in Thread, Refresh(t)
  PROVE  /\ ctx' = [ctx EXCEPT ![t].phase = sys.phase, ![t].version = sys.version]
         /\ UNCHANGED <<prev, sys, head>>
         /\ head' \in Nat /\ head <= head' /\ head' <= safe_ro'
         /\ safe_ro' \in Nat /\ safe_ro <= safe_ro'
         /\ ~SwapsContexts(t)
  <1>1. sys.phase = "REST" /\ head \in Nat /\ head <= safe_ro
        /\ safe_ro \in Nat /\ ro \in Nat /\ safe_ro <= ro
    BY DEF OpsInv, PlainInv, ChainInv, SnapshotInv, RegionsInv
  <1>2. ~SwapsContexts(t)
    BY <1>1 DEF SwapsContexts
  <1>3. ~MustAck(t)
    BY <1>1 DEF MustAck
  <1>4. ctx' = [ctx EXCEPT ![t].phase = sys.phase, ![t].version = sys.version]
        /\ UNCHANGED prev /\ UNCHANGED head
    BY <1>2 DEF Refresh
  <1>5. UNCHANGED sys /\ Drain(t)
    BY <1>3 DEF Refresh
  <1>6. safe_ro' = ro \/ safe_ro' = safe_ro
    BY <1>5 DEF Drain
  <1>7. QED
    BY <1>1, <1>2, <1>4, <1>5, <1>6

LEMMA RefreshStep ==
  ASSUME OpsInv, SnapshotInv', NEW t \in Thread, Refresh(t), NEW c, DOMAIN call' = Thread,
         call'[t] = c, \A u \in Thread : u # t => call'[u] = call[u],
         c.pc # "swap", LocalInv(t, c, ctx[t]),
         UNCHANGED <<plan, log, entry, truth, applied, seen, answer>>,
         "checkpoints" \in DOMAIN env' /\ env'.checkpoints = 0
  PROVE  OpsInv'
  <1>1. /\ ctx' = [ctx EXCEPT ![t].phase = sys.phase, ![t].version = sys.version]
        /\ UNCHANGED <<prev, sys, head>>
        /\ head' \in Nat /\ head <= head' /\ head' <= safe_ro'
        /\ safe_ro' \in Nat /\ safe_ro <= safe_ro'
    BY RefreshPlain
  <1>2. Still
    BY <1>1 DEF Still
  <1>3. PlainInv /\ DOMAIN ctx = Thread
    BY DEF OpsInv
  <1>4. PlainInv'
    BY <1>1, <1>3 DEF PlainInv
  <1>5. HistoryInv'
    BY <1>2, StillHistory
  <1>6. PICK x, y, p, v : /\ x = ctx[t] /\ p = sys.phase /\ v = sys.version
                          /\ y = [x EXCEPT !.phase = p, !.version = v]
    OBVIOUS
  <1>7. DOMAIN x = CtxFields /\ p = "REST"
    BY <1>3, <1>6 DEF LocalInv, CtxInv, PlainInv
  <1>8. SameCtx(x, y)
    BY <1>6, <1>7 DEF SameCtx, CtxFields
  <1>9. ctx'[t] = y /\ DOMAIN ctx' = Thread /\ \A u \in Thread : u # t => ctx'[u] = ctx[u]
    BY <1>1, <1>3, <1>6
  <1>10. LocalInv(t, c, y)
    BY <1>6, <1>8, SameCtxLocal
  <1>11. Goes(t, c, y)
    BY <1>9 DEF Goes
  <1>12. QED
    BY <1>2, <1>4, <1>5, <1>10, <1>11, StillStep

LEMMA OpsHostRefresh ==
  ASSUME OpsInv, SnapshotInv', NEW t \in Thread, HostRefresh(t)
  PROVE  OpsInv'
  <1>0. PICK b : b = call[t] /\ b.pc = "idle"
    BY DEF HostRefresh, At
  <1>1. /\ DOMAIN call = Thread /\ LocalInv(t, b, ctx[t])
        /\ "checkpoints" \in DOMAIN env /\ env.checkpoints = 0
    BY <1>0 DEF OpsInv, SnapshotInv, PlainInv
  <1>2. /\ Refresh(t) /\ call' = call /\ env' = env
        /\ UNCHANGED <<plan, log, entry, truth, applied, seen, answer>>
    BY DEF HostRefresh, logvars, history
  <1>3. DOMAIN call' = Thread /\ call'[t] = b /\ \A u \in Thread : u # t => call'[u] = call[u]
    BY <1>0, <1>1, <1>2
  <1>4. b.pc # "swap" /\ "checkpoints" \in DOMAIN env' /\ env'.checkpoints = 0
    BY <1>0, <1>1, <1>2
  <1>5. QED
    BY <1>1, <1>2, <1>3, <1>4, RefreshStep

LEMMA OpsAwaitPage ==
  ASSUME OpsInv, SnapshotInv', NEW t \in Thread, AwaitPage(t)
  PROVE  OpsInv'
  <1>0. PICK b, x, c : b = call[t] /\ b.pc = "create" /\ x = ctx[t] /\ c = [b EXCEPT !.target = b.target]
    BY DEF AwaitPage, At
  <1>1. /\ DOMAIN call = Thread /\ LocalInv(t, b, x)
        /\ "checkpoints" \in DOMAIN env /\ env.checkpoints = 0
    BY <1>0 DEF OpsInv, SnapshotInv, PlainInv
  <1>2. /\ Refresh(t) /\ call' = [call EXCEPT ![t].target = TargetAfterRefresh(t)]
        /\ env' = [env EXCEPT !.fills = @ - 1]
        /\ UNCHANGED <<plan, log, entry, truth, applied, seen, answer>>
    BY DEF AwaitPage, logvars, history
  <1>3. TargetAfterRefresh(t) = b.target
    BY <1>0, <1>2, RefreshPlain DEF TargetAfterRefresh
  <1>4. call' = [call EXCEPT ![t] = c]
    BY <1>0, <1>2, <1>3
  <1>5. DOMAIN call' = Thread /\ call'[t] = c /\ \A u \in Thread : u # t => call'[u] = call[u]
    BY <1>1, <1>4
  <1>6. InCall(b) /\ ~Finished(b) /\ LookInv(b) /\ CallInv(t, b, x)
    BY <1>0, <1>1 DEF InCall, Finished, Done, LocalInv
  <1>7. IsCall(b) /\ (Continued(b) => b.req.phase = "REST")
    BY <1>6 DEF CallInv
  <1>8. /\ IsCall(c) /\ c.pc = "create" /\ c.target = b.target /\ c.stage = b.stage
        /\ c.todo = b.todo /\ c.req = b.req /\ c.disk = b.disk /\ c.retrying = b.retrying
        /\ c.phase = b.phase /\ c.expected = b.expected /\ c.address = b.address
    BY <1>0, <1>7 DEF IsCall, CallFields
  <1>9. SameOp(b, c)
    BY <1>7, <1>8 DEF SameOp, SameReq, Continued
  <1>10. LookInv(c)
    <2>1. From(c) = From(b)
      BY <1>8 DEF From
    <2>2. QED
      BY <1>0, <1>6, <1>8, <2>1 DEF LookInv, Done, Looked
  <1>11. ~Finished(c) /\ c.pc \in {"internal", "handle"} \cup Looked /\ c.pc # "swap"
    BY <1>8 DEF Finished, Done, Looked
  <1>12. LocalInv(t, c, x)
    BY <1>1, <1>6, <1>9, <1>10, <1>11, SameOpLocal
  <1>13. "checkpoints" \in DOMAIN env' /\ env'.checkpoints = 0
    BY <1>1, <1>2
  <1>14. QED
    BY <1>0, <1>2, <1>5, <1>11, <1>12, <1>13, RefreshStep

LEMMA OpsCompleteRefresh ==
  ASSUME OpsInv, SnapshotInv', NEW t \in Thread, CompleteRefresh(t)
  PROVE  OpsInv'
  <1>0. PICK b, x : b = call[t] /\ b.pc = "completing" /\ x = ctx[t]
                    /\ b.stage \in {"refresh", "prev refresh"}
    BY DEF CompleteRefresh, At
  <1>1. /\ DOMAIN call = Thread /\ DOMAIN ctx = Thread /\ LocalInv(t, b, x)
        /\ "checkpoints" \in DOMAIN env /\ env.checkpoints = 0
    BY <1>0 DEF OpsInv, SnapshotInv, PlainInv
  <1>2. ~InCall(b) /\ CallInv(t, b, x) /\ CtxInv(t, x)
    BY <1>0, <1>1 DEF LocalInv, InCall
  <1>3. IsCall(b) /\ b.stage = "refresh" /\ ~b.disk /\ ~b.retrying
    BY <1>0, <1>2 DEF CallInv
  <1>4. PICK q, n, c : q = x.retry_requests /\ n = Len(q)
                       /\ c = [b EXCEPT !.stage = "retry", !.target = "cur", !.todo = n]
    OBVIOUS
  <1>5. n \in Nat
    BY <1>2, <1>4 DEF CtxInv, IsSeq
  <1>6. /\ Refresh(t) /\ env' = env /\ UNCHANGED <<plan, log, entry, truth, applied, seen, answer>>
        /\ call' = [call EXCEPT ![t] = [b EXCEPT !.stage = "retry", !.target = "cur",
                                                 !.todo = Len(ctx'[t].retry_requests)]]
    BY <1>0, <1>3 DEF CompleteRefresh, Set, logvars, history
  <1>7. ctx'[t].retry_requests = q
    <2>1. ctx' = [ctx EXCEPT ![t].phase = sys.phase, ![t].version = sys.version]
      BY <1>6, RefreshPlain
    <2>2. DOMAIN x = CtxFields
      BY <1>2 DEF CtxInv
    <2>3. PICK y : y = [x EXCEPT !.phase = sys.phase, !.version = sys.version]
      OBVIOUS
    <2>4. ctx'[t] = y
      BY <1>0, <1>1, <2>1, <2>3
    <2>5. y.retry_requests = x.retry_requests
      BY <2>2, <2>3 DEF CtxFields
    <2>6. QED
      BY <1>4, <2>4, <2>5
  <1>8. call' = [call EXCEPT ![t] = c]
    BY <1>4, <1>6, <1>7
  <1>9. DOMAIN call' = Thread /\ call'[t] = c /\ \A u \in Thread : u # t => call'[u] = call[u]
    BY <1>1, <1>8
  <1>10. /\ IsCall(c) /\ c.pc = "completing" /\ c.stage = "retry" /\ c.target = "cur" /\ c.todo = n
         /\ c.disk = b.disk /\ c.retrying = b.retrying
    BY <1>0, <1>3, <1>4 DEF IsCall, CallFields
  <1>11. c.todo <= Len(x.retry_requests)
    BY <1>4, <1>5, <1>10
  <1>12. LocalInv(t, c, x) /\ c.pc # "swap"
    BY <1>1, <1>2, <1>3, <1>5, <1>10, <1>11, BetweenLocal
  <1>13. QED
    <2>1. c.pc # "swap" /\ LocalInv(t, c, ctx[t]) /\ "checkpoints" \in DOMAIN env'
          /\ env'.checkpoints = 0
      BY <1>0, <1>1, <1>6, <1>12
    <2>2. QED
      BY <1>6, <1>9, <2>1, RefreshStep

LEMMA OpsCallCompletePending ==
  ASSUME OpsInv, SnapshotInv', NEW t \in Thread, CallCompletePending(t)
  PROVE  OpsInv'
  <1>0. PICK b, x : b = call[t] /\ b.pc = "idle" /\ x = ctx[t]
    BY DEF CallCompletePending, At
  <1>1. LocalInv(t, b, x)
    BY <1>0 DEF OpsInv
  <1>2. ~InCall(b) /\ x.phase = "REST"
    BY <1>0, <1>1 DEF LocalInv, InCall, CtxInv
  <1>3. PICK c : c = [IdleCall EXCEPT !.pc = "completing", !.stage = "io"]
    OBVIOUS
  <1>4. /\ call' = [call EXCEPT ![t] = c] /\ ctx' = ctx /\ Unmoved /\ answer' = answer
    BY <1>0, <1>2, <1>3 DEF CallCompletePending, Set, logvars, regions, system, history, Unmoved
  <1>5. /\ IsCall(c) /\ c.pc = "completing" /\ c.stage = "io" /\ c.target = "cur" /\ c.todo = 0
        /\ c.disk = FALSE /\ c.retrying = FALSE
    BY <1>3 DEF IsCall, CallFields, IdleCall
  <1>6. LocalInv(t, c, x) /\ c.pc # "swap"
    BY <1>1, <1>2, <1>5, BetweenLocal
  <1>7. QED
    BY <1>0, <1>4, <1>6, LocalStep

LEMMA OpsShift ==
  ASSUME OpsInv, SnapshotInv', ShiftReadOnly \/ ShiftHead
  PROVE  OpsInv'
  <1>1. head \in Nat /\ safe_ro \in Nat /\ head <= safe_ro /\ PlainInv
    BY DEF OpsInv, ChainInv, SnapshotInv, RegionsInv
  <1>2. /\ UNCHANGED <<plan, log, entry, truth, applied, seen, answer, call, ctx, prev, sys, safe_ro>>
        /\ (head' = head \/ (head < safe_ro /\ head' = safe_ro))
        /\ \E n : env' = [env EXCEPT !.shifts = n] \/ env' = [env EXCEPT !.heads = n]
    BY DEF ShiftReadOnly, ShiftHead, logvars, system, history
  <1>3. Still
    BY <1>1, <1>2 DEF Still
  <1>4. "checkpoints" \in DOMAIN env' /\ env'.checkpoints = 0
    BY <1>1, <1>2 DEF PlainInv
  <1>5. PlainInv'
    BY <1>1, <1>2, <1>4 DEF PlainInv
  <1>6. UNCHANGED <<call, ctx, answer>>
    BY <1>2
  <1>7. QED
    BY <1>3, <1>5, <1>6, SameStep

\* The disk answers with the record of the key.
LEMMA FoundResponse ==
  ASSUME OpsInv, NEW t \in Thread, NEW x, NEW r, Held(t, x, r), IoInv(r),
         NEW q, q = [r EXCEPT !.address = Found(r)]
  PROVE  Held(t, x, q) /\ ResponseInv(q) /\ q.id = r.id
  <1>1. IsLog(log) /\ Len(log) \in Nat /\ head \in Nat
    BY DEF OpsInv, ChainInv, IsLog
  <1>2. ReqInv(t, r) /\ IsReq(t, r) /\ r.phase = "REST" /\ r.id[2] <= x.serial_num
    BY DEF Held, ReqInv
  <1>3. PICK k, a, e, f : k = r.key /\ a = r.address /\ e = r.entry /\ f = Found(r)
    OBVIOUS
  <1>4. /\ DOMAIN q = ReqFields /\ q.id = r.id /\ q.op = r.op /\ q.key = k /\ q.arg = r.arg
        /\ q.phase = r.phase /\ q.entry = e /\ q.address = f
    BY <1>2, <1>3 DEF IsReq, ReqFields
  <1>5. /\ e \in 0 .. Len(log) /\ Reach(log, e, entry) /\ a \in 0 .. Len(log) /\ a < head
        /\ Match(log, k, a, 1) = Match(log, k, e, 1)
        /\ r.op = "read" => Val(log, k, a) \in seen[r.id]
    BY <1>3 DEF IoInv
  <1>6. f = Match(log, k, a, 1)
    BY <1>3, TraceIsMatch DEF Found, begin_address
  <1>7. f \in 0 .. a /\ f \in Nat
    BY <1>1, <1>5, <1>6, MatchRange
  <1>8. f \in 0 .. Len(log) /\ f < head
    BY <1>1, <1>5, <1>7
  <1>9. Match(log, k, f, 1) = Match(log, k, a, 1)
    BY <1>1, <1>5, <1>6, MatchGoesOn
  <1>10. Val(log, k, f) = Val(log, k, a)
    BY <1>9 DEF Val
  <1>11. IoInv(q)
    BY <1>4, <1>5, <1>8, <1>9, <1>10 DEF IoInv
  <1>12. ResponseInv(q)
    BY <1>4, <1>5, <1>6, <1>11 DEF ResponseInv
  <1>13. ReqInv(t, q)
    BY <1>2, <1>3, <1>4 DEF ReqInv, IsReq
  <1>14. Held(t, x, q)
    BY <1>2, <1>4, <1>13 DEF Held
  <1>15. QED
    BY <1>4, <1>12, <1>14

LEMMA RespondedLocal ==
  ASSUME OpsInv, NEW t \in Thread, NEW b, NEW x, LocalInv(t, b, x), NEW r \in x.pending_ios,
         \A j \in 1 .. Len(x.io_responses) : x.io_responses[j].id # r.id,
         NEW q, q = [r EXCEPT !.address = Found(r)],
         NEW y, y = [x EXCEPT !.io_responses = Append(@, q)]
  PROVE  LocalInv(t, b, y)
  <1>1. CtxInv(t, x) /\ Distinct(x) /\ CallInv(t, b, x) /\ LookInv(b) /\ AppliedInv(t, b, x)
    BY DEF LocalInv
  <1>2. Held(t, x, r) /\ IoInv(r) /\ DOMAIN x = CtxFields
    BY <1>1 DEF CtxInv
  <1>3. Held(t, x, q) /\ ResponseInv(q) /\ q.id = r.id
    BY <1>2, FoundResponse
  <1>4. /\ DOMAIN y = CtxFields /\ y.phase = x.phase /\ y.serial_num = x.serial_num
        /\ y.retry_requests = x.retry_requests /\ y.pending_ios = x.pending_ios
        /\ y.io_responses = Append(x.io_responses, q)
    BY <1>2 DEF CtxFields
  <1>5. PICK g, h, n : g = x.io_responses /\ h = y.io_responses /\ n = Len(g)
    OBVIOUS
  <1>6. /\ n \in Nat /\ IsSeq(h) /\ Len(h) = n + 1 /\ h[n + 1] = q
        /\ \A j \in 1 .. n : h[j] = g[j]
    <2>1. PICK S : g \in Seq(S)
      BY <1>1, <1>5 DEF CtxInv, IsSeq
    <2>2. h = Append(g, q)
      BY <1>4, <1>5
    <2>3. h \in Seq(S \cup {q}) /\ Len(h) = Len(g) + 1 /\ h[Len(g) + 1] = q /\ Len(g) \in Nat
          /\ \A j \in 1 .. Len(g) : h[j] = g[j]
      BY <2>1, <2>2
    <2>4. IsSeq(h)
      BY <2>3 DEF IsSeq
    <2>5. QED
      BY <1>5, <2>3, <2>4
  <1>7. \A j \in 1 .. n + 1 : j \in 1 .. n \/ j = n + 1
    BY <1>6
  <1>8. \A i : Held(t, x, i) => Held(t, y, i)
    BY <1>4 DEF Held
  <1>9. \A j \in 1 .. n + 1 : Held(t, y, h[j]) /\ ResponseInv(h[j])
    <2>1. \A j \in 1 .. n : Held(t, x, g[j]) /\ ResponseInv(g[j])
      BY <1>1, <1>5 DEF CtxInv
    <2>2. QED
      BY <1>3, <1>6, <1>7, <1>8, <2>1
  <1>10. CtxInv(t, y)
    <2>1. /\ x.phase = "REST" /\ x.serial_num \in 0 .. Len(plan.ops[t]) /\ IsSeq(x.retry_requests)
          /\ \A i \in x.pending_ios : Held(t, x, i) /\ IoInv(i)
          /\ \A j \in 1 .. Len(x.retry_requests) : Held(t, x, x.retry_requests[j])
      BY <1>1 DEF CtxInv
    <2>2. IsSeq(y.io_responses) /\ \A j \in 1 .. Len(y.io_responses) :
            Held(t, y, y.io_responses[j]) /\ ResponseInv(y.io_responses[j])
      BY <1>5, <1>6, <1>9
    <2>3. QED
      BY <1>4, <1>8, <2>1, <2>2 DEF CtxInv
  <1>11. Distinct(y)
    <2>1. PICK s, P, d : s = x.retry_requests /\ P = x.pending_ios /\ d = r.id
      OBVIOUS
    <2>2. /\ \A i, j \in 1 .. Len(s) : s[i].id = s[j].id => i = j
          /\ \A i \in P, j \in 1 .. Len(s) : i.id # s[j].id
          /\ \A i, j \in 1 .. n : g[i].id = g[j].id => i = j
          /\ \A i \in 1 .. n : \E l \in P : l.id = g[i].id
      BY <1>1, <1>5, <2>1 DEF Distinct, DistinctIds
    <2>3. /\ \A j \in 1 .. n : h[j].id = g[j].id /\ g[j].id # d
          /\ h[n + 1].id = d
      BY <1>3, <1>5, <1>6, <2>1
    <2>4. ASSUME NEW i \in 1 .. n + 1, NEW j \in 1 .. n + 1, h[i].id = h[j].id PROVE i = j
      <3>1. (i \in 1 .. n \/ i = n + 1) /\ (j \in 1 .. n \/ j = n + 1)
        BY <1>7
      <3>2. i \in 1 .. n /\ j \in 1 .. n => i = j
        BY <2>2, <2>3, <2>4
      <3>3. i \in 1 .. n => j # n + 1
        BY <2>3, <2>4
      <3>4. j \in 1 .. n => i # n + 1
        BY <2>3, <2>4
      <3>5. QED
        BY <3>1, <3>2, <3>3, <3>4
    <2>5. ASSUME NEW i \in 1 .. n + 1 PROVE \E l \in P : l.id = h[i].id
      <3>1. i \in 1 .. n \/ i = n + 1
        BY <1>7
      <3>2. i \in 1 .. n => \E l \in P : l.id = h[i].id
        BY <2>2, <2>3
      <3>3. r \in P /\ r.id = h[n + 1].id
        BY <2>1, <2>3
      <3>4. QED
        BY <3>1, <3>2, <3>3
    <2>6. DistinctIds(s, P, h)
      BY <1>6, <2>2, <2>4, <2>5 DEF DistinctIds
    <2>7. QED
      BY <1>4, <1>5, <2>1, <2>6 DEF Distinct
  <1>12. PendIds(y) = PendIds(x)
    BY <1>4 DEF PendIds
  <1>13. CallInv(t, b, y)
    BY <1>1, <1>4, <1>12 DEF CallInv
  <1>14. \A i : /\ Begun(b, y, i) <=> Begun(b, x, i)
                /\ Waiting(b, y, i) <=> Waiting(b, x, i)
    BY <1>4, <1>12 DEF Begun, Waiting
  <1>15. AppliedInv(t, b, y)
    BY <1>1, <1>14 DEF AppliedInv
  <1>16. QED
    BY <1>1, <1>10, <1>11, <1>13, <1>15 DEF LocalInv

LEMMA OpsAsyncGetFromDisk ==
  ASSUME OpsInv, SnapshotInv', NEW t \in Thread, AsyncGetFromDisk(t)
  PROVE  OpsInv'
  <1>0. PICK b, x : b = call[t] /\ x = ctx[t]
    OBVIOUS
  <1>1. /\ LocalInv(t, b, x) /\ prev[t].pending_ios = {}
        /\ DOMAIN call = Thread /\ DOMAIN ctx = Thread
    BY <1>0 DEF OpsInv, PlainInv, SnapshotInv
  <1>2. /\ UNCHANGED <<plan, log, entry, head, safe_ro, sys, env, truth, seen, applied>>
        /\ UNCHANGED <<call, answer>>
    BY DEF AsyncGetFromDisk, logvars, regions, system, history
  <1>3. PICK r \in ctx[t].pending_ios :
          /\ \A j \in DOMAIN ctx[t].io_responses : ctx[t].io_responses[j].id # r.id
          /\ ctx' = [ctx EXCEPT ![t] = Responded(@, r)] /\ UNCHANGED prev
    BY <1>1 DEF AsyncGetFromDisk
  <1>4. PICK q, y : q = [r EXCEPT !.address = Found(r)] /\ y = [x EXCEPT !.io_responses = Append(@, q)]
    OBVIOUS
  <1>5. y = Responded(x, r)
    BY <1>4 DEF Responded
  <1>6. ctx' = [ctx EXCEPT ![t] = y]
    BY <1>0, <1>3, <1>5
  <1>7. \A j \in 1 .. Len(x.io_responses) : x.io_responses[j].id # r.id
    <2>1. PICK g : g = x.io_responses
      OBVIOUS
    <2>2. IsSeq(g)
      BY <1>1, <2>1 DEF LocalInv, CtxInv
    <2>3. DOMAIN g = 1 .. Len(g)
      BY <2>2 DEF IsSeq
    <2>4. QED
      BY <1>0, <1>3, <2>1, <2>3
  <1>8. LocalInv(t, b, y)
    <2>1. r \in x.pending_ios
      BY <1>0
    <2>2. QED
      BY <1>1, <1>4, <1>7, <2>1, RespondedLocal
  <1>9. Goes(t, b, y)
    BY <1>0, <1>1, <1>2, <1>6 DEF Goes
  <1>10. Unmoved
    BY <1>2, <1>3 DEF Unmoved
  <1>11. Still /\ PlainInv'
    BY <1>10, UnmovedStill
  <1>12. HistoryInv'
    BY <1>2, <1>11, StillHistory
  <1>13. QED
    BY <1>0, <1>8, <1>9, <1>11, <1>12, StillStep

\* q is s without its first element.
Tails(s, q) ==
  /\ IsSeq(q) /\ Len(s) \in Nat /\ Len(q) \in Nat /\ Len(s) = Len(q) + 1
  /\ Head(s) = s[1] /\ \A j \in 1 .. Len(q) : q[j] = s[j + 1]

LEMMA TailFacts ==
  ASSUME NEW s, IsSeq(s), Len(s) > 0
  PROVE  Tails(s, Tail(s))
  <1>0. PICK q : q = Tail(s)
    OBVIOUS
  <1>1. PICK S : s \in Seq(S)
    BY DEF IsSeq
  <1>2. /\ q \in Seq(S) /\ Len(q) = Len(s) - 1 /\ Len(s) \in Nat /\ Head(s) = s[1]
        /\ \A j \in 1 .. Len(q) : q[j] = s[j + 1]
    BY <1>0, <1>1
  <1>3. IsSeq(q)
    BY <1>2 DEF IsSeq
  <1>4. Tails(s, q)
    BY <1>2, <1>3 DEF Tails
  <1>5. QED
    BY <1>0, <1>4

\* The same of requests with different ids, the first of which is r.
TailsApart(s, q, r) ==
  /\ IsSeq(q) /\ Len(s) \in Nat /\ Len(q) \in Nat /\ Len(s) = Len(q) + 1
  /\ 1 \in 1 .. Len(s) /\ r = s[1]
  /\ \A j \in 1 .. Len(q) : \E a \in 1 .. Len(s) : q[j] = s[a]
  /\ \A j \in 1 .. Len(q) : q[j].id # r.id
  /\ \A i, j \in 1 .. Len(q) : q[i].id = q[j].id => i = j
  /\ {q[j].id : j \in 1 .. Len(q)} = {s[j].id : j \in 1 .. Len(s)} \ {r.id}

LEMMA TailDistinct ==
  ASSUME NEW s, IsSeq(s), Len(s) > 0,
         \A i, j \in 1 .. Len(s) : s[i].id = s[j].id => i = j
  PROVE  TailsApart(s, Tail(s), Head(s))
  <1>0. PICK q, r : q = Tail(s) /\ r = Head(s)
    OBVIOUS
  <1>a. Tails(s, q)
    BY <1>0, TailFacts
  <1>1. /\ IsSeq(q) /\ Len(s) \in Nat /\ Len(q) \in Nat /\ Len(s) = Len(q) + 1
        /\ r = s[1] /\ \A j \in 1 .. Len(q) : q[j] = s[j + 1]
    BY <1>0, <1>a DEF Tails
  <1>2. r = s[1]
    BY <1>1
  <1>3. PICK n, m : n = Len(s) /\ m = Len(q)
    OBVIOUS
  <1>4. n \in Nat /\ m \in Nat /\ n = m + 1
    BY <1>1, <1>3
  <1>5. 1 \in 1 .. n
    BY <1>4
  <1>6. ASSUME NEW j \in 1 .. m PROVE \E a \in 1 .. n : a = j + 1 /\ a # 1 /\ q[j] = s[a]
    <2>1. j + 1 \in 1 .. n /\ j + 1 # 1
      BY <1>4
    <2>2. q[j] = s[j + 1]
      BY <1>1, <1>3
    <2>3. QED
      BY <2>1, <2>2
  <1>7. ASSUME NEW j \in 1 .. m PROVE q[j].id # r.id
    <2>1. PICK a \in 1 .. n : a # 1 /\ q[j] = s[a]
      BY <1>6
    <2>2. s[a].id # s[1].id
      BY <1>3, <1>5, <2>1
    <2>3. QED
      BY <1>2, <2>1, <2>2
  <1>8. ASSUME NEW i \in 1 .. m, NEW j \in 1 .. m, q[i].id = q[j].id PROVE i = j
    <2>1. PICK a \in 1 .. n : a = i + 1 /\ q[i] = s[a]
      BY <1>6
    <2>2. PICK b \in 1 .. n : b = j + 1 /\ q[j] = s[b]
      BY <1>6
    <2>3. a = b
      BY <1>3, <1>8, <2>1, <2>2
    <2>4. QED
      BY <1>4, <2>1, <2>2, <2>3
  <1>9. PICK B, C : B = {s[j].id : j \in 1 .. n} /\ C = {q[j].id : j \in 1 .. m}
    OBVIOUS
  <1>10. ASSUME NEW e \in C PROVE e \in B \ {r.id}
    <2>1. PICK j \in 1 .. m : e = q[j].id
      BY <1>9
    <2>2. PICK a \in 1 .. n : q[j] = s[a]
      BY <1>6
    <2>3. QED
      BY <1>7, <1>9, <2>1, <2>2
  <1>11. ASSUME NEW e \in B \ {r.id} PROVE e \in C
    <2>1. PICK i \in 1 .. n : e = s[i].id
      BY <1>9
    <2>2. i # 1
      BY <1>2, <1>11, <2>1
    <2>3. i - 1 \in 1 .. m /\ (i - 1) + 1 = i
      BY <1>4, <2>2
    <2>4. q[i - 1] = s[i]
      BY <1>1, <1>3, <2>3
    <2>5. QED
      BY <1>9, <2>1, <2>3, <2>4
  <1>12. C = B \ {r.id}
    BY <1>10, <1>11
  <1>13. TailsApart(s, q, r)
    BY <1>1, <1>2, <1>3, <1>5, <1>6, <1>7, <1>8, <1>9, <1>12 DEF TailsApart
  <1>14. QED
    BY <1>0, <1>13

\* The request r of x, which y no longer has, becomes the operation of the call c.
Taken(t, x, y, r) ==
  /\ CtxInv(t, y) /\ Distinct(y) /\ y.serial_num = x.serial_num /\ Held(t, x, r)
  /\ r.id \in PendIds(x) /\ PendIds(y) = PendIds(x) \ {r.id}

LEMMA TakenLocal ==
  ASSUME NEW t, NEW b, NEW x, LocalInv(t, b, x), ~InCall(b), NEW y, NEW r, Taken(t, x, y, r),
         NEW c, IsCall(c), c.pc \in {"internal", "handle"}, c.req = r, c.target = "cur",
         c.stage \in {"io", "refresh", "retry"}, c.todo \in Nat,
         c.stage = "retry" => c.todo <= Len(y.retry_requests),
         c.disk => r.op = "rmw", Finished(c) => r.op = "read", LookInv(c)
  PROVE  LocalInv(t, c, y)
  <1>1. /\ CtxInv(t, y) /\ Distinct(y) /\ y.serial_num = x.serial_num /\ Held(t, x, r)
        /\ r.id \in PendIds(x) /\ PendIds(y) = PendIds(x) \ {r.id}
    BY DEF Taken
  <1>2. ReqInv(t, r) /\ IsReq(t, r) /\ r.phase = "REST" /\ r.id[2] <= y.serial_num
        /\ r.id \notin PendIds(y)
    BY <1>1 DEF Held, ReqInv
  <1>3. InCall(c)
    BY DEF InCall
  <1>4. CallInv(t, c, y)
    BY <1>2, <1>3 DEF CallInv
  <1>5. ASSUME NEW m \in DOMAIN plan.ops[t]
        PROVE  /\ Waiting(c, y, <<t, m>>) => applied[<<t, m>>] = <<>>
               /\ ~Waiting(c, y, <<t, m>>) /\ plan.ops[t][m].op # "read" => Len(applied[<<t, m>>]) = 1
               /\ ~Begun(c, y, <<t, m>>) => seen[<<t, m>>] = {}
    <2>1. /\ Waiting(b, x, <<t, m>>) => applied[<<t, m>>] = <<>>
          /\ ~Waiting(b, x, <<t, m>>) /\ plan.ops[t][m].op # "read" => Len(applied[<<t, m>>]) = 1
          /\ ~Begun(b, x, <<t, m>>) => seen[<<t, m>>] = {}
      BY DEF LocalInv, AppliedInv
    <2>2. PICK i : i = <<t, m>>
      OBVIOUS
    <2>3. Begun(c, y, i) <=> Begun(b, x, i)
      BY <1>1, <1>2 DEF Begun
    <2>4. Waiting(c, y, i) => Waiting(b, x, i)
      BY <1>1, <2>3 DEF Waiting
    <2>5. Waiting(b, x, i) => Waiting(c, y, i) \/ plan.ops[t][m].op = "read"
      <3>1. CASE r.id = i
        <4>1. r.op = plan.ops[t][m].op
          BY <1>2, <2>2, <3>1 DEF IsReq
        <4>2. QED
          BY <1>3, <3>1, <4>1 DEF Waiting
      <3>2. CASE r.id # i
        BY <1>1, <2>3, <3>2 DEF Waiting
      <3>3. QED
        BY <3>1, <3>2
    <2>6. QED
      BY <2>1, <2>2, <2>3, <2>4, <2>5
  <1>6. AppliedInv(t, c, y)
    BY <1>5 DEF AppliedInv
  <1>7. QED
    BY <1>1, <1>4, <1>6 DEF LocalInv

LEMMA PoppedTaken ==
  ASSUME OpsInv, NEW t \in Thread, NEW b, NEW x, LocalInv(t, b, x), NEW g, g = x.io_responses,
         g # <<>>, NEW r, r = Head(g), NEW y, y = Popped(x)
  PROVE  Taken(t, x, y, r) /\ ResponseInv(r) /\ y.retry_requests = x.retry_requests
  <1>1. CtxInv(t, x) /\ Distinct(x)
    BY DEF LocalInv
  <1>2. PICK s, P, Q, h : /\ s = x.retry_requests /\ P = x.pending_ios
                          /\ Q = {i \in P : i.id # r.id} /\ h = Tail(g)
    OBVIOUS
  <1>3. /\ DOMAIN x = CtxFields /\ x.phase = "REST" /\ x.serial_num \in 0 .. Len(plan.ops[t])
        /\ IsSeq(s) /\ IsSeq(g)
        /\ \A i \in P : Held(t, x, i) /\ IoInv(i)
        /\ \A j \in 1 .. Len(s) : Held(t, x, s[j])
        /\ \A j \in 1 .. Len(g) : Held(t, x, g[j]) /\ ResponseInv(g[j])
    BY <1>1, <1>2 DEF CtxInv
  <1>4. Len(g) > 0
    BY <1>3 DEF IsSeq
  <1>10. /\ \A i, j \in 1 .. Len(s) : s[i].id = s[j].id => i = j
         /\ \A i \in P, j \in 1 .. Len(s) : i.id # s[j].id
         /\ \A i, j \in 1 .. Len(g) : g[i].id = g[j].id => i = j
         /\ \A i \in 1 .. Len(g) : \E l \in P : l.id = g[i].id
    BY <1>1, <1>2 DEF Distinct, DistinctIds
  <1>5. /\ IsSeq(h) /\ 1 \in 1 .. Len(g) /\ r = g[1]
        /\ \A j \in 1 .. Len(h) : \E a \in 1 .. Len(g) : h[j] = g[a]
        /\ \A j \in 1 .. Len(h) : h[j].id # r.id
        /\ \A i, j \in 1 .. Len(h) : h[i].id = h[j].id => i = j
    <2>1. TailsApart(g, Tail(g), Head(g))
      BY <1>3, <1>4, <1>10, TailDistinct
    <2>2. TailsApart(g, h, r)
      BY <1>2, <2>1
    <2>3. QED
      BY <2>2 DEF TailsApart
  <1>6. /\ DOMAIN y = CtxFields /\ y.phase = x.phase /\ y.serial_num = x.serial_num
        /\ y.retry_requests = s /\ y.pending_ios = Q /\ y.io_responses = h
    BY <1>2, <1>3 DEF Popped, CtxFields
  <1>7. \A i : Held(t, x, i) => Held(t, y, i)
    BY <1>6 DEF Held
  <1>9. CtxInv(t, y)
    <2>1. \A i \in Q : Held(t, y, i) /\ IoInv(i)
      BY <1>2, <1>3, <1>7
    <2>2. \A j \in 1 .. Len(s) : Held(t, y, s[j])
      BY <1>3, <1>7
    <2>3. \A j \in 1 .. Len(h) : Held(t, y, h[j]) /\ ResponseInv(h[j])
      BY <1>3, <1>5, <1>7
    <2>4. QED
      BY <1>3, <1>5, <1>6, <2>1, <2>2, <2>3 DEF CtxInv
  <1>11. Distinct(y)
    <2>2. ASSUME NEW i \in 1 .. Len(h) PROVE \E l \in Q : l.id = h[i].id
      <3>1. PICK l \in P : l.id = h[i].id
        BY <1>5, <1>10
      <3>2. h[i].id # r.id
        BY <1>5
      <3>3. QED
        BY <1>2, <3>1, <3>2
    <2>3. \A i \in Q, j \in 1 .. Len(s) : i.id # s[j].id
      BY <1>2, <1>10
    <2>4. DistinctIds(s, Q, h)
      BY <1>5, <1>10, <2>2, <2>3 DEF DistinctIds
    <2>5. QED
      BY <1>6, <2>4 DEF Distinct
  <1>12. PICK p \in P : p.id = r.id
    BY <1>5, <1>10
  <1>13. PICK A, B, C : A = {i.id : i \in P} /\ B = {s[j].id : j \in 1 .. Len(s)} /\ C = {i.id : i \in Q}
    OBVIOUS
  <1>14. r.id \in A /\ r.id \notin B /\ C = A \ {r.id}
    <2>1. r.id \in A
      BY <1>12, <1>13
    <2>2. r.id \notin B
      BY <1>10, <1>12, <1>13
    <2>3. C = A \ {r.id}
      BY <1>2, <1>13
    <2>4. QED
      BY <2>1, <2>2, <2>3
  <1>15. PendIds(x) = A \cup B /\ PendIds(y) = C \cup B
    BY <1>2, <1>6, <1>13 DEF PendIds
  <1>16. r.id \in PendIds(x) /\ PendIds(y) = PendIds(x) \ {r.id}
    BY <1>14, <1>15
  <1>17. Held(t, x, r) /\ ResponseInv(r)
    BY <1>3, <1>5
  <1>18. QED
    BY <1>2, <1>6, <1>9, <1>11, <1>16, <1>17 DEF Taken

LEMMA RetryTaken ==
  ASSUME OpsInv, NEW t \in Thread, NEW b, NEW x, LocalInv(t, b, x), NEW s, s = x.retry_requests,
         Len(s) > 0, NEW r, r = Head(s), NEW y, y = [x EXCEPT !.retry_requests = Tail(@)]
  PROVE  /\ Taken(t, x, y, r) /\ Len(s) \in Nat /\ Len(y.retry_requests) \in Nat
         /\ Len(s) = Len(y.retry_requests) + 1
  <1>1. CtxInv(t, x) /\ Distinct(x)
    BY DEF LocalInv
  <1>2. PICK g, P, q : g = x.io_responses /\ P = x.pending_ios /\ q = Tail(s)
    OBVIOUS
  <1>3. /\ DOMAIN x = CtxFields /\ x.phase = "REST" /\ x.serial_num \in 0 .. Len(plan.ops[t])
        /\ IsSeq(s) /\ IsSeq(g)
        /\ \A i \in P : Held(t, x, i) /\ IoInv(i)
        /\ \A j \in 1 .. Len(s) : Held(t, x, s[j])
        /\ \A j \in 1 .. Len(g) : Held(t, x, g[j]) /\ ResponseInv(g[j])
    BY <1>1, <1>2 DEF CtxInv
  <1>10. /\ \A i, j \in 1 .. Len(s) : s[i].id = s[j].id => i = j
         /\ \A i \in P, j \in 1 .. Len(s) : i.id # s[j].id
         /\ \A i, j \in 1 .. Len(g) : g[i].id = g[j].id => i = j
         /\ \A i \in 1 .. Len(g) : \E l \in P : l.id = g[i].id
    BY <1>1, <1>2 DEF Distinct, DistinctIds
  <1>5. /\ IsSeq(q) /\ Len(s) \in Nat /\ Len(q) \in Nat /\ Len(s) = Len(q) + 1
        /\ 1 \in 1 .. Len(s) /\ r = s[1]
        /\ \A j \in 1 .. Len(q) : \E a \in 1 .. Len(s) : q[j] = s[a]
        /\ \A i, j \in 1 .. Len(q) : q[i].id = q[j].id => i = j
        /\ {q[j].id : j \in 1 .. Len(q)} = {s[j].id : j \in 1 .. Len(s)} \ {r.id}
    <2>1. TailsApart(s, Tail(s), Head(s))
      BY <1>3, <1>10, TailDistinct
    <2>2. TailsApart(s, q, r)
      BY <1>2, <2>1
    <2>3. QED
      BY <2>2 DEF TailsApart
  <1>6. /\ DOMAIN y = CtxFields /\ y.phase = x.phase /\ y.serial_num = x.serial_num
        /\ y.retry_requests = q /\ y.pending_ios = P /\ y.io_responses = g
    BY <1>2, <1>3 DEF CtxFields
  <1>7. \A i : Held(t, x, i) => Held(t, y, i)
    BY <1>6 DEF Held
  <1>9. CtxInv(t, y)
    <2>1. \A i \in P : Held(t, y, i) /\ IoInv(i)
      BY <1>3, <1>7
    <2>2. \A j \in 1 .. Len(q) : Held(t, y, q[j])
      BY <1>3, <1>5, <1>7
    <2>3. \A j \in 1 .. Len(g) : Held(t, y, g[j]) /\ ResponseInv(g[j])
      BY <1>3, <1>7
    <2>4. QED
      BY <1>3, <1>5, <1>6, <2>1, <2>2, <2>3 DEF CtxInv
  <1>11. Distinct(y)
    <2>2. ASSUME NEW i \in P, NEW j \in 1 .. Len(q) PROVE i.id # q[j].id
      BY <1>5, <1>10
    <2>3. DistinctIds(q, P, g)
      BY <1>5, <1>10, <2>2 DEF DistinctIds
    <2>4. QED
      BY <1>6, <2>3 DEF Distinct
  <1>13. PICK A, B, C : A = {i.id : i \in P} /\ B = {s[j].id : j \in 1 .. Len(s)}
                        /\ C = {q[j].id : j \in 1 .. Len(q)}
    OBVIOUS
  <1>14. r.id \notin A /\ r.id \in B
    BY <1>5, <1>10, <1>13
  <1>15. C = B \ {r.id}
    BY <1>5, <1>13
  <1>16. PendIds(x) = A \cup B /\ PendIds(y) = A \cup C
    BY <1>2, <1>6, <1>13 DEF PendIds
  <1>17. r.id \in PendIds(x) /\ PendIds(y) = PendIds(x) \ {r.id}
    BY <1>14, <1>15, <1>16
  <1>18. Held(t, x, r)
    BY <1>3, <1>5
  <1>19. QED
    BY <1>5, <1>6, <1>9, <1>11, <1>17, <1>18 DEF Taken

LEMMA OpsCompleteIo ==
  ASSUME OpsInv, SnapshotInv', NEW t \in Thread, CompleteIo(t)
  PROVE  OpsInv'
  <1>0. PICK b, x : b = call[t] /\ x = ctx[t]
    OBVIOUS
  <1>1. LocalInv(t, b, x)
    BY <1>0 DEF OpsInv
  <1>2. CallInv(t, b, x) /\ CtxInv(t, x)
    BY <1>1 DEF LocalInv
  <1>3. b.pc = "completing" /\ b.stage \in {"io", "prev io"}
    BY <1>0 DEF CompleteIo, At
  <1>4. ~InCall(b)
    BY <1>3 DEF InCall
  <1>5. /\ IsCall(b) /\ b.target = "cur" /\ b.stage = "io" /\ b.todo \in Nat
        /\ ~b.disk /\ ~b.retrying
    BY <1>2, <1>3, <1>4 DEF CallInv
  <1>6. ContextOf(t) = x
    BY <1>0, <1>5 DEF ContextOf
  <1>7. PICK g : g = x.io_responses
    OBVIOUS
  <1>8. Unmoved
    BY <1>0, <1>5, <1>6 DEF CompleteIo, logvars, regions, system, Unmoved
  <1>9. CASE g = <<>>
    <2>1. PICK c : c = [b EXCEPT !.stage = "refresh"]
      OBVIOUS
    <2>2. call' = [call EXCEPT ![t] = c] /\ ctx' = ctx /\ answer' = answer
      BY <1>0, <1>5, <1>6, <1>7, <1>9, <2>1 DEF CompleteIo, Set
    <2>3. /\ IsCall(c) /\ c.pc = "completing" /\ c.stage = "refresh" /\ c.target = "cur"
          /\ c.todo = b.todo /\ c.disk = b.disk /\ c.retrying = b.retrying
      BY <1>3, <1>5, <2>1 DEF IsCall, CallFields
    <2>4. LocalInv(t, c, x) /\ c.pc # "swap"
      BY <1>1, <1>4, <1>5, <2>3, BetweenLocal
    <2>5. QED
      BY <1>0, <1>8, <2>2, <2>4, LocalStep
  <1>10. CASE g # <<>>
    <2>1. PICK r, y : r = Head(g) /\ y = Popped(x)
      OBVIOUS
    <2>2. Taken(t, x, y, r) /\ ResponseInv(r)
      BY <1>1, <1>7, <1>10, <2>1, PoppedTaken
    <2>3. ctx' = [ctx EXCEPT ![t] = y]
      BY <1>0, <1>5, <1>6, <1>7, <1>10, <2>1 DEF CompleteIo
    <2>4. Held(t, x, r) /\ ReqInv(t, r) /\ IsReq(t, r) /\ IoInv(r)
      BY <2>2 DEF Taken, Held, ReqInv, ResponseInv
    <2>5. CASE r.op = "rmw"
      <3>1. PICK c : c = [b EXCEPT !.pc = "internal", !.req = r, !.disk = TRUE]
        OBVIOUS
      <3>2. call' = [call EXCEPT ![t] = c] /\ answer' = answer
        BY <1>0, <1>5, <1>6, <1>7, <1>10, <2>1, <2>5, <3>1 DEF CompleteIo, Set
      <3>3. /\ IsCall(c) /\ c.pc = "internal" /\ c.req = r /\ c.disk = TRUE
            /\ c.stage = "io" /\ c.target = "cur" /\ c.todo = b.todo /\ c.retrying = b.retrying
        BY <1>5, <3>1 DEF IsCall, CallFields
      <3>4. LookInv(c)
        BY <2>2, <3>3 DEF LookInv, Done, Looked
      <3>5. ~Finished(c)
        BY <3>3 DEF Finished, Done
      <3>6. LocalInv(t, c, y)
        BY <1>1, <1>4, <1>5, <2>2, <2>5, <3>3, <3>4, <3>5, TakenLocal
      <3>7. c.pc # "swap"
        BY <3>3
      <3>8. QED
        BY <1>8, <2>3, <3>2, <3>6, <3>7, LocalStep
    <2>6. CASE r.op = "read"
      <3>0. PICK st, v : st = ReadStatus(t, x, r) /\ v = DiskValue(r)
        OBVIOUS
      <3>1. PICK c : c = [b EXCEPT !.pc = "handle", !.req = r, !.status = st]
        OBVIOUS
      <3>2. call' = [call EXCEPT ![t] = c] /\ answer' = [answer EXCEPT ![r.id] = <<v>>]
        BY <1>0, <1>5, <1>6, <1>7, <1>10, <2>1, <2>6, <3>0, <3>1 DEF CompleteIo, Set
      <3>3. /\ IsCall(c) /\ c.pc = "handle" /\ c.req = r /\ c.disk = b.disk /\ c.status = st
            /\ c.stage = "io" /\ c.target = "cur" /\ c.todo = b.todo /\ c.retrying = b.retrying
        BY <1>5, <3>1 DEF IsCall, CallFields
      <3>4. st \in Done
        BY <3>0 DEF ReadStatus, Done
      <3>5. LookInv(c)
        BY <2>6, <3>3, <3>4 DEF LookInv, Looked, Done
      <3>6. LocalInv(t, c, y)
        BY <1>1, <1>4, <1>5, <2>2, <2>6, <3>3, <3>5, TakenLocal
      <3>7. v \in seen[r.id]
        <4>1. /\ r.address \in 0 .. Len(log) /\ Val(log, r.key, r.address) \in seen[r.id]
              /\ r.address = Match(log, r.key, r.address, 1)
          BY <2>2, <2>6 DEF ResponseInv, IoInv
        <4>2. v = Val(log, r.key, r.address)
          <5>1. PICK a : a = r.address /\ a \in Nat
            BY <4>1 
          <5>2. a = Match(log, r.key, a, 1)
            BY <4>1, <5>1
          <5>3. v = IF a = 0 THEN NoValue ELSE log[a].value
            BY <3>0, <5>1 DEF DiskValue, begin_address
          <5>4. QED
            BY <5>1, <5>2, <5>3 DEF Val
        <4>3. QED
          BY <4>1, <4>2
      <3>8. HistoryInv'
        <4>1. Ids' = Ids /\ seen' = seen /\ applied' = applied
          BY <1>8 DEF Unmoved, Ids
        <4>2. DOMAIN seen = Ids /\ DOMAIN answer = Ids /\ DOMAIN applied = Ids
              /\ \A i \in Ids : Range(answer[i]) \subseteq seen[i]
          BY DEF OpsInv, HistoryInv
        <4>3. Range(<<v>>) = {v}
          BY DEF Range
        <4>4. \A i \in Ids : Range(answer'[i]) \subseteq seen[i]
          BY <3>2, <3>7, <4>2, <4>3
        <4>5. DOMAIN answer' = Ids
          BY <3>2, <4>2
        <4>6. QED
          BY <4>1, <4>2, <4>4, <4>5 DEF HistoryInv
      <3>9. c.pc # "swap"
        BY <3>3
      <3>10. QED
        BY <1>8, <2>3, <3>2, <3>6, <3>8, <3>9, LocalStep
    <2>7. r.op = "rmw" \/ r.op = "read"
      BY <1>0, <1>5, <1>6, <1>7, <1>10, <2>1 DEF CompleteIo
    <2>8. QED
      BY <2>5, <2>6, <2>7
  <1>11. QED
    BY <1>9, <1>10

LEMMA OpsCompleteRetry ==
  ASSUME OpsInv, SnapshotInv', NEW t \in Thread, CompleteRetry(t)
  PROVE  OpsInv'
  <1>0. PICK b, x : b = call[t] /\ x = ctx[t]
    OBVIOUS
  <1>1. LocalInv(t, b, x)
    BY <1>0 DEF OpsInv
  <1>2. CallInv(t, b, x) /\ CtxInv(t, x)
    BY <1>1 DEF LocalInv
  <1>3. b.pc = "completing" /\ b.stage \in {"retry", "prev retry"}
    BY <1>0 DEF CompleteRetry, At
  <1>4. ~InCall(b)
    BY <1>3 DEF InCall
  <1>5. /\ IsCall(b) /\ b.target = "cur" /\ b.stage = "retry" /\ b.todo \in Nat
        /\ ~b.disk /\ ~b.retrying /\ b.todo <= Len(x.retry_requests) /\ x.phase = "REST"
    BY <1>2, <1>3, <1>4 DEF CallInv, CtxInv
  <1>6. ContextOf(t) = x
    BY <1>0, <1>5 DEF ContextOf
  <1>7. PICK s : s = x.retry_requests
    OBVIOUS
  <1>8. Unmoved /\ answer' = answer
    BY <1>0, <1>5, <1>6 DEF CompleteRetry, logvars, regions, system, history, Unmoved
  <1>9. CASE b.todo = 0
    <2>1. call' = [call EXCEPT ![t] = IdleCall] /\ ctx' = ctx
      BY <1>0, <1>5, <1>6, <1>7, <1>9 DEF CompleteRetry, Set
    <2>2. PICK c : c = IdleCall
      OBVIOUS
    <2>3. /\ IsCall(c) /\ c.pc = "idle" /\ c.stage = "none" /\ c.target = "cur"
          /\ c.todo = 0 /\ c.disk = FALSE /\ c.retrying = FALSE
      BY <2>2 DEF IsCall, CallFields, IdleCall
    <2>4. LocalInv(t, c, x) /\ c.pc # "swap"
      BY <1>1, <1>4, <1>5, <2>3, BetweenLocal
    <2>5. QED
      BY <1>0, <1>8, <2>1, <2>2, <2>4, LocalStep
  <1>10. CASE b.todo > 0
    <2>1. PICK r, y : r = Head(s) /\ y = [x EXCEPT !.retry_requests = Tail(@)]
      OBVIOUS
    <2>0. IsSeq(s)
      BY <1>2, <1>7 DEF CtxInv
    <2>a. Len(s) \in Nat
      BY <2>0 DEF IsSeq
    <2>b. Len(s) > 0
      BY <1>5, <1>7, <1>10, <2>a
    <2>2. /\ Taken(t, x, y, r) /\ Len(s) = Len(y.retry_requests) + 1
          /\ Len(y.retry_requests) \in Nat
      BY <1>1, <1>7, <2>1, <2>b, RetryTaken
    <2>3. ctx' = [ctx EXCEPT ![t] = y]
      <3>1. ctx' = [ctx EXCEPT ![t].retry_requests = Tail(@)]
        BY <1>0, <1>5, <1>9, <1>10 DEF CompleteRetry
      <3>2. QED
        BY <1>0, <2>1, <3>1
    <2>4. Held(t, x, r) /\ ReqInv(t, r) /\ IsReq(t, r)
      BY <2>2 DEF Taken, Held, ReqInv
    <2>7. PICK n : n = b.todo - 1
      OBVIOUS
    <2>8. PICK c : c = TakenUp(b, r)
      OBVIOUS
    <2>9. call' = [call EXCEPT ![t] = c]
      <3>1. Set(t, TakenUp(b, Head(ContextOf(t).retry_requests)))
        BY <1>0, <1>5, <1>10 DEF CompleteRetry
      <3>2. Head(ContextOf(t).retry_requests) = r
        BY <1>6, <1>7, <2>1
      <3>3. Set(t, c)
        BY <2>8, <3>1, <3>2
      <3>4. QED
        BY <3>3 DEF Set
    <2>10. /\ IsCall(c) /\ c.pc = "internal" /\ c.req = r /\ c.disk = b.disk
           /\ c.stage = "retry" /\ c.target = "cur" /\ c.todo = n
      BY <1>5, <2>4, <2>7, <2>8 DEF IsCall, CallFields, TakenUp
    <2>11. n \in Nat /\ n <= Len(y.retry_requests)
      BY <1>5, <1>7, <1>10, <2>2, <2>7, <2>a
    <2>12. LookInv(c)
      BY <1>5, <2>10 DEF LookInv, Done, Looked
    <2>13. ~Finished(c)
      BY <2>10 DEF Finished, Done
    <2>14. LocalInv(t, c, y)
      BY <1>1, <1>4, <1>5, <2>2, <2>10, <2>11, <2>12, <2>13, TakenLocal
    <2>15. c.pc # "swap"
      BY <2>10
    <2>16. QED
      BY <1>8, <2>3, <2>9, <2>14, <2>15, LocalStep
  <1>11. QED
    BY <1>5, <1>9, <1>10

-----------------------------------------------------------------------------
(***************************************************************************)
(* An operation begins.                                                    *)
(***************************************************************************)
\* The call c of thread t begins the operation o with the number n, and the id i.
Begins(t, x, n, i, o, c) ==
  /\ n = x.serial_num + 1 /\ n \in DOMAIN plan.ops[t]
  /\ i = <<t, n>> /\ o = plan.ops[t][n] /\ o.op \in {"read", "upsert", "rmw"}
  /\ c = [IdleCall EXCEPT !.pc = "internal", !.req = PendingContext(i, o)]

LEMMA BeginLocal ==
  ASSUME OpsInv, NEW t \in Thread, NEW b, NEW x, LocalInv(t, b, x), ~InCall(b),
         NEW n, NEW i, NEW o, NEW c, Begins(t, x, n, i, o, c)
  PROVE  /\ IsCall(c) /\ c.pc = "internal" /\ c.target = "cur" /\ c.stage = "none"
         /\ c.todo = 0 /\ c.disk = FALSE /\ c.retrying = FALSE
         /\ IsReq(t, c.req) /\ c.req.id = i /\ c.req.op = o.op /\ c.req.key = o.key
         /\ i \notin PendIds(x) /\ ~Begun(b, x, i)
  <1>0. /\ n = x.serial_num + 1 /\ n \in DOMAIN plan.ops[t]
        /\ i = <<t, n>> /\ o = plan.ops[t][n] /\ o.op \in {"read", "upsert", "rmw"}
        /\ c = [IdleCall EXCEPT !.pc = "internal", !.req = PendingContext(i, o)]
    BY DEF Begins
  <1>1. PICK r : r = PendingContext(i, o)
    OBVIOUS
  <1>2. /\ DOMAIN r = ReqFields /\ r.id = i /\ r.op = o.op /\ r.key = o.key /\ r.arg = o.arg
    BY <1>1 DEF PendingContext, ReqFields
  <1>3. /\ IsCall(c) /\ c.pc = "internal" /\ c.target = "cur" /\ c.stage = "none"
        /\ c.todo = 0 /\ c.disk = FALSE /\ c.retrying = FALSE /\ c.req = r
    BY <1>0, <1>1 DEF IsCall, CallFields, IdleCall
  <1>4. IsReq(t, r)
    BY <1>0, <1>2 DEF IsReq
  <1>5. CtxInv(t, x)
    BY DEF LocalInv
  <1>6. x.serial_num \in Nat /\ Len(plan.ops[t]) \in Nat
    BY <1>5, OpsTyped DEF CtxInv
  <1>7. i[2] = n /\ ~(n <= x.serial_num)
    BY <1>0, <1>6
  <1>8. i \notin PendIds(x)
    <2>1. \A q \in x.pending_ios : q.id[2] <= x.serial_num
      BY <1>5 DEF CtxInv, Held
    <2>2. \A j \in 1 .. Len(x.retry_requests) : x.retry_requests[j].id[2] <= x.serial_num
      BY <1>5 DEF CtxInv, Held
    <2>3. QED
      BY <1>7, <2>1, <2>2 DEF PendIds
  <1>9. ~Begun(b, x, i)
    BY <1>7 DEF Begun
  <1>10. QED
    BY <1>2, <1>3, <1>4, <1>8, <1>9

LEMMA OpsBegin ==
  ASSUME PlainPlan, OpsInv, SnapshotInv', NEW t \in Thread, Begin(t)
  PROVE  OpsInv'
  <1>0. PICK b, x : b = call[t] /\ x = ctx[t]
    OBVIOUS
  <1>1. LocalInv(t, b, x)
    BY <1>0 DEF OpsInv
  <1>2. CtxInv(t, x) /\ Distinct(x) /\ AppliedInv(t, b, x)
    BY <1>1 DEF LocalInv
  <1>3. ~InCall(b)
    BY <1>0 DEF Begin, At, InCall
  <1>4. /\ Len(plan.ops[t]) \in Nat /\ DOMAIN plan.ops[t] = 1 .. Len(plan.ops[t])
        /\ \A o \in Range(plan.ops[t]) : o.op \in {"read", "upsert", "rmw", "delete"}
    BY OpsTyped
  <1>5. x.serial_num \in 0 .. Len(plan.ops[t]) /\ x.serial_num < Len(plan.ops[t])
    BY <1>0, <1>2 DEF Begin, CtxInv
  <1>6. PICK n : n = x.serial_num + 1
    OBVIOUS
  <1>7. n \in DOMAIN plan.ops[t]
    BY <1>4, <1>5, <1>6
  <1>8. PICK i, o : i = <<t, n>> /\ o = plan.ops[t][n]
    OBVIOUS
  <1>9. o.op \in {"read", "upsert", "rmw"}
    <2>1. o \in Range(plan.ops[t])
      BY <1>7, <1>8 DEF Range
    <2>2. o.op # "delete"
      BY <2>1 DEF PlainPlan
    <2>3. QED
      BY <1>4, <2>1, <2>2
  <1>10. PICK c : c = [IdleCall EXCEPT !.pc = "internal", !.req = PendingContext(i, o)]
    OBVIOUS
  <1>11. /\ IsCall(c) /\ c.pc = "internal" /\ c.target = "cur" /\ c.stage = "none"
         /\ c.todo = 0 /\ c.disk = FALSE /\ c.retrying = FALSE
         /\ IsReq(t, c.req) /\ c.req.id = i /\ c.req.op = o.op /\ c.req.key = o.key
         /\ i \notin PendIds(x) /\ ~Begun(b, x, i)
    <2>1. Begins(t, x, n, i, o, c)
      BY <1>6, <1>7, <1>8, <1>9, <1>10 DEF Begins
    <2>2. QED
      BY <1>1, <1>3, <2>1, BeginLocal
  <1>12. /\ call' = [call EXCEPT ![t] = c]
         /\ seen' = IF o.op = "read" THEN [seen EXCEPT ![i] = {truth[o.key]}] ELSE seen
    <2>1. ctx[t].serial_num + 1 = n
      BY <1>0, <1>6
    <2>2. i[2] = n
      BY <1>8
    <2>3. QED
      BY <1>8, <1>10, <2>1, <2>2 DEF Begin, Set
  <1>13. UNCHANGED <<plan, log, entry, head, safe_ro, sys, ctx, prev, env, truth, answer, applied>>
    BY DEF Begin, logvars, regions, system
  <1>14. i \in Ids /\ DOMAIN seen = Ids /\ Ids' = Ids
    <2>1. i \in {<<t, m>> : m \in DOMAIN plan.ops[t]}
      BY <1>7, <1>8
    <2>2. i \in Ids
      BY <2>1 DEF Ids
    <2>3. QED
      BY <1>13, <2>2 DEF OpsInv, HistoryInv, Ids
  <1>15. seen[i] = {}
    BY <1>2, <1>7, <1>8, <1>11 DEF AppliedInv
  <1>16. /\ DOMAIN seen' = Ids /\ \A j \in Ids : j # i => seen'[j] = seen[j]
         /\ o.op = "read" => seen'[i] = {truth[o.key]}
    BY <1>12, <1>14
  <1>17. Onward
    <2>1. /\ IsLog(log) /\ entry \in 0 .. Len(log) /\ head \in Nat /\ safe_ro \in Nat
      BY DEF OpsInv, ChainInv, SnapshotInv, RegionsInv
    <2>2. Extends(log, log')
      BY <1>13, <2>1 DEF Extends, IsLog
    <2>3. Reach(log', entry, entry')
      BY <1>13, <2>1, ReachStep
    <2>4. ASSUME NEW u \in Thread, NEW m \in DOMAIN plan.ops[u]
          PROVE  SeenMoves(<<u, m>>, plan.ops[u][m].key)
      <3>1. PICK j, k : j = <<u, m>> /\ k = plan.ops[u][m].key
        OBVIOUS
      <3>2. j \in {<<u, l>> : l \in DOMAIN plan.ops[u]}
        BY <3>1
      <3>3. j \in Ids
        BY <3>2 DEF Ids
      <3>4. seen'[j] = seen[j] \/ seen[j] = {}
        BY <1>15, <1>16, <3>3
      <3>5. SeenMoves(j, k)
        BY <1>13, <3>4 DEF SeenMoves
      <3>6. QED
        BY <3>1, <3>5
    <2>5. QED
      BY <1>13, <2>1, <2>2, <2>3, <2>4 DEF Onward
  <1>18. ChainInv'
    <2>1. Keys' = Keys
      BY <1>13 DEF Keys
    <2>2. RmwInv'
      BY <1>13 DEF OpsInv, ChainInv, RmwInv
    <2>3. QED
      BY <1>13, <2>1, <2>2 DEF OpsInv, ChainInv
  <1>19. HistoryInv'
    <2>1. /\ DOMAIN answer = Ids /\ DOMAIN applied = Ids
          /\ \A j \in Ids : Range(answer[j]) \subseteq seen[j]
      BY DEF OpsInv, HistoryInv
    <2>2. \A j \in Ids : Range(answer[j]) \subseteq seen'[j]
      BY <1>15, <1>16, <2>1
    <2>3. QED
      BY <1>13, <1>14, <1>16, <2>1, <2>2 DEF HistoryInv
  <1>20. AppliedElsewhere(t)
    <2>1. ASSUME NEW u \in Thread, u # t, NEW m \in DOMAIN plan.ops[u]
          PROVE  seen'[<<u, m>>] = seen[<<u, m>>]
      <3>1. <<u, m>> \in {<<u, l>> : l \in DOMAIN plan.ops[u]}
        OBVIOUS
      <3>2. <<u, m>> \in Ids /\ <<u, m>> # i
        BY <1>8, <2>1, <3>1 DEF Ids
      <3>3. QED
        BY <1>16, <3>2
    <2>2. QED
      BY <1>13, <2>1 DEF AppliedElsewhere
  <1>21. DOMAIN call = Thread /\ DOMAIN ctx = Thread
    BY DEF OpsInv, SnapshotInv
  <1>22. Goes(t, c, x)
    BY <1>0, <1>12, <1>13, <1>21 DEF Goes
  <1>23. PlainInv'
    BY <1>13, PlainKept
  <1>24. SwapsInv'
    <2>1. ASSUME NEW u \in Thread
          PROVE  SwapInv(call[u])' /\ (call'[u].pc = "swap" => call'[u] = call[u])
      <3>1. CASE u = t
        BY <1>11, <1>22, <3>1 DEF Goes, SwapInv
      <3>2. CASE u # t
        <4>1. PICK d : d = call[u] /\ d = call'[u]
          BY <1>22, <3>2 DEF Goes
        <4>2. SwapInv(d)
          BY <4>1 DEF OpsInv, SwapsInv
        <4>3. SwapInv(d)'
          BY <1>13, <4>2 DEF SwapInv
        <4>4. QED
          BY <4>1, <4>3
      <3>3. QED
        BY <3>1, <3>2
    <2>2. QED
      BY <2>1 DEF OpsInv, SwapsInv
  <1>25. CtxInv(t, x)'
    BY <1>2, <1>17, OnCtx
  <1>26. InCall(c) /\ ~Finished(c) /\ ~Continued(c)
    BY <1>11 DEF InCall, Finished, Done, Continued
  <1>27. CallInv(t, c, x)'
    <2>1. PICK r : r = c.req
      OBVIOUS
    <2>2. IsReq(t, r)'
      BY <1>11, <1>13, <2>1 DEF IsReq
    <2>3. r.op = "read" => truth'[r.key] \in seen'[r.id]
      BY <1>11, <1>13, <1>16, <2>1
    <2>4. ReqInv(t, r)'
      BY <2>2, <2>3 DEF ReqInv
    <2>5. r.id[2] = x.serial_num + 1
      BY <1>6, <1>8, <1>11, <2>1
    <2>6. QED
      BY <1>11, <1>26, <2>1, <2>2, <2>4, <2>5 DEF CallInv
  <1>28. LookInv(c)'
    BY <1>11 DEF LookInv, Done, Looked
  <1>29. ASSUME NEW m \in DOMAIN plan.ops[t]
         PROVE  /\ Waiting(c, x, <<t, m>>) => applied[<<t, m>>] = <<>>
                /\ ~Waiting(c, x, <<t, m>>) /\ plan.ops[t][m].op # "read" => Len(applied[<<t, m>>]) = 1
                /\ ~Begun(c, x, <<t, m>>) => seen'[<<t, m>>] = {}
    <2>1. /\ Waiting(b, x, <<t, m>>) => applied[<<t, m>>] = <<>>
          /\ ~Waiting(b, x, <<t, m>>) /\ plan.ops[t][m].op # "read" => Len(applied[<<t, m>>]) = 1
          /\ ~Begun(b, x, <<t, m>>) => seen[<<t, m>>] = {}
      BY <1>2 DEF AppliedInv
    <2>2. PICK j : j = <<t, m>>
      OBVIOUS
    <2>3. Waiting(c, x, j) <=> Waiting(b, x, j)
      BY <1>3, <1>11, <1>26 DEF Waiting, Begun
    <2>4. ~Begun(c, x, j) => ~Begun(b, x, j) /\ j # i
      BY <1>3, <1>11, <1>26 DEF Begun
    <2>5. j \in {<<t, l>> : l \in DOMAIN plan.ops[t]}
      BY <2>2
    <2>6. j \in Ids
      BY <2>5 DEF Ids
    <2>7. QED
      BY <1>16, <2>1, <2>2, <2>3, <2>4, <2>6
  <1>30. AppliedInv(t, c, x)'
    BY <1>13, <1>29 DEF AppliedInv
  <1>31. LocalInv(t, c, x)'
    BY <1>2, <1>25, <1>27, <1>28, <1>30 DEF LocalInv
  <1>32. QED
    BY <1>17, <1>18, <1>19, <1>20, <1>22, <1>23, <1>24, <1>31, OpsStep

LEMMA OpsNext ==
  ASSUME PlainPlan, OpsInv, [Next]_vars
  PROVE  OpsInv'
  <1>0. SnapshotInv'
    BY SnapshotNext DEF OpsInv
  <1>1. CASE UNCHANGED vars
    <2>1. /\ UNCHANGED <<call, ctx, answer>> /\ UNCHANGED <<plan, sys, env, prev>> /\ Unmoved
      BY <1>1 DEF vars, logvars, regions, system, history, Unmoved
    <2>2. Still /\ PlainInv'
      BY <2>1, UnmovedStill
    <2>3. QED
      BY <1>0, <2>1, <2>2, SameStep
  <1>2. CASE ShiftReadOnly \/ ShiftHead
    BY <1>0, <1>2, OpsShift
  <1>3. ASSUME NEW t \in Thread, Step(t) PROVE OpsInv'
    <2>1. ~Recheck(t) /\ ~DropEntry(t) /\ ~PivotAndRetry(t)
      BY OpsNever
    <2>2. CASE Lookup(t) \/ DecideRead(t) \/ DecideUpdate(t) \/ UpdateInPlace(t)
      BY <1>0, <2>2, OpsLookup, OpsDecideRead, OpsDecideUpdate, OpsUpdateInPlace
    <2>3. CASE CreateRecord(t) \/ ContinueRmw(t)
      BY <1>0, <2>3, OpsCreateRecord, OpsContinueRmw
    <2>4. CASE SwapEntry(t)
      BY <1>0, <2>4, OpsSwapSucceeds, OpsSwapFails
    <2>5. CASE HandleDone(t) \/ HandleUnmark(t) \/ HandleRetryNow(t) \/ GoPending(t)
      BY <1>0, <2>5, OpsHandle
    <2>6. CASE CompleteIo(t) \/ CompleteRefresh(t) \/ CompleteRetry(t)
      BY <1>0, <2>6, OpsCompleteIo, OpsCompleteRefresh, OpsCompleteRetry
    <2>7. QED
      BY <1>3, <2>1, <2>2, <2>3, <2>4, <2>5, <2>6 DEF Step
  <1>4. ASSUME NEW t \in Thread, Begin(t) \/ CallCompletePending(t) \/ HostRefresh(t)
                                 \/ AsyncGetFromDisk(t) \/ AwaitPage(t)
        PROVE  OpsInv'
    BY <1>0, <1>4, OpsBegin, OpsCallCompletePending, OpsHostRefresh, OpsAsyncGetFromDisk, OpsAwaitPage
  <1>5. ASSUME NEW t \in Thread PROVE ~Checkpoint(t)
    BY OpsNever
  <1>6. QED
    BY <1>1, <1>2, <1>3, <1>4, <1>5 DEF Next

-----------------------------------------------------------------------------
(***************************************************************************)
(* The initial states, and the theorems.                                   *)
(***************************************************************************)
\* A log in which every record points to the one before it.
LEMMA LastMatch ==
  ASSUME NEW lg, IsLog(lg), \A i \in 1 .. Len(lg) : lg[i].prev = i - 1, NEW k, NEW m,
         m = Match(lg, k, Len(lg), 1)
  PROVE  /\ m \in 0 .. Len(lg) /\ m \in Nat /\ (m # 0 => lg[m].key = k)
         /\ \A b \in 1 .. Len(lg) : lg[b].key = k => b <= m
  <1>0. PICK n \in Nat : n = Len(lg) /\ \A i \in 1 .. n : lg[i].prev = i - 1
    BY DEF IsLog
  <1>1. m \in 0 .. n /\ m \in Nat /\ (m < 1 \/ m = 0 \/ lg[m].key = k)
    BY <1>0, MatchRange
  <1>2. ASSUME NEW b \in 1 .. n, lg[b].key = k PROVE b <= m
    <2>1. DEFINE S == {i \in 0 .. n : b <= i => b <= Match(lg, k, i, 1)}
    <2>2. ASSUME NEW i \in 0 .. n, \A j \in 0 .. i - 1 : j \in S PROVE i \in S
      <3>1. Match(lg, k, i, 1) = IF i < 1 \/ i = 0 \/ lg[i].key = k THEN i
                                 ELSE Match(lg, k, lg[i].prev, 1)
        <4>1. i \in 0 .. Len(lg)
          BY <1>0
        <4>2. QED
          BY <4>1, MatchStep
      <3>2. CASE i < 1 \/ i = 0 \/ lg[i].key = k
        BY <3>1, <3>2
      <3>3. CASE ~(i < 1 \/ i = 0 \/ lg[i].key = k)
        <4>1. i \in 1 .. n /\ lg[i].prev = i - 1 /\ i - 1 \in 0 .. i - 1 /\ i # b
          BY <1>0, <1>2, <3>3
        <4>2. i - 1 \in S
          BY <2>2, <4>1
        <4>3. QED
          BY <3>1, <3>3, <4>1, <4>2
      <3>4. QED
        BY <3>2, <3>3
    <2>3. 0 .. n \subseteq S
      <3>1. HIDE DEF S
      <3>2. QED
        BY <2>2, StrongInductionSet
    <2>4. QED
      BY <1>0, <2>3
  <1>3. QED
    BY <1>0, <1>1, <1>2

LEMMA InitialChain ==
  ASSUME Init
  PROVE  ChainInv
  <1>1. PICK p \in Plans : p = plan
    BY DEF Init
  <1>2. /\ p.log \in Seq(Range(p.log)) /\ p.ro \in 1 .. Len(p.log) + 1 /\ p.head \in 1 .. p.ro
    BY <1>1, PlansAssumption
  <1>a. PICK ks : ks = p.log
    OBVIOUS
  <1>3. PICK n \in Nat : n = Len(ks) /\ DOMAIN ks = 1 .. n
    BY <1>2, <1>a
  <1>4. log = [a \in 1 .. n |-> InitialRecord(ks, a)] /\ entry = n
    BY <1>1, <1>a, <1>3 DEF Init
  <1>5. PICK S : S = {InitialRecord(ks, a) : a \in 1 .. n}
    OBVIOUS
  <1>6. log \in [1 .. n -> S]
    BY <1>4, <1>5
  <1>7. log \in Seq(S) /\ Len(log) = n
    BY <1>3, <1>6
  <1>8. \A a \in 1 .. n : /\ DOMAIN log[a] = RecFields /\ log[a].prev = a - 1
                          /\ log[a].key = ks[a] /\ log[a].value = 10 * a /\ log[a].by = "upsert"
    BY <1>4 DEF InitialRecord, RecFields
  <1>9. IsLog(log) /\ Records(log)
    BY <1>7, <1>8 DEF IsLog, Records, IsSeq
  <1>10. entry \in 0 .. Len(log) /\ head \in Nat \ {0} /\ head <= safe_ro
    BY <1>1, <1>2, <1>a, <1>3, <1>4, <1>7 DEF Init
  <1>11. RmwInv
    BY <1>7, <1>8 DEF RmwInv
  <1>12. DOMAIN truth = Keys /\ \A k \in Keys : truth[k] = InitialValue(ks, k)
    BY <1>1, <1>a DEF Init
  <1>13. ASSUME NEW k PROVE Val(log, k, entry) = InitialValue(ks, k)
    <2>1. PICK m : m = Match(log, k, Len(log), 1)
      OBVIOUS
    <2>2. /\ m \in 0 .. Len(log) /\ m \in Nat /\ (m # 0 => log[m].key = k)
          /\ \A b \in 1 .. Len(log) : log[b].key = k => b <= m
      <3>1. IsLog(log) /\ \A i \in 1 .. Len(log) : log[i].prev = i - 1
        BY <1>7, <1>8, <1>9
      <3>2. QED
        BY <2>1, <3>1, LastMatch
    <2>3. m \in 0 .. n /\ (m # 0 => ks[m] = k) /\ \A b \in 1 .. n : ks[b] = k => b <= m
      BY <1>7, <1>8, <2>2
    <2>4. PICK at : at = {a \in DOMAIN ks : ks[a] = k}
      OBVIOUS
    <2>5. InitialValue(ks, k) = IF at = {} THEN NoValue
                                ELSE 10 * (CHOOSE a \in at : \A b \in at : b <= a)
      BY <2>4 DEF InitialValue
    <2>6. Val(log, k, entry) = IF m = 0 THEN NoValue ELSE log[m].value
      BY <1>4, <1>7, <2>1 DEF Val
    <2>7. CASE m = 0
      <3>1. at = {}
        BY <1>3, <2>3, <2>4, <2>7
      <3>2. QED
        BY <2>5, <2>6, <2>7, <3>1
    <2>8. CASE m # 0
      <3>1. m \in at /\ at \subseteq 1 .. n /\ \A b \in at : b <= m
        BY <1>3, <2>3, <2>4, <2>8
      <3>2. PICK l : l = CHOOSE a \in at : \A b \in at : b <= a
        OBVIOUS
      <3>3. l \in at /\ \A b \in at : b <= l
        BY <3>1, <3>2
      <3>4. l = m
        BY <3>1, <3>3
      <3>5. log[m].value = 10 * m
        BY <1>8, <2>3, <2>8
      <3>6. QED
        BY <2>5, <2>6, <2>8, <3>1, <3>2, <3>4, <3>5
    <2>9. QED
      BY <2>7, <2>8
  <1>14. QED
    BY <1>9, <1>10, <1>11, <1>12, <1>13 DEF ChainInv

LEMMA OpsInit ==
  ASSUME PlainPlan, Init
  PROVE  OpsInv
  <1>1. SnapshotInv /\ ChainInv
    BY SnapshotInit, InitialChain
  <1>2. PlainInv
    <2>1. plan \in Plans /\ env = plan.env /\ sys.phase = "REST"
      BY DEF Init
    <2>2. env \in [shifts : Nat, heads : Nat, fills : Nat, checkpoints : Nat]
      BY <2>1, PlansAssumption
    <2>3. env.checkpoints = 0
      BY <2>1 DEF PlainPlan
    <2>4. \A t \in Thread : prev[t].pending_ios = {}
      BY DEF Init, ExecutionContext
    <2>5. QED
      BY <2>1, <2>2, <2>3, <2>4 DEF PlainInv
  <1>3. HistoryInv
    <2>1. seen = [i \in Ids |-> {}] /\ answer = [i \in Ids |-> <<>>] /\ applied = [i \in Ids |-> <<>>]
      BY DEF Init
    <2>2. Range(<<>>) = {}
      BY DEF Range
    <2>3. QED
      BY <2>1, <2>2 DEF HistoryInv
  <1>4. DOMAIN call = Thread /\ \A t \in Thread : call[t] = IdleCall
    BY DEF Init
  <1>5. IsCall(IdleCall) /\ IdleCall.pc = "idle" /\ IdleCall.stage = "none" /\ IdleCall.target = "cur"
        /\ IdleCall.todo = 0 /\ IdleCall.disk = FALSE /\ IdleCall.retrying = FALSE
    BY DEF IsCall, IdleCall, CallFields
  <1>6. SwapsInv
    BY <1>4, <1>5 DEF SwapsInv, SwapInv
  <1>7. DOMAIN ctx = Thread /\ \A t \in Thread : ctx[t] = ExecutionContext("REST", 1, 0)
    BY DEF Init
  <1>8. ASSUME NEW t \in Thread PROVE LocalInv(t, call[t], ctx[t])
    <2>1. PICK c, x : c = call[t] /\ x = ctx[t]
      OBVIOUS
    <2>2. /\ IsCall(c) /\ c.pc = "idle" /\ c.stage = "none" /\ c.target = "cur"
          /\ c.todo = 0 /\ c.disk = FALSE /\ c.retrying = FALSE
      BY <1>4, <1>5, <2>1
    <2>3. /\ DOMAIN x = CtxFields /\ x.phase = "REST" /\ x.serial_num = 0
          /\ x.retry_requests = <<>> /\ x.pending_ios = {} /\ x.io_responses = <<>>
      BY <1>7, <2>1 DEF ExecutionContext, CtxFields
    <2>4. PICK s : s = plan.ops[t]
      OBVIOUS
    <2>5. Len(s) \in Nat /\ DOMAIN s = 1 .. Len(s)
      <3>1. plan \in Plans
        BY DEF Init
      <3>2. PICK S : s \in Seq(S)
        BY <2>4, <3>1, PlansAssumption
      <3>3. QED
        BY <3>2
    <2>6. PICK e : e = <<>>
      OBVIOUS
    <2>7. IsSeq(e) /\ Len(e) = 0
      <3>1. e \in Seq({})
        BY <2>6
      <3>2. QED
        BY <2>6, <3>1 DEF IsSeq
    <2>8. \A j : j \notin 1 .. Len(e)
      BY <2>7
    <2>9. CtxInv(t, x)
      BY <2>3, <2>4, <2>5, <2>6, <2>7, <2>8 DEF CtxInv
    <2>10. DistinctIds(e, {}, e)
      BY <2>8 DEF DistinctIds
    <2>11. Distinct(x)
      BY <2>3, <2>6, <2>10 DEF Distinct
    <2>12. ~InCall(c)
      BY <2>2 DEF InCall
    <2>13. CallInv(t, c, x) /\ LookInv(c)
      BY <2>2, <2>12 DEF CallInv, LookInv, Done, Looked
    <2>14. ASSUME NEW m \in DOMAIN plan.ops[t]
           PROVE  Waiting(c, x, <<t, m>>) /\ ~Begun(c, x, <<t, m>>)
                  /\ applied[<<t, m>>] = <<>> /\ seen[<<t, m>>] = {}
      <3>1. PICK i : i = <<t, m>>
        OBVIOUS
      <3>2. i \in {<<t, l>> : l \in DOMAIN plan.ops[t]}
        BY <3>1
      <3>3. i \in Ids
        BY <3>2 DEF Ids
      <3>4. applied[i] = <<>> /\ seen[i] = {}
        BY <3>3 DEF Init
      <3>5. i[2] = m /\ m \in Nat /\ ~(m <= 0)
        BY <2>4, <2>5, <3>1
      <3>6. ~Begun(c, x, i)
        BY <2>3, <2>12, <3>5 DEF Begun
      <3>7. Waiting(c, x, i)
        BY <3>6 DEF Waiting
      <3>8. QED
        BY <3>1, <3>4, <3>6, <3>7
    <2>15. AppliedInv(t, c, x)
      BY <2>14 DEF AppliedInv
    <2>16. QED
      BY <2>1, <2>9, <2>11, <2>13, <2>15 DEF LocalInv
  <1>9. QED
    BY <1>1, <1>2, <1>3, <1>6, <1>7, <1>8 DEF OpsInv

LEMMA OpsInvUpdates ==
  ASSUME OpsInv
  PROVE  NoUpdateLost /\ \A k \in Keys : Value(k) = truth[k]
  <1>1. ASSUME NEW k \in Keys PROVE Value(k) = truth[k]
    <2>1. PICK a : a = Match(log, k, entry, 1)
      OBVIOUS
    <2>2. TraceBackForKeyMatch(k, entry, begin_address) = a
      BY <2>1, TraceIsMatch DEF begin_address
    <2>3. Value(k) = IF a = 0 THEN NoValue ELSE log[a].value
      BY <2>2 DEF Value, kInvalidAddress
    <2>4. Val(log, k, entry) = IF a = 0 THEN NoValue ELSE log[a].value
      BY <2>1 DEF Val
    <2>5. Val(log, k, entry) = truth[k]
      BY DEF OpsInv, ChainInv
    <2>6. QED
      BY <2>3, <2>4, <2>5
  <1>2. ASSUME NEW i \in Updates
        PROVE  /\ Len(applied[i]) <= 1
               /\ i[2] <= ctx[i[1]].serial_num /\ i \notin Outstanding(i[1]) => applied[i] # <<>>
    <2>1. i \in Ids /\ plan.ops[i[1]][i[2]].op # "read"
      BY DEF Updates
    <2>2. PICK t \in Thread : i \in {<<t, l>> : l \in DOMAIN plan.ops[t]}
      BY <2>1 DEF Ids
    <2>3. PICK m \in DOMAIN plan.ops[t] : i = <<t, m>>
      BY <2>2
    <2>4. i[1] = t /\ i[2] = m
      BY <2>3
    <2>5. PICK c, x : c = call[t] /\ x = ctx[t]
      OBVIOUS
    <2>6. AppliedInv(t, c, x) /\ CtxInv(t, x)
      BY <2>5 DEF OpsInv, LocalInv
    <2>7. /\ Waiting(c, x, i) => applied[i] = <<>>
          /\ ~Waiting(c, x, i) => Len(applied[i]) = 1
      BY <2>1, <2>3, <2>4, <2>6 DEF AppliedInv
    <2>8. Len(applied[i]) <= 1
      <3>1. PICK v : v = applied[i]
        OBVIOUS
      <3>2. v = <<>> \/ Len(v) = 1
        BY <2>7, <3>1
      <3>3. Len(<<>>) = 0
        OBVIOUS
      <3>4. Len(v) \in {0, 1}
        BY <3>2, <3>3
      <3>5. \A l \in {0, 1} : l <= 1
        OBVIOUS
      <3>6. QED
        BY <3>1, <3>4, <3>5
    <2>9. ASSUME m <= x.serial_num, i \notin Outstanding(t) PROVE applied[i] # <<>>
      <3>1. i # c.req.id /\ i \notin {r.id : r \in x.pending_ios}
            /\ i \notin {r.id : r \in Range(x.retry_requests)}
        BY <2>5, <2>9 DEF Outstanding
      <3>2. IsSeq(x.retry_requests)
        BY <2>6 DEF CtxInv
      <3>3. PICK s : s = x.retry_requests
        OBVIOUS
      <3>4. \A j \in 1 .. Len(s) : s[j] \in Range(s)
        BY <3>2, <3>3 DEF IsSeq, Range
      <3>5. i \notin PendIds(x)
        BY <3>1, <3>3, <3>4 DEF PendIds
      <3>6. ~Waiting(c, x, i)
        BY <2>4, <2>9, <3>1, <3>5 DEF Waiting, Begun
      <3>7. QED
        BY <2>7, <3>6
    <2>10. QED
      BY <2>4, <2>5, <2>8, <2>9
  <1>3. QED
    BY <1>1, <1>2 DEF NoUpdateLost

\* No step changes the plan.
LEMMA PlanKept ==
  ASSUME [Next]_vars
  PROVE  plan' = plan
  <1>1. CASE UNCHANGED vars \/ ShiftReadOnly \/ ShiftHead
    BY <1>1 DEF vars, ShiftReadOnly, ShiftHead
  <1>2. ASSUME NEW t \in Thread, Step(t) PROVE plan' = plan
    <2>1. CASE Lookup(t) \/ DecideRead(t)
      BY <2>1 DEF Lookup, DecideRead
    <2>2. CASE DecideUpdate(t)
      BY <2>2 DEF DecideUpdate
    <2>3. CASE Recheck(t)
      BY <2>3 DEF Recheck
    <2>4. CASE UpdateInPlace(t)
      BY <2>4 DEF UpdateInPlace
    <2>5. CASE DropEntry(t) \/ CreateRecord(t)
      BY <2>5 DEF DropEntry, CreateRecord
    <2>6. CASE SwapEntry(t) \/ ContinueRmw(t)
      BY <2>6 DEF SwapEntry, ContinueRmw
    <2>7. CASE HandleDone(t) \/ HandleUnmark(t) \/ HandleRetryNow(t) \/ GoPending(t)
      BY <2>7 DEF HandleDone, HandleUnmark, HandleRetryNow, GoPending
    <2>8. CASE PivotAndRetry(t) \/ CompleteRefresh(t)
      BY <2>8 DEF PivotAndRetry, CompleteRefresh
    <2>9. CASE CompleteIo(t) \/ CompleteRetry(t)
      BY <2>9 DEF CompleteIo, CompleteRetry
    <2>10. QED
      BY <1>2, <2>1, <2>2, <2>3, <2>4, <2>5, <2>6, <2>7, <2>8, <2>9 DEF Step
  <1>3. ASSUME NEW t \in Thread, Begin(t) \/ CallCompletePending(t) \/ HostRefresh(t)
                                 \/ AsyncGetFromDisk(t) \/ AwaitPage(t) \/ Checkpoint(t)
        PROVE  plan' = plan
    BY <1>3 DEF Begin, CallCompletePending, HostRefresh, AsyncGetFromDisk, AwaitPage, Checkpoint
  <1>4. QED
    BY <1>1, <1>2, <1>3 DEF Next

\* With a plan that has no deletions and no checkpoints, for any number of threads,
\* keys, operations, records, moves of the regions and full pages, and with no key
\* exempt: what is found along the chain is what the upserts and Rmws that took effect add up to, and an
\* update that is done took effect just once, however it went (UpdateInPlace,
\* SwapEntry, GoPending, CompleteRetry, CompleteIo).
THEOREM NoUpdateIsLost ==
  Spec => [](PlainPlan => NoUpdateLost /\ \A k \in Keys : Value(k) = truth[k])
  <1>1. Init => (PlainPlan => OpsInv)
    BY OpsInit
  <1>2. (PlainPlan => OpsInv) /\ [Next]_vars => (PlainPlan => OpsInv)'
    <2>1. SUFFICES ASSUME PlainPlan => OpsInv, [Next]_vars, PlainPlan' PROVE OpsInv'
      OBVIOUS
    <2>2. PlainPlan
      BY <2>1, PlanKept DEF PlainPlan
    <2>3. QED
      BY <2>1, <2>2, OpsNext
  <1>3. (PlainPlan => OpsInv)
        => (PlainPlan => NoUpdateLost /\ \A k \in Keys : Value(k) = truth[k])
    BY OpsInvUpdates
  <1>4. QED
    BY <1>1, <1>2, <1>3, PTL DEF Spec

\* With the same plans a Read of any key answers a value that the key had between its
\* call and its answer, from memory (DecideRead) or from disk (AsyncGetFromDisk,
\* CompleteIo).
THEOREM ReadsAnswerTrue == Spec => [](PlainPlan => AnswersAreTrue /\ ReadsAreTrue)
  <1>1. Init => (PlainPlan => OpsInv)
    BY OpsInit
  <1>2. (PlainPlan => OpsInv) /\ [Next]_vars => (PlainPlan => OpsInv)'
    <2>1. SUFFICES ASSUME PlainPlan => OpsInv, [Next]_vars, PlainPlan' PROVE OpsInv'
      OBVIOUS
    <2>2. PlainPlan
      BY <2>1, PlanKept DEF PlainPlan
    <2>3. QED
      BY <2>1, <2>2, OpsNext
  <1>3. (PlainPlan => OpsInv) => (PlainPlan => AnswersAreTrue /\ ReadsAreTrue)
    BY DEF OpsInv, HistoryInv, AnswersAreTrue, ReadsAreTrue
  <1>4. QED
    BY <1>1, <1>2, <1>3, PTL DEF Spec
=============================================================================
