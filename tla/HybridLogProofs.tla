-------------------------- MODULE HybridLogProofs ---------------------------
(***************************************************************************)
(* EpochGuards: what a thread does between two refreshes is safe from the  *)
(* device and from the closing of pages, in every environment.  A drained  *)
(* action waits for every thread that may still use an address it passes;  *)
(* a submitted write ends at or below the safe read-only address.          *)
(***************************************************************************)
EXTENDS HybridLog, CountingProofs

LEMMA Sizes ==
  /\ BufferSize \in Nat /\ 2 <= BufferSize /\ kNumHeadPages \in Nat
  /\ kNumHeadPages < BufferSize /\ MutablePages \in Nat /\ PageSize \in Nat \ {0}
  /\ RecordSize \in Nat \ {0} /\ kCacheLineBytes \in Nat /\ kMaxOffset \in Nat
  BY SizesAssumption DEF kMaxOffset

-----------------------------------------------------------------------------
(***************************************************************************)
(* Addresses, pages and slots.                                             *)
(***************************************************************************)
LEMMA Starts ==
  ASSUME NEW p \in Nat, NEW q \in Nat
  PROVE  /\ Start(p) \in Nat /\ Start(p + 1) \in Nat /\ Start(p) < Start(p + 1)
         /\ p <= q => Start(p) <= Start(q)
         /\ p < q => Start(p + 1) <= Start(q)
  <1>1. PICK d \in Nat \ {0} : d = PageSize
    BY Sizes
  <1>2. p * d \in Nat /\ (p + 1) * d = p * d + d /\ q * d \in Nat
    BY Z3
  <1>3. ASSUME NEW a \in Nat, NEW b \in Nat, a <= b PROVE a * d <= b * d
    BY <1>3, Z3
  <1>4. QED
    BY <1>1, <1>2, <1>3 DEF Start

LEMMA AddressParts ==
  ASSUME NEW a \in Nat
  PROVE  /\ Page(a) \in Nat /\ Offset(a) \in 0 .. PageSize - 1
         /\ Start(Page(a)) \in Nat /\ a = Start(Page(a)) + Offset(a)
         /\ Start(Page(a)) <= a
  <1>1. PICK d \in Nat \ {0} : d = PageSize
    BY Sizes
  <1>2. PICK q \in Nat, r \in 0 .. d - 1 : q = a \div d /\ r = a % d /\ a = d * q + r
    BY DivMod
  <1>3. q * d = d * q /\ q * d \in Nat
    BY Z3
  <1>4. QED
    BY <1>1, <1>2, <1>3 DEF Start, Page, Offset

\* A flush up to u writes no page that starts at u or above.
LEMMA FlushedPages ==
  ASSUME NEW u \in Nat, NEW p \in Nat, p < EndPage(u)
  PROVE  Start(p) < u
  <1>1. Page(u) \in Nat /\ Start(Page(u)) <= u /\ u = Start(Page(u)) + Offset(u)
        /\ Offset(u) \in Nat /\ Start(Page(u)) \in Nat
    BY AddressParts, Sizes
  <1>2. CASE Offset(u) > 0
    <2>1. p <= Page(u)
      BY <1>1, <1>2 DEF EndPage
    <2>2. Start(p) \in Nat /\ Start(p) <= Start(Page(u))
      BY <1>1, <2>1, Starts
    <2>3. QED
      BY <1>1, <1>2, <2>2
  <1>3. CASE ~(Offset(u) > 0)
    <2>1. p < Page(u)
      BY <1>3 DEF EndPage
    <2>2. Start(p) \in Nat /\ Start(p) < Start(p + 1) /\ Start(p + 1) <= Start(Page(u))
          /\ Start(p + 1) \in Nat
      BY <1>1, <2>1, Starts
    <2>3. QED
      BY <1>1, <2>2
  <1>4. QED
    BY <1>2, <1>3

\* v is an address up to which page p can have been flushed.
Covers(p, v) == Start(p) < v /\ v <= Start(p + 1)

LEMMA OnePage ==
  ASSUME NEW p \in Nat, NEW q \in Nat, NEW v \in Nat, Covers(p, v), Covers(q, v)
  PROVE  p = q
  <1>1. /\ Start(p) \in Nat /\ Start(p + 1) \in Nat /\ Start(q) \in Nat /\ Start(q + 1) \in Nat
        /\ (p < q => Start(p + 1) <= Start(q)) /\ (q < p => Start(q + 1) <= Start(p))
    BY Starts
  <1>2. ~(p < q) /\ ~(q < p)
    BY <1>1 DEF Covers
  <1>3. QED
    BY <1>2

LEMMA SlotsTurn ==
  /\ \A p \in Nat : Slot(p) \in Slots
  /\ \A p \in Nat : Slot(p + BufferSize) = Slot(p) /\ Slot(p + 1) # Slot(p)
  /\ \A s \in Slots : Slot(s) = s
  <1>1. PICK d \in Nat \ {0} : d = BufferSize /\ 2 <= d
    BY Sizes
  <1>2. \A p \in Nat : p % d \in 0 .. d - 1
    BY DivMod
  <1>3. ASSUME NEW p \in Nat
        PROVE  (p + d) % d = p % d /\ (p + 1) % d # p % d
    <2>1. PICK q \in Nat, r \in 0 .. d - 1 : q = p \div d /\ r = p % d /\ p = d * q + r
      BY DivMod
    <2>2. d * (q + 1) = d * q + d
      BY Z3
    <2>3. p + d = d * (q + 1) + r
      BY <2>1, <2>2
    <2>4. (d * (q + 1) + r) % d = r
      BY DivModUnique
    <2>5. CASE r + 1 < d
      <3>1. PICK m \in Nat : m = r + 1 /\ m < d
        BY <2>5
      <3>2. (d * q + m) % d = m
        BY <3>1, DivModUnique
      <3>3. p + 1 = d * q + m
        BY <2>1, <3>1
      <3>4. QED
        BY <2>1, <2>3, <2>4, <3>1, <3>2, <3>3
    <2>6. CASE ~(r + 1 < d)
      <3>1. (d * (q + 1) + 0) % d = 0
        BY DivModUnique
      <3>2. p + 1 = d * (q + 1) + 0
        BY <2>1, <2>2, <2>6
      <3>3. r # 0
        BY <1>1, <2>6
      <3>4. QED
        BY <2>1, <2>3, <2>4, <3>1, <3>2, <3>3
    <2>7. QED
      BY <2>5, <2>6
  <1>4. ASSUME NEW s \in 0 .. d - 1 PROVE s % d = s
    <2>1. (d * 0 + s) % d = s
      BY DivModUnique
    <2>2. d * 0 + s = s
      BY Z3
    <2>3. QED
      BY <2>1, <2>2
  <1>5. QED
    BY <1>1, <1>2, <1>3, <1>4 DEF Slot, Slots

-----------------------------------------------------------------------------
(***************************************************************************)
(* The flushed-until address.                                              *)
(***************************************************************************)
\* What can be in last_flushed: a slot's address belongs to a page of the slot.
LastFlushed(last) ==
  /\ DOMAIN last = Slots
  /\ \A s \in Slots : /\ last[s] \in Nat
                      /\ last[s] # 0 => \E p \in Nat : Slot(p) = s /\ Covers(p, last[s])

LEMMA LastDiffers ==
  ASSUME NEW last, LastFlushed(last), NEW s \in Slots, NEW q \in Slots, s # q, last[s] = last[q]
  PROVE  last[s] = 0
  <1>1. SUFFICES ASSUME last[s] # 0 PROVE FALSE
    OBVIOUS
  <1>2. PICK v \in Nat : v = last[s] /\ v = last[q]
    BY DEF LastFlushed
  <1>3. PICK p \in Nat : Slot(p) = s /\ Covers(p, v)
    BY <1>1, <1>2 DEF LastFlushed
  <1>4. PICK r \in Nat : Slot(r) = q /\ Covers(r, v)
    BY <1>1, <1>2 DEF LastFlushed
  <1>5. QED
    BY <1>2, <1>3, <1>4, OnePage

\* The loop of ShiftFlushedUntilAddress ends: once around the buffer the
\* addresses cannot all keep rising, unless nothing was ever flushed.
LEMMA FlushedReached ==
  ASSUME NEW last, LastFlushed(last), flushed_until_address \in Nat,
         NEW s0 \in Slots, last[s0] # 0
  PROVE  ShiftFlushedUntilAddress(last) \in Nat
  <1>1. PICK f, B : f = Page(flushed_until_address) /\ B = BufferSize
    OBVIOUS
  <1>2. f \in Nat /\ B \in Nat /\ 2 <= B
    BY <1>1, AddressParts, Sizes
  <1>3. DEFINE reached(p) == IF p = f THEN flushed_until_address ELSE last[Slot(p - 1)]
               stops == {p \in f .. f + B : last[Slot(p)] < reached(p)}
               g(p) == last[Slot(p)]
  <1>4. \A p \in Nat : g(p) \in Nat
    BY SlotsTurn DEF LastFlushed
  <1>5. \A p \in f .. f + B : reached(p) \in Nat
    <2>1. ASSUME NEW p \in f .. f + B, p # f PROVE p - 1 \in Nat
      BY <1>2, <2>1
    <2>2. QED
      BY <1>4, <2>1
  <1>6. stops # {}
    <2>1. SUFFICES ASSUME \A p \in f .. f + B : ~(g(p) < reached(p)) PROVE FALSE
      OBVIOUS
    <2>2. ASSUME NEW i \in 0 .. B - 1 PROVE g(f + i) <= g(f + i + 1)
      <3>1. f + i + 1 \in f .. f + B /\ f + i + 1 # f /\ (f + i + 1) - 1 = f + i
            /\ f + i \in Nat /\ f + i + 1 \in Nat
        BY <1>2
      <3>2. reached(f + i + 1) = g(f + i)
        BY <3>1
      <3>3. QED
        BY <1>4, <2>1, <3>1, <3>2
    <2>3. DEFINE Up == {i \in 0 .. B : g(f) <= g(f + i)}
                 Down == {i \in 0 .. B : g(f + (B - i)) <= g(f + B)}
    <2>4. 0 .. B \subseteq Up
      <3>1. 0 \in Up
        <4>1. f + 0 = f /\ g(f) \in Nat
          BY <1>2, <1>4
        <4>2. QED
          BY <1>2, <4>1
      <3>2. ASSUME NEW n \in 0 .. B - 1, n \in Up PROVE n + 1 \in Up
        <4>1. n + 1 \in 0 .. B /\ f + (n + 1) = f + n + 1 /\ f + n \in Nat /\ f + n + 1 \in Nat
          BY <1>2
        <4>2. g(f) <= g(f + n) /\ g(f + n) <= g(f + n + 1)
          BY <2>2, <3>2
        <4>3. g(f) \in Nat /\ g(f + n) \in Nat /\ g(f + n + 1) \in Nat
          BY <1>2, <1>4, <4>1
        <4>4. g(f) <= g(f + (n + 1))
          BY <4>1, <4>2, <4>3
        <4>5. QED
          BY <4>1, <4>4
      <3>3. HIDE DEF Up
      <3>4. QED
        BY <1>2, <3>1, <3>2, UptoInductionSet
    <2>5. 0 .. B \subseteq Down
      <3>1. 0 \in Down
        <4>1. f + (B - 0) = f + B /\ f + B \in Nat /\ g(f + B) \in Nat
          BY <1>2, <1>4
        <4>2. QED
          BY <1>2, <4>1
      <3>2. ASSUME NEW n \in 0 .. B - 1, n \in Down PROVE n + 1 \in Down
        <4>1. PICK m \in 0 .. B - 1 : m = B - (n + 1)
          BY <1>2
        <4>2. n + 1 \in 0 .. B /\ f + (B - n) = f + m + 1 /\ f + (B - (n + 1)) = f + m
              /\ f + m \in Nat /\ f + m + 1 \in Nat /\ f + B \in Nat
          BY <1>2, <4>1
        <4>3. g(f + m) <= g(f + m + 1)
          BY <2>2
        <4>4. g(f + m + 1) <= g(f + B)
          BY <3>2, <4>2
        <4>5. g(f + m) \in Nat /\ g(f + m + 1) \in Nat /\ g(f + B) \in Nat
          BY <1>4, <4>2
        <4>6. g(f + (B - (n + 1))) <= g(f + B)
          BY <4>2, <4>3, <4>4, <4>5
        <4>7. QED
          BY <4>2, <4>6
      <3>3. HIDE DEF Down
      <3>4. QED
        BY <1>2, <3>1, <3>2, UptoInductionSet
    <2>6. g(f + B) = g(f)
      BY <1>1, <1>2, SlotsTurn
    <2>7. ASSUME NEW i \in 0 .. B PROVE g(f + i) = g(f)
      <3>1. g(f) <= g(f + i)
        BY <2>4
      <3>2. PICK j \in 0 .. B : j = B - i /\ B - j = i
        BY <1>2
      <3>3. g(f + (B - j)) <= g(f + B)
        BY <2>5
      <3>4. f + i \in Nat /\ g(f) \in Nat /\ g(f + i) \in Nat
        BY <1>2, <1>4
      <3>5. QED
        BY <2>6, <3>1, <3>2, <3>3, <3>4
    <2>8. g(f) = 0
      <3>1. Slot(f + 1) # Slot(f) /\ Slot(f) \in Slots /\ Slot(f + 1) \in Slots
        BY <1>2, SlotsTurn
      <3>2. 1 \in 0 .. B
        BY <1>2
      <3>3. g(f + 1) = g(f)
        BY <2>7, <3>2
      <3>4. QED
        BY <3>1, <3>3, LastDiffers
    <2>9. flushed_until_address = 0
      <3>1. f \in f .. f + B /\ reached(f) = flushed_until_address
        BY <1>2
      <3>2. ~(g(f) < flushed_until_address)
        BY <2>1, <3>1
      <3>3. QED
        BY <2>8, <3>2
    <2>10. f = 0
      <3>1. Start(f) \in Nat /\ Start(f) <= 0
        BY <1>1, <2>9, AddressParts
      <3>2. 0 < f => Start(0 + 1) <= Start(f)
        BY <1>2, Starts
      <3>3. Start(0) \in Nat /\ Start(0 + 1) \in Nat /\ Start(0) < Start(0 + 1)
        BY Starts
      <3>4. QED
        BY <1>2, <3>1, <3>2, <3>3
    <2>11. s0 \in 0 .. B /\ f + s0 = s0 /\ Slot(s0) = s0
      BY <1>1, <1>2, <2>10, SlotsTurn DEF Slots
    <2>12. QED
      BY <2>7, <2>8, <2>11
  <1>7. stops \subseteq Nat
    BY <1>2
  <1>8. PICK stop : stop = Min(stops)
    OBVIOUS
  <1>9. stop \in f .. f + B
    <2>1. PICK m \in stops : \A n \in stops : m <= n
      <3>1. HIDE DEF stops
      <3>2. QED
        BY <1>6, <1>7, LeastNat
    <2>2. stop \in stops
      BY <1>8, <2>1 DEF Min
    <2>3. QED
      BY <2>2
  <1>10. reached(stop) \in Nat
    BY <1>5, <1>9
  <1>11. ShiftFlushedUntilAddress(last) = MonotonicUpdate(flushed_until_address, reached(stop))
    BY <1>1, <1>8 DEF ShiftFlushedUntilAddress
  <1>12. QED
    BY <1>10, <1>11 DEF MonotonicUpdate

-----------------------------------------------------------------------------
(***************************************************************************)
(* The inductive invariant.                                                *)
(***************************************************************************)
TailRec == [page : Nat, offset : Nat]
CallRec ==
  [pc : {"idle", "check", "fill", "read", "closed", "shift_ro", "shift_head", "grow", "refresh"},
   page : Nat, at : Nat, won : BOOLEAN]
ActionRec == [kind : {"read_only", "closed"}, until : Nat, waits : SUBSET Thread]
RunningRec == [kind : {"flush", "close"}, by : Thread, until : Nat, page : Nat]
WriteRec == [page : Nat, done : BOOLEAN, until : Nat]

\* The addresses are addresses, and a safe address follows its own.
AddressInv ==
  /\ tail \in TailRec
  /\ read_only_address \in Nat /\ safe_read_only_address \in Nat
  /\ head_address \in Nat /\ safe_head_address \in Nat /\ flushed_until_address \in Nat
  /\ final_address \in Nat /\ durable \in Nat
  /\ safe_read_only_address <= read_only_address /\ safe_head_address <= head_address
  /\ \A r \in kept : r[1] \in Nat

\* An action of the epoch moves a safe address no further than its own address.
ActionInv ==
  \A x \in actions :
    /\ x \in ActionRec
    /\ x.kind = "read_only" => x.until <= read_only_address
    /\ x.kind = "closed" => x.until <= head_address

\* The writes to come and those submitted end at the safe read-only address.
Submitted(a) == {w \in WriteRec : Covers(w.page, w.until) /\ w.until <= a}
FlushInv ==
  /\ \A x \in running :
       /\ x \in RunningRec
       /\ x.kind = "flush" => Start(x.page) < x.until /\ x.until <= safe_read_only_address
  /\ writes \in Seq(Submitted(safe_read_only_address))
  /\ LastFlushed(last_flushed)

\* An action that would pass what thread t uses waits for t.
Awaited(t, c, kind, safe) ==
  /\ safe <= c.at
  /\ \A x \in actions : x.kind = kind /\ c.at < x.until => t \in x.waits
Protected(t, c) ==
  /\ c.pc = "fill" => Awaited(t, c, "read_only", safe_read_only_address)
  /\ c.pc = "read" => Awaited(t, c, "closed", safe_head_address)
CallInv ==
  /\ call \in [Thread -> CallRec]
  /\ \A t \in Thread : Protected(t, call[t])

LogInv == AddressInv /\ ActionInv /\ FlushInv /\ CallInv

\* A thread that is in a call has a session, for which the actions wait.
EnvRec ==
  [threads : SUBSET Thread, start : Nat, disk : {"ordered", "any"}, host : {"waits", "runs"},
   checkpoints : Nat, crashes : Nat, reads : BOOLEAN, last : 0 .. MaxPage]
SessionInv == env \in EnvRec /\ \A t \in Thread : call[t].pc # "idle" => t \in env.threads

LEMMA InvGuards ==
  ASSUME LogInv
  PROVE  EpochGuards
  <1>1. ASSUME NEW t \in Thread, call[t].pc = "fill", NEW i \in DOMAIN writes
        PROVE  writes[i].until <= call[t].at
    <2>1. writes[i] \in Submitted(safe_read_only_address)
      BY DEF LogInv, FlushInv
    <2>2. writes[i].until \in Nat /\ writes[i].until <= safe_read_only_address
      BY <2>1 DEF Submitted, WriteRec
    <2>3. safe_read_only_address <= call[t].at /\ call[t].at \in Nat
      BY <1>1 DEF LogInv, CallInv, CallRec, Protected, Awaited
    <2>4. QED
      BY <2>2, <2>3 DEF LogInv, AddressInv
  <1>2. ASSUME NEW t \in Thread, call[t].pc = "read" PROVE safe_head_address <= call[t].at
    BY <1>2 DEF LogInv, CallInv, Protected, Awaited
  <1>3. QED
    BY <1>1, <1>2 DEF EpochGuards

-----------------------------------------------------------------------------
\* What the refresh of a thread leaves of the actions.
LEMMA RefreshedActions ==
  ASSUME ActionInv, NEW t \in Thread
  PROVE  \A y \in Refreshed(t) :
           \E x \in actions : /\ y \in ActionRec /\ y.kind = x.kind /\ y.until = x.until
                              /\ y.waits = x.waits \ {t}
  <1>1. ASSUME NEW x \in actions
        PROVE  LET y == [x EXCEPT !.waits = @ \ {t}]
               IN  /\ y \in ActionRec /\ y.kind = x.kind /\ y.until = x.until
                   /\ y.waits = x.waits \ {t}
    BY DEF ActionInv, ActionRec
  <1>2. Refreshed(t) = {[x EXCEPT !.waits = @ \ {t}] : x \in actions}
    BY DEF Refreshed
  <1>3. ASSUME NEW y \in Refreshed(t)
        PROVE  \E x \in actions : /\ y \in ActionRec /\ y.kind = x.kind /\ y.until = x.until
                                  /\ y.waits = x.waits \ {t}
    <2>1. PICK x \in actions : y = [x EXCEPT !.waits = @ \ {t}]
      BY <1>2
    <2>2. QED
      BY <1>1, <2>1
  <1>4. QED
    BY <1>3

\* A step of a thread that ends outside filling in and reading.
LEMMA ThreadStep ==
  ASSUME LogInv, NEW t \in Thread, NEW c \in CallRec, call' = [call EXCEPT ![t] = c],
         c.pc \notin {"fill", "read"}, actions' = actions \/ actions' = Refreshed(t),
         tail' \in TailRec, \A r \in kept' : r[1] \in Nat,
         UNCHANGED <<addresses, running, writes, last_flushed, checkpoint>>
  PROVE  LogInv'
  <1>1. AddressInv'
    BY DEF LogInv, AddressInv, addresses, checkpoint
  <1>2. ASSUME NEW y \in actions'
        PROVE  \E x \in actions : /\ y \in ActionRec /\ y.kind = x.kind /\ y.until = x.until
                                  /\ x.waits \ {t} \subseteq y.waits
    <2>1. CASE actions' = actions
      BY <1>2, <2>1 DEF LogInv, ActionInv
    <2>2. CASE actions' = Refreshed(t)
      <3>1. ActionInv
        BY DEF LogInv
      <3>2. QED
        BY <1>2, <2>2, <3>1, RefreshedActions
    <2>3. QED
      BY <2>1, <2>2
  <1>3. ActionInv'
    BY <1>2 DEF LogInv, ActionInv, addresses
  <1>4. FlushInv'
    BY DEF LogInv, FlushInv, addresses
  <1>5. CallInv'
    <2>1. call' \in [Thread -> CallRec]
      BY DEF LogInv, CallInv
    <2>2. ASSUME NEW u \in Thread PROVE Protected(u, call[u])' 
      <3>1. CASE u = t
        <4>1. call'[u] = c
          BY <3>1 DEF LogInv, CallInv
        <4>2. QED
          BY <4>1 DEF Protected
      <3>2. CASE u # t
        <4>1. call'[u] = call[u] /\ Protected(u, call[u])
          BY <3>2 DEF LogInv, CallInv
        <4>2. \A kind : \A y \in actions' : y.kind = kind /\ call[u].at < y.until =>
                \E x \in actions : /\ x.kind = kind /\ call[u].at < x.until
                                   /\ (u \in x.waits => u \in y.waits)
          BY <1>2, <3>2
        <4>3. QED
          BY <4>1, <4>2 DEF Protected, Awaited, addresses
      <3>3. QED
        BY <3>1, <3>2
    <2>3. QED
      BY <2>1, <2>2 DEF CallInv
  <1>6. QED
    BY <1>1, <1>3, <1>4, <1>5 DEF LogInv

\* A step that moves an address and leaves an action for every thread to pass.
LEMMA BumpStep ==
  ASSUME LogInv, SessionInv, NEW kind \in {"read_only", "closed"}, NEW a \in Nat,
         actions' = Bumped(actions, kind, a),
         IF kind = "read_only"
         THEN read_only_address < a /\ read_only_address' = a /\ head_address' = head_address
         ELSE head_address < a /\ head_address' = a /\ read_only_address' = read_only_address,
         UNCHANGED <<tail, safe_read_only_address, safe_head_address, flushed_until_address,
                     running, writes, last_flushed, durable, kept>>,
         final_address' \in Nat, call' \in [Thread -> CallRec],
         \A u \in Thread : call'[u].pc \in {"fill", "read"} => call'[u] = call[u]
  PROVE  LogInv'
  <1>1. AddressInv'
    BY DEF LogInv, AddressInv
  <1>2. PICK n : n = [kind |-> kind, until |-> a, waits |-> env.threads]
    OBVIOUS
  <1>3. /\ n \in ActionRec /\ n.kind = kind /\ n.until = a /\ n.waits = env.threads
        /\ actions' = actions \cup {n}
    BY <1>2 DEF Bumped, ActionRec, SessionInv, EnvRec
  <1>4. /\ read_only_address \in Nat /\ read_only_address <= read_only_address'
        /\ head_address \in Nat /\ head_address <= head_address'
        /\ read_only_address' \in Nat /\ head_address' \in Nat
    BY DEF LogInv, AddressInv
  <1>5. ActionInv'
    <2>1. ASSUME NEW x \in actions
          PROVE  /\ x \in ActionRec
                 /\ x.kind = "read_only" => x.until <= read_only_address'
                 /\ x.kind = "closed" => x.until <= head_address'
      <3>1. x \in ActionRec /\ (x.kind = "read_only" => x.until <= read_only_address)
            /\ (x.kind = "closed" => x.until <= head_address)
        BY DEF LogInv, ActionInv
      <3>2. x.until \in Nat
        BY <3>1 DEF ActionRec
      <3>3. QED
        BY <1>4, <3>1, <3>2
    <2>2. (n.kind = "read_only" => n.until <= read_only_address')
          /\ (n.kind = "closed" => n.until <= head_address')
      BY <1>3
    <2>3. QED
      BY <1>3, <2>1, <2>2 DEF ActionInv
  <1>6. FlushInv'
    BY DEF LogInv, FlushInv
  <1>7. CallInv'
    <2>1. ASSUME NEW u \in Thread PROVE Protected(u, call[u])'
      <3>1. CASE call'[u].pc \in {"fill", "read"}
        <4>1. call'[u] = call[u] /\ Protected(u, call[u])
          BY <3>1 DEF LogInv, CallInv
        <4>2. \A y \in actions' : y \in actions \/ u \in y.waits
          BY <1>3, <3>1, <4>1 DEF SessionInv
        <4>3. QED
          BY <4>1, <4>2 DEF Protected, Awaited
      <3>2. CASE call'[u].pc \notin {"fill", "read"}
        BY <3>2 DEF Protected
      <3>3. QED
        BY <3>1, <3>2
    <2>2. QED
      BY <2>1 DEF CallInv
  <1>8. QED
    BY <1>1, <1>5, <1>6, <1>7 DEF LogInv

\* A step that leaves alone what protects the threads.
LEMMA ApartStep ==
  ASSUME LogInv, FlushInv', UNCHANGED <<call, kept, tail, durable, final_address, actions>>,
         UNCHANGED <<read_only_address, safe_read_only_address, head_address, safe_head_address>>,
         flushed_until_address' \in Nat
  PROVE  LogInv'
  <1>1. AddressInv' /\ ActionInv'
    BY DEF LogInv, AddressInv, ActionInv
  <1>2. CallInv'
    BY DEF LogInv, CallInv, Protected, Awaited
  <1>3. QED
    BY <1>1, <1>2 DEF LogInv

-----------------------------------------------------------------------------
(***************************************************************************)
(* The steps of a thread.                                                  *)
(***************************************************************************)
LEMMA CallForms ==
  ASSUME LogInv, NEW t \in Thread
  PROVE  /\ call[t] \in CallRec /\ call[t].page \in Nat /\ call[t].at \in Nat
         /\ call = [call EXCEPT ![t] = call[t]] /\ Idle \in CallRec /\ Idle.pc = "idle"
         /\ tail \in TailRec /\ tail.page \in Nat /\ tail.offset \in Nat
         /\ \A r \in kept : r[1] \in Nat
  <1>1. call \in [Thread -> CallRec] /\ tail \in TailRec /\ \A r \in kept : r[1] \in Nat
    BY DEF LogInv, CallInv, AddressInv
  <1>2. Idle \in CallRec /\ Idle.pc = "idle"
    BY DEF Idle, CallRec
  <1>3. QED
    BY <1>1, <1>2 DEF CallRec, TailRec

LEMMA RefreshStep ==
  ASSUME LogInv, NEW t \in Thread, Refresh(t)
  PROVE  LogInv'
  <1>1. PICK c : c = call[t]
    OBVIOUS
  <1>2. c \in CallRec /\ c.pc \notin {"fill", "read"} /\ call' = [call EXCEPT ![t] = c]
    BY <1>1, CallForms DEF Refresh, AtHost
  <1>3. tail' \in TailRec /\ \A r \in kept' : r[1] \in Nat
    BY CallForms DEF Refresh
  <1>4. QED
    BY <1>2, <1>3, ThreadStep DEF Refresh, addresses, buffer, io, checkpoint

LEMMA AllocateStep ==
  ASSUME LogInv, NEW t \in Thread, Allocate(t)
  PROVE  LogInv'
  <1>1. PICK a, d : a = Start(tail.page) + tail.offset /\ d = [Idle EXCEPT !.pc = "closed", !.page = tail.page]
    OBVIOUS
  <1>2. PICK e : e = [Idle EXCEPT !.pc = "check", !.at = a]
    OBVIOUS
  <1>3. a \in Nat
    <2>1. tail.page \in Nat /\ tail.offset \in Nat
      BY CallForms
    <2>2. Start(tail.page) \in Nat
      BY <2>1, Starts
    <2>3. QED
      BY <1>1, <2>1, <2>2
  <1>4. d \in CallRec /\ d.pc = "closed" /\ e \in CallRec /\ e.pc = "check"
    BY <1>1, <1>2, <1>3, CallForms DEF CallRec, Idle
  <1>5. PICK c \in {d, e} : call' = [call EXCEPT ![t] = c]
    BY <1>1, <1>2 DEF Allocate, AtHost
  <1>6. actions' = actions \/ actions' = Refreshed(t)
    BY DEF Allocate
  <1>7. tail' \in TailRec /\ \A r \in kept' : r[1] \in Nat
    <2>1. tail' = [tail EXCEPT !.offset = @ + RecordSize] /\ kept' = kept
      BY DEF Allocate, Reserve
    <2>2. tail.offset + RecordSize \in Nat
      BY CallForms, Sizes
    <2>3. QED
      BY <2>1, <2>2, CallForms DEF TailRec
  <1>8. UNCHANGED <<addresses, running, writes, last_flushed, checkpoint>>
    BY DEF Allocate, buffer, io
  <1>9. c \in CallRec /\ c.pc \notin {"fill", "read"}
    BY <1>4, <1>5
  <1>10. QED
    BY <1>5, <1>6, <1>7, <1>8, <1>9, ThreadStep

\* A thread that begins to fill in or to read is at or above the address that
\* nobody's action passes.
LEMMA BeginStep ==
  ASSUME LogInv, NEW t \in Thread, NEW c \in CallRec, call' = [call EXCEPT ![t] = c],
         \/ c.pc = "fill" /\ read_only_address <= c.at
         \/ c.pc = "read" /\ head_address <= c.at,
         UNCHANGED <<tail, addresses, actions, running, writes, last_flushed, checkpoint, kept>>
  PROVE  LogInv'
  <1>1. AddressInv' /\ ActionInv' /\ FlushInv'
    BY DEF LogInv, AddressInv, ActionInv, FlushInv, addresses, checkpoint
  <1>2. c.at \in Nat
    BY DEF CallRec
  <1>3. Protected(t, c)
    <2>1. /\ safe_read_only_address <= read_only_address /\ safe_head_address <= head_address
          /\ safe_read_only_address \in Nat /\ safe_head_address \in Nat
          /\ read_only_address \in Nat /\ head_address \in Nat
      BY DEF LogInv, AddressInv
    <2>2. \A x \in actions : /\ x.until \in Nat
                             /\ x.kind = "read_only" => x.until <= read_only_address
                             /\ x.kind = "closed" => x.until <= head_address
      BY DEF LogInv, ActionInv, ActionRec
    <2>3. CASE c.pc = "fill" /\ read_only_address <= c.at
      <3>1. \A x \in actions : ~(x.kind = "read_only" /\ c.at < x.until)
        BY <1>2, <2>1, <2>2, <2>3
      <3>2. QED
        BY <1>2, <2>1, <2>3, <3>1 DEF Protected, Awaited
    <2>4. CASE c.pc = "read" /\ head_address <= c.at
      <3>1. \A x \in actions : ~(x.kind = "closed" /\ c.at < x.until)
        BY <1>2, <2>1, <2>2, <2>4
      <3>2. QED
        BY <1>2, <2>1, <2>4, <3>1 DEF Protected, Awaited
    <2>5. QED
      BY <2>3, <2>4
  <1>4. CallInv'
    <2>1. call' \in [Thread -> CallRec]
      BY DEF LogInv, CallInv
    <2>2. ASSUME NEW u \in Thread PROVE Protected(u, call[u])'
      <3>1. Protected(u, call'[u])
        BY <1>3 DEF LogInv, CallInv
      <3>2. QED
        BY <3>1 DEF Protected, Awaited, addresses
    <2>3. QED
      BY <2>1, <2>2 DEF CallInv
  <1>5. QED
    BY <1>1, <1>4 DEF LogInv

LEMMA CheckStep ==
  ASSUME LogInv, NEW t \in Thread, CheckReadOnly(t)
  PROVE  LogInv'
  <1>1. CASE call[t].at < read_only_address
    <2>1. PICK c \in CallRec : c = Idle
      BY CallForms
    <2>2. call' = [call EXCEPT ![t] = c] /\ c.pc \notin {"fill", "read"} /\ actions' = Refreshed(t)
      BY <1>1, <2>1, CallForms DEF CheckReadOnly
    <2>3. tail' \in TailRec /\ \A r \in kept' : r[1] \in Nat
      BY CallForms DEF CheckReadOnly
    <2>4. QED
      BY <2>2, <2>3, ThreadStep DEF CheckReadOnly, addresses, buffer, io, checkpoint
  <1>2. CASE ~(call[t].at < read_only_address)
    <2>1. PICK c : c = [call[t] EXCEPT !.pc = "fill"]
      OBVIOUS
    <2>2. c \in CallRec /\ c.pc = "fill" /\ c.at = call[t].at /\ c.at \in Nat
      BY <2>1, CallForms DEF CallRec
    <2>3. call' = [call EXCEPT ![t] = c] /\ actions' = actions
      BY <1>2, <2>1 DEF CheckReadOnly
    <2>4. read_only_address <= c.at
      BY <1>2, <2>2 DEF LogInv, AddressInv
    <2>5. QED
      BY <2>2, <2>3, <2>4, BeginStep DEF CheckReadOnly, addresses, buffer, io, checkpoint
  <1>3. QED
    BY <1>1, <1>2

LEMMA BeginReadStep ==
  ASSUME LogInv, NEW t \in Thread, BeginRead(t)
  PROVE  LogInv'
  <1>1. PICK S : S = {r[1] : r \in kept} \ (0 .. head_address - 1)
    OBVIOUS
  <1>2. S # {} /\ call' = [call EXCEPT ![t] = [Idle EXCEPT !.pc = "read", !.at = Min(S)]]
    BY <1>1 DEF BeginRead, AtHost
  <1>3. S \in SUBSET Nat /\ \A a \in S : head_address <= a
    BY <1>1, CallForms DEF LogInv, AddressInv
  <1>4. PICK m \in S : \A a \in S : m <= a
    BY <1>2, <1>3, LeastNat
  <1>5. Min(S) \in S
    BY <1>4 DEF Min
  <1>6. PICK c : c = [Idle EXCEPT !.pc = "read", !.at = Min(S)]
    OBVIOUS
  <1>7. c \in CallRec /\ c.pc = "read" /\ c.at \in S
    BY <1>3, <1>5, <1>6 DEF Idle, CallRec
  <1>8. QED
    BY <1>2, <1>3, <1>6, <1>7, BeginStep DEF BeginRead, addresses, buffer, io, checkpoint

\* The other steps of an operation, but for the two that leave an action.
LEMMA OperationSteps ==
  ASSUME LogInv, NEW t \in Thread,
         Fill(t) \/ EndRead(t) \/ NewPage(t) \/ AllocatePage(t) \/ RefreshAndRetry(t)
  PROVE  LogInv'
  <1>1. PICK b : b = call[t] /\ b \in CallRec
    BY CallForms
  <1>2. PICK c \in CallRec : call' = [call EXCEPT ![t] = c] /\ c.pc \notin {"fill", "read"}
    <2>1. CASE Fill(t) \/ EndRead(t)
      BY <2>1, CallForms DEF Fill, EndRead
    <2>2. CASE NewPage(t)
      <3>1. PICK w : /\ w \in BOOLEAN
                     /\ \/ call' = [call EXCEPT ![t].pc = "shift_ro", ![t].won = w]
                        \/ call' = [call EXCEPT ![t] = Idle]
        BY <2>2 DEF NewPage
      <3>2. PICK d : d = [b EXCEPT !.pc = "shift_ro", !.won = w]
        OBVIOUS
      <3>3. d \in CallRec /\ d.pc = "shift_ro"
        BY <1>1, <3>1, <3>2 DEF CallRec
      <3>4. call' = [call EXCEPT ![t] = d] \/ call' = [call EXCEPT ![t] = Idle]
        BY <1>1, <3>1, <3>2, CallForms
      <3>5. QED
        BY <3>3, <3>4, CallForms
    <2>3. CASE AllocatePage(t)
      <3>1. PICK d : d = [b EXCEPT !.pc = "refresh"]
        OBVIOUS
      <3>2. d \in CallRec /\ d.pc = "refresh" /\ call' = [call EXCEPT ![t] = d]
        BY <1>1, <2>3, <3>1 DEF AllocatePage, CallRec
      <3>3. QED
        BY <3>2
    <2>4. CASE RefreshAndRetry(t)
      <3>1. PICK d : d = [b EXCEPT !.pc = "closed", !.won = FALSE]
        OBVIOUS
      <3>2. d \in CallRec /\ d.pc = "closed"
        BY <1>1, <3>1 DEF CallRec
      <3>3. call' = [call EXCEPT ![t] = d]
        <4>1. call' = [call EXCEPT ![t].pc = "closed", ![t].won = FALSE]
          BY <2>4 DEF RefreshAndRetry
        <4>2. QED
          BY <1>1, <3>1, <4>1, CallForms
      <3>4. QED
        BY <3>2, <3>3
    <2>5. QED
      BY <2>1, <2>2, <2>3, <2>4
  <1>3. actions' = actions \/ actions' = Refreshed(t)
    BY DEF Fill, EndRead, NewPage, AllocatePage, RefreshAndRetry
  <1>4. tail' \in TailRec
    <2>1. CASE NewPage(t)
      <3>1. PICK p \in Nat : p = call[t].page
        BY CallForms
      <3>2. tail' = tail \/ tail' = Turn(p)
        BY <2>1, <3>1 DEF NewPage
      <3>3. tail \in TailRec /\ Turn(p) \in TailRec
        BY CallForms DEF Turn, TailRec
      <3>4. QED
        BY <3>2, <3>3
    <2>2. QED
      BY <2>1, CallForms DEF Fill, EndRead, AllocatePage, RefreshAndRetry
  <1>5. \A r \in kept' : r[1] \in Nat
    <2>1. CASE Fill(t)
      <3>1. kept' = kept \cup {<<call[t].at, incarnation>>}
        BY <2>1 DEF Fill
      <3>2. QED
        BY <3>1, CallForms
    <2>2. QED
      BY <2>1, CallForms DEF EndRead, NewPage, AllocatePage, RefreshAndRetry
  <1>6. UNCHANGED <<addresses, running, writes, last_flushed, checkpoint>>
    BY DEF Fill, EndRead, NewPage, AllocatePage, RefreshAndRetry, buffer, io
  <1>7. QED
    BY <1>2, <1>3, <1>4, <1>5, <1>6, ThreadStep

LEMMA ShiftReadOnlyStep ==
  ASSUME LogInv, SessionInv, NEW t \in Thread, PageAlignedShiftReadOnlyAddress(t)
  PROVE  LogInv'
  <1>1. PICK b, c : b = call[t] /\ c = [b EXCEPT !.pc = "shift_head"]
    OBVIOUS
  <1>2. b \in CallRec /\ b.page \in Nat /\ c \in CallRec /\ c.pc = "shift_head"
    BY <1>1, CallForms DEF CallRec
  <1>3. call' = [call EXCEPT ![t] = c]
    BY <1>1, CallForms DEF PageAlignedShiftReadOnlyAddress
  <1>4. PICK tail_page, desired : tail_page = b.page + 1 /\ desired = Start(tail_page - MutablePages)
    OBVIOUS
  <1>5. CASE tail_page > MutablePages /\ read_only_address < desired
    <2>1. tail_page - MutablePages \in Nat
      BY <1>2, <1>4, <1>5, Sizes
    <2>2. desired \in Nat
      BY <1>4, <2>1, Starts
    <2>3. read_only_address' = desired /\ actions' = Bumped(actions, "read_only", desired)
      BY <1>1, <1>4, <1>5 DEF PageAlignedShiftReadOnlyAddress
    <2>4. /\ UNCHANGED <<tail, safe_read_only_address, safe_head_address, flushed_until_address,
                         running, writes, last_flushed, durable, kept>>
          /\ head_address' = head_address /\ final_address' = final_address
      BY DEF PageAlignedShiftReadOnlyAddress, buffer, io, checkpoint
    <2>5. final_address' \in Nat
      BY <2>4 DEF LogInv, AddressInv
    <2>6. call' \in [Thread -> CallRec]
          /\ \A u \in Thread : call'[u].pc \in {"fill", "read"} => call'[u] = call[u]
      BY <1>2, <1>3 DEF LogInv, CallInv
    <2>7. QED
      BY <1>5, <2>2, <2>3, <2>4, <2>5, <2>6, BumpStep
  <1>6. CASE ~(tail_page > MutablePages /\ read_only_address < desired)
    <2>1. UNCHANGED <<addresses, actions, running, writes, last_flushed, checkpoint, tail, kept>>
      BY <1>1, <1>4, <1>6 DEF PageAlignedShiftReadOnlyAddress, addresses, buffer, io, checkpoint
    <2>2. tail' \in TailRec /\ \A r \in kept' : r[1] \in Nat
      BY <2>1, CallForms
    <2>3. QED
      BY <1>2, <1>3, <2>1, <2>2, ThreadStep
  <1>7. QED
    BY <1>5, <1>6

LEMMA ShiftHeadStep ==
  ASSUME LogInv, SessionInv, NEW t \in Thread, PageAlignedShiftHeadAddress(t)
  PROVE  LogInv'
  <1>1. PICK b, p : b = call[t] /\ p = IF b.won THEN "grow" ELSE "refresh"
    OBVIOUS
  <1>2. PICK c : c = [b EXCEPT !.pc = p]
    OBVIOUS
  <1>3. b \in CallRec /\ b.page \in Nat /\ c \in CallRec /\ c.pc \in {"grow", "refresh"}
    BY <1>1, <1>2, CallForms DEF CallRec
  <1>4. call' = [call EXCEPT ![t] = c]
    BY <1>1, <1>2, CallForms DEF PageAlignedShiftHeadAddress
  <1>5. PICK tail_page, desired : tail_page = b.page + 1 /\ desired = DesiredHead(tail_page)
    OBVIOUS
  <1>6. CASE tail_page > BufferSize - kNumHeadPages /\ head_address < desired
    <2>1. tail_page - (BufferSize - kNumHeadPages) \in Nat
      BY <1>3, <1>5, <1>6, Sizes
    <2>2. Start(tail_page - (BufferSize - kNumHeadPages)) \in Nat
      BY <2>1, Starts
    <2>3. Start(Page(flushed_until_address)) \in Nat
      BY AddressParts DEF LogInv, AddressInv
    <2>4. desired \in Nat
      BY <1>5, <2>2, <2>3 DEF DesiredHead
    <2>5. head_address' = desired /\ actions' = Bumped(actions, "closed", desired)
      BY <1>1, <1>5, <1>6 DEF PageAlignedShiftHeadAddress
    <2>6. /\ UNCHANGED <<tail, safe_read_only_address, safe_head_address, flushed_until_address,
                         running, writes, last_flushed, durable, kept>>
          /\ read_only_address' = read_only_address /\ final_address' = final_address
      BY DEF PageAlignedShiftHeadAddress, buffer, io, checkpoint
    <2>7. final_address' \in Nat
      BY <2>6 DEF LogInv, AddressInv
    <2>8. call' \in [Thread -> CallRec]
          /\ \A u \in Thread : call'[u].pc \in {"fill", "read"} => call'[u] = call[u]
      BY <1>3, <1>4 DEF LogInv, CallInv
    <2>9. QED
      BY <1>6, <2>4, <2>5, <2>6, <2>7, <2>8, BumpStep
  <1>7. CASE ~(tail_page > BufferSize - kNumHeadPages /\ head_address < desired)
    <2>1. UNCHANGED <<addresses, actions, running, writes, last_flushed, checkpoint, tail, kept>>
      BY <1>1, <1>5, <1>7 DEF PageAlignedShiftHeadAddress, addresses, buffer, io, checkpoint
    <2>2. tail' \in TailRec /\ \A r \in kept' : r[1] \in Nat
      BY <2>1, CallForms
    <2>3. QED
      BY <1>3, <1>4, <2>1, <2>2, ThreadStep
  <1>8. QED
    BY <1>6, <1>7

-----------------------------------------------------------------------------
(***************************************************************************)
(* The actions of the epoch and the device.                                *)
(***************************************************************************)
LEMMA SubmittedGrows ==
  ASSUME NEW a \in Nat, NEW b \in Nat, a <= b
  PROVE  Submitted(a) \subseteq Submitted(b)
  <1>1. ASSUME NEW w \in Submitted(a) PROVE w \in Submitted(b)
    <2>1. w \in WriteRec /\ w.until \in Nat /\ w.until <= a /\ Covers(w.page, w.until)
      BY DEF Submitted, WriteRec
    <2>2. w.until <= b
      BY <2>1
    <2>3. QED
      BY <2>1, <2>2 DEF Submitted
  <1>2. QED
    BY <1>1

\* Drained, an action waits for nobody: no thread uses what it passes.
LEMMA DrainStep ==
  ASSUME LogInv, NEW t \in Thread, Drain(t)
  PROVE  LogInv'
  <1>1. PICK x \in actions : /\ x.waits = {} /\ actions' = actions \ {x}
                             /\ OnPagesMarkedReadOnly(t, x) \/ OnPagesClosed(t, x)
    BY DEF Drain
  <1>2. x \in ActionRec /\ x.until \in Nat
        /\ (x.kind = "read_only" => x.until <= read_only_address)
        /\ (x.kind = "closed" => x.until <= head_address)
    BY DEF LogInv, ActionInv, ActionRec
  <1>3. PICK ro, sh : ro = safe_read_only_address /\ sh = safe_head_address
    OBVIOUS
  <1>4. /\ ro \in Nat /\ sh \in Nat /\ read_only_address \in Nat /\ head_address \in Nat
        /\ ro <= read_only_address /\ sh <= head_address
    BY <1>3 DEF LogInv, AddressInv
  <1>5. /\ UNCHANGED <<tail, read_only_address, head_address, flushed_until_address, final_address,
                       durable, kept, call, writes, last_flushed>>
    BY DEF Drain, buffer, io, checkpoint
  <1>6. \A u \in Thread : call[u] \in CallRec /\ call[u].at \in Nat /\ Protected(u, call[u])
    BY DEF LogInv, CallInv, CallRec
  <1>7. CASE OnPagesMarkedReadOnly(t, x)
    <2>1. /\ x.kind = "read_only" /\ safe_head_address' = sh
          /\ safe_read_only_address' = MonotonicUpdate(ro, x.until)
      BY <1>3, <1>7 DEF OnPagesMarkedReadOnly
    <2>2. PICK m : m = safe_read_only_address'
      OBVIOUS
    <2>3. m \in Nat /\ ro <= m /\ x.until <= m /\ m <= read_only_address /\ (m = ro \/ m = x.until)
      BY <1>2, <1>4, <2>1, <2>2 DEF MonotonicUpdate
    <2>4. AddressInv'
      BY <1>3, <1>4, <1>5, <2>1, <2>2, <2>3 DEF LogInv, AddressInv
    <2>5. ActionInv'
      BY <1>1, <1>5 DEF LogInv, ActionInv
    <2>6. FlushInv'
      <3>1. ASSUME NEW y \in running'
            PROVE  y \in RunningRec /\ (y.kind = "flush" => Start(y.page) < y.until /\ y.until <= m)
        <4>1. CASE y \in running
          <5>1. y \in RunningRec /\ y.until \in Nat
                /\ (y.kind = "flush" => Start(y.page) < y.until /\ y.until <= ro)
            BY <1>3, <4>1 DEF LogInv, FlushInv, RunningRec
          <5>2. QED
            BY <1>4, <2>3, <5>1
        <4>2. CASE ro < x.until /\ y = [kind |-> "flush", by |-> t, until |-> x.until, page |-> Page(ro)]
          <5>1. Page(ro) \in Nat /\ Start(Page(ro)) \in Nat /\ Start(Page(ro)) <= ro
            BY <1>4, AddressParts
          <5>2. QED
            BY <1>2, <1>4, <2>3, <4>2, <5>1 DEF RunningRec
        <4>3. QED
          BY <1>3, <1>7, <3>1, <4>1, <4>2 DEF OnPagesMarkedReadOnly
      <3>2. Submitted(ro) \subseteq Submitted(m)
        BY <1>4, <2>3, SubmittedGrows
      <3>3. writes \in Seq(Submitted(m))
        <4>1. writes \in Seq(Submitted(ro))
          BY <1>3 DEF LogInv, FlushInv
        <4>2. PICK S, T : S = Submitted(ro) /\ T = Submitted(m)
          OBVIOUS
        <4>3. S \subseteq T /\ writes \in Seq(S)
          BY <3>2, <4>1, <4>2
        <4>4. writes \in Seq(T)
          BY <4>3
        <4>5. QED
          BY <4>2, <4>4
      <3>4. LastFlushed(last_flushed)
        BY DEF LogInv, FlushInv
      <3>5. QED
        BY <1>5, <2>2, <3>1, <3>3, <3>4 DEF FlushInv
    <2>7. CallInv'
      <3>1. ASSUME NEW u \in Thread PROVE Protected(u, call[u])'
        <4>1. call[u].pc = "fill" => x.until <= call[u].at /\ ro <= call[u].at
          BY <1>1, <1>2, <1>3, <1>6, <2>1 DEF Protected, Awaited
        <4>2. call[u].pc = "fill" => m <= call[u].at
          BY <2>3, <4>1
        <4>3. QED
          BY <1>1, <1>3, <1>5, <1>6, <2>1, <2>2, <4>2 DEF Protected, Awaited
      <3>2. QED
        BY <1>5, <3>1 DEF LogInv, CallInv
    <2>8. QED
      BY <2>4, <2>5, <2>6, <2>7 DEF LogInv
  <1>8. CASE OnPagesClosed(t, x)
    <2>1. /\ x.kind = "closed" /\ safe_read_only_address' = ro
          /\ safe_head_address' = MonotonicUpdate(sh, x.until)
      BY <1>3, <1>8 DEF OnPagesClosed
    <2>2. PICK m : m = safe_head_address'
      OBVIOUS
    <2>3. m \in Nat /\ sh <= m /\ x.until <= m /\ m <= head_address /\ (m = sh \/ m = x.until)
      BY <1>2, <1>4, <2>1, <2>2 DEF MonotonicUpdate
    <2>4. AddressInv'
      BY <1>3, <1>4, <1>5, <2>1, <2>2, <2>3 DEF LogInv, AddressInv
    <2>5. ActionInv'
      BY <1>1, <1>5 DEF LogInv, ActionInv
    <2>6. FlushInv'
      <3>1. ASSUME NEW y \in running'
            PROVE  y \in RunningRec /\ (y.kind = "flush" => Start(y.page) < y.until /\ y.until <= ro)
        <4>1. CASE y \in running
          BY <1>3, <4>1 DEF LogInv, FlushInv
        <4>2. CASE y = [kind |-> "close", by |-> t, until |-> x.until, page |-> Page(sh)]
          <5>1. Page(sh) \in Nat
            BY <1>4, AddressParts
          <5>2. QED
            BY <1>2, <4>2, <5>1 DEF RunningRec
        <4>3. QED
          BY <1>3, <1>8, <3>1, <4>1, <4>2 DEF OnPagesClosed
      <3>2. QED
        BY <1>3, <1>5, <2>1, <3>1 DEF LogInv, FlushInv
    <2>7. CallInv'
      <3>1. ASSUME NEW u \in Thread PROVE Protected(u, call[u])'
        <4>1. call[u].pc = "read" => x.until <= call[u].at /\ sh <= call[u].at
          BY <1>1, <1>2, <1>3, <1>6, <2>1 DEF Protected, Awaited
        <4>2. call[u].pc = "read" => m <= call[u].at
          BY <2>3, <4>1
        <4>3. QED
          BY <1>1, <1>3, <1>5, <1>6, <2>1, <2>2, <4>2 DEF Protected, Awaited
      <3>2. QED
        BY <1>5, <3>1 DEF LogInv, CallInv
    <2>8. QED
      BY <2>4, <2>5, <2>6, <2>7 DEF LogInv
  <1>9. QED
    BY <1>1, <1>7, <1>8

\* A running action goes on to its next page.
LEMMA SteppedFlush ==
  ASSUME LogInv, NEW x \in running, NEW end, Stepped(x, end),
         x.kind = "flush" => end = EndPage(x.until)
  PROVE  \A y \in running' :
           /\ y \in RunningRec
           /\ y.kind = "flush" => Start(y.page) < y.until /\ y.until <= safe_read_only_address
  <1>1. x \in RunningRec /\ x.page \in Nat /\ x.until \in Nat /\ x.page + 1 \in Nat
        /\ (x.kind = "flush" => x.until <= safe_read_only_address)
    BY DEF LogInv, FlushInv, RunningRec
  <1>2. PICK n : n = [x EXCEPT !.page = @ + 1]
    OBVIOUS
  <1>3. n \in RunningRec /\ n.kind = x.kind /\ n.until = x.until /\ n.page = x.page + 1
    BY <1>1, <1>2 DEF RunningRec
  <1>4. x.kind = "flush" /\ x.page + 1 < end => Start(x.page + 1) < x.until
    BY <1>1, FlushedPages
  <1>5. \A y \in running' : y \in running \/ (y = n /\ x.page + 1 < end)
    BY <1>2 DEF Stepped
  <1>6. \A y \in running :
           /\ y \in RunningRec
           /\ y.kind = "flush" => Start(y.page) < y.until /\ y.until <= safe_read_only_address
    BY DEF LogInv, FlushInv
  <1>7. QED
    BY <1>1, <1>3, <1>4, <1>5, <1>6

LEMMA FlushPageStep ==
  ASSUME LogInv, AsyncFlushPages
  PROVE  LogInv'
  <1>1. PICK x \in running :
          /\ x.kind = "flush"
          /\ last_flushed' = [last_flushed EXCEPT ![Slot(x.page)] = 0]
          /\ writes' = Append(writes, [page |-> x.page, done |-> FALSE,
                                       until |-> Min({Start(x.page + 1), x.until})])
          /\ Stepped(x, EndPage(x.until))
          /\ UNCHANGED <<tail, addresses, actions, call, checkpoint, kept>>
    BY DEF AsyncFlushPages
  <1>2. /\ x.page \in Nat /\ x.until \in Nat /\ Start(x.page) < x.until
        /\ x.until <= safe_read_only_address /\ safe_read_only_address \in Nat
    BY <1>1 DEF LogInv, FlushInv, RunningRec, AddressInv
  <1>3. PICK a, u : a = Start(x.page + 1) /\ u = Min({a, x.until})
    OBVIOUS
  <1>4. a \in Nat /\ Start(x.page) < a /\ Start(x.page) \in Nat
    BY <1>2, <1>3, Starts
  <1>5. u = IF a <= x.until THEN a ELSE x.until
    <2>1. PICK m \in {a, x.until} : m = (IF a <= x.until THEN a ELSE x.until)
      OBVIOUS
    <2>2. \A y \in {a, x.until} : m <= y
      BY <1>2, <1>4, <2>1
    <2>3. u \in {a, x.until} /\ \A y \in {a, x.until} : u <= y
      BY <1>3, <2>2 DEF Min
    <2>4. QED
      BY <1>2, <1>4, <2>1, <2>2, <2>3
  <1>6. PICK w : w = [page |-> x.page, done |-> FALSE, until |-> u]
    OBVIOUS
  <1>7. w \in Submitted(safe_read_only_address)
    BY <1>2, <1>3, <1>4, <1>5, <1>6 DEF Submitted, WriteRec, Covers
  <1>8. writes' \in Seq(Submitted(safe_read_only_address))
    <2>1. PICK S : S = Submitted(safe_read_only_address)
      OBVIOUS
    <2>2. w \in S /\ writes \in Seq(S) /\ writes' = Append(writes, w)
      BY <1>1, <1>3, <1>6, <1>7, <2>1 DEF LogInv, FlushInv
    <2>3. writes' \in Seq(S)
      BY <2>2
    <2>4. QED
      BY <2>1, <2>3
  <1>9. LastFlushed(last_flushed')
    BY <1>1 DEF LogInv, FlushInv, LastFlushed
  <1>10. FlushInv'
    BY <1>1, <1>8, <1>9, SteppedFlush DEF FlushInv, addresses
  <1>11. QED
    BY <1>1, <1>10, ApartStep DEF LogInv, AddressInv, addresses, checkpoint

LEMMA ClosePageStep ==
  ASSUME LogInv, ClosePages
  PROVE  LogInv'
  <1>1. PICK x \in running :
          /\ x.kind = "close" /\ Stepped(x, Page(x.until))
          /\ UNCHANGED <<tail, addresses, actions, call, checkpoint, kept, last_flushed, writes>>
    BY DEF ClosePages, io
  <1>2. FlushInv'
    BY <1>1, SteppedFlush DEF LogInv, FlushInv, addresses
  <1>3. QED
    BY <1>1, <1>2, ApartStep DEF LogInv, AddressInv, addresses, checkpoint

LEMMA DeviceStep ==
  ASSUME LogInv, WritePage
  PROVE  LogInv'
  <1>1. PICK i \in DOMAIN writes : writes' = [writes EXCEPT ![i].done = TRUE]
    BY DEF WritePage
  <1>2. UNCHANGED <<tail, addresses, actions, call, checkpoint, kept, last_flushed, running>>
    BY DEF WritePage, buffer
  <1>3. PICK S : S = Submitted(safe_read_only_address)
    OBVIOUS
  <1>4. writes \in Seq(S)
    BY <1>3 DEF LogInv, FlushInv
  <1>5. PICK w : w = [writes[i] EXCEPT !.done = TRUE]
    OBVIOUS
  <1>6. writes[i] \in S
    BY <1>1, <1>4
  <1>7. w \in S
    BY <1>3, <1>5, <1>6 DEF Submitted, WriteRec
  <1>8. writes' = [writes EXCEPT ![i] = w]
    BY <1>1, <1>5
  <1>9. writes' \in Seq(S)
    <2>1. PICK n \in Nat : writes \in [1 .. n -> S]
      BY <1>4
    <2>2. writes' \in [1 .. n -> S]
      BY <1>7, <1>8, <2>1
    <2>3. QED
      BY <2>2
  <1>10. FlushInv'
    BY <1>2, <1>3, <1>9 DEF LogInv, FlushInv, addresses
  <1>11. QED
    BY <1>2, <1>10, ApartStep DEF LogInv, AddressInv, addresses, checkpoint

LEMMA RemovedAt ==
  ASSUME NEW S, NEW s \in Seq(S), NEW i \in DOMAIN s
  PROVE  RemoveAt(s, i) \in Seq(S)
  <1>1. i \in 1 .. Len(s) /\ Len(s) \in Nat
    OBVIOUS
  <1>2. SubSeq(s, 1, i - 1) \in Seq(S) /\ SubSeq(s, i + 1, Len(s)) \in Seq(S)
    BY <1>1
  <1>3. QED
    BY <1>2 DEF RemoveAt

LEMMA FlushedStep ==
  ASSUME LogInv, OnFlushed
  PROVE  LogInv'
  <1>1. PICK i \in DOMAIN writes :
          /\ last_flushed' = [last_flushed EXCEPT ![Slot(writes[i].page)] = writes[i].until]
          /\ flushed_until_address' = ShiftFlushedUntilAddress(last_flushed')
          /\ writes' = RemoveAt(writes, i)
    BY DEF OnFlushed
  <1>2. UNCHANGED <<tail, read_only_address, safe_read_only_address, head_address,
                    safe_head_address, actions, call, final_address, durable, kept, running>>
    BY DEF OnFlushed, checkpoint
  <1>3. PICK S : S = Submitted(safe_read_only_address)
    OBVIOUS
  <1>4. writes \in Seq(S)
    BY <1>3 DEF LogInv, FlushInv
  <1>5. writes' \in Seq(S)
    BY <1>1, <1>4, RemovedAt
  <1>6. PICK p, u, s0 : p = writes[i].page /\ u = writes[i].until /\ s0 = Slot(p)
    OBVIOUS
  <1>7. writes[i] \in S
    BY <1>1, <1>4
  <1>8. p \in Nat /\ u \in Nat /\ Covers(p, u) /\ Start(p) \in Nat
    BY <1>3, <1>6, <1>7, Starts DEF Submitted, WriteRec
  <1>9. u # 0 /\ s0 \in Slots
    BY <1>6, <1>8, SlotsTurn DEF Covers
  <1>10. PICK last : last = last_flushed'
    OBVIOUS
  <1>11. last = [last_flushed EXCEPT ![s0] = u]
    BY <1>1, <1>6, <1>10
  <1>12. LastFlushed(last) /\ last[s0] # 0
    BY <1>6, <1>8, <1>9, <1>11 DEF LogInv, FlushInv, LastFlushed
  <1>13. flushed_until_address' \in Nat
    BY <1>1, <1>9, <1>10, <1>12, FlushedReached DEF LogInv, AddressInv
  <1>14. FlushInv'
    BY <1>2, <1>3, <1>5, <1>10, <1>12 DEF LogInv, FlushInv
  <1>15. QED
    BY <1>2, <1>13, <1>14, ApartStep

-----------------------------------------------------------------------------
(***************************************************************************)
(* Checkpoint, crash and restart.                                          *)
(***************************************************************************)
LEMMA TailIsAddress ==
  ASSUME LogInv
  PROVE  GetTailAddress \in Nat
  <1>1. PICK p \in Nat, o \in Nat, k \in Nat : p = tail.page /\ o = tail.offset /\ k = kMaxOffset
    BY Sizes DEF LogInv, AddressInv, TailRec
  <1>2. Min({k, o}) \in {k, o}
    <2>1. PICK m \in {k, o} : \A y \in {k, o} : m <= y
      BY LeastNat
    <2>2. QED
      BY <2>1 DEF Min
  <1>3. Start(p) \in Nat
    BY Starts
  <1>4. QED
    BY <1>1, <1>2, <1>3 DEF GetTailAddress

LEMMA ShiftToTailStep ==
  ASSUME LogInv, SessionInv, ShiftReadOnlyToTail
  PROVE  LogInv'
  <1>1. PICK a \in Nat : a = GetTailAddress
    BY TailIsAddress
  <1>2. /\ UNCHANGED <<tail, safe_read_only_address, head_address, safe_head_address,
                       flushed_until_address, last_flushed, running, writes, call, durable, kept>>
        /\ final_address' = a
    BY <1>1 DEF ShiftReadOnlyToTail, buffer, io
  <1>3. call' \in [Thread -> CallRec]
    BY <1>2 DEF LogInv, CallInv
  <1>4. CASE read_only_address < a
    <2>1. read_only_address' = a /\ actions' = Bumped(actions, "read_only", a)
      BY <1>1, <1>4 DEF ShiftReadOnlyToTail
    <2>2. QED
      BY <1>2, <1>3, <1>4, <2>1, BumpStep
  <1>5. CASE ~(read_only_address < a)
    <2>1. UNCHANGED <<read_only_address, actions>>
      BY <1>1, <1>5 DEF ShiftReadOnlyToTail
    <2>2. AddressInv' /\ ActionInv' /\ FlushInv' /\ CallInv'
      BY <1>2, <2>1 DEF LogInv, AddressInv, ActionInv, FlushInv, CallInv, Protected, Awaited
    <2>3. QED
      BY <2>2 DEF LogInv
  <1>6. QED
    BY <1>4, <1>5

LEMMA CheckpointStep ==
  ASSUME LogInv, CheckpointFlushed
  PROVE  LogInv'
  <1>1. /\ UNCHANGED <<tail, addresses, actions, last_flushed, running, writes, call, kept>>
        /\ durable' \in Nat /\ final_address' \in Nat
    BY DEF CheckpointFlushed, LogInv, AddressInv, buffer, io
  <1>2. AddressInv' /\ ActionInv' /\ FlushInv' /\ CallInv'
    BY <1>1 DEF LogInv, AddressInv, ActionInv, FlushInv, CallInv, Protected, Awaited, addresses
  <1>3. QED
    BY <1>2 DEF LogInv

\* The log that RestoreHybridLog and RecoveryReset bring up.
LEMMA RestoredPagesNat ==
  ASSUME NEW T \in Nat
  PROVE  RestoredPages(T) \in SUBSET Nat /\ EndPage(T) \in Nat
  <1>1. EndPage(T) \in Nat
    <2>1. PICK p \in Nat : p = Page(T)
      BY AddressParts
    <2>2. QED
      BY <2>1 DEF EndPage
  <1>2. PICK e \in Nat, b \in Nat, k \in Nat :
          e = EndPage(T) /\ b = BufferSize /\ k = kNumHeadPages /\ k < b
    BY <1>1, Sizes
  <1>3. RestoredPages(T) = (IF e < b - k THEN 0 ELSE e - (b - k)) .. e - 1
    BY <1>2 DEF RestoredPages
  <1>4. QED
    BY <1>1, <1>2, <1>3

LEMMA RestoredHeadNat ==
  ASSUME NEW T \in Nat
  PROVE  RestoredHead(T) \in Nat
  <1>1. PICK S : S = RestoredPages(T) \cup {EndPage(T)}
    OBVIOUS
  <1>2. S \in SUBSET Nat /\ S # {}
    BY <1>1, RestoredPagesNat
  <1>3. PICK m \in S : \A n \in S : m <= n
    BY <1>2, LeastNat
  <1>4. Min(S) \in Nat
    BY <1>2, <1>3 DEF Min
  <1>5. Start(Min(S)) \in Nat
    BY <1>4, Starts
  <1>6. QED
    BY <1>1, <1>5, Sizes DEF RestoredHead

LEMMA RestoredFlushed ==
  ASSUME NEW T \in Nat
  PROVE  LastFlushed(RestoredLastFlushed(T))
  <1>1. PICK R : R = RestoredPages(T) /\ R \in SUBSET Nat
    BY RestoredPagesNat
  <1>2. PICK last : last = RestoredLastFlushed(T)
    OBVIOUS
  <1>3. last = [s \in Slots |-> IF \E p \in R : Slot(p) = s
                                THEN Start((CHOOSE p \in R : Slot(p) = s) + 1) ELSE 0]
    BY <1>1, <1>2 DEF RestoredLastFlushed
  <1>4. ASSUME NEW s \in Slots
        PROVE  /\ last[s] \in Nat
               /\ last[s] # 0 => \E p \in Nat : Slot(p) = s /\ Covers(p, last[s])
    <2>1. CASE \E p \in R : Slot(p) = s
      <3>1. PICK q : q = CHOOSE p \in R : Slot(p) = s
        OBVIOUS
      <3>2. q \in Nat /\ Slot(q) = s
        BY <1>1, <2>1, <3>1
      <3>3. last[s] = Start(q + 1)
        BY <1>3, <2>1, <3>1
      <3>4. Start(q + 1) \in Nat /\ Start(q) < Start(q + 1)
        BY <3>2, Starts
      <3>5. QED
        BY <3>2, <3>3, <3>4 DEF Covers
    <2>2. CASE ~(\E p \in R : Slot(p) = s)
      BY <1>3, <2>2
    <2>3. QED
      BY <2>1, <2>2
  <1>5. QED
    BY <1>2, <1>3, <1>4 DEF LastFlushed

LEMMA CrashStep ==
  ASSUME LogInv, CrashAndRestore
  PROVE  LogInv'
  <1>1. PICK T \in Nat : T = durable
    BY DEF LogInv, AddressInv
  <1>2. /\ tail' = [page |-> Page(T), offset |-> Offset(T)]
        /\ read_only_address' = T /\ safe_read_only_address' = T
        /\ head_address' = RestoredHead(T) /\ safe_head_address' = head_address'
        /\ flushed_until_address' = Start(Page(T)) /\ last_flushed' = RestoredLastFlushed(T)
        /\ kept' = {r \in kept : r[1] < T}
        /\ actions' = {} /\ running' = {} /\ writes' = <<>>
        /\ call' = [t \in Thread |-> Idle] /\ final_address' = 0 /\ durable' = durable
    BY <1>1 DEF CrashAndRestore
  <1>3. Page(T) \in Nat /\ Offset(T) \in Nat /\ Start(Page(T)) \in Nat /\ RestoredHead(T) \in Nat
    BY AddressParts, RestoredHeadNat, Sizes
  <1>4. AddressInv'
    BY <1>1, <1>2, <1>3 DEF LogInv, AddressInv, TailRec
  <1>5. ActionInv'
    BY <1>2 DEF ActionInv
  <1>6. FlushInv'
    BY <1>2, RestoredFlushed DEF FlushInv
  <1>7. CallInv'
    BY <1>2 DEF CallInv, CallRec, Idle, Protected
  <1>8. QED
    BY <1>4, <1>5, <1>6, <1>7 DEF LogInv

-----------------------------------------------------------------------------
LEMMA LogInit ==
  ASSUME Init
  PROVE  LogInv
  <1>1. PICK T \in Nat : T = env.start
    BY EnvironmentsAssumption DEF Init
  <1>2. PICK at \in Nat : at = IF T = 0 THEN kCacheLineBytes ELSE T
    BY Sizes
  <1>3. /\ tail = [page |-> Page(at), offset |-> Offset(at)]
        /\ read_only_address = at /\ safe_read_only_address = at
        /\ head_address = (IF T = 0 THEN at ELSE RestoredHead(T))
        /\ safe_head_address = head_address
        /\ flushed_until_address = (IF T = 0 THEN 0 ELSE Start(Page(T)))
        /\ last_flushed = (IF T = 0 THEN [s \in Slots |-> 0] ELSE RestoredLastFlushed(T))
        /\ durable = T
    BY <1>1, <1>2 DEF Init
  <1>4. /\ actions = {} /\ running = {} /\ writes = <<>> /\ final_address = 0
        /\ call = [t \in Thread |-> Idle]
    BY DEF Init
  <1>5. \A r \in kept : r[1] \in Nat
    <2>1. kept = {<<a, 0>> : a \in {x \in 0 .. T - 1 : x >= kCacheLineBytes /\ x % RecordSize = 0}}
      BY <1>1 DEF Init
    <2>2. QED
      BY <2>1
  <1>6. /\ Page(at) \in Nat /\ Offset(at) \in Nat /\ Start(Page(T)) \in Nat
        /\ RestoredHead(T) \in Nat
    BY AddressParts, RestoredHeadNat, Sizes
  <1>7. AddressInv
    BY <1>3, <1>4, <1>5, <1>6 DEF AddressInv, TailRec
  <1>8. ActionInv /\ CallInv
    BY <1>4 DEF ActionInv, CallInv, CallRec, Idle, Protected
  <1>9. LastFlushed(last_flushed)
    <2>1. LastFlushed([s \in Slots |-> 0])
      BY DEF LastFlushed
    <2>2. QED
      BY <1>3, <2>1, RestoredFlushed
  <1>10. FlushInv
    BY <1>4, <1>9 DEF FlushInv
  <1>11. QED
    BY <1>7, <1>8, <1>10 DEF LogInv

\* No thread without a session enters a call.
LEMMA SessionStep ==
  ASSUME LogInv, SessionInv, [Next]_vars
  PROVE  SessionInv'
  <1>1. ASSUME NEW t \in Thread, Refresh(t) \/ Allocate(t) \/ BeginRead(t) \/ Continue(t)
        PROVE  SessionInv'
    <2>1. env' = env
      BY <1>1 DEF Refresh, Allocate, BeginRead, Continue, CheckReadOnly, Fill, EndRead, NewPage,
             PageAlignedShiftReadOnlyAddress, PageAlignedShiftHeadAddress, AllocatePage,
             RefreshAndRetry
    <2>2. t \in env.threads
      BY <1>1 DEF SessionInv, AtHost, Refresh, Allocate, BeginRead, Continue, CheckReadOnly, Fill,
             EndRead, NewPage, PageAlignedShiftReadOnlyAddress, PageAlignedShiftHeadAddress,
             AllocatePage, RefreshAndRetry
    <2>3. ASSUME NEW u \in Thread, u # t PROVE call'[u] = call[u]
      <3>1. call \in [Thread -> CallRec]
        BY DEF LogInv, CallInv
      <3>2. QED
        BY <1>1, <2>3, <3>1 DEF Refresh, Allocate, BeginRead, Continue, CheckReadOnly, Fill,
           EndRead, NewPage, PageAlignedShiftReadOnlyAddress, PageAlignedShiftHeadAddress,
           AllocatePage, RefreshAndRetry
    <2>4. QED
      BY <2>1, <2>2, <2>3 DEF SessionInv
  <1>2. CASE RunActions \/ Device \/ CheckpointFlushed \/ UNCHANGED vars
    <2>1. UNCHANGED <<env, call>>
      BY <1>2 DEF RunActions, Drain, AsyncFlushPages, ClosePages, Device, WritePage, OnFlushed,
             CheckpointFlushed, vars
    <2>2. QED
      BY <2>1 DEF SessionInv
  <1>3. CASE ShiftReadOnlyToTail
    <2>1. call' = call /\ env' = [env EXCEPT !.checkpoints = @ - 1] /\ env.checkpoints > 0
      BY <1>3 DEF ShiftReadOnlyToTail
    <2>2. env' \in EnvRec /\ env'.threads = env.threads
      BY <2>1 DEF SessionInv, EnvRec
    <2>3. QED
      BY <2>1, <2>2 DEF SessionInv
  <1>4. CASE CrashAndRestore
    <2>1. /\ call' = [t \in Thread |-> Idle] /\ env' = [env EXCEPT !.crashes = @ - 1]
          /\ env.crashes > 0
      BY <1>4 DEF CrashAndRestore
    <2>2. env' \in EnvRec
      BY <2>1 DEF SessionInv, EnvRec
    <2>3. QED
      BY <2>1, <2>2 DEF SessionInv, Idle
  <1>5. QED
    BY <1>1, <1>2, <1>3, <1>4 DEF Next

LEMMA LogNext ==
  ASSUME LogInv, SessionInv, [Next]_vars
  PROVE  LogInv'
  <1>1. ASSUME NEW t \in Thread, Refresh(t) \/ Allocate(t) \/ BeginRead(t) \/ Continue(t)
        PROVE  LogInv'
    BY <1>1, RefreshStep, AllocateStep, BeginReadStep, CheckStep, OperationSteps,
       ShiftReadOnlyStep, ShiftHeadStep DEF Continue
  <1>2. CASE RunActions \/ Device
    BY <1>2, DrainStep, FlushPageStep, ClosePageStep, DeviceStep, FlushedStep DEF RunActions, Device
  <1>3. CASE ShiftReadOnlyToTail \/ CheckpointFlushed \/ CrashAndRestore
    BY <1>3, ShiftToTailStep, CheckpointStep, CrashStep
  <1>4. CASE UNCHANGED vars
    BY <1>4 DEF vars, addresses, buffer, io, checkpoint, LogInv, AddressInv, ActionInv, FlushInv,
                CallInv, Protected, Awaited
  <1>5. QED
    BY <1>1, <1>2, <1>3, <1>4 DEF Next

\* What a thread does between two refreshes is protected by the epoch, whatever
\* the sizes of the log, the threads, the order in which writes end, and with
\* checkpoints and crashes: no submitted write covers a record that is being
\* filled in, and no page being closed holds a record that is being read.
THEOREM ThreadsAreGuarded == Spec => []EpochGuards
  <1>1. Init => LogInv /\ SessionInv
    <2>1. Init => SessionInv
      BY EnvironmentsAssumption DEF Init, SessionInv, EnvRec, Idle
    <2>2. QED
      BY <2>1, LogInit
  <1>2. LogInv /\ SessionInv /\ [Next]_vars => LogInv' /\ SessionInv'
    BY LogNext, SessionStep
  <1>3. LogInv => EpochGuards
    BY InvGuards
  <1>4. QED
    BY <1>1, <1>2, <1>3, PTL DEF Spec
=============================================================================
