--------------------------- MODULE LevelHashProofs --------------------------
(***************************************************************************)
(* The level hash table is what its calls made of it, and a lookup misses  *)
(* only what moves, for every hash function, bucket size, number of items, *)
(* keys and threads; a table that is full may be resized any number of     *)
(* times, with no call between two resizes and none after the last one.    *)
(***************************************************************************)
EXTENDS LevelHash, CountingProofs

\* pow(2, n): the capacities double.
LEMMA Pow2Equation ==
  /\ Pow2 \in [Nat -> Nat]
  /\ Pow2[0] = 1
  /\ \A n \in Nat : Pow2[n + 1] = 2 * Pow2[n]
  <1>1. DEFINE h == [x \in Nat \X Nat |-> 2 * x[2]]
  <1>2. PICK f : Iterates(Nat, 1, h, f)
    <2>1. IsStep(Nat, 1, h)
      BY DEF IsStep
    <2>2. QED
      BY <2>1, Recursion, Zenon
  <1>3. f \in [Nat -> Nat] /\ f[0] = 1 /\ \A n \in Nat : f[n + 1] = h[<<n, f[n]>>]
    BY <1>2 DEF Iterates
  <1>4. \A n \in Nat : f[n + 1] = 2 * f[n]
    BY <1>3
  <1>5. f = [n \in Nat |-> IF n = 0 THEN 1 ELSE 2 * f[n - 1]]
    <2>1. ASSUME NEW n \in Nat PROVE f[n] = IF n = 0 THEN 1 ELSE 2 * f[n - 1]
      <3>1. CASE n = 0
        BY <1>3, <3>1
      <3>2. CASE n # 0
        <4>1. n - 1 \in Nat /\ n = (n - 1) + 1
          BY <3>2
        <4>2. QED
          BY <1>4, <3>2, <4>1
      <3>3. QED
        BY <3>1, <3>2
    <2>2. QED
      BY <1>3, <2>1
  <1>6. Pow2 = [n \in Nat |-> IF n = 0 THEN 1 ELSE 2 * Pow2[n - 1]]
    BY <1>5 DEF Pow2
  <1>7. DEFINE S == {n \in Nat : Pow2[n] = f[n]}
  <1>8. 0 \in S
    BY <1>3, <1>6
  <1>9. ASSUME NEW n \in Nat, n \in S PROVE n + 1 \in S
    <2>1. Pow2[n + 1] = 2 * Pow2[(n + 1) - 1]
      BY <1>6
    <2>2. QED
      BY <1>4, <1>9, <2>1
  <1>10. Nat \subseteq S
    <2>1. HIDE DEF S
    <2>2. QED
      BY <1>8, <1>9, NatInductionSet
  <1>11. Pow2 = f
    BY <1>3, <1>6, <1>10
  <1>12. QED
    BY <1>3, <1>4, <1>11

LEMMA Pow2Positive == \A n \in Nat : Pow2[n] \in Nat \ {0}
  <1>1. DEFINE S == {n \in Nat : Pow2[n] # 0}
  <1>2. 0 \in S
    BY Pow2Equation
  <1>3. ASSUME NEW n \in Nat, n \in S PROVE n + 1 \in S
    <2>1. Pow2[n] \in Nat /\ Pow2[n] # 0 /\ Pow2[n + 1] = 2 * Pow2[n]
      BY <1>3, Pow2Equation
    <2>2. QED
      BY <2>1
  <1>4. Nat \subseteq S
    <2>1. HIDE DEF S
    <2>2. QED
      BY <1>2, <1>3, NatInductionSet
  <1>5. QED
    BY <1>4, Pow2Equation

\* A level has at least four buckets at the top and half of that at the bottom.
LEMMA Pow2Quarters ==
  ASSUME NEW n \in Nat, n >= 2
  PROVE  \E q \in Nat \ {0} : Pow2[n] = 4 * q /\ Pow2[n - 1] = 2 * q /\ Pow2[n + 1] = 8 * q
  <1>1. n - 2 \in Nat /\ n - 1 \in Nat /\ n - 1 = (n - 2) + 1 /\ n = (n - 1) + 1
    OBVIOUS
  <1>2. PICK q \in Nat \ {0} : q = Pow2[n - 2]
    BY <1>1, Pow2Positive
  <1>3. Pow2[n - 1] = 2 * q
    BY <1>1, <1>2, Pow2Equation
  <1>4. Pow2[n] = 2 * Pow2[n - 1]
    BY <1>1, Pow2Equation
  <1>5. Pow2[n + 1] = 2 * Pow2[n]
    BY Pow2Equation
  <1>6. QED
    BY <1>3, <1>4, <1>5

-----------------------------------------------------------------------------
AnyKey == Key \cup {NoKey}
AnyItem == Item \cup {NoItem}
HasSize == level_size \in Nat /\ level_size >= 2

\* The slots in which a lookup of a key looks, in a table of a given size.
BucketsOf(k, c) == {F_IDX(k, c), S_IDX(k, c)}
PlacesAt(k, size) ==
  {s \in {0, 1} \X Nat \X (0 .. ASSOC_NUM - 1) :
     s[2] \in BucketsOf(k, Pow2[size] \div (1 + s[1]))}
Places(k) == PlacesAt(k, level_size)

LEMMA AssocNum == ASSOC_NUM \in Nat /\ ASSOC_NUM > 0
  BY SizeAssumption

\* Indexes are below the capacity they are computed with.
LEMMA IndexBounds ==
  ASSUME NEW k \in AnyKey, NEW h \in Nat \ {0}
  PROVE  /\ F_IDX(k, 2 * h) \in Nat /\ F_IDX(k, 2 * h) < 2 * h
         /\ S_IDX(k, 2 * h) \in Nat /\ S_IDX(k, 2 * h) < 2 * h
  <1>1. PICK f \in Nat, s \in Nat : f = FHash[k] /\ s = SHash[k]
    BY HashAssumption DEF AnyKey
  <1>2. (2 * h) \div 2 = h
    OBVIOUS
  <1>3. f % h \in 0 .. h - 1 /\ s % h \in 0 .. h - 1
    BY DivMod
  <1>4. QED
    BY <1>1, <1>2, <1>3 DEF F_IDX, S_IDX

\* The capacities of the two levels of a table.
LEMMA Capacities ==
  ASSUME NEW size \in Nat, size >= 2
  PROVE  \E q \in Nat \ {0} :
           /\ Pow2[size] = 4 * q /\ Pow2[size - 1] = 2 * q /\ Pow2[size + 1] = 8 * q
           /\ Pow2[size] \div (1 + 0) = 2 * (2 * q)
           /\ Pow2[size] \div (1 + 1) = 2 * q
  <1>1. PICK q \in Nat \ {0} : Pow2[size] = 4 * q /\ Pow2[size - 1] = 2 * q /\ Pow2[size + 1] = 8 * q
    BY Pow2Quarters
  <1>2. (4 * q) \div (1 + 0) = 2 * (2 * q) /\ (4 * q) \div (1 + 1) = 2 * q
    OBVIOUS
  <1>3. QED
    BY <1>1, <1>2

LEMMA PlacesAreSlots ==
  ASSUME NEW size \in Nat, size >= 2, NEW k \in AnyKey
  PROVE  /\ PlacesAt(k, size) \subseteq SlotsOf(size)
         /\ \A l \in {0, 1} : BucketsOf(k, Pow2[size] \div (1 + l)) \subseteq Nat
  <1>1. PICK q \in Nat \ {0} :
           /\ Pow2[size] = 4 * q /\ Pow2[size - 1] = 2 * q
           /\ Pow2[size] \div (1 + 0) = 2 * (2 * q)
           /\ Pow2[size] \div (1 + 1) = 2 * q
    BY Capacities
  <1>2. \A b \in BucketsOf(k, 2 * (2 * q)) : b \in Nat /\ b < 4 * q
    <2>1. 2 * q \in Nat \ {0} /\ 2 * (2 * q) = 4 * q
      OBVIOUS
    <2>2. PICK p \in Nat \ {0} : p = 2 * q /\ 2 * p = 4 * q
      BY <2>1
    <2>3. \A b \in BucketsOf(k, 2 * p) : b \in Nat /\ b < 2 * p
      BY IndexBounds DEF BucketsOf
    <2>4. QED
      BY <2>2, <2>3
  <1>3. \A b \in BucketsOf(k, 2 * q) : b \in Nat /\ b < 2 * q
    BY IndexBounds DEF BucketsOf
  <1>4. ASSUME NEW s \in PlacesAt(k, size) PROVE s \in SlotsOf(size)
    <2>1. PICK l \in {0, 1}, b \in Nat, i \in 0 .. ASSOC_NUM - 1 :
            s = <<l, b, i>> /\ b \in BucketsOf(k, Pow2[size] \div (1 + l))
      BY <1>4 DEF PlacesAt
    <2>2. CASE l = 0
      <3>1. b < 4 * q /\ size - 0 = size
        BY <1>1, <1>2, <2>1, <2>2
      <3>2. QED
        BY <1>1, <2>1, <2>2, <3>1 DEF SlotsOf
    <2>3. CASE l = 1
      <3>1. b < 2 * q
        BY <1>1, <1>3, <2>1, <2>3
      <3>2. QED
        BY <1>1, <2>1, <2>3, <3>1 DEF SlotsOf
    <2>4. QED
      BY <2>2, <2>3
  <1>5. QED
    BY <1>1, <1>2, <1>3, <1>4

\* A place is given by its level, one of the two buckets, and the slot in it.
LEMMA PlaceMembers ==
  ASSUME HasSize, NEW k \in AnyKey, NEW l \in {0, 1}, NEW b, NEW i \in 0 .. ASSOC_NUM - 1
  PROVE  /\ <<l, b, i>> \in Places(k) <=> b \in BucketsOf(k, Capacity(l))
         /\ BucketsOf(k, Capacity(l)) \subseteq Nat
  <1>1. BucketsOf(k, Pow2[level_size] \div (1 + l)) \subseteq Nat
    BY PlacesAreSlots DEF HasSize
  <1>2. QED
    BY <1>1 DEF Places, PlacesAt, Capacity

LEMMA PlaceParts ==
  ASSUME HasSize, NEW k \in AnyKey, NEW s \in Places(k)
  PROVE  \E l \in {0, 1}, i \in 0 .. ASSOC_NUM - 1 :
           s = <<l, F_IDX(k, Capacity(l)), i>> \/ s = <<l, S_IDX(k, Capacity(l)), i>>
  <1>1. PICK l \in {0, 1}, b \in Nat, i \in 0 .. ASSOC_NUM - 1 :
          s = <<l, b, i>> /\ b \in BucketsOf(k, Pow2[level_size] \div (1 + l))
    BY DEF Places, PlacesAt
  <1>2. QED
    BY <1>1 DEF BucketsOf, Capacity

\* What a lookup visits is exactly the places of its key ...
LEMMA LookupPlaces ==
  ASSUME HasSize, NEW k \in AnyKey
  PROVE  /\ \A n \in 0 .. 4 * ASSOC_NUM - 1 : LookupSlot(k, n) \in Places(k)
         /\ \A s \in Places(k) : \E n \in 0 .. 4 * ASSOC_NUM - 1 : s = LookupSlot(k, n)
  <1>0. PICK A \in Nat \ {0} : A = ASSOC_NUM
    BY AssocNum
  <1>1. ASSUME NEW n \in 0 .. 4 * A - 1 PROVE LookupSlot(k, n) \in Places(k)
    <2>1. PICK l \in Nat, r \in 0 .. 2 * A - 1 :
            l = n \div (2 * A) /\ r = n % (2 * A) /\ n = (2 * A) * l + r
      <3>1. 2 * A \in Nat \ {0} /\ n \in Nat
        OBVIOUS
      <3>2. QED
        BY <3>1, DivMod
    <2>2. l \in {0, 1}
      <3>1. SUFFICES ASSUME l >= 2 PROVE FALSE
        BY <2>1
      <3>2. (2 * A) * l >= (2 * A) * 2
        BY <3>1, Z3
      <3>3. QED
        BY <2>1, <3>2, Z3
    <2>3. PICK i \in 0 .. A - 1 : i = r % A
      <3>1. r \in Nat
        OBVIOUS
      <3>2. QED
        BY <3>1, DivMod
    <2>4. LookupSlot(k, n) =
            <<l, IF r < A THEN F_IDX(k, Capacity(l)) ELSE S_IDX(k, Capacity(l)), i>>
      BY <1>0, <2>1, <2>3 DEF LookupSlot
    <2>5. QED
      BY <1>0, <2>2, <2>4, PlaceMembers DEF BucketsOf
  <1>2. ASSUME NEW s \in Places(k) PROVE \E n \in 0 .. 4 * A - 1 : s = LookupSlot(k, n)
    <2>1. PICK l \in {0, 1}, i \in 0 .. A - 1 :
            s = <<l, F_IDX(k, Capacity(l)), i>> \/ s = <<l, S_IDX(k, Capacity(l)), i>>
      BY <1>0, PlaceParts
    <2>2. ASSUME NEW r \in 0 .. 2 * A - 1, NEW n \in Nat, n = (2 * A) * l + r
          PROVE  n \div (2 * A) = l /\ n % (2 * A) = r /\ n \in 0 .. 4 * A - 1
      <3>1. 2 * A \in Nat \ {0} /\ l \in Nat /\ r \in Nat /\ r < 2 * A
        OBVIOUS
      <3>2. ((2 * A) * l + r) \div (2 * A) = l /\ ((2 * A) * l + r) % (2 * A) = r
        BY <3>1, DivModUnique
      <3>3. n <= 4 * A - 1
        <4>1. CASE l = 0
          BY <2>2, <4>1
        <4>2. CASE l = 1
          BY <2>2, <4>2
        <4>3. QED
          BY <4>1, <4>2
      <3>4. QED
        BY <2>2, <3>2, <3>3
    <2>3. i % A = i /\ (A + i) % A = i
      <3>1. (A * 0 + i) % A = i /\ (A * 1 + i) % A = i
        <4>1. i \in Nat /\ i < A /\ 0 \in Nat /\ 1 \in Nat
          OBVIOUS
        <4>2. QED
          BY <4>1, DivModUnique
      <3>2. A * 0 + i = i /\ A * 1 + i = A + i
        BY Z3
      <3>3. QED
        BY <3>1, <3>2
    <2>4. CASE s = <<l, F_IDX(k, Capacity(l)), i>>
      <3>1. PICK n \in Nat : n = (2 * A) * l + i
        BY Z3
      <3>2. n \div (2 * A) = l /\ n % (2 * A) = i /\ n \in 0 .. 4 * A - 1
        BY <2>2, <3>1
      <3>3. LookupSlot(k, n) = <<l, F_IDX(k, Capacity(l)), i>>
        BY <1>0, <2>3, <3>2 DEF LookupSlot
      <3>4. QED
        BY <2>4, <3>2, <3>3
    <2>5. CASE s = <<l, S_IDX(k, Capacity(l)), i>>
      <3>1. PICK r \in 0 .. 2 * A - 1 : r = A + i
        OBVIOUS
      <3>2. PICK n \in Nat : n = (2 * A) * l + r
        BY Z3
      <3>3. n \div (2 * A) = l /\ n % (2 * A) = r /\ n \in 0 .. 4 * A - 1
        BY <2>2, <3>2
      <3>4. LookupSlot(k, n) = <<l, S_IDX(k, Capacity(l)), i>>
        <4>1. ~(r < A) /\ r % A = i
          BY <2>3, <3>1
        <4>2. QED
          BY <1>0, <3>3, <4>1 DEF LookupSlot
      <3>5. QED
        BY <2>5, <3>3, <3>4
    <2>6. QED
      BY <2>1, <2>4, <2>5
  <1>3. QED
    BY <1>0, <1>1, <1>2

LEMMA VisitedPlaces ==
  ASSUME HasSize, NEW k \in AnyKey
  PROVE  Visited(k) = Places(k)
  BY LookupPlaces DEF Visited

\* ... and so is what an insertion visits, ...
LEMMA InsertPlaces ==
  ASSUME HasSize, NEW k \in AnyKey
  PROVE  /\ \A n \in 0 .. 4 * ASSOC_NUM - 1 : InsertSlot(k, n) \in Places(k)
         /\ \A s \in Places(k) : \E n \in 0 .. 4 * ASSOC_NUM - 1 : s = InsertSlot(k, n)
  <1>0. PICK A \in Nat \ {0} : A = ASSOC_NUM
    BY AssocNum
  <1>1. ASSUME NEW n \in 0 .. 4 * A - 1 PROVE InsertSlot(k, n) \in Places(k)
    <2>1. PICK l \in Nat, r \in 0 .. 2 * A - 1 :
            l = n \div (2 * A) /\ r = n % (2 * A) /\ n = (2 * A) * l + r
      <3>1. 2 * A \in Nat \ {0} /\ n \in Nat
        OBVIOUS
      <3>2. QED
        BY <3>1, DivMod
    <2>2. l \in {0, 1}
      <3>1. SUFFICES ASSUME l >= 2 PROVE FALSE
        BY <2>1
      <3>2. (2 * A) * l >= (2 * A) * 2
        BY <3>1, Z3
      <3>3. QED
        BY <2>1, <3>2, Z3
    <2>3. PICK i \in 0 .. A - 1 : i = r \div 2
      OBVIOUS
    <2>4. InsertSlot(k, n) =
            <<l, IF r % 2 = 0 THEN F_IDX(k, Capacity(l)) ELSE S_IDX(k, Capacity(l)), i>>
      BY <1>0, <2>1, <2>3 DEF InsertSlot
    <2>5. QED
      BY <1>0, <2>2, <2>4, PlaceMembers DEF BucketsOf
  <1>2. ASSUME NEW s \in Places(k) PROVE \E n \in 0 .. 4 * A - 1 : s = InsertSlot(k, n)
    <2>1. PICK l \in {0, 1}, i \in 0 .. A - 1 :
            s = <<l, F_IDX(k, Capacity(l)), i>> \/ s = <<l, S_IDX(k, Capacity(l)), i>>
      BY <1>0, PlaceParts
    <2>2. ASSUME NEW r \in 0 .. 2 * A - 1, NEW n \in Nat, n = (2 * A) * l + r
          PROVE  n \div (2 * A) = l /\ n % (2 * A) = r /\ n \in 0 .. 4 * A - 1
      <3>1. 2 * A \in Nat \ {0} /\ l \in Nat /\ r \in Nat /\ r < 2 * A
        OBVIOUS
      <3>2. ((2 * A) * l + r) \div (2 * A) = l /\ ((2 * A) * l + r) % (2 * A) = r
        BY <3>1, DivModUnique
      <3>3. n <= 4 * A - 1
        <4>1. CASE l = 0
          BY <2>2, <4>1
        <4>2. CASE l = 1
          BY <2>2, <4>2
        <4>3. QED
          BY <4>1, <4>2
      <3>4. QED
        BY <2>2, <3>2, <3>3
    <2>3. ASSUME NEW e \in {0, 1},
                 s = <<l, IF e = 0 THEN F_IDX(k, Capacity(l)) ELSE S_IDX(k, Capacity(l)), i>>
          PROVE  \E n \in 0 .. 4 * A - 1 : s = InsertSlot(k, n)
      <3>1. PICK r \in 0 .. 2 * A - 1 : r = 2 * i + e /\ r \div 2 = i /\ r % 2 = e
        OBVIOUS
      <3>2. PICK n \in Nat : n = (2 * A) * l + r
        BY Z3
      <3>3. n \div (2 * A) = l /\ n % (2 * A) = r /\ n \in 0 .. 4 * A - 1
        BY <2>2, <3>2
      <3>4. InsertSlot(k, n) = s
        BY <1>0, <2>3, <3>1, <3>3 DEF InsertSlot
      <3>5. QED
        BY <3>3, <3>4
    <2>4. QED
      BY <2>1, <2>3
  <1>3. QED
    BY <1>0, <1>1, <1>2

\* ... and the slots whose items an insertion tries to move.
LEMMA SourcePlaces ==
  ASSUME HasSize, NEW k \in AnyKey, NEW n \in 0 .. 4 * ASSOC_NUM - 1
  PROVE  SourceSlot(k, n) \in Places(k)
  <1>0. PICK A \in Nat \ {0} : A = ASSOC_NUM
    BY AssocNum
  <1>1. PICK q \in Nat, i \in 0 .. A - 1 : q = n \div A /\ i = n % A /\ n = A * q + i
    BY <1>0, DivMod
  <1>2. PICK l \in {0, 1} : l = IF q < 2 THEN 0 ELSE 1
    OBVIOUS
  <1>3. SourceSlot(k, n) =
          <<l, IF q % 2 = 0 THEN F_IDX(k, Capacity(l)) ELSE S_IDX(k, Capacity(l)), i>>
    BY <1>0, <1>1, <1>2 DEF SourceSlot
  <1>4. QED
    BY <1>0, <1>3, PlaceMembers DEF BucketsOf

\* The item of any slot can only move to places of its key.
LEMMA DestPlaces ==
  ASSUME HasSize, NEW s, s[1] \in {0, 1}, NEW k \in AnyKey, KeyOf[buckets[s].item] = k,
         NEW n \in 0 .. ASSOC_NUM - 1
  PROVE  DestSlot(s, n) \in Places(k)
  <1>1. PICK l \in {0, 1} : l = s[1]
    OBVIOUS
  <1>2. OtherBucket(s) \in BucketsOf(k, Capacity(l))
    BY <1>1 DEF OtherBucket, BucketsOf
  <1>3. DestSlot(s, n) = <<l, OtherBucket(s), n>>
    BY <1>1 DEF DestSlot
  <1>4. QED
    BY <1>2, <1>3, PlaceMembers

-----------------------------------------------------------------------------
(***************************************************************************)
(* The types, with what is known of a thread in each place of its program. *)
(***************************************************************************)
CallOK(t) ==
  /\ pc[t] = "idle" <=> op[t] = "none"
  /\ pc[t] = "idle" => key[t] = NoKey /\ item[t] = NoItem /\ pos[t] = 0
  /\ pc[t] \in {"idle", "probe"} => source[t] = 0 /\ dest[t] = 0
  /\ pc[t] # "idle" => key[t] \in Key
  /\ op[t] = "insert" => item[t] \in Item /\ KeyOf[item[t]] = key[t]
  /\ pc[t] \in {"lock", "move"} => op[t] = "insert" /\ pos[t] = 4 * ASSOC_NUM
  /\ pc[t] = "lock" => source[t] <= Sources
  /\ pc[t] = "move" => source[t] < Sources /\ dest[t] < ASSOC_NUM

\* Calls that run side by side are of a group, and insert different items.
CallsAgree ==
  \A t, u \in Thread :
    /\ pc[t] # "idle" /\ pc[u] # "idle" => \E g \in plan.groups : {op[t], op[u]} \subseteq g
    /\ t # u /\ op[t] = "insert" /\ op[u] = "insert" => item[t] # item[u]

CallInv ==
  /\ TypeOK
  /\ level_size = LevelSize + level_resize
  /\ \A t \in Thread : CallOK(t)
  /\ CallsAgree

LEMMA CallInvSize ==
  ASSUME CallInv
  PROVE  HasSize /\ Sources \in Nat /\ Sources = 4 * ASSOC_NUM
  <1>1. HasSize
    BY SizeAssumption DEF CallInv, TypeOK, HasSize
  <1>2. QED
    BY <1>1, AssocNum DEF Sources

LEMMA CallInvInit == Init => CallInv
  <1>1. SUFFICES ASSUME Init PROVE CallInv
    OBVIOUS
  <1>2. TypeOK
    <2>1. Unused \in Entry
      BY DEF Unused, Entry
    <2>2. buckets \in [SlotsOf(level_size) -> Entry]
      BY <1>1, <2>1 DEF Init
    <2>3. level_size \in LevelSize .. LevelSize + MaxResize /\ level_resize \in 0 .. MaxResize
      BY <1>1, SizeAssumption DEF Init
    <2>4. /\ pos \in [Thread -> 0 .. 4 * ASSOC_NUM]
          /\ source \in [Thread -> 0 .. 4 * ASSOC_NUM]
          /\ dest \in [Thread -> 0 .. ASSOC_NUM]
      BY <1>1, AssocNum DEF Init
    <2>5. QED
      BY <1>1, <2>2, <2>3, <2>4 DEF Init, TypeOK
  <1>3. ASSUME NEW t \in Thread PROVE CallOK(t)
    BY <1>1 DEF Init, CallOK
  <1>4. CallsAgree
    BY <1>1 DEF Init, CallsAgree
  <1>5. QED
    BY <1>1, <1>2, <1>3, <1>4, SizeAssumption DEF Init, CallInv

\* What Observe writes.
LEMMA ObserveType ==
  ASSUME Observe
  PROVE  present' \in [Thread -> SUBSET Item] /\ moved' \in [Thread -> SUBSET Item]
  <1>1. \A t : Sought(t)' \subseteq Item
    BY DEF Sought
  <1>2. present' \in [Thread -> SUBSET Item]
    BY <1>1 DEF Observe
  <1>3. QED
    BY <1>2 DEF Observe

\* The slots that a thread is about to visit are slots of the table.
LEMMA VisitedSlots ==
  ASSUME CallInv, NEW t \in Thread, pc[t] # "idle"
  PROVE  /\ key[t] \in AnyKey
         /\ \A k \in AnyKey : Places(k) \subseteq DOMAIN buckets
         /\ DOMAIN buckets = SlotsOf(level_size)
         /\ op[t] # "insert" /\ pos[t] < Lookups => LookupSlot(key[t], pos[t]) \in DOMAIN buckets
         /\ pos[t] < 4 * ASSOC_NUM => InsertSlot(key[t], pos[t]) \in DOMAIN buckets
         /\ source[t] < Sources =>
              /\ SourceSlot(key[t], source[t]) \in Places(key[t])
              /\ SourceSlot(key[t], source[t]) \in DOMAIN buckets
              /\ SourceSlot(key[t], source[t])[1] \in {0, 1}
  <1>1. HasSize /\ Sources \in Nat /\ Sources = 4 * ASSOC_NUM
    BY CallInvSize
  <1>2. key[t] \in AnyKey
    BY DEF CallInv, CallOK, AnyKey
  <1>3. DOMAIN buckets = SlotsOf(level_size)
    BY DEF CallInv, TypeOK
  <1>4. \A k \in AnyKey : Places(k) \subseteq DOMAIN buckets
    BY <1>1, <1>3, PlacesAreSlots DEF Places, HasSize
  <1>5. pos[t] \in 0 .. 4 * ASSOC_NUM /\ source[t] \in 0 .. 4 * ASSOC_NUM
    BY DEF CallInv, TypeOK
  <1>6. op[t] # "insert" /\ pos[t] < Lookups => LookupSlot(key[t], pos[t]) \in DOMAIN buckets
    <2>1. SUFFICES ASSUME pos[t] < Lookups PROVE LookupSlot(key[t], pos[t]) \in DOMAIN buckets
      OBVIOUS
    <2>2. pos[t] \in 0 .. 4 * ASSOC_NUM - 1
      BY <1>5, <2>1, AssocNum DEF Lookups
    <2>3. QED
      BY <1>1, <1>2, <1>4, <2>2, LookupPlaces
  <1>7. pos[t] < 4 * ASSOC_NUM => InsertSlot(key[t], pos[t]) \in DOMAIN buckets
    <2>1. SUFFICES ASSUME pos[t] < 4 * ASSOC_NUM PROVE InsertSlot(key[t], pos[t]) \in DOMAIN buckets
      OBVIOUS
    <2>2. pos[t] \in 0 .. 4 * ASSOC_NUM - 1
      BY <1>5, <2>1, AssocNum
    <2>3. QED
      BY <1>1, <1>2, <1>4, <2>2, InsertPlaces
  <1>8. ASSUME source[t] < Sources
        PROVE  /\ SourceSlot(key[t], source[t]) \in Places(key[t])
               /\ SourceSlot(key[t], source[t]) \in DOMAIN buckets
               /\ SourceSlot(key[t], source[t])[1] \in {0, 1}
    <2>1. source[t] \in 0 .. 4 * ASSOC_NUM - 1
      BY <1>1, <1>5, <1>8, AssocNum
    <2>2. SourceSlot(key[t], source[t]) \in Places(key[t])
      BY <1>1, <1>2, <2>1, SourcePlaces
    <2>3. QED
      BY <1>2, <1>4, <2>2 DEF Places, PlacesAt
  <1>9. QED
    BY <1>2, <1>3, <1>4, <1>6, <1>7, <1>8

LEMMA MovingSlots ==
  ASSUME CallInv, NEW t \in Thread, pc[t] = "move", NEW s, NEW d,
         s = SourceSlot(key[t], source[t]),
         d = DestSlot(s, dest[t])
  PROVE  /\ s \in DOMAIN buckets /\ s \in Places(key[t]) /\ d \in DOMAIN buckets
         /\ buckets[s] \in Entry /\ d \in Places(KeyOf[buckets[s].item])
  <1>1. CallOK(t) /\ HasSize
    BY CallInvSize DEF CallInv
  <1>2. source[t] < Sources /\ dest[t] < ASSOC_NUM
    BY <1>1 DEF CallOK
  <1>3. s \in DOMAIN buckets /\ s \in Places(key[t]) /\ s[1] \in {0, 1}
    BY <1>2, VisitedSlots
  <1>4. buckets[s] \in Entry
    BY <1>3 DEF CallInv, TypeOK
  <1>5. PICK k \in AnyKey : k = KeyOf[buckets[s].item]
    BY <1>4, KeyAssumption DEF Entry, AnyKey
  <1>6. dest[t] \in 0 .. ASSOC_NUM - 1
    BY <1>2, AssocNum DEF CallInv, TypeOK
  <1>8. d \in Places(k)
    BY <1>1, <1>3, <1>5, <1>6, DestPlaces
  <1>9. QED
    BY <1>3, <1>4, <1>5, <1>8, VisitedSlots

\* A step that leaves the sizes alone and touches one thread's variables.
OneThread(t) ==
  /\ \A u \in Thread \ {t} :
       /\ pc'[u] = pc[u] /\ op'[u] = op[u] /\ key'[u] = key[u] /\ item'[u] = item[u]
       /\ pos'[u] = pos[u] /\ source'[u] = source[u] /\ dest'[u] = dest[u]
  /\ plan' = plan /\ level_size' = level_size /\ level_resize' = level_resize

\* A call that returns leaves the thread as it was before the call.
LEMMA ReturnOK ==
  ASSUME CallInv, NEW t \in Thread, Return(t)
  PROVE  /\ pc' = [pc EXCEPT ![t] = "idle"] /\ op' = [op EXCEPT ![t] = "none"]
         /\ key' = [key EXCEPT ![t] = NoKey] /\ item' = [item EXCEPT ![t] = NoItem]
         /\ pos' = [pos EXCEPT ![t] = 0]
         /\ source' = [source EXCEPT ![t] = 0] /\ dest' = [dest EXCEPT ![t] = 0]
  BY DEF Return, Goto

\* A step assigns one thread's variables, and keeps the table and the map typed.
Assigns(t, p, o, k, i, n, x, y) ==
  /\ p \in {"idle", "probe", "lock", "move"}
  /\ o \in {"none", "insert", "query", "update", "delete"}
  /\ k \in AnyKey /\ i \in AnyItem /\ n \in 0 .. 4 * ASSOC_NUM
  /\ x \in 0 .. 4 * ASSOC_NUM /\ y \in 0 .. ASSOC_NUM
  /\ pc' = [pc EXCEPT ![t] = p] /\ op' = [op EXCEPT ![t] = o]
  /\ key' = [key EXCEPT ![t] = k] /\ item' = [item EXCEPT ![t] = i]
  /\ pos' = [pos EXCEPT ![t] = n]
  /\ source' = [source EXCEPT ![t] = x] /\ dest' = [dest EXCEPT ![t] = y]
TableTyped ==
  /\ UNCHANGED <<plan, level_size, level_resize>>
  /\ locked' \subseteq SlotsOf(level_size)
  /\ buckets' \in [SlotsOf(level_size) -> Entry]
  /\ dict' \in [Item -> Value \cup {NoValue}]
  /\ Observe

LEMMA LocalTypes ==
  ASSUME CallInv, NEW t \in Thread, NEW p, NEW o, NEW k, NEW i, NEW n, NEW x, NEW y,
         Assigns(t, p, o, k, i, n, x, y), TableTyped
  PROVE  /\ TypeOK' /\ OneThread(t)
         /\ pc'[t] = p /\ op'[t] = o /\ key'[t] = k /\ item'[t] = i
         /\ pos'[t] = n /\ source'[t] = x /\ dest'[t] = y
  <1>1. /\ pc \in [Thread -> {"idle", "probe", "lock", "move"}]
        /\ op \in [Thread -> {"none", "insert", "query", "update", "delete"}]
        /\ key \in [Thread -> AnyKey]
        /\ item \in [Thread -> AnyItem]
        /\ pos \in [Thread -> 0 .. 4 * ASSOC_NUM]
        /\ source \in [Thread -> 0 .. 4 * ASSOC_NUM]
        /\ dest \in [Thread -> 0 .. ASSOC_NUM]
    BY DEF CallInv, TypeOK, AnyKey, AnyItem
  <1>2. /\ pc' \in [Thread -> {"idle", "probe", "lock", "move"}]
        /\ op' \in [Thread -> {"none", "insert", "query", "update", "delete"}]
        /\ key' \in [Thread -> AnyKey]
        /\ item' \in [Thread -> AnyItem]
        /\ pos' \in [Thread -> 0 .. 4 * ASSOC_NUM]
        /\ source' \in [Thread -> 0 .. 4 * ASSOC_NUM]
        /\ dest' \in [Thread -> 0 .. ASSOC_NUM]
    BY <1>1 DEF Assigns
  <1>3. present' \in [Thread -> SUBSET Item] /\ moved' \in [Thread -> SUBSET Item]
    BY ObserveType DEF TableTyped
  <1>4. SlotsOf(level_size)' = SlotsOf(level_size)
    BY DEF SlotsOf, TableTyped
  <1>5. TypeOK'
    BY <1>2, <1>3, <1>4 DEF CallInv, TypeOK, AnyKey, AnyItem, TableTyped
  <1>6. OneThread(t)
    BY <1>1 DEF OneThread, Assigns, TableTyped
  <1>7. QED
    BY <1>1, <1>5, <1>6 DEF Assigns

\* What holds of the calls after a step of one thread follows from what holds of
\* that thread, when the step starts no call.
LEMMA OneCall ==
  ASSUME CallInv, NEW t \in Thread, TypeOK', OneThread(t), CallOK(t)',
         pc[t] # "idle",
         pc'[t] = "idle" \/ (op'[t] = op[t] /\ item'[t] = item[t])
  PROVE  CallInv'
  <1>1. ASSUME NEW u \in Thread PROVE CallOK(u)'
    <2>1. CASE u = t
      BY <2>1
    <2>2. CASE u # t
      <3>1. CallOK(u)
        BY DEF CallInv
      <3>2. QED
        BY <2>2, <3>1 DEF OneThread, CallOK, Sources
    <2>3. QED
      BY <2>1, <2>2
  <1>2. CallsAgree'
    <2>1. ASSUME NEW u \in Thread, pc'[u] # "idle"
          PROVE  pc[u] # "idle" /\ op'[u] = op[u] /\ item'[u] = item[u]
      BY <2>1 DEF OneThread
    <2>2. ASSUME NEW u \in Thread, op'[u] = "insert" PROVE pc'[u] # "idle"
      BY <1>1, <2>2 DEF CallOK
    <2>3. CallsAgree
      BY DEF CallInv
    <2>4. QED
      BY <2>1, <2>2, <2>3 DEF CallsAgree, OneThread
  <1>3. level_size' = LevelSize + level_resize'
    BY DEF CallInv, OneThread
  <1>4. QED
    BY <1>1, <1>2, <1>3 DEF CallInv

LEMMA Keep ==
  ASSUME CallInv, NEW t \in Thread
  PROVE  /\ pc = [pc EXCEPT ![t] = pc[t]] /\ op = [op EXCEPT ![t] = op[t]]
         /\ key = [key EXCEPT ![t] = key[t]] /\ item = [item EXCEPT ![t] = item[t]]
         /\ pos = [pos EXCEPT ![t] = pos[t]]
         /\ source = [source EXCEPT ![t] = source[t]] /\ dest = [dest EXCEPT ![t] = dest[t]]
         /\ pc[t] \in {"idle", "probe", "lock", "move"}
         /\ op[t] \in {"none", "insert", "query", "update", "delete"}
         /\ key[t] \in AnyKey /\ item[t] \in AnyItem /\ pos[t] \in 0 .. 4 * ASSOC_NUM
         /\ source[t] \in 0 .. 4 * ASSOC_NUM /\ dest[t] \in 0 .. ASSOC_NUM
         /\ level_size' = level_size => SlotsOf(level_size)' = SlotsOf(level_size)
         /\ locked \subseteq SlotsOf(level_size)
         /\ buckets \in [SlotsOf(level_size) -> Entry]
         /\ dict \in [Item -> Value \cup {NoValue}]
         /\ 0 \in 0 .. 4 * ASSOC_NUM /\ 0 \in 0 .. ASSOC_NUM
  BY AssocNum DEF CallInv, TypeOK, AnyKey, AnyItem, SlotsOf

\* A step in which the call of a thread returns.
LEMMA ReturnStep ==
  ASSUME CallInv, NEW t \in Thread, pc[t] # "idle", Return(t), Observe,
         UNCHANGED <<plan, level_size, level_resize>>,
         locked' \subseteq locked,
         buckets' \in [SlotsOf(level_size) -> Entry],
         dict' \in [Item -> Value \cup {NoValue}]
  PROVE  CallInv' /\ OneThread(t) /\ pc'[t] = "idle" /\ op'[t] = "none"
  <1>1. locked' \subseteq SlotsOf(level_size)
    BY Keep
  <1>2. NoKey \in AnyKey /\ NoItem \in AnyItem
    BY DEF AnyKey, AnyItem
  <1>3. /\ TypeOK' /\ OneThread(t)
        /\ pc'[t] = "idle" /\ op'[t] = "none" /\ key'[t] = NoKey /\ item'[t] = NoItem
        /\ pos'[t] = 0 /\ source'[t] = 0 /\ dest'[t] = 0
    <2>1. TableTyped
      BY <1>1 DEF TableTyped
    <2>2. Assigns(t, "idle", "none", NoKey, NoItem, 0, 0, 0)
      BY <1>2, ReturnOK, Keep DEF Assigns
    <2>3. QED
      BY <2>1, <2>2, LocalTypes
  <1>4. CallOK(t)'
    BY <1>3 DEF CallOK
  <1>5. QED
    BY <1>3, <1>4, OneCall

\* A step within a call that leaves the items alone.
Inner(t, p, n, x, y) ==
  /\ p \in {"probe", "lock", "move"} /\ n \in 0 .. 4 * ASSOC_NUM
  /\ x \in 0 .. 4 * ASSOC_NUM /\ y \in 0 .. ASSOC_NUM
  /\ pc' = [pc EXCEPT ![t] = p] /\ pos' = [pos EXCEPT ![t] = n]
  /\ source' = [source EXCEPT ![t] = x] /\ dest' = [dest EXCEPT ![t] = y]
  /\ UNCHANGED <<table, op, key, item, dict>>
  /\ locked' \subseteq SlotsOf(level_size)
  /\ Observe
  /\ p = "probe" => x = 0 /\ y = 0
  /\ p \in {"lock", "move"} => op[t] = "insert" /\ n = 4 * ASSOC_NUM
  /\ p = "lock" => x <= Sources
  /\ p = "move" => x < Sources /\ y < ASSOC_NUM

LEMMA InnerStep ==
  ASSUME CallInv, NEW t \in Thread, pc[t] # "idle", NEW p, NEW n, NEW x, NEW y,
         Inner(t, p, n, x, y)
  PROVE  /\ CallInv' /\ OneThread(t)
         /\ pc'[t] = p /\ op'[t] = op[t] /\ key'[t] = key[t] /\ item'[t] = item[t]
         /\ pos'[t] = n /\ source'[t] = x /\ dest'[t] = y
  <1>1. /\ TypeOK' /\ OneThread(t)
        /\ pc'[t] = p /\ op'[t] = op[t] /\ key'[t] = key[t] /\ item'[t] = item[t]
        /\ pos'[t] = n /\ source'[t] = x /\ dest'[t] = y
    <2>1. UNCHANGED <<plan, level_size, level_resize, buckets>>
      BY DEF table, Inner
    <2>2. /\ op' = [op EXCEPT ![t] = op[t]] /\ key' = [key EXCEPT ![t] = key[t]]
          /\ item' = [item EXCEPT ![t] = item[t]]
      BY Keep DEF Inner
    <2>3. buckets' \in [SlotsOf(level_size) -> Entry] /\ dict' \in [Item -> Value \cup {NoValue}]
      BY <2>1, Keep DEF Inner
    <2>4. /\ op[t] \in {"none", "insert", "query", "update", "delete"}
          /\ key[t] \in AnyKey /\ item[t] \in AnyItem
      BY Keep
    <2>5. p \in {"idle", "probe", "lock", "move"}
      BY DEF Inner
    <2>6. Assigns(t, p, op[t], key[t], item[t], n, x, y)
      BY <2>2, <2>4, <2>5 DEF Assigns, Inner
    <2>7. TableTyped
      BY <2>1, <2>3 DEF TableTyped, Inner
    <2>8. QED
      BY <2>6, <2>7, LocalTypes
  <1>2. CallOK(t)
    BY DEF CallInv
  <1>4. CallOK(t)'
    BY <1>1, <1>2 DEF CallOK, Sources, Inner
  <1>5. QED
    BY <1>1, <1>4, OneCall DEF Inner

LEMMA StartCalls ==
  ASSUME CallInv, NEW t \in Thread, NEW o \in {"insert", "query", "update", "delete"},
         NEW k \in Key, NEW i \in AnyItem, Start(t, o, k, i),
         o = "insert" => /\ i \in Item /\ KeyOf[i] = k
                         /\ \A u \in Thread : item[u] # i
  PROVE  /\ CallInv' /\ OneThread(t)
         /\ pc'[t] = "probe" /\ op'[t] = o /\ key'[t] = k /\ item'[t] = i /\ pos'[t] = 0
  <1>2. pc[t] = "idle" /\ CallOK(t)
    BY DEF Start, CallInv
  <1>3. pos[t] = 0 /\ source[t] = 0 /\ dest[t] = 0
    BY <1>2 DEF CallOK
  <1>4. /\ pc' = [pc EXCEPT ![t] = "probe"] /\ op' = [op EXCEPT ![t] = o]
        /\ key' = [key EXCEPT ![t] = k] /\ item' = [item EXCEPT ![t] = i]
        /\ pos' = pos /\ source' = source /\ dest' = dest
        /\ UNCHANGED <<plan, level_size, level_resize, buckets, locked, dict>> /\ Observe
    BY DEF Start, Goto, table
  <1>5. k \in AnyKey
    BY DEF AnyKey
  <1>6. /\ TypeOK' /\ OneThread(t)
        /\ pc'[t] = "probe" /\ op'[t] = o /\ key'[t] = k /\ item'[t] = i
        /\ pos'[t] = 0 /\ source'[t] = 0 /\ dest'[t] = 0
    <2>1. /\ pos' = [pos EXCEPT ![t] = 0] /\ source' = [source EXCEPT ![t] = 0]
          /\ dest' = [dest EXCEPT ![t] = 0]
      BY <1>3, <1>4, Keep
    <2>2. /\ locked' \subseteq SlotsOf(level_size)
          /\ buckets' \in [SlotsOf(level_size) -> Entry]
          /\ dict' \in [Item -> Value \cup {NoValue}]
          /\ 0 \in 0 .. 4 * ASSOC_NUM /\ 0 \in 0 .. ASSOC_NUM
      BY <1>4, Keep
    <2>3. Assigns(t, "probe", o, k, i, 0, 0, 0)
      BY <1>4, <1>5, <2>1, <2>2 DEF Assigns
    <2>4. TableTyped
      BY <1>4, <2>2 DEF TableTyped
    <2>5. QED
      BY <2>3, <2>4, LocalTypes
  <1>7. ASSUME NEW u \in Thread PROVE CallOK(u)'
    <2>1. CASE u = t
      BY <1>6, <2>1 DEF CallOK
    <2>2. CASE u # t
      <3>1. CallOK(u)
        BY DEF CallInv
      <3>2. QED
        BY <1>6, <2>2, <3>1 DEF OneThread, CallOK, Sources
    <2>3. QED
      BY <2>1, <2>2
  <1>8. CallsAgree'
    <2>1. HostAllows(o)
      BY DEF Start
    <2>2. PICK g \in plan.groups : {o} \cup {op[u] : u \in Busy} \subseteq g
      BY <2>1 DEF HostAllows
    <2>3. ASSUME NEW u \in Thread, pc'[u] # "idle"
          PROVE  op'[u] \in g
      BY <1>6, <2>2, <2>3 DEF OneThread, Busy
    <2>4. ASSUME NEW u \in Thread, NEW v \in Thread,
                 u # v, op'[u] = "insert", op'[v] = "insert"
          PROVE  item'[u] # item'[v]
      <3>1. ASSUME NEW w \in Thread, w # t, o = "insert"
            PROVE  item'[w] # i
        BY <1>6, <3>1 DEF OneThread
      <3>2. CASE u = t
        BY <1>6, <2>4, <3>1, <3>2
      <3>3. CASE v = t
        BY <1>6, <2>4, <3>1, <3>3
      <3>4. CASE u # t /\ v # t
        BY <1>6, <2>4, <3>4 DEF OneThread, CallInv, CallsAgree
      <3>5. QED
        BY <3>2, <3>3, <3>4
    <2>5. QED
      BY <1>6, <2>2, <2>3, <2>4 DEF CallsAgree, OneThread
  <1>9. level_size' = LevelSize + level_resize'
    BY <1>4 DEF CallInv
  <1>10. QED
    BY <1>6, <1>7, <1>8, <1>9 DEF CallInv

LEMMA StartInsertCalls ==
  ASSUME CallInv, NEW t \in Thread, NEW i \in Item, StartInsert(t, i)
  PROVE  /\ CallInv' /\ OneThread(t)
         /\ pc'[t] = "probe" /\ op'[t] = "insert" /\ key'[t] = KeyOf[i] /\ item'[t] = i
         /\ pos'[t] = 0
  <1>1. KeyOf[i] \in Key /\ i \in AnyItem
    BY KeyAssumption DEF AnyItem
  <1>2. Start(t, "insert", KeyOf[i], i) /\ \A u \in Thread : item[u] # i
    BY DEF StartInsert
  <1>3. QED
    BY <1>1, <1>2, StartCalls

LEMMA StartLookupCalls ==
  ASSUME CallInv, NEW t \in Thread, NEW o \in {"query", "update", "delete"}, NEW k \in Key,
         StartLookup(t, o, k)
  PROVE  /\ CallInv' /\ OneThread(t)
         /\ pc'[t] = "probe" /\ op'[t] = o /\ key'[t] = k /\ pos'[t] = 0
  <1>1. NoItem \in AnyItem
    BY DEF AnyItem
  <1>2. Start(t, o, k, NoItem)
    BY DEF StartLookup
  <1>3. QED
    BY <1>1, <1>2, StartCalls

\* Steps that write to the table write items.
LEMMA PutTyped ==
  ASSUME CallInv, NEW s \in DOMAIN buckets, NEW i \in Item, NEW v \in Value, Put(s, i, v)
  PROVE  buckets' \in [SlotsOf(level_size) -> Entry]
  <1>1. [token |-> 1, item |-> i, value |-> v] \in Entry
    BY DEF Entry
  <1>2. QED
    BY <1>1 DEF Put, CallInv, TypeOK

\* An item with the key of a call is an item.
LEMMA FoundItem ==
  ASSUME CallInv, NEW t \in Thread, pc[t] # "idle", NEW s \in DOMAIN buckets,
         KeyOf[buckets[s].item] = key[t]
  PROVE  buckets[s].item \in Item
  <1>1. key[t] \in Key
    BY DEF CallInv, CallOK
  <1>2. buckets[s].item \in Item \cup {NoItem}
    BY DEF CallInv, TypeOK, Entry
  <1>3. QED
    BY <1>1, <1>2, KeyAssumption

LEMMA LookupFoundCalls ==
  ASSUME CallInv, NEW t \in Thread, LookupFound(t)
  PROVE  CallInv' /\ OneThread(t) /\ pc'[t] = "idle" /\ op'[t] = "none"
  <1>1. PICK s, i : s = LookupSlot(key[t], pos[t]) /\ i = buckets[s].item
    OBVIOUS
  <1>2. /\ pc[t] = "probe" /\ op[t] \in {"query", "update", "delete"} /\ pos[t] < Lookups
        /\ Return(t) /\ Observe /\ UNCHANGED <<plan, level_size, level_resize, locked>>
        /\ KeyOf[i] = key[t]
        /\ op[t] = "query" => UNCHANGED <<buckets, dict>>
        /\ op[t] = "update" => /\ Put(s, i, "updated")
                               /\ dict' = [dict EXCEPT ![i] = "updated"]
        /\ op[t] = "delete" => /\ buckets' = [buckets EXCEPT ![s].token = 0]
                               /\ dict' = [dict EXCEPT ![i] = NoValue]
    BY <1>1 DEF LookupFound
  <1>3. s \in DOMAIN buckets
    BY <1>1, <1>2, VisitedSlots
  <1>4. i \in Item
    BY <1>1, <1>2, <1>3, FoundItem
  <1>5. buckets \in [SlotsOf(level_size) -> Entry] /\ dict \in [Item -> Value \cup {NoValue}]
    BY Keep
  <1>6. buckets' \in [SlotsOf(level_size) -> Entry]
    <2>1. CASE op[t] = "query"
      BY <1>2, <1>5, <2>1
    <2>2. CASE op[t] = "update"
      <3>1. "updated" \in Value
        BY DEF Value
      <3>2. QED
        BY <1>2, <1>3, <1>4, <2>2, <3>1, PutTyped
    <2>3. CASE op[t] = "delete"
      <3>1. [buckets[s] EXCEPT !.token = 0] \in Entry
        BY <1>3, <1>5 DEF Entry
      <3>2. QED
        BY <1>2, <1>5, <2>3, <3>1
    <2>4. QED
      BY <1>2, <2>1, <2>2, <2>3
  <1>7. dict' \in [Item -> Value \cup {NoValue}]
    BY <1>2, <1>4, <1>5 DEF Value
  <1>8. QED
    BY <1>2, <1>6, <1>7, ReturnStep

LEMMA LookupNextCalls ==
  ASSUME CallInv, NEW t \in Thread, LookupNext(t)
  PROVE  /\ CallInv' /\ OneThread(t)
         /\ pc'[t] = "probe" /\ op'[t] = op[t] /\ key'[t] = key[t]
         /\ item'[t] = item[t] /\ pos'[t] = pos[t] + 1
  <1>1. /\ pc[t] = "probe" /\ pos[t] < Lookups
        /\ pos' = [pos EXCEPT ![t] = pos[t] + 1]
        /\ UNCHANGED <<table, locked, pc, op, key, item, source, dest, dict>> /\ Observe
    BY DEF LookupNext
  <1>2. pos[t] + 1 \in 0 .. 4 * ASSOC_NUM
    BY <1>1, AssocNum, Keep DEF Lookups
  <1>2a. source[t] = 0 /\ dest[t] = 0
    BY <1>1 DEF CallInv, CallOK
  <1>3. Inner(t, "probe", pos[t] + 1, source[t], dest[t])
    BY <1>1, <1>2, <1>2a, Keep DEF Inner
  <1>4. QED
    BY <1>1, <1>3, InnerStep

LEMMA NotFoundCalls ==
  ASSUME CallInv, NEW t \in Thread, NotFound(t)
  PROVE  CallInv' /\ OneThread(t) /\ pc'[t] = "idle" /\ op'[t] = "none"
  <1>1. /\ pc[t] = "probe" /\ Return(t) /\ Observe
        /\ UNCHANGED <<plan, level_size, level_resize, buckets, locked, dict>>
    BY DEF NotFound, table
  <1>2. QED
    BY <1>1, Keep, ReturnStep

LEMMA InsertFreeCalls ==
  ASSUME CallInv, NEW t \in Thread, InsertFree(t)
  PROVE  CallInv' /\ OneThread(t) /\ pc'[t] = "idle" /\ op'[t] = "none"
  <1>1. PICK s : s = InsertSlot(key[t], pos[t])
    OBVIOUS
  <1>2. /\ pc[t] = "probe" /\ op[t] = "insert" /\ pos[t] < 4 * ASSOC_NUM /\ Put(s, item[t], "inserted")
        /\ dict' = [dict EXCEPT ![item[t]] = "inserted"]
        /\ Return(t) /\ Observe /\ UNCHANGED <<plan, level_size, level_resize, locked>>
    BY <1>1 DEF InsertFree
  <1>3. s \in DOMAIN buckets /\ item[t] \in Item /\ "inserted" \in Value
    BY <1>1, <1>2, VisitedSlots DEF CallInv, CallOK, Value
  <1>4. buckets' \in [SlotsOf(level_size) -> Entry]
    BY <1>2, <1>3, PutTyped
  <1>5. dict' \in [Item -> Value \cup {NoValue}]
    BY <1>2, <1>3, Keep
  <1>6. QED
    BY <1>2, <1>4, <1>5, ReturnStep

LEMMA InsertNextCalls ==
  ASSUME CallInv, NEW t \in Thread, InsertNext(t)
  PROVE  /\ CallInv' /\ OneThread(t) /\ pc'[t] \in {"probe", "lock"}
         /\ op'[t] = op[t] /\ key'[t] = key[t]
         /\ item'[t] = item[t] /\ pos'[t] = pos[t] + 1
  <1>1. PICK p : p = IF pos[t] + 1 = 4 * ASSOC_NUM THEN "lock" ELSE "probe"
    OBVIOUS
  <1>2. /\ pc[t] = "probe" /\ op[t] = "insert" /\ pos[t] < 4 * ASSOC_NUM
        /\ pos' = [pos EXCEPT ![t] = pos[t] + 1] /\ pc' = [pc EXCEPT ![t] = p]
        /\ UNCHANGED <<table, locked, op, key, item, source, dest, dict>> /\ Observe
    BY <1>1 DEF InsertNext, Goto
  <1>3. pos[t] + 1 \in 0 .. 4 * ASSOC_NUM /\ source[t] \in Nat
    BY <1>2, AssocNum, Keep
  <1>4. source[t] <= Sources
    <2>1. CallOK(t)
      BY DEF CallInv
    <2>2. QED
      BY <1>2, <2>1, CallInvSize DEF CallOK
  <1>4a. source[t] = 0 /\ dest[t] = 0
    BY <1>2 DEF CallInv, CallOK
  <1>5. Inner(t, p, pos[t] + 1, source[t], dest[t])
    BY <1>1, <1>2, <1>3, <1>4, <1>4a, Keep DEF Inner
  <1>6. QED
    BY <1>1, <1>2, <1>5, InnerStep

LEMMA LockSourceCalls ==
  ASSUME CallInv, NEW t \in Thread, LockSource(t)
  PROVE  /\ CallInv' /\ OneThread(t)
         /\ pc'[t] = "move" /\ op'[t] = op[t] /\ key'[t] = key[t]
         /\ item'[t] = item[t] /\ pos'[t] = pos[t]
  <1>1. PICK s : s = SourceSlot(key[t], source[t])
    OBVIOUS
  <1>2. /\ pc[t] = "lock" /\ source[t] < Sources
        /\ locked' = locked \cup {s}
        /\ dest' = [dest EXCEPT ![t] = 0] /\ pc' = [pc EXCEPT ![t] = "move"]
        /\ UNCHANGED <<table, op, key, item, pos, source, dict>> /\ Observe
    BY <1>1 DEF LockSource, Goto
  <1>3. s \in SlotsOf(level_size)
    BY <1>1, <1>2, VisitedSlots
  <1>4. op[t] = "insert" /\ pos[t] = 4 * ASSOC_NUM
    BY <1>2 DEF CallInv, CallOK
  <1>5. 0 < ASSOC_NUM
    BY AssocNum
  <1>6. Inner(t, "move", pos[t], source[t], 0)
    BY <1>2, <1>3, <1>4, <1>5, Keep DEF Inner
  <1>7. QED
    BY <1>2, <1>6, InnerStep

LEMMA MoveItemTyped ==
  ASSUME CallInv, NEW s \in DOMAIN buckets, NEW d \in DOMAIN buckets, NEW i \in Item,
         MoveItem(s, d, i)
  PROVE  buckets' \in [SlotsOf(level_size) -> Entry]
  <1>1. buckets[s] \in Entry
    BY DEF CallInv, TypeOK
  <1>2. /\ [token |-> 1, item |-> buckets[s].item, value |-> buckets[s].value] \in Entry
        /\ [token |-> 1, item |-> i, value |-> "inserted"] \in Entry
    BY <1>1 DEF Entry, Value
  <1>3. QED
    BY <1>2 DEF MoveItem, CallInv, TypeOK

LEMMA MoveCalls ==
  ASSUME CallInv, NEW t \in Thread, Move(t)
  PROVE  CallInv' /\ OneThread(t) /\ pc'[t] = "idle" /\ op'[t] = "none"
  <1>1. PICK s, d : /\ s = SourceSlot(key[t], source[t])
                    /\ d = DestSlot(s, dest[t])
    OBVIOUS
  <1>2. /\ pc[t] = "move" /\ MoveItem(s, d, item[t]) /\ locked' = locked \ {s}
        /\ dict' = [dict EXCEPT ![item[t]] = "inserted"]
        /\ Return(t) /\ Observe /\ UNCHANGED <<plan, level_size, level_resize>>
    BY <1>1 DEF Move
  <1>3. s \in DOMAIN buckets /\ d \in DOMAIN buckets
    BY <1>1, <1>2, MovingSlots
  <1>4. item[t] \in Item
    BY <1>2 DEF CallInv, CallOK
  <1>5. buckets' \in [SlotsOf(level_size) -> Entry]
    BY <1>2, <1>3, <1>4, MoveItemTyped
  <1>6. dict' \in [Item -> Value \cup {NoValue}]
    BY <1>2, <1>4, Keep DEF Value
  <1>7. QED
    BY <1>2, <1>5, <1>6, ReturnStep

LEMMA MoveNextCalls ==
  ASSUME CallInv, NEW t \in Thread, MoveNext(t)
  PROVE  /\ CallInv' /\ OneThread(t)
         /\ pc'[t] \in {"lock", "move"} /\ op'[t] = op[t] /\ key'[t] = key[t]
         /\ item'[t] = item[t] /\ pos'[t] = pos[t]
  <1>1. PICK s : s = SourceSlot(key[t], source[t])
    OBVIOUS
  <1>2. /\ pc[t] = "move"
        /\ IF dest[t] + 1 < ASSOC_NUM
           THEN /\ dest' = [dest EXCEPT ![t] = dest[t] + 1]
                /\ UNCHANGED <<locked, pc, source>>
           ELSE /\ dest' = [dest EXCEPT ![t] = 0]
                /\ source' = [source EXCEPT ![t] = source[t] + 1]
                /\ locked' = locked \ {s}
                /\ pc' = [pc EXCEPT ![t] = "lock"]
        /\ UNCHANGED <<table, op, key, item, pos, dict>> /\ Observe
    BY <1>1 DEF MoveNext, Goto
  <1>3. op[t] = "insert" /\ pos[t] = 4 * ASSOC_NUM /\ source[t] < Sources
    BY <1>2 DEF CallInv, CallOK
  <1>4. source[t] \in Nat /\ source[t] + 1 <= Sources /\ source[t] + 1 \in 0 .. 4 * ASSOC_NUM
    BY <1>3, CallInvSize, AssocNum, Keep
  <1>5. CASE dest[t] + 1 < ASSOC_NUM
    <2>1. dest[t] + 1 \in 0 .. ASSOC_NUM
      BY <1>5, AssocNum, Keep
    <2>2. Inner(t, "move", pos[t], source[t], dest[t] + 1)
      BY <1>1, <1>2, <1>3, <1>5, <2>1, Keep DEF Inner
    <2>3. QED
      BY <1>2, <2>2, InnerStep
  <1>6. CASE ~(dest[t] + 1 < ASSOC_NUM)
    <2>1. Inner(t, "lock", pos[t], source[t] + 1, 0)
      BY <1>2, <1>3, <1>4, <1>6, Keep DEF Inner
    <2>2. QED
      BY <1>2, <2>1, InnerStep
  <1>7. QED
    BY <1>5, <1>6

LEMMA InsertFailsCalls ==
  ASSUME CallInv, NEW t \in Thread, InsertFails(t)
  PROVE  CallInv' /\ OneThread(t) /\ pc'[t] = "idle" /\ op'[t] = "none"
  <1>1. /\ pc[t] = "lock" /\ Return(t) /\ Observe
        /\ UNCHANGED <<plan, level_size, level_resize, buckets, locked, dict>>
    BY DEF InsertFails, table
  <1>2. QED
    BY <1>1, Keep, ReturnStep

-----------------------------------------------------------------------------
(***************************************************************************)
(* The rehash of level_resize, item by item.                               *)
(***************************************************************************)
Tops == UNION {[S -> Entry] : S \in SUBSET (Nat \X Nat)}
PlaceSet == [ok : BOOLEAN, top : Tops]
NoneYet == [ok |-> TRUE, top |-> [s \in {} |-> Unused]]
BottomSlot(n) == <<1, n \div ASSOC_NUM, n % ASSOC_NUM>>

\* The slots of the new top level that the rehash tries are places of the key in
\* the table after the resize.
LEMMA RehashSlots ==
  ASSUME HasSize, NEW k \in AnyKey, NEW n \in 0 .. 2 * ASSOC_NUM - 1
  PROVE  \E b \in Nat, i \in 0 .. ASSOC_NUM - 1 :
           /\ RehashSlot(k, n) = <<b, i>>
           /\ <<0, b, i>> \in PlacesAt(k, level_size + 1)
  <1>1. PICK q \in Nat \ {0} :
          /\ Pow2[level_size + 1] = 4 * q
          /\ Pow2[level_size + 1] \div (1 + 0) = 2 * (2 * q)
    <2>1. level_size + 1 \in Nat /\ level_size + 1 >= 2
      BY DEF HasSize
    <2>2. QED
      BY <2>1, Capacities
  <1>2. Pow2[level_size + 1] = Pow2[level_size + 1] \div (1 + 0)
    BY <1>1
  <1>3. PICK i \in 0 .. ASSOC_NUM - 1 : i = n \div 2
    BY AssocNum
  <1>4. PICK b : b = IF n % 2 = 0 THEN F_IDX(k, NewCapacity) ELSE S_IDX(k, NewCapacity)
    OBVIOUS
  <1>5. b \in BucketsOf(k, Pow2[level_size + 1] \div (1 + 0))
    BY <1>2, <1>4 DEF BucketsOf, NewCapacity
  <1>6. b \in Nat
    <2>1. level_size + 1 \in Nat /\ level_size + 1 >= 2 /\ 0 \in {0, 1}
      BY DEF HasSize
    <2>2. BucketsOf(k, Pow2[level_size + 1] \div (1 + 0)) \subseteq Nat
      BY <2>1, PlacesAreSlots
    <2>3. QED
      BY <1>5, <2>2
  <1>7. RehashSlot(k, n) = <<b, i>>
    BY <1>3, <1>4 DEF RehashSlot
  <1>8. <<0, b, i>> \in PlacesAt(k, level_size + 1)
    BY <1>5, <1>6 DEF PlacesAt
  <1>9. QED
    BY <1>6, <1>7, <1>8

\* One item more: it fails, or the item is in a slot that was free.
LEMMA PlaceItem ==
  ASSUME HasSize, NEW p \in PlaceSet, NEW e \in Entry
  PROVE  /\ Place(p, e) \in PlaceSet
         /\ Place(p, e).ok => p.ok
         /\ Place(p, e).ok /\ e.token = 0 => Place(p, e) = p
         /\ Place(p, e).ok /\ e.token = 1 =>
              \E n \in 0 .. 2 * ASSOC_NUM - 1 :
                /\ RehashSlot(KeyOf[e.item], n) \notin DOMAIN p.top
                /\ Place(p, e).top = [s \in DOMAIN p.top \cup {RehashSlot(KeyOf[e.item], n)} |->
                                        IF s = RehashSlot(KeyOf[e.item], n) THEN e ELSE p.top[s]]
  <1>0. KeyOf[e.item] \in AnyKey /\ e.token \in {0, 1}
    BY KeyAssumption DEF Entry, AnyKey
  <1>1. CASE ~p.ok \/ e.token = 0
    BY <1>0, <1>1 DEF Place, PlaceSet
  <1>2. CASE p.ok /\ e.token = 1 /\ FreeVisits(p.top, KeyOf[e.item]) = {}
    <2>1. Place(p, e) = [p EXCEPT !.ok = FALSE]
      BY <1>2 DEF Place
    <2>2. QED
      BY <1>2, <2>1 DEF PlaceSet
  <1>3. CASE p.ok /\ e.token = 1 /\ FreeVisits(p.top, KeyOf[e.item]) # {}
    <2>1. PICK F : F = FreeVisits(p.top, KeyOf[e.item])
      OBVIOUS
    <2>2. F \in SUBSET Nat /\ F # {}
      BY <1>3, <2>1, AssocNum DEF FreeVisits
    <2>3. PICK n \in F : n = FirstOf(F)
      <3>1. \E n \in F : \A m \in F : n <= m
        BY <2>2, LeastNat
      <3>2. QED
        BY <3>1 DEF FirstOf
    <2>4. n \in 0 .. 2 * ASSOC_NUM - 1 /\ RehashSlot(KeyOf[e.item], n) \notin DOMAIN p.top
      BY <2>1, <2>3 DEF FreeVisits
    <2>5. PICK r : r = RehashSlot(KeyOf[e.item], n)
      OBVIOUS
    <2>6. r \in Nat \X Nat
      <3>1. PICK b \in Nat, i \in 0 .. ASSOC_NUM - 1 : r = <<b, i>>
        BY <1>0, <2>4, <2>5, RehashSlots
      <3>2. QED
        BY <3>1, AssocNum
    <2>7. PICK top : top = [s \in DOMAIN p.top \cup {r} |-> IF s = r THEN e ELSE p.top[s]]
      OBVIOUS
    <2>8. Place(p, e) = [p EXCEPT !.top = top]
      BY <1>3, <2>1, <2>3, <2>5, <2>7 DEF Place
    <2>9. top \in Tops
      <3>1. PICK S \in SUBSET (Nat \X Nat) : p.top \in [S -> Entry]
        BY DEF PlaceSet, Tops
      <3>2. top \in [S \cup {r} -> Entry]
        BY <2>7, <3>1
      <3>3. S \cup {r} \in SUBSET (Nat \X Nat)
        BY <2>6, <3>1
      <3>4. QED
        BY <3>2, <3>3 DEF Tops
    <2>10. Place(p, e) \in PlaceSet /\ Place(p, e).top = top
      BY <2>8, <2>9 DEF PlaceSet
    <2>11. QED
      BY <1>3, <2>4, <2>5, <2>7, <2>10
  <1>4. QED
    BY <1>0, <1>1, <1>2, <1>3

\* The items of the bottom level are in its slots, one for each number.
LEMMA BottomSlots ==
  ASSUME CallInv
  PROVE  /\ BottomItems \in Nat
         /\ \A n \in 0 .. BottomItems - 1 :
              BottomSlot(n) \in DOMAIN buckets /\ BottomItem(n) \in Entry
         /\ \A n \in 0 .. BottomItems - 1, m \in 0 .. BottomItems - 1 :
              BottomSlot(n) = BottomSlot(m) => n = m
         /\ \A s \in DOMAIN buckets : s[1] = 1 => \E n \in 0 .. BottomItems - 1 : s = BottomSlot(n)
  <1>0. PICK A \in Nat \ {0} : A = ASSOC_NUM
    BY AssocNum
  <1>1. HasSize
    BY CallInvSize
  <1>2. PICK q \in Nat \ {0} : Pow2[level_size] = 4 * q /\ Pow2[level_size - 1] = 2 * q
    BY <1>1, Capacities DEF HasSize
  <1>3. PICK c \in Nat : c = 2 * q
    OBVIOUS
  <1>4. BottomItems = c * A
    BY <1>0, <1>2, <1>3 DEF BottomItems
  <1>5. BottomItems \in Nat
    BY <1>4, Z3
  <1>6. DOMAIN buckets = SlotsOf(level_size) /\ buckets \in [SlotsOf(level_size) -> Entry]
    BY DEF CallInv, TypeOK
  <1>7. ASSUME NEW n \in 0 .. BottomItems - 1
        PROVE  /\ n \div A \in Nat /\ n % A \in 0 .. A - 1 /\ n \div A < c
               /\ n = A * (n \div A) + (n % A)
    <2>1. PICK d \in Nat, r \in 0 .. A - 1 : d = n \div A /\ r = n % A /\ n = A * d + r
      BY <1>5, DivMod
    <2>2. d < c
      <3>1. SUFFICES ASSUME d >= c PROVE FALSE
        OBVIOUS
      <3>2. A * d >= c * A
        BY <3>1, Z3
      <3>3. QED
        BY <1>4, <1>5, <2>1, <3>2
    <2>3. QED
      BY <2>1, <2>2
  <1>8. ASSUME NEW n \in 0 .. BottomItems - 1
        PROVE  BottomSlot(n) \in DOMAIN buckets /\ BottomItem(n) \in Entry
    <2>1. BottomSlot(n) \in SlotsOf(level_size)
      BY <1>0, <1>2, <1>3, <1>7 DEF BottomSlot, SlotsOf
    <2>2. BottomItem(n) = buckets[BottomSlot(n)]
      BY DEF BottomItem, BottomSlot
    <2>3. QED
      BY <1>6, <2>1, <2>2
  <1>9. ASSUME NEW n \in 0 .. BottomItems - 1, NEW m \in 0 .. BottomItems - 1,
               BottomSlot(n) = BottomSlot(m)
        PROVE  n = m
    <2>1. n \div A = m \div A /\ n % A = m % A
      BY <1>0, <1>9 DEF BottomSlot
    <2>2. QED
      BY <1>7, <2>1
  <1>10. ASSUME NEW s \in DOMAIN buckets, s[1] = 1
         PROVE  \E n \in 0 .. BottomItems - 1 : s = BottomSlot(n)
    <2>1. PICK b \in Nat, i \in 0 .. A - 1 : s = <<1, b, i>> /\ b < c
      BY <1>0, <1>2, <1>3, <1>6, <1>10 DEF SlotsOf
    <2>2. PICK n \in Nat : n = A * b + i
      BY Z3
    <2>3. n \div A = b /\ n % A = i
      BY <2>2, DivModUnique
    <2>4. n <= BottomItems - 1
      <3>1. A * (b + 1) <= c * A
        BY <2>1, Z3
      <3>2. A * (b + 1) = A * b + A
        BY Z3
      <3>3. QED
        BY <1>4, <1>5, <2>2, <3>1, <3>2, Z3
    <2>5. QED
      BY <1>0, <1>5, <2>1, <2>3, <2>4 DEF BottomSlot
  <1>11. QED
    BY <1>5, <1>8, <1>9, <1>10

\* The recursive definition has a solution: one item after the other is placed.
LEMMA PlacedEquation ==
  ASSUME CallInv
  PROVE  /\ Placed[0] = NoneYet
         /\ \A n \in 0 .. BottomItems - 1 : Placed[n + 1] = Place(Placed[n], BottomItem(n))
         /\ \A n \in 0 .. BottomItems : Placed[n] \in PlaceSet
  <1>0. HasSize /\ BottomItems \in Nat /\ \A n \in 0 .. BottomItems - 1 : BottomItem(n) \in Entry
    BY CallInvSize, BottomSlots
  <1>1. DEFINE h == [x \in Nat \X PlaceSet |->
                       IF x[1] < BottomItems THEN Place(x[2], BottomItem(x[1])) ELSE x[2]]
  <1>2. NoneYet \in PlaceSet
    <2>1. [s \in {} |-> Unused] \in [{} -> Entry]
      OBVIOUS
    <2>2. {} \in SUBSET (Nat \X Nat)
      OBVIOUS
    <2>3. [s \in {} |-> Unused] \in Tops
      BY <2>1, <2>2 DEF Tops
    <2>4. QED
      BY <2>3 DEF NoneYet, PlaceSet
  <1>3. IsStep(PlaceSet, NoneYet, h)
    <2>1. ASSUME NEW n \in Nat, NEW p \in PlaceSet, n < BottomItems
          PROVE  Place(p, BottomItem(n)) \in PlaceSet
      <3>1. BottomItem(n) \in Entry
        BY <1>0, <2>1
      <3>2. QED
        BY <1>0, <3>1, PlaceItem
    <2>2. h \in [Nat \X PlaceSet -> PlaceSet]
      BY <2>1
    <2>3. QED
      BY <1>2, <2>2 DEF IsStep
  <1>4. PICK f : Iterates(PlaceSet, NoneYet, h, f)
    <2>1. HIDE DEF h
    <2>2. QED
      BY <1>3, Recursion, Zenon
  <1>5. f \in [Nat -> PlaceSet] /\ f[0] = NoneYet /\ \A n \in Nat : f[n + 1] = h[<<n, f[n]>>]
    BY <1>4 DEF Iterates
  <1>6. \A n \in 0 .. BottomItems - 1 : f[n + 1] = Place(f[n], BottomItem(n))
    <2>1. SUFFICES ASSUME NEW n \in 0 .. BottomItems - 1
                   PROVE  f[n + 1] = Place(f[n], BottomItem(n))
      OBVIOUS
    <2>2. n \in Nat /\ n < BottomItems /\ f[n] \in PlaceSet
      BY <1>0, <1>5
    <2>3. QED
      BY <1>5, <2>2
  <1>7. DEFINE g == [n \in 0 .. BottomItems |-> f[n]]
  <1>8. g = [n \in 0 .. BottomItems |->
               IF n = 0 THEN [ok |-> TRUE, top |-> [s \in {} |-> Unused]]
                        ELSE Place(g[n - 1], BottomItem(n - 1))]
    <2>1. ASSUME NEW n \in 0 .. BottomItems
          PROVE  g[n] = IF n = 0 THEN NoneYet ELSE Place(g[n - 1], BottomItem(n - 1))
      <3>1. CASE n = 0
        BY <1>5, <3>1
      <3>2. CASE n # 0
        <4>1. n - 1 \in 0 .. BottomItems - 1 /\ n - 1 \in 0 .. BottomItems /\ (n - 1) + 1 = n
          BY <1>0, <3>2
        <4>2. f[n] = Place(f[n - 1], BottomItem(n - 1))
          BY <1>6, <4>1
        <4>3. QED
          BY <3>2, <4>1, <4>2
      <3>3. QED
        BY <3>1, <3>2
    <2>2. QED
      BY <2>1 DEF NoneYet
  <1>9. Placed = [n \in 0 .. BottomItems |->
                    IF n = 0 THEN [ok |-> TRUE, top |-> [s \in {} |-> Unused]]
                             ELSE Place(Placed[n - 1], BottomItem(n - 1))]
    <2>1. HIDE DEF g
    <2>2. QED
      BY <1>8 DEF Placed
  <1>10. Placed[0] = NoneYet
    BY <1>0, <1>9 DEF NoneYet
  <1>11. ASSUME NEW n \in 0 .. BottomItems - 1
         PROVE  Placed[n + 1] = Place(Placed[n], BottomItem(n))
    <2>1. n + 1 \in 0 .. BottomItems /\ n + 1 # 0 /\ (n + 1) - 1 = n
      BY <1>0
    <2>2. Placed[n + 1] = Place(Placed[(n + 1) - 1], BottomItem((n + 1) - 1))
      BY <1>9, <2>1
    <2>3. QED
      BY <2>1, <2>2
  <1>12. DEFINE S == {n \in 0 .. BottomItems : Placed[n] \in PlaceSet}
  <1>13. 0 \in S
    BY <1>0, <1>2, <1>10
  <1>14. ASSUME NEW n \in 0 .. BottomItems - 1, n \in S PROVE n + 1 \in S
    <2>1. n + 1 \in 0 .. BottomItems /\ Placed[n] \in PlaceSet /\ BottomItem(n) \in Entry
      BY <1>0, <1>14
    <2>2. Place(Placed[n], BottomItem(n)) \in PlaceSet
      BY <1>0, <2>1, PlaceItem
    <2>3. QED
      BY <1>11, <2>1, <2>2
  <1>15. 0 .. BottomItems \subseteq S
    <2>1. HIDE DEF S
    <2>2. QED
      BY <1>0, <1>13, <1>14, UptoInductionSet
  <1>16. QED
    BY <1>10, <1>11, <1>15

LEMMA SlotsGrow ==
  ASSUME NEW size \in Nat, size >= 2
  PROVE  /\ SlotsOf(size) \subseteq SlotsOf(size + 1)
         /\ \A s \in SlotsOf(size + 1) : s[1] = 1 => <<0, s[2], s[3]>> \in SlotsOf(size)
         /\ \A s \in SlotsOf(size) : s[1] = 0 => <<1, s[2], s[3]>> \in SlotsOf(size + 1)
  <1>1. PICK q \in Nat \ {0} : Pow2[size] = 4 * q /\ Pow2[size - 1] = 2 * q /\ Pow2[size + 1] = 8 * q
    BY Pow2Quarters
  <1>2. (size + 1) - 0 = size + 1 /\ (size + 1) - 1 = size /\ size - 0 = size
    OBVIOUS
  <1>3. ASSUME NEW s \in SlotsOf(size) PROVE s \in SlotsOf(size + 1)
    <2>1. PICK l \in {0, 1}, b \in 0 .. Pow2[size] - 1, i \in 0 .. ASSOC_NUM - 1 :
            s = <<l, b, i>> /\ b < Pow2[size - l]
      BY <1>3 DEF SlotsOf
    <2>2. CASE l = 0
      BY <1>1, <1>2, <2>1, <2>2 DEF SlotsOf
    <2>3. CASE l = 1
      BY <1>1, <1>2, <2>1, <2>3 DEF SlotsOf
    <2>4. QED
      BY <2>2, <2>3
  <1>4. ASSUME NEW s \in SlotsOf(size + 1), s[1] = 1 PROVE <<0, s[2], s[3]>> \in SlotsOf(size)
    <2>1. PICK b \in 0 .. Pow2[size + 1] - 1, i \in 0 .. ASSOC_NUM - 1 :
            s = <<1, b, i>> /\ b < Pow2[size]
      BY <1>2, <1>4 DEF SlotsOf
    <2>2. QED
      BY <1>1, <1>2, <2>1 DEF SlotsOf
  <1>5. ASSUME NEW s \in SlotsOf(size), s[1] = 0 PROVE <<1, s[2], s[3]>> \in SlotsOf(size + 1)
    <2>1. PICK b \in 0 .. Pow2[size] - 1, i \in 0 .. ASSOC_NUM - 1 : s = <<0, b, i>>
      BY <1>5 DEF SlotsOf
    <2>2. QED
      BY <1>1, <1>2, <2>1 DEF SlotsOf
  <1>6. QED
    BY <1>3, <1>4, <1>5

LEMMA ResizeCalls ==
  ASSUME CallInv, Resize
  PROVE  CallInv' /\ \A t \in Thread : pc'[t] = "idle" /\ op'[t] = "none"
  <1>1. HasSize /\ BottomItems \in Nat
    BY CallInvSize, BottomSlots
  <1>2. Rehash \in PlaceSet
    BY <1>1, PlacedEquation DEF Rehash
  <1>3. /\ Busy = {} /\ level_resize < MaxResize
        /\ UNCHANGED <<plan, locked, pc, op, key, item, pos, source, dest, dict>> /\ Observe
    BY DEF Resize, locals
  <1>4. \A t \in Thread : pc[t] = "idle" /\ op[t] = "none" /\ CallOK(t)
    BY <1>3 DEF Busy, CallInv, CallOK
  <1>5. /\ level_size' = level_size + 1 /\ level_resize' = level_resize + 1
        /\ buckets' = [s \in SlotsOf(level_size + 1) |->
             IF s[1] = 1 THEN buckets[<<0, s[2], s[3]>>]
             ELSE IF <<s[2], s[3]>> \in DOMAIN Rehash.top THEN Rehash.top[<<s[2], s[3]>>]
             ELSE Unused]
    BY DEF Resize
  <1>6. level_size' = LevelSize + level_resize'
    BY <1>5, SizeAssumption DEF CallInv, TypeOK
  <1>7. /\ level_size' \in LevelSize .. LevelSize + MaxResize
        /\ level_resize' \in 0 .. MaxResize
    BY <1>3, <1>5, <1>6, SizeAssumption DEF CallInv, TypeOK
  <1>8. buckets' \in [SlotsOf(level_size + 1) -> Entry]
    <2>1. ASSUME NEW s \in SlotsOf(level_size + 1), s[1] = 1
          PROVE  buckets[<<0, s[2], s[3]>>] \in Entry
      <3>1. <<0, s[2], s[3]>> \in SlotsOf(level_size)
        BY <1>1, <2>1, SlotsGrow DEF HasSize
      <3>2. QED
        BY <3>1 DEF CallInv, TypeOK
    <2>2. ASSUME NEW x \in DOMAIN Rehash.top PROVE Rehash.top[x] \in Entry
      <3>1. PICK S : Rehash.top \in [S -> Entry]
        BY <1>2 DEF PlaceSet, Tops
      <3>2. QED
        BY <2>2, <3>1
    <2>3. Unused \in Entry
      BY DEF Unused, Entry
    <2>4. QED
      BY <1>5, <2>1, <2>2, <2>3
  <1>9. SlotsOf(level_size)' = SlotsOf(level_size + 1)
    BY <1>5 DEF SlotsOf
  <1>10. locked' \subseteq SlotsOf(level_size + 1)
    BY <1>1, <1>3, SlotsGrow DEF CallInv, TypeOK, HasSize
  <1>11. present' \in [Thread -> SUBSET Item] /\ moved' \in [Thread -> SUBSET Item]
    BY <1>3, ObserveType
  <1>12. TypeOK'
    BY <1>3, <1>7, <1>8, <1>9, <1>10, <1>11 DEF CallInv, TypeOK
  <1>13. ASSUME NEW t \in Thread PROVE CallOK(t)'
    BY <1>3, <1>4 DEF CallOK
  <1>14. CallsAgree'
    BY <1>3, <1>4 DEF CallsAgree
  <1>15. QED
    BY <1>3, <1>4, <1>6, <1>12, <1>13, <1>14 DEF CallInv

LEMMA CallInvStep == CallInv /\ [Next]_vars => CallInv'
  <1>1. SUFFICES ASSUME CallInv, [Next]_vars PROVE CallInv'
    OBVIOUS
  <1>2. CASE Resize
    BY <1>1, <1>2, ResizeCalls
  <1>3. ASSUME NEW t \in Thread, NEW i \in Item, StartInsert(t, i)
        PROVE  CallInv'
    BY <1>1, <1>3, StartInsertCalls
  <1>3a. ASSUME NEW t \in Thread, NEW o \in {"query", "update", "delete"}, NEW k \in Key,
                StartLookup(t, o, k)
         PROVE  CallInv'
    BY <1>1, <1>3a, StartLookupCalls
  <1>4. ASSUME NEW t \in Thread, Step(t)
        PROVE  CallInv'
    BY <1>1, <1>4, LookupFoundCalls, LookupNextCalls, NotFoundCalls, InsertFreeCalls,
       InsertNextCalls, LockSourceCalls, MoveCalls, MoveNextCalls, InsertFailsCalls DEF Step
  <1>5. CASE UNCHANGED vars
    <2>1. UNCHANGED <<plan, level_size, level_resize, buckets, locked, pc, op, key, item, pos,
                      source, dest, dict, present, moved>>
      BY <1>5 DEF vars, table, locals
    <2>2. TypeOK'
      BY <1>1, <2>1 DEF CallInv, TypeOK, SlotsOf
    <2>3. ASSUME NEW t \in Thread PROVE CallOK(t)'
      BY <1>1, <2>1 DEF CallInv, CallOK, Sources
    <2>4. CallsAgree'
      BY <1>1, <2>1 DEF CallInv, CallsAgree
    <2>5. QED
      BY <1>1, <2>1, <2>2, <2>3, <2>4 DEF CallInv
  <1>6. QED
    BY <1>1, <1>2, <1>3, <1>3a, <1>4, <1>5 DEF Next

-----------------------------------------------------------------------------
(***************************************************************************)
(* One item's row of the table: no slot, or one of its key's places.        *)
(***************************************************************************)
Has(B, s, i) == B[s].token = 1 /\ B[s].item = i
Row(B, i, v, P) ==
  \/ v = NoValue /\ \A u \in DOMAIN B : ~Has(B, u, i)
  \/ /\ v \in Value
     /\ \E s \in DOMAIN B \cap P :
          Has(B, s, i) /\ B[s].value = v /\ \A u \in DOMAIN B : Has(B, u, i) => u = s
Rows == \A i \in Item : Row(buckets, i, dict[i], Places(KeyOf[i]))

LEMMA RowsTable ==
  ASSUME HasSize, Rows PROVE TableIsDict
  <1>1. SUFFICES ASSUME NEW i \in Item
                 PROVE  \/ dict[i] = NoValue /\ Holds(i) = {}
                        \/ \E s \in DOMAIN buckets \cap Visited(KeyOf[i]) :
                             Holds(i) = {s} /\ buckets[s].value = dict[i]
    BY DEF TableIsDict
  <1>2. Visited(KeyOf[i]) = Places(KeyOf[i])
    BY VisitedPlaces, KeyAssumption DEF AnyKey
  <1>3. Row(buckets, i, dict[i], Places(KeyOf[i]))
    BY DEF Rows
  <1>4. QED
    BY <1>2, <1>3 DEF Row, Has, Holds

\* A slot that gets another item: the rows of the other items.
LEMMA RowOther ==
  ASSUME NEW D, NEW B \in [D -> Entry], NEW s \in D, NEW e, NEW i, NEW v, NEW P,
         Row(B, i, v, P), ~Has(B, s, i), e.token # 1 \/ e.item # i
  PROVE  Row([B EXCEPT ![s] = e], i, v, P)
  <1>1. PICK C : C = [B EXCEPT ![s] = e]
    OBVIOUS
  <1>2. DOMAIN C = D /\ DOMAIN B = D /\ C[s] = e /\ \A u \in D \ {s} : C[u] = B[u]
    BY <1>1
  <1>3. \A u \in D : Has(C, u, i) <=> Has(B, u, i)
    BY <1>2 DEF Has
  <1>4. \A u \in D : Has(B, u, i) => C[u] = B[u]
    BY <1>2
  <1>5. Row(C, i, v, P)
    BY <1>2, <1>3, <1>4 DEF Row
  <1>6. QED
    BY <1>1, <1>5

\* The item's own slot gets a value.
LEMMA RowUpdate ==
  ASSUME NEW D, NEW B \in [D -> Entry], NEW s \in D, NEW e, NEW i, NEW v, NEW P,
         Row(B, i, v, P), Has(B, s, i), e.token = 1, e.item = i, e.value \in Value
  PROVE  Row([B EXCEPT ![s] = e], i, e.value, P)
  <1>1. PICK C : C = [B EXCEPT ![s] = e]
    OBVIOUS
  <1>2. DOMAIN C = D /\ DOMAIN B = D /\ C[s] = e /\ \A u \in D \ {s} : C[u] = B[u]
    BY <1>1
  <1>3. s \in P /\ \A u \in D : Has(B, u, i) => u = s
    BY <1>2 DEF Row
  <1>4. Has(C, s, i) /\ \A u \in D : Has(C, u, i) => u = s
    BY <1>2, <1>3 DEF Has
  <1>5. Row(C, i, e.value, P)
    BY <1>2, <1>3, <1>4 DEF Row
  <1>6. QED
    BY <1>1, <1>5

\* The item's own slot is cleared.
LEMMA RowDelete ==
  ASSUME NEW D, NEW B \in [D -> Entry], NEW s \in D, NEW e, NEW i, NEW v, NEW P,
         Row(B, i, v, P), Has(B, s, i), e.token = 0
  PROVE  Row([B EXCEPT ![s] = e], i, NoValue, P)
  <1>1. PICK C : C = [B EXCEPT ![s] = e]
    OBVIOUS
  <1>2. DOMAIN C = D /\ DOMAIN B = D /\ C[s] = e /\ \A u \in D \ {s} : C[u] = B[u]
    BY <1>1
  <1>3. \A u \in D : Has(B, u, i) => u = s
    BY <1>2 DEF Row
  <1>4. \A u \in D : ~Has(C, u, i)
    BY <1>2, <1>3 DEF Has
  <1>5. Row(C, i, NoValue, P)
    BY <1>2, <1>4 DEF Row
  <1>6. QED
    BY <1>1, <1>5

\* A key that is missing gets an item in one of its places.
LEMMA RowInsert ==
  ASSUME NEW D, NEW B \in [D -> Entry], NEW s \in D, NEW e, NEW i, NEW P,
         Row(B, i, NoValue, P), s \in P, e.token = 1, e.item = i, e.value \in Value
  PROVE  Row([B EXCEPT ![s] = e], i, e.value, P)
  <1>1. PICK C : C = [B EXCEPT ![s] = e]
    OBVIOUS
  <1>2. DOMAIN C = D /\ DOMAIN B = D /\ C[s] = e /\ \A u \in D \ {s} : C[u] = B[u]
    BY <1>1
  <1>3. \A u \in D : ~Has(B, u, i)
    BY <1>2 DEF Row, Value, NoValue
  <1>4. Has(C, s, i) /\ \A u \in D : Has(C, u, i) => u = s
    BY <1>2, <1>3 DEF Has
  <1>5. Row(C, i, e.value, P)
    BY <1>2, <1>4 DEF Row
  <1>6. QED
    BY <1>1, <1>5

\* The key's item moves to another of its places.
LEMMA RowMove ==
  ASSUME NEW D, NEW B \in [D -> Entry], NEW s \in D, NEW d \in D, NEW e, NEW i, NEW v, NEW P,
         Row(B, i, v, P), Has(B, s, i), d \in P, B[d].token = 0, e.token # 1 \/ e.item # i
  PROVE  Row([B EXCEPT ![d] = [token |-> 1, item |-> B[s].item, value |-> B[s].value],
                       ![s] = e], i, v, P)
  <1>0. PICK x : x = [token |-> 1, item |-> B[s].item, value |-> B[s].value]
    OBVIOUS
  <1>1. PICK C : C = [B EXCEPT ![d] = x, ![s] = e]
    OBVIOUS
  <1>2. s # d
    BY DEF Has
  <1>3. /\ DOMAIN C = D /\ DOMAIN B = D /\ C[s] = e /\ C[d] = x
        /\ \A u \in D \ {s, d} : C[u] = B[u]
    BY <1>1, <1>2
  <1>4. v \in Value /\ B[s].value = v /\ \A u \in D : Has(B, u, i) => u = s
    BY <1>3 DEF Row
  <1>5. Has(C, d, i) /\ C[d].value = v
    BY <1>0, <1>3, <1>4 DEF Has
  <1>6. \A u \in D : Has(C, u, i) => u = d
    BY <1>3, <1>4 DEF Has
  <1>7. Row(C, i, v, P)
    BY <1>3, <1>4, <1>5, <1>6 DEF Row
  <1>8. QED
    BY <1>0, <1>1, <1>7

-----------------------------------------------------------------------------
(***************************************************************************)
(* The inductive invariant of the table: the rows, and what an insertion   *)
(* has seen: its item is not in, and the slots it has visited are taken.   *)
(***************************************************************************)
Full(t) ==
  op[t] = "insert" =>
    /\ dict[item[t]] = NoValue
    /\ \A n \in 0 .. pos[t] - 1 : buckets[InsertSlot(key[t], n)].token = 1
DictInv == Rows /\ \A t \in Thread : Full(t)

\* The host does not delete beside insertions.
DeletesApart == \A p \in Plans : \A g \in p.groups : ~({"insert", "delete"} \subseteq g)

LEMMA SameSlots ==
  ASSUME level_size' = level_size
  PROVE  /\ \A k : Places(k)' = Places(k)
         /\ \A k, n : InsertSlot(k, n)' = InsertSlot(k, n)
         /\ \A k, n : LookupSlot(k, n)' = LookupSlot(k, n)
  BY DEF Places, InsertSlot, LookupSlot, Capacity

\* The item of a slot is one that no insertion is inserting.
LEMMA InsertedMissing ==
  ASSUME CallInv, DictInv, NEW t \in Thread, op[t] = "insert"
  PROVE  /\ item[t] \in Item /\ dict[item[t]] = NoValue /\ KeyOf[item[t]] = key[t]
         /\ Row(buckets, item[t], NoValue, Places(key[t]))
         /\ \A s \in DOMAIN buckets : ~Has(buckets, s, item[t])
  <1>1. item[t] \in Item /\ KeyOf[item[t]] = key[t]
    BY DEF CallInv, CallOK
  <1>2. dict[item[t]] = NoValue
    BY DEF DictInv, Full
  <1>3. Row(buckets, item[t], NoValue, Places(key[t]))
    BY <1>1, <1>2 DEF DictInv, Rows
  <1>4. QED
    BY <1>1, <1>2, <1>3 DEF Row, Value, NoValue

\* A thread that is inserting keeps what it has seen when the items stay.
LEMMA FullKept ==
  ASSUME CallInv, DictInv, NEW u \in Thread, level_size' = level_size,
         op'[u] = op[u], key'[u] = key[u], item'[u] = item[u], pos'[u] = pos[u],
         op[u] = "insert" => /\ dict'[item[u]] = NoValue
                             /\ \A s \in DOMAIN buckets :
                                  buckets[s].token = 1 => buckets'[s].token = 1
  PROVE  Full(u)'
  <1>1. SUFFICES ASSUME op[u] = "insert"
                 PROVE  /\ dict'[item[u]] = NoValue
                        /\ \A n \in 0 .. pos[u] - 1 : buckets'[InsertSlot(key[u], n)'].token = 1
    BY DEF Full
  <1>2. key[u] \in AnyKey /\ pc[u] # "idle" /\ HasSize
    BY <1>1, CallInvSize DEF CallInv, CallOK, AnyKey
  <1>3. ASSUME NEW n \in 0 .. pos[u] - 1 PROVE buckets'[InsertSlot(key[u], n)'].token = 1
    <2>1. n \in 0 .. 4 * ASSOC_NUM - 1
      BY AssocNum, Keep
    <2>2. InsertSlot(key[u], n) \in DOMAIN buckets
      BY <1>2, <2>1, InsertPlaces, VisitedSlots
    <2>3. buckets[InsertSlot(key[u], n)].token = 1
      BY <1>1, <1>3 DEF DictInv, Full
    <2>4. InsertSlot(key[u], n)' = InsertSlot(key[u], n)
      BY DEF InsertSlot, Capacity
    <2>5. QED
      BY <1>1, <2>2, <2>3, <2>4
  <1>4. QED
    BY <1>1, <1>3

\* Steps that leave the table and the map alone.
LEMMA QuietStep ==
  ASSUME CallInv, DictInv, NEW t \in Thread, OneThread(t), UNCHANGED <<buckets, dict>>,
         Full(t)'
  PROVE  DictInv'
  <1>1. level_size' = level_size
    BY DEF OneThread
  <1>2. Rows'
    BY <1>1, SameSlots DEF DictInv, Rows
  <1>3. ASSUME NEW u \in Thread, u # t PROVE Full(u)'
    <2>1. op'[u] = op[u] /\ key'[u] = key[u] /\ item'[u] = item[u] /\ pos'[u] = pos[u]
      BY <1>3 DEF OneThread
    <2>2. op[u] = "insert" => dict'[item[u]] = NoValue
      BY DEF DictInv, Full
    <2>3. QED
      BY <1>1, <2>1, <2>2, FullKept
  <1>4. QED
    BY <1>2, <1>3 DEF DictInv

LEMMA StartTable ==
  ASSUME CallInv, DictInv, NEW t \in Thread, NEW i \in Item, StartInsert(t, i)
  PROVE  DictInv'
  <1>1. OneThread(t) /\ op'[t] = "insert" /\ item'[t] = i /\ pos'[t] = 0
    BY StartInsertCalls
  <1>2. UNCHANGED <<buckets, dict>> /\ dict[i] = NoValue
    BY DEF StartInsert, Start, table
  <1>3. Full(t)'
    BY <1>1, <1>2 DEF Full
  <1>4. QED
    BY <1>1, <1>2, <1>3, QuietStep

LEMMA StartLookupTable ==
  ASSUME CallInv, DictInv, NEW t \in Thread, NEW o \in {"query", "update", "delete"},
         NEW k \in Key, StartLookup(t, o, k)
  PROVE  DictInv'
  <1>1. OneThread(t) /\ op'[t] = o
    BY StartLookupCalls
  <1>2. UNCHANGED <<buckets, dict>>
    BY DEF StartLookup, Start, table
  <1>3. Full(t)'
    BY <1>1 DEF Full
  <1>4. QED
    BY <1>1, <1>2, <1>3, QuietStep

LEMMA LookupNextTable ==
  ASSUME CallInv, DictInv, NEW t \in Thread, LookupNext(t)
  PROVE  DictInv'
  <1>1. OneThread(t) /\ op'[t] = op[t]
    BY LookupNextCalls
  <1>2. UNCHANGED <<buckets, dict>> /\ op[t] # "insert"
    BY DEF LookupNext, table
  <1>3. Full(t)'
    BY <1>1, <1>2 DEF Full
  <1>4. QED
    BY <1>1, <1>2, <1>3, QuietStep

LEMMA NotFoundTable ==
  ASSUME CallInv, DictInv, NEW t \in Thread, NotFound(t)
  PROVE  DictInv'
  <1>1. OneThread(t) /\ op'[t] = "none"
    BY NotFoundCalls
  <1>2. UNCHANGED <<buckets, dict>>
    BY DEF NotFound, table
  <1>3. Full(t)'
    BY <1>1 DEF Full
  <1>4. QED
    BY <1>1, <1>2, <1>3, QuietStep

LEMMA InsertFailsTable ==
  ASSUME CallInv, DictInv, NEW t \in Thread, InsertFails(t)
  PROVE  DictInv'
  <1>1. OneThread(t) /\ op'[t] = "none"
    BY InsertFailsCalls
  <1>2. UNCHANGED <<buckets, dict>>
    BY DEF InsertFails, table
  <1>3. Full(t)'
    BY <1>1 DEF Full
  <1>4. QED
    BY <1>1, <1>2, <1>3, QuietStep

LEMMA InsertNextTable ==
  ASSUME CallInv, DictInv, NEW t \in Thread, InsertNext(t)
  PROVE  DictInv'
  <1>1. OneThread(t) /\ op'[t] = op[t] /\ key'[t] = key[t] /\ item'[t] = item[t]
        /\ pos'[t] = pos[t] + 1
    BY InsertNextCalls
  <1>2. /\ UNCHANGED <<buckets, dict>> /\ op[t] = "insert"
        /\ buckets[InsertSlot(key[t], pos[t])].token = 1
    BY DEF InsertNext, table
  <1>3. \A n : InsertSlot(key[t], n)' = InsertSlot(key[t], n)
    <2>1. level_size' = level_size /\ key'[t] = key[t]
      BY <1>1 DEF OneThread
    <2>2. QED
      BY <2>1 DEF InsertSlot, Capacity
  <1>4. ASSUME NEW n \in 0 .. pos'[t] - 1 PROVE buckets'[InsertSlot(key[t], n)'].token = 1
    <2>1. pos[t] \in Nat
      BY AssocNum, Keep
    <2>2. n = pos[t] \/ n \in 0 .. pos[t] - 1
      BY <1>1, <1>4, <2>1
    <2>3. QED
      BY <1>2, <1>3, <2>2 DEF DictInv, Full
  <1>5. dict'[item'[t]] = NoValue
    BY <1>1, <1>2 DEF DictInv, Full
  <1>6. Full(t)'
    BY <1>4, <1>5 DEF Full
  <1>7. QED
    BY <1>1, <1>2, <1>6, QuietStep

LEMMA LockingTable ==
  ASSUME CallInv, DictInv, NEW t \in Thread, LockSource(t) \/ MoveNext(t)
  PROVE  DictInv'
  <1>1. OneThread(t) /\ op'[t] = op[t] /\ key'[t] = key[t] /\ item'[t] = item[t] /\ pos'[t] = pos[t]
    BY LockSourceCalls, MoveNextCalls
  <1>2. UNCHANGED <<buckets, dict>>
    BY DEF LockSource, MoveNext, table
  <1>3. Full(t)'
    <2>1. level_size' = level_size
      BY <1>1 DEF OneThread
    <2>2. op[t] = "insert" => dict'[item[t]] = NoValue
      BY <1>2 DEF DictInv, Full
    <2>3. QED
      BY <1>1, <1>2, <2>1, <2>2, FullKept
  <1>4. QED
    BY <1>1, <1>2, <1>3, QuietStep

\* Steps that write the table, and the map in one item, and end the call.
LEMMA WriteStep ==
  ASSUME CallInv, DictInv, NEW t \in Thread, OneThread(t), op'[t] = "none",
         \A i \in Item : Row(buckets', i, dict'[i], Places(KeyOf[i])),
         \A u \in Thread \ {t} : op[u] = "insert" =>
           /\ dict'[item[u]] = dict[item[u]]
           /\ \A s \in DOMAIN buckets : buckets[s].token = 1 => buckets'[s].token = 1
  PROVE  DictInv'
  <1>1. level_size' = level_size
    BY DEF OneThread
  <1>2. Rows'
    BY <1>1, SameSlots DEF Rows
  <1>3. ASSUME NEW u \in Thread PROVE Full(u)'
    <2>1. CASE u = t
      BY <2>1 DEF Full
    <2>2. CASE u # t
      <3>1. op'[u] = op[u] /\ key'[u] = key[u] /\ item'[u] = item[u] /\ pos'[u] = pos[u]
        BY <2>2 DEF OneThread
      <3>2. op[u] = "insert" => dict[item[u]] = NoValue
        BY DEF DictInv, Full
      <3>3. QED
        BY <1>1, <2>2, <3>1, <3>2, FullKept
    <2>3. QED
      BY <2>1, <2>2
  <1>4. QED
    BY <1>2, <1>3 DEF DictInv

LEMMA LookupFoundTable ==
  ASSUME CallInv, DictInv, DeletesApart, NEW t \in Thread, LookupFound(t)
  PROVE  DictInv'
  <1>0. OneThread(t) /\ op'[t] = "none"
    BY LookupFoundCalls
  <1>1. PICK s, j : s = LookupSlot(key[t], pos[t]) /\ j = buckets[s].item
    OBVIOUS
  <1>2. /\ pc[t] = "probe" /\ op[t] \in {"query", "update", "delete"} /\ pos[t] < Lookups
        /\ Has(buckets, s, j) /\ KeyOf[j] = key[t]
        /\ op[t] = "query" => UNCHANGED <<buckets, dict>>
        /\ op[t] = "update" => /\ buckets' = [buckets EXCEPT ![s] =
                                                [token |-> 1, item |-> j, value |-> "updated"]]
                               /\ dict' = [dict EXCEPT ![j] = "updated"]
        /\ op[t] = "delete" => /\ buckets' = [buckets EXCEPT ![s].token = 0]
                               /\ dict' = [dict EXCEPT ![j] = NoValue]
    BY <1>1 DEF LookupFound, Has, Put
  <1>3. s \in DOMAIN buckets /\ j \in Item
    BY <1>1, <1>2, VisitedSlots, FoundItem
  <1>4. /\ buckets \in [SlotsOf(level_size) -> Entry] /\ DOMAIN buckets = SlotsOf(level_size)
        /\ dict \in [Item -> Value \cup {NoValue}]
    BY Keep
  <1>5. \A k \in Item : Row(buckets, k, dict[k], Places(KeyOf[k]))
    BY DEF DictInv, Rows
  <1>6. \A k \in Item \ {j} : ~Has(buckets, s, k)
    BY <1>2 DEF Has
  <1>7. ASSUME NEW u \in Thread, op[u] = "insert" PROVE item[u] # j
    BY <1>2, <1>3, <1>7, InsertedMissing
  <1>8. CASE op[t] = "query"
    <2>1. Full(t)'
      BY <1>0 DEF Full
    <2>2. QED
      BY <1>0, <1>2, <1>8, <2>1, QuietStep
  <1>9. CASE op[t] = "update"
    <2>1. PICK e : e = [token |-> 1, item |-> j, value |-> "updated"]
      OBVIOUS
    <2>2. e.token = 1 /\ e.item = j /\ e.value = "updated" /\ e.value \in Value
      BY <2>1 DEF Value
    <2>3. buckets' = [buckets EXCEPT ![s] = e] /\ dict' = [dict EXCEPT ![j] = "updated"]
      BY <1>2, <1>9, <2>1
    <2>4. ASSUME NEW k \in Item PROVE Row(buckets', k, dict'[k], Places(KeyOf[k]))
      <3>1. CASE k = j
        <4>1. Row([buckets EXCEPT ![s] = e], j, e.value, Places(KeyOf[j]))
          BY <1>2, <1>3, <1>4, <1>5, <2>2, RowUpdate
        <4>2. dict'[j] = e.value
          BY <1>3, <1>4, <2>2, <2>3
        <4>3. QED
          BY <2>3, <3>1, <4>1, <4>2
      <3>2. CASE k # j
        <4>1. Row([buckets EXCEPT ![s] = e], k, dict[k], Places(KeyOf[k]))
          BY <1>3, <1>4, <1>5, <1>6, <2>2, <3>2, RowOther
        <4>2. dict'[k] = dict[k]
          BY <1>4, <2>3, <3>2
        <4>3. QED
          BY <2>3, <4>1, <4>2
      <3>3. QED
        BY <3>1, <3>2
    <2>5. \A u \in Thread \ {t} : op[u] = "insert" =>
            /\ dict'[item[u]] = dict[item[u]]
            /\ \A x \in DOMAIN buckets : buckets[x].token = 1 => buckets'[x].token = 1
      <3>1. SUFFICES ASSUME NEW u \in Thread, op[u] = "insert"
                     PROVE  /\ dict'[item[u]] = dict[item[u]]
                            /\ \A x \in DOMAIN buckets : buckets[x].token = 1 => buckets'[x].token = 1
        OBVIOUS
      <3>2. dict'[item[u]] = dict[item[u]]
        BY <1>4, <1>7, <2>3, <3>1, InsertedMissing
      <3>3. \A x \in DOMAIN buckets : buckets[x].token = 1 => buckets'[x].token = 1
        BY <1>4, <2>2, <2>3
      <3>4. QED
        BY <3>2, <3>3
    <2>6. QED
      BY <1>0, <2>4, <2>5, WriteStep
  <1>10. CASE op[t] = "delete"
    <2>1. PICK e : e = [buckets[s] EXCEPT !.token = 0]
      OBVIOUS
    <2>2. e.token = 0
      BY <1>3, <1>4, <2>1 DEF Entry
    <2>3. buckets' = [buckets EXCEPT ![s] = e] /\ dict' = [dict EXCEPT ![j] = NoValue]
      BY <1>2, <1>10, <2>1
    <2>4. ASSUME NEW k \in Item PROVE Row(buckets', k, dict'[k], Places(KeyOf[k]))
      <3>1. CASE k = j
        <4>1. Row([buckets EXCEPT ![s] = e], j, NoValue, Places(KeyOf[j]))
          BY <1>2, <1>3, <1>4, <1>5, <2>2, RowDelete
        <4>2. dict'[j] = NoValue
          BY <1>3, <1>4, <2>3
        <4>3. QED
          BY <2>3, <3>1, <4>1, <4>2
      <3>2. CASE k # j
        <4>1. Row([buckets EXCEPT ![s] = e], k, dict[k], Places(KeyOf[k]))
            <5>1. ~Has(buckets, s, k) /\ Row(buckets, k, dict[k], Places(KeyOf[k])) /\ e.token # 1
              BY <1>5, <1>6, <2>2, <3>2
            <5>2. QED
              BY <1>3, <1>4, <5>1, RowOther
        <4>2. dict'[k] = dict[k]
          BY <1>4, <2>3, <3>2
        <4>3. QED
          BY <2>3, <4>1, <4>2
      <3>3. QED
        BY <3>1, <3>2
    <2>5. ASSUME NEW u \in Thread PROVE op[u] # "insert"
      <3>1. SUFFICES ASSUME op[u] = "insert" PROVE FALSE
        OBVIOUS
      <3>2. pc[u] # "idle" /\ pc[t] # "idle"
        BY <1>2, <3>1 DEF CallInv, CallOK
      <3>3. \E g \in plan.groups : {op[u], op[t]} \subseteq g
        BY <3>2 DEF CallInv, CallsAgree
      <3>4. plan \in Plans
        BY DEF CallInv, TypeOK
      <3>5. QED
        BY <1>10, <3>1, <3>3, <3>4 DEF DeletesApart
    <2>6. QED
      BY <1>0, <2>4, <2>5, WriteStep
  <1>11. QED
    BY <1>2, <1>8, <1>9, <1>10

LEMMA InsertFreeTable ==
  ASSUME CallInv, DictInv, NEW t \in Thread, InsertFree(t)
  PROVE  DictInv'
  <1>0. OneThread(t) /\ op'[t] = "none"
    BY InsertFreeCalls
  <1>1. PICK s, j, e : /\ s = InsertSlot(key[t], pos[t]) /\ j = item[t]
                       /\ e = [token |-> 1, item |-> j, value |-> "inserted"]
    OBVIOUS
  <1>2. /\ pc[t] = "probe" /\ op[t] = "insert" /\ pos[t] < 4 * ASSOC_NUM
        /\ buckets[s].token = 0
        /\ buckets' = [buckets EXCEPT ![s] = e] /\ dict' = [dict EXCEPT ![j] = "inserted"]
    BY <1>1 DEF InsertFree, Put
  <1>3. e.token = 1 /\ e.item = j /\ e.value = "inserted" /\ e.value \in Value
    BY <1>1 DEF Value
  <1>4. s \in DOMAIN buckets
    BY <1>1, <1>2, VisitedSlots
  <1>5. /\ buckets \in [SlotsOf(level_size) -> Entry] /\ DOMAIN buckets = SlotsOf(level_size)
        /\ dict \in [Item -> Value \cup {NoValue}] /\ pos[t] \in Nat /\ HasSize
    BY Keep, CallInvSize, AssocNum
  <1>6. j \in Item /\ KeyOf[j] = key[t] /\ Row(buckets, j, NoValue, Places(KeyOf[j]))
    BY <1>1, <1>2, InsertedMissing
  <1>7. s \in Places(KeyOf[j])
    <2>1. pos[t] \in 0 .. 4 * ASSOC_NUM - 1 /\ KeyOf[j] \in AnyKey
      BY <1>2, <1>5, <1>6, AssocNum, KeyAssumption DEF AnyKey
    <2>2. QED
      BY <1>1, <1>5, <1>6, <2>1, InsertPlaces
  <1>8. ASSUME NEW k \in Item PROVE Row(buckets', k, dict'[k], Places(KeyOf[k]))
    <2>1. CASE k = j
      <3>1. Row([buckets EXCEPT ![s] = e], j, e.value, Places(KeyOf[j]))
        BY <1>3, <1>4, <1>5, <1>6, <1>7, RowInsert
      <3>2. dict'[j] = e.value
        BY <1>2, <1>3, <1>5, <1>6
      <3>3. QED
        BY <1>2, <2>1, <3>1, <3>2
    <2>2. CASE k # j
      <3>1. ~Has(buckets, s, k) /\ Row(buckets, k, dict[k], Places(KeyOf[k]))
        BY <1>2 DEF Has, DictInv, Rows
      <3>2. Row([buckets EXCEPT ![s] = e], k, dict[k], Places(KeyOf[k]))
        BY <1>3, <1>4, <1>5, <2>2, <3>1, RowOther
      <3>3. dict'[k] = dict[k]
        BY <1>2, <1>5, <2>2
      <3>4. QED
        BY <1>2, <3>2, <3>3
    <2>3. QED
      BY <2>1, <2>2
  <1>9. ASSUME NEW u \in Thread \ {t}, op[u] = "insert"
        PROVE  /\ dict'[item[u]] = dict[item[u]]
               /\ \A x \in DOMAIN buckets : buckets[x].token = 1 => buckets'[x].token = 1
    <2>1. item[u] # j
      BY <1>1, <1>2, <1>9 DEF CallInv, CallsAgree
    <2>2. item[u] \in Item
      BY <1>9, InsertedMissing
    <2>3. QED
      BY <1>2, <1>3, <1>5, <2>1, <2>2
  <1>10. QED
    BY <1>0, <1>8, <1>9, WriteStep

LEMMA MoveTable ==
  ASSUME CallInv, DictInv, NEW t \in Thread, Move(t)
  PROVE  DictInv'
  <1>0. OneThread(t) /\ op'[t] = "none"
    BY MoveCalls
  <1>1. PICK s, d, j, e : /\ s = SourceSlot(key[t], source[t]) /\ j = item[t]
                          /\ d = DestSlot(s, dest[t])
                          /\ e = [token |-> 1, item |-> j, value |-> "inserted"]
    OBVIOUS
  <1>2. PICK x : x = [token |-> 1, item |-> buckets[s].item, value |-> buckets[s].value]
    OBVIOUS
  <1>3. /\ pc[t] = "move" /\ buckets[d].token = 0
        /\ buckets' = [buckets EXCEPT ![d] = x, ![s] = e]
        /\ dict' = [dict EXCEPT ![j] = "inserted"]
    BY <1>1, <1>2 DEF Move, MoveItem
  <1>4. e.token = 1 /\ e.item = j /\ e.value = "inserted" /\ e.value \in Value
    BY <1>1 DEF Value
  <1>5. /\ s \in DOMAIN buckets /\ s \in Places(key[t]) /\ d \in DOMAIN buckets
        /\ buckets[s] \in Entry /\ d \in Places(KeyOf[buckets[s].item])
    BY <1>1, <1>3, MovingSlots
  <1>6. /\ buckets \in [SlotsOf(level_size) -> Entry] /\ DOMAIN buckets = SlotsOf(level_size)
        /\ dict \in [Item -> Value \cup {NoValue}] /\ HasSize
    BY Keep, CallInvSize
  <1>7. op[t] = "insert" /\ pos[t] = 4 * ASSOC_NUM
    BY <1>3 DEF CallInv, CallOK
  <1>8. /\ j \in Item /\ KeyOf[j] = key[t] /\ s \in Places(KeyOf[j])
        /\ Row(buckets, j, NoValue, Places(KeyOf[j])) /\ ~Has(buckets, s, j)
    BY <1>1, <1>5, <1>7, InsertedMissing
  <1>9. buckets[s].token = 1
    <2>1. key[t] \in AnyKey
      BY Keep
    <2>2. PICK n \in 0 .. 4 * ASSOC_NUM - 1 : s = InsertSlot(key[t], n)
      BY <1>5, <1>6, <2>1, InsertPlaces
    <2>3. QED
      BY <1>1, <1>7, <2>2 DEF DictInv, Full
  <1>10. PICK y : y = buckets[s].item
    OBVIOUS
  <1>11. y # j /\ Has(buckets, s, y) /\ d # s /\ x.token = 1 /\ x.item = y
    BY <1>2, <1>3, <1>8, <1>9, <1>10 DEF Has
  <1>12. PICK C : C = [buckets EXCEPT ![d] = x]
    OBVIOUS
  <1>13. C \in [SlotsOf(level_size) -> Entry] /\ C[s] = buckets[s] /\ buckets' = [C EXCEPT ![s] = e]
    <2>1. x \in Entry
      BY <1>2, <1>5 DEF Entry
    <2>2. C \in [SlotsOf(level_size) -> Entry]
      BY <1>5, <1>6, <1>12, <2>1
    <2>3. QED
      BY <1>3, <1>5, <1>6, <1>11, <1>12, <2>2
  <1>14. ASSUME NEW k \in Item PROVE Row(buckets', k, dict'[k], Places(KeyOf[k]))
    <2>0. Row(buckets, k, dict[k], Places(KeyOf[k])) /\ ~Has(buckets, d, k)
      BY <1>3 DEF DictInv, Rows, Has
    <2>1. CASE k = j
      <3>1. Row([buckets EXCEPT ![d] = x], j, NoValue, Places(KeyOf[j]))
        BY <1>5, <1>6, <1>8, <1>11, <2>0, <2>1, RowOther
      <3>2. Row(C, j, NoValue, Places(KeyOf[j]))
        BY <1>12, <3>1
      <3>3. Row([C EXCEPT ![s] = e], j, e.value, Places(KeyOf[j]))
        BY <1>4, <1>5, <1>6, <1>8, <1>13, <3>2, RowInsert
      <3>4. dict'[j] = e.value
        BY <1>3, <1>4, <1>6, <1>8
      <3>5. QED
        BY <1>13, <2>1, <3>3, <3>4
    <2>2. CASE k = y
      <3>1. Row([buckets EXCEPT ![d] = [token |-> 1, item |-> buckets[s].item,
                                        value |-> buckets[s].value], ![s] = e],
                k, dict[k], Places(KeyOf[k]))
        BY <1>3, <1>4, <1>5, <1>6, <1>10, <1>11, <2>0, <2>2, RowMove
      <3>2. dict'[k] = dict[k]
        BY <1>3, <1>6, <1>11, <2>2
      <3>3. QED
        BY <1>2, <1>3, <3>1, <3>2
    <2>3. CASE k # j /\ k # y
      <3>1. Row([buckets EXCEPT ![d] = x], k, dict[k], Places(KeyOf[k]))
        BY <1>5, <1>6, <1>11, <2>0, <2>3, RowOther
      <3>2. Row(C, k, dict[k], Places(KeyOf[k])) /\ ~Has(C, s, k)
        BY <1>10, <1>12, <1>13, <2>3, <3>1 DEF Has
      <3>3. Row([C EXCEPT ![s] = e], k, dict[k], Places(KeyOf[k]))
        BY <1>4, <1>5, <1>6, <1>13, <2>3, <3>2, RowOther
      <3>4. dict'[k] = dict[k]
        BY <1>3, <1>6, <2>3
      <3>5. QED
        BY <1>13, <3>3, <3>4
    <2>4. QED
      BY <2>1, <2>2, <2>3
  <1>15. ASSUME NEW u \in Thread \ {t}, op[u] = "insert"
         PROVE  /\ dict'[item[u]] = dict[item[u]]
                /\ \A z \in DOMAIN buckets : buckets[z].token = 1 => buckets'[z].token = 1
    <2>1. item[u] # j
      BY <1>1, <1>7, <1>15 DEF CallInv, CallsAgree
    <2>2. item[u] \in Item
      BY <1>15, InsertedMissing
    <2>3. dict'[item[u]] = dict[item[u]]
      BY <1>3, <1>6, <2>1, <2>2
    <2>4. \A z \in DOMAIN buckets : buckets[z].token = 1 => buckets'[z].token = 1
      BY <1>4, <1>6, <1>11, <1>12, <1>13
    <2>5. QED
      BY <2>3, <2>4
  <1>16. QED
    BY <1>0, <1>14, <1>15, WriteStep

-----------------------------------------------------------------------------
(***************************************************************************)
(* After n items: the new top level has exactly the items among the first  *)
(* n slots of the bottom level, each once and in a slot of its key.        *)
(***************************************************************************)
PlacedOK(p, n) ==
  p.ok =>
    /\ \A r \in DOMAIN p.top :
         \E m \in 0 .. n - 1 :
           /\ p.top[r] = BottomItem(m) /\ BottomItem(m).token = 1
           /\ \E x \in 0 .. 2 * ASSOC_NUM - 1 : r = RehashSlot(KeyOf[BottomItem(m).item], x)
    /\ \A m \in 0 .. n - 1 :
         BottomItem(m).token = 1 => \E r \in DOMAIN p.top : p.top[r] = BottomItem(m)
    /\ \A r, q \in DOMAIN p.top :
         p.top[r].item = p.top[q].item /\ p.top[r].item \in Item => r = q

\* No item is in two slots.
LEMMA RowsUnique ==
  ASSUME Rows, NEW k \in Item, NEW s \in DOMAIN buckets, NEW u \in DOMAIN buckets,
         Has(buckets, s, k), Has(buckets, u, k)
  PROVE  s = u
  BY DEF Rows, Row

LEMMA BottomUnique ==
  ASSUME CallInv, Rows, NEW m \in 0 .. BottomItems - 1, NEW n \in 0 .. BottomItems - 1,
         BottomItem(m).token = 1, BottomItem(n).token = 1,
         BottomItem(m).item = BottomItem(n).item, BottomItem(m).item \in Item
  PROVE  m = n
  <1>1. /\ BottomItem(m) = buckets[BottomSlot(m)] /\ BottomItem(n) = buckets[BottomSlot(n)]
    BY DEF BottomItem, BottomSlot
  <1>2. BottomSlot(m) \in DOMAIN buckets /\ BottomSlot(n) \in DOMAIN buckets
    BY BottomSlots
  <1>3. PICK k \in Item : k = BottomItem(m).item
    OBVIOUS
  <1>4. Has(buckets, BottomSlot(m), k) /\ Has(buckets, BottomSlot(n), k)
    BY <1>1, <1>3 DEF Has
  <1>5. BottomSlot(m) = BottomSlot(n)
    BY <1>2, <1>4, RowsUnique
  <1>6. QED
    BY <1>5, BottomSlots

LEMMA PlacedNext ==
  ASSUME CallInv, Rows, NEW n \in 0 .. BottomItems - 1, PlacedOK(Placed[n], n)
  PROVE  PlacedOK(Placed[n + 1], n + 1)
  <1>0. HasSize /\ BottomItems \in Nat /\ BottomItem(n) \in Entry /\ n \in Nat
    BY CallInvSize, BottomSlots
  <1>1. PICK p, e, c : p = Placed[n] /\ e = BottomItem(n) /\ c = Placed[n + 1]
    OBVIOUS
  <1>2. p \in PlaceSet /\ c = Place(p, e) /\ e \in Entry
    BY <1>0, <1>1, PlacedEquation
  <1>3. SUFFICES ASSUME c.ok
                 PROVE  /\ \A r \in DOMAIN c.top :
                             \E m \in 0 .. n :
                               /\ c.top[r] = BottomItem(m) /\ BottomItem(m).token = 1
                               /\ \E x \in 0 .. 2 * ASSOC_NUM - 1 : r = RehashSlot(KeyOf[BottomItem(m).item], x)
                        /\ \A m \in 0 .. n :
                             BottomItem(m).token = 1 => \E r \in DOMAIN c.top : c.top[r] = BottomItem(m)
                        /\ \A r, q \in DOMAIN c.top :
                             c.top[r].item = c.top[q].item /\ c.top[r].item \in Item => r = q
    <2>1. (n + 1) - 1 = n
      BY <1>0
    <2>2. QED
      BY <1>1, <2>1 DEF PlacedOK
  <1>4. p.ok /\ e.token \in {0, 1}
    BY <1>0, <1>2, <1>3, PlaceItem DEF Entry
  <1>5. /\ \A r \in DOMAIN p.top :
             \E m \in 0 .. n - 1 :
               /\ p.top[r] = BottomItem(m) /\ BottomItem(m).token = 1
               /\ \E x \in 0 .. 2 * ASSOC_NUM - 1 : r = RehashSlot(KeyOf[BottomItem(m).item], x)
        /\ \A m \in 0 .. n - 1 :
             BottomItem(m).token = 1 => \E r \in DOMAIN p.top : p.top[r] = BottomItem(m)
        /\ \A r, q \in DOMAIN p.top :
             p.top[r].item = p.top[q].item /\ p.top[r].item \in Item => r = q
    BY <1>1, <1>4 DEF PlacedOK
  <1>6. \A m \in 0 .. n : m = n \/ m \in 0 .. n - 1
    BY <1>0
  <1>7. 0 .. n - 1 \subseteq 0 .. n /\ n \in 0 .. n
    BY <1>0
  <1>8. CASE e.token = 0
    <2>1. c = p
      BY <1>0, <1>2, <1>3, <1>8, PlaceItem
    <2>2. QED
      BY <1>1, <1>5, <1>6, <1>7, <1>8, <2>1
  <1>9. CASE e.token = 1
    <2>1. PICK x \in 0 .. 2 * ASSOC_NUM - 1 :
            /\ RehashSlot(KeyOf[e.item], x) \notin DOMAIN p.top
            /\ c.top = [s \in DOMAIN p.top \cup {RehashSlot(KeyOf[e.item], x)} |->
                          IF s = RehashSlot(KeyOf[e.item], x) THEN e ELSE p.top[s]]
      <3>1. HasSize /\ Place(p, e).ok
        BY <1>0, <1>2, <1>3
      <3>2. /\ Place(p, e).ok /\ e.token = 1 =>
                 \E x \in 0 .. 2 * ASSOC_NUM - 1 :
                   /\ RehashSlot(KeyOf[e.item], x) \notin DOMAIN p.top
                   /\ Place(p, e).top =
                        [s \in DOMAIN p.top \cup {RehashSlot(KeyOf[e.item], x)} |->
                           IF s = RehashSlot(KeyOf[e.item], x) THEN e ELSE p.top[s]]
        BY <1>2, <3>1, PlaceItem
      <3>3. QED
        BY <1>2, <1>9, <3>1, <3>2
    <2>2. PICK w : w = RehashSlot(KeyOf[e.item], x)
      OBVIOUS
    <2>3. /\ w \notin DOMAIN p.top /\ DOMAIN c.top = DOMAIN p.top \cup {w}
          /\ c.top[w] = e /\ \A r \in DOMAIN p.top : c.top[r] = p.top[r]
      BY <2>1, <2>2
    <2>4. ASSUME NEW r \in DOMAIN c.top
          PROVE  \E m \in 0 .. n :
                   /\ c.top[r] = BottomItem(m) /\ BottomItem(m).token = 1
                   /\ \E y \in 0 .. 2 * ASSOC_NUM - 1 : r = RehashSlot(KeyOf[BottomItem(m).item], y)
      <3>1. CASE r = w
        BY <1>1, <1>7, <1>9, <2>2, <2>3, <3>1
      <3>2. CASE r \in DOMAIN p.top
        BY <1>5, <1>7, <2>3, <3>2
      <3>3. QED
        BY <2>3, <3>1, <3>2
    <2>5. ASSUME NEW m \in 0 .. n, BottomItem(m).token = 1
          PROVE  \E r \in DOMAIN c.top : c.top[r] = BottomItem(m)
      <3>1. CASE m = n
        BY <1>1, <2>3, <3>1
      <3>2. CASE m \in 0 .. n - 1
        BY <1>5, <2>3, <2>5, <3>2
      <3>3. QED
        BY <1>6, <3>1, <3>2
    <2>6. ASSUME NEW r \in DOMAIN p.top, p.top[r].item = e.item, e.item \in Item PROVE FALSE
      <3>1. PICK m \in 0 .. n - 1 : p.top[r] = BottomItem(m) /\ BottomItem(m).token = 1
        BY <1>5
      <3>2. m \in 0 .. BottomItems - 1
        BY <1>0
      <3>3. m = n
        BY <1>1, <1>9, <2>6, <3>1, <3>2, BottomUnique
      <3>4. QED
        BY <1>0, <3>3
    <2>7. ASSUME NEW r \in DOMAIN c.top, NEW q \in DOMAIN c.top,
                 c.top[r].item = c.top[q].item, c.top[r].item \in Item
          PROVE  r = q
      <3>1. CASE r \in DOMAIN p.top /\ q \in DOMAIN p.top
        BY <1>5, <2>3, <2>7, <3>1
      <3>2. CASE r = w /\ q \in DOMAIN p.top
        BY <2>3, <2>6, <2>7, <3>2
      <3>3. CASE r \in DOMAIN p.top /\ q = w
        BY <2>3, <2>6, <2>7, <3>3
      <3>4. QED
        BY <2>3, <3>1, <3>2, <3>3
    <2>8. QED
      BY <2>4, <2>5, <2>7
  <1>10. QED
    BY <1>4, <1>8, <1>9

\* The rehash, when it succeeds, has moved every item of the bottom level.
LEMMA RehashOK ==
  ASSUME CallInv, Rows
  PROVE  PlacedOK(Rehash, BottomItems)
  <1>0. BottomItems \in Nat
    BY BottomSlots
  <1>1. DEFINE S == {n \in 0 .. BottomItems : PlacedOK(Placed[n], n)}
  <1>2. 0 \in S
    <2>1. Placed[0] = NoneYet
      BY PlacedEquation
    <2>2. DOMAIN Placed[0].top = {}
      BY <2>1 DEF NoneYet
    <2>3. PlacedOK(Placed[0], 0)
      BY <2>2 DEF PlacedOK
    <2>4. QED
      BY <1>0, <2>3
  <1>3. ASSUME NEW n \in 0 .. BottomItems - 1, n \in S PROVE n + 1 \in S
    <2>1. n + 1 \in 0 .. BottomItems
      BY <1>0
    <2>2. QED
      BY <1>3, <2>1, PlacedNext
  <1>4. 0 .. BottomItems \subseteq S
    <2>1. HIDE DEF S
    <2>2. QED
      BY <1>0, <1>2, <1>3, UptoInductionSet
  <1>5. QED
    BY <1>0, <1>4 DEF Rehash

\* The indexes of the old top level are those of the new bottom level.
LEMMA TopBecomesBottom ==
  ASSUME NEW size \in Nat, size >= 2, NEW k \in AnyKey, NEW b, NEW i,
         <<0, b, i>> \in PlacesAt(k, size)
  PROVE  <<1, b, i>> \in PlacesAt(k, size + 1)
  <1>1. PICK q \in Nat \ {0} : Pow2[size] = 4 * q /\ Pow2[size + 1] = 8 * q
    BY Pow2Quarters
  <1>2. (4 * q) \div (1 + 0) = (8 * q) \div (1 + 1)
    OBVIOUS
  <1>3. /\ b \in Nat /\ i \in 0 .. ASSOC_NUM - 1
        /\ b \in BucketsOf(k, Pow2[size] \div (1 + 0))
    BY DEF PlacesAt
  <1>4. b \in BucketsOf(k, Pow2[size + 1] \div (1 + 1))
    BY <1>1, <1>2, <1>3
  <1>5. QED
    BY <1>3, <1>4 DEF PlacesAt

\* The row of an item after a resize.
LEMMA ResizeRow ==
  ASSUME CallInv, Rows, Rehash.ok, NEW k \in Item, NEW C,
         C = [s \in SlotsOf(level_size + 1) |->
                IF s[1] = 1 THEN buckets[<<0, s[2], s[3]>>]
                ELSE IF <<s[2], s[3]>> \in DOMAIN Rehash.top THEN Rehash.top[<<s[2], s[3]>>]
                ELSE Unused]
  PROVE  Row(C, k, dict[k], PlacesAt(KeyOf[k], level_size + 1))
  <1>0. /\ HasSize /\ level_size \in Nat /\ level_size >= 2 /\ KeyOf[k] \in AnyKey
        /\ level_size + 1 \in Nat /\ level_size + 1 >= 2 /\ BottomItems \in Nat
    BY CallInvSize, BottomSlots, KeyAssumption DEF HasSize, AnyKey
  <1>1. PICK T : T = Rehash.top
    OBVIOUS
  <1>2. /\ \A r \in DOMAIN T :
             \E m \in 0 .. BottomItems - 1 :
               /\ T[r] = BottomItem(m) /\ BottomItem(m).token = 1
               /\ \E x \in 0 .. 2 * ASSOC_NUM - 1 : r = RehashSlot(KeyOf[BottomItem(m).item], x)
        /\ \A m \in 0 .. BottomItems - 1 :
             BottomItem(m).token = 1 => \E r \in DOMAIN T : T[r] = BottomItem(m)
        /\ \A r, q \in DOMAIN T : T[r].item = T[q].item /\ T[r].item \in Item => r = q
    BY <1>1, RehashOK DEF PlacedOK
  <1>3. DOMAIN buckets = SlotsOf(level_size) /\ DOMAIN C = SlotsOf(level_size + 1)
    BY DEF CallInv, TypeOK
  <1>4. Row(buckets, k, dict[k], PlacesAt(KeyOf[k], level_size))
    BY DEF Rows, Places
  <1>5. ASSUME NEW m \in 0 .. BottomItems - 1
        PROVE  /\ BottomSlot(m) \in DOMAIN buckets /\ BottomSlot(m)[1] = 1
               /\ BottomItem(m) = buckets[BottomSlot(m)]
    BY BottomSlots DEF BottomSlot, BottomItem
  \* The item in the new table comes from the old top or bottom level.
  <1>6. ASSUME NEW u \in DOMAIN C, Has(C, u, k)
        PROVE  \/ /\ u[1] = 1 /\ <<0, u[2], u[3]>> \in DOMAIN buckets
                  /\ Has(buckets, <<0, u[2], u[3]>>, k) /\ C[u] = buckets[<<0, u[2], u[3]>>]
               \/ /\ u[1] = 0 /\ <<u[2], u[3]>> \in DOMAIN T /\ T[<<u[2], u[3]>>].item = k
                  /\ \E m \in 0 .. BottomItems - 1 : Has(buckets, BottomSlot(m), k)
    <2>1. u[1] \in {0, 1}
      BY <1>3 DEF SlotsOf
    <2>2. CASE u[1] = 1
      <3>1. <<0, u[2], u[3]>> \in SlotsOf(level_size)
        BY <1>0, <1>3, <2>2, SlotsGrow
      <3>2. C[u] = buckets[<<0, u[2], u[3]>>]
        BY <1>3, <2>2
      <3>3. QED
        BY <1>3, <1>6, <2>2, <3>1, <3>2 DEF Has
    <2>3. CASE u[1] = 0
      <3>1. <<u[2], u[3]>> \in DOMAIN T
        <4>1. SUFFICES ASSUME <<u[2], u[3]>> \notin DOMAIN T PROVE FALSE
          OBVIOUS
        <4>2. C[u] = Unused
          BY <1>1, <1>3, <2>3, <4>1
        <4>3. QED
          BY <1>6, <4>2 DEF Has, Unused
      <3>2. C[u] = T[<<u[2], u[3]>>]
        BY <1>1, <1>3, <2>3, <3>1
      <3>3. PICK m \in 0 .. BottomItems - 1 :
              T[<<u[2], u[3]>>] = BottomItem(m) /\ BottomItem(m).token = 1
        BY <1>2, <3>1
      <3>4. T[<<u[2], u[3]>>].item = k
        BY <1>6, <3>2 DEF Has
      <3>5. Has(buckets, BottomSlot(m), k)
        BY <1>5, <3>3, <3>4 DEF Has
      <3>6. QED
        BY <2>3, <3>1, <3>4, <3>5
    <2>4. QED
      BY <2>1, <2>2, <2>3
  <1>7. \A u \in SlotsOf(level_size) \cup SlotsOf(level_size + 1) : u = <<u[1], u[2], u[3]>>
    BY DEF SlotsOf
  <1>8. CASE dict[k] = NoValue
    <2>1. \A u \in DOMAIN buckets : ~Has(buckets, u, k)
      BY <1>4, <1>8 DEF Row, Value, NoValue
    <2>2. \A u \in DOMAIN C : ~Has(C, u, k)
      BY <1>5, <1>6, <2>1
    <2>3. QED
      BY <1>8, <2>2 DEF Row
  <1>9. CASE dict[k] # NoValue
    <2>1. PICK s \in DOMAIN buckets :
            /\ s \in PlacesAt(KeyOf[k], level_size) /\ dict[k] \in Value
            /\ Has(buckets, s, k) /\ buckets[s].value = dict[k]
            /\ \A u \in DOMAIN buckets : Has(buckets, u, k) => u = s
      BY <1>4, <1>9 DEF Row
    <2>2. PICK l, b, i : s = <<l, b, i>> /\ l \in {0, 1}
      BY <1>3, <1>7, <2>1 DEF SlotsOf
    <2>3. CASE l = 0
      <3>1. PICK n : n = <<1, b, i>>
        OBVIOUS
      <3>2. n \in PlacesAt(KeyOf[k], level_size + 1)
        BY <1>0, <2>1, <2>2, <2>3, <3>1, TopBecomesBottom
      <3>3. n \in DOMAIN C
        BY <1>0, <1>3, <3>2, PlacesAreSlots
      <3>4. C[n] = buckets[s]
        BY <1>3, <2>2, <2>3, <3>1, <3>3
      <3>5. ASSUME NEW u \in DOMAIN C, Has(C, u, k) PROVE u = n
        <4>1. CASE u[1] = 1 /\ <<0, u[2], u[3]>> \in DOMAIN buckets
                            /\ Has(buckets, <<0, u[2], u[3]>>, k)
          <5>1. <<0, u[2], u[3]>> = <<0, b, i>>
            BY <2>1, <2>2, <2>3, <4>1
          <5>2. QED
            BY <1>3, <1>7, <3>1, <4>1, <5>1
        <4>2. ASSUME NEW m \in 0 .. BottomItems - 1, Has(buckets, BottomSlot(m), k) PROVE FALSE
          <5>1. BottomSlot(m) = s /\ BottomSlot(m)[1] = 1
            BY <1>5, <2>1, <4>2
          <5>2. QED
            BY <2>2, <2>3, <5>1
        <4>3. QED
          BY <1>6, <3>5, <4>1, <4>2
      <3>6. Has(C, n, k) /\ C[n].value = dict[k]
        BY <2>1, <3>4 DEF Has
      <3>7. QED
        BY <2>1, <3>2, <3>3, <3>5, <3>6 DEF Row
    <2>4. CASE l = 1
      <3>1. PICK m \in 0 .. BottomItems - 1 : s = BottomSlot(m)
        BY <2>2, <2>4, BottomSlots
      <3>2. BottomItem(m) = buckets[s] /\ BottomItem(m).token = 1 /\ BottomItem(m).item = k
        BY <1>5, <2>1, <3>1 DEF Has
      <3>3. PICK r \in DOMAIN T : T[r] = BottomItem(m)
        BY <1>2, <3>2
      <3>4. PICK x \in 0 .. 2 * ASSOC_NUM - 1 : r = RehashSlot(KeyOf[k], x)
        BY <1>2, <3>2, <3>3
      <3>5. PICK c \in Nat, j \in 0 .. ASSOC_NUM - 1 :
              r = <<c, j>> /\ <<0, c, j>> \in PlacesAt(KeyOf[k], level_size + 1)
        BY <1>0, <3>4, RehashSlots
      <3>6. PICK n : n = <<0, c, j>>
        OBVIOUS
      <3>7. n \in DOMAIN C
        BY <1>0, <1>3, <3>5, <3>6, PlacesAreSlots
      <3>8. C[n] = T[r]
        BY <1>1, <1>3, <3>3, <3>5, <3>6, <3>7
      <3>9. ASSUME NEW u \in DOMAIN C, Has(C, u, k) PROVE u = n
        <4>1. CASE <<0, u[2], u[3]>> \in DOMAIN buckets /\ Has(buckets, <<0, u[2], u[3]>>, k)
          BY <2>1, <2>2, <2>4, <4>1
        <4>2. CASE u[1] = 0 /\ <<u[2], u[3]>> \in DOMAIN T /\ T[<<u[2], u[3]>>].item = k
          <5>1. <<u[2], u[3]>> = r
            BY <1>2, <3>2, <3>3, <4>2
          <5>2. QED
            BY <1>3, <1>7, <3>5, <3>6, <4>2, <5>1
        <4>3. QED
          BY <1>6, <3>9, <4>1, <4>2
      <3>10. Has(C, n, k) /\ C[n].value = dict[k]
        BY <2>1, <3>2, <3>3, <3>8 DEF Has
      <3>11. n \in PlacesAt(KeyOf[k], level_size + 1)
        BY <3>5, <3>6
      <3>12. QED
        BY <2>1, <3>7, <3>9, <3>10, <3>11 DEF Row
    <2>5. QED
      BY <2>2, <2>3, <2>4
  <1>10. QED
    BY <1>8, <1>9

LEMMA ResizeTable ==
  ASSUME CallInv, DictInv, Resize
  PROVE  DictInv'
  <1>1. ASSUME NEW t \in Thread PROVE Full(t)'
    BY ResizeCalls DEF Full
  <1>2. dict' = dict /\ Rows /\ Rehash.ok
    BY DEF Resize, DictInv
  <1>3. /\ level_size' = level_size + 1
        /\ buckets' = [s \in SlotsOf(level_size + 1) |->
             IF s[1] = 1 THEN buckets[<<0, s[2], s[3]>>]
             ELSE IF <<s[2], s[3]>> \in DOMAIN Rehash.top THEN Rehash.top[<<s[2], s[3]>>]
             ELSE Unused]
    BY DEF Resize
  <1>4. ASSUME NEW i \in Item
        PROVE  Row(buckets', i, dict[i], PlacesAt(KeyOf[i], level_size + 1))
    BY <1>2, <1>3, ResizeRow
  <1>5. ASSUME NEW k PROVE Places(k)' = PlacesAt(k, level_size + 1)
    BY <1>3 DEF Places
  <1>6. Rows'
    BY <1>2, <1>4, <1>5 DEF Rows
  <1>7. QED
    BY <1>1, <1>6 DEF DictInv

LEMMA DictInvInit == Init => DictInv
  <1>1. SUFFICES ASSUME Init PROVE DictInv
    OBVIOUS
  <1>2. \A u \in DOMAIN buckets : buckets[u].token = 0
    BY <1>1 DEF Init, Unused
  <1>3. ASSUME NEW k \in Item PROVE Row(buckets, k, dict[k], Places(KeyOf[k]))
    <2>1. dict[k] = NoValue
      BY <1>1 DEF Init
    <2>2. \A u \in DOMAIN buckets : ~Has(buckets, u, k)
      BY <1>2 DEF Has
    <2>3. QED
      BY <2>1, <2>2 DEF Row
  <1>4. ASSUME NEW t \in Thread PROVE Full(t)
    BY <1>1 DEF Init, Full
  <1>5. QED
    BY <1>3, <1>4 DEF DictInv, Rows

LEMMA DictInvStep == DeletesApart /\ CallInv /\ DictInv /\ [Next]_vars => DictInv'
  <1>1. SUFFICES ASSUME DeletesApart, CallInv, DictInv, [Next]_vars PROVE DictInv'
    OBVIOUS
  <1>2. CASE Resize
    BY <1>1, <1>2, ResizeTable
  <1>3. ASSUME NEW t \in Thread, NEW i \in Item, StartInsert(t, i)
        PROVE  DictInv'
    BY <1>1, <1>3, StartTable
  <1>3a. ASSUME NEW t \in Thread, NEW o \in {"query", "update", "delete"}, NEW k \in Key,
                StartLookup(t, o, k)
         PROVE  DictInv'
    BY <1>1, <1>3a, StartLookupTable
  <1>4. ASSUME NEW t \in Thread, Step(t)
        PROVE  DictInv'
    BY <1>1, <1>4, LookupFoundTable, LookupNextTable, NotFoundTable, InsertFreeTable,
       InsertNextTable, LockingTable, MoveTable, InsertFailsTable DEF Step
  <1>5. CASE UNCHANGED vars
    <2>1. UNCHANGED <<level_size, buckets, op, key, item, pos, dict>>
      BY <1>5 DEF vars, table, locals
    <2>2. Rows'
      BY <1>1, <2>1, SameSlots DEF DictInv, Rows
    <2>3. ASSUME NEW t \in Thread PROVE Full(t)'
      <3>1. op[t] = "insert" => dict[item[t]] = NoValue
        BY <1>1 DEF DictInv, Full
      <3>2. QED
        BY <1>1, <2>1, <3>1, FullKept
    <2>4. QED
      BY <2>2, <2>3 DEF DictInv
  <1>6. QED
    BY <1>1, <1>2, <1>3, <1>3a, <1>4, <1>5 DEF Next

\* Every variable of the table and of its threads has its type, and every slot
\* that level_query, level_insert, try_movement or level_resize computes from a
\* hash is a slot of the table of the moment.
THEOREM LevelTypes == Spec => []TypeOK
  <1>1. CallInv => TypeOK
    BY DEF CallInv
  <1>2. QED
    BY <1>1, CallInvInit, CallInvStep, PTL DEF Spec

\* The table is what its calls made of it: every item that level_insert put there
\* and level_delete did not remove is in exactly one slot, one that a lookup of its
\* key visits, with its latest value.  It holds through the movements of any number
\* of threads, of keys inserted once or repeatedly, and after level_resize, if no
\* deletion runs beside an insertion: level_insert looks at the tokens of its
\* buckets, and try_movement trusts that they are still set.
THEOREM LevelTableIsDict ==
  ASSUME DeletesApart
  PROVE  Spec => []TableIsDict
  <1>1. CallInv /\ DictInv => TableIsDict
    BY CallInvSize, RowsTable DEF DictInv
  <1>2. CallInv /\ DictInv /\ [Next]_vars => DictInv'
    BY DictInvStep
  <1>3. QED
    BY <1>1, <1>2, CallInvInit, CallInvStep, DictInvInit, PTL DEF Spec


-----------------------------------------------------------------------------
(***************************************************************************)
(* A lookup that misses its key.                                           *)
(***************************************************************************)
\* In a table that was not resized every item is where its key is looked up.
InPlace ==
  level_resize = 0 =>
    \A s \in DOMAIN buckets, i \in Item : Has(buckets, s, i) => s \in Places(KeyOf[i])

\* A lookup has every steady item of its key still before it.
Ahead(t) ==
  pc[t] = "probe" /\ op[t] # "insert" =>
    \A i \in present[t] \ moved[t] :
      /\ KeyOf[i] = key[t]
      /\ \E n \in pos[t] .. 4 * ASSOC_NUM - 1 : Has(buckets, LookupSlot(key[t], n), i)
AheadInv == \A t \in Thread : Ahead(t)

LEMMA KeptInPlace ==
  ASSUME CallInv, InPlace, UNCHANGED <<level_size, level_resize>>, NEW B,
         DOMAIN B = DOMAIN buckets, buckets' = B,
         level_resize = 0 =>
           \A s \in DOMAIN buckets, i \in Item :
             Has(B, s, i) => Has(buckets, s, i) \/ s \in Places(KeyOf[i])
  PROVE  InPlace'
  <1>1. \A k : Places(k)' = Places(k)
    BY SameSlots
  <1>2. SUFFICES ASSUME level_resize = 0, NEW s \in DOMAIN buckets, NEW i \in Item, Has(B, s, i)
                 PROVE  s \in Places(KeyOf[i])
    BY <1>1 DEF InPlace
  <1>3. QED
    BY <1>2 DEF InPlace

LEMMA LookupInPlace ==
  ASSUME CallInv, InPlace, NEW t \in Thread, LookupFound(t)
  PROVE  InPlace'
  <1>1. PICK s, j : s = LookupSlot(key[t], pos[t]) /\ j = buckets[s].item
    OBVIOUS
  <1>2. /\ pc[t] = "probe" /\ op[t] \in {"query", "update", "delete"} /\ pos[t] < Lookups
        /\ UNCHANGED <<level_size, level_resize>> /\ Has(buckets, s, j)
        /\ op[t] = "query" => UNCHANGED buckets
        /\ op[t] = "update" => buckets' = [buckets EXCEPT ![s] =
                                             [token |-> 1, item |-> j, value |-> "updated"]]
        /\ op[t] = "delete" => buckets' = [buckets EXCEPT ![s].token = 0]
    BY <1>1 DEF LookupFound, Has, Put
  <1>3. s \in DOMAIN buckets
    BY <1>1, <1>2, VisitedSlots
  <1>4. PICK B : B = buckets'
    OBVIOUS
  <1>5. DOMAIN B = DOMAIN buckets /\ \A x \in DOMAIN buckets \ {s} : B[x] = buckets[x]
    BY <1>2, <1>4
  <1>6. \A i : Has(B, s, i) => Has(buckets, s, i)
    <2>1. CASE op[t] = "query"
      BY <1>2, <1>4, <2>1
    <2>2. CASE op[t] = "update"
      BY <1>2, <1>3, <1>4, <2>2 DEF Has
    <2>3. CASE op[t] = "delete"
      <3>1. buckets[s] \in Entry
        BY <1>3 DEF CallInv, TypeOK
      <3>2. B[s] = [buckets[s] EXCEPT !.token = 0]
        BY <1>2, <1>3, <1>4, <2>3
      <3>3. B[s].token = 0
        BY <3>1, <3>2 DEF Entry
      <3>4. QED
        BY <3>3 DEF Has
    <2>4. QED
      BY <1>2, <2>1, <2>2, <2>3
  <1>7. \A x \in DOMAIN buckets, i \in Item : Has(B, x, i) => Has(buckets, x, i)
    BY <1>5, <1>6 DEF Has
  <1>8. QED
    BY <1>2, <1>4, <1>5, <1>7, KeptInPlace

LEMMA InsertFreeInPlace ==
  ASSUME CallInv, InPlace, NEW t \in Thread, InsertFree(t)
  PROVE  InPlace'
  <1>1. PICK s, j, e : /\ s = InsertSlot(key[t], pos[t]) /\ j = item[t]
                       /\ e = [token |-> 1, item |-> j, value |-> "inserted"]
    OBVIOUS
  <1>2. /\ pc[t] = "probe" /\ op[t] = "insert" /\ pos[t] < 4 * ASSOC_NUM
        /\ buckets' = [buckets EXCEPT ![s] = e] /\ UNCHANGED <<level_size, level_resize>>
    BY <1>1 DEF InsertFree, Put
  <1>3. s \in DOMAIN buckets /\ KeyOf[j] = key[t] /\ key[t] \in AnyKey /\ HasSize
    BY <1>1, <1>2, VisitedSlots, CallInvSize DEF CallInv, CallOK
  <1>4. s \in Places(KeyOf[j])
    <2>1. pos[t] \in 0 .. 4 * ASSOC_NUM - 1
      BY <1>2, AssocNum, Keep
    <2>2. QED
      BY <1>1, <1>3, <2>1, InsertPlaces
  <1>5. PICK B : B = buckets'
    OBVIOUS
  <1>6. DOMAIN B = DOMAIN buckets /\ B[s] = e /\ \A x \in DOMAIN buckets \ {s} : B[x] = buckets[x]
    BY <1>2, <1>3, <1>5
  <1>7. e.item = j
    BY <1>1
  <1>8. \A x \in DOMAIN buckets, i \in Item :
          Has(B, x, i) => Has(buckets, x, i) \/ x \in Places(KeyOf[i])
    BY <1>4, <1>6, <1>7 DEF Has
  <1>9. QED
    BY <1>2, <1>5, <1>6, <1>8, KeptInPlace

LEMMA MoveInPlace ==
  ASSUME CallInv, InPlace, NEW t \in Thread, Move(t)
  PROVE  InPlace'
  <1>1. PICK s, d, j, e, x :
          /\ s = SourceSlot(key[t], source[t]) /\ d = DestSlot(s, dest[t]) /\ j = item[t]
          /\ e = [token |-> 1, item |-> j, value |-> "inserted"]
          /\ x = [token |-> 1, item |-> buckets[s].item, value |-> buckets[s].value]
    OBVIOUS
  <1>2. /\ pc[t] = "move" /\ buckets' = [buckets EXCEPT ![d] = x, ![s] = e]
        /\ UNCHANGED <<level_size, level_resize>>
    BY <1>1 DEF Move, MoveItem
  <1>3. /\ s \in DOMAIN buckets /\ s \in Places(key[t]) /\ d \in DOMAIN buckets
        /\ d \in Places(KeyOf[buckets[s].item])
    BY <1>1, <1>2, MovingSlots
  <1>4. KeyOf[j] = key[t]
    BY <1>1, <1>2 DEF CallInv, CallOK
  <1>5. PICK B : B = buckets'
    OBVIOUS
  <1>6. /\ DOMAIN B = DOMAIN buckets /\ B[s] = e /\ B[d] \in {x, e} /\ (d # s => B[d] = x)
        /\ \A y \in DOMAIN buckets \ {s, d} : B[y] = buckets[y]
    BY <1>2, <1>3, <1>5
  <1>7. e.item = j /\ x.item = buckets[s].item
    BY <1>1
  <1>8. \A y \in DOMAIN buckets, i \in Item :
          Has(B, y, i) => Has(buckets, y, i) \/ y \in Places(KeyOf[i])
    BY <1>3, <1>4, <1>6, <1>7 DEF Has
  <1>9. QED
    BY <1>2, <1>5, <1>6, <1>8, KeptInPlace

LEMMA InPlaceStep == CallInv /\ InPlace /\ [Next]_vars => InPlace'
  <1>1. SUFFICES ASSUME CallInv, InPlace, [Next]_vars PROVE InPlace'
    OBVIOUS
  <1>2. CASE Resize
    <2>1. level_resize' = level_resize + 1 /\ level_resize \in Nat
      BY <1>1, <1>2, SizeAssumption DEF Resize, CallInv, TypeOK
    <2>2. QED
      BY <2>1 DEF InPlace
  <1>3. CASE UNCHANGED <<level_size, level_resize, buckets>>
    BY <1>1, <1>3, KeptInPlace
  <1>4. ASSUME NEW t \in Thread, NEW i \in Item, StartInsert(t, i)
        PROVE  InPlace'
    BY <1>3, <1>4 DEF StartInsert, Start, table
  <1>5. ASSUME NEW t \in Thread, NEW o, NEW k, StartLookup(t, o, k)
        PROVE  InPlace'
    BY <1>3, <1>5 DEF StartLookup, Start, table
  <1>6. ASSUME NEW t \in Thread, Step(t)
        PROVE  InPlace'
    <2>1. LookupFound(t) \/ InsertFree(t) \/ Move(t) => InPlace'
      BY <1>1, LookupInPlace, InsertFreeInPlace, MoveInPlace
    <2>2. LookupNext(t) \/ NotFound(t) \/ InsertNext(t) => InPlace'
      BY <1>3 DEF LookupNext, NotFound, InsertNext, table
    <2>3. LockSource(t) \/ MoveNext(t) \/ InsertFails(t) => InPlace'
      BY <1>3 DEF LockSource, MoveNext, InsertFails, table
    <2>4. QED
      BY <1>6, <2>1, <2>2, <2>3 DEF Step
  <1>7. CASE UNCHANGED vars
    BY <1>3, <1>7 DEF vars, table
  <1>8. QED
    BY <1>1, <1>2, <1>4, <1>5, <1>6, <1>7 DEF Next

\* An item that is steady after a step of a lookup was so before it, and is where
\* it was: nothing else need be known of the step.
LEMMA SteadyKept ==
  ASSUME AheadInv, Observe, NEW u \in Thread, pc[u] = "probe", op[u] # "insert",
         NEW i \in present'[u] \ moved'[u]
  PROVE  /\ KeyOf[i] = key[u]
         /\ \E n \in pos[u] .. 4 * ASSOC_NUM - 1 :
              /\ Has(buckets, LookupSlot(key[u], n), i)
              /\ LookupSlot(key[u], n) \in DOMAIN buckets => Has(buckets', LookupSlot(key[u], n), i)
  <1>1. i \in present[u]
    BY DEF Observe
  <1>2. i \notin moved[u] /\ Holds(i)' = Holds(i)
    BY DEF Observe
  <1>3. PICK n \in pos[u] .. 4 * ASSOC_NUM - 1 : Has(buckets, LookupSlot(key[u], n), i)
    BY <1>1, <1>2 DEF AheadInv, Ahead
  <1>4. PICK s : s = LookupSlot(key[u], n)
    OBVIOUS
  <1>5. ASSUME s \in DOMAIN buckets PROVE Has(buckets', s, i)
    <2>1. s \in Holds(i)
      BY <1>3, <1>4, <1>5 DEF Holds, Has
    <2>2. s \in Holds(i)'
      BY <1>2, <2>1
    <2>3. QED
      BY <2>2 DEF Holds, Has
  <1>6. KeyOf[i] = key[u]
    BY <1>1, <1>2 DEF AheadInv, Ahead
  <1>7. QED
    BY <1>3, <1>4, <1>5, <1>6

LEMMA OthersAhead ==
  ASSUME CallInv, AheadInv, Observe, NEW t \in Thread, OneThread(t), Ahead(t)'
  PROVE  AheadInv'
  <1>1. ASSUME NEW u \in Thread, u # t PROVE Ahead(u)'
    <2>1. /\ level_size' = level_size
          /\ pc'[u] = pc[u] /\ op'[u] = op[u] /\ key'[u] = key[u] /\ pos'[u] = pos[u]
      BY <1>1 DEF OneThread
    <2>2. SUFFICES ASSUME pc[u] = "probe", op[u] # "insert", NEW i \in present'[u] \ moved'[u]
                   PROVE  /\ KeyOf[i] = key[u]
                          /\ \E n \in pos[u] .. 4 * ASSOC_NUM - 1 :
                               Has(buckets', LookupSlot(key[u], n)', i)
      BY <2>1 DEF Ahead, Has, LookupSlot, Capacity
    <2>3. PICK n \in pos[u] .. 4 * ASSOC_NUM - 1 :
            LookupSlot(key[u], n) \in DOMAIN buckets => Has(buckets', LookupSlot(key[u], n), i)
      BY <2>2, SteadyKept
    <2>4. n \in 0 .. 4 * ASSOC_NUM - 1 /\ key[u] \in AnyKey /\ HasSize
      BY AssocNum, Keep, CallInvSize
    <2>5. LookupSlot(key[u], n) \in DOMAIN buckets
      BY <2>2, <2>4, LookupPlaces, VisitedSlots
    <2>6. LookupSlot(key[u], n)' = LookupSlot(key[u], n)
      BY <2>1 DEF LookupSlot, Capacity
    <2>7. QED
      BY <2>2, <2>3, <2>5, <2>6, SteadyKept
  <1>2. QED
    BY <1>1 DEF AheadInv

LEMMA StartAhead ==
  ASSUME CallInv, InPlace, AheadInv, NEW t \in Thread,
         NEW o \in {"query", "update", "delete"}, NEW k \in Key, StartLookup(t, o, k)
  PROVE  AheadInv'
  <1>1. OneThread(t) /\ op'[t] = o /\ key'[t] = k /\ pos'[t] = 0
    BY StartLookupCalls
  <1>2. /\ UNCHANGED <<buckets, level_size>> /\ Observe /\ level_resize = 0
    BY DEF StartLookup, Start, HostAllows, table
  <1>3. k \in AnyKey /\ HasSize
    BY CallInvSize DEF AnyKey
  <1>4. ASSUME NEW i \in present'[t]
        PROVE  /\ KeyOf[i] = k
               /\ \E n \in 0 .. 4 * ASSOC_NUM - 1 : Has(buckets', LookupSlot(k, n)', i)
    <2>1. i \in Sought(t)' /\ Holds(i)' # {}
      BY <1>2 DEF Observe
    <2>2. i \in Item /\ KeyOf[i] = k
      BY <1>1, <2>1 DEF Sought
    <2>3. PICK s \in DOMAIN buckets : Has(buckets, s, i)
      BY <1>2, <2>1 DEF Holds, Has
    <2>4. s \in Places(k)
      BY <1>2, <2>2, <2>3 DEF InPlace
    <2>5. PICK n \in 0 .. 4 * ASSOC_NUM - 1 : s = LookupSlot(k, n)
      BY <1>3, <2>4, LookupPlaces
    <2>6. LookupSlot(k, n)' = LookupSlot(k, n)
      BY <1>2 DEF LookupSlot, Capacity
    <2>7. QED
      BY <1>2, <2>2, <2>3, <2>5, <2>6
  <1>5. Ahead(t)'
    BY <1>1, <1>4 DEF Ahead, Has, LookupSlot, Capacity
  <1>6. QED
    BY <1>1, <1>2, <1>5, OthersAhead

LEMMA LookupNextAhead ==
  ASSUME CallInv, AheadInv, NEW t \in Thread, LookupNext(t)
  PROVE  AheadInv'
  <1>1. /\ OneThread(t) /\ op'[t] = op[t] /\ key'[t] = key[t] /\ pos'[t] = pos[t] + 1
        /\ level_size' = level_size
    BY LookupNextCalls DEF OneThread
  <1>2. /\ UNCHANGED buckets /\ Observe /\ pc[t] = "probe" /\ op[t] # "insert"
        /\ ~(/\ buckets[LookupSlot(key[t], pos[t])].token = 1
             /\ KeyOf[buckets[LookupSlot(key[t], pos[t])].item] = key[t])
    BY DEF LookupNext, table
  <1>3. pos[t] \in Nat
    BY Keep, AssocNum
  <1>4. ASSUME NEW i \in present'[t] \ moved'[t]
        PROVE  /\ KeyOf[i] = key[t]
               /\ \E n \in pos[t] + 1 .. 4 * ASSOC_NUM - 1 : Has(buckets', LookupSlot(key[t], n)', i)
    <2>1. PICK n \in pos[t] .. 4 * ASSOC_NUM - 1 : Has(buckets, LookupSlot(key[t], n), i)
      BY <1>2, SteadyKept
    <2>2. KeyOf[i] = key[t]
      BY <1>2, SteadyKept
    <2>3. n # pos[t]
      BY <1>2, <2>1, <2>2 DEF Has
    <2>4. n \in pos[t] + 1 .. 4 * ASSOC_NUM - 1
      BY <1>3, <2>1, <2>3
    <2>5. LookupSlot(key[t], n)' = LookupSlot(key[t], n)
      BY <1>1 DEF LookupSlot, Capacity
    <2>6. QED
      BY <1>2, <2>1, <2>2, <2>4, <2>5
  <1>5. Ahead(t)'
    BY <1>1, <1>4 DEF Ahead, Has, LookupSlot, Capacity
  <1>6. QED
    BY <1>1, <1>2, <1>5, OthersAhead

LEMMA AheadInvStep == CallInv /\ InPlace /\ AheadInv /\ [Next]_vars => AheadInv'
  <1>1. SUFFICES ASSUME CallInv, InPlace, AheadInv, [Next]_vars PROVE AheadInv'
    OBVIOUS
  <1>2. CASE Resize
    BY <1>1, <1>2, ResizeCalls DEF AheadInv, Ahead
  <1>3. ASSUME NEW t \in Thread, NEW i \in Item, StartInsert(t, i)
        PROVE  AheadInv'
    <2>1. OneThread(t) /\ op'[t] = "insert" /\ Observe
      BY <1>1, <1>3, StartInsertCalls DEF StartInsert, Start
    <2>2. Ahead(t)'
      BY <2>1 DEF Ahead
    <2>3. QED
      BY <1>1, <2>1, <2>2, OthersAhead
  <1>4. ASSUME NEW t \in Thread, NEW o \in {"query", "update", "delete"}, NEW k \in Key,
               StartLookup(t, o, k)
        PROVE  AheadInv'
    BY <1>1, <1>4, StartAhead
  <1>5. ASSUME NEW t \in Thread, Step(t)
        PROVE  AheadInv'
    <2>1. CASE LookupNext(t)
      BY <1>1, <2>1, LookupNextAhead
    <2>2. CASE LookupFound(t) \/ NotFound(t) \/ InsertFree(t) \/ Move(t) \/ InsertFails(t)
      <3>1. OneThread(t) /\ pc'[t] = "idle"
        BY <1>1, <2>2, LookupFoundCalls, NotFoundCalls, InsertFreeCalls, MoveCalls, InsertFailsCalls
      <3>2. Observe
        BY <2>2 DEF LookupFound, NotFound, InsertFree, Move, InsertFails
      <3>3. Ahead(t)'
        BY <3>1 DEF Ahead
      <3>4. QED
        BY <1>1, <3>1, <3>2, <3>3, OthersAhead
    <2>3. CASE InsertNext(t) \/ LockSource(t) \/ MoveNext(t)
      <3>1. op[t] = "insert"
        <4>1. InsertNext(t) => op[t] = "insert"
          BY DEF InsertNext
        <4>2. LockSource(t) \/ MoveNext(t) => pc[t] \in {"lock", "move"}
          BY DEF LockSource, MoveNext
        <4>3. CallOK(t)
          BY <1>1 DEF CallInv
        <4>4. QED
          BY <2>3, <4>1, <4>2, <4>3 DEF CallOK
      <3>2. OneThread(t) /\ op'[t] = op[t]
        BY <1>1, <2>3, InsertNextCalls, LockSourceCalls, MoveNextCalls
      <3>3. Observe
        BY <2>3 DEF InsertNext, LockSource, MoveNext
      <3>4. Ahead(t)'
        BY <3>1, <3>2 DEF Ahead
      <3>5. QED
        BY <1>1, <3>2, <3>3, <3>4, OthersAhead
    <2>4. QED
      BY <1>5, <2>1, <2>2, <2>3 DEF Step
  <1>6. CASE UNCHANGED vars
    <2>1. UNCHANGED <<level_size, buckets, pc, op, key, pos, present, moved>>
      BY <1>6 DEF vars, table, locals
    <2>2. QED
      BY <1>1, <2>1 DEF AheadInv, Ahead, Has, LookupSlot, Capacity
  <1>7. QED
    BY <1>1, <1>2, <1>3, <1>4, <1>5, <1>6 DEF Next

\* level_query, level_update and level_delete miss only what moves: whatever runs
\* beside them, for every hash function and every number of threads, items, keys
\* and slots, a key is reported missing only if each of its items that was in the
\* table all through the call was moved by try_movement meanwhile.
THEOREM LevelSteadyIsFound == Spec => []SteadyIsFound
  <1>1. CallInv /\ AheadInv => SteadyIsFound
    <2>1. SUFFICES ASSUME AheadInv, NEW t \in Thread, Missing(t), NEW i \in present[t] \ moved[t]
                   PROVE  FALSE
      BY DEF SteadyIsFound
    <2>2. pc[t] = "probe" /\ op[t] # "insert" /\ pos[t] = 4 * ASSOC_NUM
      BY <2>1 DEF Missing, Lookups
    <2>3. PICK n \in pos[t] .. 4 * ASSOC_NUM - 1 : TRUE
      BY <2>1, <2>2 DEF AheadInv, Ahead
    <2>4. QED
      BY <2>2, <2>3, AssocNum
  <1>2. Init => InPlace /\ AheadInv
    BY DEF Init, InPlace, AheadInv, Ahead, Has, Unused
  <1>3. QED
    BY <1>1, <1>2, InPlaceStep, AheadInvStep, CallInvInit, CallInvStep, PTL DEF Spec
=============================================================================
