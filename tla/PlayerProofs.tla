---------------------------- MODULE PlayerProofs ----------------------------
(***************************************************************************)
(* What is proved of the waiting list, of a player's walk and of trades.   *)
(* The three do not touch each other's state, and every theorem is about   *)
(* the specification of one of them.                                       *)
(***************************************************************************)
EXTENDS WaitList, Walk, Trade, FiniteSetTheorems, SequenceTheorems, TLAPS

-----------------------------------------------------------------------------
(* The waiting list.                                                       *)

(* r is q without some of its entries.                                     *)
Thins(g, r, q) ==
    /\ g \in [1 .. Len(r) -> 1 .. Len(q)]
    /\ \A i \in 1 .. Len(r) : r[i] = q[g[i]]
    /\ \A i, j \in 1 .. Len(r) : i < j => g[i] < g[j]

(* The places that are counted are 1, 2, ... in the order of the list.     *)
LEMMA PlacesInOrder ==
  ASSUME NEW n \in Nat, NEW S \in SUBSET (1 .. n), NEW place,
         place = [i \in S |-> Cardinality({j \in S : j <= i})]
  PROVE  /\ IsFiniteSet(S) /\ Cardinality(S) \in Nat
         /\ place \in Surjection(S, 1 .. Cardinality(S))
         /\ \A i, j \in S : i < j <=> place[i] < place[j]
         /\ \A i, j \in S : place[i] = place[j] => i = j
  <1> DEFINE m == Cardinality(S)
             To(i) == {j \in S : j <= i}
  <1>1. IsFiniteSet(1 .. n)
    BY FS_Interval
  <1>2. IsFiniteSet(S) /\ m \in Nat
    BY <1>1, FS_Subset, FS_CardinalityType
  <1>3. \A i \in S : IsFiniteSet(To(i)) /\ Cardinality(To(i)) \in 1 .. m
    <2>1. SUFFICES ASSUME NEW i \in S
                   PROVE  IsFiniteSet(To(i)) /\ Cardinality(To(i)) \in 1 .. m
      OBVIOUS
    <2>2. To(i) \in SUBSET S /\ i \in To(i)
      OBVIOUS
    <2>3. IsFiniteSet(To(i)) /\ Cardinality(To(i)) <= m
      BY <1>2, <2>2, FS_Subset
    <2>4. Cardinality(To(i)) \in Nat
      BY <2>3, FS_CardinalityType
    <2>5. Cardinality(To(i)) # 0
      BY <2>2, <2>3, FS_EmptySet
    <2> HIDE DEF To, m
    <2>6. QED BY <1>2, <2>3, <2>4, <2>5
  <1>4. \A i, j \in S : i < j => Cardinality(To(i)) < Cardinality(To(j))
    <2>1. SUFFICES ASSUME NEW i \in S, NEW j \in S, i < j
                   PROVE  Cardinality(To(i)) < Cardinality(To(j))
      OBVIOUS
    <2>2. i \in Int /\ j \in Int /\ \A k \in S : k \in Int
      OBVIOUS
    <2>3. To(i) \in SUBSET To(j) /\ j \in To(j) /\ j \notin To(i)
      <3>1. /\ \A k \in S : k <= i => k <= j
            /\ j <= j /\ ~(j <= i)
        BY <2>1, <2>2
      <3>2. QED BY <3>1
    <2>4. /\ Cardinality(To(i)) <= Cardinality(To(j))
          /\ Cardinality(To(i)) = Cardinality(To(j)) => To(i) = To(j)
      BY <1>3, <2>3, FS_Subset
    <2>5. Cardinality(To(i)) \in 1 .. m /\ Cardinality(To(j)) \in 1 .. m
      BY <1>3
    <2> HIDE DEF To, m
    <2>6. QED BY <1>2, <2>3, <2>4, <2>5
  <1>5. \A i \in S : place[i] = Cardinality(To(i)) /\ place[i] \in 1 .. m
    BY <1>3
  <1> HIDE DEF To, m
  <1>6. \A i, j \in S : i < j => place[i] < place[j]
    BY <1>4, <1>5
  <1>7. \A i, j \in S : i \in Int /\ j \in Int /\ place[i] \in Int /\ place[j] \in Int
    BY <1>5
  <1>8. \A i, j \in S : i < j <=> place[i] < place[j]
    BY <1>6, <1>7
  <1>9. \A i, j \in S : place[i] = place[j] => i = j
    BY <1>6, <1>7
  <1>10. place \in [S -> 1 .. m]
    BY <1>5
  <1>11. place \in Injection(S, 1 .. m)
    BY <1>9, <1>10 DEF Injection, IsInjective
  <1>12. IsFiniteSet(1 .. m) /\ Cardinality(1 .. m) = m
    BY <1>2, FS_Interval
  <1>13. place \in Surjection(S, 1 .. m)
    BY <1>11, <1>12, FS_Injection DEF m
  <1>14. QED BY <1>2, <1>8, <1>9, <1>13 DEF m

(* cleanupList keeps the order of the list.                                *)
LEMMA KeptThins ==
  ASSUME NEW list \in Seq(Wait)
  PROVE  Kept(list) \in Seq(Wait) /\ \E g : Thins(g, Kept(list), list)
  <1>0. PICK kept : kept = {i \in 1 .. Len(list) : ~TimedOut(list[i])}
    OBVIOUS
  <1> DEFINE m == Cardinality(kept)
  <1>1. PICK place : place = [i \in kept |-> Cardinality({j \in kept : j <= i})]
    OBVIOUS
  <1>2. Len(list) \in Nat /\ kept \in SUBSET (1 .. Len(list))
    BY <1>0
  <1>3. /\ m \in Nat
        /\ place \in Surjection(kept, 1 .. m)
        /\ \A i, j \in kept : i < j <=> place[i] < place[j]
        /\ \A i, j \in kept : place[i] = place[j] => i = j
    BY <1>1, <1>2, PlacesInOrder
  <1>4. Kept(list) = [n \in 1 .. m |->
                        list[CHOOSE i \in kept : Cardinality({j \in kept : j <= i}) = n]]
    BY <1>0 DEF Kept
  <1> HIDE DEF m
  <1>5. PICK g : g = [n \in 1 .. m |->
                        CHOOSE i \in kept : Cardinality({j \in kept : j <= i}) = n]
    OBVIOUS
  <1>6. \A n \in 1 .. m : g[n] \in kept /\ place[g[n]] = n
    <2>1. SUFFICES ASSUME NEW n \in 1 .. m PROVE g[n] \in kept /\ place[g[n]] = n
      OBVIOUS
    <2>2. PICK i \in kept : place[i] = n
      BY <1>3 DEF Surjection
    <2>3. Cardinality({j \in kept : j <= i}) = n
      BY <1>1, <2>2
    <2>4. g[n] = CHOOSE k \in kept : Cardinality({j \in kept : j <= k}) = n
      BY <1>5
    <2>5. g[n] \in kept /\ Cardinality({j \in kept : j <= g[n]}) = n
      BY <2>3, <2>4
    <2>6. QED BY <1>1, <2>5
  <1>7. g \in [1 .. m -> 1 .. Len(list)]
    BY <1>2, <1>5, <1>6
  <1>8. Kept(list) = [n \in 1 .. m |-> list[g[n]]]
    BY <1>4, <1>5
  <1>9. \A i, j \in 1 .. m : i < j => g[i] < g[j]
    BY <1>3, <1>6
  <1>10. Kept(list) \in Seq(Wait) /\ Len(Kept(list)) = m
    BY <1>3, <1>7, <1>8
  <1>11. Thins(g, Kept(list), list)
    BY <1>7, <1>8, <1>9, <1>10 DEF Thins
  <1>12. QED BY <1>10, <1>11

(* Both lists together.                                                    *)
LEMMA QueueParts ==
  ASSUME NEW first \in Seq(Wait), NEW second \in Seq(Wait)
  PROVE  /\ Queue(first, second) \in Seq(Clients)
         /\ Len(Queue(first, second)) = Len(first) + Len(second)
         /\ \A i \in 1 .. Len(first) + Len(second) :
              Queue(first, second)[i] = IF i <= Len(first) THEN first[i].client
                                        ELSE second[i - Len(first)].client
  <1>1. Len(first) \in Nat /\ Len(second) \in Nat
    OBVIOUS
  <1>2. \A i \in 1 .. Len(first) + Len(second) :
          (first \o second)[i] = IF i <= Len(first) THEN first[i] ELSE second[i - Len(first)]
    BY ConcatProperties
  <1>3. \A i \in 1 .. Len(first) + Len(second) :
          Queue(first, second)[i] = (first \o second)[i].client
    BY DEF Queue
  <1>4. \A i \in 1 .. Len(first) + Len(second) :
          Queue(first, second)[i] = IF i <= Len(first) THEN first[i].client
                                    ELSE second[i - Len(first)].client
    BY <1>2, <1>3
  <1>5. \A i \in 1 .. Len(first) + Len(second) : Queue(first, second)[i] \in Clients
    <2>1. SUFFICES ASSUME NEW i \in 1 .. Len(first) + Len(second)
                   PROVE  Queue(first, second)[i] \in Clients
      OBVIOUS
    <2>2. CASE i <= Len(first)
      <3>1. first[i] \in Wait
        BY <1>1, <2>2
      <3>2. QED BY <1>4, <2>2, <3>1 DEF Wait
    <2>3. CASE ~(i <= Len(first))
      <3>1. i - Len(first) \in 1 .. Len(second)
        BY <1>1, <2>3
      <3>2. second[i - Len(first)] \in Wait
        BY <3>1
      <3>3. QED BY <1>4, <2>3, <3>2 DEF Wait
    <2>4. QED BY <2>2, <2>3
  <1>6. Queue(first, second) = [i \in 1 .. Len(first) + Len(second) |-> Queue(first, second)[i]]
    BY DEF Queue
  <1>7. Queue(first, second) \in [1 .. Len(first) + Len(second) -> Clients]
    BY <1>5, <1>6
  <1>8. Len(first) + Len(second) \in Nat
    BY <1>1
  <1>9. Queue(first, second) \in Seq(Clients)
          /\ Len(Queue(first, second)) = Len(first) + Len(second)
    BY <1>7, <1>8
  <1>10. QED BY <1>4, <1>9

(* So cleaning both lists keeps the order of the whole queue.              *)
LEMMA QueueThins ==
  ASSUME NEW p \in Seq(Wait), NEW q \in Seq(Wait), NEW first \in Seq(Wait), NEW second \in Seq(Wait),
         NEW f, NEW g, Thins(f, first, p), Thins(g, second, q)
  PROVE  \E h : Thins(h, Queue(first, second), Queue(p, q))
  <1> DEFINE a == Len(first)
             b == Len(second)
             c == Len(p)
             d == Len(q)
  <1>1. a \in Nat /\ b \in Nat /\ c \in Nat /\ d \in Nat
    OBVIOUS
  <1>2. /\ f \in [1 .. a -> 1 .. c] /\ \A i \in 1 .. a : first[i] = p[f[i]]
        /\ \A i, j \in 1 .. a : i < j => f[i] < f[j]
        /\ g \in [1 .. b -> 1 .. d] /\ \A i \in 1 .. b : second[i] = q[g[i]]
        /\ \A i, j \in 1 .. b : i < j => g[i] < g[j]
    BY DEF Thins
  <1>3. /\ Len(Queue(first, second)) = a + b /\ Len(Queue(p, q)) = c + d
        /\ \A i \in 1 .. a + b : Queue(first, second)[i] =
              IF i <= a THEN first[i].client ELSE second[i - a].client
        /\ \A i \in 1 .. c + d : Queue(p, q)[i] =
              IF i <= c THEN p[i].client ELSE q[i - c].client
    BY QueueParts
  <1>4. PICK h : h = [i \in 1 .. a + b |-> IF i <= a THEN f[i] ELSE c + g[i - a]]
    OBVIOUS
  <1> HIDE DEF a, b, c, d
  <1>5. \A i \in 1 .. a + b : /\ i <= a => i \in 1 .. a /\ h[i] = f[i] /\ f[i] \in 1 .. c
                              /\ ~(i <= a) => /\ i - a \in 1 .. b /\ h[i] = c + g[i - a]
                                              /\ g[i - a] \in 1 .. d
    BY <1>1, <1>2, <1>4
  <1>6. \A i \in 1 .. a + b : h[i] \in 1 .. c + d
    <2>1. SUFFICES ASSUME NEW i \in 1 .. a + b PROVE h[i] \in 1 .. c + d
      OBVIOUS
    <2>2. CASE i <= a
      <3>1. h[i] \in 1 .. c
        BY <1>5, <2>2
      <3>2. QED BY <1>1, <3>1
    <2>3. CASE ~(i <= a)
      <3>1. PICK k \in 1 .. d : h[i] = c + k
        BY <1>5, <2>3
      <3>2. QED BY <1>1, <3>1
    <2>4. QED BY <2>2, <2>3
  <1>7. \A i \in 1 .. a + b : Queue(first, second)[i] = Queue(p, q)[h[i]]
    <2>1. SUFFICES ASSUME NEW i \in 1 .. a + b
                   PROVE  Queue(first, second)[i] = Queue(p, q)[h[i]]
      OBVIOUS
    <2>2. CASE i <= a
      <3>1. h[i] = f[i] /\ f[i] <= c /\ i \in 1 .. a /\ f[i] \in 1 .. c + d
        BY <1>1, <1>5, <2>2
      <3>2. QED BY <1>2, <1>3, <2>2, <3>1
    <2>3. CASE ~(i <= a)
      <3>1. /\ h[i] = c + g[i - a] /\ ~(h[i] <= c) /\ h[i] - c = g[i - a]
            /\ i - a \in 1 .. b /\ h[i] \in 1 .. c + d
        BY <1>1, <1>5, <2>3
      <3>2. PICK k \in 1 .. b : k = i - a
        BY <3>1
      <3>3. Queue(first, second)[i] = second[k].client /\ second[k] = q[g[k]]
        BY <1>2, <1>3, <2>3, <3>2
      <3>4. Queue(p, q)[h[i]] = q[h[i] - c].client /\ h[i] - c = g[k]
        BY <1>3, <3>1, <3>2
      <3>5. QED BY <3>3, <3>4
    <2>4. QED BY <2>2, <2>3
  <1>8. \A i, j \in 1 .. a + b : i < j => h[i] < h[j]
    <2>1. SUFFICES ASSUME NEW i \in 1 .. a + b, NEW j \in 1 .. a + b, i < j
                   PROVE  h[i] < h[j]
      OBVIOUS
    <2>2. CASE j <= a
      <3>1. i <= a
        BY <1>1, <2>1, <2>2
      <3>2. i \in 1 .. a /\ j \in 1 .. a /\ h[i] = f[i] /\ h[j] = f[j]
        BY <1>5, <2>2, <3>1
      <3>3. QED BY <1>2, <2>1, <3>2
    <2>3. CASE i <= a /\ ~(j <= a)
      <3>1. h[i] \in 1 .. c
        BY <1>5, <2>3
      <3>2. PICK k \in 1 .. d : h[j] = c + k
        BY <1>5, <2>3
      <3>3. QED BY <1>1, <3>1, <3>2
    <2>4. CASE ~(i <= a) /\ ~(j <= a)
      <3>1. /\ i - a \in 1 .. b /\ j - a \in 1 .. b /\ i - a < j - a
            /\ g[i - a] \in 1 .. d /\ g[j - a] \in 1 .. d
            /\ h[i] = c + g[i - a] /\ h[j] = c + g[j - a]
        BY <1>1, <1>5, <2>1, <2>4
      <3>2. g[i - a] < g[j - a]
        BY <1>2, <3>1
      <3>3. QED BY <1>1, <3>1, <3>2
    <2>5. QED BY <1>1, <2>1, <2>2, <2>3, <2>4
  <1>9. h \in [1 .. a + b -> 1 .. c + d]
    BY <1>4, <1>6
  <1>10. QED BY <1>3, <1>7, <1>8, <1>9 DEF Thins

-----------------------------------------------------------------------------
(* SequencesExt!RemoveAt.                                                  *)
LEMMA RemoveAtParts ==
  ASSUME NEW list \in Seq(Wait), NEW k \in 1 .. Len(list)
  PROVE  /\ RemoveAt(list, k) \in Seq(Wait)
         /\ Len(RemoveAt(list, k)) = Len(list) - 1
         /\ \A i \in 1 .. Len(list) - 1 :
              RemoveAt(list, k)[i] = IF i < k THEN list[i] ELSE list[i + 1]
  <1> DEFINE n == Len(list)
             a == SubSeq(list, 1, k - 1)
             b == SubSeq(list, k + 1, n)
  <1>1. n \in Nat /\ k \in 1 .. n
    OBVIOUS
  <1>2. a \in Seq(Wait) /\ Len(a) = k - 1 /\ \A i \in 1 .. k - 1 : a[i] = list[i]
    <2>1. \A i \in 1 .. k - 1 : list[i] \in Wait /\ i \in 1 .. n
      BY <1>1
    <2>2. QED BY <1>1, <2>1
  <1>3. b \in Seq(Wait) /\ Len(b) = n - k /\ \A i \in 1 .. n - k : b[i] = list[k + i]
    <2>1. \A i \in k + 1 .. n : list[i] \in Wait
      BY <1>1
    <2>2. QED BY <1>1, <2>1
  <1>4. RemoveAt(list, k) = a \o b
    BY DEF RemoveAt
  <1> HIDE DEF n, a, b
  <1>5. /\ a \o b \in Seq(Wait) /\ Len(a \o b) = n - 1
        /\ \A i \in 1 .. n - 1 : (a \o b)[i] = IF i <= k - 1 THEN a[i] ELSE b[i - (k - 1)]
    <2>1. /\ a \o b \in Seq(Wait) /\ Len(a \o b) = Len(a) + Len(b)
          /\ \A i \in 1 .. Len(a) + Len(b) :
               (a \o b)[i] = IF i <= Len(a) THEN a[i] ELSE b[i - Len(a)]
      BY <1>2, <1>3, ConcatProperties
    <2>2. Len(a) + Len(b) = n - 1
      BY <1>1, <1>2, <1>3
    <2>3. QED BY <1>2, <2>1, <2>2
  <1>6. \A i \in 1 .. n - 1 : (a \o b)[i] = IF i < k THEN list[i] ELSE list[i + 1]
    <2>1. SUFFICES ASSUME NEW i \in 1 .. n - 1
                   PROVE  (a \o b)[i] = IF i < k THEN list[i] ELSE list[i + 1]
      OBVIOUS
    <2>2. CASE i < k
      BY <1>1, <1>2, <1>5, <2>2
    <2>3. CASE ~(i < k)
      <3>1. i - (k - 1) \in 1 .. n - k /\ k + (i - (k - 1)) = i + 1 /\ ~(i <= k - 1)
        BY <1>1, <2>3
      <3>2. QED BY <1>3, <1>5, <2>3, <3>1
    <2>4. QED BY <2>2, <2>3
  <1>7. QED BY <1>4, <1>5, <1>6 DEF n

(* The queue t is r without its entry at slot.                             *)
Leaves(t, r, slot) ==
    /\ Len(t) = Len(r) - 1
    /\ \A i \in 1 .. Len(t) : t[i] = IF i < slot THEN r[i] ELSE r[i + 1]

(* The queue t is r with c put in at slot.                                 *)
Joins(t, r, slot, c) ==
    /\ Len(t) = Len(r) + 1
    /\ \A i \in 1 .. Len(t) : t[i] = IF i < slot THEN r[i] ELSE IF i = slot THEN c ELSE r[i - 1]

(* A client that is let in from the list leaves its place, the others keep *)
(* theirs.                                                                 *)
LEMMA LoginFromListLeaves ==
  ASSUME NEW c, NEW first \in Seq(Wait), NEW second \in Seq(Wait),
         NEW slot \in 1 .. Len(first) + Len(second),
         LoginFromList(c, first, second, slot)
  PROVE  /\ priorityWaitList' \in Seq(Wait) /\ waitList' \in Seq(Wait)
         /\ Leaves(Waiting', Queue(first, second), slot)
  <1> DEFINE a == Len(first)
             b == Len(second)
             r == Queue(first, second)
  <1>1. a \in Nat /\ b \in Nat /\ slot \in 1 .. a + b
    OBVIOUS
  <1>2. Waiting' = Queue(priorityWaitList', waitList')
    BY DEF Waiting
  <1>3. Len(r) = a + b /\ \A i \in 1 .. a + b : r[i] = IF i <= a THEN first[i].client
                                                     ELSE second[i - a].client
    BY QueueParts
  <1>4. CASE /\ slot <= a /\ priorityWaitList' = RemoveAt(first, slot) /\ waitList' = second
    <2>1. slot \in 1 .. a
      BY <1>1, <1>4
    <2>2. /\ priorityWaitList' \in Seq(Wait) /\ Len(priorityWaitList') = a - 1
          /\ \A i \in 1 .. a - 1 :
               priorityWaitList'[i] = IF i < slot THEN first[i] ELSE first[i + 1]
      BY <1>4, <2>1, RemoveAtParts
    <2>3. /\ Len(Waiting') = (a - 1) + b
          /\ \A i \in 1 .. (a - 1) + b :
               Waiting'[i] = IF i <= a - 1 THEN priorityWaitList'[i].client
                             ELSE second[i - (a - 1)].client
      <3>1. PICK p \in Seq(Wait) : p = priorityWaitList' /\ Len(p) = a - 1
        BY <2>2
      <3>2. /\ Len(Queue(p, second)) = Len(p) + Len(second)
            /\ \A i \in 1 .. Len(p) + Len(second) :
                 Queue(p, second)[i] = IF i <= Len(p) THEN p[i].client
                                       ELSE second[i - Len(p)].client
        BY QueueParts
      <3>3. Waiting' = Queue(p, second)
        BY <1>2, <1>4, <3>1
      <3>4. QED BY <3>1, <3>2, <3>3
    <2> HIDE DEF a, b, r
    <2>4. Len(Waiting') = Len(r) - 1
      BY <1>1, <1>3, <2>3
    <2>5. ASSUME NEW i \in 1 .. Len(Waiting')
          PROVE  Waiting'[i] = IF i < slot THEN r[i] ELSE r[i + 1]
      <3>1. i \in 1 .. (a - 1) + b /\ i \in 1 .. a + b /\ i + 1 \in 1 .. a + b
        BY <1>1, <2>3
      <3>2. CASE i <= a - 1
        <4>1. i \in 1 .. a - 1 /\ i <= a /\ i + 1 <= a
          BY <1>1, <3>1, <3>2
        <4>2. QED BY <1>3, <2>2, <2>3, <3>1, <3>2, <4>1
      <3>3. CASE ~(i <= a - 1)
        <4>1. i - (a - 1) = (i + 1) - a /\ ~(i + 1 <= a) /\ ~(i < slot)
          BY <1>1, <2>1, <3>1, <3>3
        <4>2. QED BY <1>3, <2>3, <3>1, <3>3, <4>1
      <3>4. QED BY <3>2, <3>3
    <2>6. QED BY <1>4, <2>2, <2>4, <2>5 DEF Leaves, r
  <1>5. CASE /\ slot > a /\ priorityWaitList' = first /\ waitList' = RemoveAt(second, slot - a)
    <2>1. slot - a \in 1 .. b
      BY <1>1, <1>5
    <2>2. /\ waitList' \in Seq(Wait) /\ Len(waitList') = b - 1
          /\ \A i \in 1 .. b - 1 :
               waitList'[i] = IF i < slot - a THEN second[i] ELSE second[i + 1]
      BY <1>5, <2>1, RemoveAtParts
    <2>3. /\ Len(Waiting') = a + (b - 1)
          /\ \A i \in 1 .. a + (b - 1) :
               Waiting'[i] = IF i <= a THEN first[i].client ELSE waitList'[i - a].client
      BY <1>2, <1>5, <2>2, QueueParts
    <2> HIDE DEF a, b, r
    <2>4. Len(Waiting') = Len(r) - 1
      BY <1>1, <1>3, <2>3
    <2>5. ASSUME NEW i \in 1 .. Len(Waiting')
          PROVE  Waiting'[i] = IF i < slot THEN r[i] ELSE r[i + 1]
      <3>1. i \in 1 .. a + (b - 1) /\ i \in 1 .. a + b /\ i + 1 \in 1 .. a + b
        BY <1>1, <2>3
      <3>2. CASE i <= a
        <4>1. i < slot
          BY <1>1, <1>5, <3>1, <3>2
        <4>2. QED BY <1>3, <2>3, <3>1, <3>2, <4>1
      <3>3. CASE ~(i <= a)
        <4>1. /\ i - a \in 1 .. b - 1 /\ (i - a) + 1 = (i + 1) - a
              /\ ~(i + 1 <= a) /\ (i - a < slot - a <=> i < slot)
          BY <1>1, <3>1, <3>3
        <4>2. QED BY <1>3, <2>2, <2>3, <3>1, <3>3, <4>1
      <3>4. QED BY <3>2, <3>3
    <2>6. QED BY <1>5, <2>2, <2>4, <2>5 DEF Leaves, r
  <1>6. QED BY <1>4, <1>5 DEF LoginFromList

(* The times of the list are numbers.                                      *)
LEMMA GetTimeoutNat == ASSUME NEW slot \in Nat PROVE GetTimeout(slot) \in Nat
  <1>1. GetTime(slot) \in {5, 10, 20, 60, 120}
    BY DEF GetTime
  <1>2. QED BY <1>1 DEF GetTimeout

(* A client that has to wait on keeps its place; only its time is new.     *)
LEMMA WaitLongerSame ==
  ASSUME WaitListConstants, now \in Nat,
         NEW first \in Seq(Wait), NEW second \in Seq(Wait),
         NEW slot \in 1 .. Len(first) + Len(second),
         WaitLonger(first, second, slot)
  PROVE  /\ priorityWaitList' \in Seq(Wait) /\ waitList' \in Seq(Wait)
         /\ Waiting' = Queue(first, second)
  <1> DEFINE a == Len(first)
             b == Len(second)
             r == Queue(first, second)
  <1>1. a \in Nat /\ b \in Nat /\ slot \in 1 .. a + b
    OBVIOUS
  <1>2. Waiting' = Queue(priorityWaitList', waitList')
    BY DEF Waiting
  <1>3. /\ r \in Seq(Clients) /\ Len(r) = a + b
        /\ \A i \in 1 .. a + b : r[i] = IF i <= a THEN first[i].client ELSE second[i - a].client
    BY QueueParts
  <1>4. PICK entry : entry = [timeout |-> now + GetTimeout(slot), client |-> r[slot]]
    OBVIOUS
  <1>5. entry \in Wait /\ entry.client = r[slot]
    <2>1. GetTimeout(slot) \in Nat
      BY <1>1, GetTimeoutNat
    <2>2. now + GetTimeout(slot) \in Nat /\ r[slot] \in Clients
      BY <1>1, <1>3, <2>1
    <2>3. QED BY <1>4, <2>2 DEF Wait
  <1>6. \/ /\ slot <= a
           /\ priorityWaitList' = [first EXCEPT ![slot] = entry]
           /\ waitList' = second
        \/ /\ slot > a
           /\ priorityWaitList' = first
           /\ waitList' = [second EXCEPT ![slot - a] = entry]
    BY <1>4 DEF WaitLonger
  <1>7. PICK p, q : p = priorityWaitList' /\ q = waitList'
    OBVIOUS
  <1>8. /\ p \in Seq(Wait) /\ q \in Seq(Wait) /\ Len(p) = a /\ Len(q) = b
        /\ \A i \in 1 .. a : p[i] = IF i = slot THEN entry ELSE first[i]
        /\ \A i \in 1 .. b : q[i] = IF i = slot - a THEN entry ELSE second[i]
    <2>1. CASE slot <= a
      <3>1. p = [first EXCEPT ![slot] = entry] /\ q = second /\ slot \in 1 .. a
        BY <1>1, <1>6, <1>7, <2>1
      <3>2. p \in Seq(Wait) /\ Len(p) = a /\ \A i \in 1 .. a : p[i] = IF i = slot THEN entry ELSE first[i]
        BY <1>5, <3>1, ExceptSeq
      <3>3. \A i \in 1 .. b : i # slot - a
        BY <1>1, <3>1
      <3>4. QED BY <3>1, <3>2, <3>3
    <2>2. CASE ~(slot <= a)
      <3>1. p = first /\ q = [second EXCEPT ![slot - a] = entry] /\ slot - a \in 1 .. b
        BY <1>1, <1>6, <1>7, <2>2
      <3>2. q \in Seq(Wait) /\ Len(q) = b /\ \A i \in 1 .. b : q[i] = IF i = slot - a THEN entry ELSE second[i]
        BY <1>5, <3>1, ExceptSeq
      <3>3. \A i \in 1 .. a : i # slot
        BY <1>1, <2>2
      <3>4. QED BY <3>1, <3>2, <3>3
    <2>3. QED BY <2>1, <2>2
  <1>9. /\ Queue(p, q) \in Seq(Clients) /\ Len(Queue(p, q)) = a + b
        /\ \A i \in 1 .. a + b : Queue(p, q)[i] = IF i <= a THEN p[i].client ELSE q[i - a].client
    <2>1. /\ Queue(p, q) \in Seq(Clients) /\ Len(Queue(p, q)) = Len(p) + Len(q)
          /\ \A i \in 1 .. Len(p) + Len(q) :
               Queue(p, q)[i] = IF i <= Len(p) THEN p[i].client ELSE q[i - Len(p)].client
      BY <1>8, QueueParts
    <2>2. QED BY <1>8, <2>1
  <1> HIDE DEF a, b, r
  <1>10. \A i \in 1 .. a + b : Queue(p, q)[i] = r[i]
    <2>1. SUFFICES ASSUME NEW i \in 1 .. a + b PROVE Queue(p, q)[i] = r[i]
      OBVIOUS
    <2>2. CASE i <= a
      <3>1. i \in 1 .. a
        BY <1>1, <2>2
      <3>2. QED BY <1>3, <1>5, <1>8, <1>9, <2>2, <3>1
    <2>3. CASE ~(i <= a)
      <3>1. i - a \in 1 .. b /\ (i - a = slot - a <=> i = slot)
        BY <1>1, <2>3
      <3>2. QED BY <1>3, <1>5, <1>8, <1>9, <2>3, <3>1
    <2>4. QED BY <2>2, <2>3
  <1>11. Queue(p, q) = r
    BY <1>3, <1>9, <1>10, SeqEqual
  <1>12. QED BY <1>2, <1>7, <1>8, <1>11 DEF r

(* A client that starts to wait takes one place, at the end of one of the  *)
(* lists.                                                                  *)
LEMMA StartWaitingJoins ==
  ASSUME WaitListConstants, now \in Nat,
         NEW c \in Clients, NEW first \in Seq(Wait), NEW second \in Seq(Wait),
         StartWaiting(c, first, second)
  PROVE  /\ priorityWaitList' \in Seq(Wait) /\ waitList' \in Seq(Wait)
         /\ \E slot \in 1 .. Len(Queue(first, second)) + 1 :
              Joins(Waiting', Queue(first, second), slot, c)
  <1> DEFINE a == Len(first)
             b == Len(second)
             r == Queue(first, second)
  <1>1. a \in Nat /\ b \in Nat
    OBVIOUS
  <1>2. Waiting' = Queue(priorityWaitList', waitList')
    BY DEF Waiting
  <1>3. /\ Len(r) = a + b
        /\ \A i \in 1 .. a + b : r[i] = IF i <= a THEN first[i].client ELSE second[i - a].client
    BY QueueParts
  <1>4. PICK slot \in Nat : LET entry == [timeout |-> now + GetTimeout(slot), client |-> c]
                            IN  \/ /\ priorityWaitList' = Append(first, entry)
                                   /\ waitList' = second
                                \/ /\ priorityWaitList' = first
                                   /\ waitList' = Append(second, entry)
    BY <1>1 DEF StartWaiting
  <1> DEFINE entry == [timeout |-> now + GetTimeout(slot), client |-> c]
  <1>5. entry \in Wait /\ entry.client = c
    <2>1. PICK t \in Nat : t = GetTimeout(slot)
      BY GetTimeoutNat
    <2>2. now + t \in Nat /\ entry = [timeout |-> now + t, client |-> c]
      BY <2>1
    <2> HIDE DEF entry
    <2>3. QED BY <2>2 DEF Wait
  <1> HIDE DEF entry
  <1>6. PICK p, q : p = priorityWaitList' /\ q = waitList'
    OBVIOUS
  <1>7. p \in Seq(Wait) /\ q \in Seq(Wait)
    <2>1. Append(first, entry) \in Seq(Wait) /\ Append(second, entry) \in Seq(Wait)
      BY <1>5, AppendProperties
    <2>2. QED BY <1>4, <1>6, <2>1 DEF entry
  <1>8. /\ Len(Queue(p, q)) = Len(p) + Len(q)
        /\ \A i \in 1 .. Len(p) + Len(q) :
             Queue(p, q)[i] = IF i <= Len(p) THEN p[i].client ELSE q[i - Len(p)].client
    BY <1>7, QueueParts
  <1>9. CASE p = Append(first, entry) /\ q = second
    <2>1. Len(p) = a + 1 /\ Len(q) = b /\ p[a + 1] = entry /\ \A i \in 1 .. a : p[i] = first[i]
      BY <1>5, <1>9, AppendProperties
    <2> HIDE DEF a, b, r
    <2>2. Len(Queue(p, q)) = Len(r) + 1 /\ a + 1 \in 1 .. Len(r) + 1
      BY <1>1, <1>3, <1>8, <2>1
    <2>3. ASSUME NEW i \in 1 .. Len(Queue(p, q))
          PROVE  Queue(p, q)[i] = IF i < a + 1 THEN r[i] ELSE IF i = a + 1 THEN c ELSE r[i - 1]
      <3>1. i \in 1 .. Len(p) + Len(q)
        BY <1>8
      <3>2. CASE i <= a
        <4>1. i \in 1 .. a /\ i \in 1 .. a + b /\ i <= a + 1 /\ i < a + 1
          BY <1>1, <3>2
        <4>2. QED BY <1>3, <1>8, <2>1, <3>1, <3>2, <4>1
      <3>3. CASE i = a + 1
        <4>1. ~(i < a + 1) /\ i <= a + 1
          BY <1>1, <3>3
        <4>2. QED BY <1>5, <1>8, <2>1, <3>1, <3>3, <4>1
      <3>4. CASE i > a + 1
        <4>1. /\ i - 1 \in 1 .. a + b /\ i - (a + 1) = (i - 1) - a
              /\ ~(i <= a + 1) /\ ~(i - 1 <= a) /\ ~(i < a + 1) /\ i # a + 1
          BY <1>1, <2>1, <3>1, <3>4
        <4>2. QED BY <1>3, <1>8, <1>9, <2>1, <3>1, <4>1
      <3>5. QED BY <1>1, <3>2, <3>3, <3>4
    <2>4. Joins(Queue(p, q), r, a + 1, c)
      BY <2>2, <2>3 DEF Joins
    <2>5. QED BY <1>2, <1>6, <1>7, <2>2, <2>4 DEF r
  <1>10. CASE p = first /\ q = Append(second, entry)
    <2>1. Len(p) = a /\ Len(q) = b + 1 /\ q[b + 1] = entry /\ \A i \in 1 .. b : q[i] = second[i]
      BY <1>5, <1>10, AppendProperties
    <2> HIDE DEF a, b, r
    <2>2. Len(Queue(p, q)) = Len(r) + 1 /\ a + b + 1 \in 1 .. Len(r) + 1
      BY <1>1, <1>3, <1>8, <2>1
    <2>3. ASSUME NEW i \in 1 .. Len(Queue(p, q))
          PROVE  Queue(p, q)[i] = IF i < a + b + 1 THEN r[i]
                                  ELSE IF i = a + b + 1 THEN c ELSE r[i - 1]
      <3>1. i \in 1 .. Len(p) + Len(q)
        BY <1>8
      <3>2. CASE i <= a
        <4>1. i \in 1 .. a + b /\ i < a + b + 1
          BY <1>1, <3>2
        <4>2. QED BY <1>3, <1>8, <1>10, <2>1, <3>1, <3>2, <4>1
      <3>3. CASE ~(i <= a) /\ i < a + b + 1
        <4>1. i - a \in 1 .. b /\ i \in 1 .. a + b
          BY <1>1, <3>3
        <4>2. QED BY <1>3, <1>8, <2>1, <3>1, <3>3, <4>1
      <3>4. CASE ~(i < a + b + 1)
        <4>1. i = a + b + 1 /\ ~(i <= a) /\ i - a = b + 1
          BY <1>1, <2>1, <3>1, <3>4
        <4>2. QED BY <1>5, <1>8, <2>1, <3>1, <3>4, <4>1
      <3>5. QED BY <1>1, <3>2, <3>3, <3>4
    <2>4. Joins(Queue(p, q), r, a + b + 1, c)
      BY <2>2, <2>3 DEF Joins
    <2>5. QED BY <1>2, <1>6, <1>7, <2>2, <2>4 DEF r
  <1>11. QED BY <1>4, <1>6, <1>9, <1>10 DEF entry

-----------------------------------------------------------------------------
(* Nobody is in the queue twice, or in it and online.                      *)
Once(q, players) ==
    /\ \A i, j \in 1 .. Len(q) : q[i] = q[j] => i = j
    /\ \A i \in 1 .. Len(q) : q[i] \notin players \ AlwaysLogin

(* Cleaning the lists, leaving them and joining them keep clients apart.   *)
LEMMA ThinsOnce ==
  ASSUME NEW q \in Seq(Clients), NEW r \in Seq(Clients), NEW h, Thins(h, r, q),
         NEW players, Once(q, players)
  PROVE  Once(r, players)
  <1>1. /\ h \in [1 .. Len(r) -> 1 .. Len(q)]
        /\ \A i \in 1 .. Len(r) : r[i] = q[h[i]]
        /\ \A i, j \in 1 .. Len(r) : i < j => h[i] < h[j]
    BY DEF Thins
  <1>2. \A i, j \in 1 .. Len(r) : i # j => h[i] # h[j]
    <2>1. SUFFICES ASSUME NEW i \in 1 .. Len(r), NEW j \in 1 .. Len(r), i # j
                   PROVE  h[i] # h[j]
      OBVIOUS
    <2>2. i \in Int /\ j \in Int /\ h[i] \in Int /\ h[j] \in Int
      <3>1. h[i] \in 1 .. Len(q) /\ h[j] \in 1 .. Len(q)
        BY <1>1
      <3>2. QED BY <3>1
    <2>3. i < j \/ j < i
      BY <2>1, <2>2
    <2>4. h[i] < h[j] \/ h[j] < h[i]
      BY <1>1, <2>3
    <2>5. QED BY <2>2, <2>4
  <1>3. \A i \in 1 .. Len(r) : h[i] \in 1 .. Len(q) /\ r[i] = q[h[i]]
    BY <1>1
  <1>4. \A i, j \in 1 .. Len(r) : r[i] = r[j] => i = j
    BY <1>2, <1>3 DEF Once
  <1>5. \A i \in 1 .. Len(r) : r[i] \notin players \ AlwaysLogin
    BY <1>3 DEF Once
  <1>6. QED BY <1>4, <1>5 DEF Once

(* A client that leaves the queue may go online.                           *)
LEMMA LeavesOnce ==
  ASSUME NEW r \in Seq(Clients), NEW t \in Seq(Clients), NEW slot \in 1 .. Len(r),
         Leaves(t, r, slot), NEW players, Once(r, players)
  PROVE  Once(t, players) /\ Once(t, players \union {r[slot]})
  <1> DEFINE From(i) == IF i < slot THEN i ELSE i + 1
  <1>1. Len(t) = Len(r) - 1 /\ Len(r) \in Nat
    BY DEF Leaves
  <1>2. \A i \in 1 .. Len(t) : From(i) \in 1 .. Len(r) /\ From(i) # slot /\ t[i] = r[From(i)]
    BY <1>1 DEF Leaves
  <1>3. \A i, j \in 1 .. Len(t) : From(i) = From(j) => i = j
    BY <1>1
  <1> HIDE DEF From
  <1>4. \A i \in 1 .. Len(t) : t[i] # r[slot]
    BY <1>2 DEF Once
  <1>5. QED BY <1>2, <1>3, <1>4 DEF Once

(* One that joins is neither online nor in the queue.                      *)
LEMMA JoinsOnce ==
  ASSUME NEW r \in Seq(Clients), NEW t \in Seq(Clients), NEW slot \in 1 .. Len(r) + 1,
         NEW c, Joins(t, r, slot, c), NEW players, Once(r, players),
         c \notin players, \A i \in 1 .. Len(r) : r[i] # c
  PROVE  Once(t, players)
  <1> DEFINE From(i) == IF i < slot THEN i ELSE i - 1
  <1>1. Len(t) = Len(r) + 1 /\ Len(r) \in Nat
    BY DEF Joins
  <1>2. \A i \in 1 .. Len(t) : i # slot => From(i) \in 1 .. Len(r) /\ t[i] = r[From(i)]
    BY <1>1 DEF Joins
  <1>3. \A i, j \in 1 .. Len(t) : i # slot /\ j # slot /\ From(i) = From(j) => i = j
    BY <1>1
  <1>4. slot \in 1 .. Len(t) /\ t[slot] = c
    BY <1>1 DEF Joins
  <1> HIDE DEF From
  <1>5. \A i \in 1 .. Len(t) : i # slot => t[i] # c
    BY <1>2
  <1>6. \A i, j \in 1 .. Len(t) : t[i] = t[j] => i = j
    <2>1. SUFFICES ASSUME NEW i \in 1 .. Len(t), NEW j \in 1 .. Len(t), t[i] = t[j]
                   PROVE  i = j
      OBVIOUS
    <2>2. CASE i = slot \/ j = slot
      BY <1>4, <1>5, <2>1, <2>2
    <2>3. CASE i # slot /\ j # slot
      BY <1>2, <1>3, <2>1, <2>3 DEF Once
    <2>4. QED BY <2>2, <2>3
  <1>7. \A i \in 1 .. Len(t) : t[i] \notin players \ AlwaysLogin
    BY <1>2, <1>4 DEF Once
  <1>8. QED BY <1>6, <1>7 DEF Once

(* The inductive invariant.                                                *)
WaitInv == /\ WaitListTypeOK
           /\ Once(Waiting, playersOnline)
           /\ IsFiniteSet(playersOnline)
           /\ MaxPlayers = 0 => priorityWaitList = <<>> /\ waitList = <<>>

(* WaitsOnce is about the two lists as one queue.                          *)
LEMMA WaitingOnce ==
  ASSUME priorityWaitList \in Seq(Wait), waitList \in Seq(Wait)
  PROVE  /\ Waiting \in Seq(Clients)
         /\ Len(Waiting) = Len(priorityWaitList) + Len(waitList)
         /\ WaitsOnce <=> Once(Waiting, playersOnline)
  <1>1. /\ Waiting \in Seq(Clients)
        /\ Len(Waiting) = Len(priorityWaitList) + Len(waitList)
    BY QueueParts DEF Waiting
  <1>2. DOMAIN Waiting = 1 .. Len(Waiting)
    BY <1>1
  <1>3. QED BY <1>1, <1>2 DEF WaitsOnce, Once, IsInjective

(* The lists once they have been cleaned up.                               *)
LEMMA CleanedUp ==
  ASSUME WaitInv
  PROVE  LET first  == Kept(priorityWaitList)
             second == Kept(waitList)
         IN  /\ first \in Seq(Wait) /\ second \in Seq(Wait)
             /\ Queue(first, second) \in Seq(Clients)
             /\ Len(Queue(first, second)) = Len(first) + Len(second)
             /\ \E h : Thins(h, Queue(first, second), Waiting)
             /\ Once(Queue(first, second), playersOnline)
  <1> DEFINE first  == Kept(priorityWaitList)
             second == Kept(waitList)
  <1>1. priorityWaitList \in Seq(Wait) /\ waitList \in Seq(Wait)
    BY DEF WaitInv, WaitListTypeOK
  <1>2. /\ first \in Seq(Wait) /\ \E f : Thins(f, first, priorityWaitList)
        /\ second \in Seq(Wait) /\ \E g : Thins(g, second, waitList)
    BY <1>1, KeptThins
  <1> HIDE DEF first, second
  <1>3. PICK h : Thins(h, Queue(first, second), Waiting)
    BY <1>1, <1>2, QueueThins DEF Waiting
  <1>4. /\ Queue(first, second) \in Seq(Clients)
        /\ Len(Queue(first, second)) = Len(first) + Len(second)
    BY <1>2, QueueParts
  <1>5. Waiting \in Seq(Clients)
    BY <1>1, WaitingOnce
  <1>6. Once(Queue(first, second), playersOnline)
    BY <1>3, <1>4, <1>5, ThinsOnce DEF WaitInv
  <1>7. QED BY <1>2, <1>3, <1>4, <1>6 DEF first, second

(* One more player.                                                        *)
LEMMA LetInCounts ==
  ASSUME NEW c \in Clients, playersOnline \subseteq Clients, IsFiniteSet(playersOnline), LetIn(c)
  PROVE  /\ playersOnline' \subseteq Clients /\ IsFiniteSet(playersOnline')
         /\ Cardinality(playersOnline') \in Nat /\ Cardinality(playersOnline) \in Nat
         /\ Cardinality(playersOnline') <= Cardinality(playersOnline) + 1
  <1>1. Cardinality(playersOnline) \in Nat
    BY FS_CardinalityType
  <1>2. CASE playersOnline' = playersOnline
    BY <1>1, <1>2
  <1>3. CASE playersOnline' = playersOnline \union {c}
    <2>1. /\ IsFiniteSet(playersOnline')
          /\ Cardinality(playersOnline') = IF c \in playersOnline THEN Cardinality(playersOnline)
                                           ELSE Cardinality(playersOnline) + 1
      BY <1>3, FS_AddElement
    <2>2. QED BY <1>1, <1>3, <2>1
  <1>4. QED BY <1>2, <1>3 DEF LetIn

(* Nobody waits at the beginning.                                          *)
LEMMA WaitInvInit == ASSUME WaitListConstants, WaitListInit PROVE WaitInv
  <1>1. WaitListTypeOK
    <2>1. 0 \in 0 .. MaxTime
      BY DEF WaitListConstants
    <2>2. <<>> \in Seq(Wait)
      OBVIOUS
    <2>3. QED BY <2>1, <2>2 DEF WaitListInit, WaitListTypeOK
  <1>2. Len(Waiting) = 0
    BY <1>1, WaitingOnce DEF WaitListInit, WaitListTypeOK
  <1>3. Once(Waiting, playersOnline)
    BY <1>2 DEF Once
  <1>4. IsFiniteSet(playersOnline)
    BY FS_EmptySet DEF WaitListInit
  <1>5. QED BY <1>1, <1>3, <1>4 DEF WaitInv, WaitListInit

(* The lists stay as they are.                                             *)
LEMMA ListsSame ==
  ASSUME WaitInv, WaitListTypeOK', UNCHANGED <<priorityWaitList, waitList>>, IsFiniteSet(playersOnline'),
         \A i \in 1 .. Len(Waiting) : Waiting[i] \notin playersOnline' \ AlwaysLogin
  PROVE  WaitInv'
  <1>1. Waiting' = Waiting
    BY DEF Waiting
  <1>2. Once(Waiting', playersOnline')
    BY <1>1 DEF WaitInv, Once
  <1>3. QED BY <1>2 DEF WaitInv

(* WaitingList::clientLogin, first part: a client that need not wait.      *)
LEMMA LoginAtOnceInv ==
  ASSUME WaitListConstants, WaitInv, NEW c \in Clients, c \notin playersOnline, LoginAtOnce(c)
  PROVE  WaitInv' /\ (c \notin AlwaysLogin => AheadKept(c))
  <1>1. /\ playersOnline' \subseteq Clients /\ IsFiniteSet(playersOnline')
        /\ Cardinality(playersOnline') \in Nat /\ Cardinality(playersOnline) \in Nat
        /\ Cardinality(playersOnline') <= Cardinality(playersOnline) + 1
    BY LetInCounts DEF WaitInv, WaitListTypeOK, LoginAtOnce
  <1>2. UNCHANGED <<now, premium, priorityWaitList, waitList, miscounted, cleaned>>
    BY DEF LoginAtOnce, lists
  <1>3. WaitListTypeOK'
    BY <1>1, <1>2 DEF WaitInv, WaitListTypeOK
  <1>4. Waiting' = Waiting
    BY <1>2 DEF Waiting
  <1>5. c \notin AlwaysLogin => Len(Waiting) = 0
    <2>1. CASE MaxPlayers = 0
      BY <2>1, WaitingOnce DEF WaitInv, WaitListTypeOK
    <2>2. CASE Waiting = <<>>
      BY <2>2
    <2>3. QED BY <2>1, <2>2 DEF LoginAtOnce, HasRoom
  <1>6. playersOnline' \subseteq playersOnline \union {c}
    BY DEF LoginAtOnce, LetIn
  <1>7. \A i \in 1 .. Len(Waiting) : Waiting[i] \notin playersOnline' \ AlwaysLogin
    BY <1>5, <1>6 DEF WaitInv, Once
  <1>8. WaitInv'
    BY <1>1, <1>2, <1>3, <1>7, ListsSame
  <1>9. ASSUME c \notin AlwaysLogin PROVE AheadKept(c)
    <2> DEFINE ahead == {i \in 1 .. Len(Waiting') : \E k \in 1 .. Len(Waiting) : WasAhead(c, k, i)}
    <2>1. ahead = {}
      BY <1>5, <1>9
    <2>2. Cardinality(ahead) = 0
      BY <2>1, FS_EmptySet
    <2>3. MaxPlayers = 0 \/ Cardinality(playersOnline) < MaxPlayers
      BY <1>9 DEF LoginAtOnce, HasRoom
    <2>4. MaxPlayers = 0 \/ Cardinality(playersOnline') + Cardinality(ahead) <= MaxPlayers
      BY <1>1, <2>2, <2>3 DEF WaitListConstants
    <2>5. QED BY <2>1, <2>4 DEF AheadKept
  <1>10. QED BY <1>8, <1>9

(* Those who were ahead of the client that leaves the queue are the ones   *)
(* before its slot.                                                        *)
LEMMA LeavesAhead ==
  ASSUME NEW q \in Seq(Clients), NEW r \in Seq(Clients), NEW t \in Seq(Clients), NEW h,
         Thins(h, r, q), Once(q, {}), NEW slot \in 1 .. Len(r), Leaves(t, r, slot)
  PROVE  \A k \in 1 .. Len(q), i \in 1 .. Len(t) :
           q[k] = t[i] /\ (\A j \in 1 .. k - 1 : q[j] # r[slot]) =>
             i < slot /\ k = h[i] /\ i \in 1 .. Len(r)
  <1>0. SUFFICES ASSUME NEW k \in 1 .. Len(q), NEW i \in 1 .. Len(t), q[k] = t[i],
                        \A j \in 1 .. k - 1 : q[j] # r[slot]
                 PROVE  i < slot /\ k = h[i] /\ i \in 1 .. Len(r)
    OBVIOUS
  <1>1. /\ h \in [1 .. Len(r) -> 1 .. Len(q)]
        /\ \A n \in 1 .. Len(r) : r[n] = q[h[n]]
        /\ \A n, m \in 1 .. Len(r) : n < m => h[n] < h[m]
    BY DEF Thins
  <1>2. Len(t) = Len(r) - 1 /\ Len(r) \in Nat
    BY DEF Leaves
  <1>3. PICK n \in 1 .. Len(r) : n = IF i < slot THEN i ELSE i + 1
    BY <1>2
  <1>4. t[i] = r[n]
    BY <1>3 DEF Leaves
  <1>5. h[n] \in 1 .. Len(q) /\ h[slot] \in 1 .. Len(q)
    BY <1>1
  <1>6. k = h[n]
    <2>1. q[k] = q[h[n]]
      BY <1>0, <1>1, <1>4
    <2>2. QED BY <1>5, <2>1 DEF Once
  <1>7. ~(slot < n)
    <2>1. SUFFICES ASSUME slot < n PROVE FALSE
      OBVIOUS
    <2>2. h[slot] < h[n]
      BY <1>1, <2>1
    <2>3. h[slot] \in 1 .. k - 1
      BY <1>5, <1>6, <2>2
    <2>4. q[h[slot]] # r[slot]
      BY <1>0, <2>3
    <2>5. QED BY <1>1, <2>4
  <1>8. i < slot
    BY <1>2, <1>3, <1>7
  <1>9. n = i
    BY <1>3, <1>8
  <1>10. QED BY <1>6, <1>8, <1>9

(* A client that waited and is let in: there are places left for those     *)
(* ahead of it who wait on, and they come first.                           *)
LEMMA LoginFromListInv ==
  ASSUME WaitListConstants, WaitInv, NEW c \in Clients, ~HasRoom,
         NEW slot \in FindClient(c, Kept(priorityWaitList), Kept(waitList)),
         LoginFromList(c, Kept(priorityWaitList), Kept(waitList), slot),
         cleaned' = now, UNCHANGED <<now, premium>>
  PROVE  WaitInv' /\ AheadKept(c)
  <1>1. PICK first, second : first = Kept(priorityWaitList) /\ second = Kept(waitList)
    OBVIOUS
  <1>2. PICK r : r = Queue(first, second)
    OBVIOUS
  <1>3. /\ first \in Seq(Wait) /\ second \in Seq(Wait)
        /\ r \in Seq(Clients) /\ Len(r) = Len(first) + Len(second)
        /\ Once(r, playersOnline)
    BY <1>1, <1>2, CleanedUp
  <1>4. PICK h : Thins(h, r, Waiting)
    BY <1>1, <1>2, CleanedUp
  <1>5. slot \in 1 .. Len(r) /\ r[slot] = c
    BY <1>1, <1>2 DEF FindClient
  <1>6. /\ priorityWaitList' \in Seq(Wait) /\ waitList' \in Seq(Wait)
        /\ Leaves(Waiting', r, slot)
    BY <1>1, <1>2, <1>3, <1>5, LoginFromListLeaves
  <1>7. Waiting' \in Seq(Clients)
    BY <1>6, QueueParts DEF Waiting
  <1>8. /\ playersOnline' \subseteq Clients /\ IsFiniteSet(playersOnline')
        /\ Cardinality(playersOnline') \in Nat /\ Cardinality(playersOnline) \in Nat
        /\ Cardinality(playersOnline') <= Cardinality(playersOnline) + 1
    BY LetInCounts DEF WaitInv, WaitListTypeOK, LoginFromList
  <1>9. Once(Waiting', playersOnline')
    <2>1. playersOnline' = playersOnline \/ playersOnline' = playersOnline \union {r[slot]}
      BY <1>5 DEF LoginFromList, LetIn
    <2>2. QED BY <1>3, <1>5, <1>6, <1>7, <2>1, LeavesOnce
  <1>10. MaxPlayers # 0
    BY DEF HasRoom
  <1>11. WaitListTypeOK'
    <2>1. miscounted' \in BOOLEAN
      BY DEF LoginFromList, WaitInv, WaitListTypeOK
    <2>2. QED BY <1>6, <1>8, <2>1 DEF WaitInv, WaitListTypeOK
  <1>12. WaitInv'
    BY <1>8, <1>9, <1>10, <1>11 DEF WaitInv
  <1>13. AheadKept(c)
    <2>1. PICK q, t : q = Waiting /\ t = Waiting'
      OBVIOUS
    <2>2. PICK ahead : ahead = {i \in 1 .. Len(t) : \E k \in 1 .. Len(q) : WasAhead(c, k, i)}
      OBVIOUS
    <2>3. q \in Seq(Clients) /\ Once(q, {}) /\ Thins(h, r, q) /\ t \in Seq(Clients)
          /\ Leaves(t, r, slot)
      BY <1>4, <1>6, <1>7, <2>1, WaitingOnce DEF WaitInv, WaitListTypeOK, Once
    <2>4. /\ h \in [1 .. Len(r) -> 1 .. Len(q)]
          /\ \A n \in 1 .. Len(r) : r[n] = q[h[n]]
          /\ \A n, m \in 1 .. Len(r) : n < m => h[n] < h[m]
      BY <2>3 DEF Thins
    <2>5. \A k \in 1 .. Len(q), i \in 1 .. Len(t) :
            WasAhead(c, k, i) => i < slot /\ k = h[i] /\ i \in 1 .. Len(r)
      <3>1. SUFFICES ASSUME NEW k \in 1 .. Len(q), NEW i \in 1 .. Len(t), WasAhead(c, k, i)
                     PROVE  i < slot /\ k = h[i] /\ i \in 1 .. Len(r)
        OBVIOUS
      <3>2. q[k] = t[i] /\ \A j \in 1 .. k - 1 : q[j] # r[slot]
        BY <1>5, <2>1, <3>1 DEF WasAhead
      <3>3. r \in Seq(Clients) /\ slot \in 1 .. Len(r)
        BY <1>3, <1>5
      <3>4. \A m \in 1 .. Len(q), n \in 1 .. Len(t) :
              q[m] = t[n] /\ (\A j \in 1 .. m - 1 : q[j] # r[slot]) =>
                n < slot /\ m = h[n] /\ n \in 1 .. Len(r)
        BY <2>3, <3>3, LeavesAhead
      <3>5. QED BY <3>2, <3>4
    <2>6. Len(t) = Len(r) - 1 /\ Len(r) \in Nat
      BY <1>3, <2>3 DEF Leaves
    <2>7. ASSUME NEW i \in 1 .. slot - 1 PROVE i \in ahead
      <3>1. i \in 1 .. Len(t) /\ i \in 1 .. Len(r) /\ i < slot
        BY <1>5, <2>6
      <3>2. t[i] = r[i]
        BY <2>3, <3>1 DEF Leaves
      <3>3. h[i] \in 1 .. Len(q) /\ h[slot] \in 1 .. Len(q)
        BY <1>5, <2>4, <3>1
      <3>4. q[h[i]] = t[i]
        BY <2>4, <3>1, <3>2
      <3>5. h[i] < h[slot]
        BY <1>5, <2>4, <3>1
      <3>6. \A j \in 1 .. h[i] - 1 : q[j] # c
        <4>1. SUFFICES ASSUME NEW j \in 1 .. h[i] - 1, q[j] = c PROVE FALSE
          OBVIOUS
        <4>2. q[h[slot]] = c
          BY <1>5, <2>4
        <4>3. j \in 1 .. Len(q) /\ j # h[slot]
          BY <2>3, <3>3, <3>5
        <4>4. QED BY <2>3, <3>3, <4>1, <4>2, <4>3 DEF Once
      <3>7. WasAhead(c, h[i], i)
        BY <2>1, <3>4, <3>6 DEF WasAhead
      <3>8. QED BY <2>2, <3>1, <3>3, <3>7
    <2>8. ahead = 1 .. slot - 1
      <3>1. \A i \in ahead : i \in 1 .. slot - 1
        <4>1. SUFFICES ASSUME NEW i \in ahead PROVE i \in 1 .. slot - 1
          OBVIOUS
        <4>2. i \in 1 .. Len(t) /\ i < slot
          BY <2>2, <2>5
        <4>3. QED BY <1>5, <2>6, <4>2
      <3>2. QED BY <2>7, <3>1
    <2>9. slot \in Nat /\ slot > 0 /\ slot - 1 \in Nat
      BY <1>5
    <2>10. Cardinality(ahead) = slot - 1
      BY <2>8, <2>9, FS_Interval
    <2>11. Cardinality(playersOnline') + Cardinality(ahead) <= MaxPlayers
      <3>1. Cardinality(playersOnline) + slot <= MaxPlayers
        BY DEF LoginFromList, MayEnter
      <3>2. QED BY <1>8, <2>9, <2>10, <3>1 DEF WaitListConstants
    <2>12. \A i \in ahead : 1 .. i \subseteq ahead
      BY <2>8, <2>9
    <2>13. \A i, j \in ahead, k, l \in 1 .. Len(q) :
              WasAhead(c, k, i) /\ WasAhead(c, l, j) /\ i < j => k < l
      <3>1. SUFFICES ASSUME NEW i \in ahead, NEW j \in ahead, NEW k \in 1 .. Len(q),
                            NEW l \in 1 .. Len(q), WasAhead(c, k, i), WasAhead(c, l, j), i < j
                     PROVE  k < l
        OBVIOUS
      <3>2. i \in 1 .. Len(t) /\ j \in 1 .. Len(t)
        BY <2>2
      <3>3. k = h[i] /\ l = h[j] /\ i \in 1 .. Len(r) /\ j \in 1 .. Len(r)
        BY <2>5, <3>1, <3>2
      <3>4. QED BY <2>4, <3>1, <3>3
    <2>14. QED BY <2>1, <2>2, <2>11, <2>12, <2>13 DEF AheadKept
  <1>14. QED BY <1>12, <1>13

(* WaitingList::clientLogin, the rest.                                     *)
LEMMA LoginLaterInv ==
  ASSUME WaitListConstants, WaitInv, NEW c \in Clients, c \notin playersOnline, LoginLater(c)
  PROVE  /\ WaitInv'
         /\ c \in playersOnline' => AheadKept(c)
         /\ playersOnline' \subseteq playersOnline \union {c}
  <1>1. PICK first, second : first = Kept(priorityWaitList) /\ second = Kept(waitList)
    OBVIOUS
  <1>2. PICK r : r = Queue(first, second)
    OBVIOUS
  <1>3. /\ first \in Seq(Wait) /\ second \in Seq(Wait)
        /\ r \in Seq(Clients) /\ Len(r) = Len(first) + Len(second)
        /\ Once(r, playersOnline)
    BY <1>1, <1>2, CleanedUp
  <1>4. /\ ~HasRoom /\ cleaned' = now /\ now' = now /\ premium' = premium
        /\ \/ \E slot \in FindClient(c, first, second) : LoginFromList(c, first, second, slot)
           \/ \E slot \in FindClient(c, first, second) : WaitLonger(first, second, slot)
           \/ FindClient(c, first, second) = {} /\ StartWaiting(c, first, second)
    BY <1>1 DEF LoginLater
  <1>5. now \in Nat /\ MaxPlayers # 0
    BY <1>4 DEF WaitInv, WaitListTypeOK, HasRoom
  <1>6. ASSUME priorityWaitList' \in Seq(Wait), waitList' \in Seq(Wait),
               UNCHANGED <<playersOnline, miscounted>>, Once(Waiting', playersOnline)
        PROVE  WaitInv' /\ c \notin playersOnline'
    <2>1. WaitListTypeOK'
      BY <1>4, <1>6 DEF WaitInv, WaitListTypeOK
    <2>2. QED BY <1>5, <1>6, <2>1 DEF WaitInv
  <1>7. CASE \E slot \in FindClient(c, first, second) : LoginFromList(c, first, second, slot)
    <2>1. WaitInv' /\ AheadKept(c)
      BY <1>1, <1>4, <1>7, LoginFromListInv
    <2>2. QED BY <1>7, <2>1 DEF LoginFromList, LetIn
  <1>8. CASE \E slot \in FindClient(c, first, second) : WaitLonger(first, second, slot)
    <2>1. PICK slot \in FindClient(c, first, second) : WaitLonger(first, second, slot)
      BY <1>8
    <2>2. slot \in 1 .. Len(first) + Len(second)
      BY <1>2, <1>3, <2>1 DEF FindClient
    <2>3. /\ priorityWaitList' \in Seq(Wait) /\ waitList' \in Seq(Wait)
          /\ Waiting' = r
      BY <1>2, <1>3, <1>5, <2>1, <2>2, WaitLongerSame
    <2>4. UNCHANGED <<playersOnline, miscounted>>
      BY <2>1 DEF WaitLonger
    <2>5. QED BY <1>3, <1>6, <2>3, <2>4
  <1>9. CASE FindClient(c, first, second) = {} /\ StartWaiting(c, first, second)
    <2>1. \A i \in 1 .. Len(r) : r[i] # c
      BY <1>2, <1>9 DEF FindClient
    <2>2. /\ priorityWaitList' \in Seq(Wait) /\ waitList' \in Seq(Wait)
          /\ \E slot \in 1 .. Len(r) + 1 : Joins(Waiting', r, slot, c)
      BY <1>2, <1>3, <1>5, <1>9, StartWaitingJoins
    <2>3. Waiting' \in Seq(Clients)
      BY <2>2, QueueParts DEF Waiting
    <2>4. Once(Waiting', playersOnline)
      BY <1>3, <2>1, <2>2, <2>3, JoinsOnce
    <2>5. UNCHANGED <<playersOnline, miscounted>>
      BY <1>9 DEF StartWaiting
    <2>6. QED BY <1>6, <2>2, <2>4, <2>5
  <1>10. QED BY <1>4, <1>7, <1>8, <1>9

(* Those that a step lets in leave places for those ahead of them.         *)
GivenFairly == \A c \in playersOnline' \ (playersOnline \union AlwaysLogin) : AheadKept(c)

(* The invariant is inductive, and a step gives no place away that         *)
(* somebody ahead needs.                                                   *)
LEMMA WaitInvNext ==
  ASSUME WaitListConstants, WaitInv, [WaitListNext]_waitListVars
  PROVE  WaitInv' /\ (GivenFairly \/ UNCHANGED waitListVars)
  <1>1. ASSUME NEW c \in Clients, ClientLogin(c) PROVE WaitInv' /\ GivenFairly
    <2>1. CASE LoginAtOnce(c)
      <3>1. playersOnline' \subseteq playersOnline \union {c}
        BY <2>1 DEF LoginAtOnce, LetIn
      <3>2. WaitInv' /\ (c \notin AlwaysLogin => AheadKept(c))
        BY <1>1, <2>1, LoginAtOnceInv DEF ClientLogin
      <3>3. QED BY <3>1, <3>2 DEF GivenFairly
    <2>2. CASE LoginLater(c)
      <3>1. /\ WaitInv' /\ (c \in playersOnline' => AheadKept(c))
            /\ playersOnline' \subseteq playersOnline \union {c}
        BY <1>1, <2>2, LoginLaterInv DEF ClientLogin
      <3>2. QED BY <3>1 DEF GivenFairly
    <2>3. QED BY <1>1, <2>1, <2>2 DEF ClientLogin
  <1>2. ASSUME NEW c \in Clients, LeaveGame(c) PROVE WaitInv' /\ GivenFairly
    <2>1. /\ playersOnline' = playersOnline \ {c}
          /\ UNCHANGED <<now, premium, priorityWaitList, waitList, miscounted, cleaned>>
      BY <1>2 DEF LeaveGame, lists
    <2>2. IsFiniteSet(playersOnline')
      BY <2>1, FS_Subset DEF WaitInv
    <2>3. WaitListTypeOK'
      BY <2>1 DEF WaitInv, WaitListTypeOK
    <2>4. \A i \in 1 .. Len(Waiting) : Waiting[i] \notin playersOnline' \ AlwaysLogin
      BY <2>1 DEF WaitInv, Once
    <2>5. WaitInv'
      BY <2>1, <2>2, <2>3, <2>4, ListsSame
    <2>6. QED BY <2>1, <2>5 DEF GivenFairly
  <1>3. ASSUME NEW c \in Clients, PremiumChanges(c) PROVE WaitInv' /\ GivenFairly
    <2>1. UNCHANGED <<now, playersOnline, priorityWaitList, waitList, miscounted, cleaned>>
      BY <1>3 DEF PremiumChanges, lists
    <2>2. WaitListTypeOK'
      BY <1>3, <2>1 DEF WaitInv, WaitListTypeOK, PremiumChanges
    <2>3. WaitInv'
      BY <2>1, <2>2, ListsSame DEF WaitInv, Once
    <2>4. QED BY <2>1, <2>3 DEF GivenFairly
  <1>4. CASE TimePasses
    <2>1. UNCHANGED <<premium, playersOnline, priorityWaitList, waitList, miscounted, cleaned>>
      BY <1>4 DEF TimePasses, lists
    <2>2. now' \in 0 .. MaxTime
      BY <1>4 DEF TimePasses, WaitInv, WaitListTypeOK, WaitListConstants
    <2>3. WaitListTypeOK'
      BY <2>1, <2>2 DEF WaitInv, WaitListTypeOK
    <2>4. WaitInv'
      BY <2>1, <2>3, ListsSame DEF WaitInv, Once
    <2>5. QED BY <2>1, <2>4 DEF GivenFairly
  <1>5. CASE UNCHANGED waitListVars
    <2>1. WaitListTypeOK'
      BY <1>5 DEF waitListVars, WaitInv, WaitListTypeOK
    <2>2. WaitInv'
      BY <1>5, <2>1, ListsSame DEF waitListVars, WaitInv, Once
    <2>3. QED BY <1>5, <2>2
  <1>6. QED BY <1>1, <1>2, <1>3, <1>4, <1>5 DEF WaitListNext

(* The two lists hold clients with their times.                            *)
THEOREM WaitListTypeCorrect == WaitListSpec => []WaitListTypeOK
  <1> USE WaitListAssumption
  <1>1. WaitListInit => WaitInv
    BY WaitInvInit
  <1>2. WaitInv /\ [WaitListNext]_waitListVars => WaitInv'
    BY WaitInvNext
  <1>3. WaitInv => WaitListTypeOK
    BY DEF WaitInv
  <1>4. QED BY <1>1, <1>2, <1>3, PTL DEF WaitListSpec

(* No client is in the queue twice, nor (gamemasters apart) while it is    *)
(* online, however clients come back, give up, become premium and time     *)
(* out: findClient and cleanupList, between them, never leave a second     *)
(* entry.  For any number of clients and any limit of players.             *)
THEOREM WaitListWaitsOnce == WaitListSpec => []WaitsOnce
  <1> USE WaitListAssumption
  <1>1. WaitListInit => WaitInv
    BY WaitInvInit
  <1>2. WaitInv /\ [WaitListNext]_waitListVars => WaitInv'
    BY WaitInvNext
  <1>3. WaitInv => WaitsOnce
    BY WaitingOnce DEF WaitInv, WaitListTypeOK
  <1>4. QED BY <1>1, <1>2, <1>3, PTL DEF WaitListSpec

(* A place that is given away leaves enough places for all who were ahead  *)
(* of the client that got it and wait on; they come before everybody else, *)
(* in their old order.  For any number of clients and any limit of         *)
(* players.                                                                *)
THEOREM WaitListPlacesAheadKept == WaitListSpec => PlacesAheadKept
  <1> USE WaitListAssumption
  <1>1. WaitListInit => WaitInv
    BY WaitInvInit
  <1>2. WaitInv /\ [WaitListNext]_waitListVars => WaitInv'
    BY WaitInvNext
  <1>3. WaitInv /\ [WaitListNext]_waitListVars =>
          [\A c \in playersOnline' \ (playersOnline \union AlwaysLogin) : AheadKept(c)]_waitListVars
    BY WaitInvNext DEF GivenFairly
  <1>4. QED BY <1>1, <1>2, <1>3, PTL DEF WaitListSpec, PlacesAheadKept

-----------------------------------------------------------------------------
(* Walking.                                                                *)
IdsOf(es) == {e.id : e \in es}

(* A player with its events.  Numbers are not used twice, the number of    *)
(* the action is not that of a walk, and the action can be replaced.       *)
Replaceable(es, task, taskEvent) ==
    /\ \A e, f \in es : e.id = f.id => e = f
    /\ \A e \in es : e.does = "walk" => e.id # taskEvent
    /\ \A e \in es : e.does \in Actions =>
          /\ ~e.handed => e.id = taskEvent /\ task = NoAction
          /\ e.does # task

Sound(s) == /\ s.p \in Members /\ s.es \in SUBSET Events
            /\ Replaceable(s.es, s.p.walkTask, s.p.walkTaskEvent)

(* At most n numbers are in use.                                           *)
Uses(s, n) == Cardinality(IdsOf(s.es)) <= n

(* The event that eventWalk names is there.                                *)
Chained(s) == s.p.eventWalk # 0 => \E e \in s.es : e.id = s.p.eventWalk /\ e.does = "walk"

(* The inductive invariant.  That numbers are not used twice and that the  *)
(* action's is not the walk's is what stopEventWalk and                    *)
(* setNextWalkActionTask rely on when they stop an event by its number.    *)
WalkInv == /\ WalkTypeOK
           /\ Sound(With(w, events)) /\ Uses(With(w, events), MaxEvents)
           /\ ~dying => Chained(With(w, events))

(* The numbers of finitely many possible events can be counted.            *)
LEMMA Finite ==
  ASSUME WalkConstants, NEW es \in SUBSET Events
  PROVE  IsFiniteSet(IdsOf(es)) /\ Cardinality(IdsOf(es)) \in Nat
  <1>1. IsFiniteSet(Ids)
    BY FS_Interval DEF Ids, WalkConstants
  <1>2. IdsOf(es) \in SUBSET Ids
    BY DEF IdsOf, Events
  <1>3. QED BY <1>1, <1>2, FS_Subset, FS_CardinalityType

(* No more numbers are in use when none is new.                            *)
LEMMA Fewer ==
  ASSUME WalkConstants, NEW s, NEW t, Sound(s), Sound(t), NEW n,
         IdsOf(t.es) \subseteq IdsOf(s.es), Uses(s, n), n \in Nat
  PROVE  Uses(t, n)
  <1>1. IsFiniteSet(IdsOf(s.es)) /\ Cardinality(IdsOf(s.es)) \in Nat
    BY Finite DEF Sound
  <1>2. Cardinality(IdsOf(t.es)) <= Cardinality(IdsOf(s.es))
    BY <1>1, FS_Subset
  <1>3. Cardinality(IdsOf(t.es)) \in Nat
    BY Finite DEF Sound
  <1>4. QED BY <1>1, <1>2, <1>3 DEF Uses

(* There is a number left.                                                 *)
LEMMA NewIdFresh ==
  ASSUME WalkConstants, NEW s, Sound(s), Uses(s, MaxEvents)
  PROVE  /\ NewId(s) \in Ids
         /\ \A e \in s.es : e.id # NewId(s)
         /\ NewId(s) \notin {s.p.eventWalk, s.p.walkTaskEvent}
  <1> DEFINE used == IdsOf(s.es)
             more == used \union {s.p.eventWalk}
             all  == more \union {s.p.walkTaskEvent}
  <1>1. IsFiniteSet(used) /\ Cardinality(used) \in Nat /\ Cardinality(used) <= MaxEvents
    BY Finite DEF Sound, Uses
  <1>2. IsFiniteSet(more) /\ Cardinality(more) \in Nat /\ Cardinality(more) <= MaxEvents + 1
    <2>1. IsFiniteSet(more)
            /\ Cardinality(more) = IF s.p.eventWalk \in used THEN Cardinality(used)
                                   ELSE Cardinality(used) + 1
      BY <1>1, FS_AddElement
    <2>2. QED BY <1>1, <2>1 DEF WalkConstants
  <1>3. IsFiniteSet(all) /\ Cardinality(all) \in Nat /\ Cardinality(all) <= MaxEvents + 2
    <2>1. IsFiniteSet(all)
            /\ Cardinality(all) = IF s.p.walkTaskEvent \in more THEN Cardinality(more)
                                  ELSE Cardinality(more) + 1
      BY <1>2, FS_AddElement
    <2>2. QED BY <1>2, <2>1 DEF WalkConstants
  <1>4. Cardinality(Ids) = MaxEvents + 3
    BY FS_Interval DEF Ids, WalkConstants
  <1>5. ~(Ids \subseteq all)
    <2>1. SUFFICES ASSUME Ids \in SUBSET all PROVE FALSE
      OBVIOUS
    <2>2. Cardinality(Ids) <= Cardinality(all)
      BY <1>3, <2>1, FS_Subset
    <2>3. QED BY <1>3, <1>4, <2>2 DEF WalkConstants
  <1>6. \E id \in Ids : /\ \A e \in s.es : e.id # id
                        /\ id \notin {s.p.eventWalk, s.p.walkTaskEvent}
    BY <1>5 DEF IdsOf
  <1>7. QED BY <1>6 DEF NewId

(* Scheduler::addEvent.                                                    *)
LEMMA AddsOne ==
  ASSUME WalkConstants, NEW s, Sound(s), NEW n \in Nat, Uses(s, n), NEW f \in Events
  PROVE  Cardinality(IdsOf(s.es \union {f})) <= n + 1
  <1> DEFINE used == IdsOf(s.es)
  <1>1. IsFiniteSet(used) /\ Cardinality(used) \in Nat /\ Cardinality(used) <= n
    BY Finite DEF Sound, Uses
  <1>2. IdsOf(s.es \union {f}) = used \union {f.id}
    BY DEF IdsOf
  <1>3. Cardinality(used \union {f.id}) = IF f.id \in used THEN Cardinality(used)
                                          ELSE Cardinality(used) + 1
    BY <1>1, FS_AddElement
  <1> HIDE DEF used
  <1>4. Cardinality(used \union {f.id}) <= n + 1
    BY <1>1, <1>3
  <1>5. QED BY <1>2, <1>4

(* The parts of a player that a member function does not set keep their    *)
(* values.                                                                 *)
Same(p, q) == /\ q.since = p.since /\ q.lastStepCost = p.lastStepCost
              /\ q.listWalkDir = p.listWalkDir /\ q.cancelNextWalk = p.cancelNextWalk

(* Creature::stopEventWalk and the other functions a handler is made of,   *)
(* one by one: what each leaves of the player and its events.              *)
LEMMA StopEventWalkSound ==
  ASSUME WalkConstants, NEW s, Sound(s)
  PROVE  LET t == StopEventWalk(s)
         IN  /\ Sound(t)
             /\ IdsOf(t.es) \subseteq IdsOf(s.es)
             /\ t.p.eventWalk = 0
             /\ Same(s.p, t.p)
  <1> DEFINE t == StopEventWalk(s)
  <1>1. PICK p \in Members : p = s.p
    BY DEF Sound
  <1>2. /\ t.p \in Members /\ t.p.eventWalk = 0 /\ Same(p, t.p)
        /\ t.p.walkTask = p.walkTask /\ t.p.walkTaskEvent = p.walkTaskEvent
    BY <1>1 DEF StopEventWalk, With, Members, Same
  <1>3. t.es \subseteq s.es
    BY DEF StopEventWalk, With, Unscheduled
  <1>4. Replaceable(t.es, p.walkTask, p.walkTaskEvent)
    BY <1>1, <1>3 DEF Sound, Replaceable
  <1>5. Sound(t)
    BY <1>2, <1>3, <1>4 DEF Sound
  <1>6. QED BY <1>1, <1>2, <1>3, <1>5 DEF IdsOf

(* Player::setNextWalkActionTask stops the event of the task before.       *)
LEMMA SetNextWalkActionTaskSound ==
  ASSUME WalkConstants, NEW s, Sound(s), NEW task \in Actions \union {NoAction},
         \A e \in s.es : e.does \in Actions => e.does # task
  PROVE  LET t == SetNextWalkActionTask(s, task)
         IN  /\ Sound(t)
             /\ IdsOf(t.es) \subseteq IdsOf(s.es)
             /\ t.p.eventWalk = s.p.eventWalk
             /\ Same(s.p, t.p)
             /\ \A e \in s.es : e.does = "walk" => e \in t.es
  <1> DEFINE t == SetNextWalkActionTask(s, task)
  <1>1. PICK p \in Members : p = s.p
    BY DEF Sound
  <1>2. /\ t.p \in Members /\ t.p.eventWalk = p.eventWalk /\ Same(p, t.p)
        /\ t.p.walkTask = task /\ t.p.walkTaskEvent = 0
    BY <1>1 DEF SetNextWalkActionTask, With, Members, Same
  <1>3. t.es = IF p.walkTaskEvent = 0 THEN s.es ELSE Unscheduled(s.es, p.walkTaskEvent)
    BY <1>1 DEF SetNextWalkActionTask, With
  <1>4. \A e \in s.es : e.id # 0
    BY DEF Sound, Events, Ids, WalkConstants
  <1>5. \A e \in t.es : e \in s.es /\ (e.id = p.walkTaskEvent => e.handed)
    BY <1>3, <1>4 DEF Unscheduled
  <1>6. \A e \in s.es : e.does = "walk" => e \in t.es
    BY <1>1, <1>3 DEF Unscheduled, Sound, Replaceable
  <1>7. \A e \in t.es : e.does \in Actions => e.handed
    BY <1>1, <1>5 DEF Sound, Replaceable
  <1>8. Replaceable(t.es, task, 0)
    BY <1>4, <1>5, <1>7 DEF Sound, Replaceable
  <1>9. Sound(t)
    BY <1>2, <1>5, <1>8 DEF Sound
  <1>10. QED BY <1>1, <1>2, <1>5, <1>6, <1>9 DEF IdsOf

(* Player::onWalkAborted drops the task.                                   *)
LEMMA OnWalkAbortedSound ==
  ASSUME WalkConstants, NEW s, Sound(s)
  PROVE  LET t == OnWalkAborted(s)
         IN  /\ Sound(t)
             /\ IdsOf(t.es) \subseteq IdsOf(s.es)
             /\ t.p.eventWalk = s.p.eventWalk
             /\ Same(s.p, t.p)
             /\ \A e \in s.es : e.does = "walk" => e \in t.es
  <1>1. \A e \in s.es : e.does \in Actions => e.does # NoAction
    BY DEF WalkConstants
  <1>2. QED BY <1>1, SetNextWalkActionTaskSound DEF OnWalkAborted

(* Player::onWalkComplete schedules the task, under one new number.        *)
LEMMA OnWalkCompleteSound ==
  ASSUME WalkConstants, NEW s, Sound(s), Uses(s, MaxEvents)
  PROVE  LET t == OnWalkComplete(s)
         IN  /\ Sound(t)
             /\ \A n \in Nat : Uses(s, n) => Uses(t, n + 1)
  <1> DEFINE t == OnWalkComplete(s)
  <1>1. CASE s.p.walkTask = NoAction
    <2>1. t = s
      BY <1>1 DEF OnWalkComplete
    <2>2. Cardinality(IdsOf(s.es)) \in Nat
      BY Finite DEF Sound
    <2>3. QED BY <2>1, <2>2 DEF Uses
  <1>2. CASE s.p.walkTask # NoAction
    <2>1. PICK p \in Members : p = s.p
      BY DEF Sound
    <2>2. PICK id \in Ids : id = NewId(s) /\ \A e \in s.es : e.id # id
      BY NewIdFresh
    <2>3. PICK f : f = [id |-> id, ticks |-> ActionDelay, handed |-> FALSE, does |-> p.walkTask]
      OBVIOUS
    <2>4. p.walkTask \in Actions
      BY <1>2, <2>1 DEF Members
    <2>5. f \in Events /\ f.id = id /\ f.does \in Actions
      BY <2>3, <2>4 DEF Events, Delays, LongestDelay, WalkConstants
    <2>6. t.es = s.es \union {f}
      BY <1>2, <2>1, <2>2, <2>3 DEF OnWalkComplete, Scheduled, With
    <2>7. t.p \in Members /\ t.p.walkTask = NoAction /\ t.p.walkTaskEvent = id
      BY <1>2, <2>1, <2>2 DEF OnWalkComplete, With, Members
    <2>8. Replaceable(t.es, NoAction, id)
      <3>1. /\ \A e, g \in s.es : e.id = g.id => e = g
            /\ \A e \in s.es : e.does \in Actions => e.handed
        BY <1>2, <2>1 DEF Sound, Replaceable
      <3>2. "walk" \notin Actions /\ NoAction \notin Actions
        BY DEF WalkConstants
      <3>3. \A e, g \in t.es : e.id = g.id => e = g
        BY <2>2, <2>5, <2>6, <3>1
      <3>4. \A e \in t.es : e.does = "walk" => e.id # id
        BY <2>2, <2>5, <2>6, <3>2
      <3>5. \A e \in t.es : e.does \in Actions =>
               /\ ~e.handed => e.id = id /\ NoAction = NoAction
               /\ e.does # NoAction
        BY <2>5, <2>6, <3>1, <3>2
      <3>6. QED BY <3>3, <3>4, <3>5 DEF Replaceable
    <2>9. Sound(t)
      BY <2>5, <2>6, <2>7, <2>8 DEF Sound
    <2>10. ASSUME NEW n \in Nat, Uses(s, n) PROVE Uses(t, n + 1)
      <3>1. Cardinality(IdsOf(s.es \union {f})) <= n + 1
        BY <2>5, <2>10, AddsOne
      <3>2. QED BY <2>6, <3>1 DEF Uses
    <2>11. QED BY <2>9, <2>10
  <1>3. QED BY <1>1, <1>2

(* The player is on another tile, and may have been teleported.            *)
LEMMA OnCreatureMoveSound ==
  ASSUME WalkConstants, NEW s, Sound(s), NEW step \in Steps
  PROVE  LET t == OnCreatureMove(s, step)
         IN  /\ Sound(t)
             /\ IdsOf(t.es) \subseteq IdsOf(s.es)
             /\ t.p.eventWalk \in {0, s.p.eventWalk}
             /\ t.p.eventWalk # 0 => t.es = s.es
             /\ step = "teleport" => t.p.eventWalk = 0
             /\ t.p.cancelNextWalk = s.p.cancelNextWalk
  <1>1. PICK p \in Members : p = s.p
    BY DEF Sound
  <1>2. PICK moved : moved = With([p EXCEPT !.since = 0, !.lastStepCost = StepCost(step),
                                            !.changedFloor = step = "floor"], s.es)
    OBVIOUS
  <1>3. StepCost(step) \in 1 .. 3
    BY DEF StepCost
  <1>4. 0 \in 0 .. LongestDelay /\ (step = "floor") \in BOOLEAN
    BY DEF LongestDelay, WalkConstants
  <1>5. /\ moved.p \in Members /\ moved.p.eventWalk = p.eventWalk
        /\ moved.p.walkTask = p.walkTask /\ moved.p.walkTaskEvent = p.walkTaskEvent
        /\ moved.p.cancelNextWalk = p.cancelNextWalk
    BY <1>2, <1>3, <1>4 DEF With, Members
  <1>6. moved.es = s.es
    BY <1>2 DEF With
  <1>7. Sound(moved)
    BY <1>1, <1>5, <1>6 DEF Sound
  <1>8. CASE step = "refused"
    <2>1. OnCreatureMove(s, step) = s
      BY <1>8 DEF OnCreatureMove
    <2>2. QED BY <1>8, <2>1
  <1>9. CASE step # "refused" /\ Teleports(step)
    <2>1. OnCreatureMove(s, step) = StopEventWalk(moved)
      BY <1>1, <1>2, <1>9 DEF OnCreatureMove
    <2>2. QED BY <1>1, <1>5, <1>6, <1>7, <2>1, StopEventWalkSound DEF Same
  <1>10. CASE step # "refused" /\ ~Teleports(step)
    <2>1. OnCreatureMove(s, step) = moved
      BY <1>1, <1>2, <1>10 DEF OnCreatureMove
    <2>2. step # "teleport"
      BY <1>10 DEF Teleports
    <2>3. QED BY <1>1, <1>5, <1>6, <1>7, <2>1, <2>2
  <1>11. QED BY <1>8, <1>9, <1>10

(* A step uses no new number while there are directions, and completes the *)
(* walk, which is then over, when there are none.                          *)
LEMMA TakeStepSound ==
  ASSUME WalkConstants, NEW s, Sound(s), NEW n \in Nat, Uses(s, n), n <= MaxEvents,
         NEW step \in Steps
  PROVE  LET t == TakeStep(s, step)
         IN  /\ Sound(t)
             /\ t.p.eventWalk \in {0, s.p.eventWalk}
             /\ Uses(t, n + 1)
             /\ t.p.eventWalk # 0 \/ s.p.listWalkDir > 0 \/ GetWalkDelay(s.p) > 0 => Uses(t, n)
  <1> DEFINE directed == s.p.listWalkDir > 0 \/ GetWalkDelay(s.p) > 0
             Fine(t) == /\ Sound(t)
                        /\ t.p.eventWalk \in {0, s.p.eventWalk}
                        /\ Uses(t, n + 1)
                        /\ t.p.eventWalk # 0 \/ directed => Uses(t, n)
  <1>1. PICK p \in Members : p = s.p
    BY DEF Sound
  <1>2. ASSUME NEW t, Uses(t, n), Sound(t) PROVE Uses(t, n + 1)
    <2>1. Cardinality(IdsOf(t.es)) \in Nat
      BY <1>2, Finite DEF Sound
    <2>2. QED BY <1>2, <2>1 DEF Uses
  <1>3. PICK stepped : stepped =
          IF GetWalkDelay(p) > 0 THEN s
          ELSE IF p.listWalkDir > 0
          THEN OnCreatureMove(With([p EXCEPT !.listWalkDir = @ - 1], s.es), step)
          ELSE StopEventWalk(OnWalkComplete(s))
    OBVIOUS
  <1>4. Fine(stepped)
    <2>1. CASE GetWalkDelay(p) > 0
      <3>1. stepped = s
        BY <1>3, <2>1
      <3>2. Uses(s, n + 1)
        BY <1>2
      <3>3. QED BY <3>1, <3>2
    <2>2. CASE ~(GetWalkDelay(p) > 0) /\ p.listWalkDir > 0
      <3>1. PICK t : t = With([p EXCEPT !.listWalkDir = @ - 1], s.es)
        OBVIOUS
      <3>2. p.listWalkDir - 1 \in 0 .. MaxDirs
        BY <2>2 DEF Members, WalkConstants
      <3>3. /\ t.p \in Members /\ t.p.eventWalk = p.eventWalk
            /\ t.p.walkTask = p.walkTask /\ t.p.walkTaskEvent = p.walkTaskEvent
        BY <3>1, <3>2 DEF With, Members
      <3>4. t.es = s.es
        BY <3>1 DEF With
      <3>5. Sound(t)
        BY <1>1, <3>3, <3>4 DEF Sound
      <3>6. stepped = OnCreatureMove(t, step)
        BY <1>3, <2>2, <3>1
      <3>7. /\ Sound(stepped) /\ IdsOf(stepped.es) \subseteq IdsOf(s.es)
            /\ stepped.p.eventWalk \in {0, s.p.eventWalk}
        BY <1>1, <3>3, <3>4, <3>5, <3>6, OnCreatureMoveSound
      <3>8. Uses(stepped, n)
        BY <3>7, Fewer
      <3>9. QED BY <1>2, <3>7, <3>8
    <2>3. CASE ~(GetWalkDelay(p) > 0) /\ ~(p.listWalkDir > 0)
      <3>1. PICK t : t = OnWalkComplete(s)
        OBVIOUS
      <3>2. Uses(s, MaxEvents)
        <4>1. Cardinality(IdsOf(s.es)) \in Nat
          BY Finite DEF Sound
        <4>2. QED BY <4>1 DEF Uses, WalkConstants
      <3>3. Sound(t) /\ Uses(t, n + 1)
        BY <3>1, <3>2, OnWalkCompleteSound
      <3>4. stepped = StopEventWalk(t)
        BY <1>3, <2>3, <3>1
      <3>5. /\ Sound(stepped) /\ IdsOf(stepped.es) \subseteq IdsOf(t.es)
            /\ stepped.p.eventWalk = 0
        BY <3>3, <3>4, StopEventWalkSound
      <3>6. Uses(stepped, n + 1)
        BY <3>3, <3>5, Fewer
      <3>7. ~directed
        BY <1>1, <2>3
      <3>8. QED BY <3>5, <3>6, <3>7
    <2>4. QED BY <2>1, <2>2, <2>3
  <1>5. CASE ~stepped.p.cancelNextWalk
    <2>1. TakeStep(s, step) = stepped
      BY <1>1, <1>3, <1>5 DEF TakeStep
    <2>2. QED BY <1>4, <2>1
  <1>6. CASE stepped.p.cancelNextWalk
    <2>1. PICK q \in Members : q = stepped.p
      BY <1>4 DEF Sound
    <2>2. PICK u : u = With([q EXCEPT !.listWalkDir = 0, !.cancelNextWalk = FALSE], stepped.es)
      OBVIOUS
    <2>3. TakeStep(s, step) = OnWalkAborted(u)
      BY <1>1, <1>3, <1>6, <2>1, <2>2 DEF TakeStep
    <2>4. /\ u.p \in Members /\ u.p.eventWalk = q.eventWalk
          /\ u.p.walkTask = q.walkTask /\ u.p.walkTaskEvent = q.walkTaskEvent
      <3>1. 0 \in 0 .. MaxDirs
        BY DEF WalkConstants
      <3>2. QED BY <2>2, <3>1 DEF With, Members
    <2>5. u.es = stepped.es
      BY <2>2 DEF With
    <2>6. Sound(u)
      BY <1>4, <2>1, <2>4, <2>5 DEF Sound
    <2>7. PICK t : t = OnWalkAborted(u)
      OBVIOUS
    <2>8. Sound(t) /\ IdsOf(t.es) \subseteq IdsOf(stepped.es) /\ t.p.eventWalk = stepped.p.eventWalk
      BY <2>1, <2>4, <2>5, <2>6, <2>7, OnWalkAbortedSound
    <2>9. Uses(t, n + 1)
      BY <1>4, <2>8, Fewer
    <2>10. t.p.eventWalk # 0 \/ directed => Uses(t, n)
      BY <1>4, <2>8, Fewer
    <2>11. QED BY <1>4, <2>3, <2>7, <2>8, <2>9, <2>10
  <1>7. QED BY <1>5, <1>6

(* The walk goes on with an event of its own.                              *)
LEMMA AddEventWalkSound ==
  ASSUME WalkConstants, NEW s, Sound(s), NEW n \in Nat, Uses(s, n), n < MaxEvents,
         NEW firstStep \in BOOLEAN, firstStep => s.p.listWalkDir > 0,
         NEW step \in Steps, dying \in BOOLEAN
  PROVE  LET r == AddEventWalk(s, firstStep, step)
         IN  /\ Sound(r) /\ Uses(r, n + 1)
             /\ Chained(s) => Chained(r)
  <1>1. PICK p \in Members : p = s.p
    BY DEF Sound
  <1>2. PICK t : t = With([p EXCEPT !.cancelNextWalk = FALSE], s.es)
    OBVIOUS
  <1>3. /\ t.p \in Members /\ t.p.eventWalk = p.eventWalk
        /\ t.p.walkTask = p.walkTask /\ t.p.walkTaskEvent = p.walkTaskEvent
        /\ t.p.listWalkDir = p.listWalkDir
    BY <1>2 DEF With, Members
  <1>4. t.es = s.es
    BY <1>2 DEF With
  <1>5. Sound(t) /\ Uses(t, n)
    BY <1>1, <1>3, <1>4 DEF Sound, Uses
  <1>6. CASE t.p.eventWalk # 0
    <2>1. AddEventWalk(s, firstStep, step) = t
      BY <1>1, <1>2, <1>6 DEF AddEventWalk
    <2>2. Chained(s) => Chained(t)
      BY <1>1, <1>3, <1>4 DEF Chained
    <2>3. Uses(t, n + 1)
      <3>1. Cardinality(IdsOf(t.es)) \in Nat
        BY <1>5, Finite DEF Sound
      <3>2. QED BY <1>5, <3>1 DEF Uses
    <2>4. QED BY <1>5, <2>1, <2>2, <2>3
  <1>7. CASE t.p.eventWalk = 0
    <2>1. PICK ticks : ticks = GetEventStepTicks(t.p, firstStep)
      OBVIOUS
    <2>2. /\ ticks \in 1 .. LongestDelay
          /\ ticks = 1 => t.p.listWalkDir > 0 \/ GetWalkDelay(t.p) > 0
      <3>1. t.p.since \in 0 .. LongestDelay /\ t.p.lastStepCost \in 1 .. 3
        BY <1>3 DEF Members
      <3>2. PICK cost \in 1 .. 3 : cost = t.p.lastStepCost
        BY <3>1
      <3>3. StepDuration * cost \in 2 .. LongestDelay
        <4>1. cost = 1 \/ cost = 2 \/ cost = 3
          OBVIOUS
        <4>2. QED BY <4>1 DEF LongestDelay, WalkConstants
      <3>4. PICK longest \in 2 .. LongestDelay : longest = StepDuration * cost
        BY <3>3
      <3>5. GetWalkDelay(t.p) = longest - t.p.since
        BY <3>2, <3>4 DEF GetWalkDelay
      <3>6. ticks = IF GetWalkDelay(t.p) > 0 THEN GetWalkDelay(t.p)
                    ELSE IF firstStep THEN 1 ELSE longest
        BY <2>1, <3>2, <3>4 DEF GetEventStepTicks
      <3>7. LongestDelay \in Nat
        BY DEF LongestDelay, WalkConstants
      <3>8. firstStep => t.p.listWalkDir > 0
        BY <1>1, <1>3
      <3>9. QED BY <3>1, <3>5, <3>6, <3>7, <3>8
    <2>3. PICK u : u = IF ticks = 1 /\ ~dying THEN TakeStep(t, step) ELSE t
      OBVIOUS
    <2>4. Sound(u) /\ Uses(u, n) /\ u.p.eventWalk = 0
      <3>1. CASE ticks = 1 /\ ~dying
        BY <1>5, <1>7, <2>2, <2>3, <3>1, TakeStepSound DEF WalkConstants
      <3>2. CASE ~(ticks = 1 /\ ~dying)
        BY <1>5, <1>7, <2>3, <3>2
      <3>3. QED BY <3>1, <3>2
    <2>5. Uses(u, MaxEvents)
      <3>1. Cardinality(IdsOf(u.es)) \in Nat
        BY <2>4, Finite DEF Sound
      <3>2. QED BY <2>4, <3>1 DEF Uses, WalkConstants
    <2>6. PICK q \in Members : q = u.p
      BY <2>4 DEF Sound
    <2>7. PICK id \in Ids : /\ id = NewId(u)
                            /\ \A e \in u.es : e.id # id
                            /\ id # q.walkTaskEvent
      BY <2>4, <2>5, <2>6, NewIdFresh
    <2>8. PICK f : f = [id |-> id, ticks |-> ticks, handed |-> FALSE, does |-> "walk"]
      OBVIOUS
    <2>9. f \in Events /\ f.id = id /\ f.does = "walk"
      BY <2>2, <2>8 DEF Events, Delays, LongestDelay, WalkConstants
    <2>10. PICK r : r = With([q EXCEPT !.eventWalk = id], u.es \union {f})
      OBVIOUS
    <2>11. AddEventWalk(s, firstStep, step) = r
      BY <1>1, <1>2, <1>7, <2>1, <2>3, <2>6, <2>7, <2>8, <2>10 DEF AddEventWalk, Scheduled
    <2>12. /\ r.p \in Members /\ r.p.eventWalk = id
           /\ r.p.walkTask = q.walkTask /\ r.p.walkTaskEvent = q.walkTaskEvent
      BY <2>10 DEF With, Members
    <2>13. r.es = u.es \union {f}
      BY <2>10 DEF With
    <2>14. Replaceable(r.es, q.walkTask, q.walkTaskEvent)
      <3>1. Replaceable(u.es, q.walkTask, q.walkTaskEvent)
        BY <2>4, <2>6 DEF Sound
      <3>2. QED BY <2>7, <2>9, <2>13, <3>1 DEF Replaceable, WalkConstants
    <2>15. Sound(r)
      BY <2>4, <2>9, <2>12, <2>13, <2>14 DEF Sound
    <2>16. Uses(r, n + 1)
      <3>1. Cardinality(IdsOf(u.es \union {f})) <= n + 1
        BY <2>4, <2>9, AddsOne
      <3>2. QED BY <2>13, <3>1 DEF Uses
    <2>17. Chained(r)
      BY <2>9, <2>12, <2>13 DEF Chained
    <2>18. QED BY <2>11, <2>15, <2>16, <2>17
  <1>8. QED BY <1>6, <1>7

(* Creature::startAutoWalk needs one number, rooted or not.                *)
LEMMA StartAutoWalkSound ==
  ASSUME WalkConstants, NEW s, Sound(s), NEW n \in Nat, Uses(s, n), n < MaxEvents,
         NEW k \in 0 .. MaxDirs, NEW rooted \in BOOLEAN, NEW step \in Steps, dying \in BOOLEAN
  PROVE  LET r == StartAutoWalk(s, k, rooted, step)
         IN  /\ Sound(r) /\ Uses(r, n + 1)
             /\ Chained(s) => Chained(r)
  <1>1. CASE rooted
    <2>1. StartAutoWalk(s, k, rooted, step) = s
      BY <1>1 DEF StartAutoWalk
    <2>2. Cardinality(IdsOf(s.es)) \in Nat
      BY Finite DEF Sound
    <2>3. Uses(s, n + 1)
      BY <2>2 DEF Uses
    <2>4. QED BY <2>1, <2>3
  <1>2. CASE ~rooted
    <2>1. PICK p \in Members : p = s.p
      BY DEF Sound
    <2>2. PICK t : t = With([p EXCEPT !.listWalkDir = k], s.es)
      OBVIOUS
    <2>3. /\ t.p \in Members /\ t.p.eventWalk = p.eventWalk /\ t.p.listWalkDir = k
          /\ t.p.walkTask = p.walkTask /\ t.p.walkTaskEvent = p.walkTaskEvent
      BY <2>2 DEF With, Members
    <2>4. t.es = s.es
      BY <2>2 DEF With
    <2>5. Sound(t) /\ Uses(t, n)
      BY <2>1, <2>3, <2>4 DEF Sound, Uses
    <2>6. Chained(s) => Chained(t)
      BY <2>1, <2>3, <2>4 DEF Chained
    <2>7. StartAutoWalk(s, k, rooted, step) = AddEventWalk(t, k = 1, step)
      BY <1>2, <2>1, <2>2 DEF StartAutoWalk
    <2>8. PICK first \in BOOLEAN : first = (k = 1)
      OBVIOUS
    <2>9. first => t.p.listWalkDir > 0
      <3>1. k = 1 => t.p.listWalkDir > 0
        BY <2>3
      <3>2. QED BY <2>8, <3>1, Zenon
    <2>10. QED BY <2>5, <2>6, <2>7, <2>8, <2>9, AddEventWalkSound
  <1>3. QED BY <1>1, <1>2

(* The event of the walk is gone, so that the walk is over or goes on with *)
(* another one.                                                            *)
LEMMA OnCreatureWalkSound ==
  ASSUME WalkConstants, NEW s, Sound(s), NEW n \in Nat, Uses(s, n), n < MaxEvents,
         NEW step \in Steps, dying \in BOOLEAN
  PROVE  LET r == OnCreatureWalk(s, step)
         IN  Sound(r) /\ Uses(r, n + 1) /\ Chained(r)
  <1>1. PICK t : t = TakeStep(s, step)
    OBVIOUS
  <1>2. Sound(t) /\ Uses(t, n + 1) /\ (t.p.eventWalk # 0 => Uses(t, n))
    BY <1>1, TakeStepSound DEF WalkConstants
  <1>3. CASE t.p.eventWalk = 0
    <2>1. OnCreatureWalk(s, step) = t
      BY <1>1, <1>3 DEF OnCreatureWalk
    <2>2. QED BY <1>2, <1>3, <2>1 DEF Chained
  <1>4. CASE t.p.eventWalk # 0
    <2>1. PICK p \in Members : p = t.p
      BY <1>2 DEF Sound
    <2>2. PICK u : u = With([p EXCEPT !.eventWalk = 0], t.es)
      OBVIOUS
    <2>3. /\ u.p \in Members /\ u.p.eventWalk = 0
          /\ u.p.walkTask = p.walkTask /\ u.p.walkTaskEvent = p.walkTaskEvent
      BY <2>2 DEF With, Members
    <2>4. u.es = t.es
      BY <2>2 DEF With
    <2>5. Sound(u) /\ Uses(u, n) /\ Chained(u)
      BY <1>2, <1>4, <2>1, <2>3, <2>4 DEF Sound, Uses, Chained
    <2>6. OnCreatureWalk(s, step) = AddEventWalk(u, FALSE, step)
      BY <1>1, <1>4, <2>1, <2>2 DEF OnCreatureWalk
    <2>7. QED BY <2>5, <2>6, AddEventWalkSound
  <1>5. QED BY <1>3, <1>4

(* Creature::setSpeed stops the walk's event or makes one.                 *)
LEMMA SetSpeedSound ==
  ASSUME WalkConstants, NEW s, Sound(s), NEW n \in Nat, Uses(s, n), n < MaxEvents,
         NEW stopped \in BOOLEAN, NEW step \in Steps, dying \in BOOLEAN
  PROVE  LET r == SetSpeed(s, stopped, step)
         IN  /\ Sound(r) /\ Uses(r, n + 1)
             /\ Chained(s) => Chained(r)
  <1>1. PICK p \in Members : p = s.p
    BY DEF Sound
  <1>2. PICK t : t = With([p EXCEPT !.stopped = stopped], s.es)
    OBVIOUS
  <1>3. /\ t.p \in Members /\ t.p.eventWalk = p.eventWalk
        /\ t.p.walkTask = p.walkTask /\ t.p.walkTaskEvent = p.walkTaskEvent
    BY <1>2 DEF With, Members
  <1>4. t.es = s.es
    BY <1>2 DEF With
  <1>5. Sound(t) /\ Uses(t, n) /\ (Chained(s) => Chained(t))
    BY <1>1, <1>3, <1>4 DEF Sound, Uses, Chained
  <1>6. Uses(t, n + 1)
    <2>1. Cardinality(IdsOf(t.es)) \in Nat
      BY <1>5, Finite DEF Sound
    <2>2. QED BY <1>5, <2>1 DEF Uses
  <1>7. CASE stopped
    <2>1. PICK u : u = StopEventWalk(t)
      OBVIOUS
    <2>2. Sound(u) /\ IdsOf(u.es) \subseteq IdsOf(t.es) /\ u.p.eventWalk = 0
      BY <1>5, <2>1, StopEventWalkSound
    <2>3. Uses(u, n + 1)
      BY <1>5, <1>6, <2>2, Fewer
    <2>4. PICK q \in Members : q = u.p
      BY <2>2 DEF Sound
    <2>5. PICK r : r = With([q EXCEPT !.cancelNextWalk = TRUE], u.es)
      OBVIOUS
    <2>6. /\ r.p \in Members /\ r.p.eventWalk = q.eventWalk
          /\ r.p.walkTask = q.walkTask /\ r.p.walkTaskEvent = q.walkTaskEvent
      BY <2>5 DEF With, Members
    <2>7. r.es = u.es
      BY <2>5 DEF With
    <2>8. Sound(r) /\ Uses(r, n + 1) /\ Chained(r)
      BY <2>2, <2>3, <2>4, <2>6, <2>7 DEF Sound, Uses, Chained
    <2>9. SetSpeed(s, stopped, step) = r
      BY <1>1, <1>2, <1>7, <2>1, <2>4, <2>5 DEF SetSpeed
    <2>10. QED BY <2>8, <2>9
  <1>8. CASE ~stopped /\ p.stopped /\ p.listWalkDir > 0
    <2>1. SetSpeed(s, stopped, step) = AddEventWalk(t, FALSE, step)
      BY <1>1, <1>2, <1>8 DEF SetSpeed
    <2>2. QED BY <1>5, <2>1, AddEventWalkSound
  <1>9. CASE ~stopped /\ ~(p.stopped /\ p.listWalkDir > 0)
    <2>1. SetSpeed(s, stopped, step) = t
      BY <1>1, <1>2, <1>9 DEF SetSpeed
    <2>2. QED BY <1>5, <1>6, <2>1
  <1>10. QED BY <1>7, <1>8, <1>9

(* An event that is handed over keeps its number and what it does.         *)
Handed(e) == [e EXCEPT !.handed = TRUE]

(* An event that is handed over keeps its number and what it does.         *)
LEMMA HandedKeeps ==
  ASSUME NEW e \in Events
  PROVE  /\ Handed(e) \in Events /\ Handed(e).id = e.id
         /\ Handed(e).does = e.does /\ Handed(e).handed
  BY DEF Handed, Events

(* So do all those that the scheduler hands over meanwhile.                *)
LEMMA HandOversKeep ==
  ASSUME Sound(With(w, events)), NEW es \in HandOvers
  PROVE  /\ Sound(With(w, es))
         /\ IdsOf(es) = IdsOf(events)
         /\ \A e \in events : e \in es \/ Handed(e) \in es
         /\ Chained(With(w, events)) => Chained(With(w, es))
  <1>1. PICK late \in SUBSET {e \in events : e.ticks = 0 /\ ~e.handed} :
          es = (events \ late) \union {Handed(e) : e \in late}
    BY DEF HandOvers, Handed
  <1>2. w \in Members /\ events \in SUBSET Events
    BY DEF Sound, With
  <1>3. Replaceable(events, w.walkTask, w.walkTaskEvent)
    BY DEF Sound, With
  <1>4. \A e \in events : /\ Handed(e) \in Events /\ Handed(e).id = e.id
                          /\ Handed(e).does = e.does /\ Handed(e).handed
    BY <1>2, HandedKeeps
  <1>5. \A e \in es : \E d \in events :
           /\ e.id = d.id /\ e.does = d.does /\ (~e.handed => ~d.handed)
           /\ d \in late => e = Handed(d)
           /\ d \notin late => e = d
    BY <1>1, <1>3, <1>4 DEF Replaceable
  <1>6. \A d \in events : \E e \in es : /\ e.id = d.id /\ e.does = d.does
                                        /\ e = d \/ e = Handed(d)
    BY <1>1, <1>4
  <1>7. es \in SUBSET Events
    BY <1>1, <1>2, <1>4
  <1>8. Replaceable(es, w.walkTask, w.walkTaskEvent)
    <2>1. \A e, f \in es : e.id = f.id => e = f
      <3>1. SUFFICES ASSUME NEW e \in es, NEW f \in es, e.id = f.id PROVE e = f
        OBVIOUS
      <3>2. PICK d \in events : /\ e.id = d.id
                                /\ d \in late => e = Handed(d)
                                /\ d \notin late => e = d
        BY <1>5
      <3>3. PICK g \in events : /\ f.id = g.id
                                /\ g \in late => f = Handed(g)
                                /\ g \notin late => f = g
        BY <1>5
      <3>4. d = g
        BY <1>3, <3>1, <3>2, <3>3 DEF Replaceable
      <3>5. QED BY <3>2, <3>3, <3>4
    <2>2. \A e \in es : e.does = "walk" => e.id # w.walkTaskEvent
      BY <1>3, <1>5 DEF Replaceable
    <2>3. \A e \in es : e.does \in Actions =>
             /\ ~e.handed => e.id = w.walkTaskEvent /\ w.walkTask = NoAction
             /\ e.does # w.walkTask
      BY <1>3, <1>5 DEF Replaceable
    <2>4. QED BY <2>1, <2>2, <2>3 DEF Replaceable
  <1>9. Sound(With(w, es))
    BY <1>2, <1>7, <1>8 DEF Sound, With
  <1>10. IdsOf(es) = IdsOf(events)
    BY <1>5, <1>6 DEF IdsOf
  <1>11. Chained(With(w, events)) => Chained(With(w, es))
    BY <1>6 DEF Chained, With
  <1>12. \A e \in events : e \in es \/ Handed(e) \in es
    BY <1>1
  <1>13. QED BY <1>9, <1>10, <1>11, <1>12

(* The event that runs leaves a number free.                               *)
LEMMA AfterKeeps ==
  ASSUME WalkConstants, Sound(With(w, events)), Uses(With(w, events), MaxEvents),
         NEW es \in HandOvers, NEW e \in events
  PROVE  LET s == With(w, After(e, es))
         IN  /\ Sound(s)
             /\ MaxEvents - 1 \in Nat /\ Uses(s, MaxEvents - 1)
             /\ \A d \in es : d.id # e.id => d \in s.es
             /\ s.es \subseteq es
  <1> DEFINE s == With(w, After(e, es))
             left == IdsOf(events) \ {e.id}
  <1>1. /\ Sound(With(w, es)) /\ IdsOf(es) = IdsOf(events)
        /\ e \in es \/ Handed(e) \in es
    BY HandOversKeep
  <1>2. events \in SUBSET Events /\ es \in SUBSET Events
    BY <1>1 DEF Sound, With
  <1>3. After(e, es) = es \ {e, Handed(e)}
    BY DEF After, Handed
  <1>4. Handed(e).id = e.id
    BY <1>2, HandedKeeps
  <1>5. s.es = es \ {e, Handed(e)} /\ s.p = w
    BY <1>3 DEF With
  <1>6. \A d \in es : d.id = e.id => d \in {e, Handed(e)}
    <2>1. \A d, f \in es : d.id = f.id => d = f
      BY <1>1 DEF Sound, Replaceable, With
    <2>2. QED BY <1>1, <1>4, <2>1
  <1>7. IdsOf(s.es) \subseteq left
    BY <1>1, <1>5, <1>6 DEF IdsOf
  <1>8. Sound(s)
    BY <1>1, <1>5 DEF Sound, With, Replaceable
  <1>9. e.id \in IdsOf(events)
    BY DEF IdsOf
  <1>10. /\ IsFiniteSet(IdsOf(events)) /\ Cardinality(IdsOf(events)) \in Nat
         /\ Cardinality(IdsOf(events)) <= MaxEvents
    BY <1>2, Finite DEF Uses, With
  <1>11. IsFiniteSet(left) /\ Cardinality(left) = Cardinality(IdsOf(events)) - 1
    BY <1>9, <1>10, FS_RemoveElement
  <1>12. Cardinality(left) \in Nat
    BY <1>11, FS_CardinalityType
  <1>13. Cardinality(IdsOf(s.es)) <= Cardinality(left)
    BY <1>7, <1>11, FS_Subset
  <1>14. Cardinality(IdsOf(s.es)) \in Nat
    BY <1>8, Finite DEF Sound
  <1> HIDE DEF left, s
  <1>15. MaxEvents - 1 \in Nat /\ Uses(s, MaxEvents - 1)
    BY <1>10, <1>11, <1>12, <1>13, <1>14 DEF Uses, WalkConstants
  <1>16. QED BY <1>4, <1>5, <1>8, <1>15 DEF s

(* Room for another event is room for another number.                      *)
LEMMA RoomLeft ==
  ASSUME WalkConstants, Sound(With(w, events)), Room
  PROVE  MaxEvents - 1 \in Nat /\ Uses(With(w, events), MaxEvents - 1)
  <1>1. /\ events \in SUBSET Events
        /\ \A e, f \in events : e.id = f.id => e = f
    BY DEF Sound, Replaceable, With
  <1>2. IsFiniteSet(IdsOf(events)) /\ Cardinality(IdsOf(events)) \in Nat
    BY <1>1, Finite
  <1>3. PICK num : num = [e \in events |-> e.id]
    OBVIOUS
  <1>4. num \in Bijection(events, IdsOf(events))
    BY <1>1, <1>3 DEF Bijection, Injection, Surjection, IsInjective, IdsOf
  <1>5. num \in Injection(events, IdsOf(events)) /\ num \in Surjection(events, IdsOf(events))
    BY <1>4 DEF Bijection
  <1>6. Cardinality(events) = Cardinality(IdsOf(events))
    BY <1>2, <1>5, FS_Injection
  <1>7. QED BY <1>2, <1>6 DEF Uses, Room, With, WalkConstants

(* What an action has to show of the player that it leaves.                *)
LEMMA BecomesInv ==
  ASSUME WalkConstants, NEW s, Sound(s), Uses(s, MaxEvents), Becomes(s),
         ~dying' => Chained(s),
         posted' \in [1 .. MaxDirs -> 0 .. MaxPosted], dying' \in BOOLEAN
  PROVE  WalkInv'
  <1>1. w' = s.p /\ events' = s.es
    BY DEF Becomes
  <1>2. WalkTypeOK'
    BY <1>1 DEF WalkTypeOK, Sound
  <1>3. Sound(With(w, events))'
    BY <1>1 DEF Sound, With
  <1>4. Uses(With(w, events), MaxEvents)'
    BY <1>1 DEF Uses, With
  <1>5. (~dying => Chained(With(w, events)))'
    BY <1>1 DEF Chained, With
  <1>6. QED BY <1>2, <1>3, <1>4, <1>5 DEF WalkInv

(* The player with the events as they are once some have been handed over. *)
LEMMA HandOversInv ==
  ASSUME WalkConstants, WalkInv, NEW es \in HandOvers
  PROVE  LET s == With(w, es)
         IN  /\ Sound(s) /\ Uses(s, MaxEvents)
             /\ Room => MaxEvents - 1 \in Nat /\ Uses(s, MaxEvents - 1)
             /\ ~dying => Chained(s)
             /\ s.p = w /\ s.es = es
  <1>1. /\ Sound(With(w, events)) /\ Uses(With(w, events), MaxEvents)
        /\ ~dying => Chained(With(w, events))
    BY DEF WalkInv
  <1>2. /\ Sound(With(w, es)) /\ IdsOf(es) = IdsOf(events)
        /\ Chained(With(w, events)) => Chained(With(w, es))
    BY <1>1, HandOversKeep
  <1>3. With(w, es).p = w /\ With(w, es).es = es /\ With(w, events).es = events
    BY DEF With
  <1>4. \A n : Uses(With(w, es), n) <=> Uses(With(w, events), n)
    BY <1>2, <1>3 DEF Uses
  <1>5. Room => MaxEvents - 1 \in Nat /\ Uses(With(w, events), MaxEvents - 1)
    BY <1>1, RoomLeft
  <1>6. QED BY <1>1, <1>2, <1>3, <1>4, <1>5

(* The handlers.  A walk that starts, however it does.                     *)
LEMMA StartAutoWalkInv ==
  ASSUME WalkConstants, NEW s, Sound(s), MaxEvents - 1 \in Nat, Uses(s, MaxEvents - 1),
         dying \in BOOLEAN, dying' = dying, ~dying => Chained(s),
         posted' \in [1 .. MaxDirs -> 0 .. MaxPosted],
         NEW k \in 0 .. MaxDirs, NEW rooted \in BOOLEAN, NEW step \in Steps,
         Becomes(StartAutoWalk(s, k, rooted, step))
  PROVE  WalkInv'
  <1>1. PICK r : r = StartAutoWalk(s, k, rooted, step)
    OBVIOUS
  <1>2. PICK n \in Nat : n = MaxEvents - 1 /\ n < MaxEvents /\ n + 1 = MaxEvents
    BY DEF WalkConstants
  <1>3. Sound(r) /\ Uses(r, MaxEvents) /\ (Chained(s) => Chained(r))
    BY <1>1, <1>2, StartAutoWalkSound
  <1>4. QED BY <1>1, <1>3, BecomesInv

(* The dispatcher runs a posted playerAutoWalk.                            *)
LEMMA AutoWalkInv ==
  ASSUME WalkConstants, WalkInv, NEW k \in 1 .. MaxDirs, AutoWalk(k),
         posted' \in [1 .. MaxDirs -> 0 .. MaxPosted]
  PROVE  WalkInv'
  <1>1. PICK es \in HandOvers, rooted \in BOOLEAN, step \in Steps :
          Becomes(StartAutoWalk(With(w, es), k, rooted, step))
    BY DEF AutoWalk
  <1>2. Room /\ dying' = dying /\ dying \in BOOLEAN
    BY DEF AutoWalk, WalkInv, WalkTypeOK
  <1>3. QED BY <1>1, <1>2, HandOversInv, StartAutoWalkInv

(* SetNextWalkActionTask leaves the walk alone.                            *)
LEMMA SetNextWalkActionTaskKeeps ==
  ASSUME WalkConstants, NEW s, Sound(s), NEW task \in Actions \union {NoAction},
         \A e \in s.es : e.does \in Actions => e.does # task
  PROVE  LET t == SetNextWalkActionTask(s, task)
         IN  /\ Sound(t)
             /\ \A n \in Nat : Uses(s, n) => Uses(t, n)
             /\ Chained(s) => Chained(t)
  <1>1. PICK t : t = SetNextWalkActionTask(s, task)
    OBVIOUS
  <1>2. /\ Sound(t) /\ IdsOf(t.es) \subseteq IdsOf(s.es)
        /\ t.p.eventWalk = s.p.eventWalk
        /\ \A e \in s.es : e.does = "walk" => e \in t.es
    BY <1>1, SetNextWalkActionTaskSound
  <1>3. \A n \in Nat : Uses(s, n) => Uses(t, n)
    BY <1>2, Fewer
  <1>4. Chained(s) => Chained(t)
    BY <1>2 DEF Chained
  <1>5. QED BY <1>1, <1>2, <1>3, <1>4

(* Game::playerMove.                                                       *)
LEMMA PlayerMoveInv == ASSUME WalkConstants, WalkInv, PlayerMove PROVE WalkInv'
  <1>1. PICK es \in HandOvers, rooted \in BOOLEAN, step \in Steps :
          Becomes(StartAutoWalk(SetNextWalkActionTask(With(w, es), NoAction), 1, rooted, step))
    BY DEF PlayerMove
  <1>2. /\ Room /\ dying' = dying /\ dying \in BOOLEAN
        /\ posted' \in [1 .. MaxDirs -> 0 .. MaxPosted]
    BY DEF PlayerMove, WalkInv, WalkTypeOK
  <1>3. PICK t : t = SetNextWalkActionTask(With(w, es), NoAction)
    OBVIOUS
  <1>4. MaxEvents - 1 \in Nat
    BY <1>2, HandOversInv
  <1>5. Sound(t) /\ Uses(t, MaxEvents - 1) /\ (~dying => Chained(t))
    BY <1>2, <1>3, <1>4, HandOversInv, SetNextWalkActionTaskKeeps DEF WalkConstants
  <1>6. 1 \in 1 .. MaxDirs
    BY DEF WalkConstants
  <1>7. QED BY <1>1, <1>2, <1>3, <1>4, <1>5, <1>6, StartAutoWalkInv

(* Game::playerStopAutoWalk.                                               *)
LEMMA PlayerStopAutoWalkInv == ASSUME WalkConstants, WalkInv, PlayerStopAutoWalk PROVE WalkInv'
  <1>1. PICK es \in HandOvers : Becomes(With([w EXCEPT !.cancelNextWalk = TRUE], es))
    BY DEF PlayerStopAutoWalk
  <1>2. PICK s : s = With([w EXCEPT !.cancelNextWalk = TRUE], es)
    OBVIOUS
  <1>3. w \in Members /\ dying \in BOOLEAN /\ posted \in [1 .. MaxDirs -> 0 .. MaxPosted]
    BY DEF WalkInv, WalkTypeOK
  <1>4. /\ s.p \in Members /\ s.p.eventWalk = w.eventWalk
        /\ s.p.walkTask = w.walkTask /\ s.p.walkTaskEvent = w.walkTaskEvent
    BY <1>2, <1>3 DEF With, Members
  <1>5. s.es = es
    BY <1>2 DEF With
  <1>6. Sound(s) /\ Uses(s, MaxEvents) /\ (~dying => Chained(s))
    BY <1>4, <1>5, HandOversInv DEF Sound, Uses, Chained
  <1>7. dying' = dying /\ posted' = posted
    BY DEF PlayerStopAutoWalk
  <1>8. QED BY <1>1, <1>2, <1>3, <1>6, <1>7, BecomesInv

(* A player who is too far away posts a walk and leaves an action for its  *)
(* end.                                                                    *)
LEMMA TooFarInv ==
  ASSUME WalkConstants, NEW es, NEW k \in 1 .. MaxDirs, NEW action \in Actions,
         Sound(With(w, es)), Uses(With(w, es), MaxEvents), ~dying => Chained(With(w, es)),
         dying \in BOOLEAN, posted \in [1 .. MaxDirs -> 0 .. MaxPosted],
         TooFar(es, k, action)
  PROVE  WalkInv'
  <1>1. /\ action \notin InUse(es) /\ dying' = dying
        /\ Becomes(SetNextWalkActionTask(With(w, es), action))
    BY DEF TooFar
  <1>2. posted' \in [1 .. MaxDirs -> 0 .. MaxPosted]
    BY DEF TooFar, WalkConstants
  <1>3. \A e \in With(w, es).es : e.does # action
    BY <1>1 DEF InUse, With
  <1>4. PICK t : t = SetNextWalkActionTask(With(w, es), action)
    OBVIOUS
  <1>5. Sound(t) /\ Uses(t, MaxEvents) /\ (~dying => Chained(t))
    BY <1>3, <1>4, SetNextWalkActionTaskKeeps DEF WalkConstants
  <1>6. QED BY <1>1, <1>2, <1>4, <1>5, BecomesInv

(* The same when a packet asks for it.                                     *)
LEMMA PlayerUsesFarInv ==
  ASSUME WalkConstants, WalkInv, NEW k \in 1 .. MaxDirs, NEW action \in Actions,
         PlayerUsesFar(k, action)
  PROVE  WalkInv'
  <1>1. PICK es \in HandOvers : TooFar(es, k, action)
    BY DEF PlayerUsesFar
  <1>2. dying \in BOOLEAN /\ posted \in [1 .. MaxDirs -> 0 .. MaxPosted]
    BY DEF WalkInv, WalkTypeOK
  <1>3. QED BY <1>1, <1>2, HandOversInv, TooFarInv

(* The event of a walk runs Game::checkCreatureWalk.                       *)
LEMMA CheckCreatureWalkInv ==
  ASSUME WalkConstants, WalkInv, NEW e \in events, CheckCreatureWalk(e)
  PROVE  WalkInv'
  <1>1. PICK es \in HandOvers, step \in Steps :
          LET s == With(w, After(e, es))
          IN  Becomes(IF dying THEN s ELSE OnCreatureWalk(s, step))
    BY DEF CheckCreatureWalk
  <1>2. /\ dying' = dying /\ dying \in BOOLEAN
        /\ posted' \in [1 .. MaxDirs -> 0 .. MaxPosted]
    BY DEF CheckCreatureWalk, WalkInv, WalkTypeOK
  <1>3. PICK s : s = With(w, After(e, es))
    OBVIOUS
  <1>4. Sound(s) /\ MaxEvents - 1 \in Nat /\ Uses(s, MaxEvents - 1)
    BY <1>3, AfterKeeps DEF WalkInv
  <1>5. PICK n \in Nat : n = MaxEvents - 1 /\ n < MaxEvents /\ n + 1 = MaxEvents
    BY <1>4 DEF WalkConstants
  <1>6. CASE dying
    <2>1. Cardinality(IdsOf(s.es)) \in Nat
      BY <1>4, Finite DEF Sound
    <2>2. Uses(s, MaxEvents)
      BY <1>4, <1>5, <2>1 DEF Uses, WalkConstants
    <2>3. QED BY <1>1, <1>2, <1>3, <1>4, <1>6, <2>2, BecomesInv
  <1>7. CASE ~dying
    <2>1. PICK r : r = OnCreatureWalk(s, step)
      OBVIOUS
    <2>2. Sound(r) /\ Uses(r, MaxEvents) /\ Chained(r)
      BY <1>2, <1>4, <1>5, <2>1, OnCreatureWalkSound
    <2>3. QED BY <1>1, <1>2, <1>3, <1>7, <2>1, <2>2, BecomesInv
  <1>8. QED BY <1>6, <1>7

(* The event of an action runs; it may find itself too far again.          *)
LEMMA RunActionInv ==
  ASSUME WalkConstants, WalkInv, NEW e \in events, RunAction(e)
  PROVE  WalkInv'
  <1>1. PICK es \in HandOvers :
          \/ Becomes(With(w, After(e, es))) /\ UNCHANGED <<posted, dying>>
          \/ \E k \in 1 .. MaxDirs, action \in Actions : TooFar(After(e, es), k, action)
    BY DEF RunAction
  <1>2. dying \in BOOLEAN /\ posted \in [1 .. MaxDirs -> 0 .. MaxPosted]
    BY DEF WalkInv, WalkTypeOK
  <1>3. PICK s : s = With(w, After(e, es))
    OBVIOUS
  <1>4. /\ Sound(s) /\ MaxEvents - 1 \in Nat /\ Uses(s, MaxEvents - 1)
        /\ \A d \in es : d.id # e.id => d \in s.es
    BY <1>3, AfterKeeps DEF WalkInv
  <1>5. Uses(s, MaxEvents)
    <2>1. Cardinality(IdsOf(s.es)) \in Nat
      BY <1>4, Finite DEF Sound
    <2>2. QED BY <1>4, <2>1 DEF Uses, WalkConstants
  <1>6. /\ Sound(With(w, es)) /\ With(w, es).es = es /\ With(w, es).p = w
        /\ ~dying => Chained(With(w, es))
    BY HandOversInv
  <1>7. \A d \in es : d.does = "walk" => d.id # e.id
    <2>1. e.does \in Actions /\ e \in Events
      BY DEF RunAction, WalkInv, WalkTypeOK
    <2>2. PICK f \in {e, Handed(e)} : f \in es
      BY HandOversKeep DEF WalkInv
    <2>3. f.id = e.id /\ f.does = e.does
      BY <2>1, <2>2, HandedKeeps
    <2>4. \A d \in es : d.id = f.id => d = f
      BY <1>6, <2>2 DEF Sound, Replaceable
    <2>5. QED BY <2>1, <2>3, <2>4 DEF WalkConstants
  <1>8. s.p = w
    BY <1>3 DEF With
  <1>9. ~dying => Chained(s)
    BY <1>4, <1>6, <1>7, <1>8 DEF Chained
  <1>10. CASE Becomes(s) /\ UNCHANGED <<posted, dying>>
    BY <1>2, <1>4, <1>5, <1>9, <1>10, BecomesInv
  <1>11. CASE \E k \in 1 .. MaxDirs, action \in Actions : TooFar(After(e, es), k, action)
    BY <1>2, <1>3, <1>4, <1>5, <1>9, <1>11, TooFarInv
  <1>12. QED BY <1>1, <1>3, <1>10, <1>11

(* A move that is not the player's own.                                    *)
LEMMA OnCreatureMoveInv ==
  ASSUME WalkConstants, WalkInv, NEW es \in HandOvers, NEW step \in Steps,
         Becomes(OnCreatureMove(With(w, es), step)), posted' = posted, dying' \in BOOLEAN,
         dying' = dying \/ step = "teleport"
  PROVE  WalkInv'
  <1>1. PICK s : s = With(w, es)
    OBVIOUS
  <1>2. Sound(s) /\ Uses(s, MaxEvents) /\ (~dying => Chained(s))
    BY <1>1, HandOversInv
  <1>3. PICK t : t = OnCreatureMove(s, step)
    OBVIOUS
  <1>4. /\ Sound(t) /\ IdsOf(t.es) \subseteq IdsOf(s.es)
        /\ t.p.eventWalk \in {0, s.p.eventWalk}
        /\ t.p.eventWalk # 0 => t.es = s.es
        /\ step = "teleport" => t.p.eventWalk = 0
    BY <1>2, <1>3, OnCreatureMoveSound
  <1>5. Uses(t, MaxEvents)
    BY <1>2, <1>4, Fewer DEF WalkConstants
  <1>6. ~dying' => Chained(t)
    BY <1>2, <1>4 DEF Chained
  <1>7. posted' \in [1 .. MaxDirs -> 0 .. MaxPosted]
    BY DEF WalkInv, WalkTypeOK
  <1>8. QED BY <1>1, <1>3, <1>4, <1>5, <1>6, <1>7, BecomesInv

(* Somebody else moves the player.                                         *)
LEMMA MovedInv == ASSUME WalkConstants, WalkInv, Moved PROVE WalkInv'
  <1>1. dying' = dying /\ posted' = posted /\ dying \in BOOLEAN
    BY DEF Moved, WalkInv, WalkTypeOK
  <1>2. PICK es \in HandOvers, step \in Steps : Becomes(OnCreatureMove(With(w, es), step))
    BY DEF Moved
  <1>3. QED BY <1>1, <1>2, OnCreatureMoveInv

(* The posted executeDeath runs.                                           *)
LEMMA ExecuteDeathInv == ASSUME WalkConstants, WalkInv, ExecuteDeath PROVE WalkInv'
  <1>1. dying' = FALSE /\ posted' = posted
    BY DEF ExecuteDeath
  <1>2. PICK es \in HandOvers : Becomes(OnCreatureMove(With(w, es), "teleport"))
    BY DEF ExecuteDeath
  <1>3. "teleport" \in Steps
    BY DEF Steps
  <1>4. QED BY <1>1, <1>2, <1>3, OnCreatureMoveInv

(* Game::changeSpeed.                                                      *)
LEMMA ChangeSpeedInv ==
  ASSUME WalkConstants, WalkInv, NEW stopped \in BOOLEAN, ChangeSpeed(stopped)
  PROVE  WalkInv'
  <1>1. /\ Room /\ dying' = dying /\ dying \in BOOLEAN
        /\ posted' \in [1 .. MaxDirs -> 0 .. MaxPosted]
    BY DEF ChangeSpeed, WalkInv, WalkTypeOK
  <1>2. PICK es \in HandOvers, step \in Steps : Becomes(SetSpeed(With(w, es), stopped, step))
    BY DEF ChangeSpeed
  <1>3. PICK s : s = With(w, es)
    OBVIOUS
  <1>4. /\ Sound(s) /\ MaxEvents - 1 \in Nat /\ Uses(s, MaxEvents - 1)
        /\ ~dying => Chained(s)
    BY <1>1, <1>3, HandOversInv
  <1>5. PICK n \in Nat : n = MaxEvents - 1 /\ n < MaxEvents /\ n + 1 = MaxEvents
    BY <1>4 DEF WalkConstants
  <1>6. PICK r : r = SetSpeed(s, stopped, step)
    OBVIOUS
  <1>7. Sound(r) /\ Uses(r, MaxEvents) /\ (Chained(s) => Chained(r))
    BY <1>1, <1>4, <1>5, <1>6, SetSpeedSound
  <1>8. QED BY <1>1, <1>2, <1>3, <1>4, <1>6, <1>7, BecomesInv

(* Another path, or none.                                                  *)
LEMMA PathSet ==
  ASSUME WalkConstants, WalkInv, NEW es \in HandOvers, NEW k \in 0 .. MaxDirs
  PROVE  LET s == With([w EXCEPT !.listWalkDir = k], es)
         IN  /\ Sound(s) /\ Uses(s, MaxEvents)
             /\ Room => MaxEvents - 1 \in Nat /\ Uses(s, MaxEvents - 1)
             /\ ~dying => Chained(s)
  <1>1. PICK s : s = With([w EXCEPT !.listWalkDir = k], es)
    OBVIOUS
  <1>2. w \in Members
    BY DEF WalkInv, WalkTypeOK
  <1>3. /\ s.p \in Members /\ s.p.eventWalk = w.eventWalk
        /\ s.p.walkTask = w.walkTask /\ s.p.walkTaskEvent = w.walkTaskEvent
    BY <1>1, <1>2 DEF With, Members
  <1>4. s.es = es
    BY <1>1 DEF With
  <1>5. QED BY <1>1, <1>3, <1>4, HandOversInv DEF Sound, Uses, Chained

(* Player::setFollowCreature.                                              *)
LEMMA SetFollowCreatureInv == ASSUME WalkConstants, WalkInv, SetFollowCreature PROVE WalkInv'
  <1>1. /\ dying' = dying /\ dying \in BOOLEAN
        /\ posted' \in [1 .. MaxDirs -> 0 .. MaxPosted]
    BY DEF SetFollowCreature, WalkInv, WalkTypeOK
  <1>2. PICK es \in HandOvers : Becomes(OnWalkAborted(With([w EXCEPT !.listWalkDir = 0], es)))
    BY DEF SetFollowCreature
  <1>3. PICK s : s = With([w EXCEPT !.listWalkDir = 0], es)
    OBVIOUS
  <1>4. Sound(s) /\ Uses(s, MaxEvents) /\ (~dying => Chained(s))
    <2>1. 0 \in 0 .. MaxDirs
      BY DEF WalkConstants
    <2>2. QED BY <1>3, <2>1, PathSet
  <1>5. PICK t : t = OnWalkAborted(s)
    OBVIOUS
  <1>6. \A e \in s.es : e.does \in Actions => e.does # NoAction
    BY DEF WalkConstants
  <1>7. Sound(t) /\ Uses(t, MaxEvents) /\ (Chained(s) => Chained(t))
    BY <1>4, <1>5, <1>6, SetNextWalkActionTaskKeeps DEF OnWalkAborted, WalkConstants
  <1>8. QED BY <1>1, <1>2, <1>3, <1>4, <1>5, <1>7, BecomesInv

(* Creature::goToFollowCreature.                                           *)
LEMMA GoToFollowCreatureInv == ASSUME WalkConstants, WalkInv, GoToFollowCreature PROVE WalkInv'
  <1>1. /\ Room /\ dying' = dying /\ dying \in BOOLEAN
        /\ posted' \in [1 .. MaxDirs -> 0 .. MaxPosted]
    BY DEF GoToFollowCreature, WalkInv, WalkTypeOK
  <1>2. PICK es \in HandOvers, rooted \in BOOLEAN, step \in Steps :
          \/ Becomes(With([w EXCEPT !.listWalkDir = 0], es))
          \/ \E k \in 0 .. MaxDirs :
                Becomes(StartAutoWalk(With([w EXCEPT !.listWalkDir = k], es), k, rooted, step))
    BY DEF GoToFollowCreature
  <1>3. ASSUME NEW k \in 0 .. MaxDirs, NEW s, s = With([w EXCEPT !.listWalkDir = k], es)
        PROVE  /\ Sound(s) /\ Uses(s, MaxEvents) /\ (~dying => Chained(s))
               /\ MaxEvents - 1 \in Nat /\ Uses(s, MaxEvents - 1)
    BY <1>1, <1>3, PathSet
  <1>4. CASE Becomes(With([w EXCEPT !.listWalkDir = 0], es))
    <2>1. PICK s : s = With([w EXCEPT !.listWalkDir = 0], es)
      OBVIOUS
    <2>2. 0 \in 0 .. MaxDirs
      BY DEF WalkConstants
    <2>3. QED BY <1>1, <1>3, <1>4, <2>1, <2>2, BecomesInv
  <1>5. CASE \E k \in 0 .. MaxDirs :
               Becomes(StartAutoWalk(With([w EXCEPT !.listWalkDir = k], es), k, rooted, step))
    <2>1. PICK k \in 0 .. MaxDirs :
            Becomes(StartAutoWalk(With([w EXCEPT !.listWalkDir = k], es), k, rooted, step))
      BY <1>5
    <2>2. PICK s : s = With([w EXCEPT !.listWalkDir = k], es)
      OBVIOUS
    <2>3. QED BY <1>1, <1>3, <2>1, <2>2, StartAutoWalkInv
  <1>6. QED BY <1>2, <1>4, <1>5

(* Health reaches 0.                                                       *)
LEMMA DieInv == ASSUME WalkConstants, WalkInv, Die PROVE WalkInv'
  <1>1. PICK es \in HandOvers : Becomes(With(w, es))
    BY DEF Die
  <1>2. dying' = TRUE /\ posted' \in [1 .. MaxDirs -> 0 .. MaxPosted]
    BY DEF Die, WalkInv, WalkTypeOK
  <1>3. QED BY <1>1, <1>2, HandOversInv, BecomesInv

(* The clock moves on.                                                     *)
LEMMA TickInv == ASSUME WalkConstants, WalkInv, Tick PROVE WalkInv'
  <1> DEFINE Later(e) == [e EXCEPT !.ticks = IF @ > 0 THEN @ - 1 ELSE 0]
  <1>1. w \in Members /\ events \in SUBSET Events
    BY DEF WalkInv, WalkTypeOK
  <1>2. LongestDelay \in Nat /\ LongestDelay + ActionDelay \in Nat
    BY DEF LongestDelay, WalkConstants
  <1>3. /\ w' \in Members /\ w'.eventWalk = w.eventWalk
        /\ w'.walkTask = w.walkTask /\ w'.walkTaskEvent = w.walkTaskEvent
    <2>1. PICK since \in 0 .. LongestDelay :
            w' = [w EXCEPT !.since = since]
      <3>1. w.since \in 0 .. LongestDelay
        BY <1>1 DEF Members
      <3>2. (IF w.since < LongestDelay THEN w.since + 1 ELSE w.since) \in 0 .. LongestDelay
        BY <1>2, <3>1
      <3>3. QED BY <3>2 DEF Tick
    <2>2. QED BY <1>1, <2>1 DEF Members
  <1>4. \A e \in events : /\ Later(e) \in Events /\ Later(e).id = e.id
                          /\ Later(e).does = e.does /\ Later(e).handed = e.handed
    <2>1. SUFFICES ASSUME NEW e \in events
                   PROVE  /\ Later(e) \in Events /\ Later(e).id = e.id
                          /\ Later(e).does = e.does /\ Later(e).handed = e.handed
      OBVIOUS
    <2>2. e \in Events
      BY <1>1
    <2>3. PICK ticks \in Delays : Later(e) = [e EXCEPT !.ticks = ticks]
      <3>1. e.ticks \in Delays
        BY <2>2 DEF Events
      <3>2. (IF e.ticks > 0 THEN e.ticks - 1 ELSE 0) \in Delays
        BY <1>2, <3>1 DEF Delays
      <3>3. QED BY <3>2
    <2>4. QED BY <2>2, <2>3 DEF Events
  <1>5. events' = {Later(e) : e \in events}
    BY DEF Tick
  <1> HIDE DEF Later
  <1>6. IdsOf(events') = IdsOf(events)
    BY <1>4, <1>5 DEF IdsOf
  <1>7. PICK s : s = With(w', events')
    OBVIOUS
  <1>8. s.p = w' /\ s.es = events'
    BY <1>7 DEF With
  <1>9. Replaceable(events, w.walkTask, w.walkTaskEvent)
    BY DEF WalkInv, Sound, With
  <1>10. Replaceable(events', w.walkTask, w.walkTaskEvent)
    BY <1>4, <1>5, <1>9 DEF Replaceable
  <1>11. Sound(s)
    BY <1>3, <1>4, <1>5, <1>8, <1>10 DEF Sound
  <1>12. Uses(s, MaxEvents)
    BY <1>6, <1>8 DEF WalkInv, Uses, With
  <1>13. ~dying => Chained(s)
    BY <1>3, <1>4, <1>5, <1>8 DEF WalkInv, Chained, With
  <1>14. /\ dying' = dying /\ dying \in BOOLEAN
         /\ posted' \in [1 .. MaxDirs -> 0 .. MaxPosted]
    BY DEF Tick, WalkInv, WalkTypeOK
  <1>15. QED BY <1>8, <1>11, <1>12, <1>13, <1>14, BecomesInv DEF Becomes

(* A player who stands still.                                              *)
LEMMA WalkInvInit == ASSUME WalkConstants, WalkInit PROVE WalkInv
  <1>1. 0 \in 0 .. MaxDirs /\ LongestDelay \in 0 .. LongestDelay
    BY DEF WalkConstants, LongestDelay
  <1>2. w \in Members
    BY <1>1 DEF WalkInit, Members
  <1>3. events = {} /\ dying = FALSE /\ w.eventWalk = 0
    BY DEF WalkInit
  <1>4. WalkTypeOK
    <2>1. 0 \in 0 .. MaxPosted
      BY DEF WalkConstants
    <2>2. posted \in [1 .. MaxDirs -> 0 .. MaxPosted]
      BY <2>1 DEF WalkInit
    <2>3. QED BY <1>2, <1>3, <2>2 DEF WalkTypeOK
  <1>5. With(w, events).p = w /\ With(w, events).es = {}
    BY <1>3 DEF With
  <1>6. Sound(With(w, events)) /\ Chained(With(w, events))
    BY <1>2, <1>3, <1>5 DEF Sound, Replaceable, Chained
  <1>7. IdsOf({}) = {}
    BY DEF IdsOf
  <1>8. Uses(With(w, events), MaxEvents)
    BY <1>5, <1>7, FS_EmptySet DEF Uses, WalkConstants
  <1>9. QED BY <1>4, <1>6, <1>8 DEF WalkInv

(* The invariant is inductive.                                             *)
LEMMA WalkInvNext == ASSUME WalkConstants, WalkInv, [WalkNext]_walkVars PROVE WalkInv'
  <1>1. CASE PlayerMove
    BY <1>1, PlayerMoveInv
  <1>2. CASE PlayerStopAutoWalk
    BY <1>2, PlayerStopAutoWalkInv
  <1>3. ASSUME NEW k \in 1 .. MaxDirs, PlayerAutoWalk(k) PROVE WalkInv'
    <2>1. posted' \in [1 .. MaxDirs -> 0 .. MaxPosted]
      BY <1>3 DEF PlayerAutoWalk, WalkInv, WalkTypeOK
    <2>2. QED BY <1>3, <2>1, AutoWalkInv DEF PlayerAutoWalk
  <1>4. ASSUME NEW k \in 1 .. MaxDirs, PostedAutoWalk(k) PROVE WalkInv'
    <2>1. posted' \in [1 .. MaxDirs -> 0 .. MaxPosted]
      BY <1>4 DEF PostedAutoWalk, WalkInv, WalkTypeOK, WalkConstants
    <2>2. QED BY <1>4, <2>1, AutoWalkInv DEF PostedAutoWalk
  <1>5. ASSUME NEW k \in 1 .. MaxDirs, NEW action \in Actions, PlayerUsesFar(k, action)
        PROVE  WalkInv'
    BY <1>5, PlayerUsesFarInv
  <1>6. ASSUME NEW e \in events, CheckCreatureWalk(e) PROVE WalkInv'
    BY <1>6, CheckCreatureWalkInv
  <1>7. ASSUME NEW e \in events, RunAction(e) PROVE WalkInv'
    BY <1>7, RunActionInv
  <1>8. CASE Moved
    BY <1>8, MovedInv
  <1>9. ASSUME NEW stopped \in BOOLEAN, ChangeSpeed(stopped) PROVE WalkInv'
    BY <1>9, ChangeSpeedInv
  <1>10. CASE SetFollowCreature
    BY <1>10, SetFollowCreatureInv
  <1>11. CASE GoToFollowCreature
    BY <1>11, GoToFollowCreatureInv
  <1>12. CASE Die
    BY <1>12, DieInv
  <1>13. CASE ExecuteDeath
    BY <1>13, ExecuteDeathInv
  <1>14. CASE Tick
    BY <1>14, TickInv
  <1>15. CASE UNCHANGED walkVars
    BY <1>15 DEF WalkInv, WalkTypeOK, Sound, Uses, Chained, With, walkVars
  <1>16. QED BY <1>1, <1>2, <1>3, <1>4, <1>5, <1>6, <1>7, <1>8, <1>9, <1>10, <1>11,
                <1>12, <1>13, <1>14, <1>15 DEF WalkNext

(* The members of the player, its events and the posted walks keep their   *)
(* types: among them, an event always finds a free number.                 *)
THEOREM WalkTypeCorrect == WalkSpec => []WalkTypeOK
  <1> USE WalkAssumption
  <1>1. WalkInit => WalkInv
    BY WalkInvInit
  <1>2. WalkInv /\ [WalkNext]_walkVars => WalkInv'
    BY WalkInvNext
  <1>3. WalkInv => WalkTypeOK
    BY DEF WalkInv
  <1>4. QED BY <1>1, <1>2, <1>3, PTL DEF WalkSpec

(* Whatever stops, restarts, aborts or completes a walk, in any order with *)
(* the events the scheduler has handed over already: a player whose        *)
(* eventWalk is set, and who is not dying, has that event, so              *)
(* addEventWalk's early return never leaves it standing for good.  For any *)
(* speed, path, number of events and actions.                              *)
THEOREM WalkNeverStuck == WalkSpec => []NeverStuck
  <1> USE WalkAssumption
  <1>1. WalkInit => WalkInv
    BY WalkInvInit
  <1>2. WalkInv /\ [WalkNext]_walkVars => WalkInv'
    BY WalkInvNext
  <1>3. WalkInv => NeverStuck
    BY DEF WalkInv, NeverStuck, Chained, With
  <1>4. QED BY <1>1, <1>2, <1>3, PTL DEF WalkSpec

(* An action that waits for its time is the one walkTaskEvent names, so    *)
(* that setNextWalkActionTask can take it back; no event runs a task that  *)
(* is still to be scheduled.  For any number of events and actions.        *)
THEOREM WalkActionReplaceable == WalkSpec => []ActionReplaceable
  <1> USE WalkAssumption
  <1>1. WalkInit => WalkInv
    BY WalkInvInit
  <1>2. WalkInv /\ [WalkNext]_walkVars => WalkInv'
    BY WalkInvNext
  <1>3. WalkInv => ActionReplaceable
    BY DEF WalkInv, ActionReplaceable, Sound, Replaceable, With
  <1>4. QED BY <1>1, <1>2, <1>3, PTL DEF WalkSpec

-----------------------------------------------------------------------------
(* The initial world, in which nobody trades, satisfies the invariant.     *)
LEMMA TradeInvInit ==
  ASSUME TradeConstants
  PROVE  TradeInit => TradeInv
  <1> SUFFICES ASSUME TradeInit PROVE TradeInv
    OBVIOUS
  <1> USE DEF TradeInit
  <1>1. TradeTypeOK
    BY DEF TradeConstants, TradeTypeOK, Cylinders, TradeStates
  <1>2. PartnersAgree
    BY DEF PartnersAgree
  <1>3. OffersReserved
    BY DEF TradeConstants, OffersReserved
  <1>4. QED BY <1>1, <1>2, <1>3 DEF TradeInv

(* internalCloseTrade leaves a consistent state whoever closes, as long as *)
(* nobody leaves the world but a player whose trade it closes.             *)
LEMMA CloseTradesInv ==
  ASSUME TradeConstants,
         TradeInv, NEW closers \in SUBSET Players, CloseTrades(closers),
         online' \in SUBSET Players,
         \A p \in online : p \in online' \/ p \in closers,
         pos' \in [Players -> Tiles],
         parent' \in [Items -> Cylinders]
  PROVE  TradeInv'
  <1> DEFINE ended == WithPartners(closers)
             freed == {i \in Items : \E p \in ended : tradeItem[p] = i}
  <1> USE DEF TradeConstants, TradeInv, TradeTypeOK
  <1>1. /\ tradeState' = [p \in Players |-> IF p \in ended THEN "NONE" ELSE tradeState[p]]
        /\ tradePartner' = [p \in Players |-> IF p \in ended THEN NoPlayer ELSE tradePartner[p]]
        /\ tradeItem' = [p \in Players |-> IF p \in ended THEN NoItem ELSE tradeItem[p]]
        /\ tradeItems' = [i \in Items |-> IF i \in freed THEN NoPlayer ELSE tradeItems[i]]
        /\ refs' = [i \in Items |-> IF i \in freed /\ tradeItems[i] # NoPlayer
                                      THEN refs[i] - 1 ELSE refs[i]]
    BY DEF CloseTrades, ResetPlayers
  <1>2. \A p \in Players : tradePartner[p] # NoPlayer =>
           (p \in ended <=> tradePartner[p] \in ended)
    BY DEF WithPartners, PartnersAgree
  <1>3. \A p \in Players : p \notin ended => p \notin closers
    BY DEF WithPartners
  <1>4. \A i \in Items : tradeItems[i] # NoPlayer =>
           /\ tradeItems[i] \in Players
           /\ tradeItem[tradeItems[i]] = i
    BY DEF OffersReserved
  <1>5. \A i \in freed : tradeItems[i] \in ended
    <2>1. TAKE i \in freed
    <2>2. PICK p \in ended : tradeItem[p] = i
      OBVIOUS
    <2>3. p \in Players
      BY DEF WithPartners
    <2>4. tradeItems[i] = p
      BY <2>2, <2>3 DEF OffersReserved
    <2>5. QED BY <2>4
  <1>6. \A i \in Items : tradeItems[i] \in ended => i \in freed
    BY <1>4 DEF WithPartners
  <1> HIDE DEF ended, freed
  <1>7. \A i \in Items : refs[i] \in Nat /\ (tradeItems[i] # NoPlayer => refs[i] = 1)
                         /\ (tradeItems[i] = NoPlayer => refs[i] = 0)
    BY DEF OffersReserved
  <1>a. \A i \in Items : refs'[i] = IF tradeItems'[i] = NoPlayer THEN 0 ELSE 1
    BY <1>1, <1>7
  <1>8. TradeTypeOK'
    <2>1. refs' \in [Items -> Nat]
      BY <1>1, <1>7
    <2>2. tradeState' \in [Players -> TradeStates]
      BY <1>1 DEF TradeStates
    <2>3. tradePartner' \in [Players -> Players \union {NoPlayer}]
      BY <1>1
    <2>4. tradeItem' \in [Players -> Items \union {NoItem}]
      BY <1>1
    <2>5. tradeItems' \in [Items -> Players \union {NoPlayer}]
      BY <1>1
    <2>6. QED BY <2>1, <2>2, <2>3, <2>4, <2>5
  <1>9. PartnersAgree'
    <2> SUFFICES ASSUME NEW p \in Players
                 PROVE  /\ tradeState'[p] = "NONE" <=> tradePartner'[p] = NoPlayer
                        /\ tradePartner'[p] # NoPlayer =>
                              /\ tradePartner'[p] # p
                              /\ tradePartner'[tradePartner'[p]] = p
                              /\ p \in online'
                              /\ tradeItem'[p] # NoItem \/ tradeItem'[tradePartner'[p]] # NoItem
                        /\ tradeState'[p] = "INITIATED" => tradeItem'[p] # NoItem
                        /\ tradeState'[p] \in {"NONE", "ACKNOWLEDGE"} => tradeItem'[p] = NoItem
      BY DEF PartnersAgree
    <2>1. CASE p \in ended
      BY <1>1, <2>1
    <2>2. CASE p \notin ended
      BY <1>1, <1>2, <1>3, <2>2 DEF PartnersAgree
    <2>3. QED BY <2>1, <2>2
  <1>10. OffersReserved'
    <2>1. \A i \in Items, p \in Players : tradeItems'[i] = p <=> tradeItem'[p] = i
      BY <1>1, <1>4, <1>5, <1>6 DEF OffersReserved
    <2>2. QED BY <2>1, <1>a DEF OffersReserved
  <1>11. QED BY <1>8, <1>9, <1>10

(* internalStartTrade links two players consistently and reserves an item  *)
(* nobody else offers.                                                     *)
LEMMA RequestTradeInv ==
  ASSUME TradeConstants,
         TradeInv, NEW p \in Players, NEW q \in Players, NEW i \in Items,
         RequestTrade(p, q, i)
  PROVE  TradeInv'
  <1> USE DEF TradeConstants, TradeInv, TradeTypeOK, RequestTrade, world
  <1>1. tradeItems[i] = NoPlayer
    BY DEF FreeToOffer
  <1>2. tradeItem[p] = NoItem
    BY DEF PartnersAgree
  <1>3. \A r \in Players : tradeItem[r] # i
    BY <1>1 DEF OffersReserved
  <1>4. refs[i] = 0
    BY <1>1 DEF OffersReserved
  <1>5. TradeTypeOK'
    BY DEF TradeStates
  <1>6. PartnersAgree'
    <2>1. \A r \in Players \ {p, q} : tradePartner[r] \notin {p, q}
      BY DEF PartnersAgree
    <2>2. \A r \in Players \ {p, q} : /\ tradePartner'[r] = tradePartner[r]
                                      /\ tradeState'[r] = tradeState[r]
                                      /\ tradeItem'[r] = tradeItem[r]
      OBVIOUS
    <2>3. /\ tradePartner'[p] = q /\ tradePartner'[q] = p
          /\ tradeItem'[p] = i /\ tradeItem'[q] = tradeItem[q]
          /\ tradeState'[p] = "INITIATED"
          /\ tradeState'[q] = IF tradeState[q] = "NONE" THEN "ACKNOWLEDGE" ELSE tradeState[q]
      OBVIOUS
    <2>4. \A r \in Players \ {p, q} : tradePartner[r] # NoPlayer =>
             tradePartner[r] \in Players \ {p, q}
      BY <2>1
    <2>5. QED BY <2>2, <2>3, <2>4 DEF PartnersAgree
  <1>7. OffersReserved'
    <2>1. \A j \in Items, r \in Players : tradeItems'[j] = r <=> tradeItem'[r] = j
      BY <1>1, <1>2, <1>3 DEF OffersReserved
    <2>2. \A j \in Items : refs'[j] = IF tradeItems'[j] = NoPlayer THEN 0 ELSE 1
      BY <1>4 DEF OffersReserved
    <2>3. QED BY <2>1, <2>2 DEF OffersReserved
  <1>8. QED BY <1>5, <1>6, <1>7

(* Every step of the game keeps the invariant.                             *)
LEMMA TradeInvNext ==
  ASSUME TradeConstants
  PROVE  TradeInv /\ [TradeNext]_tradeVars => TradeInv'
  <1> SUFFICES ASSUME TradeInv, [TradeNext]_tradeVars PROVE TradeInv'
    OBVIOUS
  <1> USE DEF TradeInv
  <1>1. ASSUME NEW p \in Players, NEW q \in Players, NEW i \in Items, RequestTrade(p, q, i)
        PROVE  TradeInv'
    BY <1>1, RequestTradeInv
  <1>2. ASSUME NEW p \in Players, AcceptFirst(p)
        PROVE  TradeInv'
    <2> USE <1>2 DEF AcceptFirst, MayAccept, world
    <2>1. TradeTypeOK'
      BY DEF TradeTypeOK, TradeStates
    <2>2. PartnersAgree'
      BY DEF TradeTypeOK, PartnersAgree
    <2>3. OffersReserved'
      BY DEF OffersReserved
    <2>4. QED BY <2>1, <2>2, <2>3
  <1>3. ASSUME NEW p \in Players, ExchangeFails(p) \/ AcceptWithoutOffer(p)
        PROVE  TradeInv'
    BY <1>3, CloseTradesInv DEF ExchangeFails, AcceptWithoutOffer, world, TradeTypeOK
  <1>4. ASSUME NEW p \in Players, NEW d1 \in Cylinders, NEW d2 \in Cylinders,
               Exchange(p, d1, d2)
        PROVE  TradeInv'
    <2>1. PICK closers \in SUBSET Players : CloseTrades(closers)
      BY <1>4 DEF Exchange, Disturbed, DisturbedByRemoval, DisturbedByAddition
    <2>2. online' = online /\ pos' = pos
      BY <1>4 DEF Exchange
    <2>3. parent' \in [Items -> Cylinders]
      BY <1>4 DEF Exchange, TradeTypeOK
    <2>4. QED BY <2>1, <2>2, <2>3, CloseTradesInv DEF TradeTypeOK
  <1>5. ASSUME NEW p \in Players, PlayerCloseTrade(p)
        PROVE  TradeInv'
    BY <1>5, CloseTradesInv DEF PlayerCloseTrade, world, TradeTypeOK
  <1>6. ASSUME NEW p \in Players, NEW t \in Tiles, Walk(p, t)
        PROVE  TradeInv'
    <2>1. PICK closers \in SUBSET Players : CloseTrades(closers)
      BY <1>6 DEF Walk
    <2>2. online' = online /\ parent' = parent /\ pos' = [pos EXCEPT ![p] = t]
      BY <1>6 DEF Walk
    <2>3. pos' \in [Players -> Tiles]
      BY <1>6, <2>2 DEF TradeTypeOK
    <2>4. QED BY <2>1, <2>2, <2>3, CloseTradesInv DEF TradeTypeOK
  <1>7. ASSUME NEW i \in Items, NEW d \in Cylinders, MoveItem(i, d)
        PROVE  TradeInv'
    <2>1. PICK closers \in SUBSET Players : CloseTrades(closers)
      BY <1>7 DEF MoveItem, Disturbed, DisturbedByRemoval, DisturbedByAddition
    <2>2. online' = online /\ pos' = pos /\ parent' \in [Items -> Cylinders]
      BY <1>7 DEF MoveItem, TradeTypeOK
    <2>3. QED BY <2>1, <2>2, CloseTradesInv DEF TradeTypeOK
  <1>8. ASSUME NEW p \in Players, Logout(p)
        PROVE  TradeInv'
    <2>1. CloseTrades({p}) /\ online' = online \ {p} /\ pos' = pos /\ parent' = parent
      BY <1>8 DEF Logout
    <2>2. \A r \in online : r \in online' \/ r \in {p}
      BY <2>1
    <2>3. QED BY <2>1, <2>2, CloseTradesInv DEF TradeTypeOK
  <1>9. ASSUME NEW p \in Players, Login(p)
        PROVE  TradeInv'
    BY <1>9 DEF Login, trade, TradeTypeOK, PartnersAgree, OffersReserved
  <1>10. CASE UNCHANGED tradeVars
    BY <1>10 DEF tradeVars, TradeTypeOK, PartnersAgree, OffersReserved
  <1>11. QED
    BY <1>1, <1>2, <1>3, <1>4, <1>5, <1>6, <1>7, <1>8, <1>9, <1>10 DEF TradeNext

(* The invariant holds in every state the game can reach.                  *)
THEOREM TradeInvariance == TradeSpec => []TradeInv
  BY TradeAssumption, TradeInvInit, TradeInvNext, PTL DEF TradeSpec

(* The variables of the trades keep their types; no item's reference count *)
(* drops below zero in internalCloseTrade or playerAcceptTrade.            *)
THEOREM TradeTypeCorrect == TradeSpec => []TradeTypeOK
  <1>1. TradeInv => TradeTypeOK
    BY DEF TradeInv
  <1>2. QED BY <1>1, TradeInvariance, PTL

(* However many players trade, walk, log out and interfere, partners name  *)
(* each other and neither keeps a pointer to a trade that has ended.       *)
THEOREM PartnersAlwaysAgree == TradeSpec => []PartnersAgree
  <1>1. TradeInv => PartnersAgree
    BY DEF TradeInv
  <1>2. QED BY <1>1, TradeInvariance, PTL

(* Game::tradeItems never leaks or shares a reservation, and holds exactly *)
(* one reference for each item on offer.                                   *)
THEOREM ReservationsExact == TradeSpec => []OffersReserved
  <1>1. TradeInv => OffersReserved
    BY DEF TradeInv
  <1>2. QED BY <1>1, TradeInvariance, PTL

-----------------------------------------------------------------------------
(* Where the items are.  The facts about Around below are all that the     *)
(* rest of the proof knows of it.                                          *)

(* The cylinders around an item are its parent and what is around that.    *)
LEMMA AroundClosed ==
  ASSUME TradeConstants,
         NEW par \in [Items -> Cylinders], NEW i \in Items
  PROVE  /\ par[i] \in Around(par, i)
         /\ \A c \in Around(par, i) : c \in Items => par[c] \in Around(par, i)
         /\ Around(par, i) \subseteq Cylinders
  <1> DEFINE E == Enclosing(par, i)
  <1>1. E \subseteq Containers
    BY DEF Enclosing
  <1>2. \A x \in E \union {i} : par[x] \in Containers => par[x] \in E
    <2> SUFFICES ASSUME NEW x \in E \union {i}, par[x] \in Containers,
                        NEW S \in SUBSET Containers,
                        \A y \in S \union {i} : par[y] \in Containers => par[y] \in S
                 PROVE  par[x] \in S
      BY DEF Enclosing
    <2>1. x \in S \union {i}
      BY DEF Enclosing
    <2>2. QED BY <2>1
  <1>3. Around(par, i) = {par[x] : x \in E \union {i}}
    BY DEF Around
  <1> HIDE DEF E
  <1>4. \A c \in Cylinders : c \in Items => c \in Containers
    BY DEF TradeConstants, Cylinders
  <1>5. E \union {i} \subseteq Items
    BY <1>1 DEF TradeConstants
  <1>6. Around(par, i) \subseteq Cylinders
    BY <1>3, <1>5
  <1>7. ASSUME NEW c \in Around(par, i), c \in Items
        PROVE  par[c] \in Around(par, i)
    <2>1. PICK x \in E \union {i} : c = par[x]
      BY <1>3
    <2>2. c \in E
      BY <2>1, <1>2, <1>4, <1>6, <1>7
    <2>3. QED BY <2>2, <1>3
  <1>8. QED BY <1>3, <1>6, <1>7

(* ... and nothing else.                                                   *)
LEMMA AroundLeast ==
  ASSUME TradeConstants,
         NEW par \in [Items -> Cylinders], NEW i \in Items, NEW S,
         par[i] \in S,
         \A c \in S : c \in Items => par[c] \in S
  PROVE  Around(par, i) \subseteq S
  <1> DEFINE T == S \intersect Containers
  <1>1. \A x \in T \union {i} : par[x] \in Containers => par[x] \in T
    BY DEF TradeConstants
  <1>2. Enclosing(par, i) \subseteq T
    BY <1>1 DEF Enclosing
  <1>3. \A x \in T \union {i} : par[x] \in S
    BY DEF TradeConstants
  <1>4. QED BY <1>2, <1>3 DEF Around

(* What is around a container is around its contents.                      *)
LEMMA AroundTransitive ==
  ASSUME TradeConstants,
         NEW par \in [Items -> Cylinders], NEW i \in Items,
         NEW c \in Items, c \in Around(par, i)
  PROVE  Around(par, c) \subseteq Around(par, i)
  BY AroundClosed, AroundLeast

(* Outside its parent, an item is only in what its parent is in.           *)
LEMMA AroundStep ==
  ASSUME TradeConstants,
         NEW par \in [Items -> Cylinders], NEW i \in Items,
         NEW c \in Around(par, i)
  PROVE  c = par[i] \/ (par[i] \in Items /\ c \in Around(par, par[i]))
  <1>1. CASE par[i] \in Items
    <2> DEFINE S == {par[i]} \union Around(par, par[i])
    <2>1. \A x \in S : x \in Items => par[x] \in S
      BY <1>1, AroundClosed
    <2>2. par[i] \in S
      OBVIOUS
    <2> HIDE DEF S
    <2>3. Around(par, i) \subseteq S
      BY <2>1, <2>2, AroundLeast
    <2>4. QED BY <1>1, <2>3 DEF S
  <1>2. CASE par[i] \notin Items
    <2> DEFINE S == {par[i]}
    <2>1. \A x \in S : x \in Items => par[x] \in S
      BY <1>2
    <2>2. Around(par, i) \subseteq S
      BY <2>1, AroundLeast
    <2>3. QED BY <2>2
  <1>3. QED BY <1>1, <1>2

(* Moving x changes nothing around an item that is not x nor inside x.     *)
LEMMA AroundUnmoved ==
  ASSUME TradeConstants,
         NEW par \in [Items -> Cylinders], NEW par2 \in [Items -> Cylinders],
         NEW x \in Items, \A y \in Items : y # x => par2[y] = par[y],
         NEW i \in Items, i # x, x \notin Around(par, i)
  PROVE  Around(par2, i) = Around(par, i)
  <1>1. par2[i] = par[i]
    OBVIOUS
  <1>2. Around(par2, i) \subseteq Around(par, i)
    <2>1. par2[i] \in Around(par, i)
      BY <1>1, AroundClosed
    <2>2. \A c \in Around(par, i) : c \in Items => par2[c] \in Around(par, i)
      BY <1>1, AroundClosed
    <2>3. QED BY <1>1, <2>1, <2>2, AroundLeast
  <1>3. Around(par, i) \subseteq Around(par2, i)
    <2>1. par[i] \in Around(par2, i)
      BY <1>1, AroundClosed
    <2>2. \A c \in Around(par2, i) : c \in Items => par[c] \in Around(par2, i)
      BY <1>1, <1>2, AroundClosed
    <2>3. QED BY <2>1, <2>2, AroundLeast
  <1>4. QED BY <1>2, <1>3

(* In a cycle of containers everything around one of them is in the cycle. *)
LEMMA CycleReturns ==
  ASSUME TradeConstants,
         NEW par \in [Items -> Cylinders], NEW j \in Items, j \in Around(par, j),
         NEW c \in Around(par, j)
  PROVE  c \in Items /\ j \in Around(par, c)
  <1> DEFINE S == {x \in Items : j \in Around(par, x)}
  <1>1. \A x \in S : par[x] \in S
    <2> SUFFICES ASSUME NEW x \in S PROVE par[x] \in S
      OBVIOUS
    <2>1. x \in Items /\ j \in Around(par, x)
      OBVIOUS
    <2>2. j = par[x] \/ (par[x] \in Items /\ j \in Around(par, par[x]))
      BY <2>1, AroundStep
    <2>3. QED BY <2>2
  <1>2. j \in S
    OBVIOUS
  <1>3. Around(par, j) \subseteq S
    <2> HIDE DEF S
    <2>1. par[j] \in S
      BY <1>1, <1>2
    <2>2. QED BY <1>1, <2>1, AroundLeast
  <1>4. QED BY <1>3

NoCycle(par) == \A i \in Items : ~Inside(par, i, i)

(* What every handler asks of a move: nothing is put into itself, or into  *)
(* something inside it.                                                    *)
LegalMove(par, x, d) == d # x /\ (d \in Items => ~Inside(par, d, x))

(* Then no container ends up inside itself.                                *)
LEMMA MoveKeepsNoCycle ==
  ASSUME TradeConstants,
         NEW par \in [Items -> Cylinders], NEW x \in Items, NEW d \in Cylinders,
         NoCycle(par), LegalMove(par, x, d)
  PROVE  NoCycle([par EXCEPT ![x] = d])
  <1> DEFINE par2 == [par EXCEPT ![x] = d]
  <1>1. /\ par2 \in [Items -> Cylinders]
        /\ \A y \in Items : y # x => par2[y] = par[y]
        /\ par2[x] = d
    OBVIOUS
  <1>2. d # x /\ (d \in Items => x \notin Around(par, d))
    BY DEF LegalMove, Inside
  <1>3. \A j \in Items : j # x /\ x \notin Around(par, j) =>
           Around(par2, j) = Around(par, j)
    BY <1>1, AroundUnmoved
  <1> HIDE DEF par2
  <1>4. x \notin Around(par2, x)
    <2> SUFFICES ASSUME x \in Around(par2, x) PROVE FALSE
      OBVIOUS
    <2>1. d \in Items /\ x \in Around(par2, d)
      BY <1>1, <1>2, AroundStep
    <2>2. Around(par2, d) = Around(par, d)
      BY <1>2, <1>3, <2>1
    <2>3. QED BY <1>2, <2>1, <2>2
  <1>5. ASSUME NEW j \in Items, j \in Around(par2, j)
        PROVE  FALSE
    <2>1. j # x
      BY <1>4, <1>5
    <2>2. CASE x \in Around(par2, j)
      <3>1. j \in Around(par2, x)
        BY <1>1, <1>5, <2>2, CycleReturns
      <3>2. Around(par2, j) \subseteq Around(par2, x)
        BY <1>1, <3>1, AroundTransitive
      <3>3. QED BY <1>4, <2>2, <3>2
    <2>3. CASE x \notin Around(par2, j)
      <3>1. Around(par, j) = Around(par2, j)
        BY <1>1, <2>1, <2>3, AroundUnmoved
      <3>2. QED BY <1>5, <3>1 DEF NoCycle, Inside
    <2>4. QED BY <2>2, <2>3
  <1>6. NoCycle(par2)
    BY <1>5 DEF NoCycle, Inside
  <1>7. QED BY <1>6 DEF par2

(* Moving x into something that is neither o nor inside o puts nothing     *)
(* into o.                                                                 *)
LEMMA MoveFillsNothing ==
  ASSUME TradeConstants,
         NEW par \in [Items -> Cylinders], NEW x \in Items, NEW d \in Cylinders,
         NEW o \in Items, d # o, d \in Items => o \notin Around(par, d),
         NEW j \in Items, o \notin Around(par, j)
  PROVE  o \notin Around([par EXCEPT ![x] = d], j)
  <1> DEFINE par2 == [par EXCEPT ![x] = d]
             S == {c \in Cylinders : c # o /\ (c \in Items => o \notin Around(par, c))}
  <1>1. /\ par2 \in [Items -> Cylinders]
        /\ \A y \in Items : y # x => par2[y] = par[y]
        /\ par2[x] = d
    OBVIOUS
  <1>2. d \in S
    OBVIOUS
  <1>3. \A y \in Items : o \notin Around(par, y) => par[y] \in S
    <2> SUFFICES ASSUME NEW y \in Items, o \notin Around(par, y) PROVE par[y] \in S
      OBVIOUS
    <2>1. par[y] \in Around(par, y)
      BY AroundClosed
    <2>2. par[y] \in Items => Around(par, par[y]) \subseteq Around(par, y)
      BY <2>1, AroundTransitive
    <2>3. QED BY <2>1, <2>2
  <1>4. \A c \in S : c \in Items => o \notin Around(par, c)
    OBVIOUS
  <1>5. o \notin S
    OBVIOUS
  <1> HIDE DEF par2, S
  <1>6. par2[j] \in S
    BY <1>1, <1>2, <1>3
  <1>7. \A c \in S : c \in Items => par2[c] \in S
    BY <1>1, <1>2, <1>3, <1>4
  <1>8. Around(par2, j) \subseteq S
    BY <1>1, <1>6, <1>7, AroundLeast
  <1>9. QED BY <1>5, <1>8 DEF par2

-----------------------------------------------------------------------------
(* The offers that stand.                                                  *)

(* Between par and par2 item o stayed where it was, in the same cylinders, *)
(* and with the same contents.                                             *)
Stands(par, par2, o) ==
    /\ par2[o] = par[o]
    /\ Around(par2, o) = Around(par, o)
    /\ \A j \in Items : /\ Inside(par2, j, o) <=> Inside(par, j, o)
                        /\ Inside(par, j, o) => par2[j] = par[j]

(* A legal move that does not make the player close the trade leaves the   *)
(* offer as it is.  That no container is inside itself is needed where     *)
(* checkTradeState looks at the parent of what is removed: an offer beside *)
(* it does not count as disturbed.                                         *)
LEMMA UndisturbedStands ==
  ASSUME TradeConstants,
         NEW par \in [Items -> Cylinders], NEW x \in Items, NEW d \in Cylinders,
         NoCycle(par), LegalMove(par, x, d),
         NEW r \in Players, tradeItem[r] \in Items, r \notin Disturbed(par, x, d)
  PROVE  Stands(par, [par EXCEPT ![x] = d], tradeItem[r])
  <1> DEFINE o == tradeItem[r]
             par2 == [par EXCEPT ![x] = d]
  <1>1. /\ o # x
        /\ ~Inside(par, x, o)
        /\ IF par[x] \in Items THEN par[o] = par[x] \/ ~Inside(par, o, par[x])
                               ELSE ~Inside(par, o, x)
    BY DEF TradeConstants, Disturbed, DisturbedByRemoval
  <1>2. d # o /\ (d \in Items => ~Inside(par, d, o))
    BY DEF TradeConstants, Disturbed, DisturbedByAddition
  <1>3. /\ par2 \in [Items -> Cylinders]
        /\ \A y \in Items : y # x => par2[y] = par[y]
        /\ par[x] \in Cylinders
    OBVIOUS
  <1>4. o \in Items
    OBVIOUS
  <1>5. \A j \in Items : o \notin Around(par, j) => o \notin Around(par2, j)
    BY <1>2, <1>4, MoveFillsNothing DEF Inside
  <1>6. par = [par2 EXCEPT ![x] = par[x]]
    OBVIOUS
  <1> HIDE DEF o, par2
  <1>7. x \notin Around(par, o)
    <2> SUFFICES ASSUME x \in Around(par, o) PROVE FALSE
      OBVIOUS
    <2>1. par[x] \in Items /\ par[x] \in Around(par, o)
      BY <1>1, <1>4, AroundClosed DEF Inside
    <2>2. par[o] = par[x]
      BY <1>1, <2>1 DEF Inside
    <2>3. x = par[x] \/ x \in Around(par, par[x])
      BY <1>4, <2>2, AroundStep
    <2>4. par[x] \in Around(par, x) /\ Around(par, par[x]) \subseteq Around(par, x)
      BY <2>1, AroundClosed, AroundTransitive
    <2>5. QED BY <2>3, <2>4 DEF NoCycle, Inside
  <1>8. Around(par2, o) = Around(par, o)
    BY <1>1, <1>3, <1>4, <1>7, AroundUnmoved
  <1>9. \A j \in Items : o \notin Around(par2, j) => o \notin Around(par, j)
    <2>1. par[x] # o
      BY <1>1, AroundClosed DEF Inside
    <2>2. par[x] \in Items => o \notin Around(par, par[x])
      BY <1>1, AroundClosed, AroundTransitive DEF Inside
    <2>3. par[x] \in Items => o \notin Around(par2, par[x])
      BY <1>5, <2>2
    <2>4. \A j \in Items : o \notin Around(par2, j) =>
             o \notin Around([par2 EXCEPT ![x] = par[x]], j)
      BY <1>3, <1>4, <2>1, <2>3, MoveFillsNothing
    <2>5. QED BY <1>6, <2>4
  <1>10. \A j \in Items : Inside(par, j, o) => par2[j] = par[j]
    BY <1>1, <1>3
  <1>11. Stands(par, par2, o)
    BY <1>1, <1>3, <1>4, <1>5, <1>8, <1>9, <1>10 DEF Stands, Inside
  <1>12. QED BY <1>11 DEF o, par2

(* What stands over two moves stands over both together.                   *)
LEMMA StandsTransitive ==
  ASSUME TradeConstants,
         NEW par, NEW par1, NEW par2, NEW o \in Items,
         Stands(par, par1, o), Stands(par1, par2, o)
  PROVE  Stands(par, par2, o)
  BY DEF Stands

(* An offer that a step does not end is untouched by it.                   *)
OffersKept ==
    \A r \in Players :
        tradeItem[r] # NoItem /\ tradeItem'[r] = tradeItem[r] =>
            Stands(parent, parent', tradeItem[r])

(* Whoever closes a trade, the offers that survive belong to neither side  *)
(* of it.                                                                  *)
LEMMA SurvivorsNotClosed ==
  ASSUME TradeConstants,
         NEW closers \in SUBSET Players, CloseTrades(closers),
         NEW r \in Players, tradeItem'[r] # NoItem
  PROVE  /\ r \notin closers /\ tradePartner[r] \notin closers
         /\ tradeItem'[r] = tradeItem[r]
         /\ tradePartner'[r] = tradePartner[r]
         /\ tradeState'[r] = tradeState[r]
  BY DEF CloseTrades, ResetPlayers, WithPartners

(* A single move of an item closes the trades whose offers it would change.*)
LEMMA MoveItemKeeps ==
  ASSUME TradeConstants,
         TradeInv, NoCycle(parent), NEW i \in Items, NEW d \in Cylinders, MoveItem(i, d)
  PROVE  NoCycle(parent)' /\ OffersKept
  <1>1. LegalMove(parent, i, d)
    BY DEF MoveItem, LegalMove
  <1>2. parent' = [parent EXCEPT ![i] = d] /\ CloseTrades(Disturbed(parent, i, d))
    BY DEF MoveItem
  <1>3. parent \in [Items -> Cylinders] /\ tradeItem \in [Players -> Items \union {NoItem}]
    BY DEF TradeInv, TradeTypeOK
  <1>4. NoCycle(parent')
    BY <1>1, <1>2, <1>3, MoveKeepsNoCycle
  <1>5. Disturbed(parent, i, d) \in SUBSET Players
    BY DEF Disturbed, DisturbedByRemoval, DisturbedByAddition
  <1>6. ASSUME NEW r \in Players, tradeItem[r] # NoItem, tradeItem'[r] = tradeItem[r]
        PROVE  Stands(parent, parent', tradeItem[r])
    <2>1. r \notin Disturbed(parent, i, d)
      BY <1>2, <1>5, <1>6, SurvivorsNotClosed
    <2>2. QED BY <1>1, <1>2, <1>3, <1>6, <2>1, UndisturbedStands
  <1>7. QED BY <1>4, <1>6 DEF OffersKept, NoCycle, Inside

(* The exchange is two moves; the two players are past caring, everybody   *)
(* else closes as for any other move.                                      *)
LEMMA ExchangeKeeps ==
  ASSUME TradeConstants,
         TradeInv, NoCycle(parent), NEW p \in Players, NEW d1 \in Cylinders, NEW d2 \in Cylinders,
         Exchange(p, d1, d2)
  PROVE  NoCycle(parent)' /\ OffersKept
  <1> DEFINE q  == tradePartner[p]
             i1 == tradeItem[p]
             i2 == tradeItem[q]
             parent1 == [parent EXCEPT ![i1] = d1]
             parent2 == [parent1 EXCEPT ![i2] = d2]
             disturbed2 == IF d2 = parent1[i2] THEN {} ELSE Disturbed(parent1, i2, d2)
             others  == (Disturbed(parent, i1, d1) \union disturbed2) \ {p, q}
  <1>1. /\ q # NoPlayer /\ i1 # NoItem /\ i2 # NoItem
        /\ d1 \in Destinations(parent, q, i1)
        /\ d2 \in Destinations(parent1, p, i2) \union {parent1[i2]}
        /\ parent' = parent2
        /\ CloseTrades({p} \union others)
    BY DEF Exchange, MayAccept
  <1>2. /\ parent \in [Items -> Cylinders]
        /\ tradeItem \in [Players -> Items \union {NoItem}]
        /\ tradePartner \in [Players -> Players \union {NoPlayer}]
    BY DEF TradeInv, TradeTypeOK
  <1>3. q \in Players /\ i1 \in Items /\ i2 \in Items /\ tradePartner[q] = p
    BY <1>1, <1>2 DEF TradeInv, PartnersAgree
  <1>4. parent1 \in [Items -> Cylinders] /\ parent2 \in [Items -> Cylinders]
    BY <1>2, <1>3
  <1>5. {p} \union others \in SUBSET Players
    BY <1>3 DEF Disturbed, DisturbedByRemoval, DisturbedByAddition
  <1>6. d2 = parent1[i2] => parent2 = parent1
    BY <1>3, <1>4
  <1>a. d2 # parent1[i2] => disturbed2 = Disturbed(parent1, i2, d2)
    OBVIOUS
  <1>b. others = (Disturbed(parent, i1, d1) \union disturbed2) \ {p, q}
    OBVIOUS
  <1>c. /\ parent1 = [parent EXCEPT ![i1] = d1]
        /\ parent2 = [parent1 EXCEPT ![i2] = d2]
    OBVIOUS
  <1>d. q = tradePartner[p]
    OBVIOUS
  <1> HIDE DEF q, i1, i2, parent1, parent2, others, disturbed2
  <1>7. LegalMove(parent, i1, d1)
    BY <1>1, <1>3 DEF TradeConstants, Destinations, LegalMove
  <1>8. NoCycle(parent1)
    BY <1>2, <1>3, <1>7, <1>c, MoveKeepsNoCycle
  <1>9. d2 # parent1[i2] => LegalMove(parent1, i2, d2)
    BY <1>1, <1>3 DEF TradeConstants, Destinations, LegalMove
  <1>10. NoCycle(parent2)
    BY <1>3, <1>4, <1>6, <1>8, <1>9, <1>c, MoveKeepsNoCycle
  <1>11. ASSUME NEW r \in Players, tradeItem[r] # NoItem, tradeItem'[r] = tradeItem[r]
         PROVE  Stands(parent, parent2, tradeItem[r])
    <2>1. r \notin {p} \union others /\ tradePartner[r] \notin {p} \union others
      BY <1>1, <1>5, <1>11, SurvivorsNotClosed
    <2>2. r # p /\ r # q
      BY <1>3, <2>1
    <2>3. r \notin Disturbed(parent, i1, d1) /\ r \notin disturbed2
      BY <2>1, <2>2, <1>b
    <2>4. tradeItem[r] \in Items
      BY <1>2, <1>11
    <2>5. Stands(parent, parent1, tradeItem[r])
      BY <1>2, <1>3, <1>7, <1>c, <2>3, <2>4, UndisturbedStands
    <2>6. CASE d2 = parent1[i2]
      BY <1>6, <2>5, <2>6
    <2>7. CASE d2 # parent1[i2]
      <3>1. Stands(parent1, parent2, tradeItem[r])
        BY <1>3, <1>4, <1>8, <1>9, <1>a, <1>c, <2>3, <2>4, <2>7, UndisturbedStands
      <3>2. QED BY <2>4, <2>5, <3>1, StandsTransitive
    <2>8. QED BY <2>6, <2>7
  <1>12. QED BY <1>1, <1>10, <1>11 DEF OffersKept, NoCycle, Inside

(* Every other step leaves the items where they are.                       *)
LEMMA NextKeeps ==
  ASSUME TradeConstants,
         TradeInv, NoCycle(parent), [TradeNext]_tradeVars
  PROVE  NoCycle(parent)' /\ OffersKept
  <1>1. CASE parent' = parent
    BY <1>1 DEF OffersKept, Stands, NoCycle, Inside
  <1>2. ASSUME NEW p \in Players, NEW d1 \in Cylinders, NEW d2 \in Cylinders,
               Exchange(p, d1, d2)
        PROVE  NoCycle(parent)' /\ OffersKept
    BY <1>2, ExchangeKeeps
  <1>3. ASSUME NEW i \in Items, NEW d \in Cylinders, MoveItem(i, d)
        PROVE  NoCycle(parent)' /\ OffersKept
    BY <1>3, MoveItemKeeps
  <1>4. ASSUME NEW p \in Players, NEW q \in Players, NEW i \in Items, RequestTrade(p, q, i)
        PROVE  parent' = parent
    BY <1>4 DEF RequestTrade, world
  <1>5. ASSUME NEW p \in Players,
               \/ AcceptFirst(p) \/ ExchangeFails(p) \/ AcceptWithoutOffer(p)
               \/ PlayerCloseTrade(p) \/ Logout(p) \/ Login(p) \/ \E t \in Tiles : Walk(p, t)
        PROVE  parent' = parent
    BY <1>5 DEF AcceptFirst, ExchangeFails, AcceptWithoutOffer, PlayerCloseTrade,
                Logout, Login, Walk, world
  <1>6. CASE UNCHANGED tradeVars
    BY <1>1, <1>6 DEF tradeVars
  <1>7. QED BY <1>1, <1>2, <1>3, <1>4, <1>5, <1>6 DEF TradeNext

(* The inductive invariant: no container is inside itself, and the offers  *)
(* are apart and in reach.                                                 *)
Placed == TradeInv /\ NoCycle(parent) /\ NoNestedOffers /\ OffersInReach

(* The initial world has no offers and no cycles.                          *)
LEMMA PlacedInit ==
  ASSUME TradeConstants
  PROVE  TradeInit => Placed
  <1> SUFFICES ASSUME TradeInit PROVE Placed
    OBVIOUS
  <1>1. TradeInv
    BY TradeInvInit
  <1>2. NoCycle(parent)
    BY DEF TradeConstants, TradeInit, NoCycle
  <1>3. NoNestedOffers
    BY DEF TradeInit, NoNestedOffers
  <1>4. OffersInReach
    BY DEF TradeInit, OffersInReach
  <1>5. QED BY <1>1, <1>2, <1>3, <1>4 DEF Placed

(* Players are as far from each other one way as the other.                *)
LEMMA DistanceSymmetric ==
  ASSUME TradeConstants,
         NEW a \in Int, NEW b \in Int
  PROVE  Distance(a, b) = Distance(b, a)
  BY DEF Distance

(* Only internalStartTrade makes an offer.                                 *)
LEMMA NewOffersRequested ==
  ASSUME TradeConstants,
         TradeInv, [TradeNext]_tradeVars, NEW r \in Players,
         tradeItem'[r] # NoItem, tradeItem'[r] # tradeItem[r]
  PROVE  \E q \in Players, i \in Items : RequestTrade(r, q, i) /\ tradeItem'[r] = i
  <1>1. ASSUME NEW closers \in SUBSET Players, CloseTrades(closers) PROVE FALSE
    BY <1>1, SurvivorsNotClosed
  <1>2. ASSUME NEW p \in Players, NEW q \in Players, NEW i \in Items, RequestTrade(p, q, i)
        PROVE  r = p /\ tradeItem'[r] = i
    BY <1>2 DEF RequestTrade, TradeInv, TradeTypeOK
  <1>3. ASSUME NEW p \in Players,
               \/ AcceptFirst(p) \/ ExchangeFails(p) \/ AcceptWithoutOffer(p)
               \/ PlayerCloseTrade(p) \/ Logout(p) \/ Login(p) \/ \E t \in Tiles : Walk(p, t)
        PROVE  FALSE
    BY <1>1, <1>3 DEF AcceptFirst, ExchangeFails, AcceptWithoutOffer, PlayerCloseTrade,
                      Logout, Login, Walk, trade
  <1>4. ASSUME NEW p \in Players, NEW d1 \in Cylinders, NEW d2 \in Cylinders,
               Exchange(p, d1, d2)
        PROVE  FALSE
    <2>1. PICK closers \in SUBSET Players : CloseTrades(closers)
      BY <1>4 DEF Exchange, Disturbed, DisturbedByRemoval, DisturbedByAddition
    <2>2. QED BY <1>1, <2>1
  <1>5. ASSUME NEW i \in Items, NEW d \in Cylinders, MoveItem(i, d)
        PROVE  FALSE
    <2>1. PICK closers \in SUBSET Players : CloseTrades(closers)
      BY <1>5 DEF MoveItem, Disturbed, DisturbedByRemoval, DisturbedByAddition
    <2>2. QED BY <1>1, <2>1
  <1>6. CASE UNCHANGED tradeVars
    BY <1>6 DEF tradeVars
  <1>7. QED BY <1>2, <1>3, <1>4, <1>5, <1>6 DEF TradeNext

(* Offers stay apart: an old one has not moved, and a new one was checked  *)
(* against all that stood.                                                 *)
LEMMA NoNestedNext ==
  ASSUME TradeConstants
  PROVE  Placed /\ [TradeNext]_tradeVars => NoNestedOffers'
  <1> SUFFICES ASSUME Placed, [TradeNext]_tradeVars,
                      NEW i \in Items, NEW j \in Items,
                      tradeItems'[i] # NoPlayer, tradeItems'[j] # NoPlayer
               PROVE  j \notin Around(parent', i)
    BY DEF NoNestedOffers, Inside
  <1>1. TradeInv /\ TradeInv' /\ NoCycle(parent') /\ OffersKept
    BY TradeInvNext, NextKeeps DEF Placed, NoCycle, Inside
  <1>2. CASE i = j
    BY <1>1, <1>2 DEF NoCycle, Inside
  <1>3. CASE i # j
    <2>1. PICK p \in Players : tradeItem'[p] = i
      BY <1>1 DEF TradeInv, TradeTypeOK, OffersReserved
    <2>2. PICK r \in Players : tradeItem'[r] = j
      BY <1>1 DEF TradeInv, TradeTypeOK, OffersReserved
    <2>3. i # NoItem /\ j # NoItem
      BY DEF TradeConstants
    <2>4. CASE tradeItem[p] = i /\ tradeItem[r] = j
      <3>1. tradeItems[i] # NoPlayer /\ tradeItems[j] # NoPlayer
        BY <1>1, <2>4 DEF TradeConstants, TradeInv, OffersReserved
      <3>2. j \notin Around(parent, i)
        BY <3>1 DEF Placed, NoNestedOffers, Inside
      <3>3. Around(parent', i) = Around(parent, i)
        BY <1>1, <2>1, <2>3, <2>4 DEF OffersKept, Stands
      <3>4. QED BY <3>2, <3>3
    <2>5. ASSUME NEW s \in Players, NEW q \in Players, NEW n \in Items,
                 RequestTrade(s, q, n), n \in {i, j}
          PROVE  j \notin Around(parent', i)
      <3>1. parent' = parent /\ tradeItems' = [tradeItems EXCEPT ![n] = s]
        BY <2>5 DEF RequestTrade, world
      <3>2. \A k \in {i, j} : k # n => tradeItems[k] # NoPlayer
        BY <3>1, <1>1 DEF TradeInv, TradeTypeOK
      <3>3. \A k \in {i, j} : k # n => k \notin Around(parent, n) /\ n \notin Around(parent, k)
        BY <2>5, <3>2 DEF RequestTrade, FreeToOffer, Inside
      <3>4. QED BY <1>3, <2>5, <3>1, <3>3
    <2>6. CASE tradeItem[p] # i
      <3>1. PICK q \in Players, n \in Items : RequestTrade(p, q, n) /\ tradeItem'[p] = n
        BY <1>1, <2>1, <2>3, <2>6, NewOffersRequested
      <3>2. QED BY <2>1, <2>5, <3>1
    <2>7. CASE tradeItem[r] # j
      <3>1. PICK q \in Players, n \in Items : RequestTrade(r, q, n) /\ tradeItem'[r] = n
        BY <1>1, <2>2, <2>3, <2>7, NewOffersRequested
      <3>2. QED BY <2>2, <2>5, <3>1
    <2>8. QED BY <2>4, <2>6, <2>7
  <1>4. QED BY <1>2, <1>3

(* Only walking moves players, and apart from a request a step at most     *)
(* ends trades.                                                            *)
OnlyCloses == \A r \in Players : /\ tradeItem'[r] \in {NoItem, tradeItem[r]}
                                 /\ tradePartner'[r] \in {NoPlayer, tradePartner[r]}

(* A step asks for a trade, or walks, or leaves everybody in place; but    *)
(* for the first, it makes no offer.                                       *)
LEMMA StepKinds ==
  ASSUME TradeConstants,
         TradeInv, [TradeNext]_tradeVars
  PROVE  \/ \E p, q \in Players, i \in Items : RequestTrade(p, q, i)
         \/ OnlyCloses /\ \E p \in Players, t \in Tiles : Walk(p, t)
         \/ OnlyCloses /\ pos' = pos
  <1>1. ASSUME NEW closers \in SUBSET Players, CloseTrades(closers) PROVE OnlyCloses
    BY <1>1 DEF CloseTrades, ResetPlayers, OnlyCloses
  <1>2. ASSUME NEW p \in Players, AcceptFirst(p) \/ Login(p)
        PROVE  OnlyCloses /\ pos' = pos
    BY <1>2 DEF AcceptFirst, Login, trade, world, OnlyCloses
  <1>3. ASSUME NEW p \in Players,
               ExchangeFails(p) \/ AcceptWithoutOffer(p) \/ PlayerCloseTrade(p) \/ Logout(p)
        PROVE  OnlyCloses /\ pos' = pos
    BY <1>1, <1>3 DEF ExchangeFails, AcceptWithoutOffer, PlayerCloseTrade, Logout, world
  <1>4. ASSUME NEW p \in Players, NEW t \in Tiles, Walk(p, t)
        PROVE  OnlyCloses
    BY <1>1, <1>4 DEF Walk
  <1>5. ASSUME NEW p \in Players, NEW d1 \in Cylinders, NEW d2 \in Cylinders,
               Exchange(p, d1, d2)
        PROVE  OnlyCloses /\ pos' = pos
    <2>1. PICK closers \in SUBSET Players : CloseTrades(closers)
      BY <1>5 DEF Exchange, Disturbed, DisturbedByRemoval, DisturbedByAddition
    <2>2. QED BY <1>1, <1>5, <2>1 DEF Exchange
  <1>6. ASSUME NEW i \in Items, NEW d \in Cylinders, MoveItem(i, d)
        PROVE  OnlyCloses /\ pos' = pos
    <2>1. PICK closers \in SUBSET Players : CloseTrades(closers)
      BY <1>6 DEF MoveItem, Disturbed, DisturbedByRemoval, DisturbedByAddition
    <2>2. QED BY <1>1, <1>6, <2>1 DEF MoveItem
  <1>7. CASE UNCHANGED tradeVars
    BY <1>7 DEF tradeVars, OnlyCloses
  <1>8. QED BY <1>2, <1>3, <1>4, <1>5, <1>6, <1>7 DEF TradeNext

(* Offers stay in reach: a new one was checked, an old one has not moved,  *)
(* and a player who walks away from it or from the partner closes.         *)
LEMMA InReachNext ==
  ASSUME TradeConstants
  PROVE  Placed /\ [TradeNext]_tradeVars => OffersInReach'
  <1> SUFFICES ASSUME Placed, [TradeNext]_tradeVars PROVE OffersInReach'
    OBVIOUS
  <1> DEFINE OfferIn(r) == tradeItem[r] # NoItem =>
                             /\ ItemInRange(pos, parent, r, tradeItem[r])
                             /\ TopParent(parent, tradeItem[r]) \in {r} \union Tiles
             Near(r) == tradePartner[r] # NoPlayer => PlayersInRange(pos, r, tradePartner[r])
  <1>1. OffersInReach <=> \A r \in Players : OfferIn(r) /\ Near(r)
    BY DEF OffersInReach
  <1>2. OffersInReach' <=> \A r \in Players : OfferIn(r)' /\ Near(r)'
    BY DEF OffersInReach
  <1>3. TradeInv /\ OffersKept /\ (\A r \in Players : OfferIn(r) /\ Near(r))
    BY <1>1, NextKeeps DEF Placed
  <1>4. /\ pos \in [Players -> Tiles] /\ Tiles \subseteq Int
        /\ tradePartner \in [Players -> Players \union {NoPlayer}]
        /\ tradeItem \in [Players -> Items \union {NoItem}]
    BY <1>3 DEF TradeConstants, TradeInv, TradeTypeOK
  <1>5. ASSUME NEW p \in Players, NEW q \in Players, NEW i \in Items, RequestTrade(p, q, i)
        PROVE  \A r \in Players : OfferIn(r)' /\ Near(r)'
    <2>1. /\ pos' = pos /\ parent' = parent
          /\ tradeItem' = [tradeItem EXCEPT ![p] = i]
          /\ tradePartner' = [tradePartner EXCEPT ![p] = q, ![q] = p]
          /\ p # q
          /\ ItemInRange(pos, parent, p, i)
          /\ TopParent(parent, i) \in {p} \union Tiles
          /\ PlayersInRange(pos, p, q)
      BY <1>5 DEF RequestTrade, world
    <2>2. PlayersInRange(pos, q, p)
      BY <1>4, <2>1, DistanceSymmetric DEF PlayersInRange
    <2>3. TAKE r \in Players
    <2>4. tradeItem'[r] = IF r = p THEN i ELSE tradeItem[r]
      BY <1>4, <2>1
    <2>5. tradePartner'[r] = IF r = p THEN q ELSE IF r = q THEN p ELSE tradePartner[r]
      BY <1>4, <2>1
    <2>6. OfferIn(r)'
      BY <1>3, <2>1, <2>4
    <2>7. Near(r)'
      BY <1>3, <2>1, <2>2, <2>5
    <2>8. QED BY <2>6, <2>7
  <1>6. ASSUME NEW r \in Players, OnlyCloses, tradeItem'[r] # NoItem
        PROVE  /\ tradeItem'[r] = tradeItem[r]
               /\ TopParent(parent', tradeItem[r]) = TopParent(parent, tradeItem[r])
    <2>1. tradeItem'[r] = tradeItem[r] /\ tradeItem[r] # NoItem
      BY <1>6 DEF OnlyCloses
    <2>2. Around(parent', tradeItem[r]) = Around(parent, tradeItem[r])
      BY <1>3, <2>1 DEF OffersKept, Stands
    <2>3. QED BY <2>1, <2>2 DEF TopParent
  <1>7. CASE OnlyCloses /\ pos' = pos
    <2> SUFFICES ASSUME NEW r \in Players PROVE OfferIn(r)' /\ Near(r)'
      BY <1>2
    <2>1. OfferIn(r)'
      BY <1>3, <1>6, <1>7 DEF ItemInRange
    <2>2. Near(r)'
      BY <1>3, <1>7 DEF OnlyCloses, PlayersInRange
    <2>3. QED BY <2>1, <2>2
  <1>8. ASSUME OnlyCloses, NEW p \in Players, NEW t \in Tiles, Walk(p, t)
        PROVE  \A r \in Players : OfferIn(r)' /\ Near(r)'
    <2> DEFINE tooFar == \/ tradeItem[p] # NoItem /\ ~ItemInRange(pos', parent, p, tradeItem[p])
                         \/ tradePartner[p] # NoPlayer
                               /\ ~PlayersInRange(pos', p, tradePartner[p])
    <2>1. /\ pos' = [pos EXCEPT ![p] = t]
          /\ parent' = parent
          /\ CloseTrades(IF tooFar THEN {p} ELSE {})
      BY <1>8 DEF Walk
    <2>2. /\ pos' \in [Players -> Tiles]
          /\ \A r \in Players : r # p => pos'[r] = pos[r]
      BY <1>4, <2>1
    <2>3. ASSUME NEW r \in Players, tradeItem'[r] # NoItem \/ tradePartner'[r] # NoPlayer
          PROVE  tooFar => r # p /\ tradePartner[r] # p
      BY <2>1, <2>3 DEF CloseTrades, ResetPlayers, WithPartners
    <2>4. tooFar \/ /\ tradeItem[p] # NoItem => ItemInRange(pos', parent, p, tradeItem[p])
                    /\ tradePartner[p] # NoPlayer => PlayersInRange(pos', p, tradePartner[p])
      OBVIOUS
    <2> HIDE DEF tooFar
    <2>5. TAKE r \in Players
    <2>6. OfferIn(r)'
      <3> SUFFICES ASSUME tradeItem'[r] # NoItem
                   PROVE  /\ ItemInRange(pos', parent, r, tradeItem[r])
                          /\ TopParent(parent, tradeItem[r]) \in {r} \union Tiles
        BY <1>6, <1>8, <2>1
      <3>1. tradeItem[r] # NoItem
        BY <1>6, <1>8
      <3>2. TopParent(parent, tradeItem[r]) \in {r} \union Tiles
        BY <1>3, <3>1
      <3>3. CASE r = p
        BY <2>3, <2>4, <3>1, <3>2, <3>3
      <3>4. CASE r # p
        <4>1. ItemInRange(pos, parent, r, tradeItem[r])
          BY <1>3, <3>1
        <4>2. \A c \in {r} \union Tiles : c \in Players => c = r
          BY DEF TradeConstants
        <4>3. pos'[r] = pos[r]
          BY <2>2, <3>4
        <4>4. QED BY <3>2, <4>1, <4>2, <4>3 DEF ItemInRange
      <3>5. QED BY <3>2, <3>3, <3>4
    <2>7. Near(r)'
      <3> SUFFICES ASSUME tradePartner'[r] # NoPlayer
                   PROVE  PlayersInRange(pos', r, tradePartner[r])
        BY <1>8 DEF OnlyCloses
      <3>1. tradePartner[r] # NoPlayer /\ tradePartner[r] \in Players
        BY <1>4, <1>8 DEF OnlyCloses
      <3>2. CASE r = p
        BY <2>3, <2>4, <3>1, <3>2
      <3>3. CASE tradePartner[r] = p
        <4>1. tradePartner[p] = r
          BY <1>3, <3>1, <3>3 DEF TradeInv, PartnersAgree
        <4>2. tradePartner[p] # NoPlayer
          BY <4>1 DEF TradeConstants
        <4>3. PlayersInRange(pos', p, r)
          BY <2>3, <2>4, <3>3, <4>1, <4>2
        <4>4. QED BY <1>4, <2>2, <3>3, <4>3, DistanceSymmetric DEF PlayersInRange
      <3>4. CASE r # p /\ tradePartner[r] # p
        BY <1>3, <2>2, <3>1, <3>4 DEF PlayersInRange
      <3>5. QED BY <3>2, <3>3, <3>4
    <2>8. QED BY <2>6, <2>7
  <1>9. QED BY <1>2, <1>3, <1>5, <1>7, <1>8, StepKinds

(* The world stays well formed around the trades.                          *)
THEOREM PlacedInvariance == TradeSpec => []Placed
  <1> USE TradeAssumption
  <1>1. Placed /\ [TradeNext]_tradeVars => Placed'
    <2> SUFFICES ASSUME Placed, [TradeNext]_tradeVars PROVE Placed'
      OBVIOUS
    <2>1. TradeInv' /\ NoCycle(parent)'
      BY TradeInvNext, NextKeeps DEF Placed
    <2>2. QED BY <2>1, NoNestedNext, InReachNext DEF Placed
  <1>2. QED BY <1>1, PlacedInit, PTL DEF TradeSpec

(* However items are moved about, nobody ever offers a container together  *)
(* with something inside it.                                               *)
THEOREM OffersNeverNested == TradeSpec => []NoNestedOffers
  <1>1. Placed => NoNestedOffers
    BY DEF Placed
  <1>2. QED BY <1>1, PlacedInvariance, PTL

(* Whatever is offered is in reach of its player and in nobody else's      *)
(* hands, and partners stay close enough to trade.                         *)
THEOREM OffersAlwaysInReach == TradeSpec => []OffersInReach
  <1>1. Placed => OffersInReach
    BY DEF Placed
  <1>2. QED BY <1>1, PlacedInvariance, PTL

(* What was shown to the partner stays as it was while the offer stands.   *)
THEOREM OffersAlwaysFrozen == TradeSpec => OfferFrozen
  <1> USE TradeAssumption
  <1> DEFINE Frozen == \A p \in Players :
                  LET offer == tradeItem[p]
                  IN  offer # NoItem /\ tradeItem'[p] = offer =>
                        /\ parent'[offer] = parent[offer]
                        /\ \A i \in Items :
                             Inside(parent, i, offer) \/ Inside(parent', i, offer) =>
                                parent'[i] = parent[i]
  <1>1. Placed /\ [TradeNext]_tradeVars => Frozen
    <2> SUFFICES ASSUME Placed, [TradeNext]_tradeVars PROVE Frozen
      OBVIOUS
    <2>1. OffersKept
      BY NextKeeps DEF Placed
    <2>2. QED BY <2>1 DEF OffersKept, Stands
  <1>2. Placed /\ [TradeNext]_tradeVars => [Frozen]_tradeVars
    BY <1>1
  <1>3. QED BY <1>2, PlacedInvariance, PTL DEF TradeSpec, OfferFrozen

(* Everything in a container ends up with whoever has the container.       *)
LEMMA SameTop ==
  ASSUME TradeConstants,
         NEW par \in [Items -> Cylinders], NEW i \in Items,
         NEW k \in Items, k \in Around(par, i)
  PROVE  TopParent(par, i) = TopParent(par, k)
  <1> DEFINE S == {x \in Around(par, i) : \/ x = k \/ x \in Around(par, k)
                                          \/ x \in Items /\ k \in Around(par, x)}
  <1>1. par[i] \in S
    BY AroundClosed, AroundStep
  <1>2. ASSUME NEW x \in S, x \in Items PROVE par[x] \in S
    <2>1. par[x] \in Around(par, i)
      BY <1>2, AroundClosed
    <2>2. x = k \/ x \in Around(par, k) => par[x] \in Around(par, k)
      BY <1>2, AroundClosed
    <2>3. k \in Around(par, x) => k = par[x] \/ (par[x] \in Items /\ k \in Around(par, par[x]))
      <3> HIDE DEF S
      <3>1. QED BY <1>2, AroundStep
    <2>4. QED BY <1>2, <2>1, <2>2, <2>3
  <1>3. Around(par, i) \subseteq S
    <2> HIDE DEF S
    <2>1. QED BY <1>1, <1>2, AroundLeast
  <1>4. Around(par, k) \subseteq Around(par, i)
    BY AroundTransitive
  <1>5. \A c : c \in Around(par, i) /\ c \notin Items <=> c \in Around(par, k) /\ c \notin Items
    BY <1>3, <1>4
  <1>6. QED BY <1>5, Zenon DEF TopParent

(* When x is moved, whatever changes hands is x or goes with x.            *)
LEMMA MovedTogether ==
  ASSUME TradeConstants,
         NEW par \in [Items -> Cylinders], NEW par2 \in [Items -> Cylinders],
         NEW x \in Items, \A y \in Items : y # x => par2[y] = par[y],
         NEW i \in Items, TopParent(par2, i) # TopParent(par, i)
  PROVE  TopParent(par2, i) = TopParent(par2, x)
  <1>1. Around(par2, i) # Around(par, i)
    BY DEF TopParent
  <1>2. i = x \/ x \in Around(par2, i)
    BY <1>1, AroundUnmoved
  <1>3. QED BY <1>2, SameTop

(* A step that swaps two offers is the exchange of the two partners.       *)
LEMMA SwapsAgreed ==
  ASSUME TradeConstants, Placed, [TradeNext]_tradeVars,
         NEW p \in Players, NEW q \in Players, OffersSwapped(p, q)
  PROVE  SwapAgreed(p, q)
  <1> DEFINE i == tradeItem[p]
             j == tradeItem[q]
  <1>1. /\ parent \in [Items -> Cylinders]
        /\ tradeItem \in [Players -> Items \union {NoItem}]
        /\ tradePartner \in [Players -> Players \union {NoPlayer}]
        /\ tradeItems \in [Items -> Players \union {NoPlayer}]
        /\ tradeState \in [Players -> TradeStates]
    BY DEF Placed, TradeInv, TradeTypeOK
  <1>2. p # q /\ i \in Items /\ j \in Items
    BY <1>1 DEF OffersSwapped
  <1>3. TopParent(parent', i) = q /\ TopParent(parent', j) = p
    BY DEF OffersSwapped
  <1>4. TopParent(parent, i) # q /\ TopParent(parent, j) # p
    BY <1>1, <1>2 DEF Placed, OffersInReach, TradeConstants
  <1>5. parent' # parent
    BY <1>3, <1>4
  <1>6. ASSUME NEW k \in Items, NEW d \in Cylinders, MoveItem(k, d) PROVE FALSE
    <2>1. /\ parent' \in [Items -> Cylinders]
          /\ \A y \in Items : y # k => parent'[y] = parent[y]
      BY <1>1, <1>6 DEF MoveItem
    <2>2. TopParent(parent', i) = TopParent(parent', k)
      BY <1>1, <1>2, <1>3, <1>4, <2>1, MovedTogether
    <2>3. TopParent(parent', j) = TopParent(parent', k)
      BY <1>1, <1>2, <1>3, <1>4, <2>1, MovedTogether
    <2>4. QED BY <1>2, <1>3, <2>2, <2>3
  <1>7. ASSUME NEW a \in Players, NEW d1 \in Cylinders, NEW d2 \in Cylinders,
               Exchange(a, d1, d2)
        PROVE  SwapAgreed(p, q)
    <2> DEFINE b  == tradePartner[a]
               i1 == tradeItem[a]
               i2 == tradeItem[b]
               parent1 == [parent EXCEPT ![i1] = d1]
    <2>1. /\ MayAccept(a) /\ b # NoPlayer /\ tradeState[b] = "ACCEPT"
          /\ i1 # NoItem /\ i2 # NoItem
          /\ parent' = [parent1 EXCEPT ![i2] = d2]
      BY <1>7 DEF Exchange, MayAccept
    <2>2. /\ b \in Players /\ tradePartner[b] = a /\ a # b
          /\ i1 \in Items /\ i2 \in Items
      BY <1>1, <2>1 DEF Placed, TradeInv, PartnersAgree
    <2>3. tradeItems[i1] = a /\ tradeItems[i2] = b
      BY <2>2 DEF Placed, TradeInv, OffersReserved
    <2>4. /\ parent1 \in [Items -> Cylinders] /\ parent' \in [Items -> Cylinders]
          /\ \A y \in Items : y # i1 => parent1[y] = parent[y]
          /\ \A y \in Items : y # i2 => parent'[y] = parent1[y]
      BY <1>1, <2>1, <2>2
    <2>5. ASSUME NEW r \in Players, r # a, r # b, tradeItem[r] \in Items
          PROVE  TopParent(parent', tradeItem[r]) = TopParent(parent, tradeItem[r])
      <3> DEFINE o == tradeItem[r]
      <3>1. tradeItems[o] = r
        BY <2>5 DEF Placed, TradeInv, OffersReserved
      <3>2. o # i1 /\ o # i2
        BY <2>3, <2>5, <3>1
      <3>3. i1 \notin Around(parent, o) /\ i2 \notin Around(parent, o)
        BY <2>2, <2>3, <2>5, <3>1 DEF Placed, NoNestedOffers, Inside, TradeConstants
      <3> HIDE DEF o, parent1, i1, i2, b
      <3>4. o \in Items
        BY <2>5 DEF o
      <3>5. Around(parent1, o) = Around(parent, o)
        BY <1>1, <2>2, <2>4, <3>2, <3>3, <3>4, AroundUnmoved
      <3>6. Around(parent', o) = Around(parent1, o)
        BY <2>2, <2>4, <3>2, <3>3, <3>4, <3>5, AroundUnmoved
      <3>7. QED BY <3>5, <3>6 DEF TopParent, o
    <2>6. p \in {a, b} /\ q \in {a, b}
      BY <1>2, <1>3, <1>4, <2>5
    <2>7. tradeState'[a] = "NONE" /\ tradeState'[b] = "NONE"
      <3>1. PICK closers \in SUBSET Players : a \in closers /\ CloseTrades(closers)
        BY <1>7 DEF Exchange, Disturbed, DisturbedByRemoval, DisturbedByAddition
      <3>2. QED BY <2>2, <3>1 DEF CloseTrades, ResetPlayers, WithPartners
    <2>8. QED BY <1>2, <2>1, <2>2, <2>6, <2>7 DEF SwapAgreed
  <1>8. ASSUME NEW a \in Players, NEW b \in Players, NEW k \in Items, RequestTrade(a, b, k)
        PROVE  FALSE
    BY <1>5, <1>8 DEF RequestTrade, world
  <1>9. ASSUME NEW a \in Players,
               \/ AcceptFirst(a) \/ ExchangeFails(a) \/ AcceptWithoutOffer(a)
               \/ PlayerCloseTrade(a) \/ Logout(a) \/ Login(a) \/ \E t \in Tiles : Walk(a, t)
        PROVE  FALSE
    BY <1>5, <1>9 DEF AcceptFirst, ExchangeFails, AcceptWithoutOffer, PlayerCloseTrade,
                      Logout, Login, Walk, world
  <1>10. ~UNCHANGED tradeVars
    BY <1>5 DEF tradeVars
  <1>11. QED BY <1>6, <1>7, <1>8, <1>9, <1>10 DEF TradeNext

(* Two offers change hands only between partners who have both accepted,   *)
(* and after a player has accepted nobody can replace what the partner     *)
(* offers, nor take the partner's place.                                   *)
THEOREM AcceptedOfferAlwaysStands == TradeSpec => AcceptedOfferStands
  <1> USE TradeAssumption
  <1> DEFINE Stays == \A p \in Players : AcceptanceBinds(p)
             Agreed == \A p, q \in Players : OffersSwapped(p, q) => SwapAgreed(p, q)
  <1>1. ASSUME TradeInv, NEW closers \in SUBSET Players, CloseTrades(closers)
        PROVE  Stays
    <2> SUFFICES ASSUME NEW p \in Players, tradeState[p] = "ACCEPT", tradeState'[p] = "ACCEPT"
                 PROVE  /\ tradePartner'[p] = tradePartner[p]
                        /\ tradeItem'[p] = tradeItem[p]
                        /\ tradeItem'[tradePartner[p]] = tradeItem[tradePartner[p]]
      BY DEF AcceptanceBinds
    <2>1. p \notin WithPartners(closers)
      BY <1>1 DEF CloseTrades, ResetPlayers
    <2>2. tradePartner[p] \in Players /\ tradePartner[tradePartner[p]] = p
      BY <1>1 DEF TradeInv, TradeTypeOK, PartnersAgree
    <2>3. tradePartner[p] \notin WithPartners(closers)
      BY <2>1, <2>2 DEF WithPartners
    <2>4. QED BY <1>1, <2>1, <2>2, <2>3 DEF CloseTrades, ResetPlayers
  <1>2. ASSUME TradeInv, NEW a \in Players, NEW b \in Players, NEW i \in Items, RequestTrade(a, b, i)
        PROVE  Stays
    <2> SUFFICES ASSUME NEW p \in Players, tradeState[p] = "ACCEPT", tradeState'[p] = "ACCEPT"
                 PROVE  /\ tradePartner'[p] = tradePartner[p]
                        /\ tradeItem'[p] = tradeItem[p]
                        /\ tradeItem[tradePartner[p]] # NoItem =>
                             tradeItem'[tradePartner[p]] = tradeItem[tradePartner[p]]
      BY DEF AcceptanceBinds
    <2>1. /\ tradePartner \in [Players -> Players \union {NoPlayer}]
          /\ tradeItem \in [Players -> Items \union {NoItem}]
          /\ tradeState \in [Players -> TradeStates]
      BY <1>2 DEF TradeInv, TradeTypeOK
    <2>2. p # a
      BY <1>2, <2>1 DEF RequestTrade
    <2>3. p = b => tradePartner[p] = a
      BY <1>2 DEF RequestTrade
    <2>4. tradePartner'[p] = tradePartner[p]
      BY <1>2, <2>1, <2>2, <2>3 DEF RequestTrade
    <2>5. tradeItem[a] = NoItem
      BY <1>2 DEF RequestTrade, TradeInv, PartnersAgree
    <2>6. tradePartner[p] \in Players
      BY <1>2, <2>1 DEF TradeInv, PartnersAgree
    <2>7. QED BY <1>2, <2>1, <2>2, <2>4, <2>5, <2>6 DEF RequestTrade
  <1>3. ASSUME TradeInv, NEW p \in Players, AcceptFirst(p) \/ Login(p)
        PROVE  Stays
    BY <1>3 DEF AcceptFirst, Login, trade, AcceptanceBinds
  <1>4. ASSUME TradeInv, NEW p \in Players,
               \/ ExchangeFails(p) \/ AcceptWithoutOffer(p) \/ PlayerCloseTrade(p) \/ Logout(p)
               \/ \E t \in Tiles : Walk(p, t)
        PROVE  Stays
    <2>1. PICK closers \in SUBSET Players : CloseTrades(closers)
      BY <1>4 DEF ExchangeFails, AcceptWithoutOffer, PlayerCloseTrade, Logout, Walk
    <2>2. QED BY <1>1, <1>4, <2>1
  <1>5. ASSUME TradeInv, NEW p \in Players, NEW d1 \in Cylinders, NEW d2 \in Cylinders,
               Exchange(p, d1, d2)
        PROVE  Stays
    <2>1. PICK closers \in SUBSET Players : CloseTrades(closers)
      BY <1>5 DEF Exchange, Disturbed, DisturbedByRemoval, DisturbedByAddition
    <2>2. QED BY <1>1, <1>5, <2>1
  <1>6. ASSUME TradeInv, NEW i \in Items, NEW d \in Cylinders, MoveItem(i, d)
        PROVE  Stays
    <2>1. PICK closers \in SUBSET Players : CloseTrades(closers)
      BY <1>6 DEF MoveItem, Disturbed, DisturbedByRemoval, DisturbedByAddition
    <2>2. QED BY <1>1, <1>6, <2>1
  <1>7. ASSUME TradeInv, UNCHANGED tradeVars
        PROVE  Stays
    BY <1>7 DEF tradeVars, AcceptanceBinds
  <1>8. Placed /\ [TradeNext]_tradeVars => Stays
    <2> HIDE DEF Stays
    <2>1. QED BY <1>2, <1>3, <1>4, <1>5, <1>6, <1>7 DEF TradeNext, Placed
  <1>9. Placed /\ [TradeNext]_tradeVars => Agreed
    BY SwapsAgreed
  <1>10. Placed /\ [TradeNext]_tradeVars => [Stays /\ Agreed]_tradeVars
    BY <1>8, <1>9
  <1>11. QED BY <1>10, PlacedInvariance, PTL DEF TradeSpec, AcceptedOfferStands
=============================================================================
