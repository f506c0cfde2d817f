-------------------------- MODULE PacketPanel_proofs --------------------------
(***************************************************************************)
(* Proofs about the packet table, for every size of the ring, the batches  *)
(* and the cache, any number of packets, restarts, overlapping fetches and *)
(* acts of the user.  The invariant has a part for each component:         *)
(*                                                                         *)
(*   RingOK          what the ring holds, read from its head               *)
(*   PageShaped      the batch, the rows and the selection                 *)
(*   CacheInv        what the cache may have evicted                       *)
(*   InspectorInv    which fetch belongs to the inspector                  *)
(*   CoverInv        what the polls under way have still to bring          *)
(***************************************************************************)
EXTENDS PacketPanel, FiniteSetTheorems, WellFoundedInduction, TLAPS

USE PanelAssumption

-----------------------------------------------------------------------------
(* Numbers.                                                                *)

LEMMA LeastNat ==
    ASSUME NEW T, T \subseteq Nat, T # {}
    PROVE  \E x \in T : \A y \in T : x <= y
<1> DEFINE R == OpToRel(<, Nat)
<1>1. IsWellFoundedOn(R, Nat)
  BY NatLessThanWellFounded
<1>2. \A x, y \in Nat : y < x => <<y, x>> \in R
  BY DEF OpToRel
<1> HIDE DEF R
<1>3. PICK x \in T : \A y \in T : ~ (<<y, x>> \in R)
  BY <1>1, WFMin
<1>4. ASSUME NEW y \in T PROVE x <= y
  <2>1. x \in Nat /\ y \in Nat /\ ~(y < x)
    BY <1>2, <1>3
  <2> QED
    BY <2>1
<1> QED
  BY <1>4

\* Induction up to n: a set that has 0 and, below n, the successor of each member.
LEMMA UpTo ==
    ASSUME NEW n \in Nat, NEW T, 0 \in T, \A k \in 0 .. n : k \in T /\ k < n => k + 1 \in T
    PROVE  \A k \in 0 .. n : k \in T
<1> DEFINE Bad == {k \in 0 .. n : k \notin T}
<1> SUFFICES ASSUME Bad # {} PROVE FALSE
  OBVIOUS
<1>1. Bad \subseteq Nat
  OBVIOUS
<1>2. PICK k \in Bad : \A j \in Bad : k <= j
  BY <1>1, LeastNat
<1>3. k # 0 /\ k - 1 \in 0 .. n /\ k - 1 < n /\ k - 1 \notin Bad
  BY <1>2
<1>4. k - 1 \in T
  BY <1>3
<1>5. (k - 1) + 1 \in T
  BY <1>3, <1>4
<1> QED
  BY <1>2, <1>5

\* An index that has run at most once around the ring.
LEMMA Wrapped ==
    ASSUME NEW x \in 0 .. 2 * Capacity - 1
    PROVE  x % Capacity = IF x < Capacity THEN x ELSE x - Capacity
  OBVIOUS

LEMMA MaxIs ==
    ASSUME NEW S, S \subseteq Int, NEW m \in S, \A y \in S : y <= m
    PROVE  Max(S) = m
<1>1. \E x \in S : \A y \in S : x >= y
  OBVIOUS
<1>2. Max(S) \in S /\ \A y \in S : Max(S) >= y
  BY <1>1 DEF Max
<1>3. Max(S) >= m /\ Max(S) <= m /\ Max(S) \in Int
  BY <1>2
<1> QED
  BY <1>3

LEMMA MinIs ==
    ASSUME NEW S, S \subseteq Int, NEW m \in S, \A y \in S : m <= y
    PROVE  Min(S) = m
<1>1. \E x \in S : \A y \in S : x <= y
  OBVIOUS
<1>2. Min(S) \in S /\ \A y \in S : Min(S) <= y
  BY <1>1 DEF Min
<1>3. Min(S) >= m /\ Min(S) <= m /\ Min(S) \in Int
  BY <1>2
<1> QED
  BY <1>3

LEMMA MinIn ==
    ASSUME NEW S, S \subseteq Nat, S # {}
    PROVE  Min(S) \in S
<1>1. PICK m \in S : \A y \in S : m <= y
  BY LeastNat
<1>2. S \subseteq Int
  OBVIOUS
<1>3. Min(S) = m
  BY <1>1, <1>2, MinIs
<1> QED
  BY <1>3

\* The most packets a batch can have.
Big == Max({MaxPackets, FileSize})

LEMMA BigBounds == Big \in Nat /\ MaxPackets <= Big /\ FileSize <= Big
<1>1. CASE MaxPackets <= FileSize
  BY <1>1, MaxIs DEF Big
<1>2. CASE FileSize <= MaxPackets
  BY <1>2, MaxIs DEF Big
<1> QED
  BY <1>1, <1>2

-----------------------------------------------------------------------------
(* Sequences: what is kept of one, and its order.                          *)

\* The loop of Kept, step by step.
LEMMA KeptLoop ==
    ASSUME NEW S, NEW seq \in Seq(S), NEW hits
    PROVE  \E upTo :
              /\ upTo = [n \in 0 .. Len(seq) |->
                            IF n = 0 THEN <<>>
                            ELSE IF n \in hits THEN Append(upTo[n - 1], seq[n])
                                 ELSE upTo[n - 1]]
              /\ Kept(seq, hits) = upTo[Len(seq)]
<1> DEFINE Law(f, m) == f = [n \in 0 .. m |->
                                IF n = 0 THEN <<>>
                                ELSE IF n \in hits THEN Append(f[n - 1], seq[n]) ELSE f[n - 1]]
           T == {m \in Nat : \E f : Law(f, m)}
<1>1. 0 \in T
  <2> DEFINE f == [n \in 0 .. 0 |-> <<>>]
  <2>1. Law(f, 0)
    OBVIOUS
  <2> QED
    BY <2>1
<1>2. ASSUME NEW m \in Nat, m \in T PROVE m + 1 \in T
  <2>1. PICK f : Law(f, m)
    BY <1>2
  <2> DEFINE last == IF m + 1 \in hits THEN Append(f[m], seq[m + 1]) ELSE f[m]
             g == [n \in 0 .. m + 1 |-> IF n = m + 1 THEN last ELSE f[n]]
  <2>2. \A n \in 0 .. m : g[n] = f[n]
    OBVIOUS
  <2>3. g[m + 1] = last
    OBVIOUS
  <2>4. ASSUME NEW n \in 0 .. m + 1
        PROVE  g[n] = IF n = 0 THEN <<>>
                      ELSE IF n \in hits THEN Append(g[n - 1], seq[n]) ELSE g[n - 1]
    <3>1. CASE n = m + 1
      <4>1. n # 0 /\ n - 1 = m /\ g[n - 1] = f[m]
        BY <2>2, <3>1
      <4> QED
        BY <2>3, <3>1, <4>1
    <3>2. CASE n # m + 1
      <4>1. n \in 0 .. m /\ g[n] = f[n]
        BY <2>2, <3>2
      <4>2. f[n] = IF n = 0 THEN <<>>
                   ELSE IF n \in hits THEN Append(f[n - 1], seq[n]) ELSE f[n - 1]
        BY <2>1, <4>1
      <4>3. n # 0 => n - 1 \in 0 .. m /\ g[n - 1] = f[n - 1]
        BY <2>2, <4>1
      <4> QED
        BY <4>1, <4>2, <4>3
    <3> QED
      BY <3>1, <3>2
  <2>5. Law(g, m + 1)
    <3>1. g = [n \in 0 .. m + 1 |-> g[n]]
      OBVIOUS
    <3> HIDE DEF g
    <3> QED
      BY <2>4, <3>1
  <2> HIDE DEF g, Law
  <2> QED
    BY <2>5
<1>3. Len(seq) \in T
  <2> HIDE DEF T
  <2>1. Len(seq) \in Nat
    OBVIOUS
  <2>2. \A k \in 0 .. Len(seq) : k \in T /\ k < Len(seq) => k + 1 \in T
    BY <1>2
  <2>3. \A k \in 0 .. Len(seq) : k \in T
    BY <1>1, <2>1, <2>2, UpTo
  <2> QED
    BY <2>1, <2>3
<1> DEFINE loop == CHOOSE f : Law(f, Len(seq))
<1>4. Law(loop, Len(seq))
  BY <1>3
<1>5. Kept(seq, hits) = loop[Len(seq)]
  BY DEF Kept
<1> HIDE DEF loop
<1> QED
  BY <1>4, <1>5

LEMMA KeptWithin ==
    ASSUME NEW S, NEW seq \in Seq(S), NEW hits
    PROVE  Kept(seq, hits) \in Seq(S) /\ Len(Kept(seq, hits)) <= Len(seq)
<1>1. PICK upTo :
         /\ upTo = [n \in 0 .. Len(seq) |->
                       IF n = 0 THEN <<>>
                       ELSE IF n \in hits THEN Append(upTo[n - 1], seq[n]) ELSE upTo[n - 1]]
         /\ Kept(seq, hits) = upTo[Len(seq)]
  BY KeptLoop
<1> DEFINE T == {n \in Nat : upTo[n] \in Seq(S) /\ Len(upTo[n]) <= n}
<1>2. upTo[0] = <<>>
  BY <1>1
<1>3. 0 \in T
  <2>1. <<>> \in Seq(S) /\ Len(<<>>) = 0
    OBVIOUS
  <2>2. upTo[0] \in Seq(S)
    BY <1>2, <2>1
  <2>3. Len(upTo[0]) = 0
    BY <1>2, <2>1
  <2> QED
    BY <2>2, <2>3
<1>4. ASSUME NEW k \in 0 .. Len(seq), k \in T, k < Len(seq) PROVE k + 1 \in T
  <2>1. upTo[k + 1] = IF k + 1 \in hits THEN Append(upTo[k], seq[k + 1]) ELSE upTo[k]
    <3>1. k + 1 \in 0 .. Len(seq) /\ k + 1 # 0 /\ (k + 1) - 1 = k
      BY <1>4
    <3> QED
      BY <1>1, <3>1
  <2>2. upTo[k] \in Seq(S) /\ Len(upTo[k]) <= k /\ seq[k + 1] \in S
    BY <1>4
  <2>3. upTo[k + 1] \in Seq(S) /\ Len(upTo[k + 1]) <= k + 1
    BY <2>1, <2>2
  <2> QED
    BY <2>3
<1>5. Len(seq) \in T
  <2> HIDE DEF T
  <2>1. Len(seq) \in Nat
    OBVIOUS
  <2>2. \A k \in 0 .. Len(seq) : k \in T
    BY <1>3, <1>4, <2>1, UpTo
  <2> QED
    BY <2>1, <2>2
<1> QED
  BY <1>1, <1>5

\* When what is kept is the end of the sequence, that is what comes out.
LEMMA KeptSuffix ==
    ASSUME NEW S, NEW seq \in Seq(S), NEW m \in 0 .. Len(seq)
    PROVE  Kept(seq, m + 1 .. Len(seq)) = [k \in 1 .. Len(seq) - m |-> seq[m + k]]
<1> DEFINE hits == m + 1 .. Len(seq)
           End(n) == [k \in 1 .. n - m |-> seq[m + k]]
<1>1. PICK upTo :
         /\ upTo = [n \in 0 .. Len(seq) |->
                       IF n = 0 THEN <<>>
                       ELSE IF n \in hits THEN Append(upTo[n - 1], seq[n]) ELSE upTo[n - 1]]
         /\ Kept(seq, hits) = upTo[Len(seq)]
  BY KeptLoop
<1> DEFINE T == {n \in Nat : upTo[n] = IF n <= m THEN <<>> ELSE End(n)}
<1>2. 0 \in T
  BY <1>1
<1>3. ASSUME NEW k \in 0 .. Len(seq), k \in T, k < Len(seq) PROVE k + 1 \in T
  <2>1. upTo[k + 1] = IF k + 1 \in hits THEN Append(upTo[k], seq[k + 1]) ELSE upTo[k]
    <3>1. k + 1 \in 0 .. Len(seq) /\ k + 1 # 0 /\ (k + 1) - 1 = k
      BY <1>3
    <3> QED
      BY <1>1, <3>1
  <2>2. CASE k + 1 <= m
    BY <1>3, <2>1, <2>2
  <2>3. CASE k >= m
    <3>1. upTo[k] = End(k)
      BY <1>3, <2>3
    <3>2. upTo[k + 1] = Append(End(k), seq[k + 1])
      BY <2>1, <2>3, <1>3, <3>1
    <3>3. \A i \in 1 .. k - m : seq[m + i] \in S
      BY <1>3, <2>3
    <3>4. End(k) \in Seq(S) /\ Len(End(k)) = k - m /\ \A i \in 1 .. k - m : End(k)[i] = seq[m + i]
      BY <1>3, <2>3, <3>3
    <3>5. seq[k + 1] \in S
      BY <1>3
    <3>6. End(k + 1) = [i \in 1 .. (k - m) + 1 |->
                           IF i = (k - m) + 1 THEN seq[k + 1] ELSE End(k)[i]]
      BY <1>3, <2>3, <3>4
    <3>7. Append(End(k), seq[k + 1]) = [i \in 1 .. (k - m) + 1 |->
                           IF i = (k - m) + 1 THEN seq[k + 1] ELSE End(k)[i]]
      <4> HIDE DEF End
      <4> QED
        BY <3>4, <3>5
    <3>8. upTo[k + 1] = End(k + 1) /\ ~(k + 1 <= m)
      BY <2>3, <3>2, <3>6, <3>7
    <3> QED
      BY <3>8
  <2> QED
    BY <2>2, <2>3
<1>4. Len(seq) \in T
  <2> HIDE DEF T
  <2>1. Len(seq) \in Nat
    OBVIOUS
  <2>2. \A k \in 0 .. Len(seq) : k \in T
    BY <1>2, <1>3, <2>1, UpTo
  <2> QED
    BY <2>1, <2>2
<1>5. Len(seq) <= m => End(Len(seq)) = <<>>
  OBVIOUS
<1> QED
  BY <1>1, <1>4, <1>5

Batch(b) == /\ b \in Seq(Packets) /\ Len(b) <= Big
            /\ \A i, j \in 1 .. Len(b) : i < j => b[i].id < b[j].id

\* A batch, or one sorted for display.
Ordered(t) == /\ t \in Seq(Packets) /\ Len(t) <= Big
              /\ \/ \A i, j \in 1 .. Len(t) : i < j => t[i].id < t[j].id
                 \/ \A i, j \in 1 .. Len(t) : i < j => t[i].id > t[j].id

LEMMA SortKeeps ==
    ASSUME NEW t, Ordered(t)
    PROVE  Ordered(NewestFirst(t))
<1> DEFINE n == Len(t)
           Sorts(f) == \A i, j \in 1 .. n : i < j => t[f[i]].id >= t[f[j]].id
           order == CHOOSE f \in Bijection(1 .. n, 1 .. n) : Sorts(f)
           s == [i \in 1 .. n |-> t[order[i]]]
<1>1. n \in Nat /\ n <= Big /\ \A i \in 1 .. n : t[i] \in Packets /\ t[i].id \in Nat
  <2>1. t \in Seq(Packets) /\ Len(t) <= Big
    BY DEF Ordered
  <2>2. \A p \in Packets : p.id \in Nat
    BY DEF Packets
  <2> QED
    BY <2>1, <2>2
<1>2. \E f \in Bijection(1 .. n, 1 .. n) : Sorts(f)
  <2>1. CASE \A i, j \in 1 .. n : i < j => t[i].id > t[j].id
    <3> DEFINE f == [i \in 1 .. n |-> i]
    <3>1. f \in Bijection(1 .. n, 1 .. n)
      BY DEF Bijection, Injection, Surjection, IsInjective
    <3>2. Sorts(f)
      BY <1>1, <2>1
    <3> QED
      BY <3>1, <3>2
  <2>2. CASE \A i, j \in 1 .. n : i < j => t[i].id < t[j].id
    <3> DEFINE f == [i \in 1 .. n |-> n + 1 - i]
    <3>1. f \in [1 .. n -> 1 .. n] /\ \A i \in 1 .. n : f[f[i]] = i
      BY <1>1
    <3>2. f \in Bijection(1 .. n, 1 .. n)
      <4> HIDE DEF f, n
      <4> QED
        BY <3>1 DEF Bijection, Injection, Surjection, IsInjective
    <3>3. Sorts(f)
      BY <1>1, <2>2
    <3> QED
      BY <3>2, <3>3
  <2> QED
    BY <2>1, <2>2 DEF Ordered
<1>3. order \in Bijection(1 .. n, 1 .. n) /\ Sorts(order)
  BY <1>2
<1>4. NewestFirst(t) = s
  BY DEF NewestFirst
<1> HIDE DEF order, n
<1>5. /\ \A i \in 1 .. n : order[i] \in 1 .. n
      /\ \A i, j \in 1 .. n : order[i] = order[j] => i = j
  BY <1>3 DEF Bijection, Injection, IsInjective
<1>6. s \in Seq(Packets) /\ Len(s) = n
  BY <1>1, <1>5
<1>7. \A i, j \in 1 .. n : i # j => t[i].id # t[j].id
  BY <1>1 DEF Ordered, n
<1>8. ASSUME NEW i \in 1 .. n, NEW j \in 1 .. n, i < j PROVE s[i].id > s[j].id
  <2>1. t[order[i]].id >= t[order[j]].id /\ order[i] # order[j]
    BY <1>1, <1>3, <1>5, <1>8
  <2>2. t[order[i]].id # t[order[j]].id
    BY <1>5, <1>7, <2>1
  <2> QED
    BY <1>1, <1>5, <2>1, <2>2
<1> QED
  BY <1>1, <1>4, <1>6, <1>8 DEF Ordered

LEMMA BatchOrdered == ASSUME NEW b, Batch(b) PROVE Ordered(b)
  BY DEF Batch, Ordered

LEMMA ListedWithin ==
    ASSUME NEW b, Ordered(b), NEW on
    PROVE  Listed(on, b) \in Seq(Packets) /\ Len(Listed(on, b)) <= Big
<1>1. NewestFirst(b) \in Seq(Packets) /\ Len(NewestFirst(b)) <= Big
  BY SortKeeps DEF Ordered
<1> DEFINE rows == NewestFirst(b)
           hits == {i \in 1 .. Len(rows) : rows[i].id \in Marked}
<1>2. Kept(rows, hits) \in Seq(Packets) /\ Len(Kept(rows, hits)) <= Len(rows)
  BY <1>1, KeptWithin
<1>3. Len(Kept(rows, hits)) <= Big
  BY <1>1, <1>2, BigBounds
<1> QED
  BY <1>1, <1>2, <1>3 DEF Listed

-----------------------------------------------------------------------------
(* The ring.                                                               *)

\* The slot of the i-th packet, from the head on.
At(head, i) == (head + i - 1) % Capacity

Packet(run, id) == [of |-> run, id |-> id]

RingTypes == [slot : [0 .. Capacity - 1 -> Packets \cup {None}], head : 0 .. Capacity - 1,
              size : 0 .. Capacity, next : Nat \ {0}, run : Nat]

RingOK(r) ==
    /\ r \in RingTypes /\ r.next <= MaxPackets + 1
    /\ r.size = IF Capacity <= r.next - 1 THEN Capacity ELSE r.next - 1
    /\ \A i \in 1 .. r.size : r.slot[At(r.head, i)] = Packet(r.run, r.next - 1 - r.size + i)

LEMMA PacketIs ==
    ASSUME NEW run, NEW id
    PROVE  /\ Packet(run, id).of = run /\ Packet(run, id).id = id
           /\ run \in Nat /\ id \in Nat \ {0} => Packet(run, id) \in Packets
  BY DEF Packet, Packets

\* Around the ring: its slots are different, and from the next head on they are
\* the same ones, the head last.
LEMMA Around ==
    ASSUME NEW head \in 0 .. Capacity - 1
    PROVE  /\ \A i \in 1 .. Capacity : At(head, i) \in 0 .. Capacity - 1
           /\ \A i, j \in 1 .. Capacity : At(head, i) = At(head, j) => i = j
           /\ At(head, 1) = head
           /\ \E next \in 0 .. Capacity - 1 :
                 /\ next = (head + 1) % Capacity
                 /\ \A i \in 1 .. Capacity - 1 : At(next, i) = At(head, i + 1)
                 /\ At(next, Capacity) = head
<1>1. ASSUME NEW h \in 0 .. Capacity - 1, NEW i \in 1 .. Capacity
      PROVE  At(h, i) = IF h + i - 1 < Capacity THEN h + i - 1 ELSE h + i - 1 - Capacity
  <2>1. PICK x \in 0 .. 2 * Capacity - 1 : x = h + i - 1
    OBVIOUS
  <2>2. x % Capacity = IF x < Capacity THEN x ELSE x - Capacity
    BY Wrapped
  <2>3. At(h, i) = x % Capacity
    BY <2>1 DEF At
  <2> QED
    BY <2>1, <2>2, <2>3
<1>2. \A i \in 1 .. Capacity : At(head, i) \in 0 .. Capacity - 1
  BY <1>1
<1>3. ASSUME NEW i \in 1 .. Capacity, NEW j \in 1 .. Capacity, At(head, i) = At(head, j)
      PROVE  i = j
  <2>1. PICK x \in Int :
           x = At(head, i) /\ x = IF head + i - 1 < Capacity THEN head + i - 1 ELSE head + i - 1 - Capacity
    BY <1>1
  <2>2. PICK y \in Int :
           y = At(head, j) /\ y = IF head + j - 1 < Capacity THEN head + j - 1 ELSE head + j - 1 - Capacity
    BY <1>1
  <2> QED
    BY <1>3, <2>1, <2>2
<1>4. At(head, 1) = head
  BY <1>1
<1>5. PICK next \in 0 .. Capacity - 1 :
         next = (head + 1) % Capacity /\ next = IF head + 1 < Capacity THEN head + 1 ELSE 0
  <2>1. PICK x \in 0 .. 2 * Capacity - 1 : x = head + 1
    OBVIOUS
  <2>2. x % Capacity = IF x < Capacity THEN x ELSE x - Capacity
    BY Wrapped
  <2> QED
    BY <2>1, <2>2
<1>6. ASSUME NEW i \in 1 .. Capacity - 1 PROVE At(next, i) = At(head, i + 1)
  <2>1. i \in 1 .. Capacity /\ i + 1 \in 1 .. Capacity
    OBVIOUS
  <2>2. /\ At(next, i) = IF next + i - 1 < Capacity THEN next + i - 1 ELSE next + i - 1 - Capacity
        /\ At(head, i + 1) = IF head + (i + 1) - 1 < Capacity THEN head + (i + 1) - 1
                             ELSE head + (i + 1) - 1 - Capacity
    BY <1>1, <2>1
  <2> QED
    BY <1>5, <2>1, <2>2
<1>7. At(next, Capacity) = head
  <2>1. Capacity \in 1 .. Capacity
    OBVIOUS
  <2>2. At(next, Capacity) = IF next + Capacity - 1 < Capacity THEN next + Capacity - 1
                             ELSE next + Capacity - 1 - Capacity
    BY <1>1, <2>1
  <2> QED
    BY <1>5, <2>2
<1> QED
  BY <1>2, <1>3, <1>4, <1>5, <1>6, <1>7

\* The packets of the ring, as a sequence.
LEMMA RingContents ==
    ASSUME NEW r, RingOK(r)
    PROVE  /\ Chronological(r) \in Seq(Packets) /\ Len(Chronological(r)) = r.size
           /\ r.size \in Nat /\ r.size <= r.next - 1 /\ r.next \in Nat /\ r.run \in Nat
           /\ r.next - 1 <= MaxPackets
           /\ \A i \in 1 .. r.size :
                 /\ Chronological(r)[i] = Packet(r.run, r.next - 1 - r.size + i)
                 /\ Chronological(r)[i] \in Packets
                 /\ Chronological(r)[i].id = r.next - 1 - r.size + i
                 /\ Chronological(r)[i].of = r.run
<1>1. PICK size \in Nat, next \in Nat, run \in Nat :
         r.size = size /\ r.next = next /\ r.run = run /\ size <= next - 1 /\ next - 1 <= MaxPackets
  BY DEF RingOK, RingTypes
<1>2. Chronological(r) = [i \in 1 .. size |-> Chronological(r)[i]]
  BY <1>1 DEF Chronological
<1>3. \A i \in 1 .. size : Chronological(r)[i] = Packet(run, next - 1 - size + i)
  BY <1>1 DEF Chronological, RingOK, At
<1>4. ASSUME NEW i \in 1 .. size
      PROVE  /\ Packet(run, next - 1 - size + i) \in Packets
             /\ Packet(run, next - 1 - size + i).id = next - 1 - size + i
             /\ Packet(run, next - 1 - size + i).of = run
  <2>1. PICK id \in Nat \ {0} : id = next - 1 - size + i
    BY <1>1
  <2>2. Packet(run, id) \in Packets /\ Packet(run, id).id = id /\ Packet(run, id).of = run
    BY PacketIs
  <2> QED
    BY <2>1, <2>2
<1>5. Chronological(r) \in [1 .. size -> Packets]
  BY <1>2, <1>3, <1>4
<1>6. Chronological(r) \in Seq(Packets) /\ Len(Chronological(r)) = size
  <2>1. PICK f \in [1 .. size -> Packets] : f = Chronological(r)
    BY <1>5
  <2>2. f \in Seq(Packets) /\ Len(f) = size
    OBVIOUS
  <2> QED
    BY <2>1, <2>2
<1> QED
  BY <1>1, <1>3, <1>4, <1>6, ZenonT(60)

LEMMA NewRingOK == ASSUME NEW run \in Nat PROVE RingOK(NewRing(run))
<1> DEFINE r == NewRing(run)
<1>1. /\ r.size = 0 /\ r.next = 1 /\ r \in RingTypes
  BY DEF NewRing, RingTypes
<1> HIDE DEF r
<1> QED
  BY <1>1 DEF RingOK, r

\* AddPacket: the newest packet comes last and only the oldest can go.
LEMMA AddedKeeps ==
    ASSUME NEW r, RingOK(r), r.next <= MaxPackets
    PROVE  RingOK(Added(r)) /\ Added(r).next = r.next + 1 /\ Added(r).run = r.run
<1> DEFINE Slots == [0 .. Capacity - 1 -> Packets \cup {None}]
           a == Added(r)
<1>1. PICK slot \in Slots, head \in 0 .. Capacity - 1, size \in 0 .. Capacity,
           id \in Nat \ {0}, run \in Nat :
         r = [slot |-> slot, head |-> head, size |-> size, next |-> id, run |-> run]
  BY DEF RingOK, RingTypes
<1>2. /\ size = IF Capacity <= id - 1 THEN Capacity ELSE id - 1
      /\ id <= MaxPackets
      /\ \A i \in 1 .. size : slot[At(head, i)] = Packet(run, id - 1 - size + i)
  BY <1>1 DEF RingOK
<1>3. PICK p \in Packets : p = Packet(run, id)
  BY PacketIs
<1>4. CASE size < Capacity
  <2>1. size + 1 \in 1 .. Capacity /\ \A i \in 1 .. size : i \in 1 .. Capacity /\ i # size + 1
    BY <1>4
  <2>2. PICK end \in 0 .. Capacity - 1 : end = (head + size) % Capacity /\ end = At(head, size + 1)
    <3>1. (head + size) % Capacity = At(head, size + 1)
      <4>1. head + size = head + (size + 1) - 1
        OBVIOUS
      <4> QED
        BY <4>1 DEF At
    <3> QED
      BY <2>1, <3>1, Around
  <2>3. ASSUME NEW i \in 1 .. size PROVE At(head, i) \in 0 .. Capacity - 1 /\ At(head, i) # end
    <3>1. i \in 1 .. Capacity /\ size + 1 \in 1 .. Capacity /\ i # size + 1
      BY <2>1
    <3>2. At(head, i) \in 0 .. Capacity - 1
      BY <3>1, Around
    <3>3. At(head, i) = At(head, size + 1) => i = size + 1
      BY <3>1, Around
    <3> QED
      BY <2>2, <3>1, <3>2, <3>3
  <2>4. a = [slot |-> [slot EXCEPT ![end] = p], head |-> head, size |-> size + 1,
             next |-> id + 1, run |-> run]
    BY <1>1, <1>3, <1>4, <2>2 DEF Added, Packet
  <2> DEFINE new == [slot EXCEPT ![end] = p]
  <2>5. new \in Slots /\ new[end] = p /\ \A i \in 1 .. size : new[At(head, i)] = slot[At(head, i)]
    BY <2>3
  <2> HIDE DEF new, a
  <2>6. a \in RingTypes /\ a.slot = new /\ a.head = head /\ a.size = size + 1
        /\ a.next = id + 1 /\ a.run = run
    BY <1>4, <2>4, <2>5 DEF RingTypes, new
  <2>7. \A i \in 1 .. size + 1 : new[At(head, i)] = Packet(run, (id + 1) - 1 - (size + 1) + i)
    <3>1. ASSUME NEW i \in 1 .. size PROVE new[At(head, i)] = Packet(run, (id + 1) - 1 - (size + 1) + i)
      <4>1. (id + 1) - 1 - (size + 1) + i = id - 1 - size + i
        OBVIOUS
      <4> QED
        BY <1>2, <2>5, <4>1
    <3>2. new[At(head, size + 1)] = Packet(run, (id + 1) - 1 - (size + 1) + (size + 1))
      <4>1. (id + 1) - 1 - (size + 1) + (size + 1) = id
        OBVIOUS
      <4> QED
        BY <1>3, <2>2, <2>5, <4>1
    <3> QED
      BY <3>1, <3>2
  <2>8. size + 1 = IF Capacity <= (id + 1) - 1 THEN Capacity ELSE (id + 1) - 1
    BY <1>2, <1>4
  <2>9. RingOK(a)
    BY <1>2, <2>6, <2>7, <2>8 DEF RingOK
  <2> QED
    BY <1>1, <2>6, <2>9 DEF a
<1>5. CASE size = Capacity
  <2>1. PICK h \in 0 .. Capacity - 1 :
           /\ h = (head + 1) % Capacity
           /\ \A i \in 1 .. Capacity - 1 : At(h, i) = At(head, i + 1)
           /\ At(h, Capacity) = head
    BY Around
  <2>2. \A i \in 1 .. Capacity - 1 : At(h, i) \in 0 .. Capacity - 1 /\ At(h, i) # head
    <3>1. ASSUME NEW i \in 1 .. Capacity - 1
          PROVE  At(head, i + 1) \in 0 .. Capacity - 1 /\ At(head, i + 1) # head
      <4>1. i + 1 \in 1 .. Capacity /\ 1 \in 1 .. Capacity /\ i + 1 # 1
        OBVIOUS
      <4>2. At(head, i + 1) \in 0 .. Capacity - 1 /\ At(head, 1) = head
        BY <4>1, Around
      <4>3. At(head, i + 1) = At(head, 1) => i + 1 = 1
        BY <4>1, Around
      <4> QED
        BY <4>1, <4>2, <4>3
    <3> QED
      BY <2>1, <3>1
  <2>3. a = [slot |-> [slot EXCEPT ![head] = p], head |-> h, size |-> size,
             next |-> id + 1, run |-> run]
    <3>1. /\ ~(r.size < Capacity) /\ r.slot = slot /\ r.head = head /\ r.size = size
          /\ r.next = id /\ r.run = run /\ p = [of |-> r.run, id |-> r.next]
      BY <1>1, <1>3, <1>5 DEF Packet
    <3>2. a = [r EXCEPT !.slot[r.head] = p, !.head = (@ + 1) % Capacity, !.next = @ + 1]
      BY <3>1 DEF Added
    <3> QED
      BY <1>1, <2>1, <3>1, <3>2
  <2> DEFINE new == [slot EXCEPT ![head] = p]
  <2>4. new \in Slots /\ new[head] = p /\ \A i \in 1 .. Capacity - 1 : new[At(h, i)] = slot[At(h, i)]
    BY <2>2
  <2> HIDE DEF new, a
  <2>5. a \in RingTypes /\ a.slot = new /\ a.head = h /\ a.size = size
        /\ a.next = id + 1 /\ a.run = run
    BY <2>3, <2>4 DEF RingTypes, new
  <2>6. \A i \in 1 .. Capacity : new[At(h, i)] = Packet(run, (id + 1) - 1 - size + i)
    <3>1. ASSUME NEW i \in 1 .. Capacity - 1 PROVE new[At(h, i)] = Packet(run, (id + 1) - 1 - size + i)
      <4>1. (id + 1) - 1 - size + i = id - 1 - size + (i + 1) /\ i + 1 \in 1 .. size
        BY <1>5
      <4>2. slot[At(head, i + 1)] = Packet(run, id - 1 - size + (i + 1))
        BY <1>2, <4>1
      <4> QED
        BY <2>1, <2>4, <4>1, <4>2
    <3>2. new[At(h, Capacity)] = Packet(run, (id + 1) - 1 - size + Capacity)
      <4>1. (id + 1) - 1 - size + Capacity = id
        BY <1>5
      <4> QED
        BY <1>3, <2>1, <2>4, <4>1
    <3> QED
      BY <3>1, <3>2, SMTT(30)
  <2>7. size = IF Capacity <= (id + 1) - 1 THEN Capacity ELSE (id + 1) - 1
    BY <1>2, <1>5
  <2>8. RingOK(a)
    BY <1>2, <1>5, <2>5, <2>6, <2>7 DEF RingOK
  <2> QED
    BY <1>1, <2>5, <2>8 DEF a
<1> QED
  BY <1>4, <1>5

\* What is in the ring after AddPacket was there before it, or is the new packet.
LEMMA AddedContents ==
    ASSUME NEW r, RingOK(r), r.next <= MaxPackets
    PROVE  \A i \in 1 .. Added(r).size :
               \/ Chronological(Added(r))[i].id = r.next
               \/ \E j \in 1 .. r.size : Chronological(Added(r))[i] = Chronological(r)[j]
<1> DEFINE a == Added(r)
<1>1. PICK size \in Nat, id \in Nat, run \in Nat :
         /\ r.size = size /\ r.next = id /\ r.run = run
         /\ size = IF Capacity <= id - 1 THEN Capacity ELSE id - 1
  BY DEF RingOK, RingTypes
<1>2. RingOK(a) /\ a.next = id + 1 /\ a.run = run
  BY <1>1, AddedKeeps
<1> HIDE DEF a
<1>3. PICK more \in Nat :
         a.size = more /\ more = IF Capacity <= (id + 1) - 1 THEN Capacity ELSE (id + 1) - 1
  <2>1. a.size \in Nat /\ a.size = IF Capacity <= a.next - 1 THEN Capacity ELSE a.next - 1
    BY <1>2 DEF RingOK, RingTypes
  <2> QED
    BY <1>2, <2>1
<1>4. \A i \in 1 .. more : Chronological(a)[i] = Packet(run, (id + 1) - 1 - more + i)
  <2>1. \A i \in 1 .. a.size : Chronological(a)[i] = Packet(a.run, a.next - 1 - a.size + i)
    BY <1>2, RingContents
  <2> QED
    BY <1>1, <1>2, <1>3, <2>1
<1>5. \A j \in 1 .. size : Chronological(r)[j] = Packet(run, id - 1 - size + j)
  BY <1>1, RingContents
<1>6. ASSUME NEW i \in 1 .. more
      PROVE  \/ Chronological(a)[i].id = id
             \/ \E j \in 1 .. size : Chronological(a)[i] = Chronological(r)[j]
  <2>1. CASE i = more
    <3>1. (id + 1) - 1 - more + i = id
      BY <2>1
    <3> QED
      BY <1>4, <3>1, PacketIs
  <2>2. CASE i < more
    <3>1. PICK j \in 1 .. size : id - 1 - size + j = (id + 1) - 1 - more + i
      <4>1. CASE more = size
        <5>1. i + 1 \in 1 .. size /\ id - 1 - size + (i + 1) = (id + 1) - 1 - more + i
          BY <2>2, <4>1
        <5> QED
          BY <5>1
      <4>2. CASE more = size + 1
        <5>1. i \in 1 .. size /\ id - 1 - size + i = (id + 1) - 1 - more + i
          BY <2>2, <4>2
        <5> QED
          BY <5>1
      <4>3. more = size \/ more = size + 1
        BY <1>1, <1>3
      <4> QED
        BY <4>1, <4>2, <4>3
    <3> QED
      BY <1>4, <1>5, <3>1
  <2> QED
    BY <2>1, <2>2
<1> QED
  BY <1>1, <1>3, <1>6 DEF a

\* GetPacketsSince: an answer is the next packets of the ring, none left out.
LEMMA SinceBrings ==
    ASSUME NEW r, RingOK(r), NEW id \in Nat
    PROVE  /\ Batch(Since(r, id)) /\ HighestOf(Since(r, id), id) \in Nat
           /\ id <= HighestOf(Since(r, id), id)
           /\ \/ HighestOf(Since(r, id), id) = id
              \/ HighestOf(Since(r, id), id) <= r.next - 1
           /\ \A i \in 1 .. r.size :
                 id < Chronological(r)[i].id /\ Chronological(r)[i].id <= HighestOf(Since(r, id), id)
                     => Chronological(r)[i] \in ToSet(Since(r, id))
<1> DEFINE b == Since(r, id)
           up == HighestOf(b, id)
<1> DEFINE all == Chronological(r)
<1>0. PICK size \in Nat, next \in Nat, old \in Nat :
         /\ r.size = size /\ r.next = next /\ old = next - 1 - size
         /\ old + size = next - 1 /\ next - 1 <= MaxPackets
  <2>1. r.size \in Nat /\ r.next \in Nat /\ r.size <= r.next - 1 /\ r.next - 1 <= MaxPackets
    BY RingContents
  <2>2. r.next - 1 - r.size \in Nat
    BY <2>1
  <2>3. (r.next - 1 - r.size) + r.size = r.next - 1
    BY <2>1
  <2> QED
    BY <2>1, <2>2, <2>3
<1>1. /\ all \in Seq(Packets) /\ Len(all) = size
      /\ \A i \in 1 .. size : all[i].id = old + i /\ all[i] \in Packets
  BY <1>0, RingContents
<1> HIDE DEF all
<1>2. PICK m \in 0 .. size : \A i \in 1 .. size : all[i].id > id <=> i > m
  <2>1. PICK m \in 0 .. size : \A i \in 1 .. size : old + i > id <=> i > m
    <3>1. CASE id <= old
      <4>1. 0 \in 0 .. size /\ \A i \in 1 .. size : old + i > id <=> i > 0
        BY <3>1
      <4> QED
        BY <4>1
    <3>2. CASE id >= old + size
      <4>1. size \in 0 .. size /\ \A i \in 1 .. size : old + i > id <=> i > size
        BY <3>2
      <4> QED
        BY <4>1
    <3>3. CASE old < id /\ id < old + size
      <4>1. id - old \in 0 .. size /\ \A i \in 1 .. size : old + i > id <=> i > id - old
        BY <3>3
      <4> QED
        BY <4>1
    <3>4. id <= old \/ id >= old + size \/ (old < id /\ id < old + size)
      OBVIOUS
    <3> QED
      BY <3>1, <3>2, <3>3, <3>4
  <2> QED
    BY <1>1, <2>1
<1>3. {i \in 1 .. size : all[i].id > id} = m + 1 .. size
  BY <1>2
<1> DEFINE newer == [k \in 1 .. size - m |-> all[m + k]]
<1>4. Kept(all, m + 1 .. size) = newer
  <2>1. m \in 0 .. Len(all)
    BY <1>1
  <2>2. Kept(all, m + 1 .. Len(all)) = [k \in 1 .. Len(all) - m |-> all[m + k]]
    BY <1>1, <2>1, KeptSuffix
  <2> QED
    BY <1>1, <2>2
<1>5. \A k \in 1 .. size - m : m + k \in 1 .. size /\ all[m + k] \in Packets
  BY <1>1
<1>6. newer \in Seq(Packets) /\ Len(newer) = size - m
  BY <1>5
<1>7. PICK n \in 0 .. size - m : /\ n = IF Len(newer) < Limit THEN Len(newer) ELSE Limit
                                 /\ n = 0 => m = size
  <2>1. PICK l \in Nat : l = Len(newer) /\ l = size - m
    BY <1>6
  <2>2. (IF l < Limit THEN l ELSE Limit) \in 0 .. size - m
    BY <2>1
  <2>3. (IF l < Limit THEN l ELSE Limit) = 0 => m = size
    BY <2>1
  <2> QED
    BY <2>1, <2>2, <2>3
<1>8. b = SubSeq(newer, 1, n)
  BY <1>0, <1>1, <1>3, <1>4, <1>7 DEF Since, all
<1>9. b = [k \in 1 .. n |-> all[m + k]]
  <2>1. SubSeq(newer, 1, n) = [k \in 1 .. n |-> newer[k]]
    BY <1>6, <1>7
  <2>2. \A k \in 1 .. n : newer[k] = all[m + k]
    BY <1>7
  <2> QED
    BY <1>8, <2>1, <2>2
<1> HIDE DEF newer, b
<1>10. /\ b \in Seq(Packets) /\ Len(b) = n
       /\ \A k \in 1 .. n : b[k] = all[m + k]
  <2>1. \A k \in 1 .. n : all[m + k] \in Packets
    BY <1>5, <1>7
  <2> QED
    BY <1>9, <2>1
<1>11. \A k \in 1 .. n : b[k].id = old + (m + k)
  BY <1>1, <1>5, <1>7, <1>10, SMTT(30)
<1>12. Batch(b)
  <2>1. n <= Big
    BY <1>0, <1>1, <1>7, BigBounds
  <2>2. \A i, j \in 1 .. n : i < j => b[i].id < b[j].id
    BY <1>11
  <2> QED
    BY <1>10, <2>1, <2>2 DEF Batch
<1> DEFINE ids == {id} \cup {b[i].id : i \in 1 .. Len(b)}
<1>13. CASE n = 0
  <2>1. ids = {id}
    BY <1>10, <1>13
  <2>2. up = id
    <3>1. Max({id}) = id
      <4>1. {id} \subseteq Int /\ id \in {id} /\ \A y \in {id} : y <= id
        OBVIOUS
      <4> QED
        BY <4>1, MaxIs
    <3> QED
      BY <2>1, <3>1 DEF HighestOf
  <2>3. \A i \in 1 .. size : ~(id < all[i].id)
    BY <1>1, <1>2, <1>7, <1>13
  <2> QED
    BY <1>0, <1>1, <1>12, <2>2, <2>3 DEF b, all
<1>14. CASE n # 0
  <2>1. PICK top \in Nat : top = old + (m + n)
    OBVIOUS
  <2>2. n \in 1 .. n /\ b[n].id = top
    BY <1>7, <1>11, <1>14, <2>1
  <2>3. id < top
    <3>1. m + n \in 1 .. size /\ m + n > m
      BY <1>7, <1>14
    <3>2. all[m + n].id > id /\ all[m + n].id = old + (m + n)
      BY <1>1, <1>2, <3>1
    <3> QED
      BY <2>1, <3>2
  <2>4. \A k \in 1 .. n : b[k].id \in Nat /\ b[k].id <= top
    BY <1>11, <2>1
  <2>5. ids \subseteq Int /\ top \in ids /\ \A y \in ids : y <= top
    BY <1>10, <2>2, <2>3, <2>4
  <2>6. up = top
    <3> HIDE DEF ids
    <3>1. Max(ids) = top
      BY <2>5, MaxIs
    <3> QED
      BY <3>1 DEF HighestOf, ids
  <2>7. top <= next - 1
    BY <1>0, <1>1, <1>7, <2>1
  <2>8. ASSUME NEW i \in 1 .. size, id < all[i].id, all[i].id <= top PROVE all[i] \in ToSet(b)
    <3>1. all[i].id = old + i
      BY <1>1
    <3>2. i > m /\ i <= m + n
      BY <1>2, <2>1, <2>8, <3>1
    <3>3. PICK k \in 1 .. n : i = m + k
      <4>1. i - m \in 1 .. n /\ i = m + (i - m)
        BY <1>7, <3>2
      <4> QED
        BY <4>1
    <3>4. b[k] = all[i] /\ k \in DOMAIN b
      BY <1>10, <3>3
    <3> QED
      BY <3>4 DEF ToSet
  <2>9. id <= top /\ \A i \in 1 .. size : id < all[i].id /\ all[i].id <= top => all[i] \in ToSet(b)
    BY <2>3, <2>8
  <2> HIDE DEF up
  <2> QED
    BY <1>0, <1>1, <1>12, <2>6, <2>7, <2>9 DEF b, all, up
<1> QED
  BY <1>13, <1>14

LEMMA RingSteps == RingOK(ring) /\ [Next]_vars => RingOK(ring)'
<1> SUFFICES ASSUME RingOK(ring), [Next]_vars PROVE RingOK(ring)'
  OBVIOUS
<1>1. CASE AddPacket
  BY <1>1, AddedKeeps DEF AddPacket
<1>2. CASE Restart
  <2>1. ring' = NewRing(ring.run + 1) /\ ring.run + 1 \in Nat
    BY <1>2 DEF Restart, RingOK, RingTypes
  <2> QED
    BY <2>1, NewRingOK
<1>3. CASE UNCHANGED ring
  BY <1>3
<1>4. AddPacket \/ Restart \/ UNCHANGED ring
  <2>1. \A c : PollAnswered(c) \/ ReplayAnswered(c) \/ DetailAnswered(c) \/ CallFails(c) => UNCHANGED ring
    BY DEF PollAnswered, ReplayAnswered, DetailAnswered, CallFails
  <2>2. PollPackets \/ EnterReplay \/ ExitReplay \/ TogglePanel \/ SetFilter => UNCHANGED ring
    BY DEF PollPackets, EnterReplay, ExitReplay, TogglePanel, SetFilter
  <2>3. \A x : SelectPacket(x) \/ Arrow(x) \/ InspectRecent(x) => UNCHANGED ring
    BY DEF SelectPacket, Arrow, InspectRecent
  <2> QED
    BY <2>1, <2>2, <2>3 DEF Next, vars
<1> QED
  BY <1>1, <1>2, <1>3, <1>4

\* GetByID finds a packet with the id, or none.
LEMMA ByIDFinds ==
    ASSUME NEW r, RingOK(r), NEW id
    PROVE  ByID(r, id) = None \/ (ByID(r, id) \in Packets /\ ByID(r, id).id = id)
<1> DEFINE all == Chronological(r)
           hits == {i \in 1 .. r.size : all[i].id = id}
           at == CHOOSE i \in hits : TRUE
<1>1. CASE hits = {}
  BY <1>1 DEF ByID
<1>2. CASE hits # {}
  <2>1. at \in hits
    BY <1>2
  <2>2. ByID(r, id) = all[at]
    BY <1>2 DEF ByID
  <2> HIDE DEF at
  <2>3. all[at].id = id /\ at \in 1 .. r.size
    BY <2>1
  <2>4. all[at] \in Packets
    BY <2>3, RingContents
  <2> QED
    BY <2>2, <2>3, <2>4
<1> QED
  BY <1>1, <1>2

-----------------------------------------------------------------------------
(* The cache: what has been evicted stood below CacheSize others.          *)

Above(S, id) == {j \in S : j > id}

CacheInv ==
    /\ IsFiniteSet(DOMAIN cache) /\ DOMAIN cache \subseteq Nat /\ given \subseteq Nat
    /\ \A id \in DOMAIN cache : cache[id] \in Packets /\ cache[id].id = id
    /\ CacheKeepsHighest

LEMMA AboveFinite ==
    ASSUME NEW S, IsFiniteSet(S), NEW id
    PROVE  IsFiniteSet(Above(S, id)) /\ Cardinality(Above(S, id)) \in Nat
<1>1. Above(S, id) \in SUBSET S
  BY DEF Above
<1> QED
  BY <1>1, FS_Subset, FS_CardinalityType

\* The lowest ids go, so whatever stood below CacheSize others still does.
LEMMA EvictedKeeps ==
    ASSUME NEW c, IsFiniteSet(DOMAIN c), DOMAIN c \subseteq Nat, NEW new, NEW id \in Nat,
           Cardinality(Above(DOMAIN c, id)) >= CacheSize
    PROVE  Cardinality(Above(DOMAIN Evicted(c, new), id)) >= CacheSize
<1> DEFINE A == DOMAIN c
           low == {i \in A : Cardinality(Above(A, i)) >= CacheSize}
           D == DOMAIN Evicted(c, new)
<1>1. D = A \ low
  BY DEF Evicted, Above
<1> HIDE DEF D, A
<1>2. IsFiniteSet(A) /\ A \subseteq Nat /\ Cardinality(Above(A, id)) >= CacheSize
  BY DEF A
<1>3. IsFiniteSet(D)
  BY <1>1, <1>2, FS_Subset
<1>4. ASSUME NEW m \in Nat, id <= m, Cardinality(Above(A, m)) >= CacheSize, Above(A, m) \cap low = {}
      PROVE  Cardinality(Above(D, id)) >= CacheSize
  <2>1. Above(A, m) \in SUBSET Above(D, id)
    <3>1. ASSUME NEW j \in Above(A, m) PROVE j \in Above(D, id)
      <4>1. j \in A /\ j \in Nat /\ j > m /\ j \notin low
        BY <1>2, <1>4, <3>1 DEF Above
      <4>2. j > id
        BY <1>4, <4>1
      <4> HIDE DEF low
      <4> QED
        BY <1>1, <4>1, <4>2 DEF Above
    <3> QED
      BY <3>1
  <2>2. /\ Cardinality(Above(A, m)) \in Nat /\ Cardinality(Above(D, id)) \in Nat
        /\ IsFiniteSet(Above(D, id))
    BY <1>2, <1>3, AboveFinite
  <2>3. Cardinality(Above(A, m)) <= Cardinality(Above(D, id))
    BY <2>1, <2>2, FS_Subset
  <2> QED
    BY <1>4, <2>2, <2>3
<1>5. CASE Above(A, id) \cap low = {}
  <2> HIDE DEF low
  <2>1. id \in Nat /\ id <= id
    OBVIOUS
  <2> QED
    BY <1>2, <1>4, <1>5, <2>1 DEF D
<1>6. CASE Above(A, id) \cap low # {}
  <2> DEFINE T == {n \in Nat : \E m \in Above(A, id) \cap low : n = Cardinality(Above(A, m))}
  <2>1. \A m : Cardinality(Above(A, m)) \in Nat /\ IsFiniteSet(Above(A, m))
    BY <1>2, AboveFinite
  <2>2. T \subseteq Nat /\ T # {}
    BY <1>6, <2>1
  <2>3. PICK n \in T : \A k \in T : n <= k
    <3> HIDE DEF T
    <3> QED
      BY <2>2, LeastNat
  <2>4. PICK m \in Above(A, id) \cap low : n = Cardinality(Above(A, m))
    BY <2>3
  <2>5. ASSUME NEW j \in Above(A, m) \cap low PROVE FALSE
    <3>1. j \in Nat /\ m \in Nat /\ j > m /\ j \in A
      BY <1>2, <2>4 DEF Above
    <3>2. Above(A, j) \in SUBSET Above(A, m) /\ j \in Above(A, m) /\ j \notin Above(A, j)
      <4>1. \A i \in A : i > j => i > m
        BY <1>2, <3>1
      <4>2. ~(j > j)
        BY <3>1
      <4> QED
        BY <3>1, <4>1, <4>2 DEF Above
    <3>3. /\ Cardinality(Above(A, j)) <= Cardinality(Above(A, m))
          /\ Cardinality(Above(A, j)) # Cardinality(Above(A, m))
      BY <2>1, <3>2, FS_Subset
    <3>4. Cardinality(Above(A, j)) \in T
      <4>1. j \in Above(A, id) \cap low
        BY <1>2, <2>4, <3>1, <2>5 DEF Above
      <4> QED
        BY <2>1, <4>1
    <3>5. n <= Cardinality(Above(A, j))
      BY <2>3, <3>4
    <3> QED
      BY <2>1, <2>4, <3>3, <3>5
  <2>6. m \in Nat /\ id <= m /\ Cardinality(Above(A, m)) >= CacheSize
    BY <1>2, <2>4 DEF Above
  <2>7. Above(A, m) \cap low = {}
    BY <2>5
  <2> HIDE DEF low
  <2> QED
    BY <1>4, <2>6, <2>7 DEF D
<1> QED
  BY <1>5, <1>6 DEF D, A

\* updatePacketCache: the batch joins the cache, then the lowest ids are evicted.
LEMMA UpdateKeepsCache ==
    ASSUME CacheInv, NEW b, Batch(b), UpdatePacketCache(b)
    PROVE  CacheInv'
<1> DEFINE ids == {b[i].id : i \in 1 .. Len(b)}
           all == [id \in DOMAIN cache \cup ids |->
                      IF id \in DOMAIN cache THEN cache[id]
                      ELSE b[CHOOSE i \in 1 .. Len(b) : b[i].id = id]]
<1>1. CASE b = <<>>
  BY <1>1 DEF UpdatePacketCache, CacheInv, CacheKeepsHighest
<1>2. CASE b # <<>>
  <2>1. cache' = Evicted(all, b) /\ given' = given \cup ids
    BY <1>2 DEF UpdatePacketCache
  <2>2. Len(b) \in Nat /\ \A i \in 1 .. Len(b) : b[i] \in Packets /\ b[i].id \in Nat
    <3>1. \A p \in Packets : p.id \in Nat
      BY DEF Packets
    <3> QED
      BY <3>1 DEF Batch
  <2>3. IsFiniteSet(ids) /\ ids \subseteq Nat
    <3> DEFINE f == [i \in 1 .. Len(b) |-> b[i].id]
    <3>1. f \in Surjection(1 .. Len(b), ids)
      BY DEF Surjection
    <3>2. IsFiniteSet(1 .. Len(b))
      BY <2>2, FS_Interval
    <3> HIDE DEF f, ids
    <3>3. IsFiniteSet(ids)
      BY <3>1, <3>2, FS_Surjection
    <3> QED
      BY <2>2, <3>3 DEF ids
  <2>4. /\ DOMAIN all = DOMAIN cache \cup ids
        /\ IsFiniteSet(DOMAIN cache \cup ids) /\ DOMAIN cache \cup ids \subseteq Nat
    <3>1. IsFiniteSet(DOMAIN cache \cup ids)
      <4> HIDE DEF ids
      <4> QED
        BY <2>3, FS_Union DEF CacheInv
    <3> QED
      BY <2>3, <3>1 DEF CacheInv
  <2>5. \A id \in DOMAIN cache \cup ids : all[id] \in Packets /\ all[id].id = id
    <3>1. ASSUME NEW id \in ids PROVE b[CHOOSE i \in 1 .. Len(b) : b[i].id = id] \in Packets
                                      /\ b[CHOOSE i \in 1 .. Len(b) : b[i].id = id].id = id
      <4>1. \E i \in 1 .. Len(b) : b[i].id = id
        BY <3>1
      <4> QED
        BY <2>2, <4>1
    <3> QED
      BY <3>1 DEF CacheInv
  <2> HIDE DEF all, ids
  <2>6. /\ DOMAIN cache' \subseteq DOMAIN all
        /\ \A id \in DOMAIN cache' : cache'[id] = all[id]
        /\ \A id \in DOMAIN all \ DOMAIN cache' : Cardinality(Above(DOMAIN all, id)) >= CacheSize
    BY <2>1 DEF Evicted, Above
  <2>7. IsFiniteSet(DOMAIN cache')
    BY <2>4, <2>6, FS_Subset
  <2>8. ASSUME NEW id \in given' \ DOMAIN cache'
        PROVE  Cardinality(Above(DOMAIN cache', id)) >= CacheSize
    <3>1. id \in Nat
      BY <2>1, <2>3 DEF CacheInv
    <3>2. Cardinality(Above(DOMAIN all, id)) >= CacheSize
      <4>1. CASE id \in DOMAIN all
        BY <2>6, <2>8, <4>1
      <4>2. CASE id \notin DOMAIN all
        <5>1. id \in given \ DOMAIN cache
          BY <2>1, <2>4, <2>8, <4>2
        <5>2. Cardinality(Above(DOMAIN cache, id)) >= CacheSize
          BY <5>1 DEF CacheInv, CacheKeepsHighest, Above
        <5>3. Above(DOMAIN cache, id) \in SUBSET Above(DOMAIN all, id)
          BY <2>4 DEF Above
        <5>4. /\ IsFiniteSet(Above(DOMAIN all, id))
              /\ Cardinality(Above(DOMAIN all, id)) \in Nat
              /\ Cardinality(Above(DOMAIN cache, id)) \in Nat
          BY <2>4, AboveFinite DEF CacheInv
        <5>5. Cardinality(Above(DOMAIN cache, id)) <= Cardinality(Above(DOMAIN all, id))
          BY <5>3, <5>4, FS_Subset
        <5> QED
          BY <5>2, <5>4, <5>5
      <4> QED
        BY <4>1, <4>2
    <3>3. IsFiniteSet(DOMAIN all) /\ DOMAIN all \subseteq Nat
      BY <2>4
    <3> QED
      BY <2>1, <3>1, <3>2, <3>3, EvictedKeeps
  <2>9. CacheKeepsHighest'
    BY <2>8 DEF CacheKeepsHighest, Above
  <2> QED
    BY <2>1, <2>3, <2>4, <2>5, <2>6, <2>7, <2>9 DEF CacheInv
<1> QED
  BY <1>1, <1>2

\* A search result takes the place of what has its id.
LEMMA PutKeepsCache ==
    ASSUME CacheInv, NEW p \in Packets,
           cache' = [id \in DOMAIN cache \cup {p.id} |-> IF id = p.id THEN p ELSE cache[id]],
           given' = given \cup {p.id}
    PROVE  CacheInv'
<1>1. p.id \in Nat
  BY DEF Packets
<1>2. DOMAIN cache' = DOMAIN cache \cup {p.id}
  OBVIOUS
<1>3. IsFiniteSet(DOMAIN cache') /\ DOMAIN cache' \subseteq Nat /\ given' \subseteq Nat
  BY <1>1, <1>2, FS_AddElement DEF CacheInv
<1>4. \A id \in DOMAIN cache' : cache'[id] \in Packets /\ cache'[id].id = id
  BY <1>2 DEF CacheInv
<1>5. ASSUME NEW id \in given' \ DOMAIN cache'
      PROVE  Cardinality(Above(DOMAIN cache', id)) >= CacheSize
  <2>1. id \in given \ DOMAIN cache
    BY <1>2, <1>5
  <2>2. Cardinality(Above(DOMAIN cache, id)) >= CacheSize
    BY <2>1 DEF CacheInv, CacheKeepsHighest, Above
  <2>3. Above(DOMAIN cache, id) \in SUBSET Above(DOMAIN cache', id)
    BY <1>2 DEF Above
  <2>4. /\ IsFiniteSet(Above(DOMAIN cache', id))
        /\ Cardinality(Above(DOMAIN cache', id)) \in Nat
        /\ Cardinality(Above(DOMAIN cache, id)) \in Nat
    BY <1>3, AboveFinite DEF CacheInv
  <2>5. Cardinality(Above(DOMAIN cache, id)) <= Cardinality(Above(DOMAIN cache', id))
    BY <2>3, <2>4, FS_Subset
  <2> QED
    BY <2>2, <2>4, <2>5
<1>6. CacheKeepsHighest'
  BY <1>5 DEF CacheKeepsHighest, Above
<1> QED
  BY <1>3, <1>4, <1>6 DEF CacheInv

\* What an answer can bring.
CallsShaped ==
    \A c \in calls :
        /\ c.kind \in {"poll", "replay", "detail"}
        /\ c.kind = "poll" => Batch(c.batch) /\ c.upto \in Nat /\ c.run \in 0 .. ring.run
        /\ c.kind = "replay" => Batch(c.batch)

LEMMA CacheSteps ==
    RingOK(ring) /\ CallsShaped /\ CacheInv /\ [Next]_vars => CacheInv'
<1> SUFFICES ASSUME RingOK(ring), CallsShaped, CacheInv, [Next]_vars PROVE CacheInv'
  OBVIOUS
<1>1. ASSUME UNCHANGED <<cache, given>> PROVE CacheInv'
  BY <1>1 DEF CacheInv, CacheKeepsHighest
<1>2. ASSUME cache' = NoCache, given' = {} PROVE CacheInv'
  <2>1. DOMAIN cache' = {}
    BY <1>2 DEF NoCache
  <2> QED
    BY <1>2, <2>1, FS_EmptySet DEF CacheInv, CacheKeepsHighest
<1>3. ASSUME NEW c \in calls, PollAnswered(c) \/ ReplayAnswered(c) PROVE CacheInv'
  <2>1. Batch(c.batch) /\ UpdatePacketCache(c.batch)
    BY <1>3 DEF PollAnswered, ReplayAnswered, CallsShaped
  <2> QED
    BY <2>1, UpdateKeepsCache
<1>4. ASSUME NEW fromSearch, InspectRecent(fromSearch) PROVE CacheInv'
  <2> DEFINE p == Chronological(ring)[ring.size]
  <2>1. ring.size > 0 /\ ring.size \in Nat
    BY <1>4, RingContents DEF InspectRecent
  <2>2. ring.size \in 1 .. ring.size
    BY <2>1
  <2>3. p \in Packets
    BY <2>2, RingContents
  <2>4. CASE fromSearch
    <3>1. /\ cache' = [id \in DOMAIN cache \cup {p.id} |-> IF id = p.id THEN p ELSE cache[id]]
          /\ given' = given \cup {p.id}
      BY <1>4, <2>4 DEF InspectRecent
    <3> HIDE DEF p
    <3> QED
      BY <2>3, <3>1, PutKeepsCache
  <2>5. CASE ~fromSearch
    BY <1>1, <1>4, <2>5 DEF InspectRecent
  <2> QED
    BY <2>4, <2>5
<1>5. \A c : DetailAnswered(c) \/ CallFails(c) => UNCHANGED <<cache, given>>
  BY DEF DetailAnswered, CallFails
<1>6. AddPacket \/ Restart \/ PollPackets \/ TogglePanel \/ SetFilter => UNCHANGED <<cache, given>>
  BY DEF AddPacket, Restart, PageUnchanged, PollPackets, TogglePanel, SetFilter
<1>7. \A x : SelectPacket(x) \/ Arrow(x) => UNCHANGED <<cache, given>>
  BY DEF SelectPacket, Arrow
<1>8. EnterReplay \/ ExitReplay => cache' = NoCache /\ given' = {}
  BY DEF EnterReplay, ExitReplay
<1> QED
  BY <1>1, <1>2, <1>3, <1>4, <1>5, <1>6, <1>7, <1>8 DEF Next, vars

-----------------------------------------------------------------------------
(* The calls, the batch, the rows and the selection.                       *)

LEMMA FileBatch == Batch([i \in 1 .. FileSize |-> [of |-> File, id |-> i]])
<1> DEFINE b == [i \in 1 .. FileSize |-> [of |-> File, id |-> i]]
<1>1. \A i \in 1 .. FileSize : [of |-> File, id |-> i] \in Packets
  BY DEF Packets
<1>2. b \in Seq(Packets) /\ Len(b) = FileSize
  BY <1>1
<1>3. \A i \in 1 .. FileSize : b[i].id = i
  OBVIOUS
<1> HIDE DEF b
<1>4. Batch(b)
  BY <1>2, <1>3, BigBounds DEF Batch
<1> QED
  BY <1>4 DEF b

LEMMA CallsSteps ==
    RingOK(ring) /\ CallsShaped /\ cursor \in Nat /\ [Next]_vars => CallsShaped'
<1> SUFFICES ASSUME RingOK(ring), CallsShaped, cursor \in Nat, [Next]_vars PROVE CallsShaped'
  OBVIOUS
<1>1. ring.run \in Nat
  BY RingContents
<1>2. ASSUME UNCHANGED ring, calls' \subseteq calls PROVE CallsShaped'
  BY <1>2 DEF CallsShaped
<1>3. ASSUME UNCHANGED ring, NEW d, d.kind = "detail", calls' \subseteq calls \cup {d}
      PROVE  CallsShaped'
  BY <1>3 DEF CallsShaped
<1>4. CASE AddPacket
  <2>1. ring'.run = ring.run /\ UNCHANGED calls
    BY <1>4, AddedKeeps DEF AddPacket, PageUnchanged
  <2> QED
    BY <2>1 DEF CallsShaped
<1>5. CASE Restart
  <2>1. ring'.run = ring.run + 1 /\ UNCHANGED calls
    BY <1>5 DEF Restart, NewRing, PageUnchanged
  <2>2. \A n \in 0 .. ring.run : n \in 0 .. ring'.run
    BY <1>1, <2>1
  <2> QED
    BY <2>1, <2>2 DEF CallsShaped
<1>6. CASE PollPackets
  <2> DEFINE c == [kind |-> "poll", batch |-> Since(ring, cursor),
                   upto |-> HighestOf(Since(ring, cursor), cursor), run |-> ring.run]
  <2>1. calls' = calls \cup {c} /\ UNCHANGED ring
    BY <1>6 DEF PollPackets
  <2>2. c.kind = "poll" /\ c.batch = Since(ring, cursor) /\ c.run = ring.run
        /\ c.upto = HighestOf(Since(ring, cursor), cursor)
    OBVIOUS
  <2> HIDE DEF c
  <2>3. Batch(c.batch) /\ c.upto \in Nat /\ c.run \in 0 .. ring.run
    BY <1>1, <2>2, SinceBrings
  <2> QED
    BY <2>1, <2>2, <2>3 DEF CallsShaped
<1>7. CASE EnterReplay
  <2> DEFINE c == [kind |-> "replay", batch |-> [i \in 1 .. FileSize |-> [of |-> File, id |-> i]]]
  <2>1. calls' = calls \cup {c} /\ UNCHANGED ring
    BY <1>7 DEF EnterReplay
  <2>2. c.kind = "replay" /\ Batch(c.batch)
    BY FileBatch
  <2> HIDE DEF c
  <2> QED
    BY <2>1, <2>2 DEF CallsShaped
<1>8. ASSUME NEW p, Inspected(p), UNCHANGED ring PROVE CallsShaped'
  <2>1. PICK d : d.kind = "detail" /\ calls' = calls \cup {d}
    BY <1>8 DEF Inspected
  <2> QED
    BY <1>3, <1>8, <2>1
<1>9. ASSUME NEW id, Selected(id), UNCHANGED ring PROVE CallsShaped'
  <2>1. UNCHANGED calls \/ \E p : Inspected(p)
    BY <1>9 DEF Selected
  <2> QED
    BY <1>2, <1>8, <1>9, <2>1
<1>10. ASSUME NEW id, SelectPacket(id) PROVE CallsShaped'
  BY <1>9, <1>10 DEF SelectPacket
<1>11. ASSUME NEW step, Arrow(step) PROVE CallsShaped'
  <2>1. UNCHANGED ring /\ (UNCHANGED calls \/ \E id : Selected(id))
    BY <1>11 DEF Arrow
  <2> QED
    BY <1>2, <1>9, <2>1
<1>12. ASSUME NEW fromSearch, InspectRecent(fromSearch) PROVE CallsShaped'
  BY <1>8, <1>12 DEF InspectRecent
<1>13. ASSUME NEW c \in calls, PollAnswered(c) \/ ReplayAnswered(c) \/ DetailAnswered(c) \/ CallFails(c)
       PROVE  CallsShaped'
  BY <1>2, <1>13 DEF PollAnswered, ReplayAnswered, DetailAnswered, CallFails
<1>14. CASE ExitReplay \/ TogglePanel \/ SetFilter \/ UNCHANGED vars
  BY <1>2, <1>14 DEF ExitReplay, TogglePanel, SetFilter, vars
<1> QED
  BY <1>4, <1>5, <1>6, <1>7, <1>10, <1>11, <1>12, <1>13, <1>14 DEF Next

PageShaped ==
    /\ cursor \in Nat /\ mode \in {None, File} /\ filter \in BOOLEAN /\ open \in BOOLEAN
    /\ Ordered(table) /\ list \in Seq(Packets) /\ Len(list) <= Big
    /\ sel \in Nat /\ idx \in -1 .. Big - 1

LEMMA EmptyTable == Ordered(<<>>)
  BY BigBounds DEF Ordered

\* updatePacketCache, as the panel sees it.
LEMMA UpdateKeepsPage ==
    ASSUME PageShaped, NEW b, Batch(b), UpdatePacketCache(b)
    PROVE  Ordered(table') /\ list' \in Seq(Packets) /\ Len(list') <= Big
<1>1. Ordered(b) /\ Ordered(NewestFirst(b))
  BY BatchOrdered, SortKeeps
<1>2. Listed(filter, b) \in Seq(Packets) /\ Len(Listed(filter, b)) <= Big
  BY <1>1, ListedWithin
<1>3. /\ table' \in {table, b, NewestFirst(b)}
      /\ list' \in {list, Listed(filter, b)}
  BY DEF UpdatePacketCache
<1> QED
  BY <1>1, <1>2, <1>3 DEF PageShaped

LEMMA LoadKeepsPage ==
    ASSUME PageShaped, NEW on, LoadPackets(on)
    PROVE  Ordered(table') /\ list' \in Seq(Packets) /\ Len(list') <= Big
<1>1. Ordered(NewestFirst(table))
  BY SortKeeps DEF PageShaped
<1>2. Listed(on, table) \in Seq(Packets) /\ Len(Listed(on, table)) <= Big
  BY ListedWithin DEF PageShaped
<1> QED
  BY <1>1, <1>2 DEF LoadPackets, PageShaped

\* selectPacket: the index is that of a row, or none.
LEMMA SelectedKeeps ==
    ASSUME PageShaped, CacheInv, NEW id \in Nat, Selected(id)
    PROVE  /\ sel' \in Nat /\ idx' \in -1 .. Big - 1
           /\ \/ UNCHANGED <<shown, calls>>
              \/ \E p \in Packets : Inspected(p)
<1> DEFINE inTable == {i \in 1 .. Len(table) : table[i].id = id}
           rows    == {i \in 1 .. Len(list) : list[i].id = id}
<1>1. PICK n \in Nat, l \in Nat : n = Len(table) /\ l = Len(list) /\ l <= Big
  BY DEF PageShaped, Ordered
<1>2. rows # {} => Min(rows) \in 1 .. l
  <2>1. rows \subseteq Nat /\ rows \subseteq 1 .. l
    BY <1>1
  <2> HIDE DEF rows
  <2> QED
    BY <2>1, MinIn
<1>3. inTable # {} => table[Min(inTable)] \in Packets
  <2>1. inTable \subseteq Nat /\ inTable \subseteq 1 .. n
    BY <1>1
  <2>2. \A i \in 1 .. n : table[i] \in Packets
    BY <1>1 DEF PageShaped, Ordered
  <2> HIDE DEF inTable
  <2> QED
    BY <2>1, <2>2, MinIn
<1>4. /\ sel' = id
      /\ IF id \in DOMAIN cache \/ inTable # {}
         THEN /\ idx' = IF rows = {} THEN -1 ELSE Min(rows) - 1
              /\ Inspected(IF id \in DOMAIN cache THEN cache[id] ELSE table[Min(inTable)])
         ELSE UNCHANGED <<idx, shown, calls>>
  BY DEF Selected
<1> HIDE DEF rows, inTable
<1>5. Big \in Nat /\ (rows # {} => Min(rows) - 1 \in -1 .. Big - 1)
  BY <1>1, <1>2, BigBounds
<1>6. idx' \in -1 .. Big - 1
  BY <1>4, <1>5 DEF PageShaped
<1>7. id \in DOMAIN cache => cache[id] \in Packets
  BY DEF CacheInv
<1> QED
  BY <1>3, <1>4, <1>6, <1>7

LEMMA PageSteps ==
    RingOK(ring) /\ CallsShaped /\ CacheInv /\ PageShaped /\ [Next]_vars => PageShaped'
<1> SUFFICES ASSUME RingOK(ring), CallsShaped, CacheInv, PageShaped, [Next]_vars PROVE PageShaped'
  OBVIOUS
<1>1. ASSUME UNCHANGED <<cursor, mode, table, list, filter, open, sel, idx>> PROVE PageShaped'
  BY <1>1 DEF PageShaped
<1>2. ASSUME NEW c \in calls, PollAnswered(c) \/ ReplayAnswered(c) PROVE PageShaped'
  <2>1. Batch(c.batch) /\ UpdatePacketCache(c.batch) /\ UNCHANGED <<mode, filter, open, sel, idx>>
    BY <1>2 DEF PollAnswered, ReplayAnswered, CallsShaped
  <2>2. cursor' \in Nat
    BY <1>2 DEF PollAnswered, ReplayAnswered, CallsShaped, PageShaped
  <2> QED
    BY <2>1, <2>2, UpdateKeepsPage DEF PageShaped
<1>3. CASE EnterReplay \/ ExitReplay
  BY <1>3, EmptyTable DEF EnterReplay, ExitReplay, PageShaped
<1>4. CASE TogglePanel \/ SetFilter
  <2>1. /\ UNCHANGED <<cursor, mode, sel, idx>> /\ open' \in BOOLEAN /\ filter' \in BOOLEAN
        /\ UNCHANGED <<list, table>> \/ \E on : LoadPackets(on)
    BY <1>4 DEF TogglePanel, SetFilter, PageShaped
  <2> QED
    BY <2>1, LoadKeepsPage DEF PageShaped
<1>5. ASSUME NEW id \in 1 .. MaxPackets, SelectPacket(id) PROVE PageShaped'
  <2>1. UNCHANGED <<cursor, mode, table, list, filter, open>> /\ Selected(id) /\ id \in Nat
    BY <1>5 DEF SelectPacket
  <2> QED
    BY <2>1, SelectedKeeps DEF PageShaped
<1>6. ASSUME NEW step \in {-1, 1}, Arrow(step) PROVE PageShaped'
  <2> DEFINE to == IF step > 0 THEN Min({idx + 1, Len(table) - 1}) ELSE Max({idx - 1, 0})
  <2>1. UNCHANGED <<cursor, mode, table, list, filter, open>> /\ table # <<>>
    BY <1>6 DEF Arrow
  <2>2. PICK n \in Nat, k \in -1 .. Big - 1 :
           n = Len(table) /\ n # 0 /\ n <= Big /\ k = idx /\ Big \in Nat
    BY <2>1, BigBounds DEF PageShaped, Ordered
  <2>3. to \in -1 .. Big - 1
    <3>1. CASE step > 0 /\ k + 1 <= n - 1
      <4>1. {k + 1, n - 1} \subseteq Int /\ \A y \in {k + 1, n - 1} : k + 1 <= y
        BY <2>2, <3>1
      <4>2. Min({k + 1, n - 1}) = k + 1
        BY <4>1, MinIs
      <4> QED
        BY <2>2, <3>1, <4>2
    <3>2. CASE step > 0 /\ n - 1 <= k + 1
      <4>1. /\ {k + 1, n - 1} \subseteq Int /\ n - 1 \in {k + 1, n - 1}
            /\ \A y \in {k + 1, n - 1} : n - 1 <= y
        BY <2>2, <3>2
      <4>2. Min({k + 1, n - 1}) = n - 1
        BY <4>1, MinIs
      <4> QED
        BY <2>2, <3>2, <4>2
    <3>3. CASE ~(step > 0) /\ k - 1 <= 0
      BY <2>2, <3>3, MaxIs
    <3>4. CASE ~(step > 0) /\ 0 <= k - 1
      BY <2>2, <3>4, MaxIs
    <3> QED
      BY <2>2, <3>1, <3>2, <3>3, <3>4
  <2>4. IF to \in 0 .. Len(table) - 1 THEN Selected(table[to + 1].id)
        ELSE idx' = to /\ UNCHANGED <<sel, shown, calls>>
    BY <1>6 DEF Arrow
  <2> HIDE DEF to
  <2>5. CASE to \in 0 .. Len(table) - 1
    <3>1. table[to + 1].id \in Nat
      <4>1. to + 1 \in 1 .. n /\ \A i \in 1 .. n : table[i] \in Packets
        BY <2>2, <2>5 DEF PageShaped, Ordered
      <4> QED
        BY <4>1 DEF Packets
    <3> QED
      BY <2>1, <2>4, <2>5, <3>1, SelectedKeeps DEF PageShaped
  <2>6. CASE to \notin 0 .. Len(table) - 1
    BY <2>1, <2>3, <2>4, <2>6 DEF PageShaped
  <2> QED
    BY <2>5, <2>6
<1>7. ASSUME NEW fromSearch \in BOOLEAN, InspectRecent(fromSearch) PROVE PageShaped'
  <2>1. /\ UNCHANGED <<cursor, mode, filter, sel, idx>>
        /\ open' \in BOOLEAN
        /\ UNCHANGED <<list, table>> \/ LoadPackets(filter)
    BY <1>7 DEF InspectRecent, PageShaped
  <2> QED
    BY <2>1, LoadKeepsPage DEF PageShaped
<1>8. \A c : DetailAnswered(c) \/ CallFails(c)
          => UNCHANGED <<cursor, mode, table, list, filter, open, sel, idx>>
  BY DEF DetailAnswered, CallFails
<1>9. AddPacket \/ Restart \/ PollPackets \/ UNCHANGED vars
          => UNCHANGED <<cursor, mode, table, list, filter, open, sel, idx>>
  BY DEF AddPacket, Restart, PageUnchanged, PollPackets, vars
<1> QED
  BY <1>1, <1>2, <1>3, <1>4, <1>5, <1>6, <1>7, <1>8, <1>9 DEF Next

-----------------------------------------------------------------------------
(* The inspector: its number tells which fetch fills it.                   *)

InspectorTypes == [of : Packets \cup {None}, state : {"empty", "loading", "filled"},
                   payload : Packets \cup {None}, no : Nat]

InspectorInv ==
    /\ shown \in InspectorTypes
    /\ \A c \in calls : c.kind = "detail" =>
          /\ c.found = None \/ (c.found \in Packets /\ c.found.id = c.id)
          /\ c.no \in Nat /\ c.no <= shown.no
          /\ c.no = shown.no => shown.of.id = c.id
    /\ PayloadOfItsId

LEMMA InspectedKeeps ==
    ASSUME RingOK(ring), InspectorInv, NEW p \in Packets, Inspected(p)
    PROVE  InspectorInv'
<1> DEFINE c == [kind |-> "detail", id |-> p.id, no |-> shown.no + 1, found |-> ByID(ring, p.id)]
<1>1. shown' = [of |-> p, state |-> "loading", payload |-> None, no |-> shown.no + 1]
      /\ calls' = calls \cup {c}
  BY DEF Inspected
<1>2. shown.no \in Nat
  BY DEF InspectorInv, InspectorTypes
<1>3. shown' \in InspectorTypes /\ shown'.of = p /\ shown'.payload = None
      /\ shown'.no = shown.no + 1
  BY <1>1, <1>2 DEF InspectorTypes
<1>4. /\ c.kind = "detail" /\ c.id = p.id /\ c.no = shown.no + 1
      /\ c.found = None \/ (c.found \in Packets /\ c.found.id = p.id)
  BY ByIDFinds
<1> HIDE DEF c
<1>5. \A d \in calls' : d.kind = "detail" =>
          /\ d.found = None \/ (d.found \in Packets /\ d.found.id = d.id)
          /\ d.no \in Nat /\ d.no <= shown'.no
          /\ d.no = shown'.no => shown'.of.id = d.id
  BY <1>1, <1>2, <1>3, <1>4 DEF InspectorInv
<1> QED
  BY <1>3, <1>5 DEF InspectorInv, PayloadOfItsId

\* No other call fills it, and an answer leaves its packet and number alone.
LEMMA OthersKeepInspector ==
    ASSUME InspectorInv, UNCHANGED shown, \A c \in calls' : c.kind = "detail" => c \in calls
    PROVE  InspectorInv'
  BY DEF InspectorInv, PayloadOfItsId

LEMMA FilledKeeps ==
    ASSUME InspectorInv, NEW c \in calls, c.kind = "detail", c.no = shown.no,
           NEW found \in {c.found, None}, shown' = Filled(found), calls' \subseteq calls
    PROVE  InspectorInv'
<1>1. /\ shown'.of = shown.of /\ shown'.no = shown.no /\ shown'.payload = found
      /\ shown' \in InspectorTypes
  BY DEF Filled, InspectorInv, InspectorTypes
<1>2. PayloadOfItsId'
  BY <1>1 DEF InspectorInv, PayloadOfItsId
<1> QED
  BY <1>1, <1>2 DEF InspectorInv

LEMMA InspectorSteps ==
    RingOK(ring) /\ CallsShaped /\ CacheInv /\ PageShaped /\ InspectorInv /\ [Next]_vars
        => InspectorInv'
<1> SUFFICES ASSUME RingOK(ring), CallsShaped, CacheInv, PageShaped, InspectorInv, [Next]_vars
             PROVE  InspectorInv'
  OBVIOUS
<1>1. ASSUME NEW c \in calls, PollAnswered(c) \/ ReplayAnswered(c) PROVE InspectorInv'
  BY <1>1, OthersKeepInspector DEF PollAnswered, ReplayAnswered
<1>2. ASSUME NEW c \in calls, DetailAnswered(c) \/ CallFails(c) PROVE InspectorInv'
  <2>1. calls' \subseteq calls
    BY <1>2 DEF DetailAnswered, CallFails
  <2>2. \/ UNCHANGED shown
        \/ /\ c.kind = "detail" /\ c.no = shown.no
           /\ shown' = Filled(c.found) \/ shown' = Filled(None)
    BY <1>2 DEF DetailAnswered, CallFails
  <2> QED
    BY <2>1, <2>2, OthersKeepInspector, FilledKeeps
<1>3. CASE AddPacket \/ Restart \/ ExitReplay \/ TogglePanel \/ SetFilter \/ UNCHANGED vars
  BY <1>3, OthersKeepInspector
  DEF AddPacket, Restart, PageUnchanged, ExitReplay, TogglePanel, SetFilter, vars
<1>4. CASE PollPackets \/ EnterReplay
  <2>1. UNCHANGED shown /\ \E d : d.kind # "detail" /\ calls' = calls \cup {d}
    BY <1>4 DEF PollPackets, EnterReplay
  <2> QED
    BY <2>1, OthersKeepInspector
<1>5. ASSUME NEW id \in Nat, Selected(id) PROVE InspectorInv'
  BY <1>5, SelectedKeeps, InspectedKeeps, OthersKeepInspector
<1>6. ASSUME NEW id \in 1 .. MaxPackets, SelectPacket(id) PROVE InspectorInv'
  BY <1>5, <1>6 DEF SelectPacket
<1>7. ASSUME NEW step \in {-1, 1}, Arrow(step) PROVE InspectorInv'
  <2> DEFINE to == IF step > 0 THEN Min({idx + 1, Len(table) - 1}) ELSE Max({idx - 1, 0})
  <2>1. IF to \in 0 .. Len(table) - 1 THEN Selected(table[to + 1].id) ELSE UNCHANGED <<shown, calls>>
    BY <1>7 DEF Arrow
  <2> HIDE DEF to
  <2>2. CASE to \in 0 .. Len(table) - 1
    <3>1. PICK n \in Nat : n = Len(table)
      BY DEF PageShaped, Ordered
    <3>2. to + 1 \in 1 .. n /\ \A i \in 1 .. n : table[i] \in Packets
      BY <2>2, <3>1 DEF PageShaped, Ordered
    <3>3. table[to + 1].id \in Nat
      BY <3>2 DEF Packets
    <3> QED
      BY <1>5, <2>1, <2>2, <3>3
  <2>3. CASE to \notin 0 .. Len(table) - 1
    BY <2>1, <2>3, OthersKeepInspector
  <2> QED
    BY <2>2, <2>3
<1>8. ASSUME NEW fromSearch \in BOOLEAN, InspectRecent(fromSearch) PROVE InspectorInv'
  <2>1. ring.size > 0 /\ ring.size \in Nat
    BY <1>8, RingContents DEF InspectRecent
  <2>2. ring.size \in 1 .. ring.size
    BY <2>1
  <2>3. Chronological(ring)[ring.size] \in Packets /\ Inspected(Chronological(ring)[ring.size])
    BY <1>8, <2>2, RingContents DEF InspectRecent
  <2> QED
    BY <2>3, InspectedKeeps
<1> QED
  BY <1>1, <1>2, <1>3, <1>4, <1>6, <1>7, <1>8 DEF Next

-----------------------------------------------------------------------------
(* The cursor and the polls under way.  As long as one run alone has moved *)
(* the cursor, a poll under way, with what the page was given, covers the  *)
(* ring up to the id the cursor will take.                                 *)

OneRun(id, by, run) == id = 0 \/ by = run

Covered(r, upto, more) ==
    /\ upto <= r.next - 1
    /\ \A i \in 1 .. r.size : Chronological(r)[i].id <= upto => Chronological(r)[i] \in more

CoverInv ==
    /\ cursorRun \in 0 .. ring.run \cup {None}
    /\ OneRun(cursor, cursorRun, ring.run) => Covered(ring, cursor, seen)
    /\ \A c \in calls : c.kind = "poll" /\ c.run = ring.run /\ OneRun(cursor, cursorRun, ring.run)
                            => Covered(ring, c.upto, seen \cup ToSet(c.batch))

\* The page is given more, the ring and the cursor stay.
LEMMA OthersKeepCover ==
    ASSUME CoverInv, UNCHANGED <<ring, cursor, cursorRun, seen>>,
           \A c \in calls' : c.kind = "poll" => c \in calls
    PROVE  CoverInv'
  BY DEF CoverInv, OneRun, Covered

LEMMA AddKeepsCover ==
    ASSUME RingOK(ring), CoverInv, AddPacket, CallsShaped, cursor \in Nat
    PROVE  CoverInv'
<1>1. /\ ring'.run = ring.run /\ ring'.next = ring.next + 1 /\ ring.next \in Nat
      /\ \A i \in 1 .. ring'.size :
            \/ Chronological(ring')[i].id = ring.next
            \/ \E j \in 1 .. ring.size : Chronological(ring')[i] = Chronological(ring)[j]
      /\ UNCHANGED <<cursor, cursorRun, seen, calls>>
  BY AddedKeeps, AddedContents, RingContents DEF AddPacket, PageUnchanged
<1>2. ASSUME NEW upto \in Nat, NEW more, Covered(ring, upto, more) PROVE Covered(ring', upto, more)
  <2>1. upto <= ring.next - 1 /\ upto <= ring'.next - 1
    BY <1>1, <1>2 DEF Covered
  <2>2. ASSUME NEW i \in 1 .. ring'.size, Chronological(ring')[i].id <= upto
        PROVE  Chronological(ring')[i] \in more
    <3>1. Chronological(ring')[i].id # ring.next
      BY <1>1, <2>1, <2>2
    <3>2. PICK j \in 1 .. ring.size : Chronological(ring')[i] = Chronological(ring)[j]
      BY <1>1, <3>1
    <3> QED
      BY <1>1, <1>2, <2>2, <3>2 DEF Covered
  <2> QED
    BY <2>1, <2>2 DEF Covered
<1>3. OneRun(cursor, cursorRun, ring.run) => Covered(ring', cursor', seen')
  BY <1>1, <1>2 DEF CoverInv
<1>4. \A c \in calls : c.kind = "poll" /\ c.run = ring.run /\ OneRun(cursor, cursorRun, ring.run)
                           => Covered(ring', c.upto, seen' \cup ToSet(c.batch))
  BY <1>1, <1>2 DEF CoverInv, CallsShaped
<1> QED
  BY <1>1, <1>3, <1>4 DEF CoverInv, OneRun, Covered

LEMMA RestartKeepsCover ==
    ASSUME RingOK(ring), CoverInv, Restart, CallsShaped
    PROVE  CoverInv'
<1>1. /\ ring.run \in Nat /\ ring'.run = ring.run + 1 /\ ring'.size = 0 /\ ring'.next = 1
      /\ UNCHANGED <<cursor, cursorRun, seen, calls>>
  BY RingContents DEF Restart, NewRing, PageUnchanged
<1>2. cursorRun \in 0 .. ring.run \cup {None} /\ cursorRun # ring'.run
      /\ cursorRun \in 0 .. ring'.run \cup {None}
  BY <1>1 DEF CoverInv
<1>3. \A c \in calls : c.kind = "poll" => c.run # ring'.run
  BY <1>1 DEF CallsShaped
<1>4. OneRun(cursor', cursorRun', ring'.run) => cursor = 0
  BY <1>1, <1>2 DEF OneRun
<1>5. cursor = 0 => Covered(ring', cursor', seen')
  BY <1>1 DEF Covered
<1> QED
  BY <1>1, <1>2, <1>3, <1>4, <1>5 DEF CoverInv, OneRun, Covered

\* A poll covers what is new; what is older the page has.
LEMMA PollKeepsCover ==
    ASSUME RingOK(ring), CoverInv, PollPackets, cursor \in Nat
    PROVE  CoverInv'
<1> DEFINE b == Since(ring, cursor)
           up == HighestOf(b, cursor)
           c == [kind |-> "poll", batch |-> b, upto |-> up, run |-> ring.run]
<1>1. calls' = calls \cup {c} /\ UNCHANGED <<ring, cursor, cursorRun, seen>>
  BY DEF PollPackets
<1>2. c.batch = b /\ c.upto = up
  OBVIOUS
<1>3. /\ up \in Nat /\ (up = cursor \/ up <= ring.next - 1)
      /\ \A i \in 1 .. ring.size :
            cursor < Chronological(ring)[i].id /\ Chronological(ring)[i].id <= up
                => Chronological(ring)[i] \in ToSet(b)
  BY SinceBrings
<1> HIDE DEF b, up, c
<1>4. OneRun(cursor, cursorRun, ring.run) => Covered(ring, up, seen \cup ToSet(b))
  <2> SUFFICES ASSUME OneRun(cursor, cursorRun, ring.run) PROVE Covered(ring, up, seen \cup ToSet(b))
    OBVIOUS
  <2>1. Covered(ring, cursor, seen)
    BY DEF CoverInv
  <2>2. \A i \in 1 .. ring.size : Chronological(ring)[i].id \in Nat
    <3>1. \A i \in 1 .. ring.size : Chronological(ring)[i] \in Packets
      BY RingContents
    <3> QED
      BY <3>1 DEF Packets
  <2>3. \A i \in 1 .. ring.size :
           Chronological(ring)[i].id <= cursor \/ cursor < Chronological(ring)[i].id
    BY <2>2
  <2>4. up <= ring.next - 1
    BY <1>3, <2>1 DEF Covered
  <2> QED
    BY <1>3, <2>1, <2>3, <2>4 DEF Covered
<1>5. \A d \in calls' : d \in calls \/ (d.upto = up /\ d.batch = b)
  BY <1>1, <1>2
<1> QED
  BY <1>1, <1>4, <1>5 DEF CoverInv, OneRun, Covered

\* An answer moves the cursor no further than what the page has been given.
LEMMA AnswerKeepsCover ==
    ASSUME RingOK(ring), CoverInv, CallsShaped, cursor \in Nat, NEW c \in calls, PollAnswered(c)
    PROVE  CoverInv'
<1>1. /\ c.kind = "poll" /\ calls' \subseteq calls /\ UNCHANGED ring
      /\ seen' = seen \cup ToSet(c.batch)
      /\ IF c.upto > cursor
         THEN /\ cursor' = c.upto
              /\ cursorRun' = IF cursor = 0 \/ cursorRun = c.run THEN c.run ELSE None
         ELSE UNCHANGED <<cursor, cursorRun>>
  BY DEF PollAnswered
<1>2. c.upto \in Nat /\ c.run \in 0 .. ring.run /\ ring.run \in Nat
  BY <1>1, RingContents DEF CallsShaped
<1>3. cursorRun' \in 0 .. ring'.run \cup {None}
  BY <1>1, <1>2 DEF CoverInv
<1>4. ASSUME NEW upto, NEW more, NEW all, more \subseteq all, Covered(ring, upto, more)
      PROVE  Covered(ring', upto, all)
  BY <1>1, <1>4 DEF Covered
<1>5. CASE c.upto > cursor
  <2>1. OneRun(cursor', cursorRun', ring'.run) => c.run = ring.run /\ OneRun(cursor, cursorRun, ring.run)
    BY <1>1, <1>2, <1>5 DEF OneRun
  <2>2. OneRun(cursor', cursorRun', ring'.run) => Covered(ring', cursor', seen')
    <3> SUFFICES ASSUME OneRun(cursor', cursorRun', ring'.run) PROVE Covered(ring', cursor', seen')
      OBVIOUS
    <3>1. Covered(ring, c.upto, seen \cup ToSet(c.batch))
      BY <1>1, <2>1 DEF CoverInv
    <3> QED
      BY <1>1, <1>5, <3>1 DEF Covered
  <2>3. \A d \in calls' : d.kind = "poll" /\ d.run = ring'.run /\ OneRun(cursor', cursorRun', ring'.run)
                              => Covered(ring', d.upto, seen' \cup ToSet(d.batch))
    <3> SUFFICES ASSUME NEW d \in calls', d.kind = "poll", d.run = ring'.run, OneRun(cursor', cursorRun', ring'.run)
                 PROVE  Covered(ring', d.upto, seen' \cup ToSet(d.batch))
      OBVIOUS
    <3>1. d \in calls /\ d.run = ring.run /\ OneRun(cursor, cursorRun, ring.run)
      BY <1>1, <2>1
    <3>2. Covered(ring, d.upto, seen \cup ToSet(d.batch))
      BY <3>1 DEF CoverInv
    <3>3. seen \cup ToSet(d.batch) \subseteq seen' \cup ToSet(d.batch)
      BY <1>1
    <3> QED
      BY <1>4, <3>2, <3>3
  <2> QED
    BY <1>1, <1>3, <2>2, <2>3 DEF CoverInv, OneRun, Covered
<1>6. CASE ~(c.upto > cursor)
  <2>1. UNCHANGED <<cursor, cursorRun>> /\ OneRun(cursor', cursorRun', ring'.run) = OneRun(cursor, cursorRun, ring.run)
    BY <1>1, <1>6 DEF OneRun
  <2>2. OneRun(cursor, cursorRun, ring.run) => Covered(ring', cursor', seen')
    <3>1. seen \subseteq seen'
      BY <1>1
    <3> QED
      BY <1>4, <2>1, <3>1 DEF CoverInv
  <2>3. \A d \in calls' : d.kind = "poll" /\ d.run = ring.run /\ OneRun(cursor, cursorRun, ring.run)
                              => Covered(ring', d.upto, seen' \cup ToSet(d.batch))
    <3> SUFFICES ASSUME NEW d \in calls', d.kind = "poll", d.run = ring.run, OneRun(cursor, cursorRun, ring.run)
                 PROVE  Covered(ring', d.upto, seen' \cup ToSet(d.batch))
      OBVIOUS
    <3>1. d \in calls /\ d.run = ring.run /\ OneRun(cursor, cursorRun, ring.run)
      BY <1>1, <2>1
    <3>2. Covered(ring, d.upto, seen \cup ToSet(d.batch))
      BY <3>1 DEF CoverInv
    <3>3. seen \cup ToSet(d.batch) \subseteq seen' \cup ToSet(d.batch)
      BY <1>1
    <3> QED
      BY <1>4, <3>2, <3>3
  <2> QED
    BY <1>1, <1>3, <2>1, <2>2, <2>3 DEF CoverInv, OneRun, Covered
<1> QED
  BY <1>5, <1>6

LEMMA CoverSteps ==
    RingOK(ring) /\ CallsShaped /\ PageShaped /\ CoverInv /\ [Next]_vars => CoverInv'
<1> SUFFICES ASSUME RingOK(ring), CallsShaped, PageShaped, CoverInv, [Next]_vars PROVE CoverInv'
  OBVIOUS
<1>1. cursor \in Nat
  BY DEF PageShaped
<1>2. CASE AddPacket \/ Restart \/ PollPackets \/ \E c \in calls : PollAnswered(c)
  BY <1>1, <1>2, AddKeepsCover, RestartKeepsCover, PollKeepsCover, AnswerKeepsCover
<1>3. ASSUME NEW c \in calls, ReplayAnswered(c) \/ DetailAnswered(c) \/ CallFails(c) PROVE CoverInv'
  BY <1>3, OthersKeepCover DEF ReplayAnswered, DetailAnswered, CallFails
<1>4. CASE ExitReplay \/ TogglePanel \/ SetFilter \/ UNCHANGED vars
  BY <1>4, OthersKeepCover DEF ExitReplay, TogglePanel, SetFilter, vars
<1>5. CASE EnterReplay
  <2>1. /\ UNCHANGED <<ring, cursor, cursorRun, seen>>
        /\ \E d : d.kind # "poll" /\ calls' = calls \cup {d}
    BY <1>5 DEF EnterReplay
  <2> QED
    BY <2>1, OthersKeepCover
<1>6. \A p : Inspected(p) => \E d : d.kind # "poll" /\ calls' = calls \cup {d}
  BY DEF Inspected
<1>7. \A x : SelectPacket(x) \/ Arrow(x) \/ InspectRecent(x)
          => /\ UNCHANGED <<ring, cursor, cursorRun, seen>>
             /\ UNCHANGED calls \/ \E p : Inspected(p)
  BY DEF SelectPacket, Arrow, InspectRecent, Selected
<1>8. ASSUME NEW x, SelectPacket(x) \/ Arrow(x) \/ InspectRecent(x) PROVE CoverInv'
  <2>1. \A c \in calls' : c.kind = "poll" => c \in calls
    BY <1>6, <1>7, <1>8
  <2> QED
    BY <1>7, <1>8, <2>1, OthersKeepCover
<1> QED
  BY <1>2, <1>3, <1>4, <1>5, <1>8 DEF Next

-----------------------------------------------------------------------------
(* The theorems.                                                           *)

PanelInv == /\ RingOK(ring) /\ CallsShaped /\ CacheInv /\ PageShaped /\ InspectorInv
            /\ CoverInv

LEMMA InitPanel == Init => PanelInv
<1> SUFFICES ASSUME Init PROVE PanelInv
  OBVIOUS
<1>1. RingOK(ring) /\ ring.run = 0 /\ ring.next = 1 /\ ring.size = 0
  BY NewRingOK DEF Init, NewRing
<1>2. CallsShaped
  BY DEF Init, CallsShaped
<1>3. CacheInv
  <2>1. DOMAIN cache = {} /\ given = {}
    BY DEF Init, NoCache
  <2> QED
    BY <2>1, FS_EmptySet DEF CacheInv, CacheKeepsHighest
<1>4. PageShaped
  <2>1. Big \in Nat /\ Ordered(<<>>) /\ <<>> \in Seq(Packets) /\ Len(<<>>) = 0
    BY BigBounds, EmptyTable
  <2>2. -1 \in -1 .. Big - 1
    BY <2>1
  <2>3. /\ cursor = 0 /\ mode = None /\ filter = FALSE /\ open = FALSE /\ table = <<>>
        /\ list = <<>> /\ sel = 0 /\ idx = -1
    BY DEF Init
  <2>4. Ordered(table)
    BY <2>1, <2>3
  <2>5. list \in Seq(Packets) /\ Len(list) <= Big
    BY <2>1, <2>3
  <2>6. idx \in -1 .. Big - 1
    BY <2>2, <2>3
  <2>7. cursor \in Nat /\ mode \in {None, File} /\ filter \in BOOLEAN /\ open \in BOOLEAN /\ sel \in Nat
    BY <2>3
  <2> QED
    BY <2>4, <2>5, <2>6, <2>7 DEF PageShaped
<1>5. InspectorInv
  <2>1. shown = [of |-> None, state |-> "empty", payload |-> None, no |-> 0] /\ calls = {}
    BY DEF Init
  <2> QED
    BY <2>1 DEF InspectorInv, InspectorTypes, PayloadOfItsId
<1>6. CoverInv
  BY <1>1 DEF Init, CoverInv, OneRun, Covered
<1> QED
  BY <1>1, <1>2, <1>3, <1>4, <1>5, <1>6 DEF PanelInv

\* The ring, the calls, the cache, the page, the inspector and the cursor together.
THEOREM PanelInvariant == Spec => []PanelInv
<1>1. PanelInv /\ [Next]_vars => PanelInv'
  <2> SUFFICES ASSUME PanelInv, [Next]_vars PROVE PanelInv'
    OBVIOUS
  <2>1. RingOK(ring) /\ CallsShaped /\ CacheInv /\ PageShaped /\ InspectorInv /\ CoverInv
    BY DEF PanelInv
  <2>2. cursor \in Nat
    BY <2>1 DEF PageShaped
  <2> QED
    BY <2>1, <2>2, RingSteps, CallsSteps, CacheSteps, PageSteps, InspectorSteps, CoverSteps DEF PanelInv
<1> QED
  BY <1>1, InitPanel, PTL DEF Spec

\* Read from its head on, the ring holds the newest packets of its run, in order and
\* without a gap, however often it has wrapped: AddPacket, GetPackets, for any size.
THEOREM RingAlwaysNewest == Spec => []RingHoldsNewest
<1>1. PanelInv => RingHoldsNewest
  <2> SUFFICES ASSUME RingOK(ring) PROVE RingHoldsNewest
    BY DEF PanelInv
  <2>1. PICK size \in Nat, next \in Nat : size = ring.size /\ next = ring.next
                                          /\ size = IF Capacity <= next - 1 THEN Capacity ELSE next - 1
    BY DEF RingOK, RingTypes
  <2>2. Min({Capacity, next - 1}) = size
    <3>1. {Capacity, next - 1} \subseteq Int /\ size \in {Capacity, next - 1}
          /\ \A y \in {Capacity, next - 1} : size <= y
      BY <2>1
    <3> QED
      BY <3>1, MinIs
  <2>3. \A i \in 1 .. ring.size :
           Chronological(ring)[i] = [of |-> ring.run, id |-> ring.next - 1 - ring.size + i]
    BY RingContents DEF Packet
  <2> QED
    BY <2>1, <2>2, <2>3 DEF RingHoldsNewest
<1> QED
  BY <1>1, PanelInvariant, PTL

\* A payload never lands in the inspector of a packet with another id, whatever was
\* inspected while it was fetched: loadPacketPayloadViews.
THEOREM PayloadAlwaysOfItsId == Spec => []PayloadOfItsId
<1>1. PanelInv => PayloadOfItsId
  BY DEF PanelInv, InspectorInv
<1> QED
  BY <1>1, PanelInvariant, PTL

\* Overlapping, late and failed polls skip no packet the cursor has passed, and the
\* cache only ever evicts from its low end, for any sizes and any number of packets:
\* pollPackets, GetPacketsSince, updatePacketCache; every variable has its type.
THEOREM TableAlwaysComplete == Spec => []TableIsComplete
<1>1. PanelInv => NothingSkipped
  <2> SUFFICES ASSUME CoverInv PROVE NothingSkipped
    BY DEF PanelInv
  <2> QED
    BY DEF CoverInv, OneRun, Covered, NothingSkipped
<1>2. PanelInv => CacheKeepsHighest
  BY DEF PanelInv, CacheInv
<1>3. PanelInv => TypeOK
  <2> SUFFICES ASSUME PanelInv PROVE TypeOK
    OBVIOUS
  <2>1. ring.size \in 0 .. Capacity /\ ring.head \in 0 .. Capacity - 1
    BY DEF PanelInv, RingOK, RingTypes
  <2>2. \A i \in 1 .. Len(table) : table[i] \in Packets
    BY DEF PanelInv, PageShaped, Ordered
  <2>3. \A i \in 1 .. Len(list) : list[i] \in Packets
    BY DEF PanelInv, PageShaped
  <2> QED
    BY <2>1, <2>2, <2>3 DEF PanelInv, PageShaped, CacheInv, CallsShaped, TypeOK, Big
<1> QED
  BY <1>1, <1>2, <1>3, PanelInvariant, PTL DEF TableIsComplete
=============================================================================
