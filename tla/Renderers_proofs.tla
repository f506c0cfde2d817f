---------------------------- MODULE Renderers_proofs ----------------------------
(***************************************************************************)
(* The page's renderers, for any nodes, edges, places, values, texts and   *)
(* canvas: GL buffers that are not dirty are as the bodies say, particles  *)
(* flow, the automatic fit yields to the user, sprites never overlap; the  *)
(* solar map's arrays follow the bodies and its sizes stay frozen.         *)
(*                                                                         *)
(* PageInv has a part for the renderer there is.  GLInv is SceneOK         *)
(* (types), BuffersOK, CameraOK, PartsOK and the atlas's Packed, which     *)
(* puts every sprite behind the cursor.  SolarOK is SolarTypes, Fitting    *)
(* (sizes of the arrays), Topology, Looks, Places and Frozen; Trail is     *)
(* about the streaks.  What a loop of the code computes is a recursive     *)
(* function over UpTo(n); LoopExists and the lemmas next to it prove, by   *)
(* the least counterexample (LeastNat), that it exists and what it keeps.  *)
(***************************************************************************)
EXTENDS Renderers, FiniteSetTheorems, WellFoundedInduction, TLAPS

-----------------------------------------------------------------------------
(* Numbers and loops.                                                      *)

LEMMA LeastNat ==
    ASSUME NEW T, T \subseteq Nat, T # {}
    PROVE  \E x \in T : \A y \in T : x <= y
<1> DEFINE R == OpToRel(<, Nat)
<1>1. IsWellFoundedOn(R, Nat)
  BY NatLessThanWellFounded
<1>2. \A x, y \in Nat : y < x => <<y, x>> \in R
  BY DEF OpToRel
<1> HIDE DEF R
<1>3. PICK x \in T : \A y \in T : ~ (<<y, x>> \in R)
  BY <1>1, WFMin
<1>4. ASSUME NEW y \in T PROVE x <= y
  <2>1. x \in Nat /\ y \in Nat /\ ~(y < x)
    BY <1>2, <1>3
  <2> QED
    BY <2>1
<1> QED
  BY <1>4

\* Induction up to n: a set that has 0 and, below n, the successor of each member.
LEMMA UpTo ==
    ASSUME NEW n \in Nat, NEW T, 0 \in T, \A k \in 0 .. n : k \in T /\ k < n => k + 1 \in T
    PROVE  \A k \in 0 .. n : k \in T
<1> DEFINE Bad == {k \in 0 .. n : k \notin T}
<1> SUFFICES ASSUME Bad # {} PROVE FALSE
  OBVIOUS
<1>1. Bad \subseteq Nat
  OBVIOUS
<1>2. PICK k \in Bad : \A j \in Bad : k <= j
  BY <1>1, LeastNat
<1>3. k # 0 /\ k - 1 \in 0 .. n /\ k - 1 < n /\ k - 1 \notin Bad
  BY <1>2
<1>4. k - 1 \in T
  BY <1>3
<1>5. (k - 1) + 1 \in T
  BY <1>3, <1>4
<1> QED
  BY <1>2, <1>5

LEMMA MaxIs ==
    ASSUME NEW S, S \subseteq Int, NEW m \in S, \A y \in S : y <= m
    PROVE  Max(S) = m
<1>1. \E x \in S : \A y \in S : x >= y
  OBVIOUS
<1>2. Max(S) \in S /\ \A y \in S : Max(S) >= y
  BY <1>1 DEF Max
<1>3. Max(S) >= m /\ Max(S) <= m /\ Max(S) \in Int
  BY <1>2
<1> QED
  BY <1>3

LEMMA MinIs ==
    ASSUME NEW S, S \subseteq Int, NEW m \in S, \A y \in S : m <= y
    PROVE  Min(S) = m
<1>1. \E x \in S : \A y \in S : x <= y
  OBVIOUS
<1>2. Min(S) \in S /\ \A y \in S : Min(S) <= y
  BY <1>1 DEF Min
<1>3. Min(S) >= m /\ Min(S) <= m /\ Min(S) \in Int
  BY <1>2
<1> QED
  BY <1>3

\* A loop of n turns over values of V.
LEMMA LoopExists ==
    ASSUME NEW V, NEW base \in V, NEW n \in Nat, NEW turn \in [1 .. n -> [V -> V]]
    PROVE  \E f : f = [i \in 0 .. n |-> IF i = 0 THEN base ELSE turn[i][f[i - 1]]] /\ f \in [0 .. n -> V]
<1> DEFINE Law(f, m) == /\ f = [i \in 0 .. m |-> IF i = 0 THEN base ELSE turn[i][f[i - 1]]]
                        /\ f \in [0 .. m -> V]
           T == {m \in Nat : \E f : Law(f, m)}
<1>1. 0 \in T
  <2> DEFINE f == [i \in 0 .. 0 |-> base]
  <2>1. Law(f, 0)
    OBVIOUS
  <2> QED
    BY <2>1
<1>2. ASSUME NEW m \in 0 .. n, m \in T, m < n PROVE m + 1 \in T
  <2>1. PICK f : Law(f, m)
    BY <1>2
  <2>2. m + 1 \in 1 .. n /\ f[m] \in V
    BY <1>2, <2>1
  <2> DEFINE last == turn[m + 1][f[m]]
             g == [i \in 0 .. m + 1 |-> IF i = m + 1 THEN last ELSE f[i]]
  <2>3. last \in V
    BY <2>2
  <2>4. \A i \in 0 .. m : g[i] = f[i] /\ f[i] \in V
    BY <2>1
  <2>5. g[m + 1] = last
    OBVIOUS
  <2>6. ASSUME NEW i \in 0 .. m + 1
        PROVE  g[i] = IF i = 0 THEN base ELSE turn[i][g[i - 1]]
    <3>1. CASE i = m + 1
      <4>1. i # 0 /\ i - 1 = m /\ g[i - 1] = f[m]
        BY <2>4, <3>1
      <4> QED
        BY <2>5, <3>1, <4>1
    <3>2. CASE i # m + 1
      <4>1. i \in 0 .. m /\ g[i] = f[i]
        BY <2>4, <3>2
      <4>2. f[i] = IF i = 0 THEN base ELSE turn[i][f[i - 1]]
        BY <2>1, <4>1
      <4>3. i # 0 => i - 1 \in 0 .. m /\ g[i - 1] = f[i - 1]
        BY <2>4, <4>1
      <4> QED
        BY <4>1, <4>2, <4>3
    <3> QED
      BY <3>1, <3>2
  <2>7. g \in [0 .. m + 1 -> V]
    <3>1. \A i \in 0 .. m + 1 : i = m + 1 \/ i \in 0 .. m
      BY <1>2
    <3>2. \A i \in 0 .. m + 1 : g[i] \in V
      BY <2>3, <2>4, <2>5, <3>1
    <3> QED
      BY <3>2
  <2>8. g = [i \in 0 .. m + 1 |-> g[i]]
    OBVIOUS
  <2> HIDE DEF g
  <2>9. Law(g, m + 1)
    BY <2>6, <2>7, <2>8
  <2> HIDE DEF Law
  <2> QED
    BY <2>9
<1> HIDE DEF T
<1>3. n \in T
  <2>1. \A k \in 0 .. n : k \in T
    BY <1>1, <1>2, UpTo
  <2> QED
    BY <2>1
<1> QED
  BY <1>3 DEF T

\* What a filter leaves: some of the sequence, in its places apart.
KeptSome(s, seq, hits, n) ==
    /\ Len(s) <= n
    /\ \A i \in 1 .. Len(s) : \E k \in 1 .. n : k \in hits /\ s[i] = seq[k]
    /\ \A k \in 1 .. n : k \in hits => \E i \in 1 .. Len(s) : s[i] = seq[k]
    /\ \A i, j \in 1 .. Len(s) : i # j =>
           \E k, l \in 1 .. n : k # l /\ k \in hits /\ l \in hits /\ s[i] = seq[k] /\ s[j] = seq[l]

LEMMA KeptIs ==
    ASSUME NEW S, NEW seq \in Seq(S), NEW hits
    PROVE  Kept(seq, hits) \in Seq(S) /\ KeptSome(Kept(seq, hits), seq, hits, Len(seq))
<1> DEFINE n == Len(seq)
           V == Seq(S)
           turn == [i \in 1 .. n |-> [v \in V |-> IF i \in hits THEN Append(v, seq[i]) ELSE v]]
           Law(f) == f = [i \in 0 .. n |-> IF i = 0 THEN <<>>
                                          ELSE IF i \in hits THEN Append(f[i - 1], seq[i]) ELSE f[i - 1]]
           loop == CHOOSE f : Law(f)
<1>1. n \in Nat /\ \A i \in 1 .. n : seq[i] \in S
  OBVIOUS
<1>2. \E f : Law(f)
  <2>1. turn \in [1 .. n -> [V -> V]]
    BY <1>1
  <2>2. <<>> \in V
    OBVIOUS
  <2>3. PICK f : f = [i \in 0 .. n |-> IF i = 0 THEN <<>> ELSE turn[i][f[i - 1]]] /\ f \in [0 .. n -> V]
    <3> HIDE DEF turn, V, n
    <3> QED
      BY <1>1, <2>1, <2>2, LoopExists, ZenonT(60)
  <2>4. ASSUME NEW i \in 0 .. n, i # 0 PROVE i \in 1 .. n /\ f[i - 1] \in V
    <3>1. i \in 1 .. n /\ i - 1 \in 0 .. n
      BY <1>1, <2>4
    <3> QED
      BY <2>3, <3>1
  <2>5. \A i \in 1 .. n, v \in V : turn[i][v] = IF i \in hits THEN Append(v, seq[i]) ELSE v
    OBVIOUS
  <2> HIDE DEF turn, V, n
  <2>6. ASSUME NEW i \in 0 .. n
        PROVE  f[i] = IF i = 0 THEN <<>>
                      ELSE IF i \in hits THEN Append(f[i - 1], seq[i]) ELSE f[i - 1]
    BY <2>3, <2>4, <2>5
  <2>7. f = [i \in 0 .. n |-> f[i]]
    BY <2>3
  <2>8. Law(f)
    BY <2>6, <2>7
  <2> QED
    BY <2>8
<1>3. Law(loop)
  BY <1>2
<1>4. Kept(seq, hits) = loop[n]
  BY DEF Kept
<1> HIDE DEF loop
<1> DEFINE T == {i \in Nat : loop[i] \in V /\ KeptSome(loop[i], seq, hits, i)}
<1>5. 0 \in T
  <2>1. loop[0] = <<>>
    BY <1>1, <1>3
  <2>2. <<>> \in V /\ Len(<<>>) = 0
    OBVIOUS
  <2> HIDE DEF V
  <2> QED
    BY <2>1, <2>2 DEF KeptSome
<1>6. ASSUME NEW m \in 0 .. n, m \in T, m < n PROVE m + 1 \in T
  <2>1. loop[m + 1] = IF m + 1 \in hits THEN Append(loop[m], seq[m + 1]) ELSE loop[m]
    <3>1. m + 1 \in 0 .. n /\ m + 1 # 0 /\ (m + 1) - 1 = m
      BY <1>1, <1>6
    <3> QED
      BY <1>3, <3>1
  <2>2. loop[m] \in Seq(S) /\ KeptSome(loop[m], seq, hits, m)
    BY <1>6
  <2>3. CASE m + 1 \in hits
    <3> DEFINE s == loop[m]
               r == Append(s, seq[m + 1])
    <3>1. s \in Seq(S) /\ seq[m + 1] \in S /\ Len(s) \in Nat /\ m \in Nat
      BY <1>1, <1>6, <2>2
    <3>2. r \in Seq(S) /\ Len(r) = Len(s) + 1 /\ r[Len(s) + 1] = seq[m + 1]
      BY <3>1
    <3>3. \A i \in 1 .. Len(s) : r[i] = s[i]
      BY <3>1
    <3>4. \A i \in 1 .. Len(r) : i \in 1 .. Len(s) \/ i = Len(s) + 1
      BY <3>1, <3>2
    <3>5. \A i \in 1 .. m : i \in 1 .. m + 1 /\ i # m + 1
      BY <3>1
    <3>6. m + 1 \in 1 .. m + 1 /\ \A i \in 1 .. Len(s) : i \in 1 .. Len(r)
      BY <3>1, <3>2
    <3>7. \A k \in 1 .. m + 1 : k \in 1 .. m \/ k = m + 1
      BY <3>1
    <3>8. Len(s) + 1 \in 1 .. Len(r)
      BY <3>1, <3>2
    <3> HIDE DEF s, r
    <3>9. KeptSome(s, seq, hits, m)
      BY <2>2 DEF s
    <3>10. Len(r) <= m + 1
      BY <3>1, <3>2, <3>9 DEF KeptSome
    <3>11. ASSUME NEW i \in 1 .. Len(r) PROVE \E k \in 1 .. m + 1 : k \in hits /\ r[i] = seq[k]
      <4>1. CASE i \in 1 .. Len(s)
        <5>1. PICK k \in 1 .. m : k \in hits /\ s[i] = seq[k]
          BY <3>9, <4>1 DEF KeptSome
        <5> QED
          BY <3>3, <3>5, <4>1, <5>1
      <4>2. CASE i = Len(s) + 1
        BY <2>3, <3>2, <3>6, <4>2
      <4> QED
        BY <3>4, <4>1, <4>2
    <3>12. \A k \in 1 .. m + 1 : k \in hits => \E i \in 1 .. Len(r) : r[i] = seq[k]
      BY <3>2, <3>3, <3>6, <3>7, <3>8, <3>9 DEF KeptSome
    <3>13. ASSUME NEW i \in 1 .. Len(r), NEW j \in 1 .. Len(r), i # j
           PROVE  \E k, l \in 1 .. m + 1 : k # l /\ k \in hits /\ l \in hits /\ r[i] = seq[k] /\ r[j] = seq[l]
      <4>1. CASE i \in 1 .. Len(s) /\ j \in 1 .. Len(s)
        <5>1. PICK k \in 1 .. m, l \in 1 .. m :
                  k # l /\ k \in hits /\ l \in hits /\ s[i] = seq[k] /\ s[j] = seq[l]
          BY <3>9, <3>13, <4>1 DEF KeptSome
        <5> QED
          BY <3>3, <3>5, <4>1, <5>1
      <4>2. CASE i \in 1 .. Len(s) /\ j = Len(s) + 1
        <5>1. PICK k \in 1 .. m : k \in hits /\ s[i] = seq[k]
          BY <3>9, <4>2 DEF KeptSome
        <5>2. r[i] = seq[k] /\ r[j] = seq[m + 1] /\ k # m + 1 /\ k \in 1 .. m + 1
          BY <3>2, <3>3, <3>5, <4>2, <5>1
        <5> QED
          BY <2>3, <3>6, <5>1, <5>2
      <4>3. CASE j \in 1 .. Len(s) /\ i = Len(s) + 1
        <5>1. PICK k \in 1 .. m : k \in hits /\ s[j] = seq[k]
          BY <3>9, <4>3 DEF KeptSome
        <5>2. r[j] = seq[k] /\ r[i] = seq[m + 1] /\ k # m + 1 /\ k \in 1 .. m + 1
          BY <3>2, <3>3, <3>5, <4>3, <5>1
        <5> QED
          BY <2>3, <3>6, <5>1, <5>2
      <4> QED
        BY <3>4, <3>13, <4>1, <4>2, <4>3
    <3>14. KeptSome(r, seq, hits, m + 1)
      BY <3>10, <3>11, <3>12, <3>13 DEF KeptSome
    <3>15. loop[m + 1] = r
      BY <2>1, <2>3 DEF r, s
    <3> QED
      BY <3>1, <3>2, <3>14, <3>15
  <2>4. CASE m + 1 \notin hits
    <3>1. loop[m + 1] = loop[m]
      BY <2>1, <2>4
    <3>2. \A i \in 1 .. m : i \in 1 .. m + 1
      OBVIOUS
    <3>3. \A k \in 1 .. m + 1 : k \in hits => k \in 1 .. m
      BY <2>4
    <3>4. Len(loop[m]) <= m + 1
      BY <2>2 DEF KeptSome
    <3>5. KeptSome(loop[m], seq, hits, m + 1)
      BY <2>2, <3>2, <3>3, <3>4 DEF KeptSome
    <3> QED
      BY <2>2, <3>1, <3>5
  <2> QED
    BY <2>3, <2>4
<1> HIDE DEF T
<1>7. n \in T
  <2> HIDE DEF n
  <2>1. \A k \in 0 .. n : k \in T
    BY <1>1, <1>5, <1>6, UpTo
  <2> QED
    BY <1>1, <2>1
<1> QED
  BY <1>4, <1>7 DEF T

-----------------------------------------------------------------------------
(* The atlas of labels (LabelAtlas).                                       *)


Atlas ==
    [sprites : SUBSET [text : Text, x : Nat, y : Nat, w : Nat, h : Nat],
     x : Nat, y : Nat, row : Nat]

\* A sprite is out of the way of the cursor of a.
Behind(s, a) ==
    \/ s.y + s.h <= a.y
    \/ s.y = a.y /\ s.x + s.w <= a.x /\ s.h <= a.row

Packed(a) ==
    /\ a \in Atlas
    /\ \A s \in a.sprites : s.x + s.w <= Size /\ s.y + s.h <= Size /\ Behind(s, a)
    /\ \A r, s \in a.sprites : r # s => Apart(r, s) /\ r.text # s.text

-----------------------------------------------------------------------------
\* A new shelf lies below every sprite (_atlasSprite, the row break).
LEMMA ShelvedPacked ==
    ASSUME NEW a, Packed(a), NEW t \in Text
    PROVE  Packed(Shelved(a, t))
<1>1. CASE a.x + Width[t] > Size
  <2> DEFINE b == [sprites |-> a.sprites, x |-> 0, y |-> a.y + a.row, row |-> 0]
  <2>1. Shelved(a, t) = b
    BY <1>1 DEF Shelved
  <2>2. a \in Atlas
    BY DEF Packed
  <2>3. b \in Atlas /\ b.sprites = a.sprites /\ b.y = a.y + a.row
    BY <2>2 DEF Atlas
  <2>4. ASSUME NEW s \in a.sprites PROVE s.y + s.h <= a.y + a.row
    <3>1. s \in [text : Text, x : Nat, y : Nat, w : Nat, h : Nat] /\ a.y \in Nat /\ a.row \in Nat
      BY <2>2 DEF Atlas
    <3> QED BY <3>1 DEF Packed, Behind
  <2> HIDE DEF b
  <2>5. Packed(b)
    BY <2>3, <2>4 DEF Packed, Behind
  <2> QED BY <2>1, <2>5
<1>2. CASE ~ (a.x + Width[t] > Size)
  BY <1>2 DEF Shelved
<1> QED BY <1>1, <1>2

\* A wiped atlas is packed, and so is the one that was not full.
LEMMA WipedPacked ==
    ASSUME NEW a, Packed(a), NEW t \in Text
    PROVE  Packed(WipedWhenFull(a, t))
<1>1. Packed(NoSprites)
  BY DEF Packed, NoSprites, Atlas
<1> QED BY <1>1 DEF WipedWhenFull

\* After the row break and the wipe the sprite fits at the cursor: it starts
\* at the left edge or has been found to fit, and an empty canvas is higher
\* than any line of text.
LEMMA Fits ==
    ASSUME NEW a, Packed(a), NEW t \in Text, ~ (Width[t] > Size)
    PROVE  LET b == WipedWhenFull(Shelved(a, t), t)
           IN  b.x + Width[t] <= Size /\ b.y + Height[t] <= Size
<1> DEFINE c == Shelved(a, t)
<1>1. Width[t] \in Nat /\ Height[t] \in Nat /\ Size \in Nat /\ Height[t] <= Size
  BY AtlasAssumption
<1>2. a.x \in Nat /\ a.y \in Nat /\ a.row \in Nat /\ a \in Atlas
  BY DEF Packed, Atlas
<1>3. c.x \in Nat /\ c.y \in Nat /\ c.x + Width[t] <= Size
  <2>1. CASE a.x + Width[t] > Size
    BY <1>1, <1>2, <2>1 DEF Shelved, Atlas
  <2>2. CASE ~ (a.x + Width[t] > Size)
    BY <1>1, <1>2, <2>2 DEF Shelved
  <2> QED BY <2>1, <2>2
<1> HIDE DEF c
<1>4. CASE c.y + Height[t] > Size
  BY <1>1, <1>4 DEF WipedWhenFull, NoSprites, c
<1>5. CASE ~ (c.y + Height[t] > Size)
  <2>1. WipedWhenFull(c, t) = c
    BY <1>5 DEF WipedWhenFull
  <2> QED BY <1>1, <1>3, <1>5, <2>1 DEF c
<1> QED BY <1>4, <1>5

\* A sprite put at the cursor touches none of those behind it.
LEMMA PutPacked ==
    ASSUME NEW a, Packed(a), NEW t \in Text, SpriteOf(a, t) = {},
           a.x + Width[t] <= Size, a.y + Height[t] <= Size
    PROVE  Packed(Put(a, t))
<1> DEFINE n == [text |-> t, x |-> a.x, y |-> a.y, w |-> Width[t], h |-> Height[t]]
           b == Put(a, t)
           Sprite == [text : Text, x : Nat, y : Nat, w : Nat, h : Nat]
<1>1. Width[t] \in Nat /\ Height[t] \in Nat /\ Size \in Nat
  BY AtlasAssumption
<1>2. a.x \in Nat /\ a.y \in Nat /\ a.row \in Nat /\ a.sprites \in SUBSET Sprite
  BY DEF Packed, Atlas
<1>3. n \in Sprite
  BY <1>1, <1>2
<1>4. Higher(a.row, Height[t]) \in Nat /\ Higher(a.row, Height[t]) >= a.row
      /\ Higher(a.row, Height[t]) >= Height[t]
  BY <1>1, <1>2 DEF Higher
<1>5. b.sprites = a.sprites \cup {n} /\ b.x = a.x + Width[t] /\ b.y = a.y
      /\ b.row = Higher(a.row, Height[t])
  BY DEF Put
<1>6. b \in Atlas
  BY <1>1, <1>2, <1>3, <1>4 DEF Put, Atlas
<1>7. n.x = a.x /\ n.y = a.y /\ n.w = Width[t] /\ n.h = Height[t] /\ n.text = t
  OBVIOUS
<1> HIDE DEF n, b
<1>8. ASSUME NEW s \in b.sprites
      PROVE  s.x + s.w <= Size /\ s.y + s.h <= Size /\ Behind(s, b)
  <2>1. CASE s = n
    BY <1>1, <1>2, <1>4, <1>5, <1>7, <2>1 DEF Behind
  <2>2. CASE s \in a.sprites
    <3>1. s \in Sprite
      BY <1>2, <2>2
    <3>2. s.x + s.w <= Size /\ s.y + s.h <= Size /\ Behind(s, a)
      BY <2>2 DEF Packed
    <3> QED BY <1>1, <1>2, <1>4, <1>5, <3>1, <3>2 DEF Behind
  <2> QED BY <1>5, <2>1, <2>2
<1>9. ASSUME NEW s \in a.sprites PROVE Apart(s, n) /\ Apart(n, s) /\ s.text # n.text
  <2>1. s \in Sprite /\ Behind(s, a)
    BY <1>2 DEF Packed
  <2>2. s.text # t
    BY DEF SpriteOf
  <2>3. s.y + s.h <= n.y \/ s.x + s.w <= n.x
    BY <1>7, <2>1 DEF Behind
  <2> QED BY <1>7, <2>2, <2>3 DEF Apart
<1>10. ASSUME NEW r \in b.sprites, NEW s \in b.sprites, r # s
       PROVE  Apart(r, s) /\ r.text # s.text
  <2>1. CASE r \in a.sprites /\ s \in a.sprites
    BY <1>10, <2>1 DEF Packed
  <2>2. CASE r \in a.sprites /\ s = n
    BY <1>9, <2>2
  <2>3. CASE r = n /\ s \in a.sprites
    BY <1>9, <2>3
  <2> QED BY <1>5, <1>10, <2>1, <2>2, <2>3
<1> QED BY <1>6, <1>8, <1>10 DEF Packed, b

-----------------------------------------------------------------------------
\* The atlas is packed after every call of _atlasSprite.
LEMMA AskedPacked ==
    ASSUME NEW a, Packed(a), NEW t \in Text
    PROVE  Packed(Asked(a, t))
<1>1. CASE SpriteOf(a, t) # {} \/ Width[t] > Size
  BY <1>1 DEF Asked
<1>2. CASE ~ (SpriteOf(a, t) # {} \/ Width[t] > Size)
  <2> DEFINE b == WipedWhenFull(Shelved(a, t), t)
  <2>1. Packed(b)
    BY ShelvedPacked, WipedPacked
  <2>2. b.x + Width[t] <= Size /\ b.y + Height[t] <= Size
    BY <1>2, Fits
  <2>3. SpriteOf(b, t) = {}
    <3>1. Shelved(a, t).sprites = a.sprites
      BY DEF Shelved, Packed, Atlas
    <3>2. b.sprites = a.sprites \/ b.sprites = {}
      BY <3>1 DEF WipedWhenFull, NoSprites
    <3> QED BY <1>2, <3>2 DEF SpriteOf
  <2>4. Asked(a, t) = Put(b, t)
    BY <1>2 DEF Asked
  <2> HIDE DEF b
  <2> QED BY <2>1, <2>2, <2>3, <2>4, PutPacked
<1> QED BY <1>1, <1>2

\* The invariant of the atlas: its sprites lie behind the cursor.
THEOREM AtlasPacked == AtlasSpec => []Packed(atlas)
<1>1. AtlasInit => Packed(atlas)
  BY DEF AtlasInit, Packed, NoSprites, Atlas
<1>2. Packed(atlas) /\ [AtlasNext]_atlas => Packed(atlas)'
  <2> SUFFICES ASSUME Packed(atlas), [AtlasNext]_atlas PROVE Packed(atlas')
    OBVIOUS
  <2>1. CASE AtlasNext
    BY <2>1, AskedPacked DEF AtlasNext
  <2>2. CASE atlas' = atlas
    BY <2>2
  <2> QED BY <2>1, <2>2
<1> QED BY <1>1, <1>2, PTL DEF AtlasSpec

\* Every variable of the atlas stays in its type.
THEOREM AtlasTyped == AtlasSpec => []AtlasTypeOK
<1>1. Packed(atlas) => AtlasTypeOK
  BY DEF Packed, Atlas, AtlasTypeOK
<1> QED BY <1>1, AtlasPacked, PTL

\* No label ever shows a part of another one: the sprites that _atlasSprite
\* hands out lie within the canvas and apart, for every set of texts, every
\* extent of theirs and every size of the canvas.
THEOREM SpritesNeverOverlap == AtlasSpec => []SpritesApart
<1>1. Packed(atlas) => SpritesApart
  BY DEF Packed, SpritesApart
<1> QED BY <1>1, AtlasPacked, PTL

\* The labels of a frame are asked for one by one.
LEMMA AskedAllPacked ==
    ASSUME NEW a, Packed(a), NEW texts \in Seq(Text)
    PROVE  Packed(AskedAll(a, texts))
<1> DEFINE n == Len(texts)
           V == {b \in Atlas : Packed(b)}
           turn == [i \in 1 .. n |-> [b \in V |-> Asked(b, texts[i])]]
           Law(f) == f = [i \in 0 .. n |-> IF i = 0 THEN a ELSE Asked(f[i - 1], texts[i])]
           after == CHOOSE f : Law(f)
<1>1. n \in Nat /\ \A i \in 1 .. n : texts[i] \in Text
  OBVIOUS
<1>2. a \in V
  BY DEF Packed
<1>3. ASSUME NEW b \in V, NEW i \in 1 .. n PROVE Asked(b, texts[i]) \in V
  <2>1. Packed(Asked(b, texts[i]))
    BY <1>1, AskedPacked
  <2> QED
    BY <2>1 DEF Packed
<1>4. \E f : Law(f)
  <2>1. turn \in [1 .. n -> [V -> V]]
    BY <1>3
  <2>2. \A i \in 1 .. n, b \in V : turn[i][b] = Asked(b, texts[i])
    OBVIOUS
  <2> HIDE DEF turn, V, n
  <2>3. PICK f : f = [i \in 0 .. n |-> IF i = 0 THEN a ELSE turn[i][f[i - 1]]] /\ f \in [0 .. n -> V]
    BY <1>1, <1>2, <2>1, LoopExists, ZenonT(60)
  <2>4. ASSUME NEW i \in 0 .. n, i # 0 PROVE i \in 1 .. n /\ f[i - 1] \in V
    <3>1. i \in 1 .. n /\ i - 1 \in 0 .. n
      BY <1>1, <2>4
    <3> QED
      BY <2>3, <3>1
  <2>5. ASSUME NEW i \in 0 .. n PROVE f[i] = IF i = 0 THEN a ELSE Asked(f[i - 1], texts[i])
    BY <2>2, <2>3, <2>4
  <2>6. f = [i \in 0 .. n |-> f[i]]
    BY <2>3
  <2>7. Law(f)
    BY <2>5, <2>6
  <2> QED
    BY <2>7
<1>5. Law(after)
  BY <1>4
<1>6. AskedAll(a, texts) = after[n]
  BY DEF AskedAll
<1> HIDE DEF after
<1> DEFINE T == {i \in Nat : after[i] \in V}
<1>7. 0 \in T
  BY <1>1, <1>2, <1>5
<1>8. ASSUME NEW m \in 0 .. n, m \in T, m < n PROVE m + 1 \in T
  <2>1. m + 1 \in 0 .. n /\ m + 1 \in 1 .. n /\ m + 1 # 0 /\ (m + 1) - 1 = m
    BY <1>1, <1>8
  <2>2. after[m + 1] = Asked(after[m], texts[m + 1])
    BY <1>5, <2>1
  <2> QED
    BY <1>3, <1>8, <2>1, <2>2
<1>9. n \in T
  <2> HIDE DEF n, T
  <2>1. \A k \in 0 .. n : k \in T
    BY <1>1, <1>7, <1>8, UpTo
  <2> QED
    BY <1>1, <2>1
<1> QED
  BY <1>6, <1>9

LEMMA SequenceOf ==
    ASSUME NEW S, IsFiniteSet(S)
    PROVE  SetToSeq(S) \in Seq(S)
<1>1. Cardinality(S) \in Nat /\ \E f \in Bijection(1 .. Cardinality(S), S) : TRUE
  BY FS_NatBijection, FS_CardinalityType, FS_CountingElements DEF ExistsBijection
<1>2. \E f \in [1 .. Cardinality(S) -> S] : IsInjective(f)
  BY <1>1 DEF Bijection, Injection, IsInjective
<1>3. SetToSeq(S) \in [1 .. Cardinality(S) -> S]
  BY <1>2 DEF SetToSeq
<1> QED
  BY <1>1, <1>3

-----------------------------------------------------------------------------
(* The WebGL renderer (GLScene): bodies, flags and buffers.                *)

Bodies == [Node -> [pos : Pos, value : Value] \cup {None}]

\* The bodies, the selection and the sizes.
SceneOK ==
    /\ body \in Bodies
    /\ links \subseteq Edge /\ \A e \in links : From[e] \in Here /\ To[e] \in Here
    /\ size = Sizes(body, range)
    /\ dirty \subseteq All /\ queued \in BOOLEAN /\ selected \in Node \cup {None}

\* What the buffers know: all that is not dirty is as the bodies say, and what is dirty
\* waits for a frame unless there is nothing to draw.
BuffersOK ==
    /\ "nodes" \notin dirty =>
           /\ DOMAIN nodeBuf.of = Here
           /\ \A n \in Here : /\ nodeBuf.of[n].size = size[n]
                              /\ "nodes" \in bare[n] \/ nodeBuf.of[n].pos = body[n].pos
    /\ "edges" \notin dirty =>
           /\ DOMAIN edgeBuf.ends = links
           /\ \A e \in links : \A n \in {From[e], To[e]} :
                  "edges" \in bare[n] \/ body[n].pos \in Range(edgeBuf.ends[e])
    /\ "hit" \notin dirty =>
           \A n \in Here : "hit" \in bare[n] \/ (n \in DOMAIN grid /\ grid[n] = body[n].pos)
    /\ ~queued => /\ "nodes" \notin dirty \/ Here = {}
                  /\ links = {} \/ ("edges" \notin dirty /\ edgeBuf.scale = scale)

\* A size depends on values alone.
LEMMA SizesByValue ==
    ASSUME NEW b \in Bodies, NEW c \in Bodies, NEW r,
           \A n \in Node : /\ b[n] = None <=> c[n] = None
                           /\ b[n] # None => b[n].value = c[n].value
    PROVE  Sizes(b, r) = Sizes(c, r)
<1>1. {m \in Node : b[m] # None} = {m \in Node : c[m] # None}
  OBVIOUS
<1>2. {b[n].value : n \in {m \in Node : b[m] # None}} = {c[n].value : n \in {m \in Node : c[m] # None}}
  BY <1>1
<1>3. Spread(b, r) = Spread(c, r)
  BY <1>2 DEF Spread
<1>4. \A n \in Node : (IF b[n] = None THEN 0 ELSE SizeOf(b[n].value, Spread(b, r)))
                      = IF c[n] = None THEN 0 ELSE SizeOf(c[n].value, Spread(c, r))
  BY <1>3
<1> QED
  BY <1>4 DEF Sizes

\* Moving a node changes neither who is there nor the sizes.
LEMMA MovedBody ==
    ASSUME SceneOK, NEW n \in Here, NEW p \in Pos, body' = [body EXCEPT ![n].pos = p]
    PROVE  /\ body' \in Bodies /\ Here' = Here
           /\ \A r : Sizes(body', r) = Sizes(body, r)
           /\ \A m \in Node : m # n => body'[m] = body[m]
<1>1. body \in Bodies /\ n \in Node /\ body[n] \in [pos : Pos, value : Value]
  BY DEF SceneOK, Here, Bodies
<1>2. /\ body'[n] \in [pos : Pos, value : Value] /\ body'[n].value = body[n].value
      /\ \A m \in Node : m # n => body'[m] = body[m]
      /\ DOMAIN body' = Node
  BY <1>1 DEF Bodies
<1>3. body' \in Bodies
  BY <1>1, <1>2 DEF Bodies
<1>4. body[n] # None /\ body'[n] # None
  BY <1>1, <1>2, SceneAssumption
<1>5. Here' = Here
  BY <1>2, <1>4 DEF Here
<1>6. \A m \in Node : /\ body'[m] = None <=> body[m] = None
                      /\ body'[m] # None => body'[m].value = body[m].value
  BY <1>2, <1>4
<1>7. \A r : Sizes(body', r) = Sizes(body, r)
  BY <1>1, <1>3, <1>6, SizesByValue
<1> QED
  BY <1>2, <1>3, <1>5, <1>7

\* A turn of the app: what arrives or is restyled is marked, and a restyle that moves a
\* node leaves it unknown to what it does not mark.
LEMMA TurnKeeps == ASSUME SceneOK, BuffersOK, Turn PROVE SceneOK' /\ BuffersOK'
<1>1. PICK b \in Bodies, l \in SUBSET Edge :
         /\ b # body \/ l # links
         /\ \A e \in l : b[From[e]] # None /\ b[To[e]] # None
         /\ body' = b /\ links' = l
         /\ size' = IF b # body THEN Sizes(b, range) ELSE size
         /\ dirty' = dirty \cup ((IF b # body THEN NodeEventMarks ELSE {})
                                 \cup (IF l # links THEN EdgeEventMarks ELSE {}))
         /\ queued' = TRUE
         /\ bare' = [n \in Node |-> IF b[n] = None THEN {}
                ELSE Left({m \in Here : b[m] # None /\ b[m].pos # body[m].pos},
                          (IF b # body THEN NodeEventMarks ELSE {})
                          \cup (IF l # links THEN EdgeEventMarks ELSE {}))[n]]
         /\ UNCHANGED <<range, selected, nodeBuf, edgeBuf, grid>>
  BY DEF Turn, Bodies, drawn
<1>2. \A e \in Edge : From[e] \in Node /\ To[e] \in Node
  BY SceneAssumption
<1>3. SceneOK'
  <2>1. \A e \in links' : From[e] \in Here' /\ To[e] \in Here'
    BY <1>1, <1>2 DEF Here
  <2>2. size' = Sizes(body', range')
    BY <1>1 DEF SceneOK
  <2>3. dirty' \subseteq All
    BY <1>1 DEF SceneOK, NodeEventMarks, EdgeEventMarks, All
  <2> QED
    BY <1>1, <2>1, <2>2, <2>3 DEF SceneOK
<1>4. ASSUME NEW n \in Here, n \in Here'
      PROVE  /\ bare[n] \subseteq bare'[n]
             /\ \/ body'[n].pos = body[n].pos
                \/ "edges" \in dirty' \/ "edges" \in bare'[n]
  <2>1. n \in Node /\ body'[n] # None /\ body[n] # None
    BY <1>4 DEF Here
  <2>2. CASE body'[n].pos = body[n].pos
    BY <1>1, <2>1, <2>2 DEF Left
  <2>3. CASE body'[n].pos # body[n].pos
    <3>1. bare'[n] = bare[n] \cup (All \ ((IF body' # body THEN NodeEventMarks ELSE {})
                                         \cup (IF links' # links THEN EdgeEventMarks ELSE {})))
      BY <1>1, <1>4, <2>1, <2>3 DEF Left
    <3>2. CASE links' # links
      BY <1>1, <3>1, <3>2 DEF EdgeEventMarks
    <3>3. CASE links' = links
      BY <3>1, <3>3 DEF All, NodeEventMarks
    <3> QED
      BY <3>2, <3>3
  <2> QED
    BY <2>2, <2>3
<1>5. "nodes" \notin dirty' => "nodes" \notin dirty /\ body' = body /\ size' = size /\ Here' = Here
  BY <1>1 DEF NodeEventMarks, Here
<1>6. "hit" \notin dirty' => "hit" \notin dirty /\ body' = body /\ Here' = Here
  BY <1>1 DEF NodeEventMarks, Here
<1>7. "edges" \notin dirty' => "edges" \notin dirty /\ links' = links
  BY <1>1 DEF EdgeEventMarks
<1>8. \A e \in links : e \in links' => \A n \in {From[e], To[e]} : n \in Here /\ n \in Here'
  BY <1>3 DEF SceneOK
<1>9. "nodes" \notin dirty' =>
         /\ DOMAIN nodeBuf'.of = Here'
         /\ \A n \in Here' : /\ nodeBuf'.of[n].size = size'[n]
                             /\ "nodes" \in bare'[n] \/ nodeBuf'.of[n].pos = body'[n].pos
  BY <1>1, <1>4, <1>5 DEF BuffersOK, Here
<1>10. "edges" \notin dirty' =>
         /\ DOMAIN edgeBuf'.ends = links'
         /\ \A e \in links' : \A n \in {From[e], To[e]} :
                "edges" \in bare'[n] \/ body'[n].pos \in Range(edgeBuf'.ends[e])
  <2> SUFFICES ASSUME "edges" \notin dirty'
               PROVE  /\ DOMAIN edgeBuf.ends = links
                      /\ \A e \in links : \A n \in {From[e], To[e]} :
                             "edges" \in bare'[n] \/ body'[n].pos \in Range(edgeBuf.ends[e])
    BY <1>1, <1>7
  <2>1. ASSUME NEW e \in links, NEW n \in {From[e], To[e]}
        PROVE  "edges" \in bare'[n] \/ body'[n].pos \in Range(edgeBuf.ends[e])
    <3>1. "edges" \in bare[n] \/ body[n].pos \in Range(edgeBuf.ends[e])
      BY <1>7, <2>1 DEF BuffersOK
    <3>2. n \in Here /\ n \in Here'
      BY <1>7, <1>8, <2>1
    <3> QED
      BY <1>4, <3>1, <3>2
  <2> QED
    BY <1>7, <2>1 DEF BuffersOK
<1>11. "hit" \notin dirty' =>
         \A n \in Here' : "hit" \in bare'[n] \/ (n \in DOMAIN grid' /\ grid'[n] = body'[n].pos)
  BY <1>1, <1>4, <1>6 DEF BuffersOK, Here
<1> QED
  BY <1>1, <1>3, <1>9, <1>10, <1>11 DEF BuffersOK

\* A node eases to a place: all three kinds of buffers are marked.
LEMMA EaseKeeps ==
    ASSUME SceneOK, BuffersOK, NEW n \in Node, NEW p \in Pos, Ease(n, p)
    PROVE  SceneOK' /\ BuffersOK'
<1>1. /\ n \in Here /\ body' = [body EXCEPT ![n].pos = p]
      /\ dirty' = dirty \cup All /\ queued' = TRUE
      /\ UNCHANGED <<links, range, size, selected>>
  BY DEF Ease, MarkSceneDirty, Marks
<1>2. body' \in Bodies /\ Here' = Here /\ Sizes(body', range) = Sizes(body, range)
  BY <1>1, MovedBody
<1>3. "nodes" \in dirty' /\ "edges" \in dirty' /\ "hit" \in dirty' /\ dirty' \subseteq All
  BY <1>1 DEF All, SceneOK
<1>4. SceneOK'
  BY <1>1, <1>2, <1>3 DEF SceneOK
<1> QED
  BY <1>1, <1>3, <1>4 DEF BuffersOK

\* A node is moved by a bare redraw: every kind of buffer is left without it.
LEMMA SnapKeeps ==
    ASSUME SceneOK, BuffersOK, NEW n \in Node, NEW p \in Pos, Snap(n, p)
    PROVE  SceneOK' /\ BuffersOK'
<1>1. /\ n \in Here /\ body' = [body EXCEPT ![n].pos = p]
      /\ queued' = TRUE /\ bare' = Left({n}, {})
      /\ UNCHANGED <<links, range, size, selected, nodeBuf, edgeBuf, grid, dirty>>
  BY DEF Snap, drawn
<1>2. /\ body' \in Bodies /\ Here' = Here /\ Sizes(body', range) = Sizes(body, range)
      /\ \A m \in Node : m # n => body'[m] = body[m]
  BY <1>1, MovedBody
<1>3. \A m \in Node : bare'[m] = IF m = n THEN bare[m] \cup All ELSE bare[m]
  BY <1>1 DEF Left
<1>4. SceneOK'
  BY <1>1, <1>2 DEF SceneOK
<1>5. \A e \in links : From[e] \in Node /\ To[e] \in Node
  BY SceneAssumption DEF SceneOK
<1>6. \A m \in Node : \/ bare'[m] = bare[m] /\ body'[m] = body[m]
                      \/ "nodes" \in bare'[m] /\ "edges" \in bare'[m] /\ "hit" \in bare'[m]
  BY <1>2, <1>3 DEF All
<1>7. \A m \in Here : m \in Node
  BY DEF Here
<1>8. "nodes" \notin dirty' =>
         /\ DOMAIN nodeBuf'.of = Here'
         /\ \A m \in Here' : /\ nodeBuf'.of[m].size = size'[m]
                             /\ "nodes" \in bare'[m] \/ nodeBuf'.of[m].pos = body'[m].pos
  BY <1>1, <1>2, <1>6, <1>7 DEF BuffersOK
<1>9. "edges" \notin dirty' =>
         /\ DOMAIN edgeBuf'.ends = links'
         /\ \A e \in links' : \A m \in {From[e], To[e]} :
                "edges" \in bare'[m] \/ body'[m].pos \in Range(edgeBuf'.ends[e])
  <2>1. ASSUME NEW e \in links, NEW m \in {From[e], To[e]}, "edges" \notin dirty
        PROVE  "edges" \in bare'[m] \/ body'[m].pos \in Range(edgeBuf.ends[e])
    <3>1. "edges" \in bare[m] \/ body[m].pos \in Range(edgeBuf.ends[e])
      BY <2>1 DEF BuffersOK
    <3>2. m \in Node
      BY <1>5, <2>1
    <3> QED
      BY <1>6, <3>1, <3>2
  <2> QED
    BY <1>1, <2>1 DEF BuffersOK
<1>10. "hit" \notin dirty' =>
         \A m \in Here' : "hit" \in bare'[m] \/ (m \in DOMAIN grid' /\ grid'[m] = body'[m].pos)
  BY <1>1, <1>2, <1>6, <1>7 DEF BuffersOK
<1> QED
  BY <1>1, <1>4, <1>8, <1>9, <1>10 DEF BuffersOK

\* setValueRange: the sizes change, and the nodes are marked.
LEMMA RangeKeeps ==
    ASSUME SceneOK, BuffersOK, NEW r, SetValueRange(r)
    PROVE  SceneOK' /\ BuffersOK'
<1>1. /\ range' = r /\ size' = Sizes(body, r)
      /\ dirty' = dirty \cup {"nodes"} /\ queued' = TRUE
      /\ UNCHANGED <<body, links, selected, nodeBuf, edgeBuf, grid, bare>>
  BY DEF SetValueRange, drawn
<1>2. Here' = Here
  BY <1>1 DEF Here
<1>3. SceneOK'
  BY <1>1, <1>2 DEF SceneOK, All
<1> QED
  BY <1>1, <1>2, <1>3 DEF BuffersOK

\* Selections, the camera, flows: a frame is asked for and no body changes.
LEMMA OthersKeep ==
    ASSUME SceneOK, BuffersOK, UNCHANGED <<body, links, range, size, nodeBuf, edgeBuf, grid, bare, dirty>>,
           queued' = TRUE \/ UNCHANGED <<queued, scale>>, selected' \in Node \cup {None}
    PROVE  SceneOK' /\ BuffersOK'
<1>1. Here' = Here
  BY DEF Here
<1>2. SceneOK'
  BY <1>1 DEF SceneOK
<1> QED
  BY <1>1, <1>2 DEF BuffersOK

\* The mouse builds the grid anew.
LEMMA HoverKeeps == ASSUME SceneOK, BuffersOK, Hover PROVE SceneOK' /\ BuffersOK'
<1>1. /\ grid' = [n \in Here |-> body[n].pos]
      /\ dirty' = dirty \ {"hit"}
      /\ bare' = [n \in Node |-> bare[n] \ {"hit"}]
      /\ UNCHANGED <<body, links, range, size, selected, nodeBuf, edgeBuf, queued, scale>>
  BY DEF Hover, bodies, camera
<1>2. Here' = Here /\ \A n \in Here : n \in Node
  BY <1>1 DEF Here
<1>3. SceneOK'
  BY <1>1, <1>2 DEF SceneOK
<1>4. \A e \in links : From[e] \in Node /\ To[e] \in Node
  BY SceneAssumption DEF SceneOK
<1>5. \A n \in Node, k \in {"nodes", "edges"} : (k \in bare'[n] <=> k \in bare[n]) /\ (k \in dirty' <=> k \in dirty)
  BY <1>1
<1>6. \A n \in Here' : n \in DOMAIN grid' /\ grid'[n] = body'[n].pos
  BY <1>1, <1>2
<1>7. "nodes" \notin dirty' =>
         /\ DOMAIN nodeBuf'.of = Here'
         /\ \A n \in Here' : /\ nodeBuf'.of[n].size = size'[n]
                             /\ "nodes" \in bare'[n] \/ nodeBuf'.of[n].pos = body'[n].pos
  BY <1>1, <1>2, <1>5 DEF BuffersOK
<1>8. "edges" \notin dirty' =>
         /\ DOMAIN edgeBuf'.ends = links'
         /\ \A e \in links' : \A n \in {From[e], To[e]} :
                "edges" \in bare'[n] \/ body'[n].pos \in Range(edgeBuf'.ends[e])
  BY <1>1, <1>4, <1>5 DEF BuffersOK, Here
<1>9. ~queued' => /\ "nodes" \notin dirty' \/ Here' = {}
                  /\ links' = {} \/ ("edges" \notin dirty' /\ edgeBuf'.scale = scale')
  BY <1>1, <1>2, <1>5 DEF BuffersOK
<1> QED
  BY <1>3, <1>6, <1>7, <1>8, <1>9 DEF BuffersOK

\* A frame builds anew what is dirty, or else leaves it as it is.
LEMMA DrawKeeps == ASSUME SceneOK, BuffersOK, Draw PROVE SceneOK' /\ BuffersOK'
<1>1. PICK ps :
      /\ edgeBuf' = IF RebuildEdges THEN EdgeInstances ELSE edgeBuf
      /\ nodeBuf' = IF RebuildNodes(ps) THEN NodeInstances(ps) ELSE nodeBuf
      /\ dirty' = dirty \ ((IF RebuildEdges THEN {"edges"} ELSE {}) \cup
                           (IF RebuildNodes(ps) THEN {"nodes"} ELSE {}))
      /\ bare' = [n \in Node |-> bare[n] \ ((IF RebuildEdges THEN {"edges"} ELSE {}) \cup
                                            (IF RebuildNodes(ps) THEN {"nodes"} ELSE {}))]
      /\ queued' = (anim # None \/ ps # <<>>)
      /\ UNCHANGED <<body, links, range, size, selected, grid>>
  BY DEF Draw, bodies
<1>2. Here' = Here /\ \A n \in Here : n \in Node
  BY <1>1 DEF Here
<1>3. SceneOK'
  BY <1>1, <1>2 DEF SceneOK
<1>4. \A e \in links : /\ From[e] \in Node /\ To[e] \in Node
                       /\ body[From[e]] # None /\ body[To[e]] # None
  BY DEF SceneOK, Here
<1>5. "nodes" \notin dirty' =>
         /\ DOMAIN nodeBuf'.of = Here'
         /\ \A n \in Here' : /\ nodeBuf'.of[n].size = size'[n]
                             /\ "nodes" \in bare'[n] \/ nodeBuf'.of[n].pos = body'[n].pos
  <2>1. CASE RebuildNodes(ps)
    <3>1. nodeBuf'.of = [n \in Here |-> [pos |-> body[n].pos, size |-> size[n], sel |-> n = selected]]
      BY <1>1, <2>1 DEF NodeInstances
    <3> QED
      BY <1>1, <1>2, <3>1
  <2>2. CASE ~RebuildNodes(ps)
    <3>1. nodeBuf' = nodeBuf /\ ("nodes" \in dirty' <=> "nodes" \in dirty)
          /\ \A n \in Node : "nodes" \in bare'[n] <=> "nodes" \in bare[n]
      BY <1>1, <2>2
    <3> QED
      BY <1>1, <1>2, <3>1 DEF BuffersOK
  <2> QED
    BY <2>1, <2>2
<1>6. "edges" \notin dirty' =>
         /\ DOMAIN edgeBuf'.ends = links'
         /\ \A e \in links' : \A n \in {From[e], To[e]} :
                "edges" \in bare'[n] \/ body'[n].pos \in Range(edgeBuf'.ends[e])
  <2>1. CASE RebuildEdges
    <3>1. edgeBuf'.ends = [e \in {x \in links : body[From[x]] # None /\ body[To[x]] # None} |->
                              <<body[From[e]].pos, body[To[e]].pos>>]
      BY <1>1, <2>1 DEF EdgeInstances
    <3>2. {x \in links : body[From[x]] # None /\ body[To[x]] # None} = links
      BY <1>4
    <3>3. DOMAIN edgeBuf'.ends = links /\ \A e \in links : edgeBuf'.ends[e] = <<body[From[e]].pos, body[To[e]].pos>>
      BY <3>1, <3>2
    <3>4. \A x, y : x \in Range(<<x, y>>) /\ y \in Range(<<x, y>>)
      BY DEF Range
    <3>5. \A e \in links : \A n \in {From[e], To[e]} : body[n].pos \in Range(edgeBuf'.ends[e])
      BY <3>3, <3>4
    <3> QED
      BY <1>1, <3>3, <3>5
  <2>2. CASE ~RebuildEdges
    <3>1. edgeBuf' = edgeBuf /\ ("edges" \in dirty' <=> "edges" \in dirty)
          /\ \A n \in Node : "edges" \in bare'[n] <=> "edges" \in bare[n]
      BY <1>1, <2>2
    <3> QED
      BY <1>1, <1>4, <3>1 DEF BuffersOK
  <2> QED
    BY <2>1, <2>2
<1>7. "hit" \notin dirty' =>
         \A n \in Here' : "hit" \in bare'[n] \/ (n \in DOMAIN grid' /\ grid'[n] = body'[n].pos)
  <2>1. ("hit" \in dirty' <=> "hit" \in dirty) /\ \A n \in Node : "hit" \in bare'[n] <=> "hit" \in bare[n]
    BY <1>1
  <2> QED
    BY <1>1, <1>2, <2>1 DEF BuffersOK
<1>8. "nodes" \notin dirty' \/ Here' = {}
  BY <1>1, <1>2 DEF RebuildNodes
<1>9. links' = {} \/ ("edges" \notin dirty' /\ edgeBuf'.scale = scale')
  BY <1>1 DEF RebuildEdges, EdgeInstances
<1> QED
  BY <1>3, <1>5, <1>6, <1>7, <1>8, <1>9 DEF BuffersOK

-----------------------------------------------------------------------------
(* The camera and the fit that waits.                                      *)

CameraOK ==
    /\ scale \in {1, 2} /\ userMoved \in BOOLEAN
    /\ anim # None => anim.to \in {1, 2}
    /\ fitting # None =>
           /\ fitting = [sig |-> fitting.sig, stable |-> fitting.stable, checks |-> fitting.checks]
           /\ fitting.checks \in 0 .. MaxChecks /\ fitting.stable \in {0, 1}
    /\ AutoFitYields

LEMMA FitScales == \A b : FitScale(b) \in {1, 2}
  BY DEF FitScale

LEMMA TurnKeepsCamera == ASSUME CameraOK, Turn PROVE CameraOK'
<1>1. PICK b : FirstFit(b)
  BY DEF Turn
<1>2. CASE UNCHANGED <<fitted, userMoved, anim, scale, fitting>>
  BY <1>2 DEF CameraOK, AutoFitYields
<1>3. CASE /\ userMoved' = FALSE /\ anim' = None /\ scale' = FitScale(b)
           /\ fitting' = [sig |-> None, stable |-> 0, checks |-> 0]
  <2>1. fitting'.checks \in 0 .. MaxChecks /\ fitting'.stable = 0 /\ fitting'.sig = None /\ fitting'.checks = 0
    BY <1>3, SceneAssumption
  <2> QED
    BY <1>3, <2>1, FitScales DEF CameraOK, AutoFitYields
<1> QED
  BY <1>1, <1>2, <1>3 DEF FirstFit

LEMMA FitPollKeepsCamera == ASSUME CameraOK, FitPoll PROVE CameraOK'
<1>1. /\ fitting # None /\ UNCHANGED userMoved
      /\ userMoved \in BOOLEAN /\ scale' = scale /\ scale \in {1, 2}
  BY DEF FitPoll, CameraOK, PageMoves
<1> DEFINE sg == fitting.sig
<1>2. PICK c \in 0 .. MaxChecks, st \in {0, 1} : fitting = [sig |-> sg, stable |-> st, checks |-> c]
  BY <1>1 DEF CameraOK

<1>3. MaxChecks \in Nat /\ c \in Nat
  BY <1>2, SceneAssumption
<1>4. CASE fitting' = None /\ UNCHANGED anim
  BY <1>1, <1>4 DEF CameraOK, AutoFitYields
<1>5. ASSUME NEW s2, NEW st2 \in {0, 1}, ~GivesUp, UNCHANGED anim,
             fitting' = [sig |-> s2, stable |-> st2, checks |-> c + 1]
      PROVE  CameraOK'
  <2>1. c + 1 \in 0 .. MaxChecks
    BY <1>2, <1>3, <1>5 DEF GivesUp
  <2>2. fitting'.sig = s2 /\ fitting'.stable = st2 /\ fitting'.checks = c + 1
    BY <1>5
  <2> QED
    BY <1>1, <1>5, <2>1, <2>2 DEF CameraOK, AutoFitYields
<1>6. CASE ~GivesUp /\ fitting' = None /\ PageMoves("auto")
  <2>1. ~userMoved
    BY <1>6 DEF GivesUp
  <2>2. anim' = [by |-> "auto", to |-> FitScale(body)]
    BY <1>6 DEF PageMoves
  <2>3. anim'.to = FitScale(body)
    BY <2>2
  <2> QED
    BY <1>1, <1>6, <2>1, <2>3, FitScales DEF CameraOK, AutoFitYields
<1>7. [fitting EXCEPT !.checks = @ + 1] = [sig |-> sg, stable |-> st, checks |-> c + 1]
  BY <1>2
<1>8. /\ [[fitting EXCEPT !.checks = @ + 1] EXCEPT !.stable = 1]
             = [sig |-> sg, stable |-> 1, checks |-> c + 1]
      /\ [fitting EXCEPT !.checks = @ + 1].checks = c + 1
  <2> DEFINE next == [sig |-> sg, stable |-> st, checks |-> c + 1]
  <2>1. [next EXCEPT !.stable = 1] = [sig |-> sg, stable |-> 1, checks |-> c + 1] /\ next.checks = c + 1
    OBVIOUS
  <2> QED
    BY <1>7, <2>1
<1>9. \/ fitting' = None /\ UNCHANGED anim
      \/ ~GivesUp /\ UNCHANGED anim
         /\ \/ fitting' = [fitting EXCEPT !.checks = @ + 1]
            \/ fitting' = [sig |-> Signature, stable |-> 0, checks |-> [fitting EXCEPT !.checks = @ + 1].checks]
            \/ fitting' = [[fitting EXCEPT !.checks = @ + 1] EXCEPT !.stable = 1]
      \/ ~GivesUp /\ fitting' = None /\ PageMoves("auto")
  BY DEF FitPoll
<1> QED
  BY <1>4, <1>5, <1>6, <1>7, <1>8, <1>9

LEMMA CameraSteps ==
    ASSUME CameraOK, [Next]_vars
    PROVE  CameraOK'
<1>1. CASE UNCHANGED camera \/ UNCHANGED vars
  BY <1>1 DEF CameraOK, AutoFitYields, camera, vars
<1>2. CASE UserMoves
  BY <1>2 DEF UserMoves, CameraOK, AutoFitYields
<1>3. CASE Fit
  <2>1. anim' = [by |-> "page", to |-> FitScale(body)] /\ UNCHANGED <<scale, userMoved, fitting>>
    BY <1>3 DEF Fit, PageMoves
  <2>2. anim'.by = "page" /\ anim'.to = FitScale(body)
    BY <2>1
  <2> QED
    BY <2>1, <2>2, FitScales DEF CameraOK, AutoFitYields
<1>4. CASE Draw
  <2>1. UNCHANGED <<userMoved, fitting>>
    BY <1>4 DEF Draw
  <2>2. \/ UNCHANGED <<anim, scale>>
        \/ UNCHANGED anim /\ anim # None /\ scale' \in {scale, anim.to}
        \/ anim # None /\ anim' = None /\ scale' = anim.to
    BY <1>4 DEF Draw
  <2> QED
    BY <2>1, <2>2 DEF CameraOK, AutoFitYields
<1>5. \/ Turn \/ UserMoves \/ Fit \/ FitPoll \/ Draw \/ UNCHANGED camera \/ UNCHANGED vars
  BY DEF Next, SetValueRange, Ease, Snap, Select, Spawn, Hover
<1> QED
  BY <1>1, <1>2, <1>3, <1>4, <1>5, TurnKeepsCamera, FitPollKeepsCamera

-----------------------------------------------------------------------------
(* The flow particles.                                                     *)

Part == [edge : Edge, progress : 0 .. End - 1]

Spaced(ps) ==
    \A i, j \in 1 .. Len(ps) : i # j /\ ps[i].edge = ps[j].edge
        => ps[i].progress >= Gap \/ ps[j].progress >= Gap

\* A flow enters its edge only when the stretch before it is free.
LEMMA EnteredSpaced ==
    ASSUME NEW ps \in Seq(Part), Spaced(ps), NEW e \in Edge
    PROVE  Entered(ps, e) \in Seq(Part) /\ Spaced(Entered(ps, e))
<1>1. CASE Entered(ps, e) = ps
  BY <1>1
<1>2. CASE Entered(ps, e) = Append(ps, NewPart(e)) /\ ~TooSoon(ps, e)
  <2> DEFINE r == Append(ps, NewPart(e))
  <2>1. NewPart(e) \in Part /\ NewPart(e).edge = e /\ Len(ps) \in Nat
    BY SceneAssumption DEF NewPart, Part
  <2>2. /\ r \in Seq(Part) /\ Len(r) = Len(ps) + 1 /\ r[Len(ps) + 1] = NewPart(e)
        /\ \A i \in 1 .. Len(ps) : r[i] = ps[i]
    BY <2>1
  <2>3. \A i \in 1 .. Len(r) : i \in 1 .. Len(ps) \/ i = Len(ps) + 1
    BY <2>1, <2>2
  <2>4. \A i \in 1 .. Len(ps) : ps[i].progress \in Int /\ Gap \in Int
    <3>1. \A i \in 1 .. Len(ps) : ps[i] \in Part
      BY <2>1
    <3> QED
      BY <3>1, SceneAssumption DEF Part
  <2>5. \A i \in 1 .. Len(ps) : ps[i].edge = e => ps[i].progress >= Gap
    BY <1>2, <2>4 DEF TooSoon
  <2> HIDE DEF r
  <2>6. Spaced(r)
    BY <2>1, <2>2, <2>3, <2>5 DEF Spaced
  <2> QED
    BY <1>2, <2>2, <2>6 DEF r
<1> QED
  BY <1>1, <1>2 DEF Entered

LEMMA EnteredAllSpaced ==
    ASSUME NEW ps \in Seq(Part), Spaced(ps), NEW flows \in Seq(Edge)
    PROVE  EnteredAll(ps, flows) \in Seq(Part) /\ Spaced(EnteredAll(ps, flows))
<1> DEFINE n == Len(flows)
           V == {q \in Seq(Part) : Spaced(q)}
           turn == [i \in 1 .. n |-> [q \in V |-> Entered(q, flows[i])]]
           Law(f) == f = [i \in 0 .. n |-> IF i = 0 THEN ps ELSE Entered(f[i - 1], flows[i])]
           after == CHOOSE f : Law(f)
<1>1. n \in Nat /\ \A i \in 1 .. n : flows[i] \in Edge
  OBVIOUS
<1>2. ps \in V
  OBVIOUS
<1>3. ASSUME NEW q \in V, NEW i \in 1 .. n PROVE Entered(q, flows[i]) \in V
  <2>1. Entered(q, flows[i]) \in Seq(Part) /\ Spaced(Entered(q, flows[i]))
    BY <1>1, EnteredSpaced
  <2> QED
    BY <2>1
<1>4. \E f : Law(f)
  <2>1. turn \in [1 .. n -> [V -> V]]
    BY <1>3
  <2>2. \A i \in 1 .. n, q \in V : turn[i][q] = Entered(q, flows[i])
    OBVIOUS
  <2> HIDE DEF turn, V, n
  <2>3. PICK f : f = [i \in 0 .. n |-> IF i = 0 THEN ps ELSE turn[i][f[i - 1]]] /\ f \in [0 .. n -> V]
    BY <1>1, <1>2, <2>1, LoopExists, ZenonT(60)
  <2>4. ASSUME NEW i \in 0 .. n, i # 0 PROVE i \in 1 .. n /\ f[i - 1] \in V
    <3>1. i \in 1 .. n /\ i - 1 \in 0 .. n
      BY <1>1, <2>4
    <3> QED
      BY <2>3, <3>1
  <2>5. ASSUME NEW i \in 0 .. n PROVE f[i] = IF i = 0 THEN ps ELSE Entered(f[i - 1], flows[i])
    BY <2>2, <2>3, <2>4
  <2>6. f = [i \in 0 .. n |-> f[i]]
    BY <2>3
  <2>7. Law(f)
    BY <2>5, <2>6
  <2> QED
    BY <2>7
<1>5. Law(after)
  BY <1>4
<1>6. EnteredAll(ps, flows) = after[n]
  BY DEF EnteredAll
<1> HIDE DEF after
<1> DEFINE T == {i \in Nat : after[i] \in V}
<1>7. 0 \in T
  BY <1>1, <1>2, <1>5
<1>8. ASSUME NEW m \in 0 .. n, m \in T, m < n PROVE m + 1 \in T
  <2>1. m + 1 \in 0 .. n /\ m + 1 \in 1 .. n /\ m + 1 # 0 /\ (m + 1) - 1 = m
    BY <1>1, <1>8
  <2>2. after[m + 1] = Entered(after[m], flows[m + 1])
    BY <1>5, <2>1
  <2> QED
    BY <1>3, <1>8, <2>1, <2>2
<1>9. n \in T
  <2> HIDE DEF n, T
  <2>1. \A k \in 0 .. n : k \in T
    BY <1>1, <1>7, <1>8, UpTo
  <2> QED
    BY <1>1, <2>1
<1> QED
  BY <1>6, <1>9

\* The cut of the pool takes the oldest.
LEMMA CappedSpaced ==
    ASSUME NEW ps \in Seq(Part), Spaced(ps), NEW cap \in Caps
    PROVE  /\ Capped(ps, cap) \in Seq(Part) /\ Spaced(Capped(ps, cap))
           /\ Len(Capped(ps, cap)) <= MaxParticles
<1>1. Len(ps) \in Nat /\ MaxParticles \in Nat /\ cap \in Nat /\ cap <= MaxParticles
  BY SceneAssumption
<1>2. CASE Len(ps) <= cap
  BY <1>1, <1>2 DEF Capped
<1>3. CASE Len(ps) > cap
  <2> DEFINE from == Len(ps) - cap
             r == SubSeq(ps, from + 1, Len(ps))
  <2>1. from \in Nat /\ from + 1 \in 1 .. Len(ps) + 1
    BY <1>1, <1>3
  <2>2. \A i \in 1 .. cap : from + i \in 1 .. Len(ps)
    BY <1>1, <1>3
  <2>3. Len(r) = cap /\ \A i \in 1 .. cap : r[i] = ps[from + i]
    BY <1>1, <1>3
  <2>4. r \in Seq(Part)
    BY <1>1, <1>3, <2>2
  <2> HIDE DEF r
  <2>5. ASSUME NEW i \in 1 .. Len(r), NEW j \in 1 .. Len(r), i # j, r[i].edge = r[j].edge
        PROVE  r[i].progress >= Gap \/ r[j].progress >= Gap
    <3>1. r[i] = ps[from + i] /\ r[j] = ps[from + j] /\ from + i # from + j
          /\ from + i \in 1 .. Len(ps) /\ from + j \in 1 .. Len(ps)
      BY <1>1, <2>1, <2>2, <2>3, <2>5
    <3> HIDE DEF from
    <3> QED
      BY <2>5, <3>1 DEF Spaced
  <2>6. Capped(ps, cap) = r
    BY <1>1, <1>3 DEF Capped, r
  <2> QED
    BY <1>1, <2>3, <2>4, <2>5, <2>6 DEF Spaced
<1> QED
  BY <1>1, <1>2, <1>3

\* A frame moves all of them by one step and lets go of those at the end.
LEMMA SteppedSpaced ==
    ASSUME NEW ps \in Seq(Part), Spaced(ps)
    PROVE  Stepped(ps) \in Seq(Part) /\ Spaced(Stepped(ps)) /\ Len(Stepped(ps)) <= Len(ps)
<1> DEFINE S == [edge : Edge, progress : Nat]
           on == [i \in DOMAIN ps |-> [ps[i] EXCEPT !.progress = @ + 1]]
           hits == {i \in DOMAIN ps : ps[i].progress + 1 < End}
           r == Kept(on, hits)
<1>1. /\ Len(ps) \in Nat /\ DOMAIN ps = 1 .. Len(ps) /\ Gap \in Nat /\ End \in Nat
      /\ \A i \in 1 .. Len(ps) : ps[i] \in Part
  BY SceneAssumption
<1>2. ASSUME NEW i \in 1 .. Len(ps)
      PROVE  /\ on[i] \in S /\ on[i].edge = ps[i].edge /\ on[i].progress = ps[i].progress + 1
             /\ ps[i].progress \in Nat
             /\ i \in hits => on[i] \in Part
  <2>1. ps[i] \in Part
    BY <1>1
  <2>2. PICK e \in Edge, k \in 0 .. End - 1 : ps[i] = [edge |-> e, progress |-> k]
    BY <2>1 DEF Part
  <2>3. on[i] = [edge |-> e, progress |-> k + 1]
    BY <1>1, <2>2
  <2>4. k + 1 < End => k + 1 \in 0 .. End - 1
    BY <1>1
  <2> QED
    BY <1>1, <2>2, <2>3, <2>4 DEF Part
<1>3. on \in Seq(S) /\ Len(on) = Len(ps)
  <2>1. on = [i \in 1 .. Len(ps) |-> on[i]]
    BY <1>1
  <2> HIDE DEF on, S
  <2> QED
    BY <1>1, <1>2, <2>1
<1> HIDE DEF on, S, hits
<1>4. r \in Seq(S) /\ KeptSome(r, on, hits, Len(ps))
  BY <1>3, KeptIs
<1> HIDE DEF r
<1>5. Len(r) \in Nat /\ Len(r) <= Len(ps) /\ DOMAIN r = 1 .. Len(r)
  BY <1>4 DEF KeptSome
<1>6. \A i \in 1 .. Len(r) : r[i] \in Part
  BY <1>2, <1>4 DEF KeptSome
<1>7. r \in Seq(Part)
  BY <1>4, <1>5, <1>6
<1>8. ASSUME NEW i \in 1 .. Len(r), NEW j \in 1 .. Len(r), i # j, r[i].edge = r[j].edge
      PROVE  r[i].progress >= Gap \/ r[j].progress >= Gap
  <2>1. PICK k \in 1 .. Len(ps), l \in 1 .. Len(ps) : k # l /\ r[i] = on[k] /\ r[j] = on[l]
    <3>1. \A m, n \in 1 .. Len(r) : m # n =>
            \E k, l \in 1 .. Len(ps) : k # l /\ k \in hits /\ l \in hits /\ r[m] = on[k] /\ r[n] = on[l]
      BY <1>4, Zenon DEF KeptSome
    <3> QED
      BY <1>8, <3>1, Zenon
  <2>2. ps[k].edge = ps[l].edge
    BY <1>2, <1>8, <2>1
  <2>3. ps[k].progress >= Gap \/ ps[l].progress >= Gap
    BY <2>1, <2>2 DEF Spaced
  <2>4. PICK x \in Nat, y \in Nat : x = ps[k].progress /\ y = ps[l].progress
    BY <1>2
  <2>5. r[i].progress = x + 1 /\ r[j].progress = y + 1
    BY <1>2, <2>1, <2>4
  <2> QED
    BY <1>1, <2>3, <2>4, <2>5
<1>9. Stepped(ps) = r
  BY DEF Stepped, r, on, hits
<1> QED
  BY <1>5, <1>7, <1>8, <1>9 DEF Spaced

PartsOK == parts \in Seq(Part) /\ Spaced(parts) /\ Len(parts) <= MaxParticles

LEMMA PartsSteps ==
    ASSUME PartsOK, [Next]_vars
    PROVE  PartsOK'
<1>1. CASE UNCHANGED parts \/ UNCHANGED vars
  BY <1>1 DEF PartsOK, vars
<1>2. ASSUME NEW e \in Edge, NEW f \in Edge, Spawn(<<e, f>>) PROVE PartsOK'
  <2>1. <<e, f>> \in Seq(Edge)
    OBVIOUS
  <2>2. EnteredAll(parts, <<e, f>>) \in Seq(Part) /\ Spaced(EnteredAll(parts, <<e, f>>))
    BY <2>1, EnteredAllSpaced DEF PartsOK
  <2>3. PICK cap \in Caps : parts' = Capped(EnteredAll(parts, <<e, f>>), cap)
    BY <1>2 DEF Spawn
  <2> QED
    BY <2>2, <2>3, CappedSpaced DEF PartsOK
<1>3. CASE Draw
  <2>1. parts' = Stepped(parts)
    BY <1>3 DEF Draw
  <2>2. parts' \in Seq(Part) /\ Spaced(parts') /\ Len(parts') <= Len(parts)
    BY <2>1, SteppedSpaced DEF PartsOK
  <2>3. Len(parts') \in Nat /\ Len(parts) \in Nat /\ MaxParticles \in Nat
    BY <2>2, SceneAssumption DEF PartsOK
  <2> QED
    BY <2>2, <2>3 DEF PartsOK
<1>4. \/ \E e, f \in Edge : Spawn(<<e, f>>)
      \/ Draw \/ UNCHANGED parts \/ UNCHANGED vars
  BY DEF Next, Turn, SetValueRange, Ease, Snap, Select, UserMoves, Fit, FitPoll, Hover
<1> QED
  BY <1>1, <1>2, <1>3, <1>4

-----------------------------------------------------------------------------
(* The scene of the WebGL renderer as a whole.                             *)

LEMMA SceneSteps ==
    ASSUME SceneOK, BuffersOK, [Next]_vars
    PROVE  SceneOK' /\ BuffersOK'
<1>1. CASE UNCHANGED vars
  <2>1. UNCHANGED <<body, links, range, size, nodeBuf, edgeBuf, grid, bare, dirty, queued, scale, selected>>
    BY <1>1 DEF vars, bodies, drawn, camera
  <2> QED
    BY <2>1, OthersKeep DEF SceneOK
<1>2. ASSUME NEW n \in Node \cup {None}, Select(n) PROVE SceneOK' /\ BuffersOK'
  <2>1. UNCHANGED <<body, links, range, size, nodeBuf, edgeBuf, grid, bare, dirty>> /\ queued' = TRUE
        /\ selected' \in Node \cup {None}
    BY <1>2 DEF Select, drawn
  <2> QED
    BY <2>1, OthersKeep
<1>3. ASSUME UserMoves \/ Fit \/ \E e, f \in Edge : Spawn(<<e, f>>) PROVE SceneOK' /\ BuffersOK'
  <2>1. /\ UNCHANGED <<body, links, range, size, nodeBuf, edgeBuf, grid, bare, dirty, selected>>
        /\ queued' = TRUE
    BY <1>3 DEF UserMoves, Fit, Spawn, PageMoves, drawn, bodies
  <2> QED
    BY <2>1, OthersKeep DEF SceneOK
<1>4. CASE FitPoll
  <2>1. /\ UNCHANGED <<body, links, range, size, nodeBuf, edgeBuf, grid, bare, dirty, selected>>
        /\ queued' = TRUE \/ UNCHANGED <<queued, scale>>
    BY <1>4 DEF FitPoll, PageMoves, drawn, bodies
  <2> QED
    BY <2>1, OthersKeep DEF SceneOK
<1>5. ASSUME NEW r, SetValueRange(r) PROVE SceneOK' /\ BuffersOK'
  BY <1>5, RangeKeeps
<1>6. ASSUME NEW n \in Node, NEW p \in Pos, Ease(n, p) \/ Snap(n, p) PROVE SceneOK' /\ BuffersOK'
  BY <1>6, EaseKeeps, SnapKeeps
<1> QED
  BY <1>1, <1>2, <1>3, <1>4, <1>5, <1>6, TurnKeeps, DrawKeeps, HoverKeeps DEF Next

\* The atlas: a frame asks for texts of LabelOf and EdgeLabel.
LEMMA AtlasSteps ==
    ASSUME SceneOK, Packed(atlas), [Next]_vars
    PROVE  Packed(atlas')
<1>1. CASE UNCHANGED atlas
  BY <1>1
<1>2. CASE Draw
  <2> DEFINE S == {LabelOf[n][body[n].value] : n \in Here}
                   \cup (IF scale' = 2 THEN {EdgeLabel[e] : e \in links} ELSE {})
  <2>1. \A n \in Here : LabelOf[n][body[n].value] \in Text
    <3>1. \A n \in Here : n \in Node /\ body[n] \in [pos : Pos, value : Value]
      BY DEF SceneOK, Here, Bodies
    <3>2. \A n \in Here : body[n].value \in Value
      BY <3>1
    <3>3. LabelOf \in [Node -> [Value -> Text]]
      BY SceneAssumption
    <3> QED
      BY <3>1, <3>2, <3>3
  <2>2. S \subseteq Text
    BY <2>1, SceneAssumption DEF SceneOK
  <2>3. IsFiniteSet(S)
    <3>1. IsFiniteSet(Here) /\ IsFiniteSet(links)
      <4>1. Here \in SUBSET Node /\ links \in SUBSET Edge
        BY DEF Here, SceneOK
      <4> QED
        BY <4>1, FS_Subset, SceneAssumption
    <3>2. IsFiniteSet({LabelOf[n][body[n].value] : n \in Here})
      <4> DEFINE g == [n \in Here |-> LabelOf[n][body[n].value]]
      <4>1. g \in Surjection(Here, {LabelOf[n][body[n].value] : n \in Here})
        BY DEF Surjection
      <4> QED
        BY <3>1, <4>1, FS_Surjection
    <3>3. IsFiniteSet({EdgeLabel[e] : e \in links})
      <4> DEFINE g == [e \in links |-> EdgeLabel[e]]
      <4>1. g \in Surjection(links, {EdgeLabel[e] : e \in links})
        BY DEF Surjection
      <4> QED
        BY <3>1, <4>1, FS_Surjection
    <3>4. IsFiniteSet(IF scale' = 2 THEN {EdgeLabel[e] : e \in links} ELSE {})
      BY <3>3, FS_EmptySet
    <3> QED
      BY <3>2, <3>4, FS_Union
  <2>4. LabelTexts = SetToSeq(S)
    BY DEF LabelTexts
  <2> HIDE DEF S
  <2>5. LabelTexts \in Seq(S)
    BY <2>3, <2>4, SequenceOf
  <2>6. LabelTexts \in Seq(Text)
    BY <2>2, <2>5
  <2>7. atlas' = AskedAll(atlas, LabelTexts)
    BY <1>2 DEF Draw
  <2> QED
    BY <2>6, <2>7, AskedAllPacked
<1>3. Draw \/ UNCHANGED atlas
  BY DEF Next, vars, drawn, Turn, SetValueRange, Ease, Snap, Select, UserMoves, Fit, FitPoll, Spawn, Hover
<1> QED
  BY <1>1, <1>2, <1>3

GLInv == SceneOK /\ BuffersOK /\ CameraOK /\ PartsOK /\ Packed(atlas)

LEMMA GLInit == Init => GLInv
<1> SUFFICES ASSUME Init PROVE GLInv
  OBVIOUS
<1>1. Here = {} /\ body \in Bodies
  BY DEF Init, Here, Bodies
<1>2. size = Sizes(body, range)
  BY DEF Init, Sizes
<1>3. SceneOK
  BY <1>1, <1>2 DEF Init, SceneOK, All
<1>4. BuffersOK
  BY DEF Init, BuffersOK, All
<1>5. CameraOK
  BY DEF Init, CameraOK, AutoFitYields
<1>6. PartsOK
  <2>1. parts = <<>> /\ Len(<<>>) = 0 /\ <<>> \in Seq(Part)
    BY DEF Init
  <2>2. 1 .. 0 = {} /\ MaxParticles >= 0
    BY SceneAssumption
  <2> QED
    BY <2>1, <2>2 DEF PartsOK, Spaced
<1>7. Packed(atlas)
  BY DEF Init, AtlasInit, Packed, NoSprites, Atlas
<1> QED
  BY <1>3, <1>4, <1>5, <1>6, <1>7 DEF GLInv

LEMMA GLSteps == GLInv /\ [Next]_vars => GLInv'
  BY SceneSteps, CameraSteps, PartsSteps, AtlasSteps DEF GLInv

\* In a browser with the WebGL renderer a body that is not dirty is as it is drawn, which is
\* what the frames that only move the camera rely on.
LEMMA GLBuffers == GLInv => BuffersFollow
<1> SUFFICES ASSUME GLInv PROVE FrameIsCurrent /\ GridFindsNodes
  BY DEF BuffersFollow
<1>1. SceneOK /\ BuffersOK
  BY DEF GLInv
<1>2. ASSUME NEW n \in Here PROVE /\ n \in Node /\ body[n].pos \in Pos /\ body[n].pos \in Nat
                                  /\ size[n] = SizeOf(body[n].value, Spread(body, range))
  BY <1>1, SceneAssumption DEF SceneOK, Here, Bodies, Sizes
<1>3. FrameIsCurrent
  <2> SUFFICES ASSUME ~queued
               PROVE  /\ Here # {} => DOMAIN nodeBuf.of = Here
                      /\ \A n \in Here : /\ nodeBuf.of[n].size = SizeOf(body[n].value, Spread(body, range))
                                         /\ "nodes" \in bare[n] \/ nodeBuf.of[n].pos = body[n].pos
                      /\ links # {} => edgeBuf.scale = scale /\ DOMAIN edgeBuf.ends = links
                      /\ \A e \in links : \A n \in {From[e], To[e]} :
                             "edges" \in bare[n] \/ body[n].pos \in Range(edgeBuf.ends[e])
    BY DEF FrameIsCurrent
  <2>1. "nodes" \notin dirty \/ Here = {}
    BY <1>1 DEF BuffersOK
  <2>2. links = {} \/ ("edges" \notin dirty /\ edgeBuf.scale = scale)
    BY <1>1 DEF BuffersOK
  <2>3. /\ Here # {} => DOMAIN nodeBuf.of = Here
        /\ \A n \in Here : /\ nodeBuf.of[n].size = size[n]
                           /\ "nodes" \in bare[n] \/ nodeBuf.of[n].pos = body[n].pos
    BY <1>1, <2>1 DEF BuffersOK
  <2>4. /\ links # {} => DOMAIN edgeBuf.ends = links
        /\ \A e \in links : \A n \in {From[e], To[e]} :
               "edges" \in bare[n] \/ body[n].pos \in Range(edgeBuf.ends[e])
    BY <1>1, <2>2 DEF BuffersOK
  <2> QED
    BY <1>2, <2>2, <2>3, <2>4
<1>4. GridFindsNodes
  <2> SUFFICES ASSUME "hit" \notin dirty, NEW n \in Here, "hit" \notin bare[n]
               PROVE  n \in HitsAt(body[n].pos)
    BY DEF GridFindsNodes
  <2>1. n \in DOMAIN grid /\ grid[n] = body[n].pos
    BY <1>1 DEF BuffersOK
  <2>2. PICK q \in Nat : q = body[n].pos
    BY <1>2
  <2>3. q <= q + 1
    OBVIOUS
  <2> QED
    BY <1>2, <2>1, <2>2, <2>3 DEF HitsAt
<1> QED
  BY <1>3, <1>4

LEMMA GLParticles == GLInv => TypeOK /\ ParticlesSpaced
<1> SUFFICES ASSUME GLInv PROVE TypeOK /\ ParticlesSpaced
  OBVIOUS
<1>1. SceneOK /\ CameraOK /\ PartsOK
  BY DEF GLInv
<1>2. \A n \in Node : body[n] = None \/ body[n] \in [pos : Pos, value : Value]
  BY <1>1 DEF SceneOK, Bodies
<1>3. DOMAIN parts = 1 .. Len(parts) /\ \A i \in 1 .. Len(parts) : parts[i] \in Part
  BY <1>1 DEF PartsOK
<1>4. TypeOK
  BY <1>1, <1>2, <1>3 DEF TypeOK, SceneOK, CameraOK, Part
<1>5. ParticlesSpaced
  BY <1>1, <1>3 DEF ParticlesSpaced, PartsOK, Spaced
<1> QED
  BY <1>4, <1>5

-----------------------------------------------------------------------------
(* The solar renderer (CosmosScene): what is uploaded.                     *)

CNode == [pos : Pos, style : Style, dim : BOOLEAN, frozen : Nat \cup {None}]
CLink == [style : Style, dim : BOOLEAN]
CBodies == [Node -> CNode \cup {None}]
CLinks == [Edge -> CLink \cup {None}]

LEMMA SameHelpers == /\ \A s, h : C!Kept(s, h) = Kept(s, h)
                     /\ \A f : C!Range(f) = Range(f)
                     /\ \A S : C!Cardinality(S) = Cardinality(S)
<1>1. \A s, h : C!Kept(s, h) = Kept(s, h)
  BY DEF C!Kept, Kept
<1>2. \A f : C!Range(f) = Range(f)
  BY DEF C!Range, Range
<1>3. \A S : C!Cardinality(S) = Cardinality(S)
  BY DEF C!Cardinality, Cardinality
<1> QED
  BY <1>1, <1>2, <1>3

LEMMA OrdersOf == /\ C!Nodes = Node /\ C!Edges = Edge
                  /\ NodeOrder \in Seq(Node) /\ EdgeOrder \in Seq(Edge)
                  /\ Range(NodeOrder) = Node /\ Range(EdgeOrder) = Edge
  BY RenderersAssumption, SameHelpers DEF C!Nodes, C!Edges

LEMMA RangeOf ==
    ASSUME NEW S, NEW s \in Seq(S)
    PROVE  /\ Range(s) \subseteq S
           /\ \A x : x \in Range(s) <=> \E i \in 1 .. Len(s) : s[i] = x
<1>1. DOMAIN s = 1 .. Len(s) /\ \A i \in 1 .. Len(s) : s[i] \in S
  OBVIOUS
<1> QED
  BY <1>1 DEF Range

\* The members of a set in a given order.
LEMMA AmongIs ==
    ASSUME NEW S, NEW order \in Seq(S), NEW ids
    PROVE  C!Among(order, ids) \in Seq(S) /\ Range(C!Among(order, ids)) = Range(order) \cap ids
<1> DEFINE hits == {i \in DOMAIN order : order[i] \in ids}
           r == Kept(order, hits)
<1>1. C!Among(order, ids) = r
  BY SameHelpers DEF C!Among
<1>2. DOMAIN order = 1 .. Len(order) /\ Len(order) \in Nat
  OBVIOUS
<1> HIDE DEF r, hits
<1>3. r \in Seq(S) /\ KeptSome(r, order, hits, Len(order))
  BY KeptIs DEF r
<1>4. ASSUME NEW x \in Range(r) PROVE x \in Range(order) \cap ids
  <2>1. PICK i \in 1 .. Len(r) : r[i] = x
    BY <1>3, RangeOf
  <2>2. PICK k \in 1 .. Len(order) : k \in hits /\ r[i] = order[k]
    BY <1>3 DEF KeptSome
  <2> QED
    BY <2>1, <2>2, RangeOf DEF hits
<1>5. ASSUME NEW x \in Range(order) \cap ids PROVE x \in Range(r)
  <2>1. PICK k \in 1 .. Len(order) : order[k] = x
    BY RangeOf
  <2>2. k \in hits
    BY <1>2, <2>1 DEF hits
  <2>3. PICK i \in 1 .. Len(r) : r[i] = order[k]
    BY <1>3, <2>2 DEF KeptSome
  <2> QED
    BY <1>3, <2>1, <2>3, RangeOf
<1> QED
  BY <1>1, <1>3, <1>4, <1>5

LEMMA PointsOf ==
    ASSUME NEW b \in CBodies
    PROVE  C!Points(b) \in Seq(Node) /\ Range(C!Points(b)) = C!In(b)
<1>1. C!In(b) \subseteq Node
  BY DEF C!In, CBodies
<1>2. C!Points(b) = C!Among(NodeOrder, C!In(b))
  BY DEF C!Points
<1>3. Range(NodeOrder) \cap C!In(b) = C!In(b) /\ NodeOrder \in Seq(Node)
  BY <1>1, OrdersOf
<1> QED
  BY <1>2, <1>3, AmongIs, ZenonT(60)

LEMMA LinesOf ==
    ASSUME NEW l, NEW ids
    PROVE  /\ C!Lines(l, ids) \in Seq(Edge)
           /\ Range(C!Lines(l, ids)) = {e \in C!In(l) \cap Edge : {From[e], To[e]} \subseteq Range(ids)}
<1> DEFINE these == {e \in C!In(l) : {From[e], To[e]} \subseteq Range(ids)}
<1>1. C!Lines(l, ids) = C!Among(EdgeOrder, these)
  BY SameHelpers DEF C!Lines
<1>2. Range(EdgeOrder) \cap these = {e \in C!In(l) \cap Edge : {From[e], To[e]} \subseteq Range(ids)}
  BY OrdersOf
<1>3. EdgeOrder \in Seq(Edge)
  BY OrdersOf
<1> HIDE DEF these
<1> QED
  BY <1>1, <1>2, <1>3, AmongIs

\* A finite set of numbers has a greatest member.
LEMMA Greatest ==
    ASSUME NEW S, IsFiniteSet(S), S \subseteq Nat, S # {}
    PROVE  \E m \in S : \A x \in S : x <= m
<1>1. PICK n \in Nat : ExistsBijection(1 .. n, S)
  BY FS_NatBijection
<1>2. PICK f : /\ \A i \in 1 .. n : f[i] \in S
               /\ \A x \in S : \E i \in 1 .. n : f[i] = x
  BY <1>1 DEF ExistsBijection, Bijection, Surjection, Injection
<1> DEFINE T == {k \in Nat : k = 0 \/ \E m \in 1 .. k : \A i \in 1 .. k : f[i] <= f[m]}
<1>3. ASSUME NEW k \in 0 .. n, k \in T, k < n PROVE k + 1 \in T
  <2>1. \A i \in 1 .. k + 1 : i \in 1 .. n /\ (i \in 1 .. k \/ i = k + 1)
    BY <1>3
  <2>2. k + 1 \in 1 .. k + 1 /\ \A i \in 1 .. k : i \in 1 .. k + 1
    BY <1>3
  <2>3. \A i \in 1 .. k + 1 : f[i] \in Nat
    BY <1>2, <2>1
  <2>4. CASE k = 0
    <3>1. \A i \in 1 .. k + 1 : i = k + 1
      BY <2>4
    <3>2. \A i \in 1 .. k + 1 : f[i] <= f[k + 1]
      BY <2>3, <3>1
    <3> QED
      BY <1>3, <2>2, <3>2
  <2>5. CASE k # 0
    <3>1. PICK m \in 1 .. k : \A i \in 1 .. k : f[i] <= f[m]
      BY <1>3, <2>5
    <3>2. PICK y \in Nat, z \in Nat : y = f[m] /\ z = f[k + 1]
      BY <2>2, <2>3
    <3>3. CASE y <= z
      <4>1. \A i \in 1 .. k + 1 : f[i] <= z
        BY <2>1, <2>2, <2>3, <3>1, <3>2, <3>3
      <4> QED
        BY <1>3, <2>2, <3>2, <4>1
    <3>4. CASE ~(y <= z)
      <4>1. \A i \in 1 .. k + 1 : f[i] <= y
        BY <2>1, <2>2, <2>3, <3>1, <3>2, <3>4
      <4> QED
        BY <1>3, <2>2, <3>1, <3>2, <4>1
    <3> QED
      BY <3>3, <3>4
  <2> QED
    BY <2>4, <2>5
<1>4. n \in T
  <2> HIDE DEF T
  <2>1. 0 \in T
    BY DEF T
  <2>2. \A k \in 0 .. n : k \in T
    BY <1>3, <2>1, UpTo
  <2> QED
    BY <2>2
<1>5. n # 0
  <2>1. \E i \in 1 .. n : TRUE
    BY <1>2
  <2> QED
    BY <2>1
<1>6. PICK m \in 1 .. n : \A i \in 1 .. n : f[i] <= f[m]
  BY <1>4, <1>5
<1> QED
  BY <1>2, <1>6

LEMMA FiniteImage ==
    ASSUME NEW S, IsFiniteSet(S), NEW f
    PROVE  IsFiniteSet({f[x] : x \in S})
<1> DEFINE g == [x \in S |-> f[x]]
<1>1. g \in Surjection(S, {f[x] : x \in S})
  BY DEF Surjection
<1> QED
  BY <1>1, FS_Surjection

\* The size of a node that is there is a number.
LEMMA SizeIsNat ==
    ASSUME NEW b \in CBodies, NEW n \in C!In(b)
    PROVE  C!FrozenSize(b, n) \in Nat
<1> DEFINE vs == {b[m].style.value : m \in C!In(b)}
<1>1. \A m \in C!In(b) : m \in Node /\ b[m] \in CNode /\ b[m].style.value \in Nat
  BY RenderersAssumption DEF C!In, CBodies, CNode
<1>2. IsFiniteSet(C!In(b))
  <2>1. C!In(b) \in SUBSET Node
    BY <1>1
  <2> QED
    BY <2>1, FS_Subset, SceneAssumption
<1>3. vs \subseteq Nat /\ vs # {} /\ b[n].style.value \in vs
  BY <1>1
<1>4. IsFiniteSet(vs)
  <2> DEFINE f == [m \in C!In(b) |-> b[m].style.value]
  <2>1. vs = {f[m] : m \in C!In(b)}
    OBVIOUS
  <2> HIDE DEF f
  <2> QED
    BY <1>2, <2>1, FiniteImage
<1> HIDE DEF vs
<1>5. PICK hi \in vs : \A x \in vs : x <= hi
  BY <1>3, <1>4, Greatest
<1>6. PICK lo \in vs : \A x \in vs : lo <= x
  BY <1>3, LeastNat
<1>7. vs \subseteq Int
  BY <1>3
<1>8. Max(vs) = hi /\ Min(vs) = lo
  BY <1>5, <1>6, <1>7, MaxIs, MinIs
<1>9. PICK v \in Nat : v = b[n].style.value
  BY <1>1
<1>10. lo \in Nat /\ hi \in Nat /\ lo <= v /\ lo <= hi
  BY <1>3, <1>5, <1>6, <1>9
<1>11. C!SizeByValue(b, n) = IF hi = lo THEN 12 ELSE 8 + (18 * (v - lo)) \div (hi - lo)
  <2>1. C!SizeByValue(b, n) = IF Max(vs) = Min(vs) THEN 12
                              ELSE 8 + (18 * (b[n].style.value - Min(vs))) \div (Max(vs) - Min(vs))
    BY DEF C!SizeByValue, vs, C!Max, Max, C!Min, Min
  <2> QED
    BY <1>8, <1>9, <2>1
<1>12. hi # lo => (18 * (v - lo)) \div (hi - lo) \in Nat
  <2>1. \A x \in Nat, y \in Nat : y > 0 => x \div y \in Nat
    OBVIOUS
  <2>2. hi # lo => 18 * (v - lo) \in Nat /\ hi - lo \in Nat /\ hi - lo > 0
    BY <1>10
  <2> QED
    BY <2>1, <2>2
<1>13. C!SizeByValue(b, n) \in Nat
  BY <1>11, <1>12
<1>14. b[n].frozen \in Nat \cup {None}
  BY <1>1 DEF CNode
<1> QED
  BY <1>13, <1>14 DEF C!FrozenSize

LEMMA LesserOfTwo ==
    ASSUME NEW a \in Nat, NEW b \in Nat
    PROVE  C!Min({a, b}) \in 0 .. b
<1>1. {a, b} \subseteq Int /\ (a <= b => \A y \in {a, b} : a <= y) /\ (b <= a => \A y \in {a, b} : b <= y)
  OBVIOUS
<1>2. a <= b => Min({a, b}) = a
  BY <1>1, MinIs
<1>3. b <= a => Min({a, b}) = b
  BY <1>1, MinIs
<1>4. C!Min({a, b}) = Min({a, b})
  BY DEF C!Min, Min
<1> QED
  BY <1>2, <1>3, <1>4

\* There is a set of the largest, however many of them are labelled.
LEMMA LargestWithin ==
    ASSUME NEW b \in CBodies, NEW ns, ns \subseteq C!In(b)
    PROVE  C!Largest(b, ns) \subseteq ns
<1> DEFINE Top(top) == \A n \in top, o \in ns \ top : C!FrozenSize(b, n) >= C!FrozenSize(b, o)
           N == Cardinality(ns)
           T == {k \in Nat : \E top \in SUBSET ns : Cardinality(top) = k /\ Top(top)}
<1>1. IsFiniteSet(ns)
  <2>1. ns \in SUBSET Node
    BY DEF C!In, CBodies
  <2> QED
    BY <2>1, FS_Subset, SceneAssumption
<1>2. N \in Nat
  BY <1>1, FS_CardinalityType
<1>3. \A n \in ns : C!FrozenSize(b, n) \in Nat
  BY SizeIsNat
<1>4. 0 \in T
  <2>1. {} \in SUBSET ns /\ Cardinality({}) = 0 /\ Top({})
    BY FS_EmptySet
  <2> QED
    BY <2>1
<1>5. ASSUME NEW k \in 0 .. N, k \in T, k < N PROVE k + 1 \in T
  <2>1. PICK top \in SUBSET ns : Cardinality(top) = k /\ Top(top)
    BY <1>5
  <2>2. IsFiniteSet(top) /\ ns \ top # {}
    BY <1>1, <1>2, <1>5, <2>1, FS_Subset
  <2> DEFINE f == [n \in ns |-> C!FrozenSize(b, n)]
             left == {f[n] : n \in ns \ top}
  <2>3. IsFiniteSet(ns \ top)
    <3>1. ns \ top \in SUBSET ns
      OBVIOUS
    <3> QED
      BY <1>1, <3>1, FS_Subset
  <2>4. left \subseteq Nat /\ left # {}
    BY <1>3, <2>2
  <2>5. IsFiniteSet(left)
    <3> HIDE DEF f
    <3> QED
      BY <2>3, FiniteImage
  <2>6. PICK m \in left : \A x \in left : x <= m
    <3> HIDE DEF left
    <3> QED
      BY <2>4, <2>5, Greatest
  <2>7. PICK n \in ns \ top : m = C!FrozenSize(b, n)
    BY <2>6
  <2>8. \A o \in ns \ top : C!FrozenSize(b, n) >= C!FrozenSize(b, o)
    <3>1. \A o \in ns \ top : C!FrozenSize(b, o) \in left
      OBVIOUS
    <3>2. \A o \in ns \ top : C!FrozenSize(b, o) <= m /\ C!FrozenSize(b, o) \in Nat /\ m \in Nat
      <4> HIDE DEF left
      <4> QED
        BY <1>3, <2>4, <2>6, <3>1
    <3> QED
      BY <2>7, <3>2
  <2>9. Cardinality(top \cup {n}) = k + 1
    BY <2>1, <2>2, <2>7, FS_AddElement
  <2>10. top \cup {n} \in SUBSET ns /\ Top(top \cup {n})
    BY <2>1, <2>7, <2>8
  <2> QED
    BY <2>9, <2>10
<1>6. \A k \in 0 .. N : k \in T
  <2> HIDE DEF T, N
  <2> QED
    BY <1>2, <1>4, <1>5, UpTo
<1>7. C!Min({MaxLabels, N}) \in 0 .. N
  BY <1>2, LesserOfTwo, RenderersAssumption
<1>8. \E top \in SUBSET ns : Cardinality(top) = C!Min({MaxLabels, N}) /\ Top(top)
  BY <1>6, <1>7
<1>9. C!Largest(b, ns) \in SUBSET ns
  <2> DEFINE Fine(top) == C!Cardinality(top) = C!Min({MaxLabels, C!Cardinality(ns)}) /\ Top(top)
  <2>1. C!Largest(b, ns) = CHOOSE top \in SUBSET ns : Fine(top)
    BY DEF C!Largest
  <2>2. \E top \in SUBSET ns : Fine(top)
    BY <1>8, SameHelpers
  <2> HIDE DEF Fine
  <2> QED
    BY <2>1, <2>2
<1> QED
  BY <1>9

-----------------------------------------------------------------------------
(* The solar renderer: what is on the GPU, and what is still to come.      *)

\* An array with a place for each member of s.
Fitted(f, s) == f = [i \in 1 .. Len(s) |-> f[i]]

SolarTypes ==
    /\ cBody \in CBodies /\ cLinks \in CLinks
    /\ \A e \in Edge : cLinks[e] # None => cBody[From[e]] # None /\ cBody[To[e]] # None
    /\ cIndex \in Seq(Node)
    /\ cGpu = [pos |-> cGpu.pos, colour |-> cGpu.colour, size |-> cGpu.size,
               link |-> cGpu.link, linkColour |-> cGpu.linkColour]
    /\ cGpu.pos \in Seq(Pos) /\ cGpu.link \in Seq(Edge)
    /\ cDirty \in BOOLEAN /\ cStyleDirty \in BOOLEAN /\ cPosDirty \in BOOLEAN
    /\ cTopoTimer \in BOOLEAN /\ cStyleTimer \in BOOLEAN /\ cQueued \in BOOLEAN
    /\ cPaint \in BOOLEAN /\ cRaw \in BOOLEAN /\ cBuilt \in BOOLEAN
    /\ cLabels \subseteq Node \cup Edge

Fitting ==
    /\ Fitted(cGpu.pos, cIndex) /\ Fitted(cGpu.colour, cIndex) /\ Fitted(cGpu.size, cIndex)
    /\ Fitted(cGpu.linkColour, cGpu.link)

\* The last rebuild, and the rebuild that is awaited.
Topology ==
    /\ ~cBuilt => cIndex = <<>> /\ cGpu.link = <<>>
    /\ ~cRaw /\ cDirty => cTopoTimer
    /\ ~cRaw /\ ~cDirty => /\ cIndex = C!Points(cBody) /\ cGpu.link = C!Lines(cLinks, cIndex)
                           /\ cLabels \subseteq C!In(cBody) \cup C!In(cLinks)

\* Colours are those of the bodies, or a push of them is on its way.
Looks ==
    ~cRaw /\ ~cDirty /\ ~cUnpushed /\ (~cStyleDirty \/ ~cStyleTimer) =>
        /\ \A i \in 1 .. Len(cIndex) : cGpu.colour[i] = C!Colour(cBody[cIndex[i]])
        /\ \A i \in 1 .. Len(cGpu.link) : cGpu.linkColour[i] = C!Colour(cLinks[cGpu.link[i]])

\* Places are those of the bodies, or a frame will bring them.
Places ==
    ~cRaw /\ ~cDirty /\ (~cPosDirty \/ ~cQueued) =>
        \A i \in 1 .. Len(cIndex) : cGpu.pos[i] = cBody[cIndex[i]].pos

FrozenIn(b, n) == b[n] # None /\ b[n].frozen # None

Frozen ==
    ~cRaw => \A i \in 1 .. Len(cIndex) :
                 FrozenIn(cBody, cIndex[i]) => cGpu.size[i] = cBody[cIndex[i]].frozen

SolarOK == SolarTypes /\ Fitting /\ Topology /\ Looks /\ Places /\ Frozen

LEMMA HereOf == /\ \A b \in CBodies : C!In(b) = {n \in Node : b[n] # None}
                /\ \A l \in CLinks : C!In(l) = {e \in Edge : l[e] # None}
  BY DEF C!In, CBodies, CLinks

LEMMA LabelsOf ==
    ASSUME cBody' \in CBodies, cLinks' \in CLinks, cIndex' \in Seq(Node), cGpu'.link \in Seq(Edge),
           C!UpdateLabels
    PROVE  /\ cLabels' \subseteq C!In(cBody') \cup C!In(cLinks')
           /\ cLabels' \subseteq Node \cup Edge
<1> DEFINE ns == {n \in C!Range(cIndex') : cBody'[n] # None}
<1>1. ns \subseteq C!In(cBody')
  BY HereOf, SameHelpers, RangeOf
<1>2. C!Largest(cBody', ns) \subseteq C!In(cBody')
  <2> HIDE DEF ns
  <2> QED
    BY <1>1, LargestWithin
<1>3. \A focus : C!Pills(cBody', cLinks', cGpu', focus) \subseteq C!In(cLinks')
  BY HereOf, SameHelpers, RangeOf DEF C!Pills
<1>4. C!In(cBody') \subseteq Node /\ C!In(cLinks') \subseteq Edge
  BY HereOf
<1>5. cLabels' = {} \/ \E focus : cLabels' = C!Largest(cBody', ns) \cup C!Pills(cBody', cLinks', cGpu', focus)
  BY DEF C!UpdateLabels
<1> HIDE DEF ns
<1> QED
  BY <1>2, <1>3, <1>4, <1>5

\* A step that uploads nothing: it marks what it changes, or changes nothing that is drawn.
LEMMA NothingUploaded ==
    ASSUME SolarOK, SolarTypes', UNCHANGED <<cIndex, cGpu, cRaw, cBuilt>>,
           cRaw \/ ~cDirty' \/ cTopoTimer',
           \/ cDirty'
           \/ /\ cDirty' = cDirty
              /\ C!In(cBody') = C!In(cBody) /\ C!In(cLinks') = C!In(cLinks)
              /\ cLabels' = cLabels \/ cLabels' \subseteq C!In(cBody') \cup C!In(cLinks')
              /\ \/ cStyleDirty' /\ cStyleTimer'
                 \/ cUnpushed'
                 \/ /\ \A n \in C!In(cBody) : C!Colour(cBody'[n]) = C!Colour(cBody[n])
                    /\ UNCHANGED <<cLinks, cStyleDirty, cStyleTimer, cUnpushed>>
              /\ \/ cPosDirty' /\ (cBuilt => cQueued')
                 \/ /\ \A n \in C!In(cBody) : cBody'[n].pos = cBody[n].pos
                    /\ cPosDirty' = cPosDirty \/ cPosDirty'
                    /\ ~cQueued' => ~cQueued,
           \A n \in Node : FrozenIn(cBody', n) => FrozenIn(cBody, n) /\ cBody'[n].frozen = cBody[n].frozen
    PROVE  SolarOK'
<1>1. Fitting'
  BY DEF SolarOK, Fitting
<1>2. Frozen'
  <2>1. \A i \in 1 .. Len(cIndex) : cIndex[i] \in Node
    BY DEF SolarOK, SolarTypes
  <2> QED
    BY <2>1 DEF SolarOK, Frozen
<1>3. CASE cDirty'
  BY <1>1, <1>2, <1>3 DEF SolarOK, Topology, Looks, Places
<1>4. CASE ~cDirty'
  <2>1. /\ ~cDirty /\ C!In(cBody') = C!In(cBody) /\ C!In(cLinks') = C!In(cLinks)
        /\ cDirty' = cDirty
    BY <1>4
  <2>2. C!Points(cBody') = C!Points(cBody) /\ \A ids : C!Lines(cLinks', ids) = C!Lines(cLinks, ids)
    BY <2>1 DEF C!Points, C!Lines
  <2>3. Topology'
    BY <1>4, <2>1, <2>2 DEF SolarOK, Topology
  <2>4. ~cRaw => \A i \in 1 .. Len(cIndex) : cIndex[i] \in C!In(cBody)
    <3>1. ~cRaw => cIndex = C!Points(cBody)
      BY <2>1 DEF SolarOK, Topology
    <3> QED
      BY <3>1, PointsOf, RangeOf DEF SolarOK, SolarTypes
  <2>5. Looks'
    BY <1>4, <2>1, <2>4 DEF SolarOK, Looks
  <2>6. Places'
    <3>1. ~cBuilt => Len(cIndex) = 0
      BY DEF SolarOK, Topology
    <3>2. CASE ~cBuilt
      BY <3>1, <3>2 DEF Places
    <3>3. CASE cBuilt
      BY <1>4, <2>1, <2>4, <3>3 DEF SolarOK, Places
    <3> QED
      BY <3>2, <3>3
  <2> QED
    BY <1>1, <1>2, <2>3, <2>5, <2>6 DEF SolarOK
<1> QED
  BY <1>3, <1>4 DEF SolarTypes

\* What an act of the app on one node or edge leaves.
LEMMA NodeChanged ==
    ASSUME NEW b \in CBodies, NEW n \in Node, b[n] # None
    PROVE  /\ \A p \in Pos : LET c == [b EXCEPT ![n].pos = p]
                             IN  /\ c \in CBodies /\ C!In(c) = C!In(b)
                                 /\ \A m \in C!In(b) : /\ c[m].frozen = b[m].frozen
                                                       /\ C!Colour(c[m]) = C!Colour(b[m])
           /\ \A s \in Style : LET c == [b EXCEPT ![n].style = s]
                               IN  /\ c \in CBodies /\ C!In(c) = C!In(b)
                                   /\ \A m \in C!In(b) : c[m].frozen = b[m].frozen /\ c[m].pos = b[m].pos
<1>1. \A r \in CNode : \A x :
         /\ [r EXCEPT !.pos = x] = [pos |-> x, style |-> r.style, dim |-> r.dim, frozen |-> r.frozen]
         /\ [r EXCEPT !.style = x] = [pos |-> r.pos, style |-> x, dim |-> r.dim, frozen |-> r.frozen]
  BY DEF CNode
<1>2. None \notin CNode /\ b[n] \in CNode
  BY RenderersAssumption DEF CBodies, CNode
<1>3. ASSUME NEW p \in Pos
      PROVE  LET c == [b EXCEPT ![n].pos = p]
             IN  /\ c \in CBodies /\ C!In(c) = C!In(b)
                 /\ \A m \in C!In(b) : c[m].frozen = b[m].frozen /\ C!Colour(c[m]) = C!Colour(b[m])
  <2> DEFINE r == [pos |-> p, style |-> b[n].style, dim |-> b[n].dim, frozen |-> b[n].frozen]
             c == [b EXCEPT ![n] = r]
  <2>1. [b EXCEPT ![n].pos = p] = c
    <3>1. [b[n] EXCEPT !.pos = p] = r
      BY <1>1, <1>2
    <3> HIDE DEF r
    <3> QED
      BY <3>1
  <2>2. /\ r \in CNode /\ r # None /\ r.frozen = b[n].frozen
        /\ C!Colour(r) = C!Colour(b[n])
    BY <1>2 DEF CNode, C!Colour
  <2> HIDE DEF r
  <2>3. c \in CBodies /\ C!In(c) = C!In(b)
    BY <1>2, <2>2 DEF CBodies, C!In
  <2>4. \A m \in C!In(b) : m \in Node
    BY DEF C!In, CBodies
  <2>5. \A m \in C!In(b) : c[m].frozen = b[m].frozen /\ C!Colour(c[m]) = C!Colour(b[m])
    BY <2>2, <2>4 DEF CBodies
  <2> QED
    BY <2>1, <2>3, <2>5
<1>4. ASSUME NEW s \in Style
      PROVE  LET c == [b EXCEPT ![n].style = s]
             IN  /\ c \in CBodies /\ C!In(c) = C!In(b)
                 /\ \A m \in C!In(b) : c[m].frozen = b[m].frozen /\ c[m].pos = b[m].pos
  <2> DEFINE r == [pos |-> b[n].pos, style |-> s, dim |-> b[n].dim, frozen |-> b[n].frozen]
             c == [b EXCEPT ![n] = r]
  <2>1. [b EXCEPT ![n].style = s] = c
    <3>1. [b[n] EXCEPT !.style = s] = r
      BY <1>1, <1>2
    <3> HIDE DEF r
    <3> QED
      BY <3>1
  <2>2. r \in CNode /\ r # None /\ r.frozen = b[n].frozen /\ r.pos = b[n].pos
    BY <1>2 DEF CNode
  <2> HIDE DEF r
  <2>3. c \in CBodies /\ C!In(c) = C!In(b)
    BY <1>2, <2>2 DEF CBodies, C!In
  <2>4. \A m \in C!In(b) : m \in Node
    BY DEF C!In, CBodies
  <2>5. \A m \in C!In(b) : c[m].frozen = b[m].frozen /\ c[m].pos = b[m].pos
    BY <2>2, <2>4 DEF CBodies
  <2> QED
    BY <2>1, <2>3, <2>5
<1> QED
  BY <1>3, <1>4

LEMMA LinkChanged ==
    ASSUME NEW l \in CLinks, NEW e \in Edge, l[e] # None, NEW s \in Style
    PROVE  [l EXCEPT ![e].style = s] \in CLinks /\ C!In([l EXCEPT ![e].style = s]) = C!In(l)
<1> DEFINE r == [style |-> s, dim |-> l[e].dim]
<1>1. l[e] \in CLink
  BY DEF CLinks
<1>2. \A q \in CLink : [q EXCEPT !.style = s] = [style |-> s, dim |-> q.dim]
  BY DEF CLink
<1>3. [l EXCEPT ![e].style = s] = [l EXCEPT ![e] = r]
  BY <1>1, <1>2
<1>4. r \in CLink /\ r # None
  BY <1>1, RenderersAssumption DEF CLink
<1> HIDE DEF r
<1> QED
  BY <1>3, <1>4 DEF CLinks, C!In

\* Opacity follows the focus or the rectangle; nothing else of a body does.
LEMMA DimsKeep ==
    ASSUME SolarTypes, NEW ns, C!Dims(ns)
    PROVE  /\ cBody' \in CBodies /\ cLinks' \in CLinks
           /\ \A n \in Node : /\ cBody'[n] = None <=> cBody[n] = None
                              /\ cBody[n] # None => /\ cBody'[n].pos = cBody[n].pos
                                                    /\ cBody'[n].frozen = cBody[n].frozen
           /\ \A e \in Edge : cLinks'[e] = None <=> cLinks[e] = None
<1>1. /\ cBody' = [n \in Node |-> IF cBody[n] = None THEN None ELSE [cBody[n] EXCEPT !.dim = n \notin ns]]
      /\ cLinks' = [e \in Edge |-> IF cLinks[e] = None THEN None
                                  ELSE [cLinks[e] EXCEPT !.dim = ~({From[e], To[e]} \subseteq ns)]]
  BY OrdersOf DEF C!Dims
<1>2. None \notin CNode /\ None \notin CLink
  BY RenderersAssumption DEF CNode, CLink
<1>3. \A r \in CNode, d \in BOOLEAN :
         LET q == [r EXCEPT !.dim = d] IN q \in CNode /\ q.pos = r.pos /\ q.frozen = r.frozen
  BY DEF CNode
<1>4. \A r \in CLink, d \in BOOLEAN : [r EXCEPT !.dim = d] \in CLink
  BY DEF CLink
<1>5. ASSUME NEW n \in Node, cBody[n] # None
      PROVE  LET q == [cBody[n] EXCEPT !.dim = n \notin ns]
             IN  q \in CNode /\ q # None /\ q.pos = cBody[n].pos /\ q.frozen = cBody[n].frozen
  <2>1. cBody[n] \in CNode /\ (n \notin ns) \in BOOLEAN
    BY <1>5 DEF SolarTypes, CBodies
  <2> QED
    BY <1>2, <1>3, <2>1
<1>6. ASSUME NEW e \in Edge, cLinks[e] # None
      PROVE  LET q == [cLinks[e] EXCEPT !.dim = ~({From[e], To[e]} \subseteq ns)]
             IN  q \in CLink /\ q # None
  <2>1. cLinks[e] \in CLink /\ (~({From[e], To[e]} \subseteq ns)) \in BOOLEAN
    BY <1>6 DEF SolarTypes, CLinks
  <2> QED
    BY <1>2, <1>4, <2>1
<1>7. cBody' \in CBodies
  BY <1>1, <1>5 DEF CBodies
<1>8. cLinks' \in CLinks
  BY <1>1, <1>6 DEF CLinks
<1> QED
  BY <1>1, <1>5, <1>6, <1>7, <1>8

\* The acts of the app on the DataSets: each of them marks what it touched.
LEMMA AddNodeKeeps ==
    ASSUME SolarOK, NEW n \in Node, NEW p \in Pos, NEW s \in Style, C!AddNode(n, p, s)
    PROVE  SolarOK'
<1> DEFINE r == [pos |-> p, style |-> s, dim |-> FALSE, frozen |-> None]
<1>1. /\ cBody[n] = None /\ cBody' = [cBody EXCEPT ![n] = r]
      /\ cDirty' /\ cTopoTimer' /\ cDirty' \in BOOLEAN /\ cTopoTimer' \in BOOLEAN
      /\ UNCHANGED <<cStyleDirty, cStyleTimer, cIndex, cGpu, cPosDirty, cQueued, cPaint>>
      /\ UNCHANGED <<cLabels, cRaw, cBuilt, cUnpushed, cLinks>>
  BY DEF C!AddNode, C!Marks, C!TopologyMarked, C!DataSetEvent, C!overlay, C!mode
<1>2. r \in CNode /\ r # None /\ r.frozen = None
  <2>1. r \in CNode /\ r.frozen = None
    BY DEF CNode
  <2>2. None \notin CNode
    BY RenderersAssumption DEF CNode
  <2> HIDE DEF r
  <2> QED
    BY <2>1, <2>2
<1> HIDE DEF r
<1>3. SolarTypes'
  BY <1>1, <1>2, SceneAssumption DEF SolarOK, SolarTypes, CBodies
<1>4. \A m \in Node : FrozenIn(cBody', m) => FrozenIn(cBody, m) /\ cBody'[m].frozen = cBody[m].frozen
  BY <1>1, <1>2 DEF FrozenIn, SolarOK, SolarTypes, CBodies
<1> QED
  BY <1>1, <1>3, <1>4, NothingUploaded

LEMMA RemoveNodeKeeps ==
    ASSUME SolarOK, NEW n \in Node, C!RemoveNode(n)
    PROVE  SolarOK'
<1>1. /\ cBody' = [cBody EXCEPT ![n] = None]
      /\ cLinks' = [e \in Edge |-> IF n \in {From[e], To[e]} THEN None ELSE cLinks[e]]
      /\ cDirty' /\ cTopoTimer' /\ cDirty' \in BOOLEAN /\ cTopoTimer' \in BOOLEAN
      /\ UNCHANGED <<cStyleDirty, cStyleTimer, cIndex, cGpu, cPosDirty, cQueued, cPaint>>
      /\ UNCHANGED <<cLabels, cRaw, cBuilt, cUnpushed>>
  BY OrdersOf DEF C!RemoveNode, C!Marks, C!TopologyMarked, C!DataSetEvent, C!overlay, C!mode
<1>2. SolarTypes'
  <2>1. cBody' \in CBodies /\ cLinks' \in CLinks
    BY <1>1 DEF SolarOK, SolarTypes, CBodies, CLinks
  <2>2. ASSUME NEW e \in Edge, cLinks'[e] # None
        PROVE  cBody'[From[e]] # None /\ cBody'[To[e]] # None
    BY <1>1, <2>2, SceneAssumption DEF SolarOK, SolarTypes, CBodies
  <2> QED
    BY <1>1, <2>1, <2>2 DEF SolarOK, SolarTypes
<1>3. \A m \in Node : FrozenIn(cBody', m) => FrozenIn(cBody, m) /\ cBody'[m].frozen = cBody[m].frozen
  BY <1>1 DEF FrozenIn, SolarOK, SolarTypes, CBodies
<1> QED
  BY <1>1, <1>2, <1>3, NothingUploaded

LEMMA AddEdgeKeeps ==
    ASSUME SolarOK, NEW e \in Edge, NEW s \in Style, C!AddEdge(e, s)
    PROVE  SolarOK'
<1> DEFINE r == [style |-> s, dim |-> FALSE]
<1>1. /\ cLinks' = [cLinks EXCEPT ![e] = r] /\ {From[e], To[e]} \subseteq C!In(cBody)
      /\ cDirty' /\ cTopoTimer' /\ cDirty' \in BOOLEAN /\ cTopoTimer' \in BOOLEAN
      /\ UNCHANGED <<cStyleDirty, cStyleTimer, cIndex, cGpu, cPosDirty, cQueued, cPaint>>
      /\ UNCHANGED <<cLabels, cRaw, cBuilt, cUnpushed, cBody>>
  BY DEF C!AddEdge, C!Here, C!Marks, C!TopologyMarked, C!DataSetEvent, C!overlay, C!mode
<1>2. r \in CLink
  BY DEF CLink
<1> HIDE DEF r
<1>3. SolarTypes'
  <2>1. cLinks' \in CLinks
    BY <1>1, <1>2 DEF SolarOK, SolarTypes, CLinks
  <2>2. cBody[From[e]] # None /\ cBody[To[e]] # None
    BY <1>1 DEF C!In
  <2>3. \A d \in Edge : cLinks'[d] # None => cBody'[From[d]] # None /\ cBody'[To[d]] # None
    BY <1>1, <2>2 DEF SolarOK, SolarTypes, CLinks
  <2> QED
    BY <1>1, <2>1, <2>3 DEF SolarOK, SolarTypes
<1>4. \A m \in Node : FrozenIn(cBody', m) => FrozenIn(cBody, m) /\ cBody'[m].frozen = cBody[m].frozen
  BY <1>1 DEF FrozenIn
<1> QED
  BY <1>1, <1>3, <1>4, NothingUploaded

LEMMA RemoveEdgeKeeps ==
    ASSUME SolarOK, NEW e \in Edge, C!RemoveEdge(e)
    PROVE  SolarOK'
<1>1. /\ cLinks' = [cLinks EXCEPT ![e] = None]
      /\ cDirty' /\ cTopoTimer' /\ cDirty' \in BOOLEAN /\ cTopoTimer' \in BOOLEAN
      /\ UNCHANGED <<cStyleDirty, cStyleTimer, cIndex, cGpu, cPosDirty, cQueued, cPaint>>
      /\ UNCHANGED <<cLabels, cRaw, cBuilt, cUnpushed, cBody>>
  BY DEF C!RemoveEdge, C!Marks, C!TopologyMarked, C!DataSetEvent, C!overlay, C!mode
<1>2. SolarTypes'
  BY <1>1 DEF SolarOK, SolarTypes, CLinks
<1>3. \A m \in Node : FrozenIn(cBody', m) => FrozenIn(cBody, m) /\ cBody'[m].frozen = cBody[m].frozen
  BY <1>1 DEF FrozenIn
<1> QED
  BY <1>1, <1>2, <1>3, NothingUploaded

LEMMA RestyleKeeps ==
    ASSUME SolarOK, NEW n \in Node, NEW s \in Style, C!Restyle(n, s)
    PROVE  SolarOK'
<1> DEFINE c == [cBody EXCEPT ![n].style = s]
<1>1. /\ n \in C!In(cBody) /\ cBody' = c
      /\ cStyleDirty' /\ cStyleTimer' /\ cStyleDirty' \in BOOLEAN /\ cStyleTimer' \in BOOLEAN
      /\ UNCHANGED <<cDirty, cTopoTimer, cIndex, cGpu, cPosDirty, cQueued, cPaint>>
      /\ UNCHANGED <<cLabels, cRaw, cBuilt, cUnpushed, cLinks>>
  BY DEF C!Restyle, C!Here, C!Marks, C!StyleMarked, C!DataSetEvent, C!overlay, C!mode
<1>2. cBody[n] # None /\ cBody \in CBodies
  BY <1>1 DEF SolarOK, SolarTypes, C!In
<1>3. /\ c \in CBodies /\ C!In(c) = C!In(cBody)
      /\ \A m \in C!In(cBody) : c[m].frozen = cBody[m].frozen /\ c[m].pos = cBody[m].pos
  BY <1>2, NodeChanged
<1> HIDE DEF c
<1>4. \A m \in Node : cBody'[m] = None <=> cBody[m] = None
  BY <1>1, <1>2, <1>3, HereOf
<1>5. SolarTypes'
  BY <1>1, <1>3, <1>4, SceneAssumption DEF SolarOK, SolarTypes
<1>6. \A m \in Node : FrozenIn(cBody', m) => FrozenIn(cBody, m) /\ cBody'[m].frozen = cBody[m].frozen
  BY <1>1, <1>2, <1>3, <1>4, HereOf DEF FrozenIn
<1>7. cRaw \/ ~cDirty' \/ cTopoTimer'
  BY <1>1 DEF SolarOK, Topology
<1> QED
  BY <1>1, <1>3, <1>5, <1>6, <1>7, NothingUploaded

LEMMA RestyleEdgeKeeps ==
    ASSUME SolarOK, NEW e \in Edge, NEW s \in Style, C!RestyleEdge(e, s)
    PROVE  SolarOK'
<1> DEFINE c == [cLinks EXCEPT ![e].style = s]
<1>1. /\ cLinks[e] # None /\ cLinks' = c
      /\ cStyleDirty' /\ cStyleTimer' /\ cStyleDirty' \in BOOLEAN /\ cStyleTimer' \in BOOLEAN
      /\ UNCHANGED <<cDirty, cTopoTimer, cIndex, cGpu, cPosDirty, cQueued, cPaint>>
      /\ UNCHANGED <<cLabels, cRaw, cBuilt, cUnpushed, cBody>>
  BY DEF C!RestyleEdge, C!Marks, C!StyleMarked, C!DataSetEvent, C!overlay, C!mode
<1>2. c \in CLinks /\ C!In(c) = C!In(cLinks)
  BY <1>1, LinkChanged DEF SolarOK, SolarTypes
<1> HIDE DEF c
<1>3. \A d \in Edge : cLinks'[d] = None <=> cLinks[d] = None
  BY <1>1, <1>2, HereOf DEF SolarOK, SolarTypes
<1>4. SolarTypes'
  BY <1>1, <1>2, <1>3 DEF SolarOK, SolarTypes
<1>5. \A m \in Node : FrozenIn(cBody', m) => FrozenIn(cBody, m) /\ cBody'[m].frozen = cBody[m].frozen
  BY <1>1 DEF FrozenIn
<1>6. cRaw \/ ~cDirty' \/ cTopoTimer'
  BY <1>1 DEF SolarOK, Topology
<1> QED
  BY <1>1, <1>2, <1>4, <1>5, <1>6, NothingUploaded

LEMMA MoveKeeps ==
    ASSUME SolarOK, NEW n \in Node, NEW p \in Pos, C!Move(n, p)
    PROVE  SolarOK'
<1> DEFINE c == [cBody EXCEPT ![n].pos = p]
<1>1. /\ n \in C!In(cBody) /\ cBody' = c /\ cPosDirty' = TRUE /\ cQueued' = (cQueued \/ cBuilt)
      /\ UNCHANGED <<cLinks, cIndex, cGpu, cDirty, cStyleDirty, cTopoTimer, cStyleTimer, cPaint>>
      /\ UNCHANGED <<cLabels, cRaw, cBuilt, cUnpushed>>
  BY DEF C!Move, C!Here, C!MarkSceneDirty, C!Redraw, C!overlay, C!mode
<1>2. cBody[n] # None /\ cBody \in CBodies
  BY <1>1 DEF SolarOK, SolarTypes, C!In
<1>3. /\ c \in CBodies /\ C!In(c) = C!In(cBody)
      /\ \A m \in C!In(cBody) : c[m].frozen = cBody[m].frozen /\ C!Colour(c[m]) = C!Colour(cBody[m])
  BY <1>2, NodeChanged
<1> HIDE DEF c
<1>4. \A m \in Node : cBody'[m] = None <=> cBody[m] = None
  BY <1>1, <1>2, <1>3, HereOf
<1>5. SolarTypes'
  <2>1. cQueued' \in BOOLEAN /\ cPosDirty' \in BOOLEAN
    BY <1>1
  <2> QED
    BY <1>1, <1>3, <1>4, <2>1, SceneAssumption DEF SolarOK, SolarTypes
<1>6. \A m \in Node : FrozenIn(cBody', m) => FrozenIn(cBody, m) /\ cBody'[m].frozen = cBody[m].frozen
  BY <1>1, <1>2, <1>3, <1>4, HereOf DEF FrozenIn
<1>7. cRaw \/ ~cDirty' \/ cTopoTimer'
  BY <1>1 DEF SolarOK, Topology
<1>8. cPosDirty' /\ (cBuilt => cQueued')
  BY <1>1
<1> QED
  BY <1>1, <1>3, <1>5, <1>6, <1>7, <1>8, NothingUploaded

\* What every change of opacity keeps.
LEMMA DimsTypes ==
    ASSUME SolarOK, NEW ns, C!Dims(ns)
    PROVE  /\ cBody' \in CBodies /\ cLinks' \in CLinks
           /\ C!In(cBody') = C!In(cBody) /\ C!In(cLinks') = C!In(cLinks)
           /\ \A e \in Edge : cLinks'[e] # None => cBody'[From[e]] # None /\ cBody'[To[e]] # None
           /\ \A n \in C!In(cBody) : cBody'[n].pos = cBody[n].pos
           /\ \A n \in Node : FrozenIn(cBody', n) =>
                  FrozenIn(cBody, n) /\ cBody'[n].frozen = cBody[n].frozen
<1>1. SolarTypes
  BY DEF SolarOK
<1>2. /\ cBody' \in CBodies /\ cLinks' \in CLinks
      /\ \A n \in Node : /\ cBody'[n] = None <=> cBody[n] = None
                         /\ cBody[n] # None => /\ cBody'[n].pos = cBody[n].pos
                                               /\ cBody'[n].frozen = cBody[n].frozen
      /\ \A e \in Edge : cLinks'[e] = None <=> cLinks[e] = None
  BY <1>1, DimsKeep
<1>3. C!In(cBody') = C!In(cBody) /\ C!In(cLinks') = C!In(cLinks)
  <2>1. C!In(cBody) = {n \in Node : cBody[n] # None} /\ C!In(cLinks) = {e \in Edge : cLinks[e] # None}
    BY <1>1, HereOf DEF SolarTypes
  <2>2. C!In(cBody') = {n \in Node : cBody'[n] # None} /\ C!In(cLinks') = {e \in Edge : cLinks'[e] # None}
    BY <1>2, HereOf
  <2> QED
    BY <1>2, <2>1, <2>2
<1>4. \A e \in Edge : cLinks'[e] # None => cBody'[From[e]] # None /\ cBody'[To[e]] # None
  BY <1>1, <1>2, SceneAssumption DEF SolarTypes
<1>5. \A n \in C!In(cBody) : cBody'[n].pos = cBody[n].pos
  BY <1>1, <1>2, HereOf DEF SolarTypes
<1>6. \A n \in Node : FrozenIn(cBody', n) =>
          FrozenIn(cBody, n) /\ cBody'[n].frozen = cBody[n].frozen
  BY <1>2 DEF FrozenIn
<1> QED
  BY <1>2, <1>3, <1>4, <1>5, <1>6

LEMMA FocusKeeps ==
    ASSUME SolarOK, NEW ns, C!Focus(ns)
    PROVE  SolarOK'
<1>1. /\ C!Dims(ns) /\ cPosDirty' = TRUE /\ cQueued' = (cQueued \/ cBuilt)
      /\ cStyleDirty' = TRUE /\ cStyleTimer' = TRUE
      /\ UNCHANGED <<cIndex, cGpu, cDirty, cTopoTimer, cPaint>>
      /\ UNCHANGED <<cLabels, cRaw, cBuilt, cUnpushed>>
  BY DEF C!Focus, C!StyleMarked, C!MarkSceneDirty, C!Redraw, C!overlay, C!mode
<1>2. /\ cBody' \in CBodies /\ cLinks' \in CLinks
      /\ C!In(cBody') = C!In(cBody) /\ C!In(cLinks') = C!In(cLinks)
      /\ \A e \in Edge : cLinks'[e] # None => cBody'[From[e]] # None /\ cBody'[To[e]] # None
      /\ \A n \in Node : FrozenIn(cBody', n) =>
             FrozenIn(cBody, n) /\ cBody'[n].frozen = cBody[n].frozen
  BY <1>1, DimsTypes
<1>3. SolarTypes'
  <2>1. cQueued' \in BOOLEAN /\ cPosDirty' \in BOOLEAN /\ cStyleDirty' \in BOOLEAN /\ cStyleTimer' \in BOOLEAN
    BY <1>1
  <2> QED
    BY <1>1, <1>2, <2>1 DEF SolarOK, SolarTypes
<1>4. cRaw \/ ~cDirty' \/ cTopoTimer'
  BY <1>1 DEF SolarOK, Topology
<1>5. cPosDirty' /\ (cBuilt => cQueued')
  BY <1>1
<1> QED
  BY <1>1, <1>2, <1>3, <1>4, <1>5, NothingUploaded

LEMMA RectSelectKeeps ==
    ASSUME SolarOK, NEW ns, C!RectSelect(ns)
    PROVE  SolarOK'
<1> DEFINE shown == IF ns = {} THEN Node ELSE ns
<1>1. /\ C!Dims(shown) /\ cQueued' = (cQueued \/ cBuilt)
      /\ cStyleDirty' = TRUE /\ cUnpushed' = TRUE
      /\ UNCHANGED <<cIndex, cGpu, cDirty, cPosDirty, cTopoTimer, cStyleTimer, cPaint>>
      /\ UNCHANGED <<cLabels, cRaw, cBuilt>>
  BY OrdersOf DEF C!RectSelect, C!Redraw, C!mode
<1> HIDE DEF shown
<1>2. /\ cBody' \in CBodies /\ cLinks' \in CLinks
      /\ C!In(cBody') = C!In(cBody) /\ C!In(cLinks') = C!In(cLinks)
      /\ \A e \in Edge : cLinks'[e] # None => cBody'[From[e]] # None /\ cBody'[To[e]] # None
      /\ \A n \in C!In(cBody) : cBody'[n].pos = cBody[n].pos
      /\ \A n \in Node : FrozenIn(cBody', n) =>
             FrozenIn(cBody, n) /\ cBody'[n].frozen = cBody[n].frozen
  BY <1>1, DimsTypes
<1>3. SolarTypes'
  <2>1. cQueued' \in BOOLEAN /\ cStyleDirty' \in BOOLEAN
    BY <1>1
  <2> QED
    BY <1>1, <1>2, <2>1 DEF SolarOK, SolarTypes
<1>4. cRaw \/ ~cDirty' \/ cTopoTimer'
  BY <1>1 DEF SolarOK, Topology
<1>5. ~cQueued' => ~cQueued
  BY <1>1
<1> QED
  BY <1>1, <1>2, <1>3, <1>4, <1>5, NothingUploaded

LEMMA ClickKeeps ==
    ASSUME SolarOK, NEW i, C!Click(i)
    PROVE  SolarOK'
<1>1. /\ \/ /\ C!Dims(Node) /\ cStyleDirty' = TRUE /\ cQueued' = (cQueued \/ cBuilt) /\ cUnpushed' = TRUE
         \/ UNCHANGED <<cBody, cLinks, cStyleDirty, cQueued, cUnpushed>>
      /\ cPaint' = TRUE /\ C!UpdateLabels
      /\ UNCHANGED <<cIndex, cGpu, cDirty, cPosDirty, cTopoTimer, cStyleTimer, cRaw, cBuilt>>
  BY OrdersOf DEF C!Click, C!Redraw, C!mode
<1>2. /\ cBody' \in CBodies /\ cLinks' \in CLinks
      /\ C!In(cBody') = C!In(cBody) /\ C!In(cLinks') = C!In(cLinks)
      /\ \A e \in Edge : cLinks'[e] # None => cBody'[From[e]] # None /\ cBody'[To[e]] # None
      /\ \A n \in C!In(cBody) : cBody'[n].pos = cBody[n].pos
      /\ \A n \in Node : FrozenIn(cBody', n) =>
             FrozenIn(cBody, n) /\ cBody'[n].frozen = cBody[n].frozen
  <2>1. CASE C!Dims(Node)
    BY <2>1, DimsTypes
  <2>2. CASE UNCHANGED <<cBody, cLinks>>
    BY <2>2 DEF SolarOK, SolarTypes
  <2> QED
    BY <1>1, <2>1, <2>2
<1>3. cIndex' \in Seq(Node) /\ cGpu'.link \in Seq(Edge)
  BY <1>1 DEF SolarOK, SolarTypes
<1>4. cLabels' \subseteq C!In(cBody') \cup C!In(cLinks') /\ cLabels' \subseteq Node \cup Edge
  BY <1>1, <1>2, <1>3, LabelsOf
<1>5. SolarTypes'
  <2>1. cQueued' \in BOOLEAN /\ cStyleDirty' \in BOOLEAN /\ cPaint' \in BOOLEAN
    BY <1>1 DEF SolarOK, SolarTypes
  <2> QED
    BY <1>1, <1>2, <1>4, <2>1 DEF SolarOK, SolarTypes
<1>6. cRaw \/ ~cDirty' \/ cTopoTimer'
  BY <1>1 DEF SolarOK, Topology
<1>7. ~cQueued' => ~cQueued
  BY <1>1
<1>8. \/ cUnpushed'
      \/ /\ \A n \in C!In(cBody) : C!Colour(cBody'[n]) = C!Colour(cBody[n])
         /\ UNCHANGED <<cLinks, cStyleDirty, cStyleTimer, cUnpushed>>
  BY <1>1
<1> QED
  BY <1>1, <1>2, <1>4, <1>5, <1>6, <1>7, <1>8, NothingUploaded

\* What changes neither the scene nor its marks.
LEMMA SceneAlone ==
    ASSUME SolarOK,
           UNCHANGED <<cBody, cLinks, cIndex, cGpu, cDirty, cStyleDirty, cPosDirty, cRaw, cBuilt>>,
           UNCHANGED <<cStyleTimer, cUnpushed>>, cTopoTimer' \in BOOLEAN, cTopoTimer' \/ ~cTopoTimer \/ cRaw \/ ~cDirty,
           cQueued' \in BOOLEAN, cQueued => cQueued', cPaint' \in BOOLEAN,
           cLabels' = cLabels \/ C!UpdateLabels
    PROVE  SolarOK'
<1>1. cLabels' = cLabels \/ /\ cLabels' \subseteq C!In(cBody') \cup C!In(cLinks')
                            /\ cLabels' \subseteq Node \cup Edge
  <2>1. cBody' \in CBodies /\ cLinks' \in CLinks /\ cIndex' \in Seq(Node) /\ cGpu'.link \in Seq(Edge)
    BY DEF SolarOK, SolarTypes
  <2> QED
    BY <2>1, LabelsOf
<1>2. SolarTypes'
  BY <1>1 DEF SolarOK, SolarTypes
<1>3. \A n \in Node : FrozenIn(cBody', n) => FrozenIn(cBody, n) /\ cBody'[n].frozen = cBody[n].frozen
  BY DEF FrozenIn
<1>4. cRaw \/ ~cDirty' \/ cTopoTimer'
  BY DEF SolarOK, Topology
<1>5. ~cQueued' => ~cQueued
  OBVIOUS
<1>6. cDirty' = cDirty /\ C!In(cBody') = C!In(cBody) /\ C!In(cLinks') = C!In(cLinks)
  OBVIOUS
<1>7. /\ \A n \in C!In(cBody) : C!Colour(cBody'[n]) = C!Colour(cBody[n])
      /\ \A n \in C!In(cBody) : cBody'[n].pos = cBody[n].pos
      /\ UNCHANGED <<cLinks, cStyleDirty, cStyleTimer, cUnpushed>>
  OBVIOUS
<1> QED
  BY <1>1, <1>2, <1>3, <1>4, <1>5, <1>6, <1>7, NothingUploaded

LEMMA OverlayKeeps ==
    ASSUME SolarOK,
           \/ \E i \in 0 .. Len(cIndex) : C!Hover(i)
           \/ C!Zoom \/ (\E fl : C!Spawn(fl)) \/ C!ParticleFrame \/ UNCHANGED cosmosVars
    PROVE  SolarOK'
<1>1. /\ UNCHANGED <<cBody, cLinks, cIndex, cGpu, cDirty, cStyleDirty, cPosDirty, cRaw, cBuilt>>
      /\ UNCHANGED <<cStyleTimer, cUnpushed, cTopoTimer>>
      /\ cQueued' = cQueued \/ cQueued' = (cQueued \/ cBuilt)
      /\ cPaint' = cPaint \/ cPaint' = TRUE
      /\ cLabels' = cLabels \/ C!UpdateLabels
  <2>1. CASE \E i \in 0 .. Len(cIndex) : C!Hover(i)
    BY <2>1 DEF C!Hover, C!scene, C!flags, C!mode
  <2>2. CASE C!Zoom
    BY <2>2 DEF C!Zoom, C!scene, C!Redraw, C!mode
  <2>3. CASE \E fl : C!Spawn(fl)
    BY <2>3 DEF C!Spawn, C!scene, C!flags, C!overlay, C!mode
  <2>4. CASE C!ParticleFrame
    BY <2>4 DEF C!ParticleFrame, C!scene, C!flags, C!overlay, C!mode
  <2>5. CASE UNCHANGED cosmosVars
    BY <2>5 DEF cosmosVars
  <2> QED
    BY <2>1, <2>2, <2>3, <2>4, <2>5
<1>2. cQueued' \in BOOLEAN /\ (cQueued => cQueued') /\ cPaint' \in BOOLEAN /\ cTopoTimer' \in BOOLEAN
  <2>1. cQueued \in BOOLEAN /\ cPaint \in BOOLEAN /\ cTopoTimer \in BOOLEAN
    BY DEF SolarOK, SolarTypes
  <2> QED
    BY <1>1, <2>1, Zenon
<1> QED
  BY <1>1, <1>2, SceneAlone

LEMMA NoMembers ==
    ASSUME NEW S, NEW s \in Seq(S), Range(s) = {}
    PROVE  s = <<>>
<1>1. Len(s) \in Nat /\ ~ (1 \in 1 .. Len(s))
  BY RangeOf
<1>2. Len(s) = 0
  BY <1>1
<1> QED
  BY <1>2

\* Without points no link has an index for its ends.
LEMMA NoPointsNoLines ==
    ASSUME NEW l
    PROVE  C!Lines(l, <<>>) = <<>>
<1>1. Range(<<>>) = {}
  BY DEF Range
<1>2. C!Lines(l, <<>>) \in Seq(Edge) /\ Range(C!Lines(l, <<>>)) = {}
  BY <1>1, LinesOf
<1> QED
  BY <1>2, NoMembers

\* A rebuild uploads the bodies as they are.
LEMMA RebuildKeeps ==
    ASSUME SolarOK, C!TopoFires, cDirty, ~cRaw
    PROVE  SolarOK'
<1> DEFINE ids == C!Points(cBody)
           ls == C!Lines(cLinks, ids)
           at == [i \in DOMAIN ids |-> cBody[ids[i]].pos]
           colours == [i \in DOMAIN ids |-> C!Colour(cBody[ids[i]])]
           sizes == [i \in DOMAIN ids |-> C!FrozenSize(cBody, ids[i])]
           looks == [i \in DOMAIN ls |-> C!Colour(cLinks[ls[i]])]
<1>1. /\ cDirty' = FALSE /\ cStyleDirty' = FALSE /\ cTopoTimer' = FALSE /\ cUnpushed' = FALSE
      /\ cIndex' = ids /\ cGpu' = C!Arrays(cBody, cLinks)
      /\ cBody' = [n \in Node |-> IF cBody[n] = None THEN None
                                 ELSE [cBody[n] EXCEPT !.frozen = C!FrozenSize(cBody, n)]]
      /\ cBuilt' = (cBuilt \/ C!In(cBody) # {})
      /\ UNCHANGED <<cLinks, cPosDirty, cStyleTimer, cQueued, cPaint, cRaw>>
      /\ C!UpdateLabels
  BY OrdersOf DEF C!TopoFires, C!Rebuild, C!Here
<1>2. cGpu' = [pos |-> at, colour |-> colours, size |-> sizes, link |-> ls, linkColour |-> looks]
  BY <1>1 DEF C!Arrays, C!Map
<1>3. cGpu'.pos = at /\ cGpu'.colour = colours /\ cGpu'.size = sizes /\ cGpu'.link = ls /\ cGpu'.linkColour = looks
  BY <1>2
<1>4. cBody \in CBodies /\ cLinks \in CLinks
  BY DEF SolarOK, SolarTypes
<1>5. ids \in Seq(Node) /\ ls \in Seq(Edge) /\ Range(ids) = C!In(cBody)
  BY <1>4, PointsOf, LinesOf
<1>6. \A i \in 1 .. Len(ids) : ids[i] \in Node /\ cBody[ids[i]] # None
  BY <1>4, <1>5, RangeOf, HereOf
<1>7. DOMAIN ids = 1 .. Len(ids) /\ DOMAIN ls = 1 .. Len(ls) /\ Len(ids) \in Nat /\ Len(ls) \in Nat
  BY <1>5
<1>8. ASSUME NEW n \in Node, cBody[n] # None
      PROVE  LET q == [cBody[n] EXCEPT !.frozen = C!FrozenSize(cBody, n)]
             IN  /\ q \in CNode /\ q # None /\ q.pos = cBody[n].pos
                 /\ C!Colour(q) = C!Colour(cBody[n]) /\ q.frozen = C!FrozenSize(cBody, n)
  <2>1. C!FrozenSize(cBody, n) \in Nat
    BY <1>4, <1>8, HereOf, SizeIsNat
  <2>2. cBody[n] \in CNode /\ None \notin CNode
    BY <1>4, <1>8, RenderersAssumption DEF CBodies, CNode
  <2>3. \A r \in CNode, k \in Nat :
           LET q == [r EXCEPT !.frozen = k]
           IN  q \in CNode /\ q.pos = r.pos /\ C!Colour(q) = C!Colour(r) /\ q.frozen = k
    BY DEF CNode, C!Colour
  <2> QED
    BY <2>1, <2>2, <2>3
<1> HIDE DEF ids, ls
<1>9. /\ cBody' \in CBodies
      /\ \A n \in Node : /\ cBody'[n] = None <=> cBody[n] = None
                         /\ cBody[n] # None => /\ cBody'[n].pos = cBody[n].pos
                                               /\ C!Colour(cBody'[n]) = C!Colour(cBody[n])
                                               /\ cBody'[n].frozen = C!FrozenSize(cBody, n)
  <2>1. \A n \in Node : cBody'[n] \in CNode \cup {None}
    BY <1>1, <1>8
  <2> QED
    BY <1>1, <1>8, <2>1 DEF CBodies
<1>10. at \in Seq(Pos)
  <2>1. \A i \in 1 .. Len(ids) : cBody[ids[i]].pos \in Pos
    BY <1>4, <1>6 DEF CBodies, CNode
  <2>2. at \in [1 .. Len(ids) -> Pos]
    BY <1>7, <2>1
  <2> QED
    BY <1>7, <2>2
<1>11. cLabels' \subseteq C!In(cBody') \cup C!In(cLinks') /\ cLabels' \subseteq Node \cup Edge
  <2>1. cIndex' \in Seq(Node) /\ cGpu'.link \in Seq(Edge) /\ cLinks' \in CLinks
    BY <1>1, <1>3, <1>4, <1>5
  <2> QED
    BY <1>1, <1>9, <2>1, LabelsOf
<1>12. SolarTypes'
  <2>1. cGpu' = [pos |-> cGpu'.pos, colour |-> cGpu'.colour, size |-> cGpu'.size,
                 link |-> cGpu'.link, linkColour |-> cGpu'.linkColour]
    BY <1>2, <1>3
  <2>2. \A e \in Edge : cLinks'[e] # None => cBody'[From[e]] # None /\ cBody'[To[e]] # None
    BY <1>1, <1>9, SceneAssumption DEF SolarOK, SolarTypes
  <2>3. /\ cDirty' \in BOOLEAN /\ cStyleDirty' \in BOOLEAN /\ cTopoTimer' \in BOOLEAN /\ cBuilt' \in BOOLEAN
        /\ cPosDirty' \in BOOLEAN /\ cStyleTimer' \in BOOLEAN /\ cQueued' \in BOOLEAN
        /\ cPaint' \in BOOLEAN /\ cRaw' \in BOOLEAN
    BY <1>1 DEF SolarOK, SolarTypes
  <2>4. cIndex' \in Seq(Node) /\ cLinks' \in CLinks /\ cGpu'.pos \in Seq(Pos) /\ cGpu'.link \in Seq(Edge)
    BY <1>1, <1>3, <1>4, <1>5, <1>10
  <2> HIDE DEF at, colours, sizes, looks
  <2> QED
    BY <1>9, <1>11, <2>1, <2>2, <2>3, <2>4 DEF SolarTypes
<1>13. Fitting'
  BY <1>1, <1>3, <1>7 DEF Fitting, Fitted
<1>14. Topology'
  <2>1. C!In(cBody') = C!In(cBody)
    BY <1>4, <1>9, HereOf
  <2>2. C!Points(cBody') = ids
    BY <2>1 DEF C!Points, ids
  <2>3. ~cBuilt' => ids = <<>> /\ ls = <<>>
    <3>1. ~cBuilt' => ids = <<>>
      BY <1>1, <1>5, NoMembers
    <3> QED
      BY <3>1, NoPointsNoLines DEF ls
  <2>4. cGpu'.link = C!Lines(cLinks', cIndex')
    BY <1>1, <1>3 DEF ls
  <2> QED
    BY <1>1, <1>3, <1>11, <2>2, <2>3, <2>4 DEF Topology
<1>15. Looks'
  BY <1>1, <1>3, <1>6, <1>7, <1>9 DEF Looks
<1>16. Places'
  BY <1>1, <1>3, <1>6, <1>7, <1>9 DEF Places
<1>17. Frozen'
  BY <1>1, <1>3, <1>6, <1>7, <1>9 DEF Frozen
<1> QED
  BY <1>12, <1>13, <1>14, <1>15, <1>16, <1>17 DEF SolarOK

LEMMA TopoFiresKeeps == ASSUME SolarOK, C!TopoFires PROVE SolarOK'
<1>1. CASE cDirty /\ ~cRaw
  BY <1>1, RebuildKeeps
<1>2. CASE ~ (cDirty /\ ~cRaw)
  <2>1. /\ UNCHANGED <<cBody, cLinks, cIndex, cGpu, cDirty, cStyleDirty, cPosDirty, cRaw, cBuilt>>
        /\ UNCHANGED <<cStyleTimer, cUnpushed, cQueued, cPaint, cLabels>> /\ cTopoTimer' = FALSE
    BY <1>2 DEF C!TopoFires, C!scene, C!overlay
  <2>2. cQueued' \in BOOLEAN /\ cPaint' \in BOOLEAN /\ cTopoTimer' \in BOOLEAN
    BY <2>1 DEF SolarOK, SolarTypes
  <2>3. cTopoTimer' \/ ~cTopoTimer \/ cRaw \/ ~cDirty
    BY <1>2
  <2> QED
    BY <2>1, <2>2, <2>3, SceneAlone
<1> QED
  BY <1>1, <1>2

\* Before the first rebuild nothing is drawn; without one awaited the points
\* and links on the GPU are of bodies.
LEMMA DrawnIsThere ==
    ASSUME SolarOK
    PROVE  /\ ~cRaw /\ ~cDirty => /\ \A i \in 1 .. Len(cIndex) : /\ cIndex[i] \in Node
                                                                /\ cBody[cIndex[i]] # None
                                  /\ cGpu.link = C!Lines(cLinks, cIndex)
           /\ ~cBuilt \/ (~cRaw /\ ~cDirty /\ cIndex = <<>>) => Len(cIndex) = 0 /\ Len(cGpu.link) = 0
<1>1. ~cRaw /\ ~cDirty => \A i \in 1 .. Len(cIndex) : cIndex[i] \in C!In(cBody)
  <2>1. ~cRaw /\ ~cDirty => cIndex = C!Points(cBody)
    BY DEF SolarOK, Topology
  <2> QED
    BY <2>1, PointsOf, RangeOf DEF SolarOK, SolarTypes
<1>2. \A n \in C!In(cBody) : n \in Node /\ cBody[n] # None
  BY HereOf DEF SolarOK, SolarTypes
<1>3. ~cRaw /\ ~cDirty => cGpu.link = C!Lines(cLinks, cIndex)
  BY DEF SolarOK, Topology
<1>4. ~cBuilt \/ (~cRaw /\ ~cDirty /\ cIndex = <<>>) => cIndex = <<>> /\ cGpu.link = <<>>
  BY <1>3, NoPointsNoLines DEF SolarOK, Topology
<1> QED
  BY <1>1, <1>2, <1>3, <1>4

LEMMA StyleFiresKeeps == ASSUME SolarOK, C!StyleFires PROVE SolarOK'
<1>1. /\ cStyleTimer' = FALSE
      /\ UNCHANGED <<cBody, cLinks, cIndex, cDirty, cPosDirty, cTopoTimer, cQueued, cPaint>>
      /\ UNCHANGED <<cLabels, cRaw, cBuilt>>
      /\ IF cStyleDirty /\ ~cDirty /\ ~cRaw /\ cBuilt THEN C!PushColours
         ELSE UNCHANGED <<cGpu, cStyleDirty, cUnpushed>>
  BY DEF C!StyleFires, C!StyleDue, C!overlay, C!mode
<1>2. CASE UNCHANGED cGpu
  <2>1. cStyleDirty' \in BOOLEAN /\ cStyleTimer' \in BOOLEAN
    BY <1>1 DEF SolarOK, SolarTypes, C!PushColours
  <2>2. SolarTypes' /\ Fitting' /\ Places' /\ Frozen'
    BY <1>1, <1>2, <2>1 DEF SolarOK, SolarTypes, Fitting, Places, Frozen
  <2>3. Topology'
    BY <1>1, <1>2 DEF SolarOK, Topology
  <2>4. Looks'
    <3>1. CASE cStyleDirty /\ ~cDirty /\ ~cRaw /\ cBuilt
      <4>1. CASE cIndex = <<>>
        <5>1. Len(cIndex') = 0 /\ Len(cGpu'.link) = 0
          BY <1>1, <1>2, <3>1, <4>1, DrawnIsThere
        <5> QED
          BY <5>1 DEF Looks
      <4>2. CASE cIndex # <<>>
        <5>1. /\ cGpu' = [cGpu EXCEPT !.colour = C!PointColours, !.linkColour = C!LinkColours]
              /\ cStyleDirty' = FALSE
          BY <1>1, <3>1, <4>2 DEF C!PushColours
        <5>2. /\ cGpu'.colour = C!PointColours /\ cGpu'.linkColour = C!LinkColours
              /\ cGpu'.link = cGpu.link
          BY <5>1 DEF SolarOK, SolarTypes
        <5>3. /\ \A i \in 1 .. Len(cIndex) : cIndex[i] \in Node /\ cBody[cIndex[i]] # None
              /\ cGpu.link = C!Lines(cLinks, cIndex)
          BY <3>1, DrawnIsThere
        <5>4. DOMAIN cIndex = 1 .. Len(cIndex) /\ DOMAIN cGpu.link = 1 .. Len(cGpu.link)
          BY DEF SolarOK, SolarTypes
        <5>5. /\ \A i \in 1 .. Len(cIndex) : cGpu'.colour[i] = C!Colour(cBody[cIndex[i]])
              /\ \A i \in 1 .. Len(cGpu.link) : cGpu'.linkColour[i] = C!Colour(cLinks[cGpu.link[i]])
          BY <5>2, <5>3, <5>4 DEF C!PointColours, C!LinkColours, C!Map
        <5> QED
          BY <1>1, <1>2, <5>5 DEF Looks
      <4> QED
        BY <4>1, <4>2
    <3>2. CASE ~ (cStyleDirty /\ ~cDirty /\ ~cRaw /\ cBuilt)
      <4>1. UNCHANGED <<cStyleDirty, cUnpushed>>
        BY <1>1, <3>2
      <4>2. CASE cBuilt
        BY <1>1, <1>2, <3>2, <4>1, <4>2 DEF SolarOK, Looks
      <4>3. CASE ~cBuilt
        <5>1. Len(cIndex') = 0 /\ Len(cGpu'.link) = 0
          BY <1>1, <1>2, <4>3, DrawnIsThere
        <5> QED
          BY <5>1 DEF Looks
      <4> QED
        BY <4>2, <4>3
    <3> QED
      BY <3>1, <3>2
  <2> QED
    BY <2>2, <2>3, <2>4 DEF SolarOK
<1>3. CASE ~UNCHANGED cGpu
  <2>1. /\ cStyleDirty /\ ~cDirty /\ ~cRaw /\ cStyleDirty' = FALSE
        /\ cGpu' = [cGpu EXCEPT !.colour = C!PointColours, !.linkColour = C!LinkColours]
    BY <1>1, <1>3 DEF C!PushColours
  <2>2. cGpu' = [pos |-> cGpu.pos, colour |-> C!PointColours, size |-> cGpu.size,
                 link |-> cGpu.link, linkColour |-> C!LinkColours]
    <3>1. cGpu = [pos |-> cGpu.pos, colour |-> cGpu.colour, size |-> cGpu.size,
                  link |-> cGpu.link, linkColour |-> cGpu.linkColour]
      BY DEF SolarOK, SolarTypes
    <3> QED
      BY <2>1, <3>1
  <2>3. /\ \A i \in 1 .. Len(cIndex) : cIndex[i] \in Node /\ cBody[cIndex[i]] # None
        /\ cGpu.link = C!Lines(cLinks, cIndex)
    BY <2>1, DrawnIsThere
  <2>4. DOMAIN cIndex = 1 .. Len(cIndex) /\ DOMAIN cGpu.link = 1 .. Len(cGpu.link)
    BY DEF SolarOK, SolarTypes
  <2>5. /\ cGpu'.colour = [i \in 1 .. Len(cIndex) |-> C!Colour(cBody[cIndex[i]])]
        /\ cGpu'.linkColour = [i \in 1 .. Len(cGpu.link) |-> C!Colour(cLinks[cGpu.link[i]])]
        /\ cGpu'.pos = cGpu.pos /\ cGpu'.size = cGpu.size /\ cGpu'.link = cGpu.link
    <3>1. C!PointColours = [i \in 1 .. Len(cIndex) |-> C!Colour(cBody[cIndex[i]])]
      BY <2>3, <2>4 DEF C!PointColours, C!Map
    <3>2. C!LinkColours = [i \in 1 .. Len(cGpu.link) |-> C!Colour(cLinks[cGpu.link[i]])]
      BY <2>3, <2>4 DEF C!LinkColours, C!Map
    <3> QED
      BY <2>2, <3>1, <3>2
  <2>6. SolarTypes'
    <3>1. cGpu' = [pos |-> cGpu'.pos, colour |-> cGpu'.colour, size |-> cGpu'.size,
                   link |-> cGpu'.link, linkColour |-> cGpu'.linkColour]
      BY <2>2
    <3>2. cStyleDirty' \in BOOLEAN /\ cStyleTimer' \in BOOLEAN
      BY <1>1, <2>1
    <3> QED
      BY <1>1, <2>5, <3>1, <3>2 DEF SolarOK, SolarTypes
  <2>7. Fitting'
    BY <1>1, <2>5 DEF SolarOK, Fitting, Fitted
  <2>8. Topology' /\ Places' /\ Frozen'
    BY <1>1, <2>5 DEF SolarOK, Topology, Places, Frozen
  <2>9. Looks'
    BY <1>1, <2>5 DEF Looks
  <2> QED
    BY <2>6, <2>7, <2>8, <2>9 DEF SolarOK
<1> QED
  BY <1>2, <1>3

LEMMA FrameKeeps == ASSUME SolarOK, C!Frame PROVE SolarOK'
<1> DEFINE at == [i \in DOMAIN cIndex |->
                     IF cBody[cIndex[i]] = None THEN cGpu.pos[i] ELSE cBody[cIndex[i]].pos]
           moved == cPosDirty /\ ~cRaw /\ cBuilt /\ at # cGpu.pos
<1>1. /\ cQueued' = FALSE /\ cPosDirty' = FALSE /\ cPaint' = (moved /\ cPaint)
      /\ cGpu' = IF moved THEN [cGpu EXCEPT !.pos = at] ELSE cGpu
      /\ UNCHANGED <<cBody, cLinks, cIndex, cDirty, cStyleDirty, cTopoTimer, cStyleTimer>>
      /\ UNCHANGED <<cRaw, cBuilt, cUnpushed>>
      /\ C!UpdateLabels \/ cLabels' = cLabels
  BY DEF C!Frame, C!mode
<1>2. DOMAIN cIndex = 1 .. Len(cIndex) /\ Len(cIndex) \in Nat /\ \A i \in 1 .. Len(cIndex) : cIndex[i] \in Node
  BY DEF SolarOK, SolarTypes
<1>3. cGpu.pos = [i \in 1 .. Len(cIndex) |-> cGpu.pos[i]] /\ cGpu.pos \in Seq(Pos)
  BY DEF SolarOK, SolarTypes, Fitting, Fitted
<1>4. at = [i \in 1 .. Len(cIndex) |-> at[i]] /\ at \in Seq(Pos)
  <2>1. \A i \in 1 .. Len(cIndex) : cGpu.pos[i] \in Pos
    <3>1. DOMAIN cGpu.pos = 1 .. Len(cIndex)
      BY <1>3
    <3> QED
      BY <1>3, <3>1
  <2>2. \A i \in 1 .. Len(cIndex) : cBody[cIndex[i]] # None => cBody[cIndex[i]].pos \in Pos
    BY <1>2 DEF SolarOK, SolarTypes, CBodies, CNode
  <2>3. at \in [1 .. Len(cIndex) -> Pos]
    BY <1>2, <2>1, <2>2
  <2> QED
    BY <1>2, <2>3
<1>5. /\ cGpu'.pos = (IF moved THEN at ELSE cGpu.pos)
      /\ cGpu'.colour = cGpu.colour /\ cGpu'.size = cGpu.size /\ cGpu'.link = cGpu.link
      /\ cGpu'.linkColour = cGpu.linkColour
      /\ cGpu' = [pos |-> cGpu'.pos, colour |-> cGpu'.colour, size |-> cGpu'.size,
                  link |-> cGpu'.link, linkColour |-> cGpu'.linkColour]
  <2>1. cGpu = [pos |-> cGpu.pos, colour |-> cGpu.colour, size |-> cGpu.size,
                link |-> cGpu.link, linkColour |-> cGpu.linkColour]
    BY DEF SolarOK, SolarTypes
  <2> HIDE DEF at
  <2> QED
    BY <1>1, <2>1
<1>6. Places'
  <2>1. CASE cRaw \/ cDirty
    BY <1>1, <2>1 DEF Places
  <2>2. CASE ~cRaw /\ ~cDirty
    <3>1. \A i \in 1 .. Len(cIndex) : cBody[cIndex[i]] # None
      BY <2>2, DrawnIsThere
    <3>2. \A i \in 1 .. Len(cIndex) : at[i] = cBody[cIndex[i]].pos
      BY <1>2, <3>1
    <3>3. CASE moved \/ at = cGpu.pos
      <4>1. cGpu'.pos = at
        BY <1>5, <3>3
      <4> HIDE DEF at
      <4> QED
        BY <1>1, <3>2, <4>1 DEF Places
    <3>4. CASE ~cBuilt
      <4>1. Len(cIndex') = 0
        BY <1>1, <3>4, DrawnIsThere
      <4> QED
        BY <4>1 DEF Places
    <3>5. CASE ~cPosDirty
      <4>1. cGpu'.pos = cGpu.pos
        BY <1>5, <3>5
      <4> QED
        BY <1>1, <2>2, <3>5, <4>1 DEF SolarOK, Places
    <3> QED
      BY <2>2, <3>3, <3>4, <3>5
  <2> QED
    BY <2>1, <2>2
<1>7. cPaint' \in BOOLEAN
  BY <1>1 DEF SolarOK, SolarTypes
<1> HIDE DEF at, moved
<1>8. cLabels' = cLabels \/ /\ cLabels' \subseteq C!In(cBody') \cup C!In(cLinks')
                            /\ cLabels' \subseteq Node \cup Edge
  <2>1. cBody' \in CBodies /\ cLinks' \in CLinks /\ cIndex' \in Seq(Node) /\ cGpu'.link \in Seq(Edge)
    BY <1>1, <1>5 DEF SolarOK, SolarTypes
  <2> QED
    BY <1>1, <2>1, LabelsOf
<1>9. SolarTypes'
  <2>1. cGpu'.pos \in Seq(Pos) /\ cGpu'.link \in Seq(Edge)
    BY <1>3, <1>4, <1>5 DEF SolarOK, SolarTypes
  <2> QED
    BY <1>1, <1>5, <1>7, <1>8, <2>1 DEF SolarOK, SolarTypes
<1>10. Fitting'
  <2>1. Fitted(cGpu'.pos, cIndex)
    BY <1>3, <1>4, <1>5 DEF Fitted
  <2> QED
    BY <1>1, <1>5, <2>1 DEF SolarOK, Fitting
<1>11. Topology' /\ Looks' /\ Frozen'
  BY <1>1, <1>5, <1>8 DEF SolarOK, Topology, Looks, Frozen
<1> QED
  BY <1>6, <1>9, <1>10, <1>11 DEF SolarOK

\* The first frame of the raw topology: from now on the arrays are its own.
LEMMA SetRawTopologyKeeps ==
    ASSUME SolarOK, NEW ns \in SUBSET Node, C!SetRawTopology(ns)
    PROVE  SolarOK'
<1> DEFINE ids == C!Among(NodeOrder, ns)
           at(n) == IF \E i \in DOMAIN cIndex : cIndex[i] = n
                    THEN cGpu.pos[CHOOSE i \in DOMAIN cIndex : cIndex[i] = n] ELSE C!Min(Pos)
           ls == C!Lines([e \in C!Edges |-> C!Min({s.value : s \in Style})], ids)
           fresh == CHOOSE s \in Style : TRUE
           place == [i \in DOMAIN ids |-> at(ids[i])]
           colours == [i \in DOMAIN ids |-> "tier"]
           sizes == [i \in DOMAIN ids |-> 6]
           looks == [i \in DOMAIN ls |-> "protocol"]
<1>1. /\ cRaw' = TRUE /\ cIndex' = ids /\ cBuilt' = (cBuilt \/ ns # {})
      /\ cBody' = [n \in Node |->
             IF n \notin ns THEN cBody[n]
             ELSE IF cBody[n] # None THEN [cBody[n] EXCEPT !.pos = at(n)]
             ELSE [pos |-> at(n), style |-> fresh, dim |-> FALSE, frozen |-> None]]
      /\ cGpu' = [pos |-> place, colour |-> colours, size |-> sizes, link |-> ls, linkColour |-> looks]
      /\ UNCHANGED <<cLinks, cDirty, cStyleDirty, cPosDirty, cTopoTimer, cStyleTimer, cQueued, cPaint>>
      /\ C!UpdateLabels
  BY OrdersOf DEF C!SetRawTopology, C!Map, C!flags
<1>2. ids \in Seq(Node) /\ Range(ids) \subseteq ns /\ ls \in Seq(Edge)
  BY OrdersOf, AmongIs, LinesOf
<1>3. C!Min(Pos) \in Pos
  <2>1. PICK p \in Pos : \A q \in Pos : p <= q
    BY LeastNat, SceneAssumption, RenderersAssumption
  <2>2. Min(Pos) = p
    <3>1. Pos \subseteq Int
      BY SceneAssumption
    <3> QED
      BY <2>1, <3>1, MinIs
  <2>3. C!Min(Pos) = Min(Pos)
    BY DEF C!Min, Min
  <2> QED
    BY <2>2, <2>3
<1>4. \A n : at(n) \in Pos
  <2>1. \A i \in DOMAIN cIndex : cGpu.pos[i] \in Pos
    <3>1. DOMAIN cIndex = 1 .. Len(cIndex)
      BY DEF SolarOK, SolarTypes
    <3>2. DOMAIN cGpu.pos = 1 .. Len(cIndex)
      BY DEF SolarOK, Fitting, Fitted
    <3>3. \A i \in DOMAIN cGpu.pos : cGpu.pos[i] \in Pos
      BY DEF SolarOK, SolarTypes
    <3> QED
      BY <3>1, <3>2, <3>3
  <2> QED
    BY <1>3, <2>1
<1> HIDE DEF at, ids, ls, fresh
<1>5. cBody' \in CBodies /\ \A n \in Node : cBody[n] # None => cBody'[n] # None
  <2>1. fresh \in Style
    BY RenderersAssumption DEF fresh
  <2>2. None \notin CNode
    BY RenderersAssumption DEF CNode
  <2>3. \A n \in Node : cBody[n] # None => cBody[n] \in CNode
    BY DEF SolarOK, SolarTypes, CBodies
  <2>4. \A r \in CNode, p \in Pos : [r EXCEPT !.pos = p] \in CNode
    BY DEF CNode
  <2>5. \A p \in Pos : [pos |-> p, style |-> fresh, dim |-> FALSE, frozen |-> None] \in CNode
    BY <2>1 DEF CNode
  <2>6. \A n \in Node : /\ cBody'[n] \in CNode \cup {None}
                        /\ cBody[n] # None => cBody'[n] # None
    BY <1>1, <1>4, <2>2, <2>3, <2>4, <2>5
  <2> QED
    BY <1>1, <2>6 DEF CBodies
<1>6. cGpu'.pos = place /\ cGpu'.colour = colours /\ cGpu'.size = sizes /\ cGpu'.link = ls /\ cGpu'.linkColour = looks
  BY <1>1
<1>7. DOMAIN ids = 1 .. Len(ids) /\ DOMAIN ls = 1 .. Len(ls) /\ Len(ids) \in Nat
  BY <1>2
<1>8. place \in Seq(Pos)
  <2>1. place \in [1 .. Len(ids) -> Pos]
    BY <1>4, <1>7
  <2> QED
    BY <1>7, <2>1
<1>9. cLabels' \subseteq Node \cup Edge
  <2>1. cIndex' \in Seq(Node) /\ cGpu'.link \in Seq(Edge) /\ cLinks' \in CLinks
    BY <1>1, <1>2, <1>6 DEF SolarOK, SolarTypes
  <2> QED
    BY <1>1, <1>5, <2>1, LabelsOf
<1>10. SolarTypes'
  <2>1. cGpu' = [pos |-> cGpu'.pos, colour |-> cGpu'.colour, size |-> cGpu'.size,
                 link |-> cGpu'.link, linkColour |-> cGpu'.linkColour]
    BY <1>1, <1>6
  <2>2. \A e \in Edge : cLinks'[e] # None => cBody'[From[e]] # None /\ cBody'[To[e]] # None
    BY <1>1, <1>5, SceneAssumption DEF SolarOK, SolarTypes
  <2>3. /\ cDirty' \in BOOLEAN /\ cStyleDirty' \in BOOLEAN /\ cTopoTimer' \in BOOLEAN /\ cBuilt' \in BOOLEAN
        /\ cPosDirty' \in BOOLEAN /\ cStyleTimer' \in BOOLEAN /\ cQueued' \in BOOLEAN
        /\ cPaint' \in BOOLEAN /\ cRaw' \in BOOLEAN /\ cLinks' \in CLinks
    BY <1>1 DEF SolarOK, SolarTypes
  <2>4. cIndex' \in Seq(Node) /\ cGpu'.pos \in Seq(Pos) /\ cGpu'.link \in Seq(Edge)
    BY <1>1, <1>2, <1>6, <1>8
  <2> HIDE DEF place, colours, sizes, looks
  <2> QED
    BY <1>5, <1>9, <2>1, <2>2, <2>3, <2>4 DEF SolarTypes
<1>11. Fitting'
  BY <1>1, <1>6, <1>7 DEF Fitting, Fitted
<1>12. Topology'
  <2>1. ns = {} => ids = <<>>
    BY <1>2, NoMembers
  <2>2. ids = <<>> => ls = <<>>
    BY NoPointsNoLines DEF ls
  <2> QED
    BY <1>1, <1>6, <2>1, <2>2 DEF Topology
<1>13. Looks' /\ Places' /\ Frozen'
  BY <1>1 DEF Looks, Places, Frozen
<1> QED
  BY <1>10, <1>11, <1>12, <1>13 DEF SolarOK

LEMMA SolarInit == C!Init => SolarOK
<1> SUFFICES ASSUME C!Init PROVE SolarOK
  OBVIOUS
<1>1. /\ cBody = [n \in Node |-> None] /\ cLinks = [e \in Edge |-> None] /\ cIndex = <<>>
      /\ cGpu = [pos |-> <<>>, colour |-> <<>>, size |-> <<>>, link |-> <<>>, linkColour |-> <<>>]
      /\ cDirty = FALSE /\ cStyleDirty = FALSE /\ cPosDirty = FALSE /\ cTopoTimer = FALSE
      /\ cStyleTimer = FALSE /\ cQueued = FALSE /\ cPaint = FALSE /\ cRaw = FALSE /\ cBuilt = FALSE
      /\ cLabels = {} /\ cUnpushed = FALSE
  BY OrdersOf DEF C!Init
<1>2. cGpu.pos = <<>> /\ cGpu.colour = <<>> /\ cGpu.size = <<>> /\ cGpu.link = <<>> /\ cGpu.linkColour = <<>>
  BY <1>1
<1>3. cBody \in CBodies /\ cLinks \in CLinks
  BY <1>1 DEF CBodies, CLinks
<1>4. SolarTypes
  <2>1. cIndex \in Seq(Node) /\ cGpu.pos \in Seq(Pos) /\ cGpu.link \in Seq(Edge)
    BY <1>1, <1>2
  <2>2. \A e \in Edge : cLinks[e] = None
    BY <1>1
  <2>3. cGpu = [pos |-> cGpu.pos, colour |-> cGpu.colour, size |-> cGpu.size,
                link |-> cGpu.link, linkColour |-> cGpu.linkColour]
    BY <1>1, <1>2
  <2>4. cLabels \subseteq Node \cup Edge
    BY <1>1
  <2>5. /\ cDirty \in BOOLEAN /\ cStyleDirty \in BOOLEAN /\ cPosDirty \in BOOLEAN
        /\ cTopoTimer \in BOOLEAN /\ cStyleTimer \in BOOLEAN /\ cQueued \in BOOLEAN
        /\ cPaint \in BOOLEAN /\ cRaw \in BOOLEAN /\ cBuilt \in BOOLEAN
    BY <1>1
  <2> QED
    BY <1>3, <2>1, <2>2, <2>3, <2>4, <2>5 DEF SolarTypes
<1>5. Fitting
  <2>1. Len(cIndex) = 0 /\ Len(cGpu.link) = 0
    BY <1>1, <1>2
  <2>2. [i \in 1 .. 0 |-> <<>>[i]] = <<>>
    OBVIOUS
  <2> QED
    BY <1>2, <2>1, <2>2 DEF Fitting, Fitted
<1>6. Topology
  <2>1. C!In(cBody) = {}
    BY <1>1, <1>3, HereOf
  <2>2. C!Points(cBody) = <<>>
    BY <1>3, <2>1, PointsOf, NoMembers
  <2> QED
    BY <1>1, <1>2, <2>2, NoPointsNoLines DEF Topology
<1>7. Looks /\ Places /\ Frozen
  BY <1>1, <1>2 DEF Looks, Places, Frozen
<1> QED
  BY <1>4, <1>5, <1>6, <1>7 DEF SolarOK

LEMMA SolarSteps == SolarOK /\ [C!Next]_cosmosVars => SolarOK'
<1> SUFFICES ASSUME SolarOK, [C!Next]_cosmosVars PROVE SolarOK'
  OBVIOUS
<1>1. C!Nodes = Node /\ C!Edges = Edge
  BY OrdersOf
<1> QED
  BY <1>1, AddNodeKeeps, RemoveNodeKeeps, AddEdgeKeeps, RemoveEdgeKeeps, RestyleKeeps, RestyleEdgeKeeps,
     MoveKeeps, FocusKeeps, RectSelectKeeps, SetRawTopologyKeeps, ClickKeeps, OverlayKeeps,
     TopoFiresKeeps, StyleFiresKeeps, FrameKeeps DEF C!Next

-----------------------------------------------------------------------------
(* The solar renderer: the streaks.                                        *)

Streak == [edge : Edge, progress : 0 .. CosmosEnd - 1]

Trail == /\ cParticles \in Seq(Streak) /\ Len(cParticles) <= CosmosParticles
         /\ cParticles # <<>> => cRaf

LEMMA StreaksCapped ==
    ASSUME NEW ps \in Seq(Streak)
    PROVE  C!Capped(ps) \in Seq(Streak) /\ Len(C!Capped(ps)) <= CosmosParticles
<1>1. CosmosParticles \in Nat /\ Len(ps) \in Nat
  BY RenderersAssumption
<1>2. CASE Len(ps) > CosmosParticles
  <2> DEFINE from == Len(ps) - CosmosParticles + 1
  <2>1. from \in 1 .. Len(ps) + 1 /\ Len(ps) - from + 1 = CosmosParticles
    BY <1>1, <1>2
  <2>2. \A i \in from .. Len(ps) : i \in 1 .. Len(ps)
    BY <2>1
  <2>3. SubSeq(ps, from, Len(ps)) \in Seq(Streak) /\ Len(SubSeq(ps, from, Len(ps))) = CosmosParticles
    <3> HIDE DEF from
    <3>1. SubSeq(ps, from, Len(ps)) = [i \in 1 .. CosmosParticles |-> ps[i + from - 1]]
      BY <1>1, <2>1
    <3>2. \A i \in 1 .. CosmosParticles : i + from - 1 \in 1 .. Len(ps)
      BY <1>1, <2>1
    <3>3. [i \in 1 .. CosmosParticles |-> ps[i + from - 1]] \in [1 .. CosmosParticles -> Streak]
      BY <3>2
    <3> HIDE DEF Streak
    <3> QED
      BY <1>1, <3>1, <3>3
  <2> QED
    BY <1>1, <1>2, <2>3 DEF C!Capped
<1>3. CASE ~ (Len(ps) > CosmosParticles)
  BY <1>1, <1>3 DEF C!Capped
<1> QED
  BY <1>2, <1>3

LEMMA SpawnKeepsTrail ==
    ASSUME Trail, NEW e \in Edge, NEW k \in Nat, C!Spawn([i \in 1 .. k |-> e])
    PROVE  Trail'
<1> DEFINE flows == [i \in 1 .. k |-> e]
           live == C!Among(flows, {d \in C!Edges : cBody[From[d]] # None /\ cBody[To[d]] # None})
           new == SubSeq(live, 1, C!Min({PerCall, Len(live)}))
           begun == [i \in DOMAIN new |-> [edge |-> new[i], progress |-> 0]]
<1>1. cParticles' = C!Capped(cParticles \o begun) /\ cRaf' = TRUE
  BY DEF C!Spawn, C!Map
<1>2. live \in Seq(Edge)
  <2>1. flows \in Seq(Edge)
    OBVIOUS
  <2> HIDE DEF flows
  <2> QED
    BY <2>1, AmongIs
<1> HIDE DEF live
<1>3. new \in Seq(Edge)
  <2> DEFINE n == C!Min({PerCall, Len(live)})
  <2>1. PerCall \in Nat /\ Len(live) \in Nat
    BY <1>2, RenderersAssumption
  <2>2. n \in 0 .. Len(live)
    BY <2>1, LesserOfTwo
  <2> HIDE DEF n
  <2>3. SubSeq(live, 1, n) = [i \in 1 .. n |-> live[i]] /\ \A i \in 1 .. n : i \in 1 .. Len(live)
    BY <2>1, <2>2
  <2>4. [i \in 1 .. n |-> live[i]] \in [1 .. n -> Edge] /\ n \in Nat
    BY <1>2, <2>1, <2>2, <2>3
  <2>5. SubSeq(live, 1, n) \in Seq(Edge)
    BY <2>3, <2>4
  <2> QED
    BY <2>5 DEF n, new
<1> HIDE DEF new
<1>4. begun \in Seq(Streak)
  <2>1. \A i \in 1 .. Len(new) : new[i] \in Edge
    BY <1>3
  <2>2. 0 \in 0 .. CosmosEnd - 1
    BY RenderersAssumption
  <2>3. begun \in [1 .. Len(new) -> Streak]
    BY <1>3, <2>1, <2>2 DEF Streak
  <2> QED
    BY <1>3, <2>3
<1> HIDE DEF begun
<1>5. cParticles \o begun \in Seq(Streak)
  BY <1>4 DEF Trail
<1> QED
  BY <1>1, <1>5, StreaksCapped DEF Trail

\* A streak that arrives, or whose ends are gone, is dropped; the others move on.
LEMMA ParticleFrameKeepsTrail == ASSUME Trail, C!ParticleFrame PROVE Trail'
<1> DEFINE on == [i \in DOMAIN cParticles |-> [cParticles[i] EXCEPT !.progress = @ + 1]]
           hits == {i \in DOMAIN cParticles :
                       LET p == cParticles[i]
                       IN  /\ p.progress + 1 < CosmosEnd
                           /\ cBody[From[p.edge]] # None /\ cBody[To[p.edge]] # None}
           Far == [edge : Edge, progress : Nat]
<1>1. cParticles' = Kept(on, hits) /\ cRaf' = (cParticles' # <<>>)
  BY SameHelpers DEF C!ParticleFrame, C!Map
<1>2. DOMAIN cParticles = 1 .. Len(cParticles) /\ Len(cParticles) \in Nat
      /\ Len(cParticles) <= CosmosParticles /\ CosmosParticles \in Nat
  BY RenderersAssumption DEF Trail
<1>3. \A i \in 1 .. Len(cParticles) :
         /\ on[i] \in Far /\ on[i].edge \in Edge /\ on[i].progress = cParticles[i].progress + 1
         /\ cParticles[i].progress \in Nat
         /\ on[i] = [edge |-> on[i].edge, progress |-> on[i].progress]
  <2>1. ASSUME NEW i \in 1 .. Len(cParticles)
        PROVE  cParticles[i] \in Far
    <3>1. cParticles[i] \in Streak
      BY <1>2 DEF Trail
    <3>2. \A k \in 0 .. CosmosEnd - 1 : k \in Nat
      BY RenderersAssumption
    <3> QED
      BY <3>1, <3>2 DEF Streak
  <2>2. \A q \in Far : LET r == [q EXCEPT !.progress = @ + 1]
                       IN  /\ r \in Far /\ r.edge \in Edge /\ r.progress = q.progress + 1
                           /\ q.progress \in Nat /\ r = [edge |-> r.edge, progress |-> r.progress]
    OBVIOUS
  <2>3. \A i \in 1 .. Len(cParticles) : on[i] = [cParticles[i] EXCEPT !.progress = @ + 1]
    BY <1>2
  <2> HIDE DEF on, Far
  <2> QED
    BY <2>1, <2>2, <2>3, ZenonT(60)
<1>4. on \in Seq(Far) /\ Len(on) = Len(cParticles)
  <2>1. on \in [1 .. Len(cParticles) -> Far]
    BY <1>2, <1>3
  <2> HIDE DEF Far
  <2> QED
    BY <1>2, <2>1
<1> HIDE DEF on, Far
<1> HIDE DEF hits
<1>5. Kept(on, hits) \in Seq(Far) /\ KeptSome(Kept(on, hits), on, hits, Len(on))
  BY <1>4, KeptIs
<1>6. \A k \in 1 .. Len(cParticles) : k \in hits => on[k] \in Streak
  <2>1. ASSUME NEW k \in 1 .. Len(cParticles), k \in hits PROVE on[k] \in Streak
    <3>1. PICK q \in Nat : q = cParticles[k].progress
      BY <1>3
    <3>2. q + 1 < CosmosEnd /\ CosmosEnd \in Nat
      BY <2>1, <3>1, RenderersAssumption DEF hits
    <3>3. q + 1 \in 0 .. CosmosEnd - 1
      BY <3>2
    <3>4. on[k].progress \in 0 .. CosmosEnd - 1 /\ on[k].edge \in Edge
      BY <1>3, <3>1, <3>3
    <3>5. [edge |-> on[k].edge, progress |-> on[k].progress] \in Streak
      BY <3>4 DEF Streak
    <3> QED
      BY <1>3, <3>5
  <2> QED
    BY <2>1
<1>7. ASSUME NEW i \in 1 .. Len(Kept(on, hits))
      PROVE  Kept(on, hits)[i] \in Streak
  <2>1. PICK k \in 1 .. Len(on) : k \in hits /\ Kept(on, hits)[i] = on[k]
    BY <1>5 DEF KeptSome
  <2> QED
    BY <1>4, <1>6, <2>1
<1>8. Kept(on, hits) \in Seq(Streak)
  BY <1>5, <1>7
<1>9. Len(Kept(on, hits)) <= Len(on) /\ Len(Kept(on, hits)) \in Nat
  BY <1>5 DEF KeptSome
<1>10. Len(cParticles') <= CosmosParticles
  BY <1>1, <1>2, <1>4, <1>9
<1> QED
  BY <1>1, <1>8, <1>10 DEF Trail

LEMMA TrailSteps == Trail /\ [C!Next]_cosmosVars => Trail'
<1> SUFFICES ASSUME Trail, [C!Next]_cosmosVars PROVE Trail'
  OBVIOUS
<1>1. CASE UNCHANGED <<cParticles, cRaf>>
  BY <1>1 DEF Trail
<1>2. CASE \E e \in Edge, k \in 1 .. PerCall + 1 : C!Spawn([i \in 1 .. k |-> e])
  <2>1. \A k \in 1 .. PerCall + 1 : k \in Nat
    BY RenderersAssumption
  <2> QED
    BY <1>2, <2>1, SpawnKeepsTrail
<1>3. CASE C!ParticleFrame
  BY <1>3, ParticleFrameKeepsTrail
<1>4. \/ UNCHANGED <<cParticles, cRaf>>
      \/ \E e \in Edge, k \in 1 .. PerCall + 1 : C!Spawn([i \in 1 .. k |-> e])
      \/ C!ParticleFrame
  <2>1. CASE UNCHANGED cosmosVars
    BY <2>1 DEF cosmosVars
  <2>2. ASSUME NEW n \in Node, NEW p \in Pos, NEW s \in Style,
               \/ C!AddNode(n, p, s) \/ C!RemoveNode(n) \/ C!Restyle(n, s) \/ C!Move(n, p)
        PROVE  UNCHANGED <<cParticles, cRaf>>
    BY <2>2 DEF C!AddNode, C!RemoveNode, C!Restyle, C!Move, C!DataSetEvent, C!trail
  <2>3. ASSUME NEW e \in Edge, NEW s \in Style,
               C!AddEdge(e, s) \/ C!RestyleEdge(e, s) \/ C!RemoveEdge(e)
        PROVE  UNCHANGED <<cParticles, cRaf>>
    BY <2>3 DEF C!AddEdge, C!RestyleEdge, C!RemoveEdge, C!DataSetEvent, C!trail
  <2>4. ASSUME NEW ns, C!Focus(ns) \/ C!RectSelect(ns) \/ C!SetRawTopology(ns)
        PROVE  UNCHANGED <<cParticles, cRaf>>
    BY <2>4 DEF C!Focus, C!RectSelect, C!SetRawTopology, C!trail
  <2>5. ASSUME NEW i, C!Click(i) \/ C!Hover(i)
        PROVE  UNCHANGED <<cParticles, cRaf>>
    BY <2>5 DEF C!Click, C!Hover, C!trail
  <2>6. CASE C!Zoom \/ C!TopoFires \/ C!StyleFires \/ C!Frame
    BY <2>6 DEF C!Zoom, C!TopoFires, C!StyleFires, C!Frame, C!trail
  <2>7. CASE \E n \in Node : C!RemoveNode(n)
    BY <2>7 DEF C!RemoveNode, C!DataSetEvent, C!trail
  <2>8. CASE \E n \in Node, s \in Style : C!Restyle(n, s)
    BY <2>8 DEF C!Restyle, C!DataSetEvent, C!trail
  <2>9. CASE \E n \in Node, p \in Pos : C!Move(n, p)
    BY <2>9 DEF C!Move, C!trail
  <2>10. CASE \E e \in Edge : C!RemoveEdge(e)
    BY <2>10 DEF C!RemoveEdge, C!DataSetEvent, C!trail
  <2> QED
    BY <2>1, <2>2, <2>3, <2>4, <2>5, <2>6, <2>7, <2>8, <2>9, <2>10, OrdersOf DEF C!Next
<1> QED
  BY <1>1, <1>2, <1>3, <1>4

LEMMA TrailInit == C!Init => Trail
  BY RenderersAssumption DEF C!Init, Trail

-----------------------------------------------------------------------------
(* What the inductive invariants say.                                      *)

LEMMA SolarFollowsIs == SolarOK => SolarFollows
<1> SUFFICES ASSUME SolarOK PROVE SolarFollows
  OBVIOUS
<1>1. /\ DOMAIN cIndex = 1 .. Len(cIndex) /\ DOMAIN cGpu.link = 1 .. Len(cGpu.link)
      /\ Len(cIndex) \in Nat /\ Len(cGpu.link) \in Nat
  BY DEF SolarOK, SolarTypes
<1>2. C!ArraysFit
  BY <1>1 DEF SolarOK, Fitting, Fitted, C!ArraysFit
<1>3. ~cTopoTimer /\ ~cRaw => ~cDirty
  BY DEF SolarOK, Topology
<1>4. C!TopologyDrawn
  <2> SUFFICES ASSUME ~cTopoTimer, ~cRaw
               PROVE  /\ C!Range(cIndex) = C!Here /\ C!Range(cGpu.link) = C!In(cLinks)
                      /\ cLabels \subseteq C!Here \cup C!In(cLinks)
    BY DEF C!TopologyDrawn
  <2>1. /\ cIndex = C!Points(cBody) /\ cGpu.link = C!Lines(cLinks, cIndex)
        /\ cLabels \subseteq C!In(cBody) \cup C!In(cLinks)
    BY <1>3 DEF SolarOK, Topology
  <2>2. Range(cIndex) = C!In(cBody)
    BY <2>1, PointsOf DEF SolarOK, SolarTypes
  <2>3. \A e \in Edge : cLinks[e] # None => From[e] \in Range(cIndex) /\ To[e] \in Range(cIndex)
    <3>1. C!In(cBody) = {n \in Node : cBody[n] # None}
      BY HereOf DEF SolarOK, SolarTypes
    <3> QED
      BY <2>2, <3>1, SceneAssumption DEF SolarOK, SolarTypes
  <2>4. Range(cGpu.link) = C!In(cLinks)
    <3>1. Range(cGpu.link) = {e \in C!In(cLinks) \cap Edge : {From[e], To[e]} \subseteq Range(cIndex)}
      BY <2>1, LinesOf
    <3>2. C!In(cLinks) = {e \in Edge : cLinks[e] # None}
      BY HereOf DEF SolarOK, SolarTypes
    <3> QED
      BY <2>3, <3>1, <3>2
  <2> QED
    BY <2>1, <2>2, <2>4, SameHelpers DEF C!Here
<1>5. C!LooksSettle
  <2> SUFFICES ASSUME ~cStyleTimer, ~cTopoTimer, ~cRaw, ~cUnpushed
               PROVE  /\ cGpu.colour = C!Map(cIndex, LAMBDA n : C!Colour(cBody[n]))
                      /\ cGpu.linkColour = C!Map(cGpu.link, LAMBDA e : C!Colour(cLinks[e]))
    BY DEF C!LooksSettle
  <2>1. /\ \A i \in 1 .. Len(cIndex) : cGpu.colour[i] = C!Colour(cBody[cIndex[i]])
        /\ \A i \in 1 .. Len(cGpu.link) : cGpu.linkColour[i] = C!Colour(cLinks[cGpu.link[i]])
    BY <1>3 DEF SolarOK, Looks
  <2>2. /\ cGpu.colour = [i \in 1 .. Len(cIndex) |-> C!Colour(cBody[cIndex[i]])]
        /\ cGpu.linkColour = [i \in 1 .. Len(cGpu.link) |-> C!Colour(cLinks[cGpu.link[i]])]
    BY <2>1 DEF SolarOK, Fitting, Fitted
  <2> QED
    BY <1>1, <2>2 DEF C!Map
<1>6. C!PositionsFollow
  <2> SUFFICES ASSUME ~cQueued, ~cTopoTimer, ~cRaw
               PROVE  cGpu.pos = C!Map(cIndex, LAMBDA n : cBody[n].pos)
    BY DEF C!PositionsFollow
  <2>1. \A i \in 1 .. Len(cIndex) : cGpu.pos[i] = cBody[cIndex[i]].pos
    BY <1>3 DEF SolarOK, Places
  <2>2. cGpu.pos = [i \in 1 .. Len(cIndex) |-> cBody[cIndex[i]].pos]
    BY <2>1 DEF SolarOK, Fitting, Fitted
  <2> QED
    BY <1>1, <2>2 DEF C!Map
<1> QED
  BY <1>2, <1>4, <1>5, <1>6 DEF SolarFollows

LEMMA SolarTyped == SolarOK /\ Trail => C!TypeOK /\ C!ParticlesRun
<1> SUFFICES ASSUME SolarOK, Trail PROVE C!TypeOK /\ C!ParticlesRun
  OBVIOUS
<1>1. \A n \in Node : cBody[n] # None => cBody[n].pos \in Pos /\ cBody[n].style \in Style
  BY DEF SolarOK, SolarTypes, CBodies, CNode
<1>2. \A e \in Edge : cLinks[e] # None => cLinks[e].style \in Style
  BY DEF SolarOK, SolarTypes, CLinks, CLink
<1>3. Range(cIndex) \subseteq Node /\ Range(cGpu.link) \subseteq Edge
  BY RangeOf DEF SolarOK, SolarTypes
<1>4. \A f \in {cDirty, cStyleDirty, cPosDirty, cTopoTimer, cStyleTimer, cQueued, cPaint, cRaw, cBuilt} :
          f \in BOOLEAN
  BY DEF SolarOK, SolarTypes
<1>5. \A i \in DOMAIN cParticles : cParticles[i] \in Streak
  BY DEF Trail
<1>6. cLabels \subseteq Node \cup Edge
  BY DEF SolarOK, SolarTypes
<1>7. C!TypeOK
  BY <1>1, <1>2, <1>3, <1>4, <1>5, <1>6, OrdersOf, SameHelpers DEF C!TypeOK, Streak
<1> QED
  BY <1>7 DEF Trail, C!ParticlesRun

\* Only a rebuild uploads sizes, and it uploads a frozen size as it was.
LEMMA SizesUploaded ==
    ASSUME SolarOK, C!Next, ~cRaw'
    PROVE  /\ ~cRaw
           /\ \/ cIndex' = cIndex /\ cGpu'.size = cGpu.size
              \/ cGpu'.size = [i \in DOMAIN cIndex' |-> C!FrozenSize(cBody, cIndex'[i])]
<1> DEFINE Same == cRaw' = cRaw /\ cIndex' = cIndex /\ cGpu'.size = cGpu.size
<1>1. ASSUME NEW n, NEW p, NEW s,
             \/ C!AddNode(n, p, s) \/ C!RemoveNode(n) \/ C!Restyle(n, s) \/ C!Move(n, p)
      PROVE  Same
  BY <1>1 DEF C!AddNode, C!RemoveNode, C!Restyle, C!Move, C!DataSetEvent, C!mode
<1>2. ASSUME NEW e, NEW s, C!AddEdge(e, s) \/ C!RestyleEdge(e, s) \/ C!RemoveEdge(e)
      PROVE  Same
  BY <1>2 DEF C!AddEdge, C!RestyleEdge, C!RemoveEdge, C!DataSetEvent, C!mode
<1>3. ASSUME NEW ns, C!Focus(ns) \/ C!RectSelect(ns)
      PROVE  Same
  BY <1>3 DEF C!Focus, C!RectSelect, C!mode
<1>4. ASSUME NEW i, C!Click(i) \/ C!Hover(i)
      PROVE  Same
  BY <1>4 DEF C!Click, C!Hover, C!scene, C!mode
<1>5. ASSUME NEW fl, C!Spawn(fl)
      PROVE  Same
  BY <1>5 DEF C!Spawn, C!scene, C!mode
<1>6. CASE C!Zoom \/ C!ParticleFrame
  BY <1>6 DEF C!Zoom, C!ParticleFrame, C!scene, C!mode
<1>7. \A ns : ~C!SetRawTopology(ns)
  BY DEF C!SetRawTopology
<1>8. cGpu = [pos |-> cGpu.pos, colour |-> cGpu.colour, size |-> cGpu.size,
              link |-> cGpu.link, linkColour |-> cGpu.linkColour]
  BY DEF SolarOK, SolarTypes
<1>9. CASE C!StyleFires
  <2>1. \/ cGpu' = cGpu
        \/ cGpu' = [cGpu EXCEPT !.colour = C!PointColours, !.linkColour = C!LinkColours]
    BY <1>9 DEF C!StyleFires, C!PushColours
  <2>2. cGpu'.size = cGpu.size
    BY <1>8, <2>1
  <2> QED
    BY <1>9, <2>2 DEF C!StyleFires, C!mode
<1>10. CASE C!Frame
  <2>1. \E at : cGpu' = cGpu \/ cGpu' = [cGpu EXCEPT !.pos = at]
    BY <1>10 DEF C!Frame
  <2>2. cGpu'.size = cGpu.size
    BY <1>8, <2>1
  <2> QED
    BY <1>10, <2>2 DEF C!Frame, C!mode
<1>11. CASE C!TopoFires
  <2>1. CASE cDirty /\ ~cRaw
    <3>1. cIndex' = C!Points(cBody) /\ cGpu' = C!Arrays(cBody, cLinks)
      BY <1>11, <2>1 DEF C!TopoFires, C!Rebuild
    <3>2. cGpu'.size = [i \in DOMAIN cIndex' |-> C!FrozenSize(cBody, cIndex'[i])]
      BY <3>1 DEF C!Arrays, C!Map
    <3> QED
      BY <2>1, <3>2
  <2>2. CASE ~ (cDirty /\ ~cRaw)
    BY <1>11, <2>2 DEF C!TopoFires, C!scene
  <2> QED
    BY <2>1, <2>2
<1>12. CASE \/ \E n \in Node : C!RemoveNode(n)
            \/ \E n \in Node, s \in Style : C!Restyle(n, s)
            \/ \E n \in Node, p \in Pos : C!Move(n, p)
            \/ \E e \in Edge : C!RemoveEdge(e)
  BY <1>1, <1>2, <1>12
<1> QED
  BY <1>1, <1>2, <1>3, <1>4, <1>5, <1>6, <1>7, <1>9, <1>10, <1>11, <1>12, OrdersOf DEF C!Next

LEMMA SizesStay == SolarOK /\ C!Next => C!SizesKept
<1> SUFFICES ASSUME SolarOK, C!Next,
                    NEW i \in DOMAIN cIndex, NEW j \in DOMAIN cIndex',
                    cIndex[i] = cIndex'[j], ~cRaw', cBody[cIndex[i]] # None,
                    cBody[cIndex[i]].frozen # None
             PROVE  cGpu'.size[j] = cGpu.size[i]
  BY DEF C!SizesKept
<1>1. DOMAIN cIndex = 1 .. Len(cIndex)
  BY DEF SolarOK, SolarTypes
<1>2. \A k \in DOMAIN cIndex : cIndex[k] = cIndex[i] => cGpu.size[k] = cBody[cIndex[i]].frozen
  BY <1>1, SizesUploaded DEF SolarOK, Frozen, FrozenIn
<1>3. C!FrozenSize(cBody, cIndex[i]) = cBody[cIndex[i]].frozen
  BY DEF C!FrozenSize
<1> QED
  BY <1>2, <1>3, SizesUploaded

-----------------------------------------------------------------------------
(* The page.                                                               *)

PageInv == GLInv /\ SolarOK /\ Trail

(* The page's renderer, whichever it is, keeps what both need: in GL the    *)
(* bodies, flags, buffers, camera, particles and sprites of glrenderer.js,  *)
(* in the solar map the bodies, the marks and timers of what is still to be *)
(* uploaded, the arrays and the streaks of cosmosrenderer.js.               *)
THEOREM PageInvariant == PageSpec => []PageInv
<1>1. PageInit => PageInv
  BY GLInit, SolarInit, TrailInit DEF PageInit, PageInv
<1>2. PageInv /\ [PageNext]_<<renderer, vars, cosmosVars>> => PageInv'
  <2> SUFFICES ASSUME PageInv, [PageNext]_<<renderer, vars, cosmosVars>> PROVE PageInv'
    OBVIOUS
  <2>1. [Next]_vars /\ [C!Next]_cosmosVars
    BY DEF PageNext
  <2> QED
    BY <2>1, GLSteps, SolarSteps, TrailSteps DEF PageInv
<1> QED
  BY <1>1, <1>2, PTL DEF PageSpec

\* With no frame due, the instance buffers and the grid of hits are what the
\* bodies say, although frames that only moved the camera left them as they
\* were (_draw and _syncNodeBuffers, glrenderer.js).
THEOREM BuffersAlwaysFollow == PageSpec => []BuffersFollow
<1>1. PageInv => BuffersFollow
  BY GLBuffers DEF PageInv
<1> QED
  BY <1>1, PageInvariant, PTL

\* Both pools of particles keep their cap; GL keeps the gap between the dots of
\* an edge and the streaks of the solar map have a loop while there is one
\* (spawnParticles of both renderers).
THEOREM ParticlesAlwaysFlow == PageSpec => []ParticlesFlow
<1>1. PageInv => ParticlesFlow
  BY GLParticles, SolarTyped DEF PageInv, ParticlesFlow
<1> QED
  BY <1>1, PageInvariant, PTL

\* The fit that waits for the layout never moves the camera of a user who has
\* moved it (_autoFitUntilSettled, glrenderer.js:548).
THEOREM AutoFitAlwaysYields == PageSpec => []AutoFitYields
<1>1. PageInv => AutoFitYields
  BY DEF PageInv, GLInv, CameraOK
<1> QED
  BY <1>1, PageInvariant, PTL

\* Whatever labels are drawn, no two sprites of the atlas share a pixel (the
\* shelf packing of the label atlas, glrenderer.js).
THEOREM SpritesAlwaysApart == PageSpec => []SpritesApart
<1>1. PageInv => SpritesApart
  BY DEF PageInv, GLInv, Packed, SpritesApart
<1> QED
  BY <1>1, PageInvariant, PTL

\* In whatever order the two timers and the frames of the solar map come, its
\* arrays fit each other, and with nothing awaited they are those of the
\* bodies (_rebuild, _pushColorsOnly and the position push, cosmosrenderer.js).
THEOREM SolarAlwaysFollows == PageSpec => []SolarFollows
<1>1. PageInv => SolarFollows
  BY SolarFollowsIs DEF PageInv
<1> QED
  BY <1>1, PageInvariant, PTL

\* No step of the solar map changes the radius of a planet that was frozen
\* ("sizes stay frozen", cosmosrenderer.js:306).
THEOREM SizesStayFrozen == PageSpec => SizesFrozen
<1>1. PageInv /\ [PageNext]_<<renderer, vars, cosmosVars>> => [C!SizesKept]_cosmosVars
  <2> SUFFICES ASSUME PageInv, [PageNext]_<<renderer, vars, cosmosVars>>, cosmosVars' # cosmosVars
               PROVE  C!SizesKept
    OBVIOUS
  <2>1. C!Next
    BY DEF PageNext
  <2> QED
    BY <2>1, SizesStay DEF PageInv
<1> QED
  BY <1>1, PageInvariant, PTL DEF PageSpec, SizesFrozen
=============================================================================
