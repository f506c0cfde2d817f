------------------------- MODULE GraphMirror_proofs -------------------------
(***************************************************************************)
(* Proofs about GraphMirror, for any graph, any looks and positions, any   *)
(* size of chunks and any number of messages, lost connections and themes. *)
(*                                                                         *)
(* The picture.  Every operator the callbacks are built from keeps PageInv *)
(* of a picture, whatever the message says, so GlidersMove, and the looks  *)
(* of LooksCurrent, do not rest on what the server sends or in which order *)
(* it comes.                                                               *)
(*                                                                         *)
(* The mirror.  MirrorIsWhole does rest on it.  What the page knows of and *)
(* the ids a full has brought so far make a drawing; a message makes       *)
(* another of it (Redrawn).  The invariant follows the drawings the        *)
(* messages under way will make, one after the other, from the present     *)
(* page on, a held delta first (Landing): they end at what the server last *)
(* sent, with no edge without its ends on the way.  A tick adds messages   *)
(* that lead from the last baseline to the view (MessagesDraw); a page     *)
(* that cancels or overwrites a held delta is on other drawings, which     *)
(* meet these when a full completes (FullsForget).  In the DataSets is     *)
(* what the page knows of (Dressed).                                       *)
(***************************************************************************)
EXTENDS GraphMirror, FiniteSetTheorems, WellFoundedInduction, TLAPS

-----------------------------------------------------------------------------
(* Numbers and loops.                                                      *)

LEMMA LeastNat ==
    ASSUME NEW T, T \subseteq Nat, T # {}
    PROVE  \E x \in T : \A y \in T : x <= y
<1> DEFINE R == OpToRel(<, Nat)
<1>1. IsWellFoundedOn(R, Nat)
  BY NatLessThanWellFounded
<1>2. \A x, y \in Nat : y < x => <<y, x>> \in R
  BY DEF OpToRel
<1> HIDE DEF R
<1>3. PICK x \in T : \A y \in T : ~ (<<y, x>> \in R)
  BY <1>1, WFMin
<1>4. ASSUME NEW y \in T PROVE x <= y
  <2>1. x \in Nat /\ y \in Nat /\ ~(y < x)
    BY <1>2, <1>3
  <2> QED
    BY <2>1
<1> QED
  BY <1>4

\* Induction up to n: a set that has 0 and, below n, the successor of each member.
LEMMA UpTo ==
    ASSUME NEW n \in Nat, NEW T, 0 \in T, \A k \in 0 .. n : k \in T /\ k < n => k + 1 \in T
    PROVE  \A k \in 0 .. n : k \in T
<1> DEFINE Bad == {k \in 0 .. n : k \notin T}
<1> SUFFICES ASSUME Bad # {} PROVE FALSE
  OBVIOUS
<1>1. Bad \subseteq Nat
  OBVIOUS
<1>2. PICK k \in Bad : \A j \in Bad : k <= j
  BY <1>1, LeastNat
<1>3. k # 0 /\ k - 1 \in 0 .. n /\ k - 1 < n /\ k - 1 \notin Bad
  BY <1>2
<1>4. k - 1 \in T
  BY <1>3
<1>5. (k - 1) + 1 \in T
  BY <1>3, <1>4
<1> QED
  BY <1>2, <1>5

\* A loop of n turns over values of V.
LEMMA LoopExists ==
    ASSUME NEW V, NEW start \in V, NEW n \in Nat, NEW turn \in [1 .. n -> [V -> V]]
    PROVE  \E f : f = [i \in 0 .. n |-> IF i = 0 THEN start ELSE turn[i][f[i - 1]]] /\ f \in [0 .. n -> V]
<1> DEFINE Law(f, m) == /\ f = [i \in 0 .. m |-> IF i = 0 THEN start ELSE turn[i][f[i - 1]]]
                        /\ f \in [0 .. m -> V]
           T == {m \in Nat : \E f : Law(f, m)}
<1>1. 0 \in T
  <2> DEFINE f == [i \in 0 .. 0 |-> start]
  <2>1. Law(f, 0)
    OBVIOUS
  <2> QED
    BY <2>1
<1>2. ASSUME NEW m \in 0 .. n, m \in T, m < n PROVE m + 1 \in T
  <2>1. PICK f : Law(f, m)
    BY <1>2
  <2>2. m + 1 \in 1 .. n /\ f[m] \in V
    BY <1>2, <2>1
  <2> DEFINE last == turn[m + 1][f[m]]
             g == [i \in 0 .. m + 1 |-> IF i = m + 1 THEN last ELSE f[i]]
  <2>3. last \in V
    BY <2>2
  <2>4. \A i \in 0 .. m : g[i] = f[i] /\ f[i] \in V
    BY <2>1
  <2>5. g[m + 1] = last
    OBVIOUS
  <2>6. ASSUME NEW i \in 0 .. m + 1
        PROVE  g[i] = IF i = 0 THEN start ELSE turn[i][g[i - 1]]
    <3>1. CASE i = m + 1
      <4>1. i # 0 /\ i - 1 = m /\ g[i - 1] = f[m]
        BY <2>4, <3>1
      <4> QED
        BY <2>5, <3>1, <4>1
    <3>2. CASE i # m + 1
      <4>1. i \in 0 .. m /\ g[i] = f[i]
        BY <2>4, <3>2
      <4>2. f[i] = IF i = 0 THEN start ELSE turn[i][f[i - 1]]
        BY <2>1, <4>1
      <4>3. i # 0 => i - 1 \in 0 .. m /\ g[i - 1] = f[i - 1]
        BY <2>4, <4>1
      <4> QED
        BY <4>1, <4>2, <4>3
    <3> QED
      BY <3>1, <3>2
  <2>7. g \in [0 .. m + 1 -> V]
    <3>1. \A i \in 0 .. m + 1 : i = m + 1 \/ i \in 0 .. m
      BY <1>2
    <3>2. \A i \in 0 .. m + 1 : g[i] \in V
      BY <2>3, <2>4, <2>5, <3>1
    <3> QED
      BY <3>2
  <2>8. g = [i \in 0 .. m + 1 |-> g[i]]
    OBVIOUS
  <2> HIDE DEF g
  <2>9. Law(g, m + 1)
    BY <2>6, <2>7, <2>8
  <2> HIDE DEF Law
  <2> QED
    BY <2>9
<1> HIDE DEF T
<1>3. n \in T
  <2>1. \A k \in 0 .. n : k \in T
    BY <1>1, <1>2, UpTo
  <2> QED
    BY <2>1
<1> QED
  BY <1>3 DEF T

-----------------------------------------------------------------------------
(* The picture.                                                            *)

\* A picture is a record of these fields.
Shaped(p) ==
    p = [drawn |-> p.drawn, shade |-> p.shade, labels |-> p.labels, sig |-> p.sig,
         meta |-> p.meta, target |-> p.target, pos |-> p.pos, loop |-> p.loop,
         sync |-> p.sync]

Eased(p) == Gliding(p) # {} => p.loop

\* Whether look v of item i may stand for look w: in the mode that tells all
\* of it, and once drawn in that mode, it is w.
Passes(i, v, w, m, sig) ==
    IF i \in Edges \/ (m[2] = 0 /\ sig # <<>>) THEN v = w ELSE Form[v] = Form[w]

\* The part of LooksCurrent that does not rest on the messages.
Looks(p, m) ==
    \A i \in Items : p.drawn[i] # 0
        => /\ Passes(i, p.drawn[i], p.meta[i], m, p.sig[i])
           /\ p.shade[i] = IF i \in Nodes THEN m ELSE <<p.labels>>

\* A signature is none, or what mode m tells of the version drawn.
Signed(p, m) ==
    \A i \in Items : p.sig[i] # <<>>
        => p.sig[i][1] = IF i \in Nodes /\ m[2] = 1 THEN Form[p.drawn[i]] ELSE p.drawn[i]

PageInv(p, m) == Shaped(p) /\ Eased(p) /\ Looks(p, m) /\ Signed(p, m)

MirrorInv == PageInv(page, mode)

-----------------------------------------------------------------------------
(* The operators of the callbacks.                                         *)

LEMMA BlankIsSound ==
    ASSUME NEW m, NEW labels, NEW loop, NEW sync
    PROVE  PageInv([Blank EXCEPT !.labels = labels, !.loop = loop, !.sync = sync], m)
<1> DEFINE q == [Blank EXCEPT !.labels = labels, !.loop = loop, !.sync = sync]
<1>1. /\ Shaped(Blank)
      /\ Blank.drawn = [i \in Items |-> 0] /\ Blank.sig = [i \in Items |-> <<>>]
      /\ Blank.target = [n \in Nodes |-> 0]
  BY DEF Blank, Empty, Shaped
<1>2. q = [Blank EXCEPT !.labels = labels, !.loop = loop, !.sync = sync]
  OBVIOUS
<1> HIDE DEF q
<1>3. /\ Shaped(q)
      /\ q.drawn = [i \in Items |-> 0] /\ q.sig = [i \in Items |-> <<>>]
      /\ q.target = [n \in Nodes |-> 0]
  BY <1>1, <1>2 DEF Shaped
<1>4. Eased(q) /\ Looks(q, m) /\ Signed(q, m)
  BY <1>3 DEF Eased, Gliding, Looks, Signed
<1> QED
  BY <1>3, <1>4 DEF PageInv, q

\* applyTargetPosition: a node that does not jump starts the loop.
LEMMA PlacedKeeps ==
    ASSUME NEW p, NEW m, NEW at, NEW snap, PageInv(p, m)
    PROVE  PageInv(Placed(p, at, snap), m)
<1> DEFINE new  == {n \in DOMAIN at : p.target[n] # at[n]}
           jump == {n \in new : n \in snap \/ p.pos[n] = 0}
           q    == Placed(p, at, snap)
<1>1. q = [p EXCEPT !.target = [n \in Nodes |-> IF n \in new THEN at[n] ELSE p.target[n]],
                    !.pos    = [n \in Nodes |-> IF n \in jump THEN at[n] ELSE p.pos[n]],
                    !.loop   = p.loop \/ new \ jump # {}]
  BY DEF Placed
<1>2. /\ Shaped(q)
      /\ q.target = [n \in Nodes |-> IF n \in new THEN at[n] ELSE p.target[n]]
      /\ q.pos = [n \in Nodes |-> IF n \in jump THEN at[n] ELSE p.pos[n]]
      /\ q.loop = (p.loop \/ new \ jump # {})
      /\ q.drawn = p.drawn /\ q.shade = p.shade /\ q.labels = p.labels /\ q.sig = p.sig
      /\ q.meta = p.meta
  BY <1>1 DEF PageInv, Shaped
<1>3. Eased(q)
  <2> SUFFICES ASSUME NEW n \in Gliding(q) PROVE q.loop
    BY DEF Eased
  <2>1. CASE n \in new
    BY <1>2, <2>1 DEF Gliding
  <2>2. CASE n \notin new
    <3>1. n \in Gliding(p)
      BY <1>2, <2>2 DEF Gliding
    <3> QED
      BY <1>2, <3>1 DEF PageInv, Eased
  <2> QED
    BY <2>1, <2>2
<1> HIDE DEF q
<1>4. Looks(q, m) /\ Signed(q, m)
  BY <1>2 DEF PageInv, Looks, Signed
<1> QED
  BY <1>2, <1>3, <1>4 DEF PageInv, q

LEMMA WithoutKeeps ==
    ASSUME NEW p, NEW m, NEW gone, PageInv(p, m)
    PROVE  PageInv(Without(p, gone), m)
<1> DEFINE q == Without(p, gone)
<1>0. q = [p EXCEPT !.drawn  = [i \in Items |-> IF i \in gone THEN 0 ELSE p.drawn[i]],
                    !.meta   = [i \in Items |-> IF i \in gone THEN 0 ELSE p.meta[i]],
                    !.sig    = [i \in Items |-> IF i \in gone THEN <<>> ELSE p.sig[i]],
                    !.target = [n \in Nodes |-> IF n \in gone THEN 0 ELSE p.target[n]],
                    !.pos    = [n \in Nodes |-> IF n \in gone THEN 0 ELSE p.pos[n]]]
  BY DEF Without
<1> HIDE DEF q
<1>1. /\ Shaped(q)
      /\ q.drawn = [i \in Items |-> IF i \in gone THEN 0 ELSE p.drawn[i]]
      /\ q.meta = [i \in Items |-> IF i \in gone THEN 0 ELSE p.meta[i]]
      /\ q.sig = [i \in Items |-> IF i \in gone THEN <<>> ELSE p.sig[i]]
      /\ q.target = [n \in Nodes |-> IF n \in gone THEN 0 ELSE p.target[n]]
      /\ q.pos = [n \in Nodes |-> IF n \in gone THEN 0 ELSE p.pos[n]]
      /\ q.shade = p.shade /\ q.labels = p.labels /\ q.loop = p.loop
  BY <1>0 DEF PageInv, Shaped
<1>2. Eased(q)
  <2>1. Gliding(q) \subseteq Gliding(p)
    BY <1>1 DEF Gliding
  <2> QED
    BY <1>1, <2>1 DEF PageInv, Eased
<1>3. Looks(q, m) /\ Signed(q, m)
  BY <1>1 DEF PageInv, Looks, Signed
<1> QED
  BY <1>1, <1>2, <1>3 DEF PageInv, q

\* The fullSyncIds of a picture are its own affair.
LEMMA SyncKeeps ==
    ASSUME NEW p, NEW m, NEW sync, PageInv(p, m)
    PROVE  PageInv([p EXCEPT !.sync = sync], m)
<1> DEFINE q == [p EXCEPT !.sync = sync]
<1>1. /\ Shaped(q)
      /\ q.drawn = p.drawn /\ q.shade = p.shade /\ q.labels = p.labels /\ q.sig = p.sig
      /\ q.meta = p.meta /\ q.target = p.target /\ q.pos = p.pos /\ q.loop = p.loop
  BY DEF PageInv, Shaped
<1> HIDE DEF q
<1>2. Eased(q) /\ Looks(q, m) /\ Signed(q, m)
  BY <1>1 DEF PageInv, Eased, Gliding, Looks, Signed
<1> QED
  BY <1>1, <1>2 DEF PageInv, q

\* An item that is not redrawn has the look it would be given, but for what
\* the mode does not tell.
LEMMA StyledKeeps ==
    ASSUME NEW p, NEW put, PageInv(p, mode)
    PROVE  PageInv(Styled(p, put), mode)
<1> DEFINE shade(i) == IF i \in Nodes THEN mode ELSE <<p.labels>>
           told(i)  == IF i \in Nodes /\ mode[2] = 1 THEN Form[put[i]] ELSE put[i]
           redo     == {i \in DOMAIN put : p.sig[i] # <<told(i), shade(i)>> \/ p.drawn[i] = 0}
           q        == Styled(p, put)
<1>0. q = [p EXCEPT !.meta  = [i \in Items |-> IF i \in DOMAIN put THEN put[i] ELSE p.meta[i]],
                    !.drawn = [i \in Items |-> IF i \in redo THEN put[i] ELSE p.drawn[i]],
                    !.shade = [i \in Items |-> IF i \in redo THEN shade(i) ELSE p.shade[i]],
                    !.sig   = [i \in Items |-> IF i \in redo THEN <<told(i), shade(i)>> ELSE p.sig[i]]]
  BY DEF Styled, Told
<1> HIDE DEF q
<1>1. /\ Shaped(q)
      /\ q.meta = [i \in Items |-> IF i \in DOMAIN put THEN put[i] ELSE p.meta[i]]
      /\ q.drawn = [i \in Items |-> IF i \in redo THEN put[i] ELSE p.drawn[i]]
      /\ q.shade = [i \in Items |-> IF i \in redo THEN shade(i) ELSE p.shade[i]]
      /\ q.sig = [i \in Items |-> IF i \in redo THEN <<told(i), shade(i)>> ELSE p.sig[i]]
      /\ q.labels = p.labels /\ q.loop = p.loop /\ q.target = p.target /\ q.pos = p.pos
  <2> HIDE DEF redo, told, shade
  <2> QED
    BY <1>0 DEF PageInv, Shaped
<1>2. Eased(q)
  BY <1>1 DEF PageInv, Eased, Gliding
<1>3. ASSUME NEW i \in Items, q.drawn[i] # 0
      PROVE  Passes(i, q.drawn[i], q.meta[i], mode, q.sig[i]) /\ q.shade[i] = shade(i)
  <2>1. CASE i \in redo
    BY <1>1, <2>1 DEF Passes
  <2>2. CASE i \in DOMAIN put /\ i \notin redo
    <3>1. p.sig[i] = <<told(i), shade(i)>> /\ p.drawn[i] # 0
      BY <2>2
    <3>2. p.sig[i] # <<>> /\ p.sig[i][1] = told(i)
      <4> HIDE DEF told, shade
      <4> QED
        BY <3>1
    <3>3. /\ told(i) = IF i \in Nodes /\ mode[2] = 1 THEN Form[p.drawn[i]] ELSE p.drawn[i]
          /\ p.shade[i] = shade(i)
      BY <3>1, <3>2 DEF PageInv, Signed, Looks
    <3>4. q.drawn[i] = p.drawn[i] /\ q.meta[i] = put[i] /\ q.shade[i] = p.shade[i]
      BY <1>1, <2>2
    <3>5. Passes(i, p.drawn[i], put[i], mode, q.sig[i])
      BY <3>3, MirrorAssumption DEF Passes, Items
    <3> QED
      BY <3>3, <3>4, <3>5
  <2>3. CASE i \notin DOMAIN put
    <3>1. i \notin redo
      BY <2>3
    <3>2. /\ q.drawn[i] = p.drawn[i] /\ q.meta[i] = p.meta[i] /\ q.sig[i] = p.sig[i]
          /\ q.shade[i] = p.shade[i]
      BY <1>1, <2>3, <3>1
    <3> QED
      BY <1>3, <3>2 DEF PageInv, Looks
  <2> QED
    BY <2>1, <2>2, <2>3
<1>4. Looks(q, mode)
  BY <1>1, <1>3 DEF Looks
<1>5. Signed(q, mode)
  <2> SUFFICES ASSUME NEW i \in Items, q.sig[i] # <<>>
               PROVE  q.sig[i][1] = IF i \in Nodes /\ mode[2] = 1 THEN Form[q.drawn[i]] ELSE q.drawn[i]
    BY DEF Signed
  <2>1. CASE i \in redo
    BY <1>1, <2>1
  <2>2. CASE i \notin redo
    BY <1>1, <2>2 DEF PageInv, Signed
  <2> QED
    BY <2>1, <2>2
<1> QED
  BY <1>1, <1>2, <1>4, <1>5 DEF PageInv, q

\* maybeApplyPerformanceTier restyles every edge with the limit it crosses.
LEMMA TieredKeeps ==
    ASSUME NEW p, NEW m, PageInv(p, m)
    PROVE  PageInv(Tiered(p), m)
<1> DEFINE show == Cardinality(Present(p.drawn) \cap Nodes) <= LabelLimit
           q    == [p EXCEPT !.labels = show,
                       !.shade = [i \in Items |-> IF i \in Edges THEN <<show>> ELSE p.shade[i]]]
<1> HIDE DEF show
<1>0. q = [p EXCEPT !.labels = show,
               !.shade = [i \in Items |-> IF i \in Edges THEN <<show>> ELSE p.shade[i]]]
  OBVIOUS
<1> HIDE DEF q
<1>1. /\ Shaped(q)
      /\ q.labels = show
      /\ q.shade = [i \in Items |-> IF i \in Edges THEN <<show>> ELSE p.shade[i]]
      /\ q.drawn = p.drawn /\ q.sig = p.sig /\ q.meta = p.meta /\ q.loop = p.loop
      /\ q.target = p.target /\ q.pos = p.pos
  BY <1>0 DEF PageInv, Shaped
<1>2. Tiered(p) \in {p, q}
  BY DEF Tiered, show, q
<1>3. Eased(q) /\ Signed(q, m)
  BY <1>1 DEF PageInv, Eased, Gliding, Signed
<1>4. Looks(q, m)
  BY <1>1, MirrorAssumption DEF PageInv, Looks, Items
<1> QED
  BY <1>1, <1>2, <1>3, <1>4 DEF PageInv

LEMMA ReconciledKeeps ==
    ASSUME NEW p, NEW m, NEW msg, PageInv(p, m)
    PROVE  PageInv(Reconciled(p, msg), m)
<1>1. CASE msg.kind \notin {"whole", "last"}
  BY <1>1 DEF Reconciled
<1>2. CASE msg.kind \in {"whole", "last"}
  BY <1>2, WithoutKeeps, SyncKeeps DEF Reconciled
<1> QED
  BY <1>1, <1>2

\* updateGraph, whatever the message.
LEMMA UpdatedKeeps ==
    ASSUME NEW msg, NEW snap, MirrorInv
    PROVE  PageInv(Updated(page, msg, snap), mode)
<1> DEFINE started == [page EXCEPT !.sync = Accumulated(page.sync, msg)]
           placed  == Placed(Without(started, msg.gone), msg.at, snap)
<1>1. PageInv(started, mode)
  BY SyncKeeps DEF MirrorInv
<1>2. PageInv(placed, mode)
  BY <1>1, WithoutKeeps, PlacedKeeps
<1>3. PageInv(Reconciled(Styled(placed, msg.put), msg), mode)
  BY <1>2, StyledKeeps, ReconciledKeeps
<1> QED
  BY <1>3, TieredKeeps DEF Updated

LEMMA RecoloredKeeps ==
    ASSUME NEW p, NEW old, NEW m, PageInv(p, old)
    PROVE  PageInv(Recolored(p, m), m)
<1> DEFINE q == Recolored(p, m)
<1>0. q = [p EXCEPT !.shade = [i \in Items |-> IF i \in Nodes THEN m ELSE p.shade[i]],
                    !.sig   = [i \in Items |-> IF i \in Nodes THEN <<>> ELSE p.sig[i]]]
  BY DEF Recolored
<1> HIDE DEF q
<1>1. /\ Shaped(q)
      /\ q.shade = [i \in Items |-> IF i \in Nodes THEN m ELSE p.shade[i]]
      /\ q.sig = [i \in Items |-> IF i \in Nodes THEN <<>> ELSE p.sig[i]]
      /\ q.drawn = p.drawn /\ q.meta = p.meta /\ q.labels = p.labels /\ q.loop = p.loop
      /\ q.target = p.target /\ q.pos = p.pos
  BY <1>0 DEF PageInv, Shaped
<1>2. Eased(q) /\ Signed(q, m)
  BY <1>1, MirrorAssumption DEF PageInv, Eased, Gliding, Signed, Items
<1>3. Looks(q, m)
  <2> SUFFICES ASSUME NEW i \in Items, p.drawn[i] # 0
               PROVE  /\ Passes(i, p.drawn[i], p.meta[i], m, q.sig[i])
                      /\ q.shade[i] = IF i \in Nodes THEN m ELSE <<p.labels>>
    BY <1>1 DEF Looks
  <2>1. /\ Passes(i, p.drawn[i], p.meta[i], old, p.sig[i])
        /\ p.shade[i] = IF i \in Nodes THEN old ELSE <<p.labels>>
    BY DEF PageInv, Looks
  <2>2. i \in Nodes => q.sig[i] = <<>> /\ q.shade[i] = m
    BY <1>1
  <2>3. i \notin Nodes => i \in Edges /\ q.shade[i] = p.shade[i]
    BY <1>1 DEF Items
  <2> QED
    BY <2>1, <2>2, <2>3 DEF Passes
<1> QED
  BY <1>1, <1>2, <1>3 DEF PageInv, q

\* One frame of the easing loop: it ends when none is on its way.
LEMMA StepKeeps ==
    ASSUME MirrorInv, Step
    PROVE  MirrorInv'
<1>1. PICK done \in SUBSET Gliding(page) :
         page' = [page EXCEPT !.pos  = [n \in Nodes |-> IF n \in done THEN page.target[n]
                                                        ELSE page.pos[n]],
                              !.loop = Gliding(page) # done]
  BY DEF Step
<1>2. /\ Shaped(page') /\ mode' = mode
      /\ page'.pos = [n \in Nodes |-> IF n \in done THEN page.target[n] ELSE page.pos[n]]
      /\ page'.loop = (Gliding(page) # done)
      /\ page'.drawn = page.drawn /\ page'.shade = page.shade /\ page'.labels = page.labels
      /\ page'.sig = page.sig /\ page'.meta = page.meta /\ page'.target = page.target
  BY <1>1 DEF Step, MirrorInv, PageInv, Shaped
<1>3. Eased(page')
  <2>1. Gliding(page') = Gliding(page) \ done
    BY <1>2 DEF Gliding
  <2> QED
    BY <1>2, <2>1 DEF Eased
<1>4. Looks(page', mode) /\ Signed(page', mode)
  BY <1>2 DEF MirrorInv, PageInv, Looks, Signed
<1> QED
  BY <1>2, <1>3, <1>4 DEF MirrorInv, PageInv

-----------------------------------------------------------------------------
LEMMA NextMirror == MirrorInv /\ [Next]_vars => MirrorInv'
<1> SUFFICES ASSUME MirrorInv, [Next]_vars
             PROVE  MirrorInv'
  OBVIOUS
<1>1. ASSUME Tick \/ Resync \/ Connect \/ (\E i \in Items : \E v \in Versions \cup {0} : Change(i, v))
             \/ (\E n \in Nodes : \E s \in Spots : Move(n, s)) \/ UNCHANGED vars
      PROVE  MirrorInv'
  BY <1>1 DEF Tick, Resync, Connect, Change, Move, vars, MirrorInv
<1>2. ASSUME Disconnect PROVE MirrorInv'
  <2>1. CASE page' = page
    BY <1>2, <2>1 DEF Disconnect, MirrorInv
  <2>2. CASE page' = [Blank EXCEPT !.labels = page.labels, !.loop = page.loop, !.sync = page.sync]
    <3>1. PageInv([Blank EXCEPT !.labels = page.labels, !.loop = page.loop, !.sync = page.sync], mode)
      BY BlankIsSound
    <3>2. mode' = mode
      BY <1>2 DEF Disconnect
    <3> QED
      BY <2>2, <3>1, <3>2 DEF MirrorInv
  <2> QED
    BY <1>2, <2>1, <2>2 DEF Disconnect
<1>3. ASSUME Receive PROVE MirrorInv'
  <2>1. PICK snap : ReceiveFull(snap) \/ ReceiveDelta(snap) \/ ReceivePositions(snap)
    BY <1>3 DEF Receive
  <2>2. mode' = mode
    BY <1>3 DEF Receive
  <2>3. page' \in {page, Updated(page, Head(wire), snap), Placed(page, Head(wire).at, snap)}
    BY <2>1 DEF ReceiveFull, ReceiveDelta, ReceivePositions
  <2> QED
    BY <2>2, <2>3, UpdatedKeeps, PlacedKeeps DEF MirrorInv
<1>4. ASSUME ThrottleFires PROVE MirrorInv'
  BY <1>4, UpdatedKeeps DEF ThrottleFires, MirrorInv
<1>5. ASSUME NEW m, Restyle(m) PROVE MirrorInv'
  BY <1>5, RecoloredKeeps DEF Restyle, MirrorInv
<1> QED
  BY <1>1, <1>2, <1>3, <1>4, <1>5, StepKeeps DEF Next, ApplyTheme, SetNodeColorMode

\* The invariant of the picture, for every message the page may be sent.
THEOREM MirrorInvariant == Spec => []MirrorInv
<1>1. Init => MirrorInv
  <2>1. PageInv(Blank, mode)
    BY DEF Blank, Empty, PageInv, Shaped, Eased, Gliding, Looks, Signed
  <2> QED
    BY <2>1 DEF Init, MirrorInv
<1> QED
  BY <1>1, NextMirror, PTL DEF Spec

\* No node is ever left short of its place with the easing loop stopped:
\* applyTargetPosition, startPositionAnimation, stepPositionAnimation.
THEOREM GlidersAlwaysMove == Spec => []GlidersMove
<1>1. MirrorInv => GlidersMove
  BY DEF MirrorInv, PageInv, Eased, GlidersMove
<1> QED
  BY <1>1, MirrorInvariant, PTL

-----------------------------------------------------------------------------
(* What the page knows of, apart from the rest of the picture: every       *)
(* message makes of it what Redrawn says.                                  *)

Drawings == [drawn : [Items -> Versions \cup {0}], sync : (SUBSET Items) \cup {None}]

DrawingOf(p) == [drawn |-> p.meta, sync |-> p.sync]

Completes(m) == m.kind \in {"whole", "last"}

Redrawn(d, m) ==
    LET sync == Accumulated(d.sync, m)
        keep == IF sync = None THEN DOMAIN m.put ELSE sync
    IN IF m.kind = "positions" THEN d
       ELSE [drawn |-> [i \in Items |-> IF Completes(m) /\ i \notin keep THEN 0
                                        ELSE IF i \in DOMAIN m.put THEN m.put[i]
                                        ELSE IF i \in m.gone THEN 0 ELSE d.drawn[i]],
             sync |-> IF Completes(m) THEN None ELSE sync]

Kinds == {"delta", "whole", "first", "chunk", "last", "positions"}

Sendable(m) ==
    /\ m.kind \in Kinds
    /\ DOMAIN m.put \subseteq Items /\ \A i \in DOMAIN m.put : m.put[i] \in Versions
    /\ DOMAIN m.at \subseteq Nodes /\ \A n \in DOMAIN m.at : m.at[n] \in Spots
    /\ m.kind = "delta" => m # None

LEMMA RedrawnTyped ==
    ASSUME NEW d \in Drawings, NEW m, Sendable(m)
    PROVE  Redrawn(d, m) \in Drawings
<1>1. Accumulated(d.sync, m) \in (SUBSET Items) \cup {None}
  <2>1. d.sync \in (SUBSET Items) \cup {None} /\ DOMAIN m.put \in SUBSET Items
    BY DEF Drawings, Sendable
  <2>2. Accumulated(d.sync, m) \in {None, DOMAIN m.put, d.sync \cup DOMAIN m.put}
        /\ (d.sync = None => Accumulated(d.sync, m) \in {None, DOMAIN m.put})
    BY DEF Accumulated
  <2>3. d.sync # None => d.sync \cup DOMAIN m.put \in SUBSET Items
    BY <2>1
  <2> QED
    BY <2>1, <2>2, <2>3
<1>2. d.drawn \in [Items -> Versions \cup {0}]
  BY DEF Drawings
<1> DEFINE sync == Accumulated(d.sync, m)
           keep == IF sync = None THEN DOMAIN m.put ELSE sync
           drawn == [i \in Items |-> IF Completes(m) /\ i \notin keep THEN 0
                                     ELSE IF i \in DOMAIN m.put THEN m.put[i]
                                     ELSE IF i \in m.gone THEN 0 ELSE d.drawn[i]]
<1>3. drawn \in [Items -> Versions \cup {0}]
  <2> HIDE DEF keep
  <2> QED
    BY <1>2 DEF Sendable
<1>4. Redrawn(d, m) \in {d, [drawn |-> drawn, sync |-> IF Completes(m) THEN None ELSE sync]}
  BY DEF Redrawn
<1> HIDE DEF drawn, sync
<1>5. (IF Completes(m) THEN None ELSE sync) \in (SUBSET Items) \cup {None}
  BY <1>1 DEF sync
<1>6. [drawn |-> drawn, sync |-> IF Completes(m) THEN None ELSE sync] \in Drawings
  BY <1>3, <1>5 DEF Drawings
<1> QED
  BY <1>4, <1>6

\* What is in the DataSets is what the page knows of.
Matched(p) == \A i \in Items : p.drawn[i] = 0 <=> p.meta[i] = 0

LEMMA StyledDraws ==
    ASSUME NEW p, NEW put, Shaped(p)
    PROVE  /\ Styled(p, put).meta = [i \in Items |-> IF i \in DOMAIN put THEN put[i] ELSE p.meta[i]]
           /\ Styled(p, put).sync = p.sync
  BY DEF Styled, Shaped

LEMMA WithoutDraws ==
    ASSUME NEW p, NEW gone, Shaped(p)
    PROVE  /\ Without(p, gone).drawn = [i \in Items |-> IF i \in gone THEN 0 ELSE p.drawn[i]]
           /\ Without(p, gone).meta = [i \in Items |-> IF i \in gone THEN 0 ELSE p.meta[i]]
           /\ Without(p, gone).sync = p.sync
  BY DEF Without, Shaped

LEMMA PlacedDraws ==
    ASSUME NEW p, NEW at, NEW snap, Shaped(p)
    PROVE  /\ Placed(p, at, snap).drawn = p.drawn /\ Placed(p, at, snap).meta = p.meta
           /\ Placed(p, at, snap).sync = p.sync
  BY DEF Placed, Shaped

LEMMA TieredDraws ==
    ASSUME NEW p, Shaped(p)
    PROVE  /\ Tiered(p).drawn = p.drawn /\ Tiered(p).meta = p.meta
           /\ Tiered(p).sync = p.sync
  BY DEF Tiered, Shaped

LEMMA StyledMatches ==
    ASSUME NEW p, NEW put, Shaped(p), Matched(p), \A i \in DOMAIN put : put[i] # 0
    PROVE  Matched(Styled(p, put))
<1> DEFINE shade(i) == IF i \in Nodes THEN mode ELSE <<p.labels>>
           redo     == {i \in DOMAIN put : p.sig[i] # <<Told(i, put[i]), shade(i)>> \/ p.drawn[i] = 0}
           q        == Styled(p, put)
<1>0. q = [p EXCEPT !.meta  = [i \in Items |-> IF i \in DOMAIN put THEN put[i] ELSE p.meta[i]],
                    !.drawn = [i \in Items |-> IF i \in redo THEN put[i] ELSE p.drawn[i]],
                    !.shade = [i \in Items |-> IF i \in redo THEN shade(i) ELSE p.shade[i]],
                    !.sig   = [i \in Items |-> IF i \in redo THEN <<Told(i, put[i]), shade(i)>> ELSE p.sig[i]]]
  BY DEF Styled
<1>1. \A i \in DOMAIN put : i \in redo \/ p.drawn[i] # 0
  OBVIOUS
<1>2. \A i \in redo : i \in DOMAIN put
  OBVIOUS
<1> HIDE DEF q, redo, shade
<1>3. /\ q.drawn = [i \in Items |-> IF i \in redo THEN put[i] ELSE p.drawn[i]]
      /\ q.meta = [i \in Items |-> IF i \in DOMAIN put THEN put[i] ELSE p.meta[i]]
  BY <1>0 DEF Shaped
<1> QED
  BY <1>1, <1>2, <1>3 DEF Matched, q

LEMMA ReconciledDraws ==
    ASSUME NEW p, NEW msg, Shaped(p), Matched(p), p.meta \in [Items -> Nat], p.drawn \in [Items -> Nat]
    PROVE  LET keep == IF p.sync = None THEN DOMAIN msg.put ELSE p.sync IN
           /\ Reconciled(p, msg).meta =
                 [i \in Items |-> IF Completes(msg) /\ i \notin keep THEN 0 ELSE p.meta[i]]
           /\ Reconciled(p, msg).sync = IF Completes(msg) THEN None ELSE p.sync
           /\ Matched(Reconciled(p, msg))
<1> DEFINE keep == IF p.sync = None THEN DOMAIN msg.put ELSE p.sync
           q == Without(p, Present(p.drawn) \ keep)
<1>1. CASE ~Completes(msg)
  BY <1>1 DEF Completes, Reconciled
<1>2. CASE Completes(msg)
  <2>1. Reconciled(p, msg) = [q EXCEPT !.sync = None]
    BY <1>2 DEF Completes, Reconciled
  <2>2. /\ q.drawn = [i \in Items |-> IF i \in Present(p.drawn) \ keep THEN 0 ELSE p.drawn[i]]
        /\ q.meta = [i \in Items |-> IF i \in Present(p.drawn) \ keep THEN 0 ELSE p.meta[i]]
        /\ {"drawn", "meta", "sync"} \subseteq DOMAIN q
    <3> HIDE DEF keep
    <3> QED
      BY WithoutDraws DEF Shaped, Without
  <2> HIDE DEF q, keep
  <2>3. \A i \in Items : i \in Present(p.drawn) <=> p.meta[i] # 0
    BY DEF Present, Matched
  <2>4. \A i \in Items : q.meta[i] = IF i \notin keep THEN 0 ELSE p.meta[i]
    BY <2>2, <2>3
  <2>5. Matched(q)
    BY <2>2 DEF Matched
  <2>6. /\ [q EXCEPT !.sync = None].drawn = q.drawn /\ [q EXCEPT !.sync = None].meta = q.meta
        /\ [q EXCEPT !.sync = None].sync = None
    BY <2>2
  <2>7. Matched([q EXCEPT !.sync = None])
    BY <2>5, <2>6 DEF Matched
  <2> QED
    BY <1>2, <2>1, <2>2, <2>4, <2>6, <2>7 DEF keep
<1> QED
  BY <1>1, <1>2

LEMMA VersionsAreNumbers ==
    ASSUME NEW f \in [Items -> Versions \cup {0}]
    PROVE  f \in [Items -> Nat]
<1>1. ASSUME NEW i \in Items PROVE f[i] \in Nat
  <2>1. f[i] \in Versions \cup {0}
    OBVIOUS
  <2>2. CASE f[i] \in Versions
    BY <2>2, MirrorAssumption
  <2>3. CASE f[i] = 0
    BY <2>3
  <2> QED
    BY <2>1, <2>2, <2>3
<1> QED
  BY <1>1

\* The DataSets hold versions, of what the page knows of.
Dressed(p) == p.drawn \in [Items -> Versions \cup {0}] /\ Matched(p)

\* updateGraph draws what the message says.
LEMMA UpdatedDraws ==
    ASSUME NEW p, NEW msg, NEW snap, PageInv(p, mode), Sendable(msg), msg.kind # "positions",
           DrawingOf(p) \in Drawings, Dressed(p)
    PROVE  /\ DrawingOf(Updated(p, msg, snap)) = Redrawn(DrawingOf(p), msg)
           /\ Dressed(Updated(p, msg, snap))
<1> DEFINE sync == Accumulated(p.sync, msg)
           started == [p EXCEPT !.sync = sync]
           bare == Without(started, msg.gone)
           placed == Placed(bare, msg.at, snap)
           styled == Styled(placed, msg.put)
           done == Reconciled(styled, msg)
           known == [i \in Items |-> IF i \in DOMAIN msg.put THEN msg.put[i]
                                     ELSE IF i \in msg.gone THEN 0 ELSE p.meta[i]]
<1>0. p.meta \in [Items -> Versions \cup {0}]
  BY DEF DrawingOf, Drawings
<1>1. PageInv(started, mode) /\ started.meta = p.meta /\ started.sync = sync /\ Dressed(started)
  <2>1. PageInv(started, mode)
    BY SyncKeeps
  <2> HIDE DEF sync
  <2>2. started.meta = p.meta /\ started.sync = sync /\ started.drawn = p.drawn
    BY DEF PageInv, Shaped
  <2> HIDE DEF started
  <2> QED
    BY <2>1, <2>2 DEF Dressed, Matched
<1> HIDE DEF started, sync
<1>2. /\ PageInv(bare, mode) /\ bare.sync = sync /\ Dressed(bare)
      /\ bare.meta = [i \in Items |-> IF i \in msg.gone THEN 0 ELSE p.meta[i]]
  <2>1. PageInv(bare, mode)
    BY <1>1, WithoutKeeps
  <2>2. Shaped(started)
    BY <1>1 DEF PageInv
  <2>3. /\ bare.sync = sync
        /\ bare.meta = [i \in Items |-> IF i \in msg.gone THEN 0 ELSE p.meta[i]]
        /\ bare.drawn = [i \in Items |-> IF i \in msg.gone THEN 0 ELSE started.drawn[i]]
    BY <1>1, <2>2, WithoutDraws
  <2> HIDE DEF bare
  <2>4. Dressed(bare)
    BY <1>1, <2>3 DEF Dressed, Matched
  <2> QED
    BY <2>1, <2>3, <2>4
<1> HIDE DEF bare
<1>3. PageInv(placed, mode) /\ placed.sync = sync /\ placed.meta = bare.meta /\ Dressed(placed)
  <2>1. PageInv(placed, mode) /\ placed.sync = sync /\ placed.meta = bare.meta /\ placed.drawn = bare.drawn
    BY <1>2, PlacedKeeps, PlacedDraws DEF PageInv
  <2> HIDE DEF placed
  <2> QED
    BY <1>2, <2>1 DEF Dressed, Matched
<1> HIDE DEF placed
<1>4. /\ PageInv(styled, mode) /\ styled.sync = sync /\ Dressed(styled)
      /\ styled.meta = [i \in Items |-> IF i \in DOMAIN msg.put THEN msg.put[i] ELSE placed.meta[i]]
  <2>1. PageInv(styled, mode)
    BY <1>3, StyledKeeps
  <2>2. Shaped(placed)
    BY <1>3 DEF PageInv
  <2>3. /\ styled.sync = sync
        /\ styled.meta = [i \in Items |-> IF i \in DOMAIN msg.put THEN msg.put[i] ELSE placed.meta[i]]
    BY <1>3, <2>2, StyledDraws
  <2>4. \A i \in DOMAIN msg.put : msg.put[i] \in Versions /\ msg.put[i] # 0
    BY MirrorAssumption DEF Sendable
  <2>5. Matched(styled)
    BY <1>3, <2>2, <2>4, StyledMatches DEF Dressed
  <2>6. \E redo \in SUBSET DOMAIN msg.put :
           styled.drawn = [i \in Items |-> IF i \in redo THEN msg.put[i] ELSE placed.drawn[i]]
    <3> DEFINE shade(i) == IF i \in Nodes THEN mode ELSE <<placed.labels>>
               redo == {i \in DOMAIN msg.put : placed.sig[i] # <<Told(i, msg.put[i]), shade(i)>>
                                                \/ placed.drawn[i] = 0}
    <3>1. redo \in SUBSET DOMAIN msg.put
      OBVIOUS
    <3>2. styled.drawn = [i \in Items |-> IF i \in redo THEN msg.put[i] ELSE placed.drawn[i]]
      BY <2>2 DEF Styled, Shaped
    <3> HIDE DEF redo, styled
    <3> QED
      BY <3>1, <3>2
  <2> HIDE DEF styled
  <2>7. styled.drawn \in [Items -> Versions \cup {0}]
    BY <1>3, <2>4, <2>6 DEF Dressed
  <2> QED
    BY <2>1, <2>3, <2>5, <2>7 DEF Dressed
<1> HIDE DEF styled
<1>5. styled.meta = known
  BY <1>2, <1>3, <1>4
<1>6. known \in [Items -> Nat]
  <2>1. known \in [Items -> Versions \cup {0}]
    BY <1>0 DEF Sendable
  <2> HIDE DEF known
  <2> QED
    BY <2>1, VersionsAreNumbers
<1> HIDE DEF known
<1> DEFINE keep == IF sync = None THEN DOMAIN msg.put ELSE sync
<1>7. /\ done.meta = [i \in Items |-> IF Completes(msg) /\ i \notin keep THEN 0 ELSE known[i]]
      /\ done.sync = IF Completes(msg) THEN None ELSE sync
      /\ Shaped(done) /\ Dressed(done)
  <2>1. Shaped(styled) /\ Matched(styled) /\ styled.drawn \in [Items -> Versions \cup {0}]
    BY <1>4 DEF PageInv, Dressed
  <2>2. PageInv(done, mode)
    BY <1>4, ReconciledKeeps
  <2>3. Shaped(done)
    BY <2>2 DEF PageInv
  <2>4. styled.drawn \in [Items -> Nat]
    BY <2>1, VersionsAreNumbers
  <2>5. /\ done.meta = [i \in Items |-> IF Completes(msg) /\ i \notin keep THEN 0 ELSE known[i]]
        /\ done.sync = IF Completes(msg) THEN None ELSE sync
        /\ Matched(done)
    BY <1>4, <1>5, <1>6, <2>1, <2>4, ReconciledDraws
  <2>6. \E gone : done.drawn \in {styled.drawn, [i \in Items |-> IF i \in gone THEN 0 ELSE styled.drawn[i]]}
    <3>1. \E gone : done = styled \/ done = [Without(styled, gone) EXCEPT !.sync = None]
      BY DEF Reconciled
    <3>2. ASSUME NEW gone
          PROVE  [Without(styled, gone) EXCEPT !.sync = None].drawn
                    = [i \in Items |-> IF i \in gone THEN 0 ELSE styled.drawn[i]]
      BY <2>1 DEF Without, Shaped
    <3>3. PICK gone : done = styled \/ done = [Without(styled, gone) EXCEPT !.sync = None]
      BY <3>1
    <3> HIDE DEF done
    <3>4. done.drawn \in {styled.drawn, [i \in Items |-> IF i \in gone THEN 0 ELSE styled.drawn[i]]}
      BY <3>2, <3>3
    <3> QED
      BY <3>4
  <2> HIDE DEF done
  <2>7. done.drawn \in [Items -> Versions \cup {0}]
    BY <2>1, <2>6
  <2> QED
    BY <2>3, <2>5, <2>7 DEF Dressed
<1> HIDE DEF done
<1>8. Updated(p, msg, snap) = Tiered(done)
  BY DEF Updated, done, styled, placed, bare, started, sync
<1>9. /\ Updated(p, msg, snap).meta = done.meta /\ Updated(p, msg, snap).drawn = done.drawn
      /\ Updated(p, msg, snap).sync = done.sync
  BY <1>7, <1>8, TieredDraws
<1>10. DrawingOf(p).sync = p.sync /\ DrawingOf(p).drawn = p.meta
  BY DEF DrawingOf
<1>11. done.meta = [i \in Items |-> IF Completes(msg) /\ i \notin keep THEN 0
                                    ELSE IF i \in DOMAIN msg.put THEN msg.put[i]
                                    ELSE IF i \in msg.gone THEN 0 ELSE p.meta[i]]
  BY <1>7 DEF known
<1>12. DrawingOf(Updated(p, msg, snap)) = [drawn |-> done.meta, sync |-> done.sync]
  BY <1>9 DEF DrawingOf
<1>13. Dressed(Updated(p, msg, snap))
  BY <1>7, <1>9 DEF Dressed, Matched
<1> HIDE DEF keep
<1> QED
  BY <1>7, <1>10, <1>11, <1>12, <1>13 DEF Redrawn, sync, keep

-----------------------------------------------------------------------------
(* Types.                                                                  *)

PageTyped(p) ==
    /\ DrawingOf(p) \in Drawings /\ Dressed(p)
    /\ p.meta \in [Items -> Versions \cup {0}]
    /\ p.target \in [Nodes -> Spots \cup {0}] /\ p.pos \in [Nodes -> Spots \cup {0}]
    /\ p.loop \in BOOLEAN

LEMMA PlacedTyped ==
    ASSUME NEW p, NEW at, NEW snap, Shaped(p), PageTyped(p),
           \A n \in DOMAIN at : at[n] \in Spots
    PROVE  PageTyped(Placed(p, at, snap))
<1> DEFINE new  == {n \in DOMAIN at : p.target[n] # at[n]}
           jump == {n \in new : n \in snap \/ p.pos[n] = 0}
           q    == Placed(p, at, snap)
<1>1. q = [p EXCEPT !.target = [n \in Nodes |-> IF n \in new THEN at[n] ELSE p.target[n]],
                    !.pos    = [n \in Nodes |-> IF n \in jump THEN at[n] ELSE p.pos[n]],
                    !.loop   = p.loop \/ new \ jump # {}]
  BY DEF Placed
<1>2. \A n \in new : at[n] \in Spots
  OBVIOUS
<1>3. \A n \in jump : at[n] \in Spots
  OBVIOUS
<1> HIDE DEF new, jump, q
<1>4. /\ q.target = [n \in Nodes |-> IF n \in new THEN at[n] ELSE p.target[n]]
      /\ q.pos = [n \in Nodes |-> IF n \in jump THEN at[n] ELSE p.pos[n]]
      /\ q.loop = (p.loop \/ new \ jump # {})
      /\ q.meta = p.meta /\ q.drawn = p.drawn /\ q.sync = p.sync
  BY <1>1 DEF Shaped
<1>5. q.target \in [Nodes -> Spots \cup {0}] /\ q.pos \in [Nodes -> Spots \cup {0}]
  BY <1>2, <1>3, <1>4 DEF PageTyped
<1>6. q.loop \in BOOLEAN
  BY <1>4 DEF PageTyped
<1>7. q.meta \in [Items -> Versions \cup {0}] /\ DrawingOf(q) = DrawingOf(p) /\ Dressed(q)
  BY <1>4 DEF PageTyped, DrawingOf, Dressed, Matched
<1> QED
  BY <1>5, <1>6, <1>7 DEF PageTyped, q

LEMMA UpdatedTyped ==
    ASSUME NEW p, NEW msg, NEW snap, PageInv(p, mode), PageTyped(p), Sendable(msg),
           msg.kind # "positions"
    PROVE  PageTyped(Updated(p, msg, snap))
<1> DEFINE sync == Accumulated(p.sync, msg)
           started == [p EXCEPT !.sync = sync]
           bare == Without(started, msg.gone)
           placed == Placed(bare, msg.at, snap)
           styled == Styled(placed, msg.put)
           done == Reconciled(styled, msg)
           Moved(q) == /\ q.meta \in [Items -> Versions \cup {0}]
                       /\ q.target \in [Nodes -> Spots \cup {0}]
                       /\ q.pos \in [Nodes -> Spots \cup {0}]
                       /\ q.loop \in BOOLEAN
<1>1. ASSUME NEW q, NEW gone, Shaped(q), Moved(q) PROVE Moved(Without(q, gone))
  <2>1. /\ Without(q, gone).meta = [i \in Items |-> IF i \in gone THEN 0 ELSE q.meta[i]]
        /\ Without(q, gone).target = [n \in Nodes |-> IF n \in gone THEN 0 ELSE q.target[n]]
        /\ Without(q, gone).pos = [n \in Nodes |-> IF n \in gone THEN 0 ELSE q.pos[n]]
        /\ Without(q, gone).loop = q.loop
    BY <1>1 DEF Without, Shaped
  <2> QED
    BY <1>1, <2>1
<1>2. ASSUME NEW q, NEW s, Shaped(q), Moved(q) PROVE Moved([q EXCEPT !.sync = s])
  BY <1>2 DEF Shaped
<1>3. PageInv(started, mode) /\ Moved(started)
  BY <1>2, SyncKeeps DEF PageInv, PageTyped
<1> HIDE DEF started, sync, Moved
<1>4. Shaped(started)
  BY <1>3 DEF PageInv
<1>5. PageInv(bare, mode) /\ Moved(bare)
  BY <1>1, <1>3, <1>4, WithoutKeeps
<1> HIDE DEF bare
<1>6. Shaped(bare)
  BY <1>5 DEF PageInv
<1>7. PageInv(placed, mode) /\ Moved(placed)
  <2>1. PageInv(placed, mode)
    BY <1>5, PlacedKeeps
  <2> DEFINE at == msg.at
             new  == {n \in DOMAIN at : bare.target[n] # at[n]}
             jump == {n \in new : n \in snap \/ bare.pos[n] = 0}
  <2>2. placed = [bare EXCEPT !.target = [n \in Nodes |-> IF n \in new THEN at[n] ELSE bare.target[n]],
                              !.pos    = [n \in Nodes |-> IF n \in jump THEN at[n] ELSE bare.pos[n]],
                              !.loop   = bare.loop \/ new \ jump # {}]
    BY DEF Placed
  <2>3. (\A n \in new : at[n] \in Spots) /\ (\A n \in jump : at[n] \in Spots)
    BY DEF Sendable
  <2> HIDE DEF new, jump, at, placed
  <2>4. /\ placed.target = [n \in Nodes |-> IF n \in new THEN at[n] ELSE bare.target[n]]
        /\ placed.pos = [n \in Nodes |-> IF n \in jump THEN at[n] ELSE bare.pos[n]]
        /\ placed.loop = (bare.loop \/ new \ jump # {})
        /\ placed.meta = bare.meta
    BY <1>6, <2>2 DEF Shaped
  <2>5. placed.target \in [Nodes -> Spots \cup {0}] /\ placed.pos \in [Nodes -> Spots \cup {0}]
    BY <1>5, <2>3, <2>4 DEF Moved
  <2>6. placed.loop \in BOOLEAN /\ placed.meta \in [Items -> Versions \cup {0}]
    BY <1>5, <2>4 DEF Moved
  <2> QED
    BY <2>1, <2>5, <2>6 DEF Moved
<1> HIDE DEF placed
<1>8. PageInv(styled, mode) /\ Moved(styled)
  <2>1. PageInv(styled, mode)
    BY <1>7, StyledKeeps
  <2>2. Shaped(placed)
    BY <1>7 DEF PageInv
  <2>3. /\ styled.meta = [i \in Items |-> IF i \in DOMAIN msg.put THEN msg.put[i] ELSE placed.meta[i]]
        /\ styled.target = placed.target /\ styled.pos = placed.pos /\ styled.loop = placed.loop
    BY <2>2 DEF Styled, Shaped
  <2>4. styled.meta \in [Items -> Versions \cup {0}]
    BY <1>7, <2>3 DEF Moved, Sendable
  <2> QED
    BY <1>7, <2>1, <2>3, <2>4 DEF Moved
<1> HIDE DEF styled
<1>9. PageInv(done, mode) /\ Moved(done)
  <2>1. PageInv(done, mode)
    BY <1>8, ReconciledKeeps
  <2>2. Shaped(styled)
    BY <1>8 DEF PageInv
  <2>3. \E gone : done = styled \/ done = [Without(styled, gone) EXCEPT !.sync = None]
    BY DEF Reconciled
  <2>4. ASSUME NEW gone PROVE Shaped(Without(styled, gone)) /\ Moved(Without(styled, gone))
    <3>1. PageInv(Without(styled, gone), mode)
      BY <1>8, WithoutKeeps
    <3> QED
      BY <3>1, <1>1, <1>8, <2>2 DEF PageInv
  <2> HIDE DEF done
  <2>5. Moved(done)
    BY <1>2, <1>8, <2>3, <2>4
  <2> QED
    BY <2>1, <2>5
<1>10. Updated(p, msg, snap) = Tiered(done)
  BY DEF Updated, done, styled, placed, bare, started, sync
<1> HIDE DEF done
<1>11. Moved(Tiered(done))
  <2>1. Shaped(done)
    BY <1>9 DEF PageInv
  <2>2. Tiered(done).meta = done.meta /\ Tiered(done).target = done.target
        /\ Tiered(done).pos = done.pos /\ Tiered(done).loop = done.loop
    BY <2>1 DEF Tiered, Shaped
  <2> QED
    BY <1>9, <2>2 DEF Moved
<1>12. DrawingOf(Updated(p, msg, snap)) \in Drawings /\ Dressed(Updated(p, msg, snap))
  BY UpdatedDraws, RedrawnTyped DEF PageTyped
<1> QED
  BY <1>10, <1>11, <1>12 DEF Moved, PageTyped

-----------------------------------------------------------------------------
(* Messages in a row.                                                      *)

Sent == UNION {UNION {[kind : Kinds, put : [S -> Versions], at : [T -> Spots], gone : SUBSET Items] :
                         T \in SUBSET Nodes} : S \in SUBSET Items}

LEMMA InSent ==
    ASSUME NEW S \in SUBSET Items, NEW T \in SUBSET Nodes,
           NEW m \in [kind : Kinds, put : [S -> Versions], at : [T -> Spots], gone : SUBSET Items]
    PROVE  m \in Sent
  BY DEF Sent

LEMMA SentIsSendable == \A m \in Sent : Sendable(m)
<1> SUFFICES ASSUME NEW m \in Sent PROVE Sendable(m)
  OBVIOUS
<1>1. PICK S \in SUBSET Items, T \in SUBSET Nodes :
         m \in [kind : Kinds, put : [S -> Versions], at : [T -> Spots], gone : SUBSET Items]
  BY DEF Sent
<1>2. m.kind = "delta" => m \in [kind : {"delta"}, put : [S -> Versions], at : [T -> Spots], gone : SUBSET Items]
  BY <1>1
<1>3. m.kind = "delta" => m # None
  BY <1>2, MirrorAssumption
<1>4. m.kind \in Kinds /\ m.put \in [S -> Versions] /\ m.at \in [T -> Spots]
  BY <1>1
<1>5. DOMAIN m.put = S /\ DOMAIN m.at = T
  BY <1>4
<1> QED
  BY <1>3, <1>4, <1>5 DEF Sendable

\* The drawings f that the messages of w make of d, one after the other.
Draws(f, d, w) ==
    /\ f \in [0 .. Len(w) -> Drawings]
    /\ f[0] = d
    /\ \A k \in 1 .. Len(w) : f[k] = Redrawn(f[k - 1], w[k])

LEMMA DrawsExist ==
    ASSUME NEW d \in Drawings, NEW w \in Seq(Sent)
    PROVE  \E f : Draws(f, d, w)
<1>1. Len(w) \in Nat /\ \A k \in 1 .. Len(w) : w[k] \in Sent
  OBVIOUS
<1> DEFINE n == Len(w)
           turn == [k \in 1 .. n |-> [x \in Drawings |-> Redrawn(x, w[k])]]
<1>2. \A k \in 1 .. n, x \in Drawings : Redrawn(x, w[k]) \in Drawings
  BY <1>1, SentIsSendable, RedrawnTyped
<1> HIDE DEF n
<1>3. turn \in [1 .. n -> [Drawings -> Drawings]]
  BY <1>2
<1>4. \A k \in 1 .. n, x \in Drawings : turn[k][x] = Redrawn(x, w[k])
  OBVIOUS
<1> HIDE DEF turn
<1>5. n \in Nat
  BY <1>1 DEF n
<1>6. PICK f : /\ f = [i \in 0 .. n |-> IF i = 0 THEN d ELSE turn[i][f[i - 1]]]
               /\ f \in [0 .. n -> Drawings]
  BY <1>3, <1>5, LoopExists, ZenonT(60)
<1>7. f[0] = d
  BY <1>5, <1>6
<1>8. ASSUME NEW k \in 1 .. n PROVE f[k] = Redrawn(f[k - 1], w[k])
  <2>1. k \in 0 .. n /\ k - 1 \in 0 .. n /\ k # 0
    BY <1>5
  <2>2. f[k] = turn[k][f[k - 1]] /\ f[k - 1] \in Drawings
    BY <1>6, <2>1
  <2> QED
    BY <1>4, <2>2
<1> QED
  BY <1>6, <1>7, <1>8 DEF Draws, n

\* Two drawings that agree on what the full in progress has brought so far.
Agree(d, e) == d.sync = e.sync /\ d.sync # None /\ \A i \in d.sync : d.drawn[i] = e.drawn[i]

DoneBy(w, k) == \E j \in 1 .. k : Completes(w[j])

\* A full once begun leaves nothing of what was drawn before: whatever two drawings a
\* row of messages starts from, they are the same once a full is complete.
LEMMA FullsForget ==
    ASSUME NEW w \in Seq(Sent), NEW d, NEW e, NEW f, NEW g, Draws(f, d, w), Draws(g, e, w),
           \A k \in 1 .. Len(w) : w[k].kind \in {"chunk", "last"} =>
               k # 1 /\ w[k - 1].kind \in {"first", "chunk"}
    PROVE  \A k \in 0 .. Len(w) : DoneBy(w, k) => f[k] = g[k]
<1> DEFINE n == Len(w)
           Same(k) == /\ DoneBy(w, k) => f[k] = g[k]
                      /\ k # 0 /\ w[k].kind \in {"first", "chunk"} => f[k] = g[k] \/ Agree(f[k], g[k])
           T == {k \in Nat : Same(k)}
<1>1. n \in Nat /\ \A k \in 1 .. n : w[k] \in Sent /\ Sendable(w[k])
  BY SentIsSendable
<1>2. 0 \in T
  BY DEF DoneBy
<1>3. ASSUME NEW k \in 0 .. n, k \in T, k < n PROVE k + 1 \in T
  <2> DEFINE m == w[k + 1]
  <2>1. k \in Nat /\ k + 1 \in 1 .. n /\ (k + 1) - 1 = k /\ Sendable(m)
    BY <1>1, <1>3
  <2>2. /\ f[k + 1] = Redrawn(f[k], m) /\ g[k + 1] = Redrawn(g[k], m)
        /\ f[k] \in Drawings /\ g[k] \in Drawings
    BY <1>1, <2>1 DEF Draws
  <2>3. m.kind \in {"chunk", "last"} => k # 0 /\ w[k].kind \in {"first", "chunk"}
    BY <2>1
  <2>4. DoneBy(w, k + 1) => DoneBy(w, k) \/ Completes(m)
    BY <2>1 DEF DoneBy
  <2>5. Same(k)
    BY <1>3
  <2> SUFFICES Same(k + 1)
    BY <2>1 DEF T
  <2> HIDE DEF n, m, T
  <2>6. CASE f[k] = g[k]
    BY <2>2, <2>6
  <2>7. CASE f[k] # g[k]
    <3>1. ~DoneBy(w, k)
      BY <2>5, <2>7
    <3>2. k # 0 /\ w[k].kind \in {"first", "chunk"} => Agree(f[k], g[k])
      BY <2>5, <2>7
    <3>3. CASE m.kind = "whole"
      <4>1. Redrawn(f[k], m) = Redrawn(g[k], m)
        BY <3>3 DEF Redrawn, Accumulated, Completes
      <4> QED
        BY <2>2, <3>3, <4>1 DEF m
    <3>4. CASE m.kind = "first"
      <4>1. ~Completes(m) /\ Accumulated(f[k].sync, m) = DOMAIN m.put
            /\ Accumulated(g[k].sync, m) = DOMAIN m.put
        BY <3>4 DEF Accumulated, Completes
      <4>2. DOMAIN m.put # None
        BY <2>1, MirrorAssumption DEF Sendable
      <4>3. Agree(f[k + 1], g[k + 1])
        BY <2>1, <2>2, <3>4, <4>1, <4>2 DEF Redrawn, Agree, Sendable
      <4>4. ~DoneBy(w, k + 1)
        BY <2>4, <3>1, <4>1
      <4> QED
        BY <4>3, <4>4 DEF m
    <3>5. CASE m.kind = "chunk"
      <4>1. Agree(f[k], g[k])
        BY <2>3, <3>2, <3>5
      <4>2. ~Completes(m) /\ Accumulated(f[k].sync, m) = f[k].sync \cup DOMAIN m.put
            /\ Accumulated(g[k].sync, m) = f[k].sync \cup DOMAIN m.put
        BY <3>5, <4>1 DEF Accumulated, Completes, Agree
      <4>3. f[k].sync \cup DOMAIN m.put # None /\ f[k].sync \subseteq Items
        <5>1. f[k].sync \in (SUBSET Items) \cup {None}
          BY <2>2 DEF Drawings
        <5>2. f[k].sync \in SUBSET Items
          BY <4>1, <5>1 DEF Agree
        <5>3. f[k].sync \cup DOMAIN m.put \in SUBSET Items
          BY <2>1, <5>2 DEF Sendable
        <5> QED
          BY <5>2, <5>3, MirrorAssumption
      <4> DEFINE D(x) == [i \in Items |-> IF i \in DOMAIN m.put THEN m.put[i]
                                          ELSE IF i \in m.gone THEN 0 ELSE x.drawn[i]]
      <4>4. /\ f[k + 1].sync = f[k].sync \cup DOMAIN m.put /\ f[k + 1].drawn = D(f[k])
            /\ g[k + 1].sync = f[k].sync \cup DOMAIN m.put /\ g[k + 1].drawn = D(g[k])
        BY <2>2, <3>5, <4>2 DEF Redrawn
      <4>5. \A i \in f[k].sync \cup DOMAIN m.put : i \in Items /\ D(f[k])[i] = D(g[k])[i]
        BY <2>1, <4>1, <4>3 DEF Agree, Sendable
      <4> HIDE DEF D
      <4>6. Agree(f[k + 1], g[k + 1])
        BY <4>3, <4>4, <4>5 DEF Agree
      <4>7. ~DoneBy(w, k + 1)
        BY <2>4, <3>1, <4>2
      <4> QED
        BY <4>6, <4>7
    <3>6. CASE m.kind = "last"
      <4>1. Agree(f[k], g[k])
        BY <2>3, <3>2, <3>6
      <4>2. Completes(m) /\ Accumulated(f[k].sync, m) = f[k].sync \cup DOMAIN m.put
            /\ Accumulated(g[k].sync, m) = f[k].sync \cup DOMAIN m.put
        BY <3>6, <4>1 DEF Accumulated, Completes, Agree
      <4> DEFINE keep == f[k].sync \cup DOMAIN m.put
                 all == IF keep = None THEN DOMAIN m.put ELSE keep
                 D(x) == [i \in Items |-> IF Completes(m) /\ i \notin all THEN 0
                                          ELSE IF i \in DOMAIN m.put THEN m.put[i]
                                          ELSE IF i \in m.gone THEN 0 ELSE x.drawn[i]]
      <4>3. /\ f[k + 1] = [drawn |-> D(f[k]), sync |-> None]
            /\ g[k + 1] = [drawn |-> D(g[k]), sync |-> None]
        BY <2>2, <3>6, <4>2 DEF Redrawn
      <4>4. \A i \in Items : i \in all => i \in DOMAIN m.put \/ f[k].drawn[i] = g[k].drawn[i]
        BY <4>1 DEF Agree
      <4>5. D(f[k]) = D(g[k])
        <5> HIDE DEF all
        <5> QED
          BY <4>2, <4>4
      <4> HIDE DEF D
      <4>6. f[k + 1] = g[k + 1]
        BY <4>3, <4>5
      <4> QED
        BY <4>6
    <3>7. CASE m.kind \in {"delta", "positions"}
      <4>1. ~Completes(m) /\ m.kind \notin {"first", "chunk"}
        BY <3>7 DEF Completes
      <4> QED
        BY <2>4, <3>1, <4>1 DEF m
    <3> QED
      BY <2>1, <3>3, <3>4, <3>5, <3>6, <3>7 DEF Sendable, Kinds
  <2> QED
    BY <2>6, <2>7
<1> HIDE DEF T
<1>4. \A k \in 0 .. n : k \in T
  BY <1>1, <1>2, <1>3, UpTo
<1> QED
  BY <1>4 DEF T

LEMMA DrawsTail ==
    ASSUME NEW w \in Seq(Sent), w # <<>>, NEW d, NEW f, Draws(f, d, w)
    PROVE  Draws([k \in 0 .. Len(Tail(w)) |-> f[k + 1]], f[1], Tail(w))
<1> DEFINE g == [k \in 0 .. Len(Tail(w)) |-> f[k + 1]]
<1>1. /\ Len(w) \in Nat /\ Len(w) # 0 /\ Len(Tail(w)) = Len(w) - 1
      /\ \A k \in 1 .. Len(w) - 1 : Tail(w)[k] = w[k + 1]
  OBVIOUS
<1>2. \A k \in 0 .. Len(w) - 1 : k + 1 \in 1 .. Len(w) /\ k + 1 \in 0 .. Len(w)
  BY <1>1
<1>3. g \in [0 .. Len(Tail(w)) -> Drawings] /\ g[0] = f[1]
  BY <1>1, <1>2 DEF Draws
<1>4. ASSUME NEW k \in 1 .. Len(Tail(w)) PROVE g[k] = Redrawn(g[k - 1], Tail(w)[k])
  <2>1. k \in 0 .. Len(w) - 1 /\ k - 1 \in 0 .. Len(w) - 1 /\ k + 1 \in 1 .. Len(w) /\ k \in 1 .. Len(w) - 1
        /\ (k + 1) - 1 = k /\ (k - 1) + 1 = k
    BY <1>1
  <2>2. g[k] = f[k + 1] /\ g[k - 1] = f[k]
    BY <1>1, <2>1
  <2>3. f[k + 1] = Redrawn(f[k], w[k + 1])
    BY <2>1 DEF Draws
  <2> QED
    BY <1>1, <2>1, <2>2, <2>3
<1> HIDE DEF g
<1> QED
  BY <1>3, <1>4 DEF Draws, g

LEMMA DrawsJoin ==
    ASSUME NEW w \in Seq(Sent), NEW v \in Seq(Sent), NEW d, NEW f, NEW g,
           Draws(f, d, w), Draws(g, f[Len(w)], v)
    PROVE  Draws([k \in 0 .. Len(w) + Len(v) |-> IF k <= Len(w) THEN f[k] ELSE g[k - Len(w)]], d, w \o v)
<1> DEFINE n == Len(w)
           l == Len(v)
           h == [k \in 0 .. n + l |-> IF k <= n THEN f[k] ELSE g[k - n]]
<1>1. n \in Nat /\ l \in Nat /\ Len(w \o v) = n + l
  OBVIOUS
<1>2. /\ \A k \in 1 .. n : (w \o v)[k] = w[k]
      /\ \A k \in n + 1 .. n + l : (w \o v)[k] = v[k - n]
  OBVIOUS
<1>3. /\ f \in [0 .. n -> Drawings] /\ f[0] = d
      /\ \A k \in 1 .. n : f[k] = Redrawn(f[k - 1], w[k])
      /\ g \in [0 .. l -> Drawings] /\ g[0] = f[n]
      /\ \A k \in 1 .. l : g[k] = Redrawn(g[k - 1], v[k])
  BY DEF Draws
<1> HIDE DEF n, l
<1>4. ASSUME NEW k \in 0 .. n + l PROVE h[k] \in Drawings
  BY <1>1, <1>3
<1>5. h[0] = d
  BY <1>1, <1>3
<1>6. ASSUME NEW k \in 1 .. n + l PROVE h[k] = Redrawn(h[k - 1], (w \o v)[k])
  <2>0. k \in 0 .. n + l /\ k - 1 \in 0 .. n + l
    BY <1>1
  <2>1. CASE k <= n
    <3>1. k \in 1 .. n /\ k - 1 <= n
      BY <1>1, <2>1
    <3> QED
      BY <1>2, <1>3, <2>0, <2>1, <3>1
  <2>2. CASE k = n + 1
    <3>1. ~(k <= n) /\ k - 1 = n /\ k - n = 1 /\ 1 \in 1 .. l /\ k \in n + 1 .. n + l /\ 1 - 1 = 0
      BY <1>1, <2>2
    <3>2. (w \o v)[k] = v[1]
      BY <1>2, <3>1
    <3>3. h[k] = g[1]
      BY <2>0, <3>1
    <3>4. k - 1 <= n
      BY <1>1, <3>1
    <3>5. h[k - 1] = f[n]
      BY <2>0, <3>1, <3>4
    <3> HIDE DEF h
    <3>6. h[k - 1] = g[0]
      BY <1>3, <3>5
    <3> QED
      BY <1>3, <3>1, <3>2, <3>3, <3>6
  <2>3. CASE k > n + 1
    <3>1. /\ ~(k <= n) /\ ~(k - 1 <= n) /\ k - n \in 1 .. l /\ k \in n + 1 .. n + l
          /\ (k - 1) - n = (k - n) - 1
      BY <1>1, <2>3
    <3>2. h[k] = g[k - n] /\ h[k - 1] = g[(k - n) - 1] /\ (w \o v)[k] = v[k - n]
      BY <1>2, <2>0, <3>1
    <3> HIDE DEF h
    <3>3. g[k - n] = Redrawn(g[(k - n) - 1], v[k - n])
      BY <1>3, <3>1
    <3> QED
      BY <3>2, <3>3
  <2> QED
    BY <1>1, <2>1, <2>2, <2>3
<1>7. h \in [0 .. Len(w \o v) -> Drawings]
  BY <1>1, <1>4
<1> HIDE DEF h
<1> QED
  BY <1>1, <1>5, <1>6, <1>7 DEF Draws, h, n, l

-----------------------------------------------------------------------------
(* What the server sends.                                                  *)

EndsThere(g) == \A e \in Edges : g[e] # 0 => \A n \in Ends[e] : g[n] # 0

ServerTyped ==
    /\ view \in [Items -> Versions \cup {0}] /\ base \in [Items -> Versions \cup {0}]
    /\ spot \in [Nodes -> Spots]
    /\ needsFull \in BOOLEAN /\ linked \in BOOLEAN /\ lost \in BOOLEAN
    /\ mode \in {0, 1} \X {0, 1}

LEMMA MessageSent ==
    ASSUME ServerTyped, NEW kind \in Kinds, NEW items, NEW gone,
           items \subseteq Present(view), gone \subseteq Items
    PROVE  /\ Message(kind, items, gone) \in Sent
           /\ Message(kind, items, gone).kind = kind
           /\ Message(kind, items, gone).put = [i \in items |-> view[i]]
           /\ Message(kind, items, gone).gone = gone
<1> DEFINE m == Message(kind, items, gone)
           put == [i \in items |-> view[i]]
           at == [n \in items \cap Nodes |-> spot[n]]
<1>1. m = [kind |-> kind, put |-> put, at |-> at, gone |-> gone]
  BY DEF Message
<1>2. items \in SUBSET Items /\ items \cap Nodes \in SUBSET Nodes /\ gone \in SUBSET Items
  BY DEF Present, ServerTyped
<1>3. put \in [items -> Versions]
  BY DEF Present, ServerTyped
<1>4. at \in [items \cap Nodes -> Spots]
  BY DEF ServerTyped
<1> HIDE DEF put, at
<1>5. m \in [kind : Kinds, put : [items -> Versions], at : [items \cap Nodes -> Spots], gone : SUBSET Items]
  BY <1>1, <1>2, <1>3, <1>4
<1>6. m \in Sent
  BY <1>2, <1>5 DEF Sent
<1> QED
  BY <1>1, <1>6 DEF put

\* The order splitDelta takes the nodes in has every one of them.
LEMMA SetInSeq ==
    ASSUME NEW S, IsFiniteSet(S)
    PROVE  /\ SetToSeq(S) \in Seq(S) /\ Len(SetToSeq(S)) = Cardinality(S)
           /\ \A x \in S : \E i \in 1 .. Len(SetToSeq(S)) : SetToSeq(S)[i] = x
<1> DEFINE n == Cardinality(S)
           q == SetToSeq(S)
<1>1. n \in Nat /\ ExistsBijection(1 .. n, S)
  BY FS_CardinalityType
<1>2. \E f \in [1 .. n -> S] : IsInjective(f)
  BY <1>1 DEF ExistsBijection, Bijection, Injection, IsInjective
<1>3. q \in [1 .. n -> S] /\ IsInjective(q)
  BY <1>2 DEF SetToSeq
<1> HIDE DEF q
<1>4. q \in Injection(1 .. n, S)
  BY <1>3 DEF Injection, IsInjective
<1>5. Cardinality(1 .. n) = n
  BY <1>1, FS_Interval
<1>6. q \in Surjection(1 .. n, S)
  BY <1>4, <1>5, FS_Injection
<1>7. \A x \in S : \E i \in 1 .. n : q[i] = x
  BY <1>6 DEF Surjection
<1>8. q \in Seq(S) /\ Len(q) = n
  BY <1>1, <1>3
<1> QED
  BY <1>7, <1>8 DEF q

LEMMA DivIs ==
    ASSUME NEW a \in Nat, NEW c \in Nat \ {0}
    PROVE  /\ a \div c \in Nat /\ (a \div c) * c <= a /\ a < (a \div c) * c + c
  OBVIOUS

\* What the chunks of a full have brought by the k-th: the nodes q[1], q[2], ... up to
\* k chunks of them, and the edges between these.
NodesBy(q, k) == {q[j] : j \in {i \in 1 .. Len(q) : i <= k * ChunkSize}}
EdgesBy(q, k) == {e \in Present(view) \cap Edges : Ends[e] \subseteq NodesBy(q, k)}
By(q, k) == NodesBy(q, k) \cup EdgesBy(q, k)
ChunkCount(q) == (Len(q) + ChunkSize - 1) \div ChunkSize

Order == SetToSeq(Present(view) \cap Nodes)

LEMMA ChunksAre ==
    ASSUME NEW gone
    PROVE  Chunks(gone) =
             [k \in 1 .. ChunkCount(Order) |->
                Message(IF k = 1 THEN "first" ELSE IF k = ChunkCount(Order) THEN "last" ELSE "chunk",
                        (NodesBy(Order, k) \ NodesBy(Order, k - 1))
                            \cup (EdgesBy(Order, k) \ EdgesBy(Order, k - 1)),
                        IF k = 1 THEN gone ELSE {})]
  BY DEF Chunks, ChunkCount, NodesBy, EdgesBy, Order

LEMMA OrderIs ==
    ASSUME ServerTyped
    PROVE  /\ Order \in Seq(Nodes) /\ Len(Order) = Cardinality(Present(view) \cap Nodes)
           /\ \A j \in 1 .. Len(Order) : Order[j] \in Present(view) \cap Nodes
           /\ \A n \in Present(view) \cap Nodes : \E j \in 1 .. Len(Order) : Order[j] = n
<1>1. IsFiniteSet(Present(view) \cap Nodes)
  BY FS_Intersection, MirrorAssumption
<1>2. Order \in Seq(Present(view) \cap Nodes)
  BY <1>1, SetInSeq DEF Order
<1>3. Order \in Seq(Nodes) /\ \A j \in 1 .. Len(Order) : Order[j] \in Present(view) \cap Nodes
  BY <1>2
<1> QED
  BY <1>1, <1>3, SetInSeq DEF Order

LEMMA ByIs ==
    ASSUME ServerTyped, Len(Order) > ChunkSize
    PROVE  LET n == ChunkCount(Order) IN
           /\ n \in Nat /\ n >= 2
           /\ By(Order, 0) = {}
           /\ By(Order, n) = {i \in Present(view) : i \in Edges => \A m \in Ends[i] : view[m] # 0}
           /\ \A k \in 1 .. n : By(Order, k - 1) \subseteq By(Order, k)
           /\ \A k \in 0 .. n : /\ By(Order, k) \subseteq Present(view) /\ By(Order, k) \subseteq Items
                                /\ \A e \in By(Order, k) \cap Edges : Ends[e] \subseteq By(Order, k)
           /\ \A k \in 1 .. n : (NodesBy(Order, k) \ NodesBy(Order, k - 1))
                                    \cup (EdgesBy(Order, k) \ EdgesBy(Order, k - 1))
                                = By(Order, k) \ By(Order, k - 1)
<1> DEFINE q == Order
           n == ChunkCount(Order)
           c == ChunkSize
<1>1. /\ Len(q) \in Nat /\ c \in Nat \ {0} /\ Len(q) > c
      /\ \A j \in 1 .. Len(q) : q[j] \in Present(view) \cap Nodes
      /\ \A x \in Present(view) \cap Nodes : \E j \in 1 .. Len(q) : q[j] = x
  <2>1. c \in Nat \ {0}
    BY MirrorAssumption
  <2>2. q \in Seq(Nodes)
    BY OrderIs
  <2>3. Len(q) \in Nat
    BY <2>2
  <2> QED
    BY <2>1, <2>3, OrderIs
<1> HIDE DEF q
<1>2. n \in Nat /\ n * c <= Len(q) + c - 1 /\ Len(q) + c - 1 < n * c + c
  BY <1>1, DivIs DEF ChunkCount, q
<1> HIDE DEF n
<1>3. Len(q) <= n * c
  BY <1>1, <1>2
<1>4. n >= 2
  <2>1. n # 0 /\ n # 1
    BY <1>1, <1>3
  <2> QED
    BY <1>2, <2>1
<1>5. NodesBy(q, 0) = {}
  BY <1>1 DEF NodesBy
<1>6. NodesBy(q, n) = Present(view) \cap Nodes
  <2>1. n * c \in Nat
    BY <1>1, <1>2
  <2>2. \A j \in 1 .. Len(q) : j <= n * c
    BY <1>1, <1>3, <2>1
  <2>3. NodesBy(q, n) = {q[j] : j \in 1 .. Len(q)}
    BY <2>2 DEF NodesBy
  <2> QED
    BY <1>1, <2>3
<1>7. ASSUME NEW k \in 1 .. n PROVE NodesBy(q, k - 1) \subseteq NodesBy(q, k)
  <2>1. (k - 1) * c <= k * c
    BY <1>1, <1>2
  <2>2. k \in Nat /\ c \in Nat /\ (k - 1) * c \in Nat /\ k * c \in Nat
    BY <1>1, <1>2
  <2>3. ASSUME NEW i \in 1 .. Len(q), i <= (k - 1) * c PROVE i <= k * c
    BY <2>1, <2>2, <2>3
  <2> QED
    BY <2>3 DEF NodesBy
<1>8. \A k : NodesBy(q, k) \subseteq Present(view) \cap Nodes
  BY <1>1 DEF NodesBy
<1>9. \A e \in Edges : Ends[e] # {} /\ Ends[e] \subseteq Nodes
  <2>1. ASSUME NEW e \in Edges, Ends[e] = {} PROVE FALSE
    <3>1. Cardinality(Ends[e]) = 2 /\ Cardinality(Ends[e]) = 0
      BY <2>1, MirrorAssumption, FS_EmptySet
    <3> QED
      BY <3>1
  <2> QED
    BY <2>1, MirrorAssumption
<1>10. Present(view) \subseteq Items /\ Nodes \cap Edges = {} /\ Items = Nodes \cup Edges
  BY MirrorAssumption DEF ServerTyped, Present, Items
<1>11. By(q, 0) = {}
  BY <1>5, <1>9 DEF By, EdgesBy
<1>12. By(q, n) = {i \in Present(view) : i \in Edges => \A m \in Ends[i] : view[m] # 0}
  <2>1. EdgesBy(q, n) = {e \in Present(view) \cap Edges : \A m \in Ends[e] : view[m] # 0}
    <3>1. \A m \in Nodes : m \in Present(view) <=> view[m] # 0
      BY <1>10 DEF ServerTyped, Present
    <3>2. \A e \in Edges : Ends[e] \subseteq NodesBy(q, n) <=> \A m \in Ends[e] : view[m] # 0
      BY <1>6, <1>9, <3>1
    <3> QED
      BY <3>2 DEF EdgesBy
  <2> QED
    BY <1>6, <1>10, <2>1 DEF By
<1>13. ASSUME NEW k \in 1 .. n
       PROVE  /\ By(q, k - 1) \subseteq By(q, k)
              /\ (NodesBy(q, k) \ NodesBy(q, k - 1)) \cup (EdgesBy(q, k) \ EdgesBy(q, k - 1))
                    = By(q, k) \ By(q, k - 1)
  <2>1. NodesBy(q, k) \subseteq Nodes /\ NodesBy(q, k - 1) \subseteq Nodes
        /\ EdgesBy(q, k) \subseteq Edges /\ EdgesBy(q, k - 1) \subseteq Edges
    BY <1>8 DEF EdgesBy
  <2>2. EdgesBy(q, k - 1) \subseteq EdgesBy(q, k)
    BY <1>7 DEF EdgesBy
  <2>3. NodesBy(q, k - 1) \subseteq NodesBy(q, k)
    BY <1>7
  <2> QED
    BY <1>10, <2>1, <2>2, <2>3 DEF By
<1>14. ASSUME NEW k
       PROVE  /\ By(q, k) \subseteq Present(view) /\ By(q, k) \subseteq Items
              /\ \A e \in By(q, k) \cap Edges : Ends[e] \subseteq By(q, k)
  <2>1. NodesBy(q, k) \subseteq Present(view) \cap Nodes
    BY <1>8
  <2>2. \A e \in EdgesBy(q, k) : e \in Present(view) \cap Edges /\ Ends[e] \subseteq NodesBy(q, k)
    BY DEF EdgesBy
  <2> QED
    BY <1>10, <2>1, <2>2 DEF By
<1> QED
  BY <1>2, <1>4, <1>11, <1>12, <1>13, <1>14 DEF n, q

\* What a page that drew d has drawn after k chunks, of n in all.
ByChunks(d, gone, k) ==
    LET n == ChunkCount(Order) IN
    [drawn |-> [i \in Items |-> IF i \in By(Order, k) THEN view[i]
                                ELSE IF k = n \/ i \in gone THEN 0 ELSE d.drawn[i]],
     sync  |-> IF k = n THEN None ELSE By(Order, k)]

LEMMA ChunkSent ==
    ASSUME ServerTyped, Len(Order) > ChunkSize, NEW gone, gone \subseteq Items
    PROVE  LET n == ChunkCount(Order)
               w == Chunks(gone)
           IN /\ w \in Seq(Sent) /\ Len(w) = n
              /\ \A k \in 1 .. n : /\ w[k].kind = IF k = 1 THEN "first" ELSE IF k = n THEN "last" ELSE "chunk"
                                   /\ w[k].put = [i \in By(Order, k) \ By(Order, k - 1) |-> view[i]]
                                   /\ w[k].gone = IF k = 1 THEN gone ELSE {}
<1> DEFINE n == ChunkCount(Order)
           w == Chunks(gone)
           kind(k) == IF k = 1 THEN "first" ELSE IF k = n THEN "last" ELSE "chunk"
           items(k) == By(Order, k) \ By(Order, k - 1)
           out(k) == IF k = 1 THEN gone ELSE {}
<1>1. n \in Nat
  BY ByIs
<1>2. w = [k \in 1 .. n |-> Message(kind(k),
                        (NodesBy(Order, k) \ NodesBy(Order, k - 1))
                            \cup (EdgesBy(Order, k) \ EdgesBy(Order, k - 1)), out(k))]
  BY ChunksAre
<1>3. \A k \in 1 .. n : (NodesBy(Order, k) \ NodesBy(Order, k - 1))
                            \cup (EdgesBy(Order, k) \ EdgesBy(Order, k - 1)) = items(k)
  BY ByIs
<1> HIDE DEF w
<1>4. ASSUME NEW k \in 1 .. n
      PROVE  /\ w[k] \in Sent /\ w[k].kind = kind(k)
             /\ w[k].put = [i \in items(k) |-> view[i]] /\ w[k].gone = out(k)
  <2>1. w[k] = Message(kind(k), items(k), out(k))
    BY <1>2, <1>3
  <2>2. k \in 0 .. n
    BY <1>1
  <2>3. items(k) \subseteq Present(view)
    BY <2>2, ByIs
  <2>4. kind(k) \in Kinds /\ out(k) \subseteq Items
    BY DEF Kinds
  <2> HIDE DEF kind, items, out
  <2> QED
    BY <2>1, <2>3, <2>4, MessageSent
<1>5. DOMAIN w = 1 .. n
  BY <1>2
<1>6. w \in [1 .. n -> Sent]
  <2>1. w = [k \in 1 .. n |-> w[k]]
    BY <1>2, <1>5
  <2> QED
    BY <1>4, <2>1
<1>7. w \in Seq(Sent) /\ Len(w) = n
  BY <1>1, <1>6
<1> QED
  BY <1>4, <1>7 DEF w

\* The chunks draw the view, whatever is drawn when the first of them comes.
LEMMA ChunksDraw ==
    ASSUME ServerTyped, Len(Order) > ChunkSize, NEW gone, gone \subseteq Items,
           NEW d \in Drawings, NEW f, Draws(f, d, Chunks(gone))
    PROVE  \A k \in 1 .. ChunkCount(Order) : f[k] = ByChunks(d, gone, k)
<1> DEFINE n == ChunkCount(Order)
           w == Chunks(gone)
           B(k) == By(Order, k)
           T == {k \in Nat : k = 0 \/ f[k] = ByChunks(d, gone, k)}
<1>1. n \in Nat /\ n >= 2 /\ B(0) = {}
  BY ByIs
<1>2. \A k \in 0 .. n : B(k) \subseteq Items /\ B(k) # None
  <2>1. \A k \in 0 .. n : B(k) \subseteq Items
    BY ByIs
  <2> QED
    BY <2>1, MirrorAssumption
<1>3. \A k \in 1 .. n : B(k - 1) \subseteq B(k)
  BY ByIs
<1>4. \A k \in 1 .. n : /\ w[k].kind = IF k = 1 THEN "first" ELSE IF k = n THEN "last" ELSE "chunk"
                        /\ w[k].put = [i \in B(k) \ B(k - 1) |-> view[i]]
                        /\ w[k].gone = IF k = 1 THEN gone ELSE {}
  BY ChunkSent
<1>5. f[0] = d /\ \A k \in 1 .. n : f[k] = Redrawn(f[k - 1], w[k])
  <2>1. Len(w) = n
    BY ChunkSent
  <2> QED
    BY <2>1 DEF Draws
<1>6. \A k : ByChunks(d, gone, k) =
               [drawn |-> [i \in Items |-> IF i \in B(k) THEN view[i]
                                           ELSE IF k = n \/ i \in gone THEN 0 ELSE d.drawn[i]],
                sync  |-> IF k = n THEN None ELSE B(k)]
  BY DEF ByChunks
<1> HIDE DEF n, w, B
<1>7. ASSUME NEW k \in 0 .. n, k \in T, k < n PROVE k + 1 \in T
  <2>1. k \in Nat /\ k + 1 \in 1 .. n /\ k + 1 \in 0 .. n /\ (k + 1) - 1 = k
    BY <1>1, <1>7
  <2> DEFINE m == w[k + 1]
             news == B(k + 1) \ B(k)
  <2>2. /\ m.put = [i \in news |-> view[i]] /\ DOMAIN m.put = news
        /\ B(k) \subseteq B(k + 1) /\ B(k + 1) \subseteq Items /\ B(k + 1) # None
        /\ B(k) # None /\ f[k + 1] = Redrawn(f[k], m)
    BY <1>2, <1>3, <1>4, <1>5, <2>1
  <2>3. CASE k = 0
    <3>0. k + 1 = 1 /\ k + 1 # n
      BY <1>1, <2>3
    <3>1. m.kind = "first" /\ m.gone = gone /\ B(k) = {} /\ k + 1 # n /\ f[k] = d
      BY <1>1, <1>4, <1>5, <2>1, <2>3, <3>0
    <3> HIDE DEF m
    <3>2. Accumulated(d.sync, m) = B(k + 1) /\ ~Completes(m)
      BY <2>2, <3>1 DEF Accumulated, Completes
    <3>3. Redrawn(d, m) = [drawn |-> [i \in Items |-> IF i \in news THEN m.put[i]
                                                      ELSE IF i \in gone THEN 0 ELSE d.drawn[i]],
                           sync |-> B(k + 1)]
      BY <2>2, <3>1, <3>2 DEF Redrawn
    <3>4. news = B(k + 1) /\ \A i \in news : m.put[i] = view[i]
      BY <2>2, <3>1
    <3>5. ByChunks(d, gone, k + 1) =
               [drawn |-> [i \in Items |-> IF i \in B(k + 1) THEN view[i]
                                           ELSE IF i \in gone THEN 0 ELSE d.drawn[i]],
                sync  |-> B(k + 1)]
      BY <1>6, <3>1
    <3> HIDE DEF news
    <3>6. Redrawn(d, m) = ByChunks(d, gone, k + 1)
      BY <3>3, <3>4, <3>5
    <3> QED
      BY <2>1, <2>2, <3>1, <3>6
  <2>4. CASE k # 0
    <3>0. k + 1 # 1 /\ k # n
      BY <1>1, <1>7, <2>1, <2>4
    <3>1. m.kind = (IF k + 1 = n THEN "last" ELSE "chunk") /\ m.gone = {} /\ k # n
      BY <1>4, <2>1, <3>0
    <3>2. f[k] = ByChunks(d, gone, k)
      BY <1>7, <2>4
    <3> DEFINE x == f[k]
               D == [i \in Items |-> IF i \in B(k) THEN view[i] ELSE IF i \in gone THEN 0 ELSE d.drawn[i]]
    <3>3. x.sync = B(k) /\ x.drawn = D
      BY <1>6, <3>1, <3>2
    <3> HIDE DEF m, x
    <3>4. Accumulated(x.sync, m) = B(k) \cup news /\ (Completes(m) <=> k + 1 = n)
      BY <2>2, <3>1, <3>3 DEF Accumulated, Completes
    <3>5. B(k) \cup news = B(k + 1)
      BY <2>2
    <3>6. Redrawn(x, m) = [drawn |-> [i \in Items |-> IF k + 1 = n /\ i \notin B(k + 1) THEN 0
                                                      ELSE IF i \in news THEN m.put[i] ELSE D[i]],
                           sync |-> IF k + 1 = n THEN None ELSE B(k + 1)]
      BY <2>2, <3>1, <3>3, <3>4, <3>5 DEF Redrawn
    <3>7. Redrawn(x, m) = ByChunks(d, gone, k + 1)
      BY <1>6, <2>2, <3>6
    <3> QED
      BY <2>1, <2>2, <3>7 DEF x
  <2> QED
    BY <2>3, <2>4
<1> HIDE DEF T
<1>8. 0 \in T
  BY DEF T
<1>9. \A k \in 0 .. n : k \in T
  BY <1>1, <1>7, <1>8, UpTo
<1>10. \A k \in 1 .. n : k \in 0 .. n /\ k # 0
  BY <1>1
<1> QED
  BY <1>9, <1>10 DEF T, n

\* With edges between nodes of the view only, the last chunk leaves the view; and no
\* chunk takes an end from an edge of a page that had what the server thinks it has,
\* or that the server thinks has nothing.
LEMMA ChunksSound ==
    ASSUME ServerTyped, Len(Order) > ChunkSize, EndsThere(view), NEW d \in Drawings
    PROVE  LET n == ChunkCount(Order)
               gone == Present(base) \ Present(view)
           IN /\ ByChunks(d, gone, n).drawn = view
              /\ EndsThere(d.drawn) /\ (d.drawn = base \/ base = Empty) =>
                    \A k \in 1 .. n : EndsThere(ByChunks(d, gone, k).drawn)
<1> DEFINE n == ChunkCount(Order)
           gone == Present(base) \ Present(view)
<1>1. n \in Nat /\ \A k \in 1 .. n : k \in 0 .. n
  BY ByIs
<1>2. \A i \in Items : i \in Present(view) <=> view[i] # 0
  BY DEF ServerTyped, Present
<1>3. \A i \in gone : i \in Items /\ base[i] # 0 /\ view[i] = 0
  BY DEF ServerTyped, Present
<1>4. \A e \in Edges : e \in Items /\ Ends[e] \subseteq Items
  BY MirrorAssumption DEF Items
<1>5. ByChunks(d, gone, n).drawn = view
  <2>1. By(Order, n) = Present(view)
    <3>1. By(Order, n) = {i \in Present(view) : i \in Edges => \A m \in Ends[i] : view[m] # 0}
      BY ByIs
    <3>2. \A i \in Present(view) : i \in Edges => \A m \in Ends[i] : view[m] # 0
      BY <1>2, <1>4 DEF EndsThere
    <3> QED
      BY <3>1, <3>2
  <2>2. ByChunks(d, gone, n).drawn = [i \in Items |-> IF i \in Present(view) THEN view[i] ELSE 0]
    BY <2>1 DEF ByChunks
  <2>3. \A i \in Items : (IF i \in Present(view) THEN view[i] ELSE 0) = view[i]
    BY <1>2
  <2>4. view = [i \in Items |-> view[i]]
    BY DEF ServerTyped
  <2> QED
    BY <2>2, <2>3, <2>4
<1>6. ASSUME EndsThere(d.drawn), d.drawn = base \/ base = Empty, NEW k \in 1 .. n,
             NEW e \in Edges, ByChunks(d, gone, k).drawn[e] # 0, NEW m \in Ends[e]
      PROVE  ByChunks(d, gone, k).drawn[m] # 0
  <2> DEFINE B == By(Order, k)
  <2>1. B \subseteq Present(view) /\ (e \in B => Ends[e] \subseteq B)
    BY <1>1, ByIs
  <2>2. \A i \in Items : ByChunks(d, gone, k).drawn[i] =
                            IF i \in B THEN view[i] ELSE IF k = n \/ i \in gone THEN 0 ELSE d.drawn[i]
    BY DEF ByChunks
  <2> HIDE DEF n, gone, B
  <2>3. e \in Items /\ m \in Items
    BY <1>4
  <2>4. CASE m \in B
    BY <1>2, <2>1, <2>2, <2>3, <2>4
  <2>5. CASE m \notin B
    <3>1. e \notin B
      BY <2>1, <2>5
    <3>2. k # n /\ e \notin gone /\ d.drawn[e] # 0
      BY <1>6, <2>2, <2>3, <3>1
    <3>3. d.drawn[m] # 0
      BY <1>6, <3>2 DEF EndsThere
    <3>4. m \notin gone
      <4>1. CASE base = Empty
        BY <1>3, <2>3, <4>1 DEF Empty
      <4>2. CASE d.drawn = base
        <5>1. e \in Present(base)
          BY <2>3, <3>2, <4>2 DEF ServerTyped, Present
        <5>2. view[e] # 0
          BY <1>2, <2>3, <3>2, <5>1 DEF gone
        <5>3. view[m] # 0
          BY <5>2 DEF EndsThere
        <5> QED
          BY <1>3, <5>3
      <4> QED
        BY <1>6, <4>1, <4>2
    <3> QED
      BY <2>2, <2>3, <2>5, <3>2, <3>3, <3>4
  <2> QED
    BY <2>4, <2>5
<1> QED
  BY <1>5, <1>6 DEF EndsThere

\* A full in one message draws the view, a delta draws it on what the client was last
\* sent.
LEMMA OneMessageDraws ==
    ASSUME ServerTyped, NEW d \in Drawings, NEW m, m.put = [i \in DOMAIN m.put |-> view[i]]
    PROVE  /\ m.kind = "whole" /\ DOMAIN m.put = Present(view) => Redrawn(d, m).drawn = view
           /\ /\ m.kind = "delta" /\ DOMAIN m.put = {i \in Present(view) : view[i] # base[i]}
              /\ m.gone = Present(base) \ Present(view) /\ d.drawn = base
              => Redrawn(d, m).drawn = view
<1>1. \A i \in Items : (i \in Present(view) <=> view[i] # 0) /\ (i \in Present(base) <=> base[i] # 0)
  BY DEF ServerTyped, Present
<1>2. view = [i \in Items |-> view[i]] /\ Present(view) \subseteq Items
  BY DEF ServerTyped, Present
<1>3. ASSUME m.kind = "whole", DOMAIN m.put = Present(view) PROVE Redrawn(d, m).drawn = view
  <2>1. Accumulated(d.sync, m) = None /\ Completes(m)
    BY <1>3 DEF Accumulated, Completes
  <2>2. Redrawn(d, m).drawn = [i \in Items |-> IF i \notin Present(view) THEN 0
                                               ELSE IF i \in DOMAIN m.put THEN m.put[i]
                                               ELSE IF i \in m.gone THEN 0 ELSE d.drawn[i]]
    BY <1>3, <2>1 DEF Redrawn
  <2>3. \A i \in Present(view) : i \in DOMAIN m.put /\ m.put[i] = view[i]
    BY <1>3
  <2>4. Redrawn(d, m).drawn = [i \in Items |-> view[i]]
    BY <1>1, <2>2, <2>3
  <2> QED
    BY <1>2, <2>4
<1>4. ASSUME m.kind = "delta", DOMAIN m.put = {i \in Present(view) : view[i] # base[i]},
             m.gone = Present(base) \ Present(view), d.drawn = base
      PROVE  Redrawn(d, m).drawn = view
  <2>1. ~Completes(m)
    BY <1>4 DEF Completes
  <2>2. Redrawn(d, m).drawn = [i \in Items |-> IF i \in DOMAIN m.put THEN m.put[i]
                                               ELSE IF i \in m.gone THEN 0 ELSE base[i]]
    BY <1>4, <2>1 DEF Redrawn
  <2>3. \A i \in DOMAIN m.put : m.put[i] = view[i]
    OBVIOUS
  <2>4. ASSUME NEW i \in Items
        PROVE  view[i] = IF i \in DOMAIN m.put THEN m.put[i] ELSE IF i \in m.gone THEN 0 ELSE base[i]
    BY <1>1, <1>4, <2>3
  <2>5. Redrawn(d, m).drawn = [i \in Items |-> view[i]]
    BY <2>2, <2>4
  <2> QED
    BY <1>2, <2>5
<1> QED
  BY <1>3, <1>4

\* What a tick sends is well formed and in order; it draws the view on a page that drew
\* what the client was last sent, and when a full is due on any page; in between no edge
\* is without its ends.
TickDraws(d, w) ==
    /\ w \in Seq(Sent)
    /\ \A k \in 1 .. Len(w) : w[k].kind \in {"chunk", "last"} =>
          k # 1 /\ w[k - 1].kind \in {"first", "chunk"}
    /\ DoneBy(w, Len(w)) => needsFull
    /\ \E f : /\ Draws(f, d, w)
              /\ needsFull \/ d.drawn = base => f[Len(w)].drawn = view
              /\ \A k \in 0 .. Len(w) :
                    DoneBy(w, k) \/ (EndsThere(d.drawn) /\ (d.drawn = base \/ (needsFull /\ base = Empty)))
                       => EndsThere(f[k].drawn)

LEMMA SingleDraws ==
    ASSUME NEW d \in Drawings, NEW m \in Sent, ServerTyped, EndsThere(view),
           m.kind \in {"delta", "whole"}, Completes(m) <=> needsFull,
           needsFull \/ d.drawn = base => Redrawn(d, m).drawn = view
    PROVE  TickDraws(d, <<m>>)
<1> DEFINE w == <<m>>
           f == [k \in 0 .. 1 |-> IF k = 0 THEN d ELSE Redrawn(d, m)]
<1>1. /\ w \in Seq(Sent) /\ Len(w) = 1 /\ w[1] = m
      /\ \A k \in 1 .. 1 : k = 1 /\ k - 1 = 0
      /\ \A k \in 0 .. 1 : k = 0 \/ k = 1
  OBVIOUS
<1>2. Redrawn(d, m) \in Drawings
  BY SentIsSendable, RedrawnTyped
<1>3. f \in [0 .. 1 -> Drawings] /\ f[0] = d /\ f[1] = Redrawn(d, m)
  BY <1>2
<1> HIDE DEF f, w
<1>4. Draws(f, d, w)
  BY <1>1, <1>3 DEF Draws
<1>5. \A k \in 0 .. 1 : DoneBy(w, k) => k = 1 /\ needsFull
  BY <1>1 DEF DoneBy
<1>6. ASSUME NEW k \in 0 .. 1,
             DoneBy(w, k) \/ (EndsThere(d.drawn) /\ (d.drawn = base \/ (needsFull /\ base = Empty)))
      PROVE  EndsThere(f[k].drawn)
  <2>1. CASE k = 0
    BY <1>3, <1>5, <1>6, <2>1
  <2>2. CASE k = 1
    <3>1. needsFull \/ d.drawn = base
      BY <1>5, <1>6
    <3> QED
      BY <1>3, <2>2, <3>1
  <2> QED
    BY <2>1, <2>2
<1>7. \A k \in 1 .. 1 : w[k].kind \notin {"chunk", "last"}
  BY <1>1
<1>8. 1 \in 0 .. 1
  OBVIOUS
<1>9. DoneBy(w, Len(w)) => needsFull
  BY <1>1, <1>5, <1>8
<1>10. w \in Seq(Sent) /\ Len(w) = 1
  BY <1>1
<1>11. needsFull \/ d.drawn = base => f[Len(w)].drawn = view
  BY <1>3, <1>10
<1>12. TickDraws(d, w)
  BY <1>4, <1>6, <1>7, <1>9, <1>10, <1>11 DEF TickDraws
<1> QED
  BY <1>12 DEF w

LEMMA ManyDraw ==
    ASSUME NEW d \in Drawings, ServerTyped, EndsThere(view), needsFull, Len(Order) > ChunkSize
    PROVE  TickDraws(d, Chunks(Present(base) \ Present(view)))
<1> DEFINE n == ChunkCount(Order)
           gone == Present(base) \ Present(view)
           w == Chunks(gone)
<1>1. n \in Nat /\ n >= 2
  BY ByIs
<1>2. gone \subseteq Items
  BY DEF ServerTyped, Present
<1>3. /\ w \in Seq(Sent) /\ Len(w) = n
      /\ \A k \in 1 .. n : w[k].kind = IF k = 1 THEN "first" ELSE IF k = n THEN "last" ELSE "chunk"
  BY <1>2, ChunkSent, ZenonT(60)
<1>4. PICK f : Draws(f, d, w)
  BY <1>3, DrawsExist
<1>5. \A k \in 1 .. n : f[k] = ByChunks(d, gone, k)
  BY <1>2, <1>4, ChunksDraw
<1>6. ByChunks(d, gone, n).drawn = view
  BY ChunksSound
<1>7. EndsThere(d.drawn) /\ (d.drawn = base \/ base = Empty) =>
        \A k \in 1 .. n : EndsThere(ByChunks(d, gone, k).drawn)
  BY ChunksSound
<1> HIDE DEF n, gone, w
<1>8. n \in 1 .. n /\ \A k \in 0 .. n : k = 0 \/ k \in 1 .. n
  BY <1>1
<1>9. f[n].drawn = view
  BY <1>5, <1>6, <1>8
<1>10. \A k \in 0 .. n : DoneBy(w, k) => k = n
  <2>1. ASSUME NEW k \in 0 .. n, NEW j \in 1 .. k, Completes(w[j]) PROVE k = n
    <3>1. j \in 1 .. n /\ (j = n => k = n)
      BY <1>1
    <3>2. w[j].kind \in {"whole", "last"} /\ w[j].kind = IF j = 1 THEN "first" ELSE IF j = n THEN "last" ELSE "chunk"
      BY <1>3, <2>1, <3>1 DEF Completes
    <3> QED
      BY <3>1, <3>2
  <2> QED
    BY <2>1 DEF DoneBy
<1>11. f[0] = d
  BY <1>4 DEF Draws
<1>12. ASSUME NEW k \in 0 .. n,
              DoneBy(w, k) \/ (EndsThere(d.drawn) /\ (d.drawn = base \/ (needsFull /\ base = Empty)))
       PROVE  EndsThere(f[k].drawn)
  <2>1. CASE DoneBy(w, k)
    BY <1>9, <1>10, <2>1
  <2>2. CASE EndsThere(d.drawn) /\ (d.drawn = base \/ base = Empty)
    BY <1>5, <1>7, <1>8, <1>11, <2>2
  <2> QED
    BY <1>12, <2>1, <2>2
<1>13. \A k \in 1 .. n : w[k].kind \in {"chunk", "last"} => k # 1 /\ w[k - 1].kind \in {"first", "chunk"}
  <2> SUFFICES ASSUME NEW k \in 1 .. n, w[k].kind \in {"chunk", "last"}
               PROVE  k # 1 /\ w[k - 1].kind \in {"first", "chunk"}
    OBVIOUS
  <2>1. k # 1
    BY <1>3
  <2>2. k - 1 \in 1 .. n /\ k - 1 # n
    BY <1>1, <2>1
  <2> QED
    BY <1>3, <2>1, <2>2
<1>14. w \in Seq(Sent) /\ Len(w) = n
  BY <1>3
<1>15. needsFull \/ d.drawn = base => f[Len(w)].drawn = view
  BY <1>9, <1>14
<1>16. DoneBy(w, Len(w)) => needsFull
  OBVIOUS
<1>17. TickDraws(d, w)
  BY <1>4, <1>12, <1>13, <1>14, <1>15, <1>16 DEF TickDraws
<1> QED
  BY <1>17 DEF w, gone

LEMMA MessagesDraw ==
    ASSUME NEW d \in Drawings, ServerTyped, EndsThere(view)
    PROVE  TickDraws(d, Messages)
<1> DEFINE gone == Present(base) \ Present(view)
           news == {i \in Present(view) : view[i] # base[i]}
<1>1. gone \subseteq Items /\ news \subseteq Present(view)
  BY DEF ServerTyped, Present
<1>2. CASE ~needsFull
  <2> DEFINE m == Message("delta", news, gone)
  <2>0. "delta" \in Kinds
    BY DEF Kinds
  <2> HIDE DEF news, gone
  <2>1. m \in Sent /\ m.kind = "delta" /\ m.put = [i \in news |-> view[i]] /\ m.gone = gone
    BY <1>1, <2>0, MessageSent
  <2>2. Messages = <<m>>
    BY <1>2 DEF Messages, news, gone
  <2> HIDE DEF m
  <2>3. m.put = [i \in DOMAIN m.put |-> view[i]] /\ DOMAIN m.put = news
    BY <2>1
  <2>4. d.drawn = base => Redrawn(d, m).drawn = view
    BY <2>1, <2>3, OneMessageDraws DEF news, gone
  <2>5. ~Completes(m)
    BY <2>1 DEF Completes
  <2> QED
    BY <1>2, <2>1, <2>2, <2>4, <2>5, SingleDraws
<1>3. CASE needsFull /\ Cardinality(Present(view) \cap Nodes) <= ChunkSize
  <2> DEFINE m == Message("whole", Present(view), gone)
  <2>1. m \in Sent /\ m.kind = "whole" /\ m.put = [i \in Present(view) |-> view[i]] /\ m.gone = gone
    BY <1>1, MessageSent DEF Kinds
  <2>2. Messages = <<m>>
    BY <1>3 DEF Messages
  <2> HIDE DEF m
  <2>3. m.put = [i \in DOMAIN m.put |-> view[i]] /\ DOMAIN m.put = Present(view)
    BY <2>1
  <2>4. Redrawn(d, m).drawn = view
    BY <2>1, <2>3, OneMessageDraws
  <2>5. Completes(m)
    BY <2>1 DEF Completes
  <2> QED
    BY <1>3, <2>1, <2>2, <2>4, <2>5, SingleDraws
<1>4. CASE needsFull /\ ~(Cardinality(Present(view) \cap Nodes) <= ChunkSize)
  <2>1. Messages = Chunks(gone)
    BY <1>4 DEF Messages
  <2>2. Len(Order) = Cardinality(Present(view) \cap Nodes) /\ Order \in Seq(Nodes)
    BY OrderIs
  <2>3. Len(Order) \in Nat /\ ChunkSize \in Nat
    BY <2>2, MirrorAssumption
  <2>4. Len(Order) > ChunkSize
    BY <1>4, <2>2, <2>3
  <2> QED
    BY <1>4, <2>1, <2>4, ManyDraw
<1> QED
  BY <1>2, <1>3, <1>4

\* Position frames do not touch the drawing.
LEMMA FrameSent ==
    ASSUME NEW m, NEW n \in Nodes, NEW s \in Spots,
           m = [kind |-> "positions", put |-> <<>>, gone |-> {}, at |-> [x \in {n} |-> s]]
    PROVE  m \in Sent
<1>1. m.put \in [{} -> Versions] /\ m.at \in [{n} -> Spots] /\ {n} \in SUBSET Nodes /\ {} \in SUBSET Items
  OBVIOUS
<1>2. m \in [kind : Kinds, put : [{} -> Versions], at : [{n} -> Spots], gone : SUBSET Items]
  BY <1>1 DEF Kinds
<1>3. {n} \in SUBSET Nodes /\ {} \in SUBSET Items
  OBVIOUS
<1> QED
  BY <1>2, <1>3, InSent

-----------------------------------------------------------------------------
(* The mirror.  Every message under way is a step of the drawing the page  *)
(* will have; the last of them leaves what the server last sent.           *)

LEMMA DoneTail ==
    ASSUME NEW w \in Seq(Sent), w # <<>>
    PROVE  \A k \in 1 .. Len(w) : DoneBy(w, k) <=> Completes(w[1]) \/ DoneBy(Tail(w), k - 1)
<1>1. /\ Len(w) \in Nat /\ Len(w) # 0 /\ Len(Tail(w)) = Len(w) - 1
      /\ \A k \in 1 .. Len(w) - 1 : Tail(w)[k] = w[k + 1]
  OBVIOUS
<1>2. ASSUME NEW k \in 1 .. Len(w), DoneBy(w, k)
      PROVE  Completes(w[1]) \/ DoneBy(Tail(w), k - 1)
  <2>1. PICK j \in 1 .. k : Completes(w[j])
    BY <1>2 DEF DoneBy
  <2>2. CASE j = 1
    BY <2>1, <2>2
  <2>3. CASE j # 1
    <3>1. j - 1 \in 1 .. k - 1 /\ j - 1 \in 1 .. Len(w) - 1 /\ (j - 1) + 1 = j
      BY <1>1, <2>3
    <3>2. Completes(Tail(w)[j - 1])
      BY <1>1, <2>1, <3>1
    <3> QED
      BY <3>1, <3>2 DEF DoneBy
  <2> QED
    BY <2>2, <2>3
<1>3. ASSUME NEW k \in 1 .. Len(w), DoneBy(Tail(w), k - 1) PROVE DoneBy(w, k)
  <2>1. PICK j \in 1 .. k - 1 : Completes(Tail(w)[j])
    BY <1>3 DEF DoneBy
  <2>2. j + 1 \in 1 .. k /\ j \in 1 .. Len(w) - 1
    BY <1>1
  <2> QED
    BY <1>1, <2>1, <2>2 DEF DoneBy
<1>4. \A k \in 1 .. Len(w) : Completes(w[1]) => DoneBy(w, k)
  <2>1. \A k \in 1 .. Len(w) : 1 \in 1 .. k
    BY <1>1
  <2> QED
    BY <2>1 DEF DoneBy
<1> QED
  BY <1>2, <1>3, <1>4

LEMMA DoneJoin ==
    ASSUME NEW w \in Seq(Sent), NEW v \in Seq(Sent)
    PROVE  /\ \A k \in 0 .. Len(w) : DoneBy(w \o v, k) <=> DoneBy(w, k)
           /\ \A k \in 0 .. Len(v) : DoneBy(w \o v, Len(w) + k) <=> DoneBy(w, Len(w)) \/ DoneBy(v, k)
<1> DEFINE n == Len(w)
           l == Len(v)
           u == w \o v
<1>1. n \in Nat /\ l \in Nat
  OBVIOUS
<1>2. /\ \A k \in 1 .. n : u[k] = w[k]
      /\ \A k \in n + 1 .. n + l : u[k] = v[k - n]
  OBVIOUS
<1> HIDE DEF n, l, u
<1>3. ASSUME NEW k \in 0 .. n PROVE DoneBy(u, k) <=> DoneBy(w, k)
  <2>1. \A j \in 1 .. k : j \in 1 .. n
    BY <1>1
  <2> QED
    BY <1>2, <2>1 DEF DoneBy
<1>4. ASSUME NEW k \in 0 .. l, DoneBy(u, n + k) PROVE DoneBy(w, n) \/ DoneBy(v, k)
  <2>1. PICK j \in 1 .. n + k : Completes(u[j])
    BY <1>4 DEF DoneBy
  <2>2. CASE j <= n
    <3>1. j \in 1 .. n
      BY <1>1, <2>2
    <3> QED
      BY <1>2, <2>1, <3>1 DEF DoneBy
  <2>3. CASE ~(j <= n)
    <3>1. j \in n + 1 .. n + l /\ j - n \in 1 .. k
      BY <1>1, <2>3
    <3>2. Completes(v[j - n])
      BY <1>2, <2>1, <3>1
    <3> QED
      BY <3>1, <3>2 DEF DoneBy
  <2> QED
    BY <2>2, <2>3
<1>5. ASSUME NEW k \in 0 .. l, DoneBy(w, n) PROVE DoneBy(u, n + k)
  <2>1. PICK j \in 1 .. n : Completes(w[j])
    BY <1>5 DEF DoneBy
  <2>2. j \in 1 .. n + k /\ Completes(u[j])
    BY <1>1, <1>2, <2>1
  <2> QED
    BY <2>2 DEF DoneBy
<1>6. ASSUME NEW k \in 0 .. l, DoneBy(v, k) PROVE DoneBy(u, n + k)
  <2>1. PICK j \in 1 .. k : Completes(v[j])
    BY <1>6 DEF DoneBy
  <2>2. j + n \in 1 .. n + k /\ j + n \in n + 1 .. n + l /\ (j + n) - n = j
    BY <1>1
  <2>3. Completes(u[j + n])
    BY <1>2, <2>1, <2>2
  <2> QED
    BY <2>2, <2>3 DEF DoneBy
<1> QED
  BY <1>3, <1>4, <1>5, <1>6 DEF n, l, u

\* The drawings f that the messages of w make of d: while no held delta was lost (l), or
\* once a full is complete, no edge of them is without its ends, and on an open
\* connection the last of them is what the client was last sent (b), unless nothing
\* was yet and a full is due.
Lands(f, d, w, l, on, b, due) ==
    /\ Draws(f, d, w)
    /\ \A k \in 0 .. Len(w) : ~l \/ DoneBy(w, k) => EndsThere(f[k].drawn)
    /\ on /\ (~l \/ DoneBy(w, Len(w))) => f[Len(w)].drawn = b \/ (due /\ b = Empty)

LEMMA LandsTail ==
    ASSUME NEW w \in Seq(Sent), w # <<>>, NEW d, NEW e, NEW f, NEW g, NEW l, NEW l2,
           NEW on, NEW b, NEW due, Lands(f, d, w, l, on, b, due), Draws(g, e, w),
           \A k \in 1 .. Len(w) : ~l2 \/ DoneBy(Tail(w), k - 1) => (~l \/ DoneBy(w, k)) /\ g[k] = f[k]
    PROVE  \E h : Lands(h, g[1], Tail(w), l2, on, b, due)
<1> DEFINE v == Tail(w)
           h == [k \in 0 .. Len(v) |-> g[k + 1]]
<1>1. Draws(h, g[1], v)
  BY DrawsTail
<1>2. Len(v) \in Nat /\ Len(w) \in Nat /\ Len(w) = Len(v) + 1
  OBVIOUS
<1>3. \A k \in 0 .. Len(v) : h[k] = g[k + 1] /\ k + 1 \in 1 .. Len(w) /\ (k + 1) - 1 = k /\ k + 1 \in 0 .. Len(w)
  BY <1>2
<1> HIDE DEF v, h
<1>4. ASSUME NEW k \in 0 .. Len(v), ~l2 \/ DoneBy(v, k)
      PROVE  /\ h[k] = f[k + 1] /\ EndsThere(h[k].drawn) /\ (~l \/ DoneBy(w, k + 1))
  <2>1. (~l \/ DoneBy(w, k + 1)) /\ g[k + 1] = f[k + 1]
    BY <1>3, <1>4 DEF v
  <2>2. EndsThere(f[k + 1].drawn)
    BY <1>3, <2>1 DEF Lands
  <2> QED
    BY <1>3, <2>1, <2>2
<1>5. ASSUME on, ~l2 \/ DoneBy(v, Len(v)) PROVE h[Len(v)].drawn = b \/ (due /\ b = Empty)
  <2>1. Len(v) \in 0 .. Len(v)
    BY <1>2
  <2>2. h[Len(v)] = f[Len(w)] /\ (~l \/ DoneBy(w, Len(w)))
    BY <1>2, <1>4, <1>5, <2>1
  <2> QED
    BY <1>5, <2>2 DEF Lands
<1>6. Lands(h, g[1], v, l2, on, b, due)
  BY <1>1, <1>4, <1>5 DEF Lands
<1> QED
  BY <1>6 DEF v

LEMMA LandsJoin ==
    ASSUME NEW w \in Seq(Sent), NEW v \in Seq(Sent), NEW d, NEW f, NEW g, NEW l,
           NEW b, NEW due, NEW b2, NEW due2,
           Lands(f, d, w, l, TRUE, b, due), Draws(g, f[Len(w)], v),
           \A k \in 0 .. Len(v) :
               ~l \/ DoneBy(w, Len(w)) \/ DoneBy(v, k) => EndsThere(g[k].drawn),
           ~l \/ DoneBy(w, Len(w)) \/ DoneBy(v, Len(v)) => g[Len(v)].drawn = b2 \/ (due2 /\ b2 = Empty)
    PROVE  \E h : Lands(h, d, w \o v, l, TRUE, b2, due2)
<1> DEFINE n == Len(w)
           m == Len(v)
           u == w \o v
           h == [k \in 0 .. n + m |-> IF k <= n THEN f[k] ELSE g[k - n]]
<1>1. n \in Nat /\ m \in Nat /\ Len(u) = n + m
  OBVIOUS
<1>2. Draws(f, d, w)
  BY DEF Lands
<1>3. Draws(h, d, u)
  BY <1>2, DrawsJoin
<1>4. g[0] = f[n]
  BY DEF Draws
<1>5. /\ \A k \in 0 .. n : DoneBy(u, k) <=> DoneBy(w, k)
      /\ \A k \in 0 .. m : DoneBy(u, n + k) <=> DoneBy(w, n) \/ DoneBy(v, k)
  BY DoneJoin
<1>6. /\ \A k \in 0 .. n : ~l \/ DoneBy(w, k) => EndsThere(f[k].drawn)
      /\ \A k \in 0 .. m : ~l \/ DoneBy(w, n) \/ DoneBy(v, k) => EndsThere(g[k].drawn)
      /\ ~l \/ DoneBy(w, n) \/ DoneBy(v, m) => g[m].drawn = b2 \/ (due2 /\ b2 = Empty)
  BY DEF Lands
<1>7. /\ \A k \in 0 .. n : k \in 0 .. n + m /\ h[k] = f[k]
      /\ \A k \in 0 .. m : n + k \in 0 .. n + m /\ h[n + k] = g[k]
  <2> HIDE DEF n, m
  <2>1. ASSUME NEW k \in 0 .. n PROVE k \in 0 .. n + m /\ h[k] = f[k]
    BY <1>1
  <2>2. ASSUME NEW k \in 0 .. m PROVE n + k \in 0 .. n + m /\ h[n + k] = g[k]
    <3>1. n + k \in 0 .. n + m /\ (n + k) - n = k /\ (n + k <= n <=> k = 0) /\ n + 0 = n
      BY <1>1
    <3>2. CASE k = 0
      <4>1. h[n + k] = f[n + k]
        BY <3>1, <3>2
      <4> QED
        BY <1>4, <3>1, <3>2, <4>1
    <3>3. CASE k # 0
      BY <3>1, <3>3
    <3> QED
      BY <3>1, <3>2, <3>3
  <2> QED
    BY <2>1, <2>2
<1> HIDE DEF n, m, u, h
<1>8. ASSUME NEW k \in 0 .. n + m, ~l \/ DoneBy(u, k) PROVE EndsThere(h[k].drawn)
  <2>1. CASE k <= n
    <3>1. k \in 0 .. n
      BY <1>1, <2>1
    <3> QED
      BY <1>5, <1>6, <1>7, <1>8, <3>1
  <2>2. CASE ~(k <= n)
    <3>1. k - n \in 0 .. m /\ n + (k - n) = k
      BY <1>1, <2>2
    <3>2. h[k] = g[k - n] /\ (DoneBy(u, k) <=> DoneBy(w, n) \/ DoneBy(v, k - n))
      BY <1>5, <1>7, <3>1
    <3> QED
      BY <1>6, <1>8, <3>1, <3>2
  <2> QED
    BY <2>1, <2>2
<1>9. ASSUME ~l \/ DoneBy(u, n + m) PROVE h[n + m].drawn = b2 \/ (due2 /\ b2 = Empty)
  <2>1. m \in 0 .. m
    BY <1>1
  <2>2. h[n + m] = g[m] /\ (DoneBy(u, n + m) <=> DoneBy(w, n) \/ DoneBy(v, m))
    BY <1>5, <1>7, <2>1
  <2> QED
    BY <1>6, <1>9, <2>2
<1>10. Lands(h, d, u, l, TRUE, b2, due2)
  BY <1>1, <1>3, <1>8, <1>9 DEF Lands
<1> QED
  BY <1>10 DEF u

\* What will have been drawn once the throttle's timer has fired.
Start == IF pending = None THEN DrawingOf(page) ELSE Redrawn(DrawingOf(page), pending)

WireTyped ==
    /\ wire \in Seq(Sent)
    /\ pending # None => pending \in Sent /\ pending.kind = "delta"

\* The chunks of a full follow one another, and no delta is held while they come.
InOrder ==
    \A k \in 1 .. Len(wire) : wire[k].kind \in {"chunk", "last"} =>
        IF k = 1 THEN pending = None ELSE wire[k - 1].kind \in {"first", "chunk"}

Landing == \E f : Lands(f, Start, wire, lost, linked, base, needsFull)

WholeInv ==
    /\ MirrorInv /\ ServerTyped /\ PageTyped(page) /\ WireTyped
    /\ EndsThere(view)
    /\ ~lost => EndsThere(page.meta)
    /\ InOrder
    /\ Landing

LEMMA InitWhole == Init => WholeInv
<1> SUFFICES ASSUME Init PROVE WholeInv
  OBVIOUS
<1>1. MirrorInv
  <2>1. PageInv(Blank, mode)
    BY DEF Blank, Empty, PageInv, Shaped, Eased, Gliding, Looks, Signed
  <2> QED
    BY <2>1 DEF Init, MirrorInv
<1>2. ServerTyped
  <2>1. PICK s \in Spots : \A t \in Spots : s <= t
    BY LeastNat, MirrorAssumption
  <2>2. (CHOOSE r \in Spots : \A t \in Spots : r <= t) \in Spots
    BY <2>1
  <2>3. mode \in {0, 1} \X {0, 1}
    BY MirrorAssumption DEF Init
  <2> QED
    BY <2>2, <2>3 DEF Init, ServerTyped, Empty
<1>3. DrawingOf(Blank) \in Drawings /\ DrawingOf(Blank).drawn = Empty
  BY DEF DrawingOf, Drawings, Blank, Empty
<1>4. PageTyped(page)
  BY <1>3 DEF Init, PageTyped, Dressed, Matched, Blank, Empty
<1>5. EndsThere(Empty)
  BY DEF EndsThere, Empty, Items
<1>6. WireTyped /\ InOrder /\ Len(wire) = 0
  BY DEF Init, WireTyped, InOrder
<1>7. Landing
  <2> DEFINE f == [k \in 0 .. 0 |-> Start]
  <2>1. Start \in Drawings /\ Start.drawn = Empty
    BY <1>3 DEF Init, Start
  <2>2. Draws(f, Start, wire)
    BY <1>6, <2>1 DEF Draws
  <2>3. \A k \in 0 .. 0 : f[k] = Start
    OBVIOUS
  <2> HIDE DEF f
  <2>4. Lands(f, Start, wire, lost, linked, base, needsFull)
    BY <1>5, <1>6, <2>1, <2>2, <2>3 DEF Lands, Init
  <2> QED
    BY <2>4 DEF Landing
<1>8. page.meta = Empty /\ view = Empty
  BY DEF Init, Blank
<1> QED
  BY <1>1, <1>2, <1>4, <1>5, <1>6, <1>7, <1>8 DEF WholeInv

\* A step that leaves alone the drawing and what is under way.
LEMMA StillLanding ==
    ASSUME Landing, UNCHANGED <<wire, pending, lost, linked, base, needsFull>>,
           DrawingOf(page)' = DrawingOf(page)
    PROVE  Landing'
<1>1. PICK f : Lands(f, Start, wire, lost, linked, base, needsFull)
  BY DEF Landing
<1>2. Start' = Start
  BY DEF Start
<1>3. Lands(f, Start', wire', lost', linked', base', needsFull')
  BY <1>1, <1>2
<1> QED
  BY <1>3 DEF Landing

LEMMA ChangeWhole ==
    ASSUME WholeInv, MirrorInv', NEW i \in Items, NEW v \in Versions \cup {0}, Change(i, v)
    PROVE  WholeInv'
<1>1. ServerTyped' /\ PageTyped(page)' /\ WireTyped' /\ InOrder' /\ (~lost => EndsThere(page.meta))'
  BY DEF WholeInv, Change, ServerTyped, WireTyped, InOrder
<1>2. EndsThere(view)'
  <2> SUFFICES ASSUME NEW e \in Edges, view'[e] # 0, NEW n \in Ends[e] PROVE view'[n] # 0
    BY DEF EndsThere
  <2>1. e \in Items /\ n \in Items /\ n \in Nodes /\ n \notin Edges /\ n # e
    BY MirrorAssumption DEF Items
  <2>2. \A j \in Items : view'[j] = IF j = i THEN v
                                    ELSE IF v = 0 /\ j \in Edges /\ i \in Ends[j] THEN 0 ELSE view[j]
    BY DEF Change
  <2>3. CASE e = i
    <3>1. v # 0 /\ \A m \in Ends[i] : view[m] # 0
      BY <2>1, <2>2, <2>3 DEF Change
    <3> QED
      BY <2>1, <2>2, <2>3, <3>1
  <2>4. CASE e # i
    <3>1. view[e] # 0 /\ ~(v = 0 /\ i \in Ends[e])
      BY <2>1, <2>2, <2>4
    <3>2. view[n] # 0
      BY <3>1 DEF WholeInv, EndsThere
    <3> QED
      BY <2>1, <2>2, <3>1, <3>2
  <2> QED
    BY <2>3, <2>4
<1>3. Landing'
  BY StillLanding DEF WholeInv, Change, DrawingOf
<1> QED
  BY <1>1, <1>2, <1>3 DEF WholeInv

LEMMA ResyncWhole ==
    ASSUME WholeInv, MirrorInv', Resync
    PROVE  WholeInv'
<1>1. /\ UNCHANGED <<view, spot, base, linked, wire, page, pending, mode, lost>>
      /\ needsFull' = TRUE
  BY DEF Resync
<1>2. /\ ServerTyped' /\ PageTyped(page)' /\ WireTyped' /\ InOrder'
      /\ (~lost => EndsThere(page.meta))' /\ EndsThere(view)'
  BY <1>1 DEF WholeInv, ServerTyped, WireTyped, InOrder
<1>3. PICK f : Lands(f, Start, wire, lost, linked, base, needsFull)
  BY DEF WholeInv, Landing
<1>4. Start' = Start
  BY <1>1 DEF Start
<1>5. Lands(f, Start', wire', lost', linked', base', needsFull')
  BY <1>1, <1>3, <1>4 DEF Lands
<1> QED
  BY <1>2, <1>5 DEF WholeInv, Landing

LEMMA ConnectWhole ==
    ASSUME WholeInv, MirrorInv', Connect
    PROVE  WholeInv'
<1>1. /\ UNCHANGED <<view, spot, wire, page, pending, mode, lost>>
      /\ needsFull' = TRUE /\ linked' = TRUE /\ base' = Empty
  BY DEF Connect
<1>2. /\ PageTyped(page)' /\ WireTyped' /\ InOrder'
      /\ (~lost => EndsThere(page.meta))' /\ EndsThere(view)'
  BY <1>1 DEF WholeInv, WireTyped, InOrder
<1>3. ServerTyped'
  BY <1>1 DEF WholeInv, ServerTyped, Empty
<1>4. PICK f : Lands(f, Start, wire, lost, linked, base, needsFull)
  BY DEF WholeInv, Landing
<1>5. Start' = Start
  BY <1>1 DEF Start
<1>6. Lands(f, Start', wire', lost', linked', base', needsFull')
  BY <1>1, <1>4, <1>5 DEF Lands
<1> QED
  BY <1>2, <1>3, <1>6 DEF WholeInv, Landing

LEMMA DisconnectWhole ==
    ASSUME WholeInv, MirrorInv', Disconnect
    PROVE  WholeInv'
<1>1. /\ UNCHANGED <<view, spot, base, needsFull, pending, mode>> /\ linked' = FALSE
      /\ wire' = <<>> /\ Len(wire') = 0
  BY DEF Disconnect
<1>2. EndsThere(view)' /\ WireTyped' /\ InOrder'
  BY <1>1 DEF WholeInv, WireTyped, InOrder
<1>3. pending # None => Sendable(pending)
  BY SentIsSendable DEF WholeInv, WireTyped
<1>4. ASSUME Start' \in Drawings, ~lost' => EndsThere(Start'.drawn) PROVE Landing'
  <2> DEFINE f == [k \in 0 .. 0 |-> Start']
  <2>1. Draws(f, Start', wire')
    BY <1>1, <1>4 DEF Draws
  <2>2. \A k \in 0 .. 0 : f[k] = Start' /\ ~DoneBy(wire', k)
    BY DEF DoneBy
  <2> HIDE DEF f
  <2>3. Lands(f, Start', wire', lost', linked', base', needsFull')
    BY <1>1, <1>4, <2>1, <2>2 DEF Lands
  <2> QED
    BY <2>3 DEF Landing
<1>5. CASE UNCHANGED <<page, lost>>
  <2>1. PICK f : Lands(f, Start, wire, lost, linked, base, needsFull)
    BY DEF WholeInv, Landing
  <2>2. f[0] = Start /\ 0 \in 0 .. Len(wire) /\ Start \in Drawings
    <3>1. Len(wire) \in Nat
      BY DEF WholeInv, WireTyped
    <3> QED
      BY <2>1, <3>1 DEF Lands, Draws
  <2>3. ~lost => EndsThere(Start.drawn)
    BY <2>1, <2>2 DEF Lands
  <2>4. Start' = Start
    BY <1>1, <1>5 DEF Start
  <2>5. Landing'
    BY <1>4, <1>5, <2>2, <2>3, <2>4
  <2>6. ServerTyped' /\ PageTyped(page)' /\ (~lost => EndsThere(page.meta))'
    BY <1>1, <1>5 DEF WholeInv, ServerTyped
  <2> QED
    BY <1>2, <2>5, <2>6 DEF WholeInv
<1>6. CASE /\ page' = [Blank EXCEPT !.labels = page.labels, !.loop = page.loop, !.sync = page.sync]
           /\ lost' = (lost \/ pending # None)
  <2>1. page.sync \in (SUBSET Items) \cup {None} /\ page.loop \in BOOLEAN
    BY DEF WholeInv, PageTyped, DrawingOf, Drawings
  <2>2. /\ page'.drawn = Empty /\ page'.sync = page.sync /\ page'.meta = Empty /\ page'.loop = page.loop
        /\ page'.target = [n \in Nodes |-> 0] /\ page'.pos = [n \in Nodes |-> 0]
    BY <1>6 DEF Blank
  <2>3. DrawingOf(page') \in Drawings /\ DrawingOf(page').drawn = Empty
    BY <2>1, <2>2 DEF DrawingOf, Drawings, Empty
  <2>4. PageTyped(page')
    BY <2>1, <2>2, <2>3 DEF PageTyped, Dressed, Matched, Empty
  <2>5. EndsThere(Empty)
    BY DEF EndsThere, Empty, Items
  <2>6. Start' \in Drawings /\ (~lost' => Start' = DrawingOf(page'))
    <3>1. CASE pending = None
      BY <1>1, <2>3, <3>1 DEF Start
    <3>2. CASE pending # None
      <4>1. Start' = Redrawn(DrawingOf(page'), pending)
        BY <1>1, <3>2 DEF Start
      <4> QED
        BY <1>3, <1>6, <2>3, <3>2, <4>1, RedrawnTyped
    <3> QED
      BY <3>1, <3>2
  <2>7. Landing'
    BY <1>4, <2>3, <2>5, <2>6
  <2>8. ServerTyped'
    BY <1>1, <1>6 DEF WholeInv, ServerTyped
  <2> QED
    BY <1>2, <2>2, <2>4, <2>5, <2>7, <2>8 DEF WholeInv
<1> QED
  BY <1>5, <1>6 DEF Disconnect

LEMMA AppendIs ==
    ASSUME NEW w \in Seq(Sent), NEW m \in Sent
    PROVE  Append(w, m) = w \o <<m>> /\ <<m>> \in Seq(Sent) /\ Len(<<m>>) = 1 /\ <<m>>[1] = m
           /\ \A k \in 1 .. Len(w) : Append(w, m)[k] = w[k]
           /\ Len(Append(w, m)) = Len(w) + 1 /\ Append(w, m)[Len(w) + 1] = m
  OBVIOUS

\* Messages in order, after messages in order.
LEMMA JoinInOrder ==
    ASSUME NEW w \in Seq(Sent), NEW v \in Seq(Sent), WireTyped, InOrder, wire = w,
           \A k \in 1 .. Len(v) : v[k].kind \in {"chunk", "last"} =>
               k # 1 /\ v[k - 1].kind \in {"first", "chunk"},
           wire' = w \o v, pending' = pending
    PROVE  InOrder'
<1>1. /\ Len(w) \in Nat /\ Len(v) \in Nat /\ Len(w \o v) = Len(w) + Len(v)
      /\ \A k \in 1 .. Len(w) : (w \o v)[k] = w[k]
      /\ \A k \in Len(w) + 1 .. Len(w) + Len(v) : (w \o v)[k] = v[k - Len(w)]
  OBVIOUS
<1> SUFFICES ASSUME NEW k \in 1 .. Len(w) + Len(v), (w \o v)[k].kind \in {"chunk", "last"}
             PROVE  IF k = 1 THEN pending = None ELSE (w \o v)[k - 1].kind \in {"first", "chunk"}
  BY <1>1 DEF InOrder
<1>2. CASE k <= Len(w)
  <2>1. k \in 1 .. Len(w) /\ (k # 1 => k - 1 \in 1 .. Len(w))
    BY <1>1, <1>2
  <2> QED
    BY <1>1, <2>1 DEF InOrder
<1>3. CASE ~(k <= Len(w))
  <2> DEFINE j == k - Len(w)
  <2>1. j \in 1 .. Len(v) /\ k \in Len(w) + 1 .. Len(w) + Len(v)
    BY <1>1, <1>3
  <2>2. j # 1 /\ v[j - 1].kind \in {"first", "chunk"}
    BY <1>1, <2>1
  <2>3. k # 1 /\ k - 1 \in Len(w) + 1 .. Len(w) + Len(v) /\ (k - 1) - Len(w) = j - 1
    BY <1>1, <2>1, <2>2
  <2> QED
    BY <1>1, <2>2, <2>3
<1> QED
  BY <1>2, <1>3

LEMMA TickWhole ==
    ASSUME WholeInv, MirrorInv', Tick
    PROVE  WholeInv'
<1>1. /\ UNCHANGED <<view, spot, linked, page, pending, mode, lost>> /\ linked = TRUE
      /\ wire' = wire \o Messages /\ base' = view /\ needsFull' = FALSE
  BY DEF Tick, WholeInv, ServerTyped
<1>2. /\ ServerTyped' /\ PageTyped(page)' /\ EndsThere(view)' /\ (~lost => EndsThere(page.meta))'
  BY <1>1 DEF WholeInv, ServerTyped
<1>3. wire \in Seq(Sent) /\ Len(wire) \in Nat
  BY DEF WholeInv, WireTyped
<1>4. PICK f : Lands(f, Start, wire, lost, linked, base, needsFull)
  BY DEF WholeInv, Landing
<1> DEFINE n == Len(wire)
           d == f[n]
           v == Messages
<1>5. d \in Drawings
  BY <1>3, <1>4 DEF Lands, Draws
<1>6. TickDraws(d, v)
  BY <1>5, MessagesDraw DEF WholeInv
<1> HIDE DEF d, v
<1>7. PICK g : /\ Draws(g, d, v)
               /\ needsFull \/ d.drawn = base => g[Len(v)].drawn = view
               /\ \A k \in 0 .. Len(v) :
                    DoneBy(v, k) \/ (EndsThere(d.drawn) /\ (d.drawn = base \/ (needsFull /\ base = Empty)))
                       => EndsThere(g[k].drawn)
  BY <1>6 DEF TickDraws
<1>8. v \in Seq(Sent) /\ (DoneBy(v, Len(v)) => needsFull)
  BY <1>6 DEF TickDraws
<1>9. ~lost \/ DoneBy(wire, n) => EndsThere(d.drawn) /\ (d.drawn = base \/ (needsFull /\ base = Empty))
  <2>1. n \in 0 .. n
    BY <1>3
  <2> QED
    BY <1>1, <1>4, <2>1 DEF Lands, d
<1>10. \A k \in 0 .. Len(v) : ~lost \/ DoneBy(wire, n) \/ DoneBy(v, k) => EndsThere(g[k].drawn)
  BY <1>7, <1>9
<1>11. ~lost \/ DoneBy(wire, n) \/ DoneBy(v, Len(v)) => g[Len(v)].drawn = view
  BY <1>7, <1>8, <1>9
<1>12. Lands(f, Start, wire, lost, TRUE, base, needsFull)
  BY <1>1, <1>4
<1>13. \E h : Lands(h, Start, wire \o v, lost, TRUE, view, FALSE)
  BY <1>3, <1>7, <1>8, <1>10, <1>11, <1>12, LandsJoin DEF d
<1>14. Start' = Start
  BY <1>1 DEF Start
<1>15. Landing'
  BY <1>1, <1>13, <1>14 DEF Landing, v
<1>16. InOrder'
  <2>1. \A k \in 1 .. Len(v) : v[k].kind \in {"chunk", "last"} => k # 1 /\ v[k - 1].kind \in {"first", "chunk"}
    BY <1>6 DEF TickDraws
  <2> QED
    BY <1>1, <1>3, <1>8, <2>1, JoinInOrder DEF WholeInv, v
<1>17. wire \o v \in Seq(Sent)
  BY <1>3, <1>8
<1>18. WireTyped'
  BY <1>1, <1>17 DEF WholeInv, WireTyped, v
<1> QED
  BY <1>2, <1>15, <1>16, <1>18 DEF WholeInv

LEMMA MoveWhole ==
    ASSUME WholeInv, MirrorInv', NEW n \in Nodes, NEW s \in Spots, Move(n, s)
    PROVE  WholeInv'
<1> DEFINE m == [kind |-> "positions", put |-> <<>>, gone |-> {}, at |-> [x \in {n} |-> s]]
           v == <<m>>
<1>1. /\ UNCHANGED <<view, base, needsFull, linked, page, pending, mode, lost>> /\ linked = TRUE
      /\ wire' = Append(wire, m) /\ spot' = [spot EXCEPT ![n] = s]
  BY DEF Move, WholeInv, ServerTyped
<1>2. m \in Sent /\ m.kind = "positions"
  BY FrameSent
<1> HIDE DEF m
<1>3. wire \in Seq(Sent) /\ Len(wire) \in Nat
  BY DEF WholeInv, WireTyped
<1>4. wire' = wire \o v /\ v \in Seq(Sent) /\ Len(v) = 1 /\ v[1] = m
  BY <1>1, <1>2, <1>3, AppendIs
<1> HIDE DEF v
<1>5. /\ ServerTyped' /\ PageTyped(page)' /\ EndsThere(view)' /\ (~lost => EndsThere(page.meta))'
  BY <1>1 DEF WholeInv, ServerTyped
<1>6. PICK f : Lands(f, Start, wire, lost, linked, base, needsFull)
  BY DEF WholeInv, Landing
<1> DEFINE d == f[Len(wire)]
           g == [k \in 0 .. 1 |-> d]
<1>7. d \in Drawings
  BY <1>3, <1>6 DEF Lands, Draws
<1>8. Redrawn(d, m) = d
  BY <1>2 DEF Redrawn
<1>9. g \in [0 .. 1 -> Drawings] /\ \A k \in 0 .. 1 : g[k] = d
  BY <1>7
<1> HIDE DEF g
<1>10. Draws(g, d, v)
  <2>1. \A k \in 1 .. 1 : k = 1 /\ k - 1 \in 0 .. 1 /\ k \in 0 .. 1
    OBVIOUS
  <2>2. 0 \in 0 .. 1
    OBVIOUS
  <2> QED
    BY <1>4, <1>8, <1>9, <2>1, <2>2 DEF Draws
<1>11. \A k \in 0 .. 1 : ~DoneBy(v, k)
  <2>1. \A k \in 0 .. 1 : \A j \in 1 .. k : j = 1
    OBVIOUS
  <2> QED
    BY <1>2, <1>4, <2>1 DEF DoneBy, Completes
<1>12. ~lost \/ DoneBy(wire, Len(wire)) => EndsThere(d.drawn) /\ (d.drawn = base \/ (needsFull /\ base = Empty))
  <2>1. Len(wire) \in 0 .. Len(wire)
    BY <1>3
  <2> QED
    BY <1>1, <1>6, <2>1 DEF Lands
<1> HIDE DEF d
<1>13. 1 \in 0 .. 1
  OBVIOUS
<1>14. \A k \in 0 .. Len(v) : ~lost \/ DoneBy(wire, Len(wire)) \/ DoneBy(v, k) => EndsThere(g[k].drawn)
  BY <1>4, <1>9, <1>11, <1>12
<1>15. ~lost \/ DoneBy(wire, Len(wire)) \/ DoneBy(v, Len(v)) =>
          g[Len(v)].drawn = base \/ (needsFull /\ base = Empty)
  BY <1>4, <1>9, <1>11, <1>12, <1>13
<1>16. Lands(f, Start, wire, lost, TRUE, base, needsFull)
  BY <1>1, <1>6
<1>17. \E h : Lands(h, Start, wire \o v, lost, TRUE, base, needsFull)
  BY <1>3, <1>4, <1>10, <1>14, <1>15, <1>16, LandsJoin DEF d
<1>18. Start' = Start
  BY <1>1 DEF Start
<1>19. Landing'
  BY <1>1, <1>4, <1>17, <1>18 DEF Landing
<1>20. InOrder'
  <2>1. \A k \in 1 .. Len(v) : v[k].kind \notin {"chunk", "last"}
    BY <1>2, <1>4
  <2> QED
    BY <1>1, <1>3, <1>4, <2>1, JoinInOrder DEF WholeInv
<1>21. wire \o v \in Seq(Sent)
  BY <1>3, <1>4
<1>22. WireTyped'
  BY <1>1, <1>4, <1>21 DEF WholeInv, WireTyped
<1> QED
  BY <1>5, <1>19, <1>20, <1>22 DEF WholeInv

LEMMA StepWhole ==
    ASSUME WholeInv, MirrorInv', Step
    PROVE  WholeInv'
<1>1. UNCHANGED <<view, spot, base, needsFull, linked, wire, pending, mode, lost>>
  BY DEF Step, ServerUnchanged
<1>2. PICK done \in SUBSET Gliding(page) :
         page' = [page EXCEPT !.pos  = [n \in Nodes |-> IF n \in done THEN page.target[n] ELSE @[n]],
                              !.loop = Gliding(page) # done]
  BY DEF Step
<1>3. Shaped(page)
  BY DEF WholeInv, MirrorInv, PageInv
<1>4. /\ page'.drawn = page.drawn /\ page'.sync = page.sync /\ page'.meta = page.meta
      /\ page'.target = page.target /\ page'.loop = (Gliding(page) # done)
      /\ page'.pos = [n \in Nodes |-> IF n \in done THEN page.target[n] ELSE page.pos[n]]
  BY <1>2, <1>3 DEF Shaped
<1>5. DrawingOf(page)' = DrawingOf(page)
  BY <1>4 DEF DrawingOf
<1>6. PageTyped(page)'
  BY <1>4, <1>5 DEF WholeInv, PageTyped, Dressed, Matched
<1>7. Landing'
  BY <1>1, <1>5, StillLanding DEF WholeInv
<1>8. /\ ServerTyped' /\ WireTyped' /\ InOrder' /\ EndsThere(view)'
      /\ (~lost => EndsThere(page.meta))'
  BY <1>1, <1>4 DEF WholeInv, ServerTyped, WireTyped, InOrder
<1> QED
  BY <1>6, <1>7, <1>8 DEF WholeInv

LEMMA RestyleWhole ==
    ASSUME WholeInv, MirrorInv', NEW m \in {0, 1} \X {0, 1}, Restyle(m)
    PROVE  WholeInv'
<1>1. /\ UNCHANGED <<view, spot, base, needsFull, linked, wire, pending, lost>>
      /\ mode' = m /\ page' = Recolored(page, m)
  BY DEF Restyle, ServerUnchanged
<1>2. Shaped(page)
  BY DEF WholeInv, MirrorInv, PageInv
<1>3. /\ page'.drawn = page.drawn /\ page'.sync = page.sync /\ page'.meta = page.meta
      /\ page'.target = page.target /\ page'.loop = page.loop /\ page'.pos = page.pos
  BY <1>1, <1>2 DEF Recolored, Shaped
<1>4. DrawingOf(page)' = DrawingOf(page)
  BY <1>3 DEF DrawingOf
<1>5. PageTyped(page)'
  BY <1>3, <1>4 DEF WholeInv, PageTyped, Dressed, Matched
<1>6. Landing'
  BY <1>1, <1>4, StillLanding DEF WholeInv
<1>7. /\ ServerTyped' /\ WireTyped' /\ InOrder' /\ EndsThere(view)'
      /\ (~lost => EndsThere(page.meta))'
  BY <1>1, <1>3 DEF WholeInv, ServerTyped, WireTyped, InOrder
<1> QED
  BY <1>5, <1>6, <1>7 DEF WholeInv

LEMMA ThrottleWhole ==
    ASSUME WholeInv, MirrorInv', ThrottleFires
    PROVE  WholeInv'
<1>1. /\ UNCHANGED <<view, spot, base, needsFull, linked, wire, mode, lost>>
      /\ pending # None /\ pending' = None /\ page' = Updated(page, pending, {})
  BY DEF ThrottleFires, ServerUnchanged
<1>2. Sendable(pending) /\ pending.kind = "delta" /\ pending.kind # "positions"
  BY <1>1, SentIsSendable DEF WholeInv, WireTyped
<1>3. PageInv(page, mode) /\ PageTyped(page) /\ DrawingOf(page) \in Drawings /\ Dressed(page)
  BY DEF WholeInv, MirrorInv, PageTyped
<1>4. DrawingOf(page') = Redrawn(DrawingOf(page), pending)
  BY <1>1, <1>2, <1>3, UpdatedDraws
<1>5. PageTyped(page')
  BY <1>1, <1>2, <1>3, UpdatedTyped
<1>6. Start' = Start
  BY <1>1, <1>4 DEF Start
<1>7. PICK f : Lands(f, Start, wire, lost, linked, base, needsFull)
  BY DEF WholeInv, Landing
<1>8. Lands(f, Start', wire', lost', linked', base', needsFull')
  BY <1>1, <1>6, <1>7
<1>9. ~lost => EndsThere(page'.meta)
  <2>1. Len(wire) \in Nat /\ 0 \in 0 .. Len(wire)
    BY DEF WholeInv, WireTyped
  <2>2. f[0] = Start
    BY <1>7 DEF Lands, Draws
  <2>3. ~lost => EndsThere(Start.drawn)
    BY <1>7, <2>1, <2>2 DEF Lands
  <2>4. page'.meta = Start.drawn
    BY <1>1, <1>4 DEF Start, DrawingOf
  <2> QED
    BY <2>3, <2>4
<1>10. /\ ServerTyped' /\ WireTyped' /\ EndsThere(view)'
  BY <1>1 DEF WholeInv, ServerTyped, WireTyped
<1>11. InOrder'
  BY <1>1 DEF WholeInv, InOrder
<1> QED
  BY <1>1, <1>5, <1>8, <1>9, <1>10, <1>11 DEF WholeInv, Landing

\* A message received is the first step of the drawing to come, whether it is applied
\* or held; where one that was held is lost with it, the drawings differ until a full
\* is complete.
LEMMA ReceivedLands ==
    ASSUME WholeInv, wire # <<>>, wire' = Tail(wire), UNCHANGED <<linked, base, needsFull>>,
           Start' = Redrawn(DrawingOf(page), Head(wire)),
           lost' \in BOOLEAN,
           pending # None => lost' \/ Head(wire).kind = "whole",
           ~lost' => ~lost \/ Completes(Head(wire)),
           pending # None => Head(wire).kind \notin {"chunk", "last"}
    PROVE  /\ Landing' /\ Start' \in Drawings
           /\ ~lost' => EndsThere(Start'.drawn)
<1> DEFINE w == wire
           e == DrawingOf(page)
<1>1. /\ w \in Seq(Sent) /\ Len(w) \in Nat /\ Len(w) # 0 /\ Head(w) = w[1] /\ w[1] \in Sent
      /\ 1 \in 1 .. Len(w) /\ 0 \in 0 .. Len(w) /\ 1 \in 0 .. Len(w) /\ 1 - 1 = 0
      /\ Len(Tail(w)) = Len(w) - 1
  BY DEF WholeInv, WireTyped
<1>2. PICK f : Lands(f, Start, w, lost, linked, base, needsFull)
  BY DEF WholeInv, Landing
<1>3. e \in Drawings
  BY DEF WholeInv, PageTyped
<1> HIDE DEF w, e
<1>4. \E g : Draws(g, e, w) /\ (pending = None => g = f)
  <2>1. CASE pending = None
    BY <1>2, <2>1 DEF Start, Lands, e
  <2>2. CASE pending # None
    BY <1>1, <1>3, <2>2, DrawsExist
  <2> QED
    BY <2>1, <2>2
<1>5. PICK g : Draws(g, e, w) /\ (pending = None => g = f)
  BY <1>4
<1>6. g[0] = e /\ g[1] = Redrawn(e, w[1]) /\ g[1] \in Drawings
  BY <1>1, <1>5 DEF Draws
<1>7. g[1] = Start'
  BY <1>1, <1>6 DEF e, w
<1>8. pending # None => \A k \in 0 .. Len(w) : DoneBy(w, k) => f[k] = g[k]
  <2> SUFFICES ASSUME pending # None PROVE \A k \in 0 .. Len(w) : DoneBy(w, k) => f[k] = g[k]
    OBVIOUS
  <2>1. \A k \in 1 .. Len(w) : w[k].kind \in {"chunk", "last"} => k # 1 /\ w[k - 1].kind \in {"first", "chunk"}
    BY DEF WholeInv, InOrder, w
  <2>2. Draws(f, Start, w)
    BY <1>2 DEF Lands
  <2> QED
    BY <1>1, <1>5, <2>1, <2>2, FullsForget
<1>9. \A k \in 1 .. Len(w) : DoneBy(w, k) <=> Completes(w[1]) \/ DoneBy(Tail(w), k - 1)
  BY <1>1, DoneTail DEF w
<1>10. ASSUME NEW k \in 1 .. Len(w), ~lost' \/ DoneBy(Tail(w), k - 1)
       PROVE  (~lost \/ DoneBy(w, k)) /\ g[k] = f[k]
  <2>1. ~lost \/ DoneBy(w, k)
    BY <1>1, <1>9, <1>10 DEF w
  <2>2. CASE pending = None
    BY <1>5, <2>1, <2>2
  <2>3. CASE pending # None
    <3>1. lost' \/ Completes(w[1])
      BY <1>1, <2>3 DEF Completes, w
    <3>2. DoneBy(w, k)
      BY <1>9, <1>10, <3>1
    <3>3. k \in 0 .. Len(w)
      BY <1>1
    <3> QED
      BY <1>8, <2>3, <3>2, <3>3
  <2> QED
    BY <2>2, <2>3
<1>11. w # <<>>
  BY DEF w
<1>12. \E h : Lands(h, g[1], Tail(w), lost', linked, base, needsFull)
  BY <1>1, <1>2, <1>5, <1>10, <1>11, LandsTail
<1>13. Landing'
  BY <1>7, <1>12 DEF Landing, w
<1>14. ~lost' => EndsThere(Start'.drawn)
  <2> SUFFICES ASSUME ~lost' PROVE EndsThere(g[1].drawn)
    BY <1>7
  <2>1. (~lost \/ DoneBy(w, 1)) /\ g[1] = f[1]
    BY <1>1, <1>10
  <2> QED
    BY <1>1, <1>2, <2>1 DEF Lands
<1> QED
  BY <1>6, <1>7, <1>13, <1>14

LEMMA ReceiveWhole ==
    ASSUME WholeInv, MirrorInv', Receive
    PROVE  WholeInv'
<1> DEFINE h == Head(wire)
<1>1. /\ UNCHANGED <<view, spot, base, needsFull, linked, mode>> /\ wire # <<>> /\ wire' = Tail(wire)
  BY DEF Receive, ServerUnchanged
<1>2. PICK snap : ReceiveFull(snap) \/ ReceiveDelta(snap) \/ ReceivePositions(snap)
  BY DEF Receive
<1>3. /\ wire \in Seq(Sent) /\ h = wire[1] /\ h \in Sent /\ Tail(wire) \in Seq(Sent)
      /\ Len(wire) \in Nat /\ Len(wire) # 0 /\ Len(Tail(wire)) = Len(wire) - 1
      /\ \A k \in 1 .. Len(wire) - 1 : Tail(wire)[k] = wire[k + 1]
  BY <1>1 DEF WholeInv, WireTyped
<1>4. Sendable(h)
  BY <1>3, SentIsSendable
<1>5. PageInv(page, mode) /\ PageTyped(page) /\ DrawingOf(page) \in Drawings /\ Dressed(page) /\ lost \in BOOLEAN
  BY DEF WholeInv, MirrorInv, PageTyped, ServerTyped
<1>6. h.kind # "positions" =>
         /\ DrawingOf(Updated(page, h, snap)) = Redrawn(DrawingOf(page), h)
         /\ PageTyped(Updated(page, h, snap))
  BY <1>4, <1>5, UpdatedDraws, UpdatedTyped
<1>7. EndsThere(view)'
  BY <1>1 DEF WholeInv
<1>8. h.kind \in {"chunk", "last"} => pending = None
  <2>1. 1 \in 1 .. Len(wire)
    BY <1>3
  <2> QED
    BY <1>3, <2>1 DEF WholeInv, InOrder
<1>9. ASSUME pending' # None => h.kind \notin {"first", "chunk"} PROVE InOrder'
  <2> SUFFICES ASSUME NEW k \in 1 .. Len(Tail(wire)), Tail(wire)[k].kind \in {"chunk", "last"}
               PROVE  IF k = 1 THEN pending' = None ELSE Tail(wire)[k - 1].kind \in {"first", "chunk"}
    BY <1>1 DEF InOrder
  <2>1. k \in 1 .. Len(wire) - 1 /\ k + 1 \in 1 .. Len(wire) /\ k + 1 # 1 /\ (k + 1) - 1 = k
    BY <1>3
  <2>2. wire[k].kind \in {"first", "chunk"}
    BY <1>3, <2>1 DEF WholeInv, InOrder
  <2>3. k # 1 => k - 1 \in 1 .. Len(wire) - 1 /\ (k - 1) + 1 = k
    BY <2>1
  <2> QED
    BY <1>3, <1>9, <2>2, <2>3
<1>10. ASSUME pending' = None \/ (pending' = h /\ h.kind = "delta") \/ pending' = pending PROVE WireTyped'
  BY <1>1, <1>3, <1>10 DEF WholeInv, WireTyped
<1>11. ASSUME lost' \in BOOLEAN PROVE ServerTyped'
  BY <1>1, <1>11 DEF WholeInv, ServerTyped
<1> HIDE DEF h
<1>12. ASSUME pending' = None, page' = Updated(page, h, snap), h.kind # "positions",
              pending # None => h.kind \in {"whole", "first"},
              lost' = (\/ h.kind = "first" /\ pending # None
                       \/ lost /\ h.kind \notin {"whole", "last"})
       PROVE  WholeInv'
  <2>1. Start' = Redrawn(DrawingOf(page), h) /\ DrawingOf(page') = Start' /\ PageTyped(page')
    BY <1>6, <1>12 DEF Start
  <2>2. lost' \in BOOLEAN
    BY <1>5, <1>12
  <2>3. pending # None => lost' \/ h.kind = "whole"
    BY <1>12
  <2>4. ~lost' => ~lost \/ Completes(h)
    BY <1>12 DEF Completes
  <2>5. pending # None => h.kind \notin {"chunk", "last"}
    BY <1>8
  <2>6. Landing' /\ (~lost' => EndsThere(Start'.drawn))
    BY <1>1, <2>1, <2>2, <2>3, <2>4, <2>5, ReceivedLands DEF h
  <2>7. ~lost' => EndsThere(page'.meta)
    BY <2>1, <2>6 DEF DrawingOf
  <2>8. InOrder'
    BY <1>9, <1>12
  <2>9. WireTyped'
    BY <1>10, <1>12
  <2>10. ServerTyped'
    BY <1>11, <2>2
  <2> QED
    BY <1>7, <2>1, <2>6, <2>7, <2>8, <2>9, <2>10 DEF WholeInv
<1>13. CASE ReceiveFull(snap)
  <2>1. /\ h.kind \in {"whole", "first", "chunk", "last"}
        /\ page' = Updated(page, h, snap)
        /\ pending' = IF h.kind \in {"whole", "first"} THEN None ELSE pending
        /\ lost' = (\/ h.kind = "first" /\ pending # None
                    \/ lost /\ h.kind \notin {"whole", "last"})
    BY <1>13 DEF ReceiveFull, h
  <2>2. pending' = None /\ (pending # None => h.kind \in {"whole", "first"})
    BY <1>8, <2>1
  <2> QED
    BY <1>12, <2>1, <2>2
<1>14. CASE ReceiveDelta(snap) /\ pending = None /\ page' = Updated(page, h, snap) /\ UNCHANGED <<pending, lost>>
  <2>1. h.kind = "delta"
    BY <1>14 DEF ReceiveDelta, h
  <2>2. lost' = (\/ h.kind = "first" /\ pending # None
                 \/ lost /\ h.kind \notin {"whole", "last"})
    BY <1>5, <1>14, <2>1
  <2> QED
    BY <1>12, <1>14, <2>1, <2>2
<1>15. CASE ReceiveDelta(snap) /\ pending' = h /\ lost' = (lost \/ pending # None) /\ UNCHANGED page
  <2>1. h.kind = "delta" /\ h # None
    BY <1>4, <1>15 DEF ReceiveDelta, h, Sendable
  <2>2. Start' = Redrawn(DrawingOf(page), h)
    BY <1>15, <2>1 DEF Start
  <2>3. lost' \in BOOLEAN
    BY <1>5, <1>15
  <2>4. Landing'
    BY <1>1, <1>5, <1>15, <2>1, <2>2, <2>3, ReceivedLands DEF h
  <2>5. PageTyped(page)' /\ (~lost => EndsThere(page.meta))'
    BY <1>15 DEF WholeInv
  <2> QED
    BY <1>7, <1>9, <1>10, <1>11, <1>15, <2>1, <2>3, <2>4, <2>5 DEF WholeInv
<1>16. CASE ReceivePositions(snap)
  <2>1. /\ h.kind = "positions" /\ page' = Placed(page, h.at, snap) /\ UNCHANGED <<pending, lost>>
    BY <1>16 DEF ReceivePositions, h
  <2>2. Shaped(page)
    BY <1>5 DEF PageInv
  <2>3. \A n \in DOMAIN h.at : h.at[n] \in Spots
    BY <1>4 DEF Sendable
  <2>4. page'.meta = page.meta /\ page'.sync = page.sync /\ PageTyped(page')
    BY <1>5, <2>1, <2>2, <2>3, PlacedDraws, PlacedTyped
  <2>5. Start' = Start
    BY <2>1, <2>4 DEF Start, DrawingOf
  <2>6. PICK f : Lands(f, Start, wire, lost, linked, base, needsFull)
    BY DEF WholeInv, Landing
  <2>7. 1 \in 1 .. Len(wire) /\ 1 - 1 = 0
    BY <1>3
  <2>8. f[0] = Start /\ f[1] = Redrawn(f[0], wire[1])
    BY <2>6, <2>7 DEF Lands, Draws
  <2>9. f[1] = Start
    BY <1>3, <2>1, <2>8 DEF Redrawn
  <2>10. Draws(f, Start, wire)
    BY <2>6 DEF Lands
  <2>11. \A k \in 1 .. Len(wire) : ~lost \/ DoneBy(Tail(wire), k - 1) => (~lost \/ DoneBy(wire, k)) /\ f[k] = f[k]
    BY <1>1, <1>3, DoneTail
  <2>12. \E g : Lands(g, f[1], Tail(wire), lost, linked, base, needsFull)
    BY <1>1, <1>3, <2>6, <2>10, <2>11, LandsTail
  <2>13. Landing'
    BY <1>1, <2>1, <2>5, <2>9, <2>12 DEF Landing
  <2>14. ~lost' => EndsThere(page'.meta)
    BY <2>1, <2>4 DEF WholeInv
  <2>15. lost' \in BOOLEAN /\ h.kind \notin {"first", "chunk"}
    BY <1>5, <2>1
  <2> QED
    BY <1>7, <1>9, <1>10, <1>11, <2>1, <2>4, <2>13, <2>14, <2>15 DEF WholeInv
<1>17. ReceiveDelta(snap) =>
          \/ pending = None /\ page' = Updated(page, h, snap) /\ UNCHANGED <<pending, lost>>
          \/ pending' = h /\ lost' = (lost \/ pending # None) /\ UNCHANGED page
  BY DEF ReceiveDelta, h
<1> QED
  BY <1>2, <1>13, <1>14, <1>15, <1>16, <1>17

LEMMA NextWhole == WholeInv /\ [Next]_vars => WholeInv'
<1> SUFFICES ASSUME WholeInv, [Next]_vars PROVE WholeInv'
  OBVIOUS
<1>1. MirrorInv'
  BY NextMirror DEF WholeInv
<1>2. ASSUME UNCHANGED vars PROVE WholeInv'
  <2>1. UNCHANGED <<view, spot, base, needsFull, linked, wire, page, pending, mode, lost>>
    BY <1>2 DEF vars
  <2>2. Landing'
    BY <2>1, StillLanding DEF WholeInv
  <2> QED
    BY <1>1, <2>1, <2>2 DEF WholeInv, ServerTyped, WireTyped, InOrder
<1>3. ASSUME ApplyTheme \/ SetNodeColorMode PROVE WholeInv'
  <2>1. mode \in {0, 1} \X {0, 1}
    BY DEF WholeInv, ServerTyped
  <2>2. <<1 - mode[1], mode[2]>> \in {0, 1} \X {0, 1} /\ <<mode[1], 1 - mode[2]>> \in {0, 1} \X {0, 1}
    BY <2>1
  <2> QED
    BY <1>1, <1>3, <2>2, RestyleWhole DEF ApplyTheme, SetNodeColorMode
<1> QED
  BY <1>1, <1>2, <1>3, ChangeWhole, MoveWhole, TickWhole, ResyncWhole, DisconnectWhole, ConnectWhole,
     ReceiveWhole, ThrottleWhole, StepWhole DEF Next

\* What every message under way will make of the picture, from any state the page can
\* be in: Tick and splitDelta on one side, throttledUpdateGraph and updateGraph on the
\* other.
THEOREM MirrorStays == Spec => []WholeInv
  BY InitWhole, NextWhole, PTL DEF Spec

\* The mirror is exact whenever all that was sent has come and no held delta was lost,
\* and no edge is drawn without its ends: buildDelta and splitDelta against
\* throttledUpdateGraph, updateGraph and lost connections.
THEOREM MirrorAlwaysWhole == Spec => []MirrorIsWhole
<1>1. WholeInv => MirrorIsWhole
  <2> SUFFICES ASSUME WholeInv PROVE MirrorIsWhole
    OBVIOUS
  <2>1. TypeOK
    <3>1. \A i \in 1 .. Len(wire) : DOMAIN wire[i].put \subseteq Items
      BY SentIsSendable DEF WholeInv, WireTyped, Sendable
    <3>2. page.drawn \in [Items -> Versions \cup {0}] /\ page.sync \in (SUBSET Items) \cup {None}
      BY DEF WholeInv, PageTyped, Dressed, DrawingOf, Drawings
    <3>3. page.sync # None => page.sync \subseteq Items
      BY <3>2
    <3> QED
      BY <3>1, <3>2, <3>3 DEF WholeInv, ServerTyped, PageTyped, WireTyped, TypeOK
  <2>2. MirrorExact
    <3> SUFFICES ASSUME Quiet, ~lost PROVE Mirrors(page)
      BY DEF MirrorExact
    <3>1. PICK f : Lands(f, Start, wire, lost, linked, base, needsFull)
      BY DEF WholeInv, Landing
    <3>2. Len(wire) = 0 /\ f[0] = Start /\ Start.drawn = page.meta
      BY <3>1 DEF Quiet, Lands, Draws, Start, DrawingOf
    <3>3. page.meta = base
      BY <3>1, <3>2 DEF Quiet, Lands
    <3>4. DOMAIN page.drawn = Items /\ DOMAIN page.meta = Items /\ Matched(page)
      BY DEF WholeInv, PageTyped, Dressed
    <3> QED
      BY <3>3, <3>4 DEF Mirrors, Present, Matched
  <2>3. EdgesHaveEnds
    <3>1. MirrorAssumption
      BY MirrorAssumption
    <3>2. \A e \in Edges : e \in Items /\ \A n \in Ends[e] : n \in Items
      BY <3>1 DEF MirrorAssumption, Items
    <3> QED
      BY <3>2 DEF WholeInv, PageTyped, Dressed, Matched, EndsThere, EdgesHaveEnds
  <2> QED
    BY <2>1, <2>2, <2>3 DEF MirrorIsWhole
<1> QED
  BY <1>1, MirrorStays, PTL

\* No redraw is spared that was needed: the signatures of updateGraph against
\* themes, colour modes, label limits, chunked fulls and cleared pictures.
THEOREM LooksAlwaysCurrent == Spec => []LooksCurrent
<1>1. WholeInv => LooksCurrent
  BY DEF WholeInv, MirrorInv, PageInv, PageTyped, Dressed, Matched, Looks, Passes, LooksCurrent
<1> QED
  BY <1>1, MirrorStays, PTL
=============================================================================
