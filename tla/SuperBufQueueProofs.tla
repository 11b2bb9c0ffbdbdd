------------------------- MODULE SuperBufQueueProofs -------------------------
(***************************************************************************)
(* The super buffer queue stays in order, and implements BundleFrames.     *)
(*                                                                         *)
(* A command is a composition of functions of the channel.  Each of them   *)
(* is shown to be a Step: from a good channel to a good one, where every   *)
(* frame that is held before, or is new, and not after, is given back      *)
(* once.  Steps compose, so that what comes before the dispatch is one     *)
(* too.  The dispatch sends super buffers from the head of the queue.      *)
(*                                                                         *)
(* A good channel has a queue that satisfies QInv: the matched super       *)
(* buffers come first and are counted by match_cnt, their ids are          *)
(* ascending and later than what was sent, and no frame is in two nodes.   *)
(* Of the unmatched nodes this holds up to one thing: a node may be older  *)
(* than one before it when it can never be complete, since a stream whose  *)
(* frame is missing has delivered a later one (Dead).                      *)
(***************************************************************************)
EXTENDS SuperBufQueue, SelectionTheorems

-----------------------------------------------------------------------------
(* Lists with a part cut out, and with an element put in. *)

Cut(q, a, b) == SubSeq(q, 1, a - 1) \o SubSeq(q, b, Len(q))

\* What is left when the positions from a up to b - 1 are cut out.
LEMMA CutIs ==
  ASSUME NEW T, NEW q \in Seq(T), NEW a \in 1..(Len(q) + 1), NEW b \in a..(Len(q) + 1)
  PROVE  /\ Cut(q, a, b) \in Seq(T) /\ Len(Cut(q, a, b)) = Len(q) - (b - a)
         /\ \A k \in 1..(a - 1) : Cut(q, a, b)[k] = q[k]
         /\ \A k \in a..(Len(q) - (b - a)) : Cut(q, a, b)[k] = q[k + (b - a)]
<1> DEFINE s == SubSeq(q, 1, a - 1)
           t == SubSeq(q, b, Len(q))
<1>1. Len(q) \in Nat /\ a \in Int /\ b \in Int /\ a - 1 \in Int
  BY LenProperties
<1>2. \A i \in 1..Len(q) : q[i] \in T
  BY LenProperties
<1>3. /\ s \in Seq(T) /\ Len(s) = a - 1
      /\ \A i \in 1..(a - 1) : s[i] = q[i]
  <2>1. \A i \in 1..(a - 1) : q[i] \in T
    BY <1>1, <1>2
  <2>2. /\ s \in Seq(T) /\ Len(s) = IF 1 <= a - 1 THEN (a - 1) - 1 + 1 ELSE 0
        /\ \A i \in 1..((a - 1) - 1 + 1) : s[i] = q[1 + i - 1]
    BY <1>1, <2>1, SubSeqProperties
  <2> HIDE DEF s
  <2>3. Len(s) = a - 1
    BY <1>1, <2>2
  <2>4. \A i \in 1..(a - 1) : s[i] = q[i]
    BY <1>1, <2>2
  <2> QED BY <2>2, <2>3, <2>4
<1>4. /\ t \in Seq(T) /\ Len(t) = Len(q) - b + 1
      /\ \A i \in 1..(Len(q) - b + 1) : t[i] = q[b + i - 1]
  <2>1. \A i \in b..Len(q) : q[i] \in T
    BY <1>1, <1>2
  <2>2. /\ t \in Seq(T) /\ Len(t) = IF b <= Len(q) THEN Len(q) - b + 1 ELSE 0
        /\ \A i \in 1..(Len(q) - b + 1) : t[i] = q[b + i - 1]
    BY <1>1, <2>1, SubSeqProperties
  <2> HIDE DEF t
  <2>3. Len(t) = Len(q) - b + 1
    BY <1>1, <2>2
  <2> QED BY <2>2, <2>3
<1> HIDE DEF s, t
<1>5. /\ s \o t \in Seq(T) /\ Len(s \o t) = Len(s) + Len(t)
      /\ \A i \in 1..(Len(s) + Len(t)) : (s \o t)[i] = IF i <= Len(s) THEN s[i] ELSE t[i - Len(s)]
  BY <1>3, <1>4, ConcatProperties
<1>6. Cut(q, a, b) = s \o t
  BY DEF Cut, s, t
<1>7. Len(s \o t) = Len(q) - (b - a)
  BY <1>1, <1>3, <1>4, <1>5
<1>8. \A k \in 1..(a - 1) : (s \o t)[k] = q[k]
  BY <1>1, <1>3, <1>4, <1>5
<1>9. \A k \in a..(Len(q) - (b - a)) : (s \o t)[k] = q[k + (b - a)]
  <2> TAKE k \in a..(Len(q) - (b - a))
  <2>1. k \in 1..(Len(s) + Len(t)) /\ ~(k <= Len(s)) /\ k - Len(s) = k - (a - 1)
    BY <1>1, <1>3, <1>4
  <2>2. k - (a - 1) \in 1..(Len(q) - b + 1) /\ b + (k - (a - 1)) - 1 = k + (b - a)
    BY <1>1
  <2>3. (s \o t)[k] = t[k - (a - 1)]
    BY <1>5, <2>1
  <2> QED BY <1>4, <2>2, <2>3
<1> QED BY <1>5, <1>6, <1>7, <1>8, <1>9

\* A list with x inserted at position p.
LEMMA InsertIs ==
  ASSUME NEW T, NEW q \in Seq(T), NEW p \in 1..(Len(q) + 1), NEW x \in T
  PROVE  /\ InsertAt(q, p, x) \in Seq(T) /\ Len(InsertAt(q, p, x)) = Len(q) + 1
         /\ \A k \in 1..(p - 1) : InsertAt(q, p, x)[k] = q[k]
         /\ InsertAt(q, p, x)[p] = x
         /\ \A k \in (p + 1)..(Len(q) + 1) : InsertAt(q, p, x)[k] = q[k - 1]
<1> DEFINE s == SubSeq(q, 1, p - 1)
           t == SubSeq(q, p, Len(q))
           u == <<x>>
<1>1. Len(q) \in Nat /\ p \in Int /\ p - 1 \in Int
  BY LenProperties
<1>2. \A i \in 1..Len(q) : q[i] \in T
  BY LenProperties
<1>3. /\ s \in Seq(T) /\ Len(s) = p - 1
      /\ \A i \in 1..(p - 1) : s[i] = q[i]
  <2>1. \A i \in 1..(p - 1) : q[i] \in T
    BY <1>1, <1>2
  <2>2. /\ s \in Seq(T) /\ Len(s) = IF 1 <= p - 1 THEN (p - 1) - 1 + 1 ELSE 0
        /\ \A i \in 1..((p - 1) - 1 + 1) : s[i] = q[1 + i - 1]
    BY <1>1, <2>1, SubSeqProperties
  <2> HIDE DEF s
  <2>3. Len(s) = p - 1
    BY <1>1, <2>2
  <2>4. \A i \in 1..(p - 1) : s[i] = q[i]
    BY <1>1, <2>2
  <2> QED BY <2>2, <2>3, <2>4
<1>4. /\ t \in Seq(T) /\ Len(t) = Len(q) - p + 1
      /\ \A i \in 1..(Len(q) - p + 1) : t[i] = q[p + i - 1]
  <2>1. \A i \in p..Len(q) : q[i] \in T
    BY <1>1, <1>2
  <2>2. /\ t \in Seq(T) /\ Len(t) = IF p <= Len(q) THEN Len(q) - p + 1 ELSE 0
        /\ \A i \in 1..(Len(q) - p + 1) : t[i] = q[p + i - 1]
    BY <1>1, <2>1, SubSeqProperties
  <2> HIDE DEF t
  <2>3. Len(t) = Len(q) - p + 1
    BY <1>1, <2>2
  <2> QED BY <2>2, <2>3
<1>5. u \in Seq(T) /\ Len(u) = 1 /\ u[1] = x
  OBVIOUS
<1> HIDE DEF s, t, u
<1>6. /\ s \o u \in Seq(T) /\ Len(s \o u) = p
      /\ \A i \in 1..p : (s \o u)[i] = IF i <= p - 1 THEN q[i] ELSE x
  <2>1. /\ s \o u \in Seq(T) /\ Len(s \o u) = Len(s) + Len(u)
        /\ \A i \in 1..(Len(s) + Len(u)) : (s \o u)[i] = IF i <= Len(s) THEN s[i] ELSE u[i - Len(s)]
    BY <1>3, <1>5, ConcatProperties
  <2>2. Len(s) + Len(u) = p
    BY <1>1, <1>3, <1>5
  <2>3. \A i \in 1..p : (s \o u)[i] = IF i <= p - 1 THEN q[i] ELSE x
    <3> TAKE i \in 1..p
    <3>1. i <= p - 1 => i \in 1..(p - 1)
      BY <1>1
    <3>2. ~(i <= p - 1) => i - Len(s) = 1
      BY <1>1, <1>3
    <3>3. (s \o u)[i] = IF i <= p - 1 THEN s[i] ELSE u[i - Len(s)]
      BY <1>3, <2>1, <2>2
    <3> QED BY <1>3, <1>5, <3>1, <3>2, <3>3
  <2> QED BY <2>1, <2>2, <2>3
<1> DEFINE v == s \o u
<1>7. v \in Seq(T) /\ Len(v) = p /\ \A i \in 1..p : v[i] = IF i <= p - 1 THEN q[i] ELSE x
  BY <1>6
<1>8. InsertAt(q, p, x) = v \o t
  BY DEF InsertAt, v, s, u, t
<1> HIDE DEF v
<1>9. /\ v \o t \in Seq(T) /\ Len(v \o t) = Len(v) + Len(t)
      /\ \A i \in 1..(Len(v) + Len(t)) : (v \o t)[i] = IF i <= Len(v) THEN v[i] ELSE t[i - Len(v)]
  BY <1>4, <1>7, ConcatProperties
<1>10. Len(v \o t) = Len(q) + 1
  BY <1>1, <1>4, <1>7, <1>9
<1>11. \A k \in 1..(p - 1) : (v \o t)[k] = q[k]
  BY <1>1, <1>4, <1>7, <1>9
<1>12. (v \o t)[p] = x
  BY <1>1, <1>4, <1>7, <1>9
<1>13. \A k \in (p + 1)..(Len(q) + 1) : (v \o t)[k] = q[k - 1]
  <2> TAKE k \in (p + 1)..(Len(q) + 1)
  <2>1. k \in 1..(Len(v) + Len(t)) /\ ~(k <= Len(v)) /\ k - Len(v) = k - p
    BY <1>1, <1>4, <1>7
  <2>2. k - p \in 1..(Len(q) - p + 1) /\ p + (k - p) - 1 = k - 1
    BY <1>1
  <2>3. (v \o t)[k] = t[k - p]
    BY <1>9, <2>1
  <2> QED BY <1>4, <2>2, <2>3
<1> QED BY <1>8, <1>9, <1>10, <1>11, <1>12, <1>13

\* A set of positions has a first one.
LEMMA MinIs ==
  ASSUME NEW n \in Nat, NEW I \in SUBSET (1..n), I # {}
  PROVE  Min(I) \in I /\ \A i \in I : Min(I) <= i
<1>1. I \in SUBSET Nat /\ IsFiniteSet(I)
  <2>1. IsFiniteSet(1..n)
    BY FS_Interval
  <2>2. IsFiniteSet(I)
    BY <2>1, FS_Subset
  <2> QED BY <2>2
<1>2. Cardinality(I) \in Nat /\ Cardinality(I) # 0
  BY <1>1, FS_CardinalityType, FS_EmptySet
<1>3. 1 \in 1..Cardinality(I)
  BY <1>2
<1> DEFINE m == Nth(I, 1)
<1>4. m \in I /\ Rank(I, m) = 1
  BY <1>1, <1>3, NthIs
<1> HIDE DEF m
<1>5. ASSUME NEW i \in I PROVE m <= i
  <2>1. Rank(I, i) \in 1..Cardinality(I)
    BY <1>1, RankRange
  <2>2. i < m => Rank(I, i) < Rank(I, m)
    BY <1>1, <1>4, RankStrict
  <2> QED BY <1>1, <1>2, <1>4, <2>1, <2>2
<1>6. \E x \in I : \A y \in I : x <= y
  BY <1>4, <1>5
<1> QED BY <1>6 DEF Min

-----------------------------------------------------------------------------
(* Nodes: what holds of each, with the frames T delivered so far and the    *)
(* streams B started.                                                      *)

Other == Streams \ {Meta}

Node == [frame : 1..MaxFrame, keep : BOOLEAN, metaOnly : 0..MaxFrame,
         bufs : [Streams -> 0..MaxFrame]]

\* A node that can never be complete: a stream whose frame is missing has
\* delivered a later one.
Dead(n, T) == \E t \in Other : n.bufs[t] = 0 /\ \E b \in T : b[1] = t /\ b[2] >= n.frame

\* Only the metadata of a node may be of another frame.  A node that is only
\* metadata is marked by metaOnly; with low priority every other node has a
\* frame that is not metadata.
Fitting(n, low) ==
  /\ \A s \in Other : n.bufs[s] \in {0, n.frame}
  /\ n.metaOnly # 0 => /\ n.metaOnly = n.frame /\ n.bufs[Meta] = n.frame
                       /\ \A s \in Other : n.bufs[s] = 0
  /\ n.metaOnly = 0 /\ low => \E s \in Other : n.bufs[s] = n.frame
  /\ \E s \in Streams : n.bufs[s] # 0
  /\ Streams = {Meta} => n.bufs[Meta] = n.frame

\* Its frames were delivered, those of own streams since these were started.
From(n, T, B) ==
  \A s \in Streams : n.bufs[s] # 0 => <<s, n.bufs[s]>> \in T /\ (s \in Linked \/ s \in B)

NodeIs(n, low, T, B) == Fitting(n, low) /\ From(n, T, B)

\* Super buffer F is older than node n, or n is dead.
Before(F, n, T) == F < n.frame \/ Dead(n, T)

\* Every stream whose frames have the id of their super buffer delivered F.
Delivered(F, T) ==
  \A t \in Streams : (t # Meta \/ Streams = {Meta}) => <<t, F>> \in T

\* <<s, f>> is the latest frame of its stream.
Newest(s, f, T) == <<s, f>> \in T /\ \A b \in T : b[1] = s => b[2] <= f

\* The types of a node's fields.
LEMMA NodeFields ==
  ASSUME NEW n \in Node
  PROVE  /\ n.frame \in 1..MaxFrame /\ n.frame \in Nat /\ n.frame # 0
         /\ n.metaOnly \in 0..MaxFrame /\ n.metaOnly \in Nat /\ n.keep \in BOOLEAN
         /\ n.bufs \in [Streams -> 0..MaxFrame]
         /\ \A s \in Streams : n.bufs[s] \in 0..MaxFrame /\ n.bufs[s] \in Nat
<1>1. MaxFrame \in Nat
  BY SuperBufQueueAssumption
<1>2. 1..MaxFrame \subseteq Nat \ {0} /\ 0..MaxFrame \subseteq Nat
  BY <1>1
<1>3. /\ n.frame \in 1..MaxFrame /\ n.metaOnly \in 0..MaxFrame /\ n.keep \in BOOLEAN
      /\ n.bufs \in [Streams -> 0..MaxFrame]
  BY DEF Node
<1> QED BY <1>2, <1>3

\* The metadata stream is one of the streams.
LEMMA MetaIn == Meta \in Streams /\ Linked \subseteq Streams /\ MaxFrame \in Nat
BY SuperBufQueueAssumption

\* A frame of a node is <<s, bufs[s]>>.
LEMMA FramesAre ==
  ASSUME NEW n \in Node, NEW s \in Streams, NEW f
  PROVE  <<s, f>> \in FramesOf(n) <=> n.bufs[s] = f /\ f # 0
<1>1. n.bufs[s] \in 0..MaxFrame /\ MaxFrame \in Nat
  BY NodeFields, MetaIn
<1>2. <<s, f>> \in FramesOf(n) <=> <<s, f>> \in Frames /\ n.bufs[s] = f
  BY DEF FramesOf
<1>3. <<s, f>> \in Frames <=> f \in 1..MaxFrame
  BY DEF Frames
<1> QED BY <1>1, <1>2, <1>3

\* A dead node lacks a frame.
LEMMA DeadIsUnmatched ==
  ASSUME NEW n, NEW T, Dead(n, T)
  PROVE  Unmatched(n)
BY DEF Dead, Unmatched, Matched, Other

\* Once dead, always dead.
LEMMA DeadStays ==
  ASSUME NEW n, NEW T, NEW U, T \subseteq U, Dead(n, T)
  PROVE  Dead(n, U)
BY DEF Dead

\* The order of super buffers stays as frames are delivered.
LEMMA BeforeStays ==
  ASSUME NEW n, NEW F, NEW T, NEW U, T \subseteq U, Before(F, n, T)
  PROVE  Before(F, n, U)
BY DeadStays DEF Before

\* A node stays what it is as frames are delivered and streams start.
LEMMA NodeStays ==
  ASSUME NEW n, NEW low, NEW T, NEW U, NEW B, NEW C, T \subseteq U, B \subseteq C,
         NodeIs(n, low, T, B)
  PROVE  NodeIs(n, low, U, C)
BY DEF NodeIs, From

\* The frame that arrives is in no node, and every stream's frames in a node
\* are at most its newest.
LEMMA BufsAreOlder ==
  ASSUME NEW n \in Node, NEW low, NEW T, NEW B, NodeIs(n, low, T, B),
         NEW s \in Streams, NEW f \in Nat, \A b \in T : b[1] = s => b[2] < f
  PROVE  n.bufs[s] = 0 \/ n.bufs[s] < f
<1>1. n.bufs[s] # 0 => <<s, n.bufs[s]>> \in T
  BY DEF NodeIs, From
<1>2. <<s, n.bufs[s]>>[1] = s /\ <<s, n.bufs[s]>>[2] = n.bufs[s]
  OBVIOUS
<1> QED BY <1>1, <1>2

-----------------------------------------------------------------------------
(* A frame put into a node. *)

\* The node that n becomes with frame f of stream s.
Filled(n, s, f) == [FrameIdOf(n, f) EXCEPT !.bufs[s] = f]

\* When f of stream s goes into a node (Fits of the channel's attributes).
FitsIn(low, n, s, f) ==
  \/ n.frame = f
  \/ low /\ n.bufs[s] = 0 /\ IF s = Meta THEN n.frame < f ELSE n.metaOnly > f

\* What a frame makes of the id of a node: only a node of metadata takes it.
LEMMA FrameIdIs ==
  ASSUME NEW n \in Node, NEW f \in 1..MaxFrame
  PROVE  /\ FrameIdOf(n, f) \in Node /\ FrameIdOf(n, f).bufs = n.bufs
         /\ n.metaOnly = 0 => FrameIdOf(n, f) = n
         /\ n.metaOnly # 0 => /\ FrameIdOf(n, f).frame = f
                              /\ FrameIdOf(n, f).metaOnly = 0
<1>1. n.metaOnly \in Nat /\ MaxFrame \in Nat
  BY NodeFields, MetaIn
<1>2. n.metaOnly > 0 <=> n.metaOnly # 0
  BY <1>1
<1>3. CASE n.metaOnly = 0
  BY <1>2, <1>3 DEF FrameIdOf
<1>4. CASE n.metaOnly # 0
  <2>1. FrameIdOf(n, f) = [n EXCEPT !.metaOnly = 0, !.frame = f]
    BY <1>2, <1>4 DEF FrameIdOf
  <2>2. 0 \in 0..MaxFrame
    BY <1>1
  <2> QED BY <1>4, <2>1, <2>2 DEF Node
<1> QED BY <1>3, <1>4

\* A node with the frame f of stream s put in.
LEMMA FilledIs ==
  ASSUME NEW n \in Node, NEW f \in 1..MaxFrame, NEW s \in Streams
  PROVE  /\ Filled(n, s, f) \in Node
         /\ Filled(n, s, f).frame = FrameIdOf(n, f).frame
         /\ Filled(n, s, f).metaOnly = 0 \/ n.metaOnly = 0
         /\ Filled(n, s, f).metaOnly = FrameIdOf(n, f).metaOnly
         /\ Filled(n, s, f).bufs[s] = f
         /\ \A t \in Streams \ {s} : Filled(n, s, f).bufs[t] = n.bufs[t]
<1> DEFINE m == FrameIdOf(n, f)
<1>1. m \in Node /\ m.bufs = n.bufs /\ (n.metaOnly # 0 => m.metaOnly = 0)
  BY FrameIdIs
<1>2. Filled(n, s, f) = [m EXCEPT !.bufs[s] = f]
  BY DEF Filled
<1> HIDE DEF m
<1>3. m.bufs \in [Streams -> 0..MaxFrame] /\ f \in 0..MaxFrame
  BY <1>1, NodeFields, MetaIn
<1>4. [m.bufs EXCEPT ![s] = f] \in [Streams -> 0..MaxFrame]
  BY <1>3
<1>5. /\ Filled(n, s, f).bufs = [m.bufs EXCEPT ![s] = f]
      /\ Filled(n, s, f).frame = m.frame /\ Filled(n, s, f).metaOnly = m.metaOnly
      /\ Filled(n, s, f) \in Node
  BY <1>1, <1>2, <1>4 DEF Node
<1>6. Filled(n, s, f).bufs[s] = f /\ \A t \in Streams \ {s} : Filled(n, s, f).bufs[t] = n.bufs[t]
  BY <1>1, <1>3, <1>5
<1> QED BY <1>1, <1>5, <1>6 DEF m

\* It holds that frame and those it held.
LEMMA FilledFrames ==
  ASSUME NEW n \in Node, NEW f \in 1..MaxFrame, NEW s \in Streams, n.bufs[s] = 0
  PROVE  /\ FramesOf(Filled(n, s, f)) = FramesOf(n) \cup {<<s, f>>}
         /\ <<s, f>> \notin FramesOf(n)
<1> DEFINE m == Filled(n, s, f)
<1>1. /\ m \in Node /\ m.bufs[s] = f /\ f # 0
      /\ \A t \in Streams \ {s} : m.bufs[t] = n.bufs[t]
  BY FilledIs, MetaIn
<1> HIDE DEF m
<1>2. \A t \in Streams, g \in 1..MaxFrame :
        <<t, g>> \in FramesOf(m) <=> <<t, g>> \in FramesOf(n) \/ <<t, g>> = <<s, f>>
  <2> TAKE t \in Streams, g \in 1..MaxFrame
  <2>0. g # 0
    BY MetaIn
  <2>1. CASE t = s
    BY <1>1, <2>0, <2>1, FramesAre
  <2>2. CASE t # s
    BY <1>1, <2>0, <2>2, FramesAre
  <2> QED BY <2>1, <2>2
<1>3. FramesOf(m) \subseteq Frames /\ FramesOf(n) \subseteq Frames /\ <<s, f>> \in Frames
  BY DEF FramesOf, Frames
<1>4. \A b \in Frames : \E t \in Streams, g \in 1..MaxFrame : b = <<t, g>>
  BY DEF Frames
<1>5. FramesOf(m) = FramesOf(n) \cup {<<s, f>>}
  BY <1>2, <1>3, <1>4
<1>6. <<s, f>> \notin FramesOf(n)
  BY <1>1, FramesAre
<1> QED BY <1>5, <1>6 DEF m

IsNew(s, f, T, U) == U = T \cup {<<s, f>>} /\ \A b \in T : b[1] = s => b[2] < f

FillsTo(n, m, s, f, low, U, B) ==
  /\ NodeIs(m, low, U, B) /\ m.frame <= n.frame /\ m.frame <= f
  /\ s # Meta => m.frame = f
  /\ s = Meta => m.frame = n.frame
  /\ n.metaOnly = 0 => m.frame = n.frame

\* What a fitting node is with the frame.
LEMMA FillNode ==
  ASSUME NEW n \in Node, NEW low, NEW T, NEW U, NEW B, NodeIs(n, low, T, B),
         NEW s \in Streams, NEW f \in 1..MaxFrame, IsNew(s, f, T, U),
         s \in Linked \/ s \in B, FitsIn(low, n, s, f), NEW m, m = Filled(n, s, f)
  PROVE  /\ n.bufs[s] # 0 => FrameIdOf(n, f) = n
         /\ n.bufs[s] = 0 => FillsTo(n, m, s, f, low, U, B)
<1>0. U = T \cup {<<s, f>>} /\ \A b \in T : b[1] = s => b[2] < f
  BY DEF IsNew
<1>1. /\ n.frame \in Nat /\ n.frame # 0 /\ n.metaOnly \in Nat /\ f \in Nat /\ f # 0
      /\ n.bufs[s] \in Nat
  BY NodeFields, MetaIn
<1>2. n.bufs[s] = 0 \/ n.bufs[s] < f
  BY <1>0, <1>1, BufsAreOlder
<1>3. Fitting(n, low) /\ From(n, T, B)
  BY DEF NodeIs
<1>4. /\ m \in Node /\ m.frame = FrameIdOf(n, f).frame
      /\ m.metaOnly = FrameIdOf(n, f).metaOnly
      /\ m.bufs[s] = f /\ \A t \in Streams \ {s} : m.bufs[t] = n.bufs[t]
  BY FilledIs
<1>5. /\ n.metaOnly = 0 => FrameIdOf(n, f) = n
      /\ n.metaOnly # 0 => FrameIdOf(n, f).frame = f /\ FrameIdOf(n, f).metaOnly = 0
  BY FrameIdIs
\* A node that is only metadata takes no metadata.
<1>6. s = Meta => n.metaOnly = 0
  <2> SUFFICES ASSUME s = Meta, n.metaOnly # 0 PROVE FALSE
    OBVIOUS
  <2>1. n.bufs[s] = n.frame /\ n.frame # 0
    BY <1>1, <1>3 DEF Fitting
  <2>2. n.frame = f
    BY <1>1, <2>1 DEF FitsIn
  <2> QED BY <1>1, <1>2, <2>1, <2>2
<1>7. n.bufs[s] # 0 => n.metaOnly = 0
  BY <1>3, <1>6 DEF Fitting, Other
<1>8. n.bufs[s] # 0 => FrameIdOf(n, f) = n
  BY <1>5, <1>7
<1> SUFFICES ASSUME n.bufs[s] = 0
             PROVE  /\ NodeIs(m, low, U, B) /\ m.frame <= n.frame /\ m.frame <= f
                    /\ s # Meta => m.frame = f
                    /\ s = Meta => m.frame = n.frame
                    /\ n.metaOnly = 0 => m.frame = n.frame
  BY <1>8 DEF FillsTo
<1>9. From(m, U, B)
  <2> SUFFICES ASSUME NEW t \in Streams, m.bufs[t] # 0
               PROVE  <<t, m.bufs[t]>> \in U /\ (t \in Linked \/ t \in B)
    BY DEF From
  <2>1. CASE t = s
    BY <1>0, <1>4, <2>1
  <2>2. CASE t # s
    BY <1>0, <1>3, <1>4, <2>2 DEF From
  <2> QED BY <2>1, <2>2
<1>10. CASE s = Meta
  <2>1. m.frame = n.frame /\ m.metaOnly = 0 /\ n.metaOnly = 0
    BY <1>4, <1>5, <1>6, <1>10
  <2>2. m.frame <= f
    BY <1>1, <1>10, <2>1 DEF FitsIn
  <2>3. \A t \in Other : m.bufs[t] = n.bufs[t]
    BY <1>4, <1>10 DEF Other
  <2>4. Fitting(m, low)
    <3>1. \A t \in Other : m.bufs[t] \in {0, m.frame}
      BY <1>3, <2>1, <2>3 DEF Fitting
    <3>2. low => \E t \in Other : m.bufs[t] = m.frame
      BY <1>3, <2>1, <2>3 DEF Fitting
    <3>3. \E t \in Streams : m.bufs[t] # 0
      BY <1>1, <1>4
    <3>4. Streams # {Meta}
      BY <1>3, <1>10 DEF Fitting
    <3> QED BY <2>1, <3>1, <3>2, <3>3, <3>4 DEF Fitting
  <2> QED BY <1>1, <1>9, <1>10, <2>1, <2>2, <2>4 DEF NodeIs
<1>11. CASE s # Meta
  <2>0. s \in Other
    BY <1>11 DEF Other
  <2>1. m.frame = f /\ m.metaOnly = 0
    <3>1. CASE n.metaOnly = 0
      BY <1>1, <1>4, <1>5, <1>11, <3>1 DEF FitsIn
    <3>2. CASE n.metaOnly # 0
      BY <1>4, <1>5, <3>2
    <3> QED BY <3>1, <3>2
  <2>2. f <= n.frame
    <3>1. CASE n.frame = f
      BY <1>1, <3>1
    <3>2. CASE n.metaOnly > f
      BY <1>1, <1>3, <3>2 DEF Fitting
    <3> QED BY <1>11, <3>1, <3>2 DEF FitsIn
  <2>3. n.metaOnly = 0 => n.frame = f
    BY <1>1, <1>11 DEF FitsIn
  <2>4. \A t \in Other : m.bufs[t] \in {0, m.frame}
    <3> TAKE t \in Other
    <3>0. t \in Streams
      BY DEF Other
    <3>1. CASE t = s
      BY <1>4, <2>1, <3>1
    <3>2. CASE t # s /\ n.metaOnly = 0
      BY <1>3, <1>4, <2>1, <2>3, <3>0, <3>2 DEF Fitting
    <3>3. CASE t # s /\ n.metaOnly # 0
      BY <1>3, <1>4, <3>0, <3>3 DEF Fitting
    <3> QED BY <3>1, <3>2, <3>3
  <2>5. \E t \in Other : m.bufs[t] = m.frame
    BY <1>4, <2>0, <2>1
  <2>6. \E t \in Streams : m.bufs[t] # 0
    BY <1>1, <1>4
  <2>7. Fitting(m, low)
    BY <1>11, <2>1, <2>4, <2>5, <2>6 DEF Fitting
  <2> QED BY <1>1, <1>9, <1>11, <2>1, <2>2, <2>3, <2>7 DEF NodeIs
<1> QED BY <1>10, <1>11

-----------------------------------------------------------------------------
(* The queue: matched super buffers first, k of them; each super buffer is  *)
(* older than the ones after it, or these are dead, and all are younger     *)
(* than the ids D of those already sent.                                    *)

Nodes(q, low, T, B) == \A i \in DOMAIN q : NodeIs(q[i], low, T, B)
Sorted(q, k) == k \in 0..Len(q) /\ \A i \in DOMAIN q : Matched(q[i]) <=> i <= k
Ordered(q, T) == \A i, j \in DOMAIN q : i < j => Before(q[i].frame, q[j], T)
Beyond(q, D, T) == \A F \in D : \A j \in DOMAIN q : Before(F, q[j], T)
Apart(q) == \A i, j \in DOMAIN q : i # j => FramesOf(q[i]) \cap FramesOf(q[j]) = {}

QInv(q, k, low, T, B, D) ==
  /\ q \in Seq(Node) /\ Nodes(q, low, T, B)
  /\ Sorted(q, k) /\ Ordered(q, T) /\ Beyond(q, D, T) /\ Apart(q)

\* The queue stays in order as frames are delivered and streams start.
LEMMA QInvStays ==
  ASSUME NEW q, NEW k, NEW low, NEW T, NEW U, NEW B, NEW C, NEW D, T \subseteq U, B \subseteq C,
         QInv(q, k, low, T, B, D)
  PROVE  QInv(q, k, low, U, C, D)
<1>1. Nodes(q, low, U, C)
  BY NodeStays DEF QInv, Nodes
<1>2. Ordered(q, U)
  BY BeforeStays DEF QInv, Ordered
<1>3. Beyond(q, D, U)
  BY BeforeStays DEF QInv, Beyond
<1> QED BY <1>1, <1>2, <1>3 DEF QInv

\* A part of the queue taken out, before or after the end of the matched ones.
LEMMA CutKeeps ==
  ASSUME NEW q, NEW k, NEW low, NEW T, NEW B, NEW D, QInv(q, k, low, T, B, D),
         NEW a \in 1..(Len(q) + 1), NEW b \in a..(Len(q) + 1), NEW l,
         (a > k /\ l = k) \/ (b <= k + 1 /\ l = k - (b - a))
  PROVE  QInv(Cut(q, a, b), l, low, T, B, D)
<1> DEFINE r == Cut(q, a, b)
           d == b - a
           h(x) == IF x < a THEN x ELSE x + d
<1>1. q \in Seq(Node) /\ Len(q) \in Nat /\ DOMAIN q = 1..Len(q) /\ k \in 0..Len(q)
      /\ a \in Int /\ b \in Int /\ d \in Nat
  BY LenProperties DEF QInv, Sorted
<1>2. /\ r \in Seq(Node) /\ Len(r) = Len(q) - d
      /\ \A x \in 1..(a - 1) : r[x] = q[x]
      /\ \A x \in a..(Len(q) - d) : r[x] = q[x + d]
  BY <1>1, CutIs
<1>3. d <= Len(q)
  BY <1>1
<1> HIDE DEF r
<1>4. DOMAIN r = 1..Len(r) /\ Len(r) \in Nat
  BY <1>2, LenProperties
<1>5. \A x \in DOMAIN r : h(x) \in DOMAIN q /\ r[x] = q[h(x)]
  <2> TAKE x \in DOMAIN r
  <2>1. x \in 1..(Len(q) - d)
    BY <1>2, <1>4
  <2>2. CASE x < a
    <3>1. x \in 1..(a - 1) /\ x \in 1..Len(q)
      BY <1>1, <2>1, <2>2
    <3> QED BY <1>1, <1>2, <2>2, <3>1
  <2>3. CASE ~(x < a)
    <3>1. x \in a..(Len(q) - d) /\ x + d \in 1..Len(q)
      BY <1>1, <2>1, <2>3
    <3> QED BY <1>1, <1>2, <2>3, <3>1
  <2> QED BY <2>2, <2>3
<1>6. \A x, y \in DOMAIN r : x < y => h(x) < h(y)
  BY <1>1, <1>4
<1>7. \A x, y \in DOMAIN r : x # y => h(x) # h(y)
  BY <1>1, <1>4
<1>8. l \in 0..Len(r) /\ \A x \in DOMAIN r : h(x) <= k <=> x <= l
  <2>1. CASE a > k /\ l = k
    <3>1. l \in 0..Len(r)
      BY <1>1, <1>2, <2>1
    <3>2. \A x \in DOMAIN r : h(x) <= k <=> x <= l
      BY <1>1, <1>4, <2>1
    <3> QED BY <3>1, <3>2
  <2>2. CASE b <= k + 1 /\ l = k - (b - a)
    <3>1. l \in 0..Len(r)
      BY <1>1, <1>2, <2>2
    <3>2. \A x \in DOMAIN r : h(x) <= k <=> x <= l
      BY <1>1, <1>4, <2>2
    <3> QED BY <3>1, <3>2
  <2> QED BY <2>1, <2>2
<1> HIDE DEF h, d
<1>9. Nodes(r, low, T, B)
  BY <1>5 DEF QInv, Nodes
<1>10. Sorted(r, l)
  BY <1>5, <1>8 DEF QInv, Sorted
<1>11. Ordered(r, T)
  BY <1>5, <1>6 DEF QInv, Ordered
<1>12. Beyond(r, D, T)
  BY <1>5 DEF QInv, Beyond
<1>13. Apart(r)
  BY <1>5, <1>7 DEF QInv, Apart
<1> QED BY <1>2, <1>9, <1>10, <1>11, <1>12, <1>13 DEF QInv, r

\* A node of the queue changed: to an older one that is still incomplete, or,
\* when it is the first incomplete one, to a complete one.
LEMMA PutKeeps ==
  ASSUME NEW q, NEW k, NEW low, NEW T, NEW B, NEW D, QInv(q, k, low, T, B, D),
         NEW pos \in DOMAIN q, pos > k, NEW n \in Node, NodeIs(n, low, T, B),
         n.frame <= q[pos].frame, \A F \in D : Before(F, n, T),
         \A i \in DOMAIN q : i < pos => Before(q[i].frame, n, T),
         \A i \in DOMAIN q : i # pos => FramesOf(n) \cap FramesOf(q[i]) = {},
         NEW l, l = (IF Matched(n) THEN k + 1 ELSE k), Matched(n) => pos = k + 1
  PROVE  QInv([q EXCEPT ![pos] = n], l, low, T, B, D)
<1> DEFINE r == [q EXCEPT ![pos] = n]
<1>1. q \in Seq(Node) /\ Len(q) \in Nat /\ DOMAIN q = 1..Len(q) /\ k \in 0..Len(q)
  BY LenProperties DEF QInv, Sorted
<1>2. /\ r \in Seq(Node) /\ Len(r) = Len(q)
      /\ \A i \in 1..Len(q) : r[i] = IF i = pos THEN n ELSE q[i]
  BY <1>1, ExceptSeq
<1> HIDE DEF r
<1>3. DOMAIN r = DOMAIN q /\ r[pos] = n /\ \A i \in DOMAIN q : i # pos => r[i] = q[i]
  BY <1>1, <1>2, LenProperties
<1>4. Nodes(r, low, T, B)
  BY <1>3 DEF QInv, Nodes
<1>5. Sorted(r, l)
  <2>1. CASE Matched(n)
    <3>1. l = k + 1 /\ pos = k + 1 /\ l \in 0..Len(r)
      BY <1>1, <1>2, <2>1
    <3>2. \A i \in DOMAIN r : i # pos => (i <= l <=> i <= k)
      BY <1>1, <1>3, <3>1
    <3>3. pos <= l
      BY <1>1, <3>1
    <3> QED BY <1>3, <2>1, <3>1, <3>2, <3>3 DEF QInv, Sorted
  <2>2. CASE ~Matched(n)
    <3>1. l = k /\ ~(pos <= l)
      BY <1>1, <2>2
    <3> QED BY <1>2, <1>3, <2>2, <3>1 DEF QInv, Sorted
  <2> QED BY <2>1, <2>2
<1>6. Ordered(r, T)
  <2> SUFFICES ASSUME NEW i \in DOMAIN q, NEW j \in DOMAIN q, i < j
               PROVE  Before(r[i].frame, r[j], T)
    BY <1>3 DEF Ordered
  <2>1. CASE i # pos /\ j # pos
    BY <1>3, <2>1 DEF QInv, Ordered
  <2>2. CASE j = pos
    <3>1. i # pos
      BY <1>1, <2>2
    <3> QED BY <1>3, <2>2, <3>1
  <2>3. CASE i = pos
    <3>1. j # pos
      BY <1>1, <2>3
    <3>2. Before(q[pos].frame, q[j], T)
      BY <2>3 DEF QInv, Ordered
    <3>3. q[j] \in Node /\ q[pos] \in Node
      BY <1>1, ElementOfSeq
    <3>4. q[j].frame \in Nat /\ q[pos].frame \in Nat /\ n.frame \in Nat
      BY <3>3, NodeFields
    <3>5. Before(n.frame, q[j], T)
      BY <3>2, <3>4 DEF Before
    <3> QED BY <1>3, <2>3, <3>1, <3>5
  <2> QED BY <2>1, <2>2, <2>3
<1>7. Beyond(r, D, T)
  BY <1>3 DEF QInv, Beyond
<1>8. Apart(r)
  BY <1>3 DEF QInv, Apart
<1> QED BY <1>2, <1>4, <1>5, <1>6, <1>7, <1>8 DEF QInv, r

\* A new node.
LEMMA InsertKeeps ==
  ASSUME NEW q, NEW k, NEW low, NEW T, NEW B, NEW D, QInv(q, k, low, T, B, D),
         NEW p \in (k + 1)..(Len(q) + 1), NEW n \in Node, NodeIs(n, low, T, B),
         \A F \in D : Before(F, n, T),
         \A i \in DOMAIN q : i < p => Before(q[i].frame, n, T),
         \A j \in DOMAIN q : j >= p => Before(n.frame, q[j], T),
         \A i \in DOMAIN q : FramesOf(n) \cap FramesOf(q[i]) = {},
         NEW l, l = (IF Matched(n) THEN k + 1 ELSE k), Matched(n) => p = k + 1
  PROVE  QInv(InsertAt(q, p, n), l, low, T, B, D)
<1> DEFINE r == InsertAt(q, p, n)
           h(x) == IF x < p THEN x ELSE x - 1
<1>1. q \in Seq(Node) /\ Len(q) \in Nat /\ DOMAIN q = 1..Len(q) /\ k \in 0..Len(q) /\ p \in Int
  BY LenProperties DEF QInv, Sorted
<1>0. p \in 1..(Len(q) + 1)
  BY <1>1
<1>2. /\ r \in Seq(Node) /\ Len(r) = Len(q) + 1
      /\ \A x \in 1..(p - 1) : r[x] = q[x]
      /\ r[p] = n
      /\ \A x \in (p + 1)..(Len(q) + 1) : r[x] = q[x - 1]
  <2>1. q \in Seq(Node)
    BY <1>1
  <2> QED BY <1>0, <2>1, InsertIs
<1> HIDE DEF r
<1>3. DOMAIN r = 1..(Len(q) + 1)
  BY <1>2, LenProperties
<1>4. \A x \in DOMAIN r : x # p => h(x) \in DOMAIN q /\ r[x] = q[h(x)]
  <2> TAKE x \in DOMAIN r
  <2> SUFFICES ASSUME x # p PROVE h(x) \in DOMAIN q /\ r[x] = q[h(x)]
    OBVIOUS
  <2>1. CASE x < p
    <3>1. x \in 1..(p - 1) /\ x \in 1..Len(q)
      BY <1>1, <1>3, <2>1
    <3> QED BY <1>1, <1>2, <2>1, <3>1
  <2>2. CASE ~(x < p)
    <3>1. x \in (p + 1)..(Len(q) + 1) /\ x - 1 \in 1..Len(q)
      BY <1>1, <1>3, <2>2
    <3> QED BY <1>1, <1>2, <2>2, <3>1
  <2> QED BY <2>1, <2>2
<1>5. \A x, y \in DOMAIN r : x # p /\ y # p => /\ x < y => h(x) < h(y)
                                               /\ x # y => h(x) # h(y)
  BY <1>1, <1>3
<1>6. \A x \in DOMAIN r : /\ x < p => h(x) < p
                          /\ p < x => h(x) >= p
  BY <1>1, <1>3
<1>7. /\ l \in 0..Len(r) /\ (p <= l <=> Matched(n))
      /\ \A x \in DOMAIN r : x # p => (x <= l <=> h(x) <= k)
  <2>1. CASE Matched(n)
    <3>1. l = k + 1 /\ p = k + 1
      BY <2>1
    <3> QED BY <1>1, <1>2, <1>3, <2>1, <3>1
  <2>2. CASE ~Matched(n)
    <3>1. l = k
      BY <2>2
    <3>2. l \in 0..Len(r) /\ ~(p <= l)
      BY <1>1, <1>2, <3>1
    <3>3. \A x \in DOMAIN r : x # p => (x <= l <=> h(x) <= k)
      BY <1>1, <1>3, <3>1
    <3> QED BY <2>2, <3>2, <3>3
  <2> QED BY <2>1, <2>2
<1> HIDE DEF h
<1>8. p \in DOMAIN r
  BY <1>0, <1>3
<1>9. Nodes(r, low, T, B)
  BY <1>2, <1>4 DEF QInv, Nodes
<1>10. Sorted(r, l)
  BY <1>2, <1>4, <1>7 DEF QInv, Sorted
<1>11. Ordered(r, T)
  <2> SUFFICES ASSUME NEW i \in DOMAIN r, NEW j \in DOMAIN r, i < j
               PROVE  Before(r[i].frame, r[j], T)
    BY DEF Ordered
  <2>1. CASE i # p /\ j # p
    BY <1>4, <1>5, <2>1 DEF QInv, Ordered
  <2>2. CASE j = p
    <3>1. i # p
      BY <1>3, <2>2
    <3> QED BY <1>2, <1>4, <1>6, <2>2, <3>1
  <2>3. CASE i = p
    <3>1. j # p
      BY <1>3, <2>3
    <3> QED BY <1>2, <1>4, <1>6, <2>3, <3>1
  <2> QED BY <2>1, <2>2, <2>3
<1>12. Beyond(r, D, T)
  BY <1>2, <1>4 DEF QInv, Beyond
<1>13. Apart(r)
  <2> SUFFICES ASSUME NEW i \in DOMAIN r, NEW j \in DOMAIN r, i # j
               PROVE  FramesOf(r[i]) \cap FramesOf(r[j]) = {}
    BY DEF Apart
  <2>1. CASE i # p /\ j # p
    BY <1>4, <1>5, <2>1 DEF QInv, Apart
  <2>2. CASE j = p
    BY <1>2, <1>4, <2>2
  <2>3. CASE i = p
    BY <1>2, <1>4, <2>3
  <2> QED BY <2>1, <2>2, <2>3
<1> QED BY <1>2, <1>9, <1>10, <1>11, <1>12, <1>13 DEF QInv, r

-----------------------------------------------------------------------------
(* What the queue holds and counts. *)

\* What a queue holds is what one of its nodes holds.
LEMMA HeldIs ==
  ASSUME NEW q, NEW b
  PROVE  b \in Held(q) <=> \E i \in DOMAIN q : b \in FramesOf(q[i])
BY DEF Held

\* Only frames are held.
LEMMA HeldAreFrames ==
  ASSUME NEW q
  PROVE  Held(q) \subseteq Frames
BY DEF Held, FramesOf

\* What is held was delivered; a frame newer than all is not held.
LEMMA HeldTaken ==
  ASSUME NEW q, NEW k, NEW low, NEW T, NEW B, NEW D, QInv(q, k, low, T, B, D)
  PROVE  Held(q) \subseteq T
<1> SUFFICES ASSUME NEW b \in Held(q) PROVE b \in T
  OBVIOUS
<1>1. PICK i \in DOMAIN q : b \in FramesOf(q[i])
  BY HeldIs
<1>2. b \in Frames /\ q[i].bufs[b[1]] = b[2]
  BY <1>1 DEF FramesOf
<1>3. b[1] \in Streams /\ b[2] \in 1..MaxFrame /\ b = <<b[1], b[2]>>
  BY <1>2 DEF Frames
<1>4. b[2] # 0
  BY <1>3, MetaIn
<1>5. From(q[i], T, B)
  BY DEF QInv, Nodes, NodeIs
<1> QED BY <1>2, <1>3, <1>4, <1>5 DEF From

\* A frame newer than all of its stream is not held.
LEMMA NewIsNotHeld ==
  ASSUME NEW q, NEW k, NEW low, NEW T, NEW B, NEW D, QInv(q, k, low, T, B, D),
         NEW s, NEW f \in Nat, \A b \in T : b[1] = s => b[2] < f
  PROVE  <<s, f>> \notin Held(q) /\ <<s, f>> \notin T
<1>1. <<s, f>>[1] = s /\ <<s, f>>[2] = f
  OBVIOUS
<1>2. <<s, f>> \notin T
  BY <1>1
<1> QED BY <1>2, HeldTaken

\* Some super buffers taken out.
LEMMA PartIs ==
  ASSUME NEW q \in Seq(Node), NEW a \in 1..(Len(q) + 1), NEW b \in a..(Len(q) + 1)
  PROVE  /\ SubSeq(q, a, b - 1) \in Seq(Node) /\ Len(SubSeq(q, a, b - 1)) = b - a
         /\ DOMAIN SubSeq(q, a, b - 1) = 1..(b - a)
         /\ \A i \in 1..(b - a) : SubSeq(q, a, b - 1)[i] = q[a + i - 1]
<1> DEFINE t == SubSeq(q, a, b - 1)
<1>1. Len(q) \in Nat /\ a \in Int /\ b - 1 \in Int /\ b \in Int
  BY LenProperties
<1>2. \A i \in a..(b - 1) : q[i] \in Node
  BY <1>1, ElementOfSeq
<1>3. /\ t \in Seq(Node) /\ Len(t) = IF a <= b - 1 THEN (b - 1) - a + 1 ELSE 0
      /\ \A i \in 1..((b - 1) - a + 1) : t[i] = q[a + i - 1]
  BY <1>1, <1>2, SubSeqProperties
<1> HIDE DEF t
<1>4. Len(t) = b - a
  BY <1>1, <1>3
<1>5. DOMAIN t = 1..(b - a)
  BY <1>3, <1>4, LenProperties
<1>6. \A i \in 1..(b - a) : t[i] = q[a + i - 1]
  BY <1>1, <1>3
<1> QED BY <1>3, <1>4, <1>5, <1>6 DEF t

\* What a cut takes out is not held any more; the rest is.
LEMMA CutHeld ==
  ASSUME NEW q \in Seq(Node), Apart(q), NEW a \in 1..(Len(q) + 1), NEW b \in a..(Len(q) + 1)
  PROVE  /\ Held(q) = Held(Cut(q, a, b)) \cup Held(SubSeq(q, a, b - 1))
         /\ Held(Cut(q, a, b)) \cap Held(SubSeq(q, a, b - 1)) = {}
<1> DEFINE r == Cut(q, a, b)
           t == SubSeq(q, a, b - 1)
           d == b - a
<1>1. Len(q) \in Nat /\ DOMAIN q = 1..Len(q) /\ a \in Int /\ b \in Int /\ d \in Nat
  BY LenProperties
<1>2. /\ r \in Seq(Node) /\ Len(r) = Len(q) - d
      /\ \A x \in 1..(a - 1) : r[x] = q[x]
      /\ \A x \in a..(Len(q) - d) : r[x] = q[x + d]
  BY <1>1, CutIs
<1>3. DOMAIN t = 1..d /\ \A i \in 1..d : t[i] = q[a + i - 1]
  BY PartIs
<1> HIDE DEF r, t
<1>4. DOMAIN r = 1..(Len(q) - d)
  BY <1>2, LenProperties
<1>5. \A x \in DOMAIN r : \E i \in DOMAIN q : i \notin a..(b - 1) /\ r[x] = q[i]
  <2> TAKE x \in DOMAIN r
  <2>1. CASE x < a
    <3>1. x \in 1..(a - 1) /\ x \in DOMAIN q /\ x \notin a..(b - 1)
      BY <1>1, <1>4, <2>1
    <3> QED BY <1>2, <3>1
  <2>2. CASE ~(x < a)
    <3>1. x \in a..(Len(q) - d) /\ x + d \in DOMAIN q /\ x + d \notin a..(b - 1)
      BY <1>1, <1>4, <2>2
    <3> QED BY <1>2, <3>1
  <2> QED BY <2>1, <2>2
<1>6. \A i \in DOMAIN q : i \notin a..(b - 1) => \E x \in DOMAIN r : r[x] = q[i]
  <2> TAKE i \in DOMAIN q
  <2> SUFFICES ASSUME i \notin a..(b - 1) PROVE \E x \in DOMAIN r : r[x] = q[i]
    OBVIOUS
  <2>1. CASE i < a
    <3>1. i \in 1..(a - 1) /\ i \in DOMAIN r
      BY <1>1, <1>4, <2>1
    <3> QED BY <1>2, <3>1
  <2>2. CASE ~(i < a)
    <3>1. i - d \in a..(Len(q) - d) /\ i - d \in DOMAIN r /\ (i - d) + d = i
      BY <1>1, <1>4, <2>2
    <3> QED BY <1>2, <3>1
  <2> QED BY <2>1, <2>2
<1>7. \A x \in DOMAIN t : \E i \in DOMAIN q : i \in a..(b - 1) /\ t[x] = q[i]
  <2> TAKE x \in DOMAIN t
  <2>1. a + x - 1 \in DOMAIN q /\ a + x - 1 \in a..(b - 1)
    BY <1>1, <1>3
  <2> QED BY <1>3, <2>1
<1>8. \A i \in a..(b - 1) : \E x \in DOMAIN t : t[x] = q[i]
  <2> TAKE i \in a..(b - 1)
  <2>1. i - a + 1 \in 1..d /\ a + (i - a + 1) - 1 = i
    BY <1>1
  <2> QED BY <1>3, <2>1
<1> HIDE DEF d
<1>9. \A z : z \in Held(q) <=> z \in Held(r) \/ z \in Held(t)
  BY <1>5, <1>6, <1>7, <1>8 DEF Held
<1>10. \A z : ~(z \in Held(r) /\ z \in Held(t))
  <2> SUFFICES ASSUME NEW z, z \in Held(r), z \in Held(t) PROVE FALSE
    OBVIOUS
  <2>1. PICK i \in DOMAIN q : i \notin a..(b - 1) /\ z \in FramesOf(q[i])
    BY <1>5 DEF Held
  <2>2. PICK j \in DOMAIN q : j \in a..(b - 1) /\ z \in FramesOf(q[j])
    BY <1>7 DEF Held
  <2> QED BY <2>1, <2>2 DEF Apart
<1> QED BY <1>9, <1>10 DEF r, t

\* A node that gains the frames N.
LEMMA PutHeld ==
  ASSUME NEW q \in Seq(Node), NEW pos \in DOMAIN q, NEW n \in Node, NEW N,
         FramesOf(n) = FramesOf(q[pos]) \cup N, NEW r, r = [q EXCEPT ![pos] = n]
  PROVE  Held(r) = Held(q) \cup N
<1>1. DOMAIN r = DOMAIN q /\ r[pos] = n /\ \A i \in DOMAIN q : i # pos => r[i] = q[i]
  OBVIOUS
<1>2. \A z : z \in Held(r) <=> z \in Held(q) \/ z \in N
  BY <1>1 DEF Held
<1> QED BY <1>2

\* A node that is inserted.
LEMMA InsertHeld ==
  ASSUME NEW q \in Seq(Node), NEW p \in 1..(Len(q) + 1), NEW n \in Node
  PROVE  Held(InsertAt(q, p, n)) = Held(q) \cup FramesOf(n)
<1> DEFINE r == InsertAt(q, p, n)
<1>1. Len(q) \in Nat /\ DOMAIN q = 1..Len(q) /\ p \in Int
  BY LenProperties
<1>2. /\ r \in Seq(Node) /\ Len(r) = Len(q) + 1
      /\ \A x \in 1..(p - 1) : r[x] = q[x]
      /\ r[p] = n
      /\ \A x \in (p + 1)..(Len(q) + 1) : r[x] = q[x - 1]
  BY InsertIs
<1> HIDE DEF r
<1>3. DOMAIN r = 1..(Len(q) + 1) /\ p \in DOMAIN r
  BY <1>1, <1>2, LenProperties
<1>4. \A x \in DOMAIN r : x = p \/ \E i \in DOMAIN q : r[x] = q[i]
  <2> TAKE x \in DOMAIN r
  <2>1. CASE x < p
    <3>1. x \in 1..(p - 1) /\ x \in DOMAIN q
      BY <1>1, <1>3, <2>1
    <3> QED BY <1>2, <3>1
  <2>2. CASE x > p
    <3>1. x \in (p + 1)..(Len(q) + 1) /\ x - 1 \in DOMAIN q
      BY <1>1, <1>3, <2>2
    <3> QED BY <1>2, <3>1
  <2> QED BY <1>1, <1>3, <2>1, <2>2
<1>5. \A i \in DOMAIN q : \E x \in DOMAIN r : r[x] = q[i]
  <2> TAKE i \in DOMAIN q
  <2>1. CASE i < p
    <3>1. i \in 1..(p - 1) /\ i \in DOMAIN r
      BY <1>1, <1>3, <2>1
    <3> QED BY <1>2, <3>1
  <2>2. CASE ~(i < p)
    <3>1. i + 1 \in (p + 1)..(Len(q) + 1) /\ i + 1 \in DOMAIN r /\ (i + 1) - 1 = i
      BY <1>1, <1>3, <2>2
    <3> QED BY <1>2, <3>1
  <2> QED BY <2>1, <2>2
<1>6. \A z : z \in Held(r) <=> z \in Held(q) \/ z \in FramesOf(n)
  BY <1>2, <1>3, <1>4, <1>5 DEF Held
<1> QED BY <1>6 DEF r

\* Leading and the counts, in a sorted queue.
LEMMA CountsAre ==
  ASSUME NEW q \in Seq(Node), NEW k, Sorted(q, k)
  PROVE  Leading(q) = k /\ CountMatched(q) = k /\ CountUnmatched(q) = Len(q) - k
<1> DEFINE I == {i \in 1..Len(q) : Unmatched(q[i])}
<1>1. Len(q) \in Nat /\ DOMAIN q = 1..Len(q) /\ k \in 0..Len(q)
  BY LenProperties DEF Sorted
<1>2. \A i \in 1..Len(q) : Unmatched(q[i]) <=> i > k
  BY <1>1 DEF Sorted, Unmatched
<1>3. I = (k + 1)..Len(q)
  BY <1>1, <1>2
<1>4. Leading(q) = IF I = {} THEN Len(q) ELSE Min(I) - 1
  <2>1. SelectInSeq(q, Unmatched) = IF I # {} THEN Min(I) ELSE 0
    BY DEF SelectInSeq
  <2>2. I # {} => Min(I) \in 1..Len(q)
    BY <1>1, MinIs
  <2>3. I # {} => Min(I) # 0
    BY <1>1, <2>2
  <2> HIDE DEF I
  <2> QED BY <2>1, <2>3 DEF Leading
<1>5. Leading(q) = k
  <2> HIDE DEF I
  <2>1. CASE I = {}
    <3>1. ~(k + 1 <= Len(q))
      BY <1>1, <1>3, <2>1
    <3>2. k = Len(q)
      <4>1. k \in Int /\ Len(q) \in Int /\ k <= Len(q)
        BY <1>1
      <4> QED BY <3>1, <4>1
    <3> QED BY <1>4, <2>1, <3>2
  <2>2. CASE I # {}
    <3>0. I \in SUBSET (1..Len(q))
      BY DEF I
    <3>1. Min(I) \in I /\ \A i \in I : Min(I) <= i
      BY <1>1, <2>2, <3>0, MinIs
    <3>2. k + 1 \in I
      BY <1>1, <1>3, <2>2
    <3>3. Min(I) = k + 1
      BY <1>1, <1>3, <3>1, <3>2
    <3>4. Min(I) - 1 = k
      BY <1>1, <3>3
    <3> QED BY <1>4, <2>2, <3>4
  <2> QED BY <2>1, <2>2
<1>6. CountMatched(q) = k
  <2>1. {i \in DOMAIN q : Matched(q[i])} = 1..k
    BY <1>1 DEF Sorted
  <2>2. Cardinality(1..k) = k
    <3>1. Cardinality(1..k) = IF 1 > k THEN 0 ELSE k - 1 + 1
      BY <1>1, FS_Interval
    <3> QED BY <1>1, <3>1
  <2> QED BY <2>1, <2>2 DEF CountMatched
<1>7. CountUnmatched(q) = Len(q) - k
  <2>1. {i \in DOMAIN q : Unmatched(q[i])} = (k + 1)..Len(q)
    BY <1>1, <1>2
  <2>2. Cardinality((k + 1)..Len(q)) = Len(q) - k
    <3>1. k + 1 \in Int /\ Len(q) \in Int
      BY <1>1
    <3>2. Cardinality((k + 1)..Len(q)) = IF k + 1 > Len(q) THEN 0 ELSE Len(q) - (k + 1) + 1
      BY <3>1, FS_Interval
    <3> QED BY <1>1, <3>2
  <2> QED BY <2>1, <2>2 DEF CountUnmatched
<1> QED BY <1>5, <1>6, <1>7

-----------------------------------------------------------------------------
(* The channel.                                                            *)

Attr == [burst : BOOLEAN, low : BOOLEAN, mark : Nat, back : Nat, skip : Nat, unmatched : Nat]

Fields == {"attr", "queue", "count", "expected", "good", "noLed", "ledOff", "ledSkip", "once",
           "diverted", "pending", "retro", "wait", "zsl", "led", "burst", "stop", "bracketing",
           "flash", "zoom", "sent", "given"}

Typed(c) ==
  /\ DOMAIN c = Fields /\ c.attr \in Attr
  /\ c.pending \in Nat /\ c.retro \in Nat /\ c.wait \in BOOLEAN /\ c.zsl \in BOOLEAN
  /\ c.given \in [Frames -> Nat] /\ c.sent \in Seq(Node)

Ids(sent) == {sent[i].frame : i \in DOMAIN sent}

\* The channel between the steps of a command, when the frames T were
\* delivered and the streams B are started.
Good(c, T, B) ==
  /\ Typed(c)
  /\ QInv(c.queue, c.count, c.attr.low, T, B, Ids(c.sent))
  /\ Len(c.queue) - c.count <= c.attr.unmatched + 1

\* From c to d every frame held, or new (N), that is not held any more was given
\* back once, and nothing else.
Moves(c, d, N) ==
  /\ Held(d.queue) \subseteq Held(c.queue) \cup N
  /\ \A b \in Frames :
       d.given[b] = IF b \in Held(c.queue) \cup N /\ b \notin Held(d.queue)
                    THEN c.given[b] + 1 ELSE c.given[b]

\* What the handling of frames and metadata leaves alone.
Same(c, d) ==
  /\ d.attr = c.attr /\ d.pending = c.pending /\ d.retro = c.retro /\ d.zsl = c.zsl
  /\ d.sent = c.sent

\* A step of a command, with the new frames N.
Step(c, d, T, B, N) == Good(d, T, B) /\ Moves(c, d, N) /\ Same(c, d)

\* Nothing happens to the queue.
Like(c, d) ==
  /\ DOMAIN d = Fields /\ d.queue = c.queue /\ d.count = c.count /\ d.given = c.given
  /\ d.wait \in BOOLEAN /\ Same(c, d)

\* A change of other fields is a step.
LEMMA LikeSteps ==
  ASSUME NEW c, NEW d, NEW T, NEW B, Good(c, T, B), Like(c, d)
  PROVE  Step(c, d, T, B, {})
<1>1. Typed(d)
  BY DEF Good, Typed, Like, Same
<1>2. Good(d, T, B)
  BY <1>1 DEF Good, Like, Same
<1>3. Moves(c, d, {})
  BY DEF Moves, Like
<1> QED BY <1>2, <1>3 DEF Step, Like

\* One after the other, of which the second brings the new frames.
LEMMA MovesCompose ==
  ASSUME NEW c, NEW d, NEW e, NEW N, N \cap Held(c.queue) = {}, Moves(c, d, {}), Moves(d, e, N)
  PROVE  Moves(c, e, N)
<1>1. Held(d.queue) \subseteq Held(c.queue) /\ Held(e.queue) \subseteq Held(d.queue) \cup N
  BY DEF Moves
<1>2. ASSUME NEW b \in Frames
      PROVE  e.given[b] = IF b \in Held(c.queue) \cup N /\ b \notin Held(e.queue)
                          THEN c.given[b] + 1 ELSE c.given[b]
  <2>1. d.given[b] = IF b \in Held(c.queue) /\ b \notin Held(d.queue)
                     THEN c.given[b] + 1 ELSE c.given[b]
    BY DEF Moves
  <2>2. e.given[b] = IF b \in Held(d.queue) \cup N /\ b \notin Held(e.queue)
                     THEN d.given[b] + 1 ELSE d.given[b]
    BY DEF Moves
  <2>3. b \in N => b \notin Held(c.queue)
    OBVIOUS
  <2>4. CASE b \in N
    BY <1>1, <2>1, <2>2, <2>3, <2>4
  <2>5. CASE b \notin N /\ b \in Held(d.queue)
    BY <1>1, <2>1, <2>2, <2>5
  <2>6. CASE b \notin N /\ b \notin Held(d.queue)
    BY <1>1, <2>1, <2>2, <2>6
  <2> QED BY <2>4, <2>5, <2>6
<1> QED BY <1>1, <1>2 DEF Moves

\* One after the other, of which the second brings the new frames.
LEMMA StepsCompose ==
  ASSUME NEW c, NEW d, NEW e, NEW T, NEW B, NEW N, N \cap Held(c.queue) = {},
         Good(c, T, B), Step(c, d, T, B, {}), Step(d, e, T, B, N)
  PROVE  Step(c, e, T, B, N)
<1>1. Moves(c, e, N)
  BY MovesCompose DEF Step
<1> QED BY <1>1 DEF Step, Same

\* mm_channel_qbuf of frames.
LEMMA GiveBackIs ==
  ASSUME NEW c, DOMAIN c = Fields, c.given \in [Frames -> Nat], NEW F
  PROVE  /\ DOMAIN GiveBack(c, F) = Fields
         /\ \A x \in Fields \ {"given"} : GiveBack(c, F)[x] = c[x]
         /\ GiveBack(c, F).given \in [Frames -> Nat]
         /\ \A b \in Frames :
              GiveBack(c, F).given[b] = IF b \in F THEN c.given[b] + 1 ELSE c.given[b]
<1> DEFINE g == [b \in Frames |-> IF b \in F THEN c.given[b] + 1 ELSE c.given[b]]
<1>1. GiveBack(c, F) = [c EXCEPT !.given = g]
  BY DEF GiveBack
<1>2. g \in [Frames -> Nat]
  OBVIOUS
<1>3. \A b \in Frames : g[b] = IF b \in F THEN c.given[b] + 1 ELSE c.given[b]
  OBVIOUS
<1>4. "given" \in Fields
  BY DEF Fields
<1> HIDE DEF g
<1>5. GiveBack(c, F).given = g /\ DOMAIN GiveBack(c, F) = Fields
  BY <1>1, <1>4
<1>6. \A x \in Fields \ {"given"} : GiveBack(c, F)[x] = c[x]
  BY <1>1
<1> QED BY <1>2, <1>3, <1>5, <1>6

\* Super buffers taken out of the queue and their frames given back: those from
\* a to b - 1.
Released(c, d, a, b) ==
  /\ \/ a > c.count /\ d.count = c.count
     \/ b <= c.count + 1 /\ d.count = c.count - (b - a)
  /\ DOMAIN d = Fields /\ d.queue = Cut(c.queue, a, b) /\ d.wait \in BOOLEAN /\ Same(c, d)
  /\ d.given \in [Frames -> Nat]
  /\ \A x \in Frames : d.given[x] = IF x \in Held(SubSeq(c.queue, a, b - 1))
                                    THEN c.given[x] + 1 ELSE c.given[x]

\* Giving back a part of the queue is a step.
LEMMA ReleaseSteps ==
  ASSUME NEW c, NEW d, NEW T, NEW B, Good(c, T, B),
         NEW a \in 1..(Len(c.queue) + 1), NEW b \in a..(Len(c.queue) + 1),
         Released(c, d, a, b)
  PROVE  /\ Step(c, d, T, B, {})
         /\ Len(d.queue) = Len(c.queue) - (b - a)
<1>1. /\ c.queue \in Seq(Node) /\ Apart(c.queue) /\ Len(c.queue) \in Nat
      /\ c.count \in 0..Len(c.queue) /\ a \in Int /\ b \in Int
  BY LenProperties DEF Good, QInv, Sorted
<1>2. QInv(d.queue, d.count, c.attr.low, T, B, Ids(c.sent))
  BY CutKeeps DEF Good, Released
<1>3. Len(d.queue) = Len(c.queue) - (b - a)
  <2> DEFINE q == c.queue
  <2>1. q \in Seq(Node) /\ a \in 1..(Len(q) + 1) /\ b \in a..(Len(q) + 1)
    BY <1>1
  <2> HIDE DEF q
  <2>2. Len(Cut(q, a, b)) = Len(q) - (b - a)
    BY <2>1, CutIs
  <2> QED BY <2>2 DEF q, Released
<1>4. Typed(d) /\ Same(c, d)
  BY DEF Good, Typed, Same, Released
<1>5. Len(d.queue) - d.count <= c.attr.unmatched + 1
  <2>1. Len(c.queue) - c.count <= c.attr.unmatched + 1 /\ c.attr.unmatched \in Nat
    BY DEF Good, Typed, Attr
  <2>2. Len(d.queue) - d.count <= Len(c.queue) - c.count
    <3>1. CASE a > c.count /\ d.count = c.count
      BY <1>1, <1>3, <3>1
    <3>2. CASE b <= c.count + 1 /\ d.count = c.count - (b - a)
      BY <1>1, <1>3, <3>2
    <3> QED BY <3>1, <3>2 DEF Released
  <2> DEFINE x == Len(d.queue) - d.count
             y == Len(c.queue) - c.count
             z == c.attr.unmatched + 1
  <2>3. d.count \in Int /\ Len(d.queue) \in Int
    BY <1>1, <1>3 DEF Released
  <2>4. x \in Int /\ y \in Int /\ z \in Int /\ x <= y /\ y <= z
    <3>1. x \in Int
      BY <2>3
    <3>2. y \in Int
      BY <1>1
    <3>3. z \in Int
      BY <2>1
    <3> HIDE DEF x, y, z
    <3>4. x <= y /\ y <= z
      BY <2>1, <2>2 DEF x, y, z
    <3> QED BY <3>1, <3>2, <3>3, <3>4
  <2> HIDE DEF x, y, z
  <2>5. x <= z
    BY <2>4
  <2> QED BY <2>5 DEF x, z
<1>6. Good(d, T, B)
  BY <1>2, <1>4, <1>5 DEF Good, Same
<1>7. /\ Held(c.queue) = Held(d.queue) \cup Held(SubSeq(c.queue, a, b - 1))
      /\ Held(d.queue) \cap Held(SubSeq(c.queue, a, b - 1)) = {}
  BY <1>1, CutHeld DEF Released
<1>8. Moves(c, d, {})
  BY <1>7 DEF Moves, Released
<1> QED BY <1>3, <1>4, <1>6, <1>8 DEF Step

\* The queue of a good channel: the matched super buffers are at its head, and
\* they are counted.
LEMMA QueueFacts ==
  ASSUME NEW c, NEW T, NEW B, Good(c, T, B)
  PROVE  /\ c.queue \in Seq(Node) /\ Len(c.queue) \in Nat /\ DOMAIN c.queue = 1..Len(c.queue)
         /\ \A i \in 1..Len(c.queue) : c.queue[i] \in Node
         /\ c.count \in Nat /\ c.count <= Len(c.queue)
         /\ Leading(c.queue) = c.count /\ CountMatched(c.queue) = c.count
         /\ CountUnmatched(c.queue) = Len(c.queue) - c.count
         /\ \A i \in 1..Len(c.queue) : Matched(c.queue[i]) <=> i <= c.count
<1>1. c.queue \in Seq(Node) /\ Sorted(c.queue, c.count)
  BY DEF Good, QInv
<1>2. Len(c.queue) \in Nat /\ DOMAIN c.queue = 1..Len(c.queue)
  BY <1>1, LenProperties
<1>3. \A i \in 1..Len(c.queue) : c.queue[i] \in Node
  BY <1>1, ElementOfSeq
<1>4. c.count \in Nat /\ c.count <= Len(c.queue)
  BY <1>1, <1>2 DEF Sorted
<1>5. \A i \in 1..Len(c.queue) : Matched(c.queue[i]) <=> i <= c.count
  BY <1>1, <1>2 DEF Sorted
<1>6. /\ Leading(c.queue) = c.count /\ CountMatched(c.queue) = c.count
      /\ CountUnmatched(c.queue) = Len(c.queue) - c.count
  BY <1>1, CountsAre
<1> QED BY <1>1, <1>2, <1>3, <1>4, <1>5, <1>6

\* The types of the fields used below.
LEMMA TypedFacts ==
  ASSUME NEW c, NEW T, NEW B, Good(c, T, B)
  PROVE  /\ DOMAIN c = Fields /\ c.given \in [Frames -> Nat]
         /\ c.attr.burst \in BOOLEAN /\ c.attr.low \in BOOLEAN /\ c.attr.mark \in Nat
         /\ c.attr.back \in Nat /\ c.attr.unmatched \in Nat
         /\ c.pending \in Nat /\ c.retro \in Nat /\ c.wait \in BOOLEAN /\ c.zsl \in BOOLEAN
BY DEF Good, Typed, Attr

\* The head of the queue taken off.
LEMMA HeadCut ==
  ASSUME NEW q \in Seq(Node), NEW n \in 0..Len(q)
  PROVE  SubSeq(q, n + 1, Len(q)) = Cut(q, 1, n + 1)
<1>1. Len(q) \in Nat /\ n \in Nat
  BY LenProperties
<1>2. SubSeq(q, 1, 1 - 1) = <<>>
  <2>1. 1 \in Int /\ 1 - 1 \in Int /\ 1 - 1 < 1
    OBVIOUS
  <2> QED BY <2>1, SubSeqEmpty
<1>3. SubSeq(q, n + 1, Len(q)) \in Seq(Node)
  <2>1. \A i \in (n + 1)..Len(q) : q[i] \in Node
    BY <1>1, ElementOfSeq
  <2>2. n + 1 \in Int /\ Len(q) \in Int
    BY <1>1
  <2> QED BY <2>1, <2>2, SubSeqProperties
<1>4. <<>> \o SubSeq(q, n + 1, Len(q)) = SubSeq(q, n + 1, Len(q))
  BY <1>3, ConcatEmptySeq
<1> QED BY <1>2, <1>4 DEF Cut

\* Giving back matched super buffers from the head.
LEMMA DropLeadingSteps ==
  ASSUME NEW c, NEW T, NEW B, Good(c, T, B), NEW n \in 0..c.count
  PROVE  /\ Step(c, DropLeading(c, n), T, B, {})
         /\ DropLeading(c, n).count = c.count - n
         /\ DropLeading(c, n).wait = c.wait
<1> DEFINE q == c.queue
           r == SubSeq(q, n + 1, Len(q))
           e == [c EXCEPT !.queue = r, !.count = @ - n]
           F == Held(SubSeq(q, 1, n))
           d == GiveBack(e, F)
<1>1. d = DropLeading(c, n)
  BY DEF DropLeading
<1>2. DOMAIN c = Fields /\ c.given \in [Frames -> Nat] /\ c.wait \in BOOLEAN
  BY TypedFacts
<1>3. q \in Seq(Node) /\ Len(q) \in Nat /\ c.count \in Nat /\ c.count <= Len(q)
  BY QueueFacts
<1>4. /\ DOMAIN e = Fields /\ e.queue = r /\ e.count = c.count - n /\ e.given = c.given
      /\ Same(c, e) /\ e.wait = c.wait
  BY <1>2 DEF Fields, Same
<1> HIDE DEF e, q, r
<1>5. /\ DOMAIN d = Fields /\ \A x \in Fields \ {"given"} : d[x] = e[x]
      /\ d.given \in [Frames -> Nat]
      /\ \A b \in Frames : d.given[b] = IF b \in F THEN e.given[b] + 1 ELSE e.given[b]
  BY <1>2, <1>4, GiveBackIs
<1> HIDE DEF d, F
<1>6. /\ d.queue = r /\ d.count = c.count - n /\ d.wait = c.wait
      /\ Same(c, d)
  BY <1>4, <1>5 DEF Fields, Same
<1>7. n \in 0..Len(q) /\ n \in Nat
  BY <1>3
<1>8. d.queue = Cut(c.queue, 1, n + 1)
  BY <1>3, <1>6, <1>7, HeadCut DEF r, q
<1>9. /\ 1 \in 1..(Len(c.queue) + 1) /\ n + 1 \in 1..(Len(c.queue) + 1)
      /\ n + 1 <= c.count + 1 /\ d.count = c.count - ((n + 1) - 1) /\ (n + 1) - 1 = n
  BY <1>3, <1>6, <1>7 DEF q
<1>10. \A b \in Frames : d.given[b] = IF b \in Held(SubSeq(c.queue, 1, (n + 1) - 1))
                                      THEN c.given[b] + 1 ELSE c.given[b]
  BY <1>4, <1>5, <1>9 DEF F, q
<1>11. Step(c, d, T, B, {})
  <2>1. Released(c, d, 1, n + 1)
    BY <1>2, <1>5, <1>6, <1>8, <1>9, <1>10 DEF Released
  <2> QED BY <1>9, <2>1, ReleaseSteps
<1> QED BY <1>1, <1>6, <1>11

\* Giving back all matched super buffers at the head.
LEMMA FlushMatchedSteps ==
  ASSUME NEW c, NEW T, NEW B, Good(c, T, B)
  PROVE  /\ Step(c, flush_matched(c), T, B, {}) /\ flush_matched(c).wait = c.wait
<1>1. Leading(c.queue) = c.count /\ c.count \in 0..c.count
  BY QueueFacts
<1> QED BY <1>1, DropLeadingSteps DEF flush_matched

\* Nothing is left.
LEMMA EmptyQueue ==
  ASSUME NEW low, NEW T, NEW B, NEW D
  PROVE  QInv(<<>>, 0, low, T, B, D) /\ Held(<<>>) = {} /\ Leading(<<>>) = 0
<1>1. <<>> \in Seq(Node) /\ Len(<<>>) = 0 /\ DOMAIN <<>> = {}
  BY EmptySeq
<1>2. QInv(<<>>, 0, low, T, B, D)
  BY <1>1 DEF QInv, Nodes, Sorted, Ordered, Beyond, Apart
<1>3. Held(<<>>) = {}
  BY <1>1 DEF Held
<1>4. Leading(<<>>) = 0
  <2>1. Sorted(<<>>, 0)
    BY <1>1 DEF Sorted
  <2> QED BY <1>1, <2>1, CountsAre
<1> QED BY <1>2, <1>3, <1>4

\* Giving back the whole queue.
LEMMA FlushSteps ==
  ASSUME NEW c, NEW T, NEW B, Good(c, T, B)
  PROVE  /\ Step(c, flush(c), T, B, {}) /\ flush(c).queue = <<>> /\ flush(c).count = 0
         /\ flush(c).wait = c.wait
<1> DEFINE e == [c EXCEPT !.queue = <<>>, !.count = @ - CountMatched(c.queue)]
           d == GiveBack(e, Held(c.queue))
<1>1. d = flush(c)
  BY DEF flush
<1>2. DOMAIN c = Fields /\ c.given \in [Frames -> Nat] /\ c.wait \in BOOLEAN
      /\ c.attr.unmatched \in Nat
  BY TypedFacts
<1>3. CountMatched(c.queue) = c.count /\ c.count \in Nat
  BY QueueFacts
<1>4. /\ DOMAIN e = Fields /\ e.queue = <<>> /\ e.count = c.count - CountMatched(c.queue)
      /\ e.given = c.given /\ Same(c, e) /\ e.wait = c.wait
  BY <1>2 DEF Fields, Same
<1>5. e.count = 0
  BY <1>3, <1>4
<1> HIDE DEF e
<1>6. /\ DOMAIN d = Fields /\ \A x \in Fields \ {"given"} : d[x] = e[x]
      /\ d.given \in [Frames -> Nat]
      /\ \A b \in Frames : d.given[b] = IF b \in Held(c.queue) THEN e.given[b] + 1 ELSE e.given[b]
  BY <1>2, <1>4, GiveBackIs
<1> HIDE DEF d
<1>7. d.queue = <<>> /\ d.count = 0 /\ d.wait = c.wait /\ Same(c, d)
  BY <1>4, <1>5, <1>6 DEF Fields, Same
<1>8. Typed(d)
  BY <1>2, <1>6, <1>7 DEF Good, Typed, Same
<1>9. Good(d, T, B)
  <2>1. Len(d.queue) = 0 /\ d.attr.unmatched \in Nat
    BY <1>2, <1>7, EmptySeq DEF Same
  <2>2. Len(d.queue) - d.count <= d.attr.unmatched + 1
    BY <1>7, <2>1
  <2> QED BY <1>7, <1>8, <2>2, EmptyQueue DEF Good
<1>10. Moves(c, d, {})
  <2>1. Held(d.queue) = {}
    BY <1>7, EmptyQueue
  <2> QED BY <1>4, <1>6, <2>1 DEF Moves
<1> QED BY <1>1, <1>7, <1>9, <1>10 DEF Step

\* Giving back one unmatched node.
LEMMA DropSteps ==
  ASSUME NEW c, NEW T, NEW B, Good(c, T, B), NEW i \in 1..Len(c.queue), i > c.count
  PROVE  /\ Step(c, Drop(c, i), T, B, {}) /\ Drop(c, i).count = c.count
         /\ Drop(c, i).queue = Cut(c.queue, i, i + 1)
         /\ Len(Drop(c, i).queue) = Len(c.queue) - 1
         /\ Drop(c, i).diverted = c.diverted /\ Drop(c, i).good = c.good
         /\ Drop(c, i).wait = c.wait
<1> DEFINE q == c.queue
           e == [c EXCEPT !.queue = RemoveAt(@, i)]
           d == GiveBack(e, FramesOf(q[i]))
<1>1. d = Drop(c, i)
  BY DEF Drop
<1>2. DOMAIN c = Fields /\ c.given \in [Frames -> Nat] /\ c.wait \in BOOLEAN
  BY TypedFacts
<1>3. q \in Seq(Node) /\ Len(q) \in Nat /\ c.count \in Nat
  BY QueueFacts
<1>4. /\ DOMAIN e = Fields /\ e.queue = RemoveAt(q, i) /\ e.count = c.count /\ e.given = c.given
      /\ Same(c, e) /\ e.wait = c.wait /\ e.diverted = c.diverted /\ e.good = c.good
  BY <1>2 DEF Fields, Same
<1> HIDE DEF e, q
<1>5. /\ DOMAIN d = Fields /\ \A x \in Fields \ {"given"} : d[x] = e[x]
      /\ d.given \in [Frames -> Nat]
      /\ \A b \in Frames : d.given[b] = IF b \in FramesOf(q[i]) THEN e.given[b] + 1 ELSE e.given[b]
  BY <1>2, <1>4, GiveBackIs
<1> HIDE DEF d
<1>6. /\ d.queue = Cut(q, i, i + 1) /\ d.count = c.count /\ d.wait = c.wait
      /\ Same(c, d) /\ d.diverted = c.diverted /\ d.good = c.good
  <2>1. RemoveAt(q, i) = Cut(q, i, i + 1)
    BY DEF RemoveAt, Cut
  <2> QED BY <1>4, <1>5, <2>1 DEF Fields, Same
<1>7. i \in 1..(Len(q) + 1) /\ i + 1 \in i..(Len(q) + 1) /\ (i + 1) - i = 1 /\ (i + 1) - 1 = i
  BY <1>3 DEF q
<1>8. Held(SubSeq(q, i, (i + 1) - 1)) = FramesOf(q[i])
  <2> DEFINE t == SubSeq(q, i, (i + 1) - 1)
  <2>1. DOMAIN t = 1..1 /\ t[1] = q[i]
    <3>1. DOMAIN t = 1..((i + 1) - i) /\ \A x \in 1..((i + 1) - i) : t[x] = q[i + x - 1]
      BY <1>3, <1>7, PartIs
    <3>2. 1..((i + 1) - i) = 1..1 /\ 1 \in 1..((i + 1) - i) /\ i + 1 - 1 = i
      BY <1>7
    <3> HIDE DEF t, q
    <3>3. t[1] = q[i + 1 - 1]
      BY <3>1, <3>2
    <3>4. q[i + 1 - 1] = q[i]
      BY <3>2
    <3> QED BY <3>1, <3>2, <3>3, <3>4
  <2> HIDE DEF t
  <2>2. \A z : z \in Held(t) <=> z \in FramesOf(q[i])
    BY <2>1, HeldIs
  <2> QED BY <2>2 DEF t
<1>9. \A b \in Frames : d.given[b] = IF b \in Held(SubSeq(q, i, (i + 1) - 1))
                                     THEN c.given[b] + 1 ELSE c.given[b]
  BY <1>4, <1>5, <1>8
<1>10. Step(c, d, T, B, {}) /\ Len(d.queue) = Len(q) - ((i + 1) - i)
  <2> DEFINE j == i + 1
  <2>1. i \in 1..(Len(c.queue) + 1) /\ j \in i..(Len(c.queue) + 1)
    BY <1>7 DEF q
  <2>2. \/ i > c.count /\ d.count = c.count
        \/ j <= c.count + 1 /\ d.count = c.count - (j - i)
    BY <1>6
  <2>3. d.queue = Cut(c.queue, i, j)
    BY <1>6 DEF q
  <2>4. d.wait \in BOOLEAN /\ DOMAIN d = Fields /\ Same(c, d) /\ d.given \in [Frames -> Nat]
    BY <1>2, <1>5, <1>6
  <2>5. \A b \in Frames : d.given[b] = IF b \in Held(SubSeq(c.queue, i, j - 1))
                                        THEN c.given[b] + 1 ELSE c.given[b]
    BY <1>9 DEF q
  <2> HIDE DEF j
  <2>6. Step(c, d, T, B, {}) /\ Len(d.queue) = Len(c.queue) - (j - i)
    <3>1. Released(c, d, i, j)
      BY <2>2, <2>3, <2>4, <2>5 DEF Released
    <3> QED BY <2>1, <3>1, ReleaseSteps
  <2> QED BY <2>6 DEF q, j
<1>11. Len(d.queue) = Len(c.queue) - 1
  BY <1>7, <1>10 DEF q
<1> QED BY <1>1, <1>6, <1>10, <1>11 DEF q

\* Giving back what exceeds a limit: in burst mode no more than it is left.
LEMMA TrimSteps ==
  ASSUME NEW c, NEW T, NEW B, Good(c, T, B), NEW limit \in Nat
  PROVE  /\ Step(c, Trim(c, limit), T, B, {}) /\ Trim(c, limit).wait = c.wait
         /\ c.attr.burst => Trim(c, limit).count <= limit
<1>1. /\ c.count \in Nat /\ Leading(c.queue) = c.count
      /\ c.attr.burst \in BOOLEAN /\ DOMAIN c = Fields /\ c.wait \in BOOLEAN
  BY QueueFacts, TypedFacts
<1>2. CASE c.attr.burst /\ c.count > limit
  <2> DEFINE n == c.count - limit
  <2>1. n \in 0..c.count /\ n <= Leading(c.queue) /\ c.count - n = limit
    BY <1>1, <1>2
  <2>2. Trim(c, limit) = DropLeading(c, n)
    BY <1>2, <2>1 DEF Trim
  <2> HIDE DEF n
  <2>3. Step(c, DropLeading(c, n), T, B, {}) /\ DropLeading(c, n).count = c.count - n
        /\ DropLeading(c, n).wait = c.wait
    BY <2>1, DropLeadingSteps
  <2> QED BY <2>1, <2>2, <2>3
<1>3. CASE ~(c.attr.burst /\ c.count > limit)
  <2>1. Trim(c, limit) = c
    BY <1>3 DEF Trim
  <2>2. Like(c, c)
    BY <1>1 DEF Like, Same
  <2>3. c.attr.burst => c.count <= limit
    BY <1>1, <1>3
  <2> QED BY <2>1, <2>2, <2>3, LikeSteps
<1> QED BY <1>2, <1>3

-----------------------------------------------------------------------------
(* Metadata.                                                               *)

Says == [prep : {"none", "need", "noneed"}, min : Nat, max : Nat, skip : Nat,
         divert : Nat, crop1x : BOOLEAN]

\* A step, then a change of other fields.
LEMMA ThenLike ==
  ASSUME NEW c, NEW d, NEW e, NEW T, NEW B, NEW N, N \cap Held(c.queue) = {},
         Good(c, T, B), Step(c, d, T, B, N), Like(d, e)
  PROVE  Step(c, e, T, B, N)
<1>1. Step(d, e, T, B, {})
  BY LikeSteps DEF Step
<1>2. Moves(c, e, N) /\ Same(c, e)
  BY DEF Step, Moves, Like, Same
<1> QED BY <1>1, <1>2 DEF Step

\* A step, then a step.
LEMMA ThenStep ==
  ASSUME NEW c, NEW d, NEW e, NEW T, NEW B, Good(c, T, B), Step(c, d, T, B, {}),
         Step(d, e, T, B, {})
  PROVE  Step(c, e, T, B, {})
BY StepsCompose

\* No change at all is a step.
LEMMA LikeSelf ==
  ASSUME NEW c, NEW T, NEW B, Good(c, T, B)
  PROVE  Like(c, c) /\ Step(c, c, T, B, {})
<1>1. Like(c, c)
  BY TypedFacts DEF Like, Same
<1> QED BY <1>1, LikeSteps

\* Each of the handlers of metadata is a step, whatever the metadata says.
LEMMA DivertSteps ==
  ASSUME NEW c, NEW T, NEW B, Good(c, T, B), NEW f, NEW md
  PROVE  Step(c, Divert(c, f, md), T, B, {})
<1>1. DOMAIN c = Fields /\ c.wait \in BOOLEAN
  BY TypedFacts
<1>2. CASE md.divert = 0
  BY <1>2, LikeSelf DEF Divert
<1>3. CASE md.divert # 0
  <2> DEFINE x == IF md.divert >= f THEN md.divert % DivertedWidth ELSE 0
  <2>1. Divert(c, f, md) = [c EXCEPT !.diverted = x]
    BY <1>3 DEF Divert
  <2> HIDE DEF x
  <2>2. Like(c, [c EXCEPT !.diverted = x])
    BY <1>1 DEF Like, Same, Fields
  <2> QED BY <2>1, <2>2, LikeSteps
<1> QED BY <1>2, <1>3

\* The zoom is at 1x, or not yet.
LEMMA ZoomSteps ==
  ASSUME NEW c, NEW T, NEW B, Good(c, T, B), NEW f, NEW md \in Says
  PROVE  Step(c, Zoom1x(c, f, md), T, B, {})
<1>1. DOMAIN c = Fields /\ c.wait \in BOOLEAN /\ md.crop1x \in BOOLEAN
  BY TypedFacts DEF Says
<1>2. CASE md.crop1x
  <2> DEFINE x == f + 1
  <2>1. Zoom1x(c, f, md) = [c EXCEPT !.zoom = FALSE, !.expected = x]
    BY <1>2 DEF Zoom1x
  <2> HIDE DEF x
  <2>2. Like(c, [c EXCEPT !.zoom = FALSE, !.expected = x])
    BY <1>1 DEF Like, Same, Fields
  <2> QED BY <2>1, <2>2, LikeSteps
<1>3. CASE ~md.crop1x
  <2> DEFINE d == [c EXCEPT !.expected = @ + MaxFuture]
  <2>1. Zoom1x(c, f, md) = flush_matched(d)
    BY <1>3 DEF Zoom1x
  <2>2. Like(c, d)
    BY <1>1 DEF Like, Same, Fields
  <2> HIDE DEF d
  <2>3. Step(c, d, T, B, {})
    BY <2>2, LikeSteps
  <2>4. Step(d, flush_matched(d), T, B, {})
    BY <2>3, FlushMatchedSteps DEF Step
  <2> QED BY <2>1, <2>3, <2>4, ThenStep
<1> QED BY <1>1, <1>2, <1>3

\* The snapshot is prepared.
LEMMA PrepSteps ==
  ASSUME NEW c, NEW T, NEW B, Good(c, T, B), NEW md \in Says
  PROVE  Step(c, PrepDone(c, md), T, B, {})
<1>1. DOMAIN c = Fields /\ c.wait \in BOOLEAN /\ md.prep \in {"none", "need", "noneed"}
  BY TypedFacts DEF Says
<1>2. CASE md.prep = "none"
  <2>1. PrepDone(c, md) = c
    BY <1>2 DEF PrepDone
  <2> QED BY <2>1, LikeSelf
<1>3. CASE md.prep = "need"
  <2> DEFINE d == [c EXCEPT !.wait = FALSE, !.led = TRUE, !.expected = @ + MaxFuture]
  <2>1. PrepDone(c, md) = flush(d)
    BY <1>3 DEF PrepDone
  <2>2. Like(c, d)
    BY <1>1 DEF Like, Same, Fields
  <2> HIDE DEF d
  <2>3. Step(c, d, T, B, {})
    BY <2>2, LikeSteps
  <2>4. Step(d, flush(d), T, B, {})
    BY <2>3, FlushSteps DEF Step
  <2> QED BY <2>1, <2>3, <2>4, ThenStep
<1>4. CASE md.prep = "noneed"
  <2>1. PrepDone(c, md) = [c EXCEPT !.wait = FALSE, !.led = FALSE]
    BY <1>4 DEF PrepDone
  <2>2. Like(c, [c EXCEPT !.wait = FALSE, !.led = FALSE])
    BY <1>1 DEF Like, Same, Fields
  <2> QED BY <2>1, <2>2, LikeSteps
<1> QED BY <1>1, <1>2, <1>3, <1>4

\* A range of good frames.
LEMMA RangeSteps ==
  ASSUME NEW c, NEW T, NEW B, Good(c, T, B), NEW md \in Says
  PROVE  Step(c, GoodRange(c, md), T, B, {})
<1>1. DOMAIN c = Fields /\ c.wait \in BOOLEAN
  BY TypedFacts
<1>2. CASE md.min # 0
  <2> DEFINE ledBurst == c.led /\ c.burst > 1
             x1 == IF ledBurst THEN md.max ELSE c.ledOff
             x2 == IF ledBurst THEN FALSE ELSE c.once
             x3 == IF ledBurst THEN md.skip ELSE c.ledSkip
             x4 == IF c.flash THEN md.max ELSE c.noLed
             x5 == IF c.flash THEN c.bracketing ELSE "active"
             d == [c EXCEPT !.expected = md.min, !.good = md.min, !.ledOff = x1, !.once = x2,
                            !.ledSkip = x3, !.noLed = x4, !.bracketing = x5]
  <2>1. GoodRange(c, md) = d
    BY <1>1, <1>2 DEF GoodRange, Fields
  <2> HIDE DEF x1, x2, x3, x4, x5
  <2>2. Like(c, d)
    BY <1>1 DEF Like, Same, Fields
  <2> QED BY <2>1, <2>2, LikeSteps
<1>3. CASE md.min = 0 /\ c.bracketing = "wait" /\ md.prep = "none"
  <2> DEFINE d == flush_matched(c)
  <2>1. GoodRange(c, md) = [d EXCEPT !.expected = @ + MaxFuture]
    BY <1>3 DEF GoodRange
  <2>2. Step(c, d, T, B, {})
    BY FlushMatchedSteps
  <2> HIDE DEF d
  <2>3. DOMAIN d = Fields /\ d.wait \in BOOLEAN
    BY <2>2, TypedFacts DEF Step
  <2>4. Like(d, [d EXCEPT !.expected = @ + MaxFuture])
    BY <2>3 DEF Like, Same, Fields
  <2> QED BY <2>1, <2>2, <2>4, ThenLike
<1>4. CASE md.min = 0 /\ ~(c.bracketing = "wait" /\ md.prep = "none")
  <2>1. GoodRange(c, md) = c
    BY <1>4 DEF GoodRange
  <2> QED BY <2>1, LikeSelf
<1> QED BY <1>2, <1>3, <1>4

\* The flash goes off.
LEMMA LedSteps ==
  ASSUME NEW c, NEW T, NEW B, Good(c, T, B), NEW f
  PROVE  Step(c, LedOff(c, f), T, B, {})
<1>1. DOMAIN c = Fields /\ c.wait \in BOOLEAN
  BY TypedFacts
<1> DEFINE d == [c EXCEPT !.expected = c.ledOff + c.ledSkip, !.once = TRUE, !.stop = TRUE,
                          !.led = FALSE]
<1>2. LedOff(c, f) = d \/ LedOff(c, f) = c
  BY DEF LedOff
<1>3. Like(c, d)
  BY <1>1 DEF Like, Same, Fields
<1> HIDE DEF d
<1>4. Step(c, d, T, B, {}) /\ Step(c, c, T, B, {})
  BY <1>3, LikeSteps, LikeSelf
<1> QED BY <1>2, <1>4

\* All of them, in the order of the code.
LEMMA MetadataSteps ==
  ASSUME NEW c, NEW T, NEW B, Good(c, T, B), NEW s, NEW f, NEW md \in Says
  PROVE  Step(c, handle_metadata(c, s, f, md), T, B, {})
<1> DEFINE c1 == Divert(c, f, md)
<1>1. Step(c, c1, T, B, {}) /\ Step(c, c, T, B, {})
  BY DivertSteps, LikeSelf
<1> HIDE DEF c1
<1>2. Good(c1, T, B)
  BY <1>1 DEF Step
<1>3. Step(c, Zoom1x(c1, f, md), T, B, {})
  BY <1>1, <1>2, ZoomSteps, ThenStep
<1> DEFINE c2 == PrepDone(c1, md)
           c3 == GoodRange(c2, md)
           c4 == LedOff(c3, f)
<1>4. Step(c, c2, T, B, {})
  BY <1>1, <1>2, PrepSteps, ThenStep
<1> HIDE DEF c2
<1>5. Good(c2, T, B)
  BY <1>4 DEF Step
<1>6. Step(c, c3, T, B, {})
  BY <1>4, <1>5, RangeSteps, ThenStep
<1> HIDE DEF c3
<1>7. Good(c3, T, B)
  BY <1>6 DEF Step
<1>8. Step(c, c4, T, B, {})
  BY <1>6, <1>7, LedSteps, ThenStep
<1>9. \/ handle_metadata(c, s, f, md) = c
      \/ handle_metadata(c, s, f, md) = Zoom1x(c1, f, md)
      \/ handle_metadata(c, s, f, md) = c4
  BY DEF handle_metadata, c1, c2, c3
<1> QED BY <1>1, <1>3, <1>8, <1>9

-----------------------------------------------------------------------------
(* A frame arrives.                                                        *)

First(I) == IF I # {} THEN Min(I) ELSE 0

\* The first of a set of positions, or 0.
LEMMA FirstIs ==
  ASSUME NEW n \in Nat, NEW I \in SUBSET (1..n)
  PROVE  /\ First(I) \in 0..n
         /\ First(I) = 0 <=> I = {}
         /\ First(I) # 0 => First(I) \in I /\ \A i \in I : First(I) <= i
<1>1. CASE I = {}
  <2>1. First(I) = 0
    BY <1>1 DEF First
  <2> QED BY <1>1, <2>1
<1>2. CASE I # {}
  <2>1. Min(I) \in I /\ \A i \in I : Min(I) <= i
    BY <1>2, MinIs
  <2>2. First(I) = Min(I)
    BY <1>2 DEF First
  <2>3. First(I) \in 1..n
    BY <2>1, <2>2
  <2>4. First(I) # 0 /\ First(I) \in 0..n
    BY <2>3
  <2> QED BY <1>2, <2>1, <2>2, <2>4
<1> QED BY <1>1, <1>2

FitSet(c, s, f) == {i \in 1..Len(c.queue) : Unmatched(c.queue[i]) /\ Fits(c, c.queue[i], s, f)}
OlderSet(c, f) == {i \in 1..Len(c.queue) : Unmatched(c.queue[i]) /\ c.queue[i].frame < f}
NewerSet(c, f) == {i \in 1..Len(c.queue) : Unmatched(c.queue[i]) /\ c.queue[i].frame > f}

Plus(T, s, f) == T \cup {<<s, f>>}

\* The frame f of s arrives at channel c: it is newer than all of its stream.
Arrives(c, s, f, T, B) ==
  /\ Good(c, T, B) /\ s \in Streams /\ f \in 1..MaxFrame /\ T \subseteq Frames
  /\ \A b \in T : b[1] = s => b[2] < f
  /\ s \in Linked \/ s \in B
  /\ \A F \in Ids(c.sent) : Delivered(F, T)

\* mm_channel_superbuf_comp_and_enqueue after the metadata, with its positions named.
LEMMA EnqueueIs ==
  ASSUME NEW c, NEW s, NEW f
  PROVE  LET pos == First(FitSet(c, s, f))
             older == First(OlderSet(c, f))
             room == MakeRoom(c, older, First(NewerSet(c, f)))
         IN Enqueue(c, s, f) =
              IF Stale(c, f) THEN GiveBack(c, {<<s, f>>})
              ELSE IF pos # 0 THEN Fill(c, pos, older, s, f)
              ELSE IF older = 0 /\ CountUnmatched(c.queue) > c.attr.unmatched
              THEN GiveBack(c, {<<s, f>>})
              ELSE Insert(room.chan, room.newer, s, f)
<1>1. SelectInSeq(c.queue, LAMBDA n : Unmatched(n) /\ Fits(c, n, s, f)) = First(FitSet(c, s, f))
  BY DEF SelectInSeq, First, FitSet
<1>2. SelectInSeq(c.queue, LAMBDA n : Unmatched(n) /\ n.frame < f) = First(OlderSet(c, f))
  BY DEF SelectInSeq, First, OlderSet
<1>3. SelectInSeq(c.queue, LAMBDA n : Unmatched(n) /\ n.frame > f) = First(NewerSet(c, f))
  BY DEF SelectInSeq, First, NewerSet
<1> QED BY <1>1, <1>2, <1>3, Zenon DEF Enqueue

\* A good channel stays good as frames are delivered and streams start.
LEMMA GoodStays ==
  ASSUME NEW c, NEW T, NEW U, NEW B, NEW C, T \subseteq U, B \subseteq C, Good(c, T, B)
  PROVE  Good(c, U, C)
BY QInvStays DEF Good

\* A step stays one when more frames were delivered.
LEMMA StepStays ==
  ASSUME NEW c, NEW d, NEW T, NEW U, NEW B, NEW N, T \subseteq U, Step(c, d, T, B, N)
  PROVE  Step(c, d, U, B, N)
BY GoodStays DEF Step

\* The ids of what was sent.
LEMMA IdsAre ==
  ASSUME NEW c, NEW T, NEW B, Good(c, T, B)
  PROVE  Ids(c.sent) \subseteq 1..MaxFrame
<1>1. c.sent \in Seq(Node)
  BY DEF Good, Typed
<1>2. \A i \in DOMAIN c.sent : c.sent[i] \in Node
  BY <1>1, ElementOfSeq
<1> QED BY <1>2, NodeFields DEF Ids

\* What is matched was delivered by all.
LEMMA MatchedDelivered ==
  ASSUME NEW n \in Node, NEW low, NEW T, NEW B, NodeIs(n, low, T, B), Matched(n)
  PROVE  Delivered(n.frame, T)
<1> SUFFICES ASSUME NEW t \in Streams, t # Meta \/ Streams = {Meta} PROVE <<t, n.frame>> \in T
  BY DEF Delivered
<1>1. n.bufs[t] # 0
  BY DEF Matched
<1>2. n.bufs[t] = n.frame
  BY <1>1 DEF NodeIs, Fitting, Other
<1> QED BY <1>1, <1>2 DEF NodeIs, From

\* What was sent is older than a new frame of a stream that counts.
LEMMA DeliveredOlder ==
  ASSUME NEW F, NEW T, Delivered(F, T), NEW s \in Streams, s # Meta \/ Streams = {Meta},
         NEW f, \A b \in T : b[1] = s => b[2] < f
  PROVE  F < f
<1>1. <<s, F>> \in T
  BY DEF Delivered
<1>2. <<s, F>>[1] = s /\ <<s, F>>[2] = F
  OBVIOUS
<1> QED BY <1>1, <1>2

\* The frame is given back at once.
LEMMA ReturnSteps ==
  ASSUME NEW c, NEW s, NEW f, NEW T, NEW B, NEW U, U = Plus(T, s, f), Arrives(c, s, f, T, B)
  PROVE  Step(c, GiveBack(c, {<<s, f>>}), U, B, {<<s, f>>})
<1> DEFINE N == {<<s, f>>}
           d == GiveBack(c, N)
<1>1. Good(c, T, B) /\ Good(c, U, B)
  BY GoodStays DEF Arrives, Plus
<1>2. DOMAIN c = Fields /\ c.given \in [Frames -> Nat] /\ c.wait \in BOOLEAN
  BY <1>1, TypedFacts
<1>3. <<s, f>> \notin Held(c.queue)
  <2>1. QInv(c.queue, c.count, c.attr.low, T, B, Ids(c.sent))
    BY <1>1 DEF Good
  <2>2. f \in Nat /\ \A b \in T : b[1] = s => b[2] < f
    BY MetaIn DEF Arrives
  <2> QED BY <2>1, <2>2, NewIsNotHeld
<1>4. /\ DOMAIN d = Fields /\ \A x \in Fields \ {"given"} : d[x] = c[x]
      /\ d.given \in [Frames -> Nat]
      /\ \A b \in Frames : d.given[b] = IF b \in N THEN c.given[b] + 1 ELSE c.given[b]
  BY <1>2, GiveBackIs
<1> HIDE DEF d
<1>5. d.queue = c.queue /\ d.count = c.count /\ d.wait = c.wait /\ Same(c, d)
  BY <1>4 DEF Fields, Same
<1>6. Good(d, U, B)
  BY <1>1, <1>4, <1>5 DEF Good, Typed, Same
<1>7. Moves(c, d, N)
  BY <1>3, <1>4, <1>5 DEF Moves
<1> QED BY <1>5, <1>6, <1>7 DEF Step, d

\* A node that differs from n at most in being kept.
Alike(n, p) == p \in Node /\ p.frame = n.frame /\ p.metaOnly = n.metaOnly /\ p.bufs = n.bufs

\* A node marked to be kept.
LEMMA KeepIs ==
  ASSUME NEW n \in Node, NEW x \in BOOLEAN
  PROVE  Alike(n, [n EXCEPT !.keep = x])
BY DEF Alike, Node

\* Nodes with the same id and the same frames.
LEMMA AlikeIs ==
  ASSUME NEW n \in Node, NEW p, Alike(n, p)
  PROVE  /\ Matched(p) <=> Matched(n)
         /\ FramesOf(p) = FramesOf(n)
         /\ \A low, T, B : NodeIs(n, low, T, B) => NodeIs(p, low, T, B)
         /\ \A F, T : Before(F, n, T) => Before(F, p, T)
<1>1. Matched(p) <=> Matched(n)
  BY DEF Alike, Matched
<1>2. FramesOf(p) = FramesOf(n)
  BY DEF Alike, FramesOf
<1>3. \A low, T, B : NodeIs(n, low, T, B) => NodeIs(p, low, T, B)
  BY DEF Alike, NodeIs, Fitting, From
<1>4. \A F, T : Before(F, n, T) => Before(F, p, T)
  BY DEF Alike, Before, Dead
<1> QED BY <1>1, <1>2, <1>3, <1>4

\* The node p may replace the one at pos, to which it adds the frames N.
Replaces(c, pos, p, U, B, N) ==
  /\ p \in Node /\ NodeIs(p, c.attr.low, U, B) /\ p.frame <= c.queue[pos].frame
  /\ \A F \in Ids(c.sent) : Before(F, p, U)
  /\ \A i \in DOMAIN c.queue : i < pos => Before(c.queue[i].frame, p, U)
  /\ FramesOf(p) = FramesOf(c.queue[pos]) \cup N
  /\ N \cap Held(c.queue) = {}

\* It has replaced it.
Put(c, d, pos, p) ==
  /\ DOMAIN d = Fields /\ d.queue = [c.queue EXCEPT ![pos] = p] /\ d.given = c.given
  /\ d.count = (IF Matched(p) THEN c.count + 1 ELSE c.count)
  /\ d.wait \in BOOLEAN /\ Same(c, d)

\* Putting a node in the place of another.
LEMMA PutSteps ==
  ASSUME NEW c, NEW d, NEW U, NEW B, NEW N, Good(c, U, B), NEW pos \in 1..Len(c.queue),
         pos > c.count, NEW p, Replaces(c, pos, p, U, B, N), Put(c, d, pos, p),
         Matched(p) => pos = c.count + 1
  PROVE  Step(c, d, U, B, N)
<1> DEFINE q == c.queue
           low == c.attr.low
           D == Ids(c.sent)
<1>1. /\ q \in Seq(Node) /\ Len(q) \in Nat /\ DOMAIN q = 1..Len(q) /\ c.count \in Nat
      /\ c.count <= Len(q)
  BY QueueFacts
<1>2. QInv(q, c.count, low, U, B, D)
  BY DEF Good
<1>3. p \in Node /\ pos \in DOMAIN q
  BY <1>1 DEF Replaces
<1>4. \A i \in DOMAIN q : i # pos => FramesOf(p) \cap FramesOf(q[i]) = {}
  <2> TAKE i \in DOMAIN q
  <2> SUFFICES ASSUME i # pos, NEW z, z \in FramesOf(p), z \in FramesOf(q[i]) PROVE FALSE
    OBVIOUS
  <2>1. z \in Held(q)
    BY HeldIs
  <2>2. z \in FramesOf(q[pos])
    BY <2>1 DEF Replaces
  <2> QED BY <1>2, <1>3, <2>2 DEF QInv, Apart
<1>5. QInv(d.queue, d.count, low, U, B, D)
  <2>1. /\ NodeIs(p, low, U, B) /\ p.frame <= q[pos].frame
        /\ \A F \in D : Before(F, p, U)
        /\ \A i \in DOMAIN q : i < pos => Before(q[i].frame, p, U)
    BY DEF Replaces
  <2>2. d.count = (IF Matched(p) THEN c.count + 1 ELSE c.count) /\ d.queue = [q EXCEPT ![pos] = p]
    BY DEF Put
  <2> HIDE DEF q, low, D
  <2>3. (Matched(p) => pos = c.count + 1) /\ pos > c.count
    OBVIOUS
  <2> QED BY <1>2, <1>3, <1>4, <2>1, <2>2, <2>3, PutKeeps
<1>6. Len(d.queue) = Len(q)
  BY <1>1, <1>3, ExceptSeq DEF Put
<1>7. Typed(d)
  BY DEF Good, Typed, Put, Same
<1>8. Good(d, U, B)
  <2>1. d.count \in Int /\ c.count <= d.count
    BY <1>1 DEF Put
  <2>2. Len(q) - c.count <= c.attr.unmatched + 1 /\ c.attr.unmatched \in Nat
    BY TypedFacts DEF Good
  <2>3. Len(d.queue) - d.count <= c.attr.unmatched + 1
    <3> DEFINE x == Len(q)
               y == c.count
               z == d.count
               m == c.attr.unmatched
    <3>1. x \in Nat /\ y \in Nat /\ z \in Int /\ m \in Nat /\ y <= z /\ x - y <= m + 1
      BY <1>1, <2>1, <2>2
    <3> HIDE DEF x, y, z, m
    <3>2. x - z <= m + 1
      BY <3>1
    <3> QED BY <1>6, <3>2 DEF x, z, m
  <2>4. d.attr = c.attr /\ d.sent = c.sent
    BY DEF Put, Same
  <2> QED BY <1>5, <1>7, <2>3, <2>4 DEF Good
<1>9. Held(d.queue) = Held(q) \cup N
  <2>1. FramesOf(p) = FramesOf(q[pos]) \cup N /\ d.queue = [q EXCEPT ![pos] = p]
    BY DEF Replaces, Put
  <2>2. q \in Seq(Node) /\ pos \in DOMAIN q /\ p \in Node
    BY <1>1, <1>3
  <2> HIDE DEF q
  <2> QED BY <2>1, <2>2, PutHeld
<1>10. Moves(c, d, N)
  BY <1>9 DEF Moves, Put
<1> QED BY <1>8, <1>10 DEF Step, Put

\* A frame put into the first node that takes it: the super buffers before it
\* are older than what becomes of it.
LEMMA FillBefore ==
  ASSUME NEW c, NEW s, NEW f, NEW T, NEW B, NEW U, U = Plus(T, s, f), Arrives(c, s, f, T, B),
         NEW pos \in 1..Len(c.queue), pos \in FitSet(c, s, f),
         \A i \in FitSet(c, s, f) : pos <= i, c.queue[pos].bufs[s] = 0
  PROVE  Replaces(c, pos, Filled(c.queue[pos], s, f), U, B, {<<s, f>>})
<1> DEFINE q == c.queue
           low == c.attr.low
           n == q[pos]
           m == Filled(n, s, f)
<1>0. U = T \cup {<<s, f>>}
  BY DEF Plus
<1>1. /\ Good(c, T, B) /\ s \in Streams /\ f \in 1..MaxFrame /\ f \in Nat
      /\ \A b \in T : b[1] = s => b[2] < f
      /\ s \in Linked \/ s \in B
      /\ T \subseteq Frames
      /\ \A F \in Ids(c.sent) : Delivered(F, T)
  BY MetaIn DEF Arrives
<1>2. /\ q \in Seq(Node) /\ Len(q) \in Nat /\ DOMAIN q = 1..Len(q) /\ c.count \in Nat
      /\ \A i \in 1..Len(q) : q[i] \in Node
      /\ \A i \in 1..Len(q) : Matched(q[i]) <=> i <= c.count
  BY <1>1, QueueFacts
<1>3. QInv(q, c.count, low, T, B, Ids(c.sent))
  BY <1>1 DEF Good
<1>4. \A i \in 1..Len(q) : NodeIs(q[i], low, T, B)
  BY <1>2, <1>3 DEF QInv, Nodes
<1>5. n \in Node /\ NodeIs(n, low, T, B) /\ n.frame \in Nat /\ n.bufs[s] = 0
  BY <1>2, <1>4, NodeFields
<1>6. FitsIn(low, n, s, f)
  BY DEF FitSet, Fits, FitsIn
<1> HIDE DEF n, low
<1>7. /\ NodeIs(m, low, U, B) /\ m.frame <= n.frame /\ m.frame <= f
      /\ s # Meta => m.frame = f
      /\ s = Meta => m.frame = n.frame
      /\ n.metaOnly = 0 => m.frame = n.frame
  <2>1. /\ n \in Node /\ NodeIs(n, low, T, B) /\ s \in Streams /\ f \in 1..MaxFrame
        /\ \A b \in T : b[1] = s => b[2] < f
    BY <1>1, <1>5
  <2>2. s \in Linked \/ s \in B
    BY <1>1
  <2>3. IsNew(s, f, T, U) /\ n.bufs[s] = 0
    BY <1>0, <1>1, <1>5 DEF IsNew
  <2> HIDE DEF m
  <2>0. m = Filled(n, s, f)
    BY DEF m
  <2>4. FillsTo(n, m, s, f, low, U, B)
    BY <1>6, <2>0, <2>1, <2>2, <2>3, FillNode
  <2> QED BY <2>4 DEF FillsTo
<1>8. m \in Node /\ m.bufs[s] = f /\ \A t \in Streams \ {s} : m.bufs[t] = n.bufs[t]
  BY <1>1, <1>5, FilledIs
<1>9. FramesOf(m) = FramesOf(n) \cup {<<s, f>>}
  BY <1>1, <1>5, FilledFrames
<1>10. m.frame \in Nat
  BY <1>8, NodeFields
<1> HIDE DEF m
\* A node that was dead is dead.
<1>11. Dead(n, T) => Dead(m, U)
  <2> SUFFICES ASSUME Dead(n, T) PROVE Dead(m, U)
    OBVIOUS
  <2>1. PICK t \in Other : n.bufs[t] = 0 /\ \E b \in T : b[1] = t /\ b[2] >= n.frame
    BY DEF Dead
  <2>2. PICK b \in T : b[1] = t /\ b[2] >= n.frame
    BY <2>1
  <2>3. QInv(q, c.count, low, T, B, Ids(c.sent)) /\ b \in U
    BY <1>0, <1>3
  <2>4. t # s
    <3> SUFFICES ASSUME t = s PROVE FALSE
      OBVIOUS
    <3>1. b[2] < f /\ b[2] >= n.frame
      BY <1>1, <2>2
    <3>2. f <= n.frame
      BY <1>7, <2>1 DEF Other
    <3>3. b[2] \in Nat
      BY <1>1, <2>2, MetaIn DEF Frames
    <3> HIDE DEF low
    <3> QED BY <1>1, <1>5, <3>1, <3>2, <3>3
  <2>5. m.bufs[t] = 0
    BY <1>8, <2>1, <2>4 DEF Other
  <2>6. b[2] >= m.frame
    <3>1. b[2] \in Nat
      BY <1>1, <2>2, MetaIn DEF Frames
    <3>2. m.frame <= n.frame /\ n.frame <= b[2]
      BY <1>7, <2>2, <1>5, <3>1
    <3> DEFINE x == b[2]
               y == m.frame
               z == n.frame
    <3>3. x \in Nat /\ y \in Nat /\ z \in Nat /\ y <= z /\ z <= x
      BY <1>5, <1>10, <3>1, <3>2
    <3> HIDE DEF x, y, z
    <3>4. x >= y
      BY <3>3
    <3> QED BY <3>4 DEF x, y
  <2> QED BY <2>1, <2>2, <2>3, <2>5, <2>6 DEF Dead
\* What was delivered by all is older.
<1>12. ASSUME NEW F \in Nat, Delivered(F, T), Before(F, n, T)
       PROVE  Before(F, m, U)
  <2>1. CASE Dead(n, T)
    BY <1>11, <2>1 DEF Before
  <2>2. CASE F < n.frame /\ s = Meta
    BY <1>7, <2>2 DEF Before
  <2>3. CASE s # Meta
    <3>1. F < f
      <4>1. s \in Streams /\ Delivered(F, T) /\ (s # Meta \/ Streams = {Meta})
        BY <1>1, <1>12, <2>3
      <4>2. \A b \in T : b[1] = s => b[2] < f
        BY <1>1
      <4> QED BY <4>1, <4>2, DeliveredOlder
    <3> QED BY <1>7, <2>3, <3>1 DEF Before
  <2> QED BY <1>12, <2>1, <2>2, <2>3 DEF Before
<1>13. \A F \in Ids(c.sent) : Before(F, m, U)
  <2> TAKE F \in Ids(c.sent)
  <2>0. F \in 1..MaxFrame
    BY <1>1, IdsAre
  <2>1. F \in Nat
    BY <2>0, MetaIn
  <2>2. Before(F, n, T)
    BY <1>2, <1>3 DEF QInv, Beyond, n
  <2> QED BY <1>1, <1>12, <2>1, <2>2
<1>14. ASSUME NEW i \in 1..Len(q), i < pos PROVE Before(q[i].frame, m, U)
  <2> DEFINE u == q[i]
  <2>1. u \in Node /\ NodeIs(u, low, T, B) /\ u.frame \in Nat
    BY <1>2, <1>4, NodeFields
  <2>2. Before(u.frame, n, T)
    BY <1>2, <1>3, <1>14 DEF QInv, Ordered, n
  <2>3. Matched(u) => Delivered(u.frame, T)
    BY <2>1, MatchedDelivered
  <2>4. i \notin FitSet(c, s, f)
    BY <1>2, <1>14
  <2>5. Unmatched(u) => ~FitsIn(low, u, s, f)
    BY <2>4 DEF FitSet, Fits, FitsIn, low
  <2> SUFFICES Before(u.frame, m, U)
    BY DEF u
  <2> HIDE DEF u
  <2>6. CASE Matched(u)
    BY <1>12, <2>1, <2>2, <2>3, <2>6
  <2>7. CASE Unmatched(u) /\ Dead(n, T)
    BY <1>11, <2>7 DEF Before
  <2>8. CASE Unmatched(u) /\ u.frame < n.frame
    <3>0. ~FitsIn(low, u, s, f)
      BY <2>5, <2>8
    <3>1. CASE m.frame = n.frame
      BY <2>8, <3>1 DEF Before
    <3>2. CASE m.frame # n.frame
      <4>1. s # Meta /\ n.metaOnly # 0 /\ m.frame = f
        BY <1>7, <3>2
      <4>2. low /\ n.frame # f
        BY <1>6, <3>2, <4>1 DEF FitsIn
      <4>3. u.frame # f
        BY <3>0 DEF FitsIn
      <4>4. CASE u.frame < f
        BY <4>1, <4>4 DEF Before
      <4>5. CASE u.frame > f
        <5>1. u.metaOnly = 0
          <6> SUFFICES ASSUME u.metaOnly # 0 PROVE FALSE
            OBVIOUS
          <6>1. u.metaOnly = u.frame /\ u.bufs[s] = 0
            BY <1>1, <2>1, <4>1 DEF NodeIs, Fitting, Other
          <6> QED BY <3>0, <4>1, <4>2, <4>5, <6>1 DEF FitsIn
        <5>2. PICK t \in Other : u.bufs[t] = u.frame
          BY <2>1, <4>2, <5>1 DEF NodeIs, Fitting
        <5>3. u.frame # 0
          BY <2>1, NodeFields
        <5>4. t \in Streams /\ <<t, u.frame>> \in T
          BY <2>1, <5>2, <5>3 DEF Other, NodeIs, From
        <5>5. <<t, u.frame>>[1] = t /\ <<t, u.frame>>[2] = u.frame
          OBVIOUS
        <5>6. t # s
          <6> SUFFICES ASSUME t = s PROVE FALSE
            OBVIOUS
          <6>1. u.frame < f
            BY <1>1, <5>4, <5>5
          <6> QED BY <1>1, <2>1, <4>5, <6>1
        <5>7. n.bufs[t] = 0
          BY <1>5, <4>1, <5>2 DEF NodeIs, Fitting
        <5>8. m.bufs[t] = 0
          BY <1>8, <5>4, <5>6, <5>7
        <5>9. u.frame >= m.frame /\ <<t, u.frame>> \in U
          BY <1>0, <1>1, <2>1, <4>1, <4>5, <5>4
        <5>10. Dead(m, U)
          BY <5>2, <5>5, <5>8, <5>9 DEF Dead
        <5> QED BY <5>10 DEF Before
      <4> QED BY <1>1, <2>1, <4>3, <4>4, <4>5
    <3> QED BY <3>1, <3>2
  <2>9. Matched(u) \/ Unmatched(u)
    BY DEF Unmatched
  <2>10. u.frame < n.frame \/ Dead(n, T)
    BY <2>2 DEF Before
  <2> QED BY <2>6, <2>7, <2>8, <2>9, <2>10
<1>15. {<<s, f>>} \cap Held(q) = {}
  BY <1>1, <1>3, NewIsNotHeld
<1>16. /\ m \in Node /\ NodeIs(m, c.attr.low, U, B) /\ m.frame <= q[pos].frame
       /\ FramesOf(m) = FramesOf(q[pos]) \cup {<<s, f>>}
  BY <1>7, <1>8, <1>9 DEF n, low
<1>17. \A i \in DOMAIN q : i < pos => Before(q[i].frame, m, U)
  BY <1>2, <1>14
<1>18. Replaces(c, pos, m, U, B, {<<s, f>>})
  BY <1>13, <1>15, <1>16, <1>17 DEF Replaces
<1> QED BY <1>18 DEF n, m

\* A frame is new also after a step.
LEMMA ArrivesStays ==
  ASSUME NEW c, NEW d, NEW s, NEW f, NEW T, NEW B, Arrives(c, s, f, T, B), Step(c, d, T, B, {})
  PROVE  Arrives(d, s, f, T, B)
BY DEF Arrives, Step, Same

\* A new frame is not held, and the channel is good when it is delivered.
LEMMA NewMoves ==
  ASSUME NEW c, NEW s, NEW f, NEW T, NEW B, NEW U, U = Plus(T, s, f), Arrives(c, s, f, T, B)
  PROVE  {<<s, f>>} \cap Held(c.queue) = {} /\ Good(c, T, B) /\ Good(c, U, B) /\ T \subseteq U
<1>1. Good(c, T, B) /\ Good(c, U, B)
  BY GoodStays DEF Arrives, Plus
<1>2. QInv(c.queue, c.count, c.attr.low, T, B, Ids(c.sent))
  BY <1>1 DEF Good
<1>3. f \in Nat /\ \A b \in T : b[1] = s => b[2] < f
  BY MetaIn DEF Arrives
<1>4. <<s, f>> \notin Held(c.queue)
  BY <1>2, <1>3, NewIsNotHeld
<1> QED BY <1>1, <1>4 DEF Plus

\* A step before the arrival and one with it.
LEMMA ThenArrival ==
  ASSUME NEW c, NEW d, NEW e, NEW s, NEW f, NEW T, NEW B, NEW U, U = Plus(T, s, f),
         Arrives(c, s, f, T, B), Step(c, d, T, B, {}), Step(d, e, U, B, {<<s, f>>})
  PROVE  Step(c, e, U, B, {<<s, f>>})
<1>1. {<<s, f>>} \cap Held(c.queue) = {} /\ Good(c, U, B) /\ T \subseteq U
  BY NewMoves
<1>2. Step(c, d, U, B, {})
  BY <1>1, StepStays
<1> QED BY <1>1, <1>2, StepsCompose

\* A node may also be replaced by one alike.
LEMMA ReplacesAlike ==
  ASSUME NEW c, NEW pos, NEW n \in Node, NEW p, NEW U, NEW B, NEW N,
         Replaces(c, pos, n, U, B, N), Alike(n, p)
  PROVE  Replaces(c, pos, p, U, B, N)
<1>1. p \in Node /\ p.frame = n.frame
  BY DEF Alike
<1>2. /\ FramesOf(p) = FramesOf(n)
      /\ \A low, T, C : NodeIs(n, low, T, C) => NodeIs(p, low, T, C)
      /\ \A F, T : Before(F, n, T) => Before(F, p, T)
  BY AlikeIs
<1> QED BY <1>1, <1>2 DEF Replaces

\* Replacing a node and then taking out those before it is the reverse.
Swapped(q, r, x, a, pos, p) ==
  /\ Cut(r, a, pos) = [x EXCEPT ![a] = p]
  /\ SubSeq(r, a, pos - 1) = SubSeq(q, a, pos - 1)
  /\ a \in 1..Len(x) /\ x[a] = q[pos]

\* A node put in place, and the nodes before it cut out.
LEMMA CutPut ==
  ASSUME NEW q \in Seq(Node), NEW a \in 1..Len(q), NEW pos \in a..Len(q), NEW p \in Node,
         NEW r \in Seq(Node), Len(r) = Len(q),
         \A j \in 1..Len(q) : r[j] = IF j = pos THEN p ELSE q[j],
         NEW x, x = Cut(q, a, pos)
  PROVE  Swapped(q, r, x, a, pos, p)
<1>1. /\ Len(q) \in Nat /\ a \in Nat /\ pos \in 1..Len(q) /\ pos \in Nat
      /\ a \in 1..(Len(q) + 1) /\ pos \in a..(Len(q) + 1)
  BY LenProperties
<1>2. /\ r \in Seq(Node) /\ Len(r) = Len(q)
      /\ \A j \in 1..Len(q) : r[j] = IF j = pos THEN p ELSE q[j]
  OBVIOUS
<1>3. /\ x \in Seq(Node) /\ Len(x) = Len(q) - (pos - a)
      /\ \A k \in 1..(a - 1) : x[k] = q[k]
      /\ \A k \in a..(Len(q) - (pos - a)) : x[k] = q[k + (pos - a)]
  BY <1>1, CutIs
<1>4. a \in 1..Len(x)
  BY <1>1, <1>3
<1>5. x[a] = q[pos]
  <2>1. a \in a..(Len(q) - (pos - a)) /\ a + (pos - a) = pos
    BY <1>1
  <2>2. x[a] = q[a + (pos - a)]
    BY <1>3, <2>1
  <2> QED BY <2>1, <2>2
<1> DEFINE y == Cut(r, a, pos)
           z == [x EXCEPT ![a] = p]
<1>6. /\ y \in Seq(Node) /\ Len(y) = Len(q) - (pos - a)
      /\ \A k \in 1..(a - 1) : y[k] = r[k]
      /\ \A k \in a..(Len(q) - (pos - a)) : y[k] = r[k + (pos - a)]
  <2>1. a \in 1..(Len(r) + 1) /\ pos \in a..(Len(r) + 1)
    BY <1>1, <1>2
  <2>2. /\ y \in Seq(Node) /\ Len(y) = Len(r) - (pos - a)
        /\ \A k \in 1..(a - 1) : y[k] = r[k]
        /\ \A k \in a..(Len(r) - (pos - a)) : y[k] = r[k + (pos - a)]
    <3>1. r \in Seq(Node)
      BY <1>2
    <3> QED BY <2>1, <3>1, CutIs
  <2> HIDE DEF y
  <2> QED BY <1>2, <2>2
<1>7. /\ z \in Seq(Node) /\ Len(z) = Len(x)
      /\ \A j \in 1..Len(x) : z[j] = IF j = a THEN p ELSE x[j]
  BY <1>3, <1>4, ExceptSeq
<1> HIDE DEF y, z
<1>8. ASSUME NEW i \in 1..Len(y) PROVE y[i] = z[i]
  <2>1. CASE i < a
    <3>1. i \in 1..(a - 1) /\ i \in 1..Len(q) /\ i # pos /\ i \in 1..Len(x) /\ i # a
      BY <1>1, <1>3, <1>6, <2>1
    <3> QED BY <1>2, <1>3, <1>6, <1>7, <3>1
  <2>2. CASE i = a
    <3>1. i \in a..(Len(q) - (pos - a)) /\ i + (pos - a) = pos
      BY <1>1, <2>2
    <3>2. y[i] = r[pos]
      BY <1>6, <3>1
    <3>3. y[i] = p
      BY <1>1, <1>2, <3>2
    <3> QED BY <1>4, <1>7, <2>2, <3>3
  <2>3. CASE i > a
    <3>1. i \in a..(Len(q) - (pos - a)) /\ i \in 1..Len(x) /\ i # a
      BY <1>1, <1>3, <1>6, <2>3
    <3>2. i + (pos - a) \in 1..Len(q) /\ i + (pos - a) # pos
      BY <1>1, <2>3, <3>1
    <3>3. y[i] = r[i + (pos - a)] /\ x[i] = q[i + (pos - a)] /\ z[i] = x[i]
      BY <1>3, <1>6, <1>7, <3>1
    <3> QED BY <1>2, <3>2, <3>3
  <2> QED BY <1>1, <1>6, <2>1, <2>2, <2>3
<1>9. y = z
  <2>1. Len(y) = Len(z) /\ y \in Seq(Node) /\ z \in Seq(Node)
    BY <1>3, <1>6, <1>7
  <2> QED BY <1>8, <2>1, SeqEqual
<1> DEFINE v == SubSeq(r, a, pos - 1)
           w == SubSeq(q, a, pos - 1)
<1>10. /\ v \in Seq(Node) /\ Len(v) = pos - a
       /\ \A i \in 1..(pos - a) : v[i] = r[a + i - 1]
  <2>1. r \in Seq(Node) /\ a \in 1..(Len(r) + 1) /\ pos \in a..(Len(r) + 1)
    BY <1>1, <1>2
  <2> QED BY <2>1, PartIs
<1>11. /\ w \in Seq(Node) /\ Len(w) = pos - a
       /\ \A i \in 1..(pos - a) : w[i] = q[a + i - 1]
  BY <1>1, PartIs
<1> HIDE DEF v, w
<1>12. ASSUME NEW i \in 1..Len(v) PROVE v[i] = w[i]
  <2>1. i \in 1..(pos - a) /\ a + i - 1 \in 1..Len(q) /\ a + i - 1 # pos
    BY <1>1, <1>10
  <2> QED BY <1>2, <1>10, <1>11, <2>1
<1>13. v = w
  <2>1. Len(v) = Len(w)
    BY <1>10, <1>11
  <2> QED BY <1>10, <1>11, <1>12, <2>1, SeqEqual
<1> QED BY <1>4, <1>5, <1>9, <1>13 DEF Swapped, y, z, v, w

\* The channel with a node replaced and nothing else but what the queue's own
\* bookkeeping does.
Laid(c, e, pos, p) ==
  /\ DOMAIN e = Fields /\ e.queue = [c.queue EXCEPT ![pos] = p]
  /\ e.count = c.count /\ e.given = c.given /\ e.wait \in BOOLEAN /\ Same(c, e)

\* The fields of a channel with a node put in place.
LEMMA PutIs ==
  ASSUME NEW c, NEW T, NEW B, Good(c, T, B), NEW pos \in 1..Len(c.queue), NEW p \in Node,
         NEW e, e = [c EXCEPT !.queue[pos] = p]
  PROVE  Laid(c, e, pos, p)
<1>1. DOMAIN c = Fields /\ c.wait \in BOOLEAN
  BY TypedFacts
<1> QED BY <1>1 DEF Laid, Fields, Same

\* The fields of a channel when a super buffer was completed.
LEMMA CompletedIs ==
  ASSUME NEW c, DOMAIN c = Fields, NEW f, NEW d, d = Completed(c, f)
  PROVE  /\ DOMAIN d = Fields /\ d.queue = c.queue /\ d.given = c.given
         /\ d.count = c.count + 1 /\ d.wait = c.wait /\ Same(c, d)
<1> DEFINE x == f < c.noLed
           y == f + c.attr.skip
           d1 == [c EXCEPT !.count = @ + 1, !.expected = c.noLed, !.flash = x]
           d2 == [c EXCEPT !.count = @ + 1, !.expected = y]
<1>1. d = d1 \/ d = d2
  BY DEF Completed
<1> HIDE DEF x, y
<1>2. /\ DOMAIN d1 = Fields /\ d1.queue = c.queue /\ d1.given = c.given
      /\ d1.count = c.count + 1 /\ d1.wait = c.wait /\ Same(c, d1)
  BY DEF Fields, Same
<1>3. /\ DOMAIN d2 = Fields /\ d2.queue = c.queue /\ d2.given = c.given
      /\ d2.count = c.count + 1 /\ d2.wait = c.wait /\ Same(c, d2)
  BY DEF Fields, Same
<1> HIDE DEF d1, d2
<1> QED BY <1>1, <1>2, <1>3

\* A super buffer is complete while unmatched ones, all older, are before it.
LEMMA CompleteLaterSteps ==
  ASSUME NEW c, NEW c1, NEW s, NEW f, NEW T, NEW B, NEW U, U = Plus(T, s, f),
         Arrives(c, s, f, T, B), NEW a, a = c.count + 1,
         NEW pos \in 1..Len(c.queue), pos > a, NEW p, Matched(p),
         Replaces(c, pos, p, U, B, {<<s, f>>}), Put(c, c1, pos, p)
  PROVE  Step(c, ReleaseOlder(c1, a, pos), U, B, {<<s, f>>})
<1> DEFINE q == c.queue
           N == {<<s, f>>}
           r == c1.queue
           x == Cut(q, a, pos)
           e == [c EXCEPT !.queue = x]
           F == Held(SubSeq(q, a, pos - 1))
           d == GiveBack(e, F)
           e1 == [c1 EXCEPT !.queue = Cut(r, a, pos)]
           d1 == GiveBack(e1, F)
<1>1. Good(c, T, B) /\ Good(c, U, B) /\ N \cap Held(q) = {}
  BY NewMoves
<1>2. /\ q \in Seq(Node) /\ Len(q) \in Nat /\ c.count \in Nat /\ c.count <= Len(q)
      /\ DOMAIN q = 1..Len(q)
  BY <1>1, QueueFacts
<1>3. DOMAIN c = Fields /\ c.given \in [Frames -> Nat] /\ c.wait \in BOOLEAN
  BY <1>1, TypedFacts
<1>4. a \in 1..Len(q) /\ pos \in a..Len(q) /\ a > c.count /\ a \in Nat /\ pos \in Nat
      /\ a \in 1..(Len(q) + 1) /\ pos \in a..(Len(q) + 1)
  BY <1>2
<1>5. p \in Node /\ r = [q EXCEPT ![pos] = p]
  BY DEF Replaces, Put
<1>6. /\ r \in Seq(Node) /\ Len(r) = Len(q)
      /\ \A j \in 1..Len(q) : r[j] = IF j = pos THEN p ELSE q[j]
  <2> HIDE DEF q, r
  <2>1. pos \in 1..Len(q)
    BY DEF q
  <2> QED BY <1>2, <1>5, <2>1, ExceptSeq
<1> HIDE DEF r, x
<1>7. /\ Cut(r, a, pos) = [x EXCEPT ![a] = p]
      /\ SubSeq(r, a, pos - 1) = SubSeq(q, a, pos - 1)
      /\ a \in 1..Len(x) /\ x[a] = q[pos]
  <2>1. x = Cut(q, a, pos)
    BY DEF x
  <2> HIDE DEF q
  <2>2. q \in Seq(Node) /\ a \in 1..Len(q) /\ pos \in a..Len(q) /\ p \in Node
    BY <1>2, <1>4, <1>5
  <2>3. /\ r \in Seq(Node) /\ Len(r) = Len(q)
        /\ \A j \in 1..Len(q) : r[j] = IF j = pos THEN p ELSE q[j]
    BY <1>6
  <2>4. Swapped(q, r, x, a, pos, p)
    BY <2>1, <2>2, <2>3, CutPut
  <2> QED BY <2>4 DEF Swapped
\* First the older ones are given back, then the frame is put in.
<1>8. /\ DOMAIN e = Fields /\ e.queue = x /\ e.given = c.given /\ e.wait = c.wait
      /\ e.count = c.count /\ Same(c, e)
  BY <1>3 DEF Fields, Same
<1> HIDE DEF e, F
<1>9. /\ DOMAIN d = Fields /\ \A y \in Fields \ {"given"} : d[y] = e[y]
      /\ d.given \in [Frames -> Nat]
      /\ \A b \in Frames : d.given[b] = IF b \in F THEN e.given[b] + 1 ELSE e.given[b]
  BY <1>3, <1>8, GiveBackIs
<1> HIDE DEF d
<1>10. d.queue = x /\ d.count = c.count /\ d.wait = c.wait /\ Same(c, d)
  BY <1>8, <1>9 DEF Fields, Same
<1>11. Released(c, d, a, pos)
  <2>1. d.queue = Cut(c.queue, a, pos)
    BY <1>10 DEF x
  <2>2. \A b \in Frames : d.given[b] = IF b \in Held(SubSeq(c.queue, a, pos - 1))
                                      THEN c.given[b] + 1 ELSE c.given[b]
    BY <1>8, <1>9 DEF F
  <2>3. a > c.count /\ d.count = c.count
    BY <1>4, <1>10
  <2>4. DOMAIN d = Fields /\ d.wait \in BOOLEAN /\ Same(c, d) /\ d.given \in [Frames -> Nat]
    BY <1>3, <1>9, <1>10
  <2> QED BY <2>1, <2>2, <2>3, <2>4 DEF Released
<1>12. Step(c, d, T, B, {}) /\ Len(d.queue) = Len(q) - (pos - a)
  <2>1. a \in 1..(Len(c.queue) + 1) /\ pos \in a..(Len(c.queue) + 1) /\ Good(c, T, B)
    BY <1>1, <1>4
  <2>2. Step(c, d, T, B, {}) /\ Len(d.queue) = Len(c.queue) - (pos - a)
    BY <1>11, <2>1, ReleaseSteps
  <2> QED BY <2>2
<1>13. Good(d, T, B) /\ Arrives(d, s, f, T, B)
  BY <1>12, ArrivesStays DEF Step
<1>14. Good(d, U, B) /\ N \cap Held(d.queue) = {}
  BY <1>13, NewMoves
<1>15. Replaces(d, a, p, U, B, N)
  <2>1. \A i \in 1..Len(q) : i < pos => Before(q[i].frame, p, U)
    BY <1>2 DEF Replaces
  <2>0. q \in Seq(Node) /\ a \in 1..(Len(q) + 1) /\ pos \in a..(Len(q) + 1)
    BY <1>2, <1>4
  <2>2. \A k \in 1..(a - 1) : x[k] = q[k]
    <3> HIDE DEF q
    <3> QED BY <2>0, CutIs DEF x
  <2>3. x \in Seq(Node)
    BY <2>0, CutIs DEF x
  <2>4. DOMAIN x = 1..Len(x) /\ Len(x) \in Nat
    BY <2>3, LenProperties
  <2>5. ASSUME NEW i \in DOMAIN x, i < a PROVE Before(x[i].frame, p, U)
    <3>1. i \in 1..(a - 1) /\ i \in 1..Len(q) /\ i < pos
      BY <1>2, <1>4, <2>4, <2>5
    <3>2. x[i] = q[i]
      BY <2>2, <3>1
    <3> QED BY <2>1, <3>1, <3>2
  <2>6. /\ p \in Node /\ NodeIs(p, c.attr.low, U, B) /\ p.frame <= q[pos].frame
        /\ \A F1 \in Ids(c.sent) : Before(F1, p, U)
        /\ FramesOf(p) = FramesOf(q[pos]) \cup N
    BY DEF Replaces
  <2>7. d.attr = c.attr /\ d.sent = c.sent /\ d.queue = x
    BY <1>10 DEF Same
  <2>8. x[a] = q[pos]
    BY <1>7
  <2> HIDE DEF N, q
  <2> QED BY <1>14, <2>5, <2>6, <2>7, <2>8 DEF Replaces
<1>16. /\ DOMAIN c1 = Fields /\ c1.given = c.given /\ c1.count = c.count + 1
       /\ c1.wait \in BOOLEAN /\ Same(c, c1)
  BY DEF Put
<1>17. /\ DOMAIN e1 = Fields /\ e1.queue = Cut(r, a, pos) /\ e1.given = c.given
       /\ e1.wait \in BOOLEAN /\ e1.count = c.count + 1 /\ Same(c, e1)
  <2> DEFINE y == Cut(r, a, pos)
  <2> HIDE DEF y
  <2>1. /\ DOMAIN [c1 EXCEPT !.queue = y] = Fields /\ [c1 EXCEPT !.queue = y].queue = y
        /\ [c1 EXCEPT !.queue = y].given = c1.given
        /\ [c1 EXCEPT !.queue = y].wait = c1.wait
        /\ [c1 EXCEPT !.queue = y].count = c1.count /\ Same(c1, [c1 EXCEPT !.queue = y])
    BY <1>16 DEF Fields, Same
  <2>2. e1 = [c1 EXCEPT !.queue = y]
    BY DEF y
  <2> HIDE DEF e1
  <2> QED BY <1>16, <2>1, <2>2 DEF y, Same
<1> HIDE DEF e1
<1>18. /\ DOMAIN d1 = Fields /\ \A y \in Fields \ {"given"} : d1[y] = e1[y]
       /\ d1.given \in [Frames -> Nat]
       /\ \A b \in Frames : d1.given[b] = IF b \in F THEN e1.given[b] + 1 ELSE e1.given[b]
  BY <1>3, <1>17, GiveBackIs
<1> HIDE DEF d1
<1>19. d1.queue = Cut(r, a, pos) /\ d1.count = c.count + 1 /\ d1.wait \in BOOLEAN /\ Same(c, d1)
  BY <1>17, <1>18 DEF Fields, Same
<1>20. d1.given = d.given
  <2>1. \A b \in Frames : d1.given[b] = d.given[b]
    BY <1>8, <1>9, <1>17, <1>18
  <2> QED BY <1>9, <1>18, <2>1
<1>21. Put(d, d1, a, p)
  <2>1. d1.queue = [d.queue EXCEPT ![a] = p]
    BY <1>7, <1>10, <1>19
  <2>2. Same(d, d1)
    BY <1>10, <1>19 DEF Same
  <2> QED BY <1>10, <1>18, <1>19, <1>20, <2>1, <2>2 DEF Put
<1>22. Step(d, d1, U, B, N)
  <2>1. a \in 1..Len(d.queue) /\ a > d.count /\ a = d.count + 1
    BY <1>4, <1>7, <1>10
  <2> QED BY <1>14, <1>15, <1>21, <2>1, PutSteps
<1>23. ReleaseOlder(c1, a, pos) = d1
  BY <1>7 DEF ReleaseOlder, d1, e1, F, r, Cut
<1>24. Step(c, d1, U, B, N)
  BY <1>12, <1>22, ThenArrival
<1> QED BY <1>23, <1>24

\* The super buffers before the one that is complete are older than it.
LEMMA OlderFirst ==
  ASSUME NEW c, NEW s, NEW f, NEW T, NEW B, NEW U, U = Plus(T, s, f), Arrives(c, s, f, T, B),
         NEW pos \in 1..Len(c.queue), pos > c.count + 1, NEW p, Matched(p), p.frame \in Nat,
         p.frame <= f, Replaces(c, pos, p, U, B, {<<s, f>>})
  PROVE  First(OlderSet(c, f)) = c.count + 1
<1> DEFINE q == c.queue
           k == c.count
           I == OlderSet(c, f)
<1>1. Good(c, T, B) /\ f \in Nat
  BY MetaIn DEF Arrives
<1>2. /\ Len(q) \in Nat /\ k \in Nat /\ DOMAIN q = 1..Len(q)
      /\ \A i \in 1..Len(q) : q[i] \in Node
      /\ \A i \in 1..Len(q) : Matched(q[i]) <=> i <= k
  BY <1>1, QueueFacts
<1>3. k + 1 \in 1..Len(q) /\ k + 1 < pos /\ ~(k + 1 <= k)
  BY <1>2
<1>4. q[k + 1].frame < f
  <2>1. Before(q[k + 1].frame, p, U)
    BY <1>2, <1>3 DEF Replaces
  <2>2. ~Dead(p, U)
    BY DeadIsUnmatched DEF Unmatched
  <2>3. q[k + 1].frame < p.frame
    BY <2>1, <2>2 DEF Before
  <2>4. q[k + 1].frame \in Nat
    BY <1>2, <1>3, NodeFields
  <2> QED BY <1>1, <2>3, <2>4
<1>5. k + 1 \in I
  BY <1>2, <1>3, <1>4 DEF OlderSet, Unmatched
<1>6. I \in SUBSET (1..Len(q))
  BY DEF OlderSet
<1>7. \A i \in I : k + 1 <= i
  BY <1>2 DEF OlderSet, Unmatched
<1> HIDE DEF I, k
<1>8. First(I) \in I /\ \A i \in I : First(I) <= i
  <2>1. I # {}
    BY <1>5
  <2> QED BY <1>2, <1>6, <2>1, FirstIs
<1>9. First(I) = k + 1
  <2>1. First(I) <= k + 1 /\ k + 1 <= First(I)
    BY <1>5, <1>7, <1>8
  <2>0. First(I) \in 1..Len(q)
    BY <1>6, <1>8
  <2>2. First(I) \in Nat
    BY <1>2, <2>0
  <2> DEFINE x == First(I)
             y == k + 1
  <2>3. x \in Nat /\ y \in Nat /\ x <= y /\ y <= x
    BY <1>2, <2>1, <2>2 DEF k
  <2> HIDE DEF x, y
  <2>4. x = y
    BY <2>3
  <2> QED BY <2>4 DEF x, y
<1> QED BY <1>9 DEF I, k

\* A frame that fits a node is put into it; a super buffer it completes releases
\* the older ones.
LEMMA FillSteps ==
  ASSUME NEW c, NEW s, NEW f, NEW T, NEW B, NEW U, U = Plus(T, s, f), Arrives(c, s, f, T, B),
         NEW pos, pos = First(FitSet(c, s, f)), pos # 0,
         NEW older, older = First(OlderSet(c, f))
  PROVE  Step(c, Fill(c, pos, older, s, f), U, B, {<<s, f>>})
<1> DEFINE q == c.queue
           N == {<<s, f>>}
           n == q[pos]
           n1 == FrameIdOf(n, f)
           m == Filled(n, s, f)
           put(x) == [c EXCEPT !.queue[pos] = x]
<1>1. /\ Good(c, T, B) /\ Good(c, U, B) /\ s \in Streams /\ f \in 1..MaxFrame /\ f \in Nat
      /\ \A b \in T : b[1] = s => b[2] < f
      /\ s \in Linked \/ s \in B
  BY NewMoves, MetaIn DEF Arrives
<1>2. /\ q \in Seq(Node) /\ Len(q) \in Nat /\ DOMAIN q = 1..Len(q) /\ c.count \in Nat
      /\ \A i \in 1..Len(q) : q[i] \in Node
      /\ \A i \in 1..Len(q) : Matched(q[i]) <=> i <= c.count
  BY <1>1, QueueFacts
<1>3. pos \in FitSet(c, s, f) /\ \A i \in FitSet(c, s, f) : pos <= i
  <2>1. FitSet(c, s, f) \in SUBSET (1..Len(q))
    BY DEF FitSet
  <2> QED BY <1>2, <2>1, FirstIs
<1>4. pos \in 1..Len(q) /\ pos > c.count /\ n \in Node
  <2>1. pos \in 1..Len(q) /\ ~Matched(q[pos])
    BY <1>3 DEF FitSet, Unmatched
  <2>2. pos > c.count
    BY <1>2, <2>1
  <2> QED BY <1>2, <2>1, <2>2
<1>5. DOMAIN c = Fields /\ c.wait \in BOOLEAN
  BY <1>1, TypedFacts
<1>6. n.bufs[s] # 0 => n1 = n
  <2>1. NodeIs(n, c.attr.low, T, B)
    <3>1. QInv(q, c.count, c.attr.low, T, B, Ids(c.sent))
      BY <1>1, Zenon DEF Good
    <3>3. Nodes(q, c.attr.low, T, B)
      BY <3>1, Zenon DEF QInv
    <3>2. pos \in DOMAIN q
      BY <1>2, <1>4, Zenon
    <3> QED BY <3>2, <3>3, Zenon DEF Nodes
  <2>2. FitsIn(c.attr.low, n, s, f)
    BY <1>3 DEF FitSet, Fits, FitsIn
  <2>3. IsNew(s, f, T, U)
    BY <1>1 DEF IsNew, Plus
  <2>4. s \in Linked \/ s \in B
    BY <1>1
  <2>5. n \in Node /\ s \in Streams /\ f \in 1..MaxFrame /\ m = Filled(n, s, f)
    BY <1>1, <1>4
  <2> HIDE DEF n, m
  <2>6. n.bufs[s] # 0 => FrameIdOf(n, f) = n
    BY <2>1, <2>2, <2>3, <2>4, <2>5, FillNode
  <2> QED BY <2>6
<1>7. n1 \in Node /\ n1.bufs = n.bufs
  BY <1>1, <1>4, FrameIdIs
<1>8. CASE n.bufs[s] # 0
  <2> DEFINE e == put(n)
  <2>1. Fill(c, pos, older, s, f) = GiveBack(e, N)
    BY <1>6, <1>7, <1>8 DEF Fill
  <2>2. Like(c, e)
    <3>1. [q EXCEPT ![pos] = q[pos]] = q
      BY <1>2
    <3>2. e = [c EXCEPT !.queue = [q EXCEPT ![pos] = q[pos]]]
      BY <1>5 DEF Fields
    <3>3. e = [c EXCEPT !.queue = q]
      BY <3>1, <3>2
    <3> HIDE DEF e, q
    <3>4. Like(c, [c EXCEPT !.queue = q])
      BY <1>5 DEF Like, Same, Fields, q
    <3> QED BY <3>3, <3>4
  <2> HIDE DEF e
  <2>3. Step(c, e, T, B, {})
    BY <1>1, <2>2, LikeSteps
  <2>4. Arrives(e, s, f, T, B)
    BY <2>3, ArrivesStays
  <2>5. Step(e, GiveBack(e, N), U, B, N)
    BY <2>4, ReturnSteps
  <2> QED BY <2>1, <2>3, <2>5, ThenArrival
<1>9. CASE n.bufs[s] = 0
  <2>1. m \in Node /\ m = [n1 EXCEPT !.bufs[s] = f]
    BY <1>1, <1>4, FilledIs DEF Filled
  <2>2. Replaces(c, pos, m, U, B, N)
    BY <1>3, <1>4, <1>9, FillBefore
  <2>3. m.frame <= f
    <3>1. NodeIs(n, c.attr.low, T, B)
      BY <1>1, <1>2, <1>4 DEF Good, QInv, Nodes
    <3>2. FitsIn(c.attr.low, n, s, f)
      BY <1>3 DEF FitSet, Fits, FitsIn
    <3>3. IsNew(s, f, T, U)
      BY <1>1 DEF IsNew, Plus
    <3>4. s \in Linked \/ s \in B
      BY <1>1
    <3>5. m = Filled(n, s, f)
      OBVIOUS
    <3> HIDE DEF n, m
    <3>6. FillsTo(n, m, s, f, c.attr.low, U, B)
      BY <1>1, <1>4, <1>9, <3>1, <3>2, <3>3, <3>4, <3>5, FillNode
    <3> QED BY <3>6 DEF FillsTo
  <2> HIDE DEF m
  <2>4. m.frame \in Nat
    BY <2>1, NodeFields
  <2>5. CASE ~Matched(m) /\ c.diverted # f
    <3> DEFINE d == put(m)
    <3>1. Fill(c, pos, older, s, f) = d
      BY <1>7, <1>9, <2>1, <2>5 DEF Fill
    <3>2. d = [c EXCEPT !.queue[pos] = m]
      OBVIOUS
    <3> HIDE DEF d
    <3>5. Laid(c, d, pos, m)
      BY <1>1, <1>4, <2>1, <3>2, PutIs
    <3>3. Put(c, d, pos, m)
      BY <2>5, <3>5 DEF Put, Laid
    <3>4. Step(c, d, U, B, N)
      BY <1>1, <1>4, <2>2, <2>5, <3>3, PutSteps
    <3> QED BY <3>1, <3>4
  <2>6. CASE ~Matched(m) /\ c.diverted = f
    <3> DEFINE p == [m EXCEPT !.keep = TRUE]
               e == put(p)
               d == [e EXCEPT !.diverted = 0]
    <3>1. Fill(c, pos, older, s, f) = d
      BY <1>7, <1>9, <2>1, <2>6 DEF Fill
    <3>2. Alike(m, p)
      BY <2>1, KeepIs
    <3> HIDE DEF p
    <3>3. Replaces(c, pos, p, U, B, N) /\ ~Matched(p) /\ p \in Node
      BY <2>1, <2>2, <2>6, <3>2, ReplacesAlike, AlikeIs DEF Alike
    <3>4. e = [c EXCEPT !.queue[pos] = p]
      OBVIOUS
    <3> HIDE DEF e
    <3>5. Laid(c, e, pos, p)
      BY <1>1, <1>4, <3>3, <3>4, PutIs
    <3>6. /\ DOMAIN d = Fields /\ d.queue = e.queue /\ d.count = e.count
          /\ d.given = e.given /\ d.wait = e.wait /\ Same(e, d)
      BY <3>5 DEF Fields, Same, Laid
    <3> HIDE DEF d
    <3>7. Put(c, d, pos, p)
      BY <3>3, <3>5, <3>6 DEF Put, Same, Laid
    <3>8. Step(c, d, U, B, N)
      BY <1>1, <1>4, <3>3, <3>7, PutSteps
    <3> QED BY <3>1, <3>8
  <2>7. CASE Matched(m)
    <3> DEFINE p == [m EXCEPT !.keep = FALSE]
               e == put(p)
               c1 == Completed(e, f)
    <3>1. Fill(c, pos, older, s, f) =
            IF older \in 1..(pos - 1) THEN ReleaseOlder(c1, older, pos) ELSE c1
      BY <1>7, <1>9, <2>1, <2>7 DEF Fill
    <3>2. Alike(m, p)
      BY <2>1, KeepIs
    <3> HIDE DEF p
    <3>3. Replaces(c, pos, p, U, B, N) /\ Matched(p) /\ p \in Node /\ p.frame = m.frame
      BY <2>1, <2>2, <2>7, <3>2, ReplacesAlike, AlikeIs DEF Alike
    <3>4. e = [c EXCEPT !.queue[pos] = p]
      OBVIOUS
    <3> HIDE DEF e
    <3>5. Laid(c, e, pos, p)
      BY <1>1, <1>4, <3>3, <3>4, PutIs
    <3>6. /\ DOMAIN c1 = Fields /\ c1.queue = e.queue /\ c1.given = e.given
          /\ c1.count = e.count + 1 /\ c1.wait = e.wait /\ Same(e, c1)
      BY <3>5, CompletedIs DEF Laid
    <3> HIDE DEF c1
    <3>7. Put(c, c1, pos, p)
      BY <3>3, <3>5, <3>6 DEF Put, Same, Laid
    <3>8. CASE pos = c.count + 1
      <4>1. ~(older \in 1..(pos - 1))
        <5> SUFFICES ASSUME older \in 1..(pos - 1) PROVE FALSE
          OBVIOUS
        <5>1. OlderSet(c, f) \in SUBSET (1..Len(q))
          BY DEF OlderSet
        <5>2. older # 0 /\ older <= c.count
          BY <1>2, <3>8
        <5>3. older \in OlderSet(c, f)
          BY <1>2, <5>1, <5>2, FirstIs
        <5> QED BY <1>2, <5>2, <5>3 DEF OlderSet, Unmatched
      <4>2. Step(c, c1, U, B, N)
        BY <1>1, <1>4, <3>3, <3>7, <3>8, PutSteps
      <4> QED BY <3>1, <4>1, <4>2
    <3>9. CASE pos # c.count + 1
      <4>1. pos > c.count + 1
        BY <1>2, <1>4, <3>9
      <4>2. older = c.count + 1
        BY <1>4, <2>3, <2>4, <3>3, <4>1, OlderFirst
      <4>3. older \in 1..(pos - 1)
        BY <1>2, <1>4, <4>1, <4>2
      <4>4. Step(c, ReleaseOlder(c1, older, pos), U, B, N)
        <5>1. pos > older
          BY <4>1, <4>2
        <5> QED BY <1>4, <3>3, <3>7, <4>2, <5>1, CompleteLaterSteps
      <4> QED BY <3>1, <4>3, <4>4
    <3> QED BY <3>8, <3>9
  <2> QED BY <2>5, <2>6, <2>7
<1> QED BY <1>8, <1>9

\* newer is the first incomplete super buffer younger than f, if any, and the
\* incomplete ones before it are older than f.
Placed(c, newer, f) ==
  /\ newer \in 0..Len(c.queue)
  /\ newer # 0 => newer > c.count /\ c.queue[newer].frame > f
  /\ \A x \in 1..Len(c.queue) : x > c.count /\ (newer = 0 \/ x < newer) => c.queue[x].frame < f

\* The first newer node is the place of a new one.
LEMMA NewerPlaced ==
  ASSUME NEW c, NEW s, NEW f, NEW T, NEW B, Arrives(c, s, f, T, B),
         FitSet(c, s, f) = {}, NEW newer, newer = First(NewerSet(c, f))
  PROVE  Placed(c, newer, f)
<1> DEFINE q == c.queue
           I == NewerSet(c, f)
<1>1. Good(c, T, B) /\ f \in Nat
  BY MetaIn DEF Arrives
<1>2. /\ Len(q) \in Nat /\ c.count \in Nat /\ DOMAIN q = 1..Len(q)
      /\ \A i \in 1..Len(q) : q[i] \in Node
      /\ \A i \in 1..Len(q) : Matched(q[i]) <=> i <= c.count
  BY <1>1, QueueFacts
<1>3. I \in SUBSET (1..Len(q))
  BY DEF NewerSet
<1>4. /\ newer \in 0..Len(q) /\ (newer = 0 <=> I = {})
      /\ newer # 0 => newer \in I /\ \A i \in I : newer <= i
  <2> HIDE DEF I
  <2> QED BY <1>2, <1>3, FirstIs DEF I
<1>5. newer # 0 => newer > c.count /\ q[newer].frame > f
  <2> SUFFICES ASSUME newer # 0 PROVE newer > c.count /\ q[newer].frame > f
    OBVIOUS
  <2>1. newer \in 1..Len(q) /\ ~Matched(q[newer]) /\ q[newer].frame > f
    BY <1>4 DEF NewerSet, Unmatched
  <2> QED BY <1>2, <2>1
<1>6. ASSUME NEW x \in 1..Len(q), x > c.count, newer = 0 \/ x < newer
      PROVE  q[x].frame < f
  <2>1. Unmatched(q[x]) /\ q[x].frame \in Nat
    BY <1>2, <1>6, NodeFields DEF Unmatched
  <2>2. x \notin I
    BY <1>2, <1>4, <1>6
  <2>3. ~(q[x].frame > f)
    BY <2>1, <2>2 DEF NewerSet
  <2>4. q[x].frame # f
    BY <2>1 DEF FitSet, Fits
  <2> QED BY <1>1, <2>1, <2>3, <2>4
<1> QED BY <1>4, <1>5, <1>6 DEF Placed

\* Making room is a step, and afterwards there is room for a node at that place.
LEMMA RoomSteps ==
  ASSUME NEW c, NEW T, NEW B, Good(c, T, B), NEW f \in Nat, NEW newer, Placed(c, newer, f),
         NEW older, older = First(OlderSet(c, f)),
         older # 0 \/ CountUnmatched(c.queue) <= c.attr.unmatched,
         NEW d, d = MakeRoom(c, older, newer).chan,
         NEW w, w = MakeRoom(c, older, newer).newer
  PROVE  /\ Step(c, d, T, B, {}) /\ Placed(d, w, f)
         /\ Len(d.queue) - d.count <= d.attr.unmatched
<1> DEFINE q == c.queue
           l == Len(q)
           u == c.attr.unmatched
<1>1. /\ q \in Seq(Node) /\ l \in Nat /\ c.count \in Nat /\ c.count <= l
      /\ \A i \in 1..l : q[i] \in Node
      /\ \A i \in 1..l : Matched(q[i]) <=> i <= c.count
      /\ CountUnmatched(q) = l - c.count
  BY QueueFacts
<1>2. u \in Nat
  BY TypedFacts
<1>3. CASE CountUnmatched(q) <= u
  <2>1. d = c /\ w = newer
    BY <1>3 DEF MakeRoom
  <2> QED BY <1>1, <1>3, <2>1, LikeSelf
<1>4. CASE ~(CountUnmatched(q) <= u)
  <2> DEFINE R == {k \in older..l : ~q[k].keep /\ k # newer}
             Pick(j) == IF R = {} THEN j = older ELSE j \in R /\ \A k \in R : j <= k
             i == CHOOSE j \in 1..l : Pick(j)
  <2>1. d = Drop(c, i) /\ w = IF newer > i THEN newer - 1 ELSE newer
    BY <1>4 DEF MakeRoom
  <2>2. OlderSet(c, f) \in SUBSET (1..l)
    BY DEF OlderSet
  <2>3. older \in OlderSet(c, f)
    BY <1>1, <1>4, <2>2, FirstIs
  <2>4. older \in 1..l /\ older > c.count /\ older # newer
    <3>1. older \in 1..l /\ ~Matched(q[older]) /\ q[older].frame < f
      BY <2>3 DEF OlderSet, Unmatched
    <3>2. older > c.count
      BY <1>1, <3>1
    <3>3. q[older].frame \in Nat
      BY <1>1, <3>1, NodeFields
    <3>4. older # newer
      <4> SUFFICES ASSUME older = newer PROVE FALSE
        OBVIOUS
      <4>1. newer # 0
        BY <3>1
      <4>2. q[older].frame > f
        BY <4>1 DEF Placed
      <4> QED BY <3>1, <3>3, <4>2
    <3> QED BY <3>1, <3>2, <3>4
  <2>5. R \in SUBSET (1..l)
    BY <1>1, <2>4
  <2>6. \E j \in 1..l : Pick(j)
    <3>1. CASE R = {}
      BY <2>4, <3>1
    <3>2. CASE R # {}
      <4> HIDE DEF R
      <4>1. Min(R) \in R /\ \A k \in R : Min(R) <= k
        BY <1>1, <2>5, <3>2, MinIs
      <4> QED BY <2>5, <3>2, <4>1
    <3> QED BY <3>1, <3>2
  <2>7. i \in 1..l /\ Pick(i)
    BY <2>6
  <2> HIDE DEF i
  <2>8. i \in older..l /\ i # newer
    BY <1>1, <2>4, <2>7
  <2>9. i \in 1..l /\ i > c.count /\ i \in Nat
    BY <1>1, <2>4, <2>8
  <2> HIDE DEF R
  <2>10. /\ Step(c, d, T, B, {}) /\ d.count = c.count /\ d.queue = Cut(q, i, i + 1)
         /\ Len(d.queue) = l - 1
    BY <2>1, <2>9, DropSteps
  <2>11. Len(d.queue) - d.count <= d.attr.unmatched
    <3>1. l - c.count <= u + 1
      BY DEF Good
    <3>2. d.attr.unmatched = u
      BY <2>10 DEF Step, Same
    <3> HIDE DEF u, l
    <3>3. (l - 1) - c.count <= u
      BY <1>1, <1>2, <3>1
    <3> QED BY <2>10, <3>2, <3>3
  <2> DEFINE r == d.queue
             j1 == i + 1
  <2>12. /\ \A x \in 1..(i - 1) : r[x] = q[x]
         /\ \A x \in i..(l - 1) : r[x] = q[x + 1]
    <3>0. j1 = i + 1 /\ j1 - i = 1
      BY <2>9
    <3>1. i \in 1..(Len(q) + 1) /\ j1 \in i..(Len(q) + 1) /\ r = Cut(q, i, j1)
      BY <1>1, <2>9, <2>10
    <3> HIDE DEF j1, r, q
    <3>2. q \in Seq(Node)
      BY <1>1
    <3>3. /\ \A x \in 1..(i - 1) : Cut(q, i, j1)[x] = q[x]
          /\ \A x \in i..(Len(q) - (j1 - i)) : Cut(q, i, j1)[x] = q[x + (j1 - i)]
      BY <3>1, <3>2, CutIs
    <3> QED BY <3>0, <3>1, <3>3
  <2> HIDE DEF r
  <2>13. newer \in 0..l /\ (newer # 0 => newer > c.count /\ q[newer].frame > f)
         /\ \A x \in 1..l : x > c.count /\ (newer = 0 \/ x < newer) => q[x].frame < f
    BY DEF Placed
  <2>14. newer = 0 => w = 0
    BY <2>1, <2>9
  <2>15. newer # 0 => w \in 1..(l - 1) /\ w > c.count /\ r[w] = q[newer]
    <3> SUFFICES ASSUME newer # 0 PROVE w \in 1..(l - 1) /\ w > c.count /\ r[w] = q[newer]
      OBVIOUS
    <3>1. newer \in 1..l /\ newer > c.count
      BY <1>1, <2>13
    <3>2. CASE newer > i
      <4>1. w = newer - 1 /\ w \in i..(l - 1) /\ w + 1 = newer /\ w \in 1..(l - 1) /\ w > c.count
        BY <1>1, <2>1, <2>9, <3>1, <3>2
      <4> QED BY <2>12, <4>1
    <3>3. CASE ~(newer > i)
      <4>1. w = newer /\ w \in 1..(i - 1) /\ w \in 1..(l - 1)
        BY <1>1, <2>1, <2>8, <2>9, <3>1, <3>3
      <4> QED BY <2>12, <3>1, <4>1
    <3> QED BY <3>2, <3>3
  <2>16. ASSUME NEW x \in 1..(l - 1), x > c.count, w = 0 \/ x < w
         PROVE  r[x].frame < f
    <3>1. CASE x < i
      <4>1. x \in 1..(i - 1) /\ x \in 1..l /\ (newer = 0 \/ x < newer)
        BY <1>1, <2>1, <2>9, <2>13, <2>15, <2>16, <3>1
      <4> QED BY <2>12, <2>13, <2>16, <4>1
    <3>2. CASE ~(x < i)
      <4>1. x \in i..(l - 1) /\ x + 1 \in 1..l /\ x + 1 > c.count
        BY <1>1, <2>9, <2>16, <3>2
      <4>2. newer = 0 \/ x + 1 < newer
        <5> SUFFICES ASSUME newer # 0 PROVE x + 1 < newer
          OBVIOUS
        <5>1. w # 0 /\ x < w
          BY <1>1, <2>15, <2>16
        <5>2. newer \in Nat /\ i \in Nat /\ x \in Nat /\ ~(x < i)
          BY <1>1, <2>9, <2>13, <3>2
        <5>3. newer # i
          BY <2>8
        <5> HIDE DEF l
        <5> QED BY <2>1, <5>1, <5>2, <5>3
      <4> QED BY <2>12, <2>13, <4>1, <4>2
    <3> QED BY <3>1, <3>2
  <2>17. Placed(d, w, f)
    <3>1. w \in 0..(l - 1)
      BY <1>1, <2>9, <2>14, <2>15
    <3>2. w # 0 => newer # 0
      BY <2>14
    <3>3. w # 0 => w > c.count /\ r[w].frame > f
      BY <2>13, <2>15, <3>2
    <3>4. \A x \in 1..(l - 1) : x > c.count /\ (w = 0 \/ x < w) => r[x].frame < f
      BY <2>16
    <3>5. Len(d.queue) = l - 1 /\ d.count = c.count
      BY <2>10
    <3> HIDE DEF l, q
    <3> QED BY <3>1, <3>3, <3>4, <3>5 DEF Placed, r
  <2> QED BY <2>10, <2>11, <2>17
<1> QED BY <1>3, <1>4

\* The node of a frame alone.
Lone(c, s, f, keep) ==
  [frame |-> f, keep |-> keep, metaOnly |-> IF c.attr.low /\ s = Meta THEN f ELSE 0,
   bufs |-> [t \in Streams |-> IF t = s THEN f ELSE 0]]

\* A new node: it has the frame and no other.
LEMMA LoneIs ==
  ASSUME NEW c, NEW s, NEW f, NEW T, NEW B, NEW U, U = Plus(T, s, f), Arrives(c, s, f, T, B),
         NEW keep \in BOOLEAN, NEW n, n = Lone(c, s, f, keep)
  PROVE  /\ n \in Node /\ n.frame = f /\ n.bufs[s] = f
         /\ \A t \in Streams \ {s} : n.bufs[t] = 0
         /\ NodeIs(n, c.attr.low, U, B)
         /\ FramesOf(n) = {<<s, f>>}
         /\ Matched(n) <=> Streams = {s}
<1>1. /\ s \in Streams /\ f \in 1..MaxFrame /\ f # 0 /\ f \in 0..MaxFrame /\ 0 \in 0..MaxFrame
      /\ s \in Linked \/ s \in B
  BY MetaIn DEF Arrives
<1> DEFINE b == [t \in Streams |-> IF t = s THEN f ELSE 0]
           x == IF c.attr.low /\ s = Meta THEN f ELSE 0
<1>2. b \in [Streams -> 0..MaxFrame] /\ b[s] = f /\ \A t \in Streams \ {s} : b[t] = 0
  BY <1>1
<1>3. x \in 0..MaxFrame
  BY <1>1
<1>4. n = [frame |-> f, keep |-> keep, metaOnly |-> x, bufs |-> b]
  BY DEF Lone
<1> HIDE DEF b
<1>5. n.frame = f /\ n.keep = keep /\ n.metaOnly = x /\ n.bufs = b
  BY <1>4
<1>6. n \in Node
  <2> HIDE DEF x
  <2> QED BY <1>1, <1>2, <1>3, <1>4 DEF Node
<1>7. Fitting(n, c.attr.low)
  <2>1. \A t \in Other : n.bufs[t] \in {0, n.frame}
    BY <1>2, <1>5 DEF Other
  <2>2. n.metaOnly # 0 => n.metaOnly = f /\ s = Meta
    BY <1>5
  <2>3. s = Meta => \A t \in Other : n.bufs[t] = 0
    BY <1>2, <1>5 DEF Other
  <2>4. n.metaOnly = 0 /\ c.attr.low => s \in Other
    BY <1>1, <1>5 DEF Other
  <2>5. n.bufs[s] = n.frame /\ n.bufs[s] # 0
    BY <1>1, <1>2, <1>5
  <2>6. Streams = {Meta} => s = Meta
    BY <1>1
  <2> HIDE DEF x
  <2> QED BY <1>1, <1>5, <2>1, <2>2, <2>3, <2>4, <2>5, <2>6 DEF Fitting
<1>8. From(n, U, B)
  <2>1. <<s, f>> \in U
    BY DEF Plus
  <2> SUFFICES ASSUME NEW t \in Streams, n.bufs[t] # 0
               PROVE  <<t, n.bufs[t]>> \in U /\ (t \in Linked \/ t \in B)
    BY DEF From
  <2>2. t = s
    BY <1>2, <1>5
  <2> QED BY <1>1, <1>2, <1>5, <2>1, <2>2
<1>9. FramesOf(n) = {<<s, f>>}
  <2>1. \A t \in Streams, g \in 1..MaxFrame : <<t, g>> \in FramesOf(n) <=> t = s /\ g = f
    <3> TAKE t \in Streams, g \in 1..MaxFrame
    <3>1. <<t, g>> \in FramesOf(n) <=> n.bufs[t] = g /\ g # 0
      BY <1>6, FramesAre
    <3>2. g # 0
      BY MetaIn
    <3>3. CASE t = s
      BY <1>2, <1>5, <3>1, <3>2, <3>3
    <3>4. CASE t # s
      BY <1>2, <1>5, <3>1, <3>2, <3>4
    <3> QED BY <3>3, <3>4
  <2>2. \A z : z \in FramesOf(n) => \E t \in Streams, g \in 1..MaxFrame : z = <<t, g>>
    BY DEF FramesOf, Frames
  <2>3. <<s, f>> \in FramesOf(n)
    BY <1>1, <2>1
  <2>4. \A z : z \in FramesOf(n) => z = <<s, f>>
    <3> TAKE z
    <3> HAVE z \in FramesOf(n)
    <3>1. PICK t \in Streams, g \in 1..MaxFrame : z = <<t, g>>
      BY <2>2
    <3> QED BY <2>1, <3>1
  <2> QED BY <2>3, <2>4
<1>10. Matched(n) <=> Streams = {s}
  <2>1. CASE Streams = {s}
    BY <1>1, <1>2, <1>5, <2>1 DEF Matched
  <2>2. CASE Streams # {s}
    <3>1. PICK t \in Streams : t # s
      BY <1>1, <2>2
    <3>2. n.bufs[t] = 0
      BY <1>2, <1>5, <3>1
    <3> QED BY <2>2, <3>2 DEF Matched
  <2> QED BY <2>1, <2>2
<1> QED BY <1>2, <1>5, <1>6, <1>7, <1>8, <1>9, <1>10 DEF NodeIs

\* The super buffers before the place of a new one are older, or it is dead;
\* those after it are younger, or dead.
LEMMA PlaceKeeps ==
  ASSUME NEW c, NEW s, NEW f, NEW T, NEW B, NEW U, U = Plus(T, s, f), Arrives(c, s, f, T, B),
         NEW newer, Placed(c, newer, f), NEW n \in Node, n.frame = f,
         \A t \in Streams \ {s} : n.bufs[t] = 0,
         NEW p, p = PlaceOf(c, newer)
  PROVE  /\ p \in (c.count + 1)..(Len(c.queue) + 1)
         /\ \A F \in Ids(c.sent) : Before(F, n, U)
         /\ \A i \in DOMAIN c.queue : i < p => Before(c.queue[i].frame, n, U)
         /\ \A j \in DOMAIN c.queue : j >= p => Before(n.frame, c.queue[j], U)
<1> DEFINE q == c.queue
           l == Len(q)
           k == c.count
<1>1. /\ Good(c, T, B) /\ Good(c, U, B) /\ f \in Nat /\ s \in Streams /\ T \subseteq U
      /\ \A b \in T : b[1] = s => b[2] < f
      /\ \A F \in Ids(c.sent) : Delivered(F, T)
  BY NewMoves, MetaIn DEF Arrives
<1>2. /\ l \in Nat /\ k \in Nat /\ k <= l /\ DOMAIN q = 1..l
      /\ \A i \in 1..l : q[i] \in Node
      /\ \A i \in 1..l : Matched(q[i]) <=> i <= k
  BY <1>1, QueueFacts
<1>3. /\ newer \in 0..l
      /\ newer # 0 => newer > k /\ q[newer].frame > f
      /\ \A x \in 1..l : x > k /\ (newer = 0 \/ x < newer) => q[x].frame < f
  BY DEF Placed
<1>4. p = IF newer = 0 THEN l + 1 ELSE newer
  BY DEF PlaceOf
<1>5. p \in (k + 1)..(l + 1)
  BY <1>2, <1>3, <1>4
<1>6. ASSUME NEW F \in Nat, Delivered(F, T) PROVE Before(F, n, U)
  <2>1. CASE s # Meta \/ Streams = {Meta}
    <3>1. F < f
      <4>1. \A b \in T : b[1] = s => b[2] < f
        BY <1>1
      <4> QED BY <1>1, <1>6, <2>1, <4>1, DeliveredOlder
    <3> QED BY <3>1 DEF Before
  <2>2. CASE ~(s # Meta \/ Streams = {Meta})
    <3>1. PICK t \in Streams : t # Meta
      BY <1>1, <2>2
    <3>2. t \in Other /\ n.bufs[t] = 0
      BY <2>2, <3>1 DEF Other
    <3>3. <<t, F>> \in U /\ <<t, F>>[1] = t /\ <<t, F>>[2] = F
      BY <1>1, <1>6, <3>1 DEF Delivered
    <3>4. F >= f => Dead(n, U)
      BY <3>2, <3>3 DEF Dead
    <3>5. F < f \/ F >= f
      BY <1>1
    <3> QED BY <3>4, <3>5 DEF Before
  <2> QED BY <2>1, <2>2
<1>7. \A F \in Ids(c.sent) : Before(F, n, U)
  <2> TAKE F \in Ids(c.sent)
  <2>1. F \in 1..MaxFrame
    BY <1>1, IdsAre
  <2>2. F \in Nat
    BY <2>1, MetaIn
  <2> QED BY <1>1, <1>6, <2>2
<1>8. ASSUME NEW i \in 1..l, i < p PROVE Before(q[i].frame, n, U)
  <2>1. q[i] \in Node /\ q[i].frame \in Nat
    BY <1>2, NodeFields
  <2>2. CASE i <= k
    <3>1. Matched(q[i]) /\ NodeIs(q[i], c.attr.low, T, B)
      BY <1>1, <1>2, <2>2 DEF Good, QInv, Nodes
    <3>2. Delivered(q[i].frame, T)
      BY <2>1, <3>1, MatchedDelivered
    <3> QED BY <1>6, <2>1, <3>2
  <2>3. CASE i > k
    <3>1. q[i].frame < f
      BY <1>2, <1>3, <1>4, <1>8, <2>3
    <3> QED BY <3>1 DEF Before
  <2> QED BY <1>2, <2>2, <2>3
<1>9. ASSUME NEW j \in 1..l, j >= p PROVE Before(f, q[j], U)
  <2>1. newer # 0 /\ p = newer /\ newer \in 1..l
    BY <1>2, <1>3, <1>4, <1>9
  <2>2. q[newer].frame > f /\ q[newer] \in Node /\ q[newer].frame \in Nat
    BY <1>2, <1>3, <2>1, NodeFields
  <2>3. CASE j = newer
    BY <1>1, <2>2, <2>3 DEF Before
  <2>4. CASE j # newer
    <3>1. newer < j
      BY <1>9, <2>1, <2>4
    <3>2. Before(q[newer].frame, q[j], U)
      BY <1>1, <1>2, <2>1, <3>1 DEF Good, QInv, Ordered
    <3>3. q[j].frame \in Nat
      BY <1>2, NodeFields
    <3>4. q[newer].frame < q[j].frame => f < q[j].frame
      BY <1>1, <2>2, <3>3
    <3> QED BY <3>2, <3>4 DEF Before
  <2> QED BY <2>3, <2>4
<1>10. \A i \in DOMAIN q : i < p => Before(q[i].frame, n, U)
  BY <1>2, <1>8
<1>11. \A j \in DOMAIN q : j >= p => Before(n.frame, q[j], U)
  BY <1>2, <1>9
<1> QED BY <1>5, <1>7, <1>10, <1>11

\* A frame that fits no node makes a new one.
LEMMA InsertSteps ==
  ASSUME NEW c, NEW s, NEW f, NEW T, NEW B, NEW U, U = Plus(T, s, f), Arrives(c, s, f, T, B),
         NEW newer, Placed(c, newer, f), Len(c.queue) - c.count <= c.attr.unmatched
  PROVE  Step(c, Insert(c, newer, s, f), U, B, {<<s, f>>})
<1> DEFINE q == c.queue
           k == c.count
           N == {<<s, f>>}
           keep == f \in {c.diverted, c.good}
           n == Lone(c, s, f, keep)
           last == keep /\ ~Matched(n)
           m == [n EXCEPT !.keep = last]
           p == PlaceOf(c, newer)
           r == InsertAt(q, p, m)
           x == IF keep THEN 0 ELSE c.diverted
           c1 == [c EXCEPT !.queue = r, !.diverted = x]
           c2 == [c1 EXCEPT !.expected = f + c.attr.skip, !.count = @ + 1]
           d == IF Matched(n) THEN c2 ELSE c1
<1>1. /\ Good(c, T, B) /\ Good(c, U, B) /\ N \cap Held(q) = {} /\ s \in Streams
  BY NewMoves DEF Arrives
<1>2. /\ q \in Seq(Node) /\ Len(q) \in Nat /\ k \in Nat /\ k <= Len(q) /\ DOMAIN q = 1..Len(q)
      /\ \A i \in 1..Len(q) : q[i] \in Node
      /\ \A i \in 1..Len(q) : Matched(q[i]) <=> i <= k
  BY <1>1, QueueFacts
<1>3. /\ DOMAIN c = Fields /\ c.given \in [Frames -> Nat] /\ c.wait \in BOOLEAN
      /\ c.attr.unmatched \in Nat
  BY <1>1, TypedFacts
<1>4. keep \in BOOLEAN /\ last \in BOOLEAN
  OBVIOUS
<1>5. Insert(c, newer, s, f) = d
  BY <1>3 DEF Insert, Lone, Fields
<1> HIDE DEF keep
<1>6. /\ n \in Node /\ n.frame = f /\ n.bufs[s] = f
      /\ \A t \in Streams \ {s} : n.bufs[t] = 0
      /\ NodeIs(n, c.attr.low, U, B)
      /\ FramesOf(n) = N
      /\ Matched(n) <=> Streams = {s}
  BY <1>4, LoneIs
<1> HIDE DEF n, last
<1>7. Alike(n, m)
  BY <1>4, <1>6, KeepIs
<1> HIDE DEF m
<1>8. /\ m \in Node /\ m.frame = f /\ m.bufs = n.bufs
      /\ NodeIs(m, c.attr.low, U, B) /\ FramesOf(m) = N
      /\ (Matched(m) <=> Matched(n))
  BY <1>6, <1>7, AlikeIs DEF Alike
<1>9. /\ p \in (k + 1)..(Len(q) + 1)
      /\ \A F \in Ids(c.sent) : Before(F, m, U)
      /\ \A i \in DOMAIN q : i < p => Before(q[i].frame, m, U)
      /\ \A j \in DOMAIN q : j >= p => Before(m.frame, q[j], U)
  <2>1. \A t \in Streams \ {s} : m.bufs[t] = 0
    BY <1>6, <1>8
  <2>2. p = PlaceOf(c, newer)
    OBVIOUS
  <2> HIDE DEF p, N
  <2> QED BY <1>8, <2>1, <2>2, PlaceKeeps
<1>10. Matched(m) => p = k + 1 /\ k = Len(q)
  <2> SUFFICES ASSUME Matched(m) PROVE p = k + 1 /\ k = Len(q)
    OBVIOUS
  <2>1. Streams = {s}
    BY <1>6, <1>8
  <2>2. \A i \in 1..Len(q) : Matched(q[i])
    <3> TAKE i \in 1..Len(q)
    <3>1. NodeIs(q[i], c.attr.low, T, B)
      BY <1>1, <1>2 DEF Good, QInv, Nodes
    <3> QED BY <2>1, <3>1 DEF NodeIs, Fitting, Matched
  <2>3. k = Len(q)
    <3>1. Len(q) # 0 => Len(q) \in 1..Len(q)
      BY <1>2
    <3> QED BY <1>2, <2>2, <3>1
  <2>4. newer = 0
    BY <1>2, <2>3 DEF Placed
  <2> QED BY <1>2, <2>3, <2>4 DEF PlaceOf
<1> HIDE DEF p
<1>11. /\ r \in Seq(Node) /\ Len(r) = Len(q) + 1 /\ Held(r) = Held(q) \cup N
  <2>1. p \in 1..(Len(q) + 1)
    BY <1>2, <1>9
  <2> HIDE DEF q
  <2>2. r \in Seq(Node) /\ Len(r) = Len(q) + 1
    BY <1>2, <1>8, <2>1, InsertIs
  <2>3. Held(r) = Held(q) \cup FramesOf(m)
    BY <1>2, <1>8, <2>1, InsertHeld
  <2> QED BY <1>8, <2>2, <2>3
<1>12. /\ DOMAIN d = Fields /\ d.queue = r /\ d.given = c.given /\ d.wait = c.wait /\ Same(c, d)
       /\ d.count = IF Matched(n) THEN k + 1 ELSE k
  <2> HIDE DEF r, x
  <2>1. /\ DOMAIN c1 = Fields /\ c1.queue = r /\ c1.given = c.given /\ c1.wait = c.wait
        /\ Same(c, c1) /\ c1.count = k
    BY <1>3 DEF Fields, Same
  <2> HIDE DEF c1
  <2>2. /\ DOMAIN c2 = Fields /\ c2.queue = c1.queue /\ c2.given = c1.given /\ c2.wait = c1.wait
        /\ Same(c1, c2) /\ c2.count = c1.count + 1
    BY <2>1 DEF Fields, Same
  <2> HIDE DEF c2, k
  <2> QED BY <2>1, <2>2 DEF Same
<1> HIDE DEF d
<1>13. QInv(d.queue, d.count, c.attr.low, U, B, Ids(c.sent))
  <2>1. QInv(q, k, c.attr.low, U, B, Ids(c.sent))
    BY <1>1 DEF Good
  <2>2. \A i \in DOMAIN q : FramesOf(m) \cap FramesOf(q[i]) = {}
    BY <1>1, <1>8, HeldIs
  <2>3. d.count = IF Matched(m) THEN k + 1 ELSE k
    BY <1>8, <1>12
  <2>4. Matched(m) => p = k + 1
    BY <1>10
  <2> DEFINE low == c.attr.low
             D == Ids(c.sent)
             l == d.count
  <2>5. QInv(r, l, low, U, B, D)
    <3>1. NodeIs(m, low, U, B) /\ m \in Node /\ \A F \in D : Before(F, m, U)
      BY <1>8, <1>9
    <3>2. QInv(q, k, low, U, B, D) /\ l = IF Matched(m) THEN k + 1 ELSE k
      BY <2>1, <2>3
    <3> HIDE DEF q, k, low, D, l
    <3>3. /\ p \in (k + 1)..(Len(q) + 1)
          /\ \A i \in DOMAIN q : i < p => Before(q[i].frame, m, U)
          /\ \A j \in DOMAIN q : j >= p => Before(m.frame, q[j], U)
      BY <1>9
    <3> QED BY <2>2, <2>4, <3>1, <3>2, <3>3, InsertKeeps
  <2> QED BY <1>12, <2>5
<1>14. Typed(d)
  BY <1>1, <1>3, <1>12 DEF Good, Typed, Same
<1>15. Len(d.queue) - d.count <= d.attr.unmatched + 1
  <2> DEFINE u == c.attr.unmatched
             l == Len(q)
  <2>1. Len(d.queue) = l + 1 /\ d.attr.unmatched = u
    BY <1>11, <1>12 DEF Same
  <2>2. l - k <= u
    OBVIOUS
  <2>3. u \in Nat /\ l \in Nat /\ k \in Nat
    BY <1>2, <1>3
  <2> HIDE DEF u, l, k
  <2>4. (l + 1) - k <= u + 1 /\ (l + 1) - (k + 1) <= u + 1
    BY <2>2, <2>3
  <2> QED BY <1>12, <2>1, <2>4
<1>16. Good(d, U, B)
  BY <1>12, <1>13, <1>14, <1>15 DEF Good, Same
<1>17. Moves(c, d, N)
  BY <1>11, <1>12 DEF Moves
<1> QED BY <1>5, <1>12, <1>16, <1>17 DEF Step

\* A frame is enqueued.
LEMMA EnqueueSteps ==
  ASSUME NEW c, NEW s, NEW f, NEW T, NEW B, NEW U, U = Plus(T, s, f), Arrives(c, s, f, T, B)
  PROVE  Step(c, Enqueue(c, s, f), U, B, {<<s, f>>})
<1> DEFINE N == {<<s, f>>}
           pos == First(FitSet(c, s, f))
           older == First(OlderSet(c, f))
           newer == First(NewerSet(c, f))
           d == MakeRoom(c, older, newer).chan
           w == MakeRoom(c, older, newer).newer
<1>1. Enqueue(c, s, f) =
        IF Stale(c, f) THEN GiveBack(c, N)
        ELSE IF pos # 0 THEN Fill(c, pos, older, s, f)
        ELSE IF older = 0 /\ CountUnmatched(c.queue) > c.attr.unmatched THEN GiveBack(c, N)
        ELSE Insert(d, w, s, f)
  BY EnqueueIs
<1>2. Good(c, T, B) /\ f \in Nat
  BY NewMoves, MetaIn DEF Arrives
<1>3. CASE Stale(c, f) \/ (pos = 0 /\ older = 0 /\ CountUnmatched(c.queue) > c.attr.unmatched)
  <2>1. Enqueue(c, s, f) = GiveBack(c, N)
    BY <1>1, <1>3
  <2> QED BY <2>1, ReturnSteps
<1>4. CASE ~Stale(c, f) /\ pos # 0
  <2>1. Enqueue(c, s, f) = Fill(c, pos, older, s, f)
    BY <1>1, <1>4
  <2>2. pos = First(FitSet(c, s, f)) /\ older = First(OlderSet(c, f)) /\ pos # 0
    BY <1>4
  <2> HIDE DEF pos, older
  <2> QED BY <2>1, <2>2, FillSteps
<1>5. CASE ~Stale(c, f) /\ pos = 0 /\ ~(older = 0 /\ CountUnmatched(c.queue) > c.attr.unmatched)
  <2>1. Enqueue(c, s, f) = Insert(d, w, s, f)
    BY <1>1, <1>5
  <2>2. FitSet(c, s, f) = {}
    <3>1. Len(c.queue) \in Nat /\ FitSet(c, s, f) \in SUBSET (1..Len(c.queue))
      BY <1>2, QueueFacts DEF FitSet
    <3> QED BY <1>5, <3>1, FirstIs
  <2>3. older # 0 \/ CountUnmatched(c.queue) <= c.attr.unmatched
    <3>1. c.attr.unmatched \in Nat /\ CountUnmatched(c.queue) = Len(c.queue) - c.count
          /\ Len(c.queue) \in Nat /\ c.count \in Nat
      BY <1>2, QueueFacts, TypedFacts
    <3> DEFINE x == CountUnmatched(c.queue)
               y == c.attr.unmatched
    <3>2. x \in Int /\ y \in Int
      BY <3>1
    <3>3. ~(older = 0 /\ x > y)
      BY <1>5
    <3> HIDE DEF x, y
    <3>4. older # 0 \/ x <= y
      BY <3>2, <3>3
    <3> QED BY <3>4 DEF x, y
  <2>4. older = First(OlderSet(c, f)) /\ newer = First(NewerSet(c, f))
        /\ d = MakeRoom(c, older, newer).chan /\ w = MakeRoom(c, older, newer).newer
    OBVIOUS
  <2> HIDE DEF older, newer, d, w
  <2>5. Placed(c, newer, f)
    BY <2>2, <2>4, NewerPlaced
  <2>6. /\ Step(c, d, T, B, {}) /\ Placed(d, w, f)
        /\ Len(d.queue) - d.count <= d.attr.unmatched
    BY <1>2, <2>3, <2>4, <2>5, RoomSteps
  <2>7. Arrives(d, s, f, T, B)
    BY <2>6, ArrivesStays
  <2>8. Step(d, Insert(d, w, s, f), U, B, N)
    BY <2>6, <2>7, InsertSteps
  <2> QED BY <2>1, <2>6, <2>8, ThenArrival
<1> HIDE DEF pos, older
<1> QED BY <1>3, <1>4, <1>5

\* A frame and what its metadata says.
LEMMA CompAndEnqueueSteps ==
  ASSUME NEW c, NEW s, NEW f, NEW T, NEW B, NEW U, U = Plus(T, s, f), Arrives(c, s, f, T, B),
         NEW md \in Says
  PROVE  Step(c, comp_and_enqueue(c, s, f, md), U, B, {<<s, f>>})
<1> DEFINE d == handle_metadata(c, s, f, md)
<1>1. Good(c, T, B)
  BY DEF Arrives
<1>2. Step(c, d, T, B, {})
  BY <1>1, MetadataSteps
<1> HIDE DEF d
<1>3. Arrives(d, s, f, T, B)
  BY <1>2, ArrivesStays
<1>4. Step(d, Enqueue(d, s, f), U, B, {<<s, f>>})
  BY <1>3, EnqueueSteps
<1>5. Step(c, Enqueue(d, s, f), U, B, {<<s, f>>})
  BY <1>2, <1>4, ThenArrival
<1> QED BY <1>5 DEF comp_and_enqueue, d

-----------------------------------------------------------------------------
(* The end of a command.                                                   *)

\* A command up to the dispatch: like a step, but requests and the ZSL snapshot
\* may change.
Run(c, d, T, B, N) ==
  Good(d, T, B) /\ Moves(c, d, N) /\ d.attr = c.attr /\ d.sent = c.sent

\* Neither the queue nor what was given back changes.
Still(c, d) ==
  /\ DOMAIN d = Fields /\ d.queue = c.queue /\ d.count = c.count /\ d.given = c.given
  /\ d.attr = c.attr /\ d.sent = c.sent
  /\ d.pending \in Nat /\ d.retro \in Nat /\ d.wait \in BOOLEAN /\ d.zsl \in BOOLEAN

\* A change of other fields.
LEMMA StillRuns ==
  ASSUME NEW c, NEW d, NEW T, NEW B, Good(c, T, B), Still(c, d)
  PROVE  Run(c, d, T, B, {})
<1>1. Typed(d)
  BY DEF Good, Typed, Still
<1>2. Good(d, T, B)
  BY <1>1 DEF Good, Still
<1>3. Moves(c, d, {})
  BY DEF Moves, Still
<1> QED BY <1>2, <1>3 DEF Run, Still

\* A step is a part of a command.
LEMMA StepRuns ==
  ASSUME NEW c, NEW d, NEW T, NEW B, NEW N, Step(c, d, T, B, N)
  PROVE  Run(c, d, T, B, N)
BY DEF Step, Run, Same

\* A run after the frames N came.
LEMMA RunsCompose ==
  ASSUME NEW c, NEW d, NEW e, NEW T, NEW B, NEW N, Run(c, d, T, B, N), Run(d, e, T, B, {})
  PROVE  Run(c, e, T, B, N)
<1>1. Held(d.queue) \subseteq Held(c.queue) \cup N /\ Held(e.queue) \subseteq Held(d.queue)
  BY DEF Run, Moves
<1>2. ASSUME NEW b \in Frames
      PROVE  e.given[b] = IF b \in Held(c.queue) \cup N /\ b \notin Held(e.queue)
                          THEN c.given[b] + 1 ELSE c.given[b]
  <2>1. d.given[b] = IF b \in Held(c.queue) \cup N /\ b \notin Held(d.queue)
                     THEN c.given[b] + 1 ELSE c.given[b]
    BY DEF Run, Moves
  <2>2. e.given[b] = IF b \in Held(d.queue) /\ b \notin Held(e.queue)
                     THEN d.given[b] + 1 ELSE d.given[b]
    BY DEF Run, Moves
  <2>3. CASE b \in Held(d.queue)
    BY <1>1, <2>1, <2>2, <2>3
  <2>4. CASE b \notin Held(d.queue)
    BY <1>1, <2>1, <2>2, <2>4
  <2> QED BY <2>3, <2>4
<1>3. Moves(c, e, N)
  BY <1>1, <1>2 DEF Moves
<1> QED BY <1>3 DEF Run

\* The daemon's ZSL snapshot is on only for a request, from here on.
LEMMA StartStopRuns ==
  ASSUME NEW c, NEW T, NEW B, Good(c, T, B), NEW d, d = StartStopZsl(c)
  PROVE  /\ Run(c, d, T, B, {})
         /\ d.zsl => d.pending > 0
<1>1. DOMAIN c = Fields /\ c.wait \in BOOLEAN /\ c.zsl \in BOOLEAN
      /\ c.pending \in Nat /\ c.retro \in Nat
  BY TypedFacts
<1> DEFINE d1 == [c EXCEPT !.zsl = TRUE, !.burst = c.pending, !.wait = FALSE]
           d2 == [ZslStopped(c) EXCEPT !.wait = FALSE]
<1>2. CASE c.pending > 0 /\ (c.led \/ c.bracketing # "off") /\ ~c.zsl
  <2>1. d = d1
    BY <1>2 DEF StartStopZsl
  <2>2. Still(c, d1) /\ d1.pending = c.pending
    BY <1>1 DEF Still, Fields
  <2> HIDE DEF d1
  <2> QED BY <1>2, <2>1, <2>2, StillRuns
<1>3. CASE ~(c.pending > 0 /\ (c.led \/ c.bracketing # "off") /\ ~c.zsl)
           /\ c.zsl /\ (c.pending = 0 \/ c.stop)
  <2>1. d = d2
    BY <1>3 DEF StartStopZsl
  <2>2. Still(c, d2) /\ d2.zsl = FALSE
    BY <1>1 DEF Still, Fields, ZslStopped
  <2> HIDE DEF d2
  <2> QED BY <2>1, <2>2, StillRuns
<1>4. CASE ~(c.pending > 0 /\ (c.led \/ c.bracketing # "off") /\ ~c.zsl)
           /\ ~(c.zsl /\ (c.pending = 0 \/ c.stop))
  <2>1. d = c
    BY <1>4 DEF StartStopZsl
  <2>2. Still(c, c)
    BY <1>1 DEF Still
  <2>3. c.zsl => c.pending > 0
    BY <1>1, <1>4
  <2> QED BY <2>1, <2>2, <2>3, StillRuns
<1> QED BY <1>2, <1>3, <1>4

\* How many super buffers are sent.
LEMMA ToSendIs ==
  ASSUME NEW c, NEW T, NEW B, Good(c, T, B), NEW n, n = ToSend(c)
  PROVE  /\ n \in 0..c.count
         /\ c.wait => n = 0
         /\ c.attr.burst => n <= c.pending
         /\ c.attr.burst /\ c.retro > 0 => n <= c.retro
         /\ ~c.wait => \/ n = c.count
                       \/ c.attr.burst /\ (n = c.pending \/ (c.retro > 0 /\ n = c.retro))
<1> DEFINE L == {Leading(c.queue)}
                \cup (IF c.attr.burst THEN {c.pending} ELSE {})
                \cup (IF c.attr.burst /\ c.retro > 0 THEN {c.retro} ELSE {})
<1>1. /\ c.count \in Nat /\ Leading(c.queue) = c.count
      /\ c.pending \in Nat /\ c.retro \in Nat /\ c.wait \in BOOLEAN
  BY QueueFacts, TypedFacts
<1>2. n = IF c.wait THEN 0 ELSE CHOOSE x \in L : \A y \in L : x <= y
  BY DEF ToSend
<1>3. c.count \in L /\ L \subseteq Nat
  BY <1>1
<1>4. \E x \in L : \A y \in L : x <= y
  <2> DEFINE p == IF c.attr.burst /\ c.pending <= c.count THEN c.pending ELSE c.count
             r == IF c.attr.burst /\ c.retro > 0 /\ c.retro <= p THEN c.retro ELSE p
  <2>1. p \in L /\ p <= c.count /\ p \in Nat /\ (c.attr.burst => p <= c.pending)
    BY <1>1
  <2>2. r \in L
    BY <1>1, <2>1
  <2>3. \A y \in L : r <= y
    BY <1>1, <2>1
  <2> QED BY <2>2, <2>3
<1>5. ~c.wait => n \in L /\ \A y \in L : n <= y
  BY <1>2, <1>4
<1>6. CASE c.wait
  BY <1>1, <1>2, <1>6
<1>7. CASE ~c.wait
  <2>1. n \in L /\ n \in Nat /\ \A y \in L : n <= y
    BY <1>3, <1>5, <1>7
  <2>2. /\ n <= c.count /\ (c.attr.burst => n <= c.pending)
        /\ c.attr.burst /\ c.retro > 0 => n <= c.retro
    BY <1>3, <2>1
  <2>3. n = c.count \/ (c.attr.burst /\ (n = c.pending \/ (c.retro > 0 /\ n = c.retro)))
    BY <1>1, <2>1
  <2> QED BY <1>1, <1>7, <2>1, <2>2, <2>3
<1> QED BY <1>6, <1>7

\* n super buffers are sent.
Sends(c, d, n) ==
  /\ n \in 0..c.count
  /\ d.queue = SubSeq(c.queue, n + 1, Len(c.queue)) /\ d.count = c.count - n
  /\ d.sent = c.sent \o SubSeq(c.queue, 1, n)
  /\ d.given = c.given /\ d.attr = c.attr
  /\ DOMAIN d = Fields /\ d.pending \in Nat /\ d.retro \in Nat
  /\ d.wait \in BOOLEAN /\ d.zsl \in BOOLEAN

\* ZSL only for a request, and no matched super buffer waits for nothing.
Served(c) ==
  /\ c.zsl => c.pending > 0
  /\ c.pending > 0 \/ ~c.attr.burst => c.wait \/ c.count = 0

\* Super buffers are sent from the head; none waits then for nothing.
LEMMA DispatchSends ==
  ASSUME NEW c, NEW T, NEW B, Good(c, T, B), c.zsl => c.pending > 0, NEW d, d = Dispatch(c)
  PROVE  (\E n \in 0..c.count : Sends(c, d, n)) /\ Served(d)
<1> DEFINE n == ToSend(c)
           r == SubSeq(c.queue, n + 1, Len(c.queue))
           x == c.sent \o SubSeq(c.queue, 1, n)
           c1 == [c EXCEPT !.queue = r, !.count = @ - n, !.sent = x]
           y == IF c.retro > 0 THEN c.retro - n ELSE 0
           w == c.retro = n
           c2 == [c1 EXCEPT !.pending = @ - n, !.retro = y, !.wait = w]
           c3 == AllSent(c2)
<1>1. /\ DOMAIN c = Fields /\ c.wait \in BOOLEAN /\ c.zsl \in BOOLEAN /\ c.attr.burst \in BOOLEAN
      /\ c.pending \in Nat /\ c.retro \in Nat /\ c.count \in Nat
  BY TypedFacts, QueueFacts
<1>2. /\ n \in 0..c.count
      /\ c.wait => n = 0
      /\ c.attr.burst => n <= c.pending
      /\ c.attr.burst /\ c.retro > 0 => n <= c.retro
      /\ ~c.wait => n = c.count \/ (c.attr.burst /\ (n = c.pending \/ (c.retro > 0 /\ n = c.retro)))
  <2> HIDE DEF n
  <2>1. n = ToSend(c)
    BY DEF n
  <2> QED BY <2>1, ToSendIs
<1>3. d = IF n = 0 \/ ~c.attr.burst THEN c1 ELSE c3
  BY <1>1 DEF Dispatch, Fields
<1> HIDE DEF n, r, x, w
<1>4. n \in Nat /\ n <= c.count /\ c.count - n \in Nat
  BY <1>1, <1>2
<1>5. /\ DOMAIN c1 = Fields /\ c1.queue = r /\ c1.count = c.count - n /\ c1.sent = x
      /\ c1.given = c.given /\ c1.attr = c.attr /\ c1.pending = c.pending /\ c1.retro = c.retro
      /\ c1.wait = c.wait /\ c1.zsl = c.zsl
  BY <1>1 DEF Fields
<1> HIDE DEF c1
<1>6. CASE n = 0 \/ ~c.attr.burst
  <2>1. d = c1
    BY <1>3, <1>6
  <2>2. Sends(c, c1, n)
    BY <1>1, <1>2, <1>5 DEF Sends, r, x
  <2>3. Served(c1)
    <3>1. c.pending > 0 \/ ~c.attr.burst => c.wait \/ n = c.count
      BY <1>1, <1>2, <1>6
    <3>2. n = c.count => c.count - n = 0
      BY <1>1
    <3>3. c1.pending > 0 \/ ~c1.attr.burst => c1.wait \/ c1.count = 0
      BY <1>5, <3>1, <3>2
    <3> QED BY <1>5, <3>3 DEF Served
  <2> QED BY <1>2, <2>1, <2>2, <2>3
<1>7. CASE ~(n = 0 \/ ~c.attr.burst)
  <2>1. d = c3
    BY <1>3, <1>7
  <2>2. y \in Nat /\ c.pending - n \in Nat /\ w \in BOOLEAN
    BY <1>1, <1>2, <1>4, <1>7 DEF w
  <2> HIDE DEF y
  <2>3. /\ DOMAIN c2 = Fields /\ c2.queue = r /\ c2.count = c.count - n /\ c2.sent = x
        /\ c2.given = c.given /\ c2.attr = c.attr /\ c2.pending = c.pending - n /\ c2.retro = y
        /\ c2.wait = w /\ c2.zsl = c.zsl
    BY <1>5 DEF Fields
  <2> HIDE DEF c2
  <2> DEFINE c4 == ZslStopped(c2)
  <2>4. /\ DOMAIN c4 = Fields /\ c4.queue = r /\ c4.count = c.count - n /\ c4.sent = x
        /\ c4.given = c.given /\ c4.attr = c.attr /\ c4.pending = c.pending - n /\ c4.retro = y
        /\ c4.wait = w /\ c4.zsl = FALSE
    BY <2>3 DEF Fields, ZslStopped
  <2>5. c3 = IF c2.zsl /\ (c2.pending = 0 \/ c2.stop) THEN c4 ELSE c2
    BY DEF AllSent
  <2> HIDE DEF c3, c4
  <2>6. c.pending - n > 0 => w \/ c.count - n = 0
    BY <1>1, <1>2, <1>4, <1>7 DEF w
  <2>7. Sends(c, c2, n) /\ Sends(c, c4, n)
    BY <1>1, <1>2, <2>2, <2>3, <2>4 DEF Sends, r, x
  <2>8. CASE c2.zsl /\ (c2.pending = 0 \/ c2.stop)
    <3>1. c3 = c4
      BY <2>5, <2>8
    <3>2. Served(c4)
      BY <1>7, <2>4, <2>6 DEF Served
    <3> QED BY <1>2, <2>1, <2>7, <3>1, <3>2
  <2>9. CASE ~(c2.zsl /\ (c2.pending = 0 \/ c2.stop))
    <3>1. c3 = c2
      BY <2>5, <2>9
    <3>2. c2.zsl => c2.pending > 0
      BY <2>2, <2>3, <2>9
    <3>3. c2.attr.burst
      BY <1>7, <2>3
    <3>4. Served(c2)
      BY <2>3, <2>6, <3>2, <3>3 DEF Served
    <3> QED BY <1>2, <2>1, <2>7, <3>1, <3>4
  <2> QED BY <2>8, <2>9
<1> QED BY <1>6, <1>7

-----------------------------------------------------------------------------
(* The super buffers sent.                                                 *)

\* A super buffer has a frame of every stream, of its id but for the metadata.
Bundled(n) == Matched(n) /\ \A s \in Other : n.bufs[s] = n.frame

SentIs(sent, T) ==
  /\ \A i \in DOMAIN sent : Bundled(sent[i]) /\ Delivered(sent[i].frame, T)
  /\ \A i, j \in DOMAIN sent : i < j => sent[i].frame < sent[j].frame

\* What was sent stays what it is as frames are delivered.
LEMMA SentStays ==
  ASSUME NEW sent, NEW T, NEW U, T \subseteq U, SentIs(sent, T)
  PROVE  SentIs(sent, U)
BY DEF SentIs, Delivered

\* The frames of what was sent were delivered.
LEMMA SentDelivered ==
  ASSUME NEW sent, NEW T, SentIs(sent, T)
  PROVE  \A F \in Ids(sent) : Delivered(F, T)
BY DEF SentIs, Ids

\* Super buffers sent from the head of the queue are complete and in order.
LEMMA SendsKeep ==
  ASSUME NEW c, NEW T, NEW B, Good(c, T, B), SentIs(c.sent, T),
         NEW d, NEW n \in 0..c.count, Sends(c, d, n)
  PROVE  Good(d, T, B) /\ SentIs(d.sent, T)
<1> DEFINE q == c.queue
           low == c.attr.low
           x == SubSeq(q, 1, n)
           a == c.sent
           v == d.sent
           r == d.queue
<1>1. /\ q \in Seq(Node) /\ Len(q) \in Nat /\ c.count \in Nat /\ c.count <= Len(q)
      /\ DOMAIN q = 1..Len(q)
      /\ \A i \in 1..Len(q) : q[i] \in Node
      /\ \A i \in 1..Len(q) : Matched(q[i]) <=> i <= c.count
  BY QueueFacts
<1>2. n \in Nat /\ n <= c.count /\ n <= Len(q) /\ n \in 0..Len(q)
  BY <1>1
<1>3. QInv(q, c.count, low, T, B, Ids(a)) /\ a \in Seq(Node)
  BY DEF Good, Typed
<1>4. x \in Seq(Node) /\ Len(x) = n /\ \A i \in 1..n : x[i] = q[i]
  <2>1. \A i \in 1..n : q[i] \in Node
    BY <1>1, <1>2
  <2>2. /\ x \in Seq(Node) /\ Len(x) = IF 1 <= n THEN n - 1 + 1 ELSE 0
        /\ \A i \in 1..(n - 1 + 1) : x[i] = q[1 + i - 1]
    BY <1>1, <1>2, <2>1, SubSeqProperties
  <2> HIDE DEF x, q
  <2>3. Len(x) = n
    BY <1>2, <2>2
  <2>4. \A i \in 1..n : x[i] = q[i]
    BY <1>2, <2>2
  <2> QED BY <2>2, <2>3, <2>4
<1>5. v = a \o x
  BY DEF Sends
<1> HIDE DEF x, v, a
<1>6. /\ v \in Seq(Node) /\ Len(v) = Len(a) + n /\ Len(a) \in Nat
      /\ \A i \in 1..(Len(a) + n) : v[i] = IF i <= Len(a) THEN a[i] ELSE x[i - Len(a)]
  <2>1. Len(a) \in Nat
    BY <1>3, LenProperties
  <2>2. /\ a \o x \in Seq(Node) /\ Len(a \o x) = Len(a) + Len(x)
        /\ \A i \in 1..(Len(a) + Len(x)) : (a \o x)[i] = IF i <= Len(a) THEN a[i] ELSE x[i - Len(a)]
    BY <1>3, <1>4, ConcatProperties
  <2> QED BY <1>4, <1>5, <2>1, <2>2
<1>7. DOMAIN v = 1..(Len(a) + n) /\ DOMAIN a = 1..Len(a)
  BY <1>3, <1>6, LenProperties
\* A bundle is an earlier one or a super buffer from the head of the queue.
<1>8. ASSUME NEW i \in DOMAIN v
      PROVE  \/ i \in DOMAIN a /\ v[i] = a[i]
             \/ i > Len(a) /\ i - Len(a) \in 1..n /\ v[i] = q[i - Len(a)]
  <2>1. CASE i <= Len(a)
    BY <1>6, <1>7, <2>1
  <2>2. CASE ~(i <= Len(a))
    <3>1. i > Len(a) /\ i - Len(a) \in 1..n
      BY <1>2, <1>6, <1>7, <2>2
    <3>2. v[i] = x[i - Len(a)]
      BY <1>6, <1>7, <2>2
    <3> QED BY <1>4, <3>1, <3>2
  <2> QED BY <2>1, <2>2
<1>9. r = Cut(q, 1, n + 1) /\ d.count = c.count - ((n + 1) - 1)
  <2>1. r = Cut(q, 1, n + 1)
    BY <1>1, <1>2, HeadCut DEF Sends
  <2>2. d.count = c.count - n
    BY DEF Sends
  <2> QED BY <1>2, <2>1, <2>2
<1>10. QInv(r, d.count, low, T, B, Ids(a))
  <2>1. /\ 1 \in 1..(Len(q) + 1) /\ n + 1 \in 1..(Len(q) + 1) /\ n + 1 <= c.count + 1
    BY <1>1, <1>2
  <2> HIDE DEF q, r, low
  <2> QED BY <1>3, <1>9, <2>1, CutKeeps
<1>11. /\ Len(r) = Len(q) - n /\ \A j \in 1..(Len(q) - n) : r[j] = q[j + n]
  <2> DEFINE b == n + 1
  <2>1. b - 1 = n /\ 1 \in 1..(Len(q) + 1) /\ b \in 1..(Len(q) + 1)
    BY <1>1, <1>2
  <2>2. r = Cut(q, 1, b)
    BY <1>9
  <2> HIDE DEF b, q, r
  <2>3. /\ Len(Cut(q, 1, b)) = Len(q) - (b - 1)
        /\ \A k \in 1..(Len(q) - (b - 1)) : Cut(q, 1, b)[k] = q[k + (b - 1)]
    BY ZenonT(40), <1>1, <2>1, CutIs
  <2> QED BY <2>1, <2>2, <2>3
<1>12. Beyond(r, Ids(v), T)
  <2> SUFFICES ASSUME NEW i \in DOMAIN v, NEW j \in DOMAIN r PROVE Before(v[i].frame, r[j], T)
    BY DEF Beyond, Ids
  <2>1. CASE i \in DOMAIN a /\ v[i] = a[i]
    <3>1. a[i].frame \in Ids(a)
      BY <2>1 DEF Ids
    <3> QED BY <1>10, <2>1, <3>1 DEF QInv, Beyond
  <2>2. CASE i - Len(a) \in 1..n /\ v[i] = q[i - Len(a)]
    <3> DEFINE h == i - Len(a)
    <3>1. h \in 1..n /\ h \in 1..Len(q)
      BY <1>1, <1>2, <2>2
    <3>2. j \in 1..(Len(q) - n)
      <4>1. r \in Seq(Node)
        BY <1>10 DEF QInv
      <4> QED BY <1>11, <4>1, LenProperties
    <3>3. j + n \in 1..Len(q) /\ h < j + n /\ r[j] = q[j + n]
      BY <1>1, <1>2, <1>11, <3>1, <3>2
    <3> HIDE DEF h
    <3>4. Before(q[h].frame, q[j + n], T)
      BY <1>1, <1>3, <3>1, <3>3 DEF QInv, Ordered
    <3> QED BY <2>2, <3>3, <3>4 DEF h
  <2> QED BY <1>8, <2>1, <2>2
<1>13. QInv(r, d.count, low, T, B, Ids(v))
  BY <1>10, <1>12 DEF QInv
<1>14. Good(d, T, B)
  <2>1. Typed(d)
    BY <1>6 DEF Good, Typed, Sends, v
  <2>2. Len(d.queue) - d.count <= d.attr.unmatched + 1
    <3>1. Len(q) - c.count <= c.attr.unmatched + 1 /\ d.attr = c.attr
      BY DEF Good, Sends
    <3>2. (Len(q) - n) - (c.count - n) = Len(q) - c.count
      BY <1>1, <1>2
    <3>3. Len(d.queue) = Len(q) - n /\ d.count = c.count - n
      BY <1>11 DEF Sends
    <3> QED BY <3>1, <3>2, <3>3
  <2>3. d.attr = c.attr
    BY DEF Sends
  <2> QED BY <1>13, <2>1, <2>2, <2>3 DEF Good, v
<1>15. \A i \in 1..n : Bundled(q[i]) /\ Delivered(q[i].frame, T) /\ q[i] \in Node /\ ~Dead(q[i], T)
  <2> TAKE i \in 1..n
  <2>1. i \in 1..Len(q) /\ i <= c.count
    BY <1>1, <1>2
  <2>2. q[i] \in Node /\ Matched(q[i]) /\ NodeIs(q[i], low, T, B)
    BY <1>1, <1>3, <2>1 DEF QInv, Nodes
  <2>3. Delivered(q[i].frame, T)
    BY <2>2, MatchedDelivered
  <2>4. \A s \in Other : q[i].bufs[s] = q[i].frame
    BY <2>2 DEF NodeIs, Fitting, Matched, Other
  <2>5. ~Dead(q[i], T)
    BY <2>2, DeadIsUnmatched DEF Unmatched
  <2> QED BY <2>2, <2>3, <2>4, <2>5 DEF Bundled
<1>16. \A i \in DOMAIN v : Bundled(v[i]) /\ Delivered(v[i].frame, T)
  BY <1>8, <1>15 DEF SentIs, a
<1>17. ASSUME NEW i \in DOMAIN v, NEW j \in DOMAIN v, i < j PROVE v[i].frame < v[j].frame
  <2>0. i \in Nat /\ j \in Nat /\ Len(a) \in Nat
    BY <1>2, <1>6, <1>7
  <2>1. CASE j \in DOMAIN a /\ v[j] = a[j]
    <3>1. i \in DOMAIN a
      BY <1>7, <1>17, <2>0, <2>1
    <3>2. v[i] = a[i]
      BY <1>6, <1>7, <3>1
    <3> QED BY <1>17, <2>1, <3>1, <3>2 DEF SentIs, a
  <2>2. CASE j > Len(a) /\ j - Len(a) \in 1..n /\ v[j] = q[j - Len(a)]
    <3> DEFINE h == j - Len(a)
    <3>1. h \in 1..n /\ h \in 1..Len(q) /\ ~Dead(q[h], T)
      BY <1>1, <1>2, <1>15, <2>2
    <3>2. CASE i \in DOMAIN a /\ v[i] = a[i]
      <4>1. a[i].frame \in Ids(a)
        BY <3>2 DEF Ids
      <4>2. Before(a[i].frame, q[h], T)
        BY <1>1, <1>3, <3>1, <4>1 DEF QInv, Beyond
      <4> QED BY <2>2, <3>1, <3>2, <4>2 DEF Before
    <3>3. CASE i > Len(a) /\ i - Len(a) \in 1..n /\ v[i] = q[i - Len(a)]
      <4>1. i - Len(a) \in 1..Len(q) /\ i - Len(a) < h
        BY <1>1, <1>2, <1>17, <2>0, <3>3
      <4>2. Before(q[i - Len(a)].frame, q[h], T)
        BY <1>1, <1>3, <3>1, <4>1 DEF QInv, Ordered
      <4> QED BY <2>2, <3>1, <3>3, <4>2 DEF Before
    <3> QED BY <1>8, <3>2, <3>3
  <2> QED BY <1>8, <2>1, <2>2
<1>18. SentIs(v, T)
  BY <1>16, <1>17 DEF SentIs
<1> QED BY <1>14, <1>18 DEF v

-----------------------------------------------------------------------------
(* Commands.                                                               *)

\* What a command is, with the frames N it brings.
Command(c, d, T, B, N) ==
  \/ Run(c, d, T, B, N)
  \/ \E m : Run(c, m, T, B, N) /\ \E n \in 0..m.count : Sends(m, d, n)

\* The channel between commands.
Rest(c, T, B) ==
  /\ Good(c, T, B) /\ SentIs(c.sent, T) /\ Served(c)
  /\ c.attr.burst => c.count <= c.attr.mark

\* What a command does at its end.
LEMMA AfterEnds ==
  ASSUME NEW b, NEW c, NEW T, NEW B, NEW N, Run(b, c, T, B, N), SentIs(b.sent, T),
         NEW d, d = After(c)
  PROVE  Command(b, d, T, B, N) /\ Rest(d, T, B)
<1> DEFINE c1 == StartStopZsl(c)
           c2 == Trim(c1, c.attr.mark)
<1>1. Good(c, T, B) /\ c.sent = b.sent
  BY DEF Run
<1>2. Run(c, c1, T, B, {}) /\ (c1.zsl => c1.pending > 0)
  BY <1>1, StartStopRuns
<1> HIDE DEF c1
<1>3. Good(c1, T, B) /\ c1.attr = c.attr /\ c1.sent = c.sent /\ c.attr.mark \in Nat
  BY <1>1, <1>2, TypedFacts DEF Run
<1>4. Step(c1, c2, T, B, {}) /\ (c1.attr.burst => c2.count <= c.attr.mark)
  BY <1>3, TrimSteps
<1> HIDE DEF c2
<1>5. Good(c2, T, B) /\ (c2.zsl => c2.pending > 0) /\ c2.attr = c.attr /\ c2.sent = b.sent
  BY <1>1, <1>2, <1>3, <1>4 DEF Step, Same
<1>6. Run(b, c2, T, B, N)
  <2>1. Run(c1, c2, T, B, {})
    BY <1>4, StepRuns
  <2>2. Run(c, c2, T, B, {})
    BY <1>2, <2>1, RunsCompose
  <2> QED BY <2>2, RunsCompose
<1>7. d = Dispatch(c2)
  BY DEF After, c2, c1
<1>8. (\E n \in 0..c2.count : Sends(c2, d, n)) /\ Served(d)
  BY <1>5, <1>7, DispatchSends
<1>9. PICK n \in 0..c2.count : Sends(c2, d, n)
  BY <1>8
<1>10. SentIs(c2.sent, T)
  BY <1>5
<1>11. Good(d, T, B) /\ SentIs(d.sent, T)
  BY <1>5, <1>9, <1>10, SendsKeep
<1>12. d.attr.burst => d.count <= d.attr.mark
  <2>1. d.attr = c.attr /\ c1.attr = c.attr /\ d.count = c2.count - n
    BY <1>3, <1>5, <1>9 DEF Sends
  <2>2. c2.count \in Nat
    BY <1>5, QueueFacts
  <2>3. c.attr.burst => c2.count <= c.attr.mark
    BY <1>3, <1>4
  <2> DEFINE x == c2.count
             y == c.attr.mark
             z == d.count
  <2>4. x \in Nat /\ y \in Nat /\ n \in Nat /\ z = x - n
    BY <1>3, <2>1, <2>2
  <2> HIDE DEF x, y, z
  <2>5. x <= y => z <= y
    BY <2>4
  <2> QED BY <2>1, <2>3, <2>5 DEF x, y, z
<1>13. Command(b, d, T, B, N)
  BY <1>6, <1>8 DEF Command
<1> QED BY <1>8, <1>11, <1>12, <1>13 DEF Rest

-----------------------------------------------------------------------------
(* The invariant.                                                          *)

IInv == Rest(ch, taken, begun) /\ taken \subseteq Frames /\ begun \subseteq Own

\* Commands bring new frames, and only they.
Brings(N) == taken' = taken \cup N /\ N \cap Held(ch.queue) = {} /\ N \subseteq Frames \ taken

\* The metadata a frame may come with.
LEMMA SomeMeta ==
  ASSUME NEW f \in 1..MaxFrame
  PROVE  NoMeta \in Says /\ MetaInputs(f) \subseteq Says
<1>1. MetaInputs(f) \subseteq Says
  BY SuperBufQueueAssumption DEF Says
<1>2. NoMeta \in Says
  BY DEF NoMeta, Says
<1> QED BY <1>1, <1>2

\* One lemma per action: the invariant is kept, and what the action is.
LEMMA DataKeeps ==
  ASSUME IInv, Data
  PROVE  IInv' /\ begun' = begun /\ lost' = lost
         /\ \E N : Command(ch, ch', taken', begun', N) /\ Brings(N)
<1>1. PICK s \in Streams, f \in 1..MaxFrame :
        /\ s \in begun \/ (s \in Linked /\ running)
        /\ \A b \in taken : b[1] = s => b[2] < f
        /\ taken' = taken \cup {<<s, f>>}
        /\ \/ ch' = After(comp_and_enqueue(ch, s, f, NoMeta))
           \/ \E md \in MetaInputs(f) : ch' = After(comp_and_enqueue(ch, s, f, md))
        /\ begun' = begun /\ lost' = lost
  BY DEF Data
<1>2. PICK md \in Says : ch' = After(comp_and_enqueue(ch, s, f, md))
  BY <1>1, SomeMeta
<1> DEFINE c == comp_and_enqueue(ch, s, f, md)
           N == {<<s, f>>}
           U == Plus(taken, s, f)
<1>3. taken' = U
  BY <1>1 DEF Plus
<1>4. Arrives(ch, s, f, taken, begun)
  <2>1. Good(ch, taken, begun) /\ \A F \in Ids(ch.sent) : Delivered(F, taken)
    BY SentDelivered DEF IInv, Rest
  <2>2. s \in Linked \/ s \in begun
    BY <1>1
  <2>3. \A b \in taken : b[1] = s => b[2] < f
    BY <1>1
  <2> QED BY <2>1, <2>2, <2>3 DEF Arrives, IInv
<1>5. Step(ch, c, U, begun, N)
  BY <1>4, CompAndEnqueueSteps
<1> HIDE DEF c
<1>6. SentIs(ch.sent, U)
  BY SentStays DEF IInv, Rest, Plus
<1>7. ch' = After(c)
  BY <1>2 DEF c
<1> HIDE DEF U, N
<1>8. Command(ch, ch', U, begun, N) /\ Rest(ch', U, begun)
  <2>1. Run(ch, c, U, begun, N)
    BY <1>5, StepRuns
  <2> QED BY <1>6, <1>7, <2>1, AfterEnds
<1>9. taken' \subseteq Frames
  BY <1>1 DEF IInv, Frames
<1>10. IInv'
  BY <1>1, <1>3, <1>8, <1>9 DEF IInv
<1>11. Brings(N)
  <2>1. QInv(ch.queue, ch.count, ch.attr.low, taken, begun, Ids(ch.sent))
    BY DEF IInv, Rest, Good
  <2>2. f \in Nat /\ \A b \in taken : b[1] = s => b[2] < f
    BY <1>1, MetaIn
  <2>3. <<s, f>> \notin Held(ch.queue) /\ <<s, f>> \notin taken
    BY <2>1, <2>2, NewIsNotHeld
  <2> QED BY <1>1, <2>3 DEF Brings, N, Frames
<1> QED BY <1>1, <1>3, <1>8, <1>10, <1>11

\* A command without a frame.
LEMMA NoFrame ==
  ASSUME IInv, Command(ch, ch', taken, begun, {}), Rest(ch', taken, begun),
         UNCHANGED <<taken, begun, lost>>
  PROVE  IInv' /\ begun' = begun /\ lost' = lost
         /\ \E N : Command(ch, ch', taken', begun', N) /\ Brings(N)
<1>1. IInv'
  BY DEF IInv
<1>2. Brings({})
  BY DEF Brings
<1> QED BY <1>1, <1>2

\* A request of the HAL.
LEMMA RequestKeeps ==
  ASSUME IInv, Request
  PROVE  IInv' /\ begun' = begun /\ lost' = lost
         /\ \E N : Command(ch, ch', taken', begun', N) /\ Brings(N)
<1> DEFINE C(n, r) == [ch EXCEPT !.pending = n, !.wait = FALSE, !.stop = FALSE,
                        !.retro = IF r > n THEN n ELSE r,
                        !.led = IF n > 0 /\ r > 0 THEN FALSE ELSE @]
<1>1. PICK n \in 0..MaxRequest, r \in 0..MaxRequest :
        /\ ch' = After(Trim(C(n, r), C(n, r).attr.back))
        /\ UNCHANGED <<running, begun, taken, lost>>
  BY DEF Request
<1>2. Good(ch, taken, begun) /\ SentIs(ch.sent, taken)
  BY DEF IInv, Rest
<1>3. DOMAIN ch = Fields /\ ch.zsl \in BOOLEAN
  BY <1>2, TypedFacts
<1>4. n \in Nat /\ r \in Nat
  BY SuperBufQueueAssumption
<1> DEFINE x == IF r > n THEN n ELSE r
           y == IF n > 0 /\ r > 0 THEN FALSE ELSE ch.led
           c == [ch EXCEPT !.pending = n, !.wait = FALSE, !.stop = FALSE, !.retro = x, !.led = y]
<1>5. c = C(n, r)
  BY <1>3 DEF Fields
<1>6. x \in Nat
  BY <1>4
<1> HIDE DEF C, x, y
<1>7. Still(ch, c)
  BY <1>3, <1>4, <1>6 DEF Still, Fields
<1> HIDE DEF c
<1>8. Run(ch, c, taken, begun, {})
  BY <1>2, <1>7, StillRuns
<1> DEFINE d == Trim(c, c.attr.back)
<1>9. Run(c, d, taken, begun, {})
  <2>1. Good(c, taken, begun) /\ c.attr.back \in Nat
    BY <1>8, TypedFacts DEF Run
  <2> QED BY <2>1, TrimSteps, StepRuns
<1>10. ch' = After(d)
  BY <1>1, <1>5
<1> HIDE DEF d
<1>11. Run(ch, d, taken, begun, {})
  BY <1>8, <1>9, RunsCompose
<1>12. Command(ch, ch', taken, begun, {}) /\ Rest(ch', taken, begun)
  BY <1>2, <1>10, <1>11, AfterEnds
<1> QED BY <1>1, <1>12, NoFrame

\* A queue that is empty between commands.
LEMMA EmptyRests ==
  ASSUME NEW d, NEW T, NEW B, Good(d, T, B), SentIs(d.sent, T), d.zsl => d.pending > 0, d.count = 0
  PROVE  Rest(d, T, B)
<1>1. d.attr.mark \in Nat
  BY TypedFacts
<1>2. d.count <= d.attr.mark
  BY <1>1
<1> QED BY <1>2 DEF Rest, Served

\* A flush.
LEMMA FlushKeeps ==
  ASSUME IInv, Flush
  PROVE  IInv' /\ begun' = begun /\ lost' = lost
         /\ \E N : Command(ch, ch', taken', begun', N) /\ Brings(N)
<1>1. PICK f \in 0..MaxFrame : ch' = flush([ch EXCEPT !.expected = f])
  BY DEF Flush
<1>2. UNCHANGED <<begun, taken, lost>>
  BY DEF Flush
<1>3. Good(ch, taken, begun) /\ SentIs(ch.sent, taken) /\ (ch.zsl => ch.pending > 0)
  BY DEF IInv, Rest, Served
<1>4. DOMAIN ch = Fields /\ ch.wait \in BOOLEAN /\ ch.zsl \in BOOLEAN
      /\ ch.pending \in Nat /\ ch.retro \in Nat
  BY <1>3, TypedFacts
<1> DEFINE c == [ch EXCEPT !.expected = f]
<1>5. Like(ch, c)
  BY <1>4 DEF Like, Same, Fields
<1>6. ch' = flush(c)
  BY <1>1
<1> HIDE DEF c
<1>7. Step(ch, c, taken, begun, {})
  BY <1>3, <1>5, LikeSteps
<1>8. Step(c, ch', taken, begun, {}) /\ ch'.count = 0
  BY <1>6, <1>7, FlushSteps DEF Step
<1>9. Step(ch, ch', taken, begun, {})
  BY <1>3, <1>7, <1>8, ThenStep
<1>10. Command(ch, ch', taken, begun, {})
  BY <1>9, StepRuns DEF Command
<1>11. Rest(ch', taken, begun)
  BY <1>3, <1>8, <1>9, EmptyRests DEF Step, Same
<1> QED BY <1>2, <1>10, <1>11, NoFrame

\* The commands of bracketing and zoom.
LEMMA GeneralKeeps ==
  ASSUME IInv, General
  PROVE  IInv' /\ begun' = begun /\ lost' = lost
         /\ \E N : Command(ch, ch', taken', begun', N) /\ Brings(N)
<1> DEFINE c == flush(ch)
           d1(x) == [c EXCEPT !.bracketing = x]
           d2(x) == [c EXCEPT !.flash = x]
           d3(x) == [c EXCEPT !.zoom = x]
<1>1. PICK on \in BOOLEAN :
        \/ ch' = After(d1(IF on THEN "wait" ELSE "off"))
        \/ ch' = After(d2(on))
        \/ ch' = After(d3(on))
  BY DEF General
<1>2. UNCHANGED <<begun, taken, lost>>
  BY DEF General
<1>3. Good(ch, taken, begun) /\ SentIs(ch.sent, taken)
  BY DEF IInv, Rest
<1>4. Run(ch, c, taken, begun, {})
  BY <1>3, FlushSteps, StepRuns
<1> HIDE DEF c
<1>5. /\ DOMAIN c = Fields /\ c.wait \in BOOLEAN /\ c.zsl \in BOOLEAN
      /\ c.pending \in Nat /\ c.retro \in Nat
  BY <1>4, TypedFacts DEF Run
<1>6. ASSUME NEW x PROVE Still(c, d1(x)) /\ Still(c, d2(x)) /\ Still(c, d3(x))
  BY <1>5 DEF Still, Fields
<1>7. PICK d : Still(c, d) /\ ch' = After(d)
  BY <1>1, <1>6
<1>8. Run(ch, d, taken, begun, {})
  BY <1>4, <1>7, StillRuns, RunsCompose DEF Run
<1>9. Command(ch, ch', taken, begun, {}) /\ Rest(ch', taken, begun)
  BY <1>3, <1>7, <1>8, AfterEnds
<1> QED BY <1>2, <1>9, NoFrame

\* The channel is started.
LEMMA StartKeeps ==
  ASSUME IInv, Start
  PROVE  IInv' /\ begun' = begun /\ lost' = lost
         /\ \E N : Command(ch, ch', taken', begun', N) /\ Brings(N)
<1>1. /\ ch' = [ch EXCEPT !.expected = 0, !.noLed = 0, !.ledOff = 0, !.good = 0]
      /\ UNCHANGED <<begun, taken, lost>>
  BY DEF Start
<1>2. Rest(ch, taken, begun) /\ Good(ch, taken, begun)
  BY DEF IInv, Rest
<1>3. DOMAIN ch = Fields /\ ch.wait \in BOOLEAN /\ ch.zsl \in BOOLEAN
      /\ ch.pending \in Nat /\ ch.retro \in Nat
  BY <1>2, TypedFacts
<1>4. Still(ch, ch') /\ ch'.wait = ch.wait /\ ch'.zsl = ch.zsl /\ ch'.pending = ch.pending
  BY <1>1, <1>3 DEF Still, Fields
<1>5. Run(ch, ch', taken, begun, {})
  BY <1>2, <1>4, StillRuns
<1>6. Rest(ch', taken, begun)
  BY <1>2, <1>4, <1>5 DEF Rest, Served, Run, Still
<1>7. Command(ch, ch', taken, begun, {})
  BY <1>5 DEF Command
<1> QED BY <1>1, <1>6, <1>7, NoFrame

\* When the last stream starts nothing is matched: the stream has no frame.
LEMMA StartStreamKeeps ==
  ASSUME IInv, NEW s \in Streams, StartStream(s)
  PROVE  IInv' /\ lost' = lost /\ taken' = taken /\ Run(ch, ch', taken', begun', {})
<1> DEFINE w == (begun' # Own) /\ ch.wait
<1>1. /\ s \in Own \ begun /\ begun' = begun \cup {s} /\ taken' = taken /\ lost' = lost
  BY DEF StartStream, MayStart
<1>2. Rest(ch, taken, begun) /\ Good(ch, taken, begun)
  BY DEF IInv, Rest
<1>3. DOMAIN ch = Fields /\ ch.wait \in BOOLEAN /\ ch.zsl \in BOOLEAN
      /\ ch.pending \in Nat /\ ch.retro \in Nat
  BY <1>2, TypedFacts
<1>4. ch' = [ch EXCEPT !.wait = w]
  BY <1>3 DEF StartStream, Fields
<1>5. w \in BOOLEAN
  BY <1>3
<1>6. w = ch.wait \/ ch.count = 0
  <2>1. ch.count = 0
    <3> SUFFICES ASSUME ch.count # 0 PROVE FALSE
      OBVIOUS
    <3>1. /\ ch.count \in Nat /\ ch.count <= Len(ch.queue) /\ Len(ch.queue) \in Nat
          /\ DOMAIN ch.queue = 1..Len(ch.queue)
          /\ \A i \in 1..Len(ch.queue) : Matched(ch.queue[i]) <=> i <= ch.count
      BY <1>2, QueueFacts
    <3>2. 1 \in 1..Len(ch.queue) /\ Matched(ch.queue[1])
      BY <3>1
    <3>3. NodeIs(ch.queue[1], ch.attr.low, taken, begun)
      BY <1>2, <3>1, <3>2 DEF Good, QInv, Nodes
    <3>4. s \in Linked \/ s \in begun
      BY <3>2, <3>3 DEF NodeIs, From, Matched
    <3> QED BY <1>1, <3>4 DEF Own
  <2> QED BY <2>1
<1> HIDE DEF w
<1>7. Still(ch, ch') /\ ch'.wait = w /\ ch'.zsl = ch.zsl /\ ch'.pending = ch.pending
  BY <1>3, <1>4, <1>5 DEF Still, Fields
<1>8. Good(ch, taken', begun')
  BY <1>1, <1>2, GoodStays
<1>9. Run(ch, ch', taken', begun', {})
  BY <1>7, <1>8, StillRuns
<1>10. Rest(ch', taken', begun')
  <2>1. Served(ch')
    <3>1. ch.zsl => ch.pending > 0
      BY <1>2 DEF Rest, Served
    <3>2. ch.pending > 0 \/ ~ch.attr.burst => w \/ ch.count = 0
      BY <1>2, <1>6 DEF Rest, Served
    <3> QED BY <1>7, <3>1, <3>2 DEF Served, Still
  <2>2. ch'.attr.burst => ch'.count <= ch'.attr.mark
    BY <1>2, <1>7 DEF Rest, Still
  <2>3. SentIs(ch'.sent, taken')
    BY <1>1, <1>2, <1>7 DEF Rest, Still
  <2> QED BY <1>9, <2>1, <2>2, <2>3 DEF Rest, Run
<1>11. IInv'
  BY <1>1, <1>10 DEF IInv, Own
<1> QED BY <1>1, <1>9, <1>11

\* What a channel is with nothing in it.
LEMMA EmptyGood ==
  ASSUME NEW c, Typed(c), NEW T, NEW B, c.queue = <<>>, c.count = 0
  PROVE  Good(c, T, B)
<1>1. Len(c.queue) = 0 /\ c.attr.unmatched \in Nat
  BY EmptySeq DEF Typed, Attr
<1>2. Len(c.queue) - c.count <= c.attr.unmatched + 1
  BY <1>1
<1> QED BY <1>2, EmptyQueue DEF Good

\* The cleared attributes are attributes.
LEMMA ZeroIs == ZeroAttr \in Attr
BY DEF ZeroAttr, Attr

\* The frames of own streams are given back, the others lost.
Cleared ==
  LET own == {b \in Held(ch.queue) : b[1] \in Own} IN
  /\ taken' = taken /\ ch'.queue = <<>> /\ ch'.sent = ch.sent
  /\ lost' = lost \cup (Held(ch.queue) \ own)
  /\ ch'.given \in [Frames -> Nat]
  /\ \A b \in Frames : ch'.given[b] = IF b \in own THEN ch.given[b] + 1 ELSE ch.given[b]

\* A stream fails to start: the queue is cleared.
LEMMA StartFailsKeeps ==
  ASSUME IInv, StartFails
  PROVE  IInv' /\ Cleared
<1> DEFINE own == {b \in Held(ch.queue) : b[1] \in Own}
           c == GiveBack(ch, own)
<1>1. /\ ch' = [c EXCEPT
              !.queue = <<>>, !.count = 0, !.attr = ZeroAttr, !.expected = 0,
              !.good = 0, !.noLed = 0, !.ledOff = 0, !.ledSkip = 0,
              !.once = FALSE, !.wait = FALSE]
      /\ begun' = {} /\ taken' = taken
      /\ lost' = lost \cup (Held(ch.queue) \ own)
  BY DEF StartFails
<1>2. Rest(ch, taken, begun) /\ Good(ch, taken, begun)
  BY DEF IInv, Rest
<1>3. DOMAIN ch = Fields /\ ch.given \in [Frames -> Nat]
      /\ ch.wait \in BOOLEAN /\ ch.zsl \in BOOLEAN /\ ch.pending \in Nat /\ ch.retro \in Nat
  BY <1>2, TypedFacts
<1> HIDE DEF own
<1>4. /\ DOMAIN c = Fields /\ \A x \in Fields \ {"given"} : c[x] = ch[x]
      /\ c.given \in [Frames -> Nat]
      /\ \A b \in Frames : c.given[b] = IF b \in own THEN ch.given[b] + 1 ELSE ch.given[b]
  BY <1>3, GiveBackIs
<1> HIDE DEF c
<1>5. /\ DOMAIN ch' = Fields /\ ch'.queue = <<>> /\ ch'.count = 0 /\ ch'.attr = ZeroAttr
      /\ ch'.wait = FALSE /\ ch'.given = c.given /\ ch'.sent = c.sent /\ ch'.zsl = c.zsl
      /\ ch'.pending = c.pending /\ ch'.retro = c.retro
  BY <1>1, <1>4 DEF Fields
<1>6. c.sent = ch.sent /\ c.zsl = ch.zsl /\ c.pending = ch.pending /\ c.retro = ch.retro
  BY <1>4 DEF Fields
<1>7. Typed(ch')
  <2>1. ch.sent \in Seq(Node)
    BY <1>2 DEF Good, Typed
  <2> QED BY <1>3, <1>4, <1>5, <1>6, <2>1, ZeroIs DEF Typed
<1>8. Good(ch', taken', begun')
  BY <1>5, <1>7, EmptyGood
<1>9. SentIs(ch'.sent, taken') /\ (ch'.zsl => ch'.pending > 0)
  BY <1>1, <1>2, <1>5, <1>6 DEF Rest, Served
<1>10. Rest(ch', taken', begun')
  BY <1>5, <1>8, <1>9, EmptyRests
<1>11. IInv'
  BY <1>1, <1>10 DEF IInv
<1>12. Cleared
  BY <1>1, <1>4, <1>5, <1>6 DEF Cleared, own
<1> QED BY <1>11, <1>12

\* The channel is stopped.
LEMMA StopKeeps ==
  ASSUME IInv, Stop
  PROVE  IInv' /\ lost' = lost /\ taken' = taken /\ Run(ch, ch', taken', begun', {})
<1> DEFINE c == flush(ch)
<1>1. /\ ch' = [c EXCEPT !.expected = 0, !.good = 0, !.count = 0]
      /\ begun' = {} /\ taken' = taken /\ lost' = lost
  BY DEF Stop
<1>2. Rest(ch, taken, begun) /\ Good(ch, taken, begun)
  BY DEF IInv, Rest
<1>3. Step(ch, c, taken, begun, {}) /\ c.queue = <<>> /\ c.count = 0
  BY <1>2, FlushSteps
<1> HIDE DEF c
<1>4. Good(c, taken, begun)
  BY <1>3 DEF Step
<1>5. DOMAIN c = Fields /\ c.given \in [Frames -> Nat] /\ c.wait \in BOOLEAN /\ c.zsl \in BOOLEAN
      /\ c.pending \in Nat /\ c.retro \in Nat
  BY <1>4, TypedFacts
<1>6. Still(c, ch') /\ ch'.zsl = c.zsl /\ ch'.pending = c.pending /\ ch'.wait = c.wait
  BY <1>1, <1>3, <1>5 DEF Still, Fields
<1>7. Typed(ch')
  BY <1>4, <1>5, <1>6 DEF Good, Typed, Still
<1>8. Good(ch', taken', begun')
  BY <1>3, <1>6, <1>7, EmptyGood DEF Still
<1>9. Run(ch, ch', taken', begun', {})
  <2>1. Run(c, ch', taken, begun, {}) /\ Run(ch, c, taken, begun, {})
    BY <1>3, <1>4, <1>6, StillRuns, StepRuns
  <2>2. Run(ch, ch', taken, begun, {})
    BY <2>1, RunsCompose
  <2> QED BY <1>8, <2>2 DEF Run
<1>10. ch'.count = 0 /\ SentIs(ch'.sent, taken') /\ (ch'.zsl => ch'.pending > 0)
  BY <1>1, <1>2, <1>3, <1>6 DEF Rest, Served, Step, Same, Still
<1>11. Rest(ch', taken', begun')
  BY <1>8, <1>10, EmptyRests
<1>12. IInv'
  BY <1>1, <1>11 DEF IInv
<1> QED BY <1>1, <1>9, <1>12

\* The invariant holds at first.
LEMMA InitKeeps ==
  ASSUME Init
  PROVE  IInv
<1>1. PICK a \in Attrs :
        ch = [attr |-> a, queue |-> <<>>, count |-> 0, expected |-> 0,
              good |-> 0, noLed |-> 0, ledOff |-> 0, ledSkip |-> 0,
              once |-> FALSE, diverted |-> 0, pending |-> 0, retro |-> 0,
              wait |-> FALSE, zsl |-> FALSE, led |-> FALSE, burst |-> 0,
              stop |-> FALSE, bracketing |-> "off", flash |-> FALSE,
              zoom |-> FALSE, sent |-> <<>>, given |-> [b \in Frames |-> 0]]
  BY DEF Init
<1>2. a \in Attr
  BY SuperBufQueueAssumption DEF Attr
<1>3. taken = {} /\ begun = {}
  BY DEF Init
<1> DEFINE g == [b \in Frames |-> 0]
<1>4. g \in [Frames -> Nat]
  OBVIOUS
<1> HIDE DEF g
<1>5. /\ DOMAIN ch = Fields /\ ch.attr = a /\ ch.queue = <<>> /\ ch.count = 0 /\ ch.sent = <<>>
      /\ ch.pending = 0 /\ ch.retro = 0 /\ ch.wait = FALSE /\ ch.zsl = FALSE /\ ch.given = g
  BY <1>1 DEF Fields, g
<1>6. <<>> \in Seq(Node) /\ DOMAIN <<>> = {}
  BY EmptySeq
<1>7. Typed(ch)
  <2>1. 0 \in Nat /\ FALSE \in BOOLEAN
    OBVIOUS
  <2>2. ch.attr \in Attr /\ ch.sent \in Seq(Node)
    BY <1>2, <1>5, <1>6
  <2>3. ch.given \in [Frames -> Nat]
    BY <1>4, <1>5
  <2>4. ch.pending \in Nat /\ ch.retro \in Nat
    BY <1>5
  <2>5. ch.wait \in BOOLEAN /\ ch.zsl \in BOOLEAN
    BY <2>1, <1>5
  <2> QED BY <1>5, <2>2, <2>3, <2>4, <2>5, ZenonT(20) DEF Typed
<1>8. Good(ch, taken, begun)
  BY <1>5, <1>7, EmptyGood
<1>9. SentIs(ch.sent, taken)
  BY <1>5, <1>6 DEF SentIs
<1>10. Rest(ch, taken, begun)
  BY <1>5, <1>8, <1>9, EmptyRests
<1> QED BY <1>3, <1>10 DEF IInv

\* Every step keeps it.
LEMMA StepKeeps ==
  ASSUME IInv, [Next]_vars
  PROVE  IInv'
<1>1. CASE Data
  BY <1>1, DataKeeps
<1>2. CASE Request
  BY <1>2, RequestKeeps
<1>3. CASE Flush
  BY <1>3, FlushKeeps
<1>4. CASE General
  BY <1>4, GeneralKeeps
<1>5. CASE Start
  BY <1>5, StartKeeps
<1>6. ASSUME NEW s \in Streams, StartStream(s) PROVE IInv'
  BY <1>6, StartStreamKeeps
<1>7. CASE StartFails
  BY <1>7, StartFailsKeeps
<1>8. CASE Stop
  BY <1>8, StopKeeps
<1>9. CASE UNCHANGED vars
  BY <1>9 DEF vars, IInv
<1> QED BY <1>1, <1>2, <1>3, <1>4, <1>5, <1>6, <1>7, <1>8, <1>9 DEF Next

\* For any streams, any attributes and metadata and any number of frames, the
\* queue is in order between commands.
THEOREM Invariant == Spec => []IInv
<1>1. Init => IInv
  BY InitKeeps
<1>2. IInv /\ [Next]_vars => IInv'
  BY StepKeeps
<1> QED BY <1>1, <1>2, PTL DEF Spec

\* What the invariant says in the terms of the properties.
LEMMA RestFacts ==
  ASSUME IInv
  PROVE  /\ ch.count \in Nat /\ Leading(ch.queue) = ch.count /\ CountMatched(ch.queue) = ch.count
         /\ CountUnmatched(ch.queue) <= ch.attr.unmatched + 1
         /\ ch.attr.burst => ch.count <= ch.attr.mark
         /\ Served(ch)
<1>1. Good(ch, taken, begun)
  BY DEF IInv, Rest
<1>2. /\ ch.count \in Nat /\ Leading(ch.queue) = ch.count /\ CountMatched(ch.queue) = ch.count
      /\ CountUnmatched(ch.queue) = Len(ch.queue) - ch.count
  BY <1>1, QueueFacts
<1>3. Len(ch.queue) - ch.count <= ch.attr.unmatched + 1
  BY <1>1 DEF Good
<1> QED BY <1>2, <1>3 DEF IInv, Rest

\* match_cnt is the number of matched super buffers, all at the head of the
\* queue: the loops that dequeue until it is low enough come to an end.
THEOREM CountsAtHead == Spec => []CountIsAtHead
<1>1. IInv => CountIsAtHead
  BY RestFacts DEF CountIsAtHead
<1> QED BY <1>1, Invariant, PTL

\* No more than one unmatched super buffer above max_unmatched_frames is queued,
\* and in burst mode no more matched ones than the water mark.
THEOREM StaysBounded == Spec => []QueueBounded
<1>1. IInv => QueueBounded
  BY RestFacts DEF QueueBounded
<1> QED BY <1>1, Invariant, PTL

\* The daemon's ZSL snapshot is on only while a request is pending.
THEOREM ZslStops == Spec => []ZslOnlyForRequest
<1>1. IInv => ZslOnlyForRequest
  BY RestFacts DEF ZslOnlyForRequest, Served
<1> QED BY <1>1, Invariant, PTL

\* No matched super buffer waits while a request is pending, unless the snapshot
\* is to be prepared first.
THEOREM RequestsServed == Spec => []PendingServed
<1>1. IInv => PendingServed
  BY RestFacts DEF PendingServed, Served
<1> QED BY <1>1, Invariant, PTL

-----------------------------------------------------------------------------
(* The channel implements BundleFrames: a command or a stop gives back or   *)
(* sends the frames that leave the queue, each in one way.                  *)

\* The bundles of v that are not in a.
Late(a, v) == {i \in DOMAIN v : i > Len(a)}
Fresh(a, v) == UNION {FramesOf(v[i]) : i \in Late(a, v)}

\* The list v is a and super buffers that have no frame in common.
Grows(a, v) ==
  /\ Len(a) <= Len(v) /\ \A i \in DOMAIN a : i \in DOMAIN v /\ v[i] = a[i]
  /\ \A i, j \in Late(a, v) : i # j => FramesOf(v[i]) \cap FramesOf(v[j]) = {}

\* From c to d the frames in S were sent and those in R given back, of those that
\* were held or are new (N).
Leaves(c, d, N, S, R) ==
  /\ Grows(c.sent, d.sent) /\ S = Fresh(c.sent, d.sent)
  /\ S \cup R \subseteq Held(c.queue) \cup N /\ S \cap R = {} /\ R \subseteq Frames
  /\ Held(d.queue) = (Held(c.queue) \cup N) \ (S \cup R)
  /\ \A b \in Frames : d.given[b] = IF b \in R THEN c.given[b] + 1 ELSE c.given[b]

\* Nothing is sent.
LEMMA NoneLate ==
  ASSUME NEW a \in Seq(Node)
  PROVE  Late(a, a) = {} /\ Fresh(a, a) = {}
<1>1. DOMAIN a = 1..Len(a) /\ Len(a) \in Nat
  BY LenProperties
<1>2. Late(a, a) = {}
  BY <1>1 DEF Late
<1> QED BY <1>2 DEF Fresh

\* What leaves before super buffers are sent is given back.
LEMMA RunLeaves ==
  ASSUME NEW c, NEW d, NEW T, NEW B, NEW N, N \subseteq Frames, Run(c, d, T, B, N)
  PROVE  \E R : Leaves(c, d, N, {}, R)
<1> DEFINE R == (Held(c.queue) \cup N) \ Held(d.queue)
<1>1. d.sent = c.sent /\ c.sent \in Seq(Node) /\ Moves(c, d, N)
  BY DEF Run, Good, Typed
<1>2. Late(c.sent, c.sent) = {} /\ Fresh(c.sent, c.sent) = {} /\ Len(c.sent) \in Nat
  BY <1>1, NoneLate, LenProperties
<1>3. Held(c.queue) \subseteq Frames
  BY HeldAreFrames
<1>4. \A b \in Frames : d.given[b] = IF b \in R THEN c.given[b] + 1 ELSE c.given[b]
  BY <1>1 DEF Moves
<1>5. Held(d.queue) = (Held(c.queue) \cup N) \ ({} \cup R)
  BY <1>1 DEF Moves
<1>6. R \subseteq Frames /\ {} \cup R \subseteq Held(c.queue) \cup N
  BY <1>3
<1> HIDE DEF R
<1>7. Leaves(c, d, N, {}, R)
  BY <1>1, <1>2, <1>4, <1>5, <1>6 DEF Leaves, Grows
<1> QED BY <1>7

\* The super buffers sent are those taken from the head of the queue.
LEMMA SendsLeave ==
  ASSUME NEW c, NEW T, NEW B, Good(c, T, B),
         NEW d, NEW n \in 0..c.count, Sends(c, d, n)
  PROVE  Leaves(c, d, {}, Fresh(c.sent, d.sent), {})
<1> DEFINE q == c.queue
           x == SubSeq(q, 1, n)
           a == c.sent
           v == d.sent
<1>1. /\ q \in Seq(Node) /\ Len(q) \in Nat /\ c.count \in Nat /\ c.count <= Len(q)
      /\ DOMAIN q = 1..Len(q)
      /\ \A i \in 1..Len(q) : q[i] \in Node
  BY QueueFacts
<1>2. n \in Nat /\ n <= c.count /\ n <= Len(q)
  BY <1>1
<1>3. QInv(q, c.count, c.attr.low, T, B, Ids(a)) /\ a \in Seq(Node)
  BY DEF Good, Typed
<1>4. x \in Seq(Node) /\ Len(x) = n /\ \A i \in 1..n : x[i] = q[i]
  <2>1. \A i \in 1..n : q[i] \in Node
    BY <1>1, <1>2
  <2>2. /\ x \in Seq(Node) /\ Len(x) = IF 1 <= n THEN n - 1 + 1 ELSE 0
        /\ \A i \in 1..(n - 1 + 1) : x[i] = q[1 + i - 1]
    BY <1>1, <1>2, <2>1, SubSeqProperties
  <2> HIDE DEF x, q
  <2>3. Len(x) = n
    BY <1>2, <2>2
  <2>4. \A i \in 1..n : x[i] = q[i]
    BY <1>2, <2>2
  <2> QED BY <2>2, <2>3, <2>4
<1>5. v = a \o x /\ d.given = c.given
  BY DEF Sends
<1>20. d.queue = Cut(q, 1, n + 1)
  BY <1>1, <1>2, HeadCut DEF Sends
<1>21. x = SubSeq(q, 1, (n + 1) - 1)
  BY <1>2
<1> HIDE DEF x, v, a
<1>6. /\ v \in Seq(Node) /\ Len(v) = Len(a) + n /\ Len(a) \in Nat
      /\ \A i \in 1..(Len(a) + n) : v[i] = IF i <= Len(a) THEN a[i] ELSE x[i - Len(a)]
  <2>1. Len(a) \in Nat
    BY <1>3, LenProperties
  <2>2. /\ a \o x \in Seq(Node) /\ Len(a \o x) = Len(a) + Len(x)
        /\ \A i \in 1..(Len(a) + Len(x)) : (a \o x)[i] = IF i <= Len(a) THEN a[i] ELSE x[i - Len(a)]
    BY <1>3, <1>4, ConcatProperties
  <2> QED BY <1>4, <1>5, <2>1, <2>2
<1>7. DOMAIN v = 1..(Len(a) + n) /\ DOMAIN a = 1..Len(a) /\ DOMAIN x = 1..n
  BY <1>3, <1>4, <1>6, LenProperties
<1>8. Len(a) <= Len(v) /\ \A i \in DOMAIN a : i \in DOMAIN v /\ v[i] = a[i]
  BY <1>2, <1>6, <1>7
<1>9. \A i \in Late(a, v) : i - Len(a) \in 1..n /\ i - Len(a) \in DOMAIN q /\ v[i] = q[i - Len(a)]
  <2> TAKE i \in Late(a, v)
  <2>1. i \in 1..(Len(a) + n) /\ i > Len(a)
    BY <1>7 DEF Late
  <2>2. i - Len(a) \in 1..n /\ ~(i <= Len(a)) /\ i - Len(a) \in 1..Len(q)
    BY <1>1, <1>2, <1>6, <2>1
  <2>3. v[i] = x[i - Len(a)]
    BY <1>6, <2>1, <2>2
  <2> QED BY <1>1, <1>4, <2>2, <2>3
<1>10. \A k \in 1..n : k + Len(a) \in Late(a, v) /\ v[k + Len(a)] = x[k]
  <2> TAKE k \in 1..n
  <2>1. k + Len(a) \in 1..(Len(a) + n) /\ k + Len(a) > Len(a) /\ (k + Len(a)) - Len(a) = k
    BY <1>2, <1>6
  <2> QED BY <1>6, <1>7, <2>1 DEF Late
<1>11. \A i, j \in Late(a, v) : i # j => FramesOf(v[i]) \cap FramesOf(v[j]) = {}
  <2> TAKE i, j \in Late(a, v)
  <2> HAVE i # j
  <2>1. i \in Int /\ j \in Int
    BY <1>7 DEF Late
  <2>2. i - Len(a) # j - Len(a)
    BY <1>6, <2>1
  <2>3. FramesOf(q[i - Len(a)]) \cap FramesOf(q[j - Len(a)]) = {}
    BY <1>3, <1>9, <2>2 DEF QInv, Apart
  <2> QED BY <1>9, <2>3
<1>12. Held(x) = Fresh(a, v)
  <2>1. \A z : z \in Held(x) => z \in Fresh(a, v)
    BY <1>7, <1>10 DEF Held, Fresh
  <2>2. \A z : z \in Fresh(a, v) => z \in Held(x)
    BY <1>4, <1>7, <1>9 DEF Held, Fresh
  <2> QED BY <2>1, <2>2
<1>13. /\ Held(q) = Held(d.queue) \cup Held(x)
       /\ Held(d.queue) \cap Held(x) = {}
  <2> DEFINE b == n + 1
  <2>1. b \in 1..(Len(q) + 1) /\ 1 \in 1..(Len(q) + 1)
    BY <1>1, <1>2
  <2>2. d.queue = Cut(q, 1, b) /\ x = SubSeq(q, 1, b - 1)
    BY <1>20, <1>21
  <2>3. Apart(q) /\ q \in Seq(Node)
    BY <1>1, <1>3 DEF QInv
  <2> HIDE DEF b, q
  <2> QED BY <2>1, <2>2, <2>3, CutHeld
<1>14. Held(d.queue) = (Held(q) \cup {}) \ (Fresh(a, v) \cup {})
  BY <1>12, <1>13
<1>15. /\ Fresh(a, v) \cup {} \subseteq Held(q) \cup {}
       /\ Fresh(a, v) \cap {} = {} /\ {} \subseteq Frames
  BY <1>12, <1>13
<1>16. \A b \in Frames : d.given[b] = IF b \in {} THEN c.given[b] + 1 ELSE c.given[b]
  BY <1>5
<1> QED BY <1>8, <1>11, <1>14, <1>15, <1>16 DEF Leaves, Grows, v, a

\* What leaves in a command is given back or sent.
LEMMA CommandLeaves ==
  ASSUME NEW c, NEW d, NEW T, NEW B, NEW N, N \subseteq Frames, Command(c, d, T, B, N)
  PROVE  \E S, R : Leaves(c, d, N, S, R)
<1>1. CASE Run(c, d, T, B, N)
  BY <1>1, RunLeaves
<1>2. CASE \E m : Run(c, m, T, B, N) /\ \E n \in 0..m.count : Sends(m, d, n)
  <2>1. PICK m : Run(c, m, T, B, N) /\ \E n \in 0..m.count : Sends(m, d, n)
    BY <1>2
  <2>2. PICK n \in 0..m.count : Sends(m, d, n)
    BY <2>1
  <2>3. PICK R : Leaves(c, m, N, {}, R)
    BY <2>1, RunLeaves
  <2>4. Good(m, T, B) /\ m.sent = c.sent
    BY <2>1 DEF Run
  <2> DEFINE S == Fresh(m.sent, d.sent)
  <2>5. Leaves(m, d, {}, S, {})
    BY <2>2, <2>4, SendsLeave
  <2>6. S = Fresh(c.sent, d.sent)
    BY <2>4
  <2> HIDE DEF S
  <2>7. Grows(c.sent, d.sent)
    BY <2>4, <2>5 DEF Leaves
  <2>8. /\ Held(m.queue) = (Held(c.queue) \cup N) \ R
        /\ R \subseteq Held(c.queue) \cup N /\ R \subseteq Frames
        /\ Held(d.queue) = Held(m.queue) \ S /\ S \subseteq Held(m.queue)
    BY <2>3, <2>5 DEF Leaves
  <2>9. /\ Held(d.queue) = (Held(c.queue) \cup N) \ (S \cup R)
        /\ S \cup R \subseteq Held(c.queue) \cup N /\ S \cap R = {}
    BY <2>8
  <2>10. \A b \in Frames : d.given[b] = IF b \in R THEN c.given[b] + 1 ELSE c.given[b]
    BY <2>3, <2>5 DEF Leaves
  <2>11. Leaves(c, d, N, S, R)
    BY <2>6, <2>7, <2>8, <2>9, <2>10 DEF Leaves
  <2> QED BY <2>11
<1> QED BY <1>1, <1>2 DEF Command

\* The bundles of a list of super buffers.
LEMMA PackedIs ==
  ASSUME NEW q \in Seq(Node)
  PROVE  /\ Packed(q) \in Seq(Bundles!Bundle) /\ DOMAIN Packed(q) = DOMAIN q
         /\ Len(Packed(q)) = Len(q) /\ Len(q) \in Nat
         /\ \A i \in DOMAIN q : Packed(q)[i].id = q[i].frame /\ Packed(q)[i].frames = FramesOf(q[i])
<1>1. DOMAIN q = 1..Len(q) /\ Len(q) \in Nat /\ \A i \in 1..Len(q) : q[i] \in Node
  BY LenProperties
<1> DEFINE p == Packed(q)
<1>2. /\ DOMAIN p = 1..Len(q)
      /\ \A i \in 1..Len(q) : p[i] = [id |-> q[i].frame, frames |-> FramesOf(q[i])]
  BY <1>1 DEF Packed
<1>3. p = [i \in 1..Len(q) |-> p[i]]
  BY <1>1 DEF Packed
<1> HIDE DEF p
<1>4. \A i \in 1..Len(q) : p[i] \in Bundles!Bundle
  <2> TAKE i \in 1..Len(q)
  <2>1. q[i].frame \in 1..MaxFrame
    BY <1>1, NodeFields
  <2>2. FramesOf(q[i]) \subseteq Frames
    BY DEF FramesOf
  <2> QED BY <1>2, <2>1, <2>2 DEF Bundles!Bundle, Bundles!Frame, Frames
<1>5. p \in Seq(Bundles!Bundle) /\ Len(p) = Len(q)
  BY <1>1, <1>2, <1>3, <1>4
<1> QED BY <1>1, <1>2, <1>5 DEF p

\* A bundle of a super buffer is whole.
LEMMA PackedWhole ==
  ASSUME NEW n \in Node, Bundled(n), NEW p, p.id = n.frame, p.frames = FramesOf(n)
  PROVE  Bundles!Whole(p)
<1>1. n.bufs \in [Streams -> 0..MaxFrame] /\ n.frame \in 1..MaxFrame
  BY NodeFields
<1>2. ASSUME NEW s \in Streams, NEW f \in 1..MaxFrame
      PROVE  <<s, f>> \in p.frames <=> n.bufs[s] = f
  BY DEF FramesOf, Frames
<1>3. \A s \in Streams \ {Meta} : \A f \in 1..MaxFrame : <<s, f>> \in p.frames <=> f = p.id
  BY ZenonT(40), <1>2 DEF Bundled, Other
<1>4. Meta \in Streams
  BY SuperBufQueueAssumption
<1>5. n.bufs[Meta] \in 1..MaxFrame
  <2>1. n.bufs[Meta] \in 0..MaxFrame /\ n.bufs[Meta] # 0
    BY <1>1, <1>4 DEF Bundled, Matched
  <2> QED BY <2>1
<1>6. \E f \in 1..MaxFrame : <<Meta, f>> \in p.frames
  BY <1>2, <1>4, <1>5
<1>7. \A f, g \in 1..MaxFrame : {<<Meta, f>>, <<Meta, g>>} \subseteq p.frames => f = g
  BY <1>2, <1>4
<1> QED BY <1>3, <1>6, <1>7 DEF Bundles!Whole

\* The bundles y are x and whole ones, of frames of their own, in order.
Sending(a, v, x, y) ==
  /\ y \in Seq(Bundles!Bundle) /\ Len(x) <= Len(y) /\ \A i \in DOMAIN x : y[i] = x[i]
  /\ {i \in DOMAIN y : i > Len(x)} = Late(a, v)
  /\ \A i \in Late(a, v) : Bundles!Whole(y[i])
  /\ \A i, j \in Late(a, v) : i # j => y[i].frames \cap y[j].frames = {}
  /\ Bundles!Ascending(y)
  /\ UNION {y[i].frames : i \in Late(a, v)} = Fresh(a, v)

\* The bundles sent by a step are whole, of frames of their own, and in order.
LEMMA SendsBundles ==
  ASSUME NEW a \in Seq(Node), NEW v \in Seq(Node), NEW T, SentIs(v, T),
         Grows(a, v),
         NEW x, x = Packed(a), NEW y, y = Packed(v)
  PROVE  Sending(a, v, x, y)
<1>1. /\ DOMAIN x = DOMAIN a /\ Len(x) = Len(a) /\ DOMAIN y = DOMAIN v /\ Len(y) = Len(v)
      /\ y \in Seq(Bundles!Bundle)
      /\ \A i \in DOMAIN v : y[i].id = v[i].frame /\ y[i].frames = FramesOf(v[i])
  BY PackedIs
<1>0. /\ Len(a) <= Len(v) /\ \A i \in DOMAIN a : i \in DOMAIN v /\ v[i] = a[i]
      /\ \A i, j \in Late(a, v) : i # j => FramesOf(v[i]) \cap FramesOf(v[j]) = {}
  BY DEF Grows
<1>2. \A i \in DOMAIN x : y[i] = x[i]
  <2>1. \A i \in DOMAIN a : x[i] = [id |-> a[i].frame, frames |-> FramesOf(a[i])]
    BY DEF Packed
  <2>2. \A i \in DOMAIN v : y[i] = [id |-> v[i].frame, frames |-> FramesOf(v[i])]
    BY DEF Packed
  <2> QED BY <1>0, <1>1, <2>1, <2>2
<1>3. {i \in DOMAIN y : i > Len(x)} = Late(a, v)
  BY <1>1 DEF Late
<1>4. Late(a, v) \subseteq DOMAIN v
  BY DEF Late
<1>5. ASSUME NEW i \in Late(a, v) PROVE Bundles!Whole(y[i])
  <2>1. Bundled(v[i])
    BY <1>4 DEF SentIs
  <2>2. v[i] \in Node
    BY <1>4, ElementOfSeq, LenProperties
  <2>3. y[i].id = v[i].frame /\ y[i].frames = FramesOf(v[i])
    BY <1>1, <1>4
  <2> QED BY <2>1, <2>2, <2>3, PackedWhole
<1>6. \A i, j \in Late(a, v) : i # j => y[i].frames \cap y[j].frames = {}
  BY <1>0, <1>1, <1>4
<1>7. Bundles!Ascending(y)
  BY <1>1 DEF SentIs, Bundles!Ascending
<1>8. UNION {y[i].frames : i \in Late(a, v)} = Fresh(a, v)
  <2>1. \A i \in Late(a, v) : y[i].frames = FramesOf(v[i])
    BY <1>1, <1>4
  <2> QED BY <2>1 DEF Fresh
<1> QED BY <1>0, <1>1, <1>2, <1>3, <1>5, <1>6, <1>7, <1>8 DEF Sending

\* No frame is lost twice.
LostOnce == lost \subseteq taken /\ lost \cap Held(ch.queue) = {}

\* The frames in S are sent, those in R given back and those in L lost.
Leaving(N, S, R, L) ==
  /\ Grows(ch.sent, ch'.sent)
  /\ S = Fresh(ch.sent, ch'.sent)
  /\ S \cup R \cup L \subseteq Held(ch.queue) \cup N
  /\ S \cap R = {} /\ S \cap L = {} /\ R \cap L = {} /\ R \subseteq Frames
  /\ Held(ch'.queue) = (Held(ch.queue) \cup N) \ (S \cup R \cup L)
  /\ \A b \in Frames : ch'.given[b] = IF b \in R THEN ch.given[b] + 1 ELSE ch.given[b]
  /\ lost' = lost \cup L /\ \A b \in L : b[1] \in Linked

\* What the invariant says of the frames.
LEMMA IInvFacts ==
  ASSUME IInv
  PROVE  /\ ch.sent \in Seq(Node) /\ ch.given \in [Frames -> Nat] /\ SentIs(ch.sent, taken)
         /\ Held(ch.queue) \subseteq taken /\ taken \subseteq Frames
<1>1. Good(ch, taken, begun) /\ SentIs(ch.sent, taken) /\ taken \subseteq Frames
  BY DEF IInv, Rest
<1>2. ch.sent \in Seq(Node) /\ ch.given \in [Frames -> Nat]
  BY <1>1 DEF Good, Typed
<1>3. Held(ch.queue) \subseteq taken
  BY <1>1, HeldTaken DEF Good
<1> QED BY <1>1, <1>2, <1>3

\* A step keeps it.
LEMMA LostStaysOnce ==
  ASSUME IInv, LostOnce, NEW N, Brings(N), NEW S, NEW R, NEW L, Leaving(N, S, R, L)
  PROVE  LostOnce'
<1>1. /\ Held(ch.queue) \subseteq taken /\ taken' = taken \cup N /\ N \cap taken = {}
      /\ Held(ch'.queue) = (Held(ch.queue) \cup N) \ (S \cup R \cup L)
      /\ lost' = lost \cup L /\ L \subseteq Held(ch.queue) \cup N
  BY IInvFacts DEF Brings, Leaving
<1>2. lost' \subseteq taken' /\ lost' \cap Held(ch'.queue) = {}
  BY <1>1 DEF LostOnce
<1> QED BY <1>2 DEF LostOnce

\* Such a step is one of BundleFrames.
LEMMA LeavingRefines ==
  ASSUME IInv, IInv', LostOnce, NEW N, Brings(N), NEW S, NEW R, NEW L, Leaving(N, S, R, L)
  PROVE  Bundles!Next
<1> DEFINE x == Packed(ch.sent)
           y == Packed(ch'.sent)
<1>1. /\ ch.sent \in Seq(Node) /\ ch.given \in [Frames -> Nat] /\ Held(ch.queue) \subseteq taken
  BY IInvFacts
<1>2. /\ ch'.sent \in Seq(Node) /\ ch'.given \in [Frames -> Nat] /\ SentIs(ch'.sent, taken')
      /\ taken' \subseteq Frames
  <2>1. Good(ch', taken', begun') /\ SentIs(ch'.sent, taken') /\ taken' \subseteq Frames
    BY DEF IInv, Rest
  <2> QED BY <2>1 DEF Good, Typed
<1>3. /\ y \in Seq(Bundles!Bundle) /\ Len(x) <= Len(y) /\ \A i \in DOMAIN x : y[i] = x[i]
      /\ {i \in DOMAIN y : i > Len(x)} = Late(ch.sent, ch'.sent)
      /\ \A i \in Late(ch.sent, ch'.sent) : Bundles!Whole(y[i])
      /\ \A i, j \in Late(ch.sent, ch'.sent) : i # j => y[i].frames \cap y[j].frames = {}
      /\ Bundles!Ascending(y)
      /\ UNION {y[i].frames : i \in Late(ch.sent, ch'.sent)} = Fresh(ch.sent, ch'.sent)
  <2> DEFINE a == ch.sent
             v == ch'.sent
             T == taken'
  <2>1. Grows(a, v)
    BY DEF Leaving
  <2>2. a \in Seq(Node) /\ v \in Seq(Node) /\ SentIs(v, T) /\ x = Packed(a) /\ y = Packed(v)
    BY <1>1, <1>2
  <2> HIDE DEF x, y, a, v, T
  <2>3. Sending(a, v, x, y)
    BY <2>1, <2>2, SendsBundles
  <2> QED BY <2>3 DEF Sending, a, v
<1>4. Bundles!Later = Late(ch.sent, ch'.sent)
  BY <1>3 DEF Bundles!Later
<1>5. Bundles!Sent = S
  BY <1>3, <1>4 DEF Bundles!Sent, Leaving
<1>6. Bundles!Send
  BY <1>3, <1>4 DEF Bundles!Send
<1>7. Bundles!Arrive /\ Bundles!Arrived = N
  BY <1>2 DEF Bundles!Arrive, Bundles!Arrived, Bundles!Frame, Frames, Brings
<1>8. \A b \in Frames : /\ ch.given[b] \in Nat
                        /\ ch'.given[b] = IF b \in R THEN ch.given[b] + 1 ELSE ch.given[b]
  BY <1>1 DEF Leaving
<1>9. Bundles!Recycle
  <2>1. ch'.given = [b \in Frames |-> ch'.given[b]]
    BY <1>2
  <2>2. \A b \in Frames : ch'.given[b] \in {ch.given[b], ch.given[b] + 1}
    BY <1>8
  <2> QED BY <2>1, <2>2 DEF Bundles!Recycle, Bundles!Frame, Frames
<1>10. Bundles!Recycled = R
  <2>1. R \subseteq Frames
    BY DEF Leaving
  <2>2. \A b \in Frames : ch'.given[b] # ch.given[b] <=> b \in R
    BY <1>8
  <2> QED BY <2>1, <2>2 DEF Bundles!Recycled, Bundles!Frame, Frames
<1>11. Bundles!Lost = L
  <2>1. L \cap lost = {}
    BY <1>1 DEF Leaving, LostOnce, Brings
  <2> QED BY <2>1 DEF Bundles!Lost, Leaving
<1>12. Bundles!Lose
  BY DEF Bundles!Lose, Leaving
<1>13. Bundles!Leave(S, R, L)
  BY <1>7 DEF Bundles!Leave, Leaving
<1> QED BY <1>5, <1>6, <1>7, <1>9, <1>10, <1>11, <1>12, <1>13 DEF Bundles!Next

\* The frames that leave in a step that loses none.
LEMMA LeavesLeaving ==
  ASSUME NEW N, NEW S, NEW R, Leaves(ch, ch', N, S, R), lost' = lost
  PROVE  Leaving(N, S, R, {})
BY DEF Leaves, Leaving

\* A command loses no frame.
LEMMA CommandLeaving ==
  ASSUME IInv, NEW N, Command(ch, ch', taken', begun', N), Brings(N), lost' = lost
  PROVE  \E S, R : Leaving(N, S, R, {})
<1>1. N \subseteq Frames
  BY DEF Brings
<1>2. PICK S, R : Leaves(ch, ch', N, S, R)
  <2> DEFINE d == ch'
             T == taken'
             B == begun'
  <2>1. Command(ch, d, T, B, N)
    OBVIOUS
  <2> HIDE DEF d, T, B
  <2>2. \E S, R : Leaves(ch, d, N, S, R)
    BY <1>1, <2>1, CommandLeaves
  <2> QED BY <2>2 DEF d
<1> QED BY <1>2, LeavesLeaving

\* Starting a stream and stopping bring no frame and lose none.
LEMMA RunLeaving ==
  ASSUME IInv, Run(ch, ch', taken', begun', {}), taken' = taken, lost' = lost
  PROVE  Brings({}) /\ \E S, R : Leaving({}, S, R, {})
<1>1. Command(ch, ch', taken', begun', {})
  BY DEF Command
<1>2. Brings({})
  BY DEF Brings
<1> QED BY <1>1, <1>2, CommandLeaving

\* A failed start gives the frames of own streams back and loses those of linked
\* ones.
LEMMA ClearedLeaving ==
  ASSUME IInv, Cleared
  PROVE  Brings({}) /\ \E R, L : Leaving({}, {}, R, L)
<1> DEFINE own == {b \in Held(ch.queue) : b[1] \in Own}
           L == Held(ch.queue) \ own
<1>1. /\ taken' = taken /\ ch'.queue = <<>> /\ ch'.sent = ch.sent /\ lost' = lost \cup L
      /\ \A b \in Frames : ch'.given[b] = IF b \in own THEN ch.given[b] + 1 ELSE ch.given[b]
  BY DEF Cleared
<1>2. Held(ch'.queue) = {}
  BY <1>1, EmptyQueue
<1>3. ch.sent \in Seq(Node)
  BY IInvFacts
<1>4. Late(ch.sent, ch.sent) = {} /\ Fresh(ch.sent, ch.sent) = {} /\ Len(ch.sent) \in Nat
  BY <1>3, NoneLate, LenProperties
<1>5. Held(ch.queue) \subseteq Frames
  BY HeldAreFrames
<1>6. \A b \in L : b[1] \in Linked
  <2> TAKE b \in L
  <2>1. b \in Frames /\ b[1] \notin Own
    BY <1>5
  <2>2. b[1] \in Streams
    BY <2>1 DEF Frames
  <2> QED BY <2>1, <2>2 DEF Own
<1>7. own \cap L = {} /\ own \cup L = Held(ch.queue)
  OBVIOUS
<1> HIDE DEF own, L
<1>8. Leaving({}, {}, own, L)
  BY <1>1, <1>2, <1>4, <1>5, <1>6, <1>7 DEF Leaving, Grows
<1>9. Brings({})
  BY <1>1 DEF Brings
<1> QED BY <1>8, <1>9

\* Every step is one of BundleFrames.
LEMMA NextLeaving ==
  ASSUME IInv, Next
  PROVE  \E N, S, R, L : Brings(N) /\ Leaving(N, S, R, L)
<1>1. CASE Data
  BY <1>1, DataKeeps, CommandLeaving
<1>2. CASE Request
  BY <1>2, RequestKeeps, CommandLeaving
<1>3. CASE Flush
  BY <1>3, FlushKeeps, CommandLeaving
<1>4. CASE General
  BY <1>4, GeneralKeeps, CommandLeaving
<1>5. CASE Start
  BY <1>5, StartKeeps, CommandLeaving
<1>6. ASSUME NEW s \in Streams, StartStream(s)
      PROVE  \E N, S, R, L : Brings(N) /\ Leaving(N, S, R, L)
  BY <1>6, StartStreamKeeps, RunLeaving
<1>7. CASE StartFails
  BY <1>7, StartFailsKeeps, ClearedLeaving
<1>8. CASE Stop
  BY <1>8, StopKeeps, RunLeaving
<1> QED BY <1>1, <1>2, <1>3, <1>4, <1>5, <1>6, <1>7, <1>8 DEF Next

\* Every step of the queue is one of BundleFrames, or none.
LEMMA Refines ==
  ASSUME IInv, IInv', LostOnce, [Next]_vars
  PROVE  LostOnce' /\ [Bundles!Next]_(Bundles!vars)
<1>1. CASE Next
  <2>1. PICK N, S, R, L : Brings(N) /\ Leaving(N, S, R, L)
    BY <1>1, NextLeaving
  <2>2. LostOnce'
    BY <2>1, LostStaysOnce
  <2>3. Bundles!Next
    BY <2>1, LeavingRefines
  <2> QED BY <2>2, <2>3
<1>2. CASE UNCHANGED vars
  <2>1. ch' = ch /\ taken' = taken /\ lost' = lost
    BY <1>2 DEF vars
  <2>2. UNCHANGED Bundles!vars
    BY <2>1 DEF Bundles!vars
  <2>3. LostOnce'
    BY <2>1 DEF LostOnce
  <2> QED BY <2>2, <2>3
<1> QED BY <1>1, <1>2

\* The first state is one of BundleFrames.
LEMMA InitRefines ==
  ASSUME Init
  PROVE  LostOnce /\ Bundles!Init
<1>1. PICK a \in Attrs :
        ch = [attr |-> a, queue |-> <<>>, count |-> 0, expected |-> 0,
              good |-> 0, noLed |-> 0, ledOff |-> 0, ledSkip |-> 0,
              once |-> FALSE, diverted |-> 0, pending |-> 0, retro |-> 0,
              wait |-> FALSE, zsl |-> FALSE, led |-> FALSE, burst |-> 0,
              stop |-> FALSE, bracketing |-> "off", flash |-> FALSE,
              zoom |-> FALSE, sent |-> <<>>, given |-> [b \in Frames |-> 0]]
  BY DEF Init
<1>2. ch.queue = <<>> /\ ch.sent = <<>> /\ ch.given = [b \in Frames |-> 0]
  BY <1>1
<1>3. taken = {} /\ lost = {}
  BY DEF Init
<1>4. Held(ch.queue) = {}
  BY <1>2, EmptyQueue
<1>5. Packed(ch.sent) = <<>>
  BY <1>2, EmptySeq DEF Packed
<1>6. Bundles!Init
  BY <1>2, <1>3, <1>4, <1>5 DEF Bundles!Init, Bundles!Frame, Frames
<1> QED BY <1>3, <1>6 DEF LostOnce

\* The super buffer queue implements BundleFrames: a delivered frame stays in the
\* queue until it is sent in a super buffer, given back once, or lost by a failed
\* start; super buffers are whole and sent in the order of their frames.
THEOREM Implements == Spec => ImplementsBundles
<1>1. Init => LostOnce /\ Bundles!Init
  BY InitRefines
<1>2. IInv /\ IInv' /\ LostOnce /\ [Next]_vars => LostOnce' /\ [Bundles!Next]_(Bundles!vars)
  BY Refines
<1> QED BY <1>1, <1>2, Invariant, PTL DEF Spec, ImplementsBundles, Bundles!Spec

BundleType ==
  /\ taken \subseteq Bundles!Frame
  /\ Packed(ch.sent) \in Seq(Bundles!Bundle)
  /\ ch.given \in [Bundles!Frame -> Nat]

BundleInv == BundleType /\ Bundles!OnePlace /\ Bundles!BundlesInOrder

\* The types, which the disposal of frames keeps.
LEMMA BundleTypeStep ==
  ASSUME BundleType, Bundles!Next
  PROVE  BundleType'
<1>1. taken' \subseteq Bundles!Frame /\ Packed(ch'.sent) \in Seq(Bundles!Bundle)
  BY DEF Bundles!Next, Bundles!Arrive, Bundles!Send
<1>2. ch'.given \in [Bundles!Frame -> Nat]
  <2>1. \A b \in Bundles!Frame : ch'.given[b] \in Nat
    BY DEF Bundles!Next, Bundles!Recycle, BundleType
  <2>2. ch'.given = [b \in Bundles!Frame |-> ch'.given[b]]
    BY DEF Bundles!Next, Bundles!Recycle
  <2> QED
    BY <2>1, <2>2
<1> QED
  BY <1>1, <1>2 DEF BundleType

\* The indexes of the bundles after a step are the old ones and the later ones.
LEMMA SentDomain ==
  ASSUME BundleType, Bundles!Next
  PROVE  /\ DOMAIN Packed(ch'.sent) = DOMAIN Packed(ch.sent) \cup Bundles!Later
         /\ DOMAIN Packed(ch.sent) \cap Bundles!Later = {}
         /\ \A i \in DOMAIN Packed(ch.sent) : Packed(ch'.sent)[i] = Packed(ch.sent)[i]
<1>1. /\ Packed(ch'.sent) \in Seq(Bundles!Bundle) /\ Packed(ch.sent) \in Seq(Bundles!Bundle)
      /\ Len(Packed(ch.sent)) <= Len(Packed(ch'.sent))
  BY DEF Bundles!Next, Bundles!Send, BundleType
<1>2. \A i \in DOMAIN Packed(ch.sent) : Packed(ch'.sent)[i] = Packed(ch.sent)[i]
  BY DEF Bundles!Next, Bundles!Send
<1>3. /\ DOMAIN Packed(ch.sent) = 1..Len(Packed(ch.sent))
      /\ DOMAIN Packed(ch'.sent) = 1..Len(Packed(ch'.sent))
      /\ Len(Packed(ch.sent)) \in Nat /\ Len(Packed(ch'.sent)) \in Nat
  BY <1>1
<1>4. Bundles!Later = {i \in 1..Len(Packed(ch'.sent)) : i > Len(Packed(ch.sent))}
  BY <1>3 DEF Bundles!Later
<1> QED
  BY <1>1, <1>2, <1>3, <1>4

\* The frames in the bundles grow by those of the later bundles.
LEMMA SentFrames ==
  ASSUME BundleType, Bundles!Next
  PROVE  Bundles!FramesIn(Packed(ch'.sent)) = Bundles!FramesIn(Packed(ch.sent)) \cup Bundles!Sent
<1>1. Bundles!FramesIn(Packed(ch'.sent))
        = UNION {Packed(ch'.sent)[i].frames : i \in DOMAIN Packed(ch'.sent)}
  BY DEF Bundles!FramesIn
<1>2. UNION {Packed(ch'.sent)[i].frames : i \in DOMAIN Packed(ch.sent)}
        = Bundles!FramesIn(Packed(ch.sent))
  BY SentDomain DEF Bundles!FramesIn
<1> QED
  BY <1>1, <1>2, SentDomain DEF Bundles!Sent

\* The frames given back grow by those of the step, and one that was not given
\* back before is given back once.
LEMMA BackFrames ==
  ASSUME BundleType, Bundles!Next
  PROVE  /\ Bundles!Returned' = Bundles!Returned \cup Bundles!Recycled
         /\ \A b \in Bundles!Frame :
              ch'.given[b] = IF b \in Bundles!Recycled THEN ch.given[b] + 1 ELSE ch.given[b]
<1>1. \A b \in Bundles!Frame :
        ch.given[b] \in Nat /\ ch'.given[b] \in {ch.given[b], ch.given[b] + 1}
  BY DEF Bundles!Next, Bundles!Recycle, BundleType
<1>2. Bundles!Returned' = {b \in Bundles!Frame : ch'.given[b] > 0}
  BY DEF Bundles!Returned
<1>3. \A b \in Bundles!Frame :
        ch'.given[b] = IF b \in Bundles!Recycled THEN ch.given[b] + 1 ELSE ch.given[b]
  BY <1>1 DEF Bundles!Recycled
<1>4. \A b \in Bundles!Frame :
        b \in Bundles!Returned' <=> b \in Bundles!Returned \/ b \in Bundles!Recycled
  BY <1>1, <1>2 DEF Bundles!Returned, Bundles!Recycled
<1> QED
  BY <1>2, <1>3, <1>4 DEF Bundles!Returned, Bundles!Recycled

\* Frames that leave come from those held or just arrived, so they were in no
\* other place before.
LEMMA PlaceStep ==
  ASSUME BundleType, Bundles!OnePlace, Bundles!Next
  PROVE  Bundles!OnePlace'
<1>1. /\ Bundles!Sent \cup Bundles!Recycled \cup Bundles!Lost
           \subseteq Held(ch.queue) \cup Bundles!Arrived
      /\ Bundles!Sent \cap Bundles!Recycled = {} /\ Bundles!Sent \cap Bundles!Lost = {}
      /\ Bundles!Recycled \cap Bundles!Lost = {}
      /\ Held(ch'.queue) = (Held(ch.queue) \cup Bundles!Arrived)
           \ (Bundles!Sent \cup Bundles!Recycled \cup Bundles!Lost)
  BY DEF Bundles!Next, Bundles!Leave
<1>2. taken' = taken \cup Bundles!Arrived /\ Bundles!Arrived \cap taken = {}
  BY DEF Bundles!Next, Bundles!Arrive, Bundles!Arrived
<1>3. lost' = lost \cup Bundles!Lost
  BY DEF Bundles!Next, Bundles!Lose, Bundles!Lost
<1>4. Bundles!FramesIn(Packed(ch'.sent)) = Bundles!FramesIn(Packed(ch.sent)) \cup Bundles!Sent
  BY SentFrames
<1>5. Bundles!Returned' = Bundles!Returned \cup Bundles!Recycled
  BY BackFrames
<1>6. /\ taken' = Held(ch'.queue) \cup Bundles!FramesIn(Packed(ch'.sent))
                    \cup Bundles!Returned' \cup lost'
      /\ Held(ch'.queue) \cap Bundles!FramesIn(Packed(ch'.sent)) = {}
      /\ Held(ch'.queue) \cap Bundles!Returned' = {}
      /\ Held(ch'.queue) \cap lost' = {}
      /\ Bundles!FramesIn(Packed(ch'.sent)) \cap Bundles!Returned' = {}
      /\ Bundles!FramesIn(Packed(ch'.sent)) \cap lost' = {}
      /\ Bundles!Returned' \cap lost' = {}
  BY <1>1, <1>2, <1>3, <1>4, <1>5 DEF Bundles!OnePlace
<1>7. ASSUME NEW b \in Bundles!Frame PROVE ch'.given[b] <= 1
  <2>1. b \in Bundles!Recycled => b \notin Bundles!Returned
    BY <1>1, <1>2 DEF Bundles!OnePlace
  <2>2. ch.given[b] \in Nat /\ ch.given[b] <= 1
    BY DEF BundleType, Bundles!OnePlace
  <2>3. b \in Bundles!Recycled => ch.given[b] = 0
    BY <2>1, <2>2 DEF Bundles!Returned
  <2> QED
    BY <2>2, <2>3, BackFrames
<1> QED
  BY <1>6, <1>7 DEF Bundles!OnePlace

\* New bundles are made of frames that are in no bundle yet.
LEMMA BundleStep ==
  ASSUME BundleType, Bundles!OnePlace, Bundles!BundlesInOrder, Bundles!Next
  PROVE  Bundles!BundlesInOrder'
<1>1. Bundles!Sent \cap Bundles!FramesIn(Packed(ch.sent)) = {}
  <2>1. /\ Bundles!Sent \subseteq Held(ch.queue) \cup Bundles!Arrived
        /\ Bundles!Arrived \cap taken = {}
    BY DEF Bundles!Next, Bundles!Leave, Bundles!Arrived
  <2> QED
    BY <2>1 DEF Bundles!OnePlace
<1>2. ASSUME NEW i \in DOMAIN Packed(ch'.sent), NEW j \in DOMAIN Packed(ch'.sent), i # j
      PROVE  Packed(ch'.sent)[i].frames \cap Packed(ch'.sent)[j].frames = {}
  <2>1. CASE i \in DOMAIN Packed(ch.sent) /\ j \in DOMAIN Packed(ch.sent)
    BY <1>2, <2>1, SentDomain DEF Bundles!BundlesInOrder
  <2>2. CASE i \in Bundles!Later /\ j \in Bundles!Later
    BY <1>2, <2>2 DEF Bundles!Next, Bundles!Send
  <2>3. ASSUME NEW k \in DOMAIN Packed(ch.sent), NEW l \in Bundles!Later
        PROVE  Packed(ch'.sent)[k].frames \cap Packed(ch'.sent)[l].frames = {}
    <3>1. Packed(ch'.sent)[k].frames \subseteq Bundles!FramesIn(Packed(ch.sent))
      BY SentDomain DEF Bundles!FramesIn
    <3>2. Packed(ch'.sent)[l].frames \subseteq Bundles!Sent
      BY DEF Bundles!Sent
    <3> QED
      BY <3>1, <3>2, <1>1
  <2> QED
    BY <2>1, <2>2, <2>3, SentDomain
<1>3. ASSUME NEW i \in DOMAIN Packed(ch'.sent) PROVE Bundles!Whole(Packed(ch'.sent)[i])
  <2>1. CASE i \in DOMAIN Packed(ch.sent)
    BY <2>1, SentDomain DEF Bundles!BundlesInOrder
  <2>2. CASE i \in Bundles!Later
    BY <2>2 DEF Bundles!Next, Bundles!Send
  <2> QED
    BY <2>1, <2>2, SentDomain
<1>4. Bundles!Ascending(Packed(ch'.sent))
  BY DEF Bundles!Next, Bundles!Send, Bundles!Ascending
<1> QED
  BY <1>2, <1>3, <1>4 DEF Bundles!BundlesInOrder, Bundles!Whole

\* For any streams and any number of frames, every frame the channel was given
\* is in one place: with it, in a bundle, given back once, or lost; no frame is
\* in two bundles, and the bundles are whole and in order.
THEOREM FramesInOnePlace == Spec => [](Bundles!OnePlace /\ Bundles!BundlesInOrder)
<1>1. Bundles!Init => BundleInv
  <2> SUFFICES ASSUME Bundles!Init PROVE BundleInv
    OBVIOUS
  <2>1. BundleType
    BY DEF Bundles!Init, BundleType
  <2>2. Bundles!FramesIn(Packed(ch.sent)) = {} /\ Bundles!Returned = {}
    BY DEF Bundles!Init, Bundles!FramesIn, Bundles!Returned
  <2>3. Bundles!OnePlace
    BY <2>2 DEF Bundles!Init, Bundles!OnePlace
  <2>4. Bundles!BundlesInOrder
    BY DEF Bundles!Init, Bundles!BundlesInOrder, Bundles!Ascending
  <2> QED
    BY <2>1, <2>3, <2>4 DEF BundleInv
<1>2. BundleInv /\ [Bundles!Next]_(Bundles!vars) => BundleInv'
  <2> SUFFICES ASSUME BundleInv, [Bundles!Next]_(Bundles!vars) PROVE BundleInv'
    OBVIOUS
  <2>1. CASE Bundles!Next
    BY <2>1, BundleTypeStep, PlaceStep, BundleStep DEF BundleInv
  <2>2. CASE UNCHANGED Bundles!vars
    <3>1. /\ taken' = taken /\ Held(ch'.queue) = Held(ch.queue) /\ ch'.given = ch.given
          /\ Packed(ch'.sent) = Packed(ch.sent) /\ lost' = lost
      BY <2>2 DEF Bundles!vars
    <3>2. BundleType'
      BY <3>1 DEF BundleInv, BundleType
    <3>3. Bundles!OnePlace'
      BY <3>1 DEF BundleInv, Bundles!OnePlace, Bundles!FramesIn, Bundles!Returned
    <3>4. Bundles!BundlesInOrder'
      <4> DEFINE x == Packed(ch.sent)
                 y == Packed(ch'.sent)
      <4>1. y = x
        BY <3>1
      <4>2. /\ \A i, j \in DOMAIN x : i # j => x[i].frames \cap x[j].frames = {}
            /\ \A i \in DOMAIN x : Bundles!Whole(x[i])
            /\ Bundles!Ascending(x)
        BY DEF BundleInv, Bundles!BundlesInOrder
      <4> HIDE DEF x, y
      <4>3. /\ \A i, j \in DOMAIN y : i # j => y[i].frames \cap y[j].frames = {}
            /\ \A i \in DOMAIN y : Bundles!Whole(y[i])
            /\ Bundles!Ascending(y)
        BY <4>1, <4>2
      <4> QED
        BY <4>3 DEF y, Bundles!BundlesInOrder, Bundles!Whole, Bundles!Ascending
    <3> QED
      BY <3>2, <3>3, <3>4 DEF BundleInv
  <2> QED
    BY <2>1, <2>2
<1>3. BundleInv => Bundles!OnePlace /\ Bundles!BundlesInOrder
  BY DEF BundleInv
<1> QED
  BY <1>1, <1>2, <1>3, Implements, PTL DEF ImplementsBundles, Bundles!Spec

=============================================================================
