---------------------------- MODULE SuperBufQueue ----------------------------
(***************************************************************************)
(* The super buffer queue of a camera channel (mm_camera_channel.c).       *)
(*                                                                         *)
(* The frames of the bundled streams are matched by frame id into super    *)
(* buffers.  One command thread owns the queue: it takes frames, requests  *)
(* of the HAL, flushes and bracketing commands in the order they were      *)
(* posted, so that a command is one step here.  After each of them but a   *)
(* flush the thread starts or stops the daemon's ZSL snapshot, gives back  *)
(* what exceeds the water mark and sends matched super buffers to the HAL. *)
(*                                                                         *)
(* ch is the channel object and its queue; a command is a composition of   *)
(* functions from ch to ch, in the order of the calls in the code.  A      *)
(* frame is a pair <<stream, frame id>>.                                   *)
(***************************************************************************)
EXTENDS Integers, Sequences, SequencesExt, FiniteSets

CONSTANTS
  Streams,       \* the bundled streams
  Meta,          \* the metadata stream
  Linked,        \* streams of another channel, which only unlinks them
  Attrs,         \* channel attributes the HAL may choose
  MetaInputs(_), \* what the metadata of a frame may say
  MaxFuture,     \* MM_CAMERA_MAX_FUTURE_FRAME_WAIT
  DivertedWidth, \* diverted_frame_id is a uint8_t: 2^8 in the code
  MaxFrame,      \* bound on frame ids
  MaxRequest,    \* bound on the super buffers requested at once
  MaxEvents      \* bound on commands, starts and metadata that say something

ASSUME SuperBufQueueAssumption ==
  /\ Meta \in Streams /\ Linked \subseteq Streams /\ Linked # Streams
  /\ MaxFuture \in Nat /\ DivertedWidth \in Nat \ {0} /\ MaxFrame \in Nat /\ MaxRequest \in Nat
  /\ Attrs \subseteq [burst : BOOLEAN, low : BOOLEAN, mark : Nat, back : Nat,
                     skip : Nat, unmatched : Nat]
  /\ \A f \in 1..MaxFrame :
       MetaInputs(f) \subseteq [prep : {"none", "need", "noneed"}, min : Nat, max : Nat,
                               skip : Nat, divert : Nat, crop1x : BOOLEAN]

VARIABLES
  ch,     \* the channel object, its queue and what it gave away
  running, \* mm_channel_start was called: linked streams deliver
  begun,  \* the own streams that are started
  taken,  \* the frames delivered to the channel so far
  lost,   \* frames of linked streams dropped without being given back
  events  \* commands so far (bounded by MaxEvents)

vars == <<ch, running, begun, taken, lost, events>>

Own == Streams \ Linked
Frames == Streams \X (1..MaxFrame)
Active == begun = Own

NoMeta == [prep |-> "none", min |-> 0, max |-> 0, skip |-> 0,
           divert |-> 0, crop1x |-> FALSE]
ZeroAttr == [burst |-> TRUE, low |-> FALSE, mark |-> 0, back |-> 0,
             skip |-> 0, unmatched |-> 0]

-----------------------------------------------------------------------------
(* Nodes of the queue. *)

\* A slot of bufs is 0 while the stream's frame is missing.
Matched(n) == \A s \in Streams : n.bufs[s] # 0
Unmatched(n) == ~Matched(n)
FramesOf(n) == {b \in Frames : n.bufs[b[1]] = b[2]}
Held(q) == UNION {FramesOf(q[i]) : i \in DOMAIN q}

\* The number of matched super buffers at the head of the queue: what
\* mm_channel_superbuf_dequeue_internal can take with matched_only.
Leading(q) ==
  LET i == SelectInSeq(q, Unmatched) IN IF i = 0 THEN Len(q) ELSE i - 1

CountMatched(q) == Cardinality({i \in DOMAIN q : Matched(q[i])})
CountUnmatched(q) == Cardinality({i \in DOMAIN q : Unmatched(q[i])})

\* mm_channel_qbuf of every frame in F.
GiveBack(c, F) ==
  [c EXCEPT !.given = [b \in Frames |-> IF b \in F THEN @[b] + 1 ELSE @[b]]]

\* Takes the node at i out and gives its frames back.
Drop(c, i) ==
  GiveBack([c EXCEPT !.queue = RemoveAt(@, i)], FramesOf(c.queue[i]))

\* Takes n matched super buffers from the head and gives their frames back.
DropLeading(c, n) ==
  GiveBack([c EXCEPT !.queue = SubSeq(@, n + 1, Len(@)), !.count = @ - n],
           Held(SubSeq(c.queue, 1, n)))

flush_matched(c) == DropLeading(c, Leading(c.queue))

\* mm_channel_superbuf_flush of all types.
flush(c) ==
  GiveBack([c EXCEPT !.queue = <<>>, !.count = @ - CountMatched(c.queue)],
           Held(c.queue))

\* Gives back matched super buffers until at most limit are left; nothing in
\* continuous mode.
Trim(c, limit) ==
  IF c.attr.burst /\ c.count > limit
  THEN DropLeading(c, IF c.count - limit <= Leading(c.queue)
                      THEN c.count - limit ELSE Leading(c.queue))
  ELSE c

-----------------------------------------------------------------------------
(* Metadata: which frame is expected next. *)

Divert(c, f, md) ==
  IF md.divert = 0 THEN c
  ELSE [c EXCEPT !.diverted =
          IF md.divert >= f THEN md.divert % DivertedWidth ELSE 0]

Zoom1x(c, f, md) ==
  IF md.crop1x
  THEN [c EXCEPT !.zoom = FALSE, !.expected = f + 1]
  ELSE flush_matched([c EXCEPT !.expected = @ + MaxFuture])

\* The daemon says whether the snapshot needs a frame with the flash.
PrepDone(c, md) ==
  CASE md.prep = "none" -> c
    [] md.prep = "need" ->
         flush([c EXCEPT !.wait = FALSE, !.led = TRUE, !.expected = @ + MaxFuture])
    [] md.prep = "noneed" -> [c EXCEPT !.wait = FALSE, !.led = FALSE]

\* The range of good frames.  With flash bracketing its last frame is the one
\* without the flash; in a burst with the flash it is the first one without.
GoodRange(c, md) ==
  LET ledBurst == c.led /\ c.burst > 1 IN
  IF md.min # 0
  THEN [c EXCEPT !.expected = md.min, !.good = md.min,
                 !.ledOff = IF ledBurst THEN md.max ELSE @,
                 !.once = IF ledBurst THEN FALSE ELSE @,
                 !.ledSkip = IF ledBurst THEN md.skip ELSE @,
                 !.noLed = IF c.flash THEN md.max ELSE @,
                 !.bracketing = IF c.flash THEN @ ELSE "active"]
  ELSE IF c.bracketing = "wait" /\ md.prep = "none"
  THEN [flush_matched(c) EXCEPT !.expected = @ + MaxFuture]
  ELSE c

\* The end of the frames with the flash in a burst.
LedOff(c, f) ==
  IF /\ c.burst > 1 /\ c.led /\ ~c.flash /\ c.bracketing = "off"
     /\ f >= c.ledOff /\ ~c.once
  THEN [c EXCEPT !.expected = c.ledOff + c.ledSkip, !.once = TRUE,
                 !.stop = TRUE, !.led = FALSE]
  ELSE c

handle_metadata(c, s, f, md) ==
  LET c1 == Divert(c, f, md) IN
  IF s # Meta THEN c
  ELSE IF c.zoom THEN Zoom1x(c1, f, md)
  ELSE LedOff(GoodRange(PrepDone(c1, md), md), f)

-----------------------------------------------------------------------------
(* Matching. *)

\* With low priority a metadata frame also goes to an older super buffer
\* without metadata, and a frame to metadata that came before it alone.
Fits(c, n, s, f) ==
  \/ n.frame = f
  \/ /\ c.attr.low /\ n.bufs[s] = 0
     /\ IF s = Meta THEN n.frame < f ELSE n.metaOnly > f

\* queue expected_frame_id when super buffer f is complete.
Completed(c, f) ==
  IF c.flash
  THEN [c EXCEPT !.count = @ + 1, !.expected = c.noLed, !.flash = f < c.noLed]
  ELSE [c EXCEPT !.count = @ + 1, !.expected = f + c.attr.skip]

\* Mutant: the unmatched super buffers before a matched one stay.
KeepOlder(c, from, to) == c

\* Mutant: they are removed but their frames are not given back.
ReleaseSilently(c, from, to) ==
  [c EXCEPT !.queue = SubSeq(@, 1, from - 1) \o SubSeq(@, to, Len(@))]

\* Releases the super buffers from..to-1.
ReleaseOlder(c, from, to) ==
  GiveBack([c EXCEPT !.queue = SubSeq(@, 1, from - 1) \o SubSeq(@, to, Len(@))],
           Held(SubSeq(c.queue, from, to - 1)))

\* Mutant: a super buffer that was only metadata keeps the metadata's frame id.
MetaIdKept(n, f) == [n EXCEPT !.metaOnly = 0]

\* A super buffer that was only metadata takes the id of its first frame, so
\* that the other streams match this one.
FrameIdOf(n, f) ==
  IF n.metaOnly > 0 THEN [n EXCEPT !.metaOnly = 0, !.frame = f] ELSE n

\* The frame goes to the super buffer at pos.
Fill(c, pos, older, s, f) ==
  LET n0 == c.queue[pos]
      n1 == FrameIdOf(n0, f)
      n2 == [n1 EXCEPT !.bufs[s] = f]
      put(n) == [c EXCEPT !.queue[pos] = n]
  IN IF n1.bufs[s] # 0 THEN GiveBack(put(n1), {<<s, f>>})
     ELSE IF Matched(n2)
     THEN LET c1 == Completed(put([n2 EXCEPT !.keep = FALSE]), f)
          IN IF older \in 1..(pos - 1) THEN ReleaseOlder(c1, older, pos) ELSE c1
     ELSE IF c.diverted = f
     THEN [put([n2 EXCEPT !.keep = TRUE]) EXCEPT !.diverted = 0]
     ELSE put(n2)

\* Mutant: no super buffer is removed to make room.
KeepAll(c, older, newer) == [chan |-> c, newer |-> newer]

\* Makes room: removes the first super buffer from older on that is neither
\* kept nor the one to insert before, or older itself.  Only one is too many
\* (QueueBounded): the loop in the code would read the node it has just
\* freed if it went on.
MakeRoom(c, older, newer) ==
  LET i == CHOOSE j \in 1..Len(c.queue) :
             LET Removable == {k \in older..Len(c.queue) :
                                 ~c.queue[k].keep /\ k # newer}
             IN IF Removable = {} THEN j = older
                ELSE j \in Removable /\ \A k \in Removable : j <= k
  IN IF CountUnmatched(c.queue) <= c.attr.unmatched
     THEN [chan |-> c, newer |-> newer]
     ELSE [chan |-> Drop(c, i), newer |-> IF newer > i THEN newer - 1 ELSE newer]

\* Mutant: a frame newer than all goes to the head of the queue.
PlaceFirst(c, newer) == IF newer = 0 THEN 1 ELSE newer

\* Before the first newer super buffer, or at the end.
PlaceOf(c, newer) == IF newer = 0 THEN Len(c.queue) + 1 ELSE newer

\* A new super buffer for the frame.
Insert(c, newer, s, f) ==
  LET keep == f \in {c.diverted, c.good}
      n == [frame |-> f, keep |-> keep,
            metaOnly |-> IF c.attr.low /\ s = Meta THEN f ELSE 0,
            bufs |-> [t \in Streams |-> IF t = s THEN f ELSE 0]]
      c1 == [c EXCEPT !.queue = InsertAt(@, PlaceOf(c, newer),
                                         [n EXCEPT !.keep = keep /\ ~Matched(n)]),
                      !.diverted = IF keep THEN 0 ELSE @]
  IN IF Matched(n)
     THEN [c1 EXCEPT !.expected = f + c.attr.skip, !.count = @ + 1]
     ELSE c1

\* A frame neither expected nor waited for by a kept super buffer
\* (mm_channel_validate_super_buf).
Stale(c, f) ==
  f < c.expected /\ \A i \in DOMAIN c.queue : c.queue[i].keep => c.queue[i].frame # f

Enqueue(c, s, f) ==
  LET pos == SelectInSeq(c.queue, LAMBDA n : Unmatched(n) /\ Fits(c, n, s, f))
      older == SelectInSeq(c.queue, LAMBDA n : Unmatched(n) /\ n.frame < f)
      newer == SelectInSeq(c.queue, LAMBDA n : Unmatched(n) /\ n.frame > f)
      room == MakeRoom(c, older, newer)
  IN IF Stale(c, f) THEN GiveBack(c, {<<s, f>>})
     ELSE IF pos # 0 THEN Fill(c, pos, older, s, f)
     ELSE IF older = 0 /\ CountUnmatched(c.queue) > c.attr.unmatched
     THEN GiveBack(c, {<<s, f>>})
     ELSE Insert(room.chan, room.newer, s, f)

comp_and_enqueue(c, s, f, md) == Enqueue(handle_metadata(c, s, f, md), s, f)

-----------------------------------------------------------------------------
(* The end of mm_channel_process_stream_buf. *)

\* The snapshot ends: nothing is left of the flash and of bracketing.
ZslStopped(c) ==
  [c EXCEPT !.zsl = FALSE, !.led = FALSE, !.burst = 0, !.stop = FALSE,
            !.bracketing = "off"]

\* Mutant: the dispatch does not stop the snapshot.
ZslGoesOn(c) == c

StartStopZsl(c) ==
  IF c.pending > 0 /\ (c.led \/ c.bracketing # "off") /\ ~c.zsl
  THEN [c EXCEPT !.zsl = TRUE, !.burst = c.pending, !.wait = FALSE]
  ELSE IF c.zsl /\ (c.pending = 0 \/ c.stop)
  THEN [ZslStopped(c) EXCEPT !.wait = FALSE]
  ELSE c

\* Mutant: a request is short of one.
SendLess(c) ==
  IF c.wait \/ c.pending = 1 THEN 0
  ELSE IF Leading(c.queue) = 0 \/ (c.attr.burst /\ c.pending = 0) THEN 0 ELSE 1

\* How many super buffers are sent: those requested, but after the last retro
\* frame the rest waits for the snapshot to be prepared.
ToSend(c) ==
  LET limits == {Leading(c.queue)}
                \cup (IF c.attr.burst THEN {c.pending} ELSE {})
                \cup (IF c.attr.burst /\ c.retro > 0 THEN {c.retro} ELSE {})
  IN IF c.wait THEN 0 ELSE CHOOSE n \in limits : \A l \in limits : n <= l

AllSent(c) ==
  IF c.zsl /\ (c.pending = 0 \/ c.stop) THEN ZslStopped(c) ELSE c

Dispatch(c) ==
  LET n == ToSend(c)
      c1 == [c EXCEPT !.queue = SubSeq(@, n + 1, Len(@)), !.count = @ - n,
                      !.sent = @ \o SubSeq(c.queue, 1, n)]
  IN IF n = 0 \/ ~c.attr.burst THEN c1
     ELSE AllSent([c1 EXCEPT !.pending = @ - n,
                             !.retro = IF @ > 0 THEN @ - n ELSE 0,
                             !.wait = c.retro = n])

\* What follows every command but a flush.
After(c) == Dispatch(Trim(StartStopZsl(c), c.attr.mark))

-----------------------------------------------------------------------------
(* Actions. *)

Init ==
  /\ ch \in {[attr |-> a, queue |-> <<>>, count |-> 0, expected |-> 0,
              good |-> 0, noLed |-> 0, ledOff |-> 0, ledSkip |-> 0,
              once |-> FALSE, diverted |-> 0, pending |-> 0, retro |-> 0,
              wait |-> FALSE, zsl |-> FALSE, led |-> FALSE, burst |-> 0,
              stop |-> FALSE, bracketing |-> "off", flash |-> FALSE,
              zoom |-> FALSE, sent |-> <<>>, given |-> [b \in Frames |-> 0]]
             : a \in Attrs}
  /\ running = FALSE /\ begun = {} /\ taken = {} /\ lost = {} /\ events = 0

Event == events < MaxEvents /\ events' = events + 1

\* A stream delivers a frame; some may be missing.
Data ==
  \E s \in Streams, f \in 1..MaxFrame :
    /\ s \in begun \/ (s \in Linked /\ running)
    /\ \A b \in taken : b[1] = s => b[2] < f
    /\ taken' = taken \cup {<<s, f>>}
    /\ \/ /\ ch' = After(comp_and_enqueue(ch, s, f, NoMeta))
          /\ UNCHANGED events
       \/ /\ s = Meta /\ Event
          /\ \E md \in MetaInputs(f) : ch' = After(comp_and_enqueue(ch, s, f, md))
    /\ UNCHANGED <<running, begun, lost>>

\* MM_CAMERA_CMD_TYPE_REQ_DATA_CB; nothing requested is the cancel.
Request ==
  \E n, r \in 0..MaxRequest :
    LET c == [ch EXCEPT !.pending = n, !.wait = FALSE, !.stop = FALSE,
                        !.retro = IF r > n THEN n ELSE r,
                        !.led = IF n > 0 /\ r > 0 THEN FALSE ELSE @]
    IN /\ Active /\ Event
       /\ ch' = After(Trim(c, c.attr.back))
       /\ UNCHANGED <<running, begun, taken, lost>>

\* MM_CAMERA_CMD_TYPE_FLUSH_QUEUE, with the frame the HAL wants next.
Flush ==
  /\ Active /\ Event
  /\ \E f \in 0..MaxFrame : ch' = flush([ch EXCEPT !.expected = f])
  /\ UNCHANGED <<running, begun, taken, lost>>

\* MM_CAMERA_CMD_TYPE_GENERAL: the kinds of bracketing, and zoom 1x.
General ==
  /\ Active /\ Event
  /\ LET c == flush(ch) IN \E on \in BOOLEAN :
       \/ ch' = After([c EXCEPT !.bracketing = IF on THEN "wait" ELSE "off"])
       \/ ch' = After([c EXCEPT !.flash = on])
       \/ ch' = After([c EXCEPT !.zoom = on])
  /\ UNCHANGED <<running, begun, taken, lost>>

\* mm_channel_start up to its first own stream.  What the HAL asked for before
\* a stop is still there.
Start ==
  /\ ~running /\ Event
  /\ running' = TRUE
  /\ ch' = [ch EXCEPT !.expected = 0, !.noLed = 0, !.ledOff = 0, !.good = 0]
  /\ UNCHANGED <<begun, taken, lost>>

MayStart(s) == running /\ s \in Own \ begun /\ (Meta \in Own \ begun => s = Meta)

StartStream(s) ==
  /\ MayStart(s)
  /\ begun' = begun \cup {s}
  /\ ch' = [ch EXCEPT !.wait = (begun' # Own) /\ @]
  /\ UNCHANGED <<running, taken, lost, events>>

\* A stream fails to start.  The flush that unlinks gives back only frames of
\* this stream, which has none; the own streams take their buffers back when
\* they are stopped.  The queue is cleared with its attributes.
StartFails ==
  LET own == {b \in Held(ch.queue) : b[1] \in Own} IN
  /\ \E s \in Streams : MayStart(s)
  /\ ch' = [GiveBack(ch, own) EXCEPT
              !.queue = <<>>, !.count = 0, !.attr = ZeroAttr, !.expected = 0,
              !.good = 0, !.noLed = 0, !.ledOff = 0, !.ledSkip = 0,
              !.once = FALSE, !.wait = FALSE]
  /\ lost' = lost \cup (Held(ch.queue) \ own)
  /\ running' = FALSE /\ begun' = {}
  /\ UNCHANGED <<taken, events>>

\* mm_channel_stop: the streams are stopped and unlinked before the flush.
Stop ==
  /\ Active
  /\ ch' = [flush(ch) EXCEPT !.expected = 0, !.good = 0, !.count = 0]
  /\ running' = FALSE /\ begun' = {}
  /\ UNCHANGED <<taken, lost, events>>

Next ==
  \/ Data \/ Request \/ Flush \/ General
  \/ Start \/ (\E s \in Streams : StartStream(s)) \/ StartFails \/ Stop

Spec == Init /\ [][Next]_vars

-----------------------------------------------------------------------------
(* Properties. *)

\* The super buffers of a list as bundles of frames.
Packed(q) == [i \in DOMAIN q |-> [id |-> q[i].frame, frames |-> FramesOf(q[i])]]

\* The queue implements what a channel promises of its frames: every frame
\* delivered is in the queue until it is sent in a super buffer or given back,
\* once; a super buffer sent has a frame of every stream, of its id but for the
\* metadata; super buffers are sent in the order of their frames; only frames
\* of linked streams can be lost, by a failed start.
Bundles == INSTANCE BundleFrames WITH
  Stream <- Streams, Loose <- Meta, MayLose <- Linked, MaxId <- MaxFrame,
  held <- Held(ch.queue), back <- ch.given, sent <- Packed(ch.sent)
ImplementsBundles == Bundles!Spec

\* match_cnt is the number of matched super buffers, all at the
\* head of the queue: the loops that dequeue matched super buffers with the
\* queue locked until match_cnt is low enough come to an end.
CountIsAtHead ==
  ch.count = Leading(ch.queue) /\ ch.count = CountMatched(ch.queue)

\* The queue is bounded: one unmatched super buffer more than
\* max_unmatched_frames, and in burst mode the water mark.
QueueBounded ==
  /\ CountUnmatched(ch.queue) <= ch.attr.unmatched + 1
  /\ ch.attr.burst => ch.count <= ch.attr.mark

\* The daemon's ZSL snapshot is on only while a request is pending.
ZslOnlyForRequest == ch.zsl => ch.pending > 0

\* No matched super buffer waits in the queue while a request is pending, unless
\* the snapshot is to be prepared first.
PendingServed ==
  ch.pending > 0 \/ ~ch.attr.burst => ch.wait \/ Leading(ch.queue) = 0

=============================================================================
