-------------------------------- MODULE Hal1Proofs ----------------------------
(*****************************************************************************)
(* Proofs about the two halves of the HAL1 camera, Hal1PostProc and          *)
(* Hal1StateMachine.                                                         *)
(*                                                                           *)
(* The post processor, for any frames, pictures, passes and buffers of the   *)
(* reprocess channel, if this refuses no frame: a frame that came to it is   *)
(* in one place or went back once; and when stop() has returned nothing is   *)
(* left to be worked on, wherever the data thread, the callbacks and the     *)
(* encoder were when it was called.                                          *)
(*                                                                           *)
(* The state machine, for any calls and failures and a daemon that may       *)
(* die: types, and preview messages, for any callers; and for one careful    *)
(* application, whose calls follow each other: a caller that waits is not    *)
(* forgotten, and the channels and the post processor fit the state. The     *)
(* last three rest on one invariant, Consistent.                             *)
(*****************************************************************************)
EXTENDS Hal1PostProc, Hal1Invariant, SelectionTheorems, SequenceTheorems, TLAPS

-----------------------------------------------------------------------------
(* Types, and where a frame is. *)

PPJob   == [frame : Frame, passes : Nat]
Ongoing == [frame : Frame, known : BOOLEAN]
Queues  == [input : Seq(PPJob), ongoing : Seq(PPJob), jpeg : Seq(Frame), coding : Seq(Ongoing)]
PPState == [pc : {"idle", "got", "queued"}] \cup [pc : {"have"}, job : PPJob]
DataPc == {"idle", "encode", "mark", "reprocess"} \cup Flushed

Types ==
    /\ q \in Queues /\ pp \in PPState /\ released \in [Frame -> Nat]
    /\ data \in [pc : DataPc, active : BOOLEAN, job : Nat, synced : BOOLEAN]
    /\ chan \in [pc : {"idle", "got", "queued"}, frame : Nat]

PPJobsOf(f) == {j \in PPJob : j.frame = f}
OngoingOf(f) == {j \in Ongoing : j.frame = f}

NInput(f)   == Hits(PPJobsOf(f), q.input)
NOngoing(f) == Hits(PPJobsOf(f), q.ongoing)
NCoding(f)  == Hits(OngoingOf(f), q.coding)
NJpeg(f)    == Hits({f}, q.jpeg)
Having(f)   == IF pp.pc = "have" /\ pp.job.frame = f THEN 1 ELSE 0

QueueNats(f) == NInput(f) \in Nat /\ NOngoing(f) \in Nat /\ NCoding(f) \in Nat /\ NJpeg(f) \in Nat

LEMMA FrameIs == MaxFrame \in Nat /\ Frame \subseteq Nat /\ 0 \notin Frame
BY PostProcAssumption DEF Frame

LEMMA PlacesAre ==
  ASSUME q \in Queues, NEW f \in Frame
  PROVE  /\ Places(f) = NInput(f) + NOngoing(f) + NCoding(f) + NJpeg(f) + Having(f)
         /\ QueueNats(f) /\ Having(f) \in 0..1
<1>1. /\ q.input \in Seq(PPJob) /\ q.ongoing \in Seq(PPJob)
      /\ q.jpeg \in Seq(Frame) /\ q.coding \in Seq(Ongoing)
  BY DEF Queues
<1>2. ASSUME NEW s \in Seq(PPJob)
      PROVE  InJobs(f, s) = Hits(PPJobsOf(f), s)
  <2>1. \A i \in DOMAIN s : s[i] \in PPJob
    BY ElementOfSeq, LenProperties
  <2>2. {i \in DOMAIN s : s[i].frame = f} = {i \in DOMAIN s : s[i] \in PPJobsOf(f)}
    BY <2>1 DEF PPJobsOf
  <2> QED BY <2>2 DEF InJobs, Hits
<1>3. ASSUME NEW s \in Seq(Ongoing)
      PROVE  InJobs(f, s) = Hits(OngoingOf(f), s)
  <2>1. \A i \in DOMAIN s : s[i] \in Ongoing
    BY ElementOfSeq, LenProperties
  <2>2. {i \in DOMAIN s : s[i].frame = f} = {i \in DOMAIN s : s[i] \in OngoingOf(f)}
    BY <2>1 DEF OngoingOf
  <2> QED BY <2>2 DEF InJobs, Hits
<1>4. Count(f, q.jpeg) = NJpeg(f)
  <2>1. {i \in DOMAIN q.jpeg : q.jpeg[i] = f} = {i \in DOMAIN q.jpeg : q.jpeg[i] \in {f}}
    OBVIOUS
  <2> QED BY <2>1 DEF Count, NJpeg, Hits
<1>5. QueueNats(f)
  BY <1>1, HitsType DEF QueueNats, NInput, NOngoing, NCoding, NJpeg
<1>6. Having(f) \in 0..1
  BY DEF Having
<1> QED BY <1>1, <1>2, <1>3, <1>4, <1>5, <1>6 DEF Places, NInput, NOngoing, NCoding, Having

\* All the places of a frame, and those it went back to its channel from.
Total(f) == NInput(f) + NOngoing(f) + NCoding(f) + NJpeg(f) + Having(f) + released[f]
Owed(f)  == IF f \in handed THEN 1 ELSE 0
Totals   == \A f \in Frame : Total(f) = Owed(f)

LEMMA TotalsAre ==
  ASSUME Types
  PROVE  EveryFrameOnce <=> Totals
<1>1. ASSUME NEW f \in Frame PROVE Places(f) + released[f] = Total(f)
  BY PlacesAre, <1>1 DEF Types, Total
<1> QED BY <1>1 DEF EveryFrameOnce, Totals, Owed

LEMMA QueueTypes ==
  ASSUME q \in Queues
  PROVE  /\ q.input \in Seq(PPJob) /\ q.ongoing \in Seq(PPJob)
         /\ q.jpeg \in Seq(Frame) /\ q.coding \in Seq(Ongoing)
BY DEF Queues

LEMMA ReleaseIs ==
  ASSUME released \in [Frame -> Nat], NEW F, Release(F)
  PROVE  /\ released' \in [Frame -> Nat]
         /\ \A f \in Frame : released'[f] = released[f] + IF f \in F THEN 1 ELSE 0
BY DEF Release

-----------------------------------------------------------------------------
(* Frames come one after the other; the one being encoded is last.           *)

InTurn ==
    \E n \in 0..MaxFrame :
        handed = 1..n /\ (chan.pc = "got" => chan.frame = n + 1 /\ n + 1 <= MaxFrame)

LastOngoing ==
    data.pc \in {"encode", "mark"} =>
        q.coding # <<>> /\ Last(q.coding) = [frame |-> data.job, known |-> FALSE]

FInv == Types /\ Totals /\ InTurn /\ LastOngoing

\* Steps that move no frame.
LEMMA NoFrameMoves ==
  ASSUME FInv, Types', UNCHANGED <<q, released, handed>>, data'.job = data.job,
         data'.pc = data.pc \/ data'.pc \notin {"encode", "mark"} \/ (data.pc = "encode" /\ data'.pc = "mark"),
         pp'.pc = "have" \/ pp.pc = "have" => pp' = pp,
         InTurn'
  PROVE  FInv'
<1>1. \A f \in Frame : Having(f)' = Having(f)
  BY DEF Having
<1>2. Totals'
  BY <1>1 DEF FInv, Totals, Total, Owed, NInput, NOngoing, NCoding, NJpeg
<1>3. LastOngoing'
  BY DEF FInv, LastOngoing
<1> QED BY <1>2, <1>3 DEF FInv

LEMMA DeliverInTurn ==
  ASSUME InTurn, Deliver
  PROVE  InTurn' /\ chan' \in [pc : {"got"}, frame : Nat]
<1>1. PICK n \in 0..MaxFrame : handed = 1..n
  BY DEF InTurn
<1>2. Cardinality(handed) = n /\ n \in Nat
  BY <1>1, FrameIs, FS_Interval
<1>3. n < MaxFrame /\ chan' = [pc |-> "got", frame |-> n + 1] /\ handed' = handed
  BY <1>2 DEF Deliver
<1> QED BY <1>1, <1>2, <1>3, FrameIs DEF InTurn

\* The threads' own steps.
LEMMA StepsWithoutFrames ==
  ASSUME FInv,
         \/ TakePicture \/ CancelPicture \/ Deliver \/ SnapshotDone \/ Stop \/ StopSynced
         \/ StopJoin \/ Start \/ StartSynced \/ processDataSend \/ DataStart \/ EncodeStart
         \/ PPOutput \/ PPSend \/ CbStart \/ CbStop \/ CbNext \/ CbDelivered
         \/ \E f \in Frame : EncodeEnds(f)
  PROVE  FInv'
<1>1. UNCHANGED <<q, released, handed>>
  BY DEF TakePicture, CancelPicture, Deliver, SnapshotDone, Stop, StopSynced, StopJoin, Start,
         StartSynced, processDataSend, DataStart, EncodeStart, PPOutput, PPSend, CbStart, CbStop, CbNext,
         CbDelivered, EncodeEnds, Rest, PPRest, CbRest
<1>2. \/ pp' = pp
      \/ pp.pc = "queued" /\ pp' = [pc |-> "idle"]
      \/ pp.pc = "idle" /\ pp' = [pc |-> "got"]
  BY DEF TakePicture, CancelPicture, Deliver, SnapshotDone, Stop, StopSynced, StopJoin, Start,
         StartSynced, processDataSend, DataStart, EncodeStart, PPOutput, PPSend, CbStart, CbStop, CbNext,
         CbDelivered, EncodeEnds, Rest, CbRest, ppVars
<1>3. \/ data' = data
      \/ data' = [data EXCEPT !.synced = FALSE]
      \/ data' = [data EXCEPT !.active = TRUE, !.synced = TRUE]
      \/ data.pc = "encode" /\ data' = [data EXCEPT !.pc = "mark"]
  BY DEF TakePicture, CancelPicture, Deliver, SnapshotDone, Stop, StopSynced, StopJoin, Start,
         StartSynced, processDataSend, DataStart, EncodeStart, PPOutput, PPSend, CbStart, CbStop, CbNext,
         CbDelivered, EncodeEnds, PPRest, CbRest, dataVars, Synced, Goto
<1>4. InTurn' /\ chan' \in [pc : {"idle", "got", "queued"}, frame : Nat]
  <2>1. CASE Deliver
    BY <2>1, DeliverInTurn DEF FInv
  <2>2. CASE ~Deliver
    <3>1. chan' = chan \/ chan' = [chan EXCEPT !.pc = "idle"]
      BY <2>2 DEF TakePicture, CancelPicture, SnapshotDone, Stop, StopSynced, StopJoin, Start,
             StartSynced, processDataSend, DataStart, EncodeStart, PPOutput, PPSend, CbStart, CbStop,
             CbNext, CbDelivered, EncodeEnds, PPRest, CbRest, Rest
    <3> QED BY <1>1, <3>1 DEF FInv, Types, InTurn
  <2> QED BY <2>1, <2>2
<1>5. Types'
  <2>1. data' \in [pc : DataPc, active : BOOLEAN, job : Nat, synced : BOOLEAN]
    BY <1>3 DEF FInv, Types, DataPc
  <2>2. pp' \in PPState
    BY <1>2 DEF FInv, Types, PPState
  <2> QED BY <1>1, <1>4, <2>1, <2>2 DEF FInv, Types
<1>6. data'.job = data.job /\ (data'.pc = data.pc \/ (data.pc = "encode" /\ data'.pc = "mark"))
  BY <1>3 DEF FInv, Types
<1>7. pp'.pc = "have" \/ pp.pc = "have" => pp' = pp
  BY <1>2
<1> QED BY <1>1, <1>4, <1>5, <1>6, <1>7, NoFrameMoves

Parts(f) == NInput(f) + NOngoing(f) + NCoding(f) + NJpeg(f) + Having(f) + released[f]
Nats(f) == /\ NInput(f) \in Nat /\ NOngoing(f) \in Nat /\ NCoding(f) \in Nat
           /\ NJpeg(f) \in Nat /\ Having(f) \in Nat /\ released[f] \in Nat

NatTotals == \A f \in Frame : Nats(f) /\ Total(f) = Parts(f)

LEMMA TotalIsNat == Types => NatTotals
<1> SUFFICES ASSUME Types, NEW f \in Frame PROVE Nats(f) /\ Total(f) = Parts(f)
  BY DEF NatTotals
<1>1. QueueNats(f) /\ Having(f) \in 0..1 /\ released[f] \in Nat
  BY PlacesAre DEF Types
<1> QED BY <1>1 DEF QueueNats, Nats, Total, Parts

LEMMA TotalIsNatNext == Types' => NatTotals'
BY TotalIsNat, PTL

\* The source channel's callback brings the next frame.
LEMMA processDataFrames ==
  ASSUME FInv, processData
  PROVE  FInv'
<1> DEFINE g == chan.frame
           job == [frame |-> g, passes |-> 0]
<1>0. chan.pc = "got" /\ handed' = handed \cup {g} /\ UNCHANGED <<data, pp>>
  BY DEF processData, dataVars, ppVars
<1>1. PICK n \in 0..MaxFrame : handed = 1..n /\ g = n + 1 /\ n + 1 <= MaxFrame
  BY <1>0 DEF FInv, InTurn
<1>2. g \in Frame /\ g \notin handed /\ n \in Nat
  BY <1>1, FrameIs DEF Frame
<1>3. handed' = 1..(n + 1) /\ n + 1 \in 0..MaxFrame
  BY <1>0, <1>1, <1>2, FrameIs
<1>4. \A f \in Frame : Owed(f)' = Owed(f) + IF f = g THEN 1 ELSE 0
  BY <1>0, <1>2 DEF Owed
<1>5. \A f \in Frame : Having(f)' = Having(f)
  BY <1>0 DEF Having
<1>6. job \in PPJob /\ \A f \in Frame : job \in PPJobsOf(f) <=> f = g
  BY <1>2 DEF PPJob, PPJobsOf
<1>7. /\ q \in Queues /\ q.input \in Seq(PPJob) /\ q.ongoing \in Seq(PPJob)
      /\ q.jpeg \in Seq(Frame) /\ q.coding \in Seq(Ongoing)
  BY QueueTypes DEF FInv, Types
<1> HIDE DEF job, g
<1>8. CASE /\ q' = [q EXCEPT !.input = Append(@, job)] \/ q' = [q EXCEPT !.jpeg = Append(@, g)]
           /\ chan' = [chan EXCEPT !.pc = "queued"] /\ released' = released
  <2>1. Types'
    <3>1. Append(q.input, job) \in Seq(PPJob) /\ Append(q.jpeg, g) \in Seq(Frame)
      BY <1>2, <1>6, <1>7, AppendProperties
    <3>2. q' \in Queues
      BY <1>7, <1>8, <3>1 DEF Queues
    <3>3. chan' \in [pc : {"idle", "got", "queued"}, frame : Nat]
      BY <1>8 DEF FInv, Types
    <3> QED BY <1>0, <1>8, <3>2, <3>3 DEF FInv, Types
  <2>2. ASSUME NEW f \in Frame PROVE Total(f)' = Total(f) + IF f = g THEN 1 ELSE 0
    <3>1. UNCHANGED <<NOngoing(f), NCoding(f), released[f]>>
      BY <1>7, <1>8 DEF NOngoing, NCoding, Queues
    <3>2. NInput(f)' + NJpeg(f)' = NInput(f) + NJpeg(f) + IF f = g THEN 1 ELSE 0
      <4>1. CASE q' = [q EXCEPT !.input = Append(@, job)]
        <5>1. q'.input = Append(q.input, job) /\ q'.jpeg = q.jpeg
          BY <1>7, <4>1 DEF Queues
        <5>2. Hits(PPJobsOf(f), Append(q.input, job)) = Hits(PPJobsOf(f), q.input) + IF f = g THEN 1 ELSE 0
          BY <1>6, <1>7, HitsAppend
        <5>3. NInput(f)' = NInput(f) + (IF f = g THEN 1 ELSE 0) /\ NJpeg(f)' = NJpeg(f)
          BY <5>1, <5>2 DEF NInput, NJpeg, PPJobsOf
        <5> QED BY <5>3, TotalIsNat DEF FInv, NatTotals, Nats
      <4>2. CASE q' = [q EXCEPT !.jpeg = Append(@, g)]
        <5>1. q'.jpeg = Append(q.jpeg, g) /\ q'.input = q.input
          BY <1>7, <4>2 DEF Queues
        <5>2. Hits({f}, Append(q.jpeg, g)) = Hits({f}, q.jpeg) + IF f = g THEN 1 ELSE 0
          <6>1. Hits({f}, Append(q.jpeg, g)) = Hits({f}, q.jpeg) + IF g \in {f} THEN 1 ELSE 0
            BY <1>2, <1>7, HitsAppend
          <6> QED BY <6>1
        <5>3. NJpeg(f)' = NJpeg(f) + (IF f = g THEN 1 ELSE 0) /\ NInput(f)' = NInput(f)
          BY <5>1, <5>2 DEF NInput, NJpeg, PPJobsOf
        <5> QED BY <5>3, TotalIsNat DEF FInv, NatTotals, Nats
      <4> QED BY <1>8, <4>1, <4>2
    <3>3. Nats(f) /\ Total(f) = Parts(f) /\ Nats(f)' /\ Total(f)' = Parts(f)'
      BY <2>1, TotalIsNat, TotalIsNatNext DEF FInv, NatTotals
    <3> QED BY <1>5, <3>1, <3>2, <3>3 DEF Nats, Parts
  <2>3. LastOngoing'
    BY <1>0, <1>7, <1>8 DEF FInv, LastOngoing, Queues
  <2>4. InTurn'
    BY <1>3, <1>8 DEF InTurn, FInv, Types
  <2>5. Totals'
    BY <1>4, <2>2 DEF FInv, Totals
  <2> QED BY <2>1, <2>3, <2>4, <2>5 DEF FInv
<1>9. CASE Release({g}) /\ chan' = [chan EXCEPT !.pc = "idle"] /\ q' = q
  <2>1. released' \in [Frame -> Nat] /\ \A f \in Frame : released'[f] = released[f] + IF f = g THEN 1 ELSE 0
    BY <1>9, ReleaseIs DEF FInv, Types
  <2>2. Types'
    BY <1>0, <1>9, <2>1 DEF FInv, Types
  <2>3. ASSUME NEW f \in Frame PROVE Total(f)' = Total(f) + IF f = g THEN 1 ELSE 0
    <3>1. UNCHANGED <<NInput(f), NOngoing(f), NCoding(f), NJpeg(f)>>
      BY <1>9 DEF NInput, NOngoing, NCoding, NJpeg
    <3>2. Nats(f) /\ Total(f) = Parts(f) /\ Nats(f)' /\ Total(f)' = Parts(f)'
      BY <2>2, TotalIsNat, TotalIsNatNext DEF FInv, NatTotals
    <3> QED BY <1>5, <2>1, <3>1, <3>2 DEF Nats, Parts
  <2>4. LastOngoing'
    BY <1>0, <1>9 DEF FInv, LastOngoing
  <2>5. InTurn'
    BY <1>3, <1>9 DEF InTurn, FInv, Types
  <2>6. Totals'
    BY <1>4, <2>3 DEF FInv, Totals
  <2> QED BY <2>2, <2>4, <2>5, <2>6 DEF FInv
<1> QED BY <1>8, <1>9 DEF processData, job, g

-----------------------------------------------------------------------------
(* Steps that move a frame from one place to another, or back to its channel. *)

LEMMA PartsAre ==
  ASSUME FInv, NEW f \in Frame
  PROVE  Nats(f) /\ Parts(f) = Owed(f) /\ Owed(f) \in 0..1
<1>1. NatTotals /\ Totals
  BY TotalIsNat DEF FInv
<1> QED BY <1>1 DEF NatTotals, Totals, Owed

LEMMA FramesMove ==
  ASSUME FInv, Types', LastOngoing', UNCHANGED <<handed, chan>>,
         \A f \in Frame : Parts(f)' = Parts(f)
  PROVE  FInv'
<1>1. NatTotals /\ NatTotals'
  BY TotalIsNat, TotalIsNatNext DEF FInv
<1>2. Totals'
  BY <1>1 DEF FInv, Totals, NatTotals, Owed
<1>3. InTurn'
  BY DEF FInv, InTurn
<1> QED BY <1>2, <1>3 DEF FInv

\* Who is in a queue.
LEMMA InQueue ==
  ASSUME Types, NEW f \in Frame
  PROVE  /\ f \in Frames(q.input) <=> NInput(f) # 0
         /\ f \in Frames(q.ongoing) <=> NOngoing(f) # 0
         /\ f \in Frames(q.coding) <=> NCoding(f) # 0
         /\ f \in Range(q.jpeg) <=> NJpeg(f) # 0
<1>1. /\ q.input \in Seq(PPJob) /\ q.ongoing \in Seq(PPJob)
      /\ q.jpeg \in Seq(Frame) /\ q.coding \in Seq(Ongoing)
  BY QueueTypes DEF Types
<1>2. ASSUME NEW s \in Seq(PPJob)
      PROVE  f \in Frames(s) <=> Hits(PPJobsOf(f), s) # 0
  <2>1. \A i \in DOMAIN s : s[i] \in PPJob
    BY ElementOfSeq, LenProperties
  <2>2. Hits(PPJobsOf(f), s) = 0 <=> \A i \in DOMAIN s : s[i] \notin PPJobsOf(f)
    BY HitsType
  <2> QED BY <2>1, <2>2 DEF Frames, PPJobsOf
<1>3. ASSUME NEW s \in Seq(Ongoing)
      PROVE  f \in Frames(s) <=> Hits(OngoingOf(f), s) # 0
  <2>1. \A i \in DOMAIN s : s[i] \in Ongoing
    BY ElementOfSeq, LenProperties
  <2>2. Hits(OngoingOf(f), s) = 0 <=> \A i \in DOMAIN s : s[i] \notin OngoingOf(f)
    BY HitsType
  <2> QED BY <2>1, <2>2 DEF Frames, OngoingOf
<1>4. f \in Range(q.jpeg) <=> NJpeg(f) # 0
  <2>1. Hits({f}, q.jpeg) = 0 <=> \A i \in DOMAIN q.jpeg : q.jpeg[i] \notin {f}
    BY <1>1, HitsType
  <2> QED BY <2>1 DEF Range, NJpeg
<1> QED BY <1>1, <1>2, <1>3, <1>4 DEF NInput, NOngoing, NCoding

LEMMA SixParts ==
  ASSUME NEW a \in Nat, NEW b \in Nat, NEW c \in Nat, NEW d \in Nat, NEW h \in Nat, NEW r \in Nat,
         a + b + c + d + h + r \in 0..1
  PROVE  a \in 0..1 /\ b \in 0..1 /\ c \in 0..1 /\ d \in 0..1 /\ h \in 0..1 /\ r \in 0..1
OBVIOUS

LEMMA OnceAtMost ==
  ASSUME FInv, NEW f \in Frame
  PROVE  /\ NInput(f) \in 0..1 /\ NOngoing(f) \in 0..1 /\ NCoding(f) \in 0..1
         /\ NJpeg(f) \in 0..1 /\ Having(f) \in 0..1 /\ released[f] \in 0..1
<1>1. /\ NInput(f) \in Nat /\ NOngoing(f) \in Nat /\ NCoding(f) \in Nat
      /\ NJpeg(f) \in Nat /\ Having(f) \in Nat /\ released[f] \in Nat
  BY PartsAre DEF Nats
<1>2. NInput(f) + NOngoing(f) + NCoding(f) + NJpeg(f) + Having(f) + released[f] \in 0..1
  BY PartsAre DEF Parts
<1> DEFINE a == NInput(f)
           b == NOngoing(f)
           c == NCoding(f)
           d == NJpeg(f)
           h == Having(f)
           r == released[f]
<1>3. a \in Nat /\ b \in Nat /\ c \in Nat /\ d \in Nat /\ h \in Nat /\ r \in Nat
      /\ a + b + c + d + h + r \in 0..1
  BY <1>1, <1>2
<1> HIDE DEF a, b, c, d, h, r
<1>4. a \in 0..1 /\ b \in 0..1 /\ c \in 0..1 /\ d \in 0..1 /\ h \in 0..1 /\ r \in 0..1
  BY <1>3, SixParts
<1> QED BY <1>4 DEF a, b, c, d, h, r

\* A queue that has a frame at most once is emptied, and its frames go back.
LEMMA QueueEmptied ==
  ASSUME FInv, NEW f \in Frame,
         \/ /\ NInput(f)' = 0 /\ released'[f] = released[f] + IF NInput(f) # 0 THEN 1 ELSE 0
            /\ NOngoing(f)' = NOngoing(f) /\ NCoding(f)' = NCoding(f) /\ NJpeg(f)' = NJpeg(f)
         \/ /\ NOngoing(f)' = 0 /\ released'[f] = released[f] + IF NOngoing(f) # 0 THEN 1 ELSE 0
            /\ NInput(f)' = NInput(f) /\ NCoding(f)' = NCoding(f) /\ NJpeg(f)' = NJpeg(f)
         \/ /\ NCoding(f)' = 0 /\ released'[f] = released[f] + IF NCoding(f) # 0 THEN 1 ELSE 0
            /\ NInput(f)' = NInput(f) /\ NOngoing(f)' = NOngoing(f) /\ NJpeg(f)' = NJpeg(f)
         \/ /\ NJpeg(f)' = 0 /\ released'[f] = released[f] + IF NJpeg(f) # 0 THEN 1 ELSE 0
            /\ NInput(f)' = NInput(f) /\ NOngoing(f)' = NOngoing(f) /\ NCoding(f)' = NCoding(f),
         Having(f)' = Having(f)
  PROVE  Parts(f)' = Parts(f)
<1>1. Nats(f) /\ Parts(f) \in 0..1
  BY PartsAre
<1>2. Parts(f) = NInput(f) + NOngoing(f) + NCoding(f) + NJpeg(f) + Having(f) + released[f]
  BY DEF Parts
<1>3. \/ Parts(f)' = 0 + NOngoing(f) + NCoding(f) + NJpeg(f) + Having(f)
                      + (released[f] + IF NInput(f) # 0 THEN 1 ELSE 0)
      \/ Parts(f)' = NInput(f) + 0 + NCoding(f) + NJpeg(f) + Having(f)
                      + (released[f] + IF NOngoing(f) # 0 THEN 1 ELSE 0)
      \/ Parts(f)' = NInput(f) + NOngoing(f) + 0 + NJpeg(f) + Having(f)
                      + (released[f] + IF NCoding(f) # 0 THEN 1 ELSE 0)
      \/ Parts(f)' = NInput(f) + NOngoing(f) + NCoding(f) + 0 + Having(f)
                      + (released[f] + IF NJpeg(f) # 0 THEN 1 ELSE 0)
  BY DEF Parts
<1>4. /\ NInput(f) \in 0..1 /\ NOngoing(f) \in 0..1 /\ NCoding(f) \in 0..1
      /\ NJpeg(f) \in 0..1 /\ Having(f) \in 0..1 /\ released[f] \in 0..1
  BY OnceAtMost
<1>5. 0 + NOngoing(f) + NCoding(f) + NJpeg(f) + Having(f)
        + (released[f] + IF NInput(f) # 0 THEN 1 ELSE 0) = Parts(f)
  BY <1>2, <1>4
<1>6. NInput(f) + 0 + NCoding(f) + NJpeg(f) + Having(f)
        + (released[f] + IF NOngoing(f) # 0 THEN 1 ELSE 0) = Parts(f)
  BY <1>2, <1>4
<1>7. NInput(f) + NOngoing(f) + 0 + NJpeg(f) + Having(f)
        + (released[f] + IF NCoding(f) # 0 THEN 1 ELSE 0) = Parts(f)
  BY <1>2, <1>4
<1>8. NInput(f) + NOngoing(f) + NCoding(f) + 0 + Having(f)
        + (released[f] + IF NJpeg(f) # 0 THEN 1 ELSE 0) = Parts(f)
  BY <1>2, <1>4
<1> QED BY <1>3, <1>5, <1>6, <1>7, <1>8

LEMMA EmptyQueues == <<>> \in Seq(PPJob) /\ <<>> \in Seq(Ongoing) /\ <<>> \in Seq(Frame)
BY EmptySeq

\* A record of queues with one of them changed.
LEMMA QueueSet ==
  ASSUME q \in Queues
  PROVE  /\ \A s \in Seq(PPJob) : [q EXCEPT !.input = s] \in Queues
         /\ \A s \in Seq(PPJob) : [q EXCEPT !.ongoing = s] \in Queues
         /\ \A s \in Seq(Frame) : [q EXCEPT !.jpeg = s] \in Queues
         /\ \A s \in Seq(Ongoing) : [q EXCEPT !.coding = s] \in Queues
         /\ \A s : /\ [q EXCEPT !.input = s].input = s
                   /\ [q EXCEPT !.input = s].ongoing = q.ongoing
                   /\ [q EXCEPT !.input = s].jpeg = q.jpeg
                   /\ [q EXCEPT !.input = s].coding = q.coding
         /\ \A s : /\ [q EXCEPT !.ongoing = s].ongoing = s
                   /\ [q EXCEPT !.ongoing = s].input = q.input
                   /\ [q EXCEPT !.ongoing = s].jpeg = q.jpeg
                   /\ [q EXCEPT !.ongoing = s].coding = q.coding
         /\ \A s : /\ [q EXCEPT !.jpeg = s].jpeg = s
                   /\ [q EXCEPT !.jpeg = s].input = q.input
                   /\ [q EXCEPT !.jpeg = s].ongoing = q.ongoing
                   /\ [q EXCEPT !.jpeg = s].coding = q.coding
         /\ \A s : /\ [q EXCEPT !.coding = s].coding = s
                   /\ [q EXCEPT !.coding = s].input = q.input
                   /\ [q EXCEPT !.coding = s].ongoing = q.ongoing
                   /\ [q EXCEPT !.coding = s].jpeg = q.jpeg
BY DEF Queues

LEMMA DataStopFrames ==
  ASSUME FInv, DataStop
  PROVE  FInv'
<1>1. /\ q' = [q EXCEPT !.coding = <<>>] /\ Release(Frames(q.coding))
      /\ data' = [data EXCEPT !.pc = "ongoing", !.active = FALSE]
      /\ UNCHANGED <<handed, chan, pp>>
  BY DEF DataStop, Rest, ppVars
<1>2. /\ q' \in Queues /\ q'.coding = <<>>
      /\ q'.input = q.input /\ q'.ongoing = q.ongoing /\ q'.jpeg = q.jpeg
  BY <1>1, QueueSet, EmptyQueues DEF FInv, Types
<1>3. released' \in [Frame -> Nat]
      /\ \A f \in Frame : released'[f] = released[f] + IF f \in Frames(q.coding) THEN 1 ELSE 0
  BY <1>1, ReleaseIs DEF FInv, Types
<1>4. Types' /\ LastOngoing'
  BY <1>1, <1>2, <1>3 DEF FInv, Types, DataPc, Flushed, LastOngoing
<1>5. ASSUME NEW f \in Frame PROVE Parts(f)' = Parts(f)
  <2>1. /\ NInput(f)' = NInput(f) /\ NOngoing(f)' = NOngoing(f) /\ NJpeg(f)' = NJpeg(f)
        /\ Having(f)' = Having(f) /\ NCoding(f)' = 0
    BY <1>1, <1>2, HitsEmpty DEF NInput, NOngoing, NCoding, NJpeg, Having, PPJobsOf
  <2>2. released'[f] = released[f] + IF NCoding(f) # 0 THEN 1 ELSE 0
    BY <1>3, InQueue DEF FInv
  <2> QED BY <2>1, <2>2, QueueEmptied
<1> QED BY <1>1, <1>4, <1>5, FramesMove

LEMMA DataFlushed ==
  ASSUME Types, DataFlush
  PROVE  /\ data' \in [pc : DataPc, active : BOOLEAN, job : Nat, synced : BOOLEAN]
         /\ data.pc = "ongoing" => data'.pc = "jpeg"
         /\ data.pc = "jpeg" => data'.pc = "input"
         /\ data.pc = "input" => data'.pc = "idle"
<1> DEFINE sync == data.pc = "input"
<1>1. sync \in BOOLEAN
  OBVIOUS
<1>2. data' = [data EXCEPT !.pc = AfterFlush[data.pc], !.synced = sync] /\ data.pc \in Flushed
  BY DEF DataFlush
<1>3. /\ AfterFlush["ongoing"] = "jpeg" /\ AfterFlush["jpeg"] = "input" /\ AfterFlush["input"] = "idle"
  BY DEF AfterFlush
<1> HIDE DEF sync
<1>4. AfterFlush[data.pc] \in DataPc
  BY <1>2, <1>3 DEF Flushed, DataPc
<1> QED BY <1>1, <1>2, <1>3, <1>4 DEF Types

LEMMA DataFlushFrames ==
  ASSUME FInv, DataFlush
  PROVE  FInv'
<1>0. data.pc \in Flushed /\ UNCHANGED <<handed, chan, pp>>
  BY DEF DataFlush, Rest, ppVars
<1>1. CASE data.pc = "ongoing"
  <2>0. q' = [q EXCEPT !.ongoing = <<>>] /\ Release(Frames(q.ongoing))
    BY <1>1 DEF DataFlush
  <2>1. data'.pc = "jpeg" /\ data' \in [pc : DataPc, active : BOOLEAN, job : Nat, synced : BOOLEAN]
    BY <1>0, <1>1, DataFlushed DEF FInv
  <2>2. /\ q' \in Queues /\ q'.ongoing = <<>>
        /\ q'.input = q.input /\ q'.jpeg = q.jpeg /\ q'.coding = q.coding
    BY <2>0, QueueSet, EmptyQueues DEF FInv, Types
  <2>3. released' \in [Frame -> Nat]
        /\ \A f \in Frame : released'[f] = released[f] + IF f \in Frames(q.ongoing) THEN 1 ELSE 0
    BY <2>0, ReleaseIs DEF FInv, Types
  <2>4. Types' /\ LastOngoing'
    BY <1>0, <2>1, <2>2, <2>3 DEF FInv, Types, LastOngoing
  <2>5. ASSUME NEW f \in Frame PROVE Parts(f)' = Parts(f)
    <3>1. /\ NInput(f)' = NInput(f) /\ NOngoing(f)' = 0 /\ NJpeg(f)' = NJpeg(f)
          /\ Having(f)' = Having(f) /\ NCoding(f)' = NCoding(f)
      BY <1>0, <2>2, HitsEmpty DEF NInput, NOngoing, NCoding, NJpeg, Having, PPJobsOf, OngoingOf
    <3>2. released'[f] = released[f] + IF NOngoing(f) # 0 THEN 1 ELSE 0
      BY <2>3, InQueue DEF FInv
    <3> QED BY <3>1, <3>2, QueueEmptied
  <2> QED BY <1>0, <2>4, <2>5, FramesMove
<1>2. CASE data.pc = "jpeg"
  <2>0. q' = [q EXCEPT !.jpeg = <<>>] /\ Release(Range(q.jpeg))
    BY <1>2 DEF DataFlush
  <2>1. data'.pc = "input" /\ data' \in [pc : DataPc, active : BOOLEAN, job : Nat, synced : BOOLEAN]
    BY <1>0, <1>2, DataFlushed DEF FInv
  <2>2. /\ q' \in Queues /\ q'.jpeg = <<>>
        /\ q'.input = q.input /\ q'.ongoing = q.ongoing /\ q'.coding = q.coding
    BY <2>0, QueueSet, EmptyQueues DEF FInv, Types
  <2>3. released' \in [Frame -> Nat]
        /\ \A f \in Frame : released'[f] = released[f] + IF f \in Range(q.jpeg) THEN 1 ELSE 0
    BY <2>0, ReleaseIs DEF FInv, Types
  <2>4. Types' /\ LastOngoing'
    BY <1>0, <2>1, <2>2, <2>3 DEF FInv, Types, LastOngoing
  <2>5. ASSUME NEW f \in Frame PROVE Parts(f)' = Parts(f)
    <3>1. /\ NInput(f)' = NInput(f) /\ NOngoing(f)' = NOngoing(f) /\ NJpeg(f)' = 0
          /\ Having(f)' = Having(f) /\ NCoding(f)' = NCoding(f)
      BY <1>0, <2>2, HitsEmpty DEF NInput, NOngoing, NCoding, NJpeg, Having, PPJobsOf, OngoingOf
    <3>2. released'[f] = released[f] + IF NJpeg(f) # 0 THEN 1 ELSE 0
      BY <2>3, InQueue DEF FInv
    <3> QED BY <3>1, <3>2, QueueEmptied
  <2> QED BY <1>0, <2>4, <2>5, FramesMove
<1>3. CASE data.pc = "input"
  <2>0. q' = [q EXCEPT !.input = <<>>] /\ Release(Frames(q.input))
    BY <1>3 DEF DataFlush
  <2>1. data'.pc = "idle" /\ data' \in [pc : DataPc, active : BOOLEAN, job : Nat, synced : BOOLEAN]
    BY <1>0, <1>3, DataFlushed DEF FInv
  <2>2. /\ q' \in Queues /\ q'.input = <<>>
        /\ q'.jpeg = q.jpeg /\ q'.ongoing = q.ongoing /\ q'.coding = q.coding
    BY <2>0, QueueSet, EmptyQueues DEF FInv, Types
  <2>3. released' \in [Frame -> Nat]
        /\ \A f \in Frame : released'[f] = released[f] + IF f \in Frames(q.input) THEN 1 ELSE 0
    BY <2>0, ReleaseIs DEF FInv, Types
  <2>4. Types' /\ LastOngoing'
    BY <1>0, <2>1, <2>2, <2>3 DEF FInv, Types, LastOngoing
  <2>5. ASSUME NEW f \in Frame PROVE Parts(f)' = Parts(f)
    <3>1. /\ NInput(f)' = 0 /\ NOngoing(f)' = NOngoing(f) /\ NJpeg(f)' = NJpeg(f)
          /\ Having(f)' = Having(f) /\ NCoding(f)' = NCoding(f)
      BY <1>0, <2>2, HitsEmpty DEF NInput, NOngoing, NCoding, NJpeg, Having, PPJobsOf, OngoingOf
    <3>2. released'[f] = released[f] + IF NInput(f) # 0 THEN 1 ELSE 0
      BY <2>3, InQueue DEF FInv
    <3> QED BY <3>1, <3>2, QueueEmptied
  <2> QED BY <1>0, <2>4, <2>5, FramesMove
<1> QED BY <1>0, <1>1, <1>2, <1>3 DEF Flushed

\* The event of an encoding takes the job that is found by its id.
LEMMA processJpegEvtFrames ==
  ASSUME FInv, processJpegEvt
  PROVE  FInv'
<1>0. UNCHANGED <<handed, chan, pp, data>>
  BY DEF processJpegEvt, dataVars, ppVars
<1>1. CASE ~sm.taking
  <2>1. UNCHANGED <<q, released>>
    BY <1>1 DEF processJpegEvt
  <2>2. Types' /\ InTurn'
    BY <1>0, <2>1 DEF FInv, Types, InTurn
  <2> QED BY <1>0, <2>1, <2>2, NoFrameMoves
<1>2. CASE sm.taking
  <2> DEFINE g == Head(smQ)
             I == {i \in DOMAIN q.coding : q.coding[i] # Known(g)}
             R == IF Contains(q.coding, Known(g)) THEN {g} ELSE {}
             H(f) == {i \in DOMAIN q.coding : q.coding[i] \in OngoingOf(f)}
  <2>1. q' = [q EXCEPT !.coding = At(q.coding, I)] /\ Release(R)
    BY <1>2 DEF processJpegEvt
  <2>2. q.coding \in Seq(Ongoing) /\ DOMAIN q.coding = 1..Len(q.coding)
        /\ \A i \in DOMAIN q.coding : q.coding[i] \in Ongoing
    BY QueueTypes, ElementOfSeq, LenProperties DEF FInv, Types
  <2>3. At(q.coding, I) \in Seq(Ongoing)
    BY <2>2, AtType
  <2>4. /\ q' \in Queues /\ q'.coding = At(q.coding, I)
        /\ q'.input = q.input /\ q'.ongoing = q.ongoing /\ q'.jpeg = q.jpeg
    BY <2>1, <2>3, QueueSet DEF FInv, Types
  <2>5. released' \in [Frame -> Nat]
        /\ \A f \in Frame : released'[f] = released[f] + IF f \in R THEN 1 ELSE 0
    BY <2>1, ReleaseIs DEF FInv, Types
  <2>6. Types'
    BY <1>0, <2>4, <2>5 DEF FInv, Types
  <2>7. LastOngoing'
    <3> SUFFICES ASSUME data.pc \in {"encode", "mark"}
                 PROVE  q'.coding # <<>> /\ Last(q'.coding) = [frame |-> data.job, known |-> FALSE]
      BY <1>0 DEF LastOngoing
    <3>1. q.coding # <<>> /\ q.coding[Len(q.coding)] = [frame |-> data.job, known |-> FALSE]
      BY DEF FInv, LastOngoing, Last
    <3>2. Len(q.coding) \in DOMAIN q.coding
      BY <2>2, <3>1, LenProperties, EmptySeq
    <3>3. Len(q.coding) \in I
      BY <3>1, <3>2 DEF Known
    <3> QED BY <2>2, <2>4, <3>1, <3>3, AtLast DEF Last
  <2>8. ASSUME NEW f \in Frame PROVE Parts(f)' = Parts(f)
    <3>1. /\ NInput(f)' = NInput(f) /\ NOngoing(f)' = NOngoing(f) /\ NJpeg(f)' = NJpeg(f)
          /\ Having(f)' = Having(f)
      BY <1>0, <2>4 DEF NInput, NOngoing, NJpeg, Having
    <3>2. NCoding(f) = Cardinality(H(f)) /\ NCoding(f)' = Cardinality({i \in I : q.coding[i] \in OngoingOf(f)})
      <4>1. NCoding(f) = Cardinality(H(f))
        BY DEF NCoding, Hits
      <4>2. NCoding(f)' = Hits(OngoingOf(f), At(q.coding, I))
        BY <2>4 DEF NCoding, OngoingOf
      <4>3. I \in SUBSET (DOMAIN q.coding)
        OBVIOUS
      <4> HIDE DEF I
      <4>4. Hits(OngoingOf(f), At(q.coding, I)) = Cardinality({i \in I : q.coding[i] \in OngoingOf(f)})
        BY <2>2, <4>3, HitsAt
      <4> QED BY <4>1, <4>2, <4>4
    <3>3. CASE f \in R
      <4>1. PICK i \in DOMAIN q.coding : q.coding[i] = Known(f)
        BY <2>2, <3>3 DEF Contains
      <4>2. i \in H(f)
        BY <2>2, <4>1 DEF OngoingOf, Known
      <4>3. IsFiniteSet(H(f)) /\ Cardinality(H(f)) <= 1
        <5>1. IsFiniteSet(H(f))
          BY <2>2, HitsType
        <5>2. NCoding(f) <= 1
          BY OnceAtMost
        <5> QED BY <3>2, <5>1, <5>2
      <4>4. H(f) = {i} /\ Cardinality(H(f)) = 1
        <5> HIDE DEF H
        <5>1. IsFiniteSet({i}) /\ Cardinality({i}) = 1
          BY FS_Singleton
        <5>2. Cardinality(H(f)) \in Nat /\ Cardinality({i}) <= Cardinality(H(f))
          BY <4>2, <4>3, <5>1, FS_Subset, FS_CardinalityType
        <5>3. H(f) = {i}
          BY <4>2, <4>3, <5>1, <5>2, FS_Subset
        <5> QED BY <5>1, <5>3
      <4>5. {k \in I : q.coding[k] \in OngoingOf(f)} = {}
        BY <3>3, <4>1, <4>4
      <4>6. NCoding(f) = 1 /\ NCoding(f)' = 0
        BY <3>2, <4>4, <4>5, FS_EmptySet
      <4>7. released'[f] = released[f] + IF NCoding(f) # 0 THEN 1 ELSE 0
        BY <2>5, <3>3, <4>6
      <4> QED BY <3>1, <4>6, <4>7, QueueEmptied
    <3>4. CASE f \notin R
      <4>1. \A i \in DOMAIN q.coding : q.coding[i] \in OngoingOf(f) => q.coding[i] # Known(g)
        <5> SUFFICES ASSUME NEW i \in DOMAIN q.coding, q.coding[i].frame = f, q.coding[i] = Known(g)
                     PROVE  FALSE
          BY DEF OngoingOf
        <5>1. f = g
          BY DEF Known
        <5>2. Contains(q.coding, Known(g))
          BY <2>2 DEF Contains
        <5> QED BY <3>4, <5>1, <5>2
      <4>2. {i \in I : q.coding[i] \in OngoingOf(f)} = H(f)
        BY <4>1
      <4>3. NCoding(f)' = NCoding(f) /\ released'[f] = released[f]
        BY <2>5, <3>2, <3>4, <4>2, PartsAre DEF Nats
      <4> QED BY <3>1, <4>3 DEF Parts
    <3> QED BY <3>3, <3>4
  <2> QED BY <1>0, <2>6, <2>7, <2>8, FramesMove
<1> QED BY <1>1, <1>2

\* A frame leaves the queue of those to encode and joins the ongoing ones.
LEMMA DataNextFrames ==
  ASSUME FInv, DataNext
  PROVE  FInv'
<1>0. UNCHANGED <<handed, chan, pp, released>> /\ data.pc = "idle"
  BY DEF DataNext, Rest, ppVars
<1>1. CASE ~data.active \/ q.jpeg = <<>>
  <2>1. q' = q /\ (data' = data \/ data' = [data EXCEPT !.pc = "reprocess"])
    BY <1>1 DEF DataNext, Goto
  <2>2. Types' /\ InTurn'
    BY <1>0, <2>1 DEF FInv, Types, InTurn, DataPc
  <2>3. data'.job = data.job /\ data'.pc \notin {"encode", "mark"}
    BY <1>0, <2>1 DEF FInv, Types
  <2> QED BY <1>0, <2>1, <2>2, <2>3, NoFrameMoves
<1>2. CASE data.active /\ q.jpeg # <<>>
  <2> DEFINE g == Head(q.jpeg)
             x == [frame |-> g, known |-> FALSE]
  <2>1. /\ data' = [data EXCEPT !.pc = "encode", !.job = g]
        /\ q' = [q EXCEPT !.jpeg = Tail(q.jpeg), !.coding = Append(q.coding, x)]
    BY <1>2 DEF DataNext
  <2>2. q.jpeg \in Seq(Frame) /\ q.coding \in Seq(Ongoing)
    BY QueueTypes DEF FInv, Types
  <2>3. g \in Frame /\ Tail(q.jpeg) \in Seq(Frame) /\ x \in Ongoing
    BY <1>2, <2>2, HeadTailProperties DEF Ongoing
  <2>4. \A f \in Frame : x \in OngoingOf(f) <=> g = f
    BY <2>3 DEF OngoingOf
  <2> HIDE DEF x, g
  <2>5. /\ Append(q.coding, x) \in Seq(Ongoing) /\ Append(q.coding, x) # <<>>
        /\ Append(q.coding, x)[Len(Append(q.coding, x))] = x
    BY <2>2, <2>3, AppendProperties
  <2>6. /\ q' \in Queues /\ q'.coding = Append(q.coding, x) /\ q'.jpeg = Tail(q.jpeg)
        /\ q'.input = q.input /\ q'.ongoing = q.ongoing
    BY <2>1, <2>3, <2>5 DEF Queues, FInv, Types
  <2>7. /\ data' \in [pc : DataPc, active : BOOLEAN, job : Nat, synced : BOOLEAN]
        /\ data'.job = g
    BY <2>1, <2>3, FrameIs DEF FInv, Types, DataPc
  <2>8. Types'
    BY <1>0, <2>6, <2>7 DEF FInv, Types
  <2>9. LastOngoing'
    BY <2>5, <2>6, <2>7 DEF LastOngoing, Last, x
  <2>10. ASSUME NEW f \in Frame PROVE Parts(f)' = Parts(f)
    <3>1. NInput(f)' = NInput(f) /\ NOngoing(f)' = NOngoing(f) /\ Having(f)' = Having(f)
      BY <1>0, <2>6 DEF NInput, NOngoing, Having
    <3>2. NCoding(f)' = NCoding(f) + IF g = f THEN 1 ELSE 0
      <4>1. Hits(OngoingOf(f), Append(q.coding, x)) = Hits(OngoingOf(f), q.coding) + IF x \in OngoingOf(f) THEN 1 ELSE 0
        BY <2>2, <2>3, HitsAppend
      <4> QED BY <2>4, <2>6, <4>1 DEF NCoding, OngoingOf
    <3>3. NJpeg(f) = NJpeg(f)' + IF g = f THEN 1 ELSE 0
      <4>1. Hits({f}, q.jpeg) = Hits({f}, Tail(q.jpeg)) + IF g \in {f} THEN 1 ELSE 0
        BY <1>2, <2>2, HitsTail DEF g
      <4> QED BY <2>6, <4>1 DEF NJpeg
    <3>4. Nats(f) /\ Nats(f)'
      BY <2>8, TotalIsNat, TotalIsNatNext DEF FInv, NatTotals
    <3> QED BY <1>0, <3>1, <3>2, <3>3, <3>4 DEF Parts, Nats
  <2> QED BY <1>0, <2>8, <2>9, <2>10, FramesMove
<1> QED BY <1>1, <1>2

\* encodeData failed: the last ongoing job is the one it was called with.
LEMMA EncodeFailsFrames ==
  ASSUME FInv, EncodeFails
  PROVE  FInv'
<1> DEFINE g == data.job
           x == [frame |-> g, known |-> FALSE]
           n == Len(q.coding)
           c == SubSeq(q.coding, 1, n - 1)
<1>0. UNCHANGED <<handed, chan, pp>> /\ data.pc = "encode"
  BY DEF EncodeFails, Rest, ppVars
<1>1. /\ q' = [q EXCEPT !.coding = c] /\ Release({g})
      /\ data' = [data EXCEPT !.pc = "reprocess", !.job = 0]
  BY DEF EncodeFails, Front
<1>2. q.coding \in Seq(Ongoing) /\ q.coding # <<>> /\ q.coding[n] = x
  BY <1>0, QueueTypes DEF FInv, Types, LastOngoing, Last
<1>3. x \in Ongoing /\ g \in Frame
  <2>1. n \in 1..n
    BY <1>2, LenProperties, EmptySeq
  <2>2. x \in Ongoing
    BY <1>2, <2>1, ElementOfSeq
  <2> QED BY <2>2 DEF Ongoing
<1>4. \A f \in Frame : x \in OngoingOf(f) <=> g = f
  BY <1>3 DEF OngoingOf
<1>5. c \in Seq(Ongoing)
  BY <1>2, FrontIs
<1> HIDE DEF x, c, n, g
<1>6. /\ q' \in Queues /\ q'.coding = c /\ q'.jpeg = q.jpeg
      /\ q'.input = q.input /\ q'.ongoing = q.ongoing
  BY <1>1, <1>5, QueueSet DEF FInv, Types
<1>7. released' \in [Frame -> Nat]
      /\ \A f \in Frame : released'[f] = released[f] + IF f \in {g} THEN 1 ELSE 0
  BY <1>1, ReleaseIs DEF FInv, Types
<1>8. Types' /\ LastOngoing'
  <2>1. data' \in [pc : DataPc, active : BOOLEAN, job : Nat, synced : BOOLEAN] /\ data'.pc = "reprocess"
    BY <1>1 DEF FInv, Types, DataPc
  <2> QED BY <1>0, <1>6, <1>7, <2>1 DEF FInv, Types, LastOngoing
<1>9. ASSUME NEW f \in Frame PROVE Parts(f)' = Parts(f)
  <2>1. /\ NInput(f)' = NInput(f) /\ NOngoing(f)' = NOngoing(f) /\ NJpeg(f)' = NJpeg(f)
        /\ Having(f)' = Having(f)
    BY <1>0, <1>6 DEF NInput, NOngoing, NJpeg, Having
  <2>2. NCoding(f) = NCoding(f)' + IF g = f THEN 1 ELSE 0
    <3>1. Hits(OngoingOf(f), q.coding) = Hits(OngoingOf(f), c) + IF x \in OngoingOf(f) THEN 1 ELSE 0
      BY <1>2, HitsFront DEF c, n
    <3> QED BY <1>4, <1>6, <3>1 DEF NCoding, OngoingOf
  <2>3. released'[f] = released[f] + IF g = f THEN 1 ELSE 0
    BY <1>7
  <2>4. Nats(f) /\ Nats(f)'
    BY <1>8, TotalIsNat, TotalIsNatNext DEF FInv, NatTotals
  <2> QED BY <2>1, <2>2, <2>3, <2>4 DEF Parts, Nats
<1> QED BY <1>0, <1>8, <1>9, FramesMove

\* The job id is recorded.
LEMMA EncodeMarkFrames ==
  ASSUME FInv, EncodeMark
  PROVE  FInv'
<1> DEFINE g == data.job
           c == [i \in DOMAIN q.coding |-> IF q.coding[i].frame = g THEN Known(g) ELSE q.coding[i]]
<1>0. UNCHANGED <<handed, chan, pp, released>>
  BY DEF EncodeMark, Rest, ppVars
<1>1. q' = [q EXCEPT !.coding = c] /\ data' = [data EXCEPT !.pc = "reprocess", !.job = 0]
  BY DEF EncodeMark
<1>2. q.coding \in Seq(Ongoing) /\ \A i \in DOMAIN q.coding : q.coding[i] \in Ongoing
  BY QueueTypes, ElementOfSeq, LenProperties DEF FInv, Types
<1>3. /\ c \in Seq(Ongoing) /\ DOMAIN c = DOMAIN q.coding
      /\ \A i \in DOMAIN q.coding : c[i] \in Ongoing /\ c[i].frame = q.coding[i].frame
  <2>1. \A i \in DOMAIN q.coding : c[i] \in Ongoing /\ c[i].frame = q.coding[i].frame
    BY <1>2 DEF Ongoing, Known
  <2>2. c \in [DOMAIN q.coding -> Ongoing]
    BY <2>1
  <2> HIDE DEF c
  <2> QED BY <1>2, <2>1, <2>2, FunctionIsSeq
<1> HIDE DEF c, g
<1>4. /\ q' \in Queues /\ q'.coding = c /\ q'.jpeg = q.jpeg
      /\ q'.input = q.input /\ q'.ongoing = q.ongoing
  BY <1>1, <1>3, QueueSet DEF FInv, Types
<1>5. Types' /\ LastOngoing'
  <2>1. data' \in [pc : DataPc, active : BOOLEAN, job : Nat, synced : BOOLEAN] /\ data'.pc = "reprocess"
    BY <1>1 DEF FInv, Types, DataPc
  <2> QED BY <1>0, <1>4, <2>1 DEF FInv, Types, LastOngoing
<1>6. ASSUME NEW f \in Frame PROVE Parts(f)' = Parts(f)
  <2>1. /\ NInput(f)' = NInput(f) /\ NOngoing(f)' = NOngoing(f) /\ NJpeg(f)' = NJpeg(f)
        /\ Having(f)' = Having(f)
    BY <1>0, <1>4 DEF NInput, NOngoing, NJpeg, Having
  <2>2. {i \in DOMAIN c : c[i] \in OngoingOf(f)} = {i \in DOMAIN q.coding : q.coding[i] \in OngoingOf(f)}
    BY <1>2, <1>3 DEF OngoingOf
  <2>3. Hits(OngoingOf(f), c) = Hits(OngoingOf(f), q.coding)
    BY <2>2 DEF Hits
  <2>4. NCoding(f)' = NCoding(f)
    BY <1>4, <2>3 DEF NCoding, OngoingOf
  <2> QED BY <1>0, <2>1, <2>4 DEF Parts
<1> QED BY <1>0, <1>5, <1>6, FramesMove

\* A job goes to the reprocess channel, if this refuses none.
LEMMA DataReprocessFrames ==
  ASSUME FInv, DataReprocess, ReprocessMayFail = FALSE
  PROVE  FInv'
<1>0. UNCHANGED <<handed, chan, pp, released>> /\ data' = [data EXCEPT !.pc = "idle"]
  BY DEF DataReprocess, doReprocess, Goto
<1>1. data' \in [pc : DataPc, active : BOOLEAN, job : Nat, synced : BOOLEAN]
      /\ data'.pc = "idle" /\ data'.job = data.job
  BY <1>0 DEF FInv, Types, DataPc
<1>2. CASE q' = q
  <2>1. Types' /\ InTurn'
    BY <1>0, <1>1, <1>2 DEF FInv, Types, InTurn
  <2> QED BY <1>0, <1>1, <1>2, <2>1, NoFrameMoves
<1>3. CASE q' # q
  <2> DEFINE j == Head(q.input)
             x == [j EXCEPT !.passes = @ + 1]
  <2>1. q.input # <<>> /\ q' = [q EXCEPT !.input = Tail(q.input), !.ongoing = Append(q.ongoing, x)]
    BY <1>3 DEF DataReprocess, doReprocess
  <2>2. q.input \in Seq(PPJob) /\ q.ongoing \in Seq(PPJob)
    BY QueueTypes DEF FInv, Types
  <2>3. j \in PPJob /\ Tail(q.input) \in Seq(PPJob) /\ x \in PPJob
    <3>1. j \in PPJob /\ Tail(q.input) \in Seq(PPJob)
      BY <2>1, <2>2, HeadTailProperties
    <3> HIDE DEF j
    <3> QED BY <3>1 DEF PPJob
  <2>4. \A f \in Frame : x \in PPJobsOf(f) <=> j \in PPJobsOf(f)
    BY <2>3 DEF PPJobsOf, PPJob
  <2> HIDE DEF x, j
  <2>5. Append(q.ongoing, x) \in Seq(PPJob)
    BY <2>2, <2>3, AppendProperties
  <2>6. /\ q' \in Queues /\ q'.ongoing = Append(q.ongoing, x) /\ q'.input = Tail(q.input)
        /\ q'.jpeg = q.jpeg /\ q'.coding = q.coding
    BY <2>1, <2>3, <2>5 DEF Queues, FInv, Types
  <2>7. Types' /\ LastOngoing'
    BY <1>0, <1>1, <2>6 DEF FInv, Types, LastOngoing
  <2>8. ASSUME NEW f \in Frame PROVE Parts(f)' = Parts(f)
    <3> DEFINE one == IF x \in PPJobsOf(f) THEN 1 ELSE 0
    <3>1. NJpeg(f)' = NJpeg(f) /\ NCoding(f)' = NCoding(f) /\ Having(f)' = Having(f)
      BY <1>0, <2>6 DEF NJpeg, NCoding, Having
    <3>2. NOngoing(f)' = NOngoing(f) + one
      <4>1. Hits(PPJobsOf(f), Append(q.ongoing, x)) = Hits(PPJobsOf(f), q.ongoing) + one
        BY <2>2, <2>3, HitsAppend
      <4> QED BY <2>6, <4>1 DEF NOngoing, PPJobsOf
    <3>3. NInput(f) = NInput(f)' + one
      <4>1. Hits(PPJobsOf(f), q.input) = Hits(PPJobsOf(f), Tail(q.input)) + IF j \in PPJobsOf(f) THEN 1 ELSE 0
        BY <2>1, <2>2, HitsTail DEF j
      <4>2. NInput(f) = NInput(f)' + IF j \in PPJobsOf(f) THEN 1 ELSE 0
        BY <2>6, <4>1 DEF NInput, PPJobsOf
      <4> QED BY <2>4, <4>2
    <3>4. Nats(f) /\ Nats(f)'
      BY <2>7, TotalIsNat, TotalIsNatNext DEF FInv, NatTotals
    <3>5. one \in Nat
      OBVIOUS
    <3> HIDE DEF one
    <3> QED BY <1>0, <3>1, <3>2, <3>3, <3>4, <3>5 DEF Parts, Nats
  <2> QED BY <1>0, <2>7, <2>8, FramesMove
<1> QED BY <1>2, <1>3

\* The reprocess callback takes the first ongoing job.
LEMMA PPResultFrames ==
  ASSUME FInv, PPResult
  PROVE  FInv'
<1>0. UNCHANGED <<handed, chan, data, released>> /\ pp.pc = "got"
  BY DEF PPResult, PPRest, dataVars
<1>1. CASE q' = q /\ pp' = [pc |-> "idle"]
  <2>1. Types' /\ InTurn'
    BY <1>0, <1>1 DEF FInv, Types, InTurn, PPState
  <2> QED BY <1>0, <1>1, <2>1, NoFrameMoves
<1>2. CASE ~(q' = q /\ pp' = [pc |-> "idle"])
  <2> DEFINE j == Head(q.ongoing)
  <2>1. /\ q.ongoing # <<>> /\ q' = [q EXCEPT !.ongoing = Tail(q.ongoing)]
        /\ pp' = [pc |-> "have", job |-> j]
    BY <1>2 DEF PPResult
  <2>2. q.ongoing \in Seq(PPJob)
    BY QueueTypes DEF FInv, Types
  <2>3. j \in PPJob /\ Tail(q.ongoing) \in Seq(PPJob)
    BY <2>1, <2>2, HeadTailProperties
  <2>4. \A f \in Frame : j \in PPJobsOf(f) <=> j.frame = f
    BY <2>3 DEF PPJobsOf
  <2> HIDE DEF j
  <2>5. /\ q' \in Queues /\ q'.ongoing = Tail(q.ongoing)
        /\ q'.input = q.input /\ q'.jpeg = q.jpeg /\ q'.coding = q.coding
    BY <2>1, <2>3, QueueSet DEF FInv, Types
  <2>6. Types' /\ LastOngoing'
    <3>1. pp' \in PPState
      BY <2>1, <2>3 DEF PPState
    <3> QED BY <1>0, <2>5, <3>1 DEF FInv, Types, LastOngoing
  <2>7. ASSUME NEW f \in Frame PROVE Parts(f)' = Parts(f)
    <3>1. NInput(f)' = NInput(f) /\ NJpeg(f)' = NJpeg(f) /\ NCoding(f)' = NCoding(f)
      BY <2>5 DEF NInput, NJpeg, NCoding
    <3>2. Having(f) = 0 /\ Having(f)' = IF j.frame = f THEN 1 ELSE 0
      BY <1>0, <2>1 DEF Having
    <3>3. NOngoing(f) = NOngoing(f)' + IF j.frame = f THEN 1 ELSE 0
      <4>1. Hits(PPJobsOf(f), q.ongoing) = Hits(PPJobsOf(f), Tail(q.ongoing)) + IF j \in PPJobsOf(f) THEN 1 ELSE 0
        BY <2>1, <2>2, HitsTail DEF j
      <4>2. NOngoing(f) = NOngoing(f)' + IF j \in PPJobsOf(f) THEN 1 ELSE 0
        BY <2>5, <4>1 DEF NOngoing, PPJobsOf
      <4> QED BY <2>4, <4>2
    <3>4. Nats(f) /\ Nats(f)'
      BY <2>6, TotalIsNat, TotalIsNatNext DEF FInv, NatTotals
    <3> QED BY <1>0, <3>1, <3>2, <3>3, <3>4 DEF Parts, Nats
  <2> QED BY <1>0, <2>6, <2>7, FramesMove
<1> QED BY <1>1, <1>2

\* It puts the job into the next queue or gives the frame back.
LEMMA PPQueueFrames ==
  ASSUME FInv, PPQueue
  PROVE  FInv'
<1> DEFINE j == pp.job
           g == pp.job.frame
<1>0. UNCHANGED <<handed, chan, data>> /\ pp.pc = "have"
  BY DEF PPQueue, PPRest, dataVars
<1>1. j \in PPJob /\ g \in Frame /\ \A f \in Frame : j \in PPJobsOf(f) <=> g = f
  BY <1>0 DEF FInv, Types, PPState, PPJob, PPJobsOf
<1>2. /\ q.input \in Seq(PPJob) /\ q.jpeg \in Seq(Frame)
      /\ Append(q.input, j) \in Seq(PPJob) /\ Append(q.jpeg, g) \in Seq(Frame)
  BY <1>1, QueueTypes, AppendProperties DEF FInv, Types
<1>3. \/ q' = [q EXCEPT !.input = Append(q.input, j)] /\ released' = released /\ pp' = [pc |-> "queued"]
      \/ q' = [q EXCEPT !.jpeg = Append(q.jpeg, g)] /\ released' = released /\ pp' = [pc |-> "queued"]
      \/ q' = q /\ Release({g}) /\ pp' = [pc |-> "idle"]
  BY DEF PPQueue, Place
<1>4. \A f \in Frame : Having(f) = (IF g = f THEN 1 ELSE 0) /\ Having(f)' = 0
  BY <1>0, <1>3 DEF Having
<1>5. pp' \in PPState
  BY <1>3 DEF PPState
<1> HIDE DEF j, g
<1>6. CASE q' = [q EXCEPT !.input = Append(q.input, j)] /\ released' = released
  <2>1. /\ q' \in Queues /\ q'.input = Append(q.input, j)
        /\ q'.ongoing = q.ongoing /\ q'.jpeg = q.jpeg /\ q'.coding = q.coding
    BY <1>2, <1>6, QueueSet DEF FInv, Types
  <2>2. Types' /\ LastOngoing'
    BY <1>0, <1>5, <1>6, <2>1 DEF FInv, Types, LastOngoing
  <2>3. ASSUME NEW f \in Frame PROVE Parts(f)' = Parts(f)
    <3>1. NOngoing(f)' = NOngoing(f) /\ NJpeg(f)' = NJpeg(f) /\ NCoding(f)' = NCoding(f)
      BY <2>1 DEF NOngoing, NJpeg, NCoding
    <3>2. NInput(f)' = NInput(f) + IF g = f THEN 1 ELSE 0
      <4>1. Hits(PPJobsOf(f), Append(q.input, j)) = Hits(PPJobsOf(f), q.input) + IF j \in PPJobsOf(f) THEN 1 ELSE 0
        BY <1>1, <1>2, HitsAppend
      <4>2. NInput(f)' = NInput(f) + IF j \in PPJobsOf(f) THEN 1 ELSE 0
        BY <2>1, <4>1 DEF NInput, PPJobsOf
      <4> QED BY <1>1, <4>2
    <3>3. Nats(f) /\ Nats(f)'
      BY <2>2, TotalIsNat, TotalIsNatNext DEF FInv, NatTotals
    <3> QED BY <1>4, <1>6, <3>1, <3>2, <3>3 DEF Parts, Nats
  <2> QED BY <1>0, <2>2, <2>3, FramesMove
<1>7. CASE q' = [q EXCEPT !.jpeg = Append(q.jpeg, g)] /\ released' = released
  <2>1. /\ q' \in Queues /\ q'.jpeg = Append(q.jpeg, g)
        /\ q'.ongoing = q.ongoing /\ q'.input = q.input /\ q'.coding = q.coding
    BY <1>2, <1>7, QueueSet DEF FInv, Types
  <2>2. Types' /\ LastOngoing'
    BY <1>0, <1>5, <1>7, <2>1 DEF FInv, Types, LastOngoing
  <2>3. ASSUME NEW f \in Frame PROVE Parts(f)' = Parts(f)
    <3>1. NOngoing(f)' = NOngoing(f) /\ NInput(f)' = NInput(f) /\ NCoding(f)' = NCoding(f)
      BY <2>1 DEF NOngoing, NInput, NCoding
    <3>2. NJpeg(f)' = NJpeg(f) + IF g = f THEN 1 ELSE 0
      <4>1. Hits({f}, Append(q.jpeg, g)) = Hits({f}, q.jpeg) + IF g \in {f} THEN 1 ELSE 0
        BY <1>1, <1>2, HitsAppend
      <4>2. NJpeg(f)' = NJpeg(f) + IF g \in {f} THEN 1 ELSE 0
        BY <2>1, <4>1 DEF NJpeg
      <4> QED BY <4>2
    <3>3. Nats(f) /\ Nats(f)'
      BY <2>2, TotalIsNat, TotalIsNatNext DEF FInv, NatTotals
    <3> QED BY <1>4, <1>7, <3>1, <3>2, <3>3 DEF Parts, Nats
  <2> QED BY <1>0, <2>2, <2>3, FramesMove
<1>8. CASE q' = q /\ Release({g})
  <2>1. released' \in [Frame -> Nat]
        /\ \A f \in Frame : released'[f] = released[f] + IF f \in {g} THEN 1 ELSE 0
    BY <1>8, ReleaseIs DEF FInv, Types
  <2>2. Types' /\ LastOngoing'
    BY <1>0, <1>5, <1>8, <2>1 DEF FInv, Types, LastOngoing
  <2>3. ASSUME NEW f \in Frame PROVE Parts(f)' = Parts(f)
    <3>1. NOngoing(f)' = NOngoing(f) /\ NInput(f)' = NInput(f) /\ NCoding(f)' = NCoding(f) /\ NJpeg(f)' = NJpeg(f)
      BY <1>8 DEF NOngoing, NInput, NCoding, NJpeg
    <3>2. released'[f] = released[f] + IF g = f THEN 1 ELSE 0
      BY <2>1
    <3>3. Nats(f) /\ Nats(f)'
      BY <2>2, TotalIsNat, TotalIsNatNext DEF FInv, NatTotals
    <3> QED BY <1>4, <3>1, <3>2, <3>3 DEF Parts, Nats
  <2> QED BY <1>0, <2>2, <2>3, FramesMove
<1> QED BY <1>3, <1>6, <1>7, <1>8

-----------------------------------------------------------------------------
LEMMA FrameInit == Init => FInv
<1> SUFFICES ASSUME Init PROVE FInv
  OBVIOUS
<1>1. q = [input |-> <<>>, ongoing |-> <<>>, jpeg |-> <<>>, coding |-> <<>>] /\ pp = [pc |-> "idle"]
      /\ handed = {} /\ released = [f \in Frame |-> 0]
      /\ chan = [pc |-> "idle", frame |-> 0]
      /\ data = [pc |-> "idle", active |-> FALSE, job |-> 0, synced |-> FALSE]
  BY DEF Init
<1>2. Types
  <2>1. q \in Queues
    BY <1>1, EmptyQueues DEF Queues
  <2>2. pp \in PPState
    BY <1>1 DEF PPState
  <2> QED BY <1>1, <2>1, <2>2 DEF Types, DataPc
<1>3. Totals
  <2>1. ASSUME NEW f \in Frame PROVE Total(f) = 0 /\ Owed(f) = 0
    <3>1. NInput(f) = 0 /\ NOngoing(f) = 0 /\ NCoding(f) = 0 /\ NJpeg(f) = 0
      BY <1>1, HitsEmpty DEF NInput, NOngoing, NCoding, NJpeg
    <3>2. Having(f) = 0 /\ released[f] = 0
      BY <1>1 DEF Having
    <3> QED BY <1>1, <3>1, <3>2 DEF Total, Owed
  <2> QED BY <2>1 DEF Totals
<1>4. InTurn
  <2>1. handed = 1..0 /\ 0 \in 0..MaxFrame /\ chan.pc # "got"
    BY <1>1, FrameIs
  <2> QED BY <2>1 DEF InTurn
<1>5. LastOngoing
  BY <1>1 DEF LastOngoing
<1> QED BY <1>2, <1>3, <1>4, <1>5 DEF FInv

LEMMA FrameStep ==
  ASSUME ReprocessMayFail = FALSE
  PROVE  FInv /\ [Next]_vars => FInv'
<1> SUFFICES ASSUME FInv, [Next]_vars PROVE FInv'
  OBVIOUS
<1>1. CASE UNCHANGED vars
  <2>1. UNCHANGED <<q, pp, released, data, chan, handed>>
    BY <1>1 DEF vars
  <2>2. Types' /\ InTurn'
    BY <2>1 DEF FInv, Types, InTurn
  <2> QED BY <2>1, <2>2, NoFrameMoves
<1>2. CASE \/ TakePicture \/ CancelPicture \/ Deliver \/ SnapshotDone \/ Stop \/ StopSynced
           \/ StopJoin \/ Start \/ StartSynced \/ processDataSend \/ DataStart \/ EncodeStart
           \/ PPOutput \/ PPSend \/ CbStart \/ CbStop \/ CbNext \/ CbDelivered
           \/ \E f \in Frame : EncodeEnds(f)
  BY <1>2, StepsWithoutFrames
<1>3. CASE processData
  BY <1>3, processDataFrames
<1>4. CASE processJpegEvt
  BY <1>4, processJpegEvtFrames
<1>5. CASE DataStop
  BY <1>5, DataStopFrames
<1>6. CASE DataFlush
  BY <1>6, DataFlushFrames
<1>7. CASE DataNext
  BY <1>7, DataNextFrames
<1>8. CASE EncodeFails
  BY <1>8, EncodeFailsFrames
<1>9. CASE EncodeMark
  BY <1>9, EncodeMarkFrames
<1>10. CASE DataReprocess
  BY <1>10, DataReprocessFrames
<1>11. CASE PPResult
  BY <1>11, PPResultFrames
<1>12. CASE PPQueue
  BY <1>12, PPQueueFrames
<1> QED BY <1>1, <1>2, <1>3, <1>4, <1>5, <1>6, <1>7, <1>8, <1>9, <1>10, <1>11, <1>12
        DEF Next, Events, DeferredWork, Channel, Data, Reprocess, Callback

\* A frame that came to the post processor is in one place or went back to its
\* channel once, whatever the threads do, if the reprocess channel refuses no
\* frame: doReprocess releases a refused one that the ongoing queue still has.
THEOREM FramesAreKept ==
  ASSUME ReprocessMayFail = FALSE
  PROVE  Spec => []EveryFrameOnce
<1>1. FInv => EveryFrameOnce
  BY TotalsAre DEF FInv
<1>2. Init => FInv
  BY FrameInit
<1>3. FInv /\ [Next]_vars => FInv'
  BY FrameStep
<1> QED BY <1>1, <1>2, <1>3, PTL DEF Spec

-----------------------------------------------------------------------------
(* What stop() waits for.                                                    *)

Cmd == {"START", "STOP", "NEXT"}

StopTypes ==
    /\ sm \in [pc : {"idle", "stop", "wait", "join"}, taking : BOOLEAN, passes : Nat, longshot : BOOLEAN,
               done : BOOLEAN, due : Nat, pictures : Nat]
    /\ defer \in {"idle", "send", "wait", "notify"}
    /\ cmdQ \in Seq(Cmd) /\ smQ \in Seq(Frame \cup {0}) /\ hw \in Seq(Frame)
    /\ on \subseteq Flushed /\ encoding \subseteq Frame

\* The encoder works on ongoing jobs whose id is recorded, or is just being
\* recorded; it does no more on one whose event is sent, and that one was not
\* taken again.
Marking(f) == data.pc = "mark" /\ data.job = f
IsKnown(f) == Known(f) \in Range(q.coding)

Coded == \A f \in encoding : IsKnown(f) \/ Marking(f)
Reported ==
    \A f \in Range(smQ) \ {0} :
        f \notin encoding /\ (IsKnown(f) \/ Marking(f) \/ released[f] # 0)

\* While the queues are flushed those before are empty and refuse what comes.
Flushing ==
    data.pc \in Flushed =>
        /\ ~data.active /\ q.coding = <<>> /\ encoding = {}
        /\ data.pc # "ongoing" => q.ongoing = <<>> /\ "ongoing" \notin on
        /\ data.pc = "input" => q.jpeg = <<>> /\ "jpeg" \notin on

\* A command of start or stop is under way at most once, and only while
\* somebody waits for its answer; nobody starts while the machine stops.
Starts == Hits({"START"}, cmdQ)
Stops  == Hits({"STOP"}, cmdQ)

StartAsked ==
    IF defer = "wait" THEN Starts + (IF data.synced THEN 1 ELSE 0) = 1 ELSE Starts = 0
StopAsked ==
    IF sm.pc = "wait"
    THEN Stops + (IF data.synced THEN 1 ELSE 0) + (IF data.pc \in Flushed THEN 1 ELSE 0) = 1
    ELSE Stops = 0 /\ data.pc \notin Flushed
OneAsks ==
    /\ defer # "idle" => sm.taking /\ sm.pc \in {"idle", "stop"}
    /\ data.synced => defer = "wait" \/ sm.pc = "wait"

Protocol == StartAsked /\ StopAsked /\ OneAsks

\* Nothing to work on, and no queue to put anything into.
AtRest ==
    /\ data.pc = "idle" /\ ~data.active
    /\ q.input = <<>> /\ q.ongoing = <<>> /\ q.jpeg = <<>> /\ q.coding = <<>>
    /\ encoding = {}
Off == AtRest /\ on = {}

QuietInv ==
    /\ sm.pc = "wait" /\ data.synced => Off
    /\ sm.pc = "join" => Off
    /\ sm.pc = "idle" /\ ~sm.taking =>
         /\ AtRest /\ pp.pc = "idle" /\ hw = <<>> /\ sm.due = 0
         /\ on = {} \/ chan.pc # "got"

\* The frame that is being encoded is the last ongoing one.
LEMMA JobIsFrame ==
  ASSUME FInv, data.pc \in {"encode", "mark"}
  PROVE  /\ data.job \in Frame /\ q.coding # <<>>
         /\ Len(q.coding) \in DOMAIN q.coding
         /\ q.coding[Len(q.coding)] = [frame |-> data.job, known |-> FALSE]
<1>1. q.coding \in Seq(Ongoing) /\ q.coding # <<>>
      /\ q.coding[Len(q.coding)] = [frame |-> data.job, known |-> FALSE]
  BY QueueTypes DEF FInv, Types, LastOngoing, Last
<1>2. Len(q.coding) \in 1..Len(q.coding) /\ DOMAIN q.coding = 1..Len(q.coding)
  BY <1>1, LenProperties, EmptySeq
<1>3. [frame |-> data.job, known |-> FALSE] \in Ongoing
  BY <1>1, <1>2, ElementOfSeq
<1> QED BY <1>1, <1>2, <1>3 DEF Ongoing

LEMMA StopTypesStep ==
  ASSUME FInv, StopTypes, [Next]_vars
  PROVE  StopTypes'
<1> DEFINE SmSet == [pc : {"idle", "stop", "wait", "join"}, taking : BOOLEAN, passes : Nat, longshot : BOOLEAN,
                     done : BOOLEAN, due : Nat, pictures : Nat]
<1>1. sm' \in SmSet
  <2>1. sm \in SmSet
    BY SMTT(40) DEF StopTypes
  <2>1a. TakePicture => \E n \in 0..ReprocCount, b \in BOOLEAN :
           sm' = [sm EXCEPT !.taking = TRUE, !.passes = n, !.longshot = b, !.due = Expected, !.pictures = @ + 1]
    BY Zenon DEF TakePicture
  <2>2. \/ sm' = sm
        \/ TakePicture
        \/ \E d \in BOOLEAN : sm' = [sm EXCEPT !.pc = "stop", !.done = d]
        \/ sm' = [sm EXCEPT !.pc = "wait", !.taking = FALSE]
        \/ sm' = [sm EXCEPT !.pc = "join"]
        \/ sm' = [sm EXCEPT !.pc = "idle", !.due = 0]
        \/ sm.due > 0 /\ sm' = [sm EXCEPT !.due = @ - 1]
    BY DEF Next, Events, DeferredWork, Channel, Data, Reprocess, Callback, CancelPicture, Cancel,
           Deliver, SnapshotDone, processJpegEvt, Stop, StopSynced, StopJoin, Start, StartSynced,
           processData, processDataSend, DataStart, DataStop, DataFlush, DataNext, EncodeStart,
           EncodeFails, EncodeMark, DataReprocess, PPResult, PPQueue, PPOutput, PPSend, EncodeEnds, CbStart,
           CbStop, CbNext, CbDelivered, Rest, PPRest, CbRest, smVars, vars
  <2>3. Expected \in Nat
    BY PostProcAssumption
  <2>4. \A n \in Nat, b \in BOOLEAN :
          [sm EXCEPT !.taking = TRUE, !.passes = n, !.longshot = b, !.due = Expected, !.pictures = @ + 1] \in SmSet
    <3>1. sm.pictures + 1 \in Nat
      BY <2>1
    <3>2. \A n, p \in Nat, b \in BOOLEAN :
            [sm EXCEPT !.taking = TRUE, !.passes = n, !.longshot = b, !.due = Expected, !.pictures = p] \in SmSet
      BY <2>1, <2>3
    <3> HIDE DEF SmSet
    <3> QED BY <3>1, <3>2
  <2>5. \A d \in BOOLEAN : [sm EXCEPT !.pc = "stop", !.done = d] \in SmSet
    BY <2>1
  <2>6. [sm EXCEPT !.pc = "wait", !.taking = FALSE] \in SmSet
    BY <2>1
  <2>7. [sm EXCEPT !.pc = "join"] \in SmSet /\ [sm EXCEPT !.pc = "idle", !.due = 0] \in SmSet
    BY <2>1
  <2>8. sm.due > 0 => [sm EXCEPT !.due = @ - 1] \in SmSet
    BY <2>1
  <2> HIDE DEF SmSet
  <2>9. ASSUME TakePicture PROVE sm' \in SmSet
    <3>1. PICK n \in 0..ReprocCount, b \in BOOLEAN :
            sm' = [sm EXCEPT !.taking = TRUE, !.passes = n, !.longshot = b, !.due = Expected, !.pictures = @ + 1]
      BY <2>1a, <2>9
    <3>2. n \in Nat
      BY PostProcAssumption
    <3> QED BY <2>4, <3>1, <3>2
  <2> QED BY <2>1, <2>2, <2>5, <2>6, <2>7, <2>8, <2>9
<1>2. defer' \in {"idle", "send", "wait", "notify"}
  <2>1. defer' \in {defer, "send", "wait", "idle"}
    BY DEF Next, Events, DeferredWork, Channel, Data, Reprocess, Callback, TakePicture, CancelPicture,
           Deliver, SnapshotDone, processJpegEvt, Stop, StopSynced, StopJoin, Start, StartSynced,
           processData, processDataSend, DataStart, DataStop, DataFlush, DataNext, EncodeStart,
           EncodeFails, EncodeMark, DataReprocess, PPResult, PPQueue, PPOutput, PPSend, EncodeEnds, CbStart,
           CbStop, CbNext, CbDelivered, Rest, PPRest, CbRest, smVars, vars
  <2> QED BY SMTT(40), <2>1 DEF StopTypes
<1>3. cmdQ' \in Seq(Cmd)
  <2> DEFINE more == IF q.input # <<>> THEN <<"NEXT">> ELSE <<>>
  <2>1. \/ cmdQ' = cmdQ
        \/ cmdQ # <<>> /\ cmdQ' = Tail(cmdQ)
        \/ cmdQ' = Append(cmdQ, "NEXT")
        \/ cmdQ' = Append(cmdQ, "START")
        \/ cmdQ' = <<"STOP">> \o cmdQ
        \/ cmdQ' = cmdQ \o more \o <<"NEXT">>
    BY DEF ToldToGoOn, Next, Events, DeferredWork, Channel, Data, Reprocess, Callback, TakePicture, CancelPicture,
           Deliver, SnapshotDone, processJpegEvt, Stop, StopSynced, StopJoin, Start, StartSynced,
           processData, processDataSend, DataStart, DataStop, DataFlush, DataNext, EncodeStart,
           EncodeFails, EncodeMark, DataReprocess, PPResult, PPQueue, PPOutput, PPSend, EncodeEnds, CbStart,
           CbStop, CbNext, CbDelivered, Rest, PPRest, CbRest, smVars, vars
  <2>2. cmdQ \in Seq(Cmd) /\ <<"NEXT">> \in Seq(Cmd) /\ <<"STOP">> \in Seq(Cmd) /\ more \in Seq(Cmd)
        /\ "NEXT" \in Cmd /\ "START" \in Cmd
    <3>1. <<>> \in Seq(Cmd) /\ <<"NEXT">> \in Seq(Cmd) /\ <<"STOP">> \in Seq(Cmd)
      BY EmptySeq DEF Cmd
    <3> QED BY <3>1 DEF StopTypes, Cmd
  <2>3. <<"STOP">> \o cmdQ \in Seq(Cmd) /\ cmdQ \o more \in Seq(Cmd)
    BY <2>2, ConcatProperties
  <2> HIDE DEF more
  <2>4. (cmdQ \o more) \o <<"NEXT">> \in Seq(Cmd)
    BY <2>2, <2>3, ConcatProperties
  <2>5. Append(cmdQ, "NEXT") \in Seq(Cmd) /\ Append(cmdQ, "START") \in Seq(Cmd)
    BY <2>2, AppendProperties
  <2>6. cmdQ # <<>> => Tail(cmdQ) \in Seq(Cmd)
    BY <2>2, HeadTailProperties
  <2> QED BY <2>1, <2>2, <2>3, <2>4, <2>5, <2>6
<1>4. smQ' \in Seq(Frame \cup {0})
  <2>1. \/ smQ' = smQ
        \/ smQ # <<>> /\ smQ' = Tail(smQ)
        \/ smQ' = Append(smQ, 0)
        \/ \E f \in Frame : smQ' = Append(smQ, f)
    BY DEF Next, Events, DeferredWork, Channel, Data, Reprocess, Callback, TakePicture, CancelPicture,
           Deliver, SnapshotDone, processJpegEvt, Stop, StopSynced, StopJoin, Start, StartSynced,
           processData, processDataSend, DataStart, DataStop, DataFlush, DataNext, EncodeStart,
           EncodeFails, EncodeMark, DataReprocess, PPResult, PPQueue, PPOutput, PPSend, EncodeEnds, CbStart,
           CbStop, CbNext, CbDelivered, Rest, PPRest, CbRest, smVars, vars
  <2>2. smQ \in Seq(Frame \cup {0})
    BY DEF StopTypes
  <2>3. smQ # <<>> => Tail(smQ) \in Seq(Frame \cup {0})
    BY <2>2, HeadTailProperties
  <2>4. \A x \in Frame \cup {0} : Append(smQ, x) \in Seq(Frame \cup {0})
    BY <2>2, AppendProperties
  <2> QED BY SMTT(40), <2>1, <2>2, <2>3, <2>4
<1>5. hw' \in Seq(Frame)
  <2>1. \/ hw' = hw
        \/ hw' = <<>>
        \/ hw # <<>> /\ hw' = Tail(hw)
        \/ q.input # <<>> /\ hw' = Append(hw, Head(q.input).frame)
    BY DEF Next, Events, DeferredWork, Channel, Data, Reprocess, Callback, TakePicture, CancelPicture,
           Deliver, SnapshotDone, processJpegEvt, Stop, StopSynced, StopJoin, Start, StartSynced,
           processData, processDataSend, DataStart, DataStop, DataFlush, DataNext, EncodeStart,
           EncodeFails, EncodeMark, DataReprocess, doReprocess, PPResult, PPQueue, PPOutput, PPSend, EncodeEnds,
           CbStart, CbStop, CbNext, CbDelivered, Rest, PPRest, CbRest, ppVars, vars
  <2>2. hw \in Seq(Frame) /\ <<>> \in Seq(Frame)
    BY EmptySeq DEF StopTypes
  <2>3. hw # <<>> => Tail(hw) \in Seq(Frame)
    BY <2>2, HeadTailProperties
  <2>4. q.input # <<>> => Append(hw, Head(q.input).frame) \in Seq(Frame)
    <3> SUFFICES ASSUME q.input # <<>> PROVE Append(hw, Head(q.input).frame) \in Seq(Frame)
      OBVIOUS
    <3>1. Head(q.input) \in PPJob
      BY QueueTypes, HeadTailProperties DEF FInv, Types
    <3>2. Head(q.input).frame \in Frame
      BY <3>1 DEF PPJob
    <3> QED BY <2>2, <3>2, AppendProperties
  <2> QED BY <2>1, <2>2, <2>3, <2>4
<1>6. on' \subseteq Flushed
  <2>1. on' = on \/ on' = Flushed \/ on' = on \ {data.pc}
    BY DEF Next, Events, DeferredWork, Channel, Data, Reprocess, Callback, TakePicture, CancelPicture,
           Deliver, SnapshotDone, processJpegEvt, Stop, StopSynced, StopJoin, Start, StartSynced,
           processData, processDataSend, DataStart, DataStop, DataFlush, DataNext, EncodeStart,
           EncodeFails, EncodeMark, DataReprocess, PPResult, PPQueue, PPOutput, PPSend, EncodeEnds, CbStart,
           CbStop, CbNext, CbDelivered, Rest, PPRest, CbRest, dataVars, vars
  <2> QED BY SMTT(40), <2>1 DEF StopTypes
<1>7. encoding' \subseteq Frame
  <2>1. \/ encoding' \subseteq encoding
        \/ encoding' = encoding \cup {data.job} /\ data.pc = "encode"
    BY DEF Next, Events, DeferredWork, Channel, Data, Reprocess, Callback, TakePicture, CancelPicture,
           Deliver, SnapshotDone, processJpegEvt, Stop, StopSynced, StopJoin, Start, StartSynced,
           processData, processDataSend, DataStart, DataStop, DataFlush, DataNext, EncodeStart,
           EncodeFails, EncodeMark, DataReprocess, PPResult, PPQueue, PPOutput, PPSend, EncodeEnds, CbStart,
           CbStop, CbNext, CbDelivered, Rest, PPRest, CbRest, dataVars, vars
  <2>2. data.pc = "encode" => data.job \in Frame
    BY JobIsFrame
  <2> QED BY SMTT(40), <2>1, <2>2 DEF StopTypes
<1> QED BY <1>1, <1>2, <1>3, <1>4, <1>5, <1>6, <1>7 DEF StopTypes

\* The commands of start and stop under way.
LEMMA CommandsAre ==
  ASSUME StopTypes
  PROVE  Starts \in Nat /\ Stops \in Nat
BY HitsType DEF StopTypes, Starts, Stops

LEMMA CommandsAreNext ==
  ASSUME StopTypes'
  PROVE  Starts' \in Nat /\ Stops' \in Nat
<1>1. Hits({"START"}, cmdQ') \in Nat /\ Hits({"STOP"}, cmdQ') \in Nat
  BY HitsType DEF StopTypes
<1> QED BY <1>1 DEF Starts, Stops

LEMMA Sent ==
  ASSUME StopTypes, NEW c \in Cmd, cmdQ' = Append(cmdQ, c)
  PROVE  /\ Starts' = Starts + IF c = "START" THEN 1 ELSE 0
         /\ Stops' = Stops + IF c = "STOP" THEN 1 ELSE 0
<1>1. /\ Hits({"START"}, Append(cmdQ, c)) = Hits({"START"}, cmdQ) + IF c \in {"START"} THEN 1 ELSE 0
      /\ Hits({"STOP"}, Append(cmdQ, c)) = Hits({"STOP"}, cmdQ) + IF c \in {"STOP"} THEN 1 ELSE 0
  BY HitsAppend DEF StopTypes
<1> QED BY <1>1 DEF Starts, Stops

LEMMA JobTaken ==
  ASSUME StopTypes, cmdQ # <<>>, cmdQ' = Tail(cmdQ)
  PROVE  /\ Starts' = Starts - IF Head(cmdQ) = "START" THEN 1 ELSE 0
         /\ Stops' = Stops - IF Head(cmdQ) = "STOP" THEN 1 ELSE 0
<1>1. /\ Hits({"START"}, cmdQ) = Hits({"START"}, Tail(cmdQ)) + IF Head(cmdQ) \in {"START"} THEN 1 ELSE 0
      /\ Hits({"STOP"}, cmdQ) = Hits({"STOP"}, Tail(cmdQ)) + IF Head(cmdQ) \in {"STOP"} THEN 1 ELSE 0
  BY HitsTail DEF StopTypes
<1>2. Hits({"START"}, Tail(cmdQ)) \in Nat /\ Hits({"STOP"}, Tail(cmdQ)) \in Nat
  BY HeadTailProperties, HitsType DEF StopTypes
<1>3. /\ Hits({"START"}, Tail(cmdQ)) = Hits({"START"}, cmdQ) - IF Head(cmdQ) = "START" THEN 1 ELSE 0
      /\ Hits({"STOP"}, Tail(cmdQ)) = Hits({"STOP"}, cmdQ) - IF Head(cmdQ) = "STOP" THEN 1 ELSE 0
  BY <1>1, <1>2
<1> QED BY <1>3 DEF Starts, Stops

LEMMA Pushed ==
  ASSUME StopTypes, cmdQ' = <<"STOP">> \o cmdQ
  PROVE  Starts' = Starts /\ Stops' = Stops + 1
<1>1. "STOP" \in Cmd
  BY DEF Cmd
<1>2. /\ Hits({"START"}, <<"STOP">> \o cmdQ) = Hits({"START"}, cmdQ) + IF "STOP" \in {"START"} THEN 1 ELSE 0
      /\ Hits({"STOP"}, <<"STOP">> \o cmdQ) = Hits({"STOP"}, cmdQ) + IF "STOP" \in {"STOP"} THEN 1 ELSE 0
  BY <1>1, HitsPush DEF StopTypes
<1> QED BY <1>2, CommandsAre DEF Starts, Stops

\* Steps that send the data thread something, or nothing, to go on with.
LEMMA GoOn ==
  ASSUME StopTypes,
         \/ cmdQ' = cmdQ
         \/ cmdQ' = Append(cmdQ, "NEXT")
         \/ cmdQ # <<>> /\ Head(cmdQ) = "NEXT" /\ cmdQ' = Tail(cmdQ)
         \/ cmdQ' = cmdQ \o (IF q.input # <<>> THEN <<"NEXT">> ELSE <<>>) \o <<"NEXT">>
  PROVE  Starts' = Starts /\ Stops' = Stops
<1>0. "NEXT" \in Cmd /\ cmdQ \in Seq(Cmd)
  BY DEF Cmd, StopTypes
<1>1. CASE cmdQ' = cmdQ
  BY <1>1 DEF Starts, Stops
<1>2. CASE cmdQ' = Append(cmdQ, "NEXT")
  BY <1>0, <1>2, Sent, CommandsAre
<1>3. CASE cmdQ # <<>> /\ Head(cmdQ) = "NEXT" /\ cmdQ' = Tail(cmdQ)
  BY <1>3, JobTaken, CommandsAre
<1>4. CASE cmdQ' = cmdQ \o (IF q.input # <<>> THEN <<"NEXT">> ELSE <<>>) \o <<"NEXT">>
  <2>1. \A s \in Seq(Cmd) : /\ Hits({"START"}, Append(s, "NEXT")) = Hits({"START"}, s)
                            /\ Hits({"STOP"}, Append(s, "NEXT")) = Hits({"STOP"}, s)
    <3> SUFFICES ASSUME NEW s \in Seq(Cmd)
                 PROVE  /\ Hits({"START"}, Append(s, "NEXT")) = Hits({"START"}, s)
                        /\ Hits({"STOP"}, Append(s, "NEXT")) = Hits({"STOP"}, s)
      OBVIOUS
    <3>1. /\ Hits({"START"}, Append(s, "NEXT")) = Hits({"START"}, s) + IF "NEXT" \in {"START"} THEN 1 ELSE 0
          /\ Hits({"STOP"}, Append(s, "NEXT")) = Hits({"STOP"}, s) + IF "NEXT" \in {"STOP"} THEN 1 ELSE 0
      BY <1>0, HitsAppend
    <3>2. Hits({"START"}, s) \in Nat /\ Hits({"STOP"}, s) \in Nat
      BY HitsType
    <3> QED BY <3>1, <3>2
  <2>2. Append(cmdQ, "NEXT") \in Seq(Cmd) /\ cmdQ \o <<"NEXT">> = Append(cmdQ, "NEXT")
        /\ cmdQ \o <<>> = cmdQ
        /\ Append(cmdQ, "NEXT") \o <<"NEXT">> = Append(Append(cmdQ, "NEXT"), "NEXT")
    <3>1. Append(cmdQ, "NEXT") \in Seq(Cmd)
      BY <1>0, AppendProperties
    <3>2. \A s \in Seq(Cmd) : s \o <<"NEXT">> = Append(s, "NEXT")
      BY <1>0, AppendIsConcat
    <3>3. cmdQ \o <<>> = cmdQ
      BY <1>0, ConcatEmptySeq
    <3> QED BY <1>0, <3>1, <3>2, <3>3
  <2>3. cmdQ' = Append(cmdQ, "NEXT") \/ cmdQ' = Append(Append(cmdQ, "NEXT"), "NEXT")
    BY <1>4, <2>2
  <2> QED BY <1>0, <2>1, <2>2, <2>3 DEF Starts, Stops
<1> QED BY <1>1, <1>2, <1>3, <1>4

LEMMA ProtocolKept ==
  ASSUME Protocol, defer' = defer, sm'.pc = sm.pc, sm'.taking = sm.taking,
         data'.synced = data.synced, data'.pc \in Flushed <=> data.pc \in Flushed,
         Starts' = Starts, Stops' = Stops
  PROVE  Protocol'
BY DEF Protocol, StartAsked, StopAsked, OneAsks

LEMMA ProtocolStep ==
  ASSUME Types, StopTypes, Protocol, [Next]_vars, StopTypes'
  PROVE  Protocol'
<1>0. Starts \in Nat /\ Stops \in Nat /\ Starts' \in Nat /\ Stops' \in Nat
  BY CommandsAre, CommandsAreNext
<1>1. CASE TakePicture
  <2>1. Starts' = Starts /\ Stops' = Stops
    BY <1>1, GoOn DEF TakePicture
  <2>2. data' = data /\ defer' = "send" /\ defer = "idle" /\ sm.pc = "idle"
        /\ sm'.pc = "idle" /\ sm'.taking = TRUE
    BY <1>1 DEF TakePicture, dataVars, Protocol, OneAsks, StopTypes
  <2> QED BY <2>1, <2>2 DEF Protocol, StartAsked, StopAsked, OneAsks
<1>2. CASE CancelPicture \/ SnapshotDone \/ StopJoin
  <2>1. Starts' = Starts /\ Stops' = Stops
    BY <1>2, GoOn DEF CancelPicture, SnapshotDone, StopJoin
  <2>2. /\ UNCHANGED <<data, defer>>
        /\ sm'.taking = sm.taking /\ sm.pc \in {"idle", "join"} /\ sm'.pc \in {"idle", "stop"}
    BY <1>2 DEF CancelPicture, SnapshotDone, StopJoin, Cancel, dataVars, StopTypes
  <2> QED BY <2>1, <2>2 DEF Protocol, StartAsked, StopAsked, OneAsks
<1>3. CASE Stop
  <2>1. Starts' = Starts /\ Stops' = Stops + 1
    BY <1>3, Pushed DEF Stop
  <2>2. data' = data /\ defer' = defer /\ defer = "idle" /\ sm.pc = "stop" /\ sm'.pc = "wait"
    BY <1>3 DEF Stop, dataVars, StopTypes
  <2> QED BY <1>0, <2>1, <2>2 DEF Protocol, StartAsked, StopAsked, OneAsks
<1>4. CASE StopSynced
  <2>1. Starts' = Starts /\ Stops' = Stops
    BY <1>4, GoOn DEF StopSynced
  <2>2. /\ defer' = defer /\ sm.pc = "wait" /\ sm'.pc = "join"
        /\ data.synced /\ ~data'.synced /\ data'.pc = data.pc
    BY <1>4 DEF StopSynced, Synced, StopTypes, Types
  <2> QED BY <1>0, <2>1, <2>2 DEF Protocol, StartAsked, StopAsked, OneAsks
<1>5. CASE Start
  <2>1. Starts' = Starts + 1 /\ Stops' = Stops
    <3>1. "START" \in Cmd
      BY DEF Cmd
    <3> QED BY <1>0, <1>5, <3>1, Sent DEF Start
  <2>2. data' = data /\ sm' = sm /\ defer = "send" /\ defer' = "wait"
    BY <1>5 DEF Start, dataVars
  <2> QED BY <1>0, <2>1, <2>2 DEF Protocol, StartAsked, StopAsked, OneAsks
<1>6. CASE StartSynced
  <2>1. Starts' = Starts /\ Stops' = Stops
    BY <1>6, GoOn DEF StartSynced
  <2>2. /\ sm' = sm /\ defer = "wait" /\ defer' = "idle"
        /\ data.synced /\ ~data'.synced /\ data'.pc = data.pc
    BY <1>6 DEF StartSynced, Synced, Types
  <2> QED BY <1>0, <2>1, <2>2 DEF Protocol, StartAsked, StopAsked, OneAsks
<1>7. CASE DataStart
  <2>1. Starts' = Starts - 1 /\ Stops' = Stops
    BY <1>0, <1>7, JobTaken DEF DataStart
  <2>2. sm' = sm /\ defer' = defer /\ data'.synced /\ data'.pc = data.pc /\ data.pc = "idle"
    BY <1>7 DEF DataStart, Rest, smVars, Types
  <2>3. defer = "wait" /\ ~data.synced /\ Starts' = 0
    <3>0. Starts # 0
      BY <1>0, <2>1
    <3>1. defer = "wait" /\ Starts + (IF data.synced THEN 1 ELSE 0) = 1
      BY <3>0 DEF Protocol, StartAsked
    <3>2. ~data.synced
      BY <1>0, <3>0, <3>1
    <3> QED BY <1>0, <2>1, <3>1, <3>2
  <2>4. sm.pc # "wait" /\ Stops = 0
    BY <2>3 DEF Protocol, OneAsks, StopAsked
  <2>5. StartAsked' /\ StopAsked'
    BY <2>1, <2>2, <2>3, <2>4 DEF StartAsked, StopAsked, Flushed
  <2>6. OneAsks'
    BY <2>2, <2>3 DEF OneAsks, Protocol
  <2> QED BY <2>5, <2>6 DEF Protocol
<1>8. CASE DataStop
  <2>1. Starts' = Starts /\ Stops' = Stops - 1
    BY <1>0, <1>8, JobTaken DEF DataStop
  <2>2. sm' = sm /\ defer' = defer /\ data'.synced = data.synced /\ data'.pc = "ongoing" /\ data.pc = "idle"
    BY <1>8 DEF DataStop, Rest, smVars, Types
  <2>3. sm.pc = "wait" /\ ~data.synced /\ Stops' = 0
    <3>0. Stops # 0
      BY <1>0, <2>1
    <3>1. /\ sm.pc = "wait"
          /\ Stops + (IF data.synced THEN 1 ELSE 0) + (IF data.pc \in Flushed THEN 1 ELSE 0) = 1
      BY <3>0 DEF Protocol, StopAsked
    <3>2. data.pc \notin Flushed
      BY <2>2 DEF Flushed
    <3>3. Stops + (IF data.synced THEN 1 ELSE 0) = 1
      BY <1>0, <3>1, <3>2
    <3>4. ~data.synced
      BY <1>0, <3>0, <3>3
    <3> QED BY <1>0, <2>1, <3>1, <3>3, <3>4
  <2>4. data'.pc \in Flushed /\ ~data'.synced
    BY <2>2, <2>3 DEF Flushed
  <2>5. StartAsked' /\ OneAsks'
    BY <2>1, <2>2 DEF StartAsked, OneAsks, Protocol
  <2>6. StopAsked'
    BY <2>2, <2>3, <2>4 DEF StopAsked
  <2> QED BY <2>5, <2>6 DEF Protocol
<1>9. CASE DataFlush
  <2>1. Starts' = Starts /\ Stops' = Stops
    BY <1>9, GoOn DEF DataFlush
  <2>2. sm' = sm /\ defer' = defer /\ data.pc \in Flushed
    BY <1>9 DEF DataFlush, Rest, smVars
  <2>3. data'.synced <=> data'.pc \notin Flushed
    <3>1. data'.synced <=> data.pc = "input"
      BY <1>9 DEF DataFlush, Types
    <3>2. data'.pc \notin Flushed <=> data.pc = "input"
      BY <1>9, <2>2, DataFlushed DEF Flushed
    <3> QED BY <3>1, <3>2
  <2> QED BY <1>0, <2>1, <2>2, <2>3 DEF Protocol, StartAsked, StopAsked, OneAsks
<1>10. CASE DataNext \/ EncodeStart \/ EncodeFails \/ EncodeMark \/ DataReprocess
  <2>1. Starts' = Starts /\ Stops' = Stops
    BY <1>10, GoOn DEF DataNext, EncodeStart, EncodeFails, EncodeMark, DataReprocess
  <2>2. sm' = sm /\ defer' = defer
    BY <1>10 DEF DataNext, EncodeStart, EncodeFails, EncodeMark, DataReprocess, Rest, smVars
  <2>3. /\ data.pc \notin Flushed /\ data'.pc \notin Flushed
        /\ data'.synced = data.synced
    BY <1>10 DEF DataNext, EncodeStart, EncodeFails, EncodeMark, DataReprocess, Goto, Types, Flushed
  <2> QED BY <2>1, <2>2, <2>3, ProtocolKept
<1>11. CASE processJpegEvt \/ processDataSend \/ PPOutput \/ PPSend \/ Deliver \/ processData \/ PPResult \/ PPQueue
            \/ CbStart \/ CbStop \/ CbNext \/ CbDelivered \/ UNCHANGED vars
            \/ \E f \in Frame : EncodeEnds(f)
  <2>1. Starts' = Starts /\ Stops' = Stops
    <3>1. \/ cmdQ' = cmdQ
          \/ cmdQ' = Append(cmdQ, "NEXT")
          \/ cmdQ' = cmdQ \o (IF q.input # <<>> THEN <<"NEXT">> ELSE <<>>) \o <<"NEXT">>
      BY <1>11 DEF processJpegEvt, ToldToGoOn, processDataSend, PPOutput, PPSend, Deliver, processData, PPResult, PPQueue,
             CbStart, CbStop, CbNext, CbDelivered, CbRest, EncodeEnds, vars
    <3> QED BY <3>1, GoOn
  <2>2. /\ data' = data /\ defer' = defer
        /\ sm'.pc = sm.pc /\ sm'.taking = sm.taking
    BY <1>11 DEF processJpegEvt, processDataSend, PPOutput, PPSend, Deliver, processData, PPResult, PPQueue,
           CbStart, CbStop, CbNext, CbDelivered, CbRest, PPRest, EncodeEnds, vars, dataVars, smVars, StopTypes
  <2> QED BY <2>1, <2>2, ProtocolKept
<1> QED BY <1>1, <1>2, <1>3, <1>4, <1>5, <1>6, <1>7, <1>8, <1>9, <1>10, <1>11
        DEF Next, Events, DeferredWork, Channel, Data, Reprocess, Callback

-----------------------------------------------------------------------------
(* What the encoder has, and what it has reported.                           *)

LEMMA ReleasedGrows ==
  ASSUME Types, [Next]_vars
  PROVE  \A f \in Frame : released[f] # 0 => released'[f] # 0
<1>1. \/ released' = released
      \/ \E F : Release(F)
  <2>1. CASE UNCHANGED vars
    BY <2>1 DEF vars
  <2>2. CASE processJpegEvt
    BY <2>2 DEF processJpegEvt
  <2>3. CASE processData \/ DataStop \/ DataFlush \/ EncodeFails \/ PPQueue
    BY <2>3 DEF processData, DataStop, DataFlush, EncodeFails, PPQueue
  <2>4. CASE DataReprocess
    BY <2>4 DEF DataReprocess, doReprocess
  <2>5. CASE \/ TakePicture \/ CancelPicture \/ Deliver \/ SnapshotDone \/ Stop \/ StopSynced
             \/ StopJoin \/ Start \/ StartSynced \/ processDataSend \/ DataStart \/ EncodeStart
             \/ PPOutput \/ PPSend \/ CbStart \/ CbStop \/ CbNext \/ CbDelivered \/ DataNext \/ EncodeMark
             \/ PPResult \/ \E f \in Frame : EncodeEnds(f)
    BY <2>5 DEF TakePicture, CancelPicture, Deliver, SnapshotDone, Stop, StopSynced, StopJoin,
         Start, StartSynced, processDataSend, DataStart, EncodeStart, PPOutput, PPSend, CbStart, CbStop, CbNext,
         CbDelivered, EncodeEnds, DataNext, EncodeMark, PPResult, CbRest
  <2> QED BY <2>1, <2>2, <2>3, <2>4, <2>5 DEF Next, Events, DeferredWork, Channel, Data, Reprocess, Callback
<1>2. CASE released' = released
  BY <1>2
<1>3. ASSUME NEW F, Release(F) PROVE \A f \in Frame : released[f] # 0 => released'[f] # 0
  BY <1>3, ReleaseIs DEF Types
<1> QED BY <1>1, <1>2, <1>3

LEMMA EventFrames ==
  ASSUME StopTypes
  PROVE  \A f \in Range(smQ) \ {0} : f \in Frame
BY RangeIndex DEF StopTypes

LEMMA CodedKept ==
  ASSUME StopTypes, Coded, Reported, encoding' \subseteq encoding,
         Range(smQ') \ {0} \subseteq Range(smQ),
         \A f \in Frame : released[f] # 0 => released'[f] # 0,
         \A f \in Frame : IsKnown(f) \/ Marking(f) => (IsKnown(f) \/ Marking(f))'
  PROVE  Coded' /\ Reported'
<1>1. encoding \subseteq Frame /\ \A f \in Range(smQ) \ {0} : f \in Frame
  BY EventFrames DEF StopTypes
<1>2. Coded'
  BY <1>1 DEF Coded
<1>3. Reported'
  BY <1>1 DEF Reported
<1> QED BY <1>2, <1>3

LEMMA EventTaken ==
  ASSUME StopTypes, smQ # <<>>, smQ' = Tail(smQ)
  PROVE  Range(smQ') \subseteq Range(smQ) /\ Head(smQ) \in Range(smQ)
BY RangeHeadTail DEF StopTypes

LEMMA KnownKept ==
  ASSUME q'.coding = q.coding
  PROVE  \A f \in Frame : IsKnown(f) => IsKnown(f)'
BY DEF IsKnown, Known

LEMMA CodingIs ==
  ASSUME Types
  PROVE  /\ q.coding \in Seq(Ongoing) /\ DOMAIN q.coding = 1..Len(q.coding)
         /\ \A i \in DOMAIN q.coding : q.coding[i] \in Ongoing /\ q.coding[i].frame \in Frame
         /\ \A f \in Frame : IsKnown(f) <=> \E i \in DOMAIN q.coding : q.coding[i] = Known(f)
<1>1. q.coding \in Seq(Ongoing) /\ DOMAIN q.coding = 1..Len(q.coding)
  BY QueueTypes, LenProperties DEF Types
<1>2. \A i \in DOMAIN q.coding : q.coding[i] \in Ongoing
  BY <1>1, ElementOfSeq
<1>3. \A f \in Frame : IsKnown(f) <=> \E i \in DOMAIN q.coding : q.coding[i] = Known(f)
  BY DEF IsKnown, Range
<1> QED BY <1>1, <1>2, <1>3 DEF Ongoing

LEMMA CodingIsNext ==
  ASSUME Types'
  PROVE  \A f \in Frame : IsKnown(f)' <=> \E i \in DOMAIN q'.coding : q'.coding[i] = Known(f)
BY DEF IsKnown, Range, Known

\* A frame is among the ongoing ones once.
LEMMA OngoingOnce ==
  ASSUME FInv, NEW f \in Frame, NEW i \in DOMAIN q.coding, q.coding[i].frame = f
  PROVE  /\ \A k \in DOMAIN q.coding : q.coding[k].frame = f => k = i
         /\ released[f] = 0
<1> DEFINE H == {k \in DOMAIN q.coding : q.coding[k] \in OngoingOf(f)}
<1>1. q.coding \in Seq(Ongoing) /\ \A k \in DOMAIN q.coding : q.coding[k] \in Ongoing
  BY CodingIs DEF FInv
<1>2. i \in H
  BY <1>1 DEF OngoingOf
<1>3. IsFiniteSet(H) /\ Cardinality(H) = NCoding(f)
  <2>1. IsFiniteSet(H)
    BY <1>1, HitsType
  <2> QED BY <2>1 DEF NCoding, Hits
<1>4. NCoding(f) \in 0..1
  BY OnceAtMost
<1>5. NCoding(f) # 0
  BY <1>1, <1>2, HitsType DEF NCoding
<1>6. H = {i}
  <2> HIDE DEF H
  <2>1. IsFiniteSet({i}) /\ Cardinality({i}) = 1
    BY FS_Singleton
  <2> QED BY <1>2, <1>3, <1>4, <1>5, <2>1, FS_Subset
<1>7. \A k \in DOMAIN q.coding : q.coding[k].frame = f => k = i
  BY <1>1, <1>6 DEF OngoingOf
<1>8. released[f] = 0
  <2> DEFINE a == NInput(f)
             b == NOngoing(f)
             c == NCoding(f)
             d == NJpeg(f)
             h == Having(f)
             r == released[f]
  <2>1. a \in Nat /\ b \in Nat /\ c \in Nat /\ d \in Nat /\ h \in Nat /\ r \in Nat
    BY PartsAre DEF Nats
  <2>2. a + b + c + d + h + r \in 0..1 /\ c = 1
    BY <1>4, <1>5, PartsAre DEF Parts
  <2> HIDE DEF a, b, c, d, h, r
  <2>3. r = 0
    BY <2>1, <2>2
  <2> QED BY <2>3 DEF r
<1> QED BY <1>7, <1>8

LEMMA JpegEvtCoded ==
  ASSUME FInv, StopTypes, Coded, Reported, processJpegEvt
  PROVE  Coded' /\ Reported'
<1> DEFINE g == Head(smQ)
           I == {i \in DOMAIN q.coding : q.coding[i] # Known(g)}
           R == IF Contains(q.coding, Known(g)) THEN {g} ELSE {}
<1>1. UNCHANGED <<data, encoding>> /\ g # 0 /\ smQ # <<>> /\ smQ' = Tail(smQ)
  BY DEF processJpegEvt, dataVars
<1>2. Range(smQ') \subseteq Range(smQ) /\ g \in Range(smQ)
  BY <1>1, EventTaken
<1>3. g \in Frame /\ g \notin encoding /\ (IsKnown(g) \/ Marking(g) \/ released[g] # 0)
  BY <1>1, <1>2, EventFrames DEF Reported
<1>4. /\ \A f \in Frame : released[f] # 0 => released'[f] # 0
      /\ \A f \in Frame : Marking(f)' = Marking(f)
  <2>1. [Next]_vars
    BY DEF Next, Events
  <2>2. \A f \in Frame : released[f] # 0 => released'[f] # 0
    BY <2>1, ReleasedGrows DEF FInv
  <2>3. \A f \in Frame : Marking(f)' = Marking(f)
    BY <1>1 DEF Marking
  <2> QED BY <2>2, <2>3
<1>5. CASE ~sm.taking
  <2>1. q' = q
    BY <1>5 DEF processJpegEvt
  <2>2. \A f \in Frame : IsKnown(f) => IsKnown(f)'
    BY <2>1, KnownKept
  <2> QED BY <1>1, <1>2, <1>4, <2>2, CodedKept
<1>6. CASE sm.taking
  <2>1. q' = [q EXCEPT !.coding = At(q.coding, I)] /\ Release(R)
    BY <1>6 DEF processJpegEvt
  <2>2. q'.coding = At(q.coding, I)
    BY <2>1, QueueSet DEF FInv, Types
  <2>3. q.coding \in Seq(Ongoing) /\ I \in SUBSET (DOMAIN q.coding)
    BY CodingIs DEF FInv
  <2>4. ASSUME NEW f \in Frame, f # g, IsKnown(f) PROVE IsKnown(f)'
    <3>1. PICK i \in DOMAIN q.coding : q.coding[i] = Known(f)
      BY <2>4, CodingIs DEF FInv
    <3>2. i \in I
      BY <2>4, <3>1 DEF Known
    <3>3. Known(f) \in Range(At(q.coding, I))
      <4> HIDE DEF I
      <4>1. Range(At(q.coding, I)) = {q.coding[k] : k \in I}
        BY <2>3, AtRange
      <4> QED BY <3>1, <3>2, <4>1
    <3> QED BY <2>2, <3>3 DEF IsKnown, Known
  <2>5. Coded'
    <3>1. \A f \in encoding : f \in Frame /\ f # g
      BY <1>3 DEF StopTypes
    <3> QED BY <1>1, <1>4, <2>4, <3>1 DEF Coded
  <2>6. IsKnown(g) => released'[g] # 0
    <3> SUFFICES ASSUME IsKnown(g) PROVE released'[g] # 0
      OBVIOUS
    <3>1. PICK i \in DOMAIN q.coding : q.coding[i] = Known(g)
      BY <1>3, CodingIs DEF FInv
    <3>2. Contains(q.coding, Known(g))
      BY <3>1, CodingIs DEF FInv, Contains
    <3>3. released'[g] = released[g] + 1 /\ released[g] \in Nat
      BY <1>3, <2>1, <3>2 DEF FInv, Types, Release
    <3> QED BY <3>3
  <2>7. Reported'
    <3>1. \A f \in Range(smQ') \ {0} : f \in Frame /\ f \in Range(smQ) \ {0}
      BY <1>2, EventFrames
    <3> QED BY <1>1, <1>3, <1>4, <2>4, <2>6, <3>1 DEF Reported
  <2> QED BY <2>5, <2>7
<1> QED BY <1>5, <1>6

\* Who works on a queue other than that of the ongoing encodings.
LEMMA CodingStays ==
  ASSUME Types,
         \/ TakePicture \/ CancelPicture \/ Deliver \/ Stop \/ StopSynced \/ StopJoin
         \/ Start \/ StartSynced \/ processData \/ processDataSend \/ DataStart \/ DataFlush
         \/ DataReprocess \/ PPResult \/ PPQueue \/ PPOutput \/ PPSend \/ CbStart \/ CbStop \/ CbDelivered
         \/ UNCHANGED vars
  PROVE  q'.coding = q.coding
<1>1. CASE processData \/ DataReprocess \/ PPResult \/ PPQueue
  BY <1>1 DEF processData, DataReprocess, doReprocess, PPResult, PPQueue, Place, Types, Queues
<1>2. CASE DataFlush
  BY <1>2 DEF DataFlush, Flushed, Types, Queues
<1>3. CASE ~(processData \/ DataReprocess \/ PPResult \/ PPQueue \/ DataFlush)
  <2>1. q' = q
    BY <1>3 DEF TakePicture, CancelPicture, Deliver, Stop, StopSynced, StopJoin, Start,
         StartSynced, processDataSend, DataStart, PPOutput, PPSend, CbStart, CbStop, CbDelivered, vars, CbRest
  <2> QED BY <2>1
<1> QED BY <1>1, <1>2, <1>3

LEMMA StopAborts ==
  ASSUME Coded, DataStop
  PROVE  encoding' = {}
<1>1. encoding' = encoding \ {j.frame : j \in {k \in Range(q.coding) : k.known}} /\ data.pc = "idle"
  BY DEF DataStop
<1>2. ASSUME NEW f \in encoding PROVE f \notin encoding'
  <2>1. Known(f) \in Range(q.coding)
    BY <1>1 DEF Coded, Marking, IsKnown
  <2>2. f = Known(f).frame /\ Known(f).known
    BY DEF Known
  <2> QED BY <1>1, <2>1, <2>2
<1> QED BY <1>1, <1>2

LEMMA CodedStep ==
  ASSUME FInv, FInv', StopTypes, Coded, Reported, [Next]_vars
  PROVE  Coded' /\ Reported'
<1>0. \A f \in Frame : released[f] # 0 => released'[f] # 0
  BY ReleasedGrows DEF FInv
<1>1. CASE processJpegEvt
  BY <1>1, JpegEvtCoded
<1>2. CASE DataStop
  <2>1. Release(Frames(q.coding)) /\ smQ' = smQ /\ data.pc = "idle"
    BY <1>2 DEF DataStop, Rest, smVars
  <2>3. encoding' = {}
    BY <1>2, StopAborts
  <2>4. ASSUME NEW f \in Frame, IsKnown(f) PROVE released'[f] # 0
    <3>1. PICK i \in DOMAIN q.coding : q.coding[i] = Known(f)
      BY <2>4, CodingIs DEF FInv
    <3>2. f \in Frames(q.coding)
      BY <3>1 DEF Frames, Known
    <3>3. released'[f] = released[f] + 1 /\ released[f] \in Nat
      BY <2>1, <3>2, ReleaseIs DEF FInv, Types
    <3> QED BY <3>3
  <2>5. Coded'
    BY <2>3 DEF Coded
  <2>6. Reported'
    <3>1. \A f \in Frame : ~Marking(f)
      BY <2>1 DEF Marking
    <3> QED BY <1>0, <2>1, <2>3, <2>4, <3>1, EventFrames DEF Reported
  <2> QED BY <2>5, <2>6
<1>3. CASE EncodeStart
  <2> DEFINE g == data.job
             n == Len(q.coding)
  <2>1. /\ encoding' = encoding \cup {g} /\ UNCHANGED <<q, smQ, released>> /\ data.pc = "encode"
        /\ data'.pc = "mark" /\ data'.job = g
    BY <1>3 DEF EncodeStart, Goto, Rest, smVars, FInv, Types
  <2>2. g \in Frame /\ n \in DOMAIN q.coding /\ q.coding[n] = [frame |-> g, known |-> FALSE]
    BY <2>1, JobIsFrame
  <2>3. released[g] = 0 /\ \A k \in DOMAIN q.coding : q.coding[k].frame = g => k = n
    <3>1. q.coding[n].frame = g
      BY <2>2
    <3> HIDE DEF n, g
    <3> QED BY <2>2, <3>1, OngoingOnce
  <2>4. ~IsKnown(g)
    <3> SUFFICES ASSUME IsKnown(g) PROVE FALSE
      OBVIOUS
    <3>1. PICK i \in DOMAIN q.coding : q.coding[i] = Known(g)
      BY <2>2, CodingIs DEF FInv
    <3>2. i = n
      BY <2>3, <3>1 DEF Known
    <3> QED BY <2>2, <3>1, <3>2 DEF Known
  <2>5. g \notin Range(smQ)
    <3>1. ~Marking(g)
      BY <2>1 DEF Marking
    <3>2. g # 0
      BY <2>2, FrameIs
    <3> QED BY <2>3, <2>4, <3>1, <3>2 DEF Reported
  <2>6. \A f \in Frame : (IsKnown(f) => IsKnown(f)') /\ ~Marking(f)
    BY <2>1, KnownKept DEF Marking
  <2>7. Coded'
    <3>1. Marking(g)'
      BY <2>1 DEF Marking
    <3>2. \A f \in encoding : IsKnown(f)'
      BY <2>6 DEF Coded, StopTypes
    <3> QED BY <2>1, <3>1, <3>2 DEF Coded
  <2>8. Reported'
    <3>1. \A f \in Range(smQ) \ {0} : f \in Frame /\ f # g
      BY <2>5, EventFrames
    <3> QED BY <2>1, <2>6, <3>1 DEF Reported
  <2> QED BY <2>7, <2>8
<1>4. CASE \E g \in Frame : EncodeEnds(g)
  <2>1. PICK g \in Frame : EncodeEnds(g)
    BY <1>4
  <2>2. /\ g \in encoding /\ encoding' = encoding \ {g} /\ smQ' = Append(smQ, g)
        /\ UNCHANGED <<q, data, released>>
    BY <2>1 DEF EncodeEnds
  <2>3. Range(smQ') = Range(smQ) \cup {g}
    BY <2>2, RangeAppend DEF StopTypes
  <2>4. \A f \in Frame : (IsKnown(f) => IsKnown(f)') /\ (Marking(f) => Marking(f)')
    BY <2>2, KnownKept DEF Marking
  <2>5. Coded'
    BY <2>2, <2>4 DEF Coded, StopTypes
  <2>6. Reported'
    BY <2>2, <2>3, <2>4, EventFrames DEF Reported, Coded
  <2> QED BY <2>5, <2>6
<1>5. CASE DataNext
  <2>1. UNCHANGED <<encoding, smQ>> /\ data.pc = "idle"
    BY <1>5 DEF DataNext, Rest, smVars
  <2>2. ASSUME NEW f \in Frame, IsKnown(f) PROVE IsKnown(f)'
    <3>1. CASE q'.coding = q.coding
      BY <2>2, <3>1, KnownKept
    <3>2. CASE q'.coding # q.coding
      <4> DEFINE x == [frame |-> Head(q.jpeg), known |-> FALSE]
      <4>1. q.jpeg # <<>> /\ q'.coding = Append(q.coding, x)
        BY <1>5, <3>2 DEF DataNext, FInv, Types, Queues
      <4>2. x \in Ongoing
        BY <4>1, QueueTypes, HeadTailProperties DEF FInv, Types, Ongoing
      <4> HIDE DEF x
      <4>3. Range(q'.coding) = Range(q.coding) \cup {x}
        BY <4>1, <4>2, CodingIs, RangeAppend DEF FInv
      <4> QED BY <2>2, <4>3 DEF IsKnown, Known
    <3> QED BY <3>1, <3>2
  <2>3. \A f \in Frame : ~Marking(f)
    BY <2>1 DEF Marking
  <2> QED BY <1>0, <2>1, <2>2, <2>3, CodedKept
<1>6. CASE EncodeFails
  <2>1. UNCHANGED <<encoding, smQ>> /\ data.pc = "encode" /\ q' = [q EXCEPT !.coding = Front(q.coding)]
    BY <1>6 DEF EncodeFails, Rest, smVars
  <2>2. ASSUME NEW f \in Frame, IsKnown(f) PROVE IsKnown(f)'
    <3> DEFINE c == SubSeq(q.coding, 1, Len(q.coding) - 1)
               n == Len(q.coding)
    <3>1. PICK i \in DOMAIN q.coding : q.coding[i] = Known(f)
      BY <2>2, CodingIs DEF FInv
    <3>2. q.coding[n] # Known(f) /\ q.coding # <<>>
      BY <2>1, JobIsFrame DEF Known
    <3>3. q.coding \in Seq(Ongoing) /\ DOMAIN q.coding = 1..n /\ n \in Nat
      BY CodingIs, LenProperties DEF FInv
    <3>4. i \in 1..(n - 1)
      BY <3>1, <3>2, <3>3
    <3>5. c \in Seq(Ongoing) /\ Len(c) = n - 1 /\ c[i] = q.coding[i]
      BY <3>2, <3>3, <3>4, FrontIs
    <3>6. q'.coding = c
      BY <2>1, QueueSet DEF FInv, Types, Front
    <3> HIDE DEF c, n
    <3>7. i \in DOMAIN c
      BY <3>4, <3>5, LenProperties
    <3> QED BY <3>1, <3>5, <3>6, <3>7, CodingIsNext DEF FInv
  <2>3. \A f \in Frame : ~Marking(f)
    BY <2>1 DEF Marking
  <2> QED BY <1>0, <2>1, <2>2, <2>3, CodedKept
<1>7. CASE EncodeMark
  <2> DEFINE g == data.job
             c == [i \in DOMAIN q.coding |-> IF q.coding[i].frame = g THEN Known(g) ELSE q.coding[i]]
  <2>1. UNCHANGED <<encoding, smQ>> /\ data.pc = "mark" /\ q' = [q EXCEPT !.coding = c]
    BY <1>7 DEF EncodeMark, Rest, smVars
  <2>2. q'.coding = c
    BY <2>1, QueueSet DEF FInv, Types
  <2>3. ASSUME NEW f \in Frame, IsKnown(f) \/ Marking(f) PROVE IsKnown(f)'
    <3>1. PICK i \in DOMAIN q.coding : q.coding[i] = Known(f) \/ (f = g /\ q.coding[i].frame = g)
      <4>1. CASE IsKnown(f)
        BY <4>1, CodingIs DEF FInv
      <4>2. CASE Marking(f)
        BY <2>1, <4>2, JobIsFrame DEF Marking
      <4> QED BY <2>3, <4>1, <4>2
    <3>2. i \in DOMAIN c /\ c[i] = Known(f)
      <4>1. i \in DOMAIN c /\ c[i] = IF q.coding[i].frame = g THEN Known(g) ELSE q.coding[i]
        OBVIOUS
      <4>2. Known(f).frame = f
        BY DEF Known
      <4> HIDE DEF c, g
      <4>3. CASE q.coding[i] = Known(f)
        BY <4>1, <4>2, <4>3
      <4>4. CASE f = g /\ q.coding[i].frame = g
        BY <4>1, <4>4
      <4> QED BY <3>1, <4>1, <4>3, <4>4
    <3> HIDE DEF c
    <3> QED BY <2>2, <3>2, CodingIsNext DEF FInv
  <2> QED BY <1>0, <2>1, <2>3, CodedKept
<1>8. CASE SnapshotDone \/ CbNext
  <2>1. Range(smQ') \ {0} \subseteq Range(smQ)
    <3>1. CASE SnapshotDone
      BY <3>1, EventTaken DEF SnapshotDone
    <3>2. CASE CbNext
      <4>1. smQ' = smQ \/ smQ' = Append(smQ, 0)
        BY <3>2 DEF CbNext
      <4>2. Range(Append(smQ, 0)) = Range(smQ) \cup {0}
        BY RangeAppend DEF StopTypes
      <4> QED BY <4>1, <4>2
    <3> QED BY <1>8, <3>1, <3>2
  <2>2. UNCHANGED <<encoding, q, data>>
    BY <1>8 DEF SnapshotDone, CbNext, CbRest, dataVars
  <2>3. \A f \in Frame : (IsKnown(f) => IsKnown(f)') /\ (Marking(f) => Marking(f)')
    BY <2>2, KnownKept DEF Marking
  <2> QED BY <1>0, <2>1, <2>2, <2>3, CodedKept
<1>9. CASE \/ TakePicture \/ CancelPicture \/ Deliver \/ Stop \/ StopSynced \/ StopJoin
           \/ Start \/ StartSynced \/ processData \/ processDataSend \/ DataStart \/ DataFlush
           \/ DataReprocess \/ PPResult \/ PPQueue \/ PPOutput \/ PPSend \/ CbStart \/ CbStop \/ CbDelivered
           \/ UNCHANGED vars
  <2>1. UNCHANGED <<encoding, smQ>>
    BY <1>9 DEF TakePicture, CancelPicture, Deliver, Stop, StopSynced, StopJoin, Start,
         StartSynced, processData, processDataSend, DataStart, DataFlush, DataReprocess, PPResult,
         PPQueue, PPOutput, PPSend, CbStart, CbStop, CbDelivered, vars, CbRest, PPRest, Rest, dataVars, smVars
  <2>2. q'.coding = q.coding
    BY SMTT(40), <1>9, CodingStays DEF FInv
  <2>3. data.pc = "mark" => data'.pc = "mark" /\ data'.job = data.job
    BY <1>9 DEF TakePicture, CancelPicture, Deliver, Stop, StopSynced, StopJoin, Start,
         StartSynced, processData, processDataSend, DataStart, DataFlush, DataReprocess, PPResult,
         PPQueue, PPOutput, PPSend, CbStart, CbStop, CbDelivered, vars, CbRest, PPRest, dataVars,
         Synced, Flushed, FInv, Types
  <2>4. \A f \in Frame : (IsKnown(f) => IsKnown(f)') /\ (Marking(f) => Marking(f)')
    BY <2>2, <2>3, KnownKept DEF Marking
  <2> QED BY <1>0, <2>1, <2>4, CodedKept
<1> QED BY <1>1, <1>2, <1>3, <1>4, <1>5, <1>6, <1>7, <1>8, <1>9
        DEF Next, Events, DeferredWork, Channel, Data, Reprocess, Callback

-----------------------------------------------------------------------------
(* stop() ends with everything at rest.                                      *)

\* The event of an encoding puts nothing into the queue of those ongoing.
LEMMA NoneOngoing ==
  ASSUME Types, processJpegEvt, q.coding = <<>>
  PROVE  q' = q
<1>1. CASE ~sm.taking
  BY <1>1 DEF processJpegEvt
<1>2. CASE sm.taking
  <2> DEFINE I == {i \in DOMAIN q.coding : q.coding[i] # Known(Head(smQ))}
  <2>1. q' = [q EXCEPT !.coding = At(q.coding, I)]
    BY <1>2 DEF processJpegEvt
  <2>2. I = {} /\ q.coding \in Seq(Ongoing)
    BY CodingIs
  <2>3. At(q.coding, I) = <<>>
    BY <2>2, AtEmpty
  <2> QED BY <2>1, <2>3 DEF Types, Queues
<1> QED BY <1>1, <1>2

LEMMA FlushingStep ==
  ASSUME FInv, StopTypes, Coded, Flushing, [Next]_vars
  PROVE  Flushing'
<1>0. data.pc \in DataPc /\ DataPc = {"idle", "encode", "mark", "reprocess"} \cup Flushed
  BY DEF FInv, Types, DataPc
<1>1. CASE DataStop
  <2>1. data'.pc = "ongoing" /\ ~data'.active /\ q'.coding = <<>>
    BY <1>1 DEF DataStop, FInv, Types, Queues
  <2>2. encoding' = {}
    BY <1>1, StopAborts
  <2> QED BY <2>1, <2>2 DEF Flushing
<1>2. CASE DataFlush
  <2>1. /\ data.pc \in Flushed /\ encoding' = encoding
        /\ on' = on \ {data.pc} /\ q' = [q EXCEPT ![data.pc] = <<>>]
    BY <1>2 DEF DataFlush
  <2>2. ~data'.active
    BY <1>2, <2>1 DEF DataFlush, Flushing, FInv, Types
  <2>3. CASE data.pc = "ongoing"
    <3>1. data'.pc = "jpeg" /\ q'.ongoing = <<>> /\ q'.coding = q.coding
      BY <1>2, <2>1, <2>3, DataFlushed DEF FInv, Types, Queues
    <3> QED BY <2>1, <2>2, <2>3, <3>1 DEF Flushing
  <2>4. CASE data.pc = "jpeg"
    <3>1. data'.pc = "input" /\ q'.jpeg = <<>> /\ q'.coding = q.coding /\ q'.ongoing = q.ongoing
      BY <1>2, <2>1, <2>4, DataFlushed DEF FInv, Types, Queues
    <3> QED BY <2>1, <2>2, <2>4, <3>1 DEF Flushing
  <2>5. CASE data.pc = "input"
    <3>1. data'.pc = "idle"
      BY <1>2, <2>5, DataFlushed DEF FInv
    <3> QED BY <3>1 DEF Flushing, Flushed
  <2> QED BY <2>1, <2>3, <2>4, <2>5 DEF Flushed
<1>3. CASE DataStart \/ DataNext \/ EncodeStart \/ EncodeFails \/ EncodeMark \/ DataReprocess
  <2>1. data'.pc \in {"idle", "encode", "mark", "reprocess"}
    BY <1>3 DEF DataStart, DataNext, EncodeStart, EncodeFails, EncodeMark, DataReprocess, Goto, FInv, Types
  <2> QED BY <2>1 DEF Flushing, Flushed
<1>4. CASE processData
  <2>1. UNCHANGED <<data, on, encoding>>
    BY <1>4 DEF processData, dataVars
  <2>2. q'.coding = q.coding /\ q'.ongoing = q.ongoing /\ ("jpeg" \notin on => q'.jpeg = q.jpeg)
    BY <1>4 DEF processData, FInv, Types, Queues
  <2> QED BY <2>1, <2>2 DEF Flushing
<1>5. CASE PPQueue
  <2>1. UNCHANGED <<data, on, encoding>>
    BY <1>5 DEF PPQueue, PPRest, dataVars
  <2>2. q'.coding = q.coding /\ q'.ongoing = q.ongoing /\ ("jpeg" \notin on => q'.jpeg = q.jpeg)
    BY <1>5 DEF PPQueue, Place, FInv, Types, Queues
  <2> QED BY <2>1, <2>2 DEF Flushing
<1>6. CASE PPResult
  <2>1. UNCHANGED <<data, on, encoding>>
    BY <1>6 DEF PPResult, PPRest, dataVars
  <2>2. q'.coding = q.coding /\ q'.jpeg = q.jpeg /\ (q.ongoing = <<>> => q'.ongoing = q.ongoing)
    BY <1>6 DEF PPResult, FInv, Types, Queues
  <2> QED BY <2>1, <2>2 DEF Flushing
<1>7. CASE processJpegEvt
  <2>1. UNCHANGED <<data, on, encoding>>
    BY <1>7 DEF processJpegEvt, dataVars
  <2>2. q.coding = <<>> => q' = q
    BY <1>7, NoneOngoing DEF FInv
  <2> QED BY <2>1, <2>2 DEF Flushing
<1>8. CASE \E f \in Frame : EncodeEnds(f)
  <2>1. UNCHANGED <<data, on, q>> /\ encoding' \subseteq encoding
    BY <1>8 DEF EncodeEnds
  <2> QED BY <2>1 DEF Flushing
<1>9. CASE \/ TakePicture \/ CancelPicture \/ Deliver \/ SnapshotDone \/ Stop \/ StopSynced \/ StopJoin
           \/ Start \/ StartSynced \/ processDataSend \/ PPOutput \/ PPSend \/ CbStart \/ CbStop \/ CbNext
           \/ CbDelivered \/ UNCHANGED vars
  <2>1. UNCHANGED <<q, on, encoding>>
    BY <1>9 DEF TakePicture, CancelPicture, Deliver, SnapshotDone, Stop, StopSynced, StopJoin, Start,
         StartSynced, processDataSend, PPOutput, PPSend, CbStart, CbStop, CbNext, CbDelivered, vars, CbRest, PPRest, dataVars
  <2>2. data'.pc = data.pc /\ data'.active = data.active
    BY <1>9 DEF TakePicture, CancelPicture, Deliver, SnapshotDone, Stop, StopSynced, StopJoin, Start,
         StartSynced, processDataSend, PPOutput, PPSend, CbStart, CbStop, CbNext, CbDelivered, vars, CbRest, PPRest,
         dataVars, Synced, FInv, Types
  <2> QED BY <2>1, <2>2 DEF Flushing
<1> QED BY <1>1, <1>2, <1>3, <1>4, <1>5, <1>6, <1>7, <1>8, <1>9
        DEF Next, Events, DeferredWork, Channel, Data, Reprocess, Callback

\* Nothing but a start wakes what is at rest.
LEMMA RestStays ==
  ASSUME Types, StopTypes, AtRest, [Next]_vars, Starts = 0, Stops = 0,
         on = {} \/ (chan.pc # "got" /\ pp.pc = "idle")
  PROVE  /\ AtRest' /\ on' = on
         /\ ~(DataStart \/ DataReprocess) /\ (data'.synced => data.synced)
<1>0. cmdQ # <<>> => Head(cmdQ) # "START" /\ Head(cmdQ) # "STOP"
  <2> SUFFICES ASSUME cmdQ # <<>> PROVE Head(cmdQ) # "START" /\ Head(cmdQ) # "STOP"
    OBVIOUS
  <2>1. cmdQ \in Seq(Cmd) /\ 1 \in DOMAIN cmdQ /\ Head(cmdQ) = cmdQ[1]
    <3>1. cmdQ \in Seq(Cmd)
      BY DEF StopTypes
    <3> QED BY <3>1, LenProperties, EmptySeq, HeadTailProperties
  <2>2. \A i \in DOMAIN cmdQ : cmdQ[i] \notin {"START"} /\ cmdQ[i] \notin {"STOP"}
    BY <2>1, HitsType DEF Starts, Stops
  <2> QED BY <2>1, <2>2
<1>1. data.pc = "idle" /\ ~data.active /\ q.coding = <<>> /\ q.ongoing = <<>>
  BY DEF AtRest
<1>2. ~(DataStart \/ DataStop \/ DataFlush \/ EncodeStart \/ EncodeFails \/ EncodeMark \/ DataReprocess)
  BY <1>0, <1>1 DEF DataStart, DataStop, DataFlush, EncodeStart, EncodeFails, EncodeMark, DataReprocess, Flushed
<1>3. CASE DataNext
  BY <1>1, <1>2, <1>3 DEF DataNext, AtRest, Rest
<1>4. CASE processData
  <2>1. on = {} /\ q' = q /\ UNCHANGED <<data, on, encoding>>
    BY <1>4 DEF processData, dataVars
  <2> QED BY <1>2, <2>1 DEF AtRest
<1>5. CASE PPQueue
  <2>1. on = {} /\ q' = q /\ UNCHANGED <<data, on, encoding>>
    BY <1>5 DEF PPQueue, PPRest, dataVars
  <2> QED BY <1>2, <2>1 DEF AtRest
<1>6. CASE PPResult
  BY <1>1, <1>2, <1>6 DEF PPResult, PPRest, dataVars, AtRest
<1>7. CASE processJpegEvt
  <2>1. q' = q /\ UNCHANGED <<data, on, encoding>>
    BY <1>1, <1>7, NoneOngoing DEF processJpegEvt, dataVars
  <2> QED BY <1>2, <2>1 DEF AtRest
<1>8. CASE \E f \in Frame : EncodeEnds(f)
  BY <1>8 DEF EncodeEnds, AtRest
<1>9. CASE \/ TakePicture \/ CancelPicture \/ Deliver \/ SnapshotDone \/ Stop \/ StopSynced \/ StopJoin
           \/ Start \/ StartSynced \/ processDataSend \/ PPOutput \/ PPSend \/ CbStart \/ CbStop \/ CbNext
           \/ CbDelivered \/ UNCHANGED vars
  <2>1. UNCHANGED <<q, on, encoding>>
    BY <1>9 DEF TakePicture, CancelPicture, Deliver, SnapshotDone, Stop, StopSynced, StopJoin, Start,
         StartSynced, processDataSend, PPOutput, PPSend, CbStart, CbStop, CbNext, CbDelivered, vars, CbRest, PPRest, dataVars
  <2>2. data'.pc = data.pc /\ data'.active = data.active /\ (data'.synced => data.synced)
    BY <1>9 DEF TakePicture, CancelPicture, Deliver, SnapshotDone, Stop, StopSynced, StopJoin, Start,
         StartSynced, processDataSend, PPOutput, PPSend, CbStart, CbStop, CbNext, CbDelivered, vars, CbRest, PPRest,
         dataVars, Synced, Types
  <2> QED BY <1>2, <2>1, <2>2 DEF AtRest
<1> QED BY <1>2, <1>3, <1>4, <1>5, <1>6, <1>7, <1>8, <1>9
        DEF Next, Events, DeferredWork, Channel, Data, Reprocess, Callback

LEMMA NobodyAsks ==
  ASSUME StopTypes, Protocol
  PROVE  /\ sm.pc \in {"wait", "join"} => Starts = 0
         /\ ~sm.taking => Starts = 0
         /\ sm.pc = "wait" /\ data.synced => Stops = 0
         /\ sm.pc # "wait" => Stops = 0
<1>1. Starts \in Nat /\ Stops \in Nat
  BY CommandsAre
<1>2. sm.pc \in {"wait", "join"} \/ ~sm.taking => defer = "idle"
  BY DEF Protocol, OneAsks
<1>3. defer = "idle" => Starts = 0
  BY DEF Protocol, StartAsked
<1>4. sm.pc # "wait" => Stops = 0
  BY DEF Protocol, StopAsked
<1>5. sm.pc = "wait" /\ data.synced => Stops = 0
  <2> SUFFICES ASSUME sm.pc = "wait", data.synced PROVE Stops = 0
    OBVIOUS
  <2>1. Stops + 1 + (IF data.pc \in Flushed THEN 1 ELSE 0) = 1
    BY DEF Protocol, StopAsked
  <2> QED BY <1>1, <2>1
<1> QED BY <1>2, <1>3, <1>4, <1>5

\* Where the machine's thread may come from.
LEMMA MachineGoes ==
  ASSUME StopTypes, [Next]_vars
  PROVE  /\ sm'.pc = "wait" => Stop \/ sm.pc = "wait"
         /\ sm'.pc = "join" => StopSynced \/ sm.pc = "join"
         /\ sm'.pc = "idle" /\ ~sm'.taking =>
              StopJoin \/ (sm.pc = "idle" /\ ~sm.taking /\ (sm.due = 0 => sm'.due = 0))
<1>0. CASE TakePicture
  <2>1. sm'.pc = "idle" /\ sm'.taking = TRUE
    BY <1>0 DEF TakePicture, StopTypes
  <2> QED BY <2>1
<1>1. CASE CancelPicture \/ SnapshotDone
  <2>1. sm' = sm \/ sm'.pc = "stop"
    BY <1>1 DEF CancelPicture, SnapshotDone, Cancel, StopTypes
  <2> QED BY <2>1
<1>4. CASE Deliver
  <2>1. sm.due > 0 /\ sm'.pc = sm.pc /\ sm'.taking = sm.taking
    BY <1>4 DEF Deliver, StopTypes
  <2>2. sm.due # 0
    BY <2>1
  <2> QED BY <2>1, <2>2
<1>2. CASE Stop \/ StopSynced \/ StopJoin
  BY <1>2 DEF Stop, StopSynced, StopJoin, StopTypes
<1>3. CASE \/ processJpegEvt \/ Start \/ StartSynced \/ processData \/ processDataSend \/ Data \/ Reprocess
           \/ Callback \/ UNCHANGED vars \/ \E f \in Frame : EncodeEnds(f)
  <2>1. sm' = sm
    BY <1>3 DEF processJpegEvt, Start, StartSynced, processData, processDataSend, Data, DataStart, DataStop,
         DataFlush, DataNext, EncodeStart, EncodeFails, EncodeMark, DataReprocess, Reprocess, PPResult,
         PPQueue, PPOutput, PPSend, Callback, CbStart, CbStop, CbNext, CbDelivered, EncodeEnds, CbRest, PPRest,
         Rest, smVars, vars
  <2> QED BY <2>1
<1> QED BY <1>0, <1>1, <1>2, <1>3, <1>4 DEF Next, Events, DeferredWork, Channel

LEMMA QuietStep ==
  ASSUME FInv, StopTypes, Flushing, Protocol, QuietInv, [Next]_vars
  PROVE  QuietInv'
<1>1. ASSUME sm'.pc = "wait", data'.synced PROVE Off'
  <2>1. CASE Stop
    <3>1. data' = data /\ sm.pc = "stop" /\ defer = "idle"
      BY <2>1 DEF Stop, dataVars
    <3> QED BY <1>1, <3>1 DEF Protocol, OneAsks
  <2>2. CASE sm.pc = "wait" /\ data.synced
    <3>1. Off /\ Starts = 0 /\ Stops = 0
      BY <2>2, NobodyAsks DEF QuietInv
    <3>2. AtRest' /\ on' = on
      BY <3>1, RestStays DEF FInv, Off
    <3> QED BY <3>1, <3>2 DEF Off
  <2>3. CASE sm.pc = "wait" /\ ~data.synced
    <3>1. DataStart \/ DataFlush
      BY <1>1, <2>3 DEF Next, Events, DeferredWork, Channel, Data, Reprocess, Callback, TakePicture, CancelPicture,
           Deliver, SnapshotDone, processJpegEvt, Stop, StopSynced, StopJoin, Start, StartSynced, Synced,
           processData, processDataSend, DataStop, DataNext, EncodeStart,
           EncodeFails, EncodeMark, DataReprocess, Goto, PPResult, PPQueue, PPOutput, PPSend, EncodeEnds, CbStart,
           CbStop, CbNext, CbDelivered, PPRest, CbRest, dataVars, vars, FInv, Types
    <3>2. ~DataStart
      <4> SUFFICES ASSUME DataStart PROVE FALSE
        OBVIOUS
      <4>1. Starts = 0
        BY <2>3, NobodyAsks
      <4>2. cmdQ # <<>> /\ Head(cmdQ) = "START" /\ cmdQ \in Seq(Cmd)
        BY DEF DataStart, StopTypes
      <4>3. 1 \in DOMAIN cmdQ /\ cmdQ[1] = "START"
        BY <4>2, LenProperties, EmptySeq, HeadTailProperties
      <4>4. \A i \in DOMAIN cmdQ : cmdQ[i] \notin {"START"}
        BY <4>1, <4>2, HitsType DEF Starts
      <4> QED BY <4>3, <4>4
    <3>3. data.pc = "input" /\ data'.pc = "idle"
      <4>1. data.pc = "input"
        BY <1>1, <3>1, <3>2 DEF DataFlush, FInv, Types
      <4> QED BY <3>1, <3>2, <4>1, DataFlushed DEF FInv
    <3>4. /\ ~data.active /\ q.coding = <<>> /\ encoding = {} /\ q.ongoing = <<>> /\ q.jpeg = <<>>
          /\ "ongoing" \notin on /\ "jpeg" \notin on
      BY <3>3 DEF Flushing, Flushed
    <3>5. /\ q' = [q EXCEPT !.input = <<>>] /\ on' = on \ {"input"} /\ encoding' = encoding
          /\ data'.active = data.active
      BY <3>1, <3>2, <3>3 DEF DataFlush, FInv, Types
    <3>6. /\ q'.input = <<>> /\ q'.ongoing = q.ongoing /\ q'.jpeg = q.jpeg /\ q'.coding = q.coding
      BY <3>5, QueueSet DEF FInv, Types
    <3>7. on' = {}
      BY <3>4, <3>5 DEF StopTypes, Flushed
    <3> QED BY <3>3, <3>4, <3>5, <3>6, <3>7 DEF Off, AtRest
  <2> QED BY <1>1, <2>1, <2>2, <2>3, MachineGoes
<1>2. ASSUME sm'.pc = "join" PROVE Off'
  <2>1. (StopSynced /\ sm.pc = "wait" /\ data.synced) \/ sm.pc = "join"
    BY <1>2, MachineGoes DEF StopSynced, Synced
  <2>2. Off /\ Starts = 0 /\ Stops = 0
    BY <2>1, NobodyAsks DEF QuietInv
  <2>3. AtRest' /\ on' = on
    BY <2>2, RestStays DEF FInv, Off
  <2> QED BY <2>2, <2>3 DEF Off
<1>3. ASSUME sm'.pc = "idle", ~sm'.taking
      PROVE  /\ AtRest' /\ pp'.pc = "idle" /\ hw' = <<>> /\ sm'.due = 0
             /\ on' = {} \/ chan'.pc # "got"
  <2>1. CASE StopJoin
    <3>1. sm.pc = "join" /\ pp.pc = "idle" /\ hw' = <<>> /\ sm'.due = 0 /\ pp' = pp
      BY <2>1 DEF StopJoin, StopTypes
    <3>2. Off /\ Starts = 0 /\ Stops = 0
      BY <3>1, NobodyAsks DEF QuietInv
    <3>3. AtRest' /\ on' = on
      BY <3>2, RestStays DEF FInv, Off
    <3> QED BY <3>1, <3>2, <3>3 DEF Off
  <2>2. CASE sm.pc = "idle" /\ ~sm.taking /\ (sm.due = 0 => sm'.due = 0)
    <3>1. /\ AtRest /\ pp.pc = "idle" /\ hw = <<>> /\ sm.due = 0
          /\ on = {} \/ chan.pc # "got"
      BY <2>2 DEF QuietInv
    <3>2. Starts = 0 /\ Stops = 0
      BY <2>2, NobodyAsks
    <3>3. AtRest' /\ on' = on /\ ~DataReprocess
      BY SMTT(40), <3>1, <3>2, RestStays DEF FInv
    <3>4. hw' = <<>> /\ pp'.pc = "idle"
      <4>1. ~PPOutput /\ ~PPResult /\ ~PPQueue
        BY <3>1 DEF PPOutput, PPResult, PPQueue
      <4> QED BY <3>1, <3>3, <4>1 DEF Next, Events, DeferredWork, Channel, Data, Reprocess, Callback, TakePicture,
             CancelPicture, Deliver, SnapshotDone, processJpegEvt, Stop, StopSynced, StopJoin, Start, StartSynced,
             processData, processDataSend, DataStart, DataStop, DataFlush, DataNext, EncodeStart,
             EncodeFails, EncodeMark, PPOutput, PPSend, EncodeEnds, CbStart, CbStop, CbNext, CbDelivered,
             Rest, CbRest, ppVars, vars
    <3>5. chan'.pc = "got" => chan.pc = "got"
      <4>1. ~Deliver
        BY SMTT(40), <3>1 DEF Deliver
      <4>2. chan' = chan \/ chan'.pc \in {"queued", "idle"}
        BY <4>1 DEF Next, Events, DeferredWork, Channel, Data, Reprocess, Callback, TakePicture,
             CancelPicture, SnapshotDone, processJpegEvt, Stop, StopSynced, StopJoin, Start, StartSynced,
             processData, processDataSend, DataStart, DataStop, DataFlush, DataNext, EncodeStart,
             EncodeFails, EncodeMark, DataReprocess, PPResult, PPQueue, PPOutput, PPSend, EncodeEnds, CbStart, CbStop,
             CbNext, CbDelivered, Rest, PPRest, CbRest, vars, FInv, Types
      <4> QED BY <4>2
    <3> QED BY <2>2, <3>1, <3>3, <3>4, <3>5
  <2> QED BY <1>3, <2>1, <2>2, MachineGoes
<1> QED BY <1>1, <1>2, <1>3 DEF QuietInv

SInv == FInv /\ StopTypes /\ Coded /\ Reported /\ Flushing /\ Protocol /\ QuietInv

LEMMA StopInit == Init => SInv
<1> SUFFICES ASSUME Init PROVE SInv
  OBVIOUS
<1>1. FInv
  BY FrameInit
<1>2. StopTypes
  BY EmptySeq DEF Init, StopTypes
<1>3. Coded /\ Reported /\ Flushing
  <2>1. Range(smQ) = {}
    BY DEF Init, Range
  <2> QED BY <2>1 DEF Init, Coded, Reported, Flushing, Flushed
<1>4. Protocol
  <2>1. Starts = 0 /\ Stops = 0
    BY HitsEmpty DEF Init, Starts, Stops
  <2> QED BY <2>1 DEF Init, Protocol, StartAsked, StopAsked, OneAsks, Flushed
<1>5. QuietInv
  BY DEF Init, QuietInv, AtRest
<1> QED BY <1>1, <1>2, <1>3, <1>4, <1>5 DEF SInv

LEMMA StopStep ==
  ASSUME ReprocessMayFail = FALSE
  PROVE  SInv /\ [Next]_vars => SInv'
<1> SUFFICES ASSUME SInv, [Next]_vars PROVE SInv'
  OBVIOUS
<1>1. FInv /\ StopTypes /\ Coded /\ Reported /\ Flushing /\ Protocol /\ QuietInv
  BY DEF SInv
<1>2. FInv'
  BY <1>1, FrameStep
<1>3. StopTypes'
  BY <1>1, StopTypesStep
<1>4. Coded' /\ Reported'
  BY <1>1, <1>2, CodedStep
<1>5. Flushing'
  BY <1>1, FlushingStep
<1>6. Protocol'
  BY <1>1, <1>3, ProtocolStep DEF FInv
<1>7. QuietInv'
  BY <1>1, QuietStep
<1> QED BY <1>2, <1>3, <1>4, <1>5, <1>6, <1>7 DEF SInv

\* Once stop() has returned nothing is left to be worked on, however the data
\* thread, the callbacks and the encoder went on while it waited.
THEOREM StopLeavesNothing ==
  ASSUME ReprocessMayFail = FALSE
  PROVE  Spec => []QuietWhenStopped
<1>1. SInv => QuietWhenStopped
  <2> SUFFICES ASSUME SInv, sm.pc = "idle", ~sm.taking
               PROVE  /\ \A name \in DOMAIN q : q[name] = <<>>
                      /\ encoding = {} /\ hw = <<>> /\ pp.pc = "idle"
    BY DEF QuietWhenStopped
  <2>1. AtRest /\ pp.pc = "idle" /\ hw = <<>>
    BY DEF SInv, QuietInv
  <2>2. DOMAIN q = {"input", "ongoing", "jpeg", "coding"}
    BY DEF SInv, FInv, Types, Queues
  <2> QED BY <2>1, <2>2 DEF AtRest
<1>2. Init => SInv
  BY StopInit
<1>3. SInv /\ [Next]_vars => SInv'
  BY StopStep
<1> QED BY <1>1, <1>2, <1>3, PTL DEF Spec

-----------------------------------------------------------------------------
(* The HAL1 state machine: operations of the HAL (QCamera2HWI.cpp). *)

\* An operation that may fail leaves its result, or the state as it was.
LEMMA MayFailIs ==
  ASSUME NEW h \in Hal, NEW g \in Hal, NEW x \in MayFail(h, g)
  PROVE  /\ x \in Outcome
         /\ x.ok => x.h = g /\ ~h.dead
         /\ ~x.ok => Only(h, x.h, {"fails"})
<1> DEFINE b == [h EXCEPT !.fails = h.fails + 1]
<1>1. \/ x = Bad(h)
      \/ x = Ok(g) /\ ~h.dead
      \/ x = Bad(b) /\ h.fails < MaxFail
  BY DEF MayFail
<1>2. CASE x = Bad(h) BY <1>2 DEF Bad, Only, Outcome
<1>3. CASE x = Ok(g) /\ ~h.dead BY <1>3 DEF Ok, Outcome
<1>4. CASE x = Bad(b) /\ h.fails < MaxFail
  <2>1. b \in Hal BY <1>4, Hal1Assumption DEF Hal
  <2>2. Only(h, b, {"fails"}) BY <2>1 DEF Only, Hal
  <2> QED BY <1>4, <2>1, <2>2 DEF Bad, Outcome
<1> QED BY <1>1, <1>2, <1>3, <1>4

\* unpreparePreview stops preview and recording and deletes their channels.
LEMMA UnprepareIs ==
  ASSUME NEW h \in Hal
  PROVE  LET g == unpreparePreview(h) IN
         Only(h, g, {"chan", "on", "video"}) /\ ~g.on /\ ~g.video
BY DEF unpreparePreview, Only, Hal

\* cancelPicture stops the post processor, and the capture channel unless it is the ZSL one.
LEMMA CancelIs ==
  ASSUME NEW h \in Hal
  PROVE  LET g == cancelPicture(h) IN
         Only(h, g, {"pic", "cap"}) /\ ~g.pic /\ (g.cap <=> h.cap /\ h.zsl)
BY ZenonT(40) DEF cancelPicture, Only, Hal

\* The end of a longshot ends its capture.
LEMMA LongshotOffIs ==
  ASSUME NEW h \in Hal
  PROVE  LET g == longshotOff(h) IN
         /\ Only(h, g, {"longshot", "pic", "cap", "post"}) /\ ~g.longshot
         /\ IF h.longshot /\ isCaptureRunning(h) THEN ~g.pic /\ (g.cap <=> h.cap /\ h.zsl)
            ELSE g.pic = h.pic /\ g.cap = h.cap /\ g.post = h.post
<1>1. CASE h.longshot /\ isCaptureRunning(h)
  <2> DEFINE k == cancelPicture(h)
             g == [k EXCEPT !.longshot = FALSE, !.post = TRUE]
  <2>1. Only(h, k, {"pic", "cap"}) /\ ~k.pic /\ (k.cap <=> h.cap /\ h.zsl) BY CancelIs
  <2>2. k \in Hal BY <2>1 DEF Only
  <2> HIDE DEF k
  <2>3. Only(k, g, {"longshot", "post"}) /\ ~g.longshot BY ZenonT(40), <2>2 DEF Only, Hal
  <2>4. longshotOff(h) = g BY <1>1 DEF longshotOff, k
  <2> HIDE DEF g
  <2>5. Only(h, g, {"longshot", "pic", "cap", "post"}) /\ g.pic = k.pic /\ g.cap = k.cap
    BY <2>1, <2>3 DEF Only
  <2> QED BY <1>1, <2>1, <2>3, <2>4, <2>5
<1>2. CASE ~(h.longshot /\ isCaptureRunning(h))
  <2> DEFINE g == [h EXCEPT !.longshot = FALSE]
  <2>1. longshotOff(h) = g BY <1>2 DEF longshotOff
  <2>2. Only(h, g, {"longshot"}) /\ ~g.longshot BY DEF Only, Hal
  <2> HIDE DEF g
  <2>3. Only(h, g, {"longshot", "pic", "cap", "post"}) /\ g.pic = h.pic /\ g.cap = h.cap /\ g.post = h.post
    BY <2>2 DEF Only
  <2> QED BY <1>2, <2>1, <2>2, <2>3
<1> QED BY <1>1, <1>2

\* The longshot that preparePreview ends for a recording.
Ended(h, g) ==
  IF h.hint /\ h.longshot
    THEN /\ ~g.longshot
         /\ IF isCaptureRunning(h) THEN ~g.pic /\ (g.cap <=> h.cap /\ h.zsl)
            ELSE g.pic = h.pic /\ g.cap = h.cap /\ g.post = h.post
    ELSE g.longshot = h.longshot /\ g.pic = h.pic /\ g.cap = h.cap /\ g.post = h.post

\* The fields preparePreview changes.
Preparing == {"chan", "on", "longshot", "pic", "cap", "post", "fails"}

\* preparePreview, whether or not it fails.
LEMMA PrepareIs ==
  ASSUME NEW h \in Hal, NEW x \in preparePreview(h)
  PROVE  /\ x \in Outcome /\ Only(h, x.h, Preparing) /\ Ended(h, x.h)
         /\ x.ok => ~x.h.on
         /\ ~x.ok => x.h.on = h.on
<1>1. CASE ~h.hint
  <2> DEFINE good == [h EXCEPT !.chan = IF h.zsl THEN "zsl" ELSE "preview", !.on = FALSE]
  <2>1. good \in Hal BY ZenonT(40) DEF Hal
  <2>2. x \in MayFail(h, good) BY <1>1 DEF preparePreview
  <2>3. Only(h, good, {"chan", "on"}) /\ ~good.on BY <2>1 DEF Only, Hal
  <2> HIDE DEF good
  <2>4. x \in Outcome /\ (x.ok => x.h = good) /\ (~x.ok => Only(h, x.h, {"fails"}))
    BY <2>1, <2>2, MayFailIs
  <2> QED BY <1>1, <2>3, <2>4 DEF Only, Ended, Preparing
<1>2. CASE h.hint
  <2> DEFINE base == IF h.longshot THEN longshotOff(h) ELSE h
             good == [base EXCEPT !.chan = "video", !.on = FALSE]
  <2>1. base \in Hal /\ Only(h, base, {"longshot", "pic", "cap", "post"}) /\ Ended(h, base)
    <3>1. CASE h.longshot BY <1>2, <3>1, LongshotOffIs DEF Only, Ended
    <3>2. CASE ~h.longshot BY <1>2, <3>2 DEF Only, Ended
    <3> QED BY <3>1, <3>2
  <2>2. x \in MayFail(base, good) BY <1>2 DEF preparePreview
  <2> HIDE DEF base
  <2>3. good \in Hal BY ZenonT(40), <2>1 DEF Hal
  <2>4. Only(base, good, {"chan", "on"}) /\ ~good.on BY <2>1, <2>3 DEF Only, Hal
  <2> HIDE DEF good
  <2>5. x \in Outcome /\ (x.ok => x.h = good) /\ (~x.ok => Only(base, x.h, {"fails"}))
    BY <2>1, <2>2, <2>3, MayFailIs
  <2>6. Only(base, x.h, {"chan", "on", "fails"})
    BY <2>4, <2>5 DEF Only
  <2>7. Only(h, x.h, Preparing) BY <2>1, <2>6 DEF Only, Preparing
  <2>8. Ended(h, x.h) BY <1>2, <2>1, <2>6 DEF Only, Ended
  <2>9. ~x.ok => x.h.on = h.on BY <2>1, <2>5 DEF Only
  <2> QED BY <2>4, <2>5, <2>7, <2>8, <2>9
<1> QED BY <1>1, <1>2

\* startPreview, whether or not it fails.
LEMMA StartIs ==
  ASSUME NEW h \in Hal, NEW x \in startPreview(h)
  PROVE  /\ x \in Outcome /\ Only(h, x.h, {"on", "fails"})
         /\ ~x.ok => x.h.on = h.on
<1> DEFINE good == [h EXCEPT !.on = TRUE]
<1>1. good \in Hal /\ Only(h, good, {"on"}) BY DEF Hal, Only
<1>2. CASE x \in MayFail(h, good)
  <2> HIDE DEF good
  <2>1. x \in Outcome /\ (x.ok => x.h = good) /\ (~x.ok => Only(h, x.h, {"fails"}))
    BY <1>1, <1>2, MayFailIs
  <2> QED BY <1>1, <2>1 DEF Only
<1>3. CASE x = Bad(h) BY <1>3 DEF Bad, Only, Outcome
<1> QED BY <1>2, <1>3 DEF startPreview

\* applyDelayedMsgs keeps the wanted messages and ends the delay.
LEMMA DelayedIs ==
  ASSUME NEW h \in Hal
  PROVE  LET g == applyDelayedMsgs(h) IN
         Only(h, g, {"enabled", "delayed", "delay"}) /\ (Wanted(h) => Wanted(g))
<1> DEFINE a == h.enabled \/ (h.delay /\ h.delayed)
           b == h.delayed /\ ~h.delay
           g == [h EXCEPT !.enabled = a, !.delayed = b, !.delay = FALSE]
<1>1. a \in BOOLEAN /\ b \in BOOLEAN BY DEF Hal
<1>2. applyDelayedMsgs(h) = g BY DEF applyDelayedMsgs
<1> HIDE DEF a, b
<1>3. Only(h, g, {"enabled", "delayed", "delay"}) /\ g.enabled = a BY ZenonT(40), <1>1 DEF Only, Hal
<1> HIDE DEF g
<1>4. Wanted(h) => Wanted(g) BY <1>3 DEF Wanted, a
<1> QED BY <1>2, <1>3, <1>4

\* The fields a prepared and started preview changes.
Starting == Preparing \cup {"enabled", "delayed", "delay", "video"}

\* Preview prepared and then started, with the failures of either.
LEMMA PrepareAndStartIs ==
  ASSUME NEW h \in Hal, NEW e \in BOOLEAN, NEW x \in PrepareAndStart(h, e)
  PROVE  /\ x \in Outcome /\ Only(h, x.h, Starting) /\ Ended(h, x.h)
         /\ x.h.video => h.video
         /\ Wanted(h) => Wanted(x.h)
         /\ ~x.ok => (x.h.on => h.on)
<1>1. PICK p \in preparePreview(h) :
        IF ~p.ok THEN x = p
        ELSE \E s \in startPreview(IF e THEN applyDelayedMsgs(p.h) ELSE p.h) :
               x = IF s.ok THEN s ELSE Bad(unpreparePreview(s.h))
  BY DEF PrepareAndStart
<1>2. /\ p \in Outcome /\ Only(h, p.h, Preparing) /\ Ended(h, p.h)
      /\ p.ok => ~p.h.on
      /\ ~p.ok => p.h.on = h.on
  BY PrepareIs
<1>3. CASE ~p.ok
  BY <1>1, <1>2, <1>3 DEF Only, Starting, Preparing, Wanted
<1>4. CASE p.ok
  <2> DEFINE d == IF e THEN applyDelayedMsgs(p.h) ELSE p.h
  <2>1. Only(p.h, d, {"enabled", "delayed", "delay"}) /\ (Wanted(p.h) => Wanted(d))
    BY <1>2, DelayedIs DEF Only
  <2>2. PICK s \in startPreview(d) : x = IF s.ok THEN s ELSE Bad(unpreparePreview(s.h))
    BY <1>1, <1>4
  <2>3. s \in Outcome /\ Only(d, s.h, {"on", "fails"})
    BY <2>1, StartIs DEF Only
  <2>4. Only(s.h, unpreparePreview(s.h), {"chan", "on", "video"}) /\ ~unpreparePreview(s.h).on
        /\ ~unpreparePreview(s.h).video
    BY <2>3, UnprepareIs DEF Only
  <2>5. x.ok = s.ok /\ x.h = IF s.ok THEN s.h ELSE unpreparePreview(s.h)
    BY <2>2, <2>3 DEF Bad, Outcome
  <2>5a. unpreparePreview(s.h) \in Hal BY <2>4 DEF Only
  <2>5b. x \in Outcome BY <2>2, <2>3, <2>5a DEF Bad, Outcome
  <2>6. Only(h, x.h, Starting)
    BY <1>2, <2>1, <2>3, <2>4, <2>5 DEF Only, Starting, Preparing
  <2>7. Ended(h, x.h)
    BY <1>2, <2>1, <2>3, <2>4, <2>5 DEF Only, Ended
  <2>8. x.h.video => h.video
    BY <1>2, <2>1, <2>3, <2>4, <2>5 DEF Only, Preparing
  <2>9. Wanted(h) => Wanted(x.h)
    BY <1>2, <2>1, <2>3, <2>4, <2>5 DEF Only, Preparing, Wanted
  <2> QED BY <2>3, <2>4, <2>5, <2>5b, <2>6, <2>7, <2>8, <2>9
<1> QED BY <1>2, <1>3, <1>4

\* Committed parameters take effect on ZSL.
LEMMA CommitIs ==
  ASSUME NEW h \in Hal, NEW b \in BOOLEAN
  PROVE  /\ Only(h, commit(h), {"zsl"}) /\ commit(h).zsl = h.zslNew
         /\ Only(h, commitHint(h, b), {"zsl", "hint"}) /\ commitHint(h, b).hint = b
<1> DEFINE k == [h EXCEPT !.zsl = h.zslNew]
           g == [k EXCEPT !.hint = b]
<1>1. Only(h, k, {"zsl"}) /\ k.zsl = h.zslNew BY DEF Only, Hal
<1>2. commit(h) = k /\ commitHint(h, b) = g BY DEF commit, commitHint
<1>3. k \in Hal BY <1>1 DEF Only
<1> HIDE DEF k
<1>4. Only(k, g, {"hint"}) /\ g.hint = b BY <1>3 DEF Only, Hal
<1> HIDE DEF g
<1>5. Only(h, g, {"zsl", "hint"}) BY <1>1, <1>4 DEF Only
<1> QED BY <1>1, <1>2, <1>4, <1>5

\* takePicture, with and without ZSL.
LEMMA TakePictureIs ==
  ASSUME NEW h \in Hal, NEW x \in takePicture(h)
  PROVE  /\ x \in Outcome /\ Only(h, x.h, {"chan", "on", "video", "pic", "cap", "ready", "fails"})
         /\ x.ok => ~h.dead /\ x.h.pic
         /\ ~x.ok => x.h.pic = h.pic /\ x.h.cap = h.cap /\ x.h.ready = h.ready
         /\ h.zsl => x.h.cap = h.cap /\ x.h.video = h.video /\ x.h.on = h.on
                     /\ (x.ok => (x.h.ready <=> h.retro # "no"))
         /\ ~h.zsl => x.h.ready = h.ready /\ ~x.h.on /\ ~x.h.video
<1>1. CASE h.zsl
  <2> DEFINE a == h.retro # "no"
             g == [h EXCEPT !.pic = TRUE, !.ready = a]
  <2>1. CASE h.chan # "zsl"
    <3>1. x = Bad(h) BY <1>1, <2>1 DEF takePicture
    <3> QED BY <1>1, <3>1 DEF Bad, Only, Outcome
  <2>2. CASE h.chan = "zsl"
    <3>1. a \in BOOLEAN OBVIOUS
    <3>2. x \in MayFail(h, g) BY <1>1, <2>2 DEF takePicture
    <3> HIDE DEF a
    <3>3. g \in Hal /\ Only(h, g, {"pic", "ready"}) /\ g.pic /\ g.ready = a BY <3>1 DEF Only, Hal
    <3> HIDE DEF g
    <3>4. x \in Outcome /\ (x.ok => x.h = g /\ ~h.dead) /\ (~x.ok => Only(h, x.h, {"fails"}))
      BY <3>2, <3>3, MayFailIs
    <3> QED BY <1>1, <3>3, <3>4 DEF Only, a
  <2> QED BY <2>1, <2>2
<1>2. CASE ~h.zsl
  <2> DEFINE k == unpreparePreview(h)
             g == [k EXCEPT !.pic = TRUE, !.cap = TRUE]
  <2>1. Only(h, k, {"chan", "on", "video"}) /\ ~k.on /\ ~k.video BY UnprepareIs
  <2>2. x \in MayFail(k, g) BY <1>2 DEF takePicture, stopPreview
  <2>3. k \in Hal BY <2>1 DEF Only
  <2> HIDE DEF k
  <2>4. g \in Hal /\ Only(k, g, {"pic", "cap"}) /\ g.pic BY <2>3 DEF Only, Hal
  <2> HIDE DEF g
  <2>5. x \in Outcome /\ (x.ok => x.h = g /\ ~k.dead) /\ (~x.ok => Only(k, x.h, {"fails"}))
    BY <2>2, <2>3, <2>4, MayFailIs
  <2> QED BY <1>2, <2>1, <2>4, <2>5 DEF Only
<1> QED BY <1>1, <1>2

\* One more picture of a longshot.
LEMMA LongShotIs ==
  ASSUME NEW h \in Hal, NEW x \in longShot(h)
  PROVE  /\ x \in Outcome /\ Only(h, x.h, {"pic", "fails"})
         /\ ~x.ok => x.h.pic = h.pic
<1> DEFINE g == [h EXCEPT !.pic = TRUE]
<1>1. Only(h, g, {"pic"}) /\ g \in Hal BY DEF Only, Hal
<1>2. CASE x = Bad(h) BY <1>2 DEF Bad, Only, Outcome
<1>3. CASE x \in MayFail(h, g)
  <2> HIDE DEF g
  <2>1. x \in Outcome /\ (x.ok => x.h = g) /\ (~x.ok => Only(h, x.h, {"fails"}))
    BY <1>1, <1>3, MayFailIs
  <2> QED BY <1>1, <2>1 DEF Only
<1> QED BY <1>2, <1>3 DEF longShot

\* takeLiveSnapshot starts its thread or fails.
LEMMA TakeLiveIs ==
  ASSUME NEW h \in Hal, NEW x \in takeLiveSnapshot(h)
  PROVE  /\ x \in Outcome /\ Only(h, x.h, {"th", "fails"}) /\ h.th = "none"
         /\ x.ok => x.h.th = "take" /\ ~h.dead
         /\ ~x.ok => x.h.th = "none"
<1> DEFINE g == [h EXCEPT !.th = "take"]
<1>1. Only(h, g, {"th"}) /\ g \in Hal /\ g.th = "take" BY DEF Only, Hal
<1>2. h.th = "none" /\ x \in MayFail(h, g) BY DEF takeLiveSnapshot
<1> HIDE DEF g
<1>3. x \in Outcome /\ (x.ok => x.h = g /\ ~h.dead) /\ (~x.ok => Only(h, x.h, {"fails"}))
  BY <1>1, <1>2, MayFailIs
<1> QED BY <1>1, <1>2, <1>3 DEF Only

\* cancelLiveSnapshot starts its thread.
LEMMA CancelLiveIs ==
  ASSUME NEW h \in Hal, NEW x \in cancelLiveSnapshot(h)
  PROVE  x \in Outcome /\ x.ok /\ Only(h, x.h, {"th"}) /\ h.th = "none" /\ x.h.th = "cancel"
<1> DEFINE g == [h EXCEPT !.th = "cancel"]
<1>1. h.th = "none" /\ x = Ok(g) BY DEF cancelLiveSnapshot
<1>2. Only(h, g, {"th"}) /\ g \in Hal /\ g.th = "cancel" BY DEF Only, Hal
<1> HIDE DEF g
<1> QED BY <1>1, <1>2 DEF Ok, Outcome

\* The hardware is asked to prepare for a snapshot.
LEMMA PrepareHardwareIs ==
  ASSUME NEW h \in Hal, NEW x \in prepareHardwareForSnapshot(h)
  PROVE  /\ x \in Outcome /\ Only(h, x.h, {"prep", "fails"})
         /\ x.ok => x.h.prep /\ ~h.dead
         /\ ~x.ok => x.h.prep = h.prep
<1> DEFINE g == [h EXCEPT !.prep = TRUE]
<1>1. Only(h, g, {"prep"}) /\ g \in Hal /\ g.prep BY DEF Only, Hal
<1>2. x \in MayFail(h, g) BY DEF prepareHardwareForSnapshot
<1> HIDE DEF g
<1>3. x \in Outcome /\ (x.ok => x.h = g /\ ~h.dead) /\ (~x.ok => Only(h, x.h, {"fails"}))
  BY <1>1, <1>2, MayFailIs
<1> QED BY <1>1, <1>3 DEF Only

\* preStartRecording, with the restart of preview it may need.
LEMMA PreStartIs ==
  ASSUME NEW h \in Hal, NEW x \in preStartRecording(h)
  PROVE  /\ x \in Outcome /\ Only(h, x.h, Preparing \cup {"zsl", "hint", "video"})
         /\ x.h.video => h.video
         /\ h.longshot \/ (x.h.longshot = h.longshot /\ x.h.pic = h.pic /\ x.h.cap = h.cap /\ x.h.post = h.post)
         /\ h.hint => x.h = h
         /\ IF isCaptureRunning(h) THEN x.h.pic => h.pic ELSE x.h.pic = h.pic
         /\ h.cap => x.h.cap \/ ~x.h.longshot
         /\ x.h.cap => h.cap
<1>1. CASE h.hint
  <2>1. x = Ok(h) BY <1>1 DEF preStartRecording
  <2>2. x.h = h /\ x \in Outcome BY <2>1 DEF Ok, Outcome
  <2> QED BY <1>1, <2>2 DEF Only
<1>2. CASE ~h.hint
  <2> DEFINE k == unpreparePreview(h)
             g == commitHint(k, TRUE)
  <2>1. Only(h, k, {"chan", "on", "video"}) /\ ~k.on /\ ~k.video BY UnprepareIs
  <2>2. PICK p \in preparePreview(g) : x \in (IF p.ok THEN startPreview(p.h) ELSE {p})
    BY <1>2 DEF preStartRecording, stopPreview
  <2>3. k \in Hal BY <2>1 DEF Only
  <2> HIDE DEF k
  <2>4. Only(k, g, {"zsl", "hint"}) BY <2>3, CommitIs
  <2>5. g \in Hal BY <2>4 DEF Only
  <2> HIDE DEF g
  <2>6. p \in Outcome /\ Only(g, p.h, Preparing) /\ Ended(g, p.h) BY <2>5, PrepareIs
  <2>7. p.h \in Hal BY <2>6 DEF Only
  <2>8. CASE ~p.ok
    <3>1. x = p BY <2>2, <2>8
    <3> QED BY <1>2, <2>1, <2>4, <2>6, <3>1 DEF Only, Preparing, Ended, isCaptureRunning
  <2>9. CASE p.ok
    <3>1. x \in Outcome /\ Only(p.h, x.h, {"on", "fails"})
      BY <2>2, <2>7, <2>9, StartIs
    <3>2. Only(g, x.h, Preparing) /\ Ended(g, x.h) BY <2>6, <3>1 DEF Only, Preparing, Ended
    <3> QED BY <1>2, <2>1, <2>4, <3>1, <3>2 DEF Only, Preparing, Ended, isCaptureRunning
  <2> QED BY <2>6, <2>8, <2>9
<1> QED BY <1>1, <1>2

\* startRecording, whether or not it fails.
LEMMA StartRecordingIs ==
  ASSUME NEW h \in Hal, NEW x \in startRecording(h)
  PROVE  /\ x \in Outcome /\ Only(h, x.h, {"video", "fails"})
         /\ ~x.ok => x.h.video = h.video
<1> DEFINE g == [h EXCEPT !.video = TRUE]
<1>1. Only(h, g, {"video"}) /\ g \in Hal BY DEF Only, Hal
<1>2. CASE x = Bad(h) BY <1>2 DEF Bad, Only, Outcome
<1>3. CASE x \in MayFail(h, g)
  <2> HIDE DEF g
  <2>1. x \in Outcome /\ (x.ok => x.h = g) /\ (~x.ok => Only(h, x.h, {"fails"}))
    BY <1>1, <1>3, MayFailIs
  <2> QED BY <1>1, <2>1 DEF Only
<1> QED BY <1>2, <1>3 DEF startRecording

\* updateParameters says whether a restart is needed.
LEMMA UpdateIs ==
  ASSUME NEW h \in Hal, NEW r, NEW x \in updateParameters(h, r)
  PROVE  /\ x \in Outcome /\ Only(h, x.h, {"restart", "zslNew", "fails"})
         /\ r.arg # "zsl" => x.h.zslNew = h.zslNew
<1> DEFINE a == r.arg # "same"
           b == IF r.arg = "zsl" THEN ~h.zslNew ELSE h.zslNew
           g == [h EXCEPT !.restart = a, !.zslNew = b]
<1>1. a \in BOOLEAN /\ b \in BOOLEAN /\ (r.arg # "zsl" => b = h.zslNew) BY DEF Hal
<1>2. x \in MayFail(g, g) BY DEF updateParameters
<1> HIDE DEF a, b
<1>3. Only(h, g, {"restart", "zslNew"}) /\ g \in Hal /\ g.zslNew = b BY ZenonT(40), <1>1 DEF Only, Hal
<1> HIDE DEF g
<1>4. x \in Outcome /\ (x.ok => x.h = g) /\ (~x.ok => Only(g, x.h, {"fails"}))
  BY <1>2, <1>3, MayFailIs
<1> QED BY <1>1, <1>3, <1>4 DEF Only

\* commitParameterChanges, whether or not it fails.
LEMMA CommitParametersIs ==
  ASSUME NEW h \in Hal, NEW x \in commitParameterChanges(h)
  PROVE  /\ x \in Outcome /\ Only(h, x.h, {"zsl", "fails"}) /\ x.h.zsl \in {h.zsl, h.zslNew}
<1>0. TRUE \in BOOLEAN OBVIOUS
<1>1. Only(h, commit(h), {"zsl"}) /\ commit(h).zsl = h.zslNew
  BY <1>0, CommitIs
<1>1a. commit(h) \in Hal BY <1>1 DEF Only
<1>2. x \in Outcome /\ (x.ok => x.h = commit(h)) /\ (~x.ok => Only(h, x.h, {"fails"}))
  BY <1>1a, MayFailIs DEF commitParameterChanges
<1> QED BY <1>1, <1>2 DEF Only

\* A reply is one of the outcomes, with one result.
LEMMA ReplyIs ==
  ASSUME NEW r, NEW outcomes, NEW x \in Reply(r, outcomes)
  PROVE  \E y \in outcomes : x.hal = y.h /\ x.ans = <<Result(r.api, y.ok)>>
BY DEF Reply

\* A change of state changes nothing else.
LEMMA InState ==
  ASSUME NEW h \in Hal, NEW a \in State
  PROVE  Only(h, [h EXCEPT !.state = a], {"state"}) /\ [h EXCEPT !.state = a].state = a
BY DEF Only, Hal

\* The outcome of an operation, in one state if it succeeded, in another if not.
LEMMA EnterIs ==
  ASSUME NEW outcomes \in SUBSET Outcome, NEW a \in State, NEW b \in State, NEW x \in Enter(outcomes, a, b)
  PROVE  \E y \in outcomes : x \in Outcome /\ x.ok = y.ok /\ Only(y.h, x.h, {"state"})
                             /\ x.h.state = IF y.ok THEN a ELSE b
<1>1. PICK y \in outcomes : x = [y EXCEPT !.h.state = IF y.ok THEN a ELSE b] BY DEF Enter
<1> DEFINE t == IF y.ok THEN a ELSE b
           g == [y.h EXCEPT !.state = t]
<1>2. y \in Outcome /\ y.h \in Hal /\ y.ok \in BOOLEAN /\ t \in State BY DEF Outcome
<1>3. x = [y EXCEPT !.h = g] BY <1>1, <1>2 DEF Outcome
<1>4. Only(y.h, g, {"state"}) /\ g.state = t /\ g \in Hal BY <1>2, InState DEF Only
<1> HIDE DEF g, t
<1>5. x \in Outcome /\ x.ok = y.ok /\ x.h = g BY <1>2, <1>3, <1>4 DEF Outcome
<1> QED BY <1>4, <1>5 DEF t

\* Outcomes in a new state are outcomes.
LEMMA StateIs ==
  ASSUME NEW outcomes \in SUBSET Outcome, NEW a \in State, NEW b \in State
  PROVE  Enter(outcomes, a, b) \in SUBSET Outcome
BY EnterIs

-----------------------------------------------------------------------------
(* Requests that many states answer alike. *)

\* An answered request that changes nothing.
LEMMA StillMoves ==
  ASSUME NEW h \in Hal, NEW r, NEW x, NEW b \in BOOLEAN, x.hal = h, x.ans = <<Result(r.api, b)>>,
         r.api = "CANCEL_PICTURE" => ~isCaptureRunning(h),
         r.api = "PRE_TAKE_PICTURE" /\ b => h.state \in {"PREVIEWING", "RECORDING"} \/ h.longshot,
         r.api = "SET_PARAMS_STOP" => h.state # "PREVIEW_PIC_TAKING",
         r.api = "ENABLE_MSG_TYPE" => ~b
  PROVE  Moves(h, r, x)
BY DEF Result, Moves, Leaves, Answers, Turns, OfPicture, OfParams, Heeds, Fits, Careful, Films, isCaptureRunning,
        Api, PictureApis, MsgApis, RecordingApis, ParamApis, SnapshotApis, Wanted

\* An accepted request is answered with TRUE.
LEMMA AcceptedIs ==
  ASSUME NEW g, NEW r, NEW x \in Accepted(g, r)
  PROVE  x.hal = g /\ x.ans = <<Result(r.api, TRUE)>>
<1>1. x \in Reply(r, {Ok(g)}) BY DEF Accepted
<1>2. PICK y \in {Ok(g)} : x.hal = y.h /\ x.ans = <<Result(r.api, y.ok)>> BY <1>1, ReplyIs
<1>3. y = Ok(g) BY <1>2
<1>4. y.h = g /\ y.ok = TRUE BY <1>3 DEF Ok
<1> QED BY <1>2, <1>4, Zenon

\* A refused request is answered with FALSE.
LEMMA RefusedIs ==
  ASSUME NEW g, NEW r, NEW x \in Refused(g, r)
  PROVE  x.hal = g /\ x.ans = <<Result(r.api, FALSE)>>
<1>1. x \in Reply(r, {Bad(g)}) BY DEF Refused
<1>2. PICK y \in {Bad(g)} : x.hal = y.h /\ x.ans = <<Result(r.api, y.ok)>> BY <1>1, ReplyIs
<1>3. y = Bad(g) BY <1>2
<1>4. y.h = g /\ y.ok = FALSE BY <1>3 DEF Bad
<1> QED BY <1>2, <1>4, Zenon

\* An answered request that is no request of a picture, and changes none of the fields that these wait for.
Others == {"window", "zsl", "zslNew", "hint", "restart", "longshot", "chan", "on", "video", "cap", "pic",
           "delay", "delayed", "enabled", "post", "fails", "state", "th"}

\* Such a request.
LEMMA OrdinaryMoves ==
  ASSUME NEW h \in Hal, NEW r, NEW x, NEW b \in BOOLEAN, x.ans = <<Result(r.api, b)>>,
         r.api \notin PictureApis, Only(h, x.hal, Others),
         x.hal.state = "PREVIEW_PIC_TAKING" => h.state = "PREVIEW_PIC_TAKING",
         isCaptureRunning(x.hal) => isCaptureRunning(h),
         x.hal.state = "PREPARE_SNAPSHOT" => h.state = "PREPARE_SNAPSHOT",
         OfParams(h, r, x.hal),
         r.api # "DISABLE_MSG_TYPE" /\ Wanted(h) => Wanted(x.hal),
         r.api = "ENABLE_MSG_TYPE" /\ b => Wanted(x.hal),
         Fits(h) /\ Careful(h, r) => Fits(x.hal)
  PROVE  Moves(h, r, x)
<1> DEFINE g == x.hal
<1>1. Leaves(h, g) BY DEF Leaves, Only, Others
<1>2. Answers(h, r, g, x.ans) BY DEF Answers, Only, Others
<1>3. Turns(h, r, g, x.ans) BY DEF Turns
<1>4. OfPicture(h, r, g, x.ans) BY DEF OfPicture, PictureApis, SnapshotApis
<1>5. Heeds(h, r, g, x.ans) BY DEF Heeds, Result
<1> QED BY <1>1, <1>2, <1>3, <1>4, <1>5 DEF Moves

\* Messages are enabled or disabled at once where no picture delays them.
LEMMA EnableMoves ==
  ASSUME NEW h \in Hal, NEW r, r.api \in MsgApis, NEW x \in enableMsg(h, r)
  PROVE  Moves(h, r, x)
<1> DEFINE e == r.api = "ENABLE_MSG_TYPE"
           g == [h EXCEPT !.enabled = e]
<1>0. x \in Accepted(g, r) BY DEF enableMsg
<1> HIDE DEF g
<1>1. x.hal = g /\ x.ans = <<Result(r.api, TRUE)>> BY <1>0, AcceptedIs
<1>2. Only(h, g, {"enabled"}) /\ g.enabled = e BY DEF Only, Hal, g
<1>3. OfParams(h, r, g) BY DEF OfParams, MsgApis
<1>4. Only(h, g, Others) BY <1>2 DEF Only, Others
<1>5. Fits(h) => Fits(g) BY <1>2 DEF Only, Fits, isCaptureRunning, Films
<1>6. g.state = h.state BY <1>2 DEF Only
<1>7. e => Wanted(g) BY <1>2 DEF Wanted
<1>8. r.api \notin PictureApis /\ (e \/ r.api = "DISABLE_MSG_TYPE") BY DEF MsgApis, PictureApis, SnapshotApis
<1> QED BY <1>1, <1>3, <1>4, <1>5, <1>6, <1>7, <1>8, OrdinaryMoves DEF isCaptureRunning

\* A refused request.
LEMMA RefusedMoves ==
  ASSUME NEW h \in Hal, NEW r, NEW x \in Refused(h, r),
         r.api = "CANCEL_PICTURE" => ~isCaptureRunning(h),
         r.api = "SET_PARAMS_STOP" => h.state # "PREVIEW_PIC_TAKING"
  PROVE  Moves(h, r, x)
BY RefusedIs, StillMoves

\* An accepted request that changes nothing.
LEMMA AcceptedMoves ==
  ASSUME NEW h \in Hal, NEW r, NEW x \in Accepted(h, r),
         r.api = "CANCEL_PICTURE" => ~isCaptureRunning(h),
         r.api = "PRE_TAKE_PICTURE" => h.state \in {"PREVIEWING", "RECORDING"} \/ h.longshot,
         r.api = "SET_PARAMS_STOP" => h.state # "PREVIEW_PIC_TAKING",
         r.api # "ENABLE_MSG_TYPE"
  PROVE  Moves(h, r, x)
BY AcceptedIs, StillMoves

\* A request that nobody waits for.
LEMMA QuietMoves ==
  ASSUME NEW h \in Hal, NEW r, r.api \notin Api \ {"STOP_CAPTURE_CHANNEL"}
  PROVE  Moves(h, r, Quiet(h))
<1> DEFINE x == Quiet(h)
<1>1. x.hal = h /\ x.ans = <<>> BY DEF Quiet
<1> HIDE DEF x
<1>2. r.api # "STOP_CAPTURE_CHANNEL" => r.api \notin PictureApis BY DEF Api
<1>3. Answers(h, r, h, <<>>) BY DEF Answers
<1>4. Turns(h, r, h, <<>>) BY DEF Turns
<1>5. OfPicture(h, r, h, <<>>) BY <1>2 DEF OfPicture, PictureApis, SnapshotApis
<1>6. OfParams(h, r, h) BY DEF OfParams, Api, ParamApis
<1>7. Heeds(h, r, h, <<>>) BY DEF Heeds
<1>8. Leaves(h, h) BY DEF Leaves
<1> QED BY <1>1, <1>3, <1>4, <1>5, <1>6, <1>7, <1>8 DEF Moves, x

\* SET_PARAMS.
LEMMA UpdateMoves ==
  ASSUME NEW h \in Hal, NEW r, r.api = "SET_PARAMS", NEW x \in Reply(r, updateParameters(h, r))
  PROVE  Moves(h, r, x)
<1>1. PICK y \in updateParameters(h, r) : x.hal = y.h /\ x.ans = <<Result(r.api, y.ok)>> BY ReplyIs
<1> DEFINE g == y.h
<1>2. y.ok \in BOOLEAN /\ Only(h, g, {"restart", "zslNew", "fails"}) /\ (r.arg # "zsl" => g.zslNew = h.zslNew)
  BY UpdateIs DEF Outcome
<1>3. Only(h, g, Others) BY <1>2 DEF Only, Others
<1>4. OfParams(h, r, g) BY <1>2 DEF OfParams, Only
<1>5. Fits(h) => Fits(g) BY <1>2 DEF Only, Fits, isCaptureRunning, Films
<1>6. g.state = h.state BY <1>2 DEF Only
<1>7. Wanted(h) => Wanted(g) BY <1>2 DEF Only, Wanted
<1>8. r.api \notin PictureApis BY DEF PictureApis, SnapshotApis
<1> QED BY <1>1, <1>2, <1>3, <1>4, <1>5, <1>6, <1>7, <1>8, OrdinaryMoves DEF isCaptureRunning

\* SET_PARAMS_COMMIT.
LEMMA CommitMoves ==
  ASSUME NEW h \in Hal, NEW r, r.api = "SET_PARAMS_COMMIT", NEW x \in Reply(r, commitParameterChanges(h))
  PROVE  Moves(h, r, x)
<1>1. PICK y \in commitParameterChanges(h) : x.hal = y.h /\ x.ans = <<Result(r.api, y.ok)>> BY ReplyIs
<1> DEFINE g == y.h
<1>2. y.ok \in BOOLEAN /\ Only(h, g, {"zsl", "fails"}) /\ g.zsl \in {h.zsl, h.zslNew}
  BY CommitParametersIs DEF Outcome
<1>3. Only(h, g, Others) BY <1>2 DEF Only, Others
<1>4. OfParams(h, r, g) BY <1>2 DEF OfParams, Only
<1>5. Fits(h) /\ Careful(h, r) => Fits(g)
  BY <1>2 DEF Only, Fits, isCaptureRunning, Films, Careful
<1>6. g.state = h.state BY <1>2 DEF Only
<1>7. Wanted(h) => Wanted(g) BY <1>2 DEF Only, Wanted
<1>8. r.api \notin PictureApis BY DEF PictureApis, SnapshotApis
<1> QED BY <1>1, <1>2, <1>3, <1>4, <1>5, <1>6, <1>7, <1>8, OrdinaryMoves DEF isCaptureRunning

\* SET_PARAMS_RESTART where nothing is restarted.
LEMMA ClearMoves ==
  ASSUME NEW h \in Hal, NEW r, r.api = "SET_PARAMS_RESTART",
         NEW x \in Accepted([h EXCEPT !.restart = FALSE], r)
  PROVE  Moves(h, r, x)
<1> DEFINE g == [h EXCEPT !.restart = FALSE]
<1>1. x.hal = g /\ x.ans = <<Result(r.api, TRUE)>> BY AcceptedIs
<1>2. Only(h, g, {"restart"}) BY DEF Only, Hal
<1> HIDE DEF g
<1>3. Only(h, g, Others) BY <1>2 DEF Only, Others
<1>4. OfParams(h, r, g) BY <1>2 DEF OfParams, Only
<1>5. Fits(h) => Fits(g) BY <1>2 DEF Only, Fits, isCaptureRunning, Films
<1>6. g.state = h.state BY <1>2 DEF Only
<1>7. Wanted(h) => Wanted(g) BY <1>2 DEF Only, Wanted
<1>8. r.api \notin PictureApis BY DEF PictureApis, SnapshotApis
<1> QED BY <1>1, <1>3, <1>4, <1>5, <1>6, <1>7, <1>8, OrdinaryMoves DEF isCaptureRunning

\* What SEND_COMMAND does to the longshot and to the picture.
LEMMA CommandIs ==
  ASSUME NEW h \in Hal, NEW r, NEW x \in sendCommand(h, r)
  PROVE  /\ \E b \in BOOLEAN : x.ans = <<Result(r.api, b)>>
         /\ Only(h, x.hal, {"longshot", "pic", "cap", "post"})
         /\ x.hal.pic => h.pic
         /\ IF r.arg = "off"
              THEN /\ ~x.hal.longshot
                   /\ IF h.longshot /\ isCaptureRunning(h) THEN ~x.hal.pic /\ (x.hal.cap <=> h.cap /\ h.zsl)
                      ELSE x.hal.cap = h.cap
              ELSE x.hal.cap = h.cap /\ (h.longshot => x.hal.longshot)
<1> DEFINE long == [h EXCEPT !.longshot = TRUE]
           off == longshotOff(h)
           y == IF r.arg = "off" THEN Ok(off) ELSE IF isCaptureRunning(h) THEN Bad(h) ELSE Ok(long)
<1>1. x.hal = y.h /\ x.ans = <<Result(r.api, y.ok)>>
  <2>1. x \in Reply(r, {y}) BY DEF sendCommand
  <2> HIDE DEF y
  <2> QED BY <2>1, ReplyIs
<1>2. Only(h, long, {"longshot"}) /\ long.longshot BY DEF Only, Hal
<1>3. /\ Only(h, off, {"longshot", "pic", "cap", "post"}) /\ ~off.longshot
      /\ IF h.longshot /\ isCaptureRunning(h) THEN ~off.pic /\ (off.cap <=> h.cap /\ h.zsl)
         ELSE off.pic = h.pic /\ off.cap = h.cap /\ off.post = h.post
  BY LongshotOffIs
<1> HIDE DEF long, off
<1>4. y.ok \in BOOLEAN /\ y.h = IF r.arg = "off" THEN off ELSE IF isCaptureRunning(h) THEN h ELSE long
  BY DEF Ok, Bad
<1> HIDE DEF y
<1>5. Only(h, x.hal, {"longshot", "pic", "cap", "post"}) BY <1>1, <1>2, <1>3, <1>4 DEF Only
<1>6. \E b \in BOOLEAN : x.ans = <<Result(r.api, b)>> BY <1>1, <1>4
<1> QED BY <1>1, <1>2, <1>3, <1>4, <1>5, <1>6 DEF Only

\* SEND_COMMAND in the states without a picture.
LEMMA CommandMoves ==
  ASSUME NEW h \in Hal, NEW r, r.api = "SEND_COMMAND", NEW x \in sendCommand(h, r),
         h.state \notin {"PIC_TAKING", "PREVIEW_PIC_TAKING"}
  PROVE  Moves(h, r, x)
<1> DEFINE g == x.hal
<1>1. /\ \E b \in BOOLEAN : x.ans = <<Result(r.api, b)>>
      /\ Only(h, g, {"longshot", "pic", "cap", "post"}) /\ (g.pic => h.pic)
      /\ g.cap => h.cap
  BY CommandIs
<1>3. Only(h, g, Others) BY <1>1 DEF Only, Others
<1>4. OfParams(h, r, g) BY DEF OfParams
<1>5. Fits(h) => Fits(g) BY <1>1 DEF Only, Fits, isCaptureRunning, Films
<1>6. g.state = h.state BY <1>1 DEF Only
<1>7. Wanted(h) => Wanted(g) BY <1>1 DEF Only, Wanted
<1>8. r.api \notin PictureApis BY DEF PictureApis, SnapshotApis
<1> QED BY <1>1, <1>3, <1>4, <1>5, <1>6, <1>7, <1>8, OrdinaryMoves DEF isCaptureRunning

-----------------------------------------------------------------------------
(* The states, one by one. *)

\* The state after an operation that was entered with one of two states.
Entered(r, x, y, a, b) ==
  /\ y.ok \in BOOLEAN /\ x.ans = <<Result(r.api, y.ok)>> /\ Only(y.h, x.hal, {"state"})
  /\ (y.ok => x.hal.state = a) /\ (~y.ok => x.hal.state = b)

\* An answered request that ends in such a state.
LEMMA EnteredIs ==
  ASSUME NEW r, NEW outcomes \in SUBSET Outcome, NEW a \in State, NEW b \in State,
         NEW x \in Reply(r, Enter(outcomes, a, b))
  PROVE  \E y \in outcomes : Entered(r, x, y, a, b)
<1>1. PICK z \in Enter(outcomes, a, b) : x.hal = z.h /\ x.ans = <<Result(r.api, z.ok)>> BY ReplyIs
<1>2. PICK y \in outcomes : z.ok = y.ok /\ Only(y.h, z.h, {"state"})
                            /\ z.h.state = IF y.ok THEN a ELSE b
  BY EnterIs
<1>3. y.ok \in BOOLEAN BY DEF Outcome
<1> QED BY <1>1, <1>2, <1>3 DEF Entered

\* Every request in PREVIEW_STOPPED.
LEMMA StoppedMoves ==
  ASSUME NEW h \in Hal, NEW r, h.state = "STOPPED", NEW x \in Stopped(h, r)
  PROVE  Moves(h, r, x)
<1>0. r.api \notin {"ENABLE_MSG_TYPE"} \/ r.api \in MsgApis BY DEF MsgApis
<1>1. CASE r.api \in MsgApis
  <2>1. x \in enableMsg(h, r) BY <1>1 DEF Stopped, MsgApis, RecordingApis, SnapshotApis
  <2> QED BY <1>1, <2>1, EnableMoves
<1>2. CASE r.api = "SET_PREVIEW_WINDOW"
  <2> DEFINE g == [h EXCEPT !.window = TRUE]
  <2>1. x \in Accepted(g, r) BY <1>2 DEF Stopped, MsgApis, RecordingApis, SnapshotApis
  <2>2. Only(h, g, {"window"}) BY DEF Only, Hal
  <2> HIDE DEF g
  <2>3. x.hal = g /\ x.ans = <<Result(r.api, TRUE)>> BY <2>1, AcceptedIs
  <2>4. Only(h, g, Others) BY <2>2 DEF Only, Others
  <2>5. OfParams(h, r, g) BY <1>2 DEF OfParams
  <2>6. Fits(h) => Fits(g) BY <2>2 DEF Only, Fits, isCaptureRunning, Films
  <2>7. g.state = h.state /\ (Wanted(h) => Wanted(g)) BY <2>2 DEF Only, Wanted
  <2>8. r.api \notin PictureApis BY <1>2 DEF PictureApis, SnapshotApis
  <2> QED BY <1>2, <2>3, <2>4, <2>5, <2>6, <2>7, <2>8, OrdinaryMoves DEF isCaptureRunning
<1>3. CASE r.api = "SET_PARAMS"
  BY <1>3, UpdateMoves DEF Stopped, MsgApis, RecordingApis, SnapshotApis
<1>4. CASE r.api = "SET_PARAMS_COMMIT"
  BY <1>4, CommitMoves DEF Stopped, MsgApis, RecordingApis, SnapshotApis
<1>5. CASE r.api = "SET_PARAMS_RESTART"
  BY <1>5, ClearMoves DEF Stopped, MsgApis, RecordingApis, SnapshotApis
<1>6. CASE r.api = "START_PREVIEW" /\ h.window
  <2> DEFINE ops == PrepareAndStart(h, TRUE)
  <2>1. x \in Reply(r, Enter(ops, "PREVIEWING", "STOPPED")) BY <1>6 DEF Stopped, MsgApis, RecordingApis, SnapshotApis
  <2>2. \A y \in ops : y \in Outcome /\ Only(h, y.h, Starting) /\ Ended(h, y.h)
            /\ (y.h.video => h.video) /\ (Wanted(h) => Wanted(y.h)) /\ (~y.ok => (y.h.on => h.on))
    BY PrepareAndStartIs
  <2> HIDE DEF ops
  <2>3. PICK y \in ops : Entered(r, x, y, "PREVIEWING", "STOPPED")
    <3>1. ops \in SUBSET Outcome BY <2>2
    <3>2. "PREVIEWING" \in State /\ "READY" \in State /\ "STOPPED" \in State BY DEF State
    <3> QED BY <2>1, <3>1, <3>2, EnteredIs
  <2> DEFINE g == x.hal
  <2>4. Only(h, g, Others) BY <2>2, <2>3 DEF Entered, Only, Starting, Preparing, Others
  <2>5. OfParams(h, r, g) BY <1>6 DEF OfParams
  <2>6. Fits(h) => Fits(g)
    BY <2>2, <2>3 DEF Entered, Only, Fits, isCaptureRunning, Films, Ended, Starting, Preparing
  <2>7. Wanted(h) => Wanted(g) BY <2>2, <2>3 DEF Entered, Only, Wanted
  <2>8. r.api \notin PictureApis BY <1>6 DEF PictureApis, SnapshotApis
  <2> QED BY <1>6, <2>3, <2>4, <2>5, <2>6, <2>7, <2>8, OrdinaryMoves DEF isCaptureRunning, Entered
<1>7. CASE (r.api = "START_PREVIEW" /\ ~h.window) \/ r.api = "PREPARE_PREVIEW"
  <2> DEFINE ops == preparePreview(h)
  <2>1. x \in Reply(r, Enter(ops, "READY", "STOPPED")) BY <1>7 DEF Stopped, MsgApis, RecordingApis, SnapshotApis
  <2>2. \A y \in ops : y \in Outcome /\ Only(h, y.h, Preparing) /\ Ended(h, y.h)
            /\ (y.ok => ~y.h.on) /\ (~y.ok => y.h.on = h.on)
    BY PrepareIs
  <2> HIDE DEF ops
  <2>3. PICK y \in ops : Entered(r, x, y, "READY", "STOPPED")
    <3>1. ops \in SUBSET Outcome BY <2>2
    <3>2. "PREVIEWING" \in State /\ "READY" \in State /\ "STOPPED" \in State BY DEF State
    <3> QED BY <2>1, <3>1, <3>2, EnteredIs
  <2> DEFINE g == x.hal
  <2>4. Only(h, g, Others) BY <2>2, <2>3 DEF Entered, Only, Preparing, Others
  <2>5. OfParams(h, r, g) BY <1>7 DEF OfParams
  <2>6. Fits(h) => Fits(g)
    BY <2>2, <2>3 DEF Entered, Only, Fits, isCaptureRunning, Films, Ended, Preparing
  <2>7. Wanted(h) => Wanted(g) BY <2>2, <2>3 DEF Entered, Only, Wanted, Preparing
  <2>8. r.api \notin PictureApis BY <1>7 DEF PictureApis, SnapshotApis
  <2> QED BY <1>7, <2>3, <2>4, <2>5, <2>6, <2>7, <2>8, OrdinaryMoves DEF isCaptureRunning, Entered
<1>8. CASE r.api = "RELEASE"
  <2> DEFINE k == unpreparePreview(h)
             g == [k EXCEPT !.cap = FALSE]
  <2>1. x \in Accepted(g, r) BY <1>8 DEF Stopped, MsgApis, RecordingApis, SnapshotApis
  <2>2. Only(h, k, {"chan", "on", "video"}) /\ ~k.on /\ ~k.video BY UnprepareIs
  <2>3. k \in Hal BY <2>2 DEF Only
  <2> HIDE DEF k
  <2>4. Only(k, g, {"cap"}) /\ ~g.cap BY <2>3 DEF Only, Hal
  <2> HIDE DEF g
  <2>5. x.hal = g /\ x.ans = <<Result(r.api, TRUE)>> BY <2>1, AcceptedIs
  <2>6. Only(h, g, Others) BY <2>2, <2>4 DEF Only, Others
  <2>7. OfParams(h, r, g) BY <1>8 DEF OfParams
  <2>8. Fits(h) => Fits(g) BY <2>2, <2>4 DEF Only, Fits, isCaptureRunning, Films
  <2>9. g.state = h.state /\ (Wanted(h) => Wanted(g)) BY <2>2, <2>4 DEF Only, Wanted
  <2>10. r.api \notin PictureApis BY <1>8 DEF PictureApis, SnapshotApis
  <2> QED BY <1>8, <2>5, <2>6, <2>7, <2>8, <2>9, <2>10, OrdinaryMoves DEF isCaptureRunning
<1>9. CASE r.api = "SEND_COMMAND"
  BY <1>9, CommandMoves DEF Stopped, MsgApis, RecordingApis, SnapshotApis
<1>10. CASE r.api \in {"GET_PARAMS", "SET_PARAMS_STOP", "STOP_PREVIEW", "CANCEL_PICTURE"}
  <2>1. x \in Accepted(h, r) BY <1>10 DEF Stopped, MsgApis, RecordingApis, SnapshotApis
  <2> QED BY <1>10, <2>1, AcceptedMoves DEF isCaptureRunning
<1>11. CASE r.api \in RecordingApis \cup {"STOP_RECORDING"} \cup SnapshotApis
  <2>1. x \in Refused(h, r) BY <1>11 DEF Stopped, MsgApis, RecordingApis, SnapshotApis
  <2> QED BY <1>11, <2>1, RefusedMoves DEF isCaptureRunning, RecordingApis, SnapshotApis
<1>12. CASE r.api \notin Api \ {"STOP_CAPTURE_CHANNEL"}
  <2>1. x = Quiet(h) BY <1>12 DEF Stopped, MsgApis, Api, PictureApis, RecordingApis, SnapshotApis, ParamApis
  <2> QED BY <1>12, <2>1, QuietMoves
<1> QED BY <1>1, <1>2, <1>3, <1>4, <1>5, <1>6, <1>7, <1>8, <1>9, <1>10, <1>11, <1>12
        DEF Api, PictureApis, SnapshotApis, ParamApis

\* startPreview at the end of a delay.
LEMMA StartDelayedIs ==
  ASSUME NEW h \in Hal, NEW s \in startPreview(applyDelayedMsgs(h))
  PROVE  /\ s \in Outcome /\ Only(h, s.h, {"enabled", "delayed", "delay", "on", "fails"})
         /\ Wanted(h) => Wanted(s.h)
<1> DEFINE d == applyDelayedMsgs(h)
<1>1. Only(h, d, {"enabled", "delayed", "delay"}) /\ (Wanted(h) => Wanted(d)) BY DelayedIs
<1>2. d \in Hal BY <1>1 DEF Only
<1>3. s \in startPreview(d) OBVIOUS
<1> HIDE DEF d
<1>4. s \in Outcome /\ Only(d, s.h, {"on", "fails"}) BY <1>2, <1>3, StartIs
<1> QED BY <1>1, <1>4 DEF Only, Wanted

\* A restart clears its flag and leaves the rest as it is.
LEMMA ClearIs ==
  ASSUME NEW r, NEW outcomes \in SUBSET Outcome, NEW x \in Reply(r, clearRestart(outcomes))
  PROVE  \E y \in outcomes : /\ y \in Outcome /\ x.ans = <<Result(r.api, y.ok)>>
                             /\ Only(y.h, x.hal, {"restart"})
<1>1. PICK z \in clearRestart(outcomes) : x.hal = z.h /\ x.ans = <<Result(r.api, z.ok)>> BY ReplyIs
<1>2. PICK y \in outcomes : z = [y EXCEPT !.h.restart = FALSE] BY DEF clearRestart
<1> DEFINE g == [y.h EXCEPT !.restart = FALSE]
<1>3. y \in Outcome /\ y.h \in Hal BY DEF Outcome
<1>4. z.h = g /\ z.ok = y.ok BY <1>2, <1>3 DEF Outcome
<1>5. Only(y.h, g, {"restart"}) BY <1>3 DEF Only, Hal
<1> HIDE DEF g
<1> QED BY <1>1, <1>3, <1>4, <1>5

\* Every request in PREVIEW_READY.
LEMMA ReadyMoves ==
  ASSUME NEW h \in Hal, NEW r, h.state = "READY", NEW x \in Ready(h, r)
  PROVE  Moves(h, r, x)
<1> USE DEF MsgApis, RecordingApis, SnapshotApis
<1>1. CASE r.api \in MsgApis
  <2>1. x \in enableMsg(h, r) BY <1>1 DEF Ready
  <2> QED BY <1>1, <2>1, EnableMoves
<1>2. CASE r.api = "SET_PREVIEW_WINDOW" \/ (r.api = "START_PREVIEW" /\ h.window)
  <2> DEFINE k == IF r.api = "SET_PREVIEW_WINDOW" THEN [h EXCEPT !.window = TRUE] ELSE h
             ops == startPreview(IF r.api = "SET_PREVIEW_WINDOW" THEN applyDelayedMsgs(k) ELSE k)
  <2>1. Only(h, k, {"window"})
    <3>1. Only(h, [h EXCEPT !.window = TRUE], {"window"}) BY DEF Only, Hal
    <3>2. Only(h, h, {"window"}) BY DEF Only
    <3> QED BY <3>1, <3>2
  <2>2. k \in Hal BY <2>1 DEF Only
  <2>2a. ASSUME NEW s \in ops
         PROVE  s \in Outcome /\ Only(k, s.h, {"enabled", "delayed", "delay", "on", "fails"}) /\ (Wanted(k) => Wanted(s.h))
    <3> HIDE DEF k
    <3>1. CASE s \in startPreview(applyDelayedMsgs(k)) BY <2>2, <3>1, StartDelayedIs
    <3>2. CASE s \in startPreview(k) BY <2>2, <3>2, StartIs DEF Only, Wanted
    <3> QED BY <3>1, <3>2
  <2>3. PICK s \in ops : /\ \E b \in BOOLEAN : x.ans = <<Result(r.api, b)>>
                         /\ x.hal = IF s.ok THEN [s.h EXCEPT !.state = "PREVIEWING"]
                                    ELSE [unpreparePreview(s.h) EXCEPT !.state = "STOPPED"]
    <3>1. CASE r.api = "SET_PREVIEW_WINDOW"
      <4> DEFINE outs == {IF s.ok THEN [s EXCEPT !.h.state = "PREVIEWING"]
                          ELSE Bad([unpreparePreview(s.h) EXCEPT !.state = "STOPPED"]) : s \in ops}
      <4>1. x \in Reply(r, outs) BY <3>1 DEF Ready
      <4>2. PICK y \in outs : x.hal = y.h /\ x.ans = <<Result(r.api, y.ok)>> BY <4>1, ReplyIs
      <4>3. PICK s \in ops : y = IF s.ok THEN [s EXCEPT !.h.state = "PREVIEWING"]
                                 ELSE Bad([unpreparePreview(s.h) EXCEPT !.state = "STOPPED"])
        OBVIOUS
      <4>4. s \in Outcome BY <2>2a
      <4> DEFINE a == [s.h EXCEPT !.state = "PREVIEWING"]
                 b == [unpreparePreview(s.h) EXCEPT !.state = "STOPPED"]
      <4>5. y = IF s.ok THEN [s EXCEPT !.h = a] ELSE Bad(b) BY <4>3, <4>4 DEF Outcome
      <4> HIDE DEF a, b
      <4>6. y.ok \in BOOLEAN /\ y.h = IF s.ok THEN a ELSE b BY <4>4, <4>5 DEF Outcome, Bad
      <4> QED BY <4>2, <4>6 DEF a, b
    <3>2. CASE r.api = "START_PREVIEW" /\ h.window
      <4> DEFINE outs == {Ok(IF s.ok THEN [s.h EXCEPT !.state = "PREVIEWING"]
                             ELSE [unpreparePreview(s.h) EXCEPT !.state = "STOPPED"]) : s \in ops}
      <4>1. x \in Reply(r, outs) BY <3>2 DEF Ready
      <4>2. PICK y \in outs : x.hal = y.h /\ x.ans = <<Result(r.api, y.ok)>> BY <4>1, ReplyIs
      <4>3. PICK s \in ops : y = Ok(IF s.ok THEN [s.h EXCEPT !.state = "PREVIEWING"]
                                    ELSE [unpreparePreview(s.h) EXCEPT !.state = "STOPPED"])
        OBVIOUS
      <4> DEFINE a == [s.h EXCEPT !.state = "PREVIEWING"]
                 b == [unpreparePreview(s.h) EXCEPT !.state = "STOPPED"]
      <4> HIDE DEF a, b
      <4>4. y.ok \in BOOLEAN /\ y.h = IF s.ok THEN a ELSE b BY <4>3 DEF Ok, a, b
      <4> QED BY <4>2, <4>4 DEF a, b
    <3> QED BY <1>2, <3>1, <3>2
  <2>4. s \in Outcome /\ Only(k, s.h, {"enabled", "delayed", "delay", "on", "fails"}) /\ (Wanted(k) => Wanted(s.h))
    BY <2>2a
  <2> HIDE DEF k, ops
  <2> DEFINE g == x.hal
             u == unpreparePreview(s.h)
  <2>5. s.h \in Hal /\ s.ok \in BOOLEAN BY <2>4 DEF Outcome
  <2>6. Only(s.h, u, {"chan", "on", "video"}) /\ ~u.on /\ ~u.video BY <2>5, UnprepareIs
  <2>7. u \in Hal BY <2>6 DEF Only
  <2>8. "PREVIEWING" \in State /\ "STOPPED" \in State BY DEF State
  <2>9. IF s.ok THEN Only(s.h, g, {"state"}) /\ g.state = "PREVIEWING"
        ELSE Only(u, g, {"state"}) /\ g.state = "STOPPED"
    BY <2>3, <2>5, <2>7, <2>8, InState
  <2> HIDE DEF u, g
  <2>10. Only(h, g, Others) BY <2>1, <2>4, <2>6, <2>9 DEF Only, Others
  <2>11. OfParams(h, r, g) BY <1>2 DEF OfParams
  <2>12. Fits(h) => Fits(g) BY <2>1, <2>4, <2>6, <2>9 DEF Only, Fits, isCaptureRunning, Films
  <2>13. Wanted(h) => Wanted(g) BY <2>1, <2>4, <2>6, <2>9 DEF Only, Wanted
  <2>14. r.api \notin PictureApis BY <1>2 DEF PictureApis
  <2>15. g.state \in {"PREVIEWING", "STOPPED"} BY <2>9
  <2> QED BY <1>2, <2>3, <2>10, <2>11, <2>12, <2>13, <2>14, <2>15, OrdinaryMoves DEF isCaptureRunning, g
<1>3. CASE r.api = "START_PREVIEW" /\ ~h.window
  <2>1. x \in Reply(r, {Ok(h)}) BY <1>3 DEF Ready
  <2> QED BY <1>3, <2>1, AcceptedMoves DEF Accepted
<1>4. CASE r.api = "SET_PARAMS"
  BY <1>4, UpdateMoves DEF Ready
<1>5. CASE r.api = "SET_PARAMS_STOP" \/ r.api = "STOP_PREVIEW"
  <2> DEFINE u == unpreparePreview(h)
             g == IF r.api = "STOP_PREVIEW" THEN [u EXCEPT !.state = "STOPPED"] ELSE u
  <2>1. x \in Accepted(g, r) BY <1>5 DEF Ready
  <2>2. Only(h, u, {"chan", "on", "video"}) /\ ~u.on /\ ~u.video BY UnprepareIs
  <2>3. u \in Hal BY <2>2 DEF Only
  <2> HIDE DEF u
  <2>4. Only(u, g, {"state"}) /\ g.state \in {"STOPPED", u.state} BY <2>3 DEF Only, Hal, State
  <2> HIDE DEF g
  <2>5. x.hal = g /\ x.ans = <<Result(r.api, TRUE)>> BY <2>1, AcceptedIs
  <2>6. Only(h, g, {"chan", "on", "video", "state"}) /\ ~g.on /\ g.state \in {"STOPPED", "READY"}
    BY <2>2, <2>4 DEF Only
  <2>7. Only(h, g, Others) BY <2>6 DEF Only, Others
  <2>8. OfParams(h, r, g) BY <1>5, <2>6 DEF OfParams, Only
  <2>9. Fits(h) => Fits(g) BY <2>2, <2>4, <2>6 DEF Only, Fits, isCaptureRunning, Films
  <2>10. Wanted(h) => Wanted(g) BY <2>6 DEF Only, Wanted
  <2>11. r.api \notin PictureApis BY <1>5 DEF PictureApis
  <2> QED BY <1>5, <2>5, <2>6, <2>7, <2>8, <2>9, <2>10, <2>11, OrdinaryMoves DEF isCaptureRunning
<1>6. CASE r.api = "SET_PARAMS_COMMIT"
  BY <1>6, CommitMoves DEF Ready
<1>7. CASE r.api = "SET_PARAMS_RESTART"
  <2> DEFINE ops == preparePreview(h)
             outs == Enter(ops, "READY", "STOPPED")
  <2>1. x \in Reply(r, clearRestart(outs)) BY <1>7 DEF Ready
  <2>2. \A y \in ops : y \in Outcome /\ Only(h, y.h, Preparing) /\ Ended(h, y.h)
            /\ (y.ok => ~y.h.on) /\ (~y.ok => y.h.on = h.on)
    BY PrepareIs
  <2>3. ops \in SUBSET Outcome BY <2>2
  <2>4. "READY" \in State /\ "STOPPED" \in State BY DEF State
  <2> HIDE DEF ops
  <2>5. outs \in SUBSET Outcome BY <2>3, <2>4, StateIs
  <2>6. PICK z \in outs : z \in Outcome /\ x.ans = <<Result(r.api, z.ok)>> /\ Only(z.h, x.hal, {"restart"})
    <3> HIDE DEF outs
    <3> QED BY <2>1, <2>5, ClearIs
  <2>7. PICK y \in ops : z.ok = y.ok /\ Only(y.h, z.h, {"state"})
                         /\ z.h.state = IF y.ok THEN "READY" ELSE "STOPPED"
    BY <2>3, <2>4, EnterIs
  <2>8. z.ok \in BOOLEAN BY <2>6 DEF Outcome
  <2> DEFINE g == x.hal
  <2>9. Only(h, g, Others) BY <2>2, <2>6, <2>7 DEF Only, Preparing, Others
  <2>10. OfParams(h, r, g) BY <1>7, <2>2, <2>6, <2>7 DEF OfParams, Only, Preparing
  <2>11. Fits(h) => Fits(g)
    BY <2>2, <2>6, <2>7 DEF Only, Fits, isCaptureRunning, Films, Ended, Preparing
  <2>12. Wanted(h) => Wanted(g) BY <2>2, <2>6, <2>7 DEF Only, Wanted, Preparing
  <2>13. r.api \notin PictureApis BY <1>7 DEF PictureApis
  <2>14. g.state \in {"READY", "STOPPED"} BY <2>6, <2>7 DEF Only
  <2> QED BY <1>7, <2>6, <2>8, <2>9, <2>10, <2>11, <2>12, <2>13, <2>14, OrdinaryMoves DEF isCaptureRunning
<1>8. CASE r.api = "SEND_COMMAND"
  BY <1>8, CommandMoves DEF Ready
<1>9. CASE r.api \in {"GET_PARAMS", "PREPARE_PREVIEW"}
  <2>1. x \in Accepted(h, r) BY <1>9 DEF Ready
  <2> QED BY <1>9, <2>1, AcceptedMoves DEF isCaptureRunning
<1>10. CASE r.api \in {"CANCEL_PICTURE", "RELEASE", "STOP_RECORDING"} \cup RecordingApis \cup SnapshotApis
  <2>1. x \in Refused(h, r) BY <1>10 DEF Ready
  <2> QED BY <1>10, <2>1, RefusedMoves DEF isCaptureRunning
<1>11. CASE r.api \notin Api \ {"STOP_CAPTURE_CHANNEL"}
  <2>1. x = Quiet(h) BY <1>11 DEF Ready, Api, PictureApis, ParamApis
  <2> QED BY <1>11, <2>1, QuietMoves
<1> QED BY <1>1, <1>2, <1>3, <1>4, <1>5, <1>6, <1>7, <1>8, <1>9, <1>10, <1>11
        DEF Api, PictureApis, ParamApis

\* Every request in PREPARE_SNAPSHOT.
LEMMA PrepareSnapshotMoves ==
  ASSUME NEW h \in Hal, NEW r, h.state = "PREPARE_SNAPSHOT", NEW x \in PrepareSnapshot(h, r)
  PROVE  Moves(h, r, x)
<1>1. CASE r.api = "STOP_CAPTURE_CHANNEL"
  BY <1>1, QuietMoves DEF PrepareSnapshot, Api
<1>2. CASE r.api # "STOP_CAPTURE_CHANNEL"
  BY <1>2, RefusedMoves DEF PrepareSnapshot, isCaptureRunning
<1> QED BY <1>1, <1>2

\* SEND_COMMAND in the states of a picture.
LEMMA LongshotCommandMoves ==
  ASSUME NEW h \in Hal, NEW r, r.api = "SEND_COMMAND", NEW x \in LongshotCommand(h, r),
         h.state \in {"PIC_TAKING", "PREVIEW_PIC_TAKING"}
  PROVE  Moves(h, r, x)
<1>1. PICK y \in sendCommand(h, r) : x = [y EXCEPT !.hal.state = IF r.arg = "off" THEN "PREVIEWING" ELSE @]
  BY DEF LongshotCommand
<1>2. /\ \E b \in BOOLEAN : y.ans = <<Result(r.api, b)>>
      /\ Only(h, y.hal, {"longshot", "pic", "cap", "post"}) /\ (y.hal.pic => h.pic)
      /\ IF r.arg = "off"
           THEN /\ ~y.hal.longshot
                /\ IF h.longshot /\ isCaptureRunning(h) THEN ~y.hal.pic /\ (y.hal.cap <=> h.cap /\ h.zsl)
                   ELSE y.hal.cap = h.cap
           ELSE y.hal.cap = h.cap /\ (h.longshot => y.hal.longshot)
  BY CommandIs
<1> DEFINE k == y.hal
           t == IF r.arg = "off" THEN "PREVIEWING" ELSE k.state
           g == [k EXCEPT !.state = t]
<1>3. k \in Hal /\ t \in State BY <1>2 DEF Only, Hal, State
<1>4. Only(k, g, {"state"}) /\ g.state = t BY <1>3, InState
<1>5. x.hal = g /\ x.ans = y.ans
  <2>1. \E z : y = [hal |-> z.h, ans |-> <<Result(r.api, z.ok)>>] BY DEF sendCommand, Reply
  <2>2. x = [y EXCEPT !.hal = g] BY <1>1, <2>1
  <2> HIDE DEF g
  <2> QED BY <2>1, <2>2
<1> HIDE DEF g
<1>6. Only(h, g, Others) BY <1>2, <1>4 DEF Only, Others
<1>7. OfParams(h, r, g) BY DEF OfParams
<1>8. Fits(h) /\ Careful(h, r) => Fits(g)
  BY <1>2, <1>4 DEF Only, Fits, isCaptureRunning, Films, Careful
<1>9. g.state \in {"PREVIEWING", h.state} BY <1>2, <1>4 DEF Only
<1>10. Wanted(h) => Wanted(g) BY <1>2, <1>4 DEF Only, Wanted
<1>11. r.api \notin PictureApis BY DEF PictureApis, SnapshotApis
<1> HIDE DEF k
<1> QED BY <1>2, <1>5, <1>6, <1>7, <1>8, <1>9, <1>10, <1>11, OrdinaryMoves DEF isCaptureRunning, k

\* One more picture of a longshot.
More(h, r) ==
  Reply(r, IF ~h.longshot THEN {Bad(h)} ELSE IF r.api = "TAKE_PICTURE" THEN longShot(h) ELSE {Ok(h)})

\* A picture on top of another.
LEMMA MoreMoves ==
  ASSUME NEW h \in Hal, NEW r, r.api \in {"PRE_TAKE_PICTURE", "TAKE_PICTURE"},
         h.state \in {"PIC_TAKING", "PREVIEW_PIC_TAKING"},
         NEW x \in More(h, r)
  PROVE  Moves(h, r, x)
<1>1. CASE ~h.longshot
  <2>1. x \in Refused(h, r) BY <1>1 DEF Refused, More
  <2> QED BY <2>1, RefusedMoves
<1>2. CASE h.longshot /\ r.api = "PRE_TAKE_PICTURE"
  <2>1. x \in Accepted(h, r) BY <1>2 DEF Accepted, More
  <2> QED BY <1>2, <2>1, AcceptedMoves
<1>3. CASE h.longshot /\ r.api = "TAKE_PICTURE"
  <2>1. x \in Reply(r, longShot(h)) BY <1>3 DEF More
  <2>2. PICK y \in longShot(h) : x.hal = y.h /\ x.ans = <<Result(r.api, y.ok)>> BY <2>1, ReplyIs
  <2> DEFINE g == y.h
  <2>3. y.ok \in BOOLEAN /\ Only(h, g, {"pic", "fails"}) BY LongShotIs DEF Outcome
  <2>4. Leaves(h, g) BY <2>3 DEF Leaves, Only
  <2>5. Answers(h, r, g, x.ans) BY <2>2, <2>3 DEF Answers, Only
  <2>6. Turns(h, r, g, x.ans) BY <2>3 DEF Turns, Only, isCaptureRunning
  <2>7. OfPicture(h, r, g, x.ans) BY <1>3, <2>3 DEF OfPicture, Only
  <2>8. OfParams(h, r, g) BY <1>3 DEF OfParams
  <2>9. Heeds(h, r, g, x.ans)
    BY <1>3, <2>2, <2>3 DEF Heeds, Only, Wanted, Result
  <2>10. Fits(h) => Fits(g) BY <2>3 DEF Only, Fits, isCaptureRunning, Films
  <2> QED BY <2>2, <2>4, <2>5, <2>6, <2>7, <2>8, <2>9, <2>10 DEF Moves
<1> QED BY <1>1, <1>2, <1>3

\* Every request in PIC_TAKING.
LEMMA PicTakingMoves ==
  ASSUME NEW h \in Hal, NEW r, h.state = "PIC_TAKING", NEW x \in PicTaking(h, r)
  PROVE  Moves(h, r, x)
<1> USE DEF MsgApis, RecordingApis, SnapshotApis
<1>1. CASE r.api \in MsgApis
  <2>1. x \in enableMsg(h, r) BY <1>1 DEF PicTaking
  <2> QED BY <1>1, <2>1, EnableMoves
<1>2. CASE r.api = "SET_PARAMS"
  BY <1>2, UpdateMoves DEF PicTaking
<1>3. CASE r.api = "SET_PARAMS_COMMIT"
  BY <1>3, CommitMoves DEF PicTaking
<1>4. CASE r.api = "SET_PARAMS_RESTART"
  BY <1>4, ClearMoves DEF PicTaking
<1>5. CASE r.api \in {"STOP_PREVIEW", "CANCEL_PICTURE"}
  <2> DEFINE k == cancelPicture(h)
             g == [k EXCEPT !.state = "STOPPED"]
  <2>1. x \in Accepted(g, r) BY <1>5 DEF PicTaking
  <2>2. Only(h, k, {"pic", "cap"}) /\ ~k.pic /\ (k.cap <=> h.cap /\ h.zsl) BY CancelIs
  <2>3. k \in Hal /\ "STOPPED" \in State BY <2>2 DEF Only, State
  <2> HIDE DEF k
  <2>4. Only(k, g, {"state"}) /\ g.state = "STOPPED" BY <2>3, InState
  <2> HIDE DEF g
  <2>5. x.hal = g /\ x.ans = <<Result(r.api, TRUE)>> BY <2>1, AcceptedIs
  <2>6. Leaves(h, g) BY <2>2, <2>4 DEF Leaves, Only
  <2>7. Answers(h, r, g, x.ans) BY <2>2, <2>4, <2>5 DEF Answers, Only
  <2>8. Turns(h, r, g, x.ans) BY <2>4 DEF Turns, isCaptureRunning
  <2>9. OfPicture(h, r, g, x.ans) BY <1>5, <2>2, <2>4 DEF OfPicture, Only, isCaptureRunning, PictureApis
  <2>10. OfParams(h, r, g) BY <1>5 DEF OfParams
  <2>11. Heeds(h, r, g, x.ans) BY <1>5, <2>2, <2>4, <2>5 DEF Heeds, Only, Wanted, Result
  <2>12. Fits(h) => Fits(g) BY <2>2, <2>4 DEF Only, Fits, isCaptureRunning, Films
  <2> QED BY <2>5, <2>6, <2>7, <2>8, <2>9, <2>10, <2>11, <2>12 DEF Moves
<1>6. CASE r.api = "SEND_COMMAND"
  BY <1>6, LongshotCommandMoves DEF PicTaking
<1>7. CASE r.api \in {"PRE_TAKE_PICTURE", "TAKE_PICTURE"}
  <2>1. x \in More(h, r) BY <1>7 DEF PicTaking, More
  <2> QED BY <1>7, <2>1, MoreMoves
<1>8. CASE r.api = "STOP_CAPTURE_CHANNEL"
  <2> DEFINE k == [h EXCEPT !.cap = FALSE]
  <2>1. Only(h, k, {"cap"}) /\ ~k.cap BY DEF Only, Hal
  <2>2. k \in Hal BY <2>1 DEF Only
  <2>3. \E g : /\ x = Quiet(g) /\ (~EarlyRestart => g = k)
               /\ Only(h, g, Preparing \cup {"enabled", "delayed", "delay"})
               /\ Wanted(h) => Wanted(g)
    <3>1. CASE ~EarlyRestart
      <4>1. x = Quiet(k) BY <1>8, <3>1 DEF PicTaking
      <4> QED BY <3>1, <4>1, <2>1 DEF Only, Preparing, Wanted
    <3>2. CASE EarlyRestart
      <4> HIDE DEF k
      <4>1. PICK p \in preparePreview(k) : \E s \in (IF p.ok THEN startPreview(applyDelayedMsgs(p.h)) ELSE {p}) :
                x = Quiet(s.h)
        BY <1>8, <3>2 DEF PicTaking, k
      <4>2. PICK s \in (IF p.ok THEN startPreview(applyDelayedMsgs(p.h)) ELSE {p}) : x = Quiet(s.h) BY <4>1
      <4>3. p \in Outcome /\ Only(k, p.h, Preparing) BY <2>2, PrepareIs
      <4>4. p.h \in Hal BY <4>3 DEF Only
      <4>5. Only(p.h, s.h, {"enabled", "delayed", "delay", "on", "fails"}) /\ (Wanted(p.h) => Wanted(s.h))
        <5>1. CASE p.ok BY <4>2, <4>4, <5>1, StartDelayedIs
        <5>2. CASE ~p.ok
          <6>1. s = p BY <4>2, <5>2
          <6> QED BY <4>4, <6>1 DEF Only
        <5> QED BY <5>1, <5>2
      <4>6. Only(h, s.h, Preparing \cup {"enabled", "delayed", "delay"}) BY <2>1, <4>3, <4>5 DEF Only, Preparing
      <4>7. Wanted(h) => Wanted(s.h) BY <2>1, <4>3, <4>5 DEF Only, Preparing, Wanted
      <4> QED BY <3>2, <4>2, <4>6, <4>7
    <3> QED BY <3>1, <3>2
  <2> HIDE DEF k
  <2>4. PICK g : /\ x = Quiet(g) /\ (~EarlyRestart => g = k)
                 /\ Only(h, g, Preparing \cup {"enabled", "delayed", "delay"})
                 /\ Wanted(h) => Wanted(g)
    BY <2>3
  <2>5. x.hal = g /\ x.ans = <<>> BY <2>4 DEF Quiet
  <2>6. Leaves(h, g) BY <2>4 DEF Leaves, Only, Preparing
  <2>7. Answers(h, r, g, x.ans) BY <1>8, <2>4, <2>5 DEF Answers, Only, Preparing
  <2>8. Turns(h, r, g, x.ans) BY <2>4 DEF Turns, isCaptureRunning, Only, Preparing
  <2>9. ~EarlyRestart => OfPicture(h, r, g, x.ans) BY <1>8, <2>1, <2>4 DEF OfPicture, Only
  <2>10. OfParams(h, r, g) BY <1>8 DEF OfParams
  <2>11. Heeds(h, r, g, x.ans) BY <2>4, <2>5 DEF Heeds
  <2>12. Fits(h) /\ Careful(h, r) => Fits(g) BY <2>1, <2>4 DEF Only, Fits, isCaptureRunning, Films, Careful
  <2> QED BY <2>5, <2>6, <2>7, <2>8, <2>9, <2>10, <2>11, <2>12 DEF Moves
<1>9. CASE r.api \in {"GET_PARAMS", "SET_PARAMS_STOP"}
  <2>1. x \in Accepted(h, r) BY <1>9 DEF PicTaking
  <2> QED BY <1>9, <2>1, AcceptedMoves
<1>10. CASE r.api \in {"SET_PREVIEW_WINDOW", "PREPARE_PREVIEW", "START_PREVIEW", "PREPARE_SNAPSHOT",
                  "STOP_RECORDING", "RELEASE"} \cup RecordingApis
  <2>1. x \in Refused(h, r) BY <1>10 DEF PicTaking
  <2> QED BY <1>10, <2>1, RefusedMoves
<1>11. CASE r.api \notin Api
  <2>1. x = Quiet(h) BY <1>11 DEF PicTaking, Api, PictureApis, ParamApis
  <2> QED BY <1>11, <2>1, QuietMoves
<1> QED BY <1>1, <1>2, <1>3, <1>4, <1>5, <1>6, <1>7, <1>8, <1>9, <1>10, <1>11
        DEF Api, PictureApis, ParamApis

\* The parameters in the states of a recording.
LEMMA RecordingParamsMoves ==
  ASSUME NEW h \in Hal, NEW r, Films(h), r.api \in ParamApis, NEW x \in RecordingParams(h, r)
  PROVE  Moves(h, r, x)
<1> USE DEF ParamApis
<1>1. CASE r.api = "SET_PARAMS"
  <2> DEFINE ops == updateParameters(h, r)
             outs == {IF y.h.restart THEN Bad([y.h EXCEPT !.restart = FALSE]) ELSE y : y \in ops}
  <2>1. x \in Reply(r, outs) BY <1>1 DEF RecordingParams
  <2>2. PICK z \in outs : x.hal = z.h /\ x.ans = <<Result(r.api, z.ok)>> BY <2>1, ReplyIs
  <2>3. PICK y \in ops : z = IF y.h.restart THEN Bad([y.h EXCEPT !.restart = FALSE]) ELSE y OBVIOUS
  <2>4. y \in Outcome /\ Only(h, y.h, {"restart", "zslNew", "fails"}) /\ (r.arg # "zsl" => y.h.zslNew = h.zslNew)
    BY UpdateIs
  <2> HIDE DEF ops, outs
  <2> DEFINE k == [y.h EXCEPT !.restart = FALSE]
             g == z.h
  <2>5. y.h \in Hal /\ y.ok \in BOOLEAN BY <2>4 DEF Outcome
  <2>6. Only(y.h, k, {"restart"}) BY <2>5 DEF Only, Hal
  <2>6a. Only(y.h, y.h, {"restart"}) BY <2>5 DEF Only
  <2> HIDE DEF k
  <2>7. z.ok \in BOOLEAN /\ g \in {k, y.h} BY <2>3, <2>5 DEF Bad, k
  <2>8. Only(h, g, {"restart", "zslNew", "fails"}) /\ (r.arg # "zsl" => g.zslNew = h.zslNew)
    BY <2>4, <2>6, <2>6a, <2>7 DEF Only
  <2> HIDE DEF g
  <2>9. Only(h, g, Others) BY <2>8 DEF Only, Others
  <2>10. OfParams(h, r, g) BY <1>1, <2>8 DEF OfParams, Only
  <2>11. Fits(h) => Fits(g) BY <2>8 DEF Only, Fits, isCaptureRunning, Films
  <2>12. g.state = h.state /\ (Wanted(h) => Wanted(g)) BY <2>8 DEF Only, Wanted
  <2>13. r.api \notin PictureApis BY <1>1 DEF PictureApis, SnapshotApis
  <2> QED BY <1>1, <2>2, <2>7, <2>9, <2>10, <2>11, <2>12, <2>13, OrdinaryMoves DEF isCaptureRunning, g
<1>2. CASE r.api \in {"SET_PARAMS_STOP", "SET_PARAMS_RESTART"}
  <2>1. x \in Refused(h, r) BY <1>2 DEF RecordingParams
  <2> QED BY <1>2, <2>1, RefusedMoves DEF Films
<1>3. CASE r.api = "SET_PARAMS_COMMIT"
  BY <1>3, CommitMoves DEF RecordingParams
<1>4. CASE r.api = "GET_PARAMS"
  <2>1. x \in Accepted(h, r) BY <1>4 DEF RecordingParams
  <2> QED BY <1>4, <2>1, AcceptedMoves
<1> QED BY <1>1, <1>2, <1>3, <1>4

\* The end of a recording, after what ended its picture.
LEMMA StopRecordingIs ==
  ASSUME NEW h \in Hal
  PROVE  LET g == stopRecording(h) IN Only(h, g, {"video"}) /\ ~g.video
BY DEF stopRecording, Only, Hal

\* A recording that ends, with its live snapshot cancelled first.
LEMMA RecordingEnds ==
  ASSUME NEW h \in Hal, Films(h), NEW r, NEW x, NEW k, NEW g,
         Only(h, k, {"th"}), h.state = "VIDEO_PIC_TAKING" => h.th = "none" /\ k.th = "cancel",
         h.state = "RECORDING" => k = h,
         \/ r.api = "STOP_RECORDING" /\ g = [stopRecording(k) EXCEPT !.state = "PREVIEWING"]
         \/ r.api = "STOP_PREVIEW" /\ g = [stopPreview(stopRecording(k)) EXCEPT !.state = "STOPPED"],
         x.hal = g, x.ans = <<Result(r.api, TRUE)>>
  PROVE  Moves(h, r, x)
<1> DEFINE v == stopRecording(k)
           u == unpreparePreview(v)
<1>1. k \in Hal BY DEF Only
<1>2. Only(k, v, {"video"}) /\ ~v.video BY <1>1, StopRecordingIs
<1>3. v \in Hal BY <1>2 DEF Only
<1> HIDE DEF v
<1>4. Only(v, u, {"chan", "on", "video"}) /\ ~u.on /\ ~u.video BY <1>3, UnprepareIs
<1>5. u \in Hal BY <1>4 DEF Only
<1>6. "PREVIEWING" \in State /\ "STOPPED" \in State BY DEF State
<1>7. \/ r.api = "STOP_RECORDING" /\ g = [v EXCEPT !.state = "PREVIEWING"]
      \/ r.api = "STOP_PREVIEW" /\ g = [u EXCEPT !.state = "STOPPED"]
  BY DEF stopPreview, v
<1> HIDE DEF u
<1>8. \/ r.api = "STOP_RECORDING" /\ Only(v, g, {"state"}) /\ g.state = "PREVIEWING"
      \/ r.api = "STOP_PREVIEW" /\ Only(u, g, {"state"}) /\ g.state = "STOPPED"
  <2>1. Only(v, [v EXCEPT !.state = "PREVIEWING"], {"state"}) /\ [v EXCEPT !.state = "PREVIEWING"].state = "PREVIEWING"
    BY <1>3, <1>6, InState
  <2>2. Only(u, [u EXCEPT !.state = "STOPPED"], {"state"}) /\ [u EXCEPT !.state = "STOPPED"].state = "STOPPED"
    BY <1>5, <1>6, InState
  <2> QED BY <1>7, <2>1, <2>2
<1>9. Only(h, g, {"th", "video", "chan", "on", "state"}) /\ ~g.video /\ g.th = k.th
  BY <1>2, <1>4, <1>8 DEF Only
<1>10. Only(h, g, Others) BY <1>9 DEF Only, Others
<1>11. OfParams(h, r, g) BY <1>8 DEF OfParams
<1>12. Fits(h) => Fits(g) BY <1>2, <1>4, <1>8, <1>9 DEF Only, Fits, isCaptureRunning, Films
<1>13. Wanted(h) => Wanted(g) BY <1>9 DEF Only, Wanted
<1>14. r.api \notin PictureApis BY <1>8 DEF PictureApis, SnapshotApis
<1> QED BY <1>8, <1>10, <1>11, <1>12, <1>13, <1>14, OrdinaryMoves DEF isCaptureRunning

\* Every request in RECORDING.
LEMMA RecordingMoves ==
  ASSUME NEW h \in Hal, NEW r, h.state = "RECORDING", NEW x \in Recording(h, r)
  PROVE  Moves(h, r, x)
<1> USE DEF MsgApis, RecordingApis, SnapshotApis, ParamApis
<1>1. CASE r.api \in ParamApis
  BY <1>1, RecordingParamsMoves DEF Recording, Films
<1>2. CASE r.api \in MsgApis
  <2>1. x \in enableMsg(h, r) BY <1>2 DEF Recording
  <2> QED BY <1>2, <2>1, EnableMoves
<1>3. CASE r.api = "STOP_RECORDING"
  <2> DEFINE g == [stopRecording(h) EXCEPT !.state = "PREVIEWING"]
  <2>1. x \in Accepted(g, r) BY <1>3 DEF Recording
  <2>2. x.hal = g /\ x.ans = <<Result(r.api, TRUE)>> BY <2>1, AcceptedIs
  <2>3. Only(h, h, {"th"}) BY DEF Only
  <2> QED BY <1>3, <2>2, <2>3, RecordingEnds DEF Films
<1>4. CASE r.api = "STOP_PREVIEW"
  <2> DEFINE g == [stopPreview(stopRecording(h)) EXCEPT !.state = "STOPPED"]
  <2>1. x \in Accepted(g, r) BY <1>4 DEF Recording
  <2>2. x.hal = g /\ x.ans = <<Result(r.api, TRUE)>> BY <2>1, AcceptedIs
  <2>3. Only(h, h, {"th"}) BY DEF Only
  <2> QED BY <1>4, <2>2, <2>3, RecordingEnds DEF Films
<1>5. CASE r.api = "TAKE_PICTURE"
  <2> DEFINE ops == takeLiveSnapshot(h)
  <2>1. x \in Reply(r, Enter(ops, "VIDEO_PIC_TAKING", "RECORDING")) BY <1>5 DEF Recording
  <2>2. \A y \in ops : /\ y \in Outcome /\ Only(h, y.h, {"th", "fails"}) /\ h.th = "none"
                       /\ (y.ok => y.h.th = "take" /\ ~h.dead) /\ (~y.ok => y.h.th = "none")
    BY TakeLiveIs
  <2> HIDE DEF ops
  <2>3. PICK y \in ops : Entered(r, x, y, "VIDEO_PIC_TAKING", "RECORDING")
    <3>1. ops \in SUBSET Outcome BY <2>2
    <3>2. "VIDEO_PIC_TAKING" \in State /\ "RECORDING" \in State BY DEF State
    <3> QED BY <2>1, <3>1, <3>2, EnteredIs
  <2> DEFINE g == x.hal
  <2>4. Only(h, g, {"th", "fails", "state"}) /\ (g.state = "RECORDING" => g.th = "none")
        /\ g.state \in {"VIDEO_PIC_TAKING", "RECORDING"} /\ (g.state = "VIDEO_PIC_TAKING" => ~h.dead)
        /\ h.th = "none" /\ g.th \in {"none", "take"} /\ \E b \in BOOLEAN : x.ans = <<Result(r.api, b)>>
    BY <2>2, <2>3 DEF Entered, Only
  <2> HIDE DEF g
  <2>5. Leaves(h, g) BY <2>4 DEF Leaves, Only
  <2>6. Answers(h, r, g, x.ans) BY <2>4 DEF Answers, Only
  <2>7. Turns(h, r, g, x.ans) BY <1>5, <2>4 DEF Turns, Only, isCaptureRunning
  <2>8. OfPicture(h, r, g, x.ans) BY <1>5, <2>4 DEF OfPicture, Only
  <2>9. OfParams(h, r, g) BY <1>5 DEF OfParams
  <2>10. Heeds(h, r, g, x.ans) BY <1>5, <2>4 DEF Heeds, Only, Wanted, Result
  <2>11. Fits(h) => Fits(g) BY <2>4 DEF Only, Fits, isCaptureRunning, Films
  <2> QED BY <2>5, <2>6, <2>7, <2>8, <2>9, <2>10, <2>11 DEF Moves, g
<1>6. CASE r.api = "SEND_COMMAND"
  BY <1>6, CommandMoves DEF Recording
<1>7. CASE r.api \in {"SET_PREVIEW_WINDOW", "PREPARE_PREVIEW", "START_PREVIEW", "PREPARE_SNAPSHOT",
                  "PRE_TAKE_PICTURE"} \cup RecordingApis
  <2>1. x \in Accepted(h, r) BY <1>7 DEF Recording
  <2> QED BY <1>7, <2>1, AcceptedMoves
<1>8. CASE r.api \in {"CANCEL_PICTURE", "RELEASE"}
  <2>1. x \in Refused(h, r) BY <1>8 DEF Recording
  <2> QED BY <1>8, <2>1, RefusedMoves DEF isCaptureRunning
<1>9. CASE r.api \notin Api \ {"STOP_CAPTURE_CHANNEL"}
  <2>1. x = Quiet(h) BY <1>9 DEF Recording, Api, PictureApis
  <2> QED BY <1>9, <2>1, QuietMoves
<1> QED BY <1>1, <1>2, <1>3, <1>4, <1>5, <1>6, <1>7, <1>8, <1>9 DEF Api, PictureApis

\* Every request in VIDEO_PIC_TAKING.
LEMMA VideoPicTakingMoves ==
  ASSUME NEW h \in Hal, NEW r, h.state = "VIDEO_PIC_TAKING", NEW x \in VideoPicTaking(h, r)
  PROVE  Moves(h, r, x)
<1> USE DEF MsgApis, RecordingApis, SnapshotApis, ParamApis
<1>1. CASE r.api \in ParamApis
  BY <1>1, RecordingParamsMoves DEF VideoPicTaking, Films
<1>2. CASE r.api \in MsgApis
  <2>1. x \in enableMsg(h, r) BY <1>2 DEF VideoPicTaking
  <2> QED BY <1>2, <2>1, EnableMoves
<1>3. CASE r.api = "STOP_RECORDING"
  <2> DEFINE outs == {Ok([stopRecording(y.h) EXCEPT !.state = "PREVIEWING"]) : y \in cancelLiveSnapshot(h)}
  <2>1. x \in Reply(r, outs) BY <1>3 DEF VideoPicTaking
  <2>2. PICK z \in outs : x.hal = z.h /\ x.ans = <<Result(r.api, z.ok)>> BY <2>1, ReplyIs
  <2>3. PICK y \in cancelLiveSnapshot(h) : z = Ok([stopRecording(y.h) EXCEPT !.state = "PREVIEWING"]) OBVIOUS
  <2>4. Only(h, y.h, {"th"}) /\ h.th = "none" /\ y.h.th = "cancel" BY CancelLiveIs
  <2> DEFINE g == [stopRecording(y.h) EXCEPT !.state = "PREVIEWING"]
  <2>5. z.h = g /\ z.ok = TRUE
    <3> HIDE DEF g
    <3> QED BY <2>3 DEF Ok, g
  <2>6. x.ans = <<Result(r.api, TRUE)>> BY <2>2, <2>5, Zenon
  <2> QED BY <1>3, <2>2, <2>4, <2>5, <2>6, RecordingEnds DEF Films
<1>4. CASE r.api = "STOP_PREVIEW"
  <2> DEFINE outs == {Ok([stopPreview(stopRecording(y.h)) EXCEPT !.state = "STOPPED"])
                        : y \in cancelLiveSnapshot(h)}
  <2>1. x \in Reply(r, outs) BY <1>4 DEF VideoPicTaking
  <2>2. PICK z \in outs : x.hal = z.h /\ x.ans = <<Result(r.api, z.ok)>> BY <2>1, ReplyIs
  <2>3. PICK y \in cancelLiveSnapshot(h) : z = Ok([stopPreview(stopRecording(y.h)) EXCEPT !.state = "STOPPED"])
    OBVIOUS
  <2>4. Only(h, y.h, {"th"}) /\ h.th = "none" /\ y.h.th = "cancel" BY CancelLiveIs
  <2> DEFINE g == [stopPreview(stopRecording(y.h)) EXCEPT !.state = "STOPPED"]
  <2>5. z.h = g /\ z.ok = TRUE
    <3> HIDE DEF g
    <3> QED BY <2>3 DEF Ok, g
  <2>6. x.ans = <<Result(r.api, TRUE)>> BY <2>2, <2>5, Zenon
  <2> QED BY <1>4, <2>2, <2>4, <2>5, <2>6, RecordingEnds DEF Films
<1>5. CASE r.api = "CANCEL_PICTURE"
  <2> DEFINE ops == cancelLiveSnapshot(h)
  <2>1. x \in Reply(r, Enter(ops, "RECORDING", "RECORDING")) BY <1>5 DEF VideoPicTaking
  <2>2. \A y \in ops : y \in Outcome /\ Only(h, y.h, {"th"}) /\ h.th = "none" /\ y.h.th = "cancel"
    BY CancelLiveIs
  <2> HIDE DEF ops
  <2>3. PICK y \in ops : Entered(r, x, y, "RECORDING", "RECORDING")
    <3>1. ops \in SUBSET Outcome BY <2>2
    <3>2. "RECORDING" \in State BY DEF State
    <3> QED BY <2>1, <3>1, <3>2, EnteredIs
  <2> DEFINE g == x.hal
  <2>4. Only(h, g, {"th", "state"}) /\ g.state = "RECORDING" /\ g.th = "cancel"
        /\ \E b \in BOOLEAN : x.ans = <<Result(r.api, b)>>
    BY <2>2, <2>3 DEF Entered, Only
  <2> HIDE DEF g
  <2>5. Leaves(h, g) BY <2>4 DEF Leaves, Only
  <2>6. Answers(h, r, g, x.ans) BY <2>4 DEF Answers, Only
  <2>7. Turns(h, r, g, x.ans) BY <1>5, <2>4 DEF Turns, Only, isCaptureRunning
  <2>8. OfPicture(h, r, g, x.ans) BY <1>5, <2>4 DEF OfPicture, Only, isCaptureRunning
  <2>9. OfParams(h, r, g) BY <1>5 DEF OfParams
  <2>10. Heeds(h, r, g, x.ans) BY <1>5, <2>4 DEF Heeds, Only, Wanted, Result
  <2>11. Fits(h) => Fits(g) BY <2>4 DEF Only, Fits, isCaptureRunning, Films
  <2> QED BY <2>5, <2>6, <2>7, <2>8, <2>9, <2>10, <2>11 DEF Moves, g
<1>6. CASE r.api = "SEND_COMMAND"
  BY <1>6, CommandMoves DEF VideoPicTaking
<1>7. CASE r.api \in {"SET_PREVIEW_WINDOW", "PREPARE_PREVIEW", "START_PREVIEW", "RELEASE"}
                 \cup RecordingApis \cup SnapshotApis
  <2>1. x \in Refused(h, r) BY <1>7 DEF VideoPicTaking
  <2> QED BY <1>7, <2>1, RefusedMoves
<1>8. CASE r.api \notin Api \ {"STOP_CAPTURE_CHANNEL"}
  <2>1. x = Quiet(h) BY <1>8 DEF VideoPicTaking, Api, PictureApis
  <2> QED BY <1>8, <2>1, QuietMoves
<1> QED BY <1>1, <1>2, <1>3, <1>4, <1>5, <1>6, <1>7, <1>8 DEF Api, PictureApis

\* The picture ends, with the live snapshot's thread.
LEMMA EndPictureIs ==
  ASSUME NEW h \in Hal, NEW x \in EndPicture(h)
  PROVE  /\ x \in Outcome /\ x.ok = TRUE /\ Only(h, x.h, {"pic", "cap", "th"})
         /\ IF h.zsl \/ h.longshot THEN ~x.h.pic /\ (x.h.cap <=> h.cap /\ h.zsl) /\ x.h.th = h.th
            ELSE x.h.pic = h.pic /\ x.h.cap = h.cap /\ x.h.th = "cancel"
<1>1. CASE h.zsl \/ h.longshot
  <2> DEFINE k == cancelPicture(h)
  <2>1. x = Ok(k) BY <1>1 DEF EndPicture
  <2>2. Only(h, k, {"pic", "cap"}) /\ ~k.pic /\ (k.cap <=> h.cap /\ h.zsl) BY CancelIs
  <2>3. k \in Hal BY <2>2 DEF Only
  <2> HIDE DEF k
  <2>4. x \in Outcome /\ x.h = k /\ x.ok = TRUE BY <2>1, <2>3 DEF Ok, Outcome
  <2> QED BY <1>1, <2>2, <2>4 DEF Only
<1>2. CASE ~(h.zsl \/ h.longshot)
  <2>1. x \in cancelLiveSnapshot(h) BY <1>2 DEF EndPicture
  <2>2. x \in Outcome /\ x.ok /\ Only(h, x.h, {"th"}) /\ h.th = "none" /\ x.h.th = "cancel"
    BY <2>1, CancelLiveIs
  <2>3. x.ok = TRUE BY <2>2 DEF Outcome
  <2> QED BY <1>2, <2>2, <2>3 DEF Only
<1> QED BY <1>1, <1>2

\* A picture that ends with the state, in PREVIEW_PIC_TAKING.
Closes(r, x, e) ==
  \/ r.api = "CANCEL_PICTURE" /\ x.hal = [e.h EXCEPT !.state = "PREVIEWING"]
  \/ r.api = "STOP_PREVIEW" /\ x.hal = [unpreparePreview(e.h) EXCEPT !.state = "STOPPED"]

\* CANCEL_PICTURE and STOP_PREVIEW while a picture is taken from preview.
LEMMA PictureEnds ==
  ASSUME NEW h \in Hal, h.state = "PREVIEW_PIC_TAKING", NEW r, NEW e \in EndPicture(h), NEW x, x.ans = <<Result(r.api, TRUE)>>,
         Closes(r, x, e)
  PROVE  Moves(h, r, x)
<1> DEFINE u == unpreparePreview(e.h)
           g == x.hal
<1>0. r.api \in {"CANCEL_PICTURE", "STOP_PREVIEW"} BY DEF Closes
<1>1. /\ Only(h, e.h, {"pic", "cap", "th"}) /\ e.h \in Hal
      /\ IF h.zsl \/ h.longshot THEN ~e.h.pic /\ (e.h.cap <=> h.cap /\ h.zsl) /\ e.h.th = h.th
         ELSE e.h.pic = h.pic /\ e.h.cap = h.cap /\ e.h.th = "cancel"
  BY EndPictureIs DEF Outcome
<1>2. Only(e.h, u, {"chan", "on", "video"}) /\ ~u.on BY <1>1, UnprepareIs
<1>3. u \in Hal BY <1>2 DEF Only
<1>4. "PREVIEWING" \in State /\ "STOPPED" \in State BY DEF State
<1> HIDE DEF u
<1>5. \/ r.api = "CANCEL_PICTURE" /\ Only(e.h, g, {"state"}) /\ g.state = "PREVIEWING"
      \/ r.api = "STOP_PREVIEW" /\ Only(u, g, {"state"}) /\ g.state = "STOPPED"
  <2> DEFINE a == [e.h EXCEPT !.state = "PREVIEWING"]
             b == [u EXCEPT !.state = "STOPPED"]
  <2>1. Only(e.h, a, {"state"}) /\ a.state = "PREVIEWING" BY <1>1, <1>4, InState
  <2>2. Only(u, b, {"state"}) /\ b.state = "STOPPED" BY <1>3, <1>4, InState
  <2>3. \/ r.api = "CANCEL_PICTURE" /\ g = a
        \/ r.api = "STOP_PREVIEW" /\ g = b
    BY DEF u, Closes
  <2> QED BY <2>1, <2>2, <2>3
<1>6. /\ Only(h, g, {"pic", "cap", "th", "chan", "on", "video", "state"})
      /\ g.pic = e.h.pic /\ g.cap = e.h.cap /\ g.th = e.h.th /\ (g.state = "STOPPED" => ~g.on)
      /\ g.state \in {"PREVIEWING", "STOPPED"} /\ (g.state = "PREVIEWING" => g.video = h.video)
      /\ (g.state = "STOPPED" => ~g.video) /\ (r.api = "CANCEL_PICTURE" => g.state = "PREVIEWING" /\ g.on = h.on)
  <2>1. CASE r.api = "CANCEL_PICTURE" BY <1>1, <1>5, <2>1 DEF Only
  <2>2. CASE r.api = "STOP_PREVIEW"
    <3>1. Only(u, g, {"state"}) /\ g.state = "STOPPED" /\ ~u.video BY <1>1, <1>5, <2>2, UnprepareIs DEF u
    <3> QED BY <1>1, <1>2, <3>1, <2>2 DEF Only
  <2> QED BY <1>0, <2>1, <2>2
<1>7. Leaves(h, g) BY <1>6 DEF Leaves, Only
<1>8. Answers(h, r, g, x.ans) BY <1>6 DEF Answers, Only
<1>9. Turns(h, r, g, x.ans) BY <1>6 DEF Turns, isCaptureRunning
<1>10. OfPicture(h, r, g, x.ans) BY <1>0, <1>6 DEF OfPicture, Only, isCaptureRunning, PictureApis, SnapshotApis
<1>11. OfParams(h, r, g) BY <1>5 DEF OfParams
<1>12. Heeds(h, r, g, x.ans) BY <1>0, <1>6 DEF Heeds, Only, Wanted, Result
<1>13. Fits(h) => Fits(g) BY <1>1, <1>6 DEF Only, Fits, isCaptureRunning, Films
<1> QED BY <1>7, <1>8, <1>9, <1>10, <1>11, <1>12, <1>13 DEF Moves

\* The hardware prepares for a snapshot, or the request fails.
Prepares(s, g, r) == IF s.ok THEN {Quiet(g)} ELSE Reply(r, {s})

\* The answer to a preparation comes later, unless it failed.
LEMMA PreparesIs ==
  ASSUME NEW h \in Hal, NEW r, NEW s \in prepareHardwareForSnapshot(h), NEW g, NEW x,
         x \in Prepares(s, g, r)
  PROVE  /\ Only(h, s.h, {"prep", "fails"}) /\ s \in Outcome
         /\ \/ x.hal = g /\ x.ans = <<>> /\ s.h.prep /\ ~h.dead
            \/ x.hal = s.h /\ x.ans = <<Result(r.api, FALSE)>> /\ s.h.prep = h.prep
<1>1. /\ s \in Outcome /\ Only(h, s.h, {"prep", "fails"})
      /\ (s.ok => s.h.prep /\ ~h.dead) /\ (~s.ok => s.h.prep = h.prep)
  BY PrepareHardwareIs
<1>2. CASE s.ok
  <2>1. x = Quiet(g) BY <1>2 DEF Prepares
  <2>2. x.hal = g /\ x.ans = <<>> BY <2>1 DEF Quiet
  <2> QED BY <1>1, <1>2, <2>2
<1>3. CASE ~s.ok
  <2>1. x \in Reply(r, {s}) BY <1>3 DEF Prepares
  <2>2. x.hal = s.h /\ x.ans = <<Result(r.api, s.ok)>> BY <2>1, ReplyIs
  <2>3. s.ok = FALSE BY <1>1, <1>3 DEF Outcome
  <2>4. x.ans = <<Result(r.api, FALSE)>> BY <2>2, <2>3, Zenon
  <2> QED BY <1>1, <1>3, <2>2, <2>4
<1> QED BY <1>2, <1>3

\* Every request in PREVIEW_PIC_TAKING.
LEMMA PreviewPicTakingMoves ==
  ASSUME NEW h \in Hal, NEW r, h.state = "PREVIEW_PIC_TAKING", NEW x \in PreviewPicTaking(h, r)
  PROVE  Moves(h, r, x)
<1> USE DEF MsgApis, RecordingApis, SnapshotApis
<1>1. CASE r.api \in MsgApis
  <2>1. x \in enableMsg(h, r) BY <1>1 DEF PreviewPicTaking
  <2> QED BY <1>1, <2>1, EnableMoves
<1>2. CASE r.api = "SET_PARAMS"
  BY <1>2, UpdateMoves DEF PreviewPicTaking
<1>3. CASE r.api = "SET_PARAMS_STOP"
  <2> DEFINE u == unpreparePreview(h)
  <2>1. x \in Accepted(u, r) BY <1>3 DEF PreviewPicTaking, stopPreview
  <2>2. Only(h, u, {"chan", "on", "video"}) /\ ~u.on /\ ~u.video BY UnprepareIs
  <2> HIDE DEF u
  <2>3. x.hal = u /\ x.ans = <<Result(r.api, TRUE)>> BY <2>1, AcceptedIs
  <2>4. Only(h, u, Others) BY <2>2 DEF Only, Others
  <2>5. OfParams(h, r, u) BY <1>3, <2>2 DEF OfParams, Only
  <2>6. Fits(h) => Fits(u) BY <2>2 DEF Only, Fits, isCaptureRunning, Films
  <2>7. u.state = h.state /\ (Wanted(h) => Wanted(u)) BY <2>2 DEF Only, Wanted
  <2>8. r.api \notin PictureApis BY <1>3 DEF PictureApis
  <2> QED BY <1>3, <2>3, <2>4, <2>5, <2>6, <2>7, <2>8, OrdinaryMoves DEF isCaptureRunning
<1>4. CASE r.api = "SET_PARAMS_COMMIT"
  BY <1>4, CommitMoves DEF PreviewPicTaking
<1>5. CASE r.api = "SET_PARAMS_RESTART"
  <2> DEFINE ops == PrepareAndStart(h, TRUE)
             outs == Enter(ops, "PREVIEW_PIC_TAKING", "PIC_TAKING")
  <2>1. x \in Reply(r, clearRestart(outs)) BY <1>5 DEF PreviewPicTaking
  <2>2. \A y \in ops : y \in Outcome /\ Only(h, y.h, Starting) /\ Ended(h, y.h)
            /\ (y.h.video => h.video) /\ (Wanted(h) => Wanted(y.h)) /\ (~y.ok => (y.h.on => h.on))
    BY PrepareAndStartIs
  <2>3. ops \in SUBSET Outcome BY <2>2
  <2>4. "PREVIEW_PIC_TAKING" \in State /\ "PIC_TAKING" \in State BY DEF State
  <2> HIDE DEF ops
  <2>5. outs \in SUBSET Outcome BY <2>3, <2>4, StateIs
  <2>6. PICK z \in outs : z \in Outcome /\ x.ans = <<Result(r.api, z.ok)>> /\ Only(z.h, x.hal, {"restart"})
    <3> HIDE DEF outs
    <3> QED BY <2>1, <2>5, ClearIs
  <2>7. PICK y \in ops : z.ok = y.ok /\ Only(y.h, z.h, {"state"})
                         /\ z.h.state = IF y.ok THEN "PREVIEW_PIC_TAKING" ELSE "PIC_TAKING"
    BY <2>3, <2>4, EnterIs
  <2>8. z.ok \in BOOLEAN BY <2>6 DEF Outcome
  <2> DEFINE g == x.hal
  <2>9. Only(h, g, Others) BY <2>2, <2>6, <2>7 DEF Only, Starting, Preparing, Others
  <2>10. OfParams(h, r, g) BY <1>5, <2>2, <2>6, <2>7 DEF OfParams, Only, Starting, Preparing
  <2>11. Fits(h) /\ Careful(h, r) => Fits(g)
    BY <1>5, <2>2, <2>6, <2>7 DEF Only, Fits, isCaptureRunning, Films, Ended, Starting, Preparing, Careful
  <2>12. Wanted(h) => Wanted(g) BY <2>2, <2>6, <2>7 DEF Only, Wanted
  <2>13. r.api \notin PictureApis BY <1>5 DEF PictureApis
  <2>14. g.state \in {"PREVIEW_PIC_TAKING", "PIC_TAKING"} BY <2>6, <2>7 DEF Only
  <2> QED BY <1>5, <2>6, <2>8, <2>9, <2>10, <2>11, <2>12, <2>13, <2>14, OrdinaryMoves DEF isCaptureRunning
<1>6. CASE r.api = "SEND_COMMAND"
  BY <1>6, LongshotCommandMoves DEF PreviewPicTaking
<1>7. CASE r.api = "CANCEL_PICTURE"
  <2> DEFINE ops == EndPicture(h)
             outs == Enter(ops, "PREVIEWING", "PREVIEWING")
  <2>1. x \in Reply(r, outs) BY <1>7 DEF PreviewPicTaking
  <2>2. PICK z \in outs : x.hal = z.h /\ x.ans = <<Result(r.api, z.ok)>> BY <2>1, ReplyIs
  <2>3. PICK y \in ops : z = [y EXCEPT !.h.state = IF y.ok THEN "PREVIEWING" ELSE "PREVIEWING"] BY DEF Enter
  <2>4. y \in Outcome /\ y.ok = TRUE BY EndPictureIs
  <2> HIDE DEF ops, outs
  <2> DEFINE g == [y.h EXCEPT !.state = "PREVIEWING"]
  <2>5. z.h = g /\ z.ok = TRUE BY <2>3, <2>4 DEF Outcome
  <2>6. x.ans = <<Result(r.api, TRUE)>> BY <2>2, <2>5, Zenon
  <2>7. y \in EndPicture(h) BY DEF ops
  <2>8. x.hal = g BY <2>2, <2>5
  <2> HIDE DEF g
  <2>9. Closes(r, x, y) BY <1>7, <2>8 DEF g, Closes
  <2> QED BY <2>6, <2>7, <2>9, PictureEnds
<1>8. CASE r.api = "STOP_PREVIEW"
  <2> DEFINE outs == {Ok([unpreparePreview(y.h) EXCEPT !.state = "STOPPED"]) : y \in EndPicture(h)}
  <2>1. x \in Reply(r, outs) BY <1>8 DEF PreviewPicTaking
  <2>2. PICK z \in outs : x.hal = z.h /\ x.ans = <<Result(r.api, z.ok)>> BY <2>1, ReplyIs
  <2>3. PICK y \in EndPicture(h) : z = Ok([unpreparePreview(y.h) EXCEPT !.state = "STOPPED"]) OBVIOUS
  <2> DEFINE g == [unpreparePreview(y.h) EXCEPT !.state = "STOPPED"]
  <2>5. z.h = g /\ z.ok = TRUE
    <3> HIDE DEF g
    <3> QED BY <2>3 DEF Ok, g
  <2>6. x.ans = <<Result(r.api, TRUE)>> BY <2>2, <2>5, Zenon
  <2>8. x.hal = g BY <2>2, <2>5
  <2> HIDE DEF g
  <2>9. Closes(r, x, y) BY <1>8, <2>8 DEF g, Closes
  <2> QED BY <2>6, <2>9, PictureEnds
<1>9. CASE r.api \in RecordingApis /\ (h.zsl \/ h.longshot)
  <2>1. x \in Refused(h, r) BY <1>9 DEF PreviewPicTaking, Refused
  <2> QED BY <1>9, <2>1, RefusedMoves
<1>10. CASE r.api = "PRE_START_RECORDING" /\ ~(h.zsl \/ h.longshot)
  <2> DEFINE ops == preStartRecording(h)
  <2>1. x \in Reply(r, ops) BY <1>10 DEF PreviewPicTaking
  <2>2. PICK y \in ops : x.hal = y.h /\ x.ans = <<Result(r.api, y.ok)>> BY <2>1, ReplyIs
  <2> DEFINE g == y.h
  <2>3. /\ y \in Outcome /\ Only(h, g, Preparing \cup {"zsl", "hint", "video"}) /\ (g.video => h.video)
        /\ h.longshot \/ (g.longshot = h.longshot /\ g.pic = h.pic /\ g.cap = h.cap /\ g.post = h.post)
    BY PreStartIs
  <2>4. y.ok \in BOOLEAN BY <2>3 DEF Outcome
  <2>5. Only(h, g, Others) BY <2>3 DEF Only, Others, Preparing
  <2>6. OfParams(h, r, g) BY <1>10 DEF OfParams
  <2>7. Fits(h) => Fits(g) BY <1>10, <2>3 DEF Only, Fits, isCaptureRunning, Films, Preparing
  <2>8. g.state = h.state /\ (Wanted(h) => Wanted(g)) BY <2>3 DEF Only, Wanted, Preparing
  <2>9. r.api \notin PictureApis BY <1>10 DEF PictureApis
  <2> QED BY <1>10, <2>2, <2>4, <2>5, <2>6, <2>7, <2>8, <2>9, OrdinaryMoves DEF isCaptureRunning
<1>11. CASE r.api = "START_RECORDING" /\ ~(h.zsl \/ h.longshot)
  <2> DEFINE ops == startRecording(h)
  <2>1. x \in Reply(r, Enter(ops, "VIDEO_PIC_TAKING", "PREVIEW_PIC_TAKING")) BY <1>11 DEF PreviewPicTaking
  <2>2. \A y \in ops : y \in Outcome /\ Only(h, y.h, {"video", "fails"}) /\ (~y.ok => y.h.video = h.video)
    BY StartRecordingIs
  <2> HIDE DEF ops
  <2>3. PICK y \in ops : Entered(r, x, y, "VIDEO_PIC_TAKING", "PREVIEW_PIC_TAKING")
    <3>1. ops \in SUBSET Outcome BY <2>2
    <3>2. "VIDEO_PIC_TAKING" \in State /\ "PREVIEW_PIC_TAKING" \in State BY DEF State
    <3> QED BY <2>1, <3>1, <3>2, EnteredIs
  <2> DEFINE g == x.hal
  <2>4. Only(h, g, Others) BY <2>2, <2>3 DEF Entered, Only, Others
  <2>5. OfParams(h, r, g) BY <1>11 DEF OfParams
  <2>6. Fits(h) => Fits(g) BY <1>11, <2>2, <2>3 DEF Entered, Only, Fits, isCaptureRunning, Films
  <2>7. Wanted(h) => Wanted(g) BY <2>2, <2>3 DEF Entered, Only, Wanted
  <2>8. r.api \notin PictureApis BY <1>11 DEF PictureApis
  <2>9. g.state \in {"VIDEO_PIC_TAKING", "PREVIEW_PIC_TAKING"} BY <2>3 DEF Entered
  <2> QED BY <1>11, <2>3, <2>4, <2>5, <2>6, <2>7, <2>8, <2>9, OrdinaryMoves DEF isCaptureRunning, Entered
<1>12. CASE r.api \in {"PRE_TAKE_PICTURE", "TAKE_PICTURE"}
  <2>1. x \in More(h, r) BY <1>12 DEF PreviewPicTaking, More
  <2> QED BY <1>12, <2>1, MoreMoves
<1>13. CASE r.api = "PREPARE_SNAPSHOT"
  <2>1. CASE h.retro = "no"
    <3>1. x \in Refused(h, r) BY <1>13, <2>1 DEF PreviewPicTaking
    <3> QED BY <1>13, <3>1, RefusedMoves
  <2>2. CASE h.retro # "no"
    <3>1. PICK s \in prepareHardwareForSnapshot(h) : x \in Prepares(s, s.h, r)
      BY <1>13, <2>2 DEF PreviewPicTaking, Prepares
    <3> DEFINE g == x.hal
    <3>2. /\ Only(h, s.h, {"prep", "fails"})
          /\ \/ g = s.h /\ x.ans = <<>> /\ s.h.prep /\ ~h.dead
             \/ g = s.h /\ x.ans = <<Result(r.api, FALSE)>> /\ s.h.prep = h.prep
      BY <3>1, PreparesIs
    <3>3. /\ Only(h, g, {"prep", "fails"})
          /\ \/ x.ans = <<>> /\ g.prep /\ ~h.dead
             \/ x.ans = <<Result(r.api, FALSE)>> /\ g.prep = h.prep
      BY <3>2
    <3> HIDE DEF g
    <3>4. Leaves(h, g) BY <3>3 DEF Leaves, Only
    <3>5. Answers(h, r, g, x.ans) BY <1>13, <2>2, <3>3 DEF Answers, Only
    <3>6. Turns(h, r, g, x.ans) BY <3>3 DEF Turns, Only, isCaptureRunning
    <3>7. OfPicture(h, r, g, x.ans) BY <1>13, <3>3 DEF OfPicture, Only
    <3>8. OfParams(h, r, g) BY <1>13 DEF OfParams
    <3>9. Heeds(h, r, g, x.ans)
      <4>1. x.ans # <<Result("ENABLE_MSG_TYPE", TRUE)>> BY <1>13, <3>3 DEF Result
      <4>2. Wanted(h) => Wanted(g) BY <3>3 DEF Only, Wanted
      <4> QED BY <4>1, <4>2 DEF Heeds
    <3>10. Fits(h) => Fits(g) BY <3>3 DEF Only, Fits, isCaptureRunning, Films
    <3> QED BY <3>4, <3>5, <3>6, <3>7, <3>8, <3>9, <3>10 DEF Moves, g
  <2> QED BY <2>1, <2>2
<1>14. CASE r.api = "GET_PARAMS"
  <2>1. x \in Accepted(h, r) BY <1>14 DEF PreviewPicTaking
  <2> QED BY <1>14, <2>1, AcceptedMoves
<1>15. CASE r.api \in {"SET_PREVIEW_WINDOW", "PREPARE_PREVIEW", "START_PREVIEW", "STOP_RECORDING", "RELEASE"}
  <2>1. x \in Refused(h, r) BY <1>15 DEF PreviewPicTaking
  <2> QED BY <1>15, <2>1, RefusedMoves
<1>16. CASE r.api \notin Api \ {"STOP_CAPTURE_CHANNEL"}
  <2>1. x = Quiet(h) BY <1>16 DEF PreviewPicTaking, Api, PictureApis, ParamApis
  <2> QED BY <1>16, <2>1, QuietMoves
<1> QED BY <1>1, <1>2, <1>3, <1>4, <1>5, <1>6, <1>7, <1>8, <1>9, <1>10, <1>11, <1>12, <1>13, <1>14, <1>15, <1>16
        DEF Api, PictureApis, ParamApis

\* A preview that is stopped, prepared and started anew.
LEMMA RestartPreviewIs ==
  ASSUME NEW h \in Hal, NEW x \in RestartPreview(h)
  PROVE  /\ x \in Outcome /\ Only(h, x.h, Starting \cup {"state"}) /\ Ended(h, x.h)
         /\ x.h.video => h.video
         /\ Wanted(h) => Wanted(x.h)
         /\ x.h.state = h.state \/ (x.h.state = "STOPPED" /\ ~x.h.on)
<1>1. PICK p \in preparePreview(h) :
        IF ~p.ok THEN x = p
        ELSE \E s \in startPreview(applyDelayedMsgs(p.h)) :
               x = IF s.ok THEN s ELSE Bad([unpreparePreview(s.h) EXCEPT !.state = "STOPPED"])
  BY DEF RestartPreview
<1>2. /\ p \in Outcome /\ Only(h, p.h, Preparing) /\ Ended(h, p.h)
      /\ p.ok => ~p.h.on
      /\ ~p.ok => p.h.on = h.on
  BY PrepareIs
<1>3. CASE ~p.ok
  BY <1>1, <1>2, <1>3 DEF Only, Starting, Preparing, Wanted
<1>4. CASE p.ok
  <2>0. p.h \in Hal BY <1>2 DEF Only
  <2>1. PICK s \in startPreview(applyDelayedMsgs(p.h)) :
          x = IF s.ok THEN s ELSE Bad([unpreparePreview(s.h) EXCEPT !.state = "STOPPED"])
    BY <1>1, <1>4
  <2>2. /\ s \in Outcome /\ Only(p.h, s.h, {"enabled", "delayed", "delay", "on", "fails"})
        /\ Wanted(p.h) => Wanted(s.h)
    BY <2>0, StartDelayedIs
  <2> DEFINE u == unpreparePreview(s.h)
             k == [u EXCEPT !.state = "STOPPED"]
  <2>3. s.h \in Hal BY <2>2 DEF Only
  <2>4. Only(s.h, u, {"chan", "on", "video"}) /\ ~u.on /\ ~u.video BY <2>3, UnprepareIs
  <2>5. u \in Hal /\ "STOPPED" \in State BY <2>4 DEF Only, State
  <2> HIDE DEF u
  <2>6. Only(u, k, {"state"}) /\ k.state = "STOPPED" BY <2>5, InState
  <2>7. x = IF s.ok THEN s ELSE Bad(k) BY <2>1 DEF u
  <2> HIDE DEF k
  <2>8. k \in Hal BY <2>6 DEF Only
  <2>9. x \in Outcome /\ x.h = IF s.ok THEN s.h ELSE k BY <2>2, <2>7, <2>8 DEF Bad, Outcome
  <2>10. Only(h, x.h, Starting \cup {"state"})
    BY <1>2, <2>2, <2>4, <2>6, <2>9 DEF Only, Starting, Preparing
  <2>11. Ended(h, x.h) BY <1>2, <2>2, <2>4, <2>6, <2>9 DEF Only, Ended
  <2>12. x.h.video => h.video BY <1>2, <2>2, <2>4, <2>6, <2>9 DEF Only, Preparing
  <2>13. Wanted(h) => Wanted(x.h) BY <1>2, <2>2, <2>4, <2>6, <2>9 DEF Only, Preparing, Wanted
  <2>14. x.h.state = h.state \/ (x.h.state = "STOPPED" /\ ~x.h.on)
    BY <1>2, <2>2, <2>4, <2>6, <2>9 DEF Only, Preparing
  <2> QED BY <2>9, <2>10, <2>11, <2>12, <2>13, <2>14
<1> QED BY <1>3, <1>4

\* The recording hint is dropped before a picture, which may restart preview.
LEMMA WithoutHintIs ==
  ASSUME NEW h \in Hal, NEW g \in WithoutHint(h)
  PROVE  /\ Only(h, g, {"chan", "on", "video", "zsl", "hint", "enabled", "delayed", "delay", "fails"})
         /\ g.video => h.video
         /\ Wanted(h) => Wanted(g)
<1>1. CASE ~h.hint
  <2>1. g = h BY <1>1 DEF WithoutHint
  <2> QED BY <2>1 DEF Only
<1>2. CASE h.hint
  <2> DEFINE u == unpreparePreview(h)
             k == commitHint(u, FALSE)
  <2>1. PICK x \in PrepareAndStart(k, FALSE) : g = x.h BY <1>2 DEF WithoutHint, stopPreview
  <2>2. Only(h, u, {"chan", "on", "video"}) /\ ~u.video BY UnprepareIs
  <2>3. u \in Hal /\ FALSE \in BOOLEAN BY <2>2 DEF Only
  <2> HIDE DEF u
  <2>4. Only(u, k, {"zsl", "hint"}) /\ k.hint = FALSE BY <2>3, CommitIs
  <2>5. k \in Hal BY <2>4 DEF Only
  <2> HIDE DEF k
  <2>6. /\ Only(k, g, Starting) /\ Ended(k, g) /\ (g.video => k.video) /\ (Wanted(k) => Wanted(g))
    BY <2>1, <2>3, <2>5, PrepareAndStartIs
  <2>7. g.longshot = k.longshot /\ g.pic = k.pic /\ g.cap = k.cap /\ g.post = k.post
    BY <2>4, <2>6 DEF Ended
  <2>8. Only(h, g, {"chan", "on", "video", "zsl", "hint", "enabled", "delayed", "delay", "fails"})
    BY <2>2, <2>4, <2>6, <2>7 DEF Only, Starting, Preparing
  <2>9. (g.video => h.video) /\ (Wanted(h) => Wanted(g)) BY <2>2, <2>4, <2>6 DEF Only, Wanted
  <2> QED BY <2>8, <2>9
<1> QED BY <1>1, <1>2

\* A picture taken from preview, in the state it leads to.
Taking == {"chan", "on", "video", "pic", "cap", "ready", "fails", "enabled", "delayed", "delay", "state"}
\* A picture taken from preview, or refused.
Taken(h, x) ==
  /\ x \in Outcome /\ Only(h, x.h, Taking) /\ (Wanted(h) => Wanted(x.h))
  /\ x.ok => ~h.dead
  /\ \/ /\ x.ok /\ x.h.state = "PREVIEW_PIC_TAKING" /\ (x.h.video => h.video)
        /\ IF h.zsl THEN x.h.cap = h.cap /\ (x.h.ready <=> h.retro # "no")
           ELSE h.longshot /\ x.h.ready = h.ready
     \/ /\ x.ok /\ x.h.state = "PIC_TAKING" /\ ~h.zsl /\ ~x.h.on /\ ~x.h.video /\ x.h.ready = h.ready
     \/ /\ ~x.ok /\ x.h.state \in {"PREVIEWING", "STOPPED"} /\ (x.h.state = "STOPPED" => ~x.h.on)
        /\ x.h.pic = h.pic /\ x.h.cap = h.cap /\ x.h.ready = h.ready /\ (x.h.video => h.video)

\* TAKE_PICTURE in PREVIEWING, with ZSL, in a longshot and otherwise.
LEMMA TakeFromPreviewIs ==
  ASSUME NEW h \in Hal, NEW x \in TakeFromPreview(h)
  PROVE  Taken(h, x)
<1>1. CASE h.zsl \/ h.longshot
  <2> DEFINE k == [h EXCEPT !.delay = TRUE]
             ops == takePicture(k)
  <2>1. x \in Enter(ops, "PREVIEW_PIC_TAKING", "PREVIEWING") BY <1>1 DEF TakeFromPreview
  <2>2. Only(h, k, {"delay"}) /\ k.delay BY DEF Only, Hal
  <2>3. k \in Hal BY <2>2 DEF Only
  <2> HIDE DEF k
  <2>4. \A t \in ops :
         /\ t \in Outcome /\ Only(k, t.h, {"chan", "on", "video", "pic", "cap", "ready", "fails"})
         /\ t.ok => ~k.dead /\ t.h.pic
         /\ ~t.ok => t.h.pic = k.pic /\ t.h.cap = k.cap /\ t.h.ready = k.ready
         /\ k.zsl => t.h.cap = k.cap /\ t.h.video = k.video /\ t.h.on = k.on
                     /\ (t.ok => (t.h.ready <=> k.retro # "no"))
         /\ ~k.zsl => t.h.ready = k.ready /\ ~t.h.on /\ ~t.h.video
    BY <2>3, TakePictureIs
  <2> HIDE DEF ops
  <2>5. PICK t \in ops : x \in Outcome /\ x.ok = t.ok /\ Only(t.h, x.h, {"state"})
                             /\ x.h.state = IF t.ok THEN "PREVIEW_PIC_TAKING" ELSE "PREVIEWING"
    <3>1. ops \in SUBSET Outcome BY <2>4
    <3>2. "PREVIEW_PIC_TAKING" \in State /\ "PREVIEWING" \in State BY DEF State
    <3> QED BY <2>1, <3>1, <3>2, EnterIs
  <2>5a. /\ Only(k, t.h, {"chan", "on", "video", "pic", "cap", "ready", "fails"})
         /\ t.ok => ~k.dead
         /\ ~t.ok => t.h.pic = k.pic /\ t.h.cap = k.cap /\ t.h.ready = k.ready
         /\ k.zsl => t.h.cap = k.cap /\ t.h.video = k.video /\ t.h.on = k.on
                     /\ (t.ok => (t.h.ready <=> k.retro # "no"))
         /\ ~k.zsl => t.h.ready = k.ready /\ ~t.h.on /\ ~t.h.video
    BY <2>4
  <2>6. Only(h, x.h, Taking) BY <2>2, <2>5a, <2>5 DEF Only, Taking
  <2>7. Wanted(h) => Wanted(x.h) BY <2>2, <2>5a, <2>5 DEF Only, Wanted
  <2>8. CASE t.ok
    <3>1. ~h.dead /\ x.h.state = "PREVIEW_PIC_TAKING" /\ x.ok BY <2>2, <2>5a, <2>5, <2>8 DEF Only
    <3>2. x.h.video => h.video BY <2>2, <2>5a, <2>5 DEF Only
    <3>3. IF h.zsl THEN x.h.cap = h.cap /\ (x.h.ready <=> h.retro # "no") ELSE h.longshot /\ x.h.ready = h.ready
      BY <1>1, <2>2, <2>5a, <2>5, <2>8 DEF Only
    <3> QED BY <2>5, <2>6, <2>7, <3>1, <3>2, <3>3 DEF Taken
  <2>9. CASE ~t.ok
    <3>1. x.h.state = "PREVIEWING" /\ ~x.ok BY <2>5, <2>9
    <3>2. x.h.pic = h.pic /\ x.h.cap = h.cap /\ x.h.ready = h.ready /\ (x.h.video => h.video)
      BY <2>2, <2>5a, <2>5, <2>9 DEF Only
    <3> QED BY <2>5, <2>6, <2>7, <3>1, <3>2 DEF Taken
  <2> QED BY <2>8, <2>9
<1>2. CASE ~(h.zsl \/ h.longshot)
  <2>1. PICK t \in takePicture(h) :
          IF t.ok THEN x = [t EXCEPT !.h.state = "PIC_TAKING"]
          ELSE \E y \in Enter(PrepareAndStart(stopPreview(t.h), FALSE), "PREVIEWING", "STOPPED") : x = Bad(y.h)
    BY <1>2 DEF TakeFromPreview
  <2>2. /\ t \in Outcome /\ Only(h, t.h, {"chan", "on", "video", "pic", "cap", "ready", "fails"})
        /\ t.ok => ~h.dead /\ t.h.pic
        /\ ~t.ok => t.h.pic = h.pic /\ t.h.cap = h.cap /\ t.h.ready = h.ready
        /\ ~h.zsl => t.h.ready = h.ready /\ ~t.h.on /\ ~t.h.video
    BY TakePictureIs
  <2>3. t.h \in Hal BY <2>2 DEF Only
  <2>4. CASE t.ok
    <3> DEFINE g == [t.h EXCEPT !.state = "PIC_TAKING"]
    <3>1. "PIC_TAKING" \in State BY DEF State
    <3>2. Only(t.h, g, {"state"}) /\ g.state = "PIC_TAKING" BY <2>3, <3>1, InState
    <3>3. g \in Hal BY <3>2 DEF Only
    <3>4. x = [t EXCEPT !.h = g] BY <2>1, <2>2, <2>4 DEF Outcome
    <3> HIDE DEF g
    <3>5. x \in Outcome /\ x.h = g /\ x.ok BY <2>2, <2>4, <3>3, <3>4 DEF Outcome
    <3>6. Only(h, x.h, Taking) BY <2>2, <3>2, <3>5 DEF Only, Taking
    <3>7. Wanted(h) => Wanted(x.h) BY <2>2, <3>2, <3>5 DEF Only, Wanted
    <3>8. ~h.dead /\ x.h.state = "PIC_TAKING" /\ ~h.zsl /\ ~x.h.on /\ ~x.h.video /\ x.h.ready = h.ready
      BY <1>2, <2>2, <2>4, <3>2, <3>5 DEF Only
    <3> QED BY <3>5, <3>6, <3>7, <3>8 DEF Taken
  <2>5. CASE ~t.ok
    <3> DEFINE u == unpreparePreview(t.h)
               ops == PrepareAndStart(u, FALSE)
    <3>1. PICK y \in Enter(ops, "PREVIEWING", "STOPPED") : x = Bad(y.h) BY <2>1, <2>5 DEF stopPreview
    <3>2. Only(t.h, u, {"chan", "on", "video"}) /\ ~u.on /\ ~u.video BY <2>3, UnprepareIs
    <3>3. u \in Hal /\ FALSE \in BOOLEAN BY <3>2 DEF Only
    <3> HIDE DEF u
    <3>4. \A z \in ops : z \in Outcome /\ Only(u, z.h, Starting) /\ Ended(u, z.h)
              /\ (z.h.video => u.video) /\ (Wanted(u) => Wanted(z.h)) /\ (~z.ok => (z.h.on => u.on))
      BY <3>3, PrepareAndStartIs
    <3> HIDE DEF ops
    <3>5. PICK z \in ops : y \in Outcome /\ y.ok = z.ok /\ Only(z.h, y.h, {"state"})
                           /\ y.h.state = IF z.ok THEN "PREVIEWING" ELSE "STOPPED"
      <4>1. ops \in SUBSET Outcome BY <3>4
      <4>2. "STOPPED" \in State /\ "PREVIEWING" \in State BY DEF State
      <4> QED BY <3>1, <4>1, <4>2, EnterIs
    <3>6. x.h = y.h /\ x \in Outcome /\ ~x.ok BY <3>1, <3>5 DEF Bad, Outcome
    <3>7. y.h.pic = u.pic /\ y.h.cap = u.cap /\ y.h.longshot = u.longshot /\ y.h.post = u.post
      BY <1>2, <2>2, <3>2, <3>4, <3>5 DEF Ended, Only
    <3>8. Only(h, x.h, Taking)
      BY <2>2, <3>2, <3>4, <3>5, <3>6, <3>7 DEF Only, Taking, Starting, Preparing
    <3>9. Wanted(h) => Wanted(x.h) BY <2>2, <3>2, <3>4, <3>5, <3>6 DEF Only, Wanted
    <3>10. /\ x.h.state \in {"PREVIEWING", "STOPPED"} /\ (x.h.state = "STOPPED" => ~x.h.on)
           /\ x.h.pic = h.pic /\ x.h.cap = h.cap /\ x.h.ready = h.ready /\ (x.h.video => h.video)
      BY <2>2, <2>5, <3>2, <3>4, <3>5, <3>6, <3>7 DEF Only, Starting, Preparing
    <3> QED BY <3>6, <3>8, <3>9, <3>10 DEF Taken
  <2> QED BY <2>4, <2>5
<1> QED BY <1>1, <1>2

\* TAKE_PICTURE while previewing.
Replies(t, r) ==
  IF t.ok /\ t.h.retro # "no" /\ t.h.state = "PREVIEW_PIC_TAKING" THEN {Quiet(t.h)} ELSE Reply(r, {t})

\* It is put off for a retro picture, else answered.
LEMMA TakeMoves ==
  ASSUME NEW h \in Hal, NEW r, h.state = "PREVIEWING", r.api = "TAKE_PICTURE",
         NEW g \in WithoutHint(h), NEW t \in TakeFromPreview(g), NEW x \in Replies(t, r)
  PROVE  Moves(h, r, x)
<1>1. /\ Only(h, g, {"chan", "on", "video", "zsl", "hint", "enabled", "delayed", "delay", "fails"})
      /\ g.video => h.video
      /\ Wanted(h) => Wanted(g)
  BY WithoutHintIs
<1>2. g \in Hal BY <1>1 DEF Only
<1>3. Taken(g, t) BY <1>2, TakeFromPreviewIs
<1> DEFINE k == t.h
<1>4. Only(h, k, Taking \cup {"zsl", "hint"})
  BY <1>1, <1>3 DEF Taken, Only, Taking
<1>5. Wanted(h) => Wanted(k) BY <1>1, <1>3 DEF Taken
<1>6. /\ t.ok \in BOOLEAN /\ (t.ok => ~h.dead)
      /\ \/ t.ok /\ k.state = "PREVIEW_PIC_TAKING"
         \/ t.ok /\ k.state = "PIC_TAKING"
         \/ ~t.ok /\ k.state \in {"PREVIEWING", "STOPPED"}
  BY <1>1, <1>3 DEF Taken, Outcome, Only
<1>7. Fits(h) => Fits(k)
  BY <1>1, <1>3 DEF Taken, Only, Taking, Fits, isCaptureRunning, Films
<1>8. k.state = "PREVIEW_PIC_TAKING" => IF g.zsl THEN k.ready <=> k.retro # "no"
                                        ELSE h.longshot /\ k.ready = h.ready
  BY <1>1, <1>3 DEF Taken, Only, Taking
<1>9. k.state # "PREVIEW_PIC_TAKING" => k.ready = h.ready
  BY <1>1, <1>3 DEF Taken, Only, Taking
<1>10. x.hal = k /\ \/ /\ x.ans = <<>> /\ k.state = "PREVIEW_PIC_TAKING" /\ k.retro # "no" /\ t.ok
                    \/ /\ x.ans = <<Result(r.api, t.ok)>>
                       /\ k.state = "PREVIEW_PIC_TAKING" => k.retro = "no"
  <2>1. CASE t.ok /\ t.h.retro # "no" /\ t.h.state = "PREVIEW_PIC_TAKING"
    <3>1. x = Quiet(k) BY <2>1 DEF Replies
    <3>2. x.hal = k /\ x.ans = <<>> BY <3>1 DEF Quiet
    <3> QED BY <2>1, <3>2
  <2>2. CASE ~(t.ok /\ t.h.retro # "no" /\ t.h.state = "PREVIEW_PIC_TAKING")
    <3>1. x \in Reply(r, {t}) BY <2>2 DEF Replies
    <3>2. x.hal = k /\ x.ans = <<Result(r.api, t.ok)>> BY <3>1, ReplyIs
    <3> QED BY <1>6, <2>2, <3>2
  <2> QED BY <2>1, <2>2
<1> HIDE DEF k
<1>11. Leaves(h, k) BY <1>4 DEF Leaves, Only, Taking
<1>12. Answers(h, r, k, x.ans) BY <1>4, <1>6, <1>8, <1>9, <1>10 DEF Answers, Only, Taking
<1>13. Turns(h, r, k, x.ans) BY <1>6 DEF Turns, isCaptureRunning
<1>14. OfPicture(h, r, k, x.ans) BY <1>4, <1>6 DEF OfPicture, Only, Taking, Films
<1>15. OfParams(h, r, k) BY DEF OfParams
<1>16. Heeds(h, r, k, x.ans)
  <2>1. Result(r.api, t.ok).api # Result("ENABLE_MSG_TYPE", TRUE).api BY DEF Result
  <2>2. \A a, b : <<a>> = <<b>> => a = b OBVIOUS
  <2>3. \A a : <<a>> # <<>> OBVIOUS
  <2>4. x.ans # <<Result("ENABLE_MSG_TYPE", TRUE)>> BY <1>10, <2>1, <2>2, <2>3, Zenon
  <2> QED BY <1>5, <2>4 DEF Heeds
<1> QED BY <1>7, <1>10, <1>11, <1>12, <1>13, <1>14, <1>15, <1>16 DEF Moves

\* Every request in PREVIEWING.
LEMMA PreviewingMoves ==
  ASSUME NEW h \in Hal, NEW r, h.state = "PREVIEWING", NEW x \in Previewing(h, r)
  PROVE  Moves(h, r, x)
<1> USE DEF MsgApis, RecordingApis, SnapshotApis
<1>1. CASE r.api = "ENABLE_MSG_TYPE" /\ ~h.delay
  <2>1. x \in enableMsg(h, r) BY <1>1 DEF Previewing
  <2> QED BY <1>1, <2>1, EnableMoves
<1>2. CASE r.api = "ENABLE_MSG_TYPE" /\ h.delay
  <2> DEFINE g == [h EXCEPT !.delayed = TRUE]
  <2>1. x \in Accepted(g, r) BY <1>2 DEF Previewing
  <2>2. Only(h, g, {"delayed"}) /\ g.delayed BY DEF Only, Hal
  <2> HIDE DEF g
  <2>3. x.hal = g /\ x.ans = <<Result(r.api, TRUE)>> BY <2>1, AcceptedIs
  <2>4. Only(h, g, Others) BY <2>2 DEF Only, Others
  <2>5. OfParams(h, r, g) BY <1>2 DEF OfParams
  <2>6. Fits(h) => Fits(g) BY <2>2 DEF Only, Fits, isCaptureRunning, Films
  <2>7. g.state = h.state /\ Wanted(g) BY <1>2, <2>2 DEF Only, Wanted
  <2>8. r.api \notin PictureApis BY <1>2 DEF PictureApis
  <2> QED BY <1>2, <2>3, <2>4, <2>5, <2>6, <2>7, <2>8, OrdinaryMoves DEF isCaptureRunning
<1>3. CASE r.api = "DISABLE_MSG_TYPE"
  <2> DEFINE a == h.delay /\ ~h.delayed
             g == [h EXCEPT !.enabled = FALSE, !.delayed = FALSE, !.delay = a]
  <2>1. x \in Accepted(g, r) BY <1>3 DEF Previewing
  <2>2. a \in BOOLEAN OBVIOUS
  <2> HIDE DEF a
  <2>3. Only(h, g, {"enabled", "delayed", "delay"}) BY ZenonT(40), <2>2 DEF Only, Hal
  <2> HIDE DEF g
  <2>4. x.hal = g /\ x.ans = <<Result(r.api, TRUE)>> BY <2>1, AcceptedIs
  <2>5. Only(h, g, Others) BY <2>3 DEF Only, Others
  <2>6. OfParams(h, r, g) BY <1>3 DEF OfParams
  <2>7. Fits(h) => Fits(g) BY <2>3 DEF Only, Fits, isCaptureRunning, Films
  <2>8. g.state = h.state BY <2>3 DEF Only
  <2>9. r.api \notin PictureApis BY <1>3 DEF PictureApis
  <2> QED BY <1>3, <2>4, <2>5, <2>6, <2>7, <2>8, <2>9, OrdinaryMoves DEF isCaptureRunning
<1>4. CASE r.api = "SET_PARAMS"
  BY <1>4, UpdateMoves DEF Previewing
<1>5. CASE r.api = "SET_PARAMS_STOP"
  <2> DEFINE u == unpreparePreview(h)
  <2>1. x \in Accepted(u, r) BY <1>5 DEF Previewing, stopPreview
  <2>2. Only(h, u, {"chan", "on", "video"}) /\ ~u.on /\ ~u.video BY UnprepareIs
  <2> HIDE DEF u
  <2>3. x.hal = u /\ x.ans = <<Result(r.api, TRUE)>> BY <2>1, AcceptedIs
  <2>4. Only(h, u, Others) BY <2>2 DEF Only, Others
  <2>5. OfParams(h, r, u) BY <1>5, <2>2 DEF OfParams, Only
  <2>6. Fits(h) => Fits(u) BY <2>2 DEF Only, Fits, isCaptureRunning, Films
  <2>7. u.state = h.state /\ (Wanted(h) => Wanted(u)) BY <2>2 DEF Only, Wanted
  <2>8. r.api \notin PictureApis BY <1>5 DEF PictureApis
  <2> QED BY <1>5, <2>3, <2>4, <2>5, <2>6, <2>7, <2>8, OrdinaryMoves DEF isCaptureRunning
<1>6. CASE r.api = "SET_PARAMS_COMMIT"
  BY <1>6, CommitMoves DEF Previewing
<1>7. CASE r.api = "SET_PARAMS_RESTART"
  <2> DEFINE ops == RestartPreview(h)
  <2>1. x \in Reply(r, clearRestart(ops)) BY <1>7 DEF Previewing
  <2>2. \A y \in ops : /\ y \in Outcome /\ Only(h, y.h, Starting \cup {"state"}) /\ Ended(h, y.h)
                       /\ y.h.video => h.video
                       /\ Wanted(h) => Wanted(y.h)
                       /\ y.h.state = h.state \/ (y.h.state = "STOPPED" /\ ~y.h.on)
    BY RestartPreviewIs
  <2> HIDE DEF ops
  <2>3. ops \in SUBSET Outcome BY <2>2
  <2>4. PICK y \in ops : /\ y \in Outcome /\ x.ans = <<Result(r.api, y.ok)>> /\ Only(y.h, x.hal, {"restart"})
    BY <2>1, <2>3, ClearIs
  <2>5. /\ Only(h, y.h, Starting \cup {"state"}) /\ Ended(h, y.h)
        /\ y.h.video => h.video
        /\ Wanted(h) => Wanted(y.h)
        /\ y.h.state = h.state \/ (y.h.state = "STOPPED" /\ ~y.h.on)
    BY <2>2
  <2>6. y.ok \in BOOLEAN BY <2>4 DEF Outcome
  <2> DEFINE g == x.hal
  <2>7. Only(h, g, Others) BY <2>4, <2>5 DEF Only, Starting, Preparing, Others
  <2>8. OfParams(h, r, g) BY <1>7, <2>4, <2>5 DEF OfParams, Only, Starting, Preparing
  <2>9. Fits(h) => Fits(g)
    BY <2>4, <2>5 DEF Only, Fits, isCaptureRunning, Films, Ended, Starting, Preparing
  <2>10. Wanted(h) => Wanted(g) BY <2>4, <2>5 DEF Only, Wanted
  <2>11. r.api \notin PictureApis BY <1>7 DEF PictureApis
  <2>12. g.state \in {"PREVIEWING", "STOPPED"} BY <2>4, <2>5 DEF Only
  <2> QED BY <1>7, <2>4, <2>6, <2>7, <2>8, <2>9, <2>10, <2>11, <2>12, OrdinaryMoves DEF isCaptureRunning
<1>8. CASE r.api = "START_PREVIEW"
  <2> DEFINE g == applyDelayedMsgs(h)
  <2>1. x \in Accepted(g, r) BY <1>8 DEF Previewing
  <2>2. Only(h, g, {"enabled", "delayed", "delay"}) /\ (Wanted(h) => Wanted(g)) BY DelayedIs
  <2> HIDE DEF g
  <2>3. x.hal = g /\ x.ans = <<Result(r.api, TRUE)>> BY <2>1, AcceptedIs
  <2>4. Only(h, g, Others) BY <2>2 DEF Only, Others
  <2>5. OfParams(h, r, g) BY <1>8 DEF OfParams
  <2>6. Fits(h) => Fits(g) BY <2>2 DEF Only, Fits, isCaptureRunning, Films
  <2>7. g.state = h.state BY <2>2 DEF Only
  <2>8. r.api \notin PictureApis BY <1>8 DEF PictureApis
  <2> QED BY <1>8, <2>2, <2>3, <2>4, <2>5, <2>6, <2>7, <2>8, OrdinaryMoves DEF isCaptureRunning
<1>9. CASE r.api = "STOP_PREVIEW"
  <2> DEFINE u == unpreparePreview(h)
             d == applyDelayedMsgs(u)
             g == [d EXCEPT !.state = "STOPPED"]
  <2>1. x \in Accepted(g, r) BY <1>9 DEF Previewing, stopPreview
  <2>2. Only(h, u, {"chan", "on", "video"}) /\ ~u.on /\ ~u.video BY UnprepareIs
  <2>3. u \in Hal BY <2>2 DEF Only
  <2> HIDE DEF u
  <2>4. Only(u, d, {"enabled", "delayed", "delay"}) /\ (Wanted(u) => Wanted(d)) BY <2>3, DelayedIs
  <2>5. d \in Hal /\ "STOPPED" \in State BY <2>4 DEF Only, State
  <2> HIDE DEF d
  <2>6. Only(d, g, {"state"}) /\ g.state = "STOPPED" BY <2>5, InState
  <2> HIDE DEF g
  <2>7. x.hal = g /\ x.ans = <<Result(r.api, TRUE)>> BY <2>1, AcceptedIs
  <2>8. Only(h, g, Others) BY <2>2, <2>4, <2>6 DEF Only, Others
  <2>9. OfParams(h, r, g) BY <1>9 DEF OfParams
  <2>10. Fits(h) => Fits(g) BY <2>2, <2>4, <2>6 DEF Only, Fits, isCaptureRunning, Films
  <2>11. Wanted(h) => Wanted(g) BY <2>2, <2>4, <2>6 DEF Only, Wanted
  <2>12. r.api \notin PictureApis BY <1>9 DEF PictureApis
  <2> QED BY <1>9, <2>6, <2>7, <2>8, <2>9, <2>10, <2>11, <2>12, OrdinaryMoves DEF isCaptureRunning
<1>10. CASE r.api = "PRE_START_RECORDING"
  <2> DEFINE ops == preStartRecording(h)
  <2>1. x \in Reply(r, ops) BY <1>10 DEF Previewing
  <2>2. PICK y \in ops : x.hal = y.h /\ x.ans = <<Result(r.api, y.ok)>> BY <2>1, ReplyIs
  <2> DEFINE g == y.h
  <2>3. /\ y \in Outcome /\ Only(h, g, Preparing \cup {"zsl", "hint", "video"}) /\ (g.video => h.video)
        /\ IF isCaptureRunning(h) THEN g.pic => h.pic ELSE g.pic = h.pic
        /\ g.cap => h.cap
    BY PreStartIs
  <2>4. y.ok \in BOOLEAN BY <2>3 DEF Outcome
  <2>5. Only(h, g, Others) BY <2>3 DEF Only, Others, Preparing
  <2>6. OfParams(h, r, g) BY <1>10 DEF OfParams
  <2>7. Fits(h) => Fits(g) BY <2>3 DEF Only, Fits, isCaptureRunning, Films, Preparing
  <2>8. g.state = h.state /\ (Wanted(h) => Wanted(g)) BY <2>3 DEF Only, Wanted, Preparing
  <2>9. r.api \notin PictureApis BY <1>10 DEF PictureApis
  <2> QED BY <1>10, <2>2, <2>4, <2>5, <2>6, <2>7, <2>8, <2>9, OrdinaryMoves DEF isCaptureRunning
<1>11. CASE r.api = "START_RECORDING"
  <2> DEFINE ops == startRecording(h)
             outs == {IF s.ok THEN Ok([applyDelayedMsgs(s.h) EXCEPT !.state = "RECORDING"]) ELSE s : s \in ops}
  <2>1. x \in Reply(r, outs) BY <1>11 DEF Previewing
  <2>2. PICK z \in outs : x.hal = z.h /\ x.ans = <<Result(r.api, z.ok)>> BY <2>1, ReplyIs
  <2>3. PICK s \in ops : z = IF s.ok THEN Ok([applyDelayedMsgs(s.h) EXCEPT !.state = "RECORDING"]) ELSE s
    OBVIOUS
  <2>4. s \in Outcome /\ Only(h, s.h, {"video", "fails"}) /\ (~s.ok => s.h.video = h.video) BY StartRecordingIs
  <2> HIDE DEF ops, outs
  <2> DEFINE d == applyDelayedMsgs(s.h)
             k == [d EXCEPT !.state = "RECORDING"]
             g == x.hal
  <2>5. s.h \in Hal /\ s.ok \in BOOLEAN BY <2>4 DEF Outcome
  <2>6. Only(s.h, d, {"enabled", "delayed", "delay"}) /\ (Wanted(s.h) => Wanted(d)) BY <2>5, DelayedIs
  <2>7. d \in Hal /\ "RECORDING" \in State BY <2>6 DEF Only, State
  <2>8. z = IF s.ok THEN Ok(k) ELSE s BY <2>3
  <2> HIDE DEF d
  <2>9. Only(d, k, {"state"}) /\ k.state = "RECORDING" BY <2>7, InState
  <2> HIDE DEF k
  <2>10. z.ok \in BOOLEAN /\ g = IF s.ok THEN k ELSE s.h BY <2>2, <2>5, <2>8 DEF Ok
  <2> HIDE DEF g
  <2>11. Only(h, g, Others)
    <3>1. CASE s.ok BY <2>4, <2>6, <2>9, <2>10, <3>1 DEF Only, Others
    <3>2. CASE ~s.ok BY <2>4, <2>10, <3>2 DEF Only, Others
    <3> QED BY <3>1, <3>2
  <2>12. OfParams(h, r, g) BY <1>11 DEF OfParams
  <2>13. Fits(h) => Fits(g)
    <3>1. CASE s.ok BY <2>4, <2>6, <2>9, <2>10, <3>1 DEF Only, Fits, isCaptureRunning, Films
    <3>2. CASE ~s.ok BY <2>4, <2>10, <3>2 DEF Only, Fits, isCaptureRunning, Films
    <3> QED BY <3>1, <3>2
  <2>14. Wanted(h) => Wanted(g)
    <3>1. CASE s.ok BY <2>4, <2>6, <2>9, <2>10, <3>1 DEF Only, Wanted
    <3>2. CASE ~s.ok BY <2>4, <2>10, <3>2 DEF Only, Wanted
    <3> QED BY <3>1, <3>2
  <2>15. g.state \in {"RECORDING", "PREVIEWING"}
    <3>1. CASE s.ok BY <2>9, <2>10, <3>1
    <3>2. CASE ~s.ok BY <2>4, <2>10, <3>2 DEF Only
    <3> QED BY <3>1, <3>2
  <2>16. r.api \notin PictureApis BY <1>11 DEF PictureApis
  <2> QED BY <1>11, <2>2, <2>10, <2>11, <2>12, <2>13, <2>14, <2>15, <2>16, OrdinaryMoves
          DEF isCaptureRunning, g
<1>12. CASE r.api = "PREPARE_SNAPSHOT"
  <2>1. PICK s \in prepareHardwareForSnapshot(h) :
          x \in Prepares(s, [applyDelayedMsgs(s.h) EXCEPT !.state = "PREPARE_SNAPSHOT"], r)
    BY <1>12 DEF Previewing, Prepares
  <2> DEFINE d == applyDelayedMsgs(s.h)
             k == [d EXCEPT !.state = "PREPARE_SNAPSHOT"]
             g == x.hal
  <2>2. x \in Prepares(s, k, r) BY <2>1
  <2> HIDE DEF k
  <2>3. /\ Only(h, s.h, {"prep", "fails"}) /\ s \in Outcome
        /\ \/ g = k /\ x.ans = <<>> /\ s.h.prep /\ ~h.dead
           \/ g = s.h /\ x.ans = <<Result(r.api, FALSE)>> /\ s.h.prep = h.prep
    BY <2>2, PreparesIs
  <2>4. s.h \in Hal BY <2>3 DEF Outcome
  <2>5. Only(s.h, d, {"enabled", "delayed", "delay"}) /\ (Wanted(s.h) => Wanted(d)) BY <2>4, DelayedIs
  <2>6. d \in Hal /\ "PREPARE_SNAPSHOT" \in State BY <2>5 DEF Only, State
  <2> HIDE DEF d
  <2>7. Only(d, k, {"state"}) /\ k.state = "PREPARE_SNAPSHOT" BY <2>6, InState DEF k
  <2> HIDE DEF g
  <2>8. /\ Only(h, g, {"prep", "fails", "enabled", "delayed", "delay", "state"}) /\ (Wanted(h) => Wanted(g))
        /\ \/ x.ans = <<>> /\ g.prep /\ ~h.dead /\ g.state = "PREPARE_SNAPSHOT"
           \/ x.ans = <<Result(r.api, FALSE)>> /\ g.prep = h.prep /\ g.state = "PREVIEWING"
    <3>1. CASE g = k /\ x.ans = <<>> /\ s.h.prep /\ ~h.dead
      <4>1. Only(h, g, {"prep", "fails", "enabled", "delayed", "delay", "state"})
        BY <2>3, <2>5, <2>7, <3>1 DEF Only
      <4>2. Wanted(h) => Wanted(g) BY <2>3, <2>5, <2>7, <3>1 DEF Only, Wanted
      <4>3. g.prep /\ g.state = "PREPARE_SNAPSHOT" BY <2>5, <2>7, <3>1 DEF Only
      <4> QED BY <3>1, <4>1, <4>2, <4>3
    <3>2. CASE g = s.h /\ x.ans = <<Result(r.api, FALSE)>> /\ s.h.prep = h.prep
      BY <2>3, <3>2 DEF Only, Wanted
    <3> QED BY <2>3, <3>1, <3>2
  <2>9. Leaves(h, g) BY <2>8 DEF Leaves, Only
  <2>10. Answers(h, r, g, x.ans) BY <1>12, <2>8 DEF Answers, Only
  <2>11. Turns(h, r, g, x.ans) BY <1>12, <2>8 DEF Turns, isCaptureRunning
  <2>12. OfPicture(h, r, g, x.ans) BY <1>12, <2>8 DEF OfPicture, Only
  <2>13. OfParams(h, r, g) BY <1>12 DEF OfParams
  <2>14. Heeds(h, r, g, x.ans)
    <3>1. x.ans # <<Result("ENABLE_MSG_TYPE", TRUE)>> BY <1>12, <2>8 DEF Result
    <3> QED BY <2>8, <3>1 DEF Heeds
  <2>15. Fits(h) => Fits(g) BY <2>8 DEF Only, Fits, isCaptureRunning, Films
  <2> QED BY <2>9, <2>10, <2>11, <2>12, <2>13, <2>14, <2>15 DEF Moves, g
<1>13. CASE r.api = "TAKE_PICTURE"
  <2>1. PICK g \in WithoutHint(h) : \E t \in TakeFromPreview(g) : x \in Replies(t, r)
    BY <1>13 DEF Previewing, Replies
  <2>2. PICK t \in TakeFromPreview(g) : x \in Replies(t, r) BY <2>1
  <2> QED BY <1>13, <2>1, <2>2, TakeMoves
<1>14. CASE r.api = "SEND_COMMAND" /\ r.arg = "restart" /\ h.zsl /\ h.chan = "zsl"
  <2> DEFINE l == [h EXCEPT !.longshot = TRUE]
             u == unpreparePreview(l)
             ops == PrepareAndStart(u, TRUE)
  <2>1. x \in Reply(r, ops) BY <1>14 DEF Previewing, stopPreview
  <2>2. Only(h, l, {"longshot"}) BY DEF Only, Hal
  <2>3. l \in Hal BY <2>2 DEF Only
  <2> HIDE DEF l
  <2>4. Only(l, u, {"chan", "on", "video"}) /\ ~u.on /\ ~u.video BY <2>3, UnprepareIs
  <2>5. u \in Hal BY <2>4 DEF Only
  <2> HIDE DEF u
  <2>6. PICK y \in ops : x.hal = y.h /\ x.ans = <<Result(r.api, y.ok)>> BY <2>1, ReplyIs
  <2>7. y \in Outcome /\ Only(u, y.h, Starting) /\ Ended(u, y.h)
            /\ (y.h.video => u.video) /\ (Wanted(u) => Wanted(y.h))
    BY <2>5, PrepareAndStartIs
  <2> HIDE DEF ops
  <2> DEFINE g == y.h
  <2>8. y.ok \in BOOLEAN BY <2>7 DEF Outcome
  <2>9. Only(h, g, Others) BY <2>2, <2>4, <2>7 DEF Only, Starting, Preparing, Others
  <2>10. OfParams(h, r, g) BY <1>14 DEF OfParams
  <2>11. Fits(h) => Fits(g)
    BY <2>2, <2>4, <2>7 DEF Only, Fits, isCaptureRunning, Films, Ended, Starting, Preparing
  <2>12. Wanted(h) => Wanted(g) BY <2>2, <2>4, <2>7 DEF Only, Wanted
  <2>13. g.state = h.state BY <2>2, <2>4, <2>7 DEF Only, Starting, Preparing
  <2>14. r.api \notin PictureApis BY <1>14 DEF PictureApis
  <2> QED BY <1>14, <2>6, <2>8, <2>9, <2>10, <2>11, <2>12, <2>13, <2>14, OrdinaryMoves DEF isCaptureRunning
<1>15. CASE r.api = "SEND_COMMAND" /\ ~(r.arg = "restart" /\ h.zsl /\ h.chan = "zsl")
  <2>1. x \in sendCommand(h, r) BY <1>15 DEF Previewing
  <2> QED BY <1>15, <2>1, CommandMoves
<1>16. CASE r.api \in {"GET_PARAMS", "PREPARE_PREVIEW", "PRE_TAKE_PICTURE", "CANCEL_PICTURE", "STOP_RECORDING"}
  <2>1. x \in Accepted(h, r) BY <1>16 DEF Previewing
  <2> QED BY <1>16, <2>1, AcceptedMoves DEF isCaptureRunning
<1>17. CASE r.api \in {"SET_PREVIEW_WINDOW", "RELEASE"}
  <2>1. x \in Refused(h, r) BY <1>17 DEF Previewing
  <2> QED BY <1>17, <2>1, RefusedMoves
<1>18. CASE r.api \notin Api \ {"STOP_CAPTURE_CHANNEL"}
  <2>1. x = Quiet(h) BY <1>18 DEF Previewing, Api, PictureApis, ParamApis
  <2> QED BY <1>18, <2>1, QuietMoves
<1> QED BY <1>1, <1>2, <1>3, <1>4, <1>5, <1>6, <1>7, <1>8, <1>9, <1>10, <1>11, <1>12, <1>13, <1>14, <1>15,
           <1>16, <1>17, <1>18
        DEF Api, PictureApis, ParamApis

\* Every request in every state.
LEMMA MachineMoves ==
  ASSUME NEW h \in Hal, NEW r, NEW x \in stateMachine(h, r)
  PROVE  Moves(h, r, x)
<1>1. h.state \in State BY DEF Hal
<1> QED BY <1>1, StoppedMoves, ReadyMoves, PreviewingMoves, PrepareSnapshotMoves, PicTakingMoves, RecordingMoves,
           VideoPicTakingMoves, PreviewPicTakingMoves
        DEF stateMachine, State

-----------------------------------------------------------------------------
(* Sequences. *)

-----------------------------------------------------------------------------
(* Events. *)

\* The callback thread has its answer.
SignalIs(h, g) == Only(h, g, {"cb"}) /\ g.cb = IF h.cb = "waiting" THEN "idle" ELSE h.cb

\* signalEvtResult.
LEMMA SignalsIs ==
  ASSUME NEW h \in Hal
  PROVE  SignalIs(h, signalEvtResult(h))
<1> DEFINE b == IF h.cb = "waiting" THEN "idle" ELSE h.cb
           g == [h EXCEPT !.cb = b]
<1>1. b \in {"idle", "told", "waiting"} BY DEF Hal
<1>2. signalEvtResult(h) = g BY DEF signalEvtResult
<1> HIDE DEF b
<1>3. Only(h, g, {"cb"}) /\ g.cb = b BY <1>1 DEF Only, Hal
<1> QED BY <1>2, <1>3 DEF SignalIs, b

\* The picture ends with SNAPSHOT_DONE; without a picture the callback thread is let go.
AfterDone(h, g) ==
  /\ Only(h, g, {"state", "pic", "cap", "th", "cb"})
  /\ IF isCaptureRunning(h) THEN g.state \in {"STOPPED", "RECORDING", "PREVIEWING"} ELSE SignalIs(h, g)
  /\ h.state = "VIDEO_PIC_TAKING" => g.state = "RECORDING"
  /\ Fits(h) /\ ~EarlyRestart => Fits(g)

\* SNAPSHOT_DONE in every state.
LEMMA DoneIs ==
  ASSUME NEW h \in Hal, NEW g \in snapshotDone(h)
  PROVE  AfterDone(h, g)
<1>0. h.state \in State BY DEF Hal
<1>1. CASE h.state = "PIC_TAKING"
  <2> DEFINE k == cancelPicture(h)
             a == IF EarlyRestart THEN "PREVIEWING" ELSE "STOPPED"
             l == [k EXCEPT !.state = a]
  <2>1. Only(h, k, {"pic", "cap"}) /\ ~k.pic /\ (k.cap <=> h.cap /\ h.zsl) BY CancelIs
  <2>2. k \in Hal /\ a \in State BY <2>1 DEF Only, State
  <2>3. g = signalEvtResult(l) BY <1>1 DEF snapshotDone
  <2>3a. a \in {"PREVIEWING", "STOPPED"} /\ (~EarlyRestart => a = "STOPPED") OBVIOUS
  <2> HIDE DEF k, a
  <2>4. Only(k, l, {"state"}) /\ l.state = a BY <2>2, InState
  <2>5. l \in Hal BY <2>4 DEF Only
  <2> HIDE DEF l
  <2>6. SignalIs(l, g) BY <2>3, <2>5, SignalsIs
  <2>7. Only(h, g, {"state", "pic", "cap", "th", "cb"}) BY <2>1, <2>4, <2>6 DEF Only, SignalIs
  <2>8. Fits(h) /\ ~EarlyRestart => Fits(g)
    BY <1>1, <2>1, <2>3a, <2>4, <2>6 DEF Only, SignalIs, Fits, isCaptureRunning, Films
  <2>9. g.state = a BY <2>4, <2>6 DEF Only, SignalIs
  <2> QED BY <1>1, <2>3a, <2>7, <2>8, <2>9 DEF AfterDone, isCaptureRunning
<1>2. CASE h.state = "VIDEO_PIC_TAKING"
  <2>1. PICK x \in cancelLiveSnapshot(h) : g = signalEvtResult([x.h EXCEPT !.state = "RECORDING"])
    BY <1>2 DEF snapshotDone
  <2> DEFINE l == [x.h EXCEPT !.state = "RECORDING"]
  <2>2. Only(h, x.h, {"th"}) /\ h.th = "none" /\ x.h.th = "cancel" BY CancelLiveIs
  <2>3. x.h \in Hal /\ "RECORDING" \in State BY <2>2 DEF Only, State
  <2>4. Only(x.h, l, {"state"}) /\ l.state = "RECORDING" BY <2>3, InState
  <2>5. l \in Hal BY <2>4 DEF Only
  <2>6. SignalIs(l, g) BY <2>1, <2>5, SignalsIs
  <2> HIDE DEF l
  <2>7. Only(h, g, {"state", "pic", "cap", "th", "cb"}) BY <2>2, <2>4, <2>6 DEF Only, SignalIs
  <2>8. Fits(h) => Fits(g) BY <1>2, <2>2, <2>4, <2>6 DEF Only, SignalIs, Fits, isCaptureRunning, Films
  <2>9. g.state = "RECORDING" BY <2>4, <2>6 DEF Only, SignalIs
  <2> QED BY <1>2, <2>7, <2>8, <2>9 DEF AfterDone, isCaptureRunning
<1>3. CASE h.state = "PREVIEW_PIC_TAKING"
  <2>1. PICK x \in EndPicture(h) : g = signalEvtResult([x.h EXCEPT !.state = "PREVIEWING"])
    BY <1>3 DEF snapshotDone
  <2> DEFINE l == [x.h EXCEPT !.state = "PREVIEWING"]
  <2>2. /\ Only(h, x.h, {"pic", "cap", "th"})
        /\ IF h.zsl \/ h.longshot THEN ~x.h.pic /\ (x.h.cap <=> h.cap /\ h.zsl) /\ x.h.th = h.th
           ELSE x.h.pic = h.pic /\ x.h.cap = h.cap /\ x.h.th = "cancel"
    BY EndPictureIs
  <2>3. x.h \in Hal /\ "PREVIEWING" \in State BY <2>2 DEF Only, State
  <2>4. Only(x.h, l, {"state"}) /\ l.state = "PREVIEWING" BY <2>3, InState
  <2>5. l \in Hal BY <2>4 DEF Only
  <2>6. SignalIs(l, g) BY <2>1, <2>5, SignalsIs
  <2> HIDE DEF l
  <2>7. Only(h, g, {"state", "pic", "cap", "th", "cb"}) BY <2>2, <2>4, <2>6 DEF Only, SignalIs
  <2>8. Fits(h) => Fits(g) BY <1>3, <2>2, <2>4, <2>6 DEF Only, SignalIs, Fits, isCaptureRunning, Films
  <2>9. g.state = "PREVIEWING" BY <2>4, <2>6 DEF Only, SignalIs
  <2> QED BY <1>3, <2>7, <2>8, <2>9 DEF AfterDone, isCaptureRunning
<1>4. CASE ~isCaptureRunning(h)
  <2>1. g = signalEvtResult(h) BY <1>0, <1>4 DEF snapshotDone, isCaptureRunning, State
  <2>2. SignalIs(h, g) BY <2>1, SignalsIs
  <2>3. Fits(h) => Fits(g) BY <2>2 DEF SignalIs, Only, Fits, isCaptureRunning, Films
  <2>4. Only(h, g, {"state", "pic", "cap", "th", "cb"}) BY <2>2 DEF SignalIs, Only
  <2> QED BY <1>4, <2>2, <2>3, <2>4 DEF AfterDone, isCaptureRunning
<1> QED BY <1>1, <1>2, <1>3, <1>4 DEF isCaptureRunning

\* What an event does to the machine and what it answers.
Happens(h, e, g, ans) ==
  /\ Only(h, g, {"state", "pic", "cap", "th", "cb"})
  /\ \/ e = "SNAPSHOT_DONE" /\ ans = <<>> /\ AfterDone(h, g)
     \/ e = "JPEG" /\ ans = <<>> /\ Only(h, g, {"cb"}) /\ (~isCaptureRunning(h) => g = h)
     \/ e = "PREP_DONE" /\ Prepared(h) /\ ans = <<Result("PREPARE_SNAPSHOT", TRUE)>> /\ Only(h, g, {"state"})
        /\ g.state = IF h.state = "PREPARE_SNAPSHOT" THEN "PREVIEWING" ELSE h.state
     \/ e = "PREP_DONE" /\ ~Prepared(h) /\ ans = <<>> /\ g = h
     \/ e = "READY" /\ ans = <<Result("TAKE_PICTURE", TRUE)>> /\ g = h
        /\ h.state = "PREVIEW_PIC_TAKING" /\ h.retro # "no"
     \/ e = "READY" /\ ans = <<>> /\ g = h /\ ~(h.state = "PREVIEW_PIC_TAKING" /\ h.retro # "no")
     \/ e = "DAEMON_DIED" /\ ans = <<Result("PREPARE_SNAPSHOT", TRUE), Result("TAKE_PICTURE", TRUE)>> /\ g = h
     \/ e = "DAEMON_DIED" /\ ans = <<>> /\ g = h
        /\ h.state \notin {"PREPARE_SNAPSHOT", "PREVIEW_PIC_TAKING"}
  /\ Fits(h) /\ ~EarlyRestart => Fits(g)

\* Every event in every state.
LEMMA EventHappens ==
  ASSUME NEW h \in Hal, NEW e \in Event, NEW x \in procEvt(h, e)
  PROVE  Happens(h, e, x.hal, x.ans)
<1> USE DEF Event
<1>1. CASE e = "SNAPSHOT_DONE"
  <2>1. PICK g \in snapshotDone(h) : x = Quiet(g) BY <1>1 DEF procEvt
  <2>2. x.hal = g /\ x.ans = <<>> BY <2>1 DEF Quiet
  <2>3. AfterDone(h, g) BY DoneIs
  <2> QED BY <1>1, <2>2, <2>3 DEF Happens, AfterDone
<1>2. CASE e = "JPEG"
  <2> DEFINE b == IF h.cb = "idle" /\ h.pic THEN "told" ELSE h.cb
             k == [h EXCEPT !.cb = b]
             g == IF isCaptureRunning(h) THEN k ELSE h
  <2>1. x = Quiet(g) BY <1>2 DEF procEvt, processJpegNotify
  <2>2. b \in {"idle", "told", "waiting"} BY DEF Hal
  <2> HIDE DEF b
  <2>3. Only(h, k, {"cb"}) /\ Only(h, h, {"cb"}) BY <2>2 DEF Only, Hal
  <2>4. Only(h, g, {"cb"}) /\ (~isCaptureRunning(h) => g = h) BY <2>3
  <2> HIDE DEF g
  <2>5. x.hal = g /\ x.ans = <<>> BY <2>1 DEF Quiet
  <2>6. Fits(h) => Fits(g) BY <2>4 DEF Only, Fits, isCaptureRunning, Films
  <2>7. Only(h, g, {"state", "pic", "cap", "th", "cb"}) BY <2>4 DEF Only
  <2> QED BY <1>2, <2>4, <2>5, <2>6, <2>7 DEF Happens
<1>3. CASE e = "PREP_DONE" /\ Prepared(h)
  <2> DEFINE a == IF h.state = "PREPARE_SNAPSHOT" THEN "PREVIEWING" ELSE h.state
             g == [h EXCEPT !.state = a]
             y == <<Result("PREPARE_SNAPSHOT", TRUE)>>
  <2>1. x = [hal |-> g, ans |-> y] BY <1>3 DEF procEvt, Prepared
  <2>2. a \in State BY DEF Hal, State
  <2>3. Only(h, g, {"state"}) /\ g.state = a BY <2>2, InState
  <2> HIDE DEF g, y
  <2>4. x.hal = g /\ x.ans = y BY <2>1
  <2>5. Fits(h) => Fits(g) BY <1>3, <2>3 DEF Only, Fits, isCaptureRunning, Films, Prepared
  <2>6. Only(h, g, {"state", "pic", "cap", "th", "cb"}) BY <2>3 DEF Only
  <2> QED BY <1>3, <2>3, <2>4, <2>5, <2>6 DEF Happens, y
<1> DEFINE o == h
<1>4. Only(h, h, {"state", "pic", "cap", "th", "cb"}) BY DEF Only
<1>5. CASE e = "PREP_DONE" /\ ~Prepared(h)
  <2>1. x = Quiet(h) BY <1>5 DEF procEvt, Prepared
  <2>2. x.hal = h /\ x.ans = <<>> BY <2>1 DEF Quiet
  <2> QED BY <1>4, <1>5, <2>2 DEF Happens
<1>6. CASE e = "READY"
  <2>1. CASE h.state = "PREVIEW_PIC_TAKING" /\ h.retro # "no"
    <3> DEFINE y == <<Result("TAKE_PICTURE", TRUE)>>
    <3>1. x = [hal |-> h, ans |-> y] BY <1>6, <2>1 DEF procEvt
    <3> HIDE DEF y
    <3>2. x.hal = h /\ x.ans = y BY <3>1
    <3> QED BY <1>4, <1>6, <2>1, <3>2 DEF Happens, y
  <2>2. CASE ~(h.state = "PREVIEW_PIC_TAKING" /\ h.retro # "no")
    <3>1. x = Quiet(h) BY <1>6, <2>2 DEF procEvt
    <3>2. x.hal = h /\ x.ans = <<>> BY <3>1 DEF Quiet
    <3> QED BY <1>4, <1>6, <2>2, <3>2 DEF Happens
  <2> QED BY <2>1, <2>2
<1>7. CASE e = "DAEMON_DIED"
  <2>1. CASE h.state \in {"PREPARE_SNAPSHOT", "PIC_TAKING", "PREVIEW_PIC_TAKING"}
    <3> DEFINE y == <<Result("PREPARE_SNAPSHOT", TRUE), Result("TAKE_PICTURE", TRUE)>>
    <3>1. x = [hal |-> h, ans |-> y] BY <1>7, <2>1 DEF procEvt, DaemonDied
    <3> HIDE DEF y
    <3>2. x.hal = h /\ x.ans = y BY <3>1
    <3> QED BY <1>4, <1>7, <2>1, <3>2 DEF Happens, y
  <2>2. CASE ~(h.state \in {"PREPARE_SNAPSHOT", "PIC_TAKING", "PREVIEW_PIC_TAKING"})
    <3>1. x = Quiet(h) BY <1>7, <2>2 DEF procEvt
    <3>2. x.hal = h /\ x.ans = <<>> BY <3>1 DEF Quiet
    <3> QED BY <1>4, <1>7, <2>2, <3>2 DEF Happens
  <2> QED BY <2>1, <2>2
<1> QED BY <1>1, <1>2, <1>3, <1>5, <1>6, <1>7

-----------------------------------------------------------------------------
(* The calls and their requests. *)

\* STOP_CAPTURE_CHANNEL is nobody's and is never answered.
LEMMA StopCaptureAnswersNothing ==
  ASSUME NEW h \in Hal, NEW r \in Request, r.api = "STOP_CAPTURE_CHANNEL", NEW x \in stateMachine(h, r)
  PROVE  x.ans = <<>>
<1> USE DEF Quiet, MsgApis, RecordingApis, SnapshotApis, ParamApis
<1>1. CASE h.state = "STOPPED" BY <1>1 DEF stateMachine, Stopped
<1>2. CASE h.state = "READY" BY <1>2 DEF stateMachine, Ready
<1>3. CASE h.state = "PREVIEWING" BY <1>3 DEF stateMachine, Previewing
<1>4. CASE h.state = "PREPARE_SNAPSHOT" BY <1>4 DEF stateMachine, PrepareSnapshot
<1>5. CASE h.state = "PIC_TAKING"
  <2>1. x \in PicTaking(h, r) BY <1>5 DEF stateMachine
  <2>2. \E g : x = Quiet(g)
    <3>1. CASE ~EarlyRestart BY <2>1, <3>1 DEF PicTaking
    <3>2. CASE EarlyRestart BY <2>1, <3>2 DEF PicTaking
    <3> QED BY <3>1, <3>2
  <2> QED BY <2>2
<1>6. CASE h.state = "RECORDING" BY <1>6 DEF stateMachine, Recording
<1>7. CASE h.state = "VIDEO_PIC_TAKING" BY <1>7 DEF stateMachine, VideoPicTaking
<1>8. CASE h.state = "PREVIEW_PIC_TAKING" BY <1>8 DEF stateMachine, PreviewPicTaking
<1>9. h.state \in State BY DEF Hal
<1> QED BY <1>1, <1>2, <1>3, <1>4, <1>5, <1>6, <1>7, <1>8, <1>9 DEF State

\* The first request of a call.
LEMMA FirstIs ==
  ASSUME NEW call \in CallName, NEW req \in First(call)
  PROVE  /\ req \in Request /\ CallFits(call, req)
         /\ req.api \notin {"SET_PARAMS_STOP", "SET_PARAMS_COMMIT", "SET_PARAMS_RESTART", "START_RECORDING", "TAKE_PICTURE"}
         /\ call = "take_retro" => req.api = "PRE_TAKE_PICTURE"
         /\ req = Req("SEND_COMMAND", "off") => call = "longshot_off"
         /\ req.api = "DISABLE_MSG_TYPE" => call = "disable_msg_type"
<1> USE DEF Request, CallFits, SetApis, RecordingApis, SnapshotApis, Api, PictureApis, MsgApis, ParamApis, Plain, Req, CallName, RetroCalls
<1>1. CASE call = "set_parameters"
  <2>1. PICK a \in {"same", "restart", "zsl"} : req = Req("SET_PARAMS", a) BY <1>1 DEF First
  <2> QED BY <1>1, <2>1
<1>2. CASE call \in {"take_picture", "longshot_on"}
  <2>1. CASE call = "take_picture" BY <2>1 DEF First
  <2>2. CASE call = "longshot_on"
    <3>1. req = Req("SEND_COMMAND", "on") \/ req = Req("SEND_COMMAND", "restart") BY <2>2 DEF First
    <3> QED BY <2>2, <3>1
  <2> QED BY <1>2, <2>1, <2>2
<1>3. CASE call = "longshot_off" BY <1>3 DEF First
<1>4. CASE call \in {"set_preview_window", "start_preview", "stop_preview", "prepare_preview"}
  BY <1>4 DEF First
<1>5. CASE call \in {"enable_msg_type", "disable_msg_type", "get_parameters", "start_recording"}
  BY <1>5 DEF First
<1>6. CASE call \in {"stop_recording", "take_retro", "cancel_picture", "release"}
  BY <1>6 DEF First
<1> QED BY <1>1, <1>2, <1>3, <1>4, <1>5, <1>6

\* The request that follows an answer.
Follows(call, api, ok, n) ==
  \/ n = NoReq
  \/ api = "SET_PARAMS" /\ n = Plain("SET_PARAMS_STOP") /\ hal.restart
  \/ api = "SET_PARAMS" /\ n = Plain("SET_PARAMS_COMMIT") /\ ~hal.restart
  \/ api = "SET_PARAMS_STOP" /\ ok /\ n = Plain("SET_PARAMS_COMMIT")
  \/ api = "SET_PARAMS_COMMIT" /\ n = Plain("SET_PARAMS_RESTART") /\ hal.restart
  \/ api = "PRE_START_RECORDING" /\ n = Plain("START_RECORDING")
  \/ api = "PREPARE_SNAPSHOT" /\ n = Plain("PRE_TAKE_PICTURE") /\ call = "take_picture"
  \/ api = "PRE_TAKE_PICTURE" /\ ok /\ n = Plain("TAKE_PICTURE")
  \/ api = "TAKE_PICTURE" /\ n = Plain("PREPARE_SNAPSHOT") /\ call \in RetroCalls /\ hal.retro = "flash"

\* After an answer a call ends or goes on with its next request.
LEMMA AfterFollows ==
  ASSUME NEW call, NEW api, NEW ok \in BOOLEAN
  PROVE  LET n == After(call, api, ok)
         IN  Follows(call, api, ok, n) /\ (n # NoReq => n \in Request)
<1> DEFINE n == After(call, api, ok)
<1>1. Follows(call, api, ok, n)
  BY DEF After, Follows
<1> DEFINE Next_ == {"SET_PARAMS_STOP", "SET_PARAMS_COMMIT", "SET_PARAMS_RESTART", "START_RECORDING",
             "PRE_TAKE_PICTURE", "TAKE_PICTURE", "PREPARE_SNAPSHOT"}
<1>2. \A a \in Next_ : Plain(a) \in Request
  BY DEF Plain, Req, Request, Api, ParamApis, RecordingApis, PictureApis, SnapshotApis
<1> HIDE DEF n
<1>3. n # NoReq => \E a \in Next_ : n = Plain(a) BY <1>1 DEF Follows
<1>4. n # NoReq => n \in Request BY <1>2, <1>3
<1> QED BY <1>1, <1>4 DEF n

-----------------------------------------------------------------------------
(* The steps of the specification, with the types they keep. *)

\* Results, and callers inside a call.
Answer == [api : Api, ok : BOOLEAN]
\* A caller inside a call.
Busy == [call : CallName \cup RetroCalls, req : Request, st : {"post", "asleep", "woken"}]

\* A caller that is not idle has a call and a request.
LEMMA BusyCallers ==
  ASSUME MachineTypeOK, NEW c \in Caller
  PROVE  /\ caller[c].st # "idle" => caller[c] \in Busy
         /\ caller[c] # Idle => caller[c].st # "idle" /\ caller[c] \in Busy
BY DEF MachineTypeOK, Busy, Idle

\* One caller has changed.
LEMMA CallerChanges ==
  ASSUME MachineTypeOK, NEW c \in Caller, NEW k \in {Idle} \cup Busy, caller' = [caller EXCEPT ![c] = k]
  PROVE  /\ caller'[c] = k /\ \A d \in Caller : d # c => caller'[d] = caller[d]
         /\ caller' \in [Caller -> {Idle} \cup Busy]
BY DEF MachineTypeOK, Busy

\* The name of a call that begins now.
Named(call) == IF call = "take_retro" /\ ~Settled THEN "early_retro" ELSE call

\* A call begins with its first request.
LEMMA CallIs ==
  ASSUME MachineTypeOK, NEW c \in Caller, NEW call \in Calls[c], Call(c, call)
  PROVE  \E req \in First(call) :
           LET k == [call |-> Named(call), req |-> req, st |-> "asleep"] IN
           /\ req \in Request /\ call \in CallName /\ k \in Busy
           /\ Only(hal, hal', {"retro"})
           /\ IF call = "take_picture" THEN hal'.retro = "no"
              ELSE IF call = "take_retro" THEN hal'.retro # "no" ELSE hal' = hal
           /\ apiQ' = Append(apiQ, req) /\ caller' = [caller EXCEPT ![c] = k]
           /\ call = "set_parameters" /\ CarefulApp /\ isCaptureRunning(hal) =>
                req.arg # "zsl" /\ hal.zslNew = hal.zsl
           /\ MachineTypeOK'
<1>1. call \in CallName BY Hal1Assumption
<1>2. Only(hal, hal', {"retro"})
  <2>1. hal' = hal \/ \E x \in {"no", "plain", "flash"} : hal' = [hal EXCEPT !.retro = x]
    BY DEF Call
  <2>2. ASSUME NEW x \in {"no", "plain", "flash"} PROVE Only(hal, [hal EXCEPT !.retro = x], {"retro"})
    BY DEF Only, Hal, MachineTypeOK
  <2>3. Only(hal, hal, {"retro"}) BY DEF Only, MachineTypeOK
  <2> QED BY <2>1, <2>2, <2>3
<1>3. IF call = "take_picture" THEN hal'.retro = "no"
      ELSE IF call = "take_retro" THEN hal'.retro # "no" ELSE hal' = hal
  BY DEF Call, MachineTypeOK, Hal
<1>4. PICK req \in First(call) :
        /\ call = "set_parameters" /\ CarefulApp /\ isCaptureRunning(hal) =>
             req.arg # "zsl" /\ hal.zslNew = hal.zsl
        /\ apiQ' = Append(apiQ, req)
        /\ caller' = [caller EXCEPT ![c] = [call |-> Named(call), req |-> req, st |-> "asleep"]]
  BY DEF Call, Named
<1> DEFINE k == [call |-> Named(call), req |-> req, st |-> "asleep"]
<1>5. req \in Request BY <1>1, FirstIs
<1>6. k \in Busy BY <1>1, <1>5 DEF Busy, Named, RetroCalls
<1>7. apiQ' \in Seq(Request) BY <1>4, <1>5 DEF MachineTypeOK
<1>8. caller' \in [Caller -> {Idle} \cup Busy] BY <1>4, <1>6, CallerChanges
<1>9. hal' \in Hal BY <1>2 DEF Only
<1>10. UNCHANGED <<evtQ, results, asked>> BY DEF Call
<1>11. MachineTypeOK' BY <1>7, <1>8, <1>9, <1>10 DEF MachineTypeOK, Busy
<1> QED BY <1>1, <1>2, <1>3, <1>4, <1>5, <1>6, <1>11

\* A caller posts its next request.
LEMMA PostIs ==
  ASSUME MachineTypeOK, NEW c \in Caller, processAPI(c)
  PROVE  LET k == [caller[c] EXCEPT !.st = "asleep"] IN
         /\ caller[c] \in Busy /\ caller[c].st = "post" /\ k \in Busy
         /\ k.st = "asleep" /\ k.req = caller[c].req /\ k.call = caller[c].call
         /\ apiQ' = Append(apiQ, caller[c].req) /\ caller' = [caller EXCEPT ![c] = k]
         /\ MachineTypeOK'
<1> DEFINE k == [caller[c] EXCEPT !.st = "asleep"]
<1>1. caller[c].st = "post" /\ apiQ' = Append(apiQ, caller[c].req) /\ caller' = [caller EXCEPT ![c] = k]
  BY DEF processAPI
<1>2. caller[c] \in Busy BY <1>1, BusyCallers
<1>3. k \in Busy /\ k.st = "asleep" /\ k.req = caller[c].req /\ k.call = caller[c].call BY <1>2 DEF Busy
<1> HIDE DEF k
<1>4. caller' \in [Caller -> {Idle} \cup Busy] BY <1>1, <1>3, CallerChanges
<1>5. caller[c].req \in Request BY <1>2 DEF Busy
<1>6. apiQ' \in Seq(Request) BY <1>1, <1>5 DEF MachineTypeOK
<1>7. UNCHANGED <<hal, evtQ, results, asked>> BY DEF processAPI
<1>8. MachineTypeOK' BY <1>4, <1>6, <1>7 DEF MachineTypeOK, Busy
<1> QED BY <1>1, <1>2, <1>3, <1>8 DEF k

\* A caller that finds no result of its type sleeps again.
SleepsOn(c) ==
  /\ caller[c].st = "woken" /\ \A i \in DOMAIN results : results[i].api # caller[c].req.api
  /\ caller' = [caller EXCEPT ![c] = [caller[c] EXCEPT !.st = "asleep"]]
  /\ UNCHANGED <<hal, evtQ, results, apiQ, asked>>

\* A caller that takes result i goes on with request n.
Onward(c, n) ==
  IF n = NoReq THEN Idle
  ELSE [call |-> caller[c].call, req |-> n, st |-> IF KeepsLock(n) THEN "asleep" ELSE "post"]
\* It takes the first result of its type, and goes on or returns.
TakesResult(c, i, n) ==
  /\ caller[c].st = "woken" /\ caller[c] \in Busy
  /\ i \in DOMAIN results /\ results[i].api = caller[c].req.api
  /\ \A k \in DOMAIN results' : \E j \in DOMAIN results : j # i /\ results'[k] = results[j]
  /\ Follows(caller[c].call, caller[c].req.api, results[i].ok, n)
  /\ n # NoReq => n \in Request
  /\ Onward(c, n) \in {Idle} \cup Busy
  /\ caller' = [caller EXCEPT ![c] = Onward(c, n)]
  /\ apiQ' = IF KeepsLock(n) THEN Append(apiQ, n) ELSE apiQ
  /\ asked' = CASE results[i] = Result("ENABLE_MSG_TYPE", TRUE) -> TRUE
               [] results[i] = Result("DISABLE_MSG_TYPE", TRUE) -> FALSE
               [] OTHER -> asked
  /\ UNCHANGED <<hal, evtQ>>

\* A woken caller takes its result, or sleeps again.
LEMMA WaitIs ==
  ASSUME MachineTypeOK, NEW c \in Caller, waitAPIResult(c)
  PROVE  (SleepsOn(c) \/ \E i, n : TakesResult(c, i, n)) /\ MachineTypeOK'
<1> DEFINE mine == {i \in DOMAIN results : results[i].api = caller[c].req.api}
           i == CHOOSE k \in mine : \A j \in mine : k <= j
           n == After(caller[c].call, caller[c].req.api, results[i].ok)
<1>1. caller[c].st = "woken" /\ caller[c] \in Busy BY BusyCallers DEF waitAPIResult
<1>2. UNCHANGED <<hal, evtQ>> BY DEF waitAPIResult
<1>3. results \in Seq(Answer) BY DEF MachineTypeOK, Answer
<1>4. CASE mine = {}
  <2> DEFINE k == [caller[c] EXCEPT !.st = "asleep"]
  <2>1. caller' = [caller EXCEPT ![c].st = "asleep"] /\ UNCHANGED <<results, apiQ, asked>>
    BY <1>4 DEF waitAPIResult
  <2>2. caller' = [caller EXCEPT ![c] = k] BY <2>1
  <2>3. k \in Busy BY <1>1 DEF Busy
  <2> HIDE DEF k
  <2>4. caller' \in [Caller -> {Idle} \cup Busy] BY <2>2, <2>3, CallerChanges
  <2>5. MachineTypeOK' BY <1>2, <2>1, <2>4 DEF MachineTypeOK, Busy
  <2> QED BY <1>1, <1>2, <1>4, <2>1, <2>2, <2>5 DEF SleepsOn, k
<1>5. CASE mine # {}
  <2>1. /\ results' = SubSeq(results, 1, i - 1) \o SubSeq(results, i + 1, Len(results))
        /\ caller' = [caller EXCEPT ![c] = Onward(c, n)]
        /\ apiQ' = IF KeepsLock(n) THEN Append(apiQ, n) ELSE apiQ
        /\ asked' = CASE results[i] = Result("ENABLE_MSG_TYPE", TRUE) -> TRUE
                     [] results[i] = Result("DISABLE_MSG_TYPE", TRUE) -> FALSE
                     [] OTHER -> asked
    BY <1>5 DEF waitAPIResult, Onward
  <2>2. i \in mine BY <1>3, <1>5, LeastPosition
  <2>3. i \in DOMAIN results /\ results[i].api = caller[c].req.api BY <2>2
  <2> HIDE DEF i, mine
  <2>3a. results[i] \in Answer BY <1>3, <2>3
  <2>4. results[i].ok \in BOOLEAN BY <2>3a DEF Answer
  <2>5. Follows(caller[c].call, caller[c].req.api, results[i].ok, n) /\ (n # NoReq => n \in Request)
    BY <2>4, AfterFollows
  <2> HIDE DEF n
  <2> DEFINE t == SubSeq(results, 1, i - 1) \o SubSeq(results, i + 1, Len(results))
  <2>6a. t \in Seq(Answer) /\ \A k \in DOMAIN t : \E j \in DOMAIN results : j # i /\ t[k] = results[j]
    BY ZenonT(40), <1>3, <2>3, RemoveIs
  <2>6b. results' = t BY <2>1
  <2> HIDE DEF t
  <2>6. /\ results' \in Seq(Answer)
        /\ \A k \in DOMAIN results' : \E j \in DOMAIN results : j # i /\ results'[k] = results[j]
    BY <2>6a, <2>6b
  <2>7. Onward(c, n) \in {Idle} \cup Busy
    BY <1>1, <2>5 DEF Onward, Busy
  <2>8. caller' \in [Caller -> {Idle} \cup Busy] BY <2>1, <2>7, CallerChanges
  <2>9. KeepsLock(n) => n # NoReq BY DEF KeepsLock, NoReq, Req
  <2>10. apiQ' \in Seq(Request) BY <2>1, <2>5, <2>9 DEF MachineTypeOK
  <2>11. asked' \in BOOLEAN BY <2>1 DEF MachineTypeOK
  <2>12. MachineTypeOK' BY <1>2, <2>6, <2>8, <2>10, <2>11 DEF MachineTypeOK, Busy, Answer
  <2>13. TakesResult(c, i, n) BY <1>1, <1>2, <2>1, <2>3, <2>5, <2>6, <2>7 DEF TakesResult
  <2> QED BY <2>12, <2>13
<1> QED BY <1>4, <1>5

\* Who sleeps is woken by an answer.
Woken(k, ans) == IF ans # <<>> /\ k.st = "asleep" THEN [k EXCEPT !.st = "woken"] ELSE k

\* A woken caller is in the same call, with the same request.
LEMMA WokenIs ==
  ASSUME NEW k \in {Idle} \cup Busy, NEW ans
  PROVE  /\ Woken(k, ans) \in {Idle} \cup Busy
         /\ Woken(k, ans).req = k.req /\ Woken(k, ans).call = k.call
         /\ Woken(k, ans).st = IF ans # <<>> /\ k.st = "asleep" THEN "woken" ELSE k.st
BY DEF Woken, Busy, Idle

\* signalAPIResult appends the results and wakes who sleeps.
LEMMA SignalledIs ==
  ASSUME MachineTypeOK, NEW ans \in Seq(Answer), signalAPIResult(ans)
  PROVE  /\ results' = results \o ans /\ results' \in Seq(Answer)
         /\ caller' = [c \in Caller |-> Woken(caller[c], ans)]
         /\ caller' \in [Caller -> {Idle} \cup Busy]
<1>1. results' = results \o ans BY DEF signalAPIResult
<1>2. results' \in Seq(Answer) BY <1>1, ConcatProperties DEF MachineTypeOK, Answer
<1>3. caller' = [c \in Caller |-> Woken(caller[c], ans)]
  <2>1. CASE ans = <<>>
    <3>1. caller' = caller BY <2>1 DEF signalAPIResult
    <3>2. \A c \in Caller : Woken(caller[c], ans) = caller[c] BY <2>1 DEF Woken
    <3> QED BY <3>1, <3>2 DEF MachineTypeOK
  <2>2. CASE ans # <<>>
    <3>1. caller' = [c \in Caller |-> IF caller[c].st = "asleep" THEN [caller[c] EXCEPT !.st = "woken"]
                                      ELSE caller[c]]
      BY <2>2 DEF signalAPIResult
    <3>2. \A c \in Caller : Woken(caller[c], ans)
                = IF caller[c].st = "asleep" THEN [caller[c] EXCEPT !.st = "woken"] ELSE caller[c]
      BY <2>2 DEF Woken
    <3> QED BY <3>1, <3>2
  <2> QED BY <2>1, <2>2
<1>4. \A c \in Caller : Woken(caller[c], ans) \in {Idle} \cup Busy
  BY WokenIs DEF MachineTypeOK, Busy
<1> QED BY <1>1, <1>2, <1>3, <1>4

\* What a handler leaves in the state of the system.
Finishes(g, ans, events) ==
  /\ g \in Hal /\ Only(g, hal', {"post"}) /\ ~hal'.post
  /\ evtQ' = IF g.post THEN Append(events, "SNAPSHOT_DONE") ELSE events
  /\ ans \in Seq(Answer) /\ results' = results \o ans
  /\ caller' = [c \in Caller |-> Woken(caller[c], ans)]
  /\ UNCHANGED asked

\* After a handler, the events it asked for are posted and its results are signalled.
LEMMA FinishIs ==
  ASSUME MachineTypeOK, NEW x, x.hal \in Hal, NEW events \in Seq(Event), x.ans \in Seq(Answer),
         Finish(x, events), apiQ' \in Seq(Request)
  PROVE  Finishes(x.hal, x.ans, events) /\ MachineTypeOK'
<1> DEFINE g == x.hal
           y == x.ans
<1>1. hal' = [g EXCEPT !.post = FALSE] BY DEF Finish
<1>2. Only(g, hal', {"post"}) /\ ~hal'.post /\ hal' \in Hal BY <1>1 DEF Only, Hal
<1>3. evtQ' = IF g.post THEN Append(events, "SNAPSHOT_DONE") ELSE events BY DEF Finish
<1>4. evtQ' \in Seq(Event) BY <1>3 DEF Event
<1>5. signalAPIResult(y) /\ UNCHANGED asked BY DEF Finish
<1> HIDE DEF g
<1>6. y \in Seq(Answer) OBVIOUS
<1> HIDE DEF y
<1>7. /\ results' = results \o y /\ results' \in Seq(Answer)
      /\ caller' = [c \in Caller |-> Woken(caller[c], y)]
      /\ caller' \in [Caller -> {Idle} \cup Busy]
  BY <1>5, <1>6, SignalledIs
<1>8. MachineTypeOK' BY <1>2, <1>4, <1>5, <1>7 DEF MachineTypeOK, Answer, Busy
<1>9. g \in Hal BY DEF g
<1>10. Finishes(g, y, events) BY <1>2, <1>3, <1>5, <1>6, <1>7, <1>9 DEF Finishes
<1> QED BY <1>8, <1>10 DEF g, y

\* The results a handler may append.
LEMMA AnswerSeqs ==
  /\ <<>> \in Seq(Answer)
  /\ \A api \in Api, b \in BOOLEAN : <<Result(api, b)>> \in Seq(Answer)
  /\ <<Result("PREPARE_SNAPSHOT", TRUE), Result("TAKE_PICTURE", TRUE)>> \in Seq(Answer)
<1>1. \A api \in Api, b \in BOOLEAN : Result(api, b) \in Answer BY DEF Result, Answer
<1>2. "PREPARE_SNAPSHOT" \in Api /\ "TAKE_PICTURE" \in Api BY DEF Api, PictureApis, SnapshotApis
<1>3. \A e, f \in Answer : <<e, f>> \in Seq(Answer) OBVIOUS
<1>4. \A e \in Answer : <<e>> \in Seq(Answer) OBVIOUS
<1>5. \A api \in Api, b \in BOOLEAN : <<Result(api, b)>> \in Seq(Answer) BY <1>1, <1>4
<1>6. Result("PREPARE_SNAPSHOT", TRUE) \in Answer /\ Result("TAKE_PICTURE", TRUE) \in Answer BY <1>1, <1>2
<1>7. <<Result("PREPARE_SNAPSHOT", TRUE), Result("TAKE_PICTURE", TRUE)>> \in Seq(Answer) BY <1>3, <1>6
<1>8. <<>> \in Seq(Answer) OBVIOUS
<1> QED BY <1>5, <1>7, <1>8, Zenon

\* Request r has been handled with outcome x.
Handled(r, x) ==
  /\ apiQ # <<>> /\ apiQ' = Tail(apiQ) /\ r = Head(apiQ) /\ r \in Request
  /\ Moves(hal, r, x)
  /\ r.api = "STOP_CAPTURE_CHANNEL" => x.ans = <<>>
  /\ Finishes(x.hal, x.ans, evtQ)

\* HandleRequest handles the first request.
LEMMA RequestIs ==
  ASSUME MachineTypeOK, HandleRequest
  PROVE  (\E r, x : Handled(r, x)) /\ MachineTypeOK'
<1> DEFINE r == Head(apiQ)
<1>1. apiQ # <<>> /\ apiQ' = Tail(apiQ) BY DEF HandleRequest
<1>2. r \in Request /\ apiQ' \in Seq(Request) BY <1>1, TailIs DEF MachineTypeOK
<1>3. PICK x \in stateMachine(hal, r) : Finish(x, evtQ) BY DEF HandleRequest
<1> HIDE DEF r
<1>4. hal \in Hal /\ evtQ \in Seq(Event) BY DEF MachineTypeOK
<1>5. Moves(hal, r, x) BY <1>3, <1>4, MachineMoves
<1>6. r.api = "STOP_CAPTURE_CHANNEL" => x.ans = <<>> BY <1>2, <1>3, <1>4, StopCaptureAnswersNothing
<1>7. x.hal \in Hal BY <1>5 DEF Moves, Leaves
<1>8. r.api \in Api BY <1>2 DEF Request
<1>9. x.ans \in Seq(Answer) BY <1>5, <1>8, AnswerSeqs DEF Moves, Answers
<1>10. Finishes(x.hal, x.ans, evtQ) /\ MachineTypeOK' BY <1>2, <1>3, <1>4, <1>7, <1>9, FinishIs
<1>11. Handled(r, x) BY <1>1, <1>2, <1>5, <1>6, <1>10 DEF Handled, r
<1> QED BY <1>10, <1>11

\* Event e has been handled with outcome x.
Occurred(e, x) ==
  /\ apiQ = <<>> /\ apiQ' = <<>> /\ evtQ # <<>> /\ e = Head(evtQ) /\ e \in Event
  /\ Happens(hal, e, x.hal, x.ans)
  /\ Finishes(x.hal, x.ans, Tail(evtQ))

\* HandleEvent handles the first event, when there is no request.
LEMMA EventIs ==
  ASSUME MachineTypeOK, HandleEvent
  PROVE  (\E e, x : Occurred(e, x)) /\ MachineTypeOK'
<1> DEFINE e == Head(evtQ)
<1>1. apiQ = <<>> /\ apiQ' = <<>> /\ evtQ # <<>> BY DEF HandleEvent
<1>2. e \in Event /\ Tail(evtQ) \in Seq(Event) BY <1>1, TailIs DEF MachineTypeOK
<1>3. PICK x \in procEvt(hal, e) : Finish(x, Tail(evtQ)) BY DEF HandleEvent
<1> HIDE DEF e
<1>4. hal \in Hal BY DEF MachineTypeOK
<1>5. Happens(hal, e, x.hal, x.ans) BY <1>2, <1>3, <1>4, EventHappens
<1>6. x.hal \in Hal BY <1>5 DEF Happens, Only
<1>7. "PREPARE_SNAPSHOT" \in Api /\ "TAKE_PICTURE" \in Api BY DEF Api, PictureApis, SnapshotApis
<1>8. x.ans \in Seq(Answer) BY <1>5, <1>7, AnswerSeqs DEF Happens
<1>9. apiQ' \in Seq(Request) BY <1>1
<1>10. Finishes(x.hal, x.ans, Tail(evtQ)) /\ MachineTypeOK' BY <1>2, <1>3, <1>6, <1>8, <1>9, FinishIs
<1>11. Occurred(e, x) BY <1>1, <1>2, <1>5, <1>10 DEF Occurred, e
<1> QED BY <1>10, <1>11

\* The two requests that threads of the HAL make, not callers.
CancelReq == Plain("CANCEL_PICTURE")
\* See CancelReq.
StopReq == Plain("STOP_CAPTURE_CHANNEL")

\* Both are requests.
LEMMA LooseRequests == CancelReq \in Request /\ StopReq \in Request
BY DEF CancelReq, StopReq, Plain, Req, Request, Api, PictureApis

\* The live snapshot thread ends.
ThreadEnds ==
  /\ hal.th # "none" /\ Only(hal, hal', {"th", "pic", "fails"}) /\ hal'.th = "none"
  /\ \/ hal.th = "cancel" /\ ~hal'.pic /\ apiQ' = apiQ
     \/ hal.th = "take" /\ apiQ' = apiQ
     \/ hal.th = "take" /\ apiQ' = Append(apiQ, CancelReq) /\ hal'.pic = hal.pic
  /\ UNCHANGED <<evtQ, results, caller, asked>>

\* The live snapshot's thread takes or cancels the picture.
LEMMA ThreadIs ==
  ASSUME MachineTypeOK, LiveSnapshotThread
  PROVE  ThreadEnds /\ MachineTypeOK'
<1> DEFINE done == [hal EXCEPT !.th = "none"]
           b == [done EXCEPT !.pic = FALSE]
           good == [done EXCEPT !.pic = TRUE]
<1>1. hal.th # "none" /\ hal.th \in {"take", "cancel"} /\ UNCHANGED <<evtQ, results, caller, asked>>
  BY DEF LiveSnapshotThread, MachineTypeOK, Hal
<1>2. Only(hal, done, {"th"}) /\ done.th = "none" /\ done \in Hal BY DEF Only, MachineTypeOK, Hal
<1>3. IF hal.th = "cancel" THEN hal' = b /\ apiQ' = apiQ
      ELSE \E x \in IF hal.chan = "video" THEN MayFail(done, good) ELSE {Bad(done)} :
             hal' = x.h /\ apiQ' = IF x.ok THEN apiQ ELSE Append(apiQ, CancelReq)
  BY DEF LiveSnapshotThread, CancelReq
<1> HIDE DEF done
<1>4. Only(done, b, {"pic"}) /\ ~b.pic /\ Only(done, good, {"pic"}) /\ good \in Hal BY <1>2 DEF Only, Hal
<1> HIDE DEF b, good
<1>5. ThreadEnds
  <2>1. CASE hal.th = "cancel" BY <1>1, <1>2, <1>3, <1>4, <2>1 DEF ThreadEnds, Only
  <2>2. CASE hal.th = "take"
    <3>1. PICK x \in IF hal.chan = "video" THEN MayFail(done, good) ELSE {Bad(done)} :
             hal' = x.h /\ apiQ' = IF x.ok THEN apiQ ELSE Append(apiQ, CancelReq)
      BY <1>3, <2>2
    <3>2. x \in Outcome /\ (x.ok => x.h = good) /\ (~x.ok => Only(done, x.h, {"fails"}))
      <4>1. CASE x \in MayFail(done, good) BY <1>2, <1>4, <4>1, MayFailIs
      <4>2. CASE x = Bad(done) BY <1>2, <4>2 DEF Bad, Outcome, Only
      <4> QED BY <3>1, <4>1, <4>2
    <3>3. x.ok \in BOOLEAN BY <3>2 DEF Outcome
    <3>4. CASE x.ok BY <1>1, <1>2, <1>4, <2>2, <3>1, <3>2, <3>4 DEF ThreadEnds, Only
    <3>5. CASE ~x.ok BY <1>1, <1>2, <2>2, <3>1, <3>2, <3>5 DEF ThreadEnds, Only
    <3> QED BY <3>3, <3>4, <3>5
  <2> QED BY <1>1, <2>1, <2>2
<1>6. apiQ' \in Seq(Request)
  <2>1. apiQ \in Seq(Request) /\ CancelReq \in Request BY LooseRequests DEF MachineTypeOK
  <2>2. apiQ' = apiQ \/ apiQ' = Append(apiQ, CancelReq) BY <1>5 DEF ThreadEnds
  <2> QED BY <2>1, <2>2
<1>7. hal' \in Hal BY <1>5 DEF ThreadEnds, Only
<1> QED BY <1>5, <1>6, <1>7 DEF ThreadEnds, MachineTypeOK

\* The callback thread tells the machine of the picture.
Notifies ==
  /\ hal.cb = "told" /\ Only(hal, hal', {"cb"}) /\ UNCHANGED <<apiQ, results, caller, asked>>
  /\ \/ hal'.cb = "idle" /\ evtQ' = evtQ
     \/ hal'.cb = "waiting" /\ evtQ' = Append(evtQ, "SNAPSHOT_DONE")

\* The callback thread tells the machine, or is flushed.
LEMMA NotifyIs ==
  ASSUME MachineTypeOK, NotifyPicture \/ FlushNotification
  PROVE  Notifies /\ MachineTypeOK'
<1>1. \A b \in {"idle", "waiting"} :
        Only(hal, [hal EXCEPT !.cb = b], {"cb"}) /\ [hal EXCEPT !.cb = b].cb = b
  BY DEF Only, MachineTypeOK, Hal
<1>2. \/ hal' = [hal EXCEPT !.cb = "idle"] /\ evtQ' = evtQ
      \/ hal' = [hal EXCEPT !.cb = "waiting"] /\ evtQ' = Append(evtQ, "SNAPSHOT_DONE")
  BY DEF NotifyPicture, FlushNotification
<1>3. hal.cb = "told" /\ UNCHANGED <<apiQ, results, caller, asked>> BY DEF NotifyPicture, FlushNotification
<1>4. Notifies BY <1>1, <1>2, <1>3 DEF Notifies
<1>5. evtQ' \in Seq(Event)
  <2>1. evtQ \in Seq(Event) /\ "SNAPSHOT_DONE" \in Event BY DEF MachineTypeOK, Event
  <2>2. evtQ' = evtQ \/ evtQ' = Append(evtQ, "SNAPSHOT_DONE") BY <1>2
  <2> QED BY <2>1, <2>2
<1> QED BY <1>4, <1>5 DEF Notifies, MachineTypeOK, Only

\* The stack sends event e.
Sends(e, F) ==
  /\ ~hal.dead /\ Only(hal, hal', F) /\ evtQ' = Append(evtQ, e) /\ e \in Event
  /\ UNCHANGED <<apiQ, results, caller, asked>>

\* An event that is sent keeps the types.
LEMMA SendsIs ==
  ASSUME MachineTypeOK, NEW e, NEW F, Sends(e, F)
  PROVE  MachineTypeOK'
<1>1. evtQ' \in Seq(Event) BY DEF Sends, MachineTypeOK
<1>2. hal' \in Hal BY DEF Sends, Only
<1> QED BY <1>1, <1>2 DEF Sends, MachineTypeOK

\* The stack sends the end of a preparation, a retro frame, a picture, or dies.
LEMMA StackIs ==
  ASSUME MachineTypeOK
  PROVE  /\ PrepDone => /\ Sends("PREP_DONE", {"prep", "retro"}) /\ hal.prep /\ ~hal'.prep
                        /\ hal'.retro = IF hal.retro = "flash" THEN "plain" ELSE hal.retro
         /\ RetroReady => Sends("READY", {"ready"}) /\ hal.ready /\ ~hal'.ready
         /\ JpegDone => /\ Sends("JPEG", {}) /\ hal' = hal /\ hal.pic /\ ~hal.ready /\ ~hal.prep
                        /\ hal.retro # "flash" /\ hal.cb = "idle"
         /\ DaemonDies => Sends("DAEMON_DIED", {"dead"}) /\ hal'.dead
<1> USE DEF Event
<1>1. ASSUME PrepDone
      PROVE  /\ Sends("PREP_DONE", {"prep", "retro"}) /\ hal.prep /\ ~hal'.prep
             /\ hal'.retro = IF hal.retro = "flash" THEN "plain" ELSE hal.retro
  <2> DEFINE a == IF hal.retro = "flash" THEN "plain" ELSE hal.retro
             g == [hal EXCEPT !.prep = FALSE, !.retro = a]
  <2>1. hal.prep /\ Stack("PREP_DONE", g) BY <1>1 DEF PrepDone
  <2>2. a \in {"no", "plain", "flash"} BY DEF MachineTypeOK, Hal
  <2> HIDE DEF a
  <2>3. Only(hal, g, {"prep", "retro"}) /\ ~g.prep /\ g.retro = a BY <2>2 DEF MachineTypeOK, Hal, Only
  <2> HIDE DEF g
  <2> QED BY <2>1, <2>3 DEF Stack, Sends, a
<1>2. ASSUME RetroReady PROVE Sends("READY", {"ready"}) /\ hal.ready /\ ~hal'.ready
  <2> DEFINE g == [hal EXCEPT !.ready = FALSE]
  <2>1. hal.ready /\ Stack("READY", g) BY <1>2 DEF RetroReady
  <2>2. Only(hal, g, {"ready"}) /\ ~g.ready BY DEF MachineTypeOK, Hal, Only
  <2> HIDE DEF g
  <2> QED BY <2>1, <2>2 DEF Stack, Sends
<1>3. ASSUME DaemonDies PROVE Sends("DAEMON_DIED", {"dead"}) /\ hal'.dead
  <2> DEFINE g == [hal EXCEPT !.dead = TRUE]
  <2>1. Stack("DAEMON_DIED", g) BY <1>3 DEF DaemonDies
  <2>2. Only(hal, g, {"dead"}) /\ g.dead BY DEF MachineTypeOK, Hal, Only
  <2> HIDE DEF g
  <2> QED BY <2>1, <2>2 DEF Stack, Sends
<1>4. Only(hal, hal, {}) BY DEF MachineTypeOK, Only
<1>5. ASSUME JpegDone
      PROVE  /\ Sends("JPEG", {}) /\ hal' = hal /\ hal.pic /\ ~hal.ready /\ ~hal.prep
             /\ hal.retro # "flash" /\ hal.cb = "idle"
  BY <1>4, <1>5 DEF JpegDone, Stack, Sends
<1> QED BY <1>1, <1>2, <1>3, <1>5

\* The post processor asks for the end of the capture channel.
LEMMA StopCaptureIs ==
  ASSUME MachineTypeOK, stopCapture
  PROVE  /\ apiQ' = Append(apiQ, StopReq) /\ UNCHANGED <<hal, evtQ, results, caller, asked>>
         /\ MachineTypeOK'
<1>1. apiQ' = Append(apiQ, StopReq) /\ UNCHANGED <<hal, evtQ, results, caller, asked>>
  BY DEF stopCapture, StopReq
<1>2. apiQ' \in Seq(Request) BY <1>1, LooseRequests DEF MachineTypeOK
<1> QED BY <1>1, <1>2 DEF MachineTypeOK

\* Types hold at first.
LEMMA MachineInitIs ==
  ASSUME MachineInit
  PROVE  MachineTypeOK
<1>1. hal \in Hal BY Hal1Assumption DEF MachineInit, Hal, State
<1>2. apiQ \in Seq(Request) /\ evtQ \in Seq(Event) /\ results \in Seq(Answer)
  BY DEF MachineInit
<1> QED BY <1>1, <1>2 DEF MachineInit, MachineTypeOK, Answer

\* Every step is one of these.
LEMMA MachineSteps ==
  ASSUME MachineTypeOK, MachineNext
  PROVE  /\ \/ \E c \in Caller : \E call \in Calls[c] : Call(c, call)
            \/ \E c \in Caller : processAPI(c)
            \/ \E c \in Caller : waitAPIResult(c)
            \/ \E r, x : Handled(r, x)
            \/ \E e, x : Occurred(e, x)
            \/ ThreadEnds
            \/ Notifies
            \/ PrepDone \/ RetroReady \/ JpegDone \/ DaemonDies \/ stopCapture
         /\ MachineTypeOK'
<1>1. ASSUME NEW c \in Caller, NEW call \in Calls[c], Call(c, call) PROVE MachineTypeOK' BY <1>1, CallIs
<1>2. ASSUME NEW c \in Caller, processAPI(c) PROVE MachineTypeOK' BY <1>2, PostIs
<1>3. ASSUME NEW c \in Caller, waitAPIResult(c) PROVE MachineTypeOK' BY <1>3, WaitIs
<1>4. PrepDone \/ RetroReady \/ JpegDone \/ DaemonDies => MachineTypeOK' BY StackIs, SendsIs
<1>5. stopCapture => MachineTypeOK' BY StopCaptureIs
<1> QED BY <1>1, <1>2, <1>3, <1>4, <1>5, RequestIs, EventIs, ThreadIs, NotifyIs DEF MachineNext

\* Types are kept by every step.
LEMMA MachineTypes ==
  ASSUME MachineTypeOK, [MachineNext]_machineVars
  PROVE  MachineTypeOK'
<1>1. CASE MachineNext BY <1>1, MachineSteps
<1>2. CASE UNCHANGED machineVars BY <1>2 DEF machineVars, MachineTypeOK
<1> QED BY <1>1, <1>2

\* Type correctness of the state machine, for any callers, calls and failures.
THEOREM MachineTypesHold == MachineSpec => []MachineTypeOK
<1>1. MachineInit => MachineTypeOK BY MachineInitIs
<1>2. MachineTypeOK /\ [MachineNext]_machineVars => MachineTypeOK' BY MachineTypes
<1> QED BY <1>1, <1>2, PTL DEF MachineSpec

-----------------------------------------------------------------------------
(* Preview messages. *)

\* A step that does not touch the messages.
WantedStays == hal'.enabled = hal.enabled /\ hal'.delay = hal.delay /\ hal'.delayed = hal.delayed

\* Such a step keeps the invariant.
LEMMA KeptQuietly ==
  ASSUME KeptInv, MachineTypeOK', WantedStays, UNCHANGED <<results, asked>>,
         \A i \in DOMAIN apiQ' : (\E j \in DOMAIN apiQ : apiQ'[i] = apiQ[j]) \/ apiQ'[i].api # "DISABLE_MSG_TYPE",
         \A c \in Caller : caller'[c].req.api # "DISABLE_MSG_TYPE"
  PROVE  KeptInv'
BY DEF KeptInv, WantedStays, Wanted, Has

\* Every step keeps it.
LEMMA KeptInductive ==
  ASSUME KeptInv, [MachineNext]_machineVars,
         \A c \in Caller : "disable_msg_type" \notin Calls[c]
  PROVE  KeptInv'
<1>0. MachineTypeOK' BY MachineTypes DEF KeptInv
<1> USE DEF KeptInv
<1>a. apiQ \in Seq(Request) /\ evtQ \in Seq(Event) /\ results \in Seq(Answer) BY DEF MachineTypeOK, Answer
<1>1. ASSUME NEW c \in Caller, NEW call \in Calls[c], Call(c, call) PROVE KeptInv'
  <2> DEFINE k(old) == [call |-> Named(call), req |-> old, st |-> "asleep"]
  <2>1. PICK req \in First(call) :
          /\ req \in Request /\ call \in CallName /\ k(req) \in Busy
          /\ Only(hal, hal', {"retro"})
          /\ apiQ' = Append(apiQ, req) /\ caller' = [caller EXCEPT ![c] = k(req)]
    BY <1>1, CallIs
  <2>2. req.api # "DISABLE_MSG_TYPE" BY <2>1, FirstIs
  <2>3. caller'[c] = k(req) /\ \A d \in Caller : d # c => caller'[d] = caller[d] BY <2>1, CallerChanges
  <2>4. \A d \in Caller : caller'[d].req.api # "DISABLE_MSG_TYPE" BY <2>2, <2>3
  <2>5. \A i \in DOMAIN apiQ' : (\E j \in DOMAIN apiQ : apiQ'[i] = apiQ[j]) \/ apiQ'[i] = req
    BY <1>a, <2>1, AppendIs
  <2>6. WantedStays BY <2>1 DEF Only, WantedStays
  <2>7. UNCHANGED <<results, asked>> BY <1>1 DEF Call
  <2> QED BY <1>0, <2>2, <2>4, <2>5, <2>6, <2>7, KeptQuietly
<1>2. ASSUME NEW c \in Caller, processAPI(c) PROVE KeptInv'
  <2> DEFINE k == [caller[c] EXCEPT !.st = "asleep"]
  <2>1. /\ caller[c] \in Busy /\ k \in Busy /\ k.req = caller[c].req
        /\ apiQ' = Append(apiQ, caller[c].req) /\ caller' = [caller EXCEPT ![c] = k]
    BY <1>2, PostIs
  <2> HIDE DEF k
  <2>3. caller'[c] = k /\ \A d \in Caller : d # c => caller'[d] = caller[d] BY <2>1, CallerChanges
  <2>4. \A d \in Caller : caller'[d].req.api # "DISABLE_MSG_TYPE" BY <2>1, <2>3
  <2>4a. caller[c].req \in Request BY <2>1 DEF Busy
  <2>5. \A i \in DOMAIN apiQ' : (\E j \in DOMAIN apiQ : apiQ'[i] = apiQ[j]) \/ apiQ'[i] = caller[c].req
    BY <1>a, <2>1, <2>4a, AppendIs
  <2>6. WantedStays /\ UNCHANGED <<results, asked>> BY <1>2 DEF processAPI, WantedStays
  <2> QED BY <1>0, <2>4, <2>5, <2>6, KeptQuietly
<1>3. ASSUME NEW c \in Caller, waitAPIResult(c) PROVE KeptInv'
  <2>1. CASE SleepsOn(c)
    <3> DEFINE k == [caller[c] EXCEPT !.st = "asleep"]
    <3>1. caller[c].st = "woken" /\ caller' = [caller EXCEPT ![c] = k] BY <2>1 DEF SleepsOn
    <3>2. caller[c] \in Busy BY <3>1, BusyCallers
    <3>3. k \in Busy /\ k.req = caller[c].req BY <3>2 DEF Busy
    <3> HIDE DEF k
    <3>4. caller'[c] = k /\ \A d \in Caller : d # c => caller'[d] = caller[d] BY <3>1, <3>3, CallerChanges
    <3>5. \A d \in Caller : caller'[d].req.api # "DISABLE_MSG_TYPE" BY <3>3, <3>4
    <3>6. WantedStays /\ UNCHANGED <<apiQ, results, asked>> BY <2>1 DEF SleepsOn, WantedStays
    <3> QED BY <1>0, <3>5, <3>6, KeptQuietly
  <2>2. ASSUME NEW i, NEW n, TakesResult(c, i, n) PROVE KeptInv'
    <3> DEFINE k == Onward(c, n)
    <3>1. /\ k \in {Idle} \cup Busy /\ caller' = [caller EXCEPT ![c] = k]
          /\ Follows(caller[c].call, caller[c].req.api, results[i].ok, n) /\ (n # NoReq => n \in Request)
          /\ apiQ' = IF KeepsLock(n) THEN Append(apiQ, n) ELSE apiQ
          /\ UNCHANGED <<hal, evtQ>> /\ i \in DOMAIN results
      BY <2>2 DEF TakesResult
    <3>2. n.api # "DISABLE_MSG_TYPE" BY <3>1 DEF Follows, Plain, Req, NoReq
    <3>3. k.req.api # "DISABLE_MSG_TYPE" BY <3>2 DEF Onward, Idle, NoReq, Req
    <3> HIDE DEF k
    <3>4. caller'[c] = k /\ \A d \in Caller : d # c => caller'[d] = caller[d] BY <3>1, CallerChanges
    <3>5. \A d \in Caller : caller'[d].req.api # "DISABLE_MSG_TYPE" BY <3>3, <3>4
    <3>6. KeepsLock(n) => n # NoReq BY DEF KeepsLock, NoReq, Req
    <3>7. \A j \in DOMAIN apiQ' : (\E l \in DOMAIN apiQ : apiQ'[j] = apiQ[l]) \/ apiQ'[j] = n
      BY <1>a, <3>1, <3>6, AppendIs
    <3>8. \A j \in DOMAIN results' : \E l \in DOMAIN results : results'[j] = results[l] BY <2>2 DEF TakesResult
    <3>9. asked' = TRUE => asked \/ results[i] = Enabled BY <2>2 DEF TakesResult, Enabled
    <3>10. asked' \in BOOLEAN BY <1>0 DEF MachineTypeOK
    <3>11. asked' \/ Has(results', Enabled) => asked \/ Has(results, Enabled) BY <3>1, <3>8, <3>9, <3>10 DEF Has
    <3> QED BY <1>0, <3>1, <3>2, <3>5, <3>7, <3>11
  <2> QED BY <1>3, <2>1, <2>2, WaitIs
<1>4. ASSUME NEW r, NEW x, Handled(r, x) PROVE KeptInv'
  <2>1. /\ apiQ # <<>> /\ apiQ' = Tail(apiQ) /\ r = Head(apiQ) /\ r \in Request
        /\ Moves(hal, r, x) /\ Finishes(x.hal, x.ans, evtQ)
    BY <1>4 DEF Handled
  <2>2. /\ Only(x.hal, hal', {"post"}) /\ x.ans \in Seq(Answer) /\ results' = results \o x.ans
        /\ caller' = [c \in Caller |-> Woken(caller[c], x.ans)] /\ UNCHANGED asked
    BY <2>1 DEF Finishes
  <2>3. Wanted(hal') = Wanted(x.hal) BY <2>2 DEF Only, Wanted
  <2>4. r.api # "DISABLE_MSG_TYPE" BY <1>a, <2>1, TailIs
  <2>5. /\ Wanted(hal) => Wanted(x.hal)
        /\ x.ans = <<Enabled>> => Wanted(x.hal)
    BY <2>1, <2>4 DEF Moves, Heeds, Enabled
  <2>6. x.ans = <<>> \/ \E a \in Answer : x.ans = <<a>>
    <3>1. \A b \in BOOLEAN : Result(r.api, b) \in Answer BY <2>1 DEF Result, Answer, Request
    <3> QED BY <2>1, <3>1 DEF Moves, Answers
  <2>7. Has(results', Enabled) => Has(results, Enabled) \/ x.ans = <<Enabled>>
    <3>1. CASE x.ans = <<>> BY <1>a, <2>2, <3>1, ResultsAre DEF Has
    <3>2. ASSUME NEW a \in Answer, x.ans = <<a>> PROVE Has(results', Enabled) => Has(results, Enabled) \/ a = Enabled
      <4>1. results' = Append(results, a) BY <1>a, <2>2, <3>2, ResultsAre
      <4>2. \A j \in DOMAIN results' : (\E l \in DOMAIN results : results'[j] = results[l]) \/ results'[j] = a
        BY <1>a, <4>1, AppendIs
      <4> QED BY <4>2 DEF Has
    <3> QED BY <2>6, <3>1, <3>2
  <2>8. \A i \in DOMAIN apiQ' : \E j \in DOMAIN apiQ : apiQ'[i] = apiQ[j] BY <1>a, <2>1, TailIs
  <2>9. \A c \in Caller : caller'[c].req = caller[c].req BY <2>2, WokenIs DEF MachineTypeOK, Busy
  <2> QED BY <1>0, <2>2, <2>3, <2>5, <2>7, <2>8, <2>9
<1>5. ASSUME NEW e, NEW x, Occurred(e, x) PROVE KeptInv'
  <2>1. apiQ' = apiQ /\ Happens(hal, e, x.hal, x.ans) /\ Finishes(x.hal, x.ans, Tail(evtQ))
    BY <1>5 DEF Occurred
  <2>2. /\ Only(x.hal, hal', {"post"}) /\ x.ans \in Seq(Answer) /\ results' = results \o x.ans
        /\ caller' = [c \in Caller |-> Woken(caller[c], x.ans)] /\ UNCHANGED asked
    BY <2>1 DEF Finishes
  <2>3. Only(hal, x.hal, {"state", "pic", "cap", "th", "cb"}) BY <2>1 DEF Happens
  <2>4. Wanted(hal') = Wanted(hal) BY <2>2, <2>3 DEF Only, Wanted
  <2>5. \A i \in DOMAIN x.ans : x.ans[i] # Enabled BY <2>1 DEF Happens, Enabled, Result
  <2>6. Has(results', Enabled) => Has(results, Enabled)
    BY <1>a, <2>2, <2>5, ConcatProperties DEF Has
  <2>9. \A c \in Caller : caller'[c].req = caller[c].req BY <2>2, WokenIs DEF MachineTypeOK, Busy
  <2> QED BY <1>0, <2>1, <2>2, <2>4, <2>6, <2>9
<1>6. ASSUME ThreadEnds PROVE KeptInv'
  <2>1. WantedStays /\ UNCHANGED <<results, caller, asked>> BY <1>6 DEF ThreadEnds, Only, WantedStays
  <2>2. CancelReq.api # "DISABLE_MSG_TYPE" /\ CancelReq \in Request
    BY LooseRequests DEF CancelReq, Plain, Req
  <2>3. \A i \in DOMAIN apiQ' : (\E j \in DOMAIN apiQ : apiQ'[i] = apiQ[j]) \/ apiQ'[i] = CancelReq
    <3>1. apiQ' = apiQ \/ apiQ' = Append(apiQ, CancelReq) BY <1>6 DEF ThreadEnds
    <3> QED BY <1>a, <2>2, <3>1, AppendIs
  <2> QED BY <1>0, <2>1, <2>2, <2>3, KeptQuietly
<1>7. ASSUME Notifies PROVE KeptInv'
  <2>1. WantedStays /\ UNCHANGED <<apiQ, results, caller, asked>> BY <1>7 DEF Notifies, Only, WantedStays
  <2> QED BY <1>0, <2>1, KeptQuietly
<1>8. ASSUME PrepDone \/ RetroReady \/ JpegDone \/ DaemonDies PROVE KeptInv'
  <2>1. \E e : Sends(e, {"prep", "retro"}) \/ Sends(e, {"ready"}) \/ Sends(e, {}) \/ Sends(e, {"dead"})
    BY <1>8, StackIs
  <2>2. WantedStays /\ UNCHANGED <<apiQ, results, caller, asked>> BY <2>1 DEF Sends, Only, WantedStays
  <2> QED BY <1>0, <2>2, KeptQuietly
<1>9. ASSUME stopCapture PROVE KeptInv'
  <2>1. apiQ' = Append(apiQ, StopReq) /\ UNCHANGED <<hal, evtQ, results, caller, asked>> BY <1>9, StopCaptureIs
  <2>2. StopReq.api # "DISABLE_MSG_TYPE" /\ StopReq \in Request BY LooseRequests DEF StopReq, Plain, Req
  <2>3. \A i \in DOMAIN apiQ' : (\E j \in DOMAIN apiQ : apiQ'[i] = apiQ[j]) \/ apiQ'[i] = StopReq
    BY <1>a, <2>1, <2>2, AppendIs
  <2> QED BY <1>0, <2>1, <2>2, <2>3, KeptQuietly DEF WantedStays
<1>10. CASE UNCHANGED machineVars BY <1>0, <1>10 DEF machineVars, Has
<1>11. CASE MachineNext
  BY <1>1, <1>2, <1>3, <1>4, <1>5, <1>6, <1>7, <1>8, <1>9, <1>11, MachineSteps
<1> QED BY <1>10, <1>11

\* Messages the application has enabled are enabled, or will be when the delay of a picture ends,
\* for any number of callers, if none disables them.
THEOREM MessagesKept ==
  ASSUME \A c \in Caller : "disable_msg_type" \notin Calls[c]
  PROVE  MachineSpec => []PreviewMessagesKept
<1>1. MachineInit => KeptInv
  <2> SUFFICES ASSUME MachineInit PROVE KeptInv OBVIOUS
  <2>1. MachineTypeOK BY MachineInitIs
  <2>2. apiQ = <<>> /\ results = <<>> /\ ~asked /\ caller = [c \in Caller |-> Idle] BY DEF MachineInit
  <2>3. DOMAIN apiQ = {} /\ DOMAIN results = {} BY <2>2
  <2> QED BY <2>1, <2>2, <2>3 DEF KeptInv, Has, Idle, NoReq, Req
<1>2. KeptInv /\ [MachineNext]_machineVars => KeptInv' BY KeptInductive
<1>3. KeptInv => PreviewMessagesKept BY DEF KeptInv, PreviewMessagesKept, Wanted
<1> QED BY <1>1, <1>2, <1>3, PTL DEF MachineSpec

-----------------------------------------------------------------------------
(* Queues that grow and shrink. *)
\* Queue p is old with e behind it; p is old without its head.
Grown(old, p, e) ==
  /\ DOMAIN old \subseteq Nat /\ DOMAIN p \subseteq Nat
  /\ \A i \in DOMAIN old : i \in DOMAIN p /\ p[i] = old[i]
  /\ \A i \in DOMAIN p : i \notin DOMAIN old => p[i] = e /\ \A j \in DOMAIN old : j < i
  /\ \A i, j \in DOMAIN p : i \notin DOMAIN old /\ j \notin DOMAIN old => i = j
  /\ \E i \in DOMAIN p : i \notin DOMAIN old /\ p[i] = e
\* Queue p is old without its head.
Shrunk(old, p) ==
  /\ DOMAIN old \subseteq Nat /\ DOMAIN p \subseteq Nat
  /\ \A i \in DOMAIN p : i + 1 \in DOMAIN old /\ p[i] = old[i + 1]
  /\ \A i \in DOMAIN old : i >= 1 /\ (i # 1 => i - 1 \in DOMAIN p /\ p[i - 1] = old[i])
  /\ 1 \in DOMAIN old /\ Head(old) = old[1]

\* An append is such a growth.
LEMMA AppendGrows ==
  ASSUME NEW S, NEW old \in Seq(S), NEW e \in S
  PROVE  Grown(old, Append(old, e), e)
<1> DEFINE p == Append(old, e)
<1>1. /\ Len(old) \in Nat /\ DOMAIN old = 1 .. Len(old) /\ DOMAIN p = 1 .. Len(old) + 1
      /\ \A i \in DOMAIN old : p[i] = old[i]
      /\ p[Len(old) + 1] = e
  BY AppendIs
<1> HIDE DEF p
<1>2. \A i \in DOMAIN p : i \notin DOMAIN old => i = Len(old) + 1 BY <1>1
<1>3. Len(old) + 1 \in DOMAIN p /\ Len(old) + 1 \notin DOMAIN old BY <1>1
<1>4. \A j \in DOMAIN old : j < Len(old) + 1 /\ j \in DOMAIN p BY <1>1
<1>5. DOMAIN old \subseteq Nat /\ DOMAIN p \subseteq Nat BY <1>1
<1>6. Grown(old, p, e) BY <1>1, <1>2, <1>3, <1>4, <1>5 DEF Grown
<1> QED BY <1>6 DEF p

\* Taking the head is such a loss.
LEMMA TailShrinks ==
  ASSUME NEW S, NEW old \in Seq(S), old # <<>>
  PROVE  Shrunk(old, Tail(old))
<1>1. Tail(old) \in Seq(S) /\ DOMAIN old = 1 .. Len(old) /\ Len(old) \in Nat /\ DOMAIN Tail(old) = 1 .. Len(old) - 1
  BY TailIs
<1>2. DOMAIN old \subseteq Nat /\ DOMAIN Tail(old) \subseteq Nat /\ \A i \in DOMAIN old : i >= 1 BY <1>1
<1> QED BY <1>2, TailIs DEF Shrunk

\* What is in a queue after an append.
LEMMA GrownHas ==
  ASSUME NEW old, NEW p, NEW e, Grown(old, p, e)
  PROVE  \A y : Has(p, y) <=> Has(old, y) \/ y = e
BY DEF Grown, Has

\* Nothing is on its way.
Clear ==
  /\ \A i \in DOMAIN apiQ : Loose(apiQ[i].api)
  /\ \A i \in DOMAIN results : Loose(results[i].api)
  /\ ~Gone => ~hal.prep /\ ~Has(evtQ, "PREP_DONE") /\ ~hal.ready /\ ~Has(evtQ, "READY")

\* While its caller does not wait, nothing of it is under way.
LEMMA ClearWhenAwake ==
  ASSUME NEW c \in Caller, Dialogue(c), Preparation(c), ~Waiting(c)
  PROVE  Clear
<1>1. \A i \in DOMAIN apiQ : Loose(apiQ[i].api) BY DEF Dialogue, AskedIsWanted
<1>2. \A i \in DOMAIN results : Loose(results[i].api) BY DEF Dialogue, AnswerIsAwaited, Waiting
<1>3. ~Gone => ~hal.prep /\ ~Has(evtQ, "PREP_DONE") /\ ~hal.ready /\ ~Has(evtQ, "READY")
  BY DEF Preparation, PrepareAwaited, TakeAwaited, Waits
<1> QED BY <1>1, <1>2, <1>3 DEF Clear

\* A caller asks, and sleeps.
AskStep(c, req) ==
  /\ ~Waiting(c) /\ Clear /\ req \in Request /\ Grown(apiQ, apiQ', req)
  /\ caller'[c].st = "asleep" /\ caller'[c].req = req
  /\ Only(hal, hal', {"retro"}) /\ UNCHANGED <<evtQ, results>>

\* Asking keeps the dialogue.
LEMMA AskKeepsDialogue ==
  ASSUME NEW c, NEW req, AskStep(c, req), CallFits(caller'[c].call, req)
  PROVE  Dialogue(c)'
<1>1. \A api : Loose(api)' <=> Loose(api) BY DEF AskStep, Loose, Gone, Only
<1>2. AskedIsWanted(c)' BY <1>1 DEF AskStep, AskedIsWanted, Waiting, Grown, Clear
<1>3. AskedOnce' BY <1>1 DEF AskStep, AskedOnce, Grown, Clear
<1>4. AnswerIsAwaited(c)' /\ AnsweredOnce' BY <1>1 DEF AskStep, AnswerIsAwaited, AnsweredOnce, Clear
<1>5. RequestFits(c)' /\ PostFits(c)' BY DEF AskStep, RequestFits, PostFits
<1> QED BY <1>2, <1>3, <1>4, <1>5 DEF Dialogue

\* Asking keeps the preparation.
LEMMA AskKeepsPreparation ==
  ASSUME NEW c, NEW req, AskStep(c, req), Preparation(c)
  PROVE  Preparation(c)'
<1>1. Gone' = Gone /\ hal'.prep = hal.prep /\ hal'.ready = hal.ready /\ hal'.state = hal.state /\ hal'.dead = hal.dead
      /\ evtQ' = evtQ
  BY DEF AskStep, Gone, Only
<1>2. PrepareAwaited(c)' /\ TakeAwaited(c)' BY <1>1 DEF AskStep, Clear, PrepareAwaited, TakeAwaited
<1>3. PreparationEnds' /\ DeathIsLast' /\ SilentWhenGone'
  BY <1>1 DEF Preparation, PreparationEnds, DeathIsLast, SilentWhenGone
<1> QED BY <1>2, <1>3 DEF Preparation

-----------------------------------------------------------------------------
(* Steps of the caller. *)

\* What is asked is in the queue.
LEMMA AskIsRemembered ==
  ASSUME NEW c, NEW req, AskStep(c, req)
  PROVE  Recalled(c)'
BY DEF AskStep, Recalled, Grown, Has

\* A retro picture that is not early is begun when nothing of the last is left.
LEMMA CallKeepsPictures ==
  ASSUME NEW c, NEW req, AskStep(c, req), Pictures(c), caller[c] = Idle,
         CallFits(caller'[c].call, req),
         caller'[c].call \in RetroCalls => req.api = "PRE_TAKE_PICTURE" /\ hal'.retro # "no" /\ ~hal.longshot,
         caller'[c].call = "take_picture" => hal'.retro = "no",
         caller'[c].call = "take_retro" => Settled
  PROVE  Pictures(c)'
<1>1. /\ Gone' = Gone /\ hal'.state = hal.state /\ hal'.cb = hal.cb /\ hal'.th = hal.th /\ hal'.longshot = hal.longshot
      /\ evtQ' = evtQ /\ results' = results /\ hal' \in Hal
  BY DEF AskStep, Gone, Only
<1>2. \A api : Loose(api)' <=> Loose(api) BY <1>1 DEF Loose
<1>3. CancelFollowsVideo'
  <2> SUFFICES ASSUME ~Gone', NEW i \in DOMAIN apiQ', NEW j \in DOMAIN apiQ', i < j,
                      apiQ'[i].api \in SnapshotApis
               PROVE  FALSE
    BY DEF CancelFollowsVideo
  <2>1. i \in DOMAIN apiQ /\ apiQ'[i] = apiQ[i] BY DEF AskStep, Grown
  <2>2. Loose(apiQ[i].api) BY <2>1 DEF AskStep, Clear
  <2> QED BY <1>1, <2>1, <2>2 DEF Loose, SnapshotApis
<1>4. CancelIsAwaited(c)'
  <2>1. Asks("CANCEL_PICTURE")' => Asks("CANCEL_PICTURE") \/ req.api = "CANCEL_PICTURE"
    BY DEF AskStep, Grown, Asks
  <2>2. caller[c].st # "asleep" BY DEF Idle
  <2> QED BY <1>1, <2>1, <2>2 DEF AskStep, Pictures, CancelIsAwaited
<1>5. ~Allowed' BY <1>1 DEF Allowed, AskStep, Clear, Has, Loose, Result
<1>6. RetroFromPreview(c)' BY <1>5 DEF RetroFromPreview, Retro, TakeToCome, AskStep, RetroCalls
<1>7. RetroIsClean(c)' BY <1>1 DEF RetroIsClean, NoPicture, Settled, Has, Retro
<1>8. FlashIsClean(c)' /\ AnswerComesFirst(c)' /\ FlashAsked(c)'
  BY DEF FlashIsClean, AnswerComesFirst, FlashAsked, Retro, Waits, AskStep, RetroCalls
<1>9. RetroFits(c)' BY <1>1 DEF RetroFits, Only, AskStep
<1> QED BY <1>3, <1>4, <1>6, <1>7, <1>8, <1>9 DEF Pictures

\* Fits depends on some fields only.
LEMMA FitsAlways ==
  ASSUME NEW h, NEW g, Fits(h), Only(h, g, {"retro", "window", "prep", "ready", "cb", "post", "dead", "longshot"}),
         g.longshot = h.longshot
  PROVE  Fits(g)
BY DEF Fits, Only, Films, isCaptureRunning

\* A careful caller does not change ZSL during a capture.
LEMMA AskKeepsSetup ==
  ASSUME NEW c, NEW req, AskStep(c, req), Setup(c),
         req.api # "SET_PARAMS_RESTART", req.api # "SET_PARAMS_COMMIT",
         caller'[c].call = "set_parameters" /\ isCaptureRunning(hal) => hal.zsl = hal.zslNew /\ req.arg # "zsl",
         req = Req("SEND_COMMAND", "off") => hal.longshot
  PROVE  Setup(c)'
<1>1. /\ hal'.state = hal.state /\ hal'.zsl = hal.zsl /\ hal'.zslNew = hal.zslNew /\ hal'.on = hal.on
      /\ hal'.restart = hal.restart /\ hal'.longshot = hal.longshot /\ hal'.post = hal.post
      /\ results' = results /\ caller'[c].req = req
  BY DEF AskStep, Only
<1>2. \A i \in DOMAIN apiQ' : (\E j \in DOMAIN apiQ : apiQ'[i] = apiQ[j] /\ Loose(apiQ[j].api)) \/ apiQ'[i] = req
  BY DEF AskStep, Grown, Clear
<1>3. Fits(hal') BY FitsAlways DEF Setup, AskStep, Only
<1>4. RestartIsOff(c)' BY <1>1, <1>2 DEF RestartIsOff, AskStep, Clear, Asks, Has, Loose, Result
<1>5. ZslIsKept(c)' BY <1>1 DEF ZslIsKept, isCaptureRunning
<1>6. LongshotOffFits' BY <1>1, <1>2 DEF LongshotOffFits, Loose, Req
<1> QED BY <1>1, <1>3, <1>4, <1>5, <1>6 DEF Setup

\* A new call keeps the invariant.
LEMMA CallKeeps ==
  ASSUME NEW c \in Caller, Consistent(c), CarefulApp, NEW call \in Calls[c], Call(c, call)
  PROVE  Consistent(c)'
<1> USE DEF Consistent
<1> DEFINE k(old) == [call |-> Named(call), req |-> old, st |-> "asleep"]
<1>1. PICK req \in First(call) :
        /\ req \in Request /\ call \in CallName /\ k(req) \in Busy
        /\ Only(hal, hal', {"retro"})
        /\ IF call = "take_picture" THEN hal'.retro = "no"
           ELSE IF call = "take_retro" THEN hal'.retro # "no" ELSE hal' = hal
        /\ apiQ' = Append(apiQ, req) /\ caller' = [caller EXCEPT ![c] = k(req)]
        /\ call = "set_parameters" /\ CarefulApp /\ isCaptureRunning(hal) =>
             req.arg # "zsl" /\ hal.zslNew = hal.zsl
        /\ MachineTypeOK'
  BY CallIs
<1>2. caller'[c] = k(req) BY <1>1, CallerChanges
<1>3. caller[c] = Idle /\ UNCHANGED <<evtQ, results>>
      /\ (call = "take_retro" => ~hal.longshot)
      /\ (call = "longshot_off" => hal.longshot)
  BY DEF Call
<1>4. ~Waiting(c) BY <1>3 DEF Waiting, Idle
<1>5. Clear BY <1>4, ClearWhenAwake
<1>6. Grown(apiQ, apiQ', req) BY <1>1, AppendGrows DEF MachineTypeOK
<1>7. AskStep(c, req) BY <1>1, <1>2, <1>3, <1>4, <1>5, <1>6 DEF AskStep
<1>8. /\ CallFits(call, req)
      /\ req.api \notin {"SET_PARAMS_RESTART", "SET_PARAMS_COMMIT"}
      /\ call = "take_retro" => req.api = "PRE_TAKE_PICTURE"
      /\ req = Req("SEND_COMMAND", "off") => call = "longshot_off"
  BY <1>1, FirstIs
<1>9. caller'[c].call = Named(call) BY <1>2
<1>9a. /\ CallFits(Named(call), req)
       /\ Named(call) \in RetroCalls => call = "take_retro"
       /\ Named(call) \in {"take_picture", "set_parameters", "longshot_off"} => call = Named(call)
       /\ Named(call) = "take_retro" => Settled
  BY <1>1, <1>8 DEF Named, RetroCalls, CallFits, CallName
<1>10. Dialogue(c)' BY <1>7, <1>9, <1>9a, AskKeepsDialogue
<1>11. Preparation(c)' BY <1>7, AskKeepsPreparation
<1>12. Pictures(c)' BY <1>1, <1>3, <1>7, <1>8, <1>9, <1>9a, CallKeepsPictures
<1>13. Setup(c)' BY <1>1, <1>3, <1>7, <1>8, <1>9, <1>9a, AskKeepsSetup
<1>14. Recalled(c)' BY <1>7, AskIsRemembered
<1> QED BY <1>1, <1>10, <1>11, <1>12, <1>13, <1>14

\* A request posted later keeps the pictures' part.
LEMMA PostKeepsPictures ==
  ASSUME NEW c, NEW req, AskStep(c, req), Pictures(c), caller[c].st = "post", PostFits(c), RequestFits(c),
         req = caller[c].req, caller'[c].call = caller[c].call, hal' = hal
  PROVE  Pictures(c)'
<1>1. Gone' = Gone /\ hal' = hal /\ evtQ' = evtQ /\ results' = results
  BY DEF AskStep, Gone
<1>2. \A i \in DOMAIN apiQ' : (\E j \in DOMAIN apiQ : apiQ'[i] = apiQ[j] /\ Loose(apiQ[j].api)) \/ apiQ'[i] = req
  BY DEF AskStep, Grown, Clear
<1>3. req.api \in {"START_RECORDING", "TAKE_PICTURE", "PREPARE_SNAPSHOT"}
      \/ (req.api = "PRE_TAKE_PICTURE" /\ caller[c].call = "take_picture")
  BY DEF PostFits
<1>4. CancelFollowsVideo'
  <2> SUFFICES ASSUME ~Gone', NEW i \in DOMAIN apiQ', NEW j \in DOMAIN apiQ', i < j,
                      apiQ'[i].api \in SnapshotApis
               PROVE  FALSE
    BY DEF CancelFollowsVideo
  <2>1. i \in DOMAIN apiQ /\ apiQ'[i] = apiQ[i] BY DEF AskStep, Grown
  <2>2. Loose(apiQ[i].api) BY <2>1 DEF AskStep, Clear
  <2> QED BY <1>1, <2>1, <2>2 DEF Loose, SnapshotApis
<1>5. CancelIsAwaited(c)'
  <2>1. Asks("CANCEL_PICTURE")' => Asks("CANCEL_PICTURE") BY <1>2, <1>3 DEF Asks
  <2> QED BY <1>1, <2>1 DEF AskStep, Pictures, CancelIsAwaited
<1>6. TakeToCome(c)' => TakeToCome(c) BY <1>1 DEF TakeToCome, AskStep, Allowed
<1>7. RetroFromPreview(c)' BY <1>1, <1>6 DEF Pictures, RetroFromPreview, Retro
<1>8. Asks("PRE_TAKE_PICTURE")' => caller[c].call # "take_retro" BY <1>2, <1>3 DEF Asks, Loose
<1>9. RetroIsClean(c)' BY <1>1, <1>6, <1>8 DEF Pictures, RetroIsClean, NoPicture, Retro
<1>10. FlashIsClean(c)' BY <1>1 DEF Pictures, FlashIsClean, AskStep, Retro, NoPicture
<1>11. Asks(req.api)' BY DEF AskStep, Grown, Asks
<1>12. AnswerComesFirst(c)' BY <1>11 DEF AnswerComesFirst, Waits, AskStep
<1>13. FlashAsked(c)' BY <1>1 DEF Pictures, FlashAsked, Retro, AskStep
<1>14. RetroFits(c)' BY <1>1 DEF Pictures, RetroFits
<1> QED BY <1>4, <1>5, <1>7, <1>9, <1>10, <1>12, <1>13, <1>14 DEF Pictures

\* A request posted later keeps the invariant.
LEMMA PostKeeps ==
  ASSUME NEW c \in Caller, Consistent(c), processAPI(c)
  PROVE  Consistent(c)'
<1> USE DEF Consistent
<1> DEFINE k == [caller[c] EXCEPT !.st = "asleep"]
           req == caller[c].req
<1>1. /\ caller[c] \in Busy /\ caller[c].st = "post" /\ k \in Busy
      /\ k.st = "asleep" /\ k.req = req /\ k.call = caller[c].call
      /\ apiQ' = Append(apiQ, req) /\ caller' = [caller EXCEPT ![c] = k]
      /\ MachineTypeOK'
  BY PostIs
<1> HIDE DEF k
<1>2. caller'[c] = k BY <1>1, CallerChanges
<1>3. UNCHANGED <<hal, evtQ, results>> BY DEF processAPI
<1>4. ~Waiting(c) BY <1>1 DEF Waiting
<1>5. Clear BY <1>4, ClearWhenAwake
<1>6. req \in Request BY <1>1 DEF Busy
<1> HIDE DEF req
<1>7. Grown(apiQ, apiQ', req) BY <1>1, <1>6, AppendGrows DEF MachineTypeOK
<1>8. Only(hal, hal', {"retro"}) BY <1>3 DEF Only, MachineTypeOK
<1>9. AskStep(c, req) BY <1>1, <1>2, <1>3, <1>4, <1>5, <1>6, <1>7, <1>8 DEF AskStep
<1>10. RequestFits(c) /\ PostFits(c) BY DEF Dialogue
<1>11. caller[c] # Idle BY <1>1 DEF Idle
<1>12. CallFits(caller[c].call, req) BY <1>10, <1>11 DEF RequestFits, req
<1>13. caller'[c].call = caller[c].call BY <1>1, <1>2
<1>14. Dialogue(c)' BY <1>9, <1>12, <1>13, AskKeepsDialogue
<1>15. Preparation(c)' BY <1>9, AskKeepsPreparation
<1>16. Pictures(c)' BY <1>1, <1>3, <1>9, <1>10, <1>13, PostKeepsPictures DEF req
<1>17. req.api \in {"START_RECORDING", "TAKE_PICTURE", "PREPARE_SNAPSHOT", "PRE_TAKE_PICTURE"}
  BY <1>1, <1>10 DEF PostFits, req
<1>18. caller[c].call # "set_parameters" BY <1>12, <1>17 DEF CallFits, SetApis
<1>19. req # Req("SEND_COMMAND", "off") BY <1>17 DEF Req
<1>20. Setup(c)' BY <1>9, <1>13, <1>17, <1>18, <1>19, AskKeepsSetup
<1>21. Recalled(c)' BY <1>9, AskIsRemembered
<1> QED BY <1>1, <1>14, <1>15, <1>16, <1>20, <1>21

\* A caller that finds no result keeps it.
LEMMA SleepKeeps ==
  ASSUME NEW c \in Caller, Consistent(c), SleepsOn(c), MachineTypeOK'
  PROVE  Consistent(c)'
<1> USE DEF Consistent
<1> DEFINE k == [caller[c] EXCEPT !.st = "asleep"]
<1>1. /\ caller[c].st = "woken" /\ \A i \in DOMAIN results : results[i].api # caller[c].req.api
      /\ caller' = [caller EXCEPT ![c] = k] /\ UNCHANGED <<hal, evtQ, results, apiQ>>
  BY DEF SleepsOn
<1>2. caller[c] \in Busy BY <1>1, BusyCallers
<1>3. k \in Busy /\ k.st = "asleep" /\ k.req = caller[c].req /\ k.call = caller[c].call BY <1>2 DEF Busy
<1> HIDE DEF k
<1>4. caller'[c] = k BY <1>1, <1>3, CallerChanges
<1>5. /\ caller'[c].st = "asleep" /\ caller'[c].req = caller[c].req /\ caller'[c].call = caller[c].call
      /\ Waiting(c) /\ Waiting(c)' /\ Gone' = Gone
  BY <1>1, <1>3, <1>4 DEF Waiting, Gone
<1>6. \A api : /\ (Loose(api)' <=> Loose(api)) /\ (Asks(api)' <=> Asks(api))
               /\ (Answered(api)' <=> Answered(api)) /\ (Waits(c, api)' <=> Waits(c, api))
  BY <1>1, <1>5 DEF Loose, Asks, Answered, Waits, Gone, Waiting
<1>7. caller[c] # Idle /\ caller'[c] # Idle BY <1>1, <1>5 DEF Idle
<1>8. Dialogue(c)'
  <2>1. AskedIsWanted(c)' /\ AskedOnce' /\ AnsweredOnce'
    BY <1>1, <1>5, <1>6 DEF Dialogue, AskedIsWanted, AskedOnce, AnsweredOnce
  <2>2. \A i \in DOMAIN results : Loose(results[i].api) BY <1>1 DEF Dialogue, AnswerIsAwaited
  <2>3. AnswerIsAwaited(c)' BY <1>1, <1>6, <2>2 DEF AnswerIsAwaited
  <2>4. RequestFits(c)' /\ PostFits(c)' BY <1>5, <1>7 DEF Dialogue, RequestFits, PostFits
  <2> QED BY <2>1, <2>3, <2>4 DEF Dialogue
<1>9. Preparation(c)'
  BY <1>1, <1>5, <1>6 DEF Preparation, PrepareAwaited, TakeAwaited, PreparationEnds, DeathIsLast,
                          SilentWhenGone, Once, Early
<1>10. TakeToCome(c)' => TakeToCome(c) BY <1>1, <1>5 DEF TakeToCome, Allowed, Asks
<1>11. Pictures(c)'
  <2>1. Pictures(c) OBVIOUS
  <2>2. CancelFollowsVideo' BY <1>1, <1>5, <2>1 DEF Pictures, CancelFollowsVideo
  <2>3. CancelIsAwaited(c)' BY <1>1, <1>5, <1>6, <2>1 DEF Pictures, CancelIsAwaited
  <2>4. RetroFromPreview(c)' /\ RetroIsClean(c)'
    BY <1>1, <1>5, <1>6, <1>10, <2>1 DEF Pictures, RetroFromPreview, RetroIsClean, Retro, NoPicture
  <2>5. FlashIsClean(c)' BY <1>1, <1>5, <2>1 DEF Pictures, FlashIsClean, Retro, NoPicture
  <2>6. AnswerComesFirst(c)' BY <1>1, <1>5, <1>6, <2>1 DEF Pictures, AnswerComesFirst, Retro
  <2>7. FlashAsked(c)' BY <1>1, <1>5, <1>6, <2>1 DEF Pictures, FlashAsked, Retro
  <2>8. RetroFits(c)' BY <1>1, <1>5, <2>1 DEF Pictures, RetroFits
  <2> QED BY <2>2, <2>3, <2>4, <2>5, <2>6, <2>7, <2>8 DEF Pictures
<1>12. Setup(c)'
  BY <1>1, <1>5, <1>6 DEF Setup, RestartIsOff, ZslIsKept, LongshotOffFits
<1>13. Recalled(c)'
  <2>1. Deferred(c) => Deferred(c)' BY <1>1, <1>5 DEF Deferred
  <2> QED BY <1>1, <1>5, <2>1 DEF Recalled, Answered, Overtaken
<1> QED BY <1>8, <1>9, <1>11, <1>12, <1>13

\* A caller goes on: nothing that was asked or answered is left.
GoesOn(c, i, n) ==
  /\ TakesResult(c, i, n) /\ caller'[c] = Onward(c, n)
  /\ \A j \in DOMAIN apiQ : Loose(apiQ[j].api)
  /\ \A k \in DOMAIN results' : Loose(results'[k].api)
  /\ ~Gone => ~hal.prep /\ ~Has(evtQ, "PREP_DONE") /\ ~hal.ready /\ ~Has(evtQ, "READY")
  /\ n # NoReq => Grown(apiQ, Append(apiQ, n), n)
  /\ CallFits(caller[c].call, caller[c].req)

\* When a caller takes its result, nothing else of it is under way.
LEMMA TakingGoesOn ==
  ASSUME NEW c \in Caller, Consistent(c), NEW i, NEW n, TakesResult(c, i, n)
  PROVE  GoesOn(c, i, n)
<1> USE DEF Consistent
<1>1. /\ caller[c].st = "woken" /\ caller[c] \in Busy
      /\ i \in DOMAIN results /\ results[i].api = caller[c].req.api
      /\ \A k \in DOMAIN results' : \E j \in DOMAIN results : j # i /\ results'[k] = results[j]
      /\ Onward(c, n) \in {Idle} \cup Busy /\ caller' = [caller EXCEPT ![c] = Onward(c, n)]
      /\ n # NoReq => n \in Request
  BY DEF TakesResult
<1>2. caller'[c] = Onward(c, n) BY <1>1, CallerChanges
<1>3. \A j \in DOMAIN apiQ : Loose(apiQ[j].api)
  <2> SUFFICES ASSUME NEW j \in DOMAIN apiQ, ~Loose(apiQ[j].api) PROVE FALSE OBVIOUS
  <2>1. apiQ[j].api = caller[c].req.api BY DEF Dialogue, AskedIsWanted
  <2>2. ~Asks(caller[c].req.api) BY <1>1, <2>1 DEF Dialogue, AnswerIsAwaited
  <2> QED BY <2>1, <2>2 DEF Asks
<1>4. \A j \in DOMAIN results : j # i => Loose(results[j].api)
  BY <1>1 DEF Dialogue, AnswerIsAwaited, AnsweredOnce
<1>5. \A k \in DOMAIN results' : Loose(results'[k].api) BY <1>1, <1>4
<1>6. ~Gone => ~hal.prep /\ ~Has(evtQ, "PREP_DONE") /\ ~hal.ready /\ ~Has(evtQ, "READY")
  BY <1>1 DEF Preparation, PrepareAwaited, TakeAwaited, Waits, Answered
<1>7. n # NoReq => Grown(apiQ, Append(apiQ, n), n) BY <1>1, AppendGrows DEF MachineTypeOK
<1>8. caller[c] # Idle BY <1>1 DEF Idle
<1>9. CallFits(caller[c].call, caller[c].req) BY <1>8 DEF Dialogue, RequestFits
<1> QED BY <1>2, <1>3, <1>5, <1>6, <1>7, <1>9 DEF GoesOn

\* What a caller that goes on leaves and asks.
LEMMA GoesOnIs ==
  ASSUME NEW c \in Caller, NEW i, NEW n, GoesOn(c, i, n)
  PROVE  /\ UNCHANGED <<hal, evtQ>> /\ Gone' = Gone /\ \A api : Loose(api)' <=> Loose(api)
         /\ caller[c].st = "woken" /\ caller[c] \in Busy /\ i \in DOMAIN results
         /\ results[i].api = caller[c].req.api
         /\ caller'[c] = Idle \/ (caller'[c].call = caller[c].call /\ caller'[c].req = n /\ n # NoReq)
         /\ KeepsLock(n) => Waiting(c)' /\ caller'[c].st = "asleep" /\ Grown(apiQ, apiQ', n) /\ n \in Request
         /\ ~KeepsLock(n) => apiQ' = apiQ /\ ~Waiting(c)' /\ caller'[c].st # "asleep"
         /\ \A j \in DOMAIN apiQ' : Loose(apiQ'[j].api) \/ (KeepsLock(n) /\ apiQ'[j] = n)
         /\ n = NoReq <=> caller'[c] = Idle
<1>1. /\ UNCHANGED <<hal, evtQ>> /\ caller[c].st = "woken" /\ caller[c] \in Busy /\ i \in DOMAIN results
      /\ results[i].api = caller[c].req.api /\ caller'[c] = Onward(c, n) /\ (n # NoReq => n \in Request)
      /\ apiQ' = IF KeepsLock(n) THEN Append(apiQ, n) ELSE apiQ
  BY DEF GoesOn, TakesResult
<1>2. Gone' = Gone /\ \A api : Loose(api)' <=> Loose(api) BY <1>1 DEF Gone, Loose
<1>3. KeepsLock(n) => n # NoReq BY DEF KeepsLock, NoReq, Req
<1>4. n # NoReq => caller'[c] = [call |-> caller[c].call, req |-> n, st |-> IF KeepsLock(n) THEN "asleep" ELSE "post"]
  BY <1>1 DEF Onward
<1>5. n = NoReq => caller'[c] = Idle BY <1>1 DEF Onward
<1>6. n = NoReq <=> caller'[c] = Idle BY <1>4, <1>5 DEF Idle, NoReq, Req
<1>7. KeepsLock(n) => Grown(apiQ, apiQ', n) BY <1>1, <1>3 DEF GoesOn
<1>8. \A j \in DOMAIN apiQ' : Loose(apiQ'[j].api) \/ (KeepsLock(n) /\ apiQ'[j] = n)
  <2>1. CASE KeepsLock(n) BY <1>7, <2>1 DEF GoesOn, Grown
  <2>2. CASE ~KeepsLock(n) BY <1>1, <2>2 DEF GoesOn
  <2> QED BY <2>1, <2>2
<1>9. KeepsLock(n) => Waiting(c)' /\ caller'[c].st = "asleep" BY <1>3, <1>4 DEF Waiting
<1>10. ~KeepsLock(n) => ~Waiting(c)' /\ caller'[c].st # "asleep" BY <1>4, <1>5 DEF Waiting, Idle
<1>11. caller'[c] = Idle \/ (caller'[c].call = caller[c].call /\ caller'[c].req = n /\ n # NoReq)
  BY <1>4, <1>5
<1> QED BY <1>1, <1>2, <1>3, <1>6, <1>7, <1>8, <1>9, <1>10, <1>11

\* A caller that goes on keeps the dialogue.
LEMMA OnwardKeepsDialogue ==
  ASSUME NEW c \in Caller, NEW i, NEW n, GoesOn(c, i, n)
  PROVE  Dialogue(c)'
<1> USE GoesOnIs
<1>1. AskedIsWanted(c)' BY DEF AskedIsWanted, Idle, Waiting
<1>2. AskedOnce'
  <2>1. CASE KeepsLock(n)
    <3>1. Grown(apiQ, apiQ', n) BY <2>1
    <3>2. \A j \in DOMAIN apiQ : Loose(apiQ[j].api) BY DEF GoesOn
    <3> QED BY <3>1, <3>2 DEF AskedOnce, Grown
  <2>2. CASE ~KeepsLock(n) BY <2>2 DEF AskedOnce
  <2> QED BY <2>1, <2>2
<1>3. AnswerIsAwaited(c)' /\ AnsweredOnce' BY DEF GoesOn, AnswerIsAwaited, AnsweredOnce
<1> HIDE GoesOnIs
<1>4. Follows(caller[c].call, caller[c].req.api, results[i].ok, n) BY DEF GoesOn, TakesResult
<1>5. CallFits(caller[c].call, caller[c].req) BY DEF GoesOn
<1>6. caller'[c] = Idle \/ (caller'[c].call = caller[c].call /\ caller'[c].req = n /\ n # NoReq)
  BY GoesOnIs
<1>7. n # NoReq => CallFits(caller[c].call, n)
  BY <1>4, <1>5 DEF Follows, CallFits, Plain, Req, Api, PictureApis, SnapshotApis, ParamApis, SetApis, RecordingApis
<1>8. RequestFits(c)' BY <1>6, <1>7 DEF RequestFits
<1>9. n # NoReq /\ ~KeepsLock(n) =>
        \/ n.api \in {"START_RECORDING", "TAKE_PICTURE", "PREPARE_SNAPSHOT"}
        \/ n.api = "PRE_TAKE_PICTURE" /\ caller[c].call = "take_picture"
  BY <1>4 DEF Follows, KeepsLock, Plain, Req
<1>10. KeepsLock(n) => caller'[c].st = "asleep" BY GoesOnIs
<1>11. PostFits(c)' BY <1>6, <1>9, <1>10 DEF PostFits, Idle
<1> QED BY <1>1, <1>2, <1>3, <1>8, <1>11 DEF Dialogue

\* It keeps the preparation: its next request is not put off yet.
LEMMA OnwardKeepsPreparation ==
  ASSUME NEW c \in Caller, NEW i, NEW n, GoesOn(c, i, n), Preparation(c)
  PROVE  Preparation(c)'
<1>1. UNCHANGED <<hal, evtQ>> /\ Gone' = Gone BY GoesOnIs
<1>2. PrepareAwaited(c)' /\ TakeAwaited(c)' BY <1>1 DEF GoesOn, PrepareAwaited, TakeAwaited
<1>3. PreparationEnds' /\ DeathIsLast' /\ SilentWhenGone'
  BY <1>1 DEF Preparation, PreparationEnds, DeathIsLast, SilentWhenGone
<1> QED BY <1>2, <1>3 DEF Preparation

\* It keeps the pictures' part.
LEMMA OnwardKeepsPictures ==
  ASSUME NEW c \in Caller, NEW i, NEW n, GoesOn(c, i, n), Pictures(c), MachineTypeOK
  PROVE  Pictures(c)'
<1>1. /\ UNCHANGED <<hal, evtQ>> /\ Gone' = Gone /\ \A api : Loose(api)' <=> Loose(api)
      /\ caller[c].st = "woken" /\ i \in DOMAIN results /\ results[i].api = caller[c].req.api
      /\ caller'[c] = Idle \/ (caller'[c].call = caller[c].call /\ caller'[c].req = n /\ n # NoReq)
      /\ \A j \in DOMAIN apiQ' : Loose(apiQ'[j].api) \/ (KeepsLock(n) /\ apiQ'[j] = n)
      /\ KeepsLock(n) => Grown(apiQ, apiQ', n)
      /\ ~KeepsLock(n) => apiQ' = apiQ /\ ~Waiting(c)'
  BY GoesOnIs
<1>2. Follows(caller[c].call, caller[c].req.api, results[i].ok, n) BY DEF GoesOn, TakesResult
<1>3. CallFits(caller[c].call, caller[c].req) BY DEF GoesOn
<1>4. KeepsLock(n) => n.api \notin PictureApis BY DEF KeepsLock, PictureApis, SnapshotApis
<1>5. CancelFollowsVideo'
  BY <1>1, <1>4 DEF CancelFollowsVideo, Loose, SnapshotApis, PictureApis
<1>6. \A api \in PictureApis : Asks(api)' => Asks(api)
  <2>1. CASE KeepsLock(n)
    <3>1. Grown(apiQ, apiQ', n) BY <1>1, <2>1
    <3> QED BY <1>4, <2>1, <3>1 DEF Asks, Grown
  <2>2. CASE ~KeepsLock(n) BY <1>1, <2>2 DEF Asks
  <2> QED BY <2>1, <2>2
<1>7. CancelIsAwaited(c)'
  <2>1. Asks("CANCEL_PICTURE")' => Asks("CANCEL_PICTURE") BY <1>6 DEF PictureApis
  <2> QED BY <1>1, <2>1 DEF Pictures, CancelIsAwaited
<1>8. ~Allowed' BY <1>1 DEF GoesOn, Allowed, Has, Loose, Result
<1>9. \A api \in SnapshotApis : ~Gone => ~Asks(api)'
  <2>1. \A api \in SnapshotApis : ~Gone => ~Asks(api) BY DEF GoesOn, Asks, Loose, SnapshotApis
  <2> QED BY <1>6, <2>1 DEF PictureApis
<1>10. n.api = "TAKE_PICTURE" => Allowed
  <2> SUFFICES ASSUME n.api = "TAKE_PICTURE" PROVE Allowed OBVIOUS
  <2>1. caller[c].req.api = "PRE_TAKE_PICTURE" /\ results[i].ok BY <1>2 DEF Follows, Plain, Req, NoReq
  <2>2a. results \in Seq(Answer) BY DEF MachineTypeOK, Answer
  <2>2. results[i] \in Answer BY <1>1, <2>2a
  <2>3. results[i] = Result("PRE_TAKE_PICTURE", TRUE) BY <1>1, <2>1, <2>2, Zenon DEF Answer, Result
  <2> QED BY <1>1, <2>3 DEF Allowed, Has
<1>11. Retro(c)' /\ TakeToCome(c)' => Retro(c) /\ TakeToCome(c)
  BY <1>1, <1>8, <1>9, <1>10 DEF TakeToCome, Retro, Idle, SnapshotApis
<1>12. RetroFromPreview(c)' BY <1>1, <1>11 DEF Pictures, RetroFromPreview
<1>13. RetroIsClean(c)'
  <2>1. Retro(c)' => ~Asks("PRE_TAKE_PICTURE")' BY <1>1, <1>9 DEF Retro, SnapshotApis
  <2> QED BY <1>1, <1>11, <2>1 DEF Pictures, RetroIsClean, NoPicture
<1>14. Retro(c)' => Retro(c) /\ caller'[c].req = n /\ n # NoReq BY <1>1 DEF Retro, Idle
<1>15. n.api = "PREPARE_SNAPSHOT" => caller[c].req.api = "TAKE_PICTURE" /\ hal.retro = "flash"
  BY <1>2 DEF Follows, Plain, Req, NoReq
<1>16. FlashIsClean(c)'
  <2> SUFFICES ASSUME Retro(c)', hal'.state = "PREVIEW_PIC_TAKING", hal'.retro = "flash",
                      n.api \in {"TAKE_PICTURE", "PREPARE_SNAPSHOT"}
               PROVE  NoPicture'
    BY <1>14 DEF FlashIsClean
  <2>1. n.api # "TAKE_PICTURE"
    <3> SUFFICES ASSUME n.api = "TAKE_PICTURE" PROVE FALSE OBVIOUS
    <3>1. hal.state = "PREVIEWING" \/ Films(hal) BY <1>10, <1>14 DEF Pictures, RetroFromPreview, TakeToCome
    <3> QED BY <1>1, <3>1 DEF Films
  <2>2. NoPicture BY <1>1, <1>14, <1>15, <2>1 DEF Pictures, FlashIsClean
  <2> QED BY <1>1, <2>2 DEF NoPicture
<1>17. AnswerComesFirst(c)'
  <2>1. \A api \in {"TAKE_PICTURE", "PREPARE_SNAPSHOT"} : Retro(c)' => ~Waits(c, api)'
    BY <1>1, <1>4, <1>14 DEF Waits, PictureApis, SnapshotApis
  <2> QED BY <2>1 DEF AnswerComesFirst
<1>18. FlashAsked(c)' BY <1>1, <1>14, <1>15 DEF FlashAsked
<1>19. RetroFits(c)' BY <1>1 DEF Pictures, RetroFits, Idle, RetroCalls
<1> QED BY <1>5, <1>7, <1>12, <1>13, <1>16, <1>17, <1>18, <1>19 DEF Pictures

\* It keeps the setup.
LEMMA OnwardKeepsSetup ==
  ASSUME NEW c \in Caller, NEW i, NEW n, GoesOn(c, i, n), Setup(c), MachineTypeOK
  PROVE  Setup(c)'
<1>1. /\ UNCHANGED <<hal, evtQ>> /\ Gone' = Gone /\ \A api : Loose(api)' <=> Loose(api)
      /\ i \in DOMAIN results /\ results[i].api = caller[c].req.api
      /\ caller'[c] = Idle \/ (caller'[c].call = caller[c].call /\ caller'[c].req = n /\ n # NoReq)
      /\ \A j \in DOMAIN apiQ' : Loose(apiQ'[j].api) \/ (KeepsLock(n) /\ apiQ'[j] = n)
  BY GoesOnIs
<1>2. Follows(caller[c].call, caller[c].req.api, results[i].ok, n) BY DEF GoesOn, TakesResult
<1>3. ~Has(results', Result("SET_PARAMS_STOP", TRUE)) BY <1>1 DEF GoesOn, Has, Loose, Result
<1>4. n.api = "SET_PARAMS_RESTART" => caller[c].req.api = "SET_PARAMS_COMMIT" /\ hal.restart
  BY <1>2 DEF Follows, Plain, Req, NoReq
<1>5. n.api = "SET_PARAMS_COMMIT" /\ hal.restart => Has(results, Result("SET_PARAMS_STOP", TRUE))
  <2> SUFFICES ASSUME n.api = "SET_PARAMS_COMMIT", hal.restart PROVE Has(results, Result("SET_PARAMS_STOP", TRUE))
    OBVIOUS
  <2>1. caller[c].req.api = "SET_PARAMS_STOP" /\ results[i].ok BY <1>2 DEF Follows, Plain, Req, NoReq
  <2>2a. results \in Seq(Answer) BY DEF MachineTypeOK, Answer
  <2>2. results[i] \in Answer BY <1>1, <2>2a
  <2>3. results[i] = Result("SET_PARAMS_STOP", TRUE) BY <1>1, <2>1, <2>2, Zenon DEF Answer, Result
  <2> QED BY <1>1, <2>3 DEF Has
<1>6. Asks("SET_PARAMS_RESTART")' => n.api = "SET_PARAMS_RESTART" BY <1>1 DEF Asks, Loose
<1>7. caller'[c].req.api = "SET_PARAMS_COMMIT" => n.api = "SET_PARAMS_COMMIT" BY <1>1 DEF Idle, NoReq, Req
<1>8. RestartIsOff(c)' BY <1>1, <1>3, <1>4, <1>5, <1>6, <1>7 DEF Setup, RestartIsOff
<1>9. n.arg = "none" /\ n.api # "SEND_COMMAND" BY <1>2 DEF Follows, Plain, Req, NoReq
<1>10. ZslIsKept(c)' BY <1>1, <1>9 DEF Setup, ZslIsKept, Idle
<1>11. LongshotOffFits' BY <1>1, <1>9 DEF LongshotOffFits, Loose, Req
<1> QED BY <1>1, <1>8, <1>10, <1>11 DEF Setup

\* A woken caller keeps the invariant.
LEMMA WaitKeeps ==
  ASSUME NEW c \in Caller, Consistent(c), waitAPIResult(c)
  PROVE  Consistent(c)'
<1>1. MachineTypeOK' /\ (SleepsOn(c) \/ \E i, n : TakesResult(c, i, n)) BY WaitIs DEF Consistent
<1>2. CASE SleepsOn(c) BY <1>1, <1>2, SleepKeeps
<1>3. ASSUME NEW i, NEW n, TakesResult(c, i, n) PROVE Consistent(c)'
  <2>1. GoesOn(c, i, n) BY <1>3, TakingGoesOn
  <2>2. Recalled(c)'
    <3>1. CASE KeepsLock(n)
      <4>1. Grown(apiQ, apiQ', n) /\ caller'[c].req = n BY <2>1, <3>1, GoesOnIs DEF Waiting, Idle
      <4> QED BY <4>1 DEF Recalled, Grown, Has
    <3>2. CASE ~KeepsLock(n) BY <2>1, <3>2, GoesOnIs DEF Recalled
    <3> QED BY <3>1, <3>2
  <2> QED BY <1>1, <2>1, <2>2, OnwardKeepsDialogue, OnwardKeepsPreparation, OnwardKeepsPictures, OnwardKeepsSetup
          DEF Consistent
<1> QED BY <1>1, <1>2, <1>3

-----------------------------------------------------------------------------
(* Requests of the HAL's threads. *)

\* Request e, no caller's, is behind the others or was not made.
LooseStep(e) ==
  /\ e \in {CancelReq, StopReq} /\ (apiQ' = apiQ \/ Grown(apiQ, apiQ', e))
  /\ hal' \in Hal /\ UNCHANGED <<evtQ, results, caller>>
  /\ hal'.dead = hal.dead /\ hal'.state = hal.state /\ hal'.prep = hal.prep /\ hal'.ready = hal.ready
  /\ hal'.retro = hal.retro /\ hal'.cb = hal.cb /\ hal'.longshot = hal.longshot /\ hal'.on = hal.on
  /\ hal'.restart = hal.restart /\ hal'.zsl = hal.zsl /\ hal'.zslNew = hal.zslNew /\ hal'.post = hal.post

\* What such a request leaves.
LEMMA LooseStepIs ==
  ASSUME NEW e, LooseStep(e)
  PROVE  /\ Gone' = Gone
         /\ \A api : /\ (Loose(api)' <=> Loose(api)) /\ (Answered(api)' <=> Answered(api))
                     /\ (Asks(api) => Asks(api)')
                     /\ (Asks(api)' => Asks(api) \/ api = e.api)
         /\ e.api \in {"CANCEL_PICTURE", "STOP_CAPTURE_CHANNEL"}
         /\ \A i \in DOMAIN apiQ' : (i \in DOMAIN apiQ /\ apiQ'[i] = apiQ[i])
                                    \/ (apiQ'[i] = e /\ i \notin DOMAIN apiQ /\ \A j \in DOMAIN apiQ : j < i)
         /\ \A i \in DOMAIN apiQ : i \in DOMAIN apiQ' /\ apiQ'[i] = apiQ[i]
<1>1. Gone' = Gone BY DEF LooseStep, Gone
<1>2. e.api \in {"CANCEL_PICTURE", "STOP_CAPTURE_CHANNEL"} BY DEF LooseStep, CancelReq, StopReq, Plain, Req
<1>3. CASE apiQ' = apiQ BY <1>1, <1>2, <1>3 DEF LooseStep, Loose, Answered, Asks
<1>4. CASE Grown(apiQ, apiQ', e) BY <1>1, <1>2, <1>4 DEF LooseStep, Loose, Answered, Asks, Grown
<1> QED BY <1>3, <1>4 DEF LooseStep

\* A request of a HAL thread keeps the invariant.
LEMMA LooseKeeps ==
  ASSUME NEW c \in Caller, Consistent(c), NEW e, LooseStep(e), MachineTypeOK',
         hal'.th \in {"none", hal.th},
         Fits(hal'),
         e = CancelReq => hal.state = "VIDEO_PIC_TAKING" \/ apiQ' = apiQ
  PROVE  Consistent(c)'
<1> USE DEF Consistent
<1>1. /\ Gone' = Gone /\ UNCHANGED <<evtQ, results, caller>>
      /\ hal'.dead = hal.dead /\ hal'.state = hal.state /\ hal'.prep = hal.prep /\ hal'.ready = hal.ready
      /\ hal'.retro = hal.retro /\ hal'.cb = hal.cb /\ hal'.longshot = hal.longshot /\ hal'.on = hal.on
      /\ hal'.restart = hal.restart /\ hal'.zsl = hal.zsl /\ hal'.zslNew = hal.zslNew /\ hal'.post = hal.post
  BY LooseStepIs DEF LooseStep
<1>2. \A api : /\ (Loose(api)' <=> Loose(api)) /\ (Answered(api)' <=> Answered(api))
               /\ (Asks(api) => Asks(api)')
               /\ (Asks(api)' => Asks(api) \/ api = e.api)
  BY LooseStepIs
<1>3. e.api \in {"CANCEL_PICTURE", "STOP_CAPTURE_CHANNEL"} BY LooseStepIs
<1>4. \A i \in DOMAIN apiQ' : (i \in DOMAIN apiQ /\ apiQ'[i] = apiQ[i])
                              \/ (apiQ'[i] = e /\ i \notin DOMAIN apiQ /\ \A j \in DOMAIN apiQ : j < i)
  BY LooseStepIs
<1>5. \A i \in DOMAIN apiQ : i \in DOMAIN apiQ' /\ apiQ'[i] = apiQ[i] BY LooseStepIs
<1>6. \A api \in Api \ {"CANCEL_PICTURE", "STOP_CAPTURE_CHANNEL"} : Asks(api)' <=> Asks(api) BY <1>2, <1>3
<1>7. Waiting(c)' <=> Waiting(c) BY <1>1 DEF Waiting
<1>8. Dialogue(c)'
  <2>1. AskedIsWanted(c)' BY <1>1, <1>2, <1>3, <1>4, <1>7 DEF Dialogue, AskedIsWanted, Loose
  <2>2. AskedOnce' BY <1>2, <1>3, <1>4 DEF Dialogue, AskedOnce, Loose
  <2>3. AnswerIsAwaited(c)' BY <1>1, <1>2, <1>3 DEF Dialogue, AnswerIsAwaited, Loose
  <2>4. AnsweredOnce' /\ RequestFits(c)' /\ PostFits(c)'
    BY <1>1, <1>2 DEF Dialogue, AnsweredOnce, RequestFits, PostFits
  <2> QED BY <2>1, <2>2, <2>3, <2>4 DEF Dialogue
<1>9. \A api \in {"TAKE_PICTURE", "PREPARE_SNAPSHOT"} : Waits(c, api)' <=> Waits(c, api)
  BY <1>1, <1>2, <1>3, <1>7 DEF Waits
<1>10. Preparation(c)'
  <2>1. (Waits(c, "PREPARE_SNAPSHOT")' <=> Waits(c, "PREPARE_SNAPSHOT")) BY <1>9
  <2>2. (Waits(c, "TAKE_PICTURE")' <=> Waits(c, "TAKE_PICTURE")) BY <1>9
  <2>3. PrepareAwaited(c)' BY <1>1, <1>9, <2>1 DEF Preparation, PrepareAwaited, Prepared, Once, Early
  <2>4. TakeAwaited(c)' BY <1>1, <1>9, <2>2 DEF Preparation, TakeAwaited, RetroTaken, Once, Early
  <2>5. PreparationEnds' /\ DeathIsLast' /\ SilentWhenGone'
    BY <1>1 DEF Preparation, PreparationEnds, DeathIsLast, SilentWhenGone
  <2> QED BY <2>3, <2>4, <2>5 DEF Preparation
<1>11. Pictures(c)'
  <2>1. CancelFollowsVideo'
    <3> SUFFICES ASSUME ~Gone, NEW i \in DOMAIN apiQ', NEW j \in DOMAIN apiQ', i < j,
                        apiQ'[i].api \in SnapshotApis, apiQ'[j].api = "CANCEL_PICTURE"
                 PROVE  Films(hal)
      BY <1>1 DEF CancelFollowsVideo, Films
    <3>1. i \in DOMAIN apiQ /\ apiQ'[i] = apiQ[i] BY <1>3, <1>4 DEF SnapshotApis
    <3>2. CASE j \in DOMAIN apiQ /\ apiQ'[j] = apiQ[j]
      BY <3>1, <3>2 DEF Pictures, CancelFollowsVideo
    <3>3. CASE apiQ'[j] = e /\ j \notin DOMAIN apiQ
      <4>1. e = CancelReq BY <3>3 DEF LooseStep, StopReq, Plain, Req
      <4> QED BY <3>3, <4>1 DEF Films
    <3> QED BY <1>4, <3>2, <3>3
  <2>2. CancelIsAwaited(c)'
    <3>1. e = CancelReq \/ e.api # "CANCEL_PICTURE" BY DEF LooseStep, StopReq, Plain, Req
    <3>2. hal.state = "PREVIEW_PIC_TAKING" /\ Asks("CANCEL_PICTURE")' => Asks("CANCEL_PICTURE")
      BY <1>2, <3>1 DEF Asks
    <3> QED BY <1>1, <3>2 DEF Pictures, CancelIsAwaited
  <2>3. (TakeToCome(c)' <=> TakeToCome(c))
    <3>1. (Asks("TAKE_PICTURE")' <=> Asks("TAKE_PICTURE")) BY <1>2, <1>3
    <3> QED BY <1>1, <3>1 DEF TakeToCome, Allowed
  <2>4. (Retro(c)' <=> Retro(c)) /\ (NoPicture' <=> NoPicture) BY <1>1 DEF Retro, NoPicture
  <2>5. (Films(hal)' <=> Films(hal)) BY <1>1 DEF Films
  <2>6. RetroFromPreview(c)' BY <1>1, <2>3, <2>4, <2>5 DEF Pictures, RetroFromPreview
  <2>7. Asks("PRE_TAKE_PICTURE")' => Asks("PRE_TAKE_PICTURE") BY <1>2, <1>3
  <2>8. RetroIsClean(c)' BY <1>1, <2>3, <2>4, <2>7 DEF Pictures, RetroIsClean
  <2>9. FlashIsClean(c)' BY <1>1, <2>4 DEF Pictures, FlashIsClean
  <2>10. AnswerComesFirst(c)' BY <1>1, <1>9, <2>4 DEF Pictures, AnswerComesFirst
  <2>11. Asks("PREPARE_SNAPSHOT")' => Asks("PREPARE_SNAPSHOT") BY <1>2, <1>3
  <2>12. FlashAsked(c)' /\ RetroFits(c)' BY <1>1, <2>4, <2>11 DEF Pictures, FlashAsked, RetroFits
  <2> QED BY <2>1, <2>2, <2>6, <2>8, <2>9, <2>10, <2>12 DEF Pictures
<1>12. Setup(c)'
  <2>1. Asks("SET_PARAMS_RESTART")' => Asks("SET_PARAMS_RESTART") BY <1>2, <1>3
  <2>2. RestartIsOff(c)' BY <1>1, <2>1 DEF Setup, RestartIsOff
  <2>3. ZslIsKept(c)' BY <1>1 DEF Setup, ZslIsKept, isCaptureRunning
  <2>4. LongshotOffFits' BY <1>1, <1>3, <1>4 DEF Setup, LongshotOffFits, Req
  <2> QED BY <1>1, <2>2, <2>3, <2>4 DEF Setup
<1>13. Recalled(c)'
  <2>1. (Deferred(c)' <=> Deferred(c)) BY <1>1 DEF Deferred
  <2>2. Has(apiQ, caller[c].req) => Has(apiQ', caller[c].req) BY <1>5 DEF Has
  <2> QED BY <1>1, <1>2, <1>7, <2>1, <2>2 DEF Recalled, Overtaken
<1> QED BY <1>8, <1>10, <1>11, <1>12, <1>13

\* The live snapshot's thread keeps it.
LEMMA ThreadKeeps ==
  ASSUME NEW c \in Caller, Consistent(c), ThreadEnds, MachineTypeOK'
  PROVE  Consistent(c)'
<1>1. /\ hal.th # "none" /\ Only(hal, hal', {"th", "pic", "fails"}) /\ hal'.th = "none"
      /\ \/ hal.th = "cancel" /\ ~hal'.pic /\ apiQ' = apiQ
         \/ hal.th = "take" /\ apiQ' = apiQ
         \/ hal.th = "take" /\ apiQ' = Append(apiQ, CancelReq) /\ hal'.pic = hal.pic
      /\ UNCHANGED <<evtQ, results, caller, asked>>
  BY DEF ThreadEnds
<1>2. Fits(hal) BY DEF Consistent, Setup
<1>3. hal.th = "take" => hal.state = "VIDEO_PIC_TAKING" BY <1>2 DEF Fits
<1>4. Fits(hal') BY <1>1, <1>2, <1>3 DEF Fits, Only, isCaptureRunning, Films
<1>5. apiQ \in Seq(Request) /\ CancelReq \in Request BY LooseRequests DEF Consistent, MachineTypeOK
<1>6. apiQ' = apiQ \/ Grown(apiQ, apiQ', CancelReq) BY <1>1, <1>5, AppendGrows
<1>7. LooseStep(CancelReq) BY <1>1, <1>6 DEF LooseStep, Only
<1>8. hal.state = "VIDEO_PIC_TAKING" \/ apiQ' = apiQ BY <1>1, <1>3
<1> QED BY <1>1, <1>4, <1>7, <1>8, LooseKeeps

\* The post processor's request keeps it.
LEMMA StopCaptureKeeps ==
  ASSUME NEW c \in Caller, Consistent(c), stopCapture
  PROVE  Consistent(c)'
<1>1. /\ apiQ' = Append(apiQ, StopReq) /\ UNCHANGED <<hal, evtQ, results, caller, asked>> /\ MachineTypeOK'
  BY StopCaptureIs DEF Consistent
<1>2. apiQ \in Seq(Request) /\ StopReq \in Request /\ hal \in Hal BY LooseRequests DEF Consistent, MachineTypeOK
<1>3. Grown(apiQ, apiQ', StopReq) BY <1>1, <1>2, AppendGrows
<1>4. LooseStep(StopReq) BY <1>1, <1>2, <1>3 DEF LooseStep
<1>5. Fits(hal') BY <1>1 DEF Consistent, Setup
<1>6. StopReq # CancelReq BY DEF StopReq, CancelReq, Plain, Req
<1> QED BY <1>1, <1>4, <1>5, <1>6, LooseKeeps

-----------------------------------------------------------------------------
(* Events that are posted. *)

\* Event e is behind the others or was not posted.
EventStep(e) ==
  /\ evtQ' = evtQ \/ Grown(evtQ, evtQ', e)
  /\ Only(hal, hal', {"prep", "ready", "retro", "cb", "dead"}) /\ (hal'.retro = "no" <=> hal.retro = "no")
  /\ UNCHANGED <<apiQ, results, caller>>
  /\ Gone' <=> Gone

\* What such an event leaves.
LEMMA EventStepIs ==
  ASSUME NEW e, EventStep(e)
  PROVE  /\ \A y : (Has(evtQ, y) => Has(evtQ', y)) /\ (Has(evtQ', y) => Has(evtQ, y) \/ y = e)
         /\ \A i \in DOMAIN evtQ' : (i \in DOMAIN evtQ /\ evtQ'[i] = evtQ[i])
                                    \/ (evtQ'[i] = e /\ i \notin DOMAIN evtQ /\ \A j \in DOMAIN evtQ : j < i)
         /\ \A i, j \in DOMAIN evtQ' : i \notin DOMAIN evtQ /\ j \notin DOMAIN evtQ => i = j
         /\ \A i \in DOMAIN evtQ : i \in DOMAIN evtQ' /\ evtQ'[i] = evtQ[i]
         /\ \A api : /\ (Loose(api)' <=> Loose(api)) /\ (Answered(api)' <=> Answered(api))
                     /\ (Asks(api)' <=> Asks(api))
<1>1. \A api : /\ (Loose(api)' <=> Loose(api)) /\ (Answered(api)' <=> Answered(api))
               /\ (Asks(api)' <=> Asks(api))
  BY DEF EventStep, Loose, Answered, Asks
<1>2. CASE evtQ' = evtQ BY <1>1, <1>2
<1>3. CASE Grown(evtQ, evtQ', e) BY <1>1, <1>3 DEF Has, Grown
<1> QED BY <1>2, <1>3 DEF EventStep

\* An event that is posted keeps the dialogue.
LEMMA EventKeepsDialogue ==
  ASSUME NEW c, NEW e, EventStep(e), Dialogue(c)
  PROVE  Dialogue(c)'
<1>1. \A api : /\ (Loose(api)' <=> Loose(api)) /\ (Asks(api)' <=> Asks(api)) BY EventStepIs
<1>2. UNCHANGED <<apiQ, results, caller>> BY DEF EventStep
<1>3. Waiting(c)' <=> Waiting(c) BY <1>2 DEF Waiting
<1>4. AskedIsWanted(c)' /\ AskedOnce' BY <1>1, <1>2, <1>3 DEF Dialogue, AskedIsWanted, AskedOnce
<1>5. AnswerIsAwaited(c)' /\ AnsweredOnce' BY <1>1, <1>2 DEF Dialogue, AnswerIsAwaited, AnsweredOnce
<1>6. RequestFits(c)' /\ PostFits(c)' BY <1>2 DEF Dialogue, RequestFits, PostFits
<1> QED BY <1>4, <1>5, <1>6 DEF Dialogue

\* It keeps the setup.
LEMMA EventKeepsSetup ==
  ASSUME NEW c, NEW e, EventStep(e), Setup(c)
  PROVE  Setup(c)'
<1>1. UNCHANGED <<apiQ, results, caller>> /\ Only(hal, hal', {"prep", "ready", "retro", "cb", "dead"})
  BY DEF EventStep
<1>2. Fits(hal') BY <1>1, FitsAlways DEF Setup, Only
<1>3. \A api : Asks(api)' <=> Asks(api) BY EventStepIs
<1>4. RestartIsOff(c)' BY <1>1, <1>3 DEF Setup, RestartIsOff, Only
<1>5. ZslIsKept(c)' BY <1>1 DEF Setup, ZslIsKept, Only, isCaptureRunning
<1>6. LongshotOffFits' /\ ~hal'.post BY <1>1 DEF Setup, LongshotOffFits, Only
<1> QED BY <1>2, <1>4, <1>5, <1>6 DEF Setup

\* What is left to show of Preparation, Pictures and Recalled.
LEMMA EventKeeps ==
  ASSUME NEW c \in Caller, Consistent(c), NEW e, EventStep(e), MachineTypeOK',
         Preparation(c)',
         Retro(c) /\ hal.state = "PREVIEWING" /\ NoPicture /\ hal.th = "none" => NoPicture',
         Retro(c) /\ hal.state = "PREVIEW_PIC_TAKING" /\ NoPicture /\ hal'.retro = "flash" /\ hal.retro = "flash"
           => NoPicture',
         hal'.retro = "flash" => hal.retro = "flash",
         Retro(c) /\ caller[c].req.api = "PREPARE_SNAPSHOT" /\ hal.retro = "flash" /\ hal'.retro # "flash"
           => Waits(c, "PREPARE_SNAPSHOT"),
         AnswerComesFirst(c)',
         Deferred(c) => Deferred(c)'
  PROVE  Consistent(c)'
<1> USE DEF Consistent
<1>1. /\ UNCHANGED <<apiQ, results, caller>> /\ (Gone' <=> Gone) /\ (hal'.retro = "no" <=> hal.retro = "no")
      /\ hal'.state = hal.state /\ hal'.th = hal.th /\ hal'.longshot = hal.longshot
  BY DEF EventStep, Only
<1>2. \A api : /\ (Loose(api)' <=> Loose(api)) /\ (Answered(api)' <=> Answered(api))
               /\ (Asks(api)' <=> Asks(api))
  BY EventStepIs
<1>3. (Waiting(c)' <=> Waiting(c)) /\ (Retro(c)' <=> Retro(c)) BY <1>1 DEF Waiting, Retro
<1>4. Dialogue(c)' /\ Setup(c)' BY EventKeepsDialogue, EventKeepsSetup
<1>5. Pictures(c)'
  <2>1. CancelFollowsVideo' BY <1>1 DEF Pictures, CancelFollowsVideo, Films
  <2>2. CancelIsAwaited(c)' BY <1>1, <1>2 DEF Pictures, CancelIsAwaited
  <2>3. TakeToCome(c)' <=> TakeToCome(c) BY <1>1, <1>2 DEF TakeToCome, Allowed
  <2>4. RetroFromPreview(c)' BY <1>1, <1>3, <2>3 DEF Pictures, RetroFromPreview, Films
  <2>5. RetroIsClean(c)' BY <1>1, <1>2, <1>3, <2>3 DEF Pictures, RetroIsClean
  <2>6. FlashIsClean(c)' BY <1>1, <1>3 DEF Pictures, FlashIsClean
  <2>7. FlashAsked(c)' BY <1>1, <1>2, <1>3 DEF Pictures, FlashAsked, Waits, Waiting
  <2>8. RetroFits(c)' BY <1>1 DEF Pictures, RetroFits
  <2> QED BY <2>1, <2>2, <2>4, <2>5, <2>6, <2>7, <2>8 DEF Pictures
<1>6. Recalled(c)' BY <1>1, <1>2, <1>3 DEF Recalled, Overtaken
<1> QED BY <1>4, <1>5, <1>6

\* The order of answers and picture events stays when an event comes behind.
LEMMA OrderStays ==
  ASSUME NEW c \in Caller, AnswerComesFirst(c), NEW e, EventStep(e), e \notin {"SNAPSHOT_DONE", "JPEG"},
         hal'.cb = hal.cb
  PROVE  AnswerComesFirst(c)'
<1>1. /\ UNCHANGED <<apiQ, results, caller>> /\ (Gone' <=> Gone) /\ hal'.state = hal.state
  BY DEF EventStep, Only
<1>2. \A api : Waits(c, api)' <=> Waits(c, api) BY <1>1 DEF Waits, Asks, Answered, Waiting
<1>3. Retro(c)' <=> Retro(c) BY <1>1 DEF Retro
<1>4. /\ \A i \in DOMAIN evtQ' : (i \in DOMAIN evtQ /\ evtQ'[i] = evtQ[i]) \/ evtQ'[i] = e
      /\ \A i \in DOMAIN evtQ : i \in DOMAIN evtQ' /\ evtQ'[i] = evtQ[i]
  BY EventStepIs
<1> QED BY <1>1, <1>2, <1>3, <1>4 DEF AnswerComesFirst

\* The callback thread's notification keeps the invariant.
LEMMA NotifyKeeps ==
  ASSUME NEW c \in Caller, Consistent(c), Notifies, MachineTypeOK'
  PROVE  Consistent(c)'
<1> USE DEF Consistent
<1>1. /\ hal.cb = "told" /\ Only(hal, hal', {"cb"}) /\ UNCHANGED <<apiQ, results, caller>>
      /\ evtQ' = evtQ \/ evtQ' = Append(evtQ, "SNAPSHOT_DONE")
  BY DEF Notifies
<1>2. evtQ \in Seq(Event) /\ "SNAPSHOT_DONE" \in Event BY DEF MachineTypeOK, Event
<1>3. evtQ' = evtQ \/ Grown(evtQ, evtQ', "SNAPSHOT_DONE") BY <1>1, <1>2, AppendGrows
<1>4. \A y : y # "SNAPSHOT_DONE" => (Has(evtQ', y) <=> Has(evtQ, y)) BY <1>3, GrownHas
<1>5. Gone' <=> Gone BY <1>1, <1>4 DEF Gone, Only
<1>6. EventStep("SNAPSHOT_DONE") BY <1>1, <1>3, <1>5 DEF EventStep, Only
<1>7. ~NoPicture BY <1>1 DEF NoPicture
<1>8. \A api : Waits(c, api)' <=> Waits(c, api) BY <1>1 DEF Waits, Asks, Answered, Waiting
<1>9. Preparation(c)'
  <2>1. /\ hal'.prep = hal.prep /\ hal'.ready = hal.ready /\ hal'.state = hal.state /\ hal'.retro = hal.retro
        /\ hal'.dead = hal.dead
    BY <1>1 DEF Only
  <2>2. /\ \A i \in DOMAIN evtQ' : (i \in DOMAIN evtQ /\ evtQ'[i] = evtQ[i])
                                   \/ (evtQ'[i] = "SNAPSHOT_DONE" /\ i \notin DOMAIN evtQ /\ \A j \in DOMAIN evtQ : j < i)
    BY <1>6, EventStepIs
  <2>2a. \A e \in {"PREP_DONE", "READY"} : Once(e) => Once(e)' BY <2>2 DEF Once
  <2>2b. Early(c)' <=> Early(c) BY <1>1 DEF Early
  <2>3. PrepareAwaited(c)' BY <1>4, <1>5, <1>8, <2>1, <2>2a, <2>2b DEF Preparation, PrepareAwaited, Prepared
  <2>4. TakeAwaited(c)' BY <1>4, <1>5, <1>8, <2>1, <2>2a, <2>2b DEF Preparation, TakeAwaited, RetroTaken
  <2>5. PreparationEnds' /\ SilentWhenGone' BY <1>4, <1>5, <2>1 DEF Preparation, PreparationEnds, SilentWhenGone
  <2>6. DeathIsLast' BY <2>1, <2>2 DEF Preparation, DeathIsLast
  <2> QED BY <2>3, <2>4, <2>5, <2>6 DEF Preparation
<1>10. AnswerComesFirst(c)'
  <2>1. \A api \in {"TAKE_PICTURE", "PREPARE_SNAPSHOT"} :
          ~(Retro(c) /\ hal.state = "PREVIEW_PIC_TAKING" /\ Waits(c, api))
    BY <1>1 DEF Pictures, AnswerComesFirst
  <2> QED BY <1>1, <1>5, <1>8, <2>1 DEF AnswerComesFirst, Retro, Only
<1>11. Deferred(c) => Deferred(c)'
  <2>1. \A i \in DOMAIN evtQ : i \in DOMAIN evtQ' /\ evtQ'[i] = evtQ[i] BY <1>6, EventStepIs
  <2> QED BY <1>1, <2>1 DEF Deferred, Only
<1>12. hal'.retro = hal.retro BY <1>1 DEF Only
<1> QED BY <1>6, <1>7, <1>9, <1>10, <1>11, <1>12, EventKeeps

-----------------------------------------------------------------------------
(* The stack. *)

\* The same from the stack, which is silent after its death.
StackStep(e, F) ==
  /\ EventStep(e) /\ Grown(evtQ, evtQ', e) /\ Only(hal, hal', F) /\ ~hal.dead /\ ~Gone /\ ~Gone'
  /\ ~Has(evtQ, "DAEMON_DIED")

\* What the stack sends is such a step.
LEMMA SendsStep ==
  ASSUME NEW c, Consistent(c), NEW e, NEW F \in {{"prep", "retro"}, {"ready"}, {}, {"dead"}}, Sends(e, F),
         hal'.retro = "no" <=> hal.retro = "no",
         F = {"dead"} => e = "DAEMON_DIED"
  PROVE  StackStep(e, F) /\ MachineTypeOK'
<1> USE DEF Consistent
<1>1. /\ ~hal.dead /\ Only(hal, hal', F) /\ evtQ' = Append(evtQ, e) /\ e \in Event
      /\ UNCHANGED <<apiQ, results, caller, asked>>
  BY DEF Sends
<1>2. evtQ \in Seq(Event) BY DEF MachineTypeOK
<1>3. Grown(evtQ, evtQ', e) BY <1>1, <1>2, AppendGrows
<1>4. ~Gone BY <1>1 DEF Gone
<1>5. F # {"dead"} => hal'.dead = hal.dead BY <1>1 DEF Only
<1>6. ~Gone' BY <1>1, <1>3, <1>5, GrownHas DEF Gone
<1>7. Only(hal, hal', {"prep", "ready", "retro", "cb", "dead"}) BY <1>1 DEF Only
<1>8. EventStep(e) BY <1>1, <1>3, <1>4, <1>6, <1>7 DEF EventStep
<1>9. ~Has(evtQ, "DAEMON_DIED") BY <1>1 DEF Preparation, DeathIsLast, Has
<1>10. MachineTypeOK' BY SendsIs
<1> QED BY <1>1, <1>3, <1>4, <1>6, <1>8, <1>9, <1>10 DEF StackStep

\* Nothing comes from the stack behind its death.
LEMMA DeathStaysLast ==
  ASSUME NEW e, NEW F, StackStep(e, F), e # "DAEMON_DIED" \/ hal'.dead
  PROVE  DeathIsLast'
<1>1. \A i \in DOMAIN evtQ' : (i \in DOMAIN evtQ /\ evtQ'[i] = evtQ[i])
                                   \/ (evtQ'[i] = e /\ i \notin DOMAIN evtQ /\ \A j \in DOMAIN evtQ : j < i)
  BY EventStepIs DEF StackStep
<1>2. \A i, j \in DOMAIN evtQ' : i \notin DOMAIN evtQ /\ j \notin DOMAIN evtQ => i = j
  BY EventStepIs DEF StackStep
<1>3. \A i \in DOMAIN evtQ : evtQ[i] # "DAEMON_DIED" BY DEF StackStep, Has
<1>4. DOMAIN evtQ' \subseteq Nat BY DEF StackStep, Grown
<1>5. SUFFICES ASSUME NEW i \in DOMAIN evtQ', NEW j \in DOMAIN evtQ', evtQ'[i] = "DAEMON_DIED"
               PROVE  hal'.dead /\ ~(j > i)
  BY DEF DeathIsLast
<1>6. evtQ'[i] = e /\ i \notin DOMAIN evtQ /\ \A k \in DOMAIN evtQ : k < i BY <1>1, <1>3, <1>5
<1>7. j = i \/ j < i BY <1>1, <1>2, <1>6
<1> QED BY <1>4, <1>5, <1>6, <1>7

\* The end of a preparation keeps the invariant.
LEMMA PrepDoneKeeps ==
  ASSUME NEW c \in Caller, Consistent(c), PrepDone
  PROVE  Consistent(c)'
<1> USE DEF Consistent
<1> DEFINE e == "PREP_DONE"
           F == {"prep", "retro"}
<1>1. /\ Sends(e, F) /\ hal.prep /\ ~hal'.prep
      /\ hal'.retro = IF hal.retro = "flash" THEN "plain" ELSE hal.retro
  BY StackIs
<1>2. StackStep(e, F) /\ MachineTypeOK' BY <1>1, SendsStep
<1>3. /\ EventStep(e) /\ Grown(evtQ, evtQ', e) /\ Only(hal, hal', F) /\ ~Gone /\ ~Gone' /\ ~hal.dead
      /\ UNCHANGED <<apiQ, results, caller>>
  BY <1>2 DEF StackStep, EventStep
<1>4. \A y : Has(evtQ', y) <=> Has(evtQ, y) \/ y = e BY <1>3, GrownHas
<1>5. \A api : Waits(c, api)' <=> Waits(c, api) BY <1>3 DEF Waits, Asks, Answered, Waiting
<1>6. Waits(c, "PREPARE_SNAPSHOT") /\ (Prepared(hal) \/ Early(c)) /\ ~Has(evtQ, e)
  BY <1>1, <1>3 DEF Preparation, PrepareAwaited
<1>7. /\ hal'.ready = hal.ready /\ hal'.state = hal.state /\ hal'.cb = hal.cb
      /\ (hal'.retro = "no" <=> hal.retro = "no") /\ hal'.retro # "flash"
  BY <1>1, <1>3 DEF Only
<1>8. /\ \A i \in DOMAIN evtQ' : (i \in DOMAIN evtQ /\ evtQ'[i] = evtQ[i]) \/ (evtQ'[i] = e /\ i \notin DOMAIN evtQ)
      /\ \A i, j \in DOMAIN evtQ' : i \notin DOMAIN evtQ /\ j \notin DOMAIN evtQ => i = j
      /\ \A i \in DOMAIN evtQ : i \in DOMAIN evtQ' /\ evtQ'[i] = evtQ[i]
  BY <1>3, EventStepIs
<1>9. Preparation(c)'
  <2>1. Once(e)' BY <1>6, <1>8 DEF Once, Has
  <2>2. Once("READY") => Once("READY")' BY <1>8 DEF Once
  <2>3. PrepareAwaited(c)' BY <1>1, <1>3, <1>5, <1>6, <1>7, <2>1 DEF PrepareAwaited, Prepared, Early
  <2>4. TakeAwaited(c)' BY <1>3, <1>4, <1>5, <1>7, <2>2 DEF Preparation, TakeAwaited, RetroTaken, Early
  <2>5. PreparationEnds' /\ SilentWhenGone' BY <1>3, <1>4 DEF PreparationEnds, SilentWhenGone
  <2>6. DeathIsLast' BY <1>2, DeathStaysLast
  <2> QED BY <2>3, <2>4, <2>5, <2>6 DEF Preparation
<1>10. AnswerComesFirst(c)' BY <1>3, <1>7, OrderStays DEF Pictures
<1>11. NoPicture => NoPicture' BY <1>4, <1>7 DEF NoPicture
<1>12. Deferred(c) => Deferred(c)'
  <2>1. \E i \in DOMAIN evtQ' : evtQ'[i] = e BY <1>3 DEF Grown
  <2> QED BY <1>3, <1>6, <1>7, <2>1 DEF Deferred, Waits
<1> QED BY <1>2, <1>3, <1>6, <1>7, <1>9, <1>10, <1>11, <1>12, EventKeeps

\* The retro frame keeps it.
LEMMA RetroReadyKeeps ==
  ASSUME NEW c \in Caller, Consistent(c), RetroReady
  PROVE  Consistent(c)'
<1> USE DEF Consistent
<1> DEFINE e == "READY"
           F == {"ready"}
<1>1. Sends(e, F) /\ hal.ready /\ ~hal'.ready BY StackIs
<1>1a. hal'.retro = hal.retro BY <1>1 DEF Sends, Only
<1>2. StackStep(e, F) /\ MachineTypeOK' BY <1>1, <1>1a, SendsStep
<1>3. /\ EventStep(e) /\ Grown(evtQ, evtQ', e) /\ Only(hal, hal', F) /\ ~Gone /\ ~Gone' /\ ~hal.dead
      /\ UNCHANGED <<apiQ, results, caller>>
  BY <1>2 DEF StackStep, EventStep
<1>4. \A y : Has(evtQ', y) <=> Has(evtQ, y) \/ y = e BY <1>3, GrownHas
<1>5. \A api : Waits(c, api)' <=> Waits(c, api) BY <1>3 DEF Waits, Asks, Answered, Waiting
<1>6. Waits(c, "TAKE_PICTURE") /\ (RetroTaken(hal) \/ Early(c)) /\ ~Has(evtQ, e)
  BY <1>1, <1>3 DEF Preparation, TakeAwaited
<1>7. hal'.prep = hal.prep /\ hal'.state = hal.state /\ hal'.cb = hal.cb
  BY <1>1, <1>3 DEF Only
<1>8. /\ \A i \in DOMAIN evtQ' : (i \in DOMAIN evtQ /\ evtQ'[i] = evtQ[i]) \/ (evtQ'[i] = e /\ i \notin DOMAIN evtQ)
      /\ \A i, j \in DOMAIN evtQ' : i \notin DOMAIN evtQ /\ j \notin DOMAIN evtQ => i = j
      /\ \A i \in DOMAIN evtQ : i \in DOMAIN evtQ' /\ evtQ'[i] = evtQ[i]
  BY <1>3, EventStepIs
<1>9. Preparation(c)'
  <2>1. Once(e)' BY <1>6, <1>8 DEF Once, Has
  <2>2. Once("PREP_DONE") => Once("PREP_DONE")' BY <1>8 DEF Once
  <2>3. PrepareAwaited(c)' BY <1>1a, <1>3, <1>4, <1>5, <1>7, <2>2 DEF Preparation, PrepareAwaited, Prepared, Early
  <2>4. TakeAwaited(c)' BY <1>1, <1>1a, <1>3, <1>5, <1>6, <1>7, <2>1 DEF TakeAwaited, RetroTaken, Early
  <2>5. PreparationEnds' /\ SilentWhenGone'
    BY <1>3, <1>4, <1>7 DEF Preparation, PreparationEnds, SilentWhenGone
  <2>6. DeathIsLast' BY <1>2, DeathStaysLast
  <2> QED BY <2>3, <2>4, <2>5, <2>6 DEF Preparation
<1>10. AnswerComesFirst(c)' BY <1>3, <1>7, OrderStays DEF Pictures
<1>11. NoPicture => NoPicture' BY <1>4, <1>7 DEF NoPicture
<1>12. Deferred(c) => Deferred(c)'
  <2>1. \E i \in DOMAIN evtQ' : evtQ'[i] = e BY <1>3 DEF Grown
  <2> QED BY <1>1a, <1>3, <1>6, <1>7, <2>1 DEF Deferred, Waits
<1> QED BY <1>1a, <1>2, <1>3, <1>9, <1>10, <1>11, <1>12, EventKeeps

\* The death of the daemon keeps it.
LEMMA DaemonDiesKeeps ==
  ASSUME NEW c \in Caller, Consistent(c), DaemonDies
  PROVE  Consistent(c)'
<1> USE DEF Consistent
<1> DEFINE e == "DAEMON_DIED"
           F == {"dead"}
<1>1. Sends(e, F) /\ hal'.dead BY StackIs
<1>1a. hal'.retro = hal.retro BY <1>1 DEF Sends, Only
<1>2. StackStep(e, F) /\ MachineTypeOK' BY <1>1, <1>1a, SendsStep
<1>3. /\ EventStep(e) /\ Grown(evtQ, evtQ', e) /\ Only(hal, hal', F) /\ ~Gone /\ ~Gone' /\ ~hal.dead
      /\ UNCHANGED <<apiQ, results, caller>>
  BY <1>2 DEF StackStep, EventStep
<1>4. \A y : Has(evtQ', y) <=> Has(evtQ, y) \/ y = e BY <1>3, GrownHas
<1>5. \A api : Waits(c, api)' <=> Waits(c, api) BY <1>3 DEF Waits, Asks, Answered, Waiting
<1>7. hal'.prep = hal.prep /\ hal'.ready = hal.ready /\ hal'.state = hal.state /\ hal'.cb = hal.cb
  BY <1>1, <1>3 DEF Only
<1>8. /\ \A i \in DOMAIN evtQ' : (i \in DOMAIN evtQ /\ evtQ'[i] = evtQ[i]) \/ (evtQ'[i] = e /\ i \notin DOMAIN evtQ)
      /\ \A i \in DOMAIN evtQ : i \in DOMAIN evtQ' /\ evtQ'[i] = evtQ[i]
  BY <1>3, EventStepIs
<1>9. Preparation(c)'
  <2>1. \A y \in {"PREP_DONE", "READY"} : Once(y) => Once(y)' BY <1>8 DEF Once
  <2>3. PrepareAwaited(c)' BY <1>1a, <1>3, <1>4, <1>5, <1>7, <2>1 DEF Preparation, PrepareAwaited, Prepared, Early
  <2>4. TakeAwaited(c)' BY <1>1a, <1>3, <1>4, <1>5, <1>7, <2>1 DEF Preparation, TakeAwaited, RetroTaken, Early
  <2>5. PreparationEnds' /\ SilentWhenGone'
    BY <1>3, <1>4, <1>7 DEF Preparation, PreparationEnds, SilentWhenGone
  <2>6. DeathIsLast' BY <1>1, <1>2, DeathStaysLast
  <2> QED BY <2>3, <2>4, <2>5, <2>6 DEF Preparation
<1>10. AnswerComesFirst(c)' BY <1>3, <1>7, OrderStays DEF Pictures
<1>11. NoPicture => NoPicture' BY <1>4, <1>7 DEF NoPicture
<1>12. Deferred(c) => Deferred(c)'
  <2>1. \E i \in DOMAIN evtQ' : evtQ'[i] = e BY <1>3 DEF Grown
  <2> QED BY <1>1a, <1>3, <1>7, <2>1 DEF Deferred
<1> QED BY <1>1a, <1>2, <1>3, <1>9, <1>10, <1>11, <1>12, EventKeeps

\* A finished picture keeps it.
LEMMA JpegDoneKeeps ==
  ASSUME NEW c \in Caller, Consistent(c), JpegDone
  PROVE  Consistent(c)'
<1> USE DEF Consistent
<1> DEFINE e == "JPEG"
           F == {}
<1>1. /\ Sends(e, F) /\ hal' = hal /\ hal.pic /\ ~hal.ready /\ ~hal.prep
      /\ hal.retro # "flash" /\ hal.cb = "idle"
  BY StackIs
<1>2. StackStep(e, F) /\ MachineTypeOK' BY <1>1, SendsStep
<1>3. /\ EventStep(e) /\ Grown(evtQ, evtQ', e) /\ ~Gone /\ ~Gone' /\ ~hal.dead
      /\ UNCHANGED <<apiQ, results, caller>>
  BY <1>2 DEF StackStep, EventStep
<1>4. \A y : Has(evtQ', y) <=> Has(evtQ, y) \/ y = e BY <1>3, GrownHas
<1>5. \A api : Waits(c, api)' <=> Waits(c, api) BY <1>3 DEF Waits, Asks, Answered, Waiting
<1>8. /\ \A i \in DOMAIN evtQ' : (i \in DOMAIN evtQ /\ evtQ'[i] = evtQ[i])
                                 \/ (evtQ'[i] = e /\ i \notin DOMAIN evtQ /\ \A j \in DOMAIN evtQ : j < i)
      /\ \A i \in DOMAIN evtQ : i \in DOMAIN evtQ' /\ evtQ'[i] = evtQ[i]
  BY <1>3, EventStepIs
<1>9. Preparation(c)'
  <2>1. \A y \in {"PREP_DONE", "READY"} : Once(y) => Once(y)' BY <1>8 DEF Once
  <2>3. PrepareAwaited(c)' BY <1>1, <1>3, <1>4, <1>5, <2>1 DEF Preparation, PrepareAwaited, Early
  <2>4. TakeAwaited(c)' BY <1>1, <1>3, <1>4, <1>5, <2>1 DEF Preparation, TakeAwaited, Early
  <2>5. PreparationEnds' /\ SilentWhenGone'
    BY <1>1, <1>3, <1>4 DEF Preparation, PreparationEnds, SilentWhenGone
  <2>6. DeathIsLast' BY <1>1, <1>2, DeathStaysLast
  <2> QED BY <2>3, <2>4, <2>5, <2>6 DEF Preparation
<1>10. AnswerComesFirst(c)'
  <2> SUFFICES ASSUME NEW api \in {"TAKE_PICTURE", "PREPARE_SNAPSHOT"},
                      Retro(c), hal.state = "PREVIEW_PIC_TAKING", Waits(c, api)
               PROVE  /\ hal'.cb = "idle"
                      /\ \A j \in DOMAIN evtQ' : evtQ'[j] \in {"SNAPSHOT_DONE", "JPEG"} =>
                           \E i \in DOMAIN evtQ' : i < j /\ evtQ'[i] \in {AnswerEvent(api), "DAEMON_DIED"}
    BY <1>1, <1>3, <1>5 DEF AnswerComesFirst, Retro
  <2>1. Deferred(c) BY DEF Recalled, Overtaken, Retro, Waits, Asks, Has, Answered
  <2>2. \E i \in DOMAIN evtQ : evtQ[i] \in {AnswerEvent(api), "DAEMON_DIED"}
    BY <1>1, <2>1 DEF Deferred, AnswerEvent, Waits
  <2>3. \A j \in DOMAIN evtQ : evtQ[j] \in {"SNAPSHOT_DONE", "JPEG"} =>
          \E i \in DOMAIN evtQ : i < j /\ evtQ[i] \in {AnswerEvent(api), "DAEMON_DIED"}
    BY DEF Pictures, AnswerComesFirst
  <2> QED BY <1>1, <1>8, <2>2, <2>3
<1>11. hal.state = "PREVIEWING" => hal.th # "none"
  BY <1>1 DEF Setup, Fits, isCaptureRunning
<1>12. Deferred(c) => Deferred(c)' BY <1>1, <1>3, <1>8 DEF Deferred
<1> QED BY <1>1, <1>2, <1>3, <1>9, <1>10, <1>11, <1>12, EventKeeps

-----------------------------------------------------------------------------
(* Requests that are handled. *)

\* The head r of the request queue is handled: it leaves g and is answered with
\* ans.
ReqStep(c, r, g, ans) ==
  /\ Shrunk(apiQ, apiQ') /\ r = apiQ[1] /\ r \in Request /\ \A i \in DOMAIN apiQ' : i >= 1
  /\ Only(g, hal', {"post"}) /\ ~hal'.post
  /\ Leaves(hal, g) /\ Answers(hal, r, g, ans) /\ Turns(hal, r, g, ans)
  /\ OfPicture(hal, r, g, ans) /\ OfParams(hal, r, g)
  /\ Fits(hal) /\ Careful(hal, r) => Fits(g)
  /\ evtQ' = evtQ \/ (g.post /\ Grown(evtQ, evtQ', "SNAPSHOT_DONE"))
  /\ IF ans = <<>> THEN results' = results
     ELSE \E b \in BOOLEAN : ans = <<Result(r.api, b)>> /\ Grown(results, results', Result(r.api, b))
  /\ caller'[c].req = caller[c].req /\ caller'[c].call = caller[c].call
  /\ caller'[c].st = IF ans # <<>> /\ caller[c].st = "asleep" THEN "woken" ELSE caller[c].st
  /\ r.api = "STOP_CAPTURE_CHANNEL" => ans = <<>>
  /\ caller[c] = Idle => caller'[c] = Idle

\* A handled request, as the parts of the invariant see it.
LEMMA HandledSteps ==
  ASSUME MachineTypeOK, MachineTypeOK', ~EarlyRestart, NEW c \in Caller, NEW r, NEW x, Handled(r, x)
  PROVE  ReqStep(c, r, x.hal, x.ans)
<1> DEFINE g == x.hal
           ans == x.ans
<1>1. /\ apiQ # <<>> /\ apiQ' = Tail(apiQ) /\ r = Head(apiQ) /\ r \in Request
      /\ Moves(hal, r, x)
      /\ r.api = "STOP_CAPTURE_CHANNEL" => ans = <<>>
      /\ Finishes(g, ans, evtQ)
  BY DEF Handled
<1>2. apiQ \in Seq(Request) /\ evtQ \in Seq(Event) /\ results \in Seq(Answer) /\ apiQ' \in Seq(Request)
      /\ "SNAPSHOT_DONE" \in Event
  BY DEF MachineTypeOK, Answer, Event
<1>3. Shrunk(apiQ, apiQ') BY <1>1, <1>2, TailShrinks
<1>4. r = apiQ[1] BY <1>1, <1>3 DEF Shrunk
<1>5. \A i \in DOMAIN apiQ' : i >= 1 BY <1>2
<1>6. /\ Leaves(hal, g) /\ Answers(hal, r, g, ans) /\ Turns(hal, r, g, ans)
      /\ OfPicture(hal, r, g, ans) /\ OfParams(hal, r, g)
      /\ (Fits(hal) /\ Careful(hal, r) => Fits(g))
  BY <1>1 DEF Moves
<1>7. /\ Only(g, hal', {"post"}) /\ ~hal'.post
      /\ evtQ' = IF g.post THEN Append(evtQ, "SNAPSHOT_DONE") ELSE evtQ
      /\ results' = results \o ans /\ ans \in Seq(Answer)
      /\ caller' = [d \in Caller |-> Woken(caller[d], ans)]
  BY <1>1 DEF Finishes
<1> HIDE DEF g, ans
<1>8. evtQ' = evtQ \/ (g.post /\ Grown(evtQ, evtQ', "SNAPSHOT_DONE"))
  <2>1. CASE g.post
    <3>1. evtQ' = Append(evtQ, "SNAPSHOT_DONE") BY <1>7, <2>1
    <3> QED BY <1>2, <2>1, <3>1, AppendGrows
  <2>2. CASE ~g.post BY <1>7, <2>2
  <2> QED BY <2>1, <2>2
<1>9. ASSUME ans # <<>> PROVE \E b \in BOOLEAN : ans = <<Result(r.api, b)>> /\ Grown(results, results', Result(r.api, b))
  <2>1. r.api \in Api BY <1>1 DEF Request
  <2>2. PICK b \in BOOLEAN : ans = <<Result(r.api, b)>> BY <1>6, <1>9, <2>1 DEF Answers
  <2>3. Result(r.api, b) \in Answer BY <2>1 DEF Result, Answer
  <2> DEFINE y == Result(r.api, b)
  <2>4. ans = <<y>> /\ y \in Answer BY <2>2, <2>3
  <2> HIDE DEF y
  <2>5. results \o <<y>> = Append(results, y) BY <1>2, <2>4
  <2>6. Grown(results, results', y) BY <1>2, <1>7, <2>4, <2>5, AppendGrows
  <2> QED BY <2>4, <2>6 DEF y
<1>10. ans = <<>> => results' = results
  <2> SUFFICES ASSUME ans = <<>> PROVE results' = results OBVIOUS
  <2>1. results \o <<>> = results BY <1>2
  <2> QED BY <1>7, <2>1
<1>11. caller[c] \in {Idle} \cup Busy /\ caller'[c] = Woken(caller[c], ans)
  BY <1>7 DEF MachineTypeOK, Busy
<1>12. /\ caller'[c].req = caller[c].req /\ caller'[c].call = caller[c].call
       /\ caller'[c].st = IF ans # <<>> /\ caller[c].st = "asleep" THEN "woken" ELSE caller[c].st
  BY <1>11, WokenIs
<1>12a. caller[c] = Idle => caller'[c] = Idle BY <1>11 DEF Woken, Idle
<1>13. IF ans = <<>> THEN results' = results
       ELSE \E b \in BOOLEAN : ans = <<Result(r.api, b)>> /\ Grown(results, results', Result(r.api, b))
  BY <1>9, <1>10
<1>14. r.api = "STOP_CAPTURE_CHANNEL" => ans = <<>> BY <1>1 DEF ans
<1>15. r \in Request BY <1>1
<1>16. ReqStep(c, r, g, ans)
  BY <1>3, <1>4, <1>5, <1>6, <1>7, <1>8, <1>12, <1>12a, <1>13, <1>14, <1>15 DEF ReqStep
<1> QED BY <1>16 DEF g, ans

\* What a handled request leaves as it is.
LEMMA ReqStepIs ==
  ASSUME NEW c, NEW r, NEW g, NEW ans, ReqStep(c, r, g, ans), Dialogue(c)
  PROVE  /\ (Gone' <=> Gone) /\ hal'.dead = hal.dead /\ hal'.cb = hal.cb /\ hal'.retro = hal.retro
         /\ \A y : y # "SNAPSHOT_DONE" => (Has(evtQ', y) <=> Has(evtQ, y))
         /\ \A api : Loose(api)' <=> Loose(api)
         /\ \A api : (Asks(api)' => Asks(api)) /\ (Asks(api) => Asks(api)' \/ api = r.api)
         /\ \A api : Answered(api)' <=> Answered(api) \/ (ans # <<>> /\ api = r.api)
         /\ (Waiting(c)' <=> Waiting(c)) /\ (caller'[c].st = "post" <=> caller[c].st = "post")
         /\ (Retro(c)' <=> Retro(c))
         /\ Asks(r.api)
         /\ ~Loose(r.api) => Waiting(c) /\ r = caller[c].req /\ ~Asks(r.api)' /\ ~Answered(r.api)
<1>1. /\ Only(g, hal', {"post"}) /\ Leaves(hal, g)
      /\ evtQ' = evtQ \/ Grown(evtQ, evtQ', "SNAPSHOT_DONE")
      /\ Shrunk(apiQ, apiQ') /\ r = apiQ[1] /\ \A i \in DOMAIN apiQ' : i >= 1
      /\ caller'[c].req = caller[c].req /\ caller'[c].call = caller[c].call
      /\ caller'[c].st = IF ans # <<>> /\ caller[c].st = "asleep" THEN "woken" ELSE caller[c].st
  BY DEF ReqStep
<1>2. hal'.dead = hal.dead /\ hal'.cb = hal.cb /\ hal'.retro = hal.retro BY <1>1 DEF Only, Leaves
<1>3. \A y : y # "SNAPSHOT_DONE" => (Has(evtQ', y) <=> Has(evtQ, y)) BY <1>1, GrownHas
<1>4. Gone' <=> Gone BY <1>2, <1>3 DEF Gone
<1>5. \A api : Loose(api)' <=> Loose(api) BY <1>4 DEF Loose
<1>6. \A api : (Asks(api)' => Asks(api)) /\ (Asks(api) => Asks(api)' \/ api = r.api)
  BY <1>1 DEF Asks, Shrunk
<1>7. \A api : Answered(api)' <=> Answered(api) \/ (ans # <<>> /\ api = r.api)
  <2>1. CASE ans = <<>>
    <3>1. results' = results BY <2>1 DEF ReqStep
    <3> QED BY <2>1, <3>1 DEF Answered
  <2>2. CASE ans # <<>>
    <3>1. PICK b \in BOOLEAN : Grown(results, results', Result(r.api, b)) BY <2>2 DEF ReqStep
    <3> QED BY <2>2, <3>1 DEF Answered, Grown, Result
  <2> QED BY <2>1, <2>2
<1>8. (Waiting(c)' <=> Waiting(c)) /\ (caller'[c].st = "post" <=> caller[c].st = "post") BY <1>1 DEF Waiting
<1>9. Retro(c)' <=> Retro(c) BY <1>1, <1>4 DEF Retro
<1>10. 1 \in DOMAIN apiQ /\ Asks(r.api) BY <1>1 DEF Shrunk, Asks
<1>11. ASSUME ~Loose(r.api) PROVE Waiting(c) /\ r = caller[c].req /\ ~Asks(r.api)' /\ ~Answered(r.api)
  <2>1. Waiting(c) /\ r = caller[c].req BY <1>1, <1>10, <1>11 DEF Dialogue, AskedIsWanted
  <2>2. \A j \in DOMAIN apiQ : apiQ[j].api = r.api => j = 1 BY <1>1, <1>10, <1>11 DEF Dialogue, AskedOnce
  <2>3. ~Asks(r.api)' BY <1>1, <2>2 DEF Asks, Shrunk
  <2>4. ~Answered(r.api) BY <1>10, <1>11 DEF Dialogue, AnswerIsAwaited, Answered
  <2> QED BY <2>1, <2>3, <2>4
<1> QED BY <1>2, <1>3, <1>4, <1>5, <1>6, <1>7, <1>8, <1>9, <1>10, <1>11

\* A handled request is answered once, and its caller is the one that waits.
LEMMA ReqKeepsDialogue ==
  ASSUME NEW c, NEW r, NEW g, NEW ans, ReqStep(c, r, g, ans), Dialogue(c)
  PROVE  Dialogue(c)'
<1>1. /\ \A api : Loose(api)' <=> Loose(api)
      /\ \A api : (Asks(api)' => Asks(api))
      /\ (Waiting(c)' <=> Waiting(c)) /\ (caller'[c].st = "post" <=> caller[c].st = "post")
      /\ ~Loose(r.api) => Waiting(c) /\ r = caller[c].req /\ ~Asks(r.api)' /\ ~Answered(r.api)
  BY ReqStepIs
<1>2. /\ Shrunk(apiQ, apiQ') /\ r = apiQ[1]
      /\ caller'[c].req = caller[c].req /\ caller'[c].call = caller[c].call
      /\ caller'[c].st = IF ans # <<>> /\ caller[c].st = "asleep" THEN "woken" ELSE caller[c].st
  BY DEF ReqStep
<1>3. AskedIsWanted(c)' BY <1>1, <1>2 DEF Dialogue, AskedIsWanted, Shrunk
<1>4. AskedOnce'
  <2> SUFFICES ASSUME NEW i \in DOMAIN apiQ', NEW j \in DOMAIN apiQ', ~Loose(apiQ'[i].api), apiQ'[j].api = apiQ'[i].api
               PROVE  i = j
    BY <1>1 DEF AskedOnce
  <2>1. /\ i + 1 \in DOMAIN apiQ /\ apiQ'[i] = apiQ[i + 1] /\ j + 1 \in DOMAIN apiQ /\ apiQ'[j] = apiQ[j + 1]
        /\ i \in Nat /\ j \in Nat
    BY <1>2 DEF Shrunk
  <2>2. i + 1 = j + 1 BY <2>1 DEF Dialogue, AskedOnce
  <2> QED BY <2>1, <2>2
<1>5. AnswerIsAwaited(c)' /\ AnsweredOnce'
  <2>1. \A i \in DOMAIN results : ~Loose(results[i].api) =>
          /\ caller[c].st = "woken" /\ results[i].api = caller[c].req.api /\ ~Asks(results[i].api)
          /\ \A j \in DOMAIN results : results[j].api = results[i].api => i = j
    BY DEF Dialogue, AnswerIsAwaited, AnsweredOnce
  <2>2. CASE ans = <<>>
    <3>1. results' = results BY <2>2 DEF ReqStep
    <3> QED BY <1>1, <1>2, <2>1, <2>2, <3>1 DEF AnswerIsAwaited, AnsweredOnce
  <2>3. CASE ans # <<>>
    <3>1. PICK b \in BOOLEAN : Grown(results, results', Result(r.api, b)) BY <2>3 DEF ReqStep
    <3>2. \A i \in DOMAIN results' : (i \in DOMAIN results /\ results'[i] = results[i])
                                     \/ (i \notin DOMAIN results /\ results'[i].api = r.api)
      BY <3>1 DEF Grown, Result
    <3>3. \A i, j \in DOMAIN results' : i \notin DOMAIN results /\ j \notin DOMAIN results => i = j
      BY <3>1 DEF Grown
    <3>4. ~Loose(r.api) => \A i \in DOMAIN results : results[i].api # r.api
      BY <1>1 DEF Answered
    <3>5. AnsweredOnce' BY <1>1, <2>1, <3>2, <3>3, <3>4 DEF AnsweredOnce
    <3>6. ~Loose(r.api) => caller'[c].st = "woken" BY <1>1, <1>2, <2>3 DEF Waiting
    <3>7. AnswerIsAwaited(c)' BY <1>1, <1>2, <2>1, <3>2, <3>6 DEF AnswerIsAwaited
    <3> QED BY <3>5, <3>7
  <2> QED BY <2>2, <2>3
<1>6. caller'[c] # Idle => caller[c] # Idle BY DEF ReqStep
<1>7. RequestFits(c)' /\ PostFits(c)' BY <1>1, <1>2, <1>6 DEF Dialogue, RequestFits, PostFits
<1> QED BY <1>3, <1>4, <1>5, <1>7 DEF Dialogue

\* While an answer is to come from an event, a cancelled picture and a stopped
\* channel are all that is handled; neither ends what the caller waits for.
LEMMA ReqWhileWaiting ==
  ASSUME NEW c, NEW r, NEW g, NEW ans, ReqStep(c, r, g, ans), Dialogue(c), CancelIsAwaited(c), ~hal.post,
         ~Gone, NEW api \in {"TAKE_PICTURE", "PREPARE_SNAPSHOT"}, Waits(c, api)
  PROVE  /\ r.api \in {"CANCEL_PICTURE", "STOP_CAPTURE_CHANNEL"} /\ evtQ' = evtQ
         /\ hal.state \in {"PREVIEW_PIC_TAKING", "PREPARE_SNAPSHOT"} => g = hal
         /\ Waits(c, api)'
<1>1. r.api \in {"CANCEL_PICTURE", "STOP_CAPTURE_CHANNEL"}
  <2>1. Loose(r.api) BY ReqStepIs DEF Waits
  <2> QED BY <2>1 DEF Loose
<1>2. OfPicture(hal, r, g, ans) /\ (evtQ' = evtQ \/ g.post) BY DEF ReqStep
<1>3. g.post = hal.post BY <1>1, <1>2 DEF OfPicture, PictureApis
<1>4. hal.state = "PREVIEW_PIC_TAKING" => r.api = "STOP_CAPTURE_CHANNEL"
  <2> SUFFICES ASSUME hal.state = "PREVIEW_PIC_TAKING", r.api = "CANCEL_PICTURE" PROVE FALSE BY <1>1
  <2>1. Asks("CANCEL_PICTURE") BY ReqStepIs
  <2> QED BY <2>1 DEF CancelIsAwaited, Waits
<1>5. hal.state \in {"PREVIEW_PIC_TAKING", "PREPARE_SNAPSHOT"} => g = hal
  BY <1>1, <1>2, <1>4 DEF OfPicture, isCaptureRunning
<1>6. Waits(c, api)'
  <2>1. ~Asks(api)' /\ ~Answered(api)' /\ Waiting(c)' BY <1>1, ReqStepIs DEF Waits
  <2>2. caller'[c].req = caller[c].req BY DEF ReqStep
  <2> QED BY <2>1, <2>2 DEF Waits
<1> QED BY <1>1, <1>2, <1>3, <1>5, <1>6

\* A request is answered at once, or put off until an event.
PutOff(c, r, g, ans) ==
  /\ ans = <<>> /\ ~Gone /\ ~hal.dead /\ r = caller[c].req /\ Waiting(c) /\ Waits(c, r.api)' /\ ~Waits(c, r.api)
  /\ \/ r.api = "PREPARE_SNAPSHOT" /\ g.prep /\ g.ready = hal.ready
        /\ (g.state = "PREPARE_SNAPSHOT" \/ (g.state = "PREVIEW_PIC_TAKING" /\ g.retro # "no"))
     \/ r.api = "TAKE_PICTURE" /\ g.prep = hal.prep /\ hal.state = "PREVIEWING"
        /\ g.state = "PREVIEW_PIC_TAKING" /\ g.retro # "no" /\ (g.ready \/ hal.longshot)

\* A request without an answer was put off, or needs none.
LEMMA ReqIsPutOff ==
  ASSUME NEW c, NEW r, NEW g, NEW ans, ReqStep(c, r, g, ans), Dialogue(c)
  PROVE  \/ PutOff(c, r, g, ans)
         \/ g.prep = hal.prep /\ (g.ready => hal.ready) /\ (ans # <<>> \/ r.api = "STOP_CAPTURE_CHANNEL")
<1>1. r.api \in Api /\ Answers(hal, r, g, ans) BY DEF ReqStep, Request
<1>2. CASE ans = <<>> /\ r.api \in {"PREPARE_SNAPSHOT", "TAKE_PICTURE"}
  <2>1. ~hal.dead BY <1>1, <1>2 DEF Answers
  <2>2. ~Gone BY <2>1 DEF Gone
  <2>3. ~Loose(r.api) BY <1>2, <2>2 DEF Loose
  <2>4. Waiting(c) /\ r = caller[c].req /\ ~Asks(r.api)' /\ ~Answered(r.api) /\ Asks(r.api) BY <2>3, ReqStepIs
  <2>5. ~Answered(r.api)' /\ Waiting(c)' BY <1>2, <2>4, ReqStepIs
  <2>6. caller'[c].req = caller[c].req BY DEF ReqStep
  <2>7. Waits(c, r.api)' /\ ~Waits(c, r.api) BY <2>4, <2>5, <2>6 DEF Waits
  <2> QED BY <1>1, <1>2, <2>1, <2>2, <2>4, <2>7 DEF PutOff, Answers
<1>3. CASE ~(ans = <<>> /\ r.api \in {"PREPARE_SNAPSHOT", "TAKE_PICTURE"})
  BY <1>1, <1>3 DEF Answers
<1> QED BY <1>2, <1>3

\* A handled request keeps the preparation: who was put off waits on, in a state that answers.
LEMMA ReqKeepsPreparation ==
  ASSUME NEW c, NEW r, NEW g, NEW ans, ReqStep(c, r, g, ans), Dialogue(c), Preparation(c), CancelIsAwaited(c),
         ~hal.post
  PROVE  Preparation(c)'
<1>1. /\ (Gone' <=> Gone) /\ hal'.dead = hal.dead /\ hal'.retro = hal.retro
      /\ \A y : y # "SNAPSHOT_DONE" => (Has(evtQ', y) <=> Has(evtQ, y))
  BY ReqStepIs
<1>2. /\ hal'.prep = g.prep /\ hal'.ready = g.ready /\ hal'.state = g.state /\ g.retro = hal.retro
      /\ (hal.prep => g.prep) /\ g.dead = hal.dead
      /\ evtQ' = evtQ \/ Grown(evtQ, evtQ', "SNAPSHOT_DONE")
  BY DEF ReqStep, Only, Leaves
<1>3. \A i \in DOMAIN evtQ' : (i \in DOMAIN evtQ /\ evtQ'[i] = evtQ[i])
                              \/ (evtQ'[i] = "SNAPSHOT_DONE" /\ i \notin DOMAIN evtQ /\ \A j \in DOMAIN evtQ : j < i)
  BY <1>2 DEF Grown
<1>4. \A y \in {"PREP_DONE", "READY"} : Once(y) => Once(y)' BY <1>3 DEF Once
<1>4a. \A y \in {"PREP_DONE", "READY"} : ~Has(evtQ, y) => Once(y)' BY <1>3 DEF Once, Has
<1>4b. Early(c)' <=> Early(c) BY DEF ReqStep, Early
<1>5. PrepareAwaited(c)'
  <2> SUFFICES ASSUME ~Gone, g.prep \/ Has(evtQ, "PREP_DONE")
               PROVE  /\ Waits(c, "PREPARE_SNAPSHOT")' /\ (Prepared(hal') \/ Early(c))
                      /\ Once("PREP_DONE")' /\ (g.prep => ~Has(evtQ, "PREP_DONE"))
    BY <1>1, <1>2, <1>4b DEF PrepareAwaited
  <2>1. CASE PutOff(c, r, g, ans) /\ r.api = "PREPARE_SNAPSHOT"
    <3>1. Waits(c, "PREPARE_SNAPSHOT")' /\ ~Waits(c, "PREPARE_SNAPSHOT") BY <2>1 DEF PutOff
    <3>2. Prepared(hal') BY <1>1, <1>2, <2>1 DEF PutOff, Prepared
    <3>3. ~Has(evtQ, "PREP_DONE") BY <3>1 DEF Preparation, PrepareAwaited
    <3> QED BY <1>4a, <3>1, <3>2, <3>3
  <2>2. CASE ~(PutOff(c, r, g, ans) /\ r.api = "PREPARE_SNAPSHOT")
    <3>1. g.prep = hal.prep BY <2>2, ReqIsPutOff DEF PutOff
    <3>2. /\ Waits(c, "PREPARE_SNAPSHOT") /\ (Prepared(hal) \/ Early(c)) /\ Once("PREP_DONE")
          /\ (hal.prep => ~Has(evtQ, "PREP_DONE"))
      BY <3>1 DEF Preparation, PrepareAwaited
    <3>3. Waits(c, "PREPARE_SNAPSHOT")' /\ (Prepared(hal) => g = hal) BY <3>2, ReqWhileWaiting DEF Prepared
    <3> QED BY <1>1, <1>2, <1>4, <3>1, <3>2, <3>3 DEF Prepared
  <2> QED BY <2>1, <2>2
<1>6. TakeAwaited(c)'
  <2> SUFFICES ASSUME ~Gone, g.ready \/ Has(evtQ, "READY")
               PROVE  /\ Waits(c, "TAKE_PICTURE")' /\ (RetroTaken(hal') \/ Early(c))
                      /\ Once("READY")' /\ (g.ready => ~Has(evtQ, "READY"))
    BY <1>1, <1>2, <1>4b DEF TakeAwaited
  <2>1. CASE PutOff(c, r, g, ans) /\ r.api = "TAKE_PICTURE"
    <3>1. Waits(c, "TAKE_PICTURE")' /\ ~Waits(c, "TAKE_PICTURE") BY <2>1 DEF PutOff
    <3>2. RetroTaken(hal') BY <1>1, <1>2, <2>1 DEF PutOff, RetroTaken
    <3>3. ~Has(evtQ, "READY") BY <3>1 DEF Preparation, TakeAwaited
    <3> QED BY <1>4a, <3>1, <3>2, <3>3
  <2>2. CASE ~(PutOff(c, r, g, ans) /\ r.api = "TAKE_PICTURE")
    <3>1. g.ready => hal.ready BY <2>2, ReqIsPutOff DEF PutOff
    <3>2. /\ Waits(c, "TAKE_PICTURE") /\ (RetroTaken(hal) \/ Early(c)) /\ Once("READY")
          /\ (hal.ready => ~Has(evtQ, "READY"))
      BY <3>1 DEF Preparation, TakeAwaited
    <3>3. Waits(c, "TAKE_PICTURE")' /\ (RetroTaken(hal) => g = hal) BY <3>2, ReqWhileWaiting DEF RetroTaken
    <3> QED BY <1>1, <1>2, <1>4, <3>1, <3>2, <3>3 DEF RetroTaken
  <2> QED BY <2>1, <2>2
<1>7. PreparationEnds'
  <2> SUFFICES ASSUME ~Gone, g.state = "PREPARE_SNAPSHOT" PROVE g.prep \/ Has(evtQ, "PREP_DONE")
    BY <1>1, <1>2 DEF PreparationEnds
  <2>1. CASE hal.state = "PREPARE_SNAPSHOT" BY <1>2, <2>1 DEF Preparation, PreparationEnds
  <2>2. CASE r.api = "PREPARE_SNAPSHOT" /\ ans = <<>> BY <2>2, ReqIsPutOff DEF PutOff
  <2> QED BY <2>1, <2>2 DEF ReqStep, Turns
<1>8. DeathIsLast' BY <1>1, <1>3 DEF Preparation, DeathIsLast
<1>9. SilentWhenGone' BY <1>1 DEF Preparation, SilentWhenGone
<1> QED BY <1>5, <1>6, <1>7, <1>8, <1>9 DEF Preparation

\* The facts about a handled request that the pictures of its caller rest on.
ReqFacts(c, r, g, ans) ==
  /\ (Gone' <=> Gone) /\ hal'.state = g.state /\ hal'.cb = hal.cb /\ hal'.retro = hal.retro
  /\ hal'.longshot = g.longshot /\ hal'.th = g.th /\ (Retro(c)' <=> Retro(c))
  /\ caller'[c].req = caller[c].req /\ caller'[c].call = caller[c].call
  /\ caller'[c].st = IF ans # <<>> /\ caller[c].st = "asleep" THEN "woken" ELSE caller[c].st
  /\ ~hal.post /\ (r.api \in PictureApis => evtQ' = evtQ)
  /\ \A api : (Asks(api)' => Asks(api))
  /\ ~Loose(r.api) => Waiting(c) /\ r = caller[c].req /\ ~Asks(r.api)'
  /\ Loose(r.api) => r.api \in PictureApis
  /\ Asks(r.api)
  /\ \A api : Asks(api) /\ ~Loose(api) => Waiting(c) /\ caller[c].req.api = api

\* They hold.
LEMMA ReqFactsHold ==
  ASSUME NEW c, NEW r, NEW g, NEW ans, ReqStep(c, r, g, ans), Dialogue(c), ~hal.post
  PROVE  ReqFacts(c, r, g, ans)
<1>1. hal'.state = g.state /\ hal'.longshot = g.longshot /\ hal'.th = g.th BY DEF ReqStep, Only
<1>2. r.api \in PictureApis => evtQ' = evtQ
  <2> SUFFICES ASSUME r.api \in PictureApis PROVE evtQ' = evtQ OBVIOUS
  <2>1. g.post = hal.post BY DEF ReqStep, OfPicture
  <2> QED BY <2>1 DEF ReqStep
<1>3. Loose(r.api) => r.api \in PictureApis BY DEF Loose, PictureApis, SnapshotApis
<1>4. \A api : Asks(api) /\ ~Loose(api) => Waiting(c) /\ caller[c].req.api = api
  BY DEF Asks, Dialogue, AskedIsWanted
<1>5. /\ caller'[c].req = caller[c].req /\ caller'[c].call = caller[c].call
      /\ caller'[c].st = IF ans # <<>> /\ caller[c].st = "asleep" THEN "woken" ELSE caller[c].st
  BY DEF ReqStep
<1> QED BY <1>1, <1>2, <1>3, <1>4, <1>5, ReqStepIs DEF ReqFacts

\* A cancelled picture or a stopped channel.
LEMMA LooseLeaves ==
  ASSUME NEW c, NEW r, NEW g, NEW ans, ReqStep(c, r, g, ans),
         r.api \in {"CANCEL_PICTURE", "STOP_CAPTURE_CHANNEL"}
  PROVE  /\ hal.state \in {"PREVIEWING", "RECORDING"} => g = hal
         /\ Films(hal) => Films(g)
         /\ g.state = "PREVIEWING" => g = hal \/ (r.api = "CANCEL_PICTURE" /\ hal.state = "PREVIEW_PIC_TAKING")
         /\ hal.state = "PREVIEW_PIC_TAKING" => g = hal \/ (r.api = "CANCEL_PICTURE" /\ g.state = "PREVIEWING")
         /\ g.state = "PREVIEW_PIC_TAKING" => hal.state = "PREVIEW_PIC_TAKING"
<1>1. OfPicture(hal, r, g, ans) /\ Turns(hal, r, g, ans) BY DEF ReqStep
<1>2. CASE r.api = "CANCEL_PICTURE" BY <1>1, <1>2 DEF OfPicture, Turns, Films, isCaptureRunning
<1>3. CASE r.api = "STOP_CAPTURE_CHANNEL" BY <1>1, <1>3 DEF OfPicture, Turns, Films, isCaptureRunning
<1> QED BY <1>2, <1>3

\* A handled request keeps what is known of cancelled pictures.
LEMMA ReqKeepsCancel ==
  ASSUME NEW c, NEW r, NEW g, NEW ans, ReqStep(c, r, g, ans), ReqFacts(c, r, g, ans), Dialogue(c),
         CancelFollowsVideo, CancelIsAwaited(c)
  PROVE  CancelFollowsVideo' /\ CancelIsAwaited(c)'
<1>0. Shrunk(apiQ, apiQ') /\ r = apiQ[1] /\ \A i \in DOMAIN apiQ' : i >= 1 BY DEF ReqStep
<1>1. CancelFollowsVideo'
  <2> SUFFICES ASSUME ~Gone, NEW i \in DOMAIN apiQ', NEW j \in DOMAIN apiQ', i < j,
                      apiQ'[i].api \in SnapshotApis, apiQ'[j].api = "CANCEL_PICTURE"
               PROVE  Films(hal')
    BY DEF CancelFollowsVideo, ReqFacts
  <2>1. /\ i + 1 \in DOMAIN apiQ /\ j + 1 \in DOMAIN apiQ /\ i + 1 < j + 1 /\ i + 1 # 1
        /\ apiQ'[i] = apiQ[i + 1] /\ apiQ'[j] = apiQ[j + 1] /\ 1 \in DOMAIN apiQ
    BY <1>0 DEF Shrunk
  <2>2. Films(hal) BY <2>1 DEF CancelFollowsVideo
  <2>3. ~Loose(apiQ[i + 1].api) BY <2>1 DEF Loose, SnapshotApis
  <2>4. apiQ[i + 1] = caller[c].req BY <2>1, <2>3 DEF Dialogue, AskedIsWanted
  <2>5. apiQ[1].api # apiQ[i + 1].api BY <2>1, <2>3 DEF Dialogue, AskedOnce
  <2>6. Loose(r.api) BY <1>0, <2>4, <2>5 DEF ReqFacts
  <2>7. r.api \in {"CANCEL_PICTURE", "STOP_CAPTURE_CHANNEL"} BY <2>6 DEF Loose
  <2>8. Films(g) BY <2>2, <2>7, LooseLeaves
  <2> QED BY <2>8 DEF Films, ReqFacts
<1>2. CancelIsAwaited(c)'
  <2> SUFFICES ASSUME ~Gone, g.state = "PREVIEW_PIC_TAKING", Asks("CANCEL_PICTURE")'
               PROVE  caller'[c].st = "asleep" /\ caller[c].req.api = "CANCEL_PICTURE"
    BY DEF CancelIsAwaited, ReqFacts
  <2>1. Asks("CANCEL_PICTURE") BY DEF ReqFacts
  <2>2. CASE hal.state = "PREVIEW_PIC_TAKING"
    <3>1. caller[c].st = "asleep" /\ caller[c].req.api = "CANCEL_PICTURE" BY <2>1, <2>2 DEF CancelIsAwaited
    <3>2. Loose(r.api) BY <3>1 DEF ReqFacts, Loose
    <3>3. r.api \in {"CANCEL_PICTURE", "STOP_CAPTURE_CHANNEL"} BY <3>2 DEF Loose
    <3>4. r.api = "STOP_CAPTURE_CHANNEL" BY <2>2, <3>3 DEF ReqStep, OfPicture
    <3>5. ans = <<>> BY <3>4 DEF ReqStep
    <3> QED BY <3>1, <3>5 DEF ReqFacts
  <2>3. CASE hal.state = "PREVIEWING" /\ r.api = "TAKE_PICTURE"
    <3>1. PICK j \in DOMAIN apiQ' : apiQ'[j].api = "CANCEL_PICTURE" BY DEF Asks
    <3>2. j + 1 \in DOMAIN apiQ /\ 1 < j + 1 /\ apiQ[j + 1].api = "CANCEL_PICTURE" /\ 1 \in DOMAIN apiQ
      BY <1>0, <3>1 DEF Shrunk
    <3>3. Films(hal) BY <1>0, <2>3, <3>2 DEF CancelFollowsVideo, SnapshotApis
    <3> QED BY <2>3, <3>3 DEF Films
  <2> QED BY <2>2, <2>3 DEF ReqStep, Turns
<1> QED BY <1>1, <1>2

\* The retro picture that is to come is still to come, or has just been allowed.
LEMMA TakeStays ==
  ASSUME NEW c, NEW r, NEW g, NEW ans, ReqStep(c, r, g, ans), ReqFacts(c, r, g, ans), Dialogue(c), RetroFits(c),
         Retro(c), TakeToCome(c)'
  PROVE  \/ TakeToCome(c) /\ r.api \in {"CANCEL_PICTURE", "STOP_CAPTURE_CHANNEL"}
         \/ r.api = "PRE_TAKE_PICTURE" /\ g = hal /\ hal.state \in {"PREVIEWING", "RECORDING"}
<1>1. ~Gone BY DEF Retro
<1>2. Loose(r.api) => r.api \in {"CANCEL_PICTURE", "STOP_CAPTURE_CHANNEL"} BY <1>1 DEF Loose
<1>3. CASE caller[c].req.api = "TAKE_PICTURE" /\ caller[c].st = "post"
  <2>1. Loose(r.api) BY <1>3 DEF ReqFacts, Waiting
  <2> QED BY <1>2, <1>3, <2>1 DEF TakeToCome
<1>4. CASE caller[c].req.api = "TAKE_PICTURE" /\ Asks("TAKE_PICTURE")'
  <2>1. Asks("TAKE_PICTURE") BY <1>4 DEF ReqFacts
  <2>2. Loose(r.api) BY <1>4 DEF ReqFacts
  <2> QED BY <1>2, <1>4, <2>1, <2>2 DEF TakeToCome
<1>5. CASE Allowed
  <2>1. PICK i \in DOMAIN results : results[i] = Result("PRE_TAKE_PICTURE", TRUE) BY <1>5 DEF Allowed, Has
  <2>2. results[i].api = "PRE_TAKE_PICTURE" BY <2>1 DEF Result
  <2>3. caller[c].req.api = "PRE_TAKE_PICTURE" /\ ~Asks("PRE_TAKE_PICTURE")
    BY <2>2 DEF Dialogue, AnswerIsAwaited, Loose
  <2>4. Loose(r.api) BY <2>3 DEF ReqFacts
  <2> QED BY <1>2, <1>5, <2>4 DEF TakeToCome
<1>6. CASE Allowed' /\ ~Allowed
  <2>1. ans # <<>> BY <1>6 DEF ReqStep, Allowed
  <2>2. PICK b \in BOOLEAN : ans = <<Result(r.api, b)>> /\ Grown(results, results', Result(r.api, b))
    BY <2>1 DEF ReqStep
  <2>3. Result(r.api, b) = Result("PRE_TAKE_PICTURE", TRUE) BY <1>6, <2>2, GrownHas DEF Allowed
  <2>4. r.api = "PRE_TAKE_PICTURE" /\ ans = <<Result(r.api, TRUE)>> BY <2>2, <2>3 DEF Result
  <2>5. g = hal /\ (hal.state \in {"PREVIEWING", "RECORDING"} \/ hal.longshot)
    BY <2>4 DEF ReqStep, OfPicture
  <2>6. ~hal.longshot BY DEF RetroFits, Retro, RetroCalls
  <2> QED BY <2>4, <2>5, <2>6
<1> QED BY <1>3, <1>4, <1>5, <1>6 DEF TakeToCome, ReqFacts

\* A handled request keeps the way of a retro picture clear.
LEMMA ReqKeepsRetro ==
  ASSUME NEW c, NEW r, NEW g, NEW ans, ReqStep(c, r, g, ans), ReqFacts(c, r, g, ans), Dialogue(c), Pictures(c)
  PROVE  RetroFromPreview(c)' /\ RetroIsClean(c)'
<1> USE DEF Pictures
<1>1. RetroFromPreview(c)'
  <2> SUFFICES ASSUME Retro(c), TakeToCome(c)' PROVE g.state = "PREVIEWING" \/ Films(g)
    BY DEF RetroFromPreview, ReqFacts, Films
  <2>1. CASE TakeToCome(c) /\ r.api \in {"CANCEL_PICTURE", "STOP_CAPTURE_CHANNEL"}
    <3>1. hal.state = "PREVIEWING" \/ Films(hal) BY <2>1 DEF RetroFromPreview
    <3> QED BY <2>1, <3>1, LooseLeaves
  <2>2. CASE g = hal /\ hal.state \in {"PREVIEWING", "RECORDING"} BY <2>2 DEF Films
  <2> QED BY <2>1, <2>2, TakeStays
<1>2. RetroIsClean(c)'
  <2> SUFFICES ASSUME Retro(c), g.state = "PREVIEWING", TakeToCome(c)' \/ Asks("PRE_TAKE_PICTURE")'
               PROVE  NoPicture' /\ g.th = "none"
    BY DEF RetroIsClean, ReqFacts
  <2>1. ~Gone BY DEF Retro
  <2>2. SUFFICES g = hal /\ r.api \in PictureApis /\ (TakeToCome(c) \/ Asks("PRE_TAKE_PICTURE"))
    <3>1. NoPicture /\ hal.th = "none" BY <2>2 DEF RetroIsClean
    <3> QED BY <2>2, <3>1 DEF NoPicture, ReqFacts
  <2>3. CASE TakeToCome(c) /\ r.api \in {"CANCEL_PICTURE", "STOP_CAPTURE_CHANNEL"}
    <3>1. hal.state = "PREVIEWING" \/ Films(hal) BY <2>3 DEF RetroFromPreview
    <3>2. g = hal BY <2>3, <3>1, LooseLeaves DEF Films
    <3> QED BY <2>3, <3>2 DEF PictureApis
  <2>4. CASE r.api = "PRE_TAKE_PICTURE" /\ g = hal
    BY <2>4 DEF ReqFacts, PictureApis, SnapshotApis
  <2>5. CASE Asks("PRE_TAKE_PICTURE")'
    <3>1. Asks("PRE_TAKE_PICTURE") BY <2>5 DEF ReqFacts
    <3>2. caller[c].req.api = "PRE_TAKE_PICTURE" BY <3>1 DEF ReqFacts, Loose
    <3>3. Loose(r.api) BY <2>5, <3>2 DEF ReqFacts
    <3>4. r.api \in {"CANCEL_PICTURE", "STOP_CAPTURE_CHANNEL"} BY <2>1, <3>3 DEF Loose
    <3>5. ~(r.api = "CANCEL_PICTURE" /\ hal.state = "PREVIEW_PIC_TAKING")
      <4> SUFFICES ASSUME r.api = "CANCEL_PICTURE", hal.state = "PREVIEW_PIC_TAKING" PROVE FALSE OBVIOUS
      <4>1. Asks("CANCEL_PICTURE") BY DEF ReqFacts
      <4> QED BY <2>1, <3>2, <4>1 DEF CancelIsAwaited
    <3>6. g = hal BY <3>4, <3>5, LooseLeaves
    <3> QED BY <3>1, <3>4, <3>6 DEF PictureApis
  <2> QED BY <2>3, <2>4, <2>5, TakeStays
<1> QED BY <1>1, <1>2

\* A caller that waits for its retro picture or for the flash.
LEMMA ReqKeepsFlash ==
  ASSUME NEW c, NEW r, NEW g, NEW ans, ReqStep(c, r, g, ans), ReqFacts(c, r, g, ans), Dialogue(c), Pictures(c)
  PROVE  FlashIsClean(c)' /\ AnswerComesFirst(c)' /\ FlashAsked(c)' /\ RetroFits(c)'
<1> USE DEF Pictures
<1>1. Turns(hal, r, g, ans) /\ OfPicture(hal, r, g, ans) BY DEF ReqStep
<1>2. ASSUME Retro(c), hal.state = "PREVIEWING", r.api = "TAKE_PICTURE" PROVE NoPicture /\ r = caller[c].req
  <2>1. ~Loose(r.api) BY <1>2 DEF Loose, Retro
  <2>2. r = caller[c].req /\ Asks("TAKE_PICTURE") BY <1>2, <2>1 DEF ReqFacts
  <2>3. TakeToCome(c) BY <1>2, <2>2 DEF TakeToCome
  <2> QED BY <1>2, <2>2, <2>3 DEF RetroIsClean
<1>3. FlashIsClean(c)'
  <2> SUFFICES ASSUME Retro(c), g.state = "PREVIEW_PIC_TAKING", hal.retro = "flash",
                      caller[c].req.api \in {"TAKE_PICTURE", "PREPARE_SNAPSHOT"}
               PROVE  NoPicture'
    BY DEF FlashIsClean, ReqFacts
  <2>1. NoPicture
    <3>1. CASE hal.state = "PREVIEW_PIC_TAKING" BY <3>1 DEF FlashIsClean
    <3>2. CASE hal.state = "PREVIEWING" /\ r.api = "TAKE_PICTURE" BY <1>2, <3>2
    <3> QED BY <1>1, <3>1, <3>2 DEF Turns
  <2>2. r.api \in PictureApis BY DEF ReqFacts, PictureApis, SnapshotApis
  <2> QED BY <2>1, <2>2 DEF NoPicture, ReqFacts
<1>4. AnswerComesFirst(c)'
  <2> SUFFICES ASSUME NEW api \in {"TAKE_PICTURE", "PREPARE_SNAPSHOT"},
                      Retro(c), g.state = "PREVIEW_PIC_TAKING", Waits(c, api)'
               PROVE  /\ hal'.cb = "idle"
                      /\ \A j \in DOMAIN evtQ' : evtQ'[j] \in {"SNAPSHOT_DONE", "JPEG"} =>
                           \E i \in DOMAIN evtQ' : i < j /\ evtQ'[i] \in {AnswerEvent(api), "DAEMON_DIED"}
    BY DEF AnswerComesFirst, ReqFacts
  <2>1. ~Gone BY DEF Retro
  <2>2. CASE Waits(c, api)
    <3>1. r.api \in {"CANCEL_PICTURE", "STOP_CAPTURE_CHANNEL"} /\ evtQ' = evtQ
      BY <2>1, <2>2, ReqWhileWaiting DEF ReqFacts
    <3>2. hal.state = "PREVIEW_PIC_TAKING" BY <1>1, <3>1 DEF Turns
    <3> QED BY <2>2, <3>1, <3>2 DEF AnswerComesFirst, ReqFacts
  <2>3. CASE ~Waits(c, api)
    <3>1. ~Answered(api)' /\ ~Asks(api)' /\ Waiting(c)' /\ caller[c].req.api = api
      BY DEF Waits, ReqFacts
    <3>2. ~Answered(api) /\ Waiting(c) /\ (Asks(api) => api = r.api) BY <3>1, ReqStepIs
    <3>3. Asks(api) /\ api = r.api BY <2>3, <3>1, <3>2 DEF Waits
    <3>4. r = caller[c].req BY <2>1, <3>3 DEF ReqFacts, Loose
    <3>5. evtQ' = evtQ BY <3>3 DEF ReqFacts, PictureApis, SnapshotApis
    <3>6. NoPicture
      <4>1. CASE api = "TAKE_PICTURE" /\ hal.state = "PREVIEWING" BY <1>2, <3>3, <4>1
      <4>2. CASE api = "PREPARE_SNAPSHOT"
        <5>1. hal.state = "PREVIEW_PIC_TAKING" BY <1>1, <3>3, <4>2 DEF Turns
        <5>2. hal.retro = "flash" BY <3>1, <3>3, <4>2 DEF FlashAsked
        <5> QED BY <3>1, <4>2, <5>1, <5>2 DEF FlashIsClean
      <4>3. api = "TAKE_PICTURE" => hal.state = "PREVIEWING"
        <5> SUFFICES ASSUME api = "TAKE_PICTURE" PROVE hal.state = "PREVIEWING" OBVIOUS
        <5>1. ans = <<>> BY <3>1, <3>3, ReqStepIs
        <5>2. PutOff(c, r, g, ans) BY <3>3, <5>1, ReqIsPutOff
        <5> QED BY <3>3, <5>2 DEF PutOff
      <4> QED BY <4>1, <4>2, <4>3
    <3> QED BY <3>5, <3>6 DEF NoPicture, Has, ReqFacts
  <2> QED BY <2>2, <2>3
<1>5. FlashAsked(c)' BY DEF FlashAsked, ReqFacts
<1>6. RetroFits(c)'
  <2>1. caller[c].call \in RetroCalls => r.api \in PictureApis
    <3> SUFFICES ASSUME caller[c].call \in RetroCalls, ~Loose(r.api) PROVE r.api \in PictureApis
      BY DEF ReqFacts
    <3>1. Waiting(c) /\ r = caller[c].req BY DEF ReqFacts
    <3>2. CallFits(caller[c].call, r) BY <3>1 DEF Dialogue, RequestFits, Waiting, Idle
    <3> QED BY <3>2 DEF CallFits, PictureApis
  <2>2. r.api \in PictureApis => g.longshot = hal.longshot BY <1>1 DEF OfPicture
  <2> QED BY <2>1, <2>2 DEF RetroFits, ReqFacts
<1> QED BY <1>3, <1>4, <1>5, <1>6

\* A request of set_parameters, or a picture's.
LEMMA ReqIsOfCall ==
  ASSUME NEW c, NEW r, NEW g, NEW ans, ReqFacts(c, r, g, ans), Dialogue(c)
  PROVE  \/ r.api \in PictureApis /\ Loose(r.api)
         \/ r = caller[c].req /\ Waiting(c) /\ CallFits(caller[c].call, r) /\ ~Asks(r.api)'
BY DEF ReqFacts, Dialogue, RequestFits, Waiting, Idle

\* What is asked was asked with care.
LEMMA ReqIsCareful ==
  ASSUME NEW c, NEW r, NEW g, NEW ans, ReqStep(c, r, g, ans), ReqFacts(c, r, g, ans), Dialogue(c), Setup(c),
         ~EarlyRestart
  PROVE  Careful(hal, r)
<1>1. r.api = "SET_PARAMS_COMMIT" /\ isCaptureRunning(hal) => hal.zslNew = hal.zsl
  <2> SUFFICES ASSUME r.api = "SET_PARAMS_COMMIT", isCaptureRunning(hal) PROVE hal.zslNew = hal.zsl OBVIOUS
  <2>1. CallFits(caller[c].call, r) BY ReqIsOfCall DEF PictureApis, SnapshotApis
  <2>2. caller[c].call = "set_parameters" BY <2>1 DEF CallFits, SetApis
  <2> QED BY <2>2 DEF Setup, ZslIsKept
<1>2. r.api = "SEND_COMMAND" /\ r.arg = "off" => hal.longshot
  <2> SUFFICES ASSUME r.api = "SEND_COMMAND", r.arg = "off" PROVE hal.longshot OBVIOUS
  <2>1. r = Req("SEND_COMMAND", "off") BY DEF ReqStep, Request, Req
  <2>2. 1 \in DOMAIN apiQ /\ apiQ[1] = r BY DEF ReqStep, Shrunk
  <2> QED BY <2>1, <2>2 DEF Setup, LongshotOffFits
<1>3. r.api = "SET_PARAMS_RESTART" /\ hal.state = "PREVIEW_PIC_TAKING" => ~hal.on
  BY DEF Setup, RestartIsOff, ReqFacts
<1> QED BY <1>1, <1>2, <1>3 DEF Careful

\* A handled request keeps the setup.
LEMMA ReqKeepsSetup ==
  ASSUME NEW c, NEW r, NEW g, NEW ans, ReqStep(c, r, g, ans), ReqFacts(c, r, g, ans), Dialogue(c), Setup(c),
         ~EarlyRestart
  PROVE  Setup(c)'
<1>1. Turns(hal, r, g, ans) /\ OfPicture(hal, r, g, ans) /\ OfParams(hal, r, g) BY DEF ReqStep
<1>2. /\ hal'.state = g.state /\ hal'.on = g.on /\ hal'.restart = g.restart /\ hal'.zsl = g.zsl
      /\ hal'.zslNew = g.zslNew /\ hal'.longshot = g.longshot
  BY DEF ReqStep, Only
<1>3. Fits(hal')
  <2>1. Fits(g) BY ReqIsCareful DEF ReqStep, Setup
  <2>2. Only(g, hal', {"post"}) BY DEF ReqStep
  <2> QED BY <2>1, <2>2, FitsAlways DEF Only
<1>4. r.api \in PictureApis =>
        /\ g.longshot = hal.longshot /\ g.restart = hal.restart /\ g.zslNew = hal.zslNew
        /\ g.zsl = hal.zsl \/ (r.api = "TAKE_PICTURE" /\ hal.state = "PREVIEWING")
  BY <1>1 DEF OfPicture
<1>5. Loose(r.api) /\ g.state = "PREVIEW_PIC_TAKING" =>
        hal.state = "PREVIEW_PIC_TAKING" /\ g.restart = hal.restart /\ (hal.on \/ ~g.on)
  <2> SUFFICES ASSUME Loose(r.api), g.state = "PREVIEW_PIC_TAKING"
               PROVE  hal.state = "PREVIEW_PIC_TAKING" /\ g.restart = hal.restart /\ (hal.on \/ ~g.on)
    OBVIOUS
  <2>1. r.api \in PictureApis BY DEF ReqFacts
  <2>2. ~(r.api = "TAKE_PICTURE" /\ ~hal.dead) BY DEF Loose, Gone
  <2>3. hal.state = "PREVIEW_PIC_TAKING" BY <1>1, <2>2 DEF Turns
  <2>4. g.on = hal.on BY <1>1, <2>1, <2>3 DEF Turns
  <2> QED BY <1>4, <2>1, <2>3, <2>4
<1>6. RestartIsOff(c)'
  <2> SUFFICES ASSUME g.state = "PREVIEW_PIC_TAKING",
                      \/ Asks("SET_PARAMS_RESTART")'
                      \/ caller[c].req.api = "SET_PARAMS_COMMIT" /\ g.restart
                      \/ Has(results', Result("SET_PARAMS_STOP", TRUE))
               PROVE  ~g.on
    BY <1>2 DEF RestartIsOff, ReqFacts
  <2>1. CASE Asks("SET_PARAMS_RESTART")'
    <3>1. Asks("SET_PARAMS_RESTART") BY <2>1 DEF ReqFacts
    <3>2. caller[c].req.api = "SET_PARAMS_RESTART" BY <3>1 DEF ReqFacts, Loose
    <3>3. Loose(r.api) BY <2>1, <3>2 DEF ReqFacts
    <3> QED BY <1>5, <3>1, <3>3 DEF Setup, RestartIsOff
  <2>2. CASE caller[c].req.api = "SET_PARAMS_COMMIT" /\ g.restart
    <3>1. CASE Loose(r.api) BY <1>5, <2>2, <3>1 DEF Setup, RestartIsOff
    <3>2. CASE ~Loose(r.api)
      <4>1. r.api = "SET_PARAMS_COMMIT" BY <2>2, <3>2 DEF ReqFacts
      <4>2. g.restart = hal.restart /\ g.on = hal.on BY <1>1, <4>1 DEF OfParams
      <4>3. hal.state = "PREVIEW_PIC_TAKING" BY <1>1, <4>1 DEF Turns
      <4> QED BY <2>2, <4>2, <4>3 DEF Setup, RestartIsOff
    <3> QED BY <3>1, <3>2
  <2>3. CASE Has(results, Result("SET_PARAMS_STOP", TRUE))
    <3>1. PICK i \in DOMAIN results : results[i] = Result("SET_PARAMS_STOP", TRUE) BY <2>3 DEF Has
    <3>2. results[i].api = "SET_PARAMS_STOP" BY <3>1 DEF Result
    <3>3. caller[c].req.api = "SET_PARAMS_STOP" /\ ~Asks("SET_PARAMS_STOP")
      BY <3>2 DEF Dialogue, AnswerIsAwaited, Loose
    <3>4. Loose(r.api) BY <3>3 DEF ReqFacts
    <3> QED BY <1>5, <2>3, <3>4 DEF Setup, RestartIsOff
  <2>4. CASE Has(results', Result("SET_PARAMS_STOP", TRUE)) /\ ~Has(results, Result("SET_PARAMS_STOP", TRUE))
    <3>1. ans # <<>> BY <2>4 DEF ReqStep
    <3>2. PICK b \in BOOLEAN : Grown(results, results', Result(r.api, b)) BY <3>1 DEF ReqStep
    <3>3. Result(r.api, b) = Result("SET_PARAMS_STOP", TRUE) BY <2>4, <3>2, GrownHas
    <3>4. r.api = "SET_PARAMS_STOP" BY <3>3 DEF Result
    <3> QED BY <1>1, <3>4 DEF OfParams
  <2> QED BY <2>1, <2>2, <2>3, <2>4
<1>7. ZslIsKept(c)'
  <2> SUFFICES ASSUME caller[c].call = "set_parameters", isCaptureRunning(g)
               PROVE  g.zsl = g.zslNew /\ caller[c].req.arg # "zsl"
    BY <1>2 DEF ZslIsKept, ReqFacts, isCaptureRunning
  <2>1. ~(r.api = "TAKE_PICTURE" /\ ~hal.dead)
    <3> SUFFICES ASSUME r.api = "TAKE_PICTURE", ~hal.dead PROVE FALSE OBVIOUS
    <3>1. ~Loose(r.api) BY DEF Loose, Gone
    <3>2. CallFits(caller[c].call, r) BY <3>1, ReqIsOfCall
    <3> QED BY <3>2 DEF CallFits, SetApis
  <2>2. isCaptureRunning(hal) BY <1>1, <2>1 DEF Turns
  <2>3. hal.zsl = hal.zslNew /\ caller[c].req.arg # "zsl" BY <2>2 DEF Setup, ZslIsKept
  <2>4. CASE r.api \in PictureApis /\ Loose(r.api) BY <1>4, <2>2, <2>3, <2>4 DEF isCaptureRunning
  <2>5. CASE r = caller[c].req /\ CallFits(caller[c].call, r)
    <3>1. r.api \in SetApis BY <2>5 DEF CallFits
    <3> QED BY <1>1, <2>3, <2>5, <3>1 DEF SetApis, OfParams
  <2> QED BY <2>3, <2>4, <2>5, ReqIsOfCall
<1>8. LongshotOffFits'
  <2> SUFFICES ASSUME NEW i \in DOMAIN apiQ', apiQ'[i] = Req("SEND_COMMAND", "off") PROVE g.longshot
    BY <1>2 DEF LongshotOffFits
  <2>1. i + 1 \in DOMAIN apiQ /\ apiQ'[i] = apiQ[i + 1] /\ i >= 1 /\ 1 \in DOMAIN apiQ /\ r = apiQ[1] /\ i \in Nat
    BY DEF ReqStep, Shrunk
  <2>2. hal.longshot BY <2>1 DEF Setup, LongshotOffFits
  <2>3. ~Loose(apiQ[i + 1].api) BY <2>1 DEF Loose, Req
  <2>4. apiQ[i + 1] = caller[c].req BY <2>1, <2>3 DEF Dialogue, AskedIsWanted
  <2>5. i + 1 # 1 BY <2>1
  <2>6. r.api # apiQ[i + 1].api BY <2>1, <2>3, <2>5 DEF Dialogue, AskedOnce
  <2>7. r.api \in PictureApis BY <2>4, <2>6 DEF ReqFacts
  <2> QED BY <1>4, <2>2, <2>7
<1>9. ~hal'.post BY DEF ReqStep
<1> QED BY <1>3, <1>6, <1>7, <1>8, <1>9 DEF Setup

\* A handled request is answered or put off, and others stay remembered.
LEMMA ReqIsRemembered ==
  ASSUME NEW c, NEW r, NEW g, NEW ans, ReqStep(c, r, g, ans), ReqFacts(c, r, g, ans), Dialogue(c), Pictures(c),
         Preparation(c), Recalled(c)
  PROVE  Recalled(c)'
<1> SUFFICES ASSUME Waiting(c)
             PROVE  \/ Has(apiQ', caller[c].req)
                    \/ caller'[c].st = "woken" /\ Answered(caller[c].req.api)'
                    \/ Deferred(c)' \/ Overtaken(c)'
  BY ReqStepIs DEF Recalled, ReqFacts
<1>1. /\ \A api : Answered(api)' <=> Answered(api) \/ (ans # <<>> /\ api = r.api)
      /\ \A y : y # "SNAPSHOT_DONE" => (Has(evtQ', y) <=> Has(evtQ, y))
      /\ hal'.dead = hal.dead /\ hal'.retro = hal.retro
  BY ReqStepIs
<1>2. hal'.state = g.state /\ hal'.prep = g.prep /\ hal'.ready = g.ready /\ g.retro = hal.retro
  BY DEF ReqStep, Only, Leaves
<1>3. CallFits(caller[c].call, caller[c].req) BY DEF Dialogue, RequestFits, Waiting, Idle
<1>4. CASE r = caller[c].req
  <2>1. CASE ans # <<>> BY <1>1, <1>4, <2>1 DEF ReqFacts, Waiting
  <2>2. CASE ans = <<>>
    <3>1. r.api # "STOP_CAPTURE_CHANNEL" BY <1>3, <1>4 DEF CallFits
    <3>2. PutOff(c, r, g, ans) BY <2>2, <3>1, ReqIsPutOff
    <3>3. CASE r.api = "PREPARE_SNAPSHOT" BY <1>1, <1>2, <1>4, <3>2, <3>3 DEF PutOff, Deferred, ReqFacts
    <3>4. CASE r.api = "TAKE_PICTURE"
      <4>1. caller[c].call \in RetroCalls \cup {"take_picture"} BY <1>3, <1>4, <3>4 DEF CallFits, SnapshotApis
      <4>2. hal.retro # "no" BY <1>2, <3>2, <3>4 DEF PutOff
      <4>3. ~hal.longshot BY <4>1, <4>2 DEF Pictures, RetroFits
      <4> QED BY <1>1, <1>2, <1>4, <3>2, <3>4, <4>3 DEF PutOff, Deferred, ReqFacts
    <3> QED BY <3>2, <3>3, <3>4 DEF PutOff
  <2> QED BY <2>1, <2>2
<1>5. CASE r # caller[c].req
  <2>1. CASE Has(apiQ, caller[c].req)
    <3>1. PICK i \in DOMAIN apiQ : apiQ[i] = caller[c].req BY <2>1 DEF Has
    <3>2. i # 1 BY <1>5, <3>1 DEF ReqStep
    <3>3. i - 1 \in DOMAIN apiQ' /\ apiQ'[i - 1] = caller[c].req BY <3>1, <3>2 DEF ReqStep, Shrunk
    <3> QED BY <3>3 DEF Has
  <2>2. CASE caller[c].st = "woken" /\ Answered(caller[c].req.api) BY <1>1, <2>2 DEF ReqFacts
  <2>3. CASE Deferred(c) /\ ~Has(apiQ, caller[c].req) /\ ~Answered(caller[c].req.api)
    <3> DEFINE api == caller[c].req.api
    <3>1. api \in {"TAKE_PICTURE", "PREPARE_SNAPSHOT"} BY <2>3 DEF Deferred
    <3>2. ~Gone BY <2>3 DEF Deferred, Gone, Preparation, SilentWhenGone, Has
    <3>3. ~Asks(api)
      <4> SUFFICES ASSUME NEW i \in DOMAIN apiQ, apiQ[i].api = api PROVE FALSE BY DEF Asks
      <4>1. ~Loose(api) BY <3>1, <3>2 DEF Loose
      <4>2. apiQ[i] = caller[c].req BY <4>1 DEF Dialogue, AskedIsWanted
      <4> QED BY <2>3, <4>2 DEF Has
    <3>4. Waits(c, api) BY <2>3, <3>3 DEF Waits
    <3>5. hal.state \in {"PREVIEW_PIC_TAKING", "PREPARE_SNAPSHOT"} BY <2>3 DEF Deferred
    <3>6. g = hal /\ evtQ' = evtQ
      BY <3>1, <3>2, <3>4, <3>5, ReqWhileWaiting DEF Pictures, ReqFacts
    <3>7. Deferred(c)' BY <1>1, <1>2, <2>3, <3>6 DEF Deferred, ReqFacts
    <3> QED BY <3>7
  <2>4. CASE Overtaken(c)
    <3>1. r.api = "TAKE_PICTURE" => hal.dead BY <1>5 DEF ReqFacts, Loose, Gone
    <3>2. g.state # "PREVIEW_PIC_TAKING" BY <2>4, <3>1 DEF ReqStep, Turns, Overtaken
    <3> QED BY <1>2, <2>4, <3>2, ReqStepIs DEF Overtaken, ReqFacts
  <2>5. CASE Deferred(c) /\ Answered(caller[c].req.api) /\ caller[c].st # "woken"
    <3>1. ~Gone BY <2>5 DEF Deferred, Gone, Preparation, SilentWhenGone, Has
    <3>2. ~Loose(caller[c].req.api) BY <2>5, <3>1 DEF Deferred, Loose
    <3> QED BY <2>5, <3>2 DEF Answered, Dialogue, AnswerIsAwaited
  <2> QED BY <2>1, <2>2, <2>3, <2>4, <2>5 DEF Recalled
<1> QED BY <1>4, <1>5

\* A handled request keeps the invariant.
LEMMA HandledKeeps ==
  ASSUME NEW c \in Caller, Consistent(c), ~EarlyRestart, NEW r, NEW x, Handled(r, x), MachineTypeOK'
  PROVE  Consistent(c)'
<1> DEFINE g == x.hal
           ans == x.ans
<1>0. /\ MachineTypeOK /\ Dialogue(c) /\ Preparation(c) /\ Pictures(c) /\ Setup(c) /\ Recalled(c) /\ ~hal.post
      /\ CancelIsAwaited(c) /\ CancelFollowsVideo
  BY DEF Consistent, Setup, Pictures
<1>1. ReqStep(c, r, g, ans) BY <1>0, HandledSteps
<1> HIDE DEF g, ans
<1>2. ReqFacts(c, r, g, ans) BY <1>0, <1>1, ReqFactsHold
<1>3. Dialogue(c)' BY <1>0, <1>1, ReqKeepsDialogue
<1>4. Preparation(c)' BY <1>0, <1>1, ReqKeepsPreparation
<1>5. CancelFollowsVideo' /\ CancelIsAwaited(c)' BY <1>0, <1>1, <1>2, ReqKeepsCancel
<1>6. RetroFromPreview(c)' /\ RetroIsClean(c)' BY <1>0, <1>1, <1>2, ReqKeepsRetro
<1>7. FlashIsClean(c)' /\ AnswerComesFirst(c)' /\ FlashAsked(c)' /\ RetroFits(c)'
  BY <1>0, <1>1, <1>2, ReqKeepsFlash
<1>8. Setup(c)' BY <1>0, <1>1, <1>2, ReqKeepsSetup
<1>9. Recalled(c)' BY <1>0, <1>1, <1>2, ReqIsRemembered
<1> QED BY <1>3, <1>4, <1>5, <1>6, <1>7, <1>8, <1>9 DEF Consistent, Pictures

-----------------------------------------------------------------------------
(* Events that are handled. *)

\* Answers ans come behind the results old.
LEMMA ExtendsIs ==
  ASSUME NEW S, NEW old \in Seq(S), NEW ans \in Seq(S)
  PROVE  LET p == old \o ans IN
         /\ \A i \in DOMAIN old : i \in DOMAIN p /\ p[i] = old[i]
         /\ \A i \in DOMAIN p : i \notin DOMAIN old => i - Len(old) \in DOMAIN ans /\ p[i] = ans[i - Len(old)] /\ i \in Nat
         /\ \A k \in DOMAIN ans : k + Len(old) \in DOMAIN p /\ p[k + Len(old)] = ans[k]
         /\ Len(old) \in Nat
OBVIOUS

\* The head e of the event queue is handled: it leaves g and answers the
\* requests N.
EvtStep(c, e, g, N) ==
  /\ apiQ = <<>> /\ apiQ' = <<>> /\ Shrunk(evtQ, evtQ') /\ e = evtQ[1] /\ \A i \in DOMAIN evtQ' : i >= 1
  /\ Only(g, hal', {}) /\ Only(hal, g, {"state", "pic", "cap", "th", "cb"})
  /\ (Fits(hal) => Fits(g))
  /\ hal.state = "PREVIEWING" => g.state = "PREVIEWING"
  /\ g.state \in {"PREVIEW_PIC_TAKING", "PREPARE_SNAPSHOT"} => hal.state = g.state
  /\ isCaptureRunning(g) => isCaptureRunning(hal)
  /\ Films(hal) => Films(g)
  /\ hal.state = "PREPARE_SNAPSHOT" /\ e # "PREP_DONE" => g.state = hal.state
  /\ e # "SNAPSHOT_DONE" => g.state = hal.state \/ (e = "PREP_DONE" /\ hal.state = "PREPARE_SNAPSHOT")
  /\ e \notin {"SNAPSHOT_DONE", "JPEG"} => g.cb = hal.cb /\ g.th = hal.th
  /\ e = "PREP_DONE" /\ Prepared(hal) => g.state # "PREPARE_SNAPSHOT"
  /\ e \in Event /\ N \subseteq {"PREPARE_SNAPSHOT", "TAKE_PICTURE"}
  /\ e \in {"SNAPSHOT_DONE", "JPEG"} => N = {}
  /\ e = "PREP_DONE" => N = IF Prepared(hal) THEN {"PREPARE_SNAPSHOT"} ELSE {}
  /\ e = "READY" => N = IF RetroTaken(hal) THEN {"TAKE_PICTURE"} ELSE {}
  /\ e = "DAEMON_DIED" => N = {"PREPARE_SNAPSHOT", "TAKE_PICTURE"}
                          \/ (N = {} /\ hal.state \notin {"PREPARE_SNAPSHOT", "PREVIEW_PIC_TAKING"})
  /\ \A i \in DOMAIN results : i \in DOMAIN results' /\ results'[i] = results[i]
  /\ \A i \in DOMAIN results' : i \in DOMAIN results \/ (i \notin DOMAIN results /\ results'[i].api \in N)
  /\ \A api \in N : Answered(api)'
  /\ \A i, j \in DOMAIN results' : e # "DAEMON_DIED" /\ i \notin DOMAIN results /\ j \notin DOMAIN results => i = j
  /\ caller'[c].req = caller[c].req /\ caller'[c].call = caller[c].call /\ (caller[c] = Idle => caller'[c] = Idle)
  /\ caller'[c].st = IF N # {} /\ caller[c].st = "asleep" THEN "woken" ELSE caller[c].st

\* A handled event, as the parts of the invariant see it.
LEMMA OccurredSteps ==
  ASSUME MachineTypeOK, MachineTypeOK', ~EarlyRestart, ~hal.post, NEW c \in Caller, NEW e, NEW x, Occurred(e, x)
  PROVE  \E N : EvtStep(c, e, x.hal, N)
<1> DEFINE g == x.hal
           ans == x.ans
           N == {ans[k].api : k \in DOMAIN ans}
<1>1. /\ apiQ = <<>> /\ apiQ' = <<>> /\ evtQ # <<>> /\ e = Head(evtQ) /\ e \in Event
      /\ Happens(hal, e, g, ans) /\ Finishes(g, ans, Tail(evtQ))
  BY DEF Occurred
<1>2. /\ Only(g, hal', {"post"}) /\ ~hal'.post
      /\ evtQ' = IF g.post THEN Append(Tail(evtQ), "SNAPSHOT_DONE") ELSE Tail(evtQ)
      /\ ans \in Seq(Answer) /\ results' = results \o ans
      /\ caller' = [d \in Caller |-> Woken(caller[d], ans)]
  BY <1>1 DEF Finishes
<1> HIDE DEF g, ans
<1>3. Only(hal, g, {"state", "pic", "cap", "th", "cb"}) BY <1>1 DEF Happens
<1>4. g.post = hal.post /\ hal' \in Hal BY <1>2, <1>3 DEF Only
<1>5. Only(g, hal', {})
  <2>1. hal \in Hal BY DEF MachineTypeOK
  <2>2. g.post = FALSE /\ hal'.post = FALSE BY <1>2, <1>4, <2>1 DEF Hal
  <2> QED BY <1>2, <1>4, <2>2 DEF Only
<1>6. evtQ \in Seq(Event) /\ results \in Seq(Answer) /\ evtQ' \in Seq(Event) BY DEF MachineTypeOK, Answer
<1>7. evtQ' = Tail(evtQ) BY <1>2, <1>4
<1>8. Shrunk(evtQ, evtQ') /\ e = evtQ[1] BY <1>1, <1>6, <1>7, TailShrinks DEF Shrunk
<1>9. \A i \in DOMAIN evtQ' : i >= 1 BY <1>6
<1>10. Fits(hal) => Fits(g) BY <1>1 DEF Happens
<1>11. \/ e = "SNAPSHOT_DONE" /\ ans = <<>> /\ AfterDone(hal, g)
       \/ e = "JPEG" /\ ans = <<>> /\ Only(hal, g, {"cb"})
       \/ e = "PREP_DONE" /\ Prepared(hal) /\ ans = <<Result("PREPARE_SNAPSHOT", TRUE)>> /\ Only(hal, g, {"state"})
          /\ g.state = IF hal.state = "PREPARE_SNAPSHOT" THEN "PREVIEWING" ELSE hal.state
       \/ e = "PREP_DONE" /\ ~Prepared(hal) /\ ans = <<>> /\ g = hal
       \/ e = "READY" /\ ans = <<Result("TAKE_PICTURE", TRUE)>> /\ g = hal /\ RetroTaken(hal)
       \/ e = "READY" /\ ans = <<>> /\ g = hal /\ ~RetroTaken(hal)
       \/ e = "DAEMON_DIED" /\ ans = <<Result("PREPARE_SNAPSHOT", TRUE), Result("TAKE_PICTURE", TRUE)>> /\ g = hal
       \/ e = "DAEMON_DIED" /\ ans = <<>> /\ g = hal
          /\ hal.state \notin {"PREPARE_SNAPSHOT", "PREVIEW_PIC_TAKING"}
  BY <1>1 DEF Happens, RetroTaken
<1>12. /\ hal.state = "PREVIEWING" => g.state = "PREVIEWING"
       /\ g.state \in {"PREVIEW_PIC_TAKING", "PREPARE_SNAPSHOT"} => hal.state = g.state
       /\ isCaptureRunning(g) => isCaptureRunning(hal)
       /\ Films(hal) => Films(g)
       /\ hal.state = "PREPARE_SNAPSHOT" /\ e # "PREP_DONE" => g.state = hal.state
       /\ e # "SNAPSHOT_DONE" => g.state = hal.state \/ (e = "PREP_DONE" /\ hal.state = "PREPARE_SNAPSHOT")
       /\ e \notin {"SNAPSHOT_DONE", "JPEG"} => g.cb = hal.cb /\ g.th = hal.th
       /\ e = "PREP_DONE" /\ Prepared(hal) => g.state # "PREPARE_SNAPSHOT"
  <2>1. CASE e = "SNAPSHOT_DONE"
    <3>1. AfterDone(hal, g) BY <1>11, <2>1
    <3> QED BY <2>1, <3>1 DEF AfterDone, SignalIs, Only, isCaptureRunning, Films
  <2>2. CASE e # "SNAPSHOT_DONE" BY <1>11, <2>2 DEF Only, isCaptureRunning, Films, Prepared
  <2> QED BY <2>1, <2>2
<1>13. \/ ans = <<>> /\ N = {}
       \/ ans = <<Result("PREPARE_SNAPSHOT", TRUE)>> /\ N = {"PREPARE_SNAPSHOT"} /\ Len(ans) = 1
       \/ ans = <<Result("TAKE_PICTURE", TRUE)>> /\ N = {"TAKE_PICTURE"} /\ Len(ans) = 1
       \/ ans = <<Result("PREPARE_SNAPSHOT", TRUE), Result("TAKE_PICTURE", TRUE)>>
          /\ N = {"PREPARE_SNAPSHOT", "TAKE_PICTURE"} /\ e = "DAEMON_DIED"
  <2>1. CASE ans = <<>>
    <3>1. DOMAIN ans = {} BY <2>1
    <3> QED BY <2>1, <3>1
  <2>2. ASSUME NEW api, ans = <<Result(api, TRUE)>> PROVE N = {api} /\ Len(ans) = 1
    <3>1. DOMAIN ans = {1} /\ ans[1] = Result(api, TRUE) /\ Len(ans) = 1 BY <2>2
    <3>2. ans[1].api = api BY <3>1 DEF Result
    <3> QED BY <3>1, <3>2
  <2>3. CASE ans = <<Result("PREPARE_SNAPSHOT", TRUE), Result("TAKE_PICTURE", TRUE)>> /\ e = "DAEMON_DIED"
    <3>1. DOMAIN ans = {1, 2} /\ ans[1] = Result("PREPARE_SNAPSHOT", TRUE) /\ ans[2] = Result("TAKE_PICTURE", TRUE)
      BY <2>3
    <3>2. ans[1].api = "PREPARE_SNAPSHOT" /\ ans[2].api = "TAKE_PICTURE" BY <3>1 DEF Result
    <3> QED BY ZenonT(40), <2>3, <3>1, <3>2
  <2> HIDE DEF N
  <2>4. \/ ans = <<>> \/ ans = <<Result("PREPARE_SNAPSHOT", TRUE)>> \/ ans = <<Result("TAKE_PICTURE", TRUE)>>
        \/ ans = <<Result("PREPARE_SNAPSHOT", TRUE), Result("TAKE_PICTURE", TRUE)>> /\ e = "DAEMON_DIED"
    BY <1>11
  <2> QED BY <2>1, <2>2, <2>3, <2>4
<1>14. \A k \in DOMAIN ans : ans[k].api \in N OBVIOUS
<1>15. \A api \in N : \E k \in DOMAIN ans : ans[k].api = api OBVIOUS
<1>16. N # {} <=> ans # <<>> BY SMTT(30), <1>13
<1> HIDE DEF N
<1>17. /\ N \subseteq {"PREPARE_SNAPSHOT", "TAKE_PICTURE"}
       /\ e \in {"SNAPSHOT_DONE", "JPEG"} => N = {}
       /\ e = "DAEMON_DIED" => N = {"PREPARE_SNAPSHOT", "TAKE_PICTURE"}
                               \/ (N = {} /\ hal.state \notin {"PREPARE_SNAPSHOT", "PREVIEW_PIC_TAKING"})
  <2>1. N \subseteq {"PREPARE_SNAPSHOT", "TAKE_PICTURE"} BY <1>13
  <2>2. e \in {"SNAPSHOT_DONE", "JPEG"} => ans = <<>> BY <1>11
  <2>3. ans = <<Result("PREPARE_SNAPSHOT", TRUE), Result("TAKE_PICTURE", TRUE)>> => Len(ans) = 2 OBVIOUS
  <2>4. e = "DAEMON_DIED" => \/ ans = <<Result("PREPARE_SNAPSHOT", TRUE), Result("TAKE_PICTURE", TRUE)>>
                             \/ ans = <<>> /\ hal.state \notin {"PREPARE_SNAPSHOT", "PREVIEW_PIC_TAKING"}
    BY <1>11
  <2>5. ans = <<Result("PREPARE_SNAPSHOT", TRUE), Result("TAKE_PICTURE", TRUE)>>
          => N = {"PREPARE_SNAPSHOT", "TAKE_PICTURE"}
    BY <1>13, <2>3
  <2> QED BY <1>16, <2>1, <2>2, <2>4, <2>5
<1>18. /\ e = "PREP_DONE" => N = IF Prepared(hal) THEN {"PREPARE_SNAPSHOT"} ELSE {}
       /\ e = "READY" => N = IF RetroTaken(hal) THEN {"TAKE_PICTURE"} ELSE {}
  <2>1. CASE e = "PREP_DONE"
    <3>1. CASE Prepared(hal)
      <4>1. ans = <<Result("PREPARE_SNAPSHOT", TRUE)>> BY <1>11, <2>1, <3>1
      <4>2. DOMAIN ans = {1} /\ ans[1] = Result("PREPARE_SNAPSHOT", TRUE) BY <4>1
      <4>3. ans[1].api = "PREPARE_SNAPSHOT" BY <4>2 DEF Result
      <4>4. "PREPARE_SNAPSHOT" \in N BY <1>14, <4>2, <4>3
      <4>5. \A y \in N : y = "PREPARE_SNAPSHOT"
        <5> SUFFICES ASSUME NEW y \in N PROVE y = "PREPARE_SNAPSHOT" OBVIOUS
        <5>1. PICK k \in DOMAIN ans : ans[k].api = y BY <1>15
        <5>2. k = 1 BY <4>2, <5>1
        <5> QED BY <4>3, <5>1, <5>2
      <4>6. N = {"PREPARE_SNAPSHOT"} BY <4>4, <4>5
      <4> QED BY <2>1, <3>1, <4>6
    <3>2. CASE ~Prepared(hal) BY <1>11, <1>16, <2>1, <3>2
    <3> QED BY <2>1, <3>1, <3>2
  <2>2. CASE e = "READY"
    <3>1. CASE RetroTaken(hal)
      <4>1. ans = <<Result("TAKE_PICTURE", TRUE)>> BY <1>11, <2>2, <3>1
      <4>2. DOMAIN ans = {1} /\ ans[1] = Result("TAKE_PICTURE", TRUE) BY <4>1
      <4>3. ans[1].api = "TAKE_PICTURE" BY <4>2 DEF Result
      <4>4. "TAKE_PICTURE" \in N BY <1>14, <4>2, <4>3
      <4>5. \A y \in N : y = "TAKE_PICTURE"
        <5> SUFFICES ASSUME NEW y \in N PROVE y = "TAKE_PICTURE" OBVIOUS
        <5>1. PICK k \in DOMAIN ans : ans[k].api = y BY <1>15
        <5>2. k = 1 BY <4>2, <5>1
        <5> QED BY <4>3, <5>1, <5>2
      <4>6. N = {"TAKE_PICTURE"} BY <4>4, <4>5
      <4> QED BY <2>2, <3>1, <4>6
    <3>2. CASE ~RetroTaken(hal) BY <1>11, <1>16, <2>2, <3>2
    <3> QED BY <2>2, <3>1, <3>2
  <2> QED BY <2>1, <2>2
<1>19. /\ \A i \in DOMAIN results : i \in DOMAIN results' /\ results'[i] = results[i]
       /\ \A i \in DOMAIN results' : i \notin DOMAIN results =>
            i - Len(results) \in DOMAIN ans /\ results'[i] = ans[i - Len(results)] /\ i \in Nat
       /\ \A k \in DOMAIN ans : k + Len(results) \in DOMAIN results' /\ results'[k + Len(results)] = ans[k]
       /\ Len(results) \in Nat
  BY <1>2, <1>6, ExtendsIs
<1>20. \A api \in N : Answered(api)' BY <1>15, <1>19 DEF Answered
<1>21. \A i \in DOMAIN results' : i \in DOMAIN results \/ (i \notin DOMAIN results /\ results'[i].api \in N)
  BY <1>14, <1>19
<1>22. \A i, j \in DOMAIN results' : e # "DAEMON_DIED" /\ i \notin DOMAIN results /\ j \notin DOMAIN results => i = j
  <2> SUFFICES ASSUME e # "DAEMON_DIED", NEW i \in DOMAIN results', NEW j \in DOMAIN results',
                      i \notin DOMAIN results, j \notin DOMAIN results
               PROVE  i = j
    OBVIOUS
  <2>1. i - Len(results) \in DOMAIN ans /\ j - Len(results) \in DOMAIN ans /\ i \in Nat /\ j \in Nat BY <1>19
  <2>2. ans = <<>> \/ Len(ans) = 1 BY <1>13
  <2>3. DOMAIN ans = 1 .. Len(ans) BY <1>2
  <2>4. ans = <<>> => DOMAIN ans = {} OBVIOUS
  <2>5. Len(ans) = 1 BY <2>1, <2>2, <2>4
  <2> QED BY <1>19, <2>1, <2>3, <2>5
<1>23. caller[c] \in {Idle} \cup Busy /\ caller'[c] = Woken(caller[c], ans)
  BY <1>2 DEF MachineTypeOK, Busy
<1>24. /\ caller'[c].req = caller[c].req /\ caller'[c].call = caller[c].call
       /\ caller'[c].st = IF N # {} /\ caller[c].st = "asleep" THEN "woken" ELSE caller[c].st
  BY <1>16, <1>23, WokenIs
<1>25. caller[c] = Idle => caller'[c] = Idle BY <1>23 DEF Woken, Idle
<1>26. EvtStep(c, e, g, N)
  BY <1>1, <1>3, <1>5, <1>8, <1>9, <1>10, <1>12, <1>17, <1>18, <1>19, <1>20, <1>21, <1>22, <1>24, <1>25, Zenon
     DEF EvtStep
<1> QED BY <1>26 DEF g

\* What a handled event leaves as it is.
EvtFacts(c, e, N) ==
  /\ (Gone => Gone') /\ (e = "DAEMON_DIED" => Gone') /\ (Gone' => Gone \/ e = "DAEMON_DIED")
  /\ hal'.retro = hal.retro /\ hal'.longshot = hal.longshot /\ hal'.dead = hal.dead
  /\ hal'.prep = hal.prep /\ hal'.ready = hal.ready
  /\ \A y : Has(evtQ', y) => Has(evtQ, y)
  /\ \A y : Has(evtQ, y) => Has(evtQ', y) \/ y = e
  /\ Has(evtQ, e)
  /\ \A api : Loose(api) => Loose(api)'
  /\ \A api : ~Asks(api) /\ ~Asks(api)'
  /\ \A api : Answered(api)' <=> Answered(api) \/ api \in N
  /\ (Waiting(c)' <=> Waiting(c)) /\ (caller'[c].st = "post" <=> caller[c].st = "post")
  /\ (Retro(c)' => Retro(c))

\* They hold.
LEMMA EvtFactsHold ==
  ASSUME NEW c, NEW e, NEW g, NEW N, EvtStep(c, e, g, N), Preparation(c)
  PROVE  EvtFacts(c, e, N)
<1>1. /\ hal'.retro = hal.retro /\ hal'.longshot = hal.longshot /\ hal'.dead = hal.dead
      /\ hal'.prep = hal.prep /\ hal'.ready = hal.ready
  BY DEF EvtStep, Only
<1>2. Shrunk(evtQ, evtQ') /\ e = evtQ[1] /\ \A i \in DOMAIN evtQ' : i >= 1 BY DEF EvtStep
<1>3. /\ \A y : Has(evtQ', y) => Has(evtQ, y)
      /\ \A y : Has(evtQ, y) => Has(evtQ', y) \/ y = e
      /\ Has(evtQ, e)
  BY <1>2 DEF Shrunk, Has
<1>4. e = "DAEMON_DIED" => Gone'
  <2> SUFFICES ASSUME e = "DAEMON_DIED" PROVE hal.dead /\ ~Has(evtQ', "DAEMON_DIED") BY <1>1 DEF Gone
  <2>1. 1 \in DOMAIN evtQ BY <1>2 DEF Shrunk
  <2>2. hal.dead /\ \A j \in DOMAIN evtQ : j > 1 => evtQ[j] = "SNAPSHOT_DONE"
    BY <1>2, <2>1 DEF Preparation, DeathIsLast
  <2>3. \A i \in DOMAIN evtQ' : i + 1 \in DOMAIN evtQ /\ i + 1 > 1 /\ evtQ'[i] = evtQ[i + 1]
    BY <1>2 DEF Shrunk
  <2> QED BY <2>2, <2>3 DEF Has
<1>5. (Gone => Gone') /\ (Gone' => Gone \/ e = "DAEMON_DIED") BY <1>1, <1>3 DEF Gone
<1>6. \A api : Loose(api) => Loose(api)' BY <1>5 DEF Loose
<1>7. \A api : ~Asks(api) /\ ~Asks(api)' BY DEF EvtStep, Asks
<1>8. \A api : Answered(api)' <=> Answered(api) \/ api \in N
  <2>1. /\ \A i \in DOMAIN results : i \in DOMAIN results' /\ results'[i] = results[i]
        /\ \A i \in DOMAIN results' : i \in DOMAIN results \/ (i \notin DOMAIN results /\ results'[i].api \in N)
        /\ \A api \in N : Answered(api)'
    BY DEF EvtStep
  <2> QED BY <2>1 DEF Answered
<1>9. (Waiting(c)' <=> Waiting(c)) /\ (caller'[c].st = "post" <=> caller[c].st = "post")
  BY DEF EvtStep, Waiting
<1>10. Retro(c)' => Retro(c) BY <1>5 DEF EvtStep, Retro
<1> QED BY <1>1, <1>3, <1>4, <1>5, <1>6, <1>7, <1>8, <1>9, <1>10 DEF EvtFacts

\* An answer that is not lost goes to the caller that waits for it.
LEMMA EvtAnswers ==
  ASSUME NEW c, NEW e, NEW g, NEW N, EvtStep(c, e, g, N), EvtFacts(c, e, N), Preparation(c),
         NEW api \in N, ~Gone'
  PROVE  Waits(c, api) /\ e = AnswerEvent(api) /\ N = {api}
<1>1. ~Gone /\ e # "DAEMON_DIED" BY DEF EvtFacts
<1>2. e \in {"PREP_DONE", "READY"} BY <1>1 DEF EvtStep, Event
<1>3. CASE e = "PREP_DONE"
  <2>1. Waits(c, "PREPARE_SNAPSHOT") BY <1>1, <1>3 DEF Preparation, PrepareAwaited, EvtFacts
  <2>2. N = {"PREPARE_SNAPSHOT"} BY <1>3 DEF EvtStep
  <2> QED BY <1>3, <2>1, <2>2 DEF AnswerEvent
<1>4. CASE e = "READY"
  <2>1. Waits(c, "TAKE_PICTURE") BY <1>1, <1>4 DEF Preparation, TakeAwaited, EvtFacts
  <2>2. N = {"TAKE_PICTURE"} BY <1>4 DEF EvtStep
  <2> QED BY <1>4, <2>1, <2>2 DEF AnswerEvent
<1> QED BY <1>2, <1>3, <1>4

\* A handled event answers who waits for it, once.
LEMMA EvtKeepsDialogue ==
  ASSUME NEW c, NEW e, NEW g, NEW N, EvtStep(c, e, g, N), EvtFacts(c, e, N), Preparation(c), Dialogue(c)
  PROVE  Dialogue(c)'
<1>1. AskedIsWanted(c)' /\ AskedOnce' BY DEF EvtStep, AskedIsWanted, AskedOnce
<1>2. /\ caller'[c].req = caller[c].req /\ caller'[c].call = caller[c].call /\ (caller[c] = Idle => caller'[c] = Idle)
      /\ caller'[c].st = IF N # {} /\ caller[c].st = "asleep" THEN "woken" ELSE caller[c].st
      /\ \A i \in DOMAIN results : i \in DOMAIN results' /\ results'[i] = results[i]
      /\ \A i \in DOMAIN results' : i \in DOMAIN results \/ (i \notin DOMAIN results /\ results'[i].api \in N)
      /\ N \subseteq {"PREPARE_SNAPSHOT", "TAKE_PICTURE"}
  BY DEF EvtStep
<1>3. \A api : ~Asks(api)' /\ (Loose(api) => Loose(api)') BY DEF EvtFacts
<1> DEFINE Lost(a) == a \in {"CANCEL_PICTURE", "STOP_CAPTURE_CHANNEL"}
                      \/ (Gone' /\ a \in {"TAKE_PICTURE", "PREPARE_SNAPSHOT"})
<1>3a. \A a : (Lost(a) <=> Loose(a)') /\ (Loose(a) => Lost(a)) BY <1>3 DEF Loose
<1>4. \A i \in DOMAIN results' : i \notin DOMAIN results /\ ~Lost(results'[i].api) => Waits(c, results'[i].api)
  <2> SUFFICES ASSUME NEW i \in DOMAIN results', i \notin DOMAIN results, ~Lost(results'[i].api)
               PROVE  Waits(c, results'[i].api)
    OBVIOUS
  <2>1. results'[i].api \in N BY <1>2
  <2>2. ~Gone' BY <1>2, <2>1
  <2> QED BY <2>1, <2>2, EvtAnswers
<1>5a. \A i \in DOMAIN results' : ~Lost(results'[i].api) =>
         caller'[c].st = "woken" /\ results'[i].api = caller'[c].req.api
  <2> SUFFICES ASSUME NEW i \in DOMAIN results', ~Lost(results'[i].api)
               PROVE  caller'[c].st = "woken" /\ results'[i].api = caller'[c].req.api
    OBVIOUS
  <2>1. CASE i \in DOMAIN results
    <3>1. ~Loose(results[i].api) BY <1>2, <1>3a, <2>1
    <3> QED BY <1>2, <2>1, <3>1 DEF Dialogue, AnswerIsAwaited
  <2>2. CASE i \notin DOMAIN results BY <1>2, <1>4, <2>2 DEF Waits, Waiting
  <2> QED BY <2>1, <2>2
<1>6a. \A i, j \in DOMAIN results' : ~Lost(results'[i].api) /\ results'[j].api = results'[i].api => i = j
  <2> SUFFICES ASSUME NEW i \in DOMAIN results', NEW j \in DOMAIN results', ~Lost(results'[i].api),
                      results'[j].api = results'[i].api
               PROVE  i = j
    OBVIOUS
  <2>1. CASE i \in DOMAIN results /\ j \in DOMAIN results
    <3>1. ~Loose(results[i].api) /\ results[j].api = results[i].api BY <1>2, <1>3a, <2>1
    <3> QED BY <2>1, <3>1 DEF Dialogue, AnsweredOnce
  <2>2. CASE i \notin DOMAIN results /\ j \in DOMAIN results BY <1>2, <1>4, <2>2 DEF Waits, Answered
  <2>3. CASE i \in DOMAIN results /\ j \notin DOMAIN results BY <1>2, <1>4, <2>3 DEF Waits, Answered
  <2>4. CASE i \notin DOMAIN results /\ j \notin DOMAIN results
    <3>1. results'[i].api \in N BY <1>2, <2>4
    <3>2. ~Gone' BY <1>2, <3>1
    <3>3. e # "DAEMON_DIED" BY <3>2 DEF EvtFacts
    <3> QED BY <2>4, <3>3 DEF EvtStep
  <2> QED BY <2>1, <2>2, <2>3, <2>4
<1> HIDE DEF Lost
<1>5. AnswerIsAwaited(c)' BY <1>3, <1>3a, <1>5a DEF AnswerIsAwaited
<1>6. AnsweredOnce' BY <1>3a, <1>6a DEF AnsweredOnce
<1>7. caller'[c].st = "post" <=> caller[c].st = "post" BY DEF EvtFacts
<1>8. RequestFits(c)' /\ PostFits(c)' BY <1>2, <1>7 DEF Dialogue, RequestFits, PostFits
<1> QED BY <1>1, <1>5, <1>6, <1>8 DEF Dialogue

\* The picture of a caller does not end before its answer, unless it may be overtaken.
LEMMA EvtWhileWaiting ==
  ASSUME NEW c, NEW e, NEW g, NEW N, EvtStep(c, e, g, N), Dialogue(c), Pictures(c),
         ~Gone, NEW api \in {"TAKE_PICTURE", "PREPARE_SNAPSHOT"}, Waits(c, api),
         hal.state = "PREVIEW_PIC_TAKING", hal.retro # "no", ~Early(c)
  PROVE  e \notin {"SNAPSHOT_DONE", "JPEG"} /\ Retro(c) /\ g.state = "PREVIEW_PIC_TAKING" /\ g.cb = hal.cb
<1>1. caller[c] # Idle /\ caller[c].req.api = api BY DEF Waits, Waiting, Idle
<1>2. caller[c].call \in {"take_picture", "take_retro"}
  BY <1>1 DEF Dialogue, RequestFits, CallFits, SnapshotApis, RetroCalls, Early
<1>3. Retro(c) BY <1>2 DEF Pictures, RetroFits, Retro
<1>4. 1 \in DOMAIN evtQ /\ \A i \in DOMAIN evtQ : i >= 1 /\ i \in Nat BY DEF EvtStep, Shrunk
<1>5. \A i \in DOMAIN evtQ : ~(i < 1) BY <1>4
<1>6. evtQ[1] \notin {"SNAPSHOT_DONE", "JPEG"} BY <1>3, <1>4, <1>5 DEF Pictures, AnswerComesFirst
<1> QED BY <1>3, <1>6 DEF EvtStep

\* A handled event keeps the preparation.
LEMMA EvtKeepsPreparation ==
  ASSUME NEW c, NEW e, NEW g, NEW N, EvtStep(c, e, g, N), EvtFacts(c, e, N), Preparation(c), Dialogue(c), Pictures(c)
  PROVE  Preparation(c)'
<1>1. Shrunk(evtQ, evtQ') /\ e = evtQ[1] /\ hal'.state = g.state /\ \A i \in DOMAIN evtQ' : i >= 1
  BY DEF EvtStep, Only
<1>2. /\ hal'.retro = hal.retro /\ hal'.dead = hal.dead /\ hal'.prep = hal.prep /\ hal'.ready = hal.ready
      /\ \A y : Has(evtQ', y) => Has(evtQ, y)
      /\ (Gone => Gone') /\ (e = "DAEMON_DIED" => Gone') /\ Has(evtQ, e)
  BY DEF EvtFacts
<1>3. \A y : Once(y) => Once(y)' /\ (y = e => ~Has(evtQ', y))
  <2> SUFFICES ASSUME NEW y, Once(y) PROVE Once(y)' /\ (y = e => ~Has(evtQ', y)) OBVIOUS
  <2>1. \A i \in DOMAIN evtQ' : i + 1 \in DOMAIN evtQ /\ evtQ'[i] = evtQ[i + 1] /\ i \in Nat /\ i + 1 # 1
    BY <1>1 DEF Shrunk
  <2>2. 1 \in DOMAIN evtQ BY <1>1 DEF Shrunk
  <2>3. Once(y)'
    <3> SUFFICES ASSUME NEW i \in DOMAIN evtQ', NEW j \in DOMAIN evtQ', evtQ'[i] = y, evtQ'[j] = y PROVE i = j
      BY DEF Once
    <3>1. i + 1 = j + 1 BY <2>1 DEF Once
    <3> QED BY <2>1, <3>1
  <2>4. y = e => ~Has(evtQ', y) BY <1>1, <2>1, <2>2 DEF Once, Has
  <2> QED BY <2>3, <2>4
<1>4. ASSUME NEW api \in {"TAKE_PICTURE", "PREPARE_SNAPSHOT"}, Waits(c, api), api \notin N PROVE Waits(c, api)'
  BY <1>4 DEF Waits, EvtFacts, EvtStep
<1>4b. Early(c)' <=> Early(c) BY DEF EvtStep, Early
<1>5. PrepareAwaited(c)'
  <2> SUFFICES ASSUME ~Gone', hal.prep \/ Has(evtQ', "PREP_DONE")
               PROVE  /\ Waits(c, "PREPARE_SNAPSHOT")' /\ (Prepared(hal') \/ Early(c))
                      /\ Once("PREP_DONE")' /\ (hal.prep => ~Has(evtQ', "PREP_DONE"))
    BY <1>2, <1>4b DEF PrepareAwaited
  <2>1. /\ Waits(c, "PREPARE_SNAPSHOT") /\ (Prepared(hal) \/ Early(c)) /\ Once("PREP_DONE") /\ ~Gone
        /\ (hal.prep => ~Has(evtQ, "PREP_DONE")) /\ e # "DAEMON_DIED"
    BY <1>2 DEF Preparation, PrepareAwaited
  <2>2. e # "PREP_DONE" BY <1>2, <1>3, <2>1
  <2>3. "PREPARE_SNAPSHOT" \notin N BY <2>1, <2>2 DEF EvtStep, Event
  <2>4. Prepared(hal') \/ Early(c)
    <3>1. CASE hal.state = "PREPARE_SNAPSHOT" BY <1>1, <2>2, <3>1 DEF EvtStep, Prepared
    <3>2. CASE hal.state = "PREVIEW_PIC_TAKING" /\ hal.retro # "no"
      BY <1>1, <1>2, <2>1, <3>2, EvtWhileWaiting DEF Prepared
    <3> QED BY <2>1, <3>1, <3>2 DEF Prepared
  <2> QED BY <1>2, <1>3, <1>4, <2>1, <2>3, <2>4
<1>6. TakeAwaited(c)'
  <2> SUFFICES ASSUME ~Gone', hal.ready \/ Has(evtQ', "READY")
               PROVE  /\ Waits(c, "TAKE_PICTURE")' /\ (RetroTaken(hal') \/ Early(c))
                      /\ Once("READY")' /\ (hal.ready => ~Has(evtQ', "READY"))
    BY <1>2, <1>4b DEF TakeAwaited
  <2>1. /\ Waits(c, "TAKE_PICTURE") /\ (RetroTaken(hal) \/ Early(c)) /\ Once("READY") /\ ~Gone
        /\ (hal.ready => ~Has(evtQ, "READY")) /\ e # "DAEMON_DIED"
    BY <1>2 DEF Preparation, TakeAwaited
  <2>2. e # "READY" BY <1>2, <1>3, <2>1
  <2>3. "TAKE_PICTURE" \notin N BY <2>1, <2>2 DEF EvtStep, Event
  <2>4. RetroTaken(hal') \/ Early(c) BY <1>1, <1>2, <2>1, EvtWhileWaiting DEF RetroTaken
  <2> QED BY <1>2, <1>3, <1>4, <2>1, <2>3, <2>4
<1>7. PreparationEnds'
  <2> SUFFICES ASSUME ~Gone', g.state = "PREPARE_SNAPSHOT" PROVE hal.prep \/ Has(evtQ', "PREP_DONE")
    BY <1>1, <1>2 DEF PreparationEnds
  <2>1. hal.state = "PREPARE_SNAPSHOT" BY DEF EvtStep
  <2>2. hal.prep \/ Has(evtQ, "PREP_DONE") BY <1>2, <2>1 DEF Preparation, PreparationEnds
  <2>3. e # "PREP_DONE" BY <2>1 DEF EvtStep, Prepared
  <2> QED BY <2>2, <2>3 DEF EvtFacts
<1>8. DeathIsLast'
  <2> SUFFICES ASSUME NEW i \in DOMAIN evtQ', NEW j \in DOMAIN evtQ', evtQ'[i] = "DAEMON_DIED"
               PROVE  hal.dead /\ (j > i => evtQ'[j] = "SNAPSHOT_DONE")
    BY <1>2 DEF DeathIsLast
  <2>1. /\ i + 1 \in DOMAIN evtQ /\ evtQ'[i] = evtQ[i + 1] /\ j + 1 \in DOMAIN evtQ /\ evtQ'[j] = evtQ[j + 1]
        /\ i \in Nat /\ j \in Nat
    BY <1>1 DEF Shrunk
  <2>2. j > i => j + 1 > i + 1 BY <2>1
  <2> QED BY <2>1, <2>2 DEF Preparation, DeathIsLast
<1>9. SilentWhenGone'
  <2> SUFFICES ASSUME Gone', Has(evtQ', "PREP_DONE") \/ Has(evtQ', "READY") PROVE FALSE
    BY DEF SilentWhenGone
  <2>1. ~Gone BY <1>2 DEF Preparation, SilentWhenGone
  <2>2. e = "DAEMON_DIED" BY <2>1 DEF EvtFacts
  <2>3. PICK i \in DOMAIN evtQ' : evtQ'[i] \in {"PREP_DONE", "READY"} BY DEF Has
  <2>4. i + 1 \in DOMAIN evtQ /\ evtQ'[i] = evtQ[i + 1] /\ i + 1 > 1 /\ 1 \in DOMAIN evtQ
    BY <1>1 DEF Shrunk
  <2> QED BY <1>1, <2>2, <2>3, <2>4 DEF Preparation, DeathIsLast
<1> QED BY <1>5, <1>6, <1>7, <1>8, <1>9 DEF Preparation

\* A handled event keeps the pictures' part: what ends a picture comes after its answer.
LEMMA EvtKeepsPictures ==
  ASSUME NEW c, NEW e, NEW g, NEW N, EvtStep(c, e, g, N), EvtFacts(c, e, N), Dialogue(c), Pictures(c)
  PROVE  Pictures(c)'
<1> USE DEF Pictures
<1>1. /\ hal'.state = g.state /\ hal'.cb = g.cb /\ hal'.th = g.th /\ hal'.retro = hal.retro
      /\ hal'.longshot = hal.longshot /\ apiQ' = <<>> /\ Shrunk(evtQ, evtQ') /\ e = evtQ[1]
      /\ \A i \in DOMAIN evtQ' : i >= 1
      /\ caller'[c].req = caller[c].req /\ caller'[c].call = caller[c].call
  BY DEF EvtStep, Only
<1>2. /\ \A y : Has(evtQ', y) => Has(evtQ, y)
      /\ \A api : ~Asks(api) /\ ~Asks(api)'
      /\ (caller'[c].st = "post" <=> caller[c].st = "post") /\ (Retro(c)' => Retro(c))
      /\ (Gone => Gone') /\ (e = "DAEMON_DIED" => Gone') /\ Has(evtQ, e)
  BY DEF EvtFacts
<1>3. /\ hal.state = "PREVIEWING" => g.state = "PREVIEWING"
      /\ g.state = "PREVIEW_PIC_TAKING" => hal.state = g.state
      /\ Films(hal) => Films(g)
      /\ e \notin {"SNAPSHOT_DONE", "JPEG"} => g.cb = hal.cb /\ g.th = hal.th
  BY DEF EvtStep
<1>4. CancelFollowsVideo' /\ CancelIsAwaited(c)' BY <1>1, <1>2 DEF CancelFollowsVideo, CancelIsAwaited
<1>5. Allowed' => Allowed
  <2>1. \A i \in DOMAIN results' : results'[i].api = "PRE_TAKE_PICTURE" =>
          \E j \in DOMAIN results : results'[i] = results[j]
    BY DEF EvtStep
  <2> QED BY <2>1 DEF Allowed, Has, Result
<1>6. TakeToCome(c)' => TakeToCome(c) BY <1>1, <1>2, <1>5 DEF TakeToCome
<1>7. RetroFromPreview(c)' BY <1>1, <1>2, <1>3, <1>6 DEF RetroFromPreview, Films
<1>8. NoPicture => NoPicture' /\ g.th = hal.th BY <1>1, <1>2, <1>3 DEF NoPicture
<1>9. RetroIsClean(c)'
  <2> SUFFICES ASSUME Retro(c), g.state = "PREVIEWING", TakeToCome(c) PROVE NoPicture' /\ g.th = "none"
    BY <1>1, <1>2, <1>6 DEF RetroIsClean
  <2>1. hal.state = "PREVIEWING" BY <1>3 DEF RetroFromPreview, Films
  <2> QED BY <1>8, <2>1 DEF RetroIsClean
<1>10. FlashIsClean(c)' BY <1>1, <1>2, <1>3, <1>8 DEF FlashIsClean
<1>11. AnswerComesFirst(c)'
  <2> SUFFICES ASSUME NEW api \in {"TAKE_PICTURE", "PREPARE_SNAPSHOT"},
                      Retro(c)', g.state = "PREVIEW_PIC_TAKING", Waits(c, api)'
               PROVE  /\ hal'.cb = "idle"
                      /\ \A j \in DOMAIN evtQ' : evtQ'[j] \in {"SNAPSHOT_DONE", "JPEG"} =>
                           \E i \in DOMAIN evtQ' : i < j /\ evtQ'[i] \in {AnswerEvent(api), "DAEMON_DIED"}
    BY <1>1 DEF AnswerComesFirst
  <2>1. Retro(c) /\ hal.state = "PREVIEW_PIC_TAKING" /\ ~Gone /\ ~Gone' BY <1>2, <1>3 DEF Retro
  <2>2. ~Answered(api)' /\ Waiting(c)' /\ caller[c].req.api = api BY <1>1 DEF Waits
  <2>3. ~Answered(api) /\ api \notin N /\ Waiting(c) BY <2>2 DEF EvtFacts
  <2>4. Waits(c, api) BY <1>2, <2>2, <2>3 DEF Waits
  <2>5. hal.retro # "no" /\ ~Early(c) BY <2>1 DEF RetroFits, Retro, RetroCalls, Early
  <2>6. g.cb = hal.cb /\ hal.cb = "idle" BY <2>1, <2>4, <2>5, EvtWhileWaiting DEF AnswerComesFirst
  <2>7. e \notin {AnswerEvent(api), "DAEMON_DIED"}
    BY <1>2, <2>1, <2>3, <2>5 DEF EvtStep, AnswerEvent, Prepared, RetroTaken
  <2>8. ASSUME NEW j \in DOMAIN evtQ', evtQ'[j] \in {"SNAPSHOT_DONE", "JPEG"}
        PROVE  \E i \in DOMAIN evtQ' : i < j /\ evtQ'[i] \in {AnswerEvent(api), "DAEMON_DIED"}
    <3>1. j + 1 \in DOMAIN evtQ /\ evtQ[j + 1] \in {"SNAPSHOT_DONE", "JPEG"} /\ j \in Nat
      BY <1>1, <2>8 DEF Shrunk
    <3>2. PICK i \in DOMAIN evtQ : i < j + 1 /\ evtQ[i] \in {AnswerEvent(api), "DAEMON_DIED"}
      BY <2>1, <2>4, <3>1 DEF AnswerComesFirst
    <3>3. i # 1 /\ i \in Nat BY <1>1, <2>7, <3>2 DEF Shrunk
    <3>4. i - 1 \in DOMAIN evtQ' /\ evtQ'[i - 1] = evtQ[i] /\ i - 1 < j BY <1>1, <3>1, <3>2, <3>3 DEF Shrunk
    <3> QED BY <3>2, <3>4
  <2> QED BY <1>1, <2>6, <2>8
<1>12. FlashAsked(c)' BY <1>1, <1>2 DEF FlashAsked
<1>13. RetroFits(c)' BY <1>1 DEF RetroFits
<1> QED BY <1>4, <1>7, <1>9, <1>10, <1>11, <1>12, <1>13

\* It keeps the setup.
LEMMA EvtKeepsSetup ==
  ASSUME NEW c, NEW e, NEW g, NEW N, EvtStep(c, e, g, N), Setup(c)
  PROVE  Setup(c)'
<1>1. /\ Only(g, hal', {}) /\ Only(hal, g, {"state", "pic", "cap", "th", "cb"}) /\ Fits(g) /\ apiQ' = <<>>
      /\ caller'[c].req = caller[c].req /\ caller'[c].call = caller[c].call
      /\ g.state = "PREVIEW_PIC_TAKING" => hal.state = g.state
      /\ isCaptureRunning(g) => isCaptureRunning(hal)
  BY DEF EvtStep, Setup
<1>2. Fits(hal') BY <1>1, FitsAlways DEF Only
<1>3. Has(results', Result("SET_PARAMS_STOP", TRUE)) => Has(results, Result("SET_PARAMS_STOP", TRUE))
  <2>1. \A i \in DOMAIN results' : results'[i].api = "SET_PARAMS_STOP" =>
          \E j \in DOMAIN results : results'[i] = results[j]
    BY DEF EvtStep
  <2> QED BY <2>1 DEF Has, Result
<1>4. RestartIsOff(c)'
  <2>1. hal'.state = g.state /\ hal'.on = hal.on /\ hal'.restart = hal.restart BY <1>1 DEF Only
  <2>2. ~Asks("SET_PARAMS_RESTART")' BY <1>1 DEF Asks
  <2> QED BY <1>1, <1>3, <2>1, <2>2 DEF Setup, RestartIsOff
<1>5. ZslIsKept(c)' BY <1>1 DEF Setup, ZslIsKept, Only, isCaptureRunning
<1>6. LongshotOffFits' /\ ~hal'.post BY <1>1 DEF Setup, LongshotOffFits, Only
<1> QED BY <1>2, <1>4, <1>5, <1>6 DEF Setup

\* Who was put off is answered or still put off.
LEMMA EvtIsRemembered ==
  ASSUME NEW c, NEW e, NEW g, NEW N, EvtStep(c, e, g, N), EvtFacts(c, e, N), Dialogue(c), Pictures(c),
         Preparation(c), Recalled(c)
  PROVE  Recalled(c)'
<1> SUFFICES ASSUME Waiting(c)
             PROVE  \/ caller'[c].st = "woken" /\ Answered(caller[c].req.api)'
                    \/ Deferred(c)' \/ Overtaken(c)'
  BY DEF Recalled, EvtFacts, EvtStep
<1> DEFINE api == caller[c].req.api
<1>1. /\ hal'.state = g.state /\ caller'[c].req = caller[c].req
      /\ caller'[c].st = IF N # {} /\ caller[c].st = "asleep" THEN "woken" ELSE caller[c].st
      /\ caller'[c].call = caller[c].call /\ apiQ = <<>> /\ e \in Event
  BY DEF EvtStep, Only
<1>2. /\ \A a : Answered(a)' <=> Answered(a) \/ a \in N
      /\ hal'.retro = hal.retro /\ hal'.dead = hal.dead /\ hal'.prep = hal.prep /\ hal'.ready = hal.ready
      /\ \A y : Has(evtQ, y) => Has(evtQ', y) \/ y = e
      /\ \A a : ~Asks(a)
  BY DEF EvtFacts
<1>3. ~Has(apiQ, caller[c].req) BY <1>1 DEF Has
<1>4. CASE caller[c].st = "woken" /\ Answered(api) BY <1>1, <1>2, <1>4
<1>5. CASE Deferred(c) /\ ~(caller[c].st = "woken" /\ Answered(api))
  <2>1. api \in {"TAKE_PICTURE", "PREPARE_SNAPSHOT"} BY <1>5 DEF Deferred
  <2>2. ~Gone BY <1>5 DEF Deferred, Gone, Preparation, SilentWhenGone, Has
  <2>3. ~Answered(api) BY <1>5, <2>1, <2>2 DEF Answered, Loose, Dialogue, AnswerIsAwaited
  <2>4. Waits(c, api) BY <1>2, <2>3 DEF Waits
  <2>5. CASE api \in N BY <1>1, <1>2, <2>5 DEF Waiting
  <2>5a. g.state # "PREVIEW_PIC_TAKING" /\ Early(c) => Overtaken(c)'
    BY <1>1, <2>1, EvtFactsHold DEF Overtaken, Early, EvtFacts, Waiting
  <2>6. CASE api \notin N
    <3>1. CASE api = "PREPARE_SNAPSHOT"
      <4>1. Prepared(hal) /\ ((hal.prep /\ ~hal.dead) \/ Has(evtQ, "PREP_DONE") \/ Has(evtQ, "DAEMON_DIED"))
        BY <1>5, <3>1 DEF Deferred, Prepared, Has
      <4>2. e \notin {"PREP_DONE", "DAEMON_DIED"} BY <2>6, <3>1, <4>1 DEF EvtStep, Prepared
      <4>3. (hal.prep /\ ~hal.dead) \/ Has(evtQ', "PREP_DONE") \/ Has(evtQ', "DAEMON_DIED") BY <1>2, <4>1, <4>2
      <4>4. CASE hal.state = "PREPARE_SNAPSHOT"
        <5>1. g.state = "PREPARE_SNAPSHOT" BY <4>2, <4>4 DEF EvtStep
        <5> QED BY <1>1, <1>2, <3>1, <4>3, <5>1 DEF Deferred, Has
      <4>5. CASE hal.state = "PREVIEW_PIC_TAKING" /\ hal.retro # "no"
        <5>1. CASE g.state = "PREVIEW_PIC_TAKING" BY <1>1, <1>2, <3>1, <4>3, <4>5, <5>1 DEF Deferred, Has
        <5>2. CASE g.state # "PREVIEW_PIC_TAKING" /\ Early(c) BY <2>5a, <5>2
        <5> QED BY <2>1, <2>2, <2>4, <4>5, <5>1, <5>2, EvtWhileWaiting
      <4> QED BY <4>1, <4>4, <4>5 DEF Prepared
    <3>2. CASE api = "TAKE_PICTURE"
      <4>1. RetroTaken(hal) /\ ((hal.ready /\ ~hal.dead) \/ Has(evtQ, "READY") \/ Has(evtQ, "DAEMON_DIED"))
        BY <1>5, <3>2 DEF Deferred, RetroTaken, Has
      <4>2. e \notin {"READY", "DAEMON_DIED"} BY <2>6, <3>2, <4>1 DEF EvtStep, RetroTaken
      <4>3. (hal.ready /\ ~hal.dead) \/ Has(evtQ', "READY") \/ Has(evtQ', "DAEMON_DIED") BY <1>2, <4>1, <4>2
      <4>4. CASE g.state = "PREVIEW_PIC_TAKING" BY <1>1, <1>2, <3>2, <4>1, <4>3, <4>4 DEF Deferred, Has, RetroTaken
      <4>5. CASE g.state # "PREVIEW_PIC_TAKING" /\ Early(c) BY <2>5a, <4>5
      <4> QED BY <2>1, <2>2, <2>4, <4>1, <4>4, <4>5, EvtWhileWaiting DEF RetroTaken
    <3> QED BY <2>1, <3>1, <3>2
  <2> QED BY <2>5, <2>6
<1>6. CASE Overtaken(c)
  <2>1. g.state # "PREVIEW_PIC_TAKING" BY <1>6 DEF Overtaken, EvtStep
  <2> QED BY <1>1, <1>6, <2>1 DEF Overtaken, EvtFacts
<1> QED BY <1>3, <1>4, <1>5, <1>6 DEF Recalled

\* A handled event keeps the invariant.
LEMMA OccurredKeeps ==
  ASSUME NEW c \in Caller, Consistent(c), ~EarlyRestart, NEW e, NEW x, Occurred(e, x), MachineTypeOK'
  PROVE  Consistent(c)'
<1> DEFINE g == x.hal
<1>0. /\ MachineTypeOK /\ Dialogue(c) /\ Preparation(c) /\ Pictures(c) /\ Setup(c) /\ Recalled(c) /\ ~hal.post
  BY DEF Consistent, Setup
<1>1. PICK N : EvtStep(c, e, g, N) BY <1>0, OccurredSteps
<1> HIDE DEF g
<1>2. EvtFacts(c, e, N) BY <1>0, <1>1, EvtFactsHold
<1>3. Dialogue(c)' BY <1>0, <1>1, <1>2, EvtKeepsDialogue
<1>4. Preparation(c)' BY <1>0, <1>1, <1>2, EvtKeepsPreparation
<1>5. Pictures(c)' BY <1>0, <1>1, <1>2, EvtKeepsPictures
<1>6. Setup(c)' BY <1>0, <1>1, EvtKeepsSetup
<1>7. Recalled(c)' BY <1>0, <1>1, <1>2, EvtIsRemembered
<1> QED BY <1>3, <1>4, <1>5, <1>6, <1>7 DEF Consistent

-----------------------------------------------------------------------------

\* The invariant holds at first.
LEMMA ConsistentAtFirst ==
  ASSUME MachineInit, NEW c \in Caller
  PROVE  Consistent(c)
<1>1. MachineTypeOK BY MachineInitIs
<1>2. /\ hal.state = "STOPPED" /\ ~hal.prep /\ ~hal.ready /\ ~hal.longshot /\ ~hal.post /\ ~hal.dead /\ ~hal.video
      /\ ~hal.on /\ ~hal.cap /\ ~hal.pic /\ hal.th = "none" /\ hal.zsl = hal.zslNew
      /\ apiQ = <<>> /\ evtQ = <<>> /\ results = <<>> /\ caller[c] = Idle
  BY DEF MachineInit
<1>3. caller[c].st = "idle" /\ caller[c].call = "none" /\ caller[c].req.api = "none" BY <1>2 DEF Idle, NoReq, Req
<1>4. DOMAIN apiQ = {} /\ DOMAIN evtQ = {} /\ DOMAIN results = {} BY <1>2
<1>5. Dialogue(c)
  BY <1>2, <1>3, <1>4 DEF Dialogue, AskedIsWanted, AskedOnce, AnswerIsAwaited, AnsweredOnce, RequestFits, PostFits
<1>6. Preparation(c)
  BY <1>2, <1>4 DEF Preparation, PrepareAwaited, TakeAwaited, PreparationEnds, DeathIsLast, SilentWhenGone, Has
<1>7. Pictures(c)
  BY <1>2, <1>3, <1>4 DEF Pictures, CancelFollowsVideo, CancelIsAwaited, RetroFromPreview, RetroIsClean,
    FlashIsClean, AnswerComesFirst, FlashAsked, RetroFits, Retro, RetroCalls, Waits, Asks
<1>8. Setup(c)
  BY <1>2, <1>3, <1>4 DEF Setup, Fits, RestartIsOff, ZslIsKept, LongshotOffFits, Films, isCaptureRunning
<1>9. Recalled(c) BY <1>3 DEF Recalled, Waiting
<1> QED BY <1>1, <1>5, <1>6, <1>7, <1>8, <1>9 DEF Consistent

\* Every step keeps the invariant.
LEMMA ConsistentStays ==
  ASSUME NEW app, Caller = {app}, CarefulApp, ~EarlyRestart, Consistent(app), [MachineNext]_machineVars
  PROVE  Consistent(app)'
<1>0. MachineTypeOK BY DEF Consistent
<1>1. CASE MachineNext
  <2>1. /\ \/ \E call \in Calls[app] : Call(app, call)
           \/ processAPI(app) \/ waitAPIResult(app)
           \/ \E r, x : Handled(r, x)
           \/ \E e, x : Occurred(e, x)
           \/ ThreadEnds
           \/ Notifies
           \/ PrepDone \/ RetroReady \/ JpegDone \/ DaemonDies \/ stopCapture
        /\ MachineTypeOK'
    BY <1>0, <1>1, MachineSteps
  <2> HIDE <1>1
  <2> app \in Caller OBVIOUS
  <2>2. ASSUME NEW call \in Calls[app], Call(app, call) PROVE Consistent(app)' BY <2>2, CallKeeps
  <2>3. CASE processAPI(app) BY <2>3, PostKeeps
  <2>4. CASE waitAPIResult(app) BY <2>4, WaitKeeps
  <2>5. ASSUME NEW r, NEW x, Handled(r, x) PROVE Consistent(app)' BY <2>1, <2>5, HandledKeeps
  <2>6. ASSUME NEW e, NEW x, Occurred(e, x) PROVE Consistent(app)' BY <2>1, <2>6, OccurredKeeps
  <2>7. CASE ThreadEnds BY <2>1, <2>7, ThreadKeeps
  <2>8. CASE Notifies BY <2>1, <2>8, NotifyKeeps
  <2>9. CASE PrepDone BY <2>9, PrepDoneKeeps
  <2>10. CASE RetroReady BY <2>10, RetroReadyKeeps
  <2>11. CASE JpegDone BY <2>11, JpegDoneKeeps
  <2>12. CASE DaemonDies BY <2>12, DaemonDiesKeeps
  <2>13. CASE stopCapture BY <2>13, StopCaptureKeeps
  <2> QED BY <2>1, <2>2, <2>3, <2>4, <2>5, <2>6, <2>7, <2>8, <2>9, <2>10, <2>11, <2>12, <2>13
<1>2. CASE UNCHANGED machineVars
  <2>1. UNCHANGED <<hal, apiQ, evtQ, results, caller, asked>> BY <1>2 DEF machineVars
  <2>2. MachineTypeOK' BY <1>0, <2>1 DEF MachineTypeOK
  <2>3. Dialogue(app)'
    BY <2>1 DEF Consistent, Dialogue, AskedIsWanted, AskedOnce, AnswerIsAwaited, AnsweredOnce, RequestFits, PostFits,
                Loose, Gone, Has, Waiting, Asks
  <2>4. Preparation(app)'
    BY <2>1 DEF Consistent, Preparation, PrepareAwaited, TakeAwaited, PreparationEnds, DeathIsLast, SilentWhenGone,
                Gone, Has, Waits, Waiting, Asks, Answered, Once, Prepared, RetroTaken, Early
  <2>5. Pictures(app)'
    BY ZenonT(40), <2>1 DEF Consistent, Pictures, CancelFollowsVideo, CancelIsAwaited, RetroFromPreview, RetroIsClean,
                FlashIsClean, AnswerComesFirst, FlashAsked, RetroFits, Retro, Waits, Waiting, Asks, Answered, Gone,
                Has, TakeToCome, Allowed, NoPicture, Films
  <2>6. Setup(app)'
    BY <2>1 DEF Consistent, Setup, Fits, RestartIsOff, ZslIsKept, LongshotOffFits, Films, isCaptureRunning, Has, Asks
  <2>7. Recalled(app)' BY <2>1 DEF Consistent, Recalled, Waiting, Has, Answered, Deferred, Overtaken
  <2> QED BY <2>2, <2>3, <2>4, <2>5, <2>6, <2>7 DEF Consistent
<1> QED BY <1>1, <1>2

\* The inductive invariant of the dialogue between an application and the machine, for any calls,
\* failures and deaths of the daemon, if the application is careful and makes one call at a time.
THEOREM MachineConsistent ==
  ASSUME NEW app, Caller = {app}, CarefulApp, ~EarlyRestart
  PROVE  MachineSpec => []Consistent(app)
<1>1. MachineInit => Consistent(app) BY ConsistentAtFirst
<1>2. Consistent(app) /\ [MachineNext]_machineVars => Consistent(app)' BY ConsistentStays
<1> QED BY <1>1, <1>2, PTL DEF MachineSpec

\* A caller that waits is not forgotten, whatever is left of earlier pictures when it calls: its request is
\* queued, its result is in the list, or an event that answers it is to come (QCameraStateMachine.cpp,
\* QCamera2HWI.cpp, waitAPIResult); only the end of an earlier picture can take the answer from a retro one.
THEOREM CallersAreRemembered ==
  ASSUME NEW app, Caller = {app}, CarefulApp, ~EarlyRestart
  PROVE  MachineSpec => []NoCallerForgotten
<1>1. Consistent(app) => NoCallerForgotten
  BY DEF Consistent, Recalled, NoCallerForgotten, Waiting, Remembered, Has, Answered
<1> QED BY <1>1, MachineConsistent, PTL

\* The channels that run are those of the state.
THEOREM ChannelsFit ==
  ASSUME NEW app, Caller = {app}, CarefulApp, ~EarlyRestart
  PROVE  MachineSpec => []ChannelsFitState
<1>1. Consistent(app) => ChannelsFitState
  BY DEF Consistent, Setup, Fits, Films, ChannelsFitState, isCaptureRunning
<1> QED BY <1>1, MachineConsistent, PTL

\* The post processor works only in the states of a picture.
THEOREM PostProcessorFits ==
  ASSUME NEW app, Caller = {app}, CarefulApp, ~EarlyRestart
  PROVE  MachineSpec => []PostProcessorFitsState
<1>1. Consistent(app) => PostProcessorFitsState BY DEF Consistent, Setup, Fits, PostProcessorFitsState
<1> QED BY <1>1, MachineConsistent, PTL
=============================================================================
