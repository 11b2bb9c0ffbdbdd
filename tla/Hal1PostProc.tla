---------------------------- MODULE Hal1PostProc ----------------------------
(***************************************************************************)
(* The post processor of the HAL1 camera                                   *)
(* (camera/QCamera2/HAL/QCameraPostProc.cpp) and the thread that calls     *)
(* back into the application (QCameraCbNotifier, QCamera2HWICallbacks.cpp).*)
(*                                                                         *)
(* Threads, each with a variable for where it is:                          *)
(*   sm     the machine's thread: takes and cancels pictures, handles the  *)
(*          events of the encoder and SNAPSHOT_DONE                        *)
(*   defer  the thread of deferred work: starts the post processor         *)
(*   chan   the ZSL channel's callback: processData                        *)
(*   data   the data thread: dataProcessRoutine, a command at a time       *)
(*   pp     the reprocess channel's callback: processPPData                *)
(*   cb     cbNotifyRoutine, a command at a time                           *)
(*                                                                         *)
(* A frame is one super buffer of the source channel, numbered in the      *)
(* order of arrival; the id of its encoding job is the frame itself.  A    *)
(* queue that flush() has emptied is inactive until init() and refuses     *)
(* what is put in.  Commands sent with priority go to the head.            *)
(*                                                                         *)
(* Left out: raw pictures, saving from the HAL (mUseSaveProc), bursts that *)
(* reprocess several inputs to one output, capture without ZSL (its source *)
(* channel is gone), offline buffers, allocations that fail, what longshot *)
(* asks for after its first frames, and results of the reprocess that wait *)
(* for its callback: the hardware ends a job when the callback is free.    *)
(***************************************************************************)
EXTENDS Integers, Sequences, SequencesExt, FiniteSetsExt, Selection

CONSTANTS
  MaxFrame,          \* bound: frames in all
  MaxPictures,       \* bound: calls of takePicture
  Expected,          \* numOfSnapshotsExpected: frames of one picture
  ReprocCount,       \* the most passes, each through a channel of its own
  PPBufs,            \* getLongshotStages: buffers of a reprocess stream in longshot
  LongshotPasses,    \* in longshot a frame may need several passes
  ReprocessMayFail,  \* the reprocess channel may refuse a frame
  EncoderIsQuick     \* an encoding may end before start_job's caller goes on

ASSUME PostProcAssumption ==
  /\ MaxFrame \in Nat /\ MaxPictures \in Nat /\ Expected \in Nat \ {0}
  /\ ReprocCount \in Nat \ {0} /\ PPBufs \in Nat \ {0}
  /\ LongshotPasses \in BOOLEAN /\ ReprocessMayFail \in BOOLEAN /\ EncoderIsQuick \in BOOLEAN

Frame == 1..MaxFrame

VARIABLES
  sm, defer, chan, data, pp, cb,
  q,         \* the post processor's queues
  on,        \* those of them that are active
  cmdQ,      \* commands of the data thread
  encoding,  \* jobs that mm-jpeg-interface works on
  hw,        \* jobs of the reprocess hardware, in order
  nq,        \* commands of the callback thread
  dataQ,     \* pictures for the callback thread
  smQ,      \* events of the machine
  handed,    \* frames that came to processData so far
  released   \* frame -> times it went back to its channel

vars == <<sm, defer, chan, data, pp, cb, q, on, cmdQ, encoding, hw, nq, dataQ, smQ, handed, released>>

Flushed == {"ongoing", "jpeg", "input"}
Job == [frame : Frame, passes : 0..ReprocCount]

\* passes: getReprocCount, 0 without reprocess; due: frames the channel still
\* has to deliver; pp "got": a result of the reprocess is to be looked at;
\* queues "ongoing" and "input" hold reprocess jobs, "jpeg" frames, "coding"
\* (m_ongoingJpegQ) frames with whether their job id is recorded.
TypeOK ==
  /\ sm \in [pc : {"idle", "stop", "wait", "join"}, taking : BOOLEAN, passes : 0..ReprocCount, longshot : BOOLEAN,
             done : BOOLEAN, due : 0..Expected, pictures : 0..MaxPictures]
  /\ defer \in {"idle", "send", "wait", "notify"}
  /\ chan \in [pc : {"idle", "got", "queued"}, frame : 0..MaxFrame]
  /\ data \in [pc : {"idle", "encode", "mark", "reprocess"} \cup Flushed,
               active : BOOLEAN, job : 0..MaxFrame, synced : BOOLEAN]
  /\ pp \in [pc : {"idle", "got", "queued"}] \cup [pc : {"have"}, job : Job]
  /\ cb \in [pc : {"idle", "wait", "deliver"}, active : BOOLEAN, longshot : BOOLEAN, rcvd : Nat]
  /\ q.input \in Seq(Job) /\ q.ongoing \in Seq(Job) /\ q.jpeg \in Seq(Frame)
  /\ q.coding \in Seq([frame : Frame, known : BOOLEAN])
  /\ on \subseteq Flushed
  /\ cmdQ \in Seq({"START", "STOP", "NEXT"}) /\ nq \in Seq({"START", "STOP", "NEXT"})
  /\ encoding \subseteq Frame /\ hw \in Seq(Frame) /\ dataQ \in Seq(Frame)
  /\ smQ \in Seq(Frame \cup {0})
  /\ handed \subseteq Frame /\ released \in [Frame -> Nat]

Init ==
  /\ sm = [pc |-> "idle", taking |-> FALSE, passes |-> 0, longshot |-> FALSE, done |-> FALSE,
           due |-> 0, pictures |-> 0]
  /\ defer = "idle"
  /\ chan = [pc |-> "idle", frame |-> 0]
  /\ data = [pc |-> "idle", active |-> FALSE, job |-> 0, synced |-> FALSE]
  /\ pp = [pc |-> "idle"]
  /\ cb = [pc |-> "idle", active |-> FALSE, longshot |-> FALSE, rcvd |-> 0]
  /\ q = [input |-> <<>>, ongoing |-> <<>>, jpeg |-> <<>>, coding |-> <<>>]
  /\ on = Flushed
  /\ cmdQ = <<>> /\ nq = <<>> /\ dataQ = <<>> /\ smQ = <<>> /\ hw = <<>>
  /\ encoding = {} /\ handed = {} /\ released = [f \in Frame |-> 0]

Release(fs) == released' = [f \in Frame |-> IF f \in fs THEN released[f] + 1 ELSE released[f]]
Frames(jobs) == {jobs[i].frame : i \in DOMAIN jobs}

-----------------------------------------------------------------------------
(* The machine's thread. *)

smVars == <<sm, defer, smQ>>
dataVars == <<data, on, encoding>>
ppVars == <<pp, hw>>
cbVars == <<cb, dataQ>>

\* takePicture: the start of the post processor is deferred work, the channel
\* is asked for the frames.
TakePicture ==
  /\ sm.pc = "idle" /\ ~sm.taking /\ sm.pictures < MaxPictures
  /\ \E n \in 0..ReprocCount, longshot \in BOOLEAN :
       /\ longshot /\ ~LongshotPasses => n <= 1
       /\ sm' = [sm EXCEPT !.taking = TRUE, !.passes = n, !.longshot = longshot,
                            !.due = Expected, !.pictures = @ + 1]
  /\ defer' = "send"
  /\ UNCHANGED <<chan, dataVars, ppVars, cbVars, q, cmdQ, nq, smQ, handed, released>>

\* cancelPicture, from the application or at SNAPSHOT_DONE, first waits for the
\* deferred work.
Cancel(done) == sm' = [sm EXCEPT !.pc = "stop", !.done = done]
CancelPicture ==
  /\ sm.pc = "idle" /\ sm.taking
  /\ Cancel(FALSE)
  /\ UNCHANGED <<defer, chan, dataVars, ppVars, cbVars, q, cmdQ, nq, smQ, handed, released>>

\* Event 0 is SNAPSHOT_DONE; in a state without a picture it is answered and
\* nothing is done.  SyncAnswered: the callback thread's processSyncEvt returns.
SyncAnswered == cb' = [cb EXCEPT !.pc = IF @ = "wait" THEN "deliver" ELSE @]
SnapshotDone ==
  /\ sm.pc = "idle" /\ smQ # <<>> /\ Head(smQ) = 0
  /\ smQ' = Tail(smQ)
  /\ IF sm.taking THEN Cancel(TRUE) /\ cb' = cb ELSE sm' = sm /\ SyncAnswered
  /\ UNCHANGED <<defer, chan, dataVars, ppVars, dataQ, q, cmdQ, nq, handed, released>>

\* The data thread is told to go on: if the reprocess may wait for buffers of an
\* encoding that is over, and in any case.
\* Mutant: only for the next encoding.
ToldToEncode(commands) == commands \o IF q.jpeg # <<>> THEN <<"NEXT">> ELSE <<>>
ToldToGoOn(commands) == commands \o (IF q.input # <<>> THEN <<"NEXT">> ELSE <<>>) \o <<"NEXT">>

\* The event of encoding f: its job is found by the id and released, the
\* picture goes to the callback thread unless it failed.
Known(f) == [frame |-> f, known |-> TRUE]
processJpegEvt ==
  /\ sm.pc = "idle" /\ smQ # <<>> /\ Head(smQ) # 0
  /\ smQ' = Tail(smQ)
  /\ IF ~sm.taking THEN UNCHANGED <<q, released, dataQ, nq, cmdQ>>
     ELSE LET f == Head(smQ)
          IN /\ q' = [q EXCEPT !.coding = At(@, {i \in DOMAIN @ : @[i] # Known(f)})]
             /\ Release(IF Contains(q.coding, Known(f)) THEN {f} ELSE {})
             /\ \/ dataQ' = Append(dataQ, f) /\ nq' = Append(nq, "NEXT")
                \/ UNCHANGED <<dataQ, nq>>
             /\ cmdQ' = ToldToGoOn(cmdQ)
  /\ UNCHANGED <<sm, defer, chan, dataVars, ppVars, cb, handed>>

\* stop.
Stop ==
  /\ sm.pc = "stop" /\ defer = "idle"
  /\ nq' = <<"STOP">> \o nq
  /\ cmdQ' = <<"STOP">> \o cmdQ
  /\ sm' = [sm EXCEPT !.pc = "wait", !.taking = FALSE]
  /\ UNCHANGED <<defer, chan, dataVars, ppVars, cbVars, q, smQ, handed, released>>

Synced == data.synced /\ data' = [data EXCEPT !.synced = FALSE]

StopSynced ==
  /\ sm.pc = "wait" /\ Synced
  /\ sm' = [sm EXCEPT !.pc = "join"]
  /\ UNCHANGED <<defer, chan, on, encoding, ppVars, cbVars, q, cmdQ, nq, smQ, handed, released>>

\* The reprocess channels end: stopping one waits for its callback.  Then the
\* source channel's request is cancelled.
\* Mutant: they are deleted without waiting.
StopJoinsNot ==
  /\ sm.pc = "join"
  /\ hw' = <<>> /\ sm' = [sm EXCEPT !.pc = "idle", !.due = 0]
  /\ IF sm.done THEN SyncAnswered ELSE cb' = cb
  /\ UNCHANGED <<defer, chan, dataVars, pp, dataQ, q, cmdQ, nq, smQ, handed, released>>
StopJoin ==
  /\ sm.pc = "join" /\ pp.pc = "idle"
  /\ hw' = <<>> /\ sm' = [sm EXCEPT !.pc = "idle", !.due = 0]
  /\ IF sm.done THEN SyncAnswered ELSE cb' = cb
  /\ UNCHANGED <<defer, chan, dataVars, pp, dataQ, q, cmdQ, nq, smQ, handed, released>>

-----------------------------------------------------------------------------
(* DeferredWork work: start. *)

Start ==
  /\ defer = "send"
  /\ cmdQ' = Append(cmdQ, "START") /\ defer' = "wait"
  /\ UNCHANGED <<sm, chan, dataVars, ppVars, cbVars, q, nq, smQ, handed, released>>

StartSynced ==
  /\ defer = "wait" /\ Synced
  /\ nq' = <<"START">> \o nq /\ defer' = "idle"
  /\ UNCHANGED <<sm, chan, on, encoding, ppVars, cbVars, q, cmdQ, smQ, handed, released>>

-----------------------------------------------------------------------------
(* The source channel's callback, after its wait for the deferred work. *)

Deliver ==
  /\ chan.pc = "idle" /\ sm.due > 0 /\ Cardinality(handed) < MaxFrame
  /\ chan' = [pc |-> "got", frame |-> Cardinality(handed) + 1]
  /\ sm' = [sm EXCEPT !.due = @ - 1]
  /\ UNCHANGED <<defer, dataVars, ppVars, cbVars, q, cmdQ, nq, smQ, handed, released>>

\* A queue that is not active refuses the job and the frame is released.
processData ==
  LET f == chan.frame
      name == IF sm.passes > 0 THEN "input" ELSE "jpeg"
      job == IF sm.passes > 0 THEN [frame |-> f, passes |-> 0] ELSE f
  IN /\ chan.pc = "got" /\ defer = "idle"
     /\ handed' = handed \cup {f}
     /\ IF name \in on
        THEN q' = [q EXCEPT ![name] = Append(@, job)] /\ chan' = [chan EXCEPT !.pc = "queued"]
                  /\ released' = released
        ELSE Release({f}) /\ chan' = [chan EXCEPT !.pc = "idle"] /\ q' = q
     /\ UNCHANGED <<smVars, dataVars, ppVars, cbVars, cmdQ, nq>>

processDataSend ==
  /\ chan.pc = "queued"
  /\ cmdQ' = Append(cmdQ, "NEXT") /\ chan' = [chan EXCEPT !.pc = "idle"]
  /\ UNCHANGED <<smVars, dataVars, ppVars, cbVars, q, nq, handed, released>>

-----------------------------------------------------------------------------
(* The data thread. *)

Rest == UNCHANGED <<smVars, chan, ppVars, cbVars, nq, handed>>
Goto(pc) == data' = [data EXCEPT !.pc = pc]

\* Mutant: the start is not reported.
DataStartSilently ==
  /\ data.pc = "idle" /\ cmdQ # <<>> /\ Head(cmdQ) = "START"
  /\ cmdQ' = Tail(cmdQ) /\ data' = [data EXCEPT !.active = TRUE] /\ on' = Flushed
  /\ Rest /\ UNCHANGED <<q, encoding, released>>
DataStart ==
  /\ data.pc = "idle" /\ cmdQ # <<>> /\ Head(cmdQ) = "START"
  /\ cmdQ' = Tail(cmdQ)
  /\ data' = [data EXCEPT !.active = TRUE, !.synced = TRUE]
  /\ on' = Flushed
  /\ Rest /\ UNCHANGED <<q, encoding, released>>

\* STOP aborts and releases what is being encoded, then flushes one queue after
\* the other.
DataStop ==
  /\ data.pc = "idle" /\ cmdQ # <<>> /\ Head(cmdQ) = "STOP"
  /\ cmdQ' = Tail(cmdQ)
  /\ data' = [data EXCEPT !.pc = "ongoing", !.active = FALSE]
  /\ encoding' = encoding \ {j.frame : j \in {k \in Range(q.coding) : k.known}}
  /\ q' = [q EXCEPT !.coding = <<>>]
  /\ Release(Frames(q.coding))
  /\ Rest /\ UNCHANGED on

AfterFlush == [ongoing |-> "jpeg", jpeg |-> "input", input |-> "idle"]
DataFlush ==
  LET name == data.pc
  IN /\ name \in Flushed
     /\ on' = on \ {name}
     /\ q' = [q EXCEPT ![name] = <<>>]
     /\ Release(IF name = "jpeg" THEN Range(q.jpeg) ELSE Frames(q[name]))
     /\ data' = [data EXCEPT !.pc = AfterFlush[name], !.synced = name = "input"]
     /\ Rest /\ UNCHANGED <<cmdQ, encoding>>

\* NEXT while active: a frame to encode is taken, if there is one, and put with
\* the ongoing ones; then it is the turn of the reprocess.  When not active the
\* queues are inactive as well, or empty before the first start.
DataNext ==
  /\ data.pc = "idle" /\ cmdQ # <<>> /\ Head(cmdQ) = "NEXT"
  /\ cmdQ' = Tail(cmdQ)
  /\ IF ~data.active THEN UNCHANGED <<data, q>>
     ELSE IF q.jpeg = <<>> THEN Goto("reprocess") /\ q' = q
     ELSE LET f == Head(q.jpeg)
          IN /\ data' = [data EXCEPT !.pc = "encode", !.job = f]
             /\ q' = [q EXCEPT !.jpeg = Tail(@), !.coding = Append(@, [frame |-> f, known |-> FALSE])]
  /\ Rest /\ UNCHANGED <<on, encoding, released>>

\* encodeData: start_job, after which the job's id is recorded; when it fails
\* the last ongoing job is taken out again and released.
EncodeStart ==
  /\ data.pc = "encode"
  /\ encoding' = encoding \cup {data.job}
  /\ Goto("mark")
  /\ Rest /\ UNCHANGED <<q, on, cmdQ, released>>
EncodeFails ==
  /\ data.pc = "encode"
  /\ q' = [q EXCEPT !.coding = Front(@)]
  /\ Release({data.job})
  /\ data' = [data EXCEPT !.pc = "reprocess", !.job = 0]
  /\ Rest /\ UNCHANGED <<on, encoding, cmdQ>>
EncodeMark ==
  /\ data.pc = "mark"
  /\ q' = [q EXCEPT !.coding = [i \in DOMAIN @ |-> IF @[i].frame = data.job THEN Known(data.job) ELSE @[i]]]
  /\ data' = [data EXCEPT !.pc = "reprocess", !.job = 0]
  /\ Rest /\ UNCHANGED <<on, encoding, cmdQ, released>>

\* The reprocess stream of a pass has a buffer for every frame, fewer in
\* longshot.  Those not queued hold results: of the last pass until the encoding
\* is over, of another until the next pass is, and in the callback's hands.
Jobs(n, jobs) == Cardinality({i \in DOMAIN jobs : jobs[i].passes = n})
HeldResults(n) ==
  Jobs(n, q.input) + Jobs(n + 1, q.ongoing)
  + (IF n = sm.passes THEN Len(q.jpeg) + Len(q.coding) ELSE 0)
  + (IF pp.pc = "have" /\ pp.job.passes = n THEN 1 ELSE 0)
  + (IF pp.pc = "got" /\ q.ongoing # <<>> /\ Head(q.ongoing).passes = n THEN 1 ELSE 0)
getNumQueuedBuf(n) == (IF sm.longshot THEN PPBufs ELSE Expected) - HeldResults(n)

\* Only a frame of the source channel is checked against the buffers queued now:
\* the channel of one that was already reprocessed is not found by its handle.
validatePostProcess == Head(q.input).passes = 0 => Len(q.ongoing) < getNumQueuedBuf(1)

\* doReprocess: unless the check fails, the first job becomes ongoing and its
\* frame goes to the reprocess channel.  When the channel refuses it the job is
\* released, but it is still in the queue of the ongoing ones.
doReprocess ==
  IF q.input = <<>> \/ ~validatePostProcess THEN UNCHANGED <<q, hw, released>>
  ELSE LET job == Head(q.input)
       IN /\ q' = [q EXCEPT !.input = Tail(@),
                            !.ongoing = Append(@, [job EXCEPT !.passes = @ + 1])]
          /\ \/ hw' = Append(hw, job.frame) /\ released' = released
             \/ ReprocessMayFail /\ hw' = hw /\ Release({job.frame})
DataReprocess ==
  /\ data.pc = "reprocess" /\ doReprocess /\ Goto("idle")
  /\ UNCHANGED <<smVars, chan, pp, cbVars, nq, handed, on, encoding, cmdQ>>

-----------------------------------------------------------------------------
(* The reprocess channel's callback. *)

PPRest == UNCHANGED <<smVars, chan, dataVars, cbVars, nq, handed>>

\* A result comes from the hardware, in a buffer that was queued.
PPOutput ==
  /\ pp.pc = "idle" /\ hw # <<>>
  /\ q.ongoing # <<>> => getNumQueuedBuf(Head(q.ongoing).passes) > 0
  /\ hw' = Tail(hw) /\ pp' = [pc |-> "got"]
  /\ PPRest /\ UNCHANGED <<q, cmdQ, released>>

\* It belongs to the first ongoing job.  Without one, as after a flush, it is not
\* looked at.
PPResult ==
  /\ pp.pc = "got"
  /\ IF "ongoing" \in on /\ q.ongoing # <<>>
     THEN /\ pp' = [pc |-> "have", job |-> Head(q.ongoing)]
          /\ q' = [q EXCEPT !.ongoing = Tail(@)]
     ELSE pp' = [pc |-> "idle"] /\ q' = q
  /\ PPRest /\ UNCHANGED <<hw, cmdQ, released>>

\* The job goes back to the reprocess or on to the encoding; a queue that is
\* not active refuses it and it is released.
\* Mutant: without looking whether the queue took the job.
Place(name, job) == q' = [q EXCEPT ![name] = Append(@, job)]
PPQueueBlindly ==
  LET again == pp.job.passes < sm.passes
      name == IF again THEN "input" ELSE "jpeg"
  IN /\ pp.pc = "have"
     /\ pp' = [pc |-> "queued"] /\ released' = released
     /\ IF name \in on THEN Place(name, IF again THEN pp.job ELSE pp.job.frame) ELSE q' = q
     /\ PPRest /\ UNCHANGED <<hw, cmdQ>>
PPQueue ==
  LET again == pp.job.passes < sm.passes
      name == IF again THEN "input" ELSE "jpeg"
  IN /\ pp.pc = "have"
     /\ IF name \in on
        THEN /\ Place(name, IF again THEN pp.job ELSE pp.job.frame)
             /\ pp' = [pc |-> "queued"] /\ released' = released
        ELSE Release({pp.job.frame}) /\ pp' = [pc |-> "idle"] /\ q' = q
     /\ PPRest /\ UNCHANGED <<hw, cmdQ>>

PPSend ==
  /\ pp.pc = "queued" /\ pp' = [pc |-> "idle"]
  /\ cmdQ' = Append(cmdQ, "NEXT")
  /\ PPRest /\ UNCHANGED <<hw, q, released>>

-----------------------------------------------------------------------------
(* The encoder, behind mm-jpeg-interface: jobs end in any order. *)

EncodeEnds(f) ==
  /\ f \in encoding /\ (EncoderIsQuick \/ data.job # f)
  /\ encoding' = encoding \ {f} /\ smQ' = Append(smQ, f)
  /\ UNCHANGED <<sm, defer, chan, data, on, ppVars, cbVars, q, cmdQ, nq, handed, released>>

-----------------------------------------------------------------------------
(* The callback thread. *)

CbRest == UNCHANGED <<sm, defer, chan, dataVars, ppVars, q, cmdQ, handed, released>>

CbStart ==
  /\ cb.pc = "idle" /\ nq # <<>> /\ Head(nq) = "START" /\ nq' = Tail(nq)
  /\ cb' = [cb EXCEPT !.active = TRUE, !.longshot = sm.longshot, !.rcvd = 0]
  /\ CbRest /\ UNCHANGED <<dataQ, smQ>>
CbStop ==
  /\ cb.pc = "idle" /\ nq # <<>> /\ Head(nq) = "STOP" /\ nq' = Tail(nq)
  /\ cb' = [cb EXCEPT !.active = FALSE, !.rcvd = 0]
  /\ dataQ' = <<>>
  /\ CbRest /\ UNCHANGED smQ

\* A picture in snapshot mode is counted, unless it is of a longshot; with the
\* last one SNAPSHOT_DONE is sent and waited for before the application gets the
\* picture.  Out of that mode it is dropped.
CbNext ==
  /\ cb.pc = "idle" /\ nq # <<>> /\ Head(nq) = "NEXT" /\ nq' = Tail(nq)
  /\ IF dataQ = <<>> THEN UNCHANGED <<cb, dataQ, smQ>>
     ELSE /\ dataQ' = Tail(dataQ)
          /\ IF ~cb.active THEN UNCHANGED <<cb, smQ>>
             ELSE IF cb.longshot THEN cb' = [cb EXCEPT !.pc = "deliver"] /\ smQ' = smQ
             ELSE IF cb.rcvd + 1 = Expected
             THEN cb' = [cb EXCEPT !.pc = "wait", !.rcvd = @ + 1] /\ smQ' = Append(smQ, 0)
             ELSE cb' = [cb EXCEPT !.pc = "deliver", !.rcvd = @ + 1] /\ smQ' = smQ
  /\ CbRest

\* The application's callback returns.
CbDelivered ==
  /\ cb.pc = "deliver" /\ cb' = [cb EXCEPT !.pc = "idle"]
  /\ CbRest /\ UNCHANGED <<nq, dataQ, smQ>>

-----------------------------------------------------------------------------
Data == DataStart \/ DataStop \/ DataFlush \/ DataNext \/ EncodeStart \/ EncodeFails \/ EncodeMark \/ DataReprocess
Events == SnapshotDone \/ processJpegEvt \/ Stop \/ StopSynced \/ StopJoin
Reprocess == PPOutput \/ PPResult \/ PPQueue \/ PPSend
Callback == CbStart \/ CbStop \/ CbNext \/ CbDelivered
DeferredWork == Start \/ StartSynced
Channel == processData \/ processDataSend

Next ==
  \/ TakePicture \/ CancelPicture \/ Deliver
  \/ Events \/ DeferredWork \/ Channel \/ Data \/ Reprocess \/ Callback
  \/ \E f \in Frame : EncodeEnds(f)

\* Threads go on, the hardware and the encoder end their jobs; the application
\* need not call, and the source channel need not have a frame.
Fairness ==
  /\ WF_vars(Events) /\ WF_vars(DeferredWork) /\ WF_vars(Channel) /\ WF_vars(Data)
  /\ WF_vars(Reprocess) /\ WF_vars(Callback)
  /\ \A f \in Frame : WF_vars(EncodeEnds(f))

Spec == Init /\ [][Next]_vars /\ Fairness

-----------------------------------------------------------------------------
(* Properties. *)

Count(f, s) == Cardinality({i \in DOMAIN s : s[i] = f})
InJobs(f, jobs) == Cardinality({i \in DOMAIN jobs : jobs[i].frame = f})

\* Whoever has a frame: the queues and the callback that has taken a job.
Places(f) ==
  InJobs(f, q.input) + InJobs(f, q.ongoing) + InJobs(f, q.coding) + Count(f, q.jpeg)
  + IF pp.pc = "have" /\ pp.job.frame = f THEN 1 ELSE 0

\* A frame that came to the post processor is in one place, or went back to its
\* channel once: no path of processData, processPPData, doReprocess, encodeData
\* or stop forgets one or gives one back twice.
EveryFrameOnce == \A f \in Frame : Places(f) + released[f] = IF f \in handed THEN 1 ELSE 0

\* Once stop() has returned nothing is left to be worked on: every queue is
\* empty, the encoder and the reprocess channel have no job and no callback
\* holds one.
QuietWhenStopped ==
  sm.pc = "idle" /\ ~sm.taking =>
    /\ \A name \in DOMAIN q : q[name] = <<>>
    /\ encoding = {} /\ hw = <<>> /\ pp.pc = "idle"

\* Every frame goes back to its channel: a command to go on with is never
\* missing.  In longshot the data thread finds the reprocess stream without
\* buffers, as encodings hold its results, and uses its command up: the end of an
\* encoding, which gives the buffer back, must bring another one.
FramesComeBack == \A f \in Frame : f \in handed ~> released[f] > 0

\* stop() returns: the machine's thread waits for the data thread and the
\* reprocess callback, the callback thread waits for the machine's.
StopReturns ==
  /\ sm.pc # "idle" ~> sm.pc = "idle"
  /\ cb.pc = "wait" ~> cb.pc = "deliver"

\* QCamera2HWICallbacks.cpp:3585 "Enables snapshot mode", :3601 "Disables
\* snapshot processing mode": with no such command left to handle, the callback
\* thread is in the mode that was asked for last.
SnapshotModeAsAsked ==
  (\A i \in DOMAIN nq : nq[i] = "NEXT") /\ defer = "idle" => cb.active = sm.taking
=============================================================================
