---------------------------- MODULE Hal3Requests ----------------------------
(***************************************************************************)
(* The request engine of the camera HAL3 (QCamera3HWI.cpp).  The framework *)
(* hands capture requests to processCaptureRequest, which enters them in   *)
(* two lists: mPendingRequestsList (requests without a final result) and   *)
(* mPendingBuffersMap (buffers not yet returned).  Callbacks of the        *)
(* channels bring metadata and filled buffers; a buffer that arrives       *)
(* before the metadata of its request is kept in the request until then.   *)
(* A flush, a sensor restart and a dead daemon end what is pending with    *)
(* errors (notifyErrorForPendingRequests), which walks the second list and *)
(* pops the first.                                                         *)
(*                                                                         *)
(* Threads: the framework's request thread (Submit, the sensor restart,    *)
(* the wait for a free place), its flush thread, and the callbacks, each   *)
(* of which runs under mMutex.  Between two actions of a thread mMutex is  *)
(* released.  Frame numbers are the internal ones, handed out in order by  *)
(* FrameNumberRegistry.                                                    *)
(***************************************************************************)
EXTENDS Naturals, FiniteSets, Sequences, Selection

CONSTANTS
    MaxFrame,       \* bound: requests the framework submits
    Reprocess,      \* the requests that carry an input buffer
    Stream,         \* the output streams
    Asked,          \* sets of streams a request may ask a buffer of each for
    MinInFlight,    \* mMinInFlightRequests
    MaxInFlight,    \* mMaxInFlightRequests
    MaxFlush,       \* bound: flushes the framework asks for
    MaxRestart,     \* bound: sensor restarts
    MaxPull,        \* bound: requests the daemon pulls
    FaultsApart     \* the framework's flush and the daemon's death stay clear
                    \* of sensor restarts and of reprocess requests

ASSUME RequestAssumption ==
    /\ MaxFrame \in Nat /\ Reprocess \subseteq 1..MaxFrame
    /\ Asked \subseteq (SUBSET Stream) \ {{}}
    /\ MinInFlight \in Nat \ {0} /\ MaxInFlight \in Nat
    /\ MinInFlight <= MaxInFlight /\ FaultsApart \in BOOLEAN

VARIABLES
    mState,         \* state of the device
    hfr,            \* a high frame rate session: sensor restarts, no reprocess
    next,           \* the next request of the framework
    pending,        \* mPendingRequestsList: a list in the order of the frames
    cached,         \* buffers kept in their pending request
    map,            \* mPendingBuffersMap: buffers not yet returned
    live,           \* mPendingLiveRequest
    pulled,         \* mWokenUpByDaemon
    mFlush,         \* mFlush
    signal,         \* mRequestCond was signalled while the request waits
    pc,             \* where each thread of the framework is
    device,         \* the thread's flush is the one of handleCameraDeviceError
    request,        \* the request being restarted for: its frame and streams
    hw,             \* buffers the channels hold
    meta,           \* requests whose metadata the sensor still owes
    told,           \* final answers given to the framework, in order
    returned,       \* how often each buffer was returned
    given,          \* buffers of the requests that were accepted
    fatal,          \* a call returned an error: the framework gives up
    crashed,        \* a list was walked past its end, or by two threads at once
    used            \* flushes, restarts and pulls so far

hal  == <<mState, pending, cached, map, live, pulled, mFlush, signal>>
fw   == <<hfr, next, pc, device, request, given, fatal, used>>
chan == <<hw, meta>>
out  == <<told, returned, crashed>>
vars == <<hal, fw, chan, out>>

Frame  == 1..MaxFrame
Buffer == Frame \X Stream
Thread == {"request", "flush"}
Stage  == {"idle", "check", "mark", "stop", "stop meta", "sweep", "deinit",
           "halt", "unlocked", "start", "add", "wait"}

TypeOK ==
    /\ mState \in {"CONFIGURED", "STARTED", "ERROR", "DEINIT"}
    /\ hfr \in BOOLEAN /\ next \in 1..(MaxFrame + 1)
    /\ pending \subseteq Frame /\ cached \subseteq map /\ map \subseteq Buffer
    /\ live \in 0..MaxFrame /\ pulled \in BOOLEAN /\ mFlush \in BOOLEAN
    /\ signal \in BOOLEAN /\ pc \in [Thread -> Stage]
    /\ device \in [Thread -> BOOLEAN] /\ request \in SUBSET Stream
    /\ hw \subseteq Buffer /\ meta \subseteq Frame
    /\ told \in Seq([frame : Frame, answer : {"result", "error"}])
    /\ returned \in [Buffer -> 0..2] /\ given \subseteq Buffer
    /\ fatal \in BOOLEAN /\ crashed \in BOOLEAN
    /\ used \in [{"flush", "restart", "pull"} -> Nat]

Init ==
    /\ mState = "CONFIGURED" /\ hfr \in BOOLEAN /\ next = 1
    /\ pending = {} /\ cached = {} /\ map = {} /\ live = 0
    /\ pulled = FALSE /\ mFlush = FALSE /\ signal = FALSE
    /\ pc = [t \in Thread |-> "idle"] /\ device = [t \in Thread |-> FALSE]
    /\ request = {} /\ hw = {} /\ meta = {} /\ told = <<>>
    /\ returned = [b \in Buffer |-> 0] /\ given = {}
    /\ fatal = FALSE /\ crashed = FALSE
    /\ used = [k \in {"flush", "restart", "pull"} |-> 0]

-----------------------------------------------------------------------------
(* Helpers. *)

IsInput(f) == ~hfr /\ f \in Reprocess
Of(frames, bufs) == {b \in bufs : b[1] \in frames}
Frames(bufs) == {b[1] : b \in bufs}
Answers(frames, a) ==
    [i \in 1..Cardinality(frames) |-> [frame |-> Nth(frames, i), answer |-> a]]
GiveBack(bufs) == returned' = [b \in Buffer |-> returned[b] + IF b \in bufs THEN 1 ELSE 0]
Stopped == mState \in {"ERROR", "DEINIT"}

\* unblockRequestIfNecessary: the signal is lost unless a request waits.
Unblock == signal' = (signal \/ pc["request"] = "wait")

\* The framework's and the daemon's faults keep clear of each other.
ReprocessOut == \E f \in pending \cup Frames(map) : IsInput(f)
Restarting == pc["request"] \in {"halt", "unlocked", "start", "add"}
Apart == FaultsApart => ~ReprocessOut /\ ~Restarting

\* Entries of the buffer map older than every pending request: only their
\* buffers are missing.
Orphans == {f \in Frames(map) : \A p \in pending : f < p}

\* Mutant: the buffers of requests that have their result are forgotten.
SweepForgetsOrphans ==
    LET late == Frames(map) \ Orphans
    IN  /\ GiveBack(Of(late, map))
        /\ told' = told \o Answers(late, "error")
        /\ pending' = pending \ late
        /\ map' = {} /\ cached' = {} /\ UNCHANGED crashed

\* notifyErrorForPendingRequests: a frame older than the oldest pending
\* request gets its buffers back; every other one gets ERROR_REQUEST and
\* removes the head of the list of requests, whatever that head is.
Sweep ==
    LET late == Frames(map) \ Orphans
        n == Cardinality(late)
    IN  /\ GiveBack(map)
        /\ told' = told \o Answers(late, "error")
        /\ pending' = {p \in pending : Cardinality({q \in pending : q < p}) >= n}
        /\ map' = {} /\ cached' = {}
        /\ crashed' = (crashed \/ n > Cardinality(pending))

-----------------------------------------------------------------------------
(* processCaptureRequest, on the framework's request thread. *)

\* The request enters both lists.  During a flush that is all; else its
\* buffers go to the channels, and a live request counts as in flight.  A
\* channel may refuse its buffer, which leaves the request in the lists.
Enter(f, streams, base) ==
    LET bufs == {f} \X streams
        n == base + IF IsInput(f) THEN 0 ELSE 1
    IN  /\ pending' = pending \cup {f}
        /\ map' = map \cup bufs /\ given' = given \cup bufs
        /\ next' = f + 1
        /\ UNCHANGED cached
        /\ \/ /\ mFlush
              /\ pc' = [pc EXCEPT !["request"] = "idle"]
              /\ live' = base
              /\ UNCHANGED <<mState, signal, fatal, chan>>
           \/ /\ ~mFlush                   \* channel->request failed
              /\ \E b \in SUBSET bufs : b # bufs /\ hw' = hw \cup b
              /\ fatal' = TRUE /\ live' = base
              /\ pc' = [pc EXCEPT !["request"] = "idle"]
              /\ UNCHANGED <<mState, signal, meta>>
           \/ /\ ~mFlush
              /\ hw' = hw \cup bufs
              /\ meta' = IF IsInput(f) THEN meta ELSE meta \cup {f}
              /\ live' = n /\ mState' = "STARTED" /\ signal' = FALSE
              /\ pc' = [pc EXCEPT !["request"] =
                          IF n >= MinInFlight /\ ~IsInput(f) THEN "wait" ELSE "idle"]
              /\ UNCHANGED fatal

Submit ==
    /\ ~fatal /\ next <= MaxFrame /\ pc["request"] = "idle"
    /\ mState \in {"CONFIGURED", "STARTED"}
    /\ \E streams \in Asked :
        /\ IsInput(next) => /\ Cardinality(streams) = 1
                            /\ FaultsApart => pc["flush"] = "idle"
        \* the first request after a configuration starts from zero
        /\ \/ /\ mState = "CONFIGURED"
              /\ pulled' = FALSE /\ Enter(next, streams, 0)
           \/ /\ mState = "STARTED"
              /\ UNCHANGED pulled /\ Enter(next, streams, live)
    /\ UNCHANGED <<mFlush, hfr, device, request, used, out>>

\* A change of the batch's frame rate (mNeedSensorRestart): mMutex is released
\* around dynamicUpdateMetaStreamInfo.
SubmitWithRestart ==
    /\ hfr /\ ~fatal /\ next <= MaxFrame /\ pc["request"] = "idle"
    /\ mState = "STARTED" /\ used["restart"] < MaxRestart
    /\ FaultsApart => pc["flush"] = "idle"
    /\ request' \in Asked
    /\ pc' = [pc EXCEPT !["request"] = "halt"]
    /\ used' = [used EXCEPT !["restart"] = @ + 1]
    /\ UNCHANGED <<hal, hfr, next, device, given, fatal, chan, out>>

RestartStop ==
    /\ pc["request"] = "halt"
    /\ hw' = {} /\ meta' = {}
    /\ pc' = [pc EXCEPT !["request"] = "unlocked"]
    /\ UNCHANGED <<hal, hfr, next, device, request, given, fatal, used, out>>

\* The sweep of dynamicUpdateMetaStreamInfo runs without mMutex, and leaves
\* mPendingLiveRequest as it was.
RestartSweep ==
    /\ pc["request"] = "unlocked"
    /\ Sweep
    /\ pc' = [pc EXCEPT !["request"] = "start"]
    /\ UNCHANGED <<mState, live, pulled, mFlush, signal, hfr, next, device, request, given, fatal, used, chan>>

RestartStart ==
    /\ pc["request"] = "start"
    /\ \/ pc' = [pc EXCEPT !["request"] = "add"] /\ UNCHANGED <<request, fatal>>
       \/ pc' = [pc EXCEPT !["request"] = "idle"]    \* a channel did not start
          /\ request' = {} /\ fatal' = TRUE
    /\ UNCHANGED <<hal, hfr, next, device, given, used, chan, out>>

SubmitAfterRestart ==
    /\ pc["request"] = "add"
    /\ Enter(next, request, live)
    /\ request' = {}
    /\ UNCHANGED <<pulled, mFlush, hfr, device, used, out>>

\* Mutant: a pull of the daemon lets the next request in whatever is in flight.
WakeOnPull ==
    /\ pc["request"] = "wait" /\ signal
    /\ signal' = FALSE /\ pulled' = FALSE
    /\ pc' = [pc EXCEPT !["request"] =
                IF pulled \/ live < MinInFlight \/ Stopped THEN "idle" ELSE "wait"]
    /\ UNCHANGED <<mState, pending, cached, map, live, mFlush, hfr, next, device, request, given, fatal, used, chan, out>>

\* The loop around pthread_cond_timedwait.
Wake ==
    /\ pc["request"] = "wait" /\ signal
    /\ signal' = FALSE /\ pulled' = FALSE
    /\ pc' = [pc EXCEPT !["request"] =
                IF \/ pulled /\ live < MaxInFlight
                   \/ live < MinInFlight \/ Stopped
                THEN "idle" ELSE "wait"]
    /\ UNCHANGED <<mState, pending, cached, map, live, mFlush, hfr, next, device, request, given, fatal, used, chan, out>>

\* Five seconds have passed: -ENODEV, with the request still pending.
RequestTimesOut ==
    /\ pc["request"] = "wait" /\ ~signal
    /\ pc' = [pc EXCEPT !["request"] = "idle"]
    /\ fatal' = TRUE
    /\ UNCHANGED <<hal, hfr, next, device, request, given, used, chan, out>>

-----------------------------------------------------------------------------
(* flush, and the flush of handleCameraDeviceError. *)

Flush ==
    /\ ~fatal /\ pc["flush"] = "idle" /\ mState = "STARTED" /\ Apart
    /\ used["flush"] < MaxFlush
    /\ used' = [used EXCEPT !["flush"] = @ + 1]
    /\ pc' = [pc EXCEPT !["flush"] = "mark"]
    /\ device' = [device EXCEPT !["flush"] = FALSE]
    /\ UNCHANGED <<hal, hfr, next, request, given, fatal, chan, out>>

\* Either entry point finds the device in ERROR.
FindError(t) ==
    /\ ~fatal /\ pc[t] = "idle" /\ mState = "ERROR"
    /\ t = "request" => next <= MaxFrame
    /\ pc' = [pc EXCEPT ![t] = "check"]
    /\ device' = [device EXCEPT ![t] = TRUE]
    /\ UNCHANGED <<hal, hfr, next, request, given, fatal, used, chan, out>>

CheckError(t) ==
    /\ pc[t] = "check"
    /\ pc' = [pc EXCEPT ![t] = IF mState = "ERROR" THEN "mark" ELSE "idle"]
    /\ fatal' = (fatal \/ mState # "ERROR")
    /\ UNCHANGED <<hal, hfr, next, device, request, given, used, chan, out>>

MarkFlush(t) ==
    /\ pc[t] = "mark"
    /\ mFlush' = TRUE
    /\ pc' = [pc EXCEPT ![t] = "stop"]
    /\ UNCHANGED <<mState, pending, cached, map, live, pulled, signal, hfr, next, device, request, given, fatal, used, chan, out>>

\* stopAllChannels: the streams first, the metadata channel last.
StopStreams(t) ==
    /\ pc[t] = "stop"
    /\ hw' = {}
    /\ pc' = [pc EXCEPT ![t] = "stop meta"]
    /\ UNCHANGED <<hal, hfr, next, device, request, given, fatal, used, meta, out>>

\* Reading the bundle back may fail, and the flush ends there, mFlush set.
StopMetadata(t) ==
    /\ pc[t] = "stop meta"
    /\ meta' = {}
    /\ \/ pc' = [pc EXCEPT ![t] = "sweep"] /\ UNCHANGED fatal
       \/ pc' = [pc EXCEPT ![t] = IF device[t] THEN "deinit" ELSE "idle"]
          /\ fatal' = TRUE
    /\ UNCHANGED <<hal, hfr, next, device, request, given, used, hw, out>>

\* Mutant: the waiting request is not told that there is room again.
FlushWithoutSignal(t) ==
    /\ pc[t] = "sweep"
    /\ live' = 0 /\ mFlush' = FALSE
    /\ Sweep
    /\ pc' = [pc EXCEPT ![t] = IF device[t] THEN "deinit" ELSE "idle"]
    /\ UNCHANGED <<mState, pulled, signal, hfr, next, device, request, given, fatal, used, chan>>

FlushSweep(t) ==
    /\ pc[t] = "sweep"
    /\ live' = 0 /\ Unblock
    /\ IF pc["request"] = "unlocked"
       THEN /\ crashed' = TRUE
            /\ UNCHANGED <<pending, cached, map, told, returned>>
       ELSE Sweep
    /\ mFlush' = FALSE
    /\ pc' = [pc EXCEPT ![t] = IF device[t] THEN "deinit" ELSE "idle"]
    /\ \/ UNCHANGED fatal
       \/ ~device[t] /\ fatal' = TRUE               \* a channel did not start
    /\ UNCHANGED <<mState, pulled, hfr, next, device, request, given, used, chan>>

Deinit(t) ==
    /\ pc[t] = "deinit"
    /\ mState' = "DEINIT" /\ fatal' = TRUE
    /\ pc' = [pc EXCEPT ![t] = "idle"]
    /\ UNCHANGED <<pending, cached, map, live, pulled, mFlush, signal, hfr, next, device, request, given, used, chan, out>>

-----------------------------------------------------------------------------
(* Callbacks: handleMetadataWithLock, handleBufferWithLock,                *)
(* handleInputBufferWithLock and camEvtHandle.                             *)

\* Mutant: the older requests stay pending when a metadata buffer is missed.
CompletesOwn(f) == pending \cap {f}

\* The live requests a metadata buffer completes: its own, and the older ones
\* whose metadata was missed.
Completes(f) == {p \in pending : p <= f /\ ~IsInput(p)}

\* Mutant: the buffers sent with a result stay in the buffer map.
MetadataKeepsMap(f) ==
    /\ f \in meta /\ ~Stopped
    /\ meta' = {g \in meta : g > f}
    /\ LET done == Completes(f)
       IN  /\ pending' = pending \ done
           /\ live' = live - Cardinality(done)
           /\ told' = told \o Answers(done, "result")
           /\ GiveBack(Of(done, cached))
           /\ cached' = cached \ Of(done, cached)
           /\ Unblock
    /\ UNCHANGED <<map, mState, pulled, mFlush, fw, hw, crashed>>

Metadata(f) ==
    /\ f \in meta
    /\ meta' = {g \in meta : g > f}
    /\ IF Stopped
       THEN UNCHANGED <<pending, cached, map, live, signal, told, returned>>
       ELSE LET done == Completes(f)
            IN  /\ pending' = pending \ done
                /\ live' = live - Cardinality(done)
                /\ told' = told \o Answers(done, "result")
                /\ GiveBack(Of(done, cached))
                /\ map' = map \ Of(done, cached)
                /\ cached' = cached \ Of(done, cached)
                /\ Unblock
    /\ UNCHANGED <<mState, pulled, mFlush, fw, hw, crashed>>

\* A buffer arrives: kept if its live request is pending, else returned; the
\* one of a reprocess request takes the request's result with it.
BufferArrives(b) ==
    /\ b \in hw
    /\ hw' = hw \ {b}
    /\ \/ Stopped /\ UNCHANGED <<pending, cached, map, told, returned>>
       \/ /\ ~Stopped /\ b[1] \in pending /\ ~IsInput(b[1])
          /\ cached' = cached \cup {b}
          /\ UNCHANGED <<pending, map, told, returned>>
       \/ /\ ~Stopped /\ b[1] \in pending /\ IsInput(b[1])
          /\ told' = told \o Answers({b[1]}, "result")
          /\ pending' = pending \ {b[1]}
          /\ map' = map \ {b} /\ GiveBack({b})
          /\ UNCHANGED cached
       \/ /\ ~Stopped /\ b[1] \notin pending
          /\ map' = map \ {b} /\ GiveBack({b})
          /\ UNCHANGED <<pending, cached, told>>
    /\ UNCHANGED <<mState, live, pulled, mFlush, signal, fw, meta, crashed>>

\* Reprocessing is done with the input buffer, ahead of the output buffer.
InputDone(f) ==
    /\ IsInput(f) /\ f \in pending /\ f \in Frames(hw)
    /\ pending' = pending \ {f}
    /\ told' = told \o Answers({f}, "result")
    /\ UNCHANGED <<mState, cached, map, live, pulled, mFlush, signal, fw, chan, returned, crashed>>

DaemonDies ==
    /\ mState \in {"CONFIGURED", "STARTED"} /\ Apart
    /\ mState' = "ERROR"
    /\ UNCHANGED <<pending, cached, map, live, pulled, mFlush, signal, fw, chan, out>>

DaemonPulls ==
    /\ used["pull"] < MaxPull /\ mState = "STARTED"
    /\ pulled' = TRUE /\ Unblock
    /\ used' = [used EXCEPT !["pull"] = @ + 1]
    /\ UNCHANGED <<mState, pending, cached, map, live, mFlush, hfr, next, pc, device, request, given, fatal, chan, out>>

\* configureStreams, which the framework calls once nothing is outstanding.
Configure ==
    /\ ~fatal /\ mState = "STARTED" /\ pc = [t \in Thread |-> "idle"]
    /\ pending = {} /\ map = {}
    /\ mState' = "CONFIGURED"
    /\ hw' = {} /\ meta' = {}
    /\ UNCHANGED <<pending, cached, map, live, pulled, mFlush, signal, fw, out>>

-----------------------------------------------------------------------------

RequestStep ==
    \/ RestartStop \/ RestartSweep \/ RestartStart \/ SubmitAfterRestart
    \/ Wake

FlushStep(t) ==
    \/ CheckError(t) \/ MarkFlush(t) \/ StopStreams(t)
    \/ StopMetadata(t) \/ FlushSweep(t) \/ Deinit(t)

Next ==
    \/ Submit \/ SubmitWithRestart \/ RequestStep \/ RequestTimesOut
    \/ Flush \/ DaemonDies \/ DaemonPulls \/ Configure
    \/ \E t \in Thread : FindError(t) \/ FlushStep(t)
    \/ \E f \in Frame : Metadata(f) \/ InputDone(f)
    \/ \E b \in Buffer : BufferArrives(b)

\* The threads take their steps, the sensor delivers metadata and the channels
\* their buffers (an overdue one is cancelled by timeoutFrame).  Nothing makes
\* the framework call again.
Fairness ==
    /\ WF_vars(RequestStep)
    /\ \A t \in Thread : WF_vars(FlushStep(t))
    /\ WF_vars(\E f \in Frame : Metadata(f))
    /\ \A b \in Buffer : WF_vars(BufferArrives(b))

Spec == Init /\ [][Next]_vars
FairSpec == Spec /\ Fairness

-----------------------------------------------------------------------------
(* Properties. *)

\* A buffer goes back to the framework once, and not while a channel can still
\* write to it or the buffer map still lists it: results, late buffers, the
\* sweeps of flush, restart and device error never return one twice.
ReturnedOnce ==
    \A b \in Buffer :
        /\ returned[b] <= 1
        /\ returned[b] = 1 => b \notin hw \cup map \cup cached

\* A request gets one final answer, its result or ERROR_REQUEST, live requests
\* get theirs in the order of their frame numbers, and the sweep never takes a
\* request off an empty list: the buffer map and the list of requests agree on
\* what is pending.
AnsweredOnceInOrder ==
    /\ ~crashed
    /\ \A i, j \in DOMAIN told :
        i < j => /\ told[i].frame # told[j].frame
                 /\ ~IsInput(told[i].frame) /\ ~IsInput(told[j].frame)
                        => told[i].frame < told[j].frame

\* mPendingLiveRequest never falls below what the sensor works on nor passes
\* the limit the pipeline has buffers for, whatever the daemon pulls, the
\* flush resets or the metadata misses.
InFlightBounded == Cardinality(meta) <= live /\ live <= MaxInFlight

\* A request never sleeps on mRequestCond once there is room for it, unless
\* the signal that wakes it is under way.
NoLostWakeup == pc["request"] = "wait" /\ live < MinInFlight => signal

\* In the end every buffer of an accepted request is back with the framework,
\* be it with a result, after it, or with an error from a flush or a restart; a
\* call that failed, or a dead daemon the framework did not come to hear of,
\* excuses.
BuffersComeBack ==
    <>[](\/ fatal \/ mState = "ERROR"
         \/ \A b \in given : returned[b] = 1)

\* What the comments of notifyErrorForPendingRequests promise: a request whose
\* metadata was already sent is not answered again, with ERROR_REQUEST.
NoErrorAfterResult ==
    \A i, j \in DOMAIN told :
        i < j /\ told[i].frame = told[j].frame => told[j].answer # "error"

=============================================================================
