-------------------------- MODULE Hal3RequestsProofs --------------------------
(***************************************************************************)
(* Proofs about Hal3Requests: a buffer goes back to the framework once,    *)
(* the requests in flight are bounded, and a waiting request is woken, for *)
(* any streams, requests and limits, and with flushes, restarts and the    *)
(* death of the daemon in any order (FaultsApart TRUE or FALSE).  Requests *)
(* are answered once and in order when those keep apart.                   *)
(***************************************************************************)
EXTENDS Hal3Requests, SelectionTheorems

-----------------------------------------------------------------------------
(* Who is where. *)

FlushTakes   == {"stop", "stop meta", "sweep"}
RestartTakes == {"halt", "unlocked", "start", "add"}

CtlTypes ==
    /\ mState \in {"CONFIGURED", "STARTED", "ERROR", "DEINIT"}
    /\ next \in Nat \ {0}
    /\ mFlush \in BOOLEAN /\ fatal \in BOOLEAN
    /\ pc \in [Thread -> Stage] /\ device \in [Thread -> BOOLEAN]

\* The request thread flushes only when the device is in error, and then submits
\* nothing more; mFlush keeps requests from the channels while another flushes.
KeptOut ==
    /\ pc["request"] \in {"mark", "deinit"} \cup FlushTakes => Stopped /\ device["request"]
    /\ pc["request"] = "check" => device["request"]
    /\ pc["flush"] \in FlushTakes => mFlush \/ (Stopped /\ pc["request"] \notin RestartTakes)

\* mFlush is set only during a flush, or after one that failed.
FlagMeansFlush == mFlush => fatal \/ \E t \in Thread : pc[t] \in FlushTakes

\* A configured device is at rest, but for a request that failed.
AtRest ==
    mState = "CONFIGURED" =>
        /\ \A t \in Thread : pc[t] = "idle"
        /\ ~fatal => pending = {} /\ ~mFlush

\* The request a restart is for can still be entered.
HasRequest == pc["request"] \in RestartTakes => next <= MaxFrame /\ request \in Asked

Control == CtlTypes /\ KeptOut /\ FlagMeansFlush /\ AtRest /\ HasRequest

\* A request is entered: by Submit, or after a restart.
EnterStep(streams) ==
    /\ next <= MaxFrame /\ streams \in Asked
    /\ \/ pc["request"] = "idle" /\ ~fatal /\ mState \in {"CONFIGURED", "STARTED"}
       \/ pc["request"] = "add"
    /\ Enter(next, streams, IF mState = "CONFIGURED" THEN 0 ELSE live)
    /\ UNCHANGED <<mFlush, hfr, device, returned>>

LEMMA SubmitEnters ==
  ASSUME Submit
  PROVE  \E streams \in Asked : EnterStep(streams)
BY DEF Submit, EnterStep, out

LEMMA RestartEnters ==
  ASSUME Control, SubmitAfterRestart
  PROVE  EnterStep(request)
<1>1. mState # "CONFIGURED" /\ pc["request"] = "add"
  BY DEF Control, AtRest, SubmitAfterRestart, Thread
<1> QED BY <1>1 DEF SubmitAfterRestart, EnterStep, Control, HasRequest, RestartTakes, out

LEMMA EnterControl ==
  ASSUME Control, NEW streams \in Asked, EnterStep(streams)
  PROVE  Control'
<1>1. /\ next' = next + 1 /\ mFlush' = mFlush /\ device' = device
      /\ \E s \in {"idle", "wait"} : pc' = [pc EXCEPT !["request"] = s]
      /\ \/ mFlush /\ mState' = mState /\ fatal' = fatal
         \/ ~mFlush /\ mState' = mState /\ fatal' = TRUE
         \/ ~mFlush /\ mState' = "STARTED" /\ fatal' = fatal
  BY DEF EnterStep, Enter
<1>2. PICK s \in {"idle", "wait"} : pc' = [pc EXCEPT !["request"] = s]
  BY <1>1
<1>3. /\ pc'["request"] = s /\ pc'["flush"] = pc["flush"] /\ pc' \in [Thread -> Stage]
  BY <1>2 DEF Control, CtlTypes, Thread, Stage
<1>4. CtlTypes'
  <2>1. mFlush' \in BOOLEAN /\ device' \in [Thread -> BOOLEAN]
    BY <1>1, Zenon DEF Control, CtlTypes
  <2>2. fatal' \in BOOLEAN
    BY <1>1, Zenon DEF Control, CtlTypes
  <2>3. mState' \in {"CONFIGURED", "STARTED", "ERROR", "DEINIT"} /\ next' \in Nat \ {0}
    BY <1>1 DEF Control, CtlTypes
  <2> QED BY <1>3, <2>1, <2>2, <2>3 DEF CtlTypes
<1>5. KeptOut'
  <2>1. pc'["flush"] \in FlushTakes => mFlush' \/ (mState' \in {"ERROR", "DEINIT"})
    <3> SUFFICES ASSUME pc["flush"] \in FlushTakes, ~mFlush PROVE FALSE
      BY <1>1, <1>3 DEF FlushTakes
    <3>1. mState \in {"ERROR", "DEINIT"} /\ pc["request"] \notin RestartTakes
      BY DEF Control, KeptOut, Stopped
    <3> QED BY <3>1 DEF EnterStep, RestartTakes
  <2> QED BY <1>3, <2>1 DEF KeptOut, Stopped, FlushTakes, RestartTakes
<1>6. FlagMeansFlush'
  <2>1. \A t \in Thread : pc[t] \in FlushTakes => pc'[t] \in FlushTakes
    BY <1>3 DEF Thread, EnterStep, FlushTakes
  <2> QED BY <1>1, <2>1 DEF Control, FlagMeansFlush
<1>7. AtRest'
  <2> SUFFICES ASSUME mState' = "CONFIGURED"
               PROVE  /\ \A t \in Thread : pc'[t] = "idle"
                      /\ fatal'
    BY DEF AtRest
  <2>1. mState = "CONFIGURED"
    BY <1>1
  <2>2. pc["request"] = "idle" /\ pc["flush"] = "idle" /\ ~fatal /\ ~mFlush
    BY <2>1 DEF Control, AtRest, Thread, EnterStep
  <2>3. pc' = [pc EXCEPT !["request"] = "idle"] /\ fatal' = TRUE
    BY <1>1, <2>1, <2>2 DEF EnterStep, Enter
  <2> QED BY <1>3, <2>2, <2>3 DEF Thread, Control, CtlTypes
<1>8. HasRequest'
  BY <1>3 DEF HasRequest, RestartTakes
<1> QED BY <1>4, <1>5, <1>6, <1>7, <1>8 DEF Control

\* A step of a callback.
LEMMA QuietControl ==
  ASSUME Control, UNCHANGED <<mState, next, mFlush, pc, device, request, fatal>>,
         pending' \subseteq pending
  PROVE  Control'
<1>1. CtlTypes'
  BY DEF Control, CtlTypes
<1>2. KeptOut' /\ HasRequest'
  BY DEF Control, KeptOut, HasRequest, Stopped
<1>3. FlagMeansFlush' /\ AtRest'
  BY DEF Control, FlagMeansFlush, AtRest
<1> QED BY <1>1, <1>2, <1>3 DEF Control

LEMMA PcMoves ==
  ASSUME CtlTypes, NEW t \in Thread, NEW s \in Stage, pc' = [pc EXCEPT ![t] = s]
  PROVE  /\ pc' \in [Thread -> Stage] /\ pc'[t] = s
         /\ \A u \in Thread : u # t => pc'[u] = pc[u]
BY DEF CtlTypes

\* A step of a restart, which the request thread takes alone.
RestartMoves ==
    \E s \in Stage :
        /\ pc' = [pc EXCEPT !["request"] = s]
        /\ \/ pc["request"] = "idle" /\ mState = "STARTED" /\ s = "halt"
              /\ next <= MaxFrame /\ request' \in Asked /\ fatal' = fatal
           \/ pc["request"] \in RestartTakes /\ s \in RestartTakes
              /\ request' = request /\ fatal' = fatal
           \/ pc["request"] \in RestartTakes /\ s = "idle" /\ fatal' = TRUE

LEMMA RestartControl ==
  ASSUME Control, RestartMoves, UNCHANGED <<mState, next, mFlush, device>>,
         pending' \subseteq pending
  PROVE  Control'
<1>1. PICK s \in Stage : pc' = [pc EXCEPT !["request"] = s]
  BY DEF RestartMoves
<1>2. /\ pc' \in [Thread -> Stage] /\ pc'["request"] = s /\ pc'["flush"] = pc["flush"]
  BY <1>1, PcMoves DEF Control, Thread
<1>3. /\ \/ pc["request"] = "idle" /\ mState = "STARTED" /\ s = "halt"
            /\ next <= MaxFrame /\ request' \in Asked /\ fatal' = fatal
         \/ pc["request"] \in RestartTakes /\ s \in RestartTakes
            /\ request' = request /\ fatal' = fatal
         \/ pc["request"] \in RestartTakes /\ s = "idle" /\ fatal' = TRUE
  BY <1>1, <1>2, PcMoves DEF RestartMoves, Control, Thread
<1>4. CtlTypes'
  <2>1. fatal' \in BOOLEAN
    BY <1>3, Zenon DEF Control, CtlTypes
  <2> QED BY <1>2, <2>1 DEF Control, CtlTypes
<1>5. KeptOut'
  BY <1>2, <1>3 DEF Control, KeptOut, Stopped, FlushTakes, RestartTakes
<1>6. FlagMeansFlush'
  BY <1>2, <1>3 DEF Control, FlagMeansFlush, FlushTakes, RestartTakes, Thread
<1>7. AtRest'
  <2>1. mState # "CONFIGURED"
    BY <1>3 DEF Control, AtRest, RestartTakes, Thread
  <2> QED BY <2>1 DEF AtRest
<1>8. HasRequest'
  BY <1>2, <1>3 DEF Control, HasRequest, RestartTakes
<1> QED BY <1>4, <1>5, <1>6, <1>7, <1>8 DEF Control

LEMMA RestartStepsControl ==
  ASSUME Control, SubmitWithRestart \/ RestartStop \/ RestartSweep \/ RestartStart
  PROVE  Control'
<1>1. CASE SubmitWithRestart
  BY <1>1, RestartControl DEF SubmitWithRestart, RestartMoves, hal, Stage
<1>2. CASE RestartStop
  BY <1>2, RestartControl DEF RestartStop, RestartMoves, hal, Stage, RestartTakes
<1>3. CASE RestartSweep
  BY <1>3, RestartControl DEF RestartSweep, Sweep, RestartMoves, Stage, RestartTakes
<1>4. CASE RestartStart
  BY <1>4, RestartControl DEF RestartStart, RestartMoves, hal, Stage, RestartTakes
<1> QED BY <1>1, <1>2, <1>3, <1>4

\* The request thread leaves its wait.
LEMMA WakeControl ==
  ASSUME Control, Wake \/ RequestTimesOut
  PROVE  Control'
<1>1. /\ pc["request"] = "wait"
      /\ UNCHANGED <<mState, next, mFlush, device, request, pending>>
      /\ fatal' = fatal \/ fatal' = TRUE
  BY DEF Wake, RequestTimesOut, hal
<1>2. PICK s \in {"idle", "wait"} : pc' = [pc EXCEPT !["request"] = s]
  BY DEF Wake, RequestTimesOut
<1>3. pc' \in [Thread -> Stage] /\ pc'["request"] = s /\ pc'["flush"] = pc["flush"]
  BY <1>2, PcMoves DEF Control, Thread, Stage
<1>4. CtlTypes'
  <2>1. fatal' \in BOOLEAN
    BY <1>1, Zenon DEF Control, CtlTypes
  <2> QED BY <1>1, <1>3, <2>1 DEF Control, CtlTypes
<1>5. KeptOut' /\ HasRequest'
  BY <1>1, <1>3 DEF Control, KeptOut, HasRequest, Stopped, FlushTakes, RestartTakes
<1>6. FlagMeansFlush'
  BY <1>1, <1>3 DEF Control, FlagMeansFlush, FlushTakes, Thread
<1>7. AtRest'
  <2>1. mState # "CONFIGURED"
    BY <1>1 DEF Control, AtRest, Thread
  <2> QED BY <1>1, <2>1 DEF AtRest
<1> QED BY <1>4, <1>5, <1>6, <1>7 DEF Control

\* A step of a flush that leaves the device's state and mFlush.
LEMMA FlushMoves ==
  ASSUME Control, NEW t \in Thread, NEW s \in Stage, pc' = [pc EXCEPT ![t] = s],
         UNCHANGED <<mState, next, mFlush, request>>, pending' = pending,
         device' \in [Thread -> BOOLEAN], fatal' \in BOOLEAN, fatal => fatal',
         mState # "CONFIGURED",
         \/ s = "idle" \/ s = "check" \/ s = "mark"
         \/ s \in {"stop meta", "sweep", "deinit"} /\ pc[t] \in FlushTakes,
         t = "flush" => device'["request"] = device["request"],
         t = "request" => /\ pc["request"] \notin RestartTakes
                          /\ s # "idle" => device'["request"]
                          /\ s \notin {"idle", "check"} => Stopped,
         pc[t] \in FlushTakes => s \in FlushTakes \/ fatal'
  PROVE  Control'
<1>1. pc' \in [Thread -> Stage] /\ pc'[t] = s /\ \A u \in Thread : u # t => pc'[u] = pc[u]
  BY PcMoves DEF Control
<1>2. CtlTypes'
  BY <1>1 DEF Control, CtlTypes
<1>3. KeptOut'
  <2>1. CASE t = "request"
    BY <1>1, <2>1 DEF Control, KeptOut, Stopped, FlushTakes, RestartTakes, Thread
  <2>2. CASE t = "flush"
    BY <1>1, <2>2 DEF Control, KeptOut, Stopped, FlushTakes, Thread
  <2> QED BY <2>1, <2>2 DEF Thread
<1>4. FlagMeansFlush'
  BY <1>1 DEF Control, FlagMeansFlush
<1>5. AtRest'
  BY DEF AtRest
<1>6. HasRequest'
  BY <1>1 DEF Control, HasRequest, RestartTakes, Thread
<1> QED BY <1>2, <1>3, <1>4, <1>5, <1>6 DEF Control

LEMMA FlushBeginsControl ==
  ASSUME Control, Flush
  PROVE  Control'
<1>1. /\ pc["flush"] = "idle" /\ mState = "STARTED"
      /\ pc' = [pc EXCEPT !["flush"] = "mark"]
      /\ device' = [device EXCEPT !["flush"] = FALSE]
      /\ UNCHANGED <<mState, next, mFlush, request, pending, fatal>>
  BY DEF Flush, hal
<1>2. device' \in [Thread -> BOOLEAN] /\ device'["request"] = device["request"]
  BY <1>1 DEF Control, CtlTypes, Thread
<1>3. fatal' \in BOOLEAN /\ (fatal => fatal')
  BY <1>1, Zenon DEF Control, CtlTypes
<1> QED BY <1>1, <1>2, <1>3, FlushMoves DEF Thread, Stage, FlushTakes

LEMMA FindErrorControl ==
  ASSUME Control, NEW t \in Thread, FindError(t)
  PROVE  Control'
<1>1. /\ pc[t] = "idle" /\ mState = "ERROR"
      /\ pc' = [pc EXCEPT ![t] = "check"]
      /\ device' = [device EXCEPT ![t] = TRUE]
      /\ UNCHANGED <<mState, next, mFlush, request, pending, fatal>>
  BY DEF FindError, hal
<1>2. /\ device' \in [Thread -> BOOLEAN] /\ device'[t]
      /\ t = "flush" => device'["request"] = device["request"]
  BY <1>1 DEF Control, CtlTypes, Thread
<1>3. fatal' \in BOOLEAN /\ (fatal => fatal')
  BY <1>1, Zenon DEF Control, CtlTypes
<1> QED BY <1>1, <1>2, <1>3, FlushMoves DEF Stage, FlushTakes, RestartTakes

LEMMA CheckErrorControl ==
  ASSUME Control, NEW t \in Thread, CheckError(t)
  PROVE  Control'
<1>1. /\ pc[t] = "check" /\ fatal' = (fatal \/ mState # "ERROR")
      /\ UNCHANGED <<mState, next, mFlush, request, pending, device>>
  BY DEF CheckError, hal
<1>2. PICK s \in {"mark", "idle"} : pc' = [pc EXCEPT ![t] = s] /\ (s = "mark" => mState = "ERROR")
  BY DEF CheckError
<1>3. fatal' \in BOOLEAN /\ (fatal => fatal')
  BY <1>1, Zenon
<1>4. /\ device' \in [Thread -> BOOLEAN] /\ device'["request"] = device["request"]
      /\ t = "request" => device["request"]
  BY <1>1 DEF Control, CtlTypes, KeptOut, AtRest
<1>5. mState # "CONFIGURED"
  BY <1>1 DEF Control, AtRest
<1> QED BY <1>1, <1>2, <1>3, <1>4, <1>5, FlushMoves DEF Stage, FlushTakes, RestartTakes, Stopped

LEMMA MarkFlushControl ==
  ASSUME Control, NEW t \in Thread, MarkFlush(t)
  PROVE  Control'
<1>1. /\ pc[t] = "mark" /\ mFlush' = TRUE /\ pc' = [pc EXCEPT ![t] = "stop"]
      /\ UNCHANGED <<mState, next, request, pending, device, fatal>>
  BY DEF MarkFlush
<1>2. pc' \in [Thread -> Stage] /\ pc'[t] = "stop" /\ \A u \in Thread : u # t => pc'[u] = pc[u]
  BY <1>1, PcMoves DEF Control, Stage
<1>3. CtlTypes'
  BY <1>1, <1>2 DEF Control, CtlTypes
<1>4. KeptOut' /\ HasRequest'
  BY <1>1, <1>2 DEF Control, KeptOut, HasRequest, Stopped, FlushTakes, RestartTakes, Thread
<1>5. FlagMeansFlush'
  BY <1>1, <1>2 DEF FlagMeansFlush, FlushTakes
<1>6. AtRest'
  <2>1. mState # "CONFIGURED"
    BY <1>1 DEF Control, AtRest
  <2> QED BY <1>1, <2>1 DEF AtRest
<1> QED BY <1>3, <1>4, <1>5, <1>6 DEF Control

LEMMA StopStreamsControl ==
  ASSUME Control, NEW t \in Thread, StopStreams(t)
  PROVE  Control'
<1>1. /\ pc[t] = "stop" /\ pc' = [pc EXCEPT ![t] = "stop meta"]
      /\ UNCHANGED <<mState, next, mFlush, request, pending, device, fatal>>
  BY DEF StopStreams, hal
<1>2. fatal' \in BOOLEAN /\ (fatal => fatal')
  BY <1>1, Zenon DEF Control, CtlTypes
<1>3. /\ device' \in [Thread -> BOOLEAN] /\ mState # "CONFIGURED"
      /\ t = "request" => device'["request"] /\ Stopped
  BY <1>1 DEF Control, CtlTypes, KeptOut, AtRest, FlushTakes
<1> QED BY <1>1, <1>2, <1>3, FlushMoves DEF Stage, FlushTakes, RestartTakes

LEMMA StopMetadataControl ==
  ASSUME Control, NEW t \in Thread, StopMetadata(t)
  PROVE  Control'
<1>1. /\ pc[t] = "stop meta"
      /\ UNCHANGED <<mState, next, mFlush, request, pending, device>>
  BY DEF StopMetadata, hal
<1>2. PICK s \in {"sweep", "deinit", "idle"} :
        /\ pc' = [pc EXCEPT ![t] = s]
        /\ \/ s = "sweep" /\ fatal' = fatal
           \/ s # "sweep" /\ fatal' = TRUE
  BY DEF StopMetadata
<1>3. fatal' \in BOOLEAN /\ (fatal => fatal') /\ (s # "sweep" => fatal')
  BY <1>2, Zenon DEF Control, CtlTypes
<1>4. /\ device' \in [Thread -> BOOLEAN] /\ mState # "CONFIGURED"
      /\ t = "request" => device'["request"] /\ Stopped
  BY <1>1 DEF Control, CtlTypes, KeptOut, AtRest, FlushTakes
<1> QED BY <1>1, <1>2, <1>3, <1>4, FlushMoves DEF Stage, FlushTakes, RestartTakes

LEMMA FlushSweepControl ==
  ASSUME Control, NEW t \in Thread, FlushSweep(t)
  PROVE  Control'
<1>1. /\ pc[t] = "sweep" /\ mFlush' = FALSE
      /\ UNCHANGED <<mState, next, request, device>>
  BY DEF FlushSweep
<1>2. fatal' = fatal \/ fatal' = TRUE
  BY DEF FlushSweep
<1>3. fatal' \in BOOLEAN
  BY <1>2, Zenon DEF Control, CtlTypes
<1>4. PICK s \in {"deinit", "idle"} : /\ pc' = [pc EXCEPT ![t] = s]
                                      /\ s = "idle" => ~device[t]
  BY DEF FlushSweep
<1>5. pc' \in [Thread -> Stage] /\ pc'[t] = s /\ \A u \in Thread : u # t => pc'[u] = pc[u]
  BY <1>4, PcMoves DEF Control, Stage
<1>6. CtlTypes'
  BY <1>1, <1>3, <1>5 DEF Control, CtlTypes
<1>7. KeptOut'
  <2>1. CASE t = "request"
    BY <1>1, <1>4, <1>5, <2>1
       DEF Control, KeptOut, Stopped, FlushTakes, RestartTakes, Thread
  <2>2. CASE t = "flush"
    BY <1>1, <1>4, <1>5, <2>2 DEF Control, KeptOut, Stopped, FlushTakes, Thread
  <2> QED BY <2>1, <2>2 DEF Thread
<1>8. FlagMeansFlush'
  BY <1>1 DEF FlagMeansFlush
<1>9. AtRest'
  <2>1. mState # "CONFIGURED"
    BY <1>1 DEF Control, AtRest
  <2> QED BY <1>1, <2>1 DEF AtRest
<1>10. HasRequest'
  BY <1>1, <1>5 DEF Control, HasRequest, RestartTakes, Thread
<1> QED BY <1>6, <1>7, <1>8, <1>9, <1>10 DEF Control

LEMMA DeinitControl ==
  ASSUME Control, NEW t \in Thread, Deinit(t)
  PROVE  Control'
<1>1. /\ pc[t] = "deinit" /\ mState' = "DEINIT" /\ fatal' = TRUE
      /\ pc' = [pc EXCEPT ![t] = "idle"]
      /\ UNCHANGED <<next, mFlush, request, pending, device>>
  BY DEF Deinit
<1>2. pc' \in [Thread -> Stage] /\ pc'[t] = "idle" /\ \A u \in Thread : u # t => pc'[u] = pc[u]
  BY <1>1, PcMoves DEF Control, Stage
<1>3. CtlTypes'
  BY <1>1, <1>2 DEF Control, CtlTypes
<1>4. KeptOut'
  BY <1>1, <1>2 DEF Control, KeptOut, Stopped, FlushTakes, RestartTakes, Thread
<1>5. FlagMeansFlush' /\ AtRest'
  BY <1>1 DEF FlagMeansFlush, AtRest
<1>6. HasRequest'
  BY <1>1, <1>2 DEF Control, HasRequest, RestartTakes, Thread
<1> QED BY <1>3, <1>4, <1>5, <1>6 DEF Control

LEMMA DaemonDiesControl ==
  ASSUME Control, DaemonDies
  PROVE  Control'
<1>1. /\ mState \in {"CONFIGURED", "STARTED"} /\ mState' = "ERROR"
      /\ UNCHANGED <<next, mFlush, request, pending, device, pc, fatal>>
  BY DEF DaemonDies, fw
<1>2. CtlTypes'
  BY <1>1 DEF Control, CtlTypes
<1>3. KeptOut'
  BY <1>1 DEF Control, KeptOut, Stopped
<1>4. FlagMeansFlush' /\ AtRest' /\ HasRequest'
  BY <1>1 DEF Control, FlagMeansFlush, AtRest, HasRequest
<1> QED BY <1>2, <1>3, <1>4 DEF Control

LEMMA ConfigureControl ==
  ASSUME Control, Configure
  PROVE  Control'
<1>1. /\ mState = "STARTED" /\ mState' = "CONFIGURED" /\ ~fatal
      /\ pc = [t \in Thread |-> "idle"] /\ pending = {}
      /\ UNCHANGED <<next, mFlush, request, pending, device, pc, fatal>>
  BY DEF Configure, fw
<1>2. CtlTypes'
  BY <1>1 DEF Control, CtlTypes
<1>3. \A t \in Thread : pc[t] = "idle"
  BY <1>1
<1>4. KeptOut'
  BY <1>1, <1>3 DEF Control, KeptOut, Stopped, FlushTakes, Thread
<1>5. FlagMeansFlush' /\ AtRest' /\ HasRequest'
  BY <1>1, <1>3 DEF Control, FlagMeansFlush, AtRest, HasRequest, FlushTakes
<1> QED BY <1>2, <1>4, <1>5 DEF Control

-----------------------------------------------------------------------------
(* The buffers. *)

\* What the channels hold and what is kept is in the buffer map, never both; a
\* buffer in the map, or of a request to come, has not been returned.
BuffersInv ==
    /\ map \subseteq Buffer /\ returned \in [Buffer -> Nat]
    /\ hw \cup cached \subseteq map /\ hw \cap cached = {}
    /\ \A b \in map : b[1] < next /\ returned[b] = 0
    /\ \A b \in Buffer : returned[b] <= 1 /\ (returned[b] = 1 => b[1] < next)

\* The channels are empty when a sweep may come.
Emptied ==
    /\ pc["request"] \in RestartTakes \ {"halt"} => hw = {} /\ meta = {}
    /\ \A t \in Thread : pc[t] \in {"stop meta", "sweep"} => hw = {}
    /\ \A t \in Thread : pc[t] = "sweep" => meta = {}

LEMMA BuffersOnce == BuffersInv => ReturnedOnce
BY DEF BuffersInv, ReturnedOnce

\* Buffers of the map are given back.
LEMMA GivesBackOnce ==
  ASSUME BuffersInv, NEW R \in SUBSET map, GiveBack(R), map' = map \ R, next' = next,
         hw' \cup cached' \subseteq map', hw' \cap cached' = {}
  PROVE  BuffersInv'
<1>1. returned' = [b \in Buffer |-> returned[b] + IF b \in R THEN 1 ELSE 0]
  BY DEF GiveBack
<1>2. \A b \in Buffer : /\ b \in R => returned'[b] = returned[b] + 1
                        /\ b \notin R => returned'[b] = returned[b]
  BY <1>1 DEF BuffersInv
<1>3. returned' \in [Buffer -> Nat]
  BY <1>1 DEF BuffersInv
<1>4. \A b \in map' : b[1] < next' /\ returned'[b] = 0
  BY <1>2 DEF BuffersInv
<1>5. \A b \in Buffer : returned'[b] <= 1 /\ (returned'[b] = 1 => b[1] < next')
  BY <1>2 DEF BuffersInv
<1> QED BY <1>3, <1>4, <1>5 DEF BuffersInv

\* Nothing is given back.
LEMMA GivesNothing ==
  ASSUME BuffersInv, UNCHANGED <<map, returned, next>>,
         hw' \cup cached' \subseteq map', hw' \cap cached' = {}
  PROVE  BuffersInv'
BY DEF BuffersInv

\* A sweep, while the channels have nothing.
LEMMA SweepGivesOnce ==
  ASSUME BuffersInv, Sweep, next' = next, hw = {}, hw' = hw
  PROVE  BuffersInv'
<1>1. GiveBack(map) /\ map' = {} /\ cached' = {}
  BY DEF Sweep
<1> QED BY <1>1, GivesBackOnce

\* A request's buffers are new.
LEMMA EnterBuffers ==
  ASSUME BuffersInv, CtlTypes, NEW streams \in Asked, EnterStep(streams)
  PROVE  BuffersInv'
<1> DEFINE new == {next} \X streams
<1>1. /\ map' = map \cup new /\ next' = next + 1
      /\ UNCHANGED <<cached, returned>> /\ next <= MaxFrame
      /\ hw' \subseteq hw \cup new
  BY DEF EnterStep, Enter, chan
<1>2. next \in Nat /\ next >= 1 /\ next \in Frame /\ MaxFrame \in Nat
  BY <1>1, RequestAssumption DEF CtlTypes, Frame
<1>3. streams \subseteq Stream
  BY RequestAssumption
<1>4. new \subseteq Buffer /\ \A b \in new : b[1] = next
  BY <1>2, <1>3 DEF Buffer
<1>5. \A b \in Buffer : b[1] \in Nat
  BY <1>2 DEF Buffer, Frame
<1>6. \A b \in new : returned[b] = 0 /\ b \notin map
  BY <1>2, <1>4 DEF BuffersInv
<1> HIDE DEF new
<1>7. map' \subseteq Buffer /\ hw' \cup cached' \subseteq map' /\ hw' \cap cached' = {}
  BY <1>1, <1>4, <1>6 DEF BuffersInv
<1>8. \A b \in Buffer : b[1] < next => b[1] < next'
  BY <1>1, <1>2, <1>5
<1>9. \A b \in map' : b[1] < next' /\ returned'[b] = 0
  BY <1>1, <1>2, <1>4, <1>6, <1>8 DEF BuffersInv
<1>10. \A b \in Buffer : returned'[b] <= 1 /\ (returned'[b] = 1 => b[1] < next')
  BY <1>1, <1>8 DEF BuffersInv
<1>11. returned' \in [Buffer -> Nat]
  BY <1>1 DEF BuffersInv
<1> QED BY <1>7, <1>9, <1>10, <1>11 DEF BuffersInv

LEMMA MetadataBuffers ==
  ASSUME BuffersInv, NEW f \in Frame, Metadata(f)
  PROVE  BuffersInv'
<1>0. next' = next /\ hw' = hw
  BY DEF Metadata, fw
<1>1. CASE Stopped
  BY <1>0, <1>1, GivesNothing DEF Metadata, BuffersInv
<1>2. CASE ~Stopped
  <2> DEFINE D == Of(Completes(f), cached)
  <2>1. GiveBack(D) /\ map' = map \ D /\ cached' = cached \ D
    BY <1>2 DEF Metadata
  <2>2. D \subseteq cached
    BY DEF Of
  <2> HIDE DEF D
  <2>3. D \in SUBSET map /\ hw' \cup cached' \subseteq map' /\ hw' \cap cached' = {}
    BY <1>0, <2>1, <2>2 DEF BuffersInv
  <2> QED BY <1>0, <2>1, <2>3, GivesBackOnce
<1> QED BY <1>1, <1>2

LEMMA ArrivalBuffers ==
  ASSUME BuffersInv, NEW b \in Buffer, BufferArrives(b)
  PROVE  BuffersInv'
<1>0. next' = next /\ b \in hw /\ hw' = hw \ {b} /\ b \in map /\ b \notin cached
  BY DEF BufferArrives, fw, BuffersInv
<1>1. CASE UNCHANGED <<map, returned>> /\ cached' \subseteq cached \cup {b}
  BY <1>0, <1>1, GivesNothing DEF BuffersInv
<1>2. CASE map' = map \ {b} /\ GiveBack({b}) /\ cached' = cached
  <2>1. {b} \in SUBSET map /\ hw' \cup cached' \subseteq map' /\ hw' \cap cached' = {}
    BY <1>0, <1>2 DEF BuffersInv
  <2> QED BY <1>0, <1>2, <2>1, GivesBackOnce
<1> QED BY <1>1, <1>2 DEF BufferArrives

LEMMA FlushSweepBuffers ==
  ASSUME BuffersInv, Emptied, NEW t \in Thread, FlushSweep(t)
  PROVE  BuffersInv'
<1>1. hw = {} /\ hw' = hw /\ next' = next
  BY DEF FlushSweep, chan, Emptied
<1>2. CASE pc["request"] = "unlocked"
  BY <1>1, <1>2, GivesNothing DEF FlushSweep, BuffersInv
<1>3. CASE pc["request"] # "unlocked"
  BY <1>1, <1>3, SweepGivesOnce DEF FlushSweep
<1> QED BY <1>2, <1>3

LEMMA RestartSweepBuffers ==
  ASSUME BuffersInv, Emptied, RestartSweep
  PROVE  BuffersInv'
BY SweepGivesOnce DEF RestartSweep, Emptied, RestartTakes, chan

-----------------------------------------------------------------------------
(* The channels are empty. *)

\* A step that moves at most thread t, from places where nothing is promised.
LEMMA EnterEmptied ==
  ASSUME Control, Emptied, NEW streams \in Asked, EnterStep(streams)
  PROVE  Emptied'
<1>1. PICK s \in {"idle", "wait"} : pc' = [pc EXCEPT !["request"] = s]
  BY DEF EnterStep, Enter
<1>2. pc'["request"] = s /\ pc'["flush"] = pc["flush"]
  BY <1>1, PcMoves DEF Control, Thread, Stage
<1>3. CASE mFlush
  BY <1>2, <1>3 DEF EnterStep, Enter, Emptied, chan, RestartTakes, Thread
<1>4. CASE ~mFlush
  <2>1. pc["flush"] \notin FlushTakes
    BY <1>4 DEF EnterStep, Control, KeptOut, Stopped, RestartTakes
  <2> QED BY <1>2, <2>1 DEF Emptied, RestartTakes, FlushTakes, Thread
<1> QED BY <1>3, <1>4

\* The channels' buffers and metadata only become fewer otherwise.
LEMMA FewerEmptied ==
  ASSUME Emptied, UNCHANGED pc, hw' \subseteq hw, meta' \subseteq meta
  PROVE  Emptied'
BY DEF Emptied

LEMMA MovesEmptied ==
  ASSUME CtlTypes, Emptied, NEW t \in Thread, NEW s \in Stage, pc' = [pc EXCEPT ![t] = s],
         hw' \subseteq hw, meta' \subseteq meta,
         t = "request" /\ s \in RestartTakes \ {"halt"} => hw' = {} /\ meta' = {},
         s \in {"stop meta", "sweep"} => hw' = {},
         s = "sweep" => meta' = {}
  PROVE  Emptied'
<1>1. pc'[t] = s /\ \A u \in Thread : u # t => pc'[u] = pc[u]
  BY PcMoves
<1>2. pc'["request"] \in RestartTakes \ {"halt"} => hw' = {} /\ meta' = {}
  BY <1>1 DEF Emptied, Thread
<1>3. \A u \in Thread : pc'[u] \in {"stop meta", "sweep"} => hw' = {}
  BY <1>1 DEF Emptied
<1>4. \A u \in Thread : pc'[u] = "sweep" => meta' = {}
  BY <1>1 DEF Emptied
<1> QED BY <1>2, <1>3, <1>4 DEF Emptied

-----------------------------------------------------------------------------

(* Every step keeps these three. *)

HInv == Control /\ BuffersInv /\ Emptied

LEMMA InitHolds == Init => HInv
<1> SUFFICES ASSUME Init PROVE HInv
  OBVIOUS
<1>1. Control
  <2>1. mState = "CONFIGURED" /\ \A t \in Thread : pc[t] = "idle"
    BY DEF Init
  <2>2. CtlTypes
    <3>1. mFlush \in BOOLEAN /\ fatal \in BOOLEAN
      BY Zenon DEF Init
    <3>2. pc \in [Thread -> Stage] /\ device \in [Thread -> BOOLEAN]
      BY Zenon DEF Init, Stage
    <3>3. next \in Nat \ {0}
      BY DEF Init
    <3> QED BY <2>1, <3>1, <3>2, <3>3 DEF CtlTypes
  <2>3. KeptOut /\ HasRequest
    BY <2>1 DEF KeptOut, HasRequest, Thread, FlushTakes, RestartTakes
  <2>4. FlagMeansFlush /\ AtRest
    BY <2>1 DEF Init, FlagMeansFlush, AtRest
  <2> QED BY <2>2, <2>3, <2>4 DEF Control
<1>2. BuffersInv
  BY DEF Init, BuffersInv
<1>3. Emptied
  BY DEF Init, Emptied, Thread, RestartTakes
<1> QED BY <1>1, <1>2, <1>3 DEF HInv

LEMMA EnterKeeps ==
  ASSUME HInv, Submit \/ SubmitAfterRestart
  PROVE  HInv'
<1>1. PICK streams \in Asked : EnterStep(streams)
  <2>1. CASE Submit
    BY <2>1, SubmitEnters
  <2>2. CASE SubmitAfterRestart
    <3>1. EnterStep(request)
      BY <2>2, RestartEnters DEF HInv
    <3>2. request \in Asked
      BY <2>2 DEF SubmitAfterRestart, HInv, Control, HasRequest, RestartTakes
    <3> QED BY <3>1, <3>2
  <2> QED BY <2>1, <2>2
<1>2. Control'
  BY <1>1, EnterControl DEF HInv
<1>3. BuffersInv'
  BY <1>1, EnterBuffers DEF HInv, Control
<1>4. Emptied'
  BY <1>1, EnterEmptied DEF HInv
<1> QED BY <1>2, <1>3, <1>4 DEF HInv

LEMMA RestartKeeps ==
  ASSUME HInv, SubmitWithRestart \/ RestartStop \/ RestartSweep \/ RestartStart
  PROVE  HInv'
<1>1. Control'
  BY RestartStepsControl DEF HInv
<1>2. BuffersInv'
  <2>1. CASE RestartSweep
    BY <2>1, RestartSweepBuffers DEF HInv
  <2>2. CASE SubmitWithRestart \/ RestartStop \/ RestartStart
    <3>1. UNCHANGED <<map, cached, returned, next>> /\ (hw' = hw \/ hw' = {})
      BY <2>2 DEF SubmitWithRestart, RestartStop, RestartStart, hal, chan, out
    <3>2. hw' \cup cached' \subseteq map' /\ hw' \cap cached' = {}
      BY <3>1 DEF HInv, BuffersInv
    <3> QED BY <3>1, <3>2, GivesNothing DEF HInv
  <2> QED BY <2>1, <2>2
<1>3. Emptied'
  <2>1. PICK s \in Stage : pc' = [pc EXCEPT !["request"] = s]
                           /\ (s \in RestartTakes \ {"halt"} => hw' = {} /\ meta' = {})
    <3>1. CASE SubmitWithRestart
      BY <3>1 DEF SubmitWithRestart, Stage
    <3>2. CASE RestartStop
      BY <3>2 DEF RestartStop, Stage
    <3>3. CASE RestartSweep
      BY <3>3 DEF RestartSweep, Stage, HInv, Emptied, RestartTakes, chan
    <3>4. CASE RestartStart
      BY <3>4 DEF RestartStart, Stage, HInv, Emptied, RestartTakes, chan
    <3> QED BY <3>1, <3>2, <3>3, <3>4
  <2>2. s \notin {"stop meta", "sweep"}
    <3>1. pc'["request"] = s
      BY <2>1, PcMoves DEF HInv, Control, Thread
    <3>2. pc'["request"] \in RestartTakes \cup {"idle"}
      BY DEF SubmitWithRestart, RestartStop, RestartSweep, RestartStart, RestartTakes,
             HInv, Control, CtlTypes, Thread
    <3> QED BY <3>1, <3>2 DEF RestartTakes
  <2>3. hw' \subseteq hw /\ meta' \subseteq meta
    BY DEF SubmitWithRestart, RestartStop, RestartSweep, RestartStart, chan
  <2> QED BY <2>1, <2>2, <2>3, MovesEmptied DEF HInv, Control, Thread
<1> QED BY <1>1, <1>2, <1>3 DEF HInv

LEMMA WaitKeeps ==
  ASSUME HInv, Wake \/ RequestTimesOut
  PROVE  HInv'
<1>1. Control'
  BY WakeControl DEF HInv
<1>2. UNCHANGED <<map, cached, returned, next, hw, meta>>
  BY DEF Wake, RequestTimesOut, hal, chan, out
<1>3. BuffersInv'
  BY <1>2 DEF HInv, BuffersInv
<1>4. Emptied'
  <2>1. PICK s \in {"idle", "wait"} : pc' = [pc EXCEPT !["request"] = s]
    BY DEF Wake, RequestTimesOut
  <2> QED BY <1>2, <2>1, MovesEmptied DEF HInv, Control, Thread, Stage, RestartTakes
<1> QED BY <1>1, <1>3, <1>4 DEF HInv

\* The steps of a flush before its sweep, and the last one.
LEMMA FlushKeeps ==
  ASSUME HInv, NEW t \in Thread,
         \/ FindError(t) \/ CheckError(t) \/ MarkFlush(t) \/ StopStreams(t)
         \/ StopMetadata(t) \/ Deinit(t)
  PROVE  HInv'
<1>1. Control'
  BY FindErrorControl, CheckErrorControl, MarkFlushControl, StopStreamsControl,
     StopMetadataControl, DeinitControl DEF HInv
<1>2. UNCHANGED <<map, cached, returned, next>> /\ hw' \subseteq hw /\ meta' \subseteq meta
  BY DEF FindError, CheckError, MarkFlush, StopStreams, StopMetadata, Deinit,
         hal, chan, out
<1>3. BuffersInv'
  BY <1>2 DEF HInv, BuffersInv
<1>4. PICK s \in Stage :
        /\ pc' = [pc EXCEPT ![t] = s] /\ s \notin RestartTakes
        /\ s \in {"stop meta", "sweep"} => hw' = {}
        /\ s = "sweep" => meta' = {}
  <2>1. CASE FindError(t) \/ CheckError(t) \/ MarkFlush(t) \/ Deinit(t)
    BY <2>1 DEF FindError, CheckError, MarkFlush, Deinit, Stage, RestartTakes
  <2>2. CASE StopStreams(t)
    BY <2>2 DEF StopStreams, Stage, RestartTakes
  <2>3. CASE StopMetadata(t)
    <3>1. hw' = {} /\ meta' = {}
      BY <2>3 DEF StopMetadata, HInv, Emptied
    <3>2. \E s \in {"sweep", "deinit", "idle"} : pc' = [pc EXCEPT ![t] = s]
      BY <2>3 DEF StopMetadata
    <3> QED BY <3>1, <3>2 DEF Stage, RestartTakes
  <2> QED BY <2>1, <2>2, <2>3
<1>5. Emptied'
  BY <1>2, <1>4, MovesEmptied DEF HInv, Control
<1> QED BY <1>1, <1>3, <1>5 DEF HInv

LEMMA SweepKeeps ==
  ASSUME HInv, NEW t \in Thread, FlushSweep(t)
  PROVE  HInv'
<1>1. Control'
  BY FlushSweepControl DEF HInv
<1>2. BuffersInv'
  BY FlushSweepBuffers DEF HInv
<1>3. Emptied'
  <2>1. PICK s \in {"deinit", "idle"} : pc' = [pc EXCEPT ![t] = s]
    BY DEF FlushSweep
  <2>2. UNCHANGED <<hw, meta>>
    BY DEF FlushSweep, chan
  <2> QED BY <2>1, <2>2, MovesEmptied DEF HInv, Control, Stage, RestartTakes
<1> QED BY <1>1, <1>2, <1>3 DEF HInv

\* The framework's flush begins, the daemon acts, the streams are configured.
LEMMA OthersKeep ==
  ASSUME HInv, Flush \/ DaemonDies \/ DaemonPulls \/ Configure
  PROVE  HInv'
<1>1. Control'
  <2>1. CASE DaemonPulls
    BY <2>1, QuietControl DEF DaemonPulls, HInv
  <2> QED BY <2>1, FlushBeginsControl, DaemonDiesControl, ConfigureControl DEF HInv
<1>2. UNCHANGED <<map, cached, returned, next>> /\ hw' \subseteq hw /\ meta' \subseteq meta
  BY DEF Flush, DaemonDies, DaemonPulls, Configure, hal, chan, out, fw
<1>3. BuffersInv'
  BY <1>2 DEF HInv, BuffersInv
<1>4. Emptied'
  <2>1. CASE Flush
    <3>1. pc' = [pc EXCEPT !["flush"] = "mark"]
      BY <2>1 DEF Flush
    <3> QED BY <1>2, <3>1, MovesEmptied DEF HInv, Control, Thread, Stage
  <2>2. CASE DaemonDies \/ DaemonPulls \/ Configure
    <3>1. UNCHANGED pc
      BY <2>2 DEF DaemonDies, DaemonPulls, Configure, fw
    <3> QED BY <1>2, <3>1, FewerEmptied DEF HInv
  <2> QED BY <2>1, <2>2
<1> QED BY <1>1, <1>3, <1>4 DEF HInv

LEMMA CallbackKeeps ==
  ASSUME HInv,
         \/ \E f \in Frame : Metadata(f) \/ InputDone(f)
         \/ \E b \in Buffer : BufferArrives(b)
  PROVE  HInv'
<1>1. /\ UNCHANGED <<mState, next, mFlush, pc, device, request, fatal>>
      /\ pending' \subseteq pending /\ hw' \subseteq hw /\ meta' \subseteq meta
  BY DEF Metadata, InputDone, BufferArrives, fw, chan
<1>2. Control'
  BY <1>1, QuietControl DEF HInv
<1>3. BuffersInv'
  <2>1. CASE \E f \in Frame : Metadata(f)
    BY <2>1, MetadataBuffers DEF HInv
  <2>2. CASE \E f \in Frame : InputDone(f)
    BY <2>2 DEF InputDone, HInv, BuffersInv, fw, chan
  <2>3. CASE \E b \in Buffer : BufferArrives(b)
    BY <2>3, ArrivalBuffers DEF HInv
  <2> QED BY <2>1, <2>2, <2>3
<1>4. Emptied'
  BY <1>1, FewerEmptied DEF HInv
<1> QED BY <1>2, <1>3, <1>4 DEF HInv

LEMMA NextKeeps ==
  ASSUME HInv, [Next]_vars
  PROVE  HInv'
<1>1. CASE UNCHANGED vars
  <2>1. UNCHANGED <<mState, next, mFlush, pc, device, request, fatal, pending>>
        /\ UNCHANGED <<map, cached, returned, hw, meta>>
    BY <1>1 DEF vars, hal, fw, chan, out
  <2> QED BY <2>1, QuietControl, FewerEmptied DEF HInv, BuffersInv
<1>2. CASE Next
  BY <1>2, EnterKeeps, RestartKeeps, WaitKeeps, FlushKeeps, SweepKeeps, OthersKeep,
     CallbackKeeps DEF Next, RequestStep, FlushStep
<1> QED BY <1>1, <1>2

LEMMA HInvHolds == Spec => []HInv
<1>1. Init => HInv
  BY InitHolds
<1>2. HInv /\ [Next]_vars => HInv'
  BY NextKeeps
<1> QED BY <1>1, <1>2, PTL DEF Spec

\* A buffer goes back to the framework once, and not while a channel can write
\* to it or the buffer map lists it.
THEOREM BuffersReturnedOnce == Spec => []ReturnedOnce
<1>1. HInv => ReturnedOnce
  BY BuffersOnce DEF HInv
<1> QED BY <1>1, HInvHolds, PTL

-----------------------------------------------------------------------------
(* The wait for a free place. *)

WakeInv == live \in Int /\ pending \subseteq Frame /\ NoLostWakeup

LEMMA MinIs == MinInFlight \in Int /\ MaxInFlight \in Nat /\ MinInFlight <= MaxInFlight
               /\ MaxFrame \in Nat
BY RequestAssumption

LEMMA SomeFrames ==
  ASSUME NEW S \in SUBSET Frame
  PROVE  IsFiniteSet(S) /\ Cardinality(S) \in Nat
<1>1. IsFiniteSet(1..MaxFrame)
  BY MinIs, FS_Interval
<1>2. IsFiniteSet(S)
  BY <1>1, FS_Subset DEF Frame
<1> QED BY <1>2, FS_CardinalityType

\* A step that neither frees a place nor puts the request to sleep.
LEMMA QuietWakes ==
  ASSUME WakeInv, UNCHANGED live, pending' \subseteq pending, signal => signal',
         pc'["request"] = "wait" => pc["request"] = "wait"
  PROVE  WakeInv'
BY DEF WakeInv, NoLostWakeup

\* A step that frees places tells the request.
LEMMA UnblockWakes ==
  ASSUME Unblock, live' \in Int, pending' \subseteq Frame,
         pc'["request"] = "wait" => pc["request"] = "wait"
  PROVE  WakeInv'
BY DEF WakeInv, NoLostWakeup, Unblock

LEMMA EnterWakes ==
  ASSUME Control, WakeInv, NEW streams \in Asked, EnterStep(streams)
  PROVE  WakeInv'
<1> DEFINE base == IF mState = "CONFIGURED" THEN 0 ELSE live
           n == base + IF IsInput(next) THEN 0 ELSE 1
<1>1. base \in Int /\ n \in Int
  BY DEF WakeInv
<1>2. next \in Frame
  BY MinIs DEF Control, CtlTypes, EnterStep, Frame
<1>3. pending' = pending \cup {next}
  BY DEF EnterStep, Enter
<1>4. \/ live' = base /\ pc' = [pc EXCEPT !["request"] = "idle"]
      \/ live' = n /\ pc' = [pc EXCEPT !["request"] = IF n >= MinInFlight /\ ~IsInput(next)
                                                     THEN "wait" ELSE "idle"]
  BY DEF EnterStep, Enter
<1> HIDE DEF base, n
<1>5. live' \in Int /\ pending' \subseteq Frame
  BY <1>1, <1>2, <1>3, <1>4 DEF WakeInv
<1>6. pc'["request"] = "wait" => live' >= MinInFlight
  BY <1>4 DEF Control, CtlTypes, Thread
<1> QED BY <1>5, <1>6, MinIs DEF WakeInv, NoLostWakeup

LEMMA WakeWakes ==
  ASSUME Control, WakeInv, Wake
  PROVE  WakeInv'
<1>1. UNCHANGED <<live, pending>>
  BY DEF Wake
<1>2. pc'["request"] = "wait" => ~(live < MinInFlight)
  BY DEF Wake, Control, CtlTypes, Thread
<1> QED BY <1>1, <1>2 DEF WakeInv, NoLostWakeup

LEMMA MetadataWakes ==
  ASSUME WakeInv, NEW f \in Frame, Metadata(f)
  PROVE  WakeInv'
<1>1. pending' \subseteq pending /\ pc' = pc
  BY DEF Metadata, fw
<1>2. CASE Stopped
  BY <1>1, <1>2, QuietWakes DEF Metadata
<1>3. CASE ~Stopped
  <2>1. Cardinality(Completes(f)) \in Nat
    BY SomeFrames DEF WakeInv, Completes
  <2>2. live' = live - Cardinality(Completes(f)) /\ Unblock
    BY <1>3 DEF Metadata
  <2> QED BY <1>1, <2>1, <2>2, UnblockWakes DEF WakeInv
<1> QED BY <1>2, <1>3

LEMMA FlushWakes ==
  ASSUME Control, WakeInv, NEW t \in Thread,
         \/ FindError(t) \/ CheckError(t) \/ MarkFlush(t) \/ StopStreams(t)
         \/ StopMetadata(t) \/ FlushSweep(t) \/ Deinit(t)
  PROVE  WakeInv'
<1>1. PICK s \in Stage \ {"wait"} : pc' = [pc EXCEPT ![t] = s]
  BY DEF FindError, CheckError, MarkFlush, StopStreams, StopMetadata, FlushSweep, Deinit,
         Stage
<1>2. pc'["request"] = "wait" => pc["request"] = "wait"
  BY <1>1, PcMoves DEF Control, Thread
<1>3. CASE FlushSweep(t)
  <2>1. Unblock /\ live' = 0 /\ pending' \subseteq pending
    BY <1>3 DEF FlushSweep, Sweep
  <2> QED BY <1>2, <2>1, UnblockWakes DEF WakeInv
<1>4. CASE \/ FindError(t) \/ CheckError(t) \/ MarkFlush(t) \/ StopStreams(t)
           \/ StopMetadata(t) \/ Deinit(t)
  <2>1. UNCHANGED <<live, pending, signal>>
    BY <1>4 DEF FindError, CheckError, MarkFlush, StopStreams, StopMetadata, Deinit, hal
  <2> QED BY <1>2, <2>1, QuietWakes
<1> QED BY <1>3, <1>4

LEMMA OthersWake ==
  ASSUME Control, WakeInv,
         \/ SubmitWithRestart \/ RestartStop \/ RestartSweep \/ RestartStart
         \/ RequestTimesOut \/ Flush \/ DaemonDies \/ DaemonPulls \/ Configure
         \/ \E f \in Frame : InputDone(f)
         \/ \E b \in Buffer : BufferArrives(b)
  PROVE  WakeInv'
<1>1. live' = live /\ pending' \subseteq pending
  BY DEF SubmitWithRestart, RestartStop, RestartSweep, RestartStart, RequestTimesOut, Flush,
         DaemonDies, DaemonPulls, Configure, InputDone, BufferArrives, hal, Sweep
<1>2. signal => signal'
  BY DEF SubmitWithRestart, RestartStop, RestartSweep, RestartStart, RequestTimesOut, Flush,
         DaemonDies, DaemonPulls, Configure, InputDone, BufferArrives, hal, Unblock
<1>3. \/ pc' = pc
      \/ \E t \in Thread, s \in Stage \ {"wait"} : pc' = [pc EXCEPT ![t] = s]
  BY DEF SubmitWithRestart, RestartStop, RestartSweep, RestartStart, RequestTimesOut, Flush,
         DaemonDies, DaemonPulls, Configure, InputDone, BufferArrives, fw, Thread, Stage
<1>4. pc'["request"] = "wait" => pc["request"] = "wait"
  BY <1>3, PcMoves DEF Control, Thread
<1> QED BY <1>1, <1>2, <1>4, QuietWakes

LEMMA NextWakes ==
  ASSUME Control, WakeInv, [Next]_vars
  PROVE  WakeInv'
<1>1. CASE UNCHANGED vars
  <2>1. UNCHANGED <<live, pending, signal, pc>>
    BY <1>1 DEF vars, hal, fw
  <2> QED BY <2>1, QuietWakes
<1>2. CASE Submit
  BY <1>2, SubmitEnters, EnterWakes
<1>3. CASE SubmitAfterRestart
  <2>1. EnterStep(request) /\ request \in Asked
    BY <1>3, RestartEnters DEF SubmitAfterRestart, Control, HasRequest, RestartTakes
  <2> QED BY <2>1, EnterWakes
<1>4. CASE Next /\ ~Submit /\ ~SubmitAfterRestart
  BY <1>4, WakeWakes, MetadataWakes, FlushWakes, OthersWake DEF Next, RequestStep, FlushStep
<1> QED BY <1>1, <1>2, <1>3, <1>4

\* A request never sleeps on mRequestCond once there is room for it, unless the
\* signal that wakes it is under way.
THEOREM NoWakeupIsLost == Spec => []NoLostWakeup
<1>1. Init => WakeInv
  BY DEF Init, WakeInv, NoLostWakeup, Thread
<1>2. HInv /\ WakeInv /\ [Next]_vars => WakeInv'
  BY NextWakes DEF HInv
<1>3. WakeInv => NoLostWakeup
  BY DEF WakeInv
<1> QED BY <1>1, <1>2, <1>3, HInvHolds, PTL DEF Spec

-----------------------------------------------------------------------------
(* The requests in flight. *)

\* Pending live requests, and those whose metadata, or that of a later one, the
\* sensor still owes.
Alive   == {p \in pending : ~IsInput(p)}
Counted == {p \in Alive : \E g \in meta : p <= g}

Shape ==
    /\ pending \subseteq Frame /\ meta \subseteq Alive
    /\ \A p \in pending : \E b \in map : b[1] = p

\* mPendingLiveRequest covers what the sensor works on, ...
Bounded == live \in Nat /\ live <= MaxInFlight /\ Cardinality(Counted) <= live

\* ... and every live request, unless a flush or the sweep of a restart is about
\* to end them, or a failed call left one behind.
Exempt == mFlush \/ pc["request"] = "unlocked" \/ (pc["request"] = "idle" /\ fatal)
AllCounted == ~Exempt => Cardinality(Alive) <= live

\* There is a free place when the request thread comes back for the next request.
Room ==
    pc["request"] \in {"idle"} \cup RestartTakes =>
        live < MaxInFlight \/ (pc["request"] = "idle" /\ (fatal \/ Stopped))

CountsInv == Shape /\ Bounded /\ AllCounted

LEMMA InFlight == Shape /\ Bounded => InFlightBounded
<1> SUFFICES ASSUME Shape, Bounded PROVE InFlightBounded
  OBVIOUS
<1>1. Counted \in SUBSET Frame
  BY DEF Shape, Counted, Alive
<1>2. meta \in SUBSET Counted
  BY DEF Shape, Counted, Alive, Frame
<1>3. Cardinality(meta) <= Cardinality(Counted)
  BY <1>1, <1>2, SomeFrames, FS_Subset
<1>4. Cardinality(meta) \in Nat /\ Cardinality(Counted) \in Nat
  BY <1>1, <1>2, SomeFrames
<1> QED BY <1>3, <1>4 DEF Bounded, InFlightBounded

\* A step that only loses metadata.
LEMMA QuietCounts ==
  ASSUME CountsInv, UNCHANGED <<live, pending, map, hfr>>, meta' \subseteq meta,
         Exempt => Exempt'
  PROVE  CountsInv'
<1>1. Alive' = Alive
  BY DEF Alive, IsInput
<1>2. Shape'
  BY <1>1 DEF CountsInv, Shape
<1>3. Counted \in SUBSET Frame /\ Counted' \in SUBSET Counted
  BY <1>1 DEF CountsInv, Shape, Counted, Alive
<1>4. /\ Cardinality(Counted') <= Cardinality(Counted)
      /\ Cardinality(Counted) \in Nat /\ Cardinality(Counted') \in Nat
  BY <1>3, SomeFrames, FS_Subset
<1>5. Bounded'
  BY <1>4 DEF CountsInv, Bounded
<1>6. AllCounted'
  BY <1>1 DEF CountsInv, AllCounted
<1> QED BY <1>2, <1>5, <1>6 DEF CountsInv

\* A sweep leaves no request: the map lists a buffer of each.
LEMMA SweepsAll ==
  ASSUME Shape, map \subseteq Buffer, Sweep
  PROVE  pending' = {}
<1> DEFINE last == Frames(map) \ Orphans
           older(p) == {q \in pending : q < p}
<1>1. pending' = {p \in pending : Cardinality(older(p)) >= Cardinality(last)}
  BY DEF Sweep
<1>2. last \in SUBSET Frame
  BY DEF Frames, Buffer
<1>3. pending \in SUBSET last
  BY DEF Shape, Frames, Orphans, Frame
<1>4. ASSUME NEW p \in pending PROVE ~(Cardinality(older(p)) >= Cardinality(last))
  <2>1. older(p) \in SUBSET pending /\ older(p) # pending
    BY <1>4 DEF Shape, Frame
  <2>2. /\ Cardinality(older(p)) <= Cardinality(pending)
        /\ Cardinality(older(p)) # Cardinality(pending)
    BY <1>2, <1>3, <2>1, SomeFrames, FS_Subset
  <2>3. Cardinality(pending) <= Cardinality(last)
    BY <1>2, <1>3, SomeFrames, FS_Subset
  <2>4. /\ Cardinality(older(p)) \in Nat /\ Cardinality(pending) \in Nat
        /\ Cardinality(last) \in Nat
    BY <1>2, <1>3, <2>1, SomeFrames
  <2> HIDE DEF older, last
  <2> QED BY <2>2, <2>3, <2>4
<1> QED BY <1>1, <1>4

\* No request and no metadata is owed.
LEMMA NoneCounts ==
  ASSUME pending' = {}, meta' = {}, live' \in Nat, live' <= MaxInFlight
  PROVE  CountsInv'
<1>1. Alive' = {} /\ Counted' = {}
  BY DEF Alive, Counted
<1> QED BY <1>1, FS_EmptySet DEF CountsInv, Shape, Bounded, AllCounted

LEMMA SweepCounts ==
  ASSUME HInv, CountsInv, \/ RestartSweep
                          \/ \E t \in Thread : FlushSweep(t)
  PROVE  CountsInv'
<1>1. meta' = {} /\ (live' = live \/ live' = 0) /\ UNCHANGED hfr
  BY DEF RestartSweep, FlushSweep, HInv, Emptied, RestartTakes, chan, Thread
<1>2. live' \in Nat /\ live' <= MaxInFlight
  BY <1>1, MinIs DEF CountsInv, Bounded
<1>3. CASE Sweep
  <2>1. pending' = {}
    BY <1>3, SweepsAll DEF HInv, BuffersInv, CountsInv
  <2> QED BY <1>1, <1>2, <2>1, NoneCounts
<1>4. CASE pending' = pending /\ map' = map /\ pc'["request"] = "unlocked"
  <2>1. Counted' = {} /\ Alive' = Alive
    BY <1>1, <1>4 DEF Counted, Alive, IsInput
  <2>2. Shape'
    BY <1>1, <1>4, <2>1 DEF CountsInv, Shape
  <2>3. Bounded'
    BY <1>2, <2>1, FS_EmptySet DEF Bounded
  <2>4. AllCounted'
    BY <1>4 DEF AllCounted, Exempt
  <2> QED BY <2>2, <2>3, <2>4 DEF CountsInv
<1>5. CASE \E t \in Thread : FlushSweep(t)
  <2> PICK t \in Thread : FlushSweep(t)
    BY <1>5
  <2>1. CASE pc["request"] # "unlocked"
    BY <1>3, <2>1 DEF FlushSweep
  <2>2. CASE pc["request"] = "unlocked"
    <3>1. t # "request" /\ \E s \in Stage : pc' = [pc EXCEPT ![t] = s]
      BY <2>2 DEF FlushSweep, Stage
    <3>2. pc'["request"] = "unlocked"
      BY <2>2, <3>1, PcMoves DEF HInv, Control, Thread
    <3>3. pending' = pending /\ map' = map
      BY <2>2 DEF FlushSweep
    <3> QED BY <1>4, <3>2, <3>3
  <2> QED BY <2>1, <2>2
<1> QED BY <1>3, <1>5 DEF RestartSweep

LEMMA MetadataCounts ==
  ASSUME CountsInv, NEW f \in Frame, Metadata(f)
  PROVE  CountsInv'
<1>0. /\ f \in meta /\ meta' = {g \in meta : g > f}
      /\ UNCHANGED <<hfr, mFlush, pc, fatal>>
  BY DEF Metadata, fw
<1>1. CASE Stopped
  BY <1>0, <1>1, QuietCounts DEF Metadata, Exempt
<1>2. CASE ~Stopped
  <2> DEFINE done == Completes(f)
  <2>1. /\ pending' = pending \ done /\ live' = live - Cardinality(done)
        /\ map' = map \ Of(done, cached)
    BY <1>2 DEF Metadata
  <2>2. done \in SUBSET Alive /\ done \in SUBSET Counted
    BY <1>0 DEF Completes, Alive, Counted
  <2>3. Alive' = Alive \ done
    BY <1>0, <2>1 DEF Alive, IsInput
  <2>4. Counted' \in SUBSET (Counted \ done)
    BY <1>0, <2>3 DEF Counted
  <2>5. Alive \in SUBSET Frame /\ Counted \in SUBSET Frame
    BY DEF CountsInv, Shape, Alive, Counted
  <2>6. \A b \in Of(done, cached) : b[1] \in done
    BY DEF Of
  <2>7. \A g \in meta' : g \notin done
    BY <1>0 DEF Completes, CountsInv, Shape, Frame, Alive
  <2> HIDE DEF done
  <2>8. \A S \in SUBSET Frame : done \in SUBSET S =>
          Cardinality(S \ done) = Cardinality(S) - Cardinality(done)
    <3> SUFFICES ASSUME NEW S \in SUBSET Frame, done \in SUBSET S
                 PROVE  Cardinality(S \ done) = Cardinality(S) - Cardinality(done)
      OBVIOUS
    <3>1. IsFiniteSet(S \ done) /\ IsFiniteSet(done)
      BY SomeFrames
    <3>2. (S \ done) \cup done = S /\ (S \ done) \cap done = {}
      OBVIOUS
    <3>3. Cardinality(S) = Cardinality(S \ done) + Cardinality(done) - 0
      BY <3>1, <3>2, FS_Union, FS_EmptySet
    <3>4. /\ Cardinality(S) \in Nat /\ Cardinality(done) \in Nat
          /\ Cardinality(S \ done) \in Nat
      BY SomeFrames
    <3> QED BY <3>3, <3>4
  <2>9. Shape'
    <3>1. pending' \subseteq Frame /\ meta' \subseteq Alive'
      BY <1>0, <2>1, <2>3, <2>7 DEF CountsInv, Shape
    <3>2. ASSUME NEW p \in pending' PROVE \E b \in map' : b[1] = p
      <4>1. p \in pending /\ p \notin done
        BY <2>1
      <4>2. PICK b \in map : b[1] = p
        BY <4>1 DEF CountsInv, Shape
      <4> QED BY <2>1, <2>6, <4>1, <4>2
    <3> QED BY <3>1, <3>2 DEF Shape
  <2>10. /\ Cardinality(done) \in Nat /\ Cardinality(Counted) \in Nat
         /\ Cardinality(Counted') \in Nat
         /\ Cardinality(Alive) \in Nat
    BY <2>2, <2>4, <2>5, SomeFrames
  <2>11. Cardinality(done) <= Cardinality(Counted)
    BY <2>2, <2>5, SomeFrames, FS_Subset
  <2>12. Cardinality(Counted') <= Cardinality(Counted) - Cardinality(done)
    <3>1. Cardinality(Counted \ done) = Cardinality(Counted) - Cardinality(done)
      BY <2>2, <2>5, <2>8
    <3>2. IsFiniteSet(Counted \ done)
      BY <2>5, SomeFrames
    <3> QED BY <2>4, <3>1, <3>2, FS_Subset
  <2>13. Bounded'
    BY <2>1, <2>10, <2>11, <2>12, MinIs DEF CountsInv, Bounded
  <2>14. AllCounted'
    <3>1. Cardinality(Alive') = Cardinality(Alive) - Cardinality(done)
      BY <2>2, <2>3, <2>5, <2>8
    <3>2. Exempt' = Exempt
      BY <1>0, Zenon DEF Exempt
    <3>3. Cardinality(Alive) <= live => Cardinality(Alive') <= live'
      BY <2>1, <2>10, <3>1 DEF CountsInv, Bounded
    <3> QED BY <3>2, <3>3 DEF CountsInv, AllCounted
  <2> QED BY <2>9, <2>13, <2>14 DEF CountsInv
<1> QED BY <1>1, <1>2

\* The other callbacks end reprocess requests only.
LEMMA BufferCounts ==
  ASSUME CountsInv,
         \/ \E f \in Frame : InputDone(f)
         \/ \E b \in Buffer : BufferArrives(b)
  PROVE  CountsInv'
<1>1. UNCHANGED <<hfr, mFlush, pc, fatal, meta, live>>
  BY DEF InputDone, BufferArrives, fw, chan
<1>2. /\ pending' \subseteq pending
      /\ \A p \in pending : p \notin pending' => IsInput(p)
      /\ \A b \in map : b[1] \in pending' => b \in map'
  <2>1. CASE \E f \in Frame : InputDone(f)
    BY <2>1 DEF InputDone
  <2>2. ASSUME NEW b \in Buffer, BufferArrives(b)
        PROVE  /\ pending' \subseteq pending
               /\ \A p \in pending : p \notin pending' => IsInput(p)
               /\ \A c \in map : c[1] \in pending' => c \in map'
    BY <2>2 DEF BufferArrives
  <2> QED BY <2>1, <2>2
<1>3. Alive' = Alive
  BY <1>1, <1>2 DEF Alive, IsInput
<1>4. Counted' = Counted
  BY <1>1, <1>3 DEF Counted
<1>5. Shape'
  BY <1>1, <1>2, <1>3 DEF CountsInv, Shape
<1>6. Bounded'
  BY <1>1, <1>4 DEF CountsInv, Bounded
<1>7. Exempt' = Exempt
  BY <1>1, Zenon DEF Exempt
<1>8. AllCounted'
  BY <1>1, <1>3, <1>7 DEF CountsInv, AllCounted
<1> QED BY <1>5, <1>6, <1>8 DEF CountsInv

LEMMA EnterCounts ==
  ASSUME HInv, CountsInv, Room, NEW streams \in Asked, EnterStep(streams)
  PROVE  CountsInv' /\ Room'
<1> DEFINE base == IF mState = "CONFIGURED" THEN 0 ELSE live
           n == base + IF IsInput(next) THEN 0 ELSE 1
<1>1. /\ pending' = pending \cup {next} /\ map' = map \cup ({next} \X streams)
      /\ UNCHANGED <<mFlush, hfr>>
  BY DEF EnterStep, Enter
<1>2. next \in Frame /\ next \in Nat
  BY MinIs DEF HInv, Control, CtlTypes, EnterStep, Frame
<1>3. mState = "CONFIGURED" => pending = {} /\ meta = {} /\ ~mFlush
  BY DEF HInv, Control, AtRest, EnterStep, CountsInv, Shape, Alive, Thread
<1>4. base \in Nat /\ base < MaxInFlight
  BY RequestAssumption DEF CountsInv, Bounded, Room, EnterStep, RestartTakes, Stopped
<1>5. ~mFlush => ~Exempt
  BY DEF Exempt, EnterStep
<1>6. Cardinality(Counted) <= base /\ (~mFlush => Cardinality(Alive) <= base)
  <2>1. CASE mState = "CONFIGURED"
    <3>1. Alive = {} /\ Counted = {}
      BY <1>3, <2>1 DEF Alive, Counted
    <3> QED BY <1>4, <3>1, FS_EmptySet
  <2>2. CASE mState # "CONFIGURED"
    BY <1>5, <2>2 DEF CountsInv, Bounded, AllCounted
  <2> QED BY <2>1, <2>2
<1>7. \A g \in meta : g < next
  BY DEF CountsInv, Shape, Alive, HInv, BuffersInv
<1>8. \A p \in pending' : \E b \in map' : b[1] = p
  <2>1. \E b \in {next} \X streams : b[1] = next
    <3>1. PICK s \in streams : TRUE
      BY RequestAssumption
    <3>2. <<next, s>> \in {next} \X streams /\ <<next, s>>[1] = next
      OBVIOUS
    <3> QED BY <3>2
  <2> QED BY <1>1, <2>1 DEF CountsInv, Shape
<1>9. Alive' = Alive \cup (IF IsInput(next) THEN {} ELSE {next})
  BY <1>1 DEF Alive, IsInput
<1>10. pending' \subseteq Frame /\ Alive \subseteq Frame /\ Counted \subseteq Frame
  BY <1>1, <1>2 DEF CountsInv, Shape, Alive, Counted
<1>11. /\ Cardinality(Alive) \in Nat /\ Cardinality(Counted) \in Nat
       /\ IsFiniteSet(Alive)
  BY <1>10, SomeFrames
<1> HIDE DEF base, n
\* The channels have not all taken it.
<1>12. CASE /\ meta' = meta /\ live' = base
            /\ pc' = [pc EXCEPT !["request"] = "idle"]
            /\ mFlush \/ fatal'
            /\ mFlush => fatal' = fatal /\ mState' = mState
  <2>1. Counted' = Counted
    BY <1>2, <1>7, <1>9, <1>12 DEF Counted, CountsInv, Shape, Frame, Alive
  <2>2. Shape'
    BY <1>8, <1>9, <1>10, <1>12 DEF CountsInv, Shape
  <2>3. Bounded'
    BY <1>4, <1>6, <1>12, <2>1, MinIs DEF Bounded
  <2>4. pc'["request"] = "idle"
    BY <1>12, PcMoves DEF HInv, Control, Thread, Stage
  <2>5. AllCounted'
    BY <1>1, <1>12, <2>4 DEF AllCounted, Exempt
  <2>6. Room'
    BY <1>4, <1>12, <2>4 DEF Room
  <2> QED BY <2>2, <2>3, <2>5, <2>6 DEF CountsInv
\* They have.
<1>13. CASE /\ ~mFlush /\ live' = n /\ mState' = "STARTED"
            /\ meta' = IF IsInput(next) THEN meta ELSE meta \cup {next}
            /\ pc' = [pc EXCEPT !["request"] = IF n >= MinInFlight /\ ~IsInput(next)
                                              THEN "wait" ELSE "idle"]
  <2>1. Cardinality(Alive') <= n /\ n \in Nat /\ n <= MaxInFlight
    <3>1. CASE IsInput(next)
      BY <1>4, <1>6, <1>9, <1>13, <3>1, MinIs DEF n
    <3>2. CASE ~IsInput(next)
      <4>1. Cardinality(Alive \cup {next}) <= Cardinality(Alive) + 1
        <5>1. Cardinality(Alive \cup {next}) =
                IF next \in Alive THEN Cardinality(Alive) ELSE Cardinality(Alive) + 1
          BY <1>11, FS_AddElement
        <5> QED BY <1>11, <5>1
      <4>2. n = base + 1
        BY <3>2 DEF n
      <4>3. Cardinality(Alive') \in Nat
        BY <1>2, <1>9, <1>10, <3>2, SomeFrames
      <4>4. Alive' = Alive \cup {next}
        BY <1>9, <3>2
      <4>5. Cardinality(Alive) <= base
        BY <1>6, <1>13
      <4> QED BY <1>4, <1>11, <4>1, <4>2, <4>3, <4>4, <4>5, MinIs
    <3> QED BY <3>1, <3>2
  <2>2. Shape'
    BY <1>8, <1>9, <1>10, <1>13 DEF CountsInv, Shape
  <2>3. Bounded'
    <3>1. Counted' \in SUBSET Alive' /\ Alive' \in SUBSET Frame
      BY <1>2, <1>9, <1>10 DEF Counted
    <3>2. /\ Cardinality(Counted') <= Cardinality(Alive')
          /\ Cardinality(Counted') \in Nat /\ Cardinality(Alive') \in Nat
      BY <3>1, SomeFrames, FS_Subset
    <3> QED BY <1>13, <2>1, <3>2 DEF Bounded
  <2>4. AllCounted'
    BY <1>13, <2>1 DEF AllCounted
  <2>5. Room'
    <3>1. pc'["request"] = "wait" \/ n < MinInFlight \/ IsInput(next)
      <4>1. PICK s \in {"wait", "idle"} : /\ pc' = [pc EXCEPT !["request"] = s]
                                          /\ s = "idle" => ~(n >= MinInFlight) \/ IsInput(next)
        BY <1>13
      <4>2. pc'["request"] = s
        BY <4>1, PcMoves DEF HInv, Control, Thread, Stage
      <4> QED BY <2>1, <4>1, <4>2, MinIs
    <3>2. IsInput(next) => n < MaxInFlight
      BY <1>4 DEF n
    <3>3. n < MinInFlight => n < MaxInFlight
      BY <2>1, MinIs
    <3> QED BY <1>13, <3>1, <3>2, <3>3 DEF Room, RestartTakes
  <2> QED BY <2>2, <2>3, <2>4, <2>5 DEF CountsInv
<1>14. QED
  BY <1>12, <1>13, Zenon DEF EnterStep, Enter, base, n, chan

LEMMA FlushStepsCount ==
  ASSUME HInv, CountsInv, NEW t \in Thread,
         \/ FindError(t) \/ CheckError(t) \/ MarkFlush(t) \/ StopStreams(t)
         \/ StopMetadata(t) \/ Deinit(t)
  PROVE  CountsInv'
<1>1. UNCHANGED <<live, pending, map, hfr>> /\ meta' \subseteq meta
  BY DEF FindError, CheckError, MarkFlush, StopStreams, StopMetadata, Deinit, hal, chan
<1>2. (mFlush => mFlush') /\ (fatal => fatal')
  <2>1. mFlush' = mFlush \/ mFlush' = TRUE
    BY DEF FindError, CheckError, MarkFlush, StopStreams, StopMetadata, Deinit, hal
  <2>2. fatal' = fatal \/ fatal' = TRUE \/ fatal' = (fatal \/ mState # "ERROR")
    BY Zenon DEF FindError, CheckError, MarkFlush, StopStreams, StopMetadata, Deinit, hal
  <2>3. mFlush => mFlush'
    BY <2>1
  <2>4. fatal => fatal'
    BY <2>2, Zenon
  <2> QED BY <2>3, <2>4
<1>3. /\ pc[t] # "unlocked" /\ (pc[t] = "idle" => ~fatal)
      /\ \E s \in Stage : pc' = [pc EXCEPT ![t] = s]
  BY DEF FindError, CheckError, MarkFlush, StopStreams, StopMetadata, Deinit, Stage
<1>4. \A u \in Thread : u # t => pc'[u] = pc[u]
  BY <1>3, PcMoves DEF HInv, Control
<1>5. Exempt => Exempt'
  BY <1>2, <1>3, <1>4 DEF Exempt, Thread
<1> QED BY <1>1, <1>5, QuietCounts

LEMMA OthersCount ==
  ASSUME HInv, CountsInv,
         \/ SubmitWithRestart \/ RestartStop \/ RestartStart \/ Wake \/ RequestTimesOut
         \/ Flush \/ DaemonDies \/ DaemonPulls \/ Configure
  PROVE  CountsInv'
<1>1. UNCHANGED <<live, pending, map, hfr, mFlush>> /\ meta' \subseteq meta /\ (fatal => fatal')
  BY DEF SubmitWithRestart, RestartStop, RestartStart, Wake, RequestTimesOut, Flush,
         DaemonDies, DaemonPulls, Configure, hal, chan, fw
<1>2. \/ pc'["request"] = pc["request"]
      \/ pc["request"] # "unlocked" /\ (pc["request"] = "idle" => ~fatal)
  <2>1. \/ pc' = pc
        \/ \E s \in Stage : pc' = [pc EXCEPT !["flush"] = s]
        \/ pc["request"] # "unlocked" /\ (pc["request"] = "idle" => ~fatal)
    BY DEF SubmitWithRestart, RestartStop, RestartStart, Wake, RequestTimesOut, Flush,
           DaemonDies, DaemonPulls, Configure, fw, Stage
  <2> QED BY <2>1, PcMoves DEF HInv, Control, Thread
<1>3. Exempt => Exempt'
  BY <1>1, <1>2 DEF Exempt
<1> QED BY <1>1, <1>3, QuietCounts

\* A free place stays free while the request thread does not take it.
LEMMA QuietRoom ==
  ASSUME Room, live \in Nat, live' \in Nat, live' <= live, fatal => fatal', Stopped => Stopped',
         \/ pc'["request"] = pc["request"]
         \/ pc'["request"] \notin {"idle"} \cup RestartTakes
         \/ pc["request"] \in RestartTakes /\ pc'["request"] \in RestartTakes
         \/ pc'["request"] = "idle" /\ (fatal' \/ Stopped')
         \/ live' < MaxInFlight
  PROVE  Room'
<1>1. live < MaxInFlight => live' < MaxInFlight
  BY MinIs
<1>2. live' < MaxInFlight => Room'
  BY DEF Room
<1>3. pc'["request"] \notin {"idle"} \cup RestartTakes => Room'
  BY DEF Room
<1>4. pc["request"] \in RestartTakes => live < MaxInFlight
  BY DEF Room, RestartTakes
<1>5. pc'["request"] = "idle" /\ (fatal' \/ Stopped') => Room'
  BY DEF Room
<1>6. pc'["request"] = pc["request"] => Room'
  BY <1>1 DEF Room
<1> QED BY <1>1, <1>2, <1>3, <1>4, <1>5, <1>6

LEMMA FlushRoom ==
  ASSUME HInv, CountsInv, Room, NEW t \in Thread,
         \/ FindError(t) \/ CheckError(t) \/ MarkFlush(t) \/ StopStreams(t)
         \/ StopMetadata(t) \/ FlushSweep(t) \/ Deinit(t)
  PROVE  Room'
<1>1. CASE FlushSweep(t)
  BY <1>1, RequestAssumption DEF FlushSweep, Room
<1>2. CASE \/ FindError(t) \/ CheckError(t) \/ MarkFlush(t) \/ StopStreams(t)
           \/ StopMetadata(t) \/ Deinit(t)
  <2>1. live' = live /\ live \in Nat
    BY <1>2 DEF FindError, CheckError, MarkFlush, StopStreams, StopMetadata, Deinit, hal,
                CountsInv, Bounded
  <2>2. fatal' = fatal \/ fatal' = TRUE \/ fatal' = (fatal \/ mState # "ERROR")
    BY <1>2, Zenon DEF FindError, CheckError, MarkFlush, StopStreams, StopMetadata, Deinit, hal
  <2>3. fatal => fatal'
    BY <2>2, Zenon
  <2>4. Stopped => Stopped'
    BY <1>2 DEF FindError, CheckError, MarkFlush, StopStreams, StopMetadata, Deinit, hal, Stopped
  <2>5. PICK s \in Stage \ RestartTakes :
          pc' = [pc EXCEPT ![t] = s] /\ (s = "idle" => fatal')
    <3>1. CASE CheckError(t)
      <4>1. PICK s \in {"mark", "idle"} :
              pc' = [pc EXCEPT ![t] = s] /\ (s = "idle" => mState # "ERROR")
        BY <3>1 DEF CheckError
      <4>2. fatal' = (fatal \/ mState # "ERROR")
        BY <3>1 DEF CheckError
      <4>3. s = "idle" => fatal'
        BY <4>1, <4>2, Zenon
      <4> QED BY <4>1, <4>3 DEF Stage, RestartTakes
    <3>2. CASE StopMetadata(t)
      BY <3>2 DEF StopMetadata, Stage, RestartTakes
    <3>3. CASE FindError(t) \/ MarkFlush(t) \/ StopStreams(t) \/ Deinit(t)
      BY <3>3 DEF FindError, MarkFlush, StopStreams, Deinit, Stage, RestartTakes
    <3> QED BY <1>2, <3>1, <3>2, <3>3
  <2>6. \/ pc'["request"] = pc["request"]
        \/ pc'["request"] \notin {"idle"} \cup RestartTakes
        \/ pc'["request"] = "idle" /\ fatal'
    <3>1. pc'[t] = s /\ \A u \in Thread : u # t => pc'[u] = pc[u]
      BY <2>5, PcMoves DEF HInv, Control
    <3> QED BY <2>5, <3>1 DEF Thread
  <2> QED BY <2>1, <2>3, <2>4, <2>6, QuietRoom
<1> QED BY <1>1, <1>2

LEMMA RestartRoom ==
  ASSUME HInv, CountsInv, Room,
         SubmitWithRestart \/ RestartStop \/ RestartSweep \/ RestartStart
  PROVE  Room'
<1>1. live' = live /\ live \in Nat /\ (Stopped => Stopped')
  BY DEF SubmitWithRestart, RestartStop, RestartSweep, RestartStart, hal, CountsInv, Bounded,
         Stopped
<1>2. fatal => fatal'
  BY DEF SubmitWithRestart, RestartStop, RestartSweep, RestartStart
<1>3. CASE SubmitWithRestart
  <2>1. live < MaxInFlight
    BY <1>3 DEF SubmitWithRestart, Room, Stopped
  <2> QED BY <1>1, <2>1 DEF Room
<1>4. CASE RestartStop \/ RestartSweep \/ RestartStart
  <2>1. pc["request"] \in RestartTakes
    BY <1>4 DEF RestartStop, RestartSweep, RestartStart, RestartTakes
  <2>2. PICK s \in RestartTakes \cup {"idle"} :
          pc' = [pc EXCEPT !["request"] = s] /\ (s = "idle" => fatal')
    BY <1>4 DEF RestartStop, RestartSweep, RestartStart, RestartTakes
  <2>3. pc'["request"] = s
    BY <2>2, PcMoves DEF HInv, Control, Thread, Stage, RestartTakes
  <2> QED BY <1>1, <1>2, <2>1, <2>2, <2>3, QuietRoom
<1> QED BY <1>3, <1>4

LEMMA WaitRoom ==
  ASSUME HInv, CountsInv, Room, Wake \/ RequestTimesOut
  PROVE  Room'
<1>1. live' = live /\ live \in Nat /\ mState' = mState
  BY DEF Wake, RequestTimesOut, hal, CountsInv, Bounded
<1>2. CASE Wake
  <2>1. PICK s \in {"idle", "wait"} :
          /\ pc' = [pc EXCEPT !["request"] = s]
          /\ s = "idle" => live < MaxInFlight \/ live < MinInFlight \/ Stopped
    BY <1>2 DEF Wake
  <2>2. pc'["request"] = s
    BY <2>1, PcMoves DEF HInv, Control, Thread, Stage
  <2>3. s = "idle" => live' < MaxInFlight \/ Stopped'
    BY <1>1, <2>1, MinIs DEF Stopped
  <2> QED BY <2>1, <2>2, <2>3 DEF Room, RestartTakes
<1>3. CASE RequestTimesOut
  <2>1. pc'["request"] = "idle" /\ fatal'
    BY <1>3 DEF RequestTimesOut, HInv, Control, CtlTypes, Thread
  <2> QED BY <2>1 DEF Room
<1> QED BY <1>2, <1>3

LEMMA OthersRoom ==
  ASSUME HInv, CountsInv, CountsInv', Room,
         \/ Flush \/ DaemonDies \/ DaemonPulls \/ Configure
         \/ \E f \in Frame : Metadata(f) \/ InputDone(f)
         \/ \E b \in Buffer : BufferArrives(b)
  PROVE  Room'
<1>1. /\ fatal' = fatal /\ (Stopped => Stopped')
      /\ pc' = pc \/ pc' = [pc EXCEPT !["flush"] = "mark"]
  BY DEF Flush, DaemonDies, DaemonPulls, Configure, Metadata, InputDone, BufferArrives, fw,
         hal, Stopped
<1>2. pc'["request"] = pc["request"]
  BY <1>1, PcMoves DEF HInv, Control, Thread, Stage
<1>3. live \in Nat /\ live' \in Nat
  BY DEF CountsInv, Bounded
<1>4. live' <= live
  <2>1. CASE \E f \in Frame : Metadata(f)
    <3> PICK f \in Frame : Metadata(f)
      BY <2>1
    <3>1. live' = live \/ live' = live - Cardinality(Completes(f))
      BY DEF Metadata
    <3>2. Cardinality(Completes(f)) \in Nat
      BY SomeFrames DEF CountsInv, Shape, Completes
    <3> QED BY <1>3, <3>1, <3>2
  <2>2. CASE \/ Flush \/ DaemonDies \/ DaemonPulls \/ Configure
             \/ \E f \in Frame : InputDone(f)
             \/ \E b \in Buffer : BufferArrives(b)
    <3>1. live' = live
      BY <2>2 DEF Flush, DaemonDies, DaemonPulls, Configure, InputDone, BufferArrives, hal
    <3> QED BY <1>3, <3>1
  <2> QED BY <2>1, <2>2
<1> QED BY <1>1, <1>2, <1>3, <1>4, QuietRoom

LEMMA NextCounts ==
  ASSUME HInv, CountsInv, Room, [Next]_vars
  PROVE  CountsInv' /\ Room'
<1>1. CASE UNCHANGED vars
  <2>1. /\ UNCHANGED <<live, pending, map, hfr, meta, mState>>
        /\ mFlush' = mFlush /\ pc' = pc /\ fatal' = fatal
    BY <1>1 DEF vars, hal, fw, chan
  <2>2. CountsInv'
    BY <2>1, QuietCounts DEF Exempt
  <2> QED BY <2>1, <2>2 DEF Room, Stopped
<1>2. CASE Submit
  BY <1>2, SubmitEnters, EnterCounts
<1>3. CASE SubmitAfterRestart
  <2>1. EnterStep(request) /\ request \in Asked
    BY <1>3, RestartEnters DEF SubmitAfterRestart, HInv, Control, HasRequest, RestartTakes
  <2> QED BY <2>1, EnterCounts
<1>4. CASE SubmitWithRestart \/ RestartStop \/ RestartStart
  BY <1>4, OthersCount, RestartRoom
<1>5. CASE RestartSweep
  BY <1>5, SweepCounts, RestartRoom
<1>6. CASE Wake \/ RequestTimesOut
  BY <1>6, OthersCount, WaitRoom
<1>7. CASE Flush \/ DaemonDies \/ DaemonPulls \/ Configure
  BY <1>7, OthersCount, OthersRoom
<1>8. CASE \E t \in Thread : FindError(t) \/ FlushStep(t)
  BY <1>8, FlushStepsCount, SweepCounts, FlushRoom DEF FlushStep
<1>9. CASE \/ \E f \in Frame : Metadata(f) \/ InputDone(f)
           \/ \E b \in Buffer : BufferArrives(b)
  <2>1. CountsInv'
    BY <1>9, MetadataCounts, BufferCounts
  <2> QED BY <1>9, <2>1, OthersRoom
<1> QED BY <1>1, <1>2, <1>3, <1>4, <1>5, <1>6, <1>7, <1>8, <1>9 DEF Next, RequestStep

LEMMA CountsHold == Spec => [](HInv /\ CountsInv /\ Room)
<1>1. Init => CountsInv /\ Room
  <2> SUFFICES ASSUME Init PROVE CountsInv /\ Room
    OBVIOUS
  <2>1. live = 0 /\ pending = {} /\ meta = {}
    BY DEF Init
  <2>2. Alive = {} /\ Counted = {}
    BY <2>1 DEF Alive, Counted
  <2>3. CountsInv
    BY <2>1, <2>2, FS_EmptySet, MinIs DEF CountsInv, Shape, Bounded, AllCounted
  <2> QED BY <2>1, <2>3, RequestAssumption DEF Room
<1>2. HInv /\ CountsInv /\ Room /\ [Next]_vars => (CountsInv /\ Room)'
  BY NextCounts
<1> QED BY <1>1, <1>2, HInvHolds, PTL DEF Spec

\* mPendingLiveRequest never falls below what the sensor works on nor passes the
\* limit, whatever the daemon pulls, the flush resets or the metadata misses.
THEOREM InFlightIsBounded == Spec => []InFlightBounded
<1>1. CountsInv => InFlightBounded
  BY InFlight DEF CountsInv
<1> QED BY <1>1, CountsHold, PTL

-----------------------------------------------------------------------------
(* The answers. *)

Reply == [frame : Frame, answer : {"result", "error"}]
InOrder(t) ==
    \A i, j \in DOMAIN t :
        i < j => /\ t[i].frame # t[j].frame
                 /\ ~IsInput(t[i].frame) /\ ~IsInput(t[j].frame) => t[i].frame < t[j].frame

\* A request that was answered has left the list, and no live request older than
\* it is left there.
ToldFrames == {told[i].frame : i \in DOMAIN told}
Before(f) == ~IsInput(f) => \A p \in Alive : f < p
Answered == \A f \in ToldFrames : f < next /\ f \notin pending /\ Before(f)

\* So it is with a request of which only buffers are missing.
OnlyBuffers == \A b \in map : b[1] \notin pending => Before(b[1])

AnsweredInv == told \in Seq(Reply) /\ crashed = FALSE /\ InOrder(told) /\ Answered /\ OnlyBuffers

\* A flush and a dead daemon find no reprocess request and no restart.
Faulty == pc["flush"] # "idle" \/ Stopped
KeptApart == (Restarting => hfr) /\ (Faulty => ~ReprocessOut /\ ~Restarting)

LEMMA AnswersAre ==
  ASSUME NEW F \in SUBSET Frame, NEW a \in {"result", "error"}
  PROVE  /\ Answers(F, a) \in Seq(Reply) /\ DOMAIN Answers(F, a) = 1..Cardinality(F)
         /\ Len(Answers(F, a)) = Cardinality(F) /\ Cardinality(F) \in Nat
         /\ {Answers(F, a)[i].frame : i \in DOMAIN Answers(F, a)} = F
         /\ \A i, j \in DOMAIN Answers(F, a) :
              i < j => Answers(F, a)[i].frame < Answers(F, a)[j].frame
<1> DEFINE n == Cardinality(F)
           s == Answers(F, a)
<1>1. IsFiniteSet(F) /\ n \in Nat /\ F \in SUBSET Nat
  BY SomeFrames DEF Frame
<1>2. \A i \in 1..n : Nth(F, i) \in F
  BY <1>1, NthIs
<1>3. s = [i \in 1..n |-> [frame |-> Nth(F, i), answer |-> a]]
  BY DEF Answers
<1>4. s \in [1..n -> Reply]
  BY <1>2, <1>3 DEF Reply
<1>5. s \in Seq(Reply) /\ DOMAIN s = 1..n /\ Len(s) = n
  <2>1. s \in Seq(Reply)
    BY <1>1, <1>4, IsASeq
  <2>2. DOMAIN s = 1..n
    BY <1>3
  <2> HIDE DEF s, n
  <2>3. Len(s) = n
    BY <1>1, <2>1, <2>2, LenProperties
  <2> QED BY <2>1, <2>2, <2>3
<1>6. \A i \in 1..n : s[i].frame = Nth(F, i)
  BY <1>3
<1>7. \A i, j \in 1..n : i < j => s[i].frame < s[j].frame
  BY <1>1, <1>6, NthOrder
<1>8. {s[i].frame : i \in 1..n} = F
  <2>1. \A f \in F : \E i \in 1..n : Nth(F, i) = f
    BY <1>1, NthRank, RankRange
  <2> HIDE DEF s, n
  <2> QED BY <1>2, <1>6, <2>1
<1> HIDE DEF s, n
<1>9. {s[i].frame : i \in DOMAIN s} = F
  BY <1>5, <1>8
<1>10. \A i, j \in DOMAIN s : i < j => s[i].frame < s[j].frame
  BY <1>5, <1>7
<1> QED BY <1>1, <1>5, <1>9, <1>10 DEF s, n

\* Requests that were not answered are, after those that were.
LEMMA ToldGrows ==
  ASSUME told \in Seq(Reply), InOrder(told), NEW F \in SUBSET Frame,
         NEW a \in {"result", "error"}, told' = told \o Answers(F, a), hfr' = hfr,
         \A f \in ToldFrames, g \in F : f # g /\ (~IsInput(f) /\ ~IsInput(g) => f < g)
  PROVE  told' \in Seq(Reply) /\ InOrder(told)' /\ ToldFrames' = ToldFrames \cup F
<1> DEFINE s == Answers(F, a)
           m == Len(told)
           n == Len(s)
<1>1. /\ s \in Seq(Reply) /\ DOMAIN s = 1..n /\ n \in Nat
      /\ {s[i].frame : i \in DOMAIN s} = F
      /\ \A i, j \in DOMAIN s : i < j => s[i].frame < s[j].frame
  BY AnswersAre
<1>2. told' = told \o s
  OBVIOUS
<1> HIDE DEF s
<1>3. told' \in Seq(Reply) /\ DOMAIN told' = 1..(m + n) /\ m \in Nat /\ DOMAIN told = 1..m
  <2>1. told' \in Seq(Reply) /\ Len(told') = m + n
    BY <1>1, <1>2, ConcatProperties
  <2> QED BY <2>1, LenProperties
<1>4. /\ \A i \in 1..m : told'[i] = told[i] /\ told[i].frame \in ToldFrames
      /\ \A i \in 1..(m + n) : i > m => told'[i] = s[i - m] /\ i - m \in 1..n
  <2>1. \A i \in 1..(m + n) : told'[i] = IF i <= m THEN told[i] ELSE s[i - m]
    BY <1>1, <1>2, ConcatProperties
  <2> HIDE DEF n, m
  <2>2. \A i \in 1..m : i \in 1..(m + n) /\ i <= m
    BY <1>1, <1>3
  <2>3. \A i \in 1..(m + n) : i > m => ~(i <= m) /\ i - m \in 1..n
    BY <1>1, <1>3
  <2> QED BY <1>3, <2>1, <2>2, <2>3 DEF ToldFrames
<1> HIDE DEF m, n
<1>5. \A i \in 1..n : s[i].frame \in F
  BY <1>1
<1>6. InOrder(told)'
  <2> SUFFICES ASSUME NEW i \in 1..(m + n), NEW j \in 1..(m + n), i < j
               PROVE  /\ told'[i].frame # told'[j].frame
                      /\ ~IsInput(told'[i].frame) /\ ~IsInput(told'[j].frame)
                           => told'[i].frame < told'[j].frame
    BY <1>3 DEF InOrder, IsInput
  <2>1. CASE j <= m
    <3>1. i \in 1..m /\ j \in 1..m
      BY <1>1, <1>3, <2>1
    <3>2. told'[i] = told[i] /\ told'[j] = told[j]
      BY <1>4, <3>1
    <3>3. InOrder(told) /\ DOMAIN told = 1..m
      BY <1>3
    <3> QED BY <3>1, <3>2, <3>3 DEF InOrder
  <2>2. CASE i <= m /\ j > m
    <3>1. i \in 1..m /\ j - m \in 1..n
      BY <1>1, <1>3, <2>2
    <3>2. told'[i].frame \in ToldFrames /\ told'[j].frame \in F
      BY <1>4, <1>5, <2>2, <3>1
    <3> QED BY <3>2
  <2>3. CASE i > m /\ j > m
    <3>1. i - m \in 1..n /\ j - m \in 1..n /\ i - m < j - m
      BY <1>1, <1>3, <2>3
    <3>2. s[i - m].frame < s[j - m].frame
      BY <1>1, <3>1
    <3>3. s[i - m].frame \in Nat /\ s[j - m].frame \in Nat
      <4>1. \A f \in F : f \in Nat
        BY MinIs DEF Frame
      <4> QED BY <1>5, <3>1, <4>1
    <3>4. told'[i] = s[i - m] /\ told'[j] = s[j - m]
      BY <1>4, <2>3
    <3> QED BY <3>2, <3>3, <3>4
  <2> QED BY <1>1, <1>3, <2>1, <2>2, <2>3
<1>7. ToldFrames' = ToldFrames \cup F
  <2>1. \A f \in ToldFrames' : f \in ToldFrames \cup F
    BY <1>1, <1>3, <1>4, <1>5 DEF ToldFrames
  <2>2. \A f \in ToldFrames : f \in ToldFrames'
    <3> SUFFICES ASSUME NEW i \in 1..m PROVE told[i].frame \in ToldFrames'
      BY <1>3 DEF ToldFrames
    <3>1. i \in 1..(m + n)
      BY <1>1, <1>3
    <3> QED BY <1>3, <1>4, <3>1 DEF ToldFrames
  <2>3. \A f \in F : f \in ToldFrames'
    <3> SUFFICES ASSUME NEW i \in 1..n PROVE s[i].frame \in ToldFrames'
      BY <1>1
    <3>1. m + i \in 1..(m + n) /\ m + i > m /\ (m + i) - m = i
      BY <1>1, <1>3
    <3>2. told'[m + i].frame = s[i].frame
      BY <1>4, <3>1
    <3> QED BY <1>3, <3>1, <3>2 DEF ToldFrames
  <2> QED BY <2>1, <2>2, <2>3
<1> QED BY <1>3, <1>6, <1>7

\* A step that answers nobody.
LEMMA AnswersNobody ==
  ASSUME AnsweredInv, UNCHANGED <<told, next, hfr, crashed>>, pending' \subseteq pending,
         map' \subseteq map, \A b \in map' : b[1] \in pending => b[1] \in pending'
  PROVE  AnsweredInv'
<1>1. ToldFrames' = ToldFrames /\ Alive' \subseteq Alive
  BY DEF ToldFrames, Alive, IsInput
<1>2. \A f : Before(f) => Before(f)'
  BY <1>1 DEF Before, IsInput
<1>3. told' \in Seq(Reply) /\ crashed' = FALSE /\ InOrder(told)'
  BY DEF AnsweredInv, InOrder, IsInput
<1>4. Answered'
  BY <1>1, <1>2 DEF AnsweredInv, Answered
<1>5. OnlyBuffers'
  BY <1>2 DEF AnsweredInv, OnlyBuffers
<1> QED BY <1>3, <1>4, <1>5 DEF AnsweredInv

\* A step that answers pending requests: of the live ones, the oldest.
LEMMA AnswersSome ==
  ASSUME HInv, CountsInv, AnsweredInv, NEW F \in SUBSET pending, NEW a \in {"result", "error"},
         told' = told \o Answers(F, a), pending' = pending \ F,
         UNCHANGED <<next, hfr, crashed>>, map' \subseteq map,
         \A f \in F : Before(f)'
  PROVE  AnsweredInv'
<1>1. F \in SUBSET Frame /\ Alive' \subseteq Alive
  BY DEF CountsInv, Shape, Alive, IsInput
<1>2. \A f : Before(f) => Before(f)'
  BY <1>1 DEF Before, IsInput
<1>3. \A f \in ToldFrames, g \in F : f # g /\ (~IsInput(f) /\ ~IsInput(g) => f < g)
  BY DEF AnsweredInv, Answered, Before, Alive
<1>4. told' \in Seq(Reply) /\ InOrder(told)' /\ ToldFrames' = ToldFrames \cup F
  BY <1>1, <1>3, ToldGrows DEF AnsweredInv
<1>5. \A p \in pending : p < next
  BY DEF CountsInv, Shape, HInv, BuffersInv
<1>6. Answered'
  BY <1>2, <1>4, <1>5 DEF AnsweredInv, Answered
<1>7. OnlyBuffers'
  BY <1>2 DEF AnsweredInv, OnlyBuffers
<1> QED BY <1>4, <1>6, <1>7 DEF AnsweredInv

\* A request that is entered is the newest.
LEMMA EnterAnswers ==
  ASSUME HInv, CountsInv, AnsweredInv, NEW streams \in Asked, EnterStep(streams),
         UNCHANGED <<told, crashed>>
  PROVE  AnsweredInv'
<1>1. /\ pending' = pending \cup {next} /\ map' = map \cup ({next} \X streams)
      /\ UNCHANGED hfr /\ next' = next + 1
  BY DEF EnterStep, Enter
<1>2. next \in Nat /\ next \in Frame
  BY MinIs DEF HInv, Control, CtlTypes, EnterStep, Frame
<1>3. Alive' \subseteq Alive \cup {next} /\ ToldFrames' = ToldFrames
  BY <1>1 DEF Alive, IsInput, ToldFrames
<1>4. \A f : Before(f) /\ f < next => Before(f)'
  BY <1>1, <1>3 DEF Before, IsInput
<1>5. \A f \in ToldFrames : f \in Nat /\ f < next
  <2>1. \A f \in ToldFrames : f \in Frame
    <3> SUFFICES ASSUME NEW i \in DOMAIN told PROVE told[i].frame \in Frame
      BY DEF ToldFrames
    <3>1. told[i] \in Reply
      BY ElementOfSeq, LenProperties DEF AnsweredInv
    <3> QED BY <3>1 DEF Reply
  <2> QED BY <2>1, MinIs DEF AnsweredInv, Answered, Frame
<1>6. Answered'
  BY <1>1, <1>2, <1>3, <1>4, <1>5 DEF AnsweredInv, Answered
<1>7. OnlyBuffers'
  <2> SUFFICES ASSUME NEW b \in map', b[1] \notin pending' PROVE Before(b[1])'
    BY DEF OnlyBuffers
  <2>1. b \in map
    BY <1>1
  <2>2. b[1] < next /\ b[1] \notin pending
    BY <1>1, <2>1 DEF HInv, BuffersInv
  <2> QED BY <1>4, <2>1, <2>2 DEF AnsweredInv, OnlyBuffers
<1>8. told' \in Seq(Reply) /\ crashed' = FALSE /\ InOrder(told)'
  BY <1>1 DEF AnsweredInv, InOrder, IsInput
<1> QED BY <1>6, <1>7, <1>8 DEF AnsweredInv

\* With no reprocess request out, what a sweep answers is what is pending.
LEMMA SweepAnswers ==
  ASSUME HInv, CountsInv, AnsweredInv, ~ReprocessOut, Sweep, UNCHANGED <<next, hfr>>
  PROVE  AnsweredInv'
<1> DEFINE late == Frames(map) \ Orphans
<1>1. pending \subseteq late
  BY DEF CountsInv, Shape, Frames, Orphans, Frame
<1>2. late \subseteq pending
  <2> SUFFICES ASSUME NEW b \in map, b[1] \notin pending PROVE b[1] \in Orphans
    BY DEF Frames
  <2>1. Before(b[1]) /\ ~IsInput(b[1])
    BY DEF AnsweredInv, OnlyBuffers, ReprocessOut, Frames
  <2>2. \A p \in pending : p \in Alive
    BY DEF ReprocessOut, Alive
  <2> QED BY <2>1, <2>2 DEF Before, Orphans, Frames
<1>3. late = pending
  BY <1>1, <1>2
<1>4. pending' = {}
  BY SweepsAll DEF HInv, BuffersInv, CountsInv
<1>5. told' = told \o Answers(pending, "error") /\ map' = {}
  BY <1>3 DEF Sweep
<1>6. crashed' = crashed
  <2>1. crashed' = (crashed \/ Cardinality(pending) > Cardinality(pending))
    BY <1>3 DEF Sweep
  <2>2. Cardinality(pending) \in Nat
    BY SomeFrames DEF CountsInv, Shape
  <2>3. ~(Cardinality(pending) > Cardinality(pending))
    BY <2>2
  <2>4. crashed = FALSE
    BY DEF AnsweredInv
  <2> QED BY <2>1, <2>3, <2>4, Zenon
<1> QED BY <1>4, <1>5, <1>6, AnswersSome DEF Before, Alive

LEMMA MetadataAnswers ==
  ASSUME HInv, CountsInv, AnsweredInv, NEW f \in Frame, Metadata(f)
  PROVE  AnsweredInv'
<1>0. UNCHANGED <<next, hfr, crashed>>
  BY DEF Metadata, fw
<1>1. CASE Stopped
  BY <1>0, <1>1, AnswersNobody DEF Metadata
<1>2. CASE ~Stopped
  <2> DEFINE done == Completes(f)
  <2>1. /\ told' = told \o Answers(done, "result") /\ pending' = pending \ done
        /\ map' \subseteq map
    BY <1>2 DEF Metadata
  <2>2. done \in SUBSET pending
    BY DEF Completes
  <2>3. \A p \in Alive' : ~(p <= f)
    BY <1>0, <2>1 DEF Completes, Alive, IsInput
  <2>4. \A g \in done : Before(g)'
    <3>1. \A g \in done : g <= f /\ g \in Frame
      BY DEF Completes, CountsInv, Shape
    <3>2. \A p \in Alive' : p \in Frame
      BY <2>1 DEF Alive, CountsInv, Shape
    <3> QED BY <2>3, <3>1, <3>2, MinIs DEF Before, Frame
  <2> HIDE DEF done
  <2> QED BY <1>0, <2>1, <2>2, <2>4, AnswersSome
<1> QED BY <1>1, <1>2

\* A reprocess request is answered whatever else is pending.
LEMMA InputAnswers ==
  ASSUME HInv, CountsInv, AnsweredInv, NEW f \in pending, IsInput(f),
         told' = told \o Answers({f}, "result"), pending' = pending \ {f},
         UNCHANGED <<next, hfr, crashed>>, map' \subseteq map
  PROVE  AnsweredInv'
<1>1. \A g \in {f} : Before(g)'
  BY DEF Before, IsInput
<1>2. {f} \in SUBSET pending
  OBVIOUS
<1> QED BY <1>1, <1>2, AnswersSome

LEMMA BufferAnswers ==
  ASSUME HInv, CountsInv, AnsweredInv, NEW b \in Buffer, BufferArrives(b)
  PROVE  AnsweredInv'
<1>0. UNCHANGED <<next, hfr, crashed>>
  BY DEF BufferArrives, fw
<1>1. CASE /\ pending' = pending /\ told' = told
           /\ map' = map \/ (map' = map \ {b})
  BY <1>0, <1>1, AnswersNobody
<1>2. CASE /\ b[1] \in pending /\ IsInput(b[1])
           /\ told' = told \o Answers({b[1]}, "result")
           /\ pending' = pending \ {b[1]} /\ map' = map \ {b}
  BY <1>0, <1>2, InputAnswers
<1> QED BY <1>1, <1>2 DEF BufferArrives

\* Who finds a fault finds no reprocess request and no restart; who restarts or
\* reprocesses finds no fault.
LEMMA NextKeepsApart ==
  ASSUME FaultsApart, HInv, KeptApart, [Next]_vars
  PROVE  KeptApart'
<1>1. CASE UNCHANGED vars
  BY <1>1 DEF vars, hal, fw, KeptApart, Faulty, Stopped, Restarting, ReprocessOut, IsInput
<1>2. hfr' = hfr
  BY DEF Next, vars, Submit, SubmitWithRestart, RequestStep, RestartStop, RestartSweep,
         RestartStart, SubmitAfterRestart, Wake, RequestTimesOut, Flush, DaemonDies,
         DaemonPulls, Configure, FindError, FlushStep, CheckError, MarkFlush, StopStreams,
         StopMetadata, FlushSweep, Deinit, Metadata, InputDone, BufferArrives, fw
\* Only Submit enters a reprocess request, ...
<1>3. ASSUME pending' \subseteq pending, map' \subseteq map
      PROVE  ReprocessOut' => ReprocessOut
  BY <1>2, <1>3 DEF ReprocessOut, Frames, IsInput
\* ... and only the request thread restarts.
<1>4. ASSUME pending' \subseteq pending, map' \subseteq map, Restarting' => Restarting,
             Faulty' => Faulty
      PROVE  KeptApart'
  BY <1>2, <1>3, <1>4 DEF KeptApart
<1>5. CASE Submit
  <2>1. pc["request"] = "idle" /\ ~Stopped /\ ~Stopped'
    BY <1>5 DEF Submit, Enter, Stopped
  <2>2. PICK s \in {"idle", "wait"} : pc' = [pc EXCEPT !["request"] = s]
    BY <1>5 DEF Submit, Enter
  <2>3. pc'["request"] = s /\ pc'["flush"] = pc["flush"]
    BY <2>2, PcMoves DEF HInv, Control, Thread, Stage
  <2>4. ~Restarting'
    BY <2>3 DEF Restarting
  <2>5. Faulty' => pc["flush"] # "idle"
    BY <2>1, <2>3 DEF Faulty
  <2>6. pc["flush"] # "idle" => ~IsInput(next) /\ ~ReprocessOut
    BY <1>5 DEF Submit, KeptApart, Faulty
  <2>7. /\ pending' = pending \cup {next}
        /\ \E streams : map' = map \cup ({next} \X streams)
    BY <1>5 DEF Submit, Enter
  <2>8. ~IsInput(next) /\ ~ReprocessOut => ~ReprocessOut'
    BY <1>2, <2>7 DEF ReprocessOut, Frames, IsInput
  <2> QED BY <2>4, <2>5, <2>6, <2>8 DEF KeptApart
<1>6. CASE SubmitAfterRestart
  <2>1. hfr /\ ~Faulty
    BY <1>6 DEF SubmitAfterRestart, Restarting, KeptApart
  <2>2. PICK s \in {"idle", "wait"} : pc' = [pc EXCEPT !["request"] = s]
    BY <1>6 DEF SubmitAfterRestart, Enter
  <2>3. pc'["request"] = s /\ pc'["flush"] = pc["flush"]
    BY <2>2, PcMoves DEF HInv, Control, Thread, Stage
  <2>4. ~Faulty'
    BY <1>6, <2>1, <2>3 DEF SubmitAfterRestart, Enter, Faulty, Stopped
  <2> QED BY <2>3, <2>4 DEF KeptApart, Restarting
<1>7. CASE SubmitWithRestart
  <2>1. hfr /\ pc["flush"] = "idle" /\ mState' = "STARTED" /\ pc' = [pc EXCEPT !["request"] = "halt"]
    BY <1>7 DEF SubmitWithRestart, hal
  <2>2. pc'["flush"] = "idle"
    BY <2>1, PcMoves DEF HInv, Control, Thread, Stage
  <2> QED BY <1>2, <2>1, <2>2 DEF KeptApart, Faulty, Stopped
<1>8. CASE RestartStop \/ RestartSweep \/ RestartStart
  <2>1. pending' \subseteq pending /\ map' \subseteq map /\ mState' = mState
    BY <1>8 DEF RestartStop, RestartSweep, RestartStart, Sweep, hal
  <2>2. Restarting /\ \E s \in Stage : pc' = [pc EXCEPT !["request"] = s]
    BY <1>8 DEF RestartStop, RestartSweep, RestartStart, Restarting, Stage
  <2>3. pc'["flush"] = pc["flush"]
    BY <2>2, PcMoves DEF HInv, Control, Thread
  <2> QED BY <1>4, <2>1, <2>2, <2>3 DEF Faulty, Stopped
<1>9. CASE Wake \/ RequestTimesOut
  <2>1. pending' = pending /\ map' = map /\ mState' = mState
    BY <1>9 DEF Wake, RequestTimesOut, hal
  <2>2. PICK s \in {"idle", "wait"} : pc' = [pc EXCEPT !["request"] = s]
    BY <1>9 DEF Wake, RequestTimesOut
  <2>3. pc'["request"] = s /\ pc'["flush"] = pc["flush"]
    BY <2>2, PcMoves DEF HInv, Control, Thread, Stage
  <2> QED BY <1>4, <2>1, <2>3 DEF Faulty, Stopped, Restarting
<1>10. CASE Flush \/ DaemonDies
  <2>1. /\ pending' = pending /\ map' = map /\ Apart
        /\ pc' = pc \/ pc' = [pc EXCEPT !["flush"] = "mark"]
    BY <1>10 DEF Flush, DaemonDies, hal, fw
  <2>2. pc'["request"] = pc["request"]
    BY <2>1, PcMoves DEF HInv, Control, Thread, Stage
  <2> QED BY <1>2, <1>3, <2>1, <2>2 DEF Apart, KeptApart, Restarting
<1>11. CASE DaemonPulls \/ Configure
  <2>1. /\ pending' = pending /\ map' = map /\ pc' = pc
        /\ mState' = mState \/ mState' = "CONFIGURED"
    BY <1>11 DEF DaemonPulls, Configure, fw
  <2> QED BY <1>4, <2>1 DEF Faulty, Stopped, Restarting
<1>12. CASE \E t \in Thread : FindError(t) \/ FlushStep(t)
  <2> PICK t \in Thread : FindError(t) \/ FlushStep(t)
    BY <1>12
  <2>1. /\ pending' \subseteq pending /\ map' \subseteq map
        /\ mState' = mState \/ pc[t] = "deinit"
    BY DEF FindError, FlushStep, CheckError, MarkFlush, StopStreams, StopMetadata,
           FlushSweep, Deinit, Sweep, hal
  <2>2. PICK s \in Stage \ RestartTakes : pc' = [pc EXCEPT ![t] = s]
    BY DEF FindError, FlushStep, CheckError, MarkFlush, StopStreams, StopMetadata,
           FlushSweep, Deinit, Stage, RestartTakes
  <2>3. pc'[t] = s /\ \A u \in Thread : u # t => pc'[u] = pc[u]
    BY <2>2, PcMoves DEF HInv, Control
  <2>4. Restarting' => Restarting
    BY <2>2, <2>3 DEF Restarting, RestartTakes, Thread
  <2>5. Faulty' => Faulty
    <3>1. pc[t] = "idle" => mState = "ERROR"
      BY DEF FindError, FlushStep, CheckError, MarkFlush, StopStreams, StopMetadata,
             FlushSweep, Deinit
    <3>2. pc[t] \in {"idle", "check", "mark", "deinit"} \cup FlushTakes
      BY DEF FindError, FlushStep, CheckError, MarkFlush, StopStreams, StopMetadata,
             FlushSweep, Deinit, FlushTakes
    <3>3. t = "request" /\ pc[t] \in {"mark", "deinit"} \cup FlushTakes => Stopped
      BY DEF HInv, Control, KeptOut
    <3>4. t = "request" /\ pc[t] = "check" => pc'["flush"] = pc["flush"] /\ mState' = mState
      BY <2>1, <2>3 DEF Thread
    <3> QED BY <3>1, <3>2, <3>3, <3>4 DEF Faulty, Stopped, Thread
  <2> QED BY <1>4, <2>1, <2>4, <2>5
<1>13. CASE \/ \E f \in Frame : Metadata(f) \/ InputDone(f)
            \/ \E b \in Buffer : BufferArrives(b)
  <2>1. /\ pending' \subseteq pending /\ map' \subseteq map /\ pc' = pc /\ mState' = mState
    BY <1>13 DEF Metadata, InputDone, BufferArrives, fw
  <2> QED BY <1>4, <2>1 DEF Faulty, Stopped, Restarting
<1> QED BY <1>1, <1>5, <1>6, <1>7, <1>8, <1>9, <1>10, <1>11, <1>12, <1>13 DEF Next, RequestStep

LEMMA FlushAnswers ==
  ASSUME HInv, CountsInv, AnsweredInv, KeptApart, NEW t \in Thread, FlushSweep(t)
  PROVE  AnsweredInv'
<1>1. pc[t] = "sweep" /\ UNCHANGED <<next, hfr>>
  BY DEF FlushSweep
<1>2. Faulty
  BY <1>1 DEF HInv, Control, KeptOut, FlushTakes, Faulty, Thread
<1>3. ~ReprocessOut /\ pc["request"] # "unlocked"
  BY <1>2 DEF KeptApart, Restarting
<1>4. Sweep
  BY <1>3 DEF FlushSweep
<1> QED BY <1>1, <1>3, <1>4, SweepAnswers

LEMMA RestartAnswers ==
  ASSUME HInv, CountsInv, AnsweredInv, KeptApart, RestartSweep
  PROVE  AnsweredInv'
<1>1. Sweep /\ UNCHANGED <<next, hfr>> /\ hfr
  BY DEF RestartSweep, KeptApart, Restarting
<1> QED BY <1>1, SweepAnswers DEF ReprocessOut, IsInput

LEMMA OthersAnswer ==
  ASSUME AnsweredInv,
         \/ SubmitWithRestart \/ RestartStop \/ RestartStart \/ Wake \/ RequestTimesOut
         \/ Flush \/ DaemonDies \/ DaemonPulls \/ Configure
         \/ \E t \in Thread : \/ FindError(t) \/ CheckError(t) \/ MarkFlush(t)
                              \/ StopStreams(t) \/ StopMetadata(t) \/ Deinit(t)
  PROVE  AnsweredInv'
<1>1. UNCHANGED <<told, next, hfr, crashed, pending, map>>
  BY DEF SubmitWithRestart, RestartStop, RestartStart, Wake, RequestTimesOut, Flush, DaemonDies,
         DaemonPulls, Configure, FindError, CheckError, MarkFlush, StopStreams, StopMetadata,
         Deinit, hal, fw, out
<1> QED BY <1>1, AnswersNobody

LEMMA NextAnswers ==
  ASSUME HInv, CountsInv, KeptApart, AnsweredInv, [Next]_vars
  PROVE  AnsweredInv'
<1>1. CASE UNCHANGED vars
  <2>1. UNCHANGED <<told, next, hfr, crashed, pending, map>>
    BY <1>1 DEF vars, hal, fw, out
  <2> QED BY <2>1, AnswersNobody
<1>2. CASE Submit
  BY <1>2, SubmitEnters, EnterAnswers DEF Submit, out
<1>3. CASE SubmitAfterRestart
  <2>1. EnterStep(request) /\ request \in Asked
    BY <1>3, RestartEnters DEF SubmitAfterRestart, HInv, Control, HasRequest, RestartTakes
  <2>2. UNCHANGED <<told, crashed>>
    BY <1>3 DEF SubmitAfterRestart, out
  <2> QED BY <2>1, <2>2, EnterAnswers
<1>4. CASE RestartSweep
  BY <1>4, RestartAnswers
<1>5. CASE \E t \in Thread : FindError(t) \/ FlushStep(t)
  BY <1>5, FlushAnswers, OthersAnswer DEF FlushStep
<1>6. CASE \E f \in Frame : Metadata(f) \/ InputDone(f)
  <2>1. ASSUME NEW f \in Frame, InputDone(f) PROVE AnsweredInv'
    BY <2>1, InputAnswers DEF InputDone, fw
  <2> QED BY <1>6, <2>1, MetadataAnswers
<1>7. CASE \E b \in Buffer : BufferArrives(b)
  BY <1>7, BufferAnswers
<1>8. CASE \/ SubmitWithRestart \/ RestartStop \/ RestartStart \/ Wake \/ RequestTimesOut
           \/ Flush \/ DaemonDies \/ DaemonPulls \/ Configure
  BY <1>8, OthersAnswer
<1> QED BY <1>1, <1>2, <1>3, <1>4, <1>5, <1>6, <1>7, <1>8 DEF Next, RequestStep

\* A request gets one final answer, live requests in the order of their frame
\* numbers, and a sweep never takes a request off an empty list nor walks the
\* lists while another does: as long as no flush of the framework and no death of
\* the daemon meets a sensor restart or a reprocess request.
THEOREM AnswersAreInOrder == ASSUME FaultsApart PROVE Spec => []AnsweredOnceInOrder
<1>1. Init => KeptApart /\ AnsweredInv
  <2> SUFFICES ASSUME Init PROVE KeptApart /\ AnsweredInv
    OBVIOUS
  <2>1. KeptApart
    BY DEF Init, KeptApart, Faulty, Stopped, Restarting, Thread
  <2>2. told = <<>> /\ told \in Seq(Reply) /\ DOMAIN told = {} /\ map = {} /\ crashed = FALSE
    BY DEF Init
  <2>3. AnsweredInv
    BY <2>2 DEF AnsweredInv, InOrder, Answered, ToldFrames, OnlyBuffers
  <2> QED BY <2>1, <2>3
<1>2. HInv /\ CountsInv /\ KeptApart /\ AnsweredInv /\ [Next]_vars => (KeptApart /\ AnsweredInv)'
  BY NextKeepsApart, NextAnswers
<1>3. AnsweredInv => AnsweredOnceInOrder
  BY DEF AnsweredInv, InOrder, AnsweredOnceInOrder
<1> QED BY <1>1, <1>2, <1>3, CountsHold, PTL DEF Spec

=============================================================================
