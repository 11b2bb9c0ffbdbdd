-------------------------- MODULE Hal1StateMachine --------------------------
(***************************************************************************)
(* The state machine of the HAL1 camera                                    *)
(* (camera/QCamera2/HAL/QCameraStateMachine.cpp) with the calls of         *)
(* QCamera2HWI.cpp that feed it and the operations it performs.            *)
(*                                                                         *)
(* A call of the framework is one or more API requests.  Each is put in    *)
(* the API queue, and the caller sleeps until the list of results has one  *)
(* of the same type.  The machine's thread takes the API queue first, the  *)
(* event queue when that is empty, and answers by appending a result and   *)
(* waking every caller.  Some requests are answered only by a later event, *)
(* and some requests come from threads of the HAL that do not wait.        *)
(*                                                                         *)
(* The machine's thread changes "hal"; besides it, the live snapshot thread *)
(* (th), the callback thread (cb), take_picture (retro) and the stack.     *)
(* Handlers are functions from hal and a request to the set of their *)
(* outcomes: hal afterwards and the results they append.                   *)
(*                                                                         *)
(* Left out: two cameras in sync (SEND_COMMAND_RESTART and the RESTART_    *)
(* requests), pictures the backend asks for, the manual capture of type 3, *)
(* no-display preview, release_recording_frame, the destructor, requests   *)
(* that every state handles alike (auto focus, dump, ...), and the results *)
(* of types that no call waits for.                                        *)
(***************************************************************************)
EXTENDS Naturals, Sequences, FiniteSets

CONSTANTS
  Caller,        \* threads of the framework
  Calls,         \* Calls[c]: the calls thread c makes
  EarlyRestart,  \* the property persist.camera.feature.restart
  CarefulApp,    \* assumption: no ZSL change during a capture, no stray
                 \* LONGSHOT_OFF
  DaemonMayDie,
  MaxEvents,     \* bound: events still queued when a picture is begun
  CallsWhenDead, \* bound: the calls still begun when the daemon is dead
  MaxFail        \* bound: operations of the HAL that fail

CallName == {"set_preview_window", "start_preview", "stop_preview", "prepare_preview", "enable_msg_type",
             "disable_msg_type", "set_parameters", "get_parameters", "start_recording", "stop_recording",
             "take_picture", "take_retro", "cancel_picture", "longshot_on", "longshot_off", "release"}

\* A take_picture that takes a retro picture; begun while something of an
\* earlier picture is left it goes by a name of its own (a history that no
\* handler reads).
RetroCalls == {"take_retro", "early_retro"}

ASSUME Hal1Assumption ==
  /\ Calls \in [Caller -> SUBSET CallName]
  /\ EarlyRestart \in BOOLEAN /\ CarefulApp \in BOOLEAN /\ DaemonMayDie \in BOOLEAN
  /\ MaxEvents \in Nat /\ CallsWhenDead \subseteq CallName /\ MaxFail \in Nat

VARIABLES
  hal,      \* the machine's state and what the HAL has set up
  apiQ,     \* api_queue
  evtQ,     \* evt_queue
  results,  \* m_apiResultList
  caller,   \* caller -> the call it makes and the result it waits for
  asked     \* PREVIEW_FRAME messages are wanted (for the properties)

machineVars == <<hal, apiQ, evtQ, results, caller, asked>>

State == {"STOPPED", "READY", "PREVIEWING", "PREPARE_SNAPSHOT", "PIC_TAKING", "RECORDING",
          "VIDEO_PIC_TAKING", "PREVIEW_PIC_TAKING"}

\* chan: the channels that preparePreview added; on: they are started; video:
\* the VIDEO channel is started; cap: the CAPTURE channel is; pic: the post
\* processor works for a picture; prep: the hardware prepares for a snapshot;
\* ready: the retro frames are on their way; post: a SNAPSHOT_DONE event that
\* the handler itself posts.
Hal == [state : State, window : BOOLEAN, zsl : BOOLEAN, zslNew : BOOLEAN, hint : BOOLEAN,
        restart : BOOLEAN, longshot : BOOLEAN, retro : {"no", "plain", "flash"},
        chan : {"none", "zsl", "preview", "video"}, on : BOOLEAN, video : BOOLEAN,
        cap : BOOLEAN, pic : BOOLEAN, prep : BOOLEAN, ready : BOOLEAN,
        delay : BOOLEAN, delayed : BOOLEAN, enabled : BOOLEAN,
        th : {"none", "take", "cancel"}, cb : {"idle", "told", "waiting"},
        post : BOOLEAN, dead : BOOLEAN, fails : 0..MaxFail]

MsgApis == {"ENABLE_MSG_TYPE", "DISABLE_MSG_TYPE"}
ParamApis == {"SET_PARAMS", "SET_PARAMS_STOP", "SET_PARAMS_COMMIT", "SET_PARAMS_RESTART", "GET_PARAMS"}
RecordingApis == {"PRE_START_RECORDING", "START_RECORDING"}
SnapshotApis == {"PREPARE_SNAPSHOT", "PRE_TAKE_PICTURE", "TAKE_PICTURE"}
PictureApis == SnapshotApis \cup {"CANCEL_PICTURE", "STOP_CAPTURE_CHANNEL"}
Api == MsgApis \cup ParamApis \cup RecordingApis \cup PictureApis \cup
  {"SET_PREVIEW_WINDOW", "START_PREVIEW", "PREPARE_PREVIEW", "STOP_PREVIEW", "STOP_RECORDING",
   "SEND_COMMAND", "RELEASE"}

Request == [api : Api, arg : {"none", "on", "off", "same", "restart", "zsl"}]
Req(api, arg) == [api |-> api, arg |-> arg]
Plain(api) == Req(api, "none")
NoReq == Req("none", "none")

\* st: the caller is idle, has a request to post, sleeps, or has been woken.
Idle == [call |-> "none", req |-> NoReq, st |-> "idle"]

Event == {"JPEG", "SNAPSHOT_DONE", "PREP_DONE", "READY", "DAEMON_DIED"}

isRecording(h) == h.state \in {"RECORDING", "VIDEO_PIC_TAKING"}
isPreviewRunning(h) == h.state \notin {"STOPPED", "PIC_TAKING"}
isCaptureRunning(h) == h.state \in {"PIC_TAKING", "VIDEO_PIC_TAKING", "PREVIEW_PIC_TAKING"}

MachineTypeOK ==
  /\ hal \in Hal
  /\ apiQ \in Seq(Request) /\ evtQ \in Seq(Event)
  /\ results \in Seq([api : Api, ok : BOOLEAN])
  /\ caller \in [Caller -> {Idle} \cup [call : CallName \cup RetroCalls, req : Request, st : {"post", "asleep", "woken"}]]
  /\ asked \in BOOLEAN

-----------------------------------------------------------------------------
(* What the HAL does for the machine: a set of [h |-> hal, ok |-> success]. *)

Ok(h) == [h |-> h, ok |-> TRUE]
Bad(h) == [h |-> h, ok |-> FALSE]

\* An operation that leaves good when it succeeds and h when it fails; it
\* fails once the daemon is dead.
MayFail(h, good) ==
  IF h.dead THEN {Bad(h)}
  ELSE {Ok(good)} \cup IF h.fails < MaxFail THEN {Bad([h EXCEPT !.fails = @ + 1])} ELSE {}

unpreparePreview(h) == [h EXCEPT !.chan = "none", !.on = FALSE, !.video = FALSE]
stopPreview(h) == unpreparePreview(h)

\* Mutant: the recording ends and the VIDEO channel is not stopped.
StopNothing(h) == h

stopRecording(h) == [h EXCEPT !.video = FALSE]

\* The CAPTURE channel is stopped only when ZSL is off now.
cancelPicture(h) == [h EXCEPT !.pic = FALSE, !.cap = h.cap /\ h.zsl]

\* LONGSHOT_OFF while a picture is taken cancels it and posts the event that
\* says it is done.
longshotOff(h) ==
  IF h.longshot /\ isCaptureRunning(h)
    THEN [cancelPicture(h) EXCEPT !.longshot = FALSE, !.post = TRUE]
    ELSE [h EXCEPT !.longshot = FALSE]

\* The channels: ZSL, or PREVIEW with VIDEO and SNAPSHOT when recording is
\* meant, which turns longshot off.
preparePreview(h) ==
  IF h.hint
    THEN LET g == IF h.longshot THEN longshotOff(h) ELSE h
         IN MayFail(g, [g EXCEPT !.chan = "video", !.on = FALSE])
    ELSE MayFail(h, [h EXCEPT !.chan = IF h.zsl THEN "zsl" ELSE "preview", !.on = FALSE])

\* A channel that was not added cannot be started.
startPreview(h) ==
  IF h.chan \in (IF h.zsl /\ ~h.hint THEN {"zsl"} ELSE {"preview", "video"})
    THEN MayFail(h, [h EXCEPT !.on = TRUE])
    ELSE {Bad(h)}

\* A hint or a parameter sent on its own commits the others that wait.
commit(h) == [h EXCEPT !.zsl = h.zslNew]
commitHint(h, hint) == [commit(h) EXCEPT !.hint = hint]

\* Mutant: the delay ends and nothing is enabled.
ForgetDelayedMsgs(h) == [h EXCEPT !.delayed = FALSE, !.delay = FALSE]

applyDelayedMsgs(h) ==
  [h EXCEPT !.enabled = @ \/ (h.delay /\ h.delayed),
            !.delayed = h.delayed /\ ~h.delay, !.delay = FALSE]

\* preparePreview and startPreview; a start that also ends a delay applies the
\* delayed messages in between. Unprepared when the start fails.
PrepareAndStart(h, endsDelay) ==
  UNION {IF ~p.ok THEN {p}
         ELSE {IF s.ok THEN s ELSE Bad(unpreparePreview(s.h))
                 : s \in startPreview(IF endsDelay THEN applyDelayedMsgs(p.h) ELSE p.h)}
           : p \in preparePreview(h)}

\* In ZSL frames of the running channel are requested; otherwise preview is
\* stopped and a CAPTURE channel started.
takePicture(h) ==
  IF h.zsl
    THEN IF h.chan = "zsl"
           THEN MayFail(h, [h EXCEPT !.pic = TRUE, !.ready = h.retro # "no"])
           ELSE {Bad(h)}
    ELSE MayFail(stopPreview(h), [stopPreview(h) EXCEPT !.pic = TRUE, !.cap = TRUE])

\* Frames for one more picture of a longshot.
longShot(h) ==
  IF (h.zsl /\ h.chan = "zsl") \/ (~h.zsl /\ h.cap)
    THEN MayFail(h, [h EXCEPT !.pic = TRUE]) ELSE {Bad(h)}

\* Both run on a thread of their own, after the last one has been joined:
\* no outcome, and the machine's thread waits, while it runs.
takeLiveSnapshot(h) == IF h.th = "none" THEN MayFail(h, [h EXCEPT !.th = "take"]) ELSE {}
cancelLiveSnapshot(h) == IF h.th = "none" THEN {Ok([h EXCEPT !.th = "cancel"])} ELSE {}

prepareHardwareForSnapshot(h) == MayFail(h, [h EXCEPT !.prep = TRUE])

preStartRecording(h) ==
  IF h.hint THEN {Ok(h)}
  ELSE LET g == commitHint(stopPreview(h), TRUE)
       IN UNION {IF p.ok THEN startPreview(p.h) ELSE {p} : p \in preparePreview(g)}

startRecording(h) ==
  IF h.chan = "video" THEN MayFail(h, [h EXCEPT !.video = TRUE]) ELSE {Bad(h)}

updateParameters(h, r) ==
  LET g == [h EXCEPT !.restart = r.arg # "same",
                     !.zslNew = IF r.arg = "zsl" THEN ~@ ELSE @]
  IN MayFail(g, g)

commitParameterChanges(h) == MayFail(h, commit(h))

-----------------------------------------------------------------------------
(* Outcomes of a handler. *)

Result(api, ok) == [api |-> api, ok |-> ok]
Quiet(h) == [hal |-> h, ans |-> <<>>]

\* A request answered at once, with each of the outcomes of an operation.
Reply(r, outcomes) == {[hal |-> x.h, ans |-> <<Result(r.api, x.ok)>>] : x \in outcomes}

\* The state after an operation, by its success.
Enter(outcomes, good, bad) ==
  {[x EXCEPT !.h.state = IF x.ok THEN good ELSE bad] : x \in outcomes}


\* SNAPSHOT_DONE has been handled: the callback thread that waits goes on.
signalEvtResult(h) == [h EXCEPT !.cb = IF @ = "waiting" THEN "idle" ELSE @]

\* Mutant: only the preparation is answered.
DaemonDiedHalf(h) == {[hal |-> h, ans |-> <<Result("PREPARE_SNAPSHOT", TRUE)>>]}

\* What may wait for the stack is answered when its daemon dies.
DaemonDied(h) ==
  {[hal |-> h, ans |-> <<Result("PREPARE_SNAPSHOT", TRUE), Result("TAKE_PICTURE", TRUE)>>]}

\* An encoded picture goes to the callback thread.
processJpegNotify(h) == {Quiet([h EXCEPT !.cb = IF @ = "idle" /\ h.pic THEN "told" ELSE @])}

Refused(h, r) == Reply(r, {Bad(h)})
Accepted(h, r) == Reply(r, {Ok(h)})
enableMsg(h, r) == Accepted([h EXCEPT !.enabled = r.api = "ENABLE_MSG_TYPE"], r)
sendCommand(h, r) ==
  Reply(r, {IF r.arg = "off" THEN Ok(longshotOff(h))
            ELSE IF isCaptureRunning(h) THEN Bad(h) ELSE Ok([h EXCEPT !.longshot = TRUE])})
clearRestart(outcomes) == {[x EXCEPT !.h.restart = FALSE] : x \in outcomes}

-----------------------------------------------------------------------------
(* The machine: the outcomes of a request in each state.  A request in no   *)
(* case of its state is not answered.                                      *)

Stopped(h, r) ==
  CASE r.api \in MsgApis -> enableMsg(h, r)
    [] r.api = "SET_PREVIEW_WINDOW" -> Accepted([h EXCEPT !.window = TRUE], r)
    [] r.api = "SET_PARAMS" -> Reply(r, updateParameters(h, r))
    [] r.api = "SET_PARAMS_COMMIT" -> Reply(r, commitParameterChanges(h))
    [] r.api = "SET_PARAMS_RESTART" -> Accepted([h EXCEPT !.restart = FALSE], r)
    [] r.api = "START_PREVIEW" ->
         Reply(r, IF h.window THEN Enter(PrepareAndStart(h, TRUE), "PREVIEWING", "STOPPED")
                  ELSE Enter(preparePreview(h), "READY", "STOPPED"))
    [] r.api = "PREPARE_PREVIEW" -> Reply(r, Enter(preparePreview(h), "READY", "STOPPED"))
    [] r.api = "RELEASE" -> Accepted([unpreparePreview(h) EXCEPT !.cap = FALSE], r)
    [] r.api = "SEND_COMMAND" -> sendCommand(h, r)
    [] r.api \in {"GET_PARAMS", "SET_PARAMS_STOP", "STOP_PREVIEW", "CANCEL_PICTURE"} -> Accepted(h, r)
    [] r.api \in RecordingApis \cup {"STOP_RECORDING"} \cup SnapshotApis -> Refused(h, r)
    [] OTHER -> {Quiet(h)}

Ready(h, r) ==
  CASE r.api \in MsgApis -> enableMsg(h, r)
    [] r.api = "SET_PREVIEW_WINDOW" ->
         Reply(r, {IF s.ok THEN [s EXCEPT !.h.state = "PREVIEWING"]
                   ELSE Bad([unpreparePreview(s.h) EXCEPT !.state = "STOPPED"])
                     : s \in startPreview(applyDelayedMsgs([h EXCEPT !.window = TRUE]))})
    [] r.api = "START_PREVIEW" ->
         Reply(r, IF ~h.window THEN {Ok(h)}
                  ELSE {Ok(IF s.ok THEN [s.h EXCEPT !.state = "PREVIEWING"]
                           ELSE [unpreparePreview(s.h) EXCEPT !.state = "STOPPED"])
                          : s \in startPreview(h)})
    [] r.api = "SET_PARAMS" -> Reply(r, updateParameters(h, r))
    [] r.api = "SET_PARAMS_STOP" -> Accepted(unpreparePreview(h), r)
    [] r.api = "SET_PARAMS_COMMIT" -> Reply(r, commitParameterChanges(h))
    [] r.api = "SET_PARAMS_RESTART" ->
         Reply(r, clearRestart(Enter(preparePreview(h), "READY", "STOPPED")))
    [] r.api = "STOP_PREVIEW" -> Accepted([unpreparePreview(h) EXCEPT !.state = "STOPPED"], r)
    [] r.api = "SEND_COMMAND" -> sendCommand(h, r)
    [] r.api \in {"GET_PARAMS", "PREPARE_PREVIEW"} -> Accepted(h, r)
    [] r.api \in {"CANCEL_PICTURE", "RELEASE", "STOP_RECORDING"} \cup RecordingApis \cup SnapshotApis ->
         Refused(h, r)
    [] OTHER -> {Quiet(h)}

\* A failed start after a change of parameters ends preview; a failed
\* preparation leaves the state.
RestartPreview(h) ==
  UNION {IF ~p.ok THEN {p}
         ELSE {IF s.ok THEN s ELSE Bad([unpreparePreview(s.h) EXCEPT !.state = "STOPPED"])
                 : s \in startPreview(applyDelayedMsgs(p.h))}
           : p \in preparePreview(h)}

\* The recording hint goes before a picture; failures of the restart are ignored.
WithoutHint(h) ==
  IF h.hint THEN {x.h : x \in PrepareAndStart(commitHint(stopPreview(h), FALSE), FALSE)} ELSE {h}

\* In ZSL or longshot preview runs on; otherwise it stops for the picture.
TakeFromPreview(h) ==
  IF h.zsl \/ h.longshot
    THEN Enter(takePicture([h EXCEPT !.delay = TRUE]), "PREVIEW_PIC_TAKING", "PREVIEWING")
    ELSE UNION {IF t.ok THEN {[t EXCEPT !.h.state = "PIC_TAKING"]}
                ELSE {Bad(x.h) : x \in Enter(PrepareAndStart(stopPreview(t.h), FALSE), "PREVIEWING", "STOPPED")}
                  : t \in takePicture(h)}

Previewing(h, r) ==
  CASE r.api = "ENABLE_MSG_TYPE" -> IF h.delay THEN Accepted([h EXCEPT !.delayed = TRUE], r) ELSE enableMsg(h, r)
    [] r.api = "DISABLE_MSG_TYPE" ->
         Accepted([h EXCEPT !.enabled = FALSE, !.delayed = FALSE, !.delay = @ /\ ~h.delayed], r)
    [] r.api = "SET_PARAMS" -> Reply(r, updateParameters(h, r))
    [] r.api = "SET_PARAMS_STOP" -> Accepted(stopPreview(h), r)
    [] r.api = "SET_PARAMS_COMMIT" -> Reply(r, commitParameterChanges(h))
    [] r.api = "SET_PARAMS_RESTART" -> Reply(r, clearRestart(RestartPreview(h)))
    [] r.api = "START_PREVIEW" -> Accepted(applyDelayedMsgs(h), r)
    [] r.api = "STOP_PREVIEW" -> Accepted([applyDelayedMsgs(stopPreview(h)) EXCEPT !.state = "STOPPED"], r)
    [] r.api = "PRE_START_RECORDING" -> Reply(r, preStartRecording(h))
    [] r.api = "START_RECORDING" ->
         Reply(r, {IF s.ok THEN Ok([applyDelayedMsgs(s.h) EXCEPT !.state = "RECORDING"]) ELSE s
                     : s \in startRecording(h)})
    [] r.api = "PREPARE_SNAPSHOT" ->
         UNION {IF s.ok THEN {Quiet([applyDelayedMsgs(s.h) EXCEPT !.state = "PREPARE_SNAPSHOT"])}
                ELSE Reply(r, {s}) : s \in prepareHardwareForSnapshot(h)}
    [] r.api = "TAKE_PICTURE" ->
         UNION {UNION {IF t.ok /\ t.h.retro # "no" /\ t.h.state = "PREVIEW_PIC_TAKING" THEN {Quiet(t.h)}
                       ELSE Reply(r, {t}) : t \in TakeFromPreview(g)} : g \in WithoutHint(h)}
    [] r.api = "SEND_COMMAND" ->
         IF r.arg = "restart" /\ h.zsl /\ h.chan = "zsl"
           THEN Reply(r, PrepareAndStart(stopPreview([h EXCEPT !.longshot = TRUE]), TRUE))
           ELSE sendCommand(h, r)
    [] r.api \in {"GET_PARAMS", "PREPARE_PREVIEW", "PRE_TAKE_PICTURE", "CANCEL_PICTURE", "STOP_RECORDING"} ->
         Accepted(h, r)
    [] r.api \in {"SET_PREVIEW_WINDOW", "RELEASE"} -> Refused(h, r)
    [] OTHER -> {Quiet(h)}

PrepareSnapshot(h, r) == IF r.api = "STOP_CAPTURE_CHANNEL" THEN {Quiet(h)} ELSE Refused(h, r)

\* LONGSHOT_OFF goes back to previewing from either picture state.
LongshotCommand(h, r) ==
  {[x EXCEPT !.hal.state = IF r.arg = "off" THEN "PREVIEWING" ELSE @] : x \in sendCommand(h, r)}

PicTaking(h, r) ==
  CASE r.api \in MsgApis -> enableMsg(h, r)
    [] r.api = "SET_PARAMS" -> Reply(r, updateParameters(h, r))
    [] r.api = "SET_PARAMS_COMMIT" -> Reply(r, commitParameterChanges(h))
    [] r.api = "SET_PARAMS_RESTART" -> Accepted([h EXCEPT !.restart = FALSE], r)
    [] r.api \in {"STOP_PREVIEW", "CANCEL_PICTURE"} ->
         Accepted([cancelPicture(h) EXCEPT !.state = "STOPPED"], r)
    [] r.api = "SEND_COMMAND" -> LongshotCommand(h, r)
    [] r.api \in {"PRE_TAKE_PICTURE", "TAKE_PICTURE"} ->
         Reply(r, IF ~h.longshot THEN {Bad(h)}
                  ELSE IF r.api = "TAKE_PICTURE" THEN longShot(h) ELSE {Ok(h)})
    [] r.api = "STOP_CAPTURE_CHANNEL" ->
         LET g == [h EXCEPT !.cap = FALSE]
         IN IF ~EarlyRestart THEN {Quiet(g)}
            ELSE {Quiet(x.h) : x \in UNION {IF p.ok THEN startPreview(applyDelayedMsgs(p.h)) ELSE {p}
                                              : p \in preparePreview(g)}}
    [] r.api \in {"GET_PARAMS", "SET_PARAMS_STOP"} -> Accepted(h, r)
    [] r.api \in {"SET_PREVIEW_WINDOW", "PREPARE_PREVIEW", "START_PREVIEW", "PREPARE_SNAPSHOT",
                  "STOP_RECORDING", "RELEASE"} \cup RecordingApis -> Refused(h, r)
    [] OTHER -> {Quiet(h)}

\* Parameters that need a restart are refused while recording.
RecordingParams(h, r) ==
  CASE r.api = "SET_PARAMS" ->
         Reply(r, {IF x.h.restart THEN Bad([x.h EXCEPT !.restart = FALSE]) ELSE x
                     : x \in updateParameters(h, r)})
    [] r.api \in {"SET_PARAMS_STOP", "SET_PARAMS_RESTART"} -> Refused(h, r)
    [] r.api = "SET_PARAMS_COMMIT" -> Reply(r, commitParameterChanges(h))
    [] r.api = "GET_PARAMS" -> Accepted(h, r)

Recording(h, r) ==
  CASE r.api \in ParamApis -> RecordingParams(h, r)
    [] r.api \in MsgApis -> enableMsg(h, r)
    [] r.api = "STOP_RECORDING" -> Accepted([stopRecording(h) EXCEPT !.state = "PREVIEWING"], r)
    [] r.api = "STOP_PREVIEW" -> Accepted([stopPreview(stopRecording(h)) EXCEPT !.state = "STOPPED"], r)
    [] r.api = "TAKE_PICTURE" -> Reply(r, Enter(takeLiveSnapshot(h), "VIDEO_PIC_TAKING", "RECORDING"))
    [] r.api = "SEND_COMMAND" -> sendCommand(h, r)
    [] r.api \in {"SET_PREVIEW_WINDOW", "PREPARE_PREVIEW", "START_PREVIEW", "PREPARE_SNAPSHOT",
                  "PRE_TAKE_PICTURE"} \cup RecordingApis -> Accepted(h, r)
    [] r.api \in {"CANCEL_PICTURE", "RELEASE"} -> Refused(h, r)
    [] OTHER -> {Quiet(h)}

VideoPicTaking(h, r) ==
  CASE r.api \in ParamApis -> RecordingParams(h, r)
    [] r.api \in MsgApis -> enableMsg(h, r)
    [] r.api = "STOP_RECORDING" ->
         Reply(r, {Ok([stopRecording(x.h) EXCEPT !.state = "PREVIEWING"]) : x \in cancelLiveSnapshot(h)})
    [] r.api = "CANCEL_PICTURE" -> Reply(r, Enter(cancelLiveSnapshot(h), "RECORDING", "RECORDING"))
    [] r.api = "STOP_PREVIEW" ->
         Reply(r, {Ok([stopPreview(stopRecording(x.h)) EXCEPT !.state = "STOPPED"])
                     : x \in cancelLiveSnapshot(h)})
    [] r.api = "SEND_COMMAND" -> sendCommand(h, r)
    [] r.api \in {"SET_PREVIEW_WINDOW", "PREPARE_PREVIEW", "START_PREVIEW", "RELEASE"}
                 \cup RecordingApis \cup SnapshotApis -> Refused(h, r)
    [] OTHER -> {Quiet(h)}

\* The picture of PREVIEW_PIC_TAKING, ended the way it was begun.
EndPicture(h) == IF h.zsl \/ h.longshot THEN {Ok(cancelPicture(h))} ELSE cancelLiveSnapshot(h)

PreviewPicTaking(h, r) ==
  CASE r.api \in MsgApis -> enableMsg(h, r)
    [] r.api = "SET_PARAMS" -> Reply(r, updateParameters(h, r))
    [] r.api = "SET_PARAMS_STOP" -> Accepted(stopPreview(h), r)
    [] r.api = "SET_PARAMS_COMMIT" -> Reply(r, commitParameterChanges(h))
    [] r.api = "SET_PARAMS_RESTART" ->
         Reply(r, clearRestart(Enter(PrepareAndStart(h, TRUE), "PREVIEW_PIC_TAKING", "PIC_TAKING")))
    [] r.api = "SEND_COMMAND" -> LongshotCommand(h, r)
    [] r.api = "CANCEL_PICTURE" -> Reply(r, Enter(EndPicture(h), "PREVIEWING", "PREVIEWING"))
    [] r.api = "STOP_PREVIEW" ->
         Reply(r, {Ok([unpreparePreview(x.h) EXCEPT !.state = "STOPPED"]) : x \in EndPicture(h)})
    [] r.api \in RecordingApis ->
         Reply(r, IF h.zsl \/ h.longshot THEN {Bad(h)}
                  ELSE IF r.api = "PRE_START_RECORDING" THEN preStartRecording(h)
                  ELSE Enter(startRecording(h), "VIDEO_PIC_TAKING", "PREVIEW_PIC_TAKING"))
    [] r.api \in {"PRE_TAKE_PICTURE", "TAKE_PICTURE"} ->
         Reply(r, IF ~h.longshot THEN {Bad(h)}
                  ELSE IF r.api = "TAKE_PICTURE" THEN longShot(h) ELSE {Ok(h)})
    [] r.api = "PREPARE_SNAPSHOT" ->
         IF h.retro = "no" THEN Refused(h, r)
         ELSE UNION {IF s.ok THEN {Quiet(s.h)} ELSE Reply(r, {s}) : s \in prepareHardwareForSnapshot(h)}
    [] r.api = "GET_PARAMS" -> Accepted(h, r)
    [] r.api \in {"SET_PREVIEW_WINDOW", "PREPARE_PREVIEW", "START_PREVIEW", "STOP_RECORDING", "RELEASE"} ->
         Refused(h, r)
    [] OTHER -> {Quiet(h)}

stateMachine(h, r) ==
  CASE h.state = "STOPPED" -> Stopped(h, r)
    [] h.state = "READY" -> Ready(h, r)
    [] h.state = "PREVIEWING" -> Previewing(h, r)
    [] h.state = "PREPARE_SNAPSHOT" -> PrepareSnapshot(h, r)
    [] h.state = "PIC_TAKING" -> PicTaking(h, r)
    [] h.state = "RECORDING" -> Recording(h, r)
    [] h.state = "VIDEO_PIC_TAKING" -> VideoPicTaking(h, r)
    [] h.state = "PREVIEW_PIC_TAKING" -> PreviewPicTaking(h, r)

\* Mutants: the post processor of a picture is not stopped; a state without a
\* picture ignores the event; PREP_DONE answers in one state only.
DoneKeepsPicture(h) ==
  {signalEvtResult([h EXCEPT !.state = IF isCaptureRunning(h) THEN "PREVIEWING" ELSE @])}
DoneIgnored(h) ==
  IF h.state = "PREVIEW_PIC_TAKING"
    THEN {signalEvtResult([x.h EXCEPT !.state = "PREVIEWING"]) : x \in EndPicture(h)}
    ELSE {h}
PrepDoneOnce(h, e) ==
  IF e = "PREP_DONE" /\ h.state = "PREPARE_SNAPSHOT"
    THEN {[hal |-> [h EXCEPT !.state = "PREVIEWING"], ans |-> <<Result("PREPARE_SNAPSHOT", TRUE)>>]}
    ELSE {Quiet(h)}

\* The outcomes of an event.
snapshotDone(h) ==
  CASE h.state = "PIC_TAKING" ->
         {signalEvtResult([cancelPicture(h) EXCEPT !.state = IF EarlyRestart THEN "PREVIEWING" ELSE "STOPPED"])}
    [] h.state = "VIDEO_PIC_TAKING" ->
         {signalEvtResult([x.h EXCEPT !.state = "RECORDING"]) : x \in cancelLiveSnapshot(h)}
    [] h.state = "PREVIEW_PIC_TAKING" ->
         {signalEvtResult([x.h EXCEPT !.state = "PREVIEWING"]) : x \in EndPicture(h)}
    [] OTHER -> {signalEvtResult(h)}

procEvt(h, e) ==
  CASE e = "SNAPSHOT_DONE" -> {Quiet(g) : g \in snapshotDone(h)}
    [] e = "JPEG" -> IF isCaptureRunning(h) THEN processJpegNotify(h) ELSE {Quiet(h)}
    [] e = "PREP_DONE" ->
         IF h.state = "PREPARE_SNAPSHOT" \/ (h.state = "PREVIEW_PIC_TAKING" /\ h.retro # "no")
           THEN {[hal |-> [h EXCEPT !.state = IF @ = "PREPARE_SNAPSHOT" THEN "PREVIEWING" ELSE @],
                  ans |-> <<Result("PREPARE_SNAPSHOT", TRUE)>>]}
           ELSE {Quiet(h)}
    [] e = "READY" ->
         IF h.state = "PREVIEW_PIC_TAKING" /\ h.retro # "no"
           THEN {[hal |-> h, ans |-> <<Result("TAKE_PICTURE", TRUE)>>]} ELSE {Quiet(h)}
    [] e = "DAEMON_DIED" ->
         IF h.state \in {"PREPARE_SNAPSHOT", "PIC_TAKING", "PREVIEW_PIC_TAKING"}
           THEN DaemonDied(h) ELSE {Quiet(h)}

-----------------------------------------------------------------------------
MachineInit ==
  /\ hal = [state |-> "STOPPED", window |-> FALSE, zsl |-> FALSE, zslNew |-> FALSE, hint |-> FALSE,
            restart |-> FALSE, longshot |-> FALSE, retro |-> "no", chan |-> "none", on |-> FALSE,
            video |-> FALSE, cap |-> FALSE, pic |-> FALSE, prep |-> FALSE, ready |-> FALSE,
            delay |-> FALSE, delayed |-> FALSE, enabled |-> FALSE, th |-> "none", cb |-> "idle",
            post |-> FALSE, dead |-> FALSE, fails |-> 0]
  /\ apiQ = <<>> /\ evtQ = <<>> /\ results = <<>>
  /\ caller = [c \in Caller |-> Idle]
  /\ asked = FALSE

\* The first request of each call; whether the flash needs the hardware to be
\* prepared is the stack's choice.
First(call) ==
  CASE call = "set_preview_window" -> {Plain("SET_PREVIEW_WINDOW")}
    [] call = "start_preview" -> {Plain("START_PREVIEW")}
    [] call = "stop_preview" -> {Plain("STOP_PREVIEW")}
    [] call = "prepare_preview" -> {Plain("PREPARE_PREVIEW")}
    [] call = "enable_msg_type" -> {Plain("ENABLE_MSG_TYPE")}
    [] call = "disable_msg_type" -> {Plain("DISABLE_MSG_TYPE")}
    [] call = "get_parameters" -> {Plain("GET_PARAMS")}
    [] call = "set_parameters" -> {Req("SET_PARAMS", a) : a \in {"same", "restart", "zsl"}}
    [] call = "start_recording" -> {Plain("PRE_START_RECORDING")}
    [] call = "stop_recording" -> {Plain("STOP_RECORDING")}
    [] call = "take_picture" -> {Plain("PREPARE_SNAPSHOT"), Plain("PRE_TAKE_PICTURE")}
    [] call = "take_retro" -> {Plain("PRE_TAKE_PICTURE")}
    [] call = "cancel_picture" -> {Plain("CANCEL_PICTURE")}
    [] call = "longshot_on" -> {Req("SEND_COMMAND", "on"), Req("SEND_COMMAND", "restart")}
    [] call = "longshot_off" -> {Req("SEND_COMMAND", "off")}
    [] call = "release" -> {Plain("RELEASE")}

\* The request after an answer, NoReq when the call returns.
After(call, api, ok) ==
  CASE api = "SET_PARAMS" /\ ok -> Plain(IF hal.restart THEN "SET_PARAMS_STOP" ELSE "SET_PARAMS_COMMIT")
    [] api = "SET_PARAMS_STOP" /\ ok -> Plain("SET_PARAMS_COMMIT")
    [] api = "SET_PARAMS_COMMIT" /\ ok /\ hal.restart -> Plain("SET_PARAMS_RESTART")
    [] api = "PRE_START_RECORDING" /\ ok -> Plain("START_RECORDING")
    [] api = "PREPARE_SNAPSHOT" /\ call = "take_picture" -> Plain("PRE_TAKE_PICTURE")
    [] api = "PRE_TAKE_PICTURE" /\ ok -> Plain("TAKE_PICTURE")
    [] api = "TAKE_PICTURE" /\ call \in RetroCalls /\ hal.retro = "flash" -> Plain("PREPARE_SNAPSHOT")
    [] OTHER -> NoReq

\* A call that takes the lock anew for its next request lets others in between.
KeepsLock(req) == req.api \in {"SET_PARAMS_STOP", "SET_PARAMS_COMMIT", "SET_PARAMS_RESTART"}

\* Nothing is left of the picture before.  The application cannot tell.
Settled == hal.cb = "idle" /\ hal.th = "none" /\ \A i \in DOMAIN evtQ : evtQ[i] \notin {"SNAPSHOT_DONE", "JPEG"}

Call(c, call) ==
  /\ caller[c] = Idle
  /\ call = "take_retro" => hal.zsl /\ ~hal.longshot /\ ~isRecording(hal)
  /\ call \in {"take_picture", "take_retro"} => Len(evtQ) <= MaxEvents
  /\ hal.dead => call \in CallsWhenDead
  /\ call = "longshot_off" /\ CarefulApp => hal.longshot
  /\ hal' \in IF call = "take_picture" THEN {[hal EXCEPT !.retro = "no"]}
              ELSE IF call = "take_retro" THEN {[hal EXCEPT !.retro = x] : x \in {"plain", "flash"}}
              ELSE {hal}
  /\ \E req \in First(call) :
       /\ call = "set_parameters" /\ CarefulApp /\ isCaptureRunning(hal) =>
            req.arg # "zsl" /\ hal.zslNew = hal.zsl
       /\ apiQ' = Append(apiQ, req)
       /\ caller' = [caller EXCEPT ![c] =
                          [call |-> IF call = "take_retro" /\ ~Settled THEN "early_retro" ELSE call,
                           req |-> req, st |-> "asleep"]]
  /\ UNCHANGED <<evtQ, results, asked>>

processAPI(c) ==
  /\ caller[c].st = "post"
  /\ apiQ' = Append(apiQ, caller[c].req)
  /\ caller' = [caller EXCEPT ![c].st = "asleep"]
  /\ UNCHANGED <<hal, evtQ, results, asked>>

\* Woken by a result, a caller takes the first of its request's type.  One
\* that came before it slept is seen only when the next result wakes it.
waitAPIResult(c) ==
  /\ caller[c].st = "woken"
  /\ LET mine == {i \in DOMAIN results : results[i].api = caller[c].req.api}
         i == CHOOSE k \in mine : \A j \in mine : k <= j
         next == After(caller[c].call, caller[c].req.api, results[i].ok)
     IN IF mine = {}
          THEN caller' = [caller EXCEPT ![c].st = "asleep"] /\ UNCHANGED <<results, apiQ, asked>>
          ELSE /\ results' = SubSeq(results, 1, i - 1) \o SubSeq(results, i + 1, Len(results))
               /\ caller' = [caller EXCEPT ![c] =
                    IF next = NoReq THEN Idle
                    ELSE [call |-> @.call, req |-> next, st |-> IF KeepsLock(next) THEN "asleep" ELSE "post"]]
               /\ apiQ' = IF KeepsLock(next) THEN Append(apiQ, next) ELSE apiQ
               /\ asked' = CASE results[i] = Result("ENABLE_MSG_TYPE", TRUE) -> TRUE
                            [] results[i] = Result("DISABLE_MSG_TYPE", TRUE) -> FALSE
                            [] OTHER -> asked
  /\ UNCHANGED <<hal, evtQ>>

signalAPIResult(ans) ==
  /\ results' = results \o ans
  /\ caller' = IF ans = <<>> THEN caller
               ELSE [c \in Caller |-> IF caller[c].st = "asleep" THEN [caller[c] EXCEPT !.st = "woken"]
                                      ELSE caller[c]]

Finish(x, events) ==
  /\ hal' = [x.hal EXCEPT !.post = FALSE]
  /\ evtQ' = IF x.hal.post THEN Append(events, "SNAPSHOT_DONE") ELSE events
  /\ signalAPIResult(x.ans)
  /\ UNCHANGED asked

\* smEvtProcRoutine: requests before events.
HandleRequest ==
  /\ apiQ # <<>>
  /\ apiQ' = Tail(apiQ)
  /\ \E x \in stateMachine(hal, Head(apiQ)) : Finish(x, evtQ)
HandleEvent ==
  /\ apiQ = <<>> /\ evtQ # <<>>
  /\ apiQ' = apiQ
  /\ \E x \in procEvt(hal, Head(evtQ)) : Finish(x, Tail(evtQ))

\* The live snapshot thread.  A failure asks for the picture to be cancelled,
\* without waiting for the answer.
LiveSnapshotThread ==
  /\ hal.th # "none"
  /\ LET done == [hal EXCEPT !.th = "none"]
     IN IF hal.th = "cancel" THEN hal' = [done EXCEPT !.pic = FALSE] /\ apiQ' = apiQ
        ELSE \E x \in IF hal.chan = "video" THEN MayFail(done, [done EXCEPT !.pic = TRUE]) ELSE {Bad(done)} :
               hal' = x.h /\ apiQ' = IF x.ok THEN apiQ ELSE Append(apiQ, Plain("CANCEL_PICTURE"))
  /\ UNCHANGED <<evtQ, results, caller, asked>>

\* The callback thread after the last picture: it says so to the machine and
\* waits for the event to be handled, in a longshot not.  Notifications that a
\* stop of the post processor flushed are never handled.
NotifyPicture ==
  /\ hal.cb = "told"
  /\ IF hal.longshot THEN hal' = [hal EXCEPT !.cb = "idle"] /\ evtQ' = evtQ
     ELSE hal' = [hal EXCEPT !.cb = "waiting"] /\ evtQ' = Append(evtQ, "SNAPSHOT_DONE")
  /\ UNCHANGED <<apiQ, results, caller, asked>>
FlushNotification ==
  /\ hal.cb = "told" /\ ~hal.pic
  /\ hal' = [hal EXCEPT !.cb = "idle"]
  /\ UNCHANGED <<apiQ, evtQ, results, caller, asked>>

-----------------------------------------------------------------------------
(* The stack and the post processor. *)

Stack(e, h) ==
  /\ ~hal.dead
  /\ hal' = h /\ evtQ' = Append(evtQ, e)
  /\ UNCHANGED <<apiQ, results, caller, asked>>

PrepDone == hal.prep /\ Stack("PREP_DONE", [hal EXCEPT !.prep = FALSE, !.retro = IF @ = "flash" THEN "plain" ELSE @])
RetroReady == hal.ready /\ Stack("READY", [hal EXCEPT !.ready = FALSE])
JpegDone ==
  /\ hal.pic /\ ~hal.ready /\ ~hal.prep /\ hal.retro # "flash" /\ hal.cb = "idle"
  /\ \A i \in DOMAIN evtQ : evtQ[i] # "JPEG"
  /\ Stack("JPEG", hal)
DaemonDies == DaemonMayDie /\ Stack("DAEMON_DIED", [hal EXCEPT !.dead = TRUE])

\* The frame of a regular capture has arrived: its channel may stop.
stopCapture ==
  /\ ~hal.dead /\ hal.pic /\ hal.cap /\ ~hal.zsl /\ ~hal.longshot /\ ~hal.hint
  /\ \A i \in DOMAIN apiQ : apiQ[i].api # "STOP_CAPTURE_CHANNEL"
  /\ apiQ' = Append(apiQ, Plain("STOP_CAPTURE_CHANNEL"))
  /\ UNCHANGED <<hal, evtQ, results, caller, asked>>

MachineNext ==
  \/ \E c \in Caller : (\E call \in Calls[c] : Call(c, call)) \/ processAPI(c) \/ waitAPIResult(c)
  \/ HandleRequest \/ HandleEvent
  \/ LiveSnapshotThread \/ NotifyPicture \/ FlushNotification
  \/ PrepDone \/ RetroReady \/ JpegDone \/ DaemonDies \/ stopCapture

\* Threads go on, and the stack answers what it was asked while it lives; the
\* application need not call.
MachineFairness ==
  /\ \A c \in Caller : WF_machineVars(processAPI(c)) /\ WF_machineVars(waitAPIResult(c))
  /\ WF_machineVars(HandleRequest) /\ WF_machineVars(HandleEvent)
  /\ WF_machineVars(LiveSnapshotThread) /\ WF_machineVars(NotifyPicture)
  /\ WF_machineVars(PrepDone) /\ WF_machineVars(RetroReady)

MachineSpec == MachineInit /\ [][MachineNext]_machineVars /\ MachineFairness

-----------------------------------------------------------------------------
(* Properties. *)

\* The answer that caller c sleeps for is to come from a later event.
Deferred(c) ==
  \/ /\ caller[c].req.api = "PREPARE_SNAPSHOT"
     /\ hal.state = "PREPARE_SNAPSHOT" \/ (hal.state = "PREVIEW_PIC_TAKING" /\ hal.retro # "no")
     /\ (hal.prep /\ ~hal.dead) \/ \E i \in DOMAIN evtQ : evtQ[i] \in {"PREP_DONE", "DAEMON_DIED"}
  \/ /\ caller[c].req.api = "TAKE_PICTURE"
     /\ hal.state = "PREVIEW_PIC_TAKING" /\ hal.retro # "no"
     /\ (hal.ready /\ ~hal.dead) \/ \E i \in DOMAIN evtQ : evtQ[i] \in {"READY", "DAEMON_DIED"}

\* Caller c has a request in the queue, a result that it has been woken for,
\* or an answer to come from an event that the state of then answers.
Remembered(c) ==
  \/ \E i \in DOMAIN apiQ : apiQ[i] = caller[c].req
  \/ caller[c].st = "woken" /\ \E i \in DOMAIN results : results[i].api = caller[c].req.api
  \/ Deferred(c)

\* The one way to lose an answer: a retro picture begun before the last one's
\* SNAPSHOT_DONE was handled is ended by it, and the state it ends in does not
\* answer READY or PREP_DONE (processSyncEvt, QCameraStateMachine.cpp).
Overtaken(c) ==
  /\ caller[c].call = "early_retro" /\ caller[c].st # "post"
  /\ caller[c].req.api \in {"TAKE_PICTURE", "PREPARE_SNAPSHOT"}
  /\ hal.state # "PREVIEW_PIC_TAKING"

\* No one else who sleeps in waitAPIResult is forgotten: no state, failure,
\* cancelled picture or death of the daemon takes the answer away
\* (stateMachine, DAEMON_DIED), and even the overtaken picture only once its
\* state has ended.
NoCallerForgotten ==
  \A c \in Caller : caller[c].st \in {"asleep", "woken"} => Remembered(c) \/ Overtaken(c)

\* Preview messages that the application was told it has are enabled, or kept
\* to be enabled when the delay of a picture ends (applyDelayedMsgs).
PreviewMessagesKept == asked => hal.enabled \/ (hal.delay /\ hal.delayed)

\* The channels that run are those of the state: VIDEO only in a recording,
\* CAPTURE only during a picture, and nothing when stopped, whichever calls
\* and failures led there.
ChannelsFitState ==
  /\ hal.video => hal.state \in {"RECORDING", "VIDEO_PIC_TAKING"}
  /\ hal.cap => isCaptureRunning(hal)
  /\ hal.on => hal.state # "STOPPED"

\* The post processor works for a picture only while the machine is in a
\* picture state, or a thread is about to stop it (cancelLiveSnapshot).
PostProcessorFitsState == hal.pic => isCaptureRunning(hal) \/ hal.th = "cancel"

\* Every call of the framework returns, but for the picture that an earlier
\* one's end overtakes; and when no more requests come, the
\* callback thread in processSyncEvt gets its answer in whatever state the
\* event finds the machine.
CallsReturn ==
  /\ \A c \in Caller : caller[c] # Idle ~> caller[c] = Idle \/ (Overtaken(c) /\ ~Remembered(c))
  /\ <>[](apiQ = <<>>) => (hal.cb = "waiting" ~> hal.cb = "idle")
=============================================================================
