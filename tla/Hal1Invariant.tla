------------------------------ MODULE Hal1Invariant ---------------------------
(*****************************************************************************)
(* The inductive invariants of Hal1StateMachine, which Hal1Proofs proves.    *)
(*                                                                           *)
(* KeptInv is about preview messages. Consistent(c) is about one caller c    *)
(* and has five parts: its dialogue with the machine, what is put off to     *)
(* an event, the order in which a picture is answered and ended, the         *)
(* channels, and that a waiting caller is remembered. Moves is what the      *)
(* answer to any request must be like in any state for these parts to be     *)
(* kept.                                                                     *)
(*****************************************************************************)
EXTENDS Hal1StateMachine

-----------------------------------------------------------------------------
(* What a request may do. *)

\* g differs from h in the fields F at most.
Only(h, g, F) ==
  /\ g \in Hal /\ ("state" \in F \/ g.state = h.state) /\ ("window" \in F \/ g.window = h.window)
  /\ ("zsl" \in F \/ g.zsl = h.zsl) /\ ("zslNew" \in F \/ g.zslNew = h.zslNew)
  /\ ("hint" \in F \/ g.hint = h.hint) /\ ("restart" \in F \/ g.restart = h.restart)
  /\ ("longshot" \in F \/ g.longshot = h.longshot) /\ ("retro" \in F \/ g.retro = h.retro)
  /\ ("chan" \in F \/ g.chan = h.chan) /\ ("on" \in F \/ g.on = h.on)
  /\ ("video" \in F \/ g.video = h.video) /\ ("cap" \in F \/ g.cap = h.cap)
  /\ ("pic" \in F \/ g.pic = h.pic) /\ ("prep" \in F \/ g.prep = h.prep)
  /\ ("ready" \in F \/ g.ready = h.ready) /\ ("delay" \in F \/ g.delay = h.delay)
  /\ ("delayed" \in F \/ g.delayed = h.delayed) /\ ("enabled" \in F \/ g.enabled = h.enabled)
  /\ ("th" \in F \/ g.th = h.th) /\ ("cb" \in F \/ g.cb = h.cb) /\ ("post" \in F \/ g.post = h.post)
  /\ ("dead" \in F \/ g.dead = h.dead) /\ ("fails" \in F \/ g.fails = h.fails)

\* What an operation of the HAL leaves, and whether it succeeded.
Outcome == [h : Hal, ok : BOOLEAN]

\* Preview messages are enabled, or will be when the delay of a picture ends.
Wanted(h) == h.enabled \/ (h.delay /\ h.delayed)
\* A recording is under way.
Films(h) == h.state \in {"RECORDING", "VIDEO_PIC_TAKING"}
\* The channels, the picture and the live snapshot's thread that a state may have.
Fits(h) ==
  /\ h.video => Films(h)
  /\ h.on => h.state \notin {"STOPPED", "READY", "PIC_TAKING"}
  /\ h.cap => ~h.zsl /\ (h.state = "PIC_TAKING" \/ (h.state = "PREVIEW_PIC_TAKING" /\ h.longshot))
  /\ h.pic => isCaptureRunning(h) \/ h.th = "cancel"
  /\ h.th = "take" => h.state = "VIDEO_PIC_TAKING"

\* What a request of a careful caller meets.
Careful(h, r) ==
  /\ ~EarlyRestart
  /\ r.api = "SET_PARAMS_COMMIT" /\ isCaptureRunning(h) => h.zslNew = h.zsl
  /\ r.api = "SEND_COMMAND" /\ r.arg = "off" => h.longshot
  /\ r.api = "SET_PARAMS_RESTART" /\ h.state = "PREVIEW_PIC_TAKING" => ~h.on

\* No request changes the kind of picture, the death of the daemon or the callback thread, or
\* forgets a preparation.
Leaves(h, g) ==
  /\ g \in Hal /\ g.retro = h.retro /\ g.dead = h.dead /\ g.cb = h.cb /\ (h.prep => g.prep)

\* A request is answered once, or put off: PREPARE_SNAPSHOT until the hardware is prepared,
\* TAKE_PICTURE of a retro picture until its frame is ready.
Answers(h, r, g, ans) ==
  \/ /\ \E b \in BOOLEAN : ans = <<Result(r.api, b)>>
     /\ g.prep = h.prep /\ (g.ready => h.ready)
  \/ /\ ans = <<>> /\ r.api = "STOP_CAPTURE_CHANNEL"
     /\ g.prep = h.prep /\ g.ready = h.ready
  \/ /\ ans = <<>> /\ r.api = "PREPARE_SNAPSHOT" /\ g.prep /\ ~h.dead /\ g.ready = h.ready
     /\ g.state = "PREPARE_SNAPSHOT" \/ (g.state = "PREVIEW_PIC_TAKING" /\ g.retro # "no")
  \/ /\ ans = <<>> /\ r.api = "TAKE_PICTURE" /\ ~h.dead /\ g.prep = h.prep
     /\ h.state = "PREVIEWING" /\ g.state = "PREVIEW_PIC_TAKING" /\ g.retro # "no"
     /\ g.ready \/ h.longshot
  \/ /\ ans = <<>> /\ r.api \notin Api

\* The requests that lead into a state of a picture or start a capture.
Turns(h, r, g, ans) ==
  /\ g.state = "PREVIEW_PIC_TAKING" =>
       h.state = "PREVIEW_PIC_TAKING" \/ (h.state = "PREVIEWING" /\ r.api = "TAKE_PICTURE" /\ ~h.dead)
  /\ isCaptureRunning(g) => isCaptureRunning(h) \/ (r.api = "TAKE_PICTURE" /\ ~h.dead)
  /\ g.state = "PREPARE_SNAPSHOT" =>
       h.state = "PREPARE_SNAPSHOT" \/ (r.api = "PREPARE_SNAPSHOT" /\ ans = <<>>)
  /\ r.api \in PictureApis /\ h.state = g.state => g.on = h.on \/ h.state # "PREVIEW_PIC_TAKING"

\* What the requests of a picture do, and what they leave alone.
OfPicture(h, r, g, ans) ==
  /\ r.api = "STOP_CAPTURE_CHANNEL" => g.state = h.state /\ (h.state # "PIC_TAKING" => g = h)
  /\ r.api = "CANCEL_PICTURE" =>
       /\ ~isCaptureRunning(h) => g = h
       /\ h.state = "PREVIEW_PIC_TAKING" => g.state = "PREVIEWING"
       /\ h.state = "VIDEO_PIC_TAKING" => g.state = "RECORDING"
       /\ h.state = "PIC_TAKING" => g.state = "STOPPED"
  /\ r.api = "PRE_TAKE_PICTURE" =>
       g = h /\ (ans = <<Result(r.api, TRUE)>> => h.state \in {"PREVIEWING", "RECORDING"} \/ h.longshot)
  /\ r.api = "PREPARE_SNAPSHOT" =>
       g.state = h.state \/ (h.state = "PREVIEWING" /\ g.state = "PREPARE_SNAPSHOT")
  /\ r.api = "TAKE_PICTURE" =>
       \/ g.state = h.state
       \/ h.state = "RECORDING" /\ g.state = "VIDEO_PIC_TAKING"
       \/ h.state = "PREVIEWING" /\ ~Films(g)
  /\ r.api \in PictureApis =>
       /\ g.longshot = h.longshot /\ g.restart = h.restart /\ g.post = h.post /\ g.zslNew = h.zslNew
       /\ g.zsl = h.zsl \/ (r.api = "TAKE_PICTURE" /\ h.state = "PREVIEWING")

\* What the requests of set_parameters do to ZSL and to the restart.
OfParams(h, r, g) ==
  /\ r.api = "SET_PARAMS" => g.zsl = h.zsl /\ (r.arg # "zsl" => g.zslNew = h.zslNew)
  /\ r.api = "SET_PARAMS_STOP" =>
       /\ g.zsl = h.zsl /\ g.zslNew = h.zslNew /\ g.restart = h.restart
       /\ g.state = "PREVIEW_PIC_TAKING" => ~g.on
  /\ r.api = "SET_PARAMS_COMMIT" =>
       g.zsl \in {h.zsl, h.zslNew} /\ g.zslNew = h.zslNew /\ g.restart = h.restart /\ g.on = h.on
  /\ r.api = "SET_PARAMS_RESTART" => g.zsl = h.zsl /\ g.zslNew = h.zslNew

\* A request other than DISABLE_MSG_TYPE keeps the wanted messages, and ENABLE_MSG_TYPE makes them
\* wanted.
Heeds(h, r, g, ans) ==
  /\ r.api # "DISABLE_MSG_TYPE" /\ Wanted(h) => Wanted(g)
  /\ ans = <<Result("ENABLE_MSG_TYPE", TRUE)>> => Wanted(g)

\* What is needed of an answer x to request r in state h, the same for all eight states.
Moves(h, r, x) ==
  /\ Leaves(h, x.hal) /\ Answers(h, r, x.hal, x.ans) /\ Turns(h, r, x.hal, x.ans)
  /\ ~EarlyRestart => OfPicture(h, r, x.hal, x.ans)
  /\ OfParams(h, r, x.hal) /\ Heeds(h, r, x.hal, x.ans)
  /\ Fits(h) /\ Careful(h, r) => Fits(x.hal)

-----------------------------------------------------------------------------
(* Queues and calls. *)

\* e is in the list.
Has(s, e) == \E i \in DOMAIN s : s[i] = e

\* The requests of set_parameters.
SetApis == {"SET_PARAMS", "SET_PARAMS_STOP", "SET_PARAMS_COMMIT", "SET_PARAMS_RESTART"}
\* A request of the call.
CallFits(call, req) ==
  /\ call = "set_parameters" <=> req.api \in SetApis
  /\ call = "start_recording" <=> req.api \in RecordingApis
  /\ call \in RetroCalls \cup {"take_picture"} <=> req.api \in SnapshotApis
  /\ req.api = "CANCEL_PICTURE" <=> call = "cancel_picture"
  /\ req.api \in Api \ {"STOP_CAPTURE_CHANNEL"}

\* A state that answers PREP_DONE.
Prepared(h) == h.state = "PREPARE_SNAPSHOT" \/ (h.state = "PREVIEW_PIC_TAKING" /\ h.retro # "no")

-----------------------------------------------------------------------------
(* Preview messages. *)

\* Messages have been enabled for a caller that has not yet been told.
Enabled == Result("ENABLE_MSG_TYPE", TRUE)
\* What keeps the preview messages: whoever was told they are enabled, or will be, finds them wanted,
\* and nobody asks to disable them.
KeptInv ==
  /\ MachineTypeOK
  /\ asked \/ Has(results, Enabled) => Wanted(hal)
  /\ \A i \in DOMAIN apiQ : apiQ[i].api # "DISABLE_MSG_TYPE"
  /\ \A c \in Caller : caller[c].req.api # "DISABLE_MSG_TYPE"

-----------------------------------------------------------------------------
(* One caller and the machine. *)

\* A caller that waits for a result.
Waiting(c) == caller[c].st \in {"asleep", "woken"}
\* A request of that type is in the queue.
Asks(api) == \E i \in DOMAIN apiQ : apiQ[i].api = api
\* A result of that type is in the list.
Answered(api) == \E i \in DOMAIN results : results[i].api = api

\* The death of the daemon has been handled.
Gone == hal.dead /\ ~Has(evtQ, "DAEMON_DIED")
\* Requests and results that may be no caller's.
Loose(api) ==
  \/ api \in {"CANCEL_PICTURE", "STOP_CAPTURE_CHANNEL"}
  \/ Gone /\ api \in {"TAKE_PICTURE", "PREPARE_SNAPSHOT"}

\* A request in the queue is the one its caller waits for.
AskedIsWanted(c) ==
  \A i \in DOMAIN apiQ : ~Loose(apiQ[i].api) => Waiting(c) /\ apiQ[i] = caller[c].req
\* It is there once.
AskedOnce == \A i, j \in DOMAIN apiQ : ~Loose(apiQ[i].api) /\ apiQ[j].api = apiQ[i].api => i = j
\* A result is of the type its caller has been woken for, and no request of that type is left.
AnswerIsAwaited(c) ==
  \A i \in DOMAIN results : ~Loose(results[i].api) =>
    caller[c].st = "woken" /\ results[i].api = caller[c].req.api /\ ~Asks(results[i].api)
\* It is there once.
AnsweredOnce ==
  \A i, j \in DOMAIN results : ~Loose(results[i].api) /\ results[j].api = results[i].api => i = j
\* A caller's request belongs to its call.
RequestFits(c) == caller[c] # Idle => CallFits(caller[c].call, caller[c].req)
\* The requests that are posted without the lock of the first.
PostFits(c) ==
  caller[c].st = "post" =>
    \/ caller[c].req.api \in {"START_RECORDING", "TAKE_PICTURE", "PREPARE_SNAPSHOT"}
    \/ caller[c].req.api = "PRE_TAKE_PICTURE" /\ caller[c].call = "take_picture"
\* One caller's dialogue with the machine: one request or one result of it at a time.
Dialogue(c) ==
  /\ AskedIsWanted(c) /\ AskedOnce /\ AnswerIsAwaited(c) /\ AnsweredOnce
  /\ RequestFits(c) /\ PostFits(c)

\* Neither asked any more nor answered, and waited for: the answer is to come from an event.
Waits(c, api) == ~Asks(api) /\ ~Answered(api) /\ Waiting(c) /\ caller[c].req.api = api
\* An event is in the queue once.
Once(e) == \A i, j \in DOMAIN evtQ : evtQ[i] = e /\ evtQ[j] = e => i = j
\* A retro picture that the end of an earlier one may overtake.
Early(c) == caller[c].call = "early_retro"
\* As long as the hardware prepares, or its event is under way, PREPARE_SNAPSHOT waits for it, in a
\* state that will answer unless the picture may be overtaken.
PrepareAwaited(c) ==
  ~Gone /\ (hal.prep \/ Has(evtQ, "PREP_DONE")) =>
    /\ Waits(c, "PREPARE_SNAPSHOT") /\ (Prepared(hal) \/ Early(c))
    /\ Once("PREP_DONE") /\ (hal.prep => ~Has(evtQ, "PREP_DONE"))
\* A retro picture is being taken.
RetroTaken(h) == h.state = "PREVIEW_PIC_TAKING" /\ h.retro # "no"
\* As long as a retro frame is looked for, or its event is under way, TAKE_PICTURE waits for it, in a
\* state that will answer unless the picture may be overtaken.
TakeAwaited(c) ==
  ~Gone /\ (hal.ready \/ Has(evtQ, "READY")) =>
    /\ Waits(c, "TAKE_PICTURE") /\ (RetroTaken(hal) \/ Early(c))
    /\ Once("READY") /\ (hal.ready => ~Has(evtQ, "READY"))
\* PREPARE_SNAPSHOT is a state that the hardware's event ends.
PreparationEnds == ~Gone /\ hal.state = "PREPARE_SNAPSHOT" => hal.prep \/ Has(evtQ, "PREP_DONE")
\* The death of the daemon is the last event but for SNAPSHOT_DONE, which the HAL sends itself.
DeathIsLast ==
  \A i, j \in DOMAIN evtQ : evtQ[i] = "DAEMON_DIED" => hal.dead /\ (j > i => evtQ[j] = "SNAPSHOT_DONE")
\* The dead daemon's events have been handled.
SilentWhenGone == Gone => ~Has(evtQ, "PREP_DONE") /\ ~Has(evtQ, "READY")
\* Whoever waits for an event waits for one that comes, and the event finds a state that answers.
Preparation(c) ==
  PrepareAwaited(c) /\ TakeAwaited(c) /\ PreparationEnds /\ DeathIsLast /\ SilentWhenGone

\* A cancelled picture behind a request of a picture is a live snapshot's.
CancelFollowsVideo ==
  ~Gone => \A i, j \in DOMAIN apiQ :
    i < j /\ apiQ[i].api \in SnapshotApis /\ apiQ[j].api = "CANCEL_PICTURE" => Films(hal)
\* While a picture is taken from preview only its caller cancels it.
CancelIsAwaited(c) ==
  ~Gone /\ hal.state = "PREVIEW_PIC_TAKING" /\ Asks("CANCEL_PICTURE") =>
    caller[c].st = "asleep" /\ caller[c].req.api = "CANCEL_PICTURE"
\* No picture or event of one is under way.
NoPicture == hal.cb = "idle" /\ ~Has(evtQ, "SNAPSHOT_DONE") /\ ~Has(evtQ, "JPEG")
\* PRE_TAKE_PICTURE has been answered with TRUE.
Allowed == Has(results, Result("PRE_TAKE_PICTURE", TRUE))
\* TAKE_PICTURE is about to be handled.
TakeToCome(c) ==
  \/ caller[c].req.api = "TAKE_PICTURE" /\ (caller[c].st = "post" \/ Asks("TAKE_PICTURE"))
  \/ Allowed
\* The call that takes a retro picture with nothing left of an earlier one, with a living daemon.
Retro(c) == ~Gone /\ caller[c].call = "take_retro"
\* Its TAKE_PICTURE meets PREVIEWING or a recording.
RetroFromPreview(c) == Retro(c) /\ TakeToCome(c) => hal.state = "PREVIEWING" \/ Films(hal)
\* It meets PREVIEWING with nothing of an earlier picture, whose SNAPSHOT_DONE would end the new one
\* before its answer.
RetroIsClean(c) ==
  Retro(c) /\ hal.state = "PREVIEWING" /\ (TakeToCome(c) \/ Asks("PRE_TAKE_PICTURE")) =>
    NoPicture /\ hal.th = "none"
\* The same for the flash of a retro picture, which is prepared while the picture is taken.
FlashIsClean(c) ==
  Retro(c) /\ hal.state = "PREVIEW_PIC_TAKING" /\ hal.retro = "flash"
    /\ caller[c].req.api \in {"TAKE_PICTURE", "PREPARE_SNAPSHOT"} => NoPicture
\* The event that answers a request that was put off.
AnswerEvent(api) == IF api = "TAKE_PICTURE" THEN "READY" ELSE "PREP_DONE"
\* While a retro picture waits, its answer comes before the events that end it.
AnswerComesFirst(c) ==
  \A api \in {"TAKE_PICTURE", "PREPARE_SNAPSHOT"} :
    Retro(c) /\ hal.state = "PREVIEW_PIC_TAKING" /\ Waits(c, api) =>
      /\ hal.cb = "idle"
      /\ \A j \in DOMAIN evtQ : evtQ[j] \in {"SNAPSHOT_DONE", "JPEG"} =>
           \E i \in DOMAIN evtQ : i < j /\ evtQ[i] \in {AnswerEvent(api), "DAEMON_DIED"}
\* Only a retro picture with flash prepares after it was taken.
FlashAsked(c) ==
  Retro(c) /\ caller[c].req.api = "PREPARE_SNAPSHOT"
    /\ (caller[c].st = "post" \/ Asks("PREPARE_SNAPSHOT")) => hal.retro = "flash"
\* Retro pictures are taken without a longshot, and by their own call.
RetroFits(c) ==
  /\ caller[c].call \in RetroCalls => hal.retro # "no" /\ ~hal.longshot
  /\ caller[c].call = "take_picture" => hal.retro = "no"
\* A picture does not end before its caller is answered.
Pictures(c) ==
  /\ CancelFollowsVideo /\ CancelIsAwaited(c) /\ RetroFromPreview(c) /\ RetroIsClean(c)
  /\ FlashIsClean(c) /\ AnswerComesFirst(c) /\ FlashAsked(c) /\ RetroFits(c)

\* A restart for new parameters during a picture finds preview stopped.
RestartIsOff(c) ==
  hal.state = "PREVIEW_PIC_TAKING"
    /\ (\/ Asks("SET_PARAMS_RESTART")
        \/ caller[c].req.api = "SET_PARAMS_COMMIT" /\ hal.restart
        \/ Has(results, Result("SET_PARAMS_STOP", TRUE))) => ~hal.on
\* ZSL stays during a capture.
ZslIsKept(c) ==
  caller[c].call = "set_parameters" /\ isCaptureRunning(hal) =>
    hal.zsl = hal.zslNew /\ caller[c].req.arg # "zsl"
\* LONGSHOT_OFF meets a longshot.
LongshotOffFits == \A i \in DOMAIN apiQ : apiQ[i] = Req("SEND_COMMAND", "off") => hal.longshot
\* The channels fit the state, and what callers are about to ask keeps it so.
Setup(c) == Fits(hal) /\ RestartIsOff(c) /\ ZslIsKept(c) /\ LongshotOffFits /\ ~hal.post

\* A waiting caller's request is in the queue, is answered, is put off, or overtaken.
Recalled(c) ==
  Waiting(c) =>
    \/ Has(apiQ, caller[c].req)
    \/ caller[c].st = "woken" /\ Answered(caller[c].req.api)
    \/ Deferred(c) \/ Overtaken(c)

\* The inductive invariant, for the one caller c.
Consistent(c) == MachineTypeOK /\ Dialogue(c) /\ Preparation(c) /\ Pictures(c) /\ Setup(c) /\ Recalled(c)
=============================================================================
