# Verification of the marmite device tree

The repository is the device tree of the Wileyfox Marmite: build files and
configuration, and the source of three large native subsystems - the camera HAL
(`src/camera`), the location stack (`src/gps`) and some small services. This
directory models the parts whose correctness depends on the order in which
threads, callbacks and messages meet: TLA+ modules translated from the code, TLC
configurations that check them on small instances, and proofs that TLAPS checks.

## 1. The system

### Camera

| part | state | operations | what is hard |
|---|---|---|---|
| `mm-camera-interface` stream (`mm_camera_stream.c`) | stream state; per buffer a `uint8_t` reference count, `in_kernel`, `map_status`; `queued_buffer_count` | events ACQUIRE ... REG_BUF, START, STOP, UNREG_BUF, QBUF; `mm_stream_data_notify`; map and unmap | one buffer is counted by the poll thread, the stream's cmd thread, the channel and clients, under several short holds of `buf_lock` |
| poll thread (`mm_camera_thread.c`) | poll entries, `poll_fds`, a pipe of commands | add and delete an fd, synchronously or not | an fd is removed by the last dequeue and added by the next queue, both asynchronously; a caller waits for the thread's signal |
| channel (`mm_camera_channel.c`) | channel state, the super buffer queue and its frame ids | start, stop, request, flush, cancel, `comp_and_enqueue`, dequeue, frame sync | frames of several streams arrive in any order and are dropped when late |
| camera object (`mm_camera.c`, `mm_camera_interface.c`) | reference count, event queue, sockets | open, close, events | lock hand-over from the global lock to the camera's to the channel's |
| HAL1 state machine (`QCameraStateMachine`, `QCamera2HWI`) | one of eight states; an API queue and an event queue; the list of results; which channels run | the API calls, the stack's and the HAL's events | callers sleep until a result of their type is in the list, and some results come with a later event; two queues are served by one thread |
| HAL1 post processor (`QCameraPostProc`, the callback thread of `QCamera2HWICallbacks`) | five queues of jobs, one of callbacks | a source frame, a reprocessed frame, the end of an encoding; start, stop | four threads take jobs from one queue to the next while stop flushes them one by one |
| HAL3 (`QCamera3HWI`) | pending requests, the map of pending buffers, the number in flight | `processCaptureRequest`, flush, result callbacks, device errors | buffers and metadata come in any order, with flushes and restarts between; two lists must agree |
| `mm-jpeg-interface` (`mm_jpeg.c`) | sessions, job queue, ongoing jobs, a semaphore, the encoder's state | create and destroy a session, start and abort a job, the encoder's callbacks | a job's end races with its abort and with failures under three kinds of locks; waits for the encoder have no timeout |

The HAL sends a stream's events through the channel, which holds `ch_lock`;
QBUF goes without it. The stack gives frames to the HAL by callbacks (from the
stream's cmd thread or the poll thread) or through the channel's super buffer
queue, and the HAL gives them back with QBUF from any thread. Buffers are mapped
to the daemon on a thread of the HAL's own while the stream starts.

### Location

| part | state | operations | what is hard |
|---|---|---|---|
| `GnssAdapter` | clients, tracking sessions, NI sessions, ODCPI timer | commands as messages to one `MsgTask` thread | one engine is shared by all sessions; engine restarts; NI response threads and timers |
| `AgpsManager` (`Agps.cpp`) | three connection state machines with subscriber lists; the DS retry count | request and release of an ATL, reports of the framework and of the DS client | subscribers share a connection; an active one may arrive during the release; retries come from a timer |
| `LocationAPI`, `LocationAPIClientBase` | client callbacks, request queues, session maps | start, stop, update; responses | responses are matched to requests by their order |
| `MsgTask`, `msg_q`, `LocTimer` | a FIFO, a heap of timers | send, receive, start, stop | a timer is deleted while it expires |
| `LocApiBase`, `SystemStatus` | list of adapters, caches | fan-out of reports | - |

### The rest

Fingerprint, power, touch and amplifier services forward single calls to a
vendor library or a file; the remaining files are configuration.
`PROJECT.json` lists every component, with the reason for each one left out.

## 2. Properties aimed at

- Stream: a buffer's reference count is the number of those who will give it
  back; nobody holds a frame the driver may write into; no buffer is lost; the
  queued count is exact; ready frames are taken; START and STOP end.
- Stream-on: it waits for the mapping of queued buffers, no wakeup is lost,
  aborts have a reason.
- Super buffers: the queue implements `BundleFrames` (every frame the channel gets
  leaves it once, in a whole bundle, in order, or back to its stream); it is
  bounded; requests are served and the daemon's snapshot ends with them.
- HAL1 state machine: every call is answered, whatever fails or dies; the channels
  that run, and the post processor, are those of the state; a message the application
  wants is enabled when the delay of a picture ends.
- Post processor: a frame is in one queue or went back once; after stop nothing is
  left; every frame comes back; stop returns.
- HAL3: a buffer and an answer reach the framework once, answers in order; the
  number in flight is exact enough to stay within its limits; no wakeup of a
  waiting request is lost; every buffer comes back in the end.
- JPEG: a client hears of a job once and not after it has aborted it; output memory
  has an owner; every job ends and every call returns.
- AGPS: a connection is held exactly while someone needs it, no request is
  dropped, an emergency subscriber hears of the close only when the connection
  is gone, every request is answered.
- Tracking: the engine runs at the smallest interval asked for and only while a
  session asks; a response finds the request it answers; no session is left
  that nobody can stop; every start is answered.

## 3. Modules

| module | models | sources |
|---|---|---|
| `MmStream` | one stream, its poll thread, its cmd thread, its clients and the control thread | `mm_camera_stream.c`, `mm_camera_thread.c`, the order of events in `mm_camera_channel.c` |
| `MmStreamProofs` | type correctness of `MmStream`, its inductive invariant and four safety theorems; three of `MmStreamMap` | |
| `MmStreamMap` | the wait of `mm_stream_streamon` for the mapping | `mm_camera_stream.c` |
| `SuperBufQueue` | the super buffer queue of a channel, with its command thread, start and stop | `mm_camera_channel.c` |
| `MCSuperBufQueue` | its instance: channel attributes and metadata for TLC | |
| `BundleFrames` | what a channel promises about its frames: the abstract specification `SuperBufQueue` implements | |
| `SuperBufQueueProofs` | the invariant of `SuperBufQueue`, that it implements `BundleFrames`, and five more theorems | |
| `Hal1StateMachine` | the HAL1 state machine, its callers, the live snapshot's and the callback's threads | `QCameraStateMachine.cpp`, `QCamera2HWI.cpp`, `QCamera2HWICallbacks.cpp` |
| `MCHal1StateMachine` | its instance: one application with twelve calls | |
| `Hal1PostProc` | the post processor and the callback thread | `QCameraPostProc.cpp`, `QCamera2HWICallbacks.cpp`, `QCameraQueue.cpp`, `QCameraCmdThread.cpp` |
| `Hal1Invariant` | the inductive invariants of `Hal1StateMachine`, and what they need of an answer to a request | |
| `Hal1Proofs` | the inductive invariants of `Hal1PostProc` with two theorems; type correctness, four safety theorems and the inductive invariant of `Hal1StateMachine` | |
| `Hal3Requests` | the HAL3 request engine | `QCamera3HWI.cpp` |
| `Hal3RequestsProofs` | its inductive invariants and four theorems | |
| `MmJpeg` | encode sessions and jobs, the job manager's thread and the encoder's callbacks | `mm_jpeg.c` |
| `MmJpegProofs` | its inductive invariant and three safety theorems | |
| `GnssTracking` | tracking sessions of several clients on one engine, from the client's call to the callback | `LocationAPIClientBase.cpp`, `LocationAPI.cpp`, `GnssAdapter.cpp`, the queue of `MsgTask.cpp` |
| `GnssTrackingProofs` | its three inductive invariants and five theorems | |
| `Agps` | the three connection state machines with the manager | `Agps.cpp`, `Agps.h`, two entry points of `GnssAdapter.cpp` |
| `AgpsProofs` | its inductive invariant and four theorems | |
| `Selection` | the elements of a list at some positions, in order: loops that erase or pick from a list | |
| `SelectionTheorems` | what is selected after an append, from the tail, and how often a list has something | |

### MmStream

Each hold of `buf_lock` is one action, and so is each stretch of code between
two holds that touches shared state. `mm_stream_buf_done` is thus six actions (check,
decrement, count, ioctl, undo, mark), run by a client (`who = "app"`) or by the cmd
thread after the callback; the poll thread's handling of a frame is six more
(`NotifyDequeue` ... `NotifyCmd`). The poll thread has a place `poll` and the buffer it
carries `pollBuf`, the cmd thread `cmd` and `cmdBuf`. Clients are counted, not named:
`owed[b]` is how many references they hold and `calls[stage][b]` how many of their
calls are at a stage. The driver is external: it takes a buffer unless it has it or
the buffers are not registered, fills it, and gives everything up at STREAMOFF.

The poll thread's pipe holds commands "sync" and "async". A command only says that the
entries changed, so unread commands of one kind in a row are kept as one. The
control thread is serial (`ch_lock`) and its place inside START or STOP is `ctl`;
UNREG_BUF always follows a STOP or a failed START, as `mm_channel_start` and
`mm_channel_stop` have it.

`cmd_lock` is part of the state: STOP holds it from before it tells the cmd thread to end until that thread is joined (`LockCmd`, `Join`),
and the poll thread takes it for every frame (`NotifyCmd`), so it waits when a STOP is at its join. `ControlReturns` says that this
wait ends: the cmd thread, which the STOP waits for, goes on without `cmd_lock`.

UNREG_BUF clears every reference and waits for no thread, so a thread may come back
to buffers of the next session. `late` records it, and the invariants speak
of the time without such a thread (`Live`). With `LateSessions = FALSE` the runs also
keep REG_BUF away until nothing is under way, which bounds them; the proofs hold for
both values.

Left out: batch mode, synchronous callbacks (they run inside the poll thread's step),
callbacks registered while streaming, CANCEL_BUF, parameters and actions sent to the
driver.

### MmStreamMap

`map[b]` is `map_status`. `StreamOn` is the loop over the buffers under `buf_lock`, which
ends at the first buffer that is missing (wait) or failed (abort). A mapping call
gives its buffers a status and signals when nothing is left to wait for. After the
wait nothing is looked at again, as in the code. A stream-on that finds a failed mapping
aborts. `pthread_cond_timedwait` is taken not
to wake without a signal: with a spurious wakeup `mm_stream_streamon` would start
with unmapped buffers, and `OnWhenMapped` would not hold.

### SuperBufQueue

One thread owns the queue (`mm_channel_process_stream_buf`) and takes its commands in the order they
were posted: frames, requests, flushes, bracketing and zoom. Each command is
one action, and an action composes functions of `ch`, the channel object with its queue, in the
order of the calls: a frame goes through `handle_metadata` and `Enqueue`, and every command but
a flush ends with `After`: start or stop the ZSL snapshot, trim to the water mark,
dispatch. mm_channel_stop stops the streams before it touches the queue.
`MakeRoom` removes one super buffer where the code has a loop; `QueueBounded`
says that the loop never has two to remove.

A frame is its stream and its frame id, and a slot of a super buffer holds the id (0: missing). Ids
go on over restarts and frames may be missing. Metadata is a record of what it
says: prepare-snapshot done, a range of good frames, a diverted frame, crop 1x. `taken`, `lost`
and, in `ch`, `sent` and `given` record frames for the properties only. What a client asked for before
a stop is still there after the next start, as in the code (`pending_cnt`, `needLEDFlash`,
bracketing, the ZSL flags). A linked stream belongs to another channel: it delivers from
the beginning of the start, and stop only unlinks it. Frame id 0 is given back at once and is
left out.

Left out: frame sync of two cameras, capture configurations, the manual ZSL snapshot, a
change of the notify mode, instant AEC, failures of malloc, the flags that are passed to
the HAL with a frame (`unLockAEC`, `bReadyForPrepareSnapshot`), a flush of one stream's type by the
HAL (only the failed start's is modelled).

`ImplementsBundles` maps the queue to `BundleFrames`: `held` is the frames in the queue, `sent` the bundles
in the order of dispatch, `back` counts the returns, and only frames of a linked stream may be lost (by a failed
start). The step relation of `BundleFrames` allows any number of arrivals, bundles and returns in a step, because
one command of the queue may do all of them.

### Hal1StateMachine

`hal` is a record: the machine's state, what runs (preview, recording, capture), the flags of
ZSL, longshot and retro pictures, the delayed messages. A handler is a function from `hal` and a request to its outcomes:
the next `hal` and the results it appends to `m_apiResultList`; each of the eight states has an operator that
says what it does with each request and each event. `HandleRequest` takes the API queue, `HandleEvent` the event queue
when that is empty. `caller[c]` is the call a thread makes and the request it waits for: a call such as take_picture is several
requests, one after the other (`Call` ... `waitAPIResult`). A result answers a request of its type, not of its caller, as
in the code.

The live snapshot's thread (`hal.th`), the callback thread (`hal.cb`, which waits in `processSyncEvt`), take_picture's
retro picture and the stack's answers (`PrepDone`, `RetroReady`, `JpegDone`, `DaemonDies`, `stopCapture`) are the environment.
With a dead daemon every operation that needs it fails.

A picture may be begun at any time, also while an earlier one's SNAPSHOT_DONE or JPEG is queued or its callback thread has not finished. A retro picture begun
then is called `early_retro`, a name no handler reads: `Overtaken` is such a picture that the earlier one's end has ended, the one case in which the
code forgets its caller (section 6).

Left out: two cameras in sync, pictures the backend asks for, the manual capture of type 3, no-display preview,
release_recording_frame, the destructor, requests that every state handles alike.

### Hal1PostProc

Each thread has a place: `sm` (the machine: takes, cancels and ends pictures), `defer` (starts the post processor), `chan`
(`processData`), `data` (`dataProcessRoutine`, a command at a time), `pp` (`processPPData`), `cb` (`cbNotifyRoutine`). A frame
is one super buffer. `q` has the five queues and the commands; a queue that flush has emptied refuses until init. `stop` is one
action per queue it flushes and per thread it joins, and the others run in between. `released` counts for the
properties how often a frame went back.

A reprocess stream has a buffer for each result (`getNumQueuedBuf`): as many as frames of a picture, in a longshot as many as its stages. A result keeps its buffer until the
encoding of it, or the next pass over it, has ended (`HeldResults`), and `validatePostProcess` lets a frame of the source channel in only if more are queued than
jobs under way. Frames of a later pass are not checked, as in the code. The hardware needs a queued buffer for its result (`PPOutput`).

Left out: raw pictures, saving from the HAL, bursts that make one output of several inputs, capture without ZSL, offline
buffers, allocations that fail, what a longshot asks for after its first frames, results of the reprocess that queue up behind its callback.

### Hal3Requests

Three kinds of threads: the framework's request thread (`Submit`, a sensor restart in four steps without `mMutex`, the wait for
a free place), flush (mark, stop the channels, stop the metadata channel, sweep), and callbacks, each of which holds `mMutex`. Requests have
increasing internal frame numbers, so the list of pending requests is a set with an order, and `map` is the set of
buffers (frame, stream) not yet returned. `Sweep` is `notifyErrorForPendingRequests`: it walks the buffer map and pops the head of the
list of requests for each frame it meets. `told` and `returned` record what the framework was told.

`crashed` is set where the code would walk a list past its end, or where two threads walk it at once. `fatal`: a call
returned an error, after which the framework gives up.

Left out: batches and urgent partial results, HDR's internal requests, dropped-frame notices and buffer status,
translation of metadata, the inside of the channels, and flushPerf, which nothing calls.

### MmJpeg

Calls of the API hold `g_intf_lock`, so `call` is the one under way; all but start_job then take `job_lock`, which the manager's
thread holds while it starts a job. `run` is who has it and where. `mm_jpeg_session_change_state` is a routine of its own
inside `run` (`cs`: send the command, hand the buffers, wait for the event). A session's lock is held over
several steps only by its callbacks (`cb[s]`); everyone else holds it within a step. `omx[s]` is the encoder (external): its state, the
command it was given, whether it has its buffers and what it works on. `pthread_cond_signal` wakes who waits or is lost (`Signalled`).

A client creates one session and destroys it, and aborts only to destroy, as both HALs do (the HAL3 flush that only aborts
has no caller). A session whose creation failed is destroyed, as HAL3 does. Output memory is always asked of the HAL
(`mJpegMemOpt`), so `out_buf_q` is not used. `OrderlyEncoder` collects what is assumed of the closed encoder; see section 6 for what happens
otherwise.

Left out: closing a client with its sessions, the decoder, rotation by lib2d, overflow of the output, pipelined sessions
(`MM_JPEG_CONCURRENT_SESSIONS_COUNT` is 1 on this device), the parameters of a job.

### Agps

Handlers run on the adapter's thread, so each is one action with everything
it calls; `retryCallback` runs on the timer thread. `queue` has only the messages the
adapter sends to itself (the SUPL fallback and the retry). `modem` records what
the modem has asked and been told, for the properties.

`pdn` is the configuration, chosen in `Init`: with it an emergency SUPL request goes to the DS machine,
without it to the SUPL machine. `Init` has every set of machines a configuration creates; the DS machine may be created later, by a
request. A handle is used again only without `pdn`: with it a handle could be a subscriber of
two machines, which the modem does not do.

### GnssTracking

Each call of a client sends one message (`Send`) and pushes one request, under the
client's `mMutex`. Only `locAPIStartTracking` sends first and then replaces the request
queue, so it is two actions, `StartCall` and `StartReturn`; between them `starting`
holds the session and stands for the locked mutex. The adapter's thread takes one message per
action. Its answer is kept in `reply` until `Reply`, the client's `onResponseCb`,
gets the mutex; the thread takes no other message before that. Removing a client stops
its sessions one by one (`stopClientSessions`, `sweep` is how far it has come).

`engine` is the interval the modem runs at. A call may fail and then leaves the engine as
it is; `down` is the time between the loss of the modem and `handleEngineUpEvent`,
which sends the message `restartSessions` handles. `unstopped` and `unstarted`
record failures for the properties only.

A session is an id, a client and an interval: the code compares intervals
(`minInterval`) only. A client's `mSessionId` is kept after a stop, as in the code, so a second stop of
one session is possible and meets an adapter that does not know it.

Left out: the FLP interface and the ULP proxy, libraries the repository does not have;
callbacks that a client changes later; a call without any GNSS interface.

## 4. Runs

| run | instance | shows |
|---|---|---|
| `mmstream` | 2 buffers, one initially with the client; bundled, linked and with a callback; 1 failure; fairness | counts and whereabouts are exact under every interleaving; frames are taken, START and STOP end (1,050,420 states) |
| `mmstream_streamoff` | 1 buffer | violation: STREAMOFF does not wait for the asynchronous removal of the fd |
| `mmstream_map` | 4 buffers, one not queued | the wait for the mapping |
| `superbuf` | 2 streams, the metadata linked, 2 sets of attributes, 3 frame ids, 5 commands | the queue implements `BundleFrames`, is bounded, and serves requests (1,889,823 states) |
| `hal1` | 1 application, 12 calls in any order, the daemon may die; fairness | calls are answered but for the overtaken retro picture, channels and post processor fit the state, messages are kept (1,131,613 states) |
| `hal1_postproc` | 2 frames, 2 pictures, up to 2 passes, or a longshot with 1 reprocess buffer; fairness | no frame is forgotten or given back twice, every frame comes back, stop leaves nothing and returns (764,832 states) |
| `hal1_snapshot_mode` | the same | violation: start and stop of the snapshot mode overtake each other |
| `hal3_requests` | 3 requests, one of them a reprocess or (high frame rate) one with a restart, a flush, pulls, the death of the daemon; fairness | buffers and answers reach the framework once, in order, and in the end |
| `hal3_flush` | the same, with the first a reprocess and faults anywhere | violation: a flush answers a request that has its result |
| `mmjpeg` | 2 clients, 2 jobs, 1 failure; fairness | jobs are answered once or aborted, calls return, memory has an owner (594,975 states) |
| `agps` | 3 handles, 3 types, 2 retries, 1 timer, a queue of 4, both configurations; fairness | the four AGPS properties (461,736 states) |
| `gnss_tracking` | 2 clients, 2 intervals, 3 sessions, fairness | the engine follows the sessions through failures and restarts; responses, sessions and starts are not lost |

### Bounds

`MmStream`: `MaxFail` (driver or allocator failures) is 1: each failure is undone on its own,
and the proofs have no bound. `MaxCalls = 1` is one call of buf_done at each stage for each buffer; a buffer
has at most four references. Two buffers let the poll thread be busy with one while the other comes back,
and the fd be removed and added. With one buffer `MaxCalls = 2` (two clients in the same stage) holds as well.

In `SuperBufQueue` three frame ids of two streams give an older, an equal and a newer super
buffer at once, which is all that matching compares, and exceed `max_unmatched_frames` and the
water mark of both sets of attributes: the ZSL channel's (burst) and the live snapshot channel's
(continuous, low priority). `MaxRequest = 2` is a burst,
`MaxEvents` counts commands, starts and metadata that say something. `MaxFuture = 3` is beyond
the last frame id, as the 100 of the code is beyond the frames of a queue, and `DivertedWidth =
4` stands for the 256 of a `uint8_t`, so that an id is cut off.

`Hal1StateMachine`: one application thread makes its calls one after the other without end, so every sequence of the twelve calls is there;
the machine's threads interleave with it. Three bounds are of the run only, and the theorems hold for every value of them: `MaxFail = 0`, operations fail only once the
daemon is dead; `MaxEvents = 1`, a picture is begun with at most one event queued, which is enough for the late end of an earlier one; `CallsWhenDead`, the calls still begun
when the daemon is dead. `CarefulApp` is an assumption on the application: it sends LONGSHOT_OFF only in a longshot and does not change ZSL during a
capture. `ChannelsFitState` and `PostProcessorFitsState` need it, and so do the theorems on one caller, as they share one invariant. It says nothing of when a picture is begun. Section 6 says what
happens without it. `EarlyRestart` is a property of the system, off by default.

`Hal1PostProc`: two frames overtake each other in every queue, two passes go around the reprocess queue twice, and in a longshot, where encodings hold the one
buffer, the second frame finds none and waits for the end of the first one's encoding; the second picture starts while the first is stopped. The two safety properties also hold for three frames (1,580,705 states before longshots were added).
`ReprocessMayFail`, `EncoderIsQuick` and `LongshotPasses` are FALSE: see section 6.

`Hal3Requests`: with three requests and limits 1 and 2 the request thread waits, is woken by a pull and exceeds the minimum. `FaultsApart` is an
assumption: the framework does not flush during a sensor restart nor submit a reprocess request during a flush, and the daemon does not die
in either. `hal3_flush` drops it.

`MmJpeg`: two jobs of one or of two sessions give a job that waits behind another, a session that takes the encoder's configuration from the other,
and a job that fails between. With three jobs all four properties hold as well (half an hour, so not a run).

`Agps`: three handles are an active subscriber, one that waits for the close and one that arrives meanwhile. `MaxQueue` and `MaxTimers` bound the
retries under way. `GnssTracking`: `MaxSession = 3` lets a client start again while another is tracking, `MaxMsgs = 2` and
`MaxRequests = 2` let a message overtake nothing but wait behind another, and
`MaxTrouble = 1` is one failed call or one restart (a failure of `restartSessions` comes after
a counted restart and is not counted); for the two engine properties and `NoSessionLeaks` the proofs have no bound.

### Fairness

In `MmStream!FairSpec` the poll thread, the cmd thread and the control
thread inside START or STOP are weakly
fair: these are threads with a runnable step and no wait outside the model. Nothing is
assumed of the driver filling buffers, of clients, which may stop inside buf_done, or of the next
event.

`Hal1StateMachine`: the machine's thread, callers inside a call, the live snapshot's thread, the callback that notifies of the picture, and the
stack's answers to what it was asked while it lives (prepare done, retro frame ready). Not the application's calls, the pictures, or the death of the daemon.

`Hal1PostProc`: each thread, the reprocess hardware and the encodings. Not the application, and not the source channel.

`Hal3Requests`: the request thread, flush, the metadata, and each buffer (the channel cancels an overdue one in `timeoutFrame`). Not the
framework's calls, timeouts, or the daemon.

`MmJpeg`: the manager's thread, the calling thread, each session's encoder with its callbacks, and a client that has begun to stop goes on to destroy.
Weak fairness is enough for `job_lock`, since a manager that has taken it starts one job and there are finitely many.

`Agps`: the adapter's thread and the timers are fair and the framework
answers a pending or a releasing connection; the code has no timeout of its own
there, so `AskedIsAnswered` is a statement about the code given an answering framework.

`GnssTracking`: the adapter's thread and a client inside `locAPIStartTracking` are
fair, nothing else: the client does not wait inside the call once it has the mutex.

CHECK_DEADLOCK is off where the system may stop: in `Agps` and `GnssTracking` every handle may end closed and
every client gone; in `SuperBufQueue`, `Hal1PostProc`, `Hal3Requests` and `MmJpeg` the inputs are bounded and the
system is idle when they are used up; in `Hal1StateMachine` a dead daemon may leave nothing to answer.

## 5. Proofs

`MmStreamProofs!TypeCorrect`: `Spec => []TypeOK`, one step for each action.

`MmStreamProofs!RefcountIsExact` and `HeldFrameIsSafe`, for any set of buffers, any number
of calls and failures and both values of every Boolean constant, assuming only that a
linked stream has a callback. `RefcountExact` is not inductive: a step of the
poll thread adds a reference to a frame that has to be nowhere else. The invariant `Inv`
says, of every buffer while the stream is live: its count is the number of those who refer
to it; it is in exactly one place (driver's queue, filled, on its way from or to the
driver) or it is referred to, never both (`Places(b) + One(Refs(b) > 0) <= 1`); and its
references with those the frame's handling will still take are at most four, so
the `uint8_t` never wraps. `ControlInv` ties the control thread to it: before START nothing
moves, so START, which empties the cmd queue, empties nothing.

The assumption is needed. For a bundled and linked stream without a callback the
channel may give its only reference back between the two halves of
`mm_stream_handle_rcvd_buf` (lines 208 and 216), before the linked channel's reference is taken:
the driver then has a frame the linked channel reads. With a callback its reference
covers the gap. The HAL registers a callback on every stream it links, so no run
counts this as a defect.

`MmStreamProofs!CountIsExact` and `NoBufferIsLost` build on `Inv`, which gives every buffer one place. So each step
moves one buffer out of one of two disjoint finite sets (the driver's, and those between the count and the driver), and the
count follows by one (`CountIsExact`). For `NoBufferIsLost` the invariant adds that the stage that undoes a failed
VIDIOC_QBUF is empty while nothing has failed: a step then takes a buffer from one place to another, or turns the last reference
into a place.

`SuperBufQueueProofs` proves the refinement (`Implements`: `Spec => ImplementsBundles`) and all four invariants of the run, for any streams,
metadata stream, linked streams, attributes, metadata and number of frames (`SuperBufQueueAssumption` only). A command is a composition of
functions of the channel, so there is one lemma per function instead of one per action: each is a `Step` from a `Good` channel to a `Good` one,
in which every frame that is held, or new, before and not after is given back once (`Moves`). Steps compose, and the dispatch is the one
part of a command that sends (`Sends`). None of the run's properties is inductive. What makes the queue good is `QInv`:

- `Sorted`: the matched super buffers are the first `match_cnt`. A frame that completes a super buffer further back must
  therefore release everything between (`ReleaseOlder`), and that everything there is older is part of the next two.
- `Ordered`, `Beyond`: each super buffer is later than those before it and than those already sent, or it is `Dead`: a stream whose
  frame it misses has delivered a later one, so it can never be complete. The unmatched part of the queue need not be in order
  (a super buffer of metadata only takes the id of the first frame that joins it, and the place of a new one is found among the unmatched ones only), and this
  is what makes up for it: what becomes matched is not dead, hence in order.
- `Apart`: no frame is in two super buffers; `Nodes`: a super buffer has frames of its id, except for the metadata's, and they were delivered.

The number of unmatched ones is bounded because a new one comes only when there is room or after an older one was dropped (`RoomSteps`). `Served` is what the
dispatch leaves. For the refinement, `Leaving` names the frames that were sent, given back and lost in a step, which are those that left the queue, each in one
way (`NextLeaving`), and `LostOnce` says that a lost frame is not in the queue.

`FramesInOnePlace` is what `BundleFrames` implies, and so the queue keeps: in every behaviour a frame is held, in a bundle, given back or lost, only one
of these, and given back at most once; and bundles are in the order of their ids and share no frame. It follows from the steps of `BundleFrames` alone:
the frames of the later bundles and the returned ones come out of what was held or arrived.

Of `MmStreamMap`, whose definitions have names of their own so that one module can extend both halves of a stream, `MmStreamProofs` proves
`StreamOnIsSafe`, `NoWakeupLost` and `AbortsForAReason` for any number of
buffers, from one inductive invariant: a waiting streamon was
in front of a missing buffer, and every mapping since signals when it fills the last gap.

`GnssTrackingProofs` proves `TypeCorrect`, `EngineFollows` and `EngineKeepsRunning` for any clients,
intervals (natural numbers), sessions, queue lengths, failures and restarts. The handlers ask the engine for
`Smallest(..)` of a set of sessions, so the invariant has two more parts. `IdsOnce`: an id stands for
one session, and a start in the queue has an id no session has; otherwise the session an id
picks, and the others, would not be what the multiplexer takes them for. `WellOrdered`: any of
the sessions have a smallest interval. It is true because sessions come one by one, and is kept
as part of the invariant because that is an induction over the steps, which the prover does, instead of one
over finite sets, which it cannot do. `TypeOK` is proved jointly with them: the engine's interval
has its type only because the smallest one exists.

`GnssTrackingProofs!NoSessionIsLeaked`, for the same constants. `NoSessionLeaks` is not inductive for three reasons, and
`LeakInv` has a part for each. A start becomes a session when it is handled, so a start in the queue must be wanted still or followed by what
ends it (`StartsEnd`). A stop reaches the session only if the adapter finds its id under that client: an id is claimed by one client, in
sessions, messages and calls, and none is ahead of the counter (`IdsOwned`). A client is erased when its sessions have been
passed in the order of their ids: those passed and still there are ones whose stop failed (`Swept`). TLC has checked `LeakInv` on
the run's instance.

`GnssTrackingProofs!ResponsesMatch`, for the same constants. A response names no request: `onResponseCb` pops the first of the
client's queue. So the invariant (`AnswersInOrder`) compares two lists: the requests of a client, and what the adapter will still answer
about its session, which is the answer under way, then the start in the queue, then the messages that find the session (`Unanswered`).
The two are the same, or the session is one nothing will be answered about (`Silent`): it has ended, and what is asked of it
is asked of an unknown session. `Known` (a client that is there is known to the adapter before its messages are
handled) and `StartsFirst` (a session's start is the first message about it) are what a step of either list needs.

`Hal3RequestsProofs` proves `BuffersReturnedOnce`, `InFlightIsBounded` and `NoWakeupIsLost` for any streams, requests and limits
(`RequestAssumption` only) and for both values of `FaultsApart`, so also with flushes during restarts and with a daemon that dies at any time.
They share `Control`: the request thread flushes only a device in error and then submits nothing, `mFlush` keeps requests
from the channels while the other thread flushes, and a configured device is at rest. With it the channels are empty whenever a sweep comes
(`Emptied`); what a channel holds or a request keeps is in the buffer map, and the map has only buffers not yet returned
(`BuffersInv`), so no sweep, result or late buffer returns one twice. For the bound, `mPendingLiveRequest` counts every live pending request
that has metadata to come at or after it (`Bounded`), and every live one at all unless a flush, the sweep of a restart or a failed call explains the rest
(`AllCounted`): `Metadata` may then subtract all it completes, and a sweep, which empties the list (`SweepsAll`), may set zero.
`Room` says that a place is free when the request thread comes back.

`AnswersAreInOrder` is about the list of answers, `told`. Whatever was answered is in the list of pending requests
no more and no live request before it is left there (`Answered`); the same holds for a frame of which only buffers are missing (`OnlyBuffers`), so that
a sweep, which meets frames in the order of the buffer map and pops requests in the order of their list, pops the request it
means. Its hypothesis is `FaultsApart`: without it the property is false, which is the finding `hal3_flush` shows. `KeptApart` is
what it gives: a flush and a dead daemon find no reprocess request and no restart.

`Hal1Proofs` proves of `Hal1PostProc` `FramesAreKept` and `StopLeavesNothing` for any number of frames, pictures, passes and buffers, in a longshot or not, and for a
slow or a quick encoder, if the reprocess channel refuses no frame (`ReprocessMayFail`; a refused one has two
owners, section 6). For the first, each step takes a frame out of one queue and puts it into another, gives it to the callback or back to the
channel; the sum over the places stays one. What is needed besides are two facts: frames arrive in turn
(`InTurn`), and while `encodeData` runs its job is the last of the ongoing ones (`LastOngoing`), although events of other jobs take
theirs out of the same list. `StopLeavesNothing` needs who is where during a stop. The
commands START and STOP are under way at most once and only while somebody waits (`Protocol`); from STOP on the queues are flushed one after the other and refuse
what the callbacks bring (`Flushing`); the encoder works only on jobs whose id is recorded, or just
being recorded, so aborting those aborts all (`Coded`), and it has no job left whose event was sent (`Reported`). Together they give `Quiet`: when the data thread has
answered, and until the next start, nothing is queued and nothing is accepted. TLC has checked these parts with a quick encoder as well.

`Hal1Proofs` proves of `Hal1StateMachine` (whose definitions have names of their own so that one module can extend both halves of the camera)
`MachineTypesHold` and `MessagesKept` for any callers, calls and failures, the second if no caller disables messages (`asked` is one flag for all of them,
so with a caller that disables what another has enabled the property would ask for too much). The other three,
`CallersAreRemembered`, `ChannelsFit` and `PostProcessorFits`, are for one application thread that is careful (`CarefulApp`), without `EarlyRestart`,
for any calls and any number of failures, with a daemon that may die at any time, and with pictures begun at any time. Every handler of every
state is reduced once to `Moves`, a contract between a request and its answer that does not name the states: what a request leaves alone, when it is answered and when put
off, what leads into a picture, and that channels which fit the state (`Fits`) fit the next one. `Happens` is the same for events. The three theorems share one
inductive invariant, `Consistent` (`MachineConsistent`), with five parts:

- `Dialogue`: of a caller there is one request or one result at a time, and only a waiting caller has one. Only `CANCEL_PICTURE` and
  `STOP_CAPTURE_CHANNEL`, which threads of the HAL post as well, and what the death of the daemon answers to nobody may be there otherwise (`Loose`).
- `Preparation`: a caller that was put off waits for something that comes: the hardware still prepares or the retro frame is looked for, or the event is in the queue, or
  the death is, which is the last event the stack sends; and the event will find a state that answers it.
- `Pictures`: the state does not leave PREVIEW_PIC_TAKING before the retro picture or the flash has been answered. The events that end a picture come behind the answer
  (`AnswerComesFirst`), which holds for a retro picture that starts with nothing left of an earlier one (`RetroIsClean`); one that starts early may be `Overtaken`. And
  nobody but the caller cancels it (`CancelIsAwaited`).
- `Setup`: channels fit the state, and what the application is about to ask is what a careful one may ask: a restart for new parameters meets a stopped preview, ZSL
  does not change during a capture, LONGSHOT_OFF meets a longshot.
- `Recalled`: the request of a waiting caller is in the queue, answered, put off, or overtaken.

`NoCallerForgotten` alone is far from inductive: that a put-off caller stays put off is a question of the order of two queues, the state and the callback thread. Several callers share results by their type, so
one may take the other's result; `Dialogue` is then false, and what holds for them is only known for the run's instance of one.

`AgpsProofs` proves `TypeCorrect`, `ConnectionsMatch`, `NoRequestIsLost` and `EmergencyWaits` for any handles and retries and for every
set of machines a configuration creates. A subscriber list matters only by its elements, so the argument is about
their set. `Lists` ties the state of a machine to it (the DS machine keeps closed subscribers in a released machine, the framework ones do
not); `Released`, `IdleUnknown` and `ListedOnce` say that what the modem was told agrees with the lists, which with the DS machine
needs handles that are used once (`Setup`). Every handler changes one machine and tells of it through notifications: `Finish` is that common
step, proved once for each part, and the handlers are its instances.

`MmJpegProofs` proves `TypeCorrect`, `MemoryHasOwner` and `AnswersAreFinal` (`Spec => []TypeOK`, `[]OutputHasOwner`, `AnsweredOnce`) for any
sessions, jobs, failures and bound on the sessions, if the encoder is orderly (`OrderlyEncoder`, see below). One invariant serves all three (`InvHolds`). Four
threads may end a job, and each looks at other flags, so the invariant says who still can: an encoder at work has the session's job, which nobody has
answered or given up (`WorkOK`); it is on the list of jobs under way, unless the holder of `job_lock` is aborting it. While the manager hands over the next job
the encoder has no work and no callback is at its first steps (`EncodeOK`), so that nothing but the manager answers that job if it fails. A callback has
answered (`CallbackOK`), and what it still has to do is counted: the handle of the session comes back in its third step, the manager's
failure path never meets it. The abort is awaited from `ABORT_INIT` on (`AbortOK`), and when the session is unloaded the encoder has stopped.
Output memory belongs to the unanswered job or to one that failed, and the number of those bounds it (`MemoryOK`). `QueueOK` gives a job one place and one owner,
`CallOK` says what a call has taken off the queues when it gets the lock. `Encodings` adds that a session marked as encoding has an encoder at work, unless its end is about
to clear the mark or the manager is still handing the job over: an error event, which is answered by that mark, then finds a job. A step touches one session; `Keeps` is what it leaves of the
others, and `OneSession` reduces each action to its own. TLC has checked the invariant for two sessions, two jobs and two failures, more
failures than the run has, and that is how the last clause of `OrderlyEncoder` was found (section 6).

`SelectionTheorems`: `At(s, I)` is what the loops that erase from a list leave of it. The n-th position is the one with n of `I`
up to it (`Rank`), so what an append adds and what the head takes away follows from the cardinalities of sets, without induction over the
list. `Hits` counts in the same way.

Not part of a run, but proved: `TypeCorrect` of `MmStream`, of `GnssTracking` and of `Agps`, `MachineTypesHold` and `AbortsForAReason`.

Only model-checked: liveness everywhere (temporal reasoning under fairness is out of the prover's reach), so of `Hal1StateMachine` that calls
return (`CallsReturn`). Every safety property a passing run checks is also stated by a theorem.

## 6. What the code does otherwise than it says

Found by a run:

- STREAMOFF after an asynchronous removal of the fd (`mm_camera_stream.c:1263`): the
  deletion returns 0 when the entry is gone, so the wait the comment describes never
  happens. `mmstream_streamoff`.
- `startSnapshots` and `stopSnapshots` both send their command with priority (`QCamera2HWICallbacks.cpp:3595`).
  While the callback thread is inside the application's callback, the STOP of one picture and the START of the next
  are handled as START, STOP: the new picture is dropped and SNAPSHOT_DONE is never sent. `hal1_snapshot_mode`.
- While an older reprocess request is pending, a flush takes a later live request whose metadata was sent
  for unanswered (`QCamera3HWI.cpp:11573`): it sends ERROR_REQUEST for it and pops another request off the list. `hal3_flush`.

Seen while modelling, without a run of its own.

Streams and channel:

- A mapping that fails during the wait (`mm_camera_stream.c:1181`) ends the wait with success and
  the stream is started; the comment says it aborts.
- `in_kernel` is written after the ioctl without the lock (`mm_camera_stream.c:4783`), possibly after the
  frame came back; only the wait for the mapping reads it.
- `mm_stream_buf_done` checks the count and decrements it in two critical sections (4762, 4774); UNREG_BUF
  between them lets the `uint8_t` wrap to 255, until the next REG_BUF sets it.
- `notify_cb` of a poll entry is tested and called without a lock (`mm_camera_thread.c:306`); only the removal of the fd clears it.
- In a burst with the flash, the first metadata after the ZSL snapshot was started ends the
  flash part (`mm_camera_channel.c:2666`): the test compares with `led_off_start_frame_id`, which is 0
  before the first range of good frames. The expected frame becomes 0 and the snapshot is stopped, while the
  comment at 2482 wants to wait for the range.
- A failed start of a channel flushes only the type of the stream that failed: frames of linked streams
  still in the queue are dequeued and not given back (`mm_camera_channel.c:1616`). The models keep them in
  `lost`. It also clears the queue's attributes (1658), so a second start runs in burst mode with a water mark of 0.
- `diverted_frame_id` is a `uint8_t` (`mm_camera_channel.c:2559`): a diverted frame from 256 on is not recognised.
- The loop that makes room (`mm_camera_channel.c:2932`) reads the node it has just freed; it would follow its link
  if there were two super buffers too many, which `QueueBounded` excludes.

HAL1 (`CarefulApp`, `ReprocessMayFail`, `EncoderIsQuick` and `LongshotPasses` in the models):

- `processJpegEvt` takes the picture of any encoding for one of the present picture (`QCameraPostProc.cpp:1103`). With ZSL, a JPEG event of a cancelled picture that is
  still queued when a retro picture has begun is passed to the callback thread, whose SNAPSHOT_DONE (`QCamera2HWI.cpp:6034`) ends the new picture. If this is handled before
  the retro frame is found (`zsl_channel_cb`), the READY or PREP_DONE event meets a state that does not answer it, and the caller of take_picture sleeps in `waitAPIResult`
  for ever. `NoCallerForgotten` and `CallsReturn` hold but for this caller (`Overtaken`).

- LONGSHOT_OFF goes to PREVIEWING from either picture state (`QCameraStateMachine.cpp:2124`), whether or not longshot
  was on: sent without LONGSHOT_ON it leaves the capture running in a state that does not stop it. ZSL changed during a capture
  also leaves channels or the post processor running.
- A reprocess that fails (`QCameraPostProc.cpp:3236`) leaves its job to two owners: `EveryFrameOnce` fails when `ReprocessMayFail` is TRUE.
- The job id is recorded after start_job has returned (`QCameraPostProc.cpp:2584`). An event handled before finds no
  job, so `FramesComeBack` fails when `EncoderIsQuick` is TRUE.
- In a longshot start() does not set the number of passes anew (`QCameraPostProc.cpp:258`), so several of an earlier setting may remain. A frame that comes back for its second pass is
  put at the end of the input queue (1370). If the first there is a frame of the source channel that waits for a buffer of the first pass (`validatePostProcess`, 818), which the second one
  holds, neither goes on until stop: `FramesComeBack` fails when `LongshotPasses` is TRUE.

HAL3 (`FaultsApart`):

- A sensor restart releases `mMutex` and sweeps without it (`QCamera3HWI.cpp:4591`), with a flush possibly in the same
  lists; its end may overwrite a state of ERROR (4988).

JPEG (`OrderlyEncoder`):

- `mm_jpeg_session_abort` does not clear `encoding`: an error event while the encoder is being unloaded calls the client
  for a job it has aborted (`AnsweredOnce` fails), although `mm_jpeg_interface.h:349` calls abort a synchronous call.
- `error_flag` stays set until the session is created anew. After an error every change of state of the session fails and
  returns without waiting for the command it sent; until the session is destroyed the jobs of the others fail as well.
- If Idle is refused the session's abort state stays INIT; with a later event lost, destroy waits for ever.
- After an error the changes of state of the session fail and leave the command under way. An encoder that reports its failure as late as the
  hand-over of the next job, when `encoding` is set but the work has not begun, makes `mm_jpeg_event_handler` (3610) answer that job, and the manager, whose EmptyThisBuffer
  then fails, answers it again (2088) and puts the session's handle back twice: `AnsweredOnce` and `TypeOK` fail. It takes two failures.
- An error event together with a FillThisBuffer that fails answers a job twice. `mm_jpeg_abort_job` always returns -1.

Location:

- A DS data call started while a connection is released (`Agps.cpp:233`) may fail with
  the machine already PENDING; the comment at line 81 wants it in the released state.
- DENIED is sent to every subscriber of the connection, those that have released their handle included (`Agps.cpp:284`).
- A failed DS start leaves its subscriber in the list of a released machine, where a later
  failure may be reported for it (`Agps.cpp:208`, 597).
- A stop or update of a session the adapter does not know (`GnssAdapter.cpp:1703`) is not answered;
  `LocationAPI.h:802` promises LOCATION_ERROR_ID_UNKNOWN. A second stop, or a stop after a failed
  start, leaves its request in the client's queue until the next start drops it.
- Of two sessions with one interval and different modes, stopping the first leaves the engine in its mode (`GnssAdapter.cpp:1661`).
  The model has no modes.
- `mTracking` stays TRUE after a start the engine failed (`LocationAPIClientBase.cpp:317`): the next start
  returns success and starts nothing, until the client stops.
- When a client is removed and the engine refuses to stop, the client is erased and its session stays
  (`GnssAdapter.cpp:1139`, 1696): nobody can stop it. `NoSessionLeaks` says this is the only way to leak one.
- A response under way to a client that is destroyed is delivered to the callback it captured
  (`LocationAPIClientBase.cpp:291`); the model lets it end without effect.

## 7. Not modelled

- Conversions of data without interleavings: `QCameraParameters`, the translation of metadata in HAL3, EXIF and
  MPO, the location utilities and the HIDL and JNI wrappers. Their state is one object changed by one thread; what could be wrong is in
  the values, which a model of their control would leave out. They are the larger part of the lines no module covers.
- The camera object (`mm_camera.c`, `mm_camera_interface.c`) and the channel's states: each call holds the camera's or the
  channel's lock from end to end; what remains is the hand-over of three locks in one fixed order. `MmStream` and `SuperBufQueue` have the
  part of the channel's states that starts and stops streams and the queue.
- The HAL1 and HAL3 channels, streams and memory: owners of the buffers whose way is modelled on either side of them, in
  `MmStream` and in the post processor and the HAL3 request engine, where they are the environment.
- The dual camera of HAL1 (muxer, sync between two HALs): it couples two instances of the state machine, whose one instance already has
  a million states.
- The JPEG decoder, the reprocess by lib2d, the OMX components: calls into closed libraries with one caller.
- Network initiated requests, ODCPI, batching, geofences and XTRA: handlers on the adapter's thread that forward a call or keep a map
  of sessions as tracking does, with less state; `LocTimer` and `SystemStatus` keep a heap and caches under one lock.
- Fingerprint, power, touch, amplifier, init: forward single calls or write files.

What could be added next: the composition of `MmStream` with `SuperBufQueue` (the references a bundle holds), the state
machine with several callers that share results, the timers of NI requests.
