------------------------------ MODULE MmStream ------------------------------
(***************************************************************************)
(* One stream of the camera stack (mm_camera_stream.c): its state machine, *)
(* the reference counts of its buffers, and the threads that share them.   *)
(*                                                                         *)
(*  - The control thread sends the events of the state machine; it holds   *)
(*    ch_lock, so its events are serial.                                   *)
(*  - The channel's data poll thread (mm_camera_thread.c) polls the        *)
(*    stream's fd while at least one buffer is queued, dequeues filled     *)
(*    buffers and hands them on.                                           *)
(*  - The stream's cmd thread runs the asynchronous callback.              *)
(*  - Clients (the channel's cmd thread, a linked channel, the HAL) give   *)
(*    buffers back with QBUF from any thread and without ch_lock.          *)
(*                                                                         *)
(* Everything under one hold of buf_lock is one step; what the code does   *)
(* between two holds, or without the lock, is another.  The clients are    *)
(* counted, not named: owed[b] is the number of references to buffer b     *)
(* they hold, calls[s][b] the number of their buf_done calls at stage s.   *)
(*                                                                         *)
(* The channel sends the events in a fixed order (mm_channel_start and     *)
(* mm_channel_stop): REG_BUF and START; UNREG_BUF after STOP or after a    *)
(* START that failed.  A stream may be set up and stopped any number of    *)
(* times, and a thread that was inside the stream's code when the buffers  *)
(* were unregistered goes on.                                              *)
(*                                                                         *)
(* Left out: batch mode (mm_stream_write_user_buf), synchronous callbacks  *)
(* (they run inside the poll thread's step), the registration of further   *)
(* callbacks while streaming, CANCEL_BUF (it changes nothing here), and    *)
(* the wait for the mapping of buffers in mm_stream_streamon (module       *)
(* MmStreamMap).                                                           *)
(***************************************************************************)
EXTENDS Integers, FiniteSets, Sequences

CONSTANTS
  Buf,          \* the stream's buffers
  InitialReg,   \* those whose initial_reg_flag is set
  IsBundled,    \* frames go to the channel's super buffer queue
  IsLinked,     \* frames go to a linked channel as well
  HasCb,        \* an asynchronous data callback is registered
  LateSessions, \* bound: FALSE if buffers are registered in quiet states only
  MaxCalls,     \* bound: clients inside buf_done at once, for each buffer
  MaxFail       \* bound: operations of the driver or the allocator that fail

ASSUME MmStreamAssumption ==
  /\ IsFiniteSet(Buf) /\ InitialReg \subseteq Buf
  /\ IsBundled \in BOOLEAN /\ IsLinked \in BOOLEAN /\ HasCb \in BOOLEAN
  /\ LateSessions \in BOOLEAN
  /\ MaxCalls \in Nat /\ MaxFail \in Nat

VARIABLES
  state,      \* my_obj->state
  refcnt,     \* buf_status[b].buf_refcnt, a uint8_t
  inKernel,   \* buf_status[b].in_kernel
  count,      \* queued_buffer_count
  queued,     \* buffers the driver holds and has not filled
  filled,     \* buffers the driver has filled
  streaming,  \* STREAMON done
  entry,      \* the stream's poll entry is set (handler, notify_cb)
  polled,     \* the poll thread's poll_fds hold the stream's fd
  pipe,       \* commands written to the poll thread's pipe
  poll,       \* where the poll thread is in its loop
  pollBuf,    \* the buffer it carries
  cmdActive,  \* cmd_thread.is_active
  cmdQ,       \* nodes for b in cmd_thread.cmd_queue
  cmd,        \* where the cmd thread is in its loop
  cmdBuf,     \* the buffer it carries
  calls,      \* clients inside mm_stream_buf_done, by stage and buffer
  owed,       \* references the clients hold
  ctl,        \* where the control thread is inside START or STOP
  late,       \* a thread was inside the stream's code at UNREG_BUF
  fails       \* failed operations so far

vars == <<state, refcnt, inKernel, count, queued, filled, streaming, entry,
          polled, pipe, poll, pollBuf, cmdActive, cmdQ, cmd, cmdBuf, calls, owed,
          ctl, late, fails>>

buffers == <<refcnt, inKernel, count, queued, filled, owed>>
polling == <<entry, polled, pipe>>
cmdThread == <<cmdActive, cmdQ, cmd, cmdBuf>>
threads == <<poll, pollBuf, cmdThread, calls>>

-----------------------------------------------------------------------------
State == {"NOTUSED", "INITED", "ACQUIRED", "CFG", "BUFFED", "REG", "ACTIVE"}

\* The stages of mm_stream_buf_done: the check for a second release; the
\* decrement; mm_stream_qbuf's count, its ioctl, the undoing of a failed one;
\* and the write of in_kernel, which no lock protects.
Stage == {"check", "dec", "count", "ioctl", "undo", "mark"}

\* The stages of mm_stream_data_notify, from the return of poll() on.
PollStage == {"wait", "woken", "notify", "dequeued", "counted", "bundle", "link", "cmd"}

\* "stopped": STOP has ended or START has failed; UNREG_BUF comes next.
CtlStage == {"idle", "activate", "streamon", "ondel", "onwait", "onjoin", "onjoining",
             "offdel", "offwait", "off", "join", "joining", "stopped"}

\* Mutant: STOP and a failed START take cmd_lock before the fd is removed.
CmdLockedEarly == ctl \in {"ondel", "onwait", "onjoin", "onjoining",
                           "offdel", "offwait", "off", "join", "joining"}

\* The control thread holds cmd_lock, from the exit command to the end of the
\* cmd thread.  Every other hold of this lock is one step.
CmdLocked == ctl \in {"onjoining", "joining"}

TypeOK ==
  /\ state \in State
  /\ refcnt \in [Buf -> 0..255]
  /\ inKernel \in [Buf -> BOOLEAN]
  /\ count \in Int
  /\ queued \subseteq Buf /\ filled \subseteq Buf
  /\ streaming \in BOOLEAN
  /\ entry \in BOOLEAN /\ polled \in BOOLEAN
  /\ pipe \in Seq({"sync", "async"})
  /\ poll \in PollStage /\ pollBuf \in Buf
  /\ cmdActive \in BOOLEAN
  /\ cmdQ \in [Buf -> Nat]
  /\ cmd \in Stage \cup {"idle", "dispatch"} /\ cmdBuf \in Buf
  /\ calls \in [Stage -> [Buf -> Nat]]
  /\ owed \in [Buf -> Nat]
  /\ ctl \in CtlStage
  /\ late \in BOOLEAN
  /\ fails \in 0..MaxFail

\* uint8_t arithmetic.
Inc(n) == (n + 1) % 256
Dec(n) == (n + 255) % 256

One(cond) == IF cond THEN 1 ELSE 0

\* The clients inside mm_stream_buf_done with buffer b.
CallsOn(b) == calls["check"][b] + calls["dec"][b] + calls["count"][b]
              + calls["ioctl"][b] + calls["undo"][b] + calls["mark"][b]

\* No thread is between the arrival of a frame and the end of its handling.
Quiet == /\ poll \in {"wait", "woken", "notify"}
         /\ cmd = "idle"
         /\ \A b \in Buf : cmdQ[b] = 0 /\ CallsOn(b) = 0

Fail == fails < MaxFail /\ fails' = fails + 1

-----------------------------------------------------------------------------
(* The poll thread's fds (mm_camera_thread.c). *)

\* mm_camera_poll_sig and mm_camera_poll_sig_async.  A command only says that
\* the entries changed; unread ones of a kind in a row are kept as one, since
\* reading each of them would do the same.
PollSig(kind) ==
  pipe' = IF pipe # <<>> /\ pipe[Len(pipe)] = kind THEN pipe ELSE Append(pipe, kind)

\* mm_camera_poll_thread_add_poll_fd(.., mm_camera_async_call)
AddPollFd == entry' = TRUE /\ PollSig("async")

\* mm_camera_poll_thread_del_poll_fd: nothing happens when the entry is not
\* the stream's any more.
DelPollFd(kind) ==
  IF entry THEN entry' = FALSE /\ PollSig(kind)
           ELSE UNCHANGED <<entry, pipe>>

\* The poll thread reads its pipe, which it does before anything else.  A
\* synchronous command wakes the caller, who waits for just this signal.
ProcPipe ==
  /\ poll = "wait" /\ pipe # <<>>
  /\ polled' = entry
  /\ pipe' = Tail(pipe)
  /\ ctl' = IF Head(pipe) = "sync" /\ ctl = "onwait" THEN "onjoin"
            ELSE IF Head(pipe) = "sync" /\ ctl = "offwait" THEN "off"
            ELSE ctl
  /\ UNCHANGED <<state, buffers, streaming, entry, threads, late, fails>>

\* poll() returns with the stream's fd readable.
PollWake ==
  /\ poll = "wait" /\ pipe = <<>>
  /\ polled /\ filled # {}
  /\ poll' = "woken"
  /\ UNCHANGED <<state, buffers, streaming, polling, pollBuf, cmdThread, calls, ctl, late, fails>>

\* notify_cb is called if the entry still has one.
PollCall ==
  /\ poll = "woken"
  /\ poll' = IF entry THEN "notify" ELSE "wait"
  /\ UNCHANGED <<state, buffers, streaming, polling, pollBuf, cmdThread, calls, ctl, late, fails>>

-----------------------------------------------------------------------------
(* mm_stream_data_notify, on the poll thread. *)

\* The state check and the DQBUF ioctl.
NotifyDequeue ==
  /\ poll = "notify"
  /\ IF state # "ACTIVE" \/ filled = {}
       THEN poll' = "wait" /\ UNCHANGED <<filled, pollBuf>>
       ELSE \E b \in filled : /\ filled' = filled \ {b}
                              /\ poll' = "dequeued" /\ pollBuf' = b
  /\ UNCHANGED <<state, refcnt, inKernel, count, queued, owed, streaming, polling,
                 cmdThread, calls, ctl, late, fails>>

\* mm_stream_read_msm_frame after the ioctl: the last queued buffer stops the
\* polling, without waiting since this is the poll thread itself.  When the
\* frame's cache cannot be invalidated the frame is dropped.
NotifyCount ==
  /\ poll = "dequeued"
  /\ count' = count - 1
  /\ IF count = 1 THEN DelPollFd("async") ELSE UNCHANGED <<entry, pipe>>
  /\ \/ poll' = "counted" /\ UNCHANGED fails
     \/ poll' = "wait" /\ Fail
  /\ UNCHANGED <<state, refcnt, inKernel, queued, filled, owed, streaming, polled,
                 pollBuf, cmdThread, calls, ctl, late>>

\* Mutant: one reference for the bundle and the callbacks together.
NotifyRefOnce ==
  /\ poll = "counted"
  /\ inKernel' = [inKernel EXCEPT ![pollBuf] = FALSE]
  /\ refcnt' = [refcnt EXCEPT ![pollBuf] = (@ + One(IsBundled \/ HasCb)) % 256]
  /\ poll' = "bundle"
  /\ UNCHANGED <<state, count, queued, filled, owed, streaming, polling,
                 pollBuf, cmdThread, calls, ctl, late, fails>>

\* Under buf_lock: the location, and one reference each for the bundle and
\* for the callbacks.
NotifyRef ==
  /\ poll = "counted"
  /\ inKernel' = [inKernel EXCEPT ![pollBuf] = FALSE]
  /\ refcnt' = [refcnt EXCEPT ![pollBuf] = (@ + One(IsBundled) + One(HasCb)) % 256]
  /\ poll' = "bundle"
  /\ UNCHANGED <<state, count, queued, filled, owed, streaming, polling,
                 pollBuf, cmdThread, calls, ctl, late, fails>>

\* mm_stream_handle_rcvd_buf: first the channel is notified, without a lock,
NotifyBundle ==
  /\ poll = "bundle"
  /\ owed' = [owed EXCEPT ![pollBuf] = @ + One(IsBundled)]
  /\ poll' = "link"
  /\ UNCHANGED <<state, refcnt, inKernel, count, queued, filled, streaming, polling,
                 pollBuf, cmdThread, calls, ctl, late, fails>>

\* then, under buf_lock, a linked channel gets a reference of its own,
NotifyLink ==
  /\ poll = "link"
  /\ refcnt' = [refcnt EXCEPT ![pollBuf] = (@ + One(IsLinked)) % 256]
  /\ owed' = [owed EXCEPT ![pollBuf] = @ + One(IsLinked)]
  /\ poll' = "cmd"
  /\ UNCHANGED <<state, inKernel, count, queued, filled, streaming, polling,
                 pollBuf, cmdThread, calls, ctl, late, fails>>

\* then, under cmd_lock, the cmd thread if it runs.  The poll thread waits here
\* while STOP joins the cmd thread.
NotifyCmd ==
  /\ poll = "cmd" /\ ~CmdLocked
  /\ cmdQ' = [cmdQ EXCEPT ![pollBuf] = @ + One(HasCb /\ cmdActive)]
  /\ poll' = "wait"
  /\ UNCHANGED <<state, buffers, streaming, polling, pollBuf, cmdActive, cmd, cmdBuf, calls,
                 ctl, late, fails>>

-----------------------------------------------------------------------------
(* mm_stream_buf_done.  It runs in a client's thread (who = "app") and, for  *)
(* the reference taken for the callbacks, in the cmd thread (who = "cmd").   *)

At(who, stage, b) ==
  IF who = "app" THEN calls[stage][b] > 0 ELSE cmd = stage /\ cmdBuf = b

\* The caller goes on to another stage, or returns.
Go(who, b, from, to) ==
  IF who = "app"
    THEN /\ calls' = [s \in Stage |-> [calls[s] EXCEPT ![b] =
                        IF s = from THEN @ - 1 ELSE IF s = to THEN @ + 1 ELSE @]]
         /\ UNCHANGED cmd
    ELSE /\ cmd' = IF to = "return" THEN "idle" ELSE to
         /\ UNCHANGED calls

rest == <<state, streaming, polled, poll, pollBuf, cmdActive, cmdQ, cmdBuf, ctl, late>>

\* "trying to free buffer for the second time?"
DoneCheck(who, b) ==
  /\ At(who, "check", b)
  /\ Go(who, b, "check", IF refcnt[b] = 0 THEN "return" ELSE "dec")
  /\ UNCHANGED <<rest, buffers, entry, pipe, fails>>

\* Mutant: a buffer with one reference left is queued.
DoneDecEarly(who, b) ==
  /\ At(who, "dec", b)
  /\ refcnt' = [refcnt EXCEPT ![b] = Dec(@)]
  /\ Go(who, b, "dec", IF Dec(refcnt[b]) <= 1 THEN "count" ELSE "return")
  /\ UNCHANGED <<rest, inKernel, count, queued, filled, owed, entry, pipe, fails>>

\* Mutant: the last reference does not queue the buffer.
DoneDecForgets(who, b) ==
  /\ At(who, "dec", b)
  /\ refcnt' = [refcnt EXCEPT ![b] = Dec(@)]
  /\ Go(who, b, "dec", "return")
  /\ UNCHANGED <<rest, inKernel, count, queued, filled, owed, entry, pipe, fails>>

\* A second hold of buf_lock.
DoneDec(who, b) ==
  /\ At(who, "dec", b)
  /\ refcnt' = [refcnt EXCEPT ![b] = Dec(@)]
  /\ Go(who, b, "dec", IF Dec(refcnt[b]) = 0 THEN "count" ELSE "return")
  /\ UNCHANGED <<rest, inKernel, count, queued, filled, owed, entry, pipe, fails>>

\* Mutant: the polling starts with the second queued buffer.
DoneCountLate(who, b) ==
  /\ At(who, "count", b)
  /\ count' = count + 1
  /\ IF count = 1 THEN AddPollFd ELSE UNCHANGED <<entry, pipe>>
  /\ Go(who, b, "count", "ioctl")
  /\ UNCHANGED <<rest, refcnt, inKernel, queued, filled, owed, fails>>

\* mm_stream_qbuf: the first queued buffer starts the polling.  Nothing is
\* queued when the buffer's cache cannot be invalidated.
DoneCount(who, b) ==
  /\ At(who, "count", b)
  /\ \/ /\ count' = count + 1
        /\ IF count = 0 THEN AddPollFd ELSE UNCHANGED <<entry, pipe>>
        /\ Go(who, b, "count", "ioctl") /\ UNCHANGED fails
     \/ /\ Go(who, b, "count", "return") /\ Fail
        /\ UNCHANGED <<count, entry, pipe>>
  /\ UNCHANGED <<rest, refcnt, inKernel, queued, filled, owed>>

\* VIDIOC_QBUF fails for a buffer the driver has or when the buffers are not
\* registered, and may fail otherwise.
DriverTakes(b) == b \notin queued \cup filled /\ state \in {"REG", "ACTIVE"}

DoneIoctl(who, b) ==
  /\ At(who, "ioctl", b)
  /\ \/ /\ DriverTakes(b)
        /\ queued' = queued \cup {b}
        /\ Go(who, b, "ioctl", "mark") /\ UNCHANGED fails
     \/ /\ IF DriverTakes(b) THEN Fail ELSE UNCHANGED fails
        /\ Go(who, b, "ioctl", "undo") /\ UNCHANGED queued
  /\ UNCHANGED <<rest, refcnt, inKernel, count, filled, owed, entry, pipe>>

\* Mutant: a failed VIDIOC_QBUF stays counted.
DoneUndoForgets(who, b) ==
  /\ At(who, "undo", b)
  /\ Go(who, b, "undo", "return")
  /\ UNCHANGED <<rest, refcnt, inKernel, count, queued, filled, owed, entry, pipe, fails>>

\* A failed VIDIOC_QBUF is taken off the count again.
DoneUndo(who, b) ==
  /\ At(who, "undo", b)
  /\ count' = count - 1
  /\ IF count = 1 THEN DelPollFd("async") ELSE UNCHANGED <<entry, pipe>>
  /\ Go(who, b, "undo", "return")
  /\ UNCHANGED <<rest, refcnt, inKernel, queued, filled, owed, fails>>

\* in_kernel is written after the ioctl, without buf_lock.
DoneMark(who, b) ==
  /\ At(who, "mark", b)
  /\ inKernel' = [inKernel EXCEPT ![b] = TRUE]
  /\ Go(who, b, "mark", "return")
  /\ UNCHANGED <<rest, refcnt, count, queued, filled, owed, entry, pipe, fails>>

BufDone(who, b) ==
  \/ DoneCheck(who, b) \/ DoneDec(who, b) \/ DoneCount(who, b)
  \/ DoneIoctl(who, b) \/ DoneUndo(who, b) \/ DoneMark(who, b)

\* A client sends QBUF.  The state machine runs it in ACTIVE only; in the other
\* states the event is logged and the client keeps its reference.
QBuf(b) ==
  /\ state = "ACTIVE" /\ owed[b] > 0
  /\ CallsOn(b) < MaxCalls
  /\ owed' = [owed EXCEPT ![b] = @ - 1]
  /\ calls' = [calls EXCEPT !["check"][b] = @ + 1]
  /\ UNCHANGED <<rest, refcnt, inKernel, count, queued, filled, cmd, entry, pipe, fails>>

-----------------------------------------------------------------------------
(* The cmd thread. *)

\* A node is taken off the queue.
CmdTake ==
  /\ cmdActive /\ cmd = "idle"
  /\ \E b \in Buf : /\ cmdQ[b] > 0
                    /\ cmdQ' = [cmdQ EXCEPT ![b] = @ - 1]
                    /\ cmd' = "dispatch" /\ cmdBuf' = b
  /\ UNCHANGED <<state, buffers, streaming, polling, poll, pollBuf, cmdActive, calls,
                 ctl, late, fails>>

\* mm_stream_dispatch_app_data: a reference for the callback, the callback,
\* and buf_done for the reference taken when the frame arrived.
CmdDispatch ==
  /\ cmd = "dispatch"
  /\ refcnt' = [refcnt EXCEPT ![cmdBuf] = Inc(@)]
  /\ owed' = [owed EXCEPT ![cmdBuf] = @ + 1]
  /\ cmd' = "check"
  /\ UNCHANGED <<state, inKernel, count, queued, filled, streaming, polling, poll, pollBuf,
                 cmdActive, cmdQ, cmdBuf, calls, ctl, late, fails>>

-----------------------------------------------------------------------------
(* The events of the state machine, on the control thread. *)

\* An event that only changes the state.
Event(from, to) ==
  /\ ctl = "idle" /\ state \in from /\ state' = to
  /\ UNCHANGED <<buffers, streaming, polling, threads, ctl, late, fails>>

Acquire == Event({"INITED"}, "ACQUIRED")
SetFmt == Event({"ACQUIRED", "CFG"}, "CFG")
GetBuf == Event({"CFG"}, "BUFFED")
PutBuf == Event({"BUFFED"}, "CFG")
AddStream == Event({"NOTUSED"}, "INITED")

\* mm_stream_release: the fd is closed and the stream object zeroed.
Release ==
  /\ ctl = "idle" /\ state \in {"ACQUIRED", "CFG"} /\ state' = "NOTUSED"
  /\ refcnt' = [b \in Buf |-> 0] /\ inKernel' = [b \in Buf |-> FALSE]
  /\ count' = 0 /\ queued' = {} /\ filled' = {}
  /\ UNCHANGED <<owed, streaming, polling, threads, ctl, late, fails>>

\* mm_stream_reg_buf: the buffers with initial_reg_flag go to the driver, the
\* others start with a reference of the client.
RegBuf ==
  /\ ctl = "idle" /\ state = "BUFFED" /\ state' = "REG"
  /\ LateSessions \/ Quiet
  /\ refcnt' = [b \in Buf |-> One(b \notin InitialReg)]
  /\ inKernel' = [b \in Buf |-> b \in InitialReg]
  /\ owed' = [b \in Buf |-> One(b \notin InitialReg)]
  /\ queued' = InitialReg /\ filled' = {}
  /\ count' = Cardinality(InitialReg)
  /\ IF InitialReg # {} THEN AddPollFd ELSE UNCHANGED <<entry, pipe>>
  /\ late' = ~Quiet
  /\ UNCHANGED <<streaming, polled, threads, ctl, fails>>

\* The driver refuses a buffer after the loop has seen some: the state stays,
\* what was queued stays queued, and the channel goes on to PUT_BUF.
RegBufFails ==
  /\ ctl = "idle" /\ state = "BUFFED" /\ Fail
  /\ LateSessions \/ Quiet
  /\ \E seen \in SUBSET Buf :
       /\ InitialReg \ seen # {}
       /\ refcnt' = [b \in Buf |-> IF b \in seen THEN One(b \notin InitialReg) ELSE refcnt[b]]
       /\ inKernel' = [b \in Buf |-> IF b \in seen THEN b \in InitialReg ELSE inKernel[b]]
       /\ queued' = seen \cap InitialReg /\ filled' = {}
       /\ count' = Cardinality(seen \cap InitialReg)
       /\ IF seen \cap InitialReg # {}
            THEN AddPollFd
            ELSE entry' = FALSE /\ PollSig("async")
  /\ UNCHANGED <<state, owed, streaming, polled, threads, ctl, late>>

\* START: the cmd thread is launched,
Start ==
  /\ ctl = "idle" /\ state = "REG"
  /\ ctl' = "activate"
  /\ cmdActive' = (cmdActive \/ HasCb)
  /\ cmdQ' = IF HasCb THEN [b \in Buf |-> 0] ELSE cmdQ
  /\ UNCHANGED <<state, buffers, streaming, polling, poll, pollBuf, cmd, cmdBuf, calls,
                 late, fails>>

\* the stream becomes ACTIVE before it is on,
Activate ==
  /\ ctl = "activate" /\ ctl' = "streamon"
  /\ state' = "ACTIVE"
  /\ UNCHANGED <<buffers, streaming, polling, threads, late, fails>>

\* and STREAMON succeeds, or fails and everything is undone.
StreamOn ==
  /\ ctl = "streamon"
  /\ \/ ctl' = "idle" /\ streaming' = TRUE /\ UNCHANGED fails
     \/ ctl' = "ondel" /\ Fail /\ UNCHANGED streaming
  /\ UNCHANGED <<state, buffers, polling, threads, late>>

\* STOP: the fd is removed first,
Stop ==
  /\ ctl = "idle" /\ state = "ACTIVE" /\ ctl' = "offdel"
  /\ UNCHANGED <<state, buffers, streaming, polling, threads, late, fails>>

\* with a synchronous call that waits for the poll thread, unless the entry
\* is gone already: then it returns 0 and nothing waits.
SyncDel ==
  /\ \/ ctl = "offdel" /\ ctl' = IF entry THEN "offwait" ELSE "off"
     \/ ctl = "ondel" /\ ctl' = IF entry THEN "onwait" ELSE "onjoin"
  /\ DelPollFd("sync")
  /\ UNCHANGED <<state, buffers, streaming, polled, threads, late, fails>>

\* then STREAMOFF: the driver gives up its buffers,
StreamOff ==
  /\ ctl = "off" /\ ctl' = "join"
  /\ streaming' = FALSE /\ queued' = {} /\ filled' = {}
  /\ UNCHANGED <<state, refcnt, inKernel, count, owed, polling, threads, late, fails>>

\* then cmd_lock is taken and the cmd thread told to exit,
LockCmd ==
  /\ \/ ctl = "join" /\ ctl' = "joining"
     \/ ctl = "onjoin" /\ ctl' = "onjoining"
  /\ UNCHANGED <<state, buffers, streaming, polling, threads, late, fails>>

\* and still under cmd_lock it is joined: it first empties its queue.
Join ==
  /\ ctl \in {"onjoining", "joining"} /\ ctl' = "stopped"
  /\ HasCb => cmd = "idle" /\ \A b \in Buf : cmdQ[b] = 0
  /\ cmdActive' = (cmdActive /\ ~HasCb)
  /\ state' = "REG"
  /\ UNCHANGED <<buffers, streaming, polling, poll, pollBuf, cmdQ, cmd, cmdBuf, calls,
                 late, fails>>

\* UNREG_BUF: the driver gives up the buffers and no reference is left.  What
\* a client still holds it can no longer give back, but nothing waits for the
\* threads that are inside the stream's code.
UnregBuf ==
  /\ ctl = "stopped" /\ ctl' = "idle"
  /\ state' = "BUFFED"
  /\ refcnt' = [b \in Buf |-> 0] /\ inKernel' = [b \in Buf |-> FALSE]
  /\ owed' = [b \in Buf |-> 0]
  /\ queued' = {} /\ filled' = {}
  /\ late' = (late \/ ~Quiet)
  /\ UNCHANGED <<count, streaming, polling, threads, fails>>

\* The driver fills a buffer.
DriverFill ==
  /\ streaming
  /\ \E b \in queued : queued' = queued \ {b} /\ filled' = filled \cup {b}
  /\ UNCHANGED <<state, refcnt, inKernel, count, owed, streaming, polling, threads, ctl, late, fails>>

-----------------------------------------------------------------------------
Init ==
  /\ state = "INITED"
  /\ refcnt = [b \in Buf |-> 0] /\ inKernel = [b \in Buf |-> FALSE]
  /\ owed = [b \in Buf |-> 0]
  /\ count = 0 /\ queued = {} /\ filled = {} /\ streaming = FALSE
  /\ entry = FALSE /\ polled = FALSE /\ pipe = <<>>
  /\ poll = "wait" /\ pollBuf \in Buf
  /\ cmd = "idle" /\ cmdBuf \in Buf
  /\ cmdActive = FALSE /\ cmdQ = [b \in Buf |-> 0]
  /\ calls = [s \in Stage |-> [b \in Buf |-> 0]]
  /\ ctl = "idle" /\ late = FALSE /\ fails = 0

Poll == ProcPipe \/ PollWake \/ PollCall
Notify == \/ NotifyDequeue \/ NotifyCount \/ NotifyRef
          \/ NotifyBundle \/ NotifyLink \/ NotifyCmd
Cmd == CmdTake \/ CmdDispatch \/ \E b \in Buf : BufDone("cmd", b)
App == \E b \in Buf : BufDone("app", b)
Control == Activate \/ StreamOn \/ SyncDel \/ StreamOff \/ LockCmd \/ Join \/ UnregBuf
SetUp == \/ Acquire \/ SetFmt \/ GetBuf \/ PutBuf \/ Release \/ AddStream
         \/ RegBuf \/ RegBufFails

Next ==
  \/ Poll \/ Notify \/ Cmd \/ App \/ Control \/ SetUp
  \/ Start \/ Stop
  \/ \E b \in Buf : QBuf(b)
  \/ DriverFill

Spec == Init /\ [][Next]_vars

\* The threads run; nothing is assumed of the driver, of the clients, even inside
\* buf_done, or of the control thread between two events.
FairSpec ==
  /\ Spec
  /\ WF_vars(Poll \/ Notify)
  /\ WF_vars(Cmd)
  /\ WF_vars(Control)

-----------------------------------------------------------------------------
(* Properties. *)

\* The references the poll thread has taken and not handed on.
PollRefs(b) == One(IsBundled /\ poll = "bundle" /\ pollBuf = b)
               + One(HasCb /\ poll \in {"bundle", "link", "cmd"} /\ pollBuf = b)

\* The cmd thread's, until it calls buf_done.
CmdRefs(b) == cmdQ[b] + One(cmd = "dispatch" /\ cmdBuf = b)

\* The threads at a stage of buf_done.
Inside(stage, b) == calls[stage][b] + One(cmd = stage /\ cmdBuf = b)

\* The frames the clients hold, and the calls that have yet to give one up.
Refs(b) == PollRefs(b) + CmdRefs(b) + owed[b] + Inside("check", b) + Inside("dec", b)

\* The buffers are registered, and no thread is left from before.
Live == state \in {"REG", "ACTIVE"} /\ ctl # "stopped" /\ ~late

\* The reference count of a buffer is the number of those that will call
\* buf_done for it, whatever the threads and the clients do at the same time:
\* no frame is given back while someone still reads it, none is kept for ever.
RefcountExact == Live => \A b \in Buf : refcnt[b] = Refs(b)

\* No one holds a buffer the driver may write into.
HeldFrameNotInDriver ==
  Live => \A b \in Buf : Refs(b) > 0 => b \notin queued \cup filled

\* Those who are between the count and the driver.
Queueing(b) == Inside("ioctl", b) + Inside("undo", b)

\* STOP is past STREAMOFF, which took the driver's buffers away.
SwitchedOff == ctl \in {"join", "joining"}

\* queued_buffer_count is the number of buffers the driver has, give or take
\* those on their way to it and from it; STREAMOFF empties the driver only.
CountExact ==
  Live /\ ~SwitchedOff =>
    count = Cardinality(queued \cup filled)
            + Cardinality({b \in Buf : Queueing(b) > 0})
            + One(poll = "dequeued")

\* A registered buffer is somewhere: no interleaving loses one, as long as the
\* driver and the allocator do not fail.
NoBufferLost ==
  Live /\ ~SwitchedOff /\ fails = 0 /\ (IsBundled \/ HasCb) =>
    \A b \in Buf :
      \/ b \in queued \cup filled
      \/ refcnt[b] > 0
      \/ pollBuf = b /\ poll \in {"dequeued", "counted"}
      \/ Inside("count", b) + Queueing(b) > 0

\* Whenever frames are ready the poll thread takes one, or the stream stops: the
\* asynchronous removal of the fd by the last dequeue and its addition by the
\* next queue never cross.
FramesAreTaken ==
  (filled # {} /\ ctl = "idle") ~> (poll = "dequeued" \/ ctl # "idle" \/ late)

\* START and STOP end.  They wait for the poll thread, which must take cmd_lock
\* for the frame it carries before it reads its pipe, and later for the cmd
\* thread, with cmd_lock held: neither wait may need what the other one blocks.
ControlReturns == (ctl # "idle") ~> (ctl = "idle")

-----------------------------------------------------------------------------
(* The inductive invariant behind RefcountExact and HeldFrameNotInDriver. *)

\* Where a buffer nobody refers to can be: with the driver, on its way from
\* it, or on its way to it.
Places(b) == One(b \in queued) + One(b \in filled)
             + One(poll \in {"dequeued", "counted"} /\ pollBuf = b)
             + Inside("count", b) + Queueing(b)

\* The references that the handling of a frame will still take: the linked
\* channel's, and the callback's own.
Pending(b) == One(IsLinked /\ poll \in {"bundle", "link"} /\ pollBuf = b)
              + One(HasCb /\ poll \in {"bundle", "link", "cmd"} /\ pollBuf = b)
              + CmdRefs(b)

\* A buffer is in one place, or it is referred to, never both; the count is
\* exact; and it is far from the limit of a uint8_t.
BufInv(b) ==
  /\ refcnt[b] = Refs(b)
  /\ Places(b) + One(Refs(b) > 0) <= 1
  /\ Refs(b) + Pending(b) <= 4

\* An event is under way in the registered states only; before START nothing
\* moves; and the cmd thread runs as long as frames may come.
ControlInv ==
  /\ ctl # "idle" => state \in {"REG", "ACTIVE"}
  /\ Live /\ state = "REG" => Quiet
  /\ Live /\ HasCb /\ (state = "ACTIVE" \/ ctl = "activate") => cmdActive

Inv == ControlInv /\ (Live => \A b \in Buf : BufInv(b))

-----------------------------------------------------------------------------
(* A statement of the code's comments that the code does not keep. *)

\* mm_stream_streamoff on the removal of the fd: "The error might be due to
\* async update. In this case wait for all updates to complete before
\* proceeding."
AsyncUpdatesDone == ctl = "off" => pipe = <<>>
=============================================================================
