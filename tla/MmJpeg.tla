------------------------------- MODULE MmJpeg -------------------------------
(***************************************************************************)
(* mm-jpeg-interface: clients with one encode session each, the job        *)
(* manager's thread and the encoder (OMX), whose callbacks come on threads *)
(* of its own.                                                             *)
(*                                                                         *)
(* Locks. Calls of clients hold g_intf_lock, so there is one at a time     *)
(* (call). All but start_job then take job_lock, which the manager holds   *)
(* while it starts a job: run is the one that has it and where it is. A    *)
(* session's lock is held over several steps only by its callback thread   *)
(* (cb[s] is not Quiet); everyone else waits for it and holds it within a  *)
(* step.                                                                   *)
(*                                                                         *)
(* A job of this device is encoded by the one OMX session of its client    *)
(* (MM_JPEG_CONCURRENT_SESSIONS_COUNT is 1) into memory the encoder asks   *)
(* the HAL for (mJpegMemOpt).                                              *)
(***************************************************************************)
EXTENDS Integers, Sequences, Selection

CONSTANTS Session,         \* one for each client
          MaxJob, MaxFail,
          MaxSession,      \* sessions that are created
          OrderlyEncoder,  \* the encoder reports one failure of a job, none once
                           \* the job is aborted and none of a change of state
                           \* while the next job is handed to it, never refuses to
                           \* go idle, and takes no work with a change under way
          none

ASSUME MmJpegAssumption == MaxJob \in Nat /\ MaxFail \in Nat /\ MaxSession \in Nat /\ none \notin Session

Job == 1..MaxJob

VARIABLES
  jobq,        \* job_mgr.job_queue
  ongoing,     \* ongoing_job_q
  sem,         \* job_sem
  mgr,         \* the manager: "wait"s for job_sem, "check"s ongoing, wants the "lock", "run"s
  call,        \* the call that waits for job_lock
  run,         \* the holder of job_lock
  sess,        \* per session, mm_jpeg_job_session_t
  inprogress,  \* p_session_inprogress
  omx,         \* the encoder of each session
  cb,          \* the callback thread of each session
  owner,       \* the session of a job
  ans,         \* what a job's client was told
  gone,        \* jobs aborted by a call that has returned
  out,         \* output memory the encoder got, neither delivered nor released
  fails,
  created

vars == <<jobq, ongoing, sem, mgr, call, run, sess, inprogress, omx, cb,
          owner, ans, gone, out, fails, created>>
ghosts == <<owner, ans, gone, out>>

Closed == [client |-> "none", config |-> FALSE, hq |-> 0, encoding |-> FALSE,
           abort |-> "none", pending |-> FALSE, error |-> FALSE, job |-> 0, ref |-> FALSE]
Unloaded == [state |-> "loaded", cmd |-> "none", bufs |-> FALSE, work |-> "none", mem |-> FALSE]
NoCall == [op |-> "none", s |-> none, j |-> 0]
Free == [op |-> "none", s |-> none, j |-> 0, at |-> "free", cs |-> "none",
         t |-> none, to |-> "none", from |-> "none", ok |-> TRUE]

Quiet == <<"idle", 0>>

Init ==
  /\ jobq = <<>> /\ ongoing = <<>> /\ sem = 0 /\ mgr = "wait"
  /\ call = NoCall /\ run = Free
  /\ sess = [s \in Session |-> Closed] /\ inprogress = none
  /\ omx = [s \in Session |-> Unloaded] /\ cb = [s \in Session |-> Quiet]
  /\ owner = [j \in Job |-> none] /\ ans = [j \in Job |-> "none"] /\ gone = {}
  /\ out = [s \in Session |-> 0] /\ fails = 0 /\ created = 0

Unlocked(s) == cb[s] = Quiet
Of(s) == {j \in Job : owner[j] = s}
Without(q, J) == At(q, {i \in DOMAIN q : q[i] \notin J})

\* The holder of job_lock goes on at a, the encoder's state aside.
GoTo(a) == run' = [run EXCEPT !.at = a, !.ok = TRUE]
MayFail == fails < MaxFail /\ fails' = fails + 1
Works == fails' = fails

-----------------------------------------------------------------------------
(* What clients call. The HAL aborts its jobs only to destroy the session. *)

Idle == call = NoCall

\* start_job: the queue is filled and the manager's semaphore posted.
StartJob(s, j) ==
  /\ Idle /\ sess[s].client = "open" /\ owner[j] = none /\ \A i \in 1..(j - 1) : owner[i] # none
  /\ owner' = [owner EXCEPT ![j] = s]
  /\ jobq' = Append(jobq, j) /\ sem' = sem + 1
  /\ UNCHANGED <<ongoing, mgr, call, run, sess, inprogress, omx, cb, ans, gone, out, fails, created>>

\* create_session up to job_lock: session_create and the handle's queue.
CreateSession(s) ==
  /\ Idle /\ sess[s].client = "none" /\ created < MaxSession /\ created' = created + 1
  /\ call' = [op |-> "create", s |-> s, j |-> 0]
  /\ sess' = [sess EXCEPT ![s] = [Closed EXCEPT !.client = "new", !.hq = 1]]
  /\ UNCHANGED <<jobq, ongoing, sem, mgr, run, inprogress, omx, cb, ghosts, fails>>

AbortJob(s, j) ==
  /\ Idle /\ sess[s].client \in {"open", "stopping"} /\ owner[j] = s /\ j \notin gone
  /\ call' = [op |-> "abort", s |-> s, j |-> j]
  /\ sess' = [sess EXCEPT ![s].client = "stopping"]
  /\ UNCHANGED <<jobq, ongoing, sem, mgr, run, inprogress, omx, cb, ghosts, fails, created>>

DestroySession(s) ==
  /\ Idle /\ sess[s].client \in {"open", "stopping", "bad"}
  /\ \A j \in Of(s) : ans[j] # "none" \/ j \in gone
  /\ call' = [op |-> "destroy", s |-> s, j |-> 0]
  /\ UNCHANGED <<jobq, ongoing, sem, mgr, run, sess, inprogress, omx, cb, ghosts, fails, created>>

Take(at) == run' = [Free EXCEPT !.op = call.op, !.s = call.s, !.j = call.j, !.at = at]

\* A call gets job_lock. An abort looks for its job in the queue, then among the
\* ongoing; create_session configures the session if none is configured.
Begin ==
  /\ call # NoCall /\ run = Free
  /\ \/ /\ call.op = "create"
        /\ Take(IF inprogress = none THEN "conf1" ELSE "return")
        /\ UNCHANGED <<jobq, ongoing>>
     \/ /\ call.op = "abort"
        /\ jobq' = Without(jobq, {call.j})
        /\ ongoing' = IF \E i \in DOMAIN jobq : jobq[i] = call.j THEN ongoing ELSE Without(ongoing, {call.j})
        /\ Take(IF ongoing' # ongoing THEN "ab1" ELSE "return")
     \/ /\ call.op = "destroy"
        /\ jobq' = Without(jobq, Of(call.s)) /\ ongoing' = Without(ongoing, Of(call.s))
        /\ Take("ab1")
  /\ UNCHANGED <<sem, mgr, call, sess, inprogress, omx, cb, ghosts, fails, created>>

\* Mutant: destroy_session wakes nobody.
ReturnSilently ==
  /\ run.op \in {"create", "abort", "destroy"} /\ run.cs = "none" /\ run.at = "return"
  /\ run' = Free /\ call' = NoCall
  /\ sess' = IF run.op = "create"
               THEN [sess EXCEPT ![run.s].client = IF run.ok THEN "open" ELSE "bad"] ELSE sess
  /\ gone' = gone \cup (IF run.op = "create" THEN {} ELSE {j \in Of(run.s) : run.op = "destroy" \/ j = run.j})
  /\ UNCHANGED <<jobq, ongoing, sem, mgr, inprogress, omx, cb, owner, ans, out, fails, created>>

\* The end of a call. Only destroy_session wakes the manager.
Return ==
  /\ run.op \in {"create", "abort", "destroy"} /\ run.cs = "none" /\ run.at = "return"
  /\ run' = Free /\ call' = NoCall
  /\ sess' = IF run.op = "create"
               THEN [sess EXCEPT ![run.s].client = IF run.ok THEN "open" ELSE "bad"] ELSE sess
  /\ gone' = gone \cup (IF run.op = "create" THEN {} ELSE {j \in Of(run.s) : run.op = "destroy" \/ j = run.j})
  /\ sem' = IF run.op = "destroy" THEN sem + 1 ELSE sem
  /\ UNCHANGED <<jobq, ongoing, mgr, inprogress, omx, cb, owner, ans, out, fails, created>>

-----------------------------------------------------------------------------
(* mm_jpeg_session_change_state. *)

\* The holder calls it for t and goes on at next; the lock of t is free.
ChangeState(t, to, next) ==
  /\ Unlocked(t)
  /\ IF omx[t].state = to
       THEN GoTo(next) /\ UNCHANGED sess
       ELSE /\ run' = [run EXCEPT !.at = next, !.ok = TRUE, !.cs = "send",
                                  !.t = t, !.to = to, !.from = omx[t].state]
            /\ sess' = [sess EXCEPT ![t].pending = TRUE]

Leave(ok) == run' = [run EXCEPT !.cs = "none", !.ok = ok]

SendCommand ==
  /\ run.cs = "send"
  /\ \/ MayFail /\ Leave(FALSE) /\ UNCHANGED omx
     \/ Works /\ run' = [run EXCEPT !.cs = "sent"]
        /\ omx' = [omx EXCEPT ![run.t].cmd = run.to]
  /\ UNCHANGED <<jobq, ongoing, sem, mgr, call, sess, inprogress, cb, ghosts, created>>

\* p_exec hands the encoder its buffers or takes them back, or fails. An error
\* since the session was created ends every change of state here.
AfterSend ==
  LET hands == run.from = "loaded"
      takes == run.to = "loaded"
  IN /\ run.cs = "sent" /\ Unlocked(run.t)
     /\ \/ sess[run.t].error /\ Works /\ Leave(FALSE) /\ UNCHANGED omx
        \/ ~sess[run.t].error /\ (hands \/ takes) /\ MayFail /\ Leave(FALSE) /\ UNCHANGED omx
        \/ /\ ~sess[run.t].error /\ Works
           /\ omx' = [omx EXCEPT ![run.t].bufs = IF hands THEN TRUE ELSE IF takes THEN FALSE ELSE @]
           /\ IF sess[run.t].pending THEN run' = [run EXCEPT !.cs = "wait"] ELSE Leave(TRUE)
     /\ UNCHANGED <<jobq, ongoing, sem, mgr, call, sess, inprogress, cb, ghosts, created>>

\* Awake: nothing is looked at again.
Woken ==
  /\ run.cs = "woken" /\ Unlocked(run.t) /\ Leave(TRUE)
  /\ UNCHANGED <<jobq, ongoing, sem, mgr, call, sess, inprogress, omx, cb, ghosts, fails, created>>

\* pthread_cond_signal of s: who waits wakes up, otherwise it is lost.
Signalled(r, s) ==
  IF r.cs = "wait" /\ r.t = s THEN [r EXCEPT !.cs = "woken"]
  ELSE IF r.cs = "none" /\ r.at = "abwait" /\ r.s = s THEN [r EXCEPT !.at = "abwoken"] ELSE r

-----------------------------------------------------------------------------
(* mm_jpeg_session_abort and mm_jpeg_session_destroy. *)

\* The holder is at a, outside of change_state.
Is(a) == run.cs = "none" /\ run.at = a
AfterAbort == IF run.op = "abort" THEN "return" ELSE "des1"

\* Mutant: the memory of the job is forgotten.
AbortedForgets(s) ==
  /\ sess' = [sess EXCEPT ![s].abort = "done", ![s].ref = FALSE]
  /\ UNCHANGED out /\ GoTo(AfterAbort)

\* The rest of an abort: the memory of the job goes back (mm_jpeg_put_mem).
Aborted(s) ==
  /\ sess' = [sess EXCEPT ![s].abort = "done", ![s].ref = FALSE]
  /\ out' = IF sess[s].ref THEN [out EXCEPT ![s] = @ - 1] ELSE out
  /\ GoTo(AfterAbort)

AbortInit ==
  /\ Is("ab1") /\ Unlocked(run.s)
  /\ \/ /\ sess[run.s].abort # "none"
        /\ GoTo(AfterAbort) /\ UNCHANGED <<sess, out>>
     \/ /\ sess[run.s].abort = "none" /\ sess[run.s].encoding
        /\ sess' = [sess EXCEPT ![run.s].abort = "init", ![run.s].pending = TRUE]
        /\ GoTo("ab2") /\ UNCHANGED out
     \/ /\ sess[run.s].abort = "none" /\ ~sess[run.s].encoding
        /\ Aborted(run.s)
  /\ UNCHANGED <<jobq, ongoing, sem, mgr, call, inprogress, omx, cb, owner, ans, gone, fails, created>>

\* A refused command leaves the abort in its initial state.
AbortCommand ==
  /\ Is("ab2")
  /\ \/ ~OrderlyEncoder /\ MayFail /\ GoTo(AfterAbort) /\ UNCHANGED omx
     \/ Works /\ GoTo("ab3") /\ omx' = [omx EXCEPT ![run.s].cmd = "idle"]
  /\ UNCHANGED <<jobq, ongoing, sem, mgr, call, sess, inprogress, cb, ghosts, created>>

AbortWait ==
  /\ Is("ab3") \/ Is("abwoken")
  /\ Unlocked(run.s)
  /\ IF Is("ab3") /\ sess[run.s].abort = "init"
       THEN GoTo("abwait") /\ UNCHANGED <<sess, out>>
       ELSE Aborted(run.s)
  /\ UNCHANGED <<jobq, ongoing, sem, mgr, call, inprogress, omx, cb, owner, ans, gone, fails, created>>

\* mm_jpeg_session_destroy: the encoder goes to loaded if it can.
Unload ==
  /\ \/ /\ Is("des1")
        /\ IF omx[run.s].state = "exec" THEN ChangeState(run.s, "idle", "des2")
           ELSE GoTo("des2") /\ UNCHANGED sess
     \/ /\ Is("des2")
        /\ IF omx[run.s].state = "idle" THEN ChangeState(run.s, "loaded", "des3")
           ELSE GoTo("des3") /\ UNCHANGED sess
  /\ UNCHANGED <<jobq, ongoing, sem, mgr, call, inprogress, omx, cb, ghosts, fails, created>>

\* OMX_FreeHandle ends the callbacks.
FreeHandle ==
  /\ Is("des3") /\ Unlocked(run.s)
  /\ omx' = [omx EXCEPT ![run.s] = Unloaded]
  /\ inprogress' = IF inprogress = run.s THEN none ELSE inprogress
  /\ sess' = [sess EXCEPT ![run.s] = Closed]
  /\ GoTo("return")
  /\ UNCHANGED <<jobq, ongoing, sem, mgr, call, cb, ghosts, fails, created>>

-----------------------------------------------------------------------------
(* The job manager's thread. *)

ManagerWakes ==
  /\ mgr = "wait" /\ sem > 0
  /\ mgr' = "check" /\ sem' = sem - 1
  /\ UNCHANGED <<jobq, ongoing, call, run, sess, inprogress, omx, cb, ghosts, fails, created>>

\* Mutant: jobs under way are not counted.
ManagerChecksNot ==
  /\ mgr = "check" /\ mgr' = "lock"
  /\ UNCHANGED <<jobq, ongoing, sem, call, run, sess, inprogress, omx, cb, ghosts, fails, created>>

\* With a job ongoing the wakeup is used up.
ManagerChecks ==
  /\ mgr = "check"
  /\ mgr' = IF ongoing # <<>> THEN "wait" ELSE "lock"
  /\ UNCHANGED <<jobq, ongoing, sem, call, run, sess, inprogress, omx, cb, ghosts, fails, created>>

\* It takes job_lock, a job and the handle of its session: without a handle the
\* job goes back to the head of the queue.
ManagerTakes ==
  /\ mgr = "lock" /\ run = Free
  /\ IF jobq = <<>> \/ (jobq # <<>> /\ sess[owner[Head(jobq)]].hq = 0)
       THEN mgr' = "wait" /\ UNCHANGED <<jobq, ongoing, run, sess>>
       ELSE LET j == Head(jobq) s == owner[j] IN
            /\ jobq' = Tail(jobq) /\ ongoing' = Append(ongoing, j)
            /\ sess' = [sess EXCEPT ![s].hq = @ - 1, ![s].job = j, ![s].ref = FALSE]
            /\ run' = [Free EXCEPT !.op = "encode", !.s = s, !.j = j, !.at = "reset"]
            /\ mgr' = "run"
  /\ UNCHANGED <<sem, call, inprogress, omx, cb, ghosts, fails, created>>

\* mm_jpeg_session_encode begins.
Reset ==
  /\ Is("reset") /\ Unlocked(run.s)
  /\ sess' = [sess EXCEPT ![run.s].abort = "none", ![run.s].encoding = FALSE]
  /\ GoTo(IF sess[run.s].config THEN "job" ELSE IF inprogress # none THEN "clear1" ELSE "conf1")
  /\ UNCHANGED <<jobq, ongoing, sem, mgr, call, inprogress, omx, cb, ghosts, fails, created>>

\* Where a failed configuration goes: the job fails, or the call.
Fail == IF run.op = "create" THEN "return" ELSE "fail"
FailAt == run' = [run EXCEPT !.at = Fail]

\* The configuration of another session is cleared.
ClearOther ==
  /\ inprogress # none
  /\ \/ /\ Is("clear1") /\ UNCHANGED inprogress
        /\ IF omx[inprogress].state = "exec" THEN ChangeState(inprogress, "idle", "clear2")
           ELSE GoTo("clear2") /\ UNCHANGED sess
     \/ /\ Is("clear2") /\ UNCHANGED inprogress
        /\ IF ~run.ok THEN FailAt /\ UNCHANGED sess
           ELSE IF omx[inprogress].state = "idle" THEN ChangeState(inprogress, "loaded", "clear3")
           ELSE GoTo("clear3") /\ UNCHANGED sess
     \/ /\ Is("clear3")
        /\ IF ~run.ok THEN FailAt /\ UNCHANGED <<sess, inprogress>>
           ELSE /\ sess' = [sess EXCEPT ![inprogress].config = FALSE]
                /\ inprogress' = none /\ GoTo("conf1")
  /\ UNCHANGED <<jobq, ongoing, sem, mgr, call, omx, cb, ghosts, fails, created>>

\* mm_jpeg_session_configure, for a job or for create_session.
Configure ==
  /\ \/ Is("conf1") /\ ChangeState(run.s, "idle", "conf2") /\ UNCHANGED inprogress
     \/ /\ Is("conf2") /\ UNCHANGED inprogress
        /\ IF run.ok THEN ChangeState(run.s, "exec", "conf3") ELSE FailAt /\ UNCHANGED sess
     \/ /\ Is("conf3")
        /\ IF run.ok THEN /\ sess' = [sess EXCEPT ![run.s].config = TRUE]
                          /\ inprogress' = run.s
                          /\ GoTo(IF run.op = "create" THEN "return" ELSE "job")
           ELSE FailAt /\ UNCHANGED <<sess, inprogress>>
  /\ UNCHANGED <<jobq, ongoing, sem, mgr, call, omx, cb, ghosts, fails, created>>

ConfigureJob ==
  /\ Is("job") /\ Unlocked(run.s)
  /\ \/ MayFail /\ FailAt /\ UNCHANGED sess
     \/ Works /\ GoTo("empty") /\ sess' = [sess EXCEPT ![run.s].encoding = TRUE]
  /\ UNCHANGED <<jobq, ongoing, sem, mgr, call, inprogress, omx, cb, ghosts, created>>

\* Input and output of the job go to the encoder. A failed change of state may
\* have left it with a command: it is on its way to another state.
Ready(s) == omx[s].state = "exec" /\ omx[s].cmd = "none"
EmptyThisBuffer ==
  /\ Is("empty")
  /\ \/ /\ MayFail \/ (~Ready(run.s) /\ Works)
        /\ FailAt /\ UNCHANGED omx
     \/ /\ omx[run.s].state = "exec" /\ (OrderlyEncoder => Ready(run.s)) /\ Works
        /\ GoTo("fill") /\ omx' = [omx EXCEPT ![run.s].work = "in", ![run.s].mem = FALSE]
  /\ UNCHANGED <<jobq, ongoing, sem, mgr, call, sess, inprogress, cb, ghosts, created>>

Started == run' = Free /\ mgr' = "wait"

FillThisBuffer ==
  /\ Is("fill")
  /\ \/ /\ omx[run.s].work = "in" \/ ~OrderlyEncoder
        /\ MayFail /\ FailAt /\ omx' = [omx EXCEPT ![run.s].work = "none"] /\ UNCHANGED mgr
     \/ /\ Works /\ Started
        /\ omx' = IF omx[run.s].work = "in" THEN [omx EXCEPT ![run.s].work = "both"] ELSE omx
  /\ UNCHANGED <<jobq, ongoing, sem, call, sess, inprogress, cb, ghosts, created>>

-----------------------------------------------------------------------------
(* The end of a job, on the manager's thread when it could not be started and *)
(* otherwise on the encoder's.                                                *)

\* The client's callback. A picture takes the output memory with it.
Answer(s, a) ==
  /\ ans' = [ans EXCEPT ![sess[s].job] = a]
  /\ out' = IF a = "done" /\ sess[s].ref THEN [out EXCEPT ![s] = @ - 1] ELSE out

\* Mutant: the session still counts as encoding.
JobDoneEncoding(s, step) ==
  /\ ongoing' = IF step = 1 THEN Without(ongoing, {sess[s].job}) ELSE ongoing
  /\ sess' = IF step = 2 THEN [sess EXCEPT ![s].hq = @ + 1] ELSE sess
  /\ sem' = IF step = 3 THEN sem + 1 ELSE sem

\* mm_jpegenc_job_done: the job leaves, the handle comes back, the manager is woken.
JobDone(s, step) ==
  /\ ongoing' = IF step = 1 THEN Without(ongoing, {sess[s].job}) ELSE ongoing
  /\ sess' = IF step = 1 THEN [sess EXCEPT ![s].encoding = FALSE]
             ELSE IF step = 2 THEN [sess EXCEPT ![s].hq = @ + 1] ELSE sess
  /\ sem' = IF step = 3 THEN sem + 1 ELSE sem

JobFails ==
  /\ Is("fail") /\ Answer(run.s, "error") /\ GoTo("done1")
  /\ UNCHANGED <<jobq, ongoing, sem, mgr, call, sess, inprogress, omx, cb, owner, gone, fails, created>>

FailedJobDone ==
  /\ \/ Is("done1") /\ JobDone(run.s, 1) /\ GoTo("done2") /\ UNCHANGED mgr
     \/ Is("done2") /\ JobDone(run.s, 2) /\ GoTo("done3") /\ UNCHANGED mgr
     \/ Is("done3") /\ JobDone(run.s, 3) /\ Started
  /\ UNCHANGED <<jobq, call, inprogress, omx, cb, ghosts, fails, created>>

\* mm_jpeg_get_mem, called by the encoder without a lock.
GetMem(s) ==
  /\ omx[s].work = "both" /\ ~omx[s].mem
  /\ omx' = [omx EXCEPT ![s].mem = TRUE] /\ out' = [out EXCEPT ![s] = @ + 1]
  /\ sess' = [sess EXCEPT ![s].ref = TRUE]
  /\ UNCHANGED <<jobq, ongoing, sem, mgr, call, run, inprogress, cb, owner, ans, gone, fails, created>>

\* mm_jpeg_fbd: the picture is there. During and after an abort it is dropped.
FillBufferDone(s) ==
  /\ omx[s].work = "both" /\ omx[s].mem /\ Unlocked(s)
  /\ omx' = [omx EXCEPT ![s].work = "none"]
  /\ IF sess[s].abort # "none" THEN UNCHANGED <<cb, ans, out>>
     ELSE Answer(s, "done") /\ cb' = [cb EXCEPT ![s] = <<"fbd", 1>>]
  /\ UNCHANGED <<jobq, ongoing, sem, mgr, call, run, sess, inprogress, owner, gone, fails, created>>

\* A job of s is being given to the encoder or has just been refused by it.
HandedOver(s) == run.s = s /\ run.at \in {"empty", "fail", "done1"} /\ sess[s].encoding

\* mm_jpeg_event_handler with an error: the first event of an abort ends it.
EventError(s) ==
  /\ Unlocked(s) /\ (omx[s].work # "none" \/ omx[s].cmd # "none")
  /\ OrderlyEncoder => sess[s].abort # "done" /\ ~HandedOver(s)
  /\ MayFail
  /\ omx' = [omx EXCEPT ![s].work = "none", ![s].cmd = IF omx[s].work = "none" THEN "none" ELSE @]
  /\ \/ /\ sess[s].abort = "init"
        /\ sess' = [sess EXCEPT ![s].abort = "done"]
        /\ run' = Signalled(run, s) /\ UNCHANGED <<cb, ans, out>>
     \/ /\ sess[s].abort # "init" /\ sess[s].encoding
        /\ sess' = [sess EXCEPT ![s].error = TRUE]
        /\ Answer(s, "error") /\ cb' = [cb EXCEPT ![s] = <<"error", 1>>] /\ UNCHANGED run
     \/ /\ sess[s].abort # "init" /\ ~sess[s].encoding
        /\ sess' = [sess EXCEPT ![s].error = TRUE]
        /\ run' = Signalled(run, s) /\ UNCHANGED <<cb, ans, out>>
  /\ UNCHANGED <<jobq, ongoing, sem, mgr, call, inprogress, owner, gone, created>>

\* ... with a change of state that is complete. Going idle ends the work.
EventCmdComplete(s) ==
  /\ omx[s].cmd # "none" /\ Unlocked(s)
  /\ omx[s].bufs = (omx[s].cmd # "loaded")
  /\ omx' = [omx EXCEPT ![s].state = omx[s].cmd, ![s].cmd = "none",
                        ![s].work = IF omx[s].cmd = "idle" THEN "none" ELSE @]
  /\ sess' = IF sess[s].abort = "init" THEN [sess EXCEPT ![s].abort = "done"]
             ELSE [sess EXCEPT ![s].pending = FALSE]
  /\ run' = IF sess[s].abort = "init" \/ sess[s].pending THEN Signalled(run, s) ELSE run
  /\ UNCHANGED <<jobq, ongoing, sem, mgr, call, inprogress, cb, ghosts, fails, created>>

\* The rest of a callback, under the session's lock. At its end the picture's
\* memory is the HAL's; an error wakes who waits.
CallbackGoesOn(s) ==
  /\ \E kind \in {"fbd", "error"}, step \in 1..2 :
       /\ cb[s] = <<kind, step>> /\ JobDone(s, step)
       /\ cb' = [cb EXCEPT ![s] = <<kind, step + 1>>]
  /\ UNCHANGED <<jobq, mgr, call, run, inprogress, omx, ghosts, fails, created>>

CallbackEnds(s) ==
  /\ cb[s][2] = 3 /\ sem' = sem + 1
  /\ cb' = [cb EXCEPT ![s] = Quiet]
  /\ IF cb[s][1] = "fbd" THEN sess' = [sess EXCEPT ![s].ref = FALSE] /\ UNCHANGED run
     ELSE run' = Signalled(run, s) /\ UNCHANGED sess
  /\ UNCHANGED <<jobq, ongoing, mgr, call, inprogress, omx, ghosts, fails, created>>

-----------------------------------------------------------------------------

Client(s) ==
  \/ CreateSession(s) \/ DestroySession(s)
  \/ \E j \in Job : StartJob(s, j) \/ AbortJob(s, j)

Holder ==
  \/ Return \/ SendCommand \/ AfterSend \/ Woken
  \/ AbortInit \/ AbortCommand \/ AbortWait \/ Unload \/ FreeHandle
  \/ Reset \/ ClearOther \/ Configure \/ ConfigureJob \/ EmptyThisBuffer \/ FillThisBuffer
  \/ JobFails \/ FailedJobDone

Encoder(s) ==
  \/ GetMem(s) \/ FillBufferDone(s) \/ EventCmdComplete(s)
  \/ CallbackGoesOn(s) \/ CallbackEnds(s)

Next ==
  \/ \E s \in Session : Client(s) \/ Encoder(s) \/ EventError(s)
  \/ Begin \/ Holder \/ ManagerWakes \/ ManagerChecks \/ ManagerTakes

\* Threads that can go on do and get job_lock in the end, the encoder finishes
\* what it was given, and a client that has aborted a job goes on to destroy its
\* session.
Fairness ==
  /\ WF_vars(ManagerWakes \/ ManagerChecks \/ ManagerTakes \/ (run.op = "encode" /\ Holder))
  /\ WF_vars(Begin \/ (run.op # "encode" /\ Holder))
  /\ \A s \in Session :
       /\ WF_vars(Encoder(s))
       /\ WF_vars(sess[s].client = "stopping" /\ (DestroySession(s) \/ \E j \in Job : AbortJob(s, j)))

Spec == Init /\ [][Next]_vars /\ Fairness

-----------------------------------------------------------------------------

TypeOK ==
  /\ jobq \in Seq(Job) /\ ongoing \in Seq(Job) /\ Len(ongoing) <= 1
  /\ sem \in Nat /\ mgr \in {"wait", "check", "lock", "run"}
  /\ \A s \in Session : /\ sess[s].hq \in 0..1 /\ sess[s].abort \in {"none", "init", "done"}
                        /\ omx[s].state \in {"loaded", "idle", "exec"} /\ out[s] \in 0..MaxJob

\* A client is told of a job once, and not at all when it has aborted the job
\* and the call has returned: the abort, the manager's failure path and the two
\* kinds of callbacks each look at other flags of the session, under other locks.
AnsweredOnce ==
  [][\A j \in Job : ans'[j] # ans[j] => ans[j] = "none" /\ j \notin gone]_vars

\* Output memory the encoder got from the HAL is with the job of its session
\* until it is delivered or released, whichever of picture, abort and next job
\* comes first. (A failed job does not give its memory back: the session keeps it,
\* and forgets it when the next job overwrites encode_job.)
OutputHasOwner ==
  \A s \in Session :
    out[s] > (IF sess[s].ref THEN 1 ELSE 0) => \E j \in Of(s) : ans[j] = "error"

\* Each job is answered or aborted, although wakeups of the manager are used up
\* by jobs under way and an abort gives none; and each call returns, although
\* it waits for events of the encoder without a timeout.
EveryJobEnds ==
  /\ \A j \in Job : owner[j] # none ~> ans[j] # "none" \/ j \in gone
  /\ call # NoCall ~> call = NoCall
=============================================================================
