---------------------------- MODULE MmJpegProofs ----------------------------
(***************************************************************************)
(* Safety of MmJpeg for any sessions, jobs and failures, with an orderly   *)
(* encoder.                                                                *)
(***************************************************************************)
EXTENDS MmJpeg, SelectionTheorems

States == {"loaded", "idle", "exec"}
Preparing == {"clear1", "clear2", "clear3", "conf1", "conf2", "conf3", "job"}
Unloading == {"des1", "des2", "des3", "return"}
AbortSteps == {"ab1", "ab2", "ab3", "abwait", "abwoken"}
StepsOf(op) ==
  CASE op = "none" -> {"free"}
    [] op = "create" -> {"conf1", "conf2", "conf3", "return"}
    [] op = "abort" -> AbortSteps \cup {"return"}
    [] op = "destroy" -> AbortSteps \cup Unloading
    [] op = "encode" -> Preparing \cup {"reset", "empty", "fill", "fail", "done1", "done2", "done3"}

SessionType ==
  [client : {"none", "new", "open", "stopping", "bad"}, config : BOOLEAN, hq : 0..1,
   encoding : BOOLEAN, abort : {"none", "init", "done"}, pending : BOOLEAN,
   error : BOOLEAN, job : 0..MaxJob, ref : BOOLEAN]
EncoderType ==
  [state : States, cmd : States \cup {"none"}, bufs : BOOLEAN,
   work : {"none", "in", "both"}, mem : BOOLEAN]
CallType == [op : {"none", "create", "abort", "destroy"}, s : Session \cup {none}, j : 0..MaxJob]
RunType ==
  [op : {"none", "create", "abort", "destroy", "encode"}, s : Session \cup {none},
   j : 0..MaxJob, at : AbortSteps \cup Unloading \cup Preparing
                       \cup {"free", "reset", "empty", "fill", "fail", "done1", "done2", "done3"},
   cs : {"none", "send", "sent", "wait", "woken"}, t : Session \cup {none},
   to : States \cup {"none"}, from : States \cup {"none"}, ok : BOOLEAN]

Types ==
  /\ jobq \in Seq(Job) /\ ongoing \in Seq(Job) /\ Len(ongoing) <= 1
  /\ sem \in Nat /\ mgr \in {"wait", "check", "lock", "run"}
  /\ call \in CallType /\ run \in RunType
  /\ sess \in [Session -> SessionType] /\ omx \in [Session -> EncoderType]
  /\ cb \in [Session -> ({"fbd", "error"} \X (1..3)) \cup {Quiet}]
  /\ owner \in [Job -> Session \cup {none}] /\ ans \in [Job -> {"none", "done", "error"}]
  /\ gone \in SUBSET Job /\ out \in [Session -> Nat] /\ inprogress \in Session \cup {none}

\* Where the holder of job_lock can be, and the changes of state it makes.
RunOK ==
  /\ run.at \in StepsOf(run.op)
  /\ run.op # "none" => run.s \in Session
  /\ run.op = "none" => run = Free
  /\ run.cs # "none" => /\ run.at \in {"conf2", "conf3", "clear2", "clear3", "des2", "des3"}
                        /\ run.t \in Session /\ run.to \in States
                        /\ run.op # "encode" => run.t = run.s

Finished(j) == ans[j] # "none" \/ j \in gone
Has(q, j) == \E i \in DOMAIN q : q[i] = j
Waiting(j) == Has(jobq, j)
Underway(j) == Has(ongoing, j)

\* The call that has or wants job_lock.
CallOK ==
  /\ call.op = "none" => call = NoCall
  /\ call.op # "none" => call.s \in Session
  /\ run.op \in {"create", "abort", "destroy"} => call.op = run.op /\ call.s = run.s /\ call.j = run.j
  /\ call.op = "create" => sess[call.s].client = "new"
  /\ call.op = "abort" => call.j \in Job /\ owner[call.j] = call.s /\ call.j \notin gone
  /\ call.op = "destroy" => \A j \in Of(call.s) : Finished(j)
  /\ run.op = "destroy" => \A j \in Job : Underway(j) => owner[j] # run.s
  /\ run.op = "abort" => ~Waiting(run.j) /\ ~Underway(run.j)
  /\ run.op = "abort" /\ run.at \in AbortSteps => sess[run.s].job = run.j
  /\ run.op = "encode" => sess[run.s].client \in {"open", "stopping"}

\* Jobs that wait and the one that is under way.
QueueOK ==
  /\ mgr = "lock" => ongoing = <<>>
  /\ \A j \in Job : owner[j] = none => ans[j] = "none" /\ j \notin gone
  /\ \A j \in Job : Waiting(j) => owner[j] \in Session /\ ~Finished(j) /\ ~Underway(j)
                                  /\ sess[owner[j]].client \in {"open", "stopping"}
  /\ \A j \in Job : Underway(j) => owner[j] \in Session /\ sess[owner[j]].job = j /\ j \notin gone
                                   /\ sess[owner[j]].client \in {"open", "stopping"}
  /\ \A i, k \in DOMAIN jobq : jobq[i] = jobq[k] => i = k
  /\ \A s \in Session : sess[s].job # 0 => owner[sess[s].job] = s

\* What the holder of job_lock is doing with session s.
Stage(s) ==
  IF run.s # s \/ run.op \in {"none", "create"} \/ (run.op = "abort" /\ run.at = "return") THEN "other"
  ELSE IF run.at \in Preparing THEN "prepare"
  ELSE IF run.at \in {"ab2", "ab3"} THEN "abort"
  ELSE IF run.at \in Unloading THEN "unload"
  ELSE run.at

Unanswered(s) == sess[s].job \in Job /\ ans[sess[s].job] = "none"
\* The session has output memory for a job whose client has not heard of it.
Held(s) == sess[s].ref /\ Unanswered(s)
Failed(s) == {j \in Of(s) : ans[j] = "error"}

\* The encoder of s has work: the session's job, which nobody has ended.
WorkOK(s) == omx[s].work # "none" =>
  /\ sess[s].hq = 0 /\ Unanswered(s) /\ sess[s].job \notin gone
  /\ cb[s] = Quiet /\ sess[s].encoding /\ sess[s].abort # "done"
  /\ Underway(sess[s].job) \/ Stage(s) \in {"ab1", "abort", "abwait"}
  /\ omx[s].cmd # "none" => sess[s].abort = "init" /\ omx[s].cmd = "idle"
  /\ omx[s].work = "in" => Stage(s) = "fill"
  /\ omx[s].work = "both" => Stage(s) \in {"other", "ab1", "abort", "abwait"}
  /\ ~omx[s].mem => ~sess[s].ref

\* The manager starts a job of s.
EncodeOK(s) ==
  /\ Stage(s) \in {"reset", "prepare", "empty", "fail", "done1", "done2", "done3"}
       => omx[s].work = "none"
  /\ Stage(s) = "reset" => cb[s] = Quiet \/ cb[s][2] = 3
  /\ Stage(s) \in {"prepare", "empty", "fail", "done1", "done2", "done3"} => cb[s] = Quiet
  /\ Stage(s) \in {"reset", "prepare", "empty", "fail", "done1", "done2"} => sess[s].hq = 0
  /\ Stage(s) \in {"reset", "prepare", "empty", "fail"} => Unanswered(s) /\ Underway(sess[s].job)
  /\ Stage(s) \in {"prepare", "empty"} => sess[s].abort = "none"
  /\ Stage(s) \in {"reset", "prepare", "empty"} => ~sess[s].ref
  /\ Stage(s) = "empty" => sess[s].encoding

CallbackOK(s) == cb[s] # Quiet =>
  /\ cb[s][2] \in {1, 2} => sess[s].hq = 0
  /\ ~Held(s) /\ sess[s].abort # "init"

AbortOK(s) ==
  /\ sess[s].abort = "init" => Stage(s) \in {"abort", "abwait"}
  /\ Stage(s) \in {"abort", "abwait", "abwoken"} => cb[s] = Quiet /\ sess[s].abort # "none"
  /\ Stage(s) = "abwait" => sess[s].abort = "init"
  /\ Stage(s) = "abwoken" => sess[s].abort = "done"
  /\ Stage(s) = "unload" => omx[s].work = "none" /\ ~Held(s)

MemoryOK(s) ==
  /\ Held(s) => sess[s].hq = 0 /\ (omx[s].work = "both" \/ Stage(s) \in {"abort", "abwait", "abwoken"})
  /\ sess[s].ref /\ cb[s][1] # "fbd" => out[s] >= 1
  /\ out[s] <= Cardinality(Failed(s)) + (IF Held(s) THEN 1 ELSE 0)

FreshOK(s) == sess[s].client \in {"none", "new"} =>
  omx[s].work = "none" /\ cb[s] = Quiet /\ sess[s].job = 0

SessionOK(s) == WorkOK(s) /\ EncodeOK(s) /\ CallbackOK(s) /\ AbortOK(s) /\ MemoryOK(s) /\ FreshOK(s)
Sessions == \A s \in Session : SessionOK(s)

\* A session that encodes has an encoder at work, unless its callback has not
\* begun to end the job or the manager is starting it or failing to.
HandOver == {"empty", "fail", "done1"}
EncodingOK(s) ==
  sess[s].encoding /\ sess[s].abort = "none" /\ omx[s].work = "none"
    => cb[s][2] = 1 \/ (run.s = s /\ run.at \in HandOver)
Encodings == \A s \in Session : EncodingOK(s)

\* The inductive invariant, with Encodings.
Inv == Types /\ RunOK /\ CallOK /\ QueueOK /\ Sessions

-----------------------------------------------------------------------------
(* What a step leaves alone. *)

KeepsSession(t) ==
  /\ sess'[t].hq = sess[t].hq /\ sess'[t].encoding = sess[t].encoding
  /\ sess'[t].abort = sess[t].abort /\ sess'[t].job = sess[t].job /\ sess'[t].ref = sess[t].ref
  /\ sess'[t].client \in {"none", "new"} => sess[t].client \in {"none", "new"}
KeepsEncoder(t) ==
  /\ omx'[t].work = omx[t].work /\ omx'[t].mem = omx[t].mem
  /\ omx[t].work # "none" => omx'[t].cmd = omx[t].cmd
KeepsJob(t) ==
  /\ Unanswered(t)' <=> Unanswered(t)
  /\ omx[t].work # "none" /\ sess[t].job \notin gone => sess[t].job \notin gone'
  /\ Underway(sess[t].job) => Underway(sess[t].job)'
  /\ Failed(t)' = Failed(t)
Keeps(t) ==
  /\ KeepsSession(t) /\ KeepsEncoder(t) /\ KeepsJob(t)
  /\ cb'[t] = cb[t] /\ out'[t] = out[t] /\ Stage(t)' = Stage(t)

\* A session nothing of which is touched keeps its part of the invariant.
LEMMA SessionKept ==
  ASSUME NEW t \in Session, SessionOK(t), Keeps(t)
  PROVE  SessionOK(t)'
<1>1. KeepsSession(t) /\ KeepsEncoder(t) /\ cb'[t] = cb[t] /\ out'[t] = out[t]
  BY DEF Keeps
<1>2. (Unanswered(t)' <=> Unanswered(t)) /\ (Held(t)' <=> Held(t))
  BY <1>1 DEF Keeps, KeepsJob, KeepsSession, Held
<1>3. Failed(t)' = Failed(t)
  BY DEF Keeps, KeepsJob
<1>4. Stage(t)' = Stage(t)
  BY DEF Keeps
<1>5. Underway(sess[t].job) => Underway(sess[t].job)'
  BY DEF Keeps, KeepsJob
<1>6. omx[t].work # "none" /\ sess[t].job \notin gone => sess[t].job \notin gone'
  BY DEF Keeps, KeepsJob
<1>7. WorkOK(t)'
  BY <1>1, <1>2, <1>4, <1>5, <1>6 DEF SessionOK, WorkOK, KeepsSession, KeepsEncoder
<1>8. EncodeOK(t)'
  BY <1>1, <1>2, <1>4, <1>5 DEF SessionOK, EncodeOK, KeepsSession, KeepsEncoder
<1>9. CallbackOK(t)'
  BY <1>1, <1>2 DEF SessionOK, CallbackOK, KeepsSession
<1>10. AbortOK(t)'
  BY <1>1, <1>2, <1>4 DEF SessionOK, AbortOK, KeepsSession, KeepsEncoder
<1>11. MemoryOK(t)'
  BY <1>1, <1>2, <1>3, <1>4 DEF SessionOK, MemoryOK, KeepsSession, KeepsEncoder
<1>12. FreshOK(t)'
  BY <1>1 DEF SessionOK, FreshOK, KeepsSession, KeepsEncoder
<1> QED
  BY <1>7, <1>8, <1>9, <1>10, <1>11, <1>12 DEF SessionOK

KeepsClients == \A t \in Session : sess'[t].client = sess[t].client /\ sess'[t].job = sess[t].job

\* Queues and owners are left alone, and so are the answers of waiting jobs.
LEMMA QueueKept ==
  ASSUME QueueOK, owner \in [Job -> Session \cup {none}], KeepsClients,
         UNCHANGED <<jobq, ongoing, owner, gone>>,
         \A j \in Job : ans'[j] # ans[j] => owner[j] # none /\ ~Waiting(j),
         mgr' = "lock" => mgr = "lock" \/ ongoing = <<>>
  PROVE  QueueOK'
<1>1. jobq' = jobq /\ ongoing' = ongoing /\ owner' = owner /\ gone' = gone
  OBVIOUS
<1>2. \A j \in Job : /\ Waiting(j)' <=> Waiting(j)
                     /\ Underway(j)' <=> Underway(j)
                     /\ Waiting(j) => (Finished(j)' <=> Finished(j))
  BY <1>1 DEF Waiting, Underway, Finished
<1>3. \A j \in Job : owner[j] \in Session =>
        sess'[owner[j]].client = sess[owner[j]].client /\ sess'[owner[j]].job = sess[owner[j]].job
  BY DEF KeepsClients
<1>4. \A s \in Session : sess'[s].job = sess[s].job
  BY DEF KeepsClients
<1> QED
  BY <1>1, <1>2, <1>3, <1>4 DEF QueueOK

\* The call goes on.
LEMMA CallKept ==
  ASSUME CallOK, KeepsClients,
         UNCHANGED <<jobq, ongoing, owner, gone, call>>,
         \A j \in Job : ans[j] # "none" => ans'[j] # "none",
         run'.op = run.op, run'.s = run.s, run'.j = run.j,
         run.op = "abort" /\ run'.at \in AbortSteps => run.at \in AbortSteps,
         RunOK
  PROVE  CallOK'
<1>1. \A j \in Job : /\ Waiting(j)' <=> Waiting(j)
                     /\ Underway(j)' <=> Underway(j)
                     /\ Finished(j) => Finished(j)'
  BY DEF Waiting, Underway, Finished
<1>2. Waiting(run.j)' = Waiting(run.j) /\ Underway(run.j)' = Underway(run.j)
  BY DEF Waiting, Underway
<1>3. \A s : Of(s)' = Of(s) /\ \A j \in Of(s) : Finished(j) => Finished(j)'
  BY <1>1 DEF Of
<1>4. call.op # "none" => sess'[call.s].client = sess[call.s].client
  BY DEF CallOK, KeepsClients
<1>5. run.op # "none" => sess'[run.s].job = sess[run.s].job /\ sess'[run.s].client = sess[run.s].client
  BY DEF RunOK, KeepsClients
<1> QED
  BY <1>1, <1>2, <1>3, <1>4, <1>5 DEF CallOK

\* So it keeps its job while no answer is given and no queue changes.
LEMMA JobKept ==
  ASSUME NEW t \in Session, sess'[t].job = sess[t].job, UNCHANGED <<ongoing, owner, ans, gone>>
  PROVE  KeepsJob(t)
<1>1. Unanswered(t)' <=> Unanswered(t)
  BY DEF Unanswered
<1>2. Failed(t)' = Failed(t)
  BY DEF Failed, Of
<1>3. Underway(sess[t].job) => Underway(sess[t].job)'
  BY DEF Underway
<1> QED
  BY <1>1, <1>2, <1>3 DEF KeepsJob

\* A step of the holder that the sessions do not notice.
LEMMA HolderGoesOn ==
  ASSUME Inv, Types', RunOK', KeepsClients,
         UNCHANGED <<jobq, ongoing, mgr, call, cb, owner, ans, gone, out>>,
         run'.op = run.op, run'.s = run.s, run'.j = run.j,
         run.op = "abort" /\ run'.at \in AbortSteps => run.at \in AbortSteps,
         \A t \in Session : KeepsSession(t) /\ KeepsEncoder(t) /\ Stage(t)' = Stage(t)
  PROVE  Inv'
<1>1. QueueOK'
  <2>1. QueueOK /\ owner \in [Job -> Session \cup {none}] /\ mgr' = mgr
    BY DEF Inv, Types
  <2> QED
    BY <2>1, QueueKept
<1>2. CallOK'
  BY CallKept DEF Inv
<1>3. ASSUME NEW t \in Session PROVE SessionOK(t)'
  <2>1. KeepsJob(t)
    BY JobKept DEF KeepsClients
  <2>2. Keeps(t)
    BY <2>1 DEF Keeps
  <2> QED
    BY <2>2, SessionKept DEF Inv, Sessions
<1> QED
  BY <1>1, <1>2, <1>3 DEF Inv, Sessions

\* No other session has work while the manager starts a job, and the session
\* itself has none while its state is changed.
LEMMA NoWorkThen ==
  ASSUME Inv, run.cs # "none"
  PROVE  run.t \in Session /\ omx[run.t].work = "none"
<1>1. /\ run.t \in Session /\ run.s \in Session
      /\ run.at \in {"conf2", "conf3", "clear2", "clear3", "des2", "des3"}
      /\ run.op # "encode" => run.t = run.s
      /\ run.at \in StepsOf(run.op) /\ run.op # "none"
  BY DEF Inv, RunOK, Free
<1>2. run.op \in {"create", "destroy", "encode"}
  BY <1>1 DEF StepsOf, AbortSteps, Inv, Types, RunType
<1>3. SessionOK(run.t) /\ SessionOK(run.s)
  BY <1>1 DEF Inv, Sessions
<1>4. CASE run.op = "create"
  <2>1. sess[run.s].client = "new"
    BY <1>4 DEF Inv, CallOK
  <2> QED
    BY <1>1, <1>3, <1>4, <2>1 DEF SessionOK, FreshOK
<1>5. CASE run.op = "destroy"
  <2>1. Stage(run.s) = "unload"
    BY <1>1, <1>5 DEF Stage, Unloading, StepsOf, Preparing, AbortSteps
  <2> QED
    BY <1>1, <1>3, <1>5, <2>1 DEF SessionOK, AbortOK
<1>6. CASE run.op = "encode"
  <2>1. Stage(run.s) = "prepare"
    BY <1>1, <1>6 DEF Stage, Preparing, StepsOf
  <2>2. Underway(sess[run.s].job) /\ Unanswered(run.s) /\ omx[run.s].work = "none"
    BY <1>3, <2>1 DEF SessionOK, EncodeOK
  <2>3. SUFFICES ASSUME run.t # run.s, omx[run.t].work # "none" PROVE FALSE
    BY <1>1, <2>2
  <2>4. Stage(run.t) = "other"
    BY <2>3 DEF Stage
  <2>5. Underway(sess[run.t].job) /\ Unanswered(run.t)
    BY <1>3, <2>3, <2>4 DEF SessionOK, WorkOK
  <2>6. sess[run.t].job = sess[run.s].job
    BY <2>2, <2>5 DEF Underway, Has, Inv, Types
  <2>7. owner[sess[run.t].job] = run.t /\ owner[sess[run.s].job] = run.s
    BY <1>1, <2>2, <2>5 DEF Inv, QueueOK, Unanswered, Job
  <2> QED
    BY <2>3, <2>6, <2>7
<1> QED
  BY <1>1, <1>2, <1>4, <1>5, <1>6

-----------------------------------------------------------------------------
(* Steps of the holder that the sessions do not notice. *)

\* A change of state goes on, or leaves with its result: only cs and ok change.
LEMMA ChangeGoesOn ==
  ASSUME run \in RunType, NEW c \in {"none", "send", "sent", "wait", "woken"}, NEW b \in BOOLEAN,
         run' = [run EXCEPT !.cs = c] \/ run' = [run EXCEPT !.cs = c, !.ok = b]
  PROVE  /\ run'.op = run.op /\ run'.s = run.s /\ run'.j = run.j /\ run'.at = run.at
         /\ run'.cs = c /\ run'.t = run.t /\ run'.to = run.to /\ run' \in RunType
<1>1. run' = [run EXCEPT !.cs = c, !.ok = b] \/ run' = [run EXCEPT !.cs = c, !.ok = run.ok]
  BY DEF RunType
<1>2. PICK d \in BOOLEAN : run' = [run EXCEPT !.cs = c, !.ok = d]
  <2>1. run.ok \in BOOLEAN
    BY DEF RunType
  <2> QED
    BY <1>1, <2>1
<1>3. /\ run'.op = run.op /\ run'.s = run.s /\ run'.j = run.j /\ run'.at = run.at
      /\ run'.cs = c /\ run'.t = run.t /\ run'.to = run.to
  BY <1>2 DEF RunType
<1>4. run' \in RunType
  BY <1>2 DEF RunType
<1> QED
  BY <1>3, <1>4

\* A command to an encoder without work leaves the work of all.
LEMMA EncoderCommand ==
  ASSUME Inv, NEW t \in Session, omx[t].work = "none", NEW c \in States \cup {"none"},
         omx' = omx \/ omx' = [omx EXCEPT ![t].cmd = c]
  PROVE  omx' \in [Session -> EncoderType] /\ \A u \in Session : KeepsEncoder(u)
<1>1. omx \in [Session -> EncoderType] /\ omx[t] \in EncoderType
  BY DEF Inv, Types
<1>2. CASE omx' = omx
  BY <1>1, <1>2 DEF KeepsEncoder
<1>3. CASE omx' = [omx EXCEPT ![t].cmd = c]
  <2>1. omx' = [omx EXCEPT ![t] = [omx[t] EXCEPT !.cmd = c]]
    BY <1>3
  <2> DEFINE e == [omx[t] EXCEPT !.cmd = c]
  <2>2. e \in EncoderType /\ e.work = omx[t].work /\ e.mem = omx[t].mem
    BY <1>1 DEF EncoderType
  <2> HIDE DEF e
  <2>3. omx' \in [Session -> EncoderType]
    BY <1>1, <2>1, <2>2 DEF e
  <2>4. omx'[t] = e /\ \A u \in Session : u # t => omx'[u] = omx[u]
    BY <1>1, <2>1 DEF e
  <2> QED
    BY <2>2, <2>3, <2>4 DEF KeepsEncoder
<1> QED
  BY <1>2, <1>3

\* So does the allocation of an encoder's buffers.
LEMMA EncoderBuffers ==
  ASSUME Inv, NEW t \in Session, NEW b \in BOOLEAN, omx' = [omx EXCEPT ![t].bufs = b]
  PROVE  omx' \in [Session -> EncoderType] /\ \A u \in Session : KeepsEncoder(u)
<1>1. omx \in [Session -> EncoderType] /\ omx[t] \in EncoderType
  BY DEF Inv, Types
<1>2. omx' = [omx EXCEPT ![t] = [omx[t] EXCEPT !.bufs = b]]
  OBVIOUS
<1> DEFINE e == [omx[t] EXCEPT !.bufs = b]
<1>3. e \in EncoderType /\ e.work = omx[t].work /\ e.mem = omx[t].mem /\ e.cmd = omx[t].cmd
  BY <1>1 DEF EncoderType
<1> HIDE DEF e
<1>4. omx' \in [Session -> EncoderType]
  BY <1>1, <1>2, <1>3 DEF e
<1>5. omx'[t] = e /\ \A u \in Session : u # t => omx'[u] = omx[u]
  BY <1>1, <1>2 DEF e
<1> QED
  BY <1>3, <1>4, <1>5 DEF KeepsEncoder

\* The command of a change of state is sent, or fails to be.
LEMMA SendCommandInv == ASSUME Inv, SendCommand PROVE Inv'
<1> USE DEF SendCommand, ghosts
<1>1. /\ run'.op = run.op /\ run'.s = run.s /\ run'.j = run.j /\ run'.at = run.at
      /\ run'.cs \in {"none", "sent"} /\ run'.t = run.t /\ run'.to = run.to
      /\ run' \in RunType /\ run.cs # "none"
  <2>1. run \in RunType
    BY DEF Inv, Types
  <2>2. \/ run' = [run EXCEPT !.cs = "none", !.ok = FALSE]
        \/ run' = [run EXCEPT !.cs = "sent"]
    BY DEF Leave
  <2>3. CASE run' = [run EXCEPT !.cs = "none", !.ok = FALSE]
    BY <2>1, <2>3, ChangeGoesOn
  <2>4. CASE run' = [run EXCEPT !.cs = "sent"]
    BY <2>1, <2>4, ChangeGoesOn
  <2> QED
    BY <2>2, <2>3, <2>4
<1>2. run.t \in Session /\ omx[run.t].work = "none" /\ run.to \in States
  BY <1>1, NoWorkThen DEF Inv, RunOK
<1>3. omx' \in [Session -> EncoderType] /\ \A t \in Session : KeepsEncoder(t)
  <2>1. omx' = omx \/ omx' = [omx EXCEPT ![run.t].cmd = run.to]
    OBVIOUS
  <2> QED
    BY <1>2, <2>1, EncoderCommand
<1>4. Types'
  BY <1>1, <1>3 DEF Inv, Types
<1>5. RunOK'
  BY <1>1, <1>2 DEF Inv, RunOK, Free
<1>6. \A t \in Session : KeepsSession(t) /\ Stage(t)' = Stage(t)
  BY <1>1 DEF KeepsSession, Stage
<1> QED
  BY <1>1, <1>3, <1>4, <1>5, <1>6, HolderGoesOn DEF KeepsClients

LEMMA AfterSendInv == ASSUME Inv, AfterSend PROVE Inv'
<1> USE DEF AfterSend, ghosts
<1>0. (\E ok \in BOOLEAN : Leave(ok)) \/ run' = [run EXCEPT !.cs = "wait"]
  OBVIOUS
<1>1. /\ run'.op = run.op /\ run'.s = run.s /\ run'.j = run.j /\ run'.at = run.at
      /\ run'.cs \in {"none", "wait"} /\ run'.t = run.t /\ run'.to = run.to
      /\ run' \in RunType /\ run.cs # "none"
  <2>1. run \in RunType
    BY DEF Inv, Types
  <2>2. ASSUME NEW ok \in BOOLEAN, Leave(ok)
        PROVE  /\ run'.op = run.op /\ run'.s = run.s /\ run'.j = run.j /\ run'.at = run.at
               /\ run'.cs = "none" /\ run'.t = run.t /\ run'.to = run.to /\ run' \in RunType
    <3>1. run' = [run EXCEPT !.cs = "none", !.ok = ok]
      BY <2>2 DEF Leave
    <3> QED
      BY <2>1, <3>1, ChangeGoesOn
  <2>3. CASE run' = [run EXCEPT !.cs = "wait"]
    BY <2>1, <2>3, ChangeGoesOn
  <2> QED
    BY <1>0, <2>2, <2>3
<1>2. run.t \in Session /\ omx[run.t].work = "none"
  BY <1>1, NoWorkThen
<1>3. omx' \in [Session -> EncoderType] /\ \A t \in Session : KeepsEncoder(t)
  <2>1. omx' = omx \/ \E b \in BOOLEAN : omx' = [omx EXCEPT ![run.t].bufs = b]
    <3>1. omx[run.t].bufs \in BOOLEAN
      BY <1>2 DEF Inv, Types, EncoderType
    <3>2. \A b : [omx EXCEPT ![run.t].bufs = b] = [omx EXCEPT ![run.t] = [omx[run.t] EXCEPT !.bufs = b]]
      OBVIOUS
    <3> QED
      BY <3>1, <3>2
  <2> QED
    BY <1>2, <2>1, EncoderCommand, EncoderBuffers
<1>4. Types'
  BY <1>1, <1>3 DEF Inv, Types
<1>5. RunOK'
  BY <1>1, <1>2 DEF Inv, RunOK, Free
<1>6. \A t \in Session : KeepsSession(t) /\ Stage(t)' = Stage(t)
  BY <1>1 DEF KeepsSession, Stage
<1> QED
  BY <1>1, <1>3, <1>4, <1>5, <1>6, HolderGoesOn DEF KeepsClients

LEMMA WokenInv == ASSUME Inv, Woken PROVE Inv'
<1> USE DEF Woken, ghosts
<1>1. /\ run'.op = run.op /\ run'.s = run.s /\ run'.j = run.j /\ run'.at = run.at
      /\ run'.cs = "none" /\ run'.t = run.t /\ run'.to = run.to
      /\ run' \in RunType /\ run.cs # "none"
  <2>1. run \in RunType /\ run' = [run EXCEPT !.cs = "none", !.ok = TRUE]
    BY DEF Inv, Types, Leave
  <2> QED
    BY <2>1, ChangeGoesOn
<1>4. Types'
  BY <1>1 DEF Inv, Types
<1>5. RunOK'
  BY <1>1 DEF Inv, RunOK, Free
<1>6. \A t \in Session : KeepsSession(t) /\ KeepsEncoder(t) /\ Stage(t)' = Stage(t)
  BY <1>1 DEF KeepsSession, KeepsEncoder, Stage
<1> QED
  BY <1>1, <1>4, <1>5, <1>6, HolderGoesOn DEF KeepsClients

\* What a change of state does before the command is sent.
Begins(t, next) ==
  /\ run'.op = run.op /\ run'.s = run.s /\ run'.j = run.j /\ run'.at = next
  /\ run' \in RunType /\ sess' \in [Session -> SessionType]
  /\ run'.cs # "none" => run'.t = t /\ run'.to \in States
  /\ \A u \in Session : KeepsSession(u) /\ sess'[u].client = sess[u].client

\* A change of state starts, or the caller goes on at once: only where the holder is changes.
LEMMA ChangeStateBegins ==
  ASSUME Inv, NEW t \in Session, NEW to \in States, run.cs = "none",
         NEW next \in {"conf2", "conf3", "clear2", "clear3", "des2", "des3"},
         ChangeState(t, to, next)
  PROVE  Begins(t, next)
<1>1. run \in RunType /\ sess \in [Session -> SessionType] /\ omx[t].state \in States
  BY DEF Inv, Types, EncoderType
<1>2. CASE omx[t].state = to
  <2>1. run' = [run EXCEPT !.at = next, !.ok = TRUE] /\ sess' = sess
    BY <1>2 DEF ChangeState, GoTo
  <2>2. /\ run'.op = run.op /\ run'.s = run.s /\ run'.j = run.j /\ run'.at = next
        /\ run'.cs = "none"
    BY <1>1, <2>1 DEF RunType
  <2>3. run' \in RunType
    BY <1>1, <2>1 DEF RunType, Preparing, Unloading
  <2>4. \A u \in Session : KeepsSession(u) /\ sess'[u].client = sess[u].client
    BY <2>1 DEF KeepsSession
  <2>5. sess' \in [Session -> SessionType]
    BY <1>1, <2>1
  <2> QED
    BY <2>2, <2>3, <2>4, <2>5 DEF Begins
<1>3. CASE omx[t].state # to
  <2>1. /\ run' = [run EXCEPT !.at = next, !.ok = TRUE, !.cs = "send",
                             !.t = t, !.to = to, !.from = omx[t].state]
        /\ sess' = [sess EXCEPT ![t].pending = TRUE]
    BY <1>3 DEF ChangeState
  <2>2. /\ run'.op = run.op /\ run'.s = run.s /\ run'.j = run.j /\ run'.at = next
        /\ run' \in RunType /\ run'.t = t /\ run'.to = to
    BY <1>1, <2>1 DEF RunType, Preparing, Unloading
  <2>3. sess' = [sess EXCEPT ![t] = [sess[t] EXCEPT !.pending = TRUE]]
    BY <2>1
  <2>4. [sess[t] EXCEPT !.pending = TRUE] \in SessionType
    BY <1>1 DEF SessionType
  <2>5. sess' \in [Session -> SessionType]
    BY <1>1, <2>3, <2>4
  <2>6. \A u \in Session : KeepsSession(u) /\ sess'[u].client = sess[u].client
    BY <1>1, <2>3 DEF KeepsSession, SessionType
  <2> QED
    BY <2>2, <2>5, <2>6 DEF Begins
<1> QED
  BY <1>2, <1>3

\* So when the holder of job_lock goes on.
LEMMA GoesTo ==
  ASSUME Inv, run.cs = "none", UNCHANGED sess,
         NEW next \in {"conf1", "conf2", "conf3", "clear2", "clear3", "des2", "des3"},
         GoTo(next)
  PROVE  \A t \in Session : Begins(t, next)
<1>1. run \in RunType /\ sess \in [Session -> SessionType]
  BY DEF Inv, Types
<1> QED
  BY <1>1 DEF GoTo, Begins, RunType, Preparing, Unloading, KeepsSession

\* So when the session is marked as configured or not.
LEMMA Configured ==
  ASSUME Inv, run.cs = "none", NEW t \in Session, NEW b \in BOOLEAN,
         sess' = [sess EXCEPT ![t].config = b],
         NEW next \in {"conf1", "job", "return"}, GoTo(next)
  PROVE  Begins(t, next) /\ run'.cs = "none"
<1>1. run \in RunType /\ sess \in [Session -> SessionType]
  BY DEF Inv, Types
<1>2. /\ run'.op = run.op /\ run'.s = run.s /\ run'.j = run.j /\ run'.at = next
      /\ run' \in RunType /\ run'.cs = "none"
  BY <1>1 DEF GoTo, RunType, Preparing, Unloading
<1>3. sess' = [sess EXCEPT ![t] = [sess[t] EXCEPT !.config = b]]
  OBVIOUS
<1>4. [sess[t] EXCEPT !.config = b] \in SessionType
  BY <1>1 DEF SessionType
<1>5. sess' \in [Session -> SessionType]
  BY <1>1, <1>3, <1>4
<1>6. \A u \in Session : KeepsSession(u) /\ sess'[u].client = sess[u].client
  BY <1>1, <1>3 DEF KeepsSession, SessionType
<1> QED
  BY <1>2, <1>5, <1>6 DEF Begins

\* The steps of mm_jpeg_session_destroy.
LEMMA UnloadInv == ASSUME Inv, Unload PROVE Inv'
<1> USE DEF ghosts
<1> DEFINE s == run.s
<1>1. /\ run.cs = "none" /\ run.at \in {"des1", "des2"} /\ s \in Session /\ run.op = "destroy"
      /\ UNCHANGED <<jobq, ongoing, sem, mgr, call, inprogress, omx, cb, ghosts, fails, created>>
  <2>1. /\ run.cs = "none" /\ run.at \in {"des1", "des2"}
        /\ UNCHANGED <<jobq, ongoing, sem, mgr, call, inprogress, omx, cb, ghosts, fails, created>>
    BY DEF Unload, Is
  <2>2. run.at \in StepsOf(run.op) /\ run \in RunType
    BY DEF Inv, RunOK, Types
  <2>3. run.op = "destroy"
    BY <2>1, <2>2 DEF StepsOf, AbortSteps, Preparing, RunType
  <2> QED
    BY <2>1, <2>3 DEF Inv, RunOK
<1>2. PICK next \in {"des2", "des3"} : Begins(s, next)
  <2>1. CASE ChangeState(s, "idle", "des2")
    BY <1>1, <2>1, ChangeStateBegins DEF States
  <2>2. CASE ChangeState(s, "loaded", "des3")
    BY <1>1, <2>2, ChangeStateBegins DEF States
  <2>3. CASE UNCHANGED sess /\ \E next \in {"des2", "des3"} : GoTo(next)
    BY <1>1, <2>3, GoesTo
  <2> QED
    BY <2>1, <2>2, <2>3 DEF Unload
<1>3. Types'
  BY <1>1, <1>2 DEF Inv, Types, Begins
<1>4. RunOK'
  BY <1>1, <1>2 DEF RunOK, Begins, StepsOf, Unloading, AbortSteps
<1>5. \A t \in Session : KeepsSession(t) /\ KeepsEncoder(t) /\ Stage(t)' = Stage(t)
  <2>1. \A t \in Session : Stage(t)' = Stage(t)
    BY <1>1, <1>2 DEF Begins, Stage, Unloading, Preparing
  <2> QED
    BY <1>1, <1>2, <2>1 DEF Begins, KeepsEncoder
<1> QED
  <2>1. /\ run'.op = run.op /\ run'.s = run.s /\ run'.j = run.j /\ KeepsClients
        /\ run.op = "abort" /\ run'.at \in AbortSteps => run.at \in AbortSteps
        /\ UNCHANGED <<jobq, ongoing, mgr, call, cb, owner, ans, gone, out>>
    BY <1>1, <1>2 DEF Begins, KeepsSession, KeepsClients, AbortSteps
  <2> QED
    BY <2>1, <1>3, <1>4, <1>5, HolderGoesOn

\* Nothing but the encoder's configuration, as the sessions see it.
LEMMA PrepareInv ==
  ASSUME Inv, run.op \in {"create", "encode"}, run.s \in Session,
         NEW t \in Session, run.op # "encode" => t = run.s,
         run.at \in Preparing, NEW next \in Preparing, Begins(t, next),
         next \in {"conf2", "conf3", "clear2", "clear3"} \/ run'.cs = "none",
         run.op = "create" => next \in {"conf2", "conf3"},
         UNCHANGED <<jobq, ongoing, sem, mgr, call, omx, cb, ghosts>>,
         inprogress' \in Session \cup {none}
  PROVE  Inv'
<1> USE DEF ghosts
<1>1. Types'
  BY DEF Inv, Types, Begins
<1>2. RunOK'
  BY DEF RunOK, Begins, StepsOf, Preparing
<1>3. \A u \in Session : Stage(u)' = Stage(u)
  BY DEF Begins, Stage, Preparing
<1>4. \A u \in Session : KeepsSession(u) /\ KeepsEncoder(u) /\ Stage(u)' = Stage(u)
  BY <1>3 DEF Begins, KeepsEncoder
<1> QED
  <2>1. /\ run'.op = run.op /\ run'.s = run.s /\ run'.j = run.j /\ KeepsClients
        /\ run.op = "abort" /\ run'.at \in AbortSteps => run.at \in AbortSteps
        /\ UNCHANGED <<jobq, ongoing, mgr, call, cb, owner, ans, gone, out>>
    BY DEF Begins, KeepsSession, KeepsClients, AbortSteps
  <2> QED
    BY <2>1, <1>1, <1>2, <1>4, HolderGoesOn

\* A configuration that fails: the job fails, or create_session returns.
LEMMA ConfigurationFails ==
  ASSUME Inv, run.op \in {"create", "encode"}, run.s \in Session, run.cs = "none",
         run.at \in Preparing \cup {"empty"}, FailAt, UNCHANGED sess,
         UNCHANGED <<jobq, ongoing, sem, mgr, call, omx, cb, ghosts>>,
         inprogress' \in Session \cup {none}
  PROVE  Inv'
<1> USE DEF ghosts
<1>1. /\ run'.op = run.op /\ run'.s = run.s /\ run'.j = run.j /\ run'.cs = "none"
      /\ run' \in RunType
      /\ run'.at = IF run.op = "create" THEN "return" ELSE "fail"
  BY DEF FailAt, Fail, Inv, Types, RunType, Unloading
<1>2. Types'
  BY <1>1 DEF Inv, Types
<1>3. RunOK'
  BY <1>1 DEF RunOK, StepsOf
<1>4. KeepsClients
  BY DEF KeepsClients
<1>5. QueueOK'
  <2>1. QueueOK /\ owner \in [Job -> Session \cup {none}] /\ mgr' = mgr
    BY DEF Inv, Types
  <2> QED
    BY <2>1, <1>4, QueueKept
<1>6. CallOK'
  <2>1. CallOK /\ RunOK /\ run.op # "abort" /\ UNCHANGED <<jobq, ongoing, owner, ans, gone, call>>
    BY DEF Inv
  <2> QED
    BY <2>1, <1>1, <1>4, CallKept
<1>7. ASSUME NEW t \in Session PROVE SessionOK(t)'
  <2>1. KeepsJob(t)
    BY JobKept
  <2>2. KeepsSession(t) /\ KeepsEncoder(t) /\ cb'[t] = cb[t] /\ out'[t] = out[t]
    BY DEF KeepsSession, KeepsEncoder
  <2>3. CASE t # run.s \/ run.op = "create"
    <3>1. Stage(t)' = Stage(t)
      BY <1>1, <2>3 DEF Stage
    <3> QED
      BY <2>1, <2>2, <3>1, SessionKept DEF Keeps, Inv, Sessions
  <2>4. CASE t = run.s /\ run.op = "encode"
    <3>1. Stage(t) \in {"prepare", "empty"} /\ Stage(t)' = "fail"
      BY <1>1, <2>4 DEF Stage, Preparing, Unloading
    <3>2. UNCHANGED <<sess, omx, cb, out, ans, gone, owner, ongoing>>
      OBVIOUS
    <3>3. SessionOK(t)
      BY DEF Inv, Sessions
    <3>4. (Unanswered(t)' <=> Unanswered(t)) /\ (Held(t)' <=> Held(t)) /\ Failed(t)' = Failed(t)
          /\ (Underway(sess[t].job)' <=> Underway(sess[t].job))
      BY <3>2 DEF Unanswered, Held, Failed, Of, Underway
    <3>5. WorkOK(t)' /\ EncodeOK(t)' /\ AbortOK(t)'
      BY <3>1, <3>2, <3>3, <3>4 DEF SessionOK, WorkOK, EncodeOK, AbortOK
    <3>6. CallbackOK(t)' /\ MemoryOK(t)' /\ FreshOK(t)'
      BY <3>1, <3>2, <3>3, <3>4 DEF SessionOK, CallbackOK, MemoryOK, FreshOK
    <3> QED
      BY <3>5, <3>6 DEF SessionOK
  <2> QED
    BY <2>3, <2>4
<1> QED
  BY <1>2, <1>3, <1>5, <1>6, <1>7 DEF Inv, Sessions

\* The steps of mm_jpeg_session_configure.
LEMMA ConfigureInv == ASSUME Inv, Configure PROVE Inv'
<1> DEFINE s == run.s
<1>1. /\ run.cs = "none" /\ run.at \in {"conf1", "conf2", "conf3"}
      /\ UNCHANGED <<jobq, ongoing, sem, mgr, call, omx, cb, ghosts>>
      /\ inprogress' = inprogress \/ inprogress' = s
  BY DEF Configure, Is
<1>2. run.op \in {"create", "encode"} /\ s \in Session /\ run.at \in Preparing
  <2>1. run.at \in StepsOf(run.op) /\ run \in RunType
    BY DEF Inv, RunOK, Types
  <2>2. run.op \in {"create", "encode"}
    BY <1>1, <2>1 DEF StepsOf, AbortSteps, Unloading, RunType
  <2> QED
    BY <1>1, <2>2 DEF Inv, RunOK, Preparing
<1>0. inprogress' \in Session \cup {none}
  BY <1>1, <1>2 DEF Inv, Types
<1>3. CASE \E next \in {"conf2", "conf3"} : Begins(s, next)
  <2>1. PICK next \in {"conf2", "conf3"} : Begins(s, next)
    BY <1>3
  <2>2. next \in Preparing
    BY DEF Preparing
  <2> QED
    BY <1>0, <1>1, <1>2, <2>1, <2>2, PrepareInv
<1>4. CASE FailAt /\ UNCHANGED sess
  BY <1>0, <1>1, <1>2, <1>4, ConfigurationFails
<1>5. CASE Is("conf3") /\ run.ok /\ run.op = "encode"
  <2>1. /\ GoTo("job") /\ sess' = [sess EXCEPT ![s].config = TRUE]
    BY <1>5 DEF Configure, Is
  <2>2. Begins(s, "job") /\ run'.cs = "none"
    BY <1>1, <1>2, <2>1, Configured
  <2>3. "job" \in Preparing
    BY DEF Preparing
  <2> QED
    BY <1>0, <1>1, <1>2, <1>5, <2>2, <2>3, PrepareInv
<1>6. CASE Is("conf3") /\ run.ok /\ run.op = "create"
  <2>1. /\ GoTo("return") /\ sess' = [sess EXCEPT ![s].config = TRUE]
    BY <1>6 DEF Configure, Is
  <2>2. Begins(s, "return") /\ run'.cs = "none"
    BY <1>1, <1>2, <2>1, Configured
  <2>3. Types'
    BY <1>0, <1>1, <2>2 DEF Inv, Types, Begins, ghosts
  <2>4. RunOK'
    BY <1>2, <1>6, <2>2 DEF RunOK, Begins, StepsOf, Preparing
  <2>5. \A u \in Session : KeepsSession(u) /\ KeepsEncoder(u) /\ Stage(u)' = Stage(u)
    BY <1>1, <1>6, <2>2 DEF Begins, KeepsEncoder, Stage
  <2>6. /\ run'.op = run.op /\ run'.s = run.s /\ run'.j = run.j /\ KeepsClients
        /\ run.op = "abort" /\ run'.at \in AbortSteps => run.at \in AbortSteps
        /\ UNCHANGED <<jobq, ongoing, mgr, call, cb, owner, ans, gone, out>>
    BY <1>1, <1>6, <2>2 DEF Begins, KeepsSession, KeepsClients, AbortSteps, ghosts
  <2> QED
    BY <2>3, <2>4, <2>5, <2>6, HolderGoesOn
<1> QED
  <2>1. CASE Is("conf1")
    <3>1. ChangeState(s, "idle", "conf2")
      BY <2>1 DEF Configure, Is
    <3> QED
      BY <1>1, <1>2, <1>3, <3>1, ChangeStateBegins DEF States
  <2>2. CASE Is("conf2")
    <3>1. ChangeState(s, "exec", "conf3") \/ (FailAt /\ UNCHANGED sess)
      BY <2>2 DEF Configure, Is
    <3> QED
      BY <1>1, <1>2, <1>3, <1>4, <3>1, ChangeStateBegins DEF States
  <2>3. CASE Is("conf3")
    <3>1. run.ok \/ (FailAt /\ UNCHANGED sess)
      BY <2>3 DEF Configure, Is
    <3> QED
      BY <1>2, <1>4, <1>5, <1>6, <2>3, <3>1
  <2> QED
    BY <1>1, <2>1, <2>2, <2>3 DEF Is

\* The previous session is cleared before another one encodes.
LEMMA ClearOtherInv == ASSUME Inv, ClearOther PROVE Inv'
<1> DEFINE t == inprogress
<1>1. /\ run.cs = "none" /\ run.at \in {"clear1", "clear2", "clear3"} /\ t # none
      /\ UNCHANGED <<jobq, ongoing, sem, mgr, call, omx, cb, ghosts>>
      /\ inprogress' \in {inprogress, none}
  BY DEF ClearOther, Is
<1>2. run.op = "encode" /\ run.s \in Session /\ run.at \in Preparing
  <2>1. run.at \in StepsOf(run.op) /\ run \in RunType
    BY DEF Inv, RunOK, Types
  <2>2. run.op = "encode"
    BY <1>1, <2>1 DEF StepsOf, AbortSteps, Unloading, RunType
  <2> QED
    BY <1>1, <2>2 DEF Inv, RunOK, Preparing
<1>3. t \in Session
  BY <1>1 DEF Inv, Types
<1>0. inprogress' \in Session \cup {none}
  BY <1>1 DEF Inv, Types
<1>4. CASE \E next \in {"clear2", "clear3"} : Begins(t, next)
  <2>1. PICK next \in {"clear2", "clear3"} : Begins(t, next)
    BY <1>4
  <2>2. next \in Preparing
    BY DEF Preparing
  <2> QED
    BY <1>1, <1>2, <1>3, <1>0, <2>1, <2>2, PrepareInv
<1>5. CASE FailAt /\ UNCHANGED sess
  BY <1>1, <1>2, <1>5, <1>0, ConfigurationFails
<1>6. CASE GoTo("conf1") /\ sess' = [sess EXCEPT ![t].config = FALSE]
  <2>1. Begins(t, "conf1") /\ run'.cs = "none"
    BY <1>1, <1>3, <1>6, Configured
  <2>2. "conf1" \in Preparing
    BY DEF Preparing
  <2> QED
    BY <1>1, <1>2, <1>3, <1>0, <2>1, <2>2, PrepareInv
<1> QED
  <2>1. CASE Is("clear1")
    <3>1. ChangeState(t, "idle", "clear2") \/ (GoTo("clear2") /\ UNCHANGED sess)
      BY <2>1 DEF ClearOther, Is
    <3>2. ChangeState(t, "idle", "clear2") => Begins(t, "clear2")
      BY <1>1, <1>3, ChangeStateBegins DEF States
    <3>3. GoTo("clear2") /\ UNCHANGED sess => Begins(t, "clear2")
      BY <1>1, <1>3, GoesTo
    <3> QED
      BY <1>4, <3>1, <3>2, <3>3
  <2>2. CASE Is("clear2")
    <3>1. \/ ChangeState(t, "loaded", "clear3") \/ (GoTo("clear3") /\ UNCHANGED sess)
          \/ (FailAt /\ UNCHANGED sess)
      BY <2>2 DEF ClearOther, Is
    <3>2. ChangeState(t, "loaded", "clear3") => Begins(t, "clear3")
      BY <1>1, <1>3, ChangeStateBegins DEF States
    <3>3. GoTo("clear3") /\ UNCHANGED sess => Begins(t, "clear3")
      BY <1>1, <1>3, GoesTo
    <3> QED
      BY <1>4, <1>5, <3>1, <3>2, <3>3
  <2>3. CASE Is("clear3")
    <3>1. \/ (FailAt /\ UNCHANGED sess)
          \/ (GoTo("conf1") /\ sess' = [sess EXCEPT ![t].config = FALSE])
      BY <2>3 DEF ClearOther, Is
    <3> QED
      BY <1>5, <1>6, <3>1
  <2> QED
    BY <1>1, <2>1, <2>2, <2>3 DEF Is

-----------------------------------------------------------------------------
(* Steps of the holder for its session. *)

\* Session s is changed to c.
Changes(s, c) ==
  /\ sess' = [sess EXCEPT ![s] = c] /\ c \in SessionType

\* A step that touches one session only has to keep its part.
LEMMA OneSession ==
  ASSUME Inv, NEW s \in Session, Types', RunOK', CallOK', QueueOK', SessionOK(s)',
         \A t \in Session : t # s => Keeps(t)
  PROVE  Inv'
<1>1. ASSUME NEW t \in Session PROVE SessionOK(t)'
  BY SessionKept DEF Inv, Sessions
<1> QED
  BY <1>1 DEF Inv, Sessions

\* What a step that replaces the record of one session leaves of the others.
LEMMA SessionChanges ==
  ASSUME Inv, NEW s \in Session, NEW c, Changes(s, c)
  PROVE  /\ sess' \in [Session -> SessionType] /\ sess'[s] = c
         /\ \A t \in Session : t # s => sess'[t] = sess[t]
         /\ c.client = sess[s].client /\ c.job = sess[s].job => KeepsClients
<1>1. sess \in [Session -> SessionType]
  BY DEF Inv, Types
<1> QED
  BY <1>1 DEF Changes, KeepsClients

\* The other sessions keep what they have when jobs stay as they are.
LEMMA OthersKept ==
  ASSUME Inv, NEW s \in Session, NEW t \in Session, t # s, sess'[t] = sess[t],
         omx'[t] = omx[t], cb'[t] = cb[t], out'[t] = out[t],
         UNCHANGED <<ongoing, owner, ans, gone>>,
         Stage(t)' = Stage(t)
  PROVE  Keeps(t)
<1>1. KeepsJob(t)
  BY JobKept
<1> QED
  BY <1>1 DEF Keeps, KeepsSession, KeepsEncoder

\* Where the holder of job_lock is says what it does.
LEMMA HolderIs ==
  ASSUME Inv, NEW a, Is(a), a # "free"
  PROVE  run.s \in Session /\ run.at = a /\ run.cs = "none" /\ a \in StepsOf(run.op)
         /\ run \in RunType
         /\ run.op \in {"create", "abort", "destroy", "encode"}
  BY DEF Is, Inv, RunOK, Types, RunType, Free

\* Where the holder goes.
LEMMA GoingOn ==
  ASSUME Inv, NEW a, a \in StepsOf(run.op), run.op # "none", run.cs = "none", GoTo(a)
  PROVE  /\ RunOK' /\ run' \in RunType /\ run'.at = a /\ run'.cs = "none"
         /\ run'.op = run.op /\ run'.s = run.s /\ run'.j = run.j
<1>1. run \in RunType /\ run.s \in Session
  BY DEF Inv, Types, RunOK
<1>2. a \in AbortSteps \cup Unloading \cup Preparing
              \cup {"free", "reset", "empty", "fill", "fail", "done1", "done2", "done3"}
  BY <1>1 DEF StepsOf, RunType, AbortSteps, Unloading, Preparing
<1>3. /\ run' \in RunType /\ run'.at = a /\ run'.cs = "none"
      /\ run'.op = run.op /\ run'.s = run.s /\ run'.j = run.j
  BY <1>1, <1>2 DEF GoTo, RunType
<1> QED
  BY <1>1, <1>3 DEF RunOK

\* A step of the holder that changes its session, or the work of its encoder.
LEMMA HolderChanges ==
  ASSUME Inv, NEW s \in Session, run.s = s, Types', RunOK', KeepsClients,
         \A t \in Session : t # s => sess'[t] = sess[t],
         \A t \in Session : t # s => omx'[t] = omx[t] /\ out'[t] = out[t],
         UNCHANGED <<jobq, ongoing, mgr, call, cb, owner, ans, gone>>,
         run'.op = run.op, run'.s = run.s, run'.j = run.j,
         run.op = "abort" /\ run'.at \in AbortSteps => run.at \in AbortSteps,
         SessionOK(s)'
  PROVE  Inv'
<1>1. QueueOK'
  <2>1. QueueOK /\ owner \in [Job -> Session \cup {none}] /\ mgr' = mgr
    BY DEF Inv, Types
  <2> QED
    BY <2>1, QueueKept
<1>2. CallOK'
  BY CallKept DEF Inv
<1>3. \A t \in Session : t # s => Keeps(t)
  <2>1. \A t \in Session : t # s => Stage(t)' = Stage(t)
    BY DEF Stage
  <2> QED
    BY <2>1, OthersKept
<1> QED
  BY <1>1, <1>2, <1>3, OneSession

\* What a step that leaves the queues and the answers alone keeps of s.
LEMMA Keeping ==
  ASSUME NEW s \in Session, sess'[s].job = sess[s].job, UNCHANGED <<ongoing, owner, ans, gone>>
  PROVE  /\ (Unanswered(s)' <=> Unanswered(s))
         /\ (Held(s)' <=> sess'[s].ref /\ Unanswered(s))
         /\ (Underway(sess[s].job)' <=> Underway(sess[s].job))
         /\ Failed(s)' = Failed(s)
  BY DEF Unanswered, Held, Underway, Failed, Of

\* The job is reset, its session becomes the one in progress.
LEMMA ResetInv == ASSUME Inv, Reset PROVE Inv'
<1>0. PICK s \in Session : run.s = s
  BY HolderIs DEF Reset
<1> DEFINE c == [sess[s] EXCEPT !.abort = "none", !.encoding = FALSE]
           a == IF sess[s].config THEN "job" ELSE IF inprogress # none THEN "clear1" ELSE "conf1"
<1>1. /\ Is("reset") /\ cb[s] = Quiet /\ GoTo(a)
      /\ sess' = [sess EXCEPT ![s].abort = "none", ![s].encoding = FALSE]
      /\ UNCHANGED <<jobq, ongoing, sem, mgr, call, inprogress, omx, cb, owner, ans, gone, out>>
  BY <1>0 DEF Reset, Unlocked, ghosts
<1>2. run.at = "reset" /\ run.cs = "none" /\ run.op = "encode"
  BY <1>1, HolderIs DEF StepsOf, AbortSteps, Unloading
<1>3. sess[s] \in SessionType /\ SessionOK(s)
  BY DEF Inv, Types, Sessions
<1>4. /\ c \in SessionType /\ c.abort = "none" /\ ~c.encoding /\ c.client = sess[s].client
      /\ c.job = sess[s].job /\ c.hq = sess[s].hq /\ c.ref = sess[s].ref
  BY <1>3 DEF SessionType
<1>5. Changes(s, c)
  BY <1>1, <1>4 DEF Changes
<1> HIDE DEF c
<1>6. /\ sess' \in [Session -> SessionType] /\ sess'[s] = c
      /\ \A t \in Session : t # s => sess'[t] = sess[t]
      /\ KeepsClients
  BY <1>4, <1>5, SessionChanges
<1>7. /\ RunOK' /\ run' \in RunType /\ run'.at = a /\ run'.cs = "none"
      /\ run'.op = run.op /\ run'.s = run.s /\ run'.j = run.j
  <2>1. a \in StepsOf(run.op)
    BY <1>2 DEF StepsOf, Preparing
  <2> HIDE DEF a
  <2> QED
    BY <1>1, <1>2, <2>1, GoingOn
<1>8. Types'
  BY <1>1, <1>6, <1>7 DEF Inv, Types
<1>9. Stage(s) = "reset" /\ Stage(s)' = "prepare"
  BY <1>0, <1>2, <1>7 DEF Stage, Preparing, Unloading
<1>10. /\ (Unanswered(s)' <=> Unanswered(s))
       /\ (Held(s)' <=> sess'[s].ref /\ Unanswered(s))
       /\ (Underway(sess[s].job)' <=> Underway(sess[s].job))
       /\ Failed(s)' = Failed(s)
  BY <1>1, <1>4, <1>6, Keeping
<1>11. WorkOK(s)' /\ EncodeOK(s)' /\ CallbackOK(s)'
  BY <1>1, <1>3, <1>4, <1>6, <1>9, <1>10 DEF SessionOK, WorkOK, EncodeOK, CallbackOK
<1>12. AbortOK(s)' /\ FreshOK(s)'
  BY <1>1, <1>3, <1>4, <1>6, <1>9, <1>10 DEF SessionOK, AbortOK, FreshOK
<1>13. MemoryOK(s)'
  BY <1>1, <1>3, <1>4, <1>6, <1>9, <1>10 DEF SessionOK, MemoryOK, EncodeOK
<1>14. SessionOK(s)'
  BY <1>11, <1>12, <1>13 DEF SessionOK
<1> QED
  BY <1>0, <1>1, <1>2, <1>6, <1>7, <1>8, <1>14, HolderChanges

\* mm_jpeg_configure_job_params.
LEMMA ConfigureJobInv == ASSUME Inv, ConfigureJob PROVE Inv'
<1>0. PICK s \in Session : run.s = s
  BY HolderIs DEF ConfigureJob
<1>1. /\ Is("job") /\ cb[s] = Quiet
      /\ UNCHANGED <<jobq, ongoing, sem, mgr, call, inprogress, omx, cb, owner, ans, gone, out>>
  BY <1>0 DEF ConfigureJob, Unlocked, ghosts
<1>2. run.at = "job" /\ run.cs = "none" /\ run.op = "encode"
  BY <1>1, HolderIs DEF StepsOf, AbortSteps, Unloading
<1>3. CASE FailAt /\ UNCHANGED sess
  <2>1. run.at \in Preparing \cup {"empty"} /\ run.op \in {"create", "encode"} /\ run.s \in Session
        /\ inprogress' \in Session \cup {none}
    BY <1>0, <1>1, <1>2 DEF Preparing, Inv, Types
  <2> QED
    BY <1>1, <1>2, <1>3, <2>1, ConfigurationFails DEF ghosts
<1>4. CASE GoTo("empty") /\ sess' = [sess EXCEPT ![s].encoding = TRUE]
  <2> DEFINE c == [sess[s] EXCEPT !.encoding = TRUE]
  <2>1. sess[s] \in SessionType /\ SessionOK(s)
    BY DEF Inv, Types, Sessions
  <2>2. /\ c \in SessionType /\ c.abort = sess[s].abort /\ c.encoding /\ c.client = sess[s].client
        /\ c.job = sess[s].job /\ c.hq = sess[s].hq /\ c.ref = sess[s].ref
    BY <2>1 DEF SessionType
  <2>3. Changes(s, c)
    BY <1>4, <2>2 DEF Changes
  <2> HIDE DEF c
  <2>4. /\ sess' \in [Session -> SessionType] /\ sess'[s] = c
        /\ \A t \in Session : t # s => sess'[t] = sess[t]
        /\ KeepsClients
    BY <2>2, <2>3, SessionChanges
  <2>5. /\ RunOK' /\ run' \in RunType /\ run'.at = "empty" /\ run'.cs = "none"
        /\ run'.op = run.op /\ run'.s = run.s /\ run'.j = run.j
    <3>1. "empty" \in StepsOf(run.op)
      BY <1>2 DEF StepsOf, Preparing
    <3> QED
      BY <1>2, <1>4, <3>1, GoingOn
  <2>6. Types'
    BY <1>1, <2>4, <2>5 DEF Inv, Types
  <2>7. Stage(s) = "prepare" /\ Stage(s)' = "empty"
    BY <1>0, <1>2, <2>5 DEF Stage, Preparing, Unloading
  <2>8. /\ (Unanswered(s)' <=> Unanswered(s))
        /\ (Held(s)' <=> sess'[s].ref /\ Unanswered(s))
        /\ (Underway(sess[s].job)' <=> Underway(sess[s].job))
        /\ Failed(s)' = Failed(s)
    BY <1>1, <2>2, <2>4, Keeping
  <2>9. WorkOK(s)' /\ EncodeOK(s)' /\ CallbackOK(s)'
    BY <1>1, <2>1, <2>2, <2>4, <2>7, <2>8 DEF SessionOK, WorkOK, EncodeOK, CallbackOK
  <2>10. AbortOK(s)' /\ FreshOK(s)'
    BY <1>1, <2>1, <2>2, <2>4, <2>7, <2>8 DEF SessionOK, AbortOK, FreshOK
  <2>11. MemoryOK(s)'
    BY <1>1, <2>1, <2>2, <2>4, <2>7, <2>8 DEF SessionOK, MemoryOK, EncodeOK
  <2>12. SessionOK(s)'
    BY <2>9, <2>10, <2>11 DEF SessionOK
  <2> QED
    BY <1>0, <1>1, <1>2, <2>4, <2>5, <2>6, <2>12, HolderChanges
<1> QED
  BY <1>0, <1>3, <1>4 DEF ConfigureJob

\* The encoder of s is changed to e.
LEMMA EncoderChanges ==
  ASSUME Inv, NEW s \in Session, NEW e \in EncoderType, omx' = [omx EXCEPT ![s] = e]
  PROVE  /\ omx' \in [Session -> EncoderType] /\ omx'[s] = e
         /\ \A t \in Session : t # s => omx'[t] = omx[t]
  BY DEF Inv, Types

\* job_lock is free.
LEMMA FreeType ==
  /\ Free \in RunType
  /\ Free.op = "none" /\ Free.s = none /\ Free.at = "free" /\ Free.cs = "none"
BY MmJpegAssumption DEF Free, RunType

\* The manager has started its job or ended it.
LEMMA ManagerEnds ==
  ASSUME Inv, NEW s \in Session, run.s = s, run.op = "encode", Started, Types',
         UNCHANGED <<jobq, ongoing, call, sess, cb, owner, ans, gone, out>>,
         \A t \in Session : t # s => omx'[t] = omx[t],
         SessionOK(s)'
  PROVE  Inv'
<1>1. run' = Free /\ mgr' = "wait"
  BY DEF Started
<1>2. RunOK'
  BY <1>1, FreeType DEF RunOK, StepsOf
<1>3. QueueOK'
  <2>1. QueueOK /\ owner \in [Job -> Session \cup {none}]
    BY DEF Inv, Types
  <2> QED
    BY <1>1, <2>1, QueueKept DEF KeepsClients
<1>4. CallOK'
  <2>1. \A j : Finished(j)' <=> Finished(j)
    BY DEF Finished
  <2>2. \A u : Of(u)' = Of(u)
    BY DEF Of
  <2> QED
    BY <1>1, <2>1, <2>2, FreeType DEF Inv, CallOK
<1>5. \A t \in Session : t # s => Keeps(t)
  <2>1. \A t \in Session : t # s => Stage(t)' = Stage(t)
    BY <1>1, FreeType DEF Stage
  <2> QED
    BY <2>1, OthersKept
<1> QED
  BY <1>2, <1>3, <1>4, <1>5, OneSession

\* The job's input is given to the encoder, which works from then on.
LEMMA EmptyThisBufferInv ==
  ASSUME OrderlyEncoder, Inv, EmptyThisBuffer
  PROVE  Inv'
<1>0. PICK s \in Session : run.s = s
  BY HolderIs DEF EmptyThisBuffer
<1>1. /\ Is("empty")
      /\ UNCHANGED <<jobq, ongoing, sem, mgr, call, sess, inprogress, cb, owner, ans, gone, out>>
  BY <1>0 DEF EmptyThisBuffer, ghosts
<1>2. run.at = "empty" /\ run.cs = "none" /\ run.op = "encode"
  BY <1>1, HolderIs DEF StepsOf, AbortSteps, Unloading
<1>3. CASE FailAt /\ UNCHANGED omx
  <2>1. run.at \in Preparing \cup {"empty"} /\ run.op \in {"create", "encode"} /\ run.s \in Session
        /\ inprogress' \in Session \cup {none}
    BY <1>0, <1>1, <1>2 DEF Preparing, Inv, Types
  <2> QED
    BY <1>1, <1>2, <1>3, <2>1, ConfigurationFails DEF ghosts
<1>4. CASE GoTo("fill") /\ Ready(s) /\ omx' = [omx EXCEPT ![s].work = "in", ![s].mem = FALSE]
  <2> DEFINE e == [omx[s] EXCEPT !.work = "in", !.mem = FALSE]
  <2>1. omx[s] \in EncoderType /\ SessionOK(s)
    BY DEF Inv, Types, Sessions
  <2>2. e \in EncoderType /\ e.work = "in" /\ ~e.mem /\ e.cmd = "none"
    BY <1>4, <2>1 DEF EncoderType, Ready
  <2>3. omx' = [omx EXCEPT ![s] = e]
    BY <1>4
  <2> HIDE DEF e
  <2>4. /\ omx' \in [Session -> EncoderType] /\ omx'[s] = e
        /\ \A t \in Session : t # s => omx'[t] = omx[t]
    BY <2>2, <2>3, EncoderChanges
  <2>5. /\ RunOK' /\ run' \in RunType /\ run'.at = "fill" /\ run'.cs = "none"
        /\ run'.op = run.op /\ run'.s = run.s /\ run'.j = run.j
    <3>1. "fill" \in StepsOf(run.op)
      BY <1>2 DEF StepsOf
    <3> QED
      BY <1>2, <1>4, <3>1, GoingOn
  <2>6. Types'
    BY <1>1, <2>4, <2>5 DEF Inv, Types
  <2>7. Stage(s) = "empty" /\ Stage(s)' = "fill"
    BY <1>0, <1>2, <2>5 DEF Stage, Preparing, Unloading
  <2>8. /\ (Unanswered(s)' <=> Unanswered(s))
        /\ (Held(s)' <=> sess'[s].ref /\ Unanswered(s))
        /\ (Underway(sess[s].job)' <=> Underway(sess[s].job))
        /\ Failed(s)' = Failed(s)
    BY <1>1, Keeping
  <2>9. sess[s].encoding
    BY <1>2, <2>1, <2>7 DEF SessionOK, EncodeOK
  <2>10. Underway(sess[s].job) /\ Unanswered(s) /\ sess[s].job \notin gone
    BY <2>1, <2>7 DEF SessionOK, EncodeOK, Inv, QueueOK, Unanswered
  <2>11. WorkOK(s)' /\ EncodeOK(s)' /\ CallbackOK(s)'
    BY <1>1, <2>1, <2>2, <2>4, <2>7, <2>8, <2>9, <2>10
       DEF SessionOK, WorkOK, EncodeOK, CallbackOK
  <2>12. FreshOK(s)'
    <3>1. sess[s].client \in {"open", "stopping"}
      BY <2>10 DEF Inv, QueueOK, Unanswered, Job
    <3> QED
      BY <1>1, <3>1 DEF FreshOK
  <2>13. AbortOK(s)' /\ MemoryOK(s)'
    BY <1>1, <2>1, <2>2, <2>4, <2>7, <2>8 DEF SessionOK, AbortOK, MemoryOK, EncodeOK, WorkOK
  <2>14. SessionOK(s)'
    BY <2>11, <2>12, <2>13 DEF SessionOK
  <2> QED
    BY <1>0, <1>1, <1>2, <2>4, <2>5, <2>6, <2>14, HolderChanges DEF KeepsClients
<1> QED
  BY <1>0, <1>3, <1>4 DEF EmptyThisBuffer

\* Its output buffer follows; the job is under way.
LEMMA FillThisBufferInv ==
  ASSUME OrderlyEncoder, Inv, FillThisBuffer
  PROVE  Inv'
<1>0. PICK s \in Session : run.s = s
  BY HolderIs DEF FillThisBuffer
<1>1. /\ Is("fill")
      /\ UNCHANGED <<jobq, ongoing, sem, call, sess, inprogress, cb, owner, ans, gone, out>>
  BY <1>0 DEF FillThisBuffer, ghosts
<1>2. run.at = "fill" /\ run.cs = "none" /\ run.op = "encode"
  BY <1>1, HolderIs DEF StepsOf, AbortSteps, Unloading
<1>3. omx[s] \in EncoderType /\ SessionOK(s) /\ Stage(s) = "fill"
  BY <1>0, <1>2 DEF Inv, Types, Sessions, Stage, Preparing, Unloading
<1>4. /\ (Unanswered(s)' <=> Unanswered(s))
      /\ (Held(s)' <=> sess'[s].ref /\ Unanswered(s))
      /\ (Underway(sess[s].job)' <=> Underway(sess[s].job))
      /\ Failed(s)' = Failed(s)
  BY <1>1, Keeping
<1>5. CASE omx[s].work = "in" /\ FailAt /\ mgr' = mgr /\ omx' = [omx EXCEPT ![s].work = "none"]
  <2> DEFINE e == [omx[s] EXCEPT !.work = "none"]
  <2>1. e \in EncoderType /\ e.work = "none"
    BY <1>3 DEF EncoderType
  <2>2. omx' = [omx EXCEPT ![s] = e]
    BY <1>5
  <2> HIDE DEF e
  <2>3. /\ omx' \in [Session -> EncoderType] /\ omx'[s] = e
        /\ \A t \in Session : t # s => omx'[t] = omx[t]
    BY <2>1, <2>2, EncoderChanges
  <2>4. /\ run'.op = run.op /\ run'.s = run.s /\ run'.j = run.j /\ run'.cs = "none"
        /\ run' \in RunType /\ run'.at = "fail"
    BY <1>2, <1>5 DEF FailAt, Fail, Inv, Types, RunType
  <2>5. RunOK'
    BY <1>0, <1>2, <2>4 DEF RunOK, StepsOf
  <2>6. Types'
    BY <1>1, <1>5, <2>3, <2>4 DEF Inv, Types
  <2>7. Stage(s)' = "fail"
    BY <1>0, <1>2, <2>4 DEF Stage, Preparing, Unloading
  <2>8. /\ sess[s].hq = 0 /\ Unanswered(s) /\ cb[s] = Quiet /\ Underway(sess[s].job)
    BY <1>3, <1>5 DEF SessionOK, WorkOK
  <2>9. WorkOK(s)' /\ EncodeOK(s)' /\ CallbackOK(s)' /\ FreshOK(s)'
    BY <1>1, <1>3, <1>4, <2>1, <2>3, <2>7, <2>8
       DEF SessionOK, WorkOK, EncodeOK, CallbackOK, FreshOK
  <2>10. AbortOK(s)' /\ MemoryOK(s)'
    BY <1>1, <1>3, <1>4, <1>5, <2>1, <2>3, <2>7, <2>8 DEF SessionOK, AbortOK, MemoryOK, Held
  <2>11. SessionOK(s)'
    BY <2>9, <2>10 DEF SessionOK
  <2> QED
    BY <1>0, <1>1, <1>2, <1>5, <2>3, <2>4, <2>5, <2>6, <2>11, HolderChanges DEF KeepsClients
<1>6. CASE /\ Started
           /\ omx' = IF omx[s].work = "in" THEN [omx EXCEPT ![s].work = "both"] ELSE omx
  <2> DEFINE e == IF omx[s].work = "in" THEN [omx[s] EXCEPT !.work = "both"] ELSE omx[s]
  <2>1. /\ e \in EncoderType /\ e.mem = omx[s].mem /\ e.cmd = omx[s].cmd
        /\ (e.work = "both" /\ omx[s].work = "in") \/ (e.work = omx[s].work /\ e.work # "in")
    BY <1>3 DEF EncoderType
  <2>2. omx' = [omx EXCEPT ![s] = e]
    BY <1>6 DEF Inv, Types
  <2> HIDE DEF e
  <2>3. /\ omx' \in [Session -> EncoderType] /\ omx'[s] = e
        /\ \A t \in Session : t # s => omx'[t] = omx[t]
    BY <2>1, <2>2, EncoderChanges
  <2>4. Stage(s)' = "other"
    BY <1>6 DEF Started, Stage, Free
  <2>5. WorkOK(s)' /\ EncodeOK(s)' /\ CallbackOK(s)' /\ FreshOK(s)'
    BY <1>1, <1>3, <1>4, <2>1, <2>3, <2>4
       DEF SessionOK, WorkOK, EncodeOK, CallbackOK, FreshOK, Held
  <2>6. AbortOK(s)' /\ MemoryOK(s)'
    BY <1>1, <1>3, <1>4, <2>1, <2>3, <2>4 DEF SessionOK, WorkOK, AbortOK, MemoryOK, Held
  <2>7. SessionOK(s)'
    BY <2>5, <2>6 DEF SessionOK
  <2>8. Types'
    BY <1>1, <1>6, <2>3, FreeType DEF Inv, Types, Started
  <2> QED
    BY <1>0, <1>1, <1>2, <1>6, <2>3, <2>7, <2>8, ManagerEnds
<1> QED
  BY <1>0, <1>5, <1>6 DEF FillThisBuffer

-----------------------------------------------------------------------------
(* Answers and the ends of jobs. *)

\* The failed jobs of a session can be counted.
LEMMA FailedIsFinite ==
  ASSUME NEW s
  PROVE  /\ IsFiniteSet(Failed(s)) /\ IsFiniteSet(Job) /\ Cardinality(Job) = MaxJob
         /\ Cardinality(Failed(s)) \in Nat
<1>1. IsFiniteSet(Job) /\ Cardinality(Job) = MaxJob
  BY MmJpegAssumption, FS_Interval DEF Job
<1>2. Failed(s) \subseteq Job
  BY DEF Failed, Of
<1>3. IsFiniteSet(Failed(s))
  BY <1>1, <1>2, FS_Subset
<1> QED
  BY <1>1, <1>3, FS_CardinalityType

\* A session answers its job: nothing changes for the others.
LEMMA Answering ==
  ASSUME Inv, NEW s \in Session, Unanswered(s), NEW a \in {"done", "error"},
         ans' = [ans EXCEPT ![sess[s].job] = a], UNCHANGED <<owner, gone>>, KeepsClients
  PROVE  /\ ans' \in [Job -> {"none", "done", "error"}]
         /\ ~Unanswered(s)'
         /\ \A t \in Session : t # s => (Unanswered(t)' <=> Unanswered(t)) /\ Failed(t)' = Failed(t)
         /\ \A j \in Job : ans[j] # "none" => ans'[j] # "none"
         /\ \A j \in Job : ans'[j] # ans[j] => j = sess[s].job
         /\ owner[sess[s].job] = s /\ sess[s].job \in Job /\ ans[sess[s].job] = "none"
         /\ a = "done" => Failed(s)' = Failed(s)
         /\ a = "error" => Cardinality(Failed(s)') = Cardinality(Failed(s)) + 1
<1> DEFINE k == sess[s].job
<1>1. k \in Job /\ ans[k] = "none" /\ owner[k] = s /\ \A t \in Session : sess'[t].job = sess[t].job
  BY DEF Unanswered, Inv, QueueOK, Job, KeepsClients
<1>2. ans \in [Job -> {"none", "done", "error"}]
  BY DEF Inv, Types
<1>3. ans'[k] = a /\ \A j \in Job : j # k => ans'[j] = ans[j]
  BY <1>1, <1>2
<1>4. ASSUME NEW t \in Session, t # s
      PROVE  (Unanswered(t)' <=> Unanswered(t)) /\ Failed(t)' = Failed(t)
  <2>1. sess[t].job \in Job => sess[t].job # k
    BY <1>1, <1>4 DEF Inv, QueueOK, Job
  <2>2. Unanswered(t)' <=> Unanswered(t)
    BY <1>1, <1>3, <2>1 DEF Unanswered
  <2>3. \A j \in Job : owner[j] = t => j # k
    BY <1>1, <1>4
  <2>4. Failed(t)' = Failed(t)
    BY <1>3, <2>3 DEF Failed, Of
  <2> QED
    BY <2>2, <2>4
<1>5. a = "done" => Failed(s)' = Failed(s)
  BY <1>1, <1>3 DEF Failed, Of
<1>6. a = "error" => Failed(s)' = Failed(s) \cup {k} /\ k \notin Failed(s)
  BY <1>1, <1>3 DEF Failed, Of
<1>7. a = "error" => Cardinality(Failed(s)') = Cardinality(Failed(s)) + 1
  BY <1>6, FailedIsFinite, FS_AddElement
<1>8. ~Unanswered(s)'
  BY <1>1, <1>3 DEF Unanswered
<1> QED
  BY <1>1, <1>2, <1>3, <1>4, <1>5, <1>7, <1>8

\* What is left of a list without some of its jobs.
LEMMA WithoutIs ==
  ASSUME NEW q \in Seq(Job), NEW J
  PROVE  /\ Without(q, J) \in Seq(Job) /\ Len(Without(q, J)) <= Len(q)
         /\ \A j : Has(Without(q, J), j) <=> (Has(q, j) /\ j \notin J)
         /\ (\A i, k \in DOMAIN q : q[i] = q[k] => i = k)
            => \A i, k \in DOMAIN Without(q, J) : Without(q, J)[i] = Without(q, J)[k] => i = k
         /\ q = <<>> => Without(q, J) = <<>>
<1> DEFINE I == {i \in DOMAIN q : q[i] \notin J}
           w == At(q, I)
<1>1. I \in SUBSET (DOMAIN q)
  OBVIOUS
<1>2. Without(q, J) = w
  BY DEF Without
<1>3. /\ w \in Seq(Job) /\ Len(w) = Cardinality(I) /\ DOMAIN w = 1..Cardinality(I)
      /\ Cardinality(I) \in Nat
  BY <1>1, AtType
<1>4. \A n \in DOMAIN w : Nth(I, n) \in I /\ w[n] = q[Nth(I, n)]
        /\ \A m \in DOMAIN w : m < n => Nth(I, m) < Nth(I, n)
  BY <1>1, AtElement
<1>5. \A i \in I : Rank(I, i) \in DOMAIN w /\ w[Rank(I, i)] = q[i]
  BY <1>1, AtCovers
<1>6. q = <<>> => w = <<>>
  <2>1. q = <<>> => I = {}
    OBVIOUS
  <2> QED
    BY <1>1, <2>1, AtEmpty
<1>7. Cardinality(I) <= Len(q)
  <2>1. DOMAIN q = 1..Len(q) /\ Len(q) \in Nat
    BY LenProperties
  <2>2. IsFiniteSet(1..Len(q)) /\ Cardinality(1..Len(q)) = Len(q)
    BY <2>1, FS_Interval
  <2> QED
    BY <1>1, <2>1, <2>2, FS_Subset
<1> HIDE DEF w
<1>8. \A j : Has(w, j) <=> (Has(q, j) /\ j \notin J)
  BY <1>4, <1>5 DEF Has
<1> HIDE DEF I
<1>9. ASSUME \A i, k \in DOMAIN q : q[i] = q[k] => i = k,
             NEW i \in DOMAIN w, NEW k \in DOMAIN w, w[i] = w[k]
      PROVE  i = k
  <2>1. Nth(I, i) = Nth(I, k) /\ Nth(I, i) \in DOMAIN q
    BY <1>1, <1>4, <1>9
  <2>2. Nth(I, i) \in Nat /\ i \in Nat /\ k \in Nat
    BY <1>3, <2>1, LenProperties
  <2>3. ~(i < k) /\ ~(k < i)
    BY <1>4, <2>1, <2>2
  <2> QED
    BY <2>2, <2>3
<1> QED
  BY <1>2, <1>3, <1>6, <1>7, <1>8, <1>9

\* The manager answers a job that could not be started.
LEMMA JobFailsInv == ASSUME Inv, JobFails PROVE Inv'
<1>0. PICK s \in Session : run.s = s
  BY HolderIs DEF JobFails
<1>1. /\ Is("fail") /\ Answer(s, "error") /\ GoTo("done1")
      /\ UNCHANGED <<jobq, ongoing, sem, mgr, call, sess, inprogress, omx, cb, owner, gone>>
  BY <1>0 DEF JobFails
<1>2. run.at = "fail" /\ run.cs = "none" /\ run.op = "encode"
  BY <1>1, HolderIs DEF StepsOf, AbortSteps, Unloading, Preparing
<1>3. SessionOK(s) /\ Stage(s) = "fail"
  BY <1>0, <1>2 DEF Inv, Sessions, Stage, Preparing, Unloading
<1>4. Unanswered(s) /\ Underway(sess[s].job) /\ cb[s] = Quiet /\ sess[s].hq = 0 /\ omx[s].work = "none"
  BY <1>3 DEF SessionOK, EncodeOK
<1>5. ans' = [ans EXCEPT ![sess[s].job] = "error"] /\ out' = out /\ KeepsClients
  BY <1>1 DEF Answer, KeepsClients
<1>6. /\ ans' \in [Job -> {"none", "done", "error"}]
      /\ ~Unanswered(s)'
      /\ \A t \in Session : t # s => (Unanswered(t)' <=> Unanswered(t)) /\ Failed(t)' = Failed(t)
      /\ \A j \in Job : ans[j] # "none" => ans'[j] # "none"
      /\ \A j \in Job : ans'[j] # ans[j] => j = sess[s].job
      /\ owner[sess[s].job] = s /\ sess[s].job \in Job /\ ans[sess[s].job] = "none"
      /\ Cardinality(Failed(s)') = Cardinality(Failed(s)) + 1
  BY <1>1, <1>4, <1>5, Answering
<1>7. /\ RunOK' /\ run' \in RunType /\ run'.at = "done1" /\ run'.cs = "none"
      /\ run'.op = run.op /\ run'.s = run.s /\ run'.j = run.j
  <2>1. "done1" \in StepsOf(run.op)
    BY <1>2 DEF StepsOf
  <2> QED
    BY <1>1, <1>2, <2>1, GoingOn
<1>8. Types'
  BY <1>1, <1>5, <1>6, <1>7 DEF Inv, Types
<1>9. ~Waiting(sess[s].job) /\ owner[sess[s].job] # none
  BY <1>4, <1>6, MmJpegAssumption DEF Inv, QueueOK
<1>10. QueueOK'
  <2>1. QueueOK /\ owner \in [Job -> Session \cup {none}] /\ mgr' = mgr
    BY <1>1 DEF Inv, Types
  <2>2. \A j \in Job : ans'[j] # ans[j] => owner[j] # none /\ ~Waiting(j)
    BY <1>6, <1>9
  <2> QED
    BY <1>1, <1>5, <2>1, <2>2, QueueKept
<1>11. CallOK'
  <2>1. CallOK /\ RunOK /\ run.op # "abort"
    BY <1>2 DEF Inv
  <2> QED
    BY <1>1, <1>5, <1>6, <1>7, <2>1, CallKept
<1>12. ASSUME NEW t \in Session, t # s PROVE Keeps(t)
  <2>1. Stage(t)' = Stage(t)
    BY <1>0, <1>7, <1>12 DEF Stage
  <2>2. Underway(sess[t].job) => Underway(sess[t].job)'
    BY <1>1 DEF Underway
  <2>3. KeepsJob(t)
    BY <1>1, <1>6, <1>12, <2>2 DEF KeepsJob
  <2> QED
    BY <1>1, <1>5, <2>1, <2>3 DEF Keeps, KeepsSession, KeepsEncoder
<1>13. Stage(s)' = "done1" /\ ~Held(s) /\ ~Held(s)'
  <2>1. Stage(s)' = "done1"
    BY <1>0, <1>2, <1>7 DEF Stage, Preparing, Unloading
  <2>2. ~Held(s)
    BY <1>3, <1>4 DEF SessionOK, MemoryOK
  <2> QED
    BY <1>6, <2>1, <2>2 DEF Held
<1>14. WorkOK(s)' /\ EncodeOK(s)' /\ CallbackOK(s)' /\ FreshOK(s)' /\ AbortOK(s)'
  BY <1>1, <1>3, <1>4, <1>13 DEF SessionOK, WorkOK, EncodeOK, CallbackOK, FreshOK, AbortOK
<1>15. MemoryOK(s)'
  <2>1. Cardinality(Failed(s)) \in Nat /\ out[s] \in Nat
    BY FailedIsFinite DEF Inv, Types
  <2> QED
    BY <1>1, <1>3, <1>5, <1>6, <1>13, <2>1 DEF SessionOK, MemoryOK
<1>16. SessionOK(s)'
  BY <1>14, <1>15 DEF SessionOK
<1> QED
  BY <1>7, <1>8, <1>10, <1>11, <1>12, <1>16, OneSession

\* A job that has ended leaves the queue of jobs under way.
LEMMA JobLeaves ==
  ASSUME Inv, NEW s \in Session, ongoing' = Without(ongoing, {sess[s].job}), KeepsClients,
         UNCHANGED <<jobq, mgr, call, owner, ans, gone>>,
         run'.op = run.op, run'.s = run.s, run'.j = run.j, run'.at = run.at \/ run.op = "encode"
  PROVE  /\ QueueOK' /\ CallOK' /\ ongoing' \in Seq(Job) /\ Len(ongoing') <= 1
         /\ \A t \in Session : t # s => KeepsJob(t)
         /\ (Unanswered(s)' <=> Unanswered(s)) /\ Failed(s)' = Failed(s)
<1>1. /\ ongoing \in Seq(Job) /\ Len(ongoing) <= 1
      /\ owner \in [Job -> Session \cup {none}]
  BY DEF Inv, Types
<1> DEFINE k == sess[s].job
           w == Without(ongoing, {k})
<1>2. /\ ongoing' \in Seq(Job) /\ Len(ongoing') <= Len(ongoing)
      /\ \A j : (Underway(j)' <=> (Underway(j) /\ j # k))
      /\ ongoing = <<>> => ongoing' = <<>>
  <2>1. /\ w \in Seq(Job) /\ Len(w) <= Len(ongoing)
        /\ \A j : Has(w, j) <=> (Has(ongoing, j) /\ j \notin {k})
        /\ ongoing = <<>> => w = <<>>
    BY <1>1, WithoutIs
  <2>2. ongoing' = w
    OBVIOUS
  <2> HIDE DEF w
  <2> QED
    BY <2>1, <2>2 DEF Underway
<1> HIDE DEF w, k
<1>3. Len(ongoing') <= 1
  BY <1>1, <1>2
<1>4. /\ \A j : Waiting(j)' <=> Waiting(j)
      /\ \A j : Finished(j)' <=> Finished(j)
      /\ \A u : Of(u)' = Of(u) /\ Failed(u)' = Failed(u)
  BY DEF Waiting, Finished, Of, Failed
<1>5. \A t \in Session : sess'[t].client = sess[t].client /\ sess'[t].job = sess[t].job
  BY DEF KeepsClients
<1>6. \A t \in Session : Unanswered(t)' <=> Unanswered(t)
  BY <1>5 DEF Unanswered
<1>7. QueueOK'
  BY <1>2, <1>4, <1>5 DEF Inv, QueueOK
<1>8. CallOK'
  <2>1. /\ run.op \in {"none", "create", "abort", "destroy", "encode"}
        /\ run.op # "none" => run.s \in Session
    BY DEF Inv, Types, RunType, RunOK
  <2>2. CallOK
    BY DEF Inv
  <2>3. call.op # "none" => call.s \in Session
    BY <2>2 DEF CallOK
  <2>4. (Waiting(run.j)' <=> Waiting(run.j)) /\ (Underway(run.j)' => Underway(run.j))
    BY <1>2 DEF Waiting, Underway
  <2> QED
    BY <1>2, <1>4, <1>5, <2>1, <2>2, <2>3, <2>4 DEF CallOK
<1>9. ASSUME NEW t \in Session, t # s PROVE KeepsJob(t)
  <2>1. Underway(sess[t].job) => sess[t].job \in Job /\ owner[sess[t].job] = t
    <3>1. Underway(sess[t].job) => sess[t].job \in Job
      BY <1>1, ElementOfSeq, LenProperties DEF Underway, Has
    <3>2. sess[t].job \in Job => sess[t].job # 0
      BY DEF Job
    <3> QED
      BY <3>1, <3>2 DEF Inv, QueueOK
  <2>2. sess[s].job # 0 => owner[sess[s].job] = s
    BY DEF Inv, QueueOK
  <2>3. Underway(sess[t].job) => sess[t].job # sess[s].job
    BY <1>9, <2>1, <2>2 DEF Job
  <2>4. sess'[t].job = sess[t].job
    BY <1>5
  <2>5. Underway(sess[t].job) => Underway(sess[t].job)'
    BY <1>2, <2>3, <2>4 DEF Underway, k
  <2> QED
    BY <1>4, <1>6, <2>5 DEF KeepsJob
<1> QED
  BY <1>2, <1>3, <1>4, <1>6, <1>7, <1>8, <1>9

\* The rest of mm_jpeg_jobmgr_thread after a failed start.
LEMMA FailedJobDoneInv == ASSUME Inv, FailedJobDone PROVE Inv'
<1>0. PICK s \in Session : run.s = s
  BY HolderIs DEF FailedJobDone
<1>1. /\ run.at \in {"done1", "done2", "done3"} /\ run.cs = "none" /\ run.op = "encode"
      /\ UNCHANGED <<jobq, call, inprogress, omx, cb, owner, ans, gone, out>>
  BY HolderIs DEF FailedJobDone, StepsOf, AbortSteps, Unloading, Preparing, ghosts
<1>2. SessionOK(s) /\ Stage(s) = run.at /\ sess[s] \in SessionType
  BY <1>0, <1>1 DEF Inv, Sessions, Types, Stage, Preparing, Unloading
<1>3. cb[s] = Quiet /\ omx[s].work = "none" /\ ~Held(s)
  BY <1>1, <1>2 DEF SessionOK, EncodeOK, MemoryOK
<1>4. ASSUME NEW a \in {"done2", "done3"}, GoTo(a)
      PROVE  /\ RunOK' /\ run' \in RunType /\ run'.at = a /\ run'.cs = "none"
             /\ run'.op = run.op /\ run'.s = run.s /\ run'.j = run.j /\ Stage(s)' = a
  <2>1. a \in StepsOf(run.op) /\ run.op # "none"
    BY <1>1 DEF StepsOf
  <2>2. /\ RunOK' /\ run' \in RunType /\ run'.at = a /\ run'.cs = "none"
        /\ run'.op = run.op /\ run'.s = run.s /\ run'.j = run.j
    BY <1>1, <1>4, <2>1, GoingOn
  <2> QED
    BY <1>0, <1>1, <2>2 DEF Stage, Preparing, Unloading
<1>5. CASE Is("done1") /\ JobDone(s, 1) /\ GoTo("done2") /\ mgr' = mgr
  <2> DEFINE c == [sess[s] EXCEPT !.encoding = FALSE]
  <2>1. /\ c \in SessionType /\ c.abort = sess[s].abort /\ c.client = sess[s].client
        /\ c.job = sess[s].job /\ c.hq = sess[s].hq /\ c.ref = sess[s].ref
    BY <1>2 DEF SessionType
  <2>2. /\ Changes(s, c) /\ ongoing' = Without(ongoing, {sess[s].job}) /\ sem' = sem
    BY <1>5, <2>1 DEF JobDone, Changes
  <2> HIDE DEF c
  <2>3. /\ sess' \in [Session -> SessionType] /\ sess'[s] = c
        /\ \A t \in Session : t # s => sess'[t] = sess[t]
        /\ KeepsClients
    BY <2>1, <2>2, SessionChanges
  <2>4. /\ RunOK' /\ run' \in RunType /\ run'.at = "done2" /\ run'.cs = "none"
        /\ run'.op = run.op /\ run'.s = run.s /\ run'.j = run.j /\ Stage(s)' = "done2"
    BY <1>4, <1>5
  <2>5. /\ QueueOK' /\ CallOK' /\ ongoing' \in Seq(Job) /\ Len(ongoing') <= 1
        /\ \A t \in Session : t # s => KeepsJob(t)
        /\ (Unanswered(s)' <=> Unanswered(s)) /\ Failed(s)' = Failed(s)
    BY <1>1, <1>5, <2>2, <2>3, <2>4, JobLeaves
  <2>6. Types'
    BY <1>1, <1>5, <2>2, <2>3, <2>4, <2>5 DEF Inv, Types
  <2>7. ASSUME NEW t \in Session, t # s PROVE Keeps(t)
    BY <1>0, <1>1, <2>3, <2>4, <2>5, <2>7 DEF Keeps, KeepsSession, KeepsEncoder, Stage
  <2>8. ~Held(s)'
    BY <1>3, <2>1, <2>3, <2>5 DEF Held
  <2>9. sess[s].hq = 0 /\ Stage(s) = "done1"
    BY <1>2, <1>5 DEF SessionOK, EncodeOK, Is
  <2>10. WorkOK(s)' /\ EncodeOK(s)' /\ CallbackOK(s)'
    BY <1>1, <1>3, <2>1, <2>3, <2>4, <2>9 DEF WorkOK, EncodeOK, CallbackOK
  <2>11. AbortOK(s)' /\ FreshOK(s)' /\ MemoryOK(s)'
    BY <1>1, <1>2, <1>3, <2>1, <2>3, <2>4, <2>5, <2>8, <2>9
       DEF SessionOK, AbortOK, FreshOK, MemoryOK
  <2> QED
    BY <2>4, <2>5, <2>6, <2>7, <2>10, <2>11, OneSession DEF SessionOK
<1>6. CASE Is("done2") /\ JobDone(s, 2) /\ GoTo("done3") /\ mgr' = mgr
  <2> DEFINE c == [sess[s] EXCEPT !.hq = sess[s].hq + 1]
  <2>1. sess[s].hq = 0 /\ Stage(s) = "done2"
    BY <1>2, <1>6 DEF SessionOK, EncodeOK, Is
  <2>2. /\ c \in SessionType /\ c.abort = sess[s].abort /\ c.client = sess[s].client
        /\ c.job = sess[s].job /\ c.encoding = sess[s].encoding /\ c.ref = sess[s].ref
    BY <1>2, <2>1 DEF SessionType
  <2>3. /\ Changes(s, c) /\ ongoing' = ongoing /\ sem' = sem
    BY <1>6, <2>2 DEF JobDone, Changes
  <2> HIDE DEF c
  <2>4. /\ sess' \in [Session -> SessionType] /\ sess'[s] = c
        /\ \A t \in Session : t # s => sess'[t] = sess[t]
        /\ KeepsClients
    BY <2>2, <2>3, SessionChanges
  <2>5. /\ RunOK' /\ run' \in RunType /\ run'.at = "done3" /\ run'.cs = "none"
        /\ run'.op = run.op /\ run'.s = run.s /\ run'.j = run.j /\ Stage(s)' = "done3"
    BY <1>4, <1>6
  <2>6. Types'
    BY <1>1, <1>6, <2>3, <2>4, <2>5 DEF Inv, Types
  <2>7. ~Held(s)' /\ Failed(s)' = Failed(s)
    BY <1>1, <1>3, <2>2, <2>3, <2>4, Keeping DEF Held
  <2>8. WorkOK(s)' /\ EncodeOK(s)' /\ CallbackOK(s)'
    BY <1>1, <1>3, <2>2, <2>4, <2>5 DEF WorkOK, EncodeOK, CallbackOK
  <2>9. AbortOK(s)' /\ FreshOK(s)' /\ MemoryOK(s)'
    BY <1>1, <1>2, <1>3, <2>1, <2>2, <2>4, <2>5, <2>7 DEF SessionOK, AbortOK, FreshOK, MemoryOK
  <2>10. SessionOK(s)'
    BY <2>8, <2>9 DEF SessionOK
  <2> QED
    BY <1>0, <1>1, <1>6, <2>3, <2>4, <2>5, <2>6, <2>10, HolderChanges
<1>7. CASE Is("done3") /\ JobDone(s, 3) /\ Started
  <2>1. sess' = sess /\ ongoing' = ongoing /\ sem' = sem + 1
    BY <1>7 DEF JobDone
  <2>2. Types'
    BY <1>1, <1>7, <2>1, FreeType DEF Inv, Types, Started
  <2>3. Stage(s)' = "other" /\ Stage(s) = "done3"
    BY <1>2, <1>7, FreeType DEF Started, Stage, Is
  <2>4. ~Held(s)' /\ Failed(s)' = Failed(s)
    BY <1>1, <1>3, <2>1, Keeping DEF Held
  <2>5. WorkOK(s)' /\ EncodeOK(s)' /\ CallbackOK(s)' /\ FreshOK(s)'
    BY <1>1, <1>2, <1>3, <2>1, <2>3, <2>4 DEF SessionOK, WorkOK, EncodeOK, CallbackOK, FreshOK
  <2>6. AbortOK(s)' /\ MemoryOK(s)'
    BY <1>1, <1>2, <1>3, <2>1, <2>3, <2>4 DEF SessionOK, AbortOK, MemoryOK
  <2>7. SessionOK(s)'
    BY <2>5, <2>6 DEF SessionOK
  <2> QED
    BY <1>0, <1>1, <1>7, <2>1, <2>2, <2>7, ManagerEnds
<1> QED
  BY <1>0, <1>5, <1>6, <1>7 DEF FailedJobDone

-----------------------------------------------------------------------------
(* Callbacks and events of the encoder. *)

\* What a signal to s does to the holder.
LEMMA SignalledIs ==
  ASSUME Inv, NEW s \in Session, run' = Signalled(run, s)
  PROVE  /\ RunOK' /\ run' \in RunType
         /\ run'.op = run.op /\ run'.s = run.s /\ run'.j = run.j
         /\ run.op = "abort" /\ run'.at \in AbortSteps => run.at \in AbortSteps
         /\ \A t \in Session : t # s \/ Stage(s) # "abwait" => Stage(t)' = Stage(t)
         /\ Stage(s) = "abwait" => Stage(s)' = "abwoken"
<1>1. run \in RunType /\ RunOK
  BY DEF Inv, Types
<1>2. CASE run.cs = "wait" /\ run.t = s
  <2>1. run' = [run EXCEPT !.cs = "woken"]
    BY <1>2 DEF Signalled
  <2>2. /\ run' \in RunType /\ run'.at = run.at /\ run'.t = run.t /\ run'.to = run.to
        /\ run'.op = run.op /\ run'.s = run.s /\ run'.j = run.j /\ run'.cs = "woken"
    BY <1>1, <2>1 DEF RunType
  <2>3. RunOK'
    BY <1>1, <1>2, <2>2 DEF RunOK, Free
  <2>4. \A t \in Session : Stage(t)' = Stage(t)
    BY <2>2 DEF Stage
  <2>5. Stage(s) # "abwait"
    BY <1>1, <1>2 DEF RunOK, Stage, Preparing, Unloading
  <2> QED
    BY <2>2, <2>3, <2>4, <2>5
<1>3. CASE run.cs = "none" /\ run.at = "abwait" /\ run.s = s
  <2>1. run' = [run EXCEPT !.at = "abwoken"]
    BY <1>3 DEF Signalled
  <2>2. /\ run' \in RunType /\ run'.at = "abwoken"
        /\ run'.op = run.op /\ run'.s = run.s /\ run'.j = run.j /\ run'.cs = "none"
    BY <1>1, <1>3, <2>1 DEF RunType, AbortSteps
  <2>3. run.op \in {"abort", "destroy"}
    BY <1>1, <1>3 DEF RunOK, StepsOf, RunType, Preparing
  <2>4. RunOK'
    BY <1>1, <1>3, <2>2, <2>3 DEF RunOK, StepsOf, AbortSteps
  <2>5. (\A t \in Session : t # s => Stage(t)' = Stage(t)) /\ Stage(s)' = "abwoken"
    BY <1>3, <2>2, <2>3 DEF Stage, Preparing, Unloading
  <2>6. Stage(s) = "abwait"
    BY <1>3, <2>3 DEF Stage, Preparing, Unloading
  <2> QED
    BY <1>3, <2>2, <2>4, <2>5, <2>6 DEF AbortSteps
<1>4. CASE run' = run
  <2>1. RunOK' /\ \A t \in Session : Stage(t)' = Stage(t)
    BY <1>1, <1>4 DEF RunOK, Stage
  <2>2. Stage(s) = "abwait" => run.cs = "none" /\ run.at = "abwait" /\ run.s = s
    BY <1>1 DEF Stage, RunOK, Preparing, Unloading
  <2>3. Stage(s) # "abwait"
    <3> SUFFICES ASSUME Stage(s) = "abwait" PROVE FALSE
      OBVIOUS
    <3>1. run' = [run EXCEPT !.at = "abwoken"]
      BY <2>2 DEF Signalled
    <3> QED
      BY <1>1, <1>4, <2>2, <3>1 DEF RunType
  <2> QED
    BY <1>1, <1>4, <2>1, <2>3
<1> QED
  BY <1>2, <1>3, <1>4 DEF Signalled

\* A step of a callback or of the encoder for s.
LEMMA EventChanges ==
  ASSUME Inv, NEW s \in Session, Types', RunOK', KeepsClients,
         \A t \in Session : t # s => sess'[t] = sess[t],
         \A t \in Session : t # s => omx'[t] = omx[t] /\ out'[t] = out[t] /\ cb'[t] = cb[t],
         UNCHANGED <<jobq, ongoing, mgr, call, owner, ans, gone>>,
         run'.op = run.op, run'.s = run.s, run'.j = run.j,
         run.op = "abort" /\ run'.at \in AbortSteps => run.at \in AbortSteps,
         \A t \in Session : t # s => Stage(t)' = Stage(t),
         SessionOK(s)'
  PROVE  Inv'
<1>1. QueueOK'
  <2>1. QueueOK /\ owner \in [Job -> Session \cup {none}] /\ mgr' = mgr
    BY DEF Inv, Types
  <2> QED
    BY <2>1, QueueKept
<1>2. CallOK'
  BY CallKept DEF Inv
<1>3. \A t \in Session : t # s => Keeps(t)
  BY OthersKept
<1> QED
  BY <1>1, <1>2, <1>3, OneSession

\* A callback leaves the holder of job_lock where it is.
LEMMA RunKept ==
  ASSUME Inv, UNCHANGED run
  PROVE  RunOK' /\ \A t \in Session : Stage(t)' = Stage(t)
BY DEF Inv, RunOK, Stage

\* A callback's steps after the answer: the job leaves its queue, the manager hears of it.
LEMMA CallbackGoesOnInv == ASSUME Inv, NEW s \in Session, CallbackGoesOn(s) PROVE Inv'
<1>1. PICK kind \in {"fbd", "error"}, step \in 1..2 :
        cb[s] = <<kind, step>> /\ JobDone(s, step) /\ cb' = [cb EXCEPT ![s] = <<kind, step + 1>>]
  BY DEF CallbackGoesOn
<1>2. UNCHANGED <<jobq, mgr, call, run, inprogress, omx, owner, ans, gone, out>> /\ sem' = sem
  BY <1>1 DEF CallbackGoesOn, ghosts, JobDone
<1>3. /\ cb' \in [Session -> ({"fbd", "error"} \X (1..3)) \cup {Quiet}]
      /\ \A t \in Session : t # s => cb'[t] = cb[t]
      /\ cb'[s] = <<kind, step + 1>>
  <2>1. <<kind, step + 1>> \in {"fbd", "error"} \X (1..3)
    OBVIOUS
  <2> QED
    BY <1>1, <2>1 DEF Inv, Types
<1>4. SessionOK(s) /\ sess[s] \in SessionType
  BY DEF Inv, Sessions, Types
<1>5. cb[s] # Quiet /\ cb[s][2] \in {1, 2} /\ cb[s][2] # 3 /\ cb[s][1] = kind
  BY <1>1 DEF Quiet
<1>6. /\ sess[s].hq = 0 /\ ~Held(s) /\ sess[s].abort # "init" /\ omx[s].work = "none"
      /\ Stage(s) \notin {"reset", "prepare", "empty", "fail", "done1", "done2", "done3"}
      /\ Stage(s) \notin {"abort", "abwait", "abwoken"}
      /\ sess[s].client \notin {"none", "new"}
  BY <1>4, <1>5 DEF SessionOK, CallbackOK, WorkOK, EncodeOK, AbortOK, FreshOK
<1>7. RunOK' /\ \A t \in Session : Stage(t)' = Stage(t)
  BY <1>2, RunKept
<1>8. CASE step = 1
  <2> DEFINE c == [sess[s] EXCEPT !.encoding = FALSE]
  <2>1. /\ c \in SessionType /\ c.abort = sess[s].abort /\ c.client = sess[s].client
        /\ c.job = sess[s].job /\ c.hq = sess[s].hq /\ c.ref = sess[s].ref
    BY <1>4 DEF SessionType
  <2>2. /\ Changes(s, c) /\ ongoing' = Without(ongoing, {sess[s].job})
    BY <1>1, <1>8, <2>1 DEF JobDone, Changes
  <2> HIDE DEF c
  <2>3. /\ sess' \in [Session -> SessionType] /\ sess'[s] = c
        /\ \A t \in Session : t # s => sess'[t] = sess[t]
        /\ KeepsClients
    BY <2>1, <2>2, SessionChanges
  <2>4. /\ QueueOK' /\ CallOK' /\ ongoing' \in Seq(Job) /\ Len(ongoing') <= 1
        /\ \A t \in Session : t # s => KeepsJob(t)
        /\ (Unanswered(s)' <=> Unanswered(s)) /\ Failed(s)' = Failed(s)
    BY <1>2, <2>2, <2>3, JobLeaves
  <2>5. Types'
    BY <1>2, <1>3, <2>3, <2>4 DEF Inv, Types
  <2>6. ASSUME NEW t \in Session, t # s PROVE Keeps(t)
    BY <1>2, <1>3, <1>7, <2>3, <2>4, <2>6 DEF Keeps, KeepsSession, KeepsEncoder
  <2>7. ~Held(s)'
    BY <1>6, <2>1, <2>3, <2>4 DEF Held
  <2>8. cb'[s] # Quiet /\ cb'[s][1] = cb[s][1]
    BY <1>3, <1>5 DEF Quiet
  <2>9. WorkOK(s)' /\ EncodeOK(s)' /\ CallbackOK(s)' /\ FreshOK(s)'
    BY <1>2, <1>6, <1>7, <2>1, <2>3, <2>7 DEF WorkOK, EncodeOK, CallbackOK, FreshOK
  <2>10. AbortOK(s)' /\ MemoryOK(s)'
    BY <1>2, <1>4, <1>6, <1>7, <2>1, <2>3, <2>4, <2>7, <2>8 DEF SessionOK, AbortOK, MemoryOK
  <2> QED
    BY <1>7, <2>4, <2>5, <2>6, <2>9, <2>10, OneSession DEF SessionOK
<1>9. CASE step = 2
  <2> DEFINE c == [sess[s] EXCEPT !.hq = sess[s].hq + 1]
  <2>1. /\ c \in SessionType /\ c.abort = sess[s].abort /\ c.client = sess[s].client
        /\ c.job = sess[s].job /\ c.encoding = sess[s].encoding /\ c.ref = sess[s].ref
    BY <1>4, <1>6 DEF SessionType
  <2>2. /\ Changes(s, c) /\ ongoing' = ongoing
    BY <1>1, <1>9, <2>1 DEF JobDone, Changes
  <2> HIDE DEF c
  <2>3. /\ sess' \in [Session -> SessionType] /\ sess'[s] = c
        /\ \A t \in Session : t # s => sess'[t] = sess[t]
        /\ KeepsClients
    BY <2>1, <2>2, SessionChanges
  <2>4. Types'
    BY <1>2, <1>3, <2>2, <2>3 DEF Inv, Types
  <2>5. ~Held(s)' /\ Failed(s)' = Failed(s)
    BY <1>2, <1>6, <2>1, <2>2, <2>3, Keeping DEF Held
  <2>6. cb'[s] # Quiet /\ cb'[s][1] = cb[s][1] /\ cb'[s][2] = 3
    BY <1>3, <1>5, <1>9 DEF Quiet
  <2>7. WorkOK(s)' /\ EncodeOK(s)' /\ CallbackOK(s)' /\ FreshOK(s)'
    BY <1>2, <1>6, <1>7, <2>1, <2>3, <2>5, <2>6 DEF WorkOK, EncodeOK, CallbackOK, FreshOK
  <2>8. AbortOK(s)' /\ MemoryOK(s)'
    BY <1>2, <1>4, <1>6, <1>7, <2>1, <2>3, <2>5, <2>6 DEF SessionOK, AbortOK, MemoryOK
  <2>9. SessionOK(s)'
    BY <2>7, <2>8 DEF SessionOK
  <2> QED
    BY <1>2, <1>3, <1>7, <2>2, <2>3, <2>4, <2>9, EventChanges
<1> QED
  BY <1>8, <1>9

LEMMA CallbackEndsInv == ASSUME Inv, NEW s \in Session, CallbackEnds(s) PROVE Inv'
<1>1. /\ cb[s][2] = 3 /\ sem' = sem + 1 /\ cb' = [cb EXCEPT ![s] = Quiet]
      /\ UNCHANGED <<jobq, ongoing, mgr, call, inprogress, omx, owner, ans, gone, out>>
  BY DEF CallbackEnds, ghosts
<1>2. /\ cb' \in [Session -> ({"fbd", "error"} \X (1..3)) \cup {Quiet}]
      /\ \A t \in Session : t # s => cb'[t] = cb[t]
      /\ cb'[s] = Quiet
  BY <1>1 DEF Inv, Types
<1>3. SessionOK(s) /\ sess[s] \in SessionType
  BY DEF Inv, Sessions, Types
<1>4. cb[s] # Quiet
  BY <1>1 DEF Quiet
<1>5. /\ ~Held(s) /\ sess[s].abort # "init" /\ omx[s].work = "none"
      /\ Stage(s) \notin {"prepare", "empty", "fail", "done1", "done2", "done3"}
      /\ Stage(s) \notin {"abort", "abwait", "abwoken"}
      /\ sess[s].client \notin {"none", "new"}
  BY <1>3, <1>4 DEF SessionOK, CallbackOK, WorkOK, EncodeOK, AbortOK, FreshOK
<1>6. CASE cb[s][1] = "fbd" /\ sess' = [sess EXCEPT ![s].ref = FALSE] /\ UNCHANGED run
  <2> DEFINE c == [sess[s] EXCEPT !.ref = FALSE]
  <2>1. /\ c \in SessionType /\ c.abort = sess[s].abort /\ c.client = sess[s].client
        /\ c.job = sess[s].job /\ c.hq = sess[s].hq /\ ~c.ref
    BY <1>3 DEF SessionType
  <2>2. Changes(s, c)
    BY <1>6, <2>1 DEF Changes
  <2> HIDE DEF c
  <2>3. /\ sess' \in [Session -> SessionType] /\ sess'[s] = c
        /\ \A t \in Session : t # s => sess'[t] = sess[t]
        /\ KeepsClients
    BY <2>1, <2>2, SessionChanges
  <2>4. RunOK' /\ \A t \in Session : Stage(t)' = Stage(t)
    BY <1>6, RunKept
  <2>5. Types'
    BY <1>1, <1>2, <1>6, <2>3 DEF Inv, Types
  <2>6. /\ ~Held(s)' /\ Failed(s)' = Failed(s)
        /\ (Unanswered(s)' <=> Unanswered(s)) /\ (Underway(sess[s].job)' <=> Underway(sess[s].job))
    BY <1>1, <1>5, <2>1, <2>3, Keeping
  <2>7. WorkOK(s)' /\ EncodeOK(s)' /\ CallbackOK(s)' /\ FreshOK(s)'
    BY <1>1, <1>2, <1>3, <1>5, <2>1, <2>3, <2>4, <2>6
       DEF SessionOK, WorkOK, EncodeOK, CallbackOK, FreshOK
  <2>8. AbortOK(s)' /\ MemoryOK(s)'
    BY <1>1, <1>3, <1>5, <2>1, <2>3, <2>4, <2>6 DEF SessionOK, AbortOK, MemoryOK
  <2>9. SessionOK(s)'
    BY <2>7, <2>8 DEF SessionOK
  <2> QED
    BY <1>1, <1>2, <1>6, <2>3, <2>4, <2>5, <2>9, EventChanges
<1>7. CASE cb[s][1] # "fbd" /\ run' = Signalled(run, s) /\ UNCHANGED sess
  <2>1. /\ RunOK' /\ run' \in RunType
        /\ run'.op = run.op /\ run'.s = run.s /\ run'.j = run.j
        /\ run.op = "abort" /\ run'.at \in AbortSteps => run.at \in AbortSteps
        /\ \A t \in Session : Stage(t)' = Stage(t)
    BY <1>5, <1>7, SignalledIs
  <2>2. Types'
    BY <1>1, <1>2, <1>7, <2>1 DEF Inv, Types
  <2>3. /\ ~Held(s)' /\ Failed(s)' = Failed(s)
        /\ (Unanswered(s)' <=> Unanswered(s)) /\ (Underway(sess[s].job)' <=> Underway(sess[s].job))
    BY <1>1, <1>5, <1>7, Keeping DEF Held
  <2>4. WorkOK(s)' /\ EncodeOK(s)' /\ CallbackOK(s)' /\ FreshOK(s)'
    BY <1>1, <1>2, <1>3, <1>5, <1>7, <2>1, <2>3
       DEF SessionOK, WorkOK, EncodeOK, CallbackOK, FreshOK
  <2>5. AbortOK(s)' /\ MemoryOK(s)'
    BY <1>1, <1>3, <1>5, <1>7, <2>1, <2>3 DEF SessionOK, AbortOK, MemoryOK
  <2>6. SessionOK(s)'
    BY <2>4, <2>5 DEF SessionOK
  <2> QED
    BY <1>1, <1>2, <1>7, <2>1, <2>2, <2>6, EventChanges DEF KeepsClients
<1> QED
  BY <1>6, <1>7 DEF CallbackEnds

\* The encoder asks the client for output memory.
LEMMA GetMemInv == ASSUME Inv, NEW s \in Session, GetMem(s) PROVE Inv'
<1>1. /\ omx[s].work = "both" /\ ~omx[s].mem /\ out' = [out EXCEPT ![s] = out[s] + 1]
      /\ UNCHANGED <<jobq, ongoing, sem, mgr, call, run, inprogress, cb, owner, ans, gone>>
  BY DEF GetMem
<1>2. SessionOK(s) /\ sess[s] \in SessionType /\ omx[s] \in EncoderType /\ out[s] \in Nat
  BY DEF Inv, Sessions, Types
<1>3. /\ sess[s].hq = 0 /\ Unanswered(s) /\ cb[s] = Quiet /\ ~sess[s].ref /\ ~Held(s)
      /\ Stage(s) \in {"other", "ab1", "abort", "abwait"} /\ sess[s].client \notin {"none", "new"}
  BY <1>1, <1>2 DEF SessionOK, WorkOK, FreshOK, Held
<1> DEFINE c == [sess[s] EXCEPT !.ref = TRUE]
           e == [omx[s] EXCEPT !.mem = TRUE]
<1>4. /\ c \in SessionType /\ c.abort = sess[s].abort /\ c.client = sess[s].client /\ c.ref
      /\ c.job = sess[s].job /\ c.hq = sess[s].hq /\ c.encoding = sess[s].encoding
  BY <1>2 DEF SessionType
<1>5. e \in EncoderType /\ e.work = omx[s].work /\ e.cmd = omx[s].cmd /\ e.mem
  BY <1>2 DEF EncoderType
<1>6. Changes(s, c) /\ omx' = [omx EXCEPT ![s] = e]
  BY <1>4 DEF GetMem, Changes
<1> HIDE DEF c, e
<1>7. /\ sess' \in [Session -> SessionType] /\ sess'[s] = c
      /\ \A t \in Session : t # s => sess'[t] = sess[t]
      /\ KeepsClients
  BY <1>4, <1>6, SessionChanges
<1>8. /\ omx' \in [Session -> EncoderType] /\ omx'[s] = e
      /\ \A t \in Session : t # s => omx'[t] = omx[t]
  BY <1>5, <1>6, EncoderChanges
<1>9. /\ out' \in [Session -> Nat] /\ out'[s] = out[s] + 1
      /\ \A t \in Session : t # s => out'[t] = out[t]
  BY <1>1, <1>2 DEF Inv, Types
<1>10. RunOK' /\ \A t \in Session : Stage(t)' = Stage(t)
  BY <1>1, RunKept
<1>11. Types'
  BY <1>1, <1>7, <1>8, <1>9 DEF Inv, Types
<1>12. /\ Held(s)' /\ Failed(s)' = Failed(s) /\ (Unanswered(s)' <=> Unanswered(s))
       /\ (Underway(sess[s].job)' <=> Underway(sess[s].job))
  BY <1>1, <1>3, <1>4, <1>7, Keeping
<1>13. WorkOK(s)' /\ EncodeOK(s)' /\ CallbackOK(s)' /\ FreshOK(s)'
  BY <1>1, <1>2, <1>3, <1>4, <1>5, <1>7, <1>8, <1>10, <1>12
     DEF SessionOK, WorkOK, EncodeOK, CallbackOK, FreshOK
<1>14. AbortOK(s)'
  BY <1>1, <1>2, <1>3, <1>4, <1>7, <1>10 DEF SessionOK, AbortOK
<1>15. MemoryOK(s)'
  <2>1. Cardinality(Failed(s)) \in Nat
    BY FailedIsFinite
  <2> QED
    BY <1>1, <1>2, <1>3, <1>4, <1>5, <1>7, <1>8, <1>9, <1>12, <2>1 DEF SessionOK, MemoryOK
<1>16. SessionOK(s)'
  BY <1>13, <1>14, <1>15 DEF SessionOK
<1> QED
  BY <1>1, <1>7, <1>8, <1>9, <1>10, <1>11, <1>16, EventChanges

\* A job the encoder works on waits in no queue, and its client has not been told.
LEMMA WorkIsUnanswered ==
  ASSUME Inv, NEW s \in Session, omx[s].work # "none"
  PROVE  /\ Unanswered(s) /\ sess[s].job \in Job /\ sess[s].job \notin gone
         /\ owner[sess[s].job] = s /\ ~Waiting(sess[s].job) /\ s # none
         /\ call.op = "destroy" => call.s # s
<1>1. /\ Unanswered(s) /\ sess[s].job \notin gone
      /\ Underway(sess[s].job) \/ Stage(s) \in {"ab1", "abort", "abwait"}
  BY DEF Inv, Sessions, SessionOK, WorkOK
<1>2. sess[s].job \in Job /\ owner[sess[s].job] = s /\ s # none
  BY <1>1, MmJpegAssumption DEF Unanswered, Inv, QueueOK, Job
<1>3. call.op = "destroy" => call.s # s
  BY <1>1, <1>2 DEF Inv, CallOK, Of, Finished, Unanswered
<1>4. Stage(s) \in {"ab1", "abort", "abwait"} => ~Waiting(sess[s].job)
  <2>1. ASSUME Stage(s) \in {"ab1", "abort", "abwait"} PROVE run.s = s /\ run.at \in AbortSteps
    BY <2>1 DEF Stage, AbortSteps, Inv, Types, RunType, Preparing, Unloading
  <2>2. ASSUME Stage(s) \in {"ab1", "abort", "abwait"} PROVE run.op \in {"abort", "destroy"}
    BY <2>1, <2>2 DEF Inv, RunOK, Types, RunType, StepsOf, AbortSteps, Preparing
  <2> QED
    BY <1>3, <2>1, <2>2 DEF Inv, CallOK
<1>5. ~Waiting(sess[s].job)
  BY <1>1, <1>2, <1>4 DEF Inv, QueueOK
<1> QED
  BY <1>1, <1>2, <1>3, <1>5

\* A step of the encoder of s that answers the session's job.
LEMMA AnswerChanges ==
  ASSUME Inv, NEW s \in Session, omx[s].work # "none", NEW a \in {"done", "error"},
         ans' = [ans EXCEPT ![sess[s].job] = a],
         Types', KeepsClients, UNCHANGED <<jobq, ongoing, mgr, call, run, owner, gone>>,
         \A t \in Session : t # s => sess'[t] = sess[t],
         \A t \in Session : t # s => omx'[t] = omx[t] /\ out'[t] = out[t] /\ cb'[t] = cb[t],
         SessionOK(s)'
  PROVE  Inv'
<1>1. /\ Unanswered(s) /\ sess[s].job \in Job /\ ~Waiting(sess[s].job)
      /\ owner[sess[s].job] = s /\ s # none
  BY WorkIsUnanswered
<1>2. /\ \A t \in Session : t # s => (Unanswered(t)' <=> Unanswered(t)) /\ Failed(t)' = Failed(t)
      /\ \A j \in Job : ans[j] # "none" => ans'[j] # "none"
      /\ \A j \in Job : ans'[j] # ans[j] => j = sess[s].job
  BY <1>1, Answering
<1>3. RunOK' /\ \A t \in Session : Stage(t)' = Stage(t)
  BY RunKept
<1>4. QueueOK'
  <2>1. QueueOK /\ owner \in [Job -> Session \cup {none}] /\ mgr' = mgr
    BY DEF Inv, Types
  <2>2. \A j \in Job : ans'[j] # ans[j] => owner[j] # none /\ ~Waiting(j)
    BY <1>1, <1>2
  <2> QED
    BY <2>1, <2>2, QueueKept
<1>5. CallOK'
  BY <1>2, CallKept DEF Inv
<1>6. ASSUME NEW t \in Session, t # s PROVE Keeps(t)
  <2>1. sess'[t] = sess[t] /\ omx'[t] = omx[t] /\ out'[t] = out[t] /\ cb'[t] = cb[t]
    BY <1>6
  <2>2. KeepsJob(t)
    BY <1>2, <1>6, <2>1 DEF KeepsJob, Underway
  <2> QED
    BY <1>3, <2>1, <2>2 DEF Keeps, KeepsSession, KeepsEncoder
<1> QED
  BY <1>3, <1>4, <1>5, <1>6, OneSession

\* A callback begins.
LEMMA CallbackBegins ==
  ASSUME Inv, NEW s \in Session, NEW kind \in {"fbd", "error"}, cb' = [cb EXCEPT ![s] = <<kind, 1>>]
  PROVE  /\ cb' \in [Session -> ({"fbd", "error"} \X (1..3)) \cup {Quiet}]
         /\ cb'[s] # Quiet /\ cb'[s][1] = kind
         /\ \A t \in Session : t # s => cb'[t] = cb[t]
<1>1. cb \in [Session -> ({"fbd", "error"} \X (1..3)) \cup {Quiet}]
  BY DEF Inv, Types
<1>2. <<kind, 1>> \in {"fbd", "error"} \X (1..3)
  OBVIOUS
<1>3. cb'[s] = <<kind, 1>>
  BY <1>1
<1>4. cb'[s] # Quiet /\ cb'[s][1] = kind
  BY <1>3 DEF Quiet
<1> QED
  BY <1>1, <1>2, <1>4

\* mm_jpeg_fbd: the picture is done, or was aborted.
LEMMA FillBufferDoneInv == ASSUME Inv, NEW s \in Session, FillBufferDone(s) PROVE Inv'
<1>1. /\ omx[s].work = "both" /\ cb[s] = Quiet
      /\ UNCHANGED <<jobq, ongoing, sem, mgr, call, run, sess, inprogress, owner, gone>>
  BY DEF FillBufferDone, Unlocked
<1>2. SessionOK(s) /\ sess[s] \in SessionType /\ omx[s] \in EncoderType /\ out[s] \in Nat
  BY DEF Inv, Sessions, Types
<1>3. /\ sess[s].hq = 0 /\ Unanswered(s) /\ cb[s] = Quiet /\ sess[s].abort # "done"
      /\ Stage(s) \in {"other", "ab1", "abort", "abwait"} /\ sess[s].client \notin {"none", "new"}
  BY <1>1, <1>2 DEF SessionOK, WorkOK, FreshOK
<1> DEFINE e == [omx[s] EXCEPT !.work = "none"]
<1>4. e \in EncoderType /\ e.work = "none"
  BY <1>2 DEF EncoderType
<1>5. omx' = [omx EXCEPT ![s] = e]
  BY DEF FillBufferDone
<1> HIDE DEF e
<1>6. /\ omx' \in [Session -> EncoderType] /\ omx'[s] = e
      /\ \A t \in Session : t # s => omx'[t] = omx[t]
  BY <1>4, <1>5, EncoderChanges
<1>7. RunOK' /\ (\A t \in Session : Stage(t)' = Stage(t)) /\ KeepsClients
  BY <1>1, RunKept DEF KeepsClients
<1>8. CASE sess[s].abort # "none" /\ UNCHANGED <<cb, ans, out>>
  <2>1. Types'
    BY <1>1, <1>6, <1>8 DEF Inv, Types
  <2>2. /\ (Held(s)' <=> Held(s)) /\ Failed(s)' = Failed(s)
    BY <1>1, <1>8, Keeping DEF Held
  <2>3. sess[s].abort = "init" /\ Stage(s) \in {"abort", "abwait"}
    BY <1>2, <1>3, <1>8 DEF SessionOK, AbortOK, SessionType
  <2>4. WorkOK(s)' /\ EncodeOK(s)' /\ CallbackOK(s)' /\ FreshOK(s)'
    BY <1>1, <1>3, <1>4, <1>6, <1>7, <1>8, <2>3 DEF WorkOK, EncodeOK, CallbackOK, FreshOK
  <2>5. AbortOK(s)'
    BY <1>1, <1>3, <1>7, <1>8, <2>3 DEF AbortOK
  <2>6. MemoryOK(s)'
    BY <1>1, <1>2, <1>3, <1>7, <1>8, <2>2, <2>3 DEF SessionOK, MemoryOK
  <2>7. SessionOK(s)'
    BY <2>4, <2>5, <2>6 DEF SessionOK
  <2> QED
    BY <1>1, <1>6, <1>7, <1>8, <2>1, <2>7, EventChanges
<1>9. CASE sess[s].abort = "none" /\ Answer(s, "done") /\ cb' = [cb EXCEPT ![s] = <<"fbd", 1>>]
  <2>1. /\ ans' = [ans EXCEPT ![sess[s].job] = "done"]
        /\ out' = IF sess[s].ref THEN [out EXCEPT ![s] = out[s] - 1] ELSE out
    BY <1>9 DEF Answer
  <2>2. /\ ans' \in [Job -> {"none", "done", "error"}]
        /\ ~Unanswered(s)' /\ Failed(s)' = Failed(s)
    BY <1>1, <1>3, <1>7, <2>1, Answering
  <2>3. /\ cb' \in [Session -> ({"fbd", "error"} \X (1..3)) \cup {Quiet}]
        /\ cb'[s] # Quiet /\ cb'[s][1] = "fbd"
        /\ \A t \in Session : t # s => cb'[t] = cb[t]
    BY <1>9, CallbackBegins
  <2>4. Cardinality(Failed(s)) \in Nat /\ (sess[s].ref => out[s] >= 1 /\ Held(s))
        /\ out[s] <= Cardinality(Failed(s)) + (IF Held(s) THEN 1 ELSE 0)
    <3>1. cb[s][1] # "fbd"
      BY <1>1 DEF Quiet
    <3> QED
      BY <1>2, <1>3, <3>1, FailedIsFinite DEF SessionOK, MemoryOK, Held
  <2>5. /\ out' \in [Session -> Nat] /\ out'[s] <= Cardinality(Failed(s))
        /\ \A t \in Session : t # s => out'[t] = out[t]
    <3>1. out \in [Session -> Nat]
      BY DEF Inv, Types
    <3>2. CASE sess[s].ref
      <4>1. out[s] - 1 \in Nat /\ out[s] - 1 <= Cardinality(Failed(s))
        BY <1>2, <2>4, <3>2
      <4> QED
        BY <2>1, <3>1, <3>2, <4>1
    <3>3. CASE ~sess[s].ref
      BY <1>2, <2>1, <2>4, <3>1, <3>3 DEF Held
    <3> QED
      BY <3>2, <3>3
  <2>6. Types'
    BY <1>1, <1>6, <2>2, <2>3, <2>5 DEF Inv, Types
  <2>7. ~Held(s)'
    BY <2>2 DEF Held
  <2>8. Stage(s) \in {"other", "ab1"}
    BY <1>2, <1>3, <1>9 DEF SessionOK, AbortOK
  <2>9. WorkOK(s)' /\ EncodeOK(s)' /\ CallbackOK(s)' /\ FreshOK(s)'
    BY <1>1, <1>3, <1>4, <1>6, <1>7, <1>9, <2>7, <2>8 DEF WorkOK, EncodeOK, CallbackOK, FreshOK
  <2>10. AbortOK(s)'
    BY <1>1, <1>7, <1>9, <2>8 DEF AbortOK
  <2>11. MemoryOK(s)'
    BY <2>2, <2>3, <2>4, <2>5, <2>7 DEF MemoryOK
  <2>12. SessionOK(s)'
    BY <2>9, <2>10, <2>11 DEF SessionOK
  <2> QED
    BY <1>1, <1>6, <1>7, <2>1, <2>3, <2>5, <2>6, <2>12, AnswerChanges
<1> QED
  BY <1>8, <1>9 DEF FillBufferDone

\* The event that ends an abort under way.
LEMMA AbortEnds ==
  ASSUME Inv, NEW s \in Session, sess[s].abort = "init",
         sess' = [sess EXCEPT ![s].abort = "done"],
         NEW e \in EncoderType, e.work = "none", omx' = [omx EXCEPT ![s] = e],
         run' = Signalled(run, s),
         UNCHANGED <<jobq, ongoing, sem, mgr, call, inprogress, cb, owner, ans, gone, out>>
  PROVE  Inv'
<1>1. SessionOK(s) /\ sess[s] \in SessionType /\ out[s] \in Nat
  BY DEF Inv, Sessions, Types
<1>2. /\ Stage(s) \in {"abort", "abwait"} /\ cb[s] = Quiet
  BY <1>1 DEF SessionOK, AbortOK
<1> DEFINE c == [sess[s] EXCEPT !.abort = "done"]
<1>3. /\ c \in SessionType /\ c.abort = "done" /\ c.client = sess[s].client /\ c.ref = sess[s].ref
      /\ c.job = sess[s].job /\ c.hq = sess[s].hq /\ c.encoding = sess[s].encoding
  BY <1>1 DEF SessionType
<1>4. Changes(s, c)
  BY <1>3 DEF Changes
<1> HIDE DEF c
<1>5. /\ sess' \in [Session -> SessionType] /\ sess'[s] = c
      /\ \A t \in Session : t # s => sess'[t] = sess[t]
      /\ KeepsClients
  BY <1>3, <1>4, SessionChanges
<1>6. /\ omx' \in [Session -> EncoderType] /\ omx'[s] = e
      /\ \A t \in Session : t # s => omx'[t] = omx[t]
  BY EncoderChanges
<1>7. /\ RunOK' /\ run' \in RunType
      /\ run'.op = run.op /\ run'.s = run.s /\ run'.j = run.j
      /\ run.op = "abort" /\ run'.at \in AbortSteps => run.at \in AbortSteps
      /\ \A t \in Session : t # s => Stage(t)' = Stage(t)
      /\ Stage(s)' \in {"abort", "abwoken"}
  BY <1>2, SignalledIs
<1>8. Types'
  BY <1>5, <1>6, <1>7 DEF Inv, Types
<1>9. /\ (Held(s)' <=> Held(s)) /\ Failed(s)' = Failed(s)
  BY <1>3, <1>5, Keeping DEF Held
<1>10. WorkOK(s)' /\ EncodeOK(s)' /\ CallbackOK(s)'
  BY <1>2, <1>6, <1>7 DEF WorkOK, EncodeOK, CallbackOK
<1>11. AbortOK(s)' /\ FreshOK(s)'
  BY <1>1, <1>2, <1>3, <1>5, <1>6, <1>7 DEF SessionOK, AbortOK, FreshOK
<1>12. MemoryOK(s)'
  BY <1>1, <1>2, <1>3, <1>5, <1>7, <1>9 DEF SessionOK, MemoryOK
<1>13. SessionOK(s)'
  BY <1>10, <1>11, <1>12 DEF SessionOK
<1> QED
  BY <1>5, <1>6, <1>7, <1>8, <1>13, EventChanges

\* mm_jpeg_event_handler, an error: the job failed, or was aborted.
LEMMA EventErrorInv ==
  ASSUME OrderlyEncoder, Inv, Encodings, NEW s \in Session, EventError(s)
  PROVE  Inv'
<1>1. /\ cb[s] = Quiet
      /\ sess[s].abort # "done"
      /\ ~HandedOver(s)
      /\ UNCHANGED <<jobq, ongoing, sem, mgr, call, inprogress, owner, gone>>
  BY DEF EventError, Unlocked
<1>2. SessionOK(s) /\ sess[s] \in SessionType /\ omx[s] \in EncoderType /\ out[s] \in Nat
  BY DEF Inv, Sessions, Types
<1> DEFINE cmd == IF omx[s].work = "none" THEN "none" ELSE omx[s].cmd
           e == [omx[s] EXCEPT !.work = "none", !.cmd = cmd]
           c == [sess[s] EXCEPT !.error = TRUE]
<1>3. e \in EncoderType /\ e.work = "none" /\ e.mem = omx[s].mem
  BY <1>2 DEF EncoderType
<1>4. omx' = [omx EXCEPT ![s] = e]
  BY DEF EventError
<1>5. /\ c \in SessionType /\ c.abort = sess[s].abort /\ c.client = sess[s].client
      /\ c.ref = sess[s].ref /\ c.job = sess[s].job /\ c.hq = sess[s].hq
      /\ c.encoding = sess[s].encoding
  BY <1>2 DEF SessionType
<1> HIDE DEF e, cmd
<1>6. /\ omx' \in [Session -> EncoderType] /\ omx'[s] = e
      /\ \A t \in Session : t # s => omx'[t] = omx[t]
  BY <1>3, <1>4, EncoderChanges
<1>7. CASE /\ sess[s].abort = "init" /\ sess' = [sess EXCEPT ![s].abort = "done"]
           /\ run' = Signalled(run, s) /\ UNCHANGED <<cb, ans, out>>
  BY <1>1, <1>3, <1>4, <1>7, AbortEnds
<1>8. ASSUME sess' = [sess EXCEPT ![s].error = TRUE]
      PROVE  /\ sess' \in [Session -> SessionType] /\ sess'[s] = c
             /\ \A t \in Session : t # s => sess'[t] = sess[t]
             /\ KeepsClients
  <2>1. Changes(s, c)
    BY <1>5, <1>8 DEF Changes
  <2> HIDE DEF c
  <2> QED
    BY <1>5, <2>1, SessionChanges
<1> HIDE DEF c
<1>9. CASE /\ sess[s].abort # "init" /\ sess[s].encoding
           /\ sess' = [sess EXCEPT ![s].error = TRUE]
           /\ Answer(s, "error") /\ cb' = [cb EXCEPT ![s] = <<"error", 1>>] /\ UNCHANGED run
  <2>1. sess[s].abort = "none" /\ omx[s].work # "none"
    <3>1. sess[s].abort = "none" /\ cb[s][2] # 1 /\ EncodingOK(s)
      BY <1>1, <1>2, <1>9 DEF SessionType, Quiet, Encodings
    <3> QED
      BY <1>1, <1>9, <3>1 DEF EncodingOK, HandedOver, HandOver
  <2>2. /\ Unanswered(s) /\ sess[s].hq = 0 /\ sess[s].client \notin {"none", "new"}
        /\ Stage(s) \in {"fill", "other", "ab1"}
    BY <1>2, <2>1 DEF SessionOK, WorkOK, FreshOK, AbortOK, EncoderType
  <2>3. /\ sess' \in [Session -> SessionType] /\ sess'[s] = c
        /\ \A t \in Session : t # s => sess'[t] = sess[t]
        /\ KeepsClients
    BY <1>8, <1>9
  <2>4. ans' = [ans EXCEPT ![sess[s].job] = "error"] /\ out' = out
    BY <1>9 DEF Answer
  <2>5. /\ ans' \in [Job -> {"none", "done", "error"}]
        /\ ~Unanswered(s)' /\ Cardinality(Failed(s)') = Cardinality(Failed(s)) + 1
    BY <1>1, <2>2, <2>3, <2>4, Answering
  <2>6. /\ cb' \in [Session -> ({"fbd", "error"} \X (1..3)) \cup {Quiet}]
        /\ cb'[s] # Quiet /\ cb'[s][1] = "error"
        /\ \A t \in Session : t # s => cb'[t] = cb[t]
    BY <1>9, CallbackBegins
  <2>7. RunOK' /\ \A t \in Session : Stage(t)' = Stage(t)
    BY <1>9, RunKept
  <2>8. Types'
    BY <1>1, <1>6, <1>9, <2>3, <2>4, <2>5, <2>6 DEF Inv, Types
  <2>9. ~Held(s)'
    BY <2>5 DEF Held
  <2>10. WorkOK(s)' /\ EncodeOK(s)' /\ CallbackOK(s)' /\ FreshOK(s)'
    BY <1>3, <1>5, <1>6, <2>1, <2>2, <2>3, <2>7, <2>9 DEF WorkOK, EncodeOK, CallbackOK, FreshOK
  <2>11. AbortOK(s)'
    BY <1>5, <2>1, <2>2, <2>3, <2>7 DEF AbortOK
  <2>12. MemoryOK(s)'
    <3>1. Cardinality(Failed(s)) \in Nat
      BY FailedIsFinite
    <3>2. cb[s][1] # "fbd"
      BY <1>1 DEF Quiet
    <3>3. /\ sess[s].ref => out[s] >= 1
          /\ out[s] <= Cardinality(Failed(s)) + (IF Held(s) THEN 1 ELSE 0)
      BY <1>2, <3>2 DEF SessionOK, MemoryOK
    <3> QED
      BY <1>2, <1>5, <2>3, <2>4, <2>5, <2>9, <3>1, <3>3 DEF MemoryOK
  <2>13. SessionOK(s)'
    BY <2>10, <2>11, <2>12 DEF SessionOK
  <2> QED
    BY <1>1, <1>6, <1>9, <2>1, <2>3, <2>4, <2>6, <2>8, <2>13, AnswerChanges
<1>10. CASE /\ sess[s].abort # "init" /\ ~sess[s].encoding
            /\ sess' = [sess EXCEPT ![s].error = TRUE]
            /\ run' = Signalled(run, s) /\ UNCHANGED <<cb, ans, out>>
  <2>1. omx[s].work = "none" /\ Stage(s) # "abwait"
    BY <1>2, <1>10 DEF SessionOK, WorkOK, AbortOK
  <2>2. /\ sess' \in [Session -> SessionType] /\ sess'[s] = c
        /\ \A t \in Session : t # s => sess'[t] = sess[t]
        /\ KeepsClients
    BY <1>8, <1>10
  <2>3. /\ RunOK' /\ run' \in RunType
        /\ run'.op = run.op /\ run'.s = run.s /\ run'.j = run.j
        /\ run.op = "abort" /\ run'.at \in AbortSteps => run.at \in AbortSteps
        /\ \A t \in Session : Stage(t)' = Stage(t)
    BY <1>10, <2>1, SignalledIs
  <2>4. Types'
    BY <1>1, <1>6, <1>10, <2>2, <2>3 DEF Inv, Types
  <2>5. \A t \in Session : KeepsSession(t) /\ KeepsEncoder(t)
    BY <1>3, <1>5, <1>6, <2>1, <2>2 DEF KeepsSession, KeepsEncoder
  <2> QED
    BY <1>1, <1>10, <2>2, <2>3, <2>4, <2>5, HolderGoesOn
<1> QED
  BY <1>7, <1>9, <1>10 DEF EventError

\* mm_jpeg_event_handler, a command is complete.
LEMMA EventCmdCompleteInv == ASSUME Inv, NEW s \in Session, EventCmdComplete(s) PROVE Inv'
<1>1. /\ cb[s] = Quiet /\ omx[s].cmd # "none"
      /\ UNCHANGED <<jobq, ongoing, sem, mgr, call, inprogress, cb, owner, ans, gone, out>>
  BY DEF EventCmdComplete, Unlocked, ghosts
<1>2. SessionOK(s) /\ sess[s] \in SessionType /\ omx[s] \in EncoderType
  BY DEF Inv, Sessions, Types
<1> DEFINE work == IF omx[s].cmd = "idle" THEN "none" ELSE omx[s].work
           e == [omx[s] EXCEPT !.state = omx[s].cmd, !.cmd = "none", !.work = work]
           c == [sess[s] EXCEPT !.pending = FALSE]
<1>3. work = "none"
  BY <1>1, <1>2 DEF SessionOK, WorkOK
<1>4. e \in EncoderType /\ e.work = "none" /\ e.mem = omx[s].mem
  BY <1>1, <1>2, <1>3 DEF EncoderType
<1>5. omx' = [omx EXCEPT ![s] = e]
  BY DEF EventCmdComplete
<1>6. /\ c \in SessionType /\ c.abort = sess[s].abort /\ c.client = sess[s].client
      /\ c.ref = sess[s].ref /\ c.job = sess[s].job /\ c.hq = sess[s].hq
      /\ c.encoding = sess[s].encoding
  BY <1>2 DEF SessionType
<1> HIDE DEF e, work
<1>7. /\ omx' \in [Session -> EncoderType] /\ omx'[s] = e
      /\ \A t \in Session : t # s => omx'[t] = omx[t]
  BY <1>4, <1>5, EncoderChanges
<1>8. CASE sess[s].abort = "init"
  <2>1. sess' = [sess EXCEPT ![s].abort = "done"] /\ run' = Signalled(run, s)
    BY <1>8 DEF EventCmdComplete
  <2> QED
    BY <1>1, <1>4, <1>5, <1>8, <2>1, AbortEnds
<1>9. CASE sess[s].abort # "init"
  <2>1. Changes(s, c) /\ (run' = run \/ run' = Signalled(run, s))
    BY <1>6, <1>9 DEF EventCmdComplete, Changes
  <2> HIDE DEF c
  <2>2. /\ sess' \in [Session -> SessionType] /\ sess'[s] = c
        /\ \A t \in Session : t # s => sess'[t] = sess[t]
        /\ KeepsClients
    BY <1>6, <2>1, SessionChanges
  <2>3. Stage(s) # "abwait"
    BY <1>2, <1>9 DEF SessionOK, AbortOK
  <2>4. /\ RunOK' /\ run' \in RunType
        /\ run'.op = run.op /\ run'.s = run.s /\ run'.j = run.j
        /\ run.op = "abort" /\ run'.at \in AbortSteps => run.at \in AbortSteps
        /\ \A t \in Session : Stage(t)' = Stage(t)
    <3>1. CASE run' = run
      BY <3>1, RunKept DEF Inv, Types
    <3>2. CASE run' = Signalled(run, s)
      BY <2>3, <3>2, SignalledIs
    <3> QED
      BY <2>1, <3>1, <3>2
  <2>5. Types'
    BY <1>1, <1>7, <2>2, <2>4 DEF Inv, Types
  <2>6. omx[s].work = "none"
    BY <1>1, <1>2, <1>9 DEF SessionOK, WorkOK
  <2>7. \A t \in Session : KeepsSession(t) /\ KeepsEncoder(t)
    BY <1>4, <1>6, <1>7, <2>2, <2>6 DEF KeepsSession, KeepsEncoder
  <2> QED
    BY <1>1, <2>2, <2>4, <2>5, <2>7, HolderGoesOn
<1> QED
  BY <1>8, <1>9

-----------------------------------------------------------------------------
(* Aborts and the end of a session. *)

\* The holder is in an abort of session s.
Aborting(s) ==
  /\ run.s = s /\ run.at \in AbortSteps /\ run.cs = "none" /\ run.op \in {"abort", "destroy"}
  /\ run \in RunType

\* Where the abortion of a job is.
LEMMA AbortStepIs ==
  ASSUME Inv, NEW a \in AbortSteps, Is(a)
  PROVE  run.s \in Session /\ Aborting(run.s) /\ run.at = a
<1>1. a # "free"
  BY DEF AbortSteps
<1>2. run.s \in Session /\ run.at = a /\ run.cs = "none" /\ a \in StepsOf(run.op) /\ run \in RunType
      /\ run.op \in {"create", "abort", "destroy", "encode"}
  BY <1>1, HolderIs
<1>3. run.op \in {"abort", "destroy"}
  BY <1>2 DEF StepsOf, AbortSteps, Preparing
<1> QED
  BY <1>2, <1>3 DEF Aborting

\* And where it goes on.
LEMMA AfterAbortIs ==
  ASSUME Inv, NEW s \in Session, Aborting(s), GoTo(AfterAbort)
  PROVE  /\ RunOK' /\ run' \in RunType
         /\ run'.op = run.op /\ run'.s = run.s /\ run'.j = run.j
         /\ run.op = "abort" /\ run'.at \in AbortSteps => run.at \in AbortSteps
         /\ Stage(s)' \in {"other", "unload"}
<1> DEFINE a == AfterAbort
<1>1. a \in StepsOf(run.op) /\ run.op # "none" /\ run.cs = "none" /\ a \in Unloading
      /\ (run.op = "abort" => a = "return")
  BY DEF AfterAbort, StepsOf, Unloading, Aborting
<1> HIDE DEF a
<1>2. /\ RunOK' /\ run' \in RunType /\ run'.at = a
      /\ run'.op = run.op /\ run'.s = run.s /\ run'.j = run.j
  BY <1>1, GoingOn DEF a
<1>3. Stage(s)' \in {"other", "unload"}
  BY <1>1, <1>2 DEF Aborting, Stage, Preparing, Unloading
<1> QED
  BY <1>2, <1>3 DEF Aborting

\* The abort is over: nothing of the job is left.
LEMMA AbortedInv ==
  ASSUME Inv, NEW s \in Session, Aborting(s), cb[s] = Quiet, Aborted(s), omx[s].work = "none",
         UNCHANGED <<jobq, ongoing, sem, mgr, call, inprogress, omx, cb, owner, ans, gone>>
  PROVE  Inv'
<1>1. SessionOK(s) /\ sess[s] \in SessionType /\ out[s] \in Nat
  BY DEF Inv, Sessions, Types
<1> DEFINE c == [sess[s] EXCEPT !.abort = "done", !.ref = FALSE]
<1>2. /\ c \in SessionType /\ c.abort = "done" /\ c.client = sess[s].client /\ ~c.ref
      /\ c.job = sess[s].job /\ c.hq = sess[s].hq /\ c.encoding = sess[s].encoding
  BY <1>1 DEF SessionType
<1>3. Changes(s, c) /\ GoTo(AfterAbort)
      /\ out' = IF sess[s].ref THEN [out EXCEPT ![s] = out[s] - 1] ELSE out
  BY <1>2 DEF Aborted, Changes
<1> HIDE DEF c
<1>4. /\ sess' \in [Session -> SessionType] /\ sess'[s] = c
      /\ \A t \in Session : t # s => sess'[t] = sess[t]
      /\ KeepsClients
  BY <1>2, <1>3, SessionChanges
<1>5. /\ RunOK' /\ run' \in RunType
      /\ run'.op = run.op /\ run'.s = run.s /\ run'.j = run.j
      /\ run.op = "abort" /\ run'.at \in AbortSteps => run.at \in AbortSteps
      /\ Stage(s)' \in {"other", "unload"}
  BY <1>3, AfterAbortIs
<1>6. Cardinality(Failed(s)) \in Nat /\ (sess[s].ref => out[s] >= 1)
      /\ out[s] <= Cardinality(Failed(s)) + (IF Held(s) THEN 1 ELSE 0)
  <2>1. cb[s][1] # "fbd"
    BY DEF Quiet
  <2> QED
    BY <1>1, <2>1, FailedIsFinite DEF SessionOK, MemoryOK
<1>7. /\ out' \in [Session -> Nat] /\ out'[s] <= Cardinality(Failed(s))
      /\ \A t \in Session : t # s => out'[t] = out[t]
  <2>1. out \in [Session -> Nat]
    BY DEF Inv, Types
  <2>2. CASE sess[s].ref
    <3>1. out[s] - 1 \in Nat /\ out[s] - 1 <= Cardinality(Failed(s))
      BY <1>1, <1>6, <2>2
    <3> QED
      BY <1>3, <2>1, <2>2, <3>1
  <2>3. CASE ~sess[s].ref
    BY <1>1, <1>3, <1>6, <2>1, <2>3 DEF Held
  <2> QED
    BY <2>2, <2>3
<1>8. Types'
  BY <1>4, <1>5, <1>7 DEF Inv, Types
<1>9. ~Held(s)' /\ Failed(s)' = Failed(s)
  BY <1>2, <1>4, Keeping DEF Held
<1>10. WorkOK(s)' /\ EncodeOK(s)' /\ CallbackOK(s)' /\ FreshOK(s)'
  BY <1>1, <1>2, <1>4, <1>5, <1>9 DEF SessionOK, WorkOK, EncodeOK, CallbackOK, FreshOK
<1>11. AbortOK(s)'
  BY <1>2, <1>4, <1>5, <1>9 DEF AbortOK
<1>12. MemoryOK(s)'
  BY <1>2, <1>4, <1>6, <1>7, <1>9 DEF MemoryOK
<1>13. SessionOK(s)'
  BY <1>10, <1>11, <1>12 DEF SessionOK
<1> QED
  BY <1>4, <1>5, <1>7, <1>8, <1>13, HolderChanges DEF Aborting

\* mm_jpeg_session_abort: an encoder at work is told to stop.
LEMMA AbortInitInv == ASSUME Inv, AbortInit PROVE Inv'
<1>0. PICK s \in Session : run.s = s /\ Aborting(s) /\ run.at = "ab1"
  BY AbortStepIs DEF AbortInit, AbortSteps
<1>1. /\ cb[s] = Quiet
      /\ UNCHANGED <<jobq, ongoing, sem, mgr, call, inprogress, omx, cb, owner, ans, gone>>
  BY <1>0 DEF AbortInit, Unlocked
<1>2. SessionOK(s) /\ sess[s] \in SessionType /\ Stage(s) = "ab1"
  BY <1>0 DEF Inv, Sessions, Types, Stage, Aborting, Preparing, Unloading
<1>3. sess[s].abort # "init" /\ (omx[s].work = "none" => ~Held(s))
  BY <1>2 DEF SessionOK, AbortOK, MemoryOK
<1>4. CASE sess[s].abort # "none" /\ GoTo(AfterAbort) /\ UNCHANGED <<sess, out>>
  <2>1. omx[s].work = "none" /\ ~Held(s)
    BY <1>2, <1>3, <1>4 DEF SessionOK, WorkOK, SessionType
  <2>2. /\ RunOK' /\ run' \in RunType
        /\ run'.op = run.op /\ run'.s = run.s /\ run'.j = run.j
        /\ run.op = "abort" /\ run'.at \in AbortSteps => run.at \in AbortSteps
        /\ Stage(s)' \in {"other", "unload"}
    BY <1>0, <1>4, AfterAbortIs
  <2>3. Types'
    BY <1>1, <1>4, <2>2 DEF Inv, Types
  <2>4. ~Held(s)' /\ Failed(s)' = Failed(s)
    BY <1>1, <1>4, <2>1, Keeping DEF Held
  <2>5. WorkOK(s)' /\ EncodeOK(s)' /\ CallbackOK(s)' /\ FreshOK(s)'
    BY <1>1, <1>2, <1>4, <2>1, <2>2 DEF SessionOK, WorkOK, EncodeOK, CallbackOK, FreshOK
  <2>6. AbortOK(s)' /\ MemoryOK(s)'
    BY <1>1, <1>2, <1>3, <1>4, <2>1, <2>2, <2>4 DEF SessionOK, AbortOK, MemoryOK
  <2>7. SessionOK(s)'
    BY <2>5, <2>6 DEF SessionOK
  <2> QED
    BY <1>0, <1>1, <1>4, <2>2, <2>3, <2>7, HolderChanges DEF KeepsClients
<1>5. CASE /\ sess[s].abort = "none" /\ sess[s].encoding
           /\ sess' = [sess EXCEPT ![s].abort = "init", ![s].pending = TRUE]
           /\ GoTo("ab2") /\ UNCHANGED out
  <2> DEFINE c == [sess[s] EXCEPT !.abort = "init", !.pending = TRUE]
  <2>1. /\ c \in SessionType /\ c.abort = "init" /\ c.client = sess[s].client /\ c.ref = sess[s].ref
        /\ c.job = sess[s].job /\ c.hq = sess[s].hq /\ c.encoding = sess[s].encoding
    BY <1>2 DEF SessionType
  <2>2. Changes(s, c)
    BY <1>5, <2>1 DEF Changes
  <2> HIDE DEF c
  <2>3. /\ sess' \in [Session -> SessionType] /\ sess'[s] = c
        /\ \A t \in Session : t # s => sess'[t] = sess[t]
        /\ KeepsClients
    BY <2>1, <2>2, SessionChanges
  <2>4. /\ RunOK' /\ run' \in RunType /\ run'.at = "ab2" /\ run'.cs = "none"
        /\ run'.op = run.op /\ run'.s = run.s /\ run'.j = run.j
    <3>1. "ab2" \in StepsOf(run.op)
      BY <1>0 DEF Aborting, StepsOf, AbortSteps
    <3> QED
      BY <1>0, <1>5, <3>1, GoingOn DEF Aborting
  <2>5. Types'
    BY <1>1, <1>5, <2>3, <2>4 DEF Inv, Types
  <2>6. Stage(s)' = "abort"
    BY <1>0, <2>4 DEF Aborting, Stage, Preparing
  <2>7. /\ (Held(s)' <=> Held(s)) /\ Failed(s)' = Failed(s)
        /\ (Unanswered(s)' <=> Unanswered(s))
    BY <1>1, <2>1, <2>3, Keeping DEF Held
  <2>8. WorkOK(s)' /\ EncodeOK(s)' /\ CallbackOK(s)'
    BY <1>1, <1>2, <1>5, <2>1, <2>3, <2>6, <2>7 DEF SessionOK, WorkOK, EncodeOK, CallbackOK
  <2>9. AbortOK(s)' /\ FreshOK(s)'
    BY <1>1, <1>2, <2>1, <2>3, <2>6 DEF SessionOK, AbortOK, FreshOK
  <2>10. MemoryOK(s)'
    BY <1>1, <1>2, <1>5, <2>1, <2>3, <2>6, <2>7 DEF SessionOK, MemoryOK
  <2>11. SessionOK(s)'
    BY <2>8, <2>9, <2>10 DEF SessionOK
  <2> QED
    BY <1>0, <1>1, <1>5, <2>3, <2>4, <2>5, <2>11, HolderChanges DEF Aborting
<1>6. CASE sess[s].abort = "none" /\ ~sess[s].encoding /\ Aborted(s)
  <2>1. omx[s].work = "none"
    BY <1>2, <1>6 DEF SessionOK, WorkOK
  <2> QED
    BY <1>0, <1>1, <1>6, <2>1, AbortedInv
<1> QED
  BY <1>0, <1>4, <1>5, <1>6 DEF AbortInit

LEMMA AbortCommandInv == ASSUME OrderlyEncoder, Inv, AbortCommand PROVE Inv'
<1>0. PICK s \in Session : run.s = s /\ Aborting(s) /\ run.at = "ab2"
  BY AbortStepIs DEF AbortCommand, AbortSteps
<1>1. /\ GoTo("ab3") /\ omx' = [omx EXCEPT ![s].cmd = "idle"]
      /\ UNCHANGED <<jobq, ongoing, sem, mgr, call, sess, inprogress, cb, owner, ans, gone, out>>
  BY <1>0 DEF AbortCommand, ghosts
<1>2. SessionOK(s) /\ omx[s] \in EncoderType /\ sess[s] \in SessionType /\ Stage(s) = "abort"
  BY <1>0 DEF Inv, Sessions, Types, Stage, Aborting, Preparing
<1> DEFINE e == [omx[s] EXCEPT !.cmd = "idle"]
<1>3. e \in EncoderType /\ e.work = omx[s].work /\ e.mem = omx[s].mem /\ e.cmd = "idle"
  BY <1>2 DEF EncoderType, States
<1>4. omx' = [omx EXCEPT ![s] = e]
  BY <1>1
<1> HIDE DEF e
<1>5. /\ omx' \in [Session -> EncoderType] /\ omx'[s] = e
      /\ \A t \in Session : t # s => omx'[t] = omx[t]
  BY <1>3, <1>4, EncoderChanges
<1>6. /\ RunOK' /\ run' \in RunType /\ run'.at = "ab3" /\ run'.cs = "none"
      /\ run'.op = run.op /\ run'.s = run.s /\ run'.j = run.j
  <2>1. "ab3" \in StepsOf(run.op)
    BY <1>0 DEF Aborting, StepsOf, AbortSteps
  <2> QED
    BY <1>0, <1>1, <2>1, GoingOn DEF Aborting
<1>7. Types'
  BY <1>1, <1>5, <1>6 DEF Inv, Types
<1>8. Stage(s)' = "abort"
  BY <1>0, <1>6 DEF Aborting, Stage, Preparing
<1>9. /\ (Held(s)' <=> Held(s)) /\ Failed(s)' = Failed(s)
      /\ (Unanswered(s)' <=> Unanswered(s))
  BY <1>1, Keeping DEF Held
<1>10. WorkOK(s)'
  <2>1. omx[s].work # "none" => sess[s].abort = "init"
    BY <1>2 DEF SessionOK, WorkOK, AbortOK, SessionType
  <2> QED
    BY <1>1, <1>2, <1>3, <1>5, <1>8, <1>9, <2>1 DEF SessionOK, WorkOK
<1>11. EncodeOK(s)' /\ CallbackOK(s)' /\ AbortOK(s)' /\ FreshOK(s)'
  BY <1>1, <1>2, <1>3, <1>5, <1>8, <1>9 DEF SessionOK, EncodeOK, CallbackOK, AbortOK, FreshOK
<1>12. MemoryOK(s)'
  BY <1>1, <1>2, <1>3, <1>5, <1>8, <1>9 DEF SessionOK, MemoryOK
<1>13. SessionOK(s)'
  BY <1>10, <1>11, <1>12 DEF SessionOK
<1> QED
  BY <1>0, <1>1, <1>5, <1>6, <1>7, <1>13, HolderChanges DEF Aborting, KeepsClients

\* It waits until the encoder has stopped.
LEMMA AbortWaitInv == ASSUME Inv, AbortWait PROVE Inv'
<1>0. PICK s \in Session : run.s = s /\ Aborting(s) /\ run.at \in {"ab3", "abwoken"}
  BY AbortStepIs DEF AbortWait, AbortSteps
<1>1. /\ cb[s] = Quiet
      /\ UNCHANGED <<jobq, ongoing, sem, mgr, call, inprogress, omx, cb, owner, ans, gone>>
  BY <1>0 DEF AbortWait, Unlocked
<1>2. /\ SessionOK(s) /\ sess[s] \in SessionType
      /\ run.at = "ab3" => Stage(s) = "abort"
      /\ run.at = "abwoken" => Stage(s) = "abwoken"
  BY <1>0 DEF Inv, Sessions, Types, Stage, Aborting, Preparing, Unloading
<1>3. CASE run.at = "ab3" /\ sess[s].abort = "init" /\ GoTo("abwait") /\ UNCHANGED <<sess, out>>
  <2>1. /\ RunOK' /\ run' \in RunType /\ run'.at = "abwait" /\ run'.cs = "none"
        /\ run'.op = run.op /\ run'.s = run.s /\ run'.j = run.j
    <3>1. "abwait" \in StepsOf(run.op)
      BY <1>0 DEF Aborting, StepsOf, AbortSteps
    <3> QED
      BY <1>0, <1>3, <3>1, GoingOn DEF Aborting
  <2>2. Types'
    BY <1>1, <1>3, <2>1 DEF Inv, Types
  <2>3. Stage(s)' = "abwait"
    BY <1>0, <2>1 DEF Aborting, Stage, Preparing, Unloading
  <2>4. /\ (Held(s)' <=> Held(s)) /\ Failed(s)' = Failed(s)
        /\ (Unanswered(s)' <=> Unanswered(s))
    BY <1>1, <1>3, Keeping DEF Held
  <2>5. WorkOK(s)' /\ EncodeOK(s)' /\ CallbackOK(s)'
    BY <1>1, <1>2, <1>3, <2>3, <2>4 DEF SessionOK, WorkOK, EncodeOK, CallbackOK
  <2>6. AbortOK(s)' /\ FreshOK(s)'
    BY <1>1, <1>2, <1>3, <2>3 DEF SessionOK, AbortOK, FreshOK
  <2>7. MemoryOK(s)'
    BY <1>1, <1>2, <1>3, <2>3, <2>4 DEF SessionOK, MemoryOK
  <2>8. SessionOK(s)'
    BY <2>5, <2>6, <2>7 DEF SessionOK
  <2> QED
    BY <1>0, <1>1, <1>3, <2>1, <2>2, <2>8, HolderChanges DEF Aborting, KeepsClients
<1>4. CASE ~(run.at = "ab3" /\ sess[s].abort = "init") /\ Aborted(s)
  <2>1. sess[s].abort = "done"
    BY <1>0, <1>2, <1>4 DEF SessionOK, AbortOK, SessionType
  <2>2. omx[s].work = "none"
    BY <1>2, <2>1 DEF SessionOK, WorkOK
  <2> QED
    BY <1>0, <1>1, <1>4, <2>2, AbortedInv
<1> QED
  BY <1>0, <1>3, <1>4 DEF AbortWait, Is, Aborting

\* Session s, which has no job that waits or is under way, changes; no job does.
LEMMA IdleSessionChanges ==
  ASSUME Inv, NEW s \in Session, UNCHANGED <<jobq, ongoing, mgr, owner, ans, gone>>,
         \A t \in Session : t # s => sess'[t] = sess[t],
         sess'[s].job # 0 => sess'[s].job = sess[s].job,
         \A j \in Job : Waiting(j) \/ Underway(j) => owner[j] # s
  PROVE  QueueOK'
<1>1. \A j \in Job : /\ Waiting(j)' <=> Waiting(j)
                     /\ Underway(j)' <=> Underway(j)
                     /\ Finished(j)' <=> Finished(j)
  BY DEF Waiting, Underway, Finished
<1>2. QueueOK
  BY DEF Inv
<1>3. \A j \in Job : (Waiting(j) => owner[j] \in Session /\ ~Finished(j) /\ ~Underway(j)
                                  /\ sess'[owner[j]].client \in {"open", "stopping"})
                     /\ (Underway(j) => owner[j] \in Session /\ sess'[owner[j]].job = j /\ j \notin gone
                                  /\ sess'[owner[j]].client \in {"open", "stopping"})
  BY <1>2 DEF QueueOK
<1>4. \A t \in Session : sess'[t].job # 0 => owner[sess'[t].job] = t
  BY <1>2 DEF QueueOK
<1> QED
  BY <1>1, <1>2, <1>3, <1>4 DEF QueueOK

\* The session is freed with its jobs.
LEMMA FreeHandleInv == ASSUME Inv, FreeHandle PROVE Inv'
<1>0. PICK s \in Session : run.s = s
  BY HolderIs DEF FreeHandle
<1>1. /\ run.at = "des3" /\ run.cs = "none" /\ run.op = "destroy" /\ cb[s] = Quiet
      /\ GoTo("return") /\ omx' = [omx EXCEPT ![s] = Unloaded] /\ sess' = [sess EXCEPT ![s] = Closed]
      /\ inprogress' = IF inprogress = s THEN none ELSE inprogress
      /\ UNCHANGED <<jobq, ongoing, sem, mgr, call, cb, owner, ans, gone, out>>
  <2>1. run.at = "des3" /\ run.cs = "none" /\ run.op = "destroy"
    BY HolderIs DEF FreeHandle, StepsOf, AbortSteps, Preparing
  <2> QED
    BY <1>0, <2>1 DEF FreeHandle, Unlocked, ghosts
<1>2. SessionOK(s) /\ Stage(s) = "unload" /\ out[s] \in Nat
  BY <1>0, <1>1 DEF Inv, Sessions, Types, Stage, Preparing, Unloading
<1>3. Closed \in SessionType /\ Unloaded \in EncoderType
  BY MmJpegAssumption DEF Closed, SessionType, Unloaded, EncoderType, States
<1>4. /\ omx' \in [Session -> EncoderType] /\ omx'[s] = Unloaded
      /\ \A t \in Session : t # s => omx'[t] = omx[t]
  BY <1>1, <1>3, EncoderChanges
<1>5. /\ sess' \in [Session -> SessionType] /\ sess'[s] = Closed
      /\ \A t \in Session : t # s => sess'[t] = sess[t]
  BY <1>1, <1>3, SessionChanges DEF Changes
<1>6. /\ RunOK' /\ run' \in RunType /\ run'.at = "return" /\ run'.cs = "none"
      /\ run'.op = run.op /\ run'.s = run.s /\ run'.j = run.j
  <2>1. "return" \in StepsOf(run.op)
    BY <1>1 DEF StepsOf, Unloading
  <2> QED
    BY <1>1, <2>1, GoingOn
<1>7. Types'
  BY <1>1, <1>4, <1>5, <1>6 DEF Inv, Types
<1>8. \A t \in Session : Stage(t)' = Stage(t)
  BY <1>1, <1>6 DEF Stage, Preparing, Unloading
<1>9. call.op = "destroy" /\ call.s = s
  BY <1>0, <1>1 DEF Inv, CallOK
<1>10. \A j \in Job : Waiting(j) \/ Underway(j) => owner[j] # s
  BY <1>0, <1>1, <1>9 DEF Inv, QueueOK, CallOK, Of
<1>11. QueueOK'
  <2>1. Closed.job = 0
    BY DEF Closed
  <2> QED
    BY <1>1, <1>5, <1>10, <2>1, IdleSessionChanges
<1>12. CallOK'
  <2>1. \A j : (Underway(j)' <=> Underway(j)) /\ (Finished(j)' <=> Finished(j))
    BY <1>1 DEF Underway, Finished
  <2>2. \A u : Of(u)' = Of(u)
    BY <1>1 DEF Of
  <2> QED
    BY <1>1, <1>6, <1>9, <2>1, <2>2 DEF Inv, CallOK
<1>13. ASSUME NEW t \in Session, t # s PROVE Keeps(t)
  BY <1>1, <1>4, <1>5, <1>8, <1>13, OthersKept
<1>14. /\ ~Held(s)' /\ Failed(s)' = Failed(s) /\ ~Held(s)
       /\ ~sess'[s].ref /\ sess'[s].abort = "none" /\ sess'[s].job = 0 /\ omx'[s].work = "none"
  <2>1. Failed(s)' = Failed(s)
    BY <1>1 DEF Failed, Of
  <2> QED
    BY <1>2, <1>4, <1>5, <2>1 DEF Held, Closed, Unloaded, SessionOK, AbortOK
<1>15. WorkOK(s)' /\ EncodeOK(s)' /\ CallbackOK(s)' /\ FreshOK(s)'
  BY <1>1, <1>2, <1>8, <1>14 DEF WorkOK, EncodeOK, CallbackOK, FreshOK
<1>16. AbortOK(s)' /\ MemoryOK(s)'
  BY <1>1, <1>2, <1>8, <1>14 DEF SessionOK, AbortOK, MemoryOK
<1> QED
  BY <1>6, <1>7, <1>11, <1>12, <1>13, <1>15, <1>16, OneSession DEF SessionOK

-----------------------------------------------------------------------------
(* The calls of clients. *)

\* Before a call there is no holder but the manager.
LEMMA NobodyCalls ==
  ASSUME Inv, Idle
  PROVE  /\ call.op = "none" /\ run.op \in {"none", "encode"}
         /\ \A s \in Session : Stage(s) \notin {"abort", "abwait", "abwoken", "unload"}
<1>1. call.op = "none"
  BY DEF Idle, NoCall
<1>2. run.op \in {"none", "encode"} /\ run.at \in StepsOf(run.op)
  BY <1>1 DEF Inv, CallOK, Types, RunType, RunOK
<1>3. \A s \in Session : Stage(s) \notin {"abort", "abwait", "abwoken", "unload"}
  BY <1>2 DEF Stage, StepsOf, Preparing, AbortSteps, Unloading
<1> QED
  BY <1>1, <1>2, <1>3

\* What a queue holds after a job has come.
LEMMA AppendHas ==
  ASSUME NEW q \in Seq(Job), NEW j \in Job
  PROVE  /\ Append(q, j) \in Seq(Job)
         /\ \A k : Has(Append(q, j), k) <=> (Has(q, k) \/ k = j)
         /\ (\A i, k \in DOMAIN q : q[i] = q[k] => i = k) /\ ~Has(q, j)
            => \A i, k \in DOMAIN Append(q, j) : Append(q, j)[i] = Append(q, j)[k] => i = k
<1> DEFINE w == Append(q, j)
<1>1. w \in Seq(Job) /\ Len(w) = Len(q) + 1 /\ Len(q) \in Nat
      /\ DOMAIN q = 1..Len(q) /\ DOMAIN w = 1..(Len(q) + 1)
      /\ w[Len(q) + 1] = j /\ \A i \in 1..Len(q) : w[i] = q[i]
  BY LenProperties, AppendProperties
<1> HIDE DEF w
<1>2. \A k : Has(w, k) <=> (Has(q, k) \/ k = j)
  <2>1. ASSUME NEW k, Has(w, k) PROVE Has(q, k) \/ k = j
    <3>1. PICK i \in 1..(Len(q) + 1) : w[i] = k
      BY <1>1, <2>1 DEF Has
    <3> QED
      BY <1>1, <3>1 DEF Has
  <2>2. ASSUME NEW k, Has(q, k) \/ k = j PROVE Has(w, k)
    <3>1. Len(q) + 1 \in DOMAIN w /\ \A i \in DOMAIN q : i \in DOMAIN w
      BY <1>1
    <3> QED
      BY <1>1, <2>2, <3>1 DEF Has
  <2> QED
    BY <2>1, <2>2
<1>3. ASSUME \A i, k \in DOMAIN q : q[i] = q[k] => i = k, ~Has(q, j),
             NEW i \in DOMAIN w, NEW k \in DOMAIN w, w[i] = w[k]
      PROVE  i = k
  <2>1. (i \in 1..Len(q) \/ i = Len(q) + 1) /\ (k \in 1..Len(q) \/ k = Len(q) + 1)
    BY <1>1
  <2>2. \A n \in 1..Len(q) : w[n] = q[n] /\ q[n] # j
    BY <1>1, <1>3 DEF Has
  <2> QED
    BY <1>1, <1>3, <2>1, <2>2
<1> QED
  BY <1>1, <1>2, <1>3 DEF w

\* mm_jpeg_start_job.
LEMMA StartJobInv == ASSUME Inv, NEW s \in Session, NEW j \in Job, StartJob(s, j) PROVE Inv'
<1>1. /\ Idle /\ sess[s].client = "open" /\ owner[j] = none
      /\ owner' = [owner EXCEPT ![j] = s] /\ jobq' = Append(jobq, j) /\ sem' = sem + 1
      /\ UNCHANGED <<ongoing, mgr, call, run, sess, inprogress, omx, cb, ans, gone, out>>
  BY DEF StartJob
<1>2. /\ jobq \in Seq(Job) /\ owner \in [Job -> Session \cup {none}] /\ s # none /\ none \notin Session
  BY MmJpegAssumption DEF Inv, Types
<1>3. ~Waiting(j) /\ ~Underway(j) /\ ~Finished(j)
  BY <1>1, <1>2 DEF Inv, QueueOK, Finished
<1>4. owner'[j] = s /\ \A k \in Job : k # j => owner'[k] = owner[k]
  BY <1>1, <1>2
<1>5. /\ \A k \in Job : Waiting(k)' <=> (Waiting(k) \/ k = j)
      /\ \A k : (Underway(k)' <=> Underway(k)) /\ (Finished(k)' <=> Finished(k))
      /\ jobq' \in Seq(Job) /\ \A i, k \in DOMAIN jobq' : jobq'[i] = jobq'[k] => i = k
  <2>1. /\ jobq' \in Seq(Job) /\ \A k : Has(jobq', k) <=> (Has(jobq, k) \/ k = j)
        /\ \A i, k \in DOMAIN jobq' : jobq'[i] = jobq'[k] => i = k
    <3>1. (\A i, k \in DOMAIN jobq : jobq[i] = jobq[k] => i = k) /\ ~Has(jobq, j)
      BY <1>3 DEF Inv, QueueOK, Waiting
    <3> QED
      BY <1>1, <1>2, <3>1, AppendHas
  <2>2. \A k : (Underway(k)' <=> Underway(k)) /\ (Finished(k)' <=> Finished(k))
    BY <1>1 DEF Underway, Finished
  <2> QED
    BY <2>1, <2>2 DEF Waiting
<1>6. QueueOK'
  <2>1. \A t \in Session : sess[t].job # 0 => owner'[sess[t].job] = t
    <3>1. \A t \in Session : sess[t].job # 0 => sess[t].job \in Job /\ owner[sess[t].job] = t
      BY DEF Inv, QueueOK, Types, SessionType, Job
    <3> QED
      BY <1>1, <1>2, <1>4, <3>1
  <2>2. QueueOK
    BY DEF Inv
  <2>3. \A k \in Job : owner'[k] = none => ans[k] = "none" /\ k \notin gone
    BY <1>2, <1>4, <2>2 DEF QueueOK
  <2>4. \A k \in Job : Waiting(k) => owner[k] \in Session /\ ~Finished(k) /\ ~Underway(k)
                                   /\ sess[owner[k]].client \in {"open", "stopping"}
    BY <2>2 DEF QueueOK
  <2>5. \A k \in Job : Waiting(k)' => owner'[k] \in Session /\ ~Finished(k) /\ ~Underway(k)
                                   /\ sess[owner'[k]].client \in {"open", "stopping"}
    BY <1>1, <1>3, <1>4, <1>5, <2>4
  <2>6. \A k \in Job : Underway(k) => owner'[k] \in Session /\ sess[owner'[k]].job = k /\ k \notin gone
                                   /\ sess[owner'[k]].client \in {"open", "stopping"}
    BY <1>3, <1>4, <2>2 DEF QueueOK
  <2> QED
    BY <1>1, <1>5, <2>1, <2>2, <2>3, <2>5, <2>6 DEF QueueOK
<1>7. CallOK'
  <2>1. call.op = "none" /\ run.op \in {"none", "encode"}
    BY <1>1, NobodyCalls
  <2> QED
    BY <1>1, <2>1 DEF Inv, CallOK
<1>8. ASSUME NEW t \in Session PROVE Keeps(t)
  <2>1. Failed(t)' = Failed(t)
    BY <1>1, <1>2, <1>3, <1>4 DEF Failed, Of, Finished
  <2>2. KeepsJob(t)
    BY <1>1, <1>5, <2>1 DEF KeepsJob, Unanswered, Underway
  <2> QED
    BY <1>1, <2>2, RunKept DEF Keeps, KeepsSession, KeepsEncoder
<1>9. Types'
  BY <1>1, <1>2, <1>4, <1>5 DEF Inv, Types
<1>10. RunOK'
  BY <1>1, RunKept
<1>11. SessionOK(s)'
  BY <1>8, SessionKept DEF Inv, Sessions
<1> QED
  BY <1>6, <1>7, <1>8, <1>9, <1>10, <1>11, OneSession

\* mm_jpeg_create_session, up to job_lock.
LEMMA CreateSessionInv == ASSUME Inv, NEW s \in Session, CreateSession(s) PROVE Inv'
<1> DEFINE c == [Closed EXCEPT !.client = "new", !.hq = 1]
<1>1. /\ Idle /\ sess[s].client = "none" /\ call' = [op |-> "create", s |-> s, j |-> 0]
      /\ sess' = [sess EXCEPT ![s] = c]
      /\ UNCHANGED <<jobq, ongoing, sem, mgr, run, inprogress, omx, cb, owner, ans, gone, out>>
  BY DEF CreateSession, ghosts
<1>2. /\ c \in SessionType /\ c.client = "new" /\ c.hq = 1 /\ c.job = 0 /\ ~c.ref /\ c.abort = "none"
  <2>1. Closed \in SessionType /\ Closed.job = 0 /\ ~Closed.ref /\ Closed.abort = "none"
    BY MmJpegAssumption DEF Closed, SessionType
  <2>2. \A h \in 0..1 : [Closed EXCEPT !.client = "new", !.hq = h] \in SessionType
    BY <2>1 DEF SessionType
  <2>3. c.client = "new" /\ c.hq = 1 /\ c.job = 0 /\ ~c.ref /\ c.abort = "none"
    BY DEF Closed
  <2> QED
    BY <2>2, <2>3
<1>3. Changes(s, c)
  BY <1>1, <1>2 DEF Changes
<1> HIDE DEF c
<1>4. /\ sess' \in [Session -> SessionType] /\ sess'[s] = c
      /\ \A t \in Session : t # s => sess'[t] = sess[t]
  BY <1>3, SessionChanges
<1>5. SessionOK(s) /\ omx[s].work = "none" /\ cb[s] = Quiet /\ sess[s].job = 0
  BY <1>1 DEF Inv, Sessions, SessionOK, FreshOK
<1>6. /\ call.op = "none" /\ run.op \in {"none", "encode"}
      /\ Stage(s) \notin {"abort", "abwait", "abwoken", "unload"}
  BY <1>1, NobodyCalls
<1>7. Types'
  <2>1. call' \in CallType
    BY <1>1, MmJpegAssumption DEF CallType
  <2> QED
    BY <1>1, <1>4, <2>1 DEF Inv, Types
<1>8. RunOK' /\ \A t \in Session : Stage(t)' = Stage(t)
  BY <1>1, RunKept
<1>9. Stage(s) = "other"
  <2>1. run.op = "encode" => sess[run.s].client \in {"open", "stopping"}
    BY DEF Inv, CallOK
  <2> QED
    BY <1>1, <1>6, <2>1 DEF Stage
<1>10. QueueOK'
  <2>1. \A j \in Job : Waiting(j) \/ Underway(j) => owner[j] # s
    BY <1>1 DEF Inv, QueueOK
  <2> QED
    BY <1>1, <1>2, <1>4, <2>1, IdleSessionChanges
<1>11. CallOK'
  <2>1. call'.op = "create" /\ call'.s = s
    BY <1>1
  <2>2. run.op = "encode" =>
          run.s \in Session /\ run.s # s /\ sess[run.s].client \in {"open", "stopping"}
    BY <1>1 DEF Inv, CallOK, RunOK
  <2> QED
    BY <1>1, <1>2, <1>4, <1>6, <2>1, <2>2 DEF CallOK
<1>12. ASSUME NEW t \in Session, t # s PROVE Keeps(t)
  BY <1>1, <1>4, <1>8, <1>12, OthersKept
<1>13. ~Held(s)' /\ Failed(s)' = Failed(s) /\ ~Held(s)
  <2>1. Failed(s)' = Failed(s)
    BY <1>1 DEF Failed, Of
  <2> QED
    BY <1>2, <1>4, <1>5, <2>1 DEF Held, Unanswered, Job
<1>14. WorkOK(s)' /\ EncodeOK(s)' /\ CallbackOK(s)' /\ FreshOK(s)'
  BY <1>1, <1>2, <1>4, <1>5, <1>8, <1>9 DEF WorkOK, EncodeOK, CallbackOK, FreshOK
<1>15. AbortOK(s)' /\ MemoryOK(s)'
  BY <1>1, <1>2, <1>4, <1>5, <1>8, <1>9, <1>13 DEF SessionOK, AbortOK, MemoryOK
<1> QED
  BY <1>7, <1>8, <1>10, <1>11, <1>12, <1>14, <1>15, OneSession DEF SessionOK

\* A call begins: no session notices but by its client.
LEMMA CallBegins ==
  ASSUME Inv, Idle, NEW s \in Session,
         sess[s].client \notin {"none", "new"}, sess'[s].client \notin {"none", "new"},
         sess[s].client \in {"open", "stopping"} => sess'[s].client \in {"open", "stopping"},
         sess' \in [Session -> SessionType], \A t \in Session : t # s => sess'[t] = sess[t],
         sess'[s].hq = sess[s].hq, sess'[s].encoding = sess[s].encoding,
         sess'[s].abort = sess[s].abort, sess'[s].job = sess[s].job, sess'[s].ref = sess[s].ref,
         call' \in CallType, call'.op \in {"abort", "destroy"}, call'.s = s,
         call'.op = "abort" => call'.j \in Job /\ owner[call'.j] = s /\ call'.j \notin gone,
         call'.op = "destroy" => \A j \in Of(s) : Finished(j),
         UNCHANGED <<jobq, ongoing, sem, mgr, run, inprogress, omx, cb, owner, ans, gone, out>>
  PROVE  Inv'
<1>1. call.op = "none" /\ run.op \in {"none", "encode"}
  BY NobodyCalls
<1>2. \A j \in Job : /\ Waiting(j)' <=> Waiting(j)
                     /\ Underway(j)' <=> Underway(j)
                     /\ Finished(j)' <=> Finished(j)
  BY DEF Waiting, Underway, Finished
<1>3. RunOK' /\ \A t \in Session : Stage(t)' = Stage(t)
  BY RunKept
<1>4. \A t \in Session : /\ sess'[t].job = sess[t].job
                         /\ sess[t].client \in {"open", "stopping"}
                              => sess'[t].client \in {"open", "stopping"}
  OBVIOUS
<1>5. QueueOK'
  <2>1. QueueOK
    BY DEF Inv
  <2>2. \A j \in Job : (Waiting(j) => owner[j] \in Session /\ ~Finished(j) /\ ~Underway(j)
                                    /\ sess'[owner[j]].client \in {"open", "stopping"})
                       /\ (Underway(j) => owner[j] \in Session /\ sess'[owner[j]].job = j /\ j \notin gone
                                    /\ sess'[owner[j]].client \in {"open", "stopping"})
    BY <1>4, <2>1 DEF QueueOK
  <2> QED
    BY <1>2, <1>4, <2>1, <2>2 DEF QueueOK
<1>6. CallOK'
  <2>1. run.op = "encode" => run.s \in Session /\ sess[run.s].client \in {"open", "stopping"}
    BY DEF Inv, CallOK, RunOK
  <2>2. \A u : Of(u)' = Of(u)
    BY DEF Of
  <2>3. \A j : Finished(j)' <=> Finished(j)
    BY DEF Finished
  <2> QED
    BY <1>1, <1>4, <2>1, <2>2, <2>3 DEF CallOK
<1>7. Types'
  BY DEF Inv, Types
<1>8. ASSUME NEW t \in Session PROVE Keeps(t)
  <2>1. KeepsJob(t)
    BY <1>4, JobKept
  <2> QED
    BY <1>3, <2>1 DEF Keeps, KeepsSession, KeepsEncoder
<1>9. SessionOK(s)'
  BY <1>8, SessionKept DEF Inv, Sessions
<1> QED
  BY <1>3, <1>5, <1>6, <1>7, <1>8, <1>9, OneSession

\* mm_jpeg_abort_job, up to job_lock.
LEMMA AbortJobInv == ASSUME Inv, NEW s \in Session, NEW j \in Job, AbortJob(s, j) PROVE Inv'
<1> DEFINE c == [sess[s] EXCEPT !.client = "stopping"]
<1>1. /\ Idle /\ sess[s].client \in {"open", "stopping"} /\ owner[j] = s /\ j \notin gone
      /\ call' = [op |-> "abort", s |-> s, j |-> j] /\ sess' = [sess EXCEPT ![s] = c]
      /\ UNCHANGED <<jobq, ongoing, sem, mgr, run, inprogress, omx, cb, owner, ans, gone, out>>
  BY DEF AbortJob, ghosts
<1>2. /\ c \in SessionType /\ c.client = "stopping" /\ c.hq = sess[s].hq
      /\ c.encoding = sess[s].encoding
      /\ c.abort = sess[s].abort /\ c.job = sess[s].job /\ c.ref = sess[s].ref
  <2>1. sess[s] \in SessionType
    BY DEF Inv, Types
  <2>2. c \in SessionType /\ c.client = "stopping"
    BY <2>1 DEF SessionType
  <2>3. /\ c.hq = sess[s].hq /\ c.encoding = sess[s].encoding
        /\ c.abort = sess[s].abort /\ c.job = sess[s].job /\ c.ref = sess[s].ref
    BY <2>1 DEF SessionType
  <2> QED
    BY <2>2, <2>3
<1>3. Changes(s, c)
  BY <1>1, <1>2 DEF Changes
<1> HIDE DEF c
<1>4. /\ sess' \in [Session -> SessionType] /\ sess'[s] = c
      /\ \A t \in Session : t # s => sess'[t] = sess[t]
  BY <1>3, SessionChanges
<1>5. call' \in CallType /\ call'.op = "abort" /\ call'.s = s /\ call'.j = j
  BY <1>1, MmJpegAssumption DEF CallType, Job
<1> QED
  BY <1>1, <1>2, <1>4, <1>5, CallBegins

\* mm_jpeg_destroy_session, up to job_lock.
LEMMA DestroySessionInv == ASSUME Inv, NEW s \in Session, DestroySession(s) PROVE Inv'
<1>1. /\ Idle /\ sess[s].client \in {"open", "stopping", "bad"}
      /\ call' = [op |-> "destroy", s |-> s, j |-> 0]
      /\ UNCHANGED <<jobq, ongoing, sem, mgr, run, sess, inprogress, omx, cb, owner, ans, gone, out>>
      /\ \A j \in Of(s) : Finished(j)
  BY DEF DestroySession, ghosts, Finished
<1>2. call' \in CallType /\ call'.op = "destroy" /\ call'.s = s
  BY <1>1, MmJpegAssumption DEF CallType
<1>3. sess' \in [Session -> SessionType]
  BY <1>1 DEF Inv, Types
<1> QED
  BY <1>1, <1>2, <1>3, CallBegins

-----------------------------------------------------------------------------
(* job_lock is taken and given back. *)

\* A queue without a job it does not hold is the same.
LEMMA WithoutNone ==
  ASSUME NEW q \in Seq(Job), NEW j, ~Has(q, j)
  PROVE  Without(q, {j}) = q
<1> DEFINE I == {i \in DOMAIN q : q[i] \notin {j}}
           w == At(q, I)
<1>1. DOMAIN q = 1..Len(q) /\ Len(q) \in Nat
  BY LenProperties
<1>2. I = 1..Len(q)
  BY <1>1 DEF Has
<1>3. I \in SUBSET (DOMAIN q) /\ Cardinality(I) = Len(q)
  <2>1. Cardinality(1..Len(q)) = Len(q)
    BY <1>1, FS_Interval
  <2> QED
    BY <1>1, <1>2, <2>1
<1>4. /\ w \in Seq(Job) /\ Len(w) = Len(q)
      /\ \A i \in I : w[Rank(I, i)] = q[i]
  <2>1. w \in Seq(Job) /\ Len(w) = Cardinality(I)
    BY <1>3, AtType
  <2>2. \A i \in I : w[Rank(I, i)] = q[i]
    BY <1>3, AtCovers
  <2> QED
    BY <1>3, <2>1, <2>2
<1>5. \A i \in 1..Len(q) : Rank(I, i) = i
  <2> SUFFICES ASSUME NEW i \in 1..Len(q) PROVE Rank(I, i) = i
    OBVIOUS
  <2>1. {k \in I : k <= i} = 1..i
    BY <1>1, <1>2
  <2>2. Cardinality(1..i) = i
    BY <1>1, FS_Interval
  <2> QED
    BY <2>1, <2>2 DEF Rank
<1>6. w \in Seq(Job) /\ Len(w) = Len(q) /\ \A i \in 1..Len(q) : w[i] = q[i]
  BY <1>2, <1>4, <1>5
<1> HIDE DEF w
<1>7. w = q
  BY <1>6, SeqEqual
<1> HIDE DEF I
<1> QED
  BY <1>7 DEF w, I, Without

\* Jobs of session s leave the queues.
LEMMA JobsLeave ==
  ASSUME Inv, NEW s \in Session, NEW J, J \subseteq Of(s), jobq' = Without(jobq, J),
         ongoing' = ongoing \/ ongoing' = Without(ongoing, J),
         UNCHANGED <<mgr, sess, owner, ans, gone>>
  PROVE  /\ QueueOK' /\ jobq' \in Seq(Job) /\ ongoing' \in Seq(Job) /\ Len(ongoing') <= 1
         /\ \A j : (Waiting(j)' <=> (Waiting(j) /\ j \notin J))
         /\ \A j : (Underway(j)' => Underway(j)) /\ (Underway(j) /\ j \notin J => Underway(j)')
<1>1. jobq \in Seq(Job) /\ ongoing \in Seq(Job) /\ Len(ongoing) <= 1 /\ QueueOK
  BY DEF Inv, Types
<1>2. /\ jobq' \in Seq(Job) /\ \A j : Has(jobq', j) <=> (Has(jobq, j) /\ j \notin J)
      /\ \A i, k \in DOMAIN jobq' : jobq'[i] = jobq'[k] => i = k
  <2> DEFINE w == Without(jobq, J)
  <2>1. \A i, k \in DOMAIN jobq : jobq[i] = jobq[k] => i = k
    BY <1>1 DEF QueueOK
  <2>2. /\ w \in Seq(Job) /\ \A j : Has(w, j) <=> (Has(jobq, j) /\ j \notin J)
        /\ \A i, k \in DOMAIN w : w[i] = w[k] => i = k
    BY <1>1, <2>1, WithoutIs
  <2>3. jobq' = w
    OBVIOUS
  <2> HIDE DEF w
  <2> QED
    BY <2>2, <2>3
<1>3. /\ ongoing' \in Seq(Job) /\ Len(ongoing') <= 1
      /\ \A j : /\ Has(ongoing', j) => Has(ongoing, j)
                /\ Has(ongoing, j) /\ j \notin J => Has(ongoing', j)
      /\ ongoing = <<>> => ongoing' = <<>>
  <2> DEFINE w == Without(ongoing, J)
  <2>1. /\ w \in Seq(Job) /\ Len(w) <= Len(ongoing) /\ (ongoing = <<>> => w = <<>>)
        /\ \A j : Has(w, j) <=> (Has(ongoing, j) /\ j \notin J)
    BY <1>1, WithoutIs
  <2>2. ongoing' = ongoing \/ ongoing' = w
    OBVIOUS
  <2> HIDE DEF w
  <2>3. CASE ongoing' = ongoing
    BY <1>1, <2>3
  <2>4. CASE ongoing' = w
    BY <1>1, <2>1, <2>4
  <2> QED
    BY <2>2, <2>3, <2>4
<1>4. /\ \A j : (Waiting(j)' <=> (Waiting(j) /\ j \notin J))
      /\ \A j : (Underway(j)' => Underway(j)) /\ (Underway(j) /\ j \notin J => Underway(j)')
  BY <1>2, <1>3 DEF Waiting, Underway
<1>5. \A j : Finished(j)' <=> Finished(j)
  BY DEF Finished
<1>6. QueueOK'
  BY <1>1, <1>2, <1>3, <1>4, <1>5 DEF QueueOK
<1> QED
  BY <1>2, <1>3, <1>4, <1>6

\* The call that gets job_lock.
LEMMA TakeIs ==
  ASSUME Inv, run = Free, NEW a \in {"conf1", "return", "ab1"}, Take(a), call # NoCall,
         call.op = "create" => a # "ab1", call.op = "abort" => a # "conf1",
         call.op = "destroy" => a = "ab1"
  PROVE  /\ RunOK' /\ run' \in RunType /\ run'.op = call.op /\ run'.s = call.s /\ run'.j = call.j
         /\ run'.at = a /\ run'.cs = "none" /\ call.op \in {"create", "abort", "destroy"}
         /\ \A t \in Session : Stage(t) = "other" /\ Stage(t)' \in {"other", "ab1"}
         /\ \A t \in Session : t # call.s \/ a # "ab1" => Stage(t)' = "other"
         /\ \A t \in Session : t = call.s /\ a = "ab1" => Stage(t)' = "ab1"
<1>1. call \in CallType /\ call.op \in {"create", "abort", "destroy"} /\ call.s \in Session
  BY DEF Inv, Types, CallOK, CallType
<1>2. /\ run' \in RunType /\ run'.op = call.op /\ run'.s = call.s /\ run'.j = call.j
      /\ run'.at = a /\ run'.cs = "none"
  BY <1>1, MmJpegAssumption DEF Take, Free, RunType, CallType, AbortSteps, Unloading, Preparing
<1>3. RunOK'
  BY <1>1, <1>2 DEF RunOK, StepsOf, AbortSteps, Unloading
<1>4. \A t \in Session : Stage(t) = "other"
  BY DEF Stage, Free
<1>5. \A t \in Session : /\ t # call.s \/ a # "ab1" => Stage(t)' = "other"
                         /\ t = call.s /\ a = "ab1" => Stage(t)' = "ab1"
  BY <1>1, <1>2 DEF Stage, Preparing, Unloading
<1> QED
  BY <1>1, <1>2, <1>3, <1>4, <1>5

\* A call takes job_lock; abort and destroy take their jobs from the queues.
LEMMA BeginInv == ASSUME Inv, Begin PROVE Inv'
<1>1. /\ call # NoCall /\ run = Free
      /\ UNCHANGED <<sem, mgr, call, sess, inprogress, omx, cb, owner, ans, gone, out>>
  BY DEF Begin, ghosts
<1>2. PICK s \in Session : call.s = s
  BY <1>1 DEF Inv, CallOK
<1>3. /\ jobq \in Seq(Job) /\ ongoing \in Seq(Job) /\ SessionOK(s)
      /\ KeepsClients
  BY <1>1 DEF Inv, Types, Sessions, KeepsClients
<1>4. /\ \A u : Of(u)' = Of(u) /\ Failed(u)' = Failed(u)
      /\ \A j : Finished(j)' <=> Finished(j)
      /\ \A t \in Session : (Unanswered(t)' <=> Unanswered(t)) /\ (Held(t)' <=> Held(t))
  BY <1>1 DEF Of, Failed, Finished, Unanswered, Held
<1>5. ASSUME NEW t \in Session, Stage(t)' = Stage(t),
             omx[t].work # "none" /\ Underway(sess[t].job) => Underway(sess[t].job)'
      PROVE  SessionOK(t)'
  <2>1. SessionOK(t)
    BY DEF Inv, Sessions
  <2>2. Stage(t) = "other"
    BY <1>1 DEF Stage, Free
  <2>3. WorkOK(t)' /\ EncodeOK(t)' /\ CallbackOK(t)' /\ FreshOK(t)'
    BY <1>1, <1>4, <1>5, <2>1, <2>2 DEF SessionOK, WorkOK, EncodeOK, CallbackOK, FreshOK
  <2>4. AbortOK(t)' /\ MemoryOK(t)'
    BY <1>1, <1>4, <1>5, <2>1, <2>2 DEF SessionOK, AbortOK, MemoryOK
  <2> QED
    BY <2>3, <2>4 DEF SessionOK
<1>6. ASSUME Stage(s) = "other", Stage(s)' = "ab1" PROVE SessionOK(s)'
  <2>1. WorkOK(s)' /\ EncodeOK(s)' /\ CallbackOK(s)' /\ FreshOK(s)'
    BY <1>1, <1>3, <1>4, <1>6 DEF SessionOK, WorkOK, EncodeOK, CallbackOK, FreshOK
  <2>2. AbortOK(s)' /\ MemoryOK(s)'
    BY <1>1, <1>3, <1>4, <1>6 DEF SessionOK, AbortOK, MemoryOK
  <2> QED
    BY <2>1, <2>2 DEF SessionOK
<1>7. CASE /\ call.op = "create" /\ UNCHANGED <<jobq, ongoing>>
           /\ Take(IF inprogress = none THEN "conf1" ELSE "return")
  <2> DEFINE a == IF inprogress = none THEN "conf1" ELSE "return"
  <2>1. a \in {"conf1", "return", "ab1"} /\ a # "ab1" /\ Take(a)
    BY <1>7
  <2> HIDE DEF a
  <2>2. /\ RunOK' /\ run' \in RunType /\ run'.op = call.op /\ run'.s = call.s /\ run'.j = call.j
        /\ \A t \in Session : Stage(t)' = Stage(t)
    BY <1>1, <1>7, <2>1, TakeIs
  <2>3. Types'
    BY <1>1, <1>7, <2>2 DEF Inv, Types
  <2>4. QueueOK'
    <3>1. QueueOK /\ owner \in [Job -> Session \cup {none}]
      BY DEF Inv, Types
    <3> QED
      BY <1>1, <1>3, <1>7, <3>1, QueueKept
  <2>5. CallOK'
    BY <1>1, <1>2, <1>4, <1>7, <2>2 DEF Inv, CallOK
  <2>6. ASSUME NEW t \in Session PROVE SessionOK(t)'
    BY <1>1, <1>5, <1>7, <2>2 DEF Underway
  <2> QED
    BY <2>2, <2>3, <2>4, <2>5, <2>6 DEF Inv, Sessions
<1>8. CASE /\ call.op = "abort" /\ jobq' = Without(jobq, {call.j})
           /\ ongoing' = IF \E i \in DOMAIN jobq : jobq[i] = call.j
                           THEN ongoing ELSE Without(ongoing, {call.j})
           /\ Take(IF ongoing' # ongoing THEN "ab1" ELSE "return")
  <2>0. PICK j \in Job : call.j = j
    BY <1>8 DEF Inv, CallOK
  <2> DEFINE a == IF ongoing' # ongoing THEN "ab1" ELSE "return"
  <2>1. a \in {"conf1", "return", "ab1"} /\ a # "conf1" /\ Take(a)
    BY <1>8
  <2>2. a = "ab1" <=> ongoing' # ongoing
    OBVIOUS
  <2>3. j \in Job /\ owner[j] = s /\ {j} \subseteq Of(s) /\ j # 0 /\ call'.j = j
    BY <1>1, <1>2, <1>8, <2>0 DEF Inv, CallOK, Of, Job
  <2>4. jobq' = Without(jobq, {j}) /\ ongoing' = IF Waiting(j) THEN ongoing ELSE Without(ongoing, {j})
    BY <1>8, <2>0 DEF Waiting, Has
  <2> HIDE DEF a
  <2>5. /\ RunOK' /\ run' \in RunType /\ run'.op = "abort" /\ run'.s = s /\ run'.j = j
        /\ run'.at = a
        /\ \A t \in Session : Stage(t) = "other" /\ Stage(t)' \in {"other", "ab1"}
        /\ \A t \in Session : t # s \/ a # "ab1" => Stage(t)' = "other"
        /\ \A t \in Session : t = s /\ a = "ab1" => Stage(t)' = "ab1"
    BY <1>1, <1>2, <1>8, <2>0, <2>1, TakeIs
  <2>6. /\ QueueOK' /\ jobq' \in Seq(Job) /\ ongoing' \in Seq(Job) /\ Len(ongoing') <= 1
        /\ \A k : (Waiting(k)' <=> (Waiting(k) /\ k \notin {j}))
        /\ \A k : (Underway(k)' => Underway(k)) /\ (Underway(k) /\ k \notin {j} => Underway(k)')
    BY <1>1, <2>3, <2>4, JobsLeave
  <2>7. ~Waiting(j)' /\ ~Underway(j)'
    <3>1. ~Waiting(j)'
      BY <2>6
    <3>2. CASE Waiting(j)
      <4>1. ~Underway(j)
        BY <3>2 DEF Inv, QueueOK
      <4> QED
        BY <2>6, <3>1, <4>1
    <3>3. CASE ~Waiting(j)
      <4> DEFINE w == Without(ongoing, {j})
      <4>1. \A k : Has(w, k) <=> (Has(ongoing, k) /\ k \notin {j})
        BY <1>3, WithoutIs
      <4>2. ongoing' = w
        BY <2>4, <3>3
      <4> HIDE DEF w
      <4>3. ~Has(ongoing', j)
        BY <4>1, <4>2
      <4> QED
        BY <3>1, <4>3 DEF Underway
    <3> QED
      BY <3>1, <3>2, <3>3
  <2>8. ongoing' # ongoing => sess[s].job = j
    <3>1. ~Has(ongoing, j) => Without(ongoing, {j}) = ongoing
      BY <1>3, WithoutNone
    <3>2. ongoing' # ongoing => Underway(j)
      BY <2>4, <3>1 DEF Underway
    <3> QED
      BY <2>3, <3>2 DEF Inv, QueueOK
  <2>9. Types'
    BY <1>1, <2>5, <2>6 DEF Inv, Types
  <2>10. CallOK'
    <3>1. ~Waiting(run.j)' /\ ~Underway(run.j)'
      BY <2>5, <2>7 DEF Waiting, Underway
    <3>2. run'.at \in AbortSteps => sess[s].job = run'.j
      BY <2>2, <2>5, <2>8 DEF AbortSteps, a
    <3> QED
      BY <1>1, <1>2, <1>4, <1>8, <2>0, <2>5, <3>1, <3>2 DEF Inv, CallOK
  <2>11. ASSUME NEW t \in Session PROVE SessionOK(t)'
    <3>1. CASE t = s /\ a = "ab1"
      BY <1>6, <2>5, <3>1
    <3>2. CASE t # s \/ a # "ab1"
      <4>1. Stage(t)' = Stage(t)
        BY <2>5, <3>2
      <4>2. omx[t].work # "none" /\ Underway(sess[t].job) => Underway(sess[t].job)'
        <5>1. CASE a # "ab1"
          BY <1>1, <2>2, <5>1 DEF Underway
        <5>2. CASE t # s
          <6>1. omx[t].work # "none" => sess[t].job # j
            BY <2>3, <5>2, WorkIsUnanswered
          <6>2. sess'[t].job = sess[t].job
            BY <1>1
          <6> QED
            BY <2>6, <6>1, <6>2 DEF Underway
        <5> QED
          BY <3>2, <5>1, <5>2
      <4> QED
        BY <1>5, <4>1, <4>2
    <3> QED
      BY <3>1, <3>2
  <2> QED
    BY <2>5, <2>6, <2>9, <2>10, <2>11 DEF Inv, Sessions
<1>9. CASE /\ call.op = "destroy" /\ jobq' = Without(jobq, Of(call.s))
           /\ ongoing' = Without(ongoing, Of(call.s)) /\ Take("ab1")
  <2>1. /\ RunOK' /\ run' \in RunType /\ run'.op = "destroy" /\ run'.s = s /\ run'.j = call.j
        /\ \A t \in Session : Stage(t) = "other"
        /\ \A t \in Session : t # s => Stage(t)' = "other"
        /\ Stage(s)' = "ab1"
    BY <1>1, <1>2, <1>9, TakeIs
  <2>2. jobq' = Without(jobq, Of(s)) /\ ongoing' = Without(ongoing, Of(s))
    BY <1>2, <1>9
  <2>3. /\ QueueOK' /\ jobq' \in Seq(Job) /\ ongoing' \in Seq(Job) /\ Len(ongoing') <= 1
        /\ \A k : (Underway(k)' => Underway(k)) /\ (Underway(k) /\ k \notin Of(s) => Underway(k)')
    BY <1>1, <2>2, JobsLeave
  <2>4. \A k \in Job : Underway(k)' => owner[k] # s
    <3> DEFINE w == Without(ongoing, Of(s))
    <3>1. \A k : Has(w, k) <=> (Has(ongoing, k) /\ k \notin Of(s))
      BY <1>3, WithoutIs
    <3> HIDE DEF w
    <3>2. \A k : Underway(k)' => k \notin Of(s)
      BY <2>2, <3>1 DEF Underway, w
    <3> QED
      BY <3>2 DEF Of
  <2>5. Types'
    BY <1>1, <2>1, <2>3 DEF Inv, Types
  <2>6. CallOK'
    BY <1>1, <1>2, <1>4, <1>9, <2>1, <2>4 DEF Inv, CallOK
  <2>7. ASSUME NEW t \in Session PROVE SessionOK(t)'
    <3>1. CASE t = s
      BY <1>6, <2>1, <3>1
    <3>2. CASE t # s
      <4>1. omx[t].work # "none" => sess[t].job \notin Of(s)
        BY <3>2, WorkIsUnanswered DEF Of
      <4>2. sess'[t].job = sess[t].job
        BY <1>1
      <4>3. omx[t].work # "none" /\ Underway(sess[t].job) => Underway(sess[t].job)'
        BY <2>3, <4>1, <4>2 DEF Underway
      <4> QED
        BY <1>5, <2>1, <3>2, <4>3
    <3> QED
      BY <3>1, <3>2
  <2> QED
    BY <2>1, <2>3, <2>5, <2>6, <2>7 DEF Inv, Sessions
<1> QED
  BY <1>7, <1>8, <1>9 DEF Begin

\* A call gives job_lock back.
LEMMA ReturnInv == ASSUME Inv, Return PROVE Inv'
<1>1. /\ run.op \in {"create", "abort", "destroy"} /\ run.cs = "none" /\ run.at = "return"
      /\ run' = Free /\ call' = NoCall
      /\ sess' = IF run.op = "create"
                   THEN [sess EXCEPT ![run.s].client = IF run.ok THEN "open" ELSE "bad"] ELSE sess
      /\ gone' = gone \cup (IF run.op = "create" THEN {}
                            ELSE {j \in Of(run.s) : run.op = "destroy" \/ j = run.j})
      /\ sem' \in {sem, sem + 1}
      /\ UNCHANGED <<jobq, ongoing, mgr, inprogress, omx, cb, owner, ans, out>>
  BY DEF Return
<1>2. PICK s \in Session : run.s = s
  BY <1>1 DEF Inv, RunOK
<1>3. SessionOK(s) /\ sess[s] \in SessionType /\ call.op = run.op /\ call.s = s /\ call.j = run.j
  BY <1>1, <1>2 DEF Inv, Sessions, Types, CallOK
<1>4. RunOK' /\ run' \in RunType /\ (\A t \in Session : Stage(t)' = "other")
  BY <1>1, FreeType DEF RunOK, StepsOf, Stage
<1>5. \A t \in Session : t # s => Stage(t) = "other"
  BY <1>2 DEF Stage
<1>6. call' \in CallType /\ call'.op = "none"
  BY <1>1, MmJpegAssumption DEF NoCall, CallType
<1>7. CallOK'
  BY <1>1, <1>6, FreeType DEF CallOK
<1>8. \A j : (Waiting(j)' <=> Waiting(j)) /\ (Underway(j)' <=> Underway(j))
  BY <1>1 DEF Waiting, Underway
<1>9. CASE run.op = "create"
  <2> DEFINE ok == IF run.ok THEN "open" ELSE "bad"
             c == [sess[s] EXCEPT !.client = ok]
  <2>1. /\ c \in SessionType /\ c.client \notin {"none", "new"} /\ c.hq = sess[s].hq
        /\ c.encoding = sess[s].encoding /\ c.abort = sess[s].abort
        /\ c.job = sess[s].job /\ c.ref = sess[s].ref
    BY <1>3 DEF SessionType
  <2>2. Changes(s, c) /\ gone' = gone
    BY <1>1, <1>2, <1>9, <2>1 DEF Changes
  <2> HIDE DEF c
  <2>3. /\ sess' \in [Session -> SessionType] /\ sess'[s] = c
        /\ \A t \in Session : t # s => sess'[t] = sess[t]
    BY <2>2, SessionChanges
  <2>4. sess[s].client = "new"
    BY <1>3, <1>9 DEF Inv, CallOK
  <2>5. QueueOK'
    <3>1. \A j \in Job : Waiting(j) \/ Underway(j) => owner[j] # s
      BY <2>4 DEF Inv, QueueOK
    <3> QED
      BY <1>1, <2>1, <2>2, <2>3, <3>1, IdleSessionChanges
  <2>6. Types'
    BY <1>1, <1>4, <1>6, <2>2, <2>3 DEF Inv, Types
  <2>7. ASSUME NEW t \in Session PROVE Keeps(t)
    <3>1. KeepsJob(t)
      BY <1>1, <2>1, <2>2, <2>3, JobKept
    <3>2. Stage(t)' = Stage(t)
      BY <1>4, <1>9 DEF Stage
    <3> QED
      BY <1>1, <2>1, <2>3, <3>1, <3>2 DEF Keeps, KeepsSession, KeepsEncoder
  <2>8. SessionOK(s)'
    BY <2>7, SessionKept DEF Inv, Sessions
  <2> QED
    BY <1>4, <1>7, <2>5, <2>6, <2>7, <2>8, OneSession
<1>10. CASE run.op \in {"abort", "destroy"}
  <2> DEFINE G == {j \in Of(s) : run.op = "destroy" \/ j = run.j}
  <2>1. gone' = gone \cup G /\ sess' = sess /\ G \subseteq Job
    BY <1>1, <1>2, <1>10 DEF Of
  <2>2. \A j \in G : owner[j] = s /\ ~Waiting(j) /\ ~Underway(j)
    BY <1>2, <1>3, <1>10 DEF Inv, CallOK, QueueOK, Of
  <2> HIDE DEF G
  <2>3. /\ \A j : ~Waiting(j) \/ (Finished(j)' <=> Finished(j))
        /\ s # none
    BY <1>1, <2>1, <2>2, MmJpegAssumption DEF Finished
  <2>4. QueueOK'
    BY <1>1, <1>8, <2>1, <2>2, <2>3 DEF Inv, QueueOK
  <2>5. Types'
    <3>1. gone' \in SUBSET Job /\ sem' \in Nat
      BY <1>1, <2>1 DEF Inv, Types
    <3>2. UNCHANGED <<jobq, ongoing, mgr, inprogress, omx, cb, owner, ans, out, sess>>
      BY <1>1, <2>1
    <3> QED
      BY <1>4, <1>6, <3>1, <3>2 DEF Inv, Types
  <2>6. /\ \A t \in Session : /\ (Unanswered(t)' <=> Unanswered(t)) /\ (Held(t)' <=> Held(t))
                              /\ Failed(t)' = Failed(t)
                              /\ Underway(sess[t].job)' <=> Underway(sess[t].job)
    BY <1>1, <2>1 DEF Unanswered, Held, Failed, Of, Underway
  <2>7. ASSUME NEW t \in Session, t # s PROVE Keeps(t)
    <3>1. omx[t].work # "none" /\ sess[t].job \notin gone => sess[t].job \notin gone'
      BY <2>1, <2>2, <2>7, WorkIsUnanswered
    <3>2. KeepsJob(t)
      BY <2>1, <2>6, <3>1 DEF KeepsJob
    <3>3. Stage(t)' = Stage(t)
      BY <1>4, <1>5, <2>7
    <3> QED
      BY <1>1, <2>1, <3>2, <3>3 DEF Keeps, KeepsSession, KeepsEncoder
  <2>8. Stage(s) \in {"other", "unload"}
    BY <1>1, <1>2, <1>10 DEF Stage, Preparing, Unloading
  <2>9. omx[s].work # "none" => Underway(sess[s].job) /\ sess[s].job \notin gone'
    <3>1. omx[s].work # "none" => Underway(sess[s].job) /\ sess[s].job \notin gone
      BY <1>3, <2>8 DEF SessionOK, WorkOK
    <3> QED
      BY <2>1, <2>2, <3>1
  <2>10. WorkOK(s)' /\ EncodeOK(s)' /\ CallbackOK(s)' /\ FreshOK(s)'
    BY <1>1, <1>3, <1>4, <2>1, <2>6, <2>8, <2>9 DEF SessionOK, WorkOK, EncodeOK, CallbackOK, FreshOK
  <2>11. AbortOK(s)' /\ MemoryOK(s)'
    BY <1>1, <1>3, <1>4, <2>1, <2>6, <2>8 DEF SessionOK, AbortOK, MemoryOK
  <2> QED
    BY <1>4, <1>7, <2>4, <2>5, <2>7, <2>10, <2>11, OneSession DEF SessionOK
<1> QED
  BY <1>1, <1>9, <1>10

-----------------------------------------------------------------------------
(* The manager between its jobs. *)

\* The manager's own state is nobody else's.
LEMMA ManagerLooks ==
  ASSUME Inv, mgr' \in {"wait", "check", "lock"}, sem' \in Nat,
         mgr' = "lock" => mgr = "lock" \/ ongoing = <<>>,
         UNCHANGED <<jobq, ongoing, call, run, sess, inprogress, omx, cb, owner, ans, gone, out>>
  PROVE  Inv'
<1>1. Types'
  BY DEF Inv, Types
<1>2. RunOK' /\ \A t \in Session : Stage(t)' = Stage(t)
  BY RunKept
<1>3. KeepsClients
  BY DEF KeepsClients
<1>4. QueueOK'
  <2>1. QueueOK /\ owner \in [Job -> Session \cup {none}]
    BY DEF Inv, Types
  <2> QED
    BY <1>3, <2>1, QueueKept
<1>5. CallOK'
  BY <1>3, CallKept DEF Inv
<1>6. ASSUME NEW t \in Session PROVE SessionOK(t)'
  <2>1. KeepsJob(t)
    BY JobKept
  <2>2. Keeps(t)
    BY <1>2, <2>1 DEF Keeps, KeepsSession, KeepsEncoder
  <2> QED
    BY <2>2, SessionKept DEF Inv, Sessions
<1> QED
  BY <1>1, <1>2, <1>4, <1>5, <1>6 DEF Inv, Sessions

\* What a queue holds after its first job has left.
LEMMA HeadHas ==
  ASSUME NEW q \in Seq(Job), q # <<>>, \A i, k \in DOMAIN q : q[i] = q[k] => i = k
  PROVE  /\ Head(q) \in Job /\ Has(q, Head(q)) /\ Tail(q) \in Seq(Job)
         /\ \A j : Has(Tail(q), j) => Has(q, j) /\ j # Head(q)
         /\ \A i, k \in DOMAIN Tail(q) : Tail(q)[i] = Tail(q)[k] => i = k
<1> DEFINE w == Tail(q)
<1>1. /\ w \in Seq(Job) /\ Len(q) \in Nat /\ Len(q) >= 1 /\ DOMAIN q = 1..Len(q)
      /\ DOMAIN w = 1..(Len(q) - 1) /\ \A i \in DOMAIN w : w[i] = q[i + 1]
      /\ Head(q) = q[1] /\ q[1] \in Job
  BY LenProperties, HeadTailProperties, EmptySeq, ElementOfSeq
<1> HIDE DEF w
<1>2. \A j : Has(w, j) => Has(q, j) /\ j # q[1]
  <2> SUFFICES ASSUME NEW i \in DOMAIN w PROVE i + 1 \in DOMAIN q /\ q[i + 1] # q[1]
    BY <1>1 DEF Has
  <2>1. i + 1 \in DOMAIN q /\ 1 \in DOMAIN q /\ i + 1 # 1
    BY <1>1
  <2> QED
    BY <2>1
<1>3. Has(q, q[1])
  BY <1>1 DEF Has
<1>4. ASSUME NEW i \in DOMAIN w, NEW k \in DOMAIN w, w[i] = w[k] PROVE i = k
  <2>1. i + 1 \in DOMAIN q /\ k + 1 \in DOMAIN q /\ q[i + 1] = q[k + 1] /\ i \in Int /\ k \in Int
    BY <1>1, <1>4
  <2>2. i + 1 = k + 1
    BY <2>1
  <2> QED
    BY <2>1, <2>2
<1> QED
  BY <1>1, <1>2, <1>3, <1>4 DEF w

\* The manager takes the first job and job_lock.
LEMMA ManagerTakesInv == ASSUME Inv, ManagerTakes PROVE Inv'
<1>1. /\ mgr = "lock" /\ run = Free
      /\ UNCHANGED <<sem, call, inprogress, omx, cb, owner, ans, gone, out>>
  BY DEF ManagerTakes, ghosts
<1>2. CASE mgr' = "wait" /\ UNCHANGED <<jobq, ongoing, run, sess>>
  <2>1. sem' \in Nat
    BY <1>1 DEF Inv, Types
  <2> QED
    BY <1>1, <1>2, <2>1, ManagerLooks
<1>3. CASE ~(mgr' = "wait" /\ UNCHANGED <<jobq, ongoing, run, sess>>)
  <2>0. PICK j : j = Head(jobq)
    OBVIOUS
  <2>1. jobq # <<>> /\ sess[owner[j]].hq # 0
    BY <1>3, <2>0 DEF ManagerTakes
  <2>2. /\ jobq \in Seq(Job) /\ \A i, k \in DOMAIN jobq : jobq[i] = jobq[k] => i = k
    BY DEF Inv, Types, QueueOK
  <2>3. /\ j \in Job /\ Waiting(j) /\ Tail(jobq) \in Seq(Job)
        /\ \A k : Has(Tail(jobq), k) => Waiting(k) /\ k # j
        /\ \A i, k \in DOMAIN Tail(jobq) : Tail(jobq)[i] = Tail(jobq)[k] => i = k
    BY <2>0, <2>1, <2>2, HeadHas DEF Waiting
  <2>4. PICK s \in Session : s = owner[j]
    BY <2>3 DEF Inv, QueueOK
  <2> DEFINE c == [sess[s] EXCEPT !.hq = sess[s].hq - 1, !.job = j, !.ref = FALSE]
  <2>5. /\ jobq' = Tail(jobq) /\ ongoing' = Append(ongoing, j) /\ sess' = [sess EXCEPT ![s] = c]
        /\ run' = [Free EXCEPT !.op = "encode", !.s = s, !.j = j, !.at = "reset"]
        /\ mgr' = "run"
    BY <1>3, <2>0, <2>4 DEF ManagerTakes
  <2>6. /\ SessionOK(s) /\ sess[s] \in SessionType /\ sess[s].hq = 1
        /\ sess[s].client \in {"open", "stopping"} /\ ~Finished(j) /\ ~Underway(j) /\ ongoing = <<>>
    BY <1>1, <2>1, <2>3, <2>4 DEF Inv, Sessions, Types, SessionType, QueueOK
  <2>7. /\ c \in SessionType /\ c.client = sess[s].client /\ c.abort = sess[s].abort /\ c.hq = 0
        /\ c.job = j /\ ~c.ref /\ c.encoding = sess[s].encoding
    <3>1. \A h \in 0..1, k \in 0..MaxJob, r \in BOOLEAN :
            [sess[s] EXCEPT !.hq = h, !.job = k, !.ref = r] \in SessionType
      BY <2>6 DEF SessionType
    <3>2. sess[s].hq - 1 = 0 /\ 0 \in 0..1 /\ j \in 0..MaxJob /\ FALSE \in BOOLEAN
      BY <2>3, <2>6 DEF Job
    <3>3. c \in SessionType
      BY <3>1, <3>2
    <3> QED
      BY <2>6, <3>2, <3>3 DEF SessionType
  <2>8. Changes(s, c)
    BY <2>5, <2>7 DEF Changes
  <2> HIDE DEF c
  <2>9. /\ sess' \in [Session -> SessionType] /\ sess'[s] = c
        /\ \A t \in Session : t # s => sess'[t] = sess[t]
        /\ \A t \in Session : sess'[t].client = sess[t].client
    BY <2>7, <2>8, SessionChanges
  <2>10. /\ run' \in RunType /\ run'.op = "encode" /\ run'.s = s /\ run'.j = j /\ run'.at = "reset"
         /\ run'.cs = "none" /\ RunOK'
    <3>1. /\ run'.op = "encode" /\ run'.s = s /\ run'.j = j /\ run'.at = "reset" /\ run'.cs = "none"
      BY <2>5 DEF Free
    <3>2. run' \in RunType
      <4>1. \A k \in 0..MaxJob :
              [Free EXCEPT !.op = "encode", !.s = s, !.j = k, !.at = "reset"] \in RunType
        BY MmJpegAssumption DEF Free, RunType, AbortSteps, Unloading, Preparing
      <4>2. j \in 0..MaxJob
        BY <2>3 DEF Job
      <4> QED
        BY <2>5, <4>1, <4>2
    <3> QED
      BY <3>1, <3>2 DEF RunOK, StepsOf
  <2>11. /\ ongoing' \in Seq(Job) /\ Len(ongoing') <= 1 /\ \A k : Underway(k)' <=> k = j
    <3>1. ongoing' = <<j>>
      BY <2>5, <2>6
    <3> QED
      BY <2>3, <3>1 DEF Underway, Has
  <2>12. Types'
    BY <1>1, <2>3, <2>5, <2>9, <2>10, <2>11 DEF Inv, Types
  <2>13. QueueOK'
    <3>1. /\ \A k : (Waiting(k)' => Waiting(k) /\ k # j)
          /\ \A k : (Finished(k)' <=> Finished(k))
          /\ \A i, k \in DOMAIN jobq' : jobq'[i] = jobq'[k] => i = k
      BY <1>1, <2>3, <2>5 DEF Waiting, Finished
    <3>2. QueueOK
      BY DEF Inv
    <3>3. \A t \in Session : sess'[t].job # 0 => owner[sess'[t].job] = t
      BY <2>4, <2>7, <2>9, <3>2 DEF QueueOK
    <3>4. \A k \in Job : Waiting(k)' => owner[k] \in Session /\ ~Finished(k) /\ k # j
                                       /\ sess'[owner[k]].client \in {"open", "stopping"}
      BY <2>9, <3>1, <3>2 DEF QueueOK
    <3>5. j \notin gone /\ sess'[s].job = j /\ sess'[s].client \in {"open", "stopping"}
      BY <2>6, <2>7, <2>9 DEF Finished
    <3> QED
      BY <1>1, <2>4, <2>5, <2>11, <3>1, <3>2, <3>3, <3>4, <3>5 DEF QueueOK
  <2>14. CallOK'
    <3>1. \A k : Finished(k)' <=> Finished(k)
      BY <1>1 DEF Finished
    <3>2. \A u : Of(u)' = Of(u)
      BY <1>1 DEF Of
    <3>3. call.op # "none" => sess'[call.s].client = sess[call.s].client
      BY <2>9 DEF Inv, CallOK
    <3>4. sess'[s].client \in {"open", "stopping"}
      BY <2>6, <2>9
    <3> QED
      BY <1>1, <2>10, <3>1, <3>2, <3>3, <3>4 DEF Inv, CallOK
  <2>15. ASSUME NEW t \in Session, t # s PROVE Keeps(t)
    <3>1. Stage(t)' = Stage(t)
      BY <1>1, <2>10, <2>15 DEF Stage, Free
    <3>2. KeepsJob(t)
      <4>1. ~Underway(sess[t].job)
        BY <2>6 DEF Underway, Has
      <4>2. Failed(t)' = Failed(t) /\ (Unanswered(t)' <=> Unanswered(t))
        BY <1>1, <2>9, <2>15 DEF Failed, Of, Unanswered
      <4> QED
        BY <1>1, <4>1, <4>2 DEF KeepsJob
    <3> QED
      BY <1>1, <2>9, <2>15, <3>1, <3>2 DEF Keeps, KeepsSession, KeepsEncoder
  <2>16. Stage(s) = "other" /\ Stage(s)' = "reset"
    BY <1>1, <2>10 DEF Stage, Free, Preparing, Unloading
  <2>17. /\ omx[s].work = "none" /\ ~Held(s) /\ (cb[s] = Quiet \/ cb[s][2] = 3)
         /\ sess[s].abort # "init"
    <3>1. cb[s] = Quiet \/ cb[s][2] \in 1..3
      BY DEF Inv, Types
    <3> QED
      BY <2>6, <2>16, <3>1 DEF SessionOK, WorkOK, MemoryOK, CallbackOK, AbortOK
  <2>18. /\ Unanswered(s)' /\ ~Held(s)' /\ Failed(s)' = Failed(s) /\ Underway(sess[s].job)'
    <3>1. sess'[s].job = j
      BY <2>7, <2>9
    <3>2. Underway(sess[s].job)'
      BY <2>11, <3>1 DEF Underway
    <3> QED
      BY <1>1, <2>3, <2>6, <2>7, <2>9, <3>1, <3>2 DEF Unanswered, Held, Failed, Of, Finished
  <2>19. WorkOK(s)' /\ EncodeOK(s)' /\ CallbackOK(s)' /\ FreshOK(s)'
    BY <1>1, <2>6, <2>7, <2>9, <2>16, <2>17, <2>18
       DEF SessionOK, WorkOK, EncodeOK, CallbackOK, FreshOK
  <2>20. AbortOK(s)' /\ MemoryOK(s)'
    BY <1>1, <2>6, <2>7, <2>9, <2>16, <2>17, <2>18 DEF SessionOK, AbortOK, MemoryOK
  <2> QED
    BY <2>10, <2>12, <2>13, <2>14, <2>15, <2>19, <2>20, OneSession DEF SessionOK
<1> QED
  BY <1>2, <1>3

\* The manager wakes and looks at the queue of jobs under way.
LEMMA ManagerWakesInv == ASSUME Inv, ManagerWakes \/ ManagerChecks PROVE Inv'
<1>1. /\ mgr' \in {"wait", "check", "lock"} /\ sem' \in Nat /\ (mgr' = "lock" => ongoing = <<>>)
  BY DEF ManagerWakes, ManagerChecks, Inv, Types
<1>2. UNCHANGED <<jobq, ongoing, call, run, sess, inprogress, omx, cb, owner, ans, gone, out>>
  BY DEF ManagerWakes, ManagerChecks, ghosts
<1> QED
  BY <1>1, <1>2, ManagerLooks

-----------------------------------------------------------------------------

LEMMA InitInv == ASSUME Init PROVE Inv
<1> USE DEF Init
<1>1. /\ Closed \in SessionType /\ Unloaded \in EncoderType /\ NoCall \in CallType
      /\ Free \in RunType
  BY FreeType, MmJpegAssumption
     DEF Closed, SessionType, Unloaded, EncoderType, States, NoCall, CallType
<1>2. Types
  BY <1>1 DEF Types
<1>3. \A j : ~Waiting(j) /\ ~Underway(j)
  BY DEF Waiting, Underway, Has
<1>4. RunOK /\ CallOK
  BY FreeType DEF RunOK, StepsOf, CallOK, NoCall
<1>5. /\ \A s \in Session : sess[s].job = 0 /\ ~sess[s].ref /\ sess[s].abort = "none"
                            /\ omx[s].work = "none" /\ out[s] = 0 /\ Stage(s) = "other"
  BY FreeType DEF Closed, Unloaded, Stage
<1>6. QueueOK
  BY <1>3, <1>5, MmJpegAssumption DEF QueueOK
<1>7. ASSUME NEW s \in Session PROVE SessionOK(s)
  <2>1. Cardinality(Failed(s)) \in Nat
    BY FailedIsFinite
  <2>2. ~Held(s) /\ cb[s] = Quiet
    BY <1>5 DEF Held
  <2> QED
    BY <1>5, <2>1, <2>2
       DEF SessionOK, WorkOK, EncodeOK, CallbackOK, AbortOK, MemoryOK, FreshOK
<1> QED
  BY <1>2, <1>4, <1>6, <1>7 DEF Inv, Sessions

LEMMA StutterInv == ASSUME Inv, UNCHANGED vars PROVE Inv'
<1>1. UNCHANGED <<jobq, ongoing, sem, mgr, call, run, sess, inprogress, omx, cb, owner, ans, gone, out>>
  BY DEF vars
<1>2. Types'
  BY <1>1 DEF Inv, Types
<1>3. RunOK' /\ (\A t \in Session : Stage(t)' = Stage(t)) /\ KeepsClients
  BY <1>1, RunKept DEF KeepsClients
<1>4. \A t \in Session : KeepsSession(t) /\ KeepsEncoder(t)
  BY <1>1 DEF KeepsSession, KeepsEncoder
<1> QED
  BY <1>1, <1>2, <1>3, <1>4, HolderGoesOn

-----------------------------------------------------------------------------
(* Who is encoding. *)

\* What keeps it, for one session: work that does not end, and callbacks and a
\* hand-over that do not go on.
LEMMA EncodingKept ==
  ASSUME Encodings, NEW t \in Session,
         sess'[t].encoding /\ sess'[t].abort = "none" => sess[t].encoding /\ sess[t].abort = "none",
         omx'[t].work = "none" => omx[t].work = "none",
         cb'[t] = cb[t],
         run.at \in HandOver => run'.s = run.s /\ run'.at \in HandOver
  PROVE  EncodingOK(t)'
BY DEF Encodings, EncodingOK

\* Steps in which no job starts or ends.
LEMMA QuietEncoding ==
  ASSUME Inv, Encodings, UNCHANGED <<sess, cb>>, run.at \notin HandOver \/ run' = run,
         \A t \in Session : omx'[t].work = omx[t].work
  PROVE  Encodings'
BY EncodingKept DEF Encodings

LEMMA ClientEncoding == ASSUME Inv, Encodings, NEW s \in Session, Client(s) PROVE Encodings'
<1>1. sess \in [Session -> SessionType] /\ UNCHANGED <<omx, cb, run>>
  BY DEF Inv, Types, Client, CreateSession, DestroySession, StartJob, AbortJob
<1>2. \A t \in Session : sess'[t].encoding /\ sess'[t].abort = "none"
                          => sess[t].encoding /\ sess[t].abort = "none"
  <2>1. CASE CreateSession(s)
    <3>1. sess[s].client = "none"
      BY <2>1 DEF CreateSession
    <3> QED BY <1>1, <2>1 DEF CreateSession, Closed, SessionType
  <2>2. CASE UNCHANGED sess
    BY <2>2
  <2>3. CASE sess' = [sess EXCEPT ![s].client = "stopping"]
    BY <1>1, <2>3 DEF SessionType
  <2> QED
    BY <2>1, <2>2, <2>3 DEF Client, DestroySession, StartJob, AbortJob
<1> QED
  BY <1>1, <1>2, EncodingKept DEF Encodings

\* A step of the holder elsewhere than where a job is handed over.
LEMMA HolderEncoding ==
  ASSUME Inv, Encodings, UNCHANGED cb, run.at \notin HandOver,
         \A t \in Session : omx'[t].work = omx[t].work,
         \A t \in Session : sess'[t].encoding /\ sess'[t].abort = "none"
                              => sess[t].encoding /\ sess[t].abort = "none"
  PROVE  Encodings'
BY EncodingKept DEF Encodings

\* Changes of state.
LEMMA ChangeEncoding ==
  ASSUME Inv, Encodings, SendCommand \/ AfterSend \/ Woken \/ Unload \/ ClearOther \/ Configure
  PROVE  Encodings'
<1>1. sess \in [Session -> SessionType] /\ omx \in [Session -> EncoderType] /\ UNCHANGED cb
  BY DEF Inv, Types, SendCommand, AfterSend, Woken, Unload, ClearOther, Configure, ghosts
<1>2. run.at \notin HandOver
  BY DEF Inv, RunOK, SendCommand, AfterSend, Woken, Unload, ClearOther, Configure, Is, HandOver
<1>3. \A t \in Session : omx'[t].work = omx[t].work
  <2>1. \/ UNCHANGED omx
        \/ omx' = [omx EXCEPT ![run.t].cmd = run.to]
        \/ \E b : omx' = [omx EXCEPT ![run.t].bufs = b]
    BY DEF SendCommand, AfterSend, Woken, Unload, ClearOther, Configure
  <2>2. ASSUME NEW u, NEW c, omx' = [omx EXCEPT ![u].cmd = c] \/ omx' = [omx EXCEPT ![u].bufs = c],
               NEW t \in Session
        PROVE  omx'[t].work = omx[t].work
    <3>1. omx[t] \in EncoderType
      BY <1>1
    <3>2. \/ omx'[t] = omx[t] \/ omx'[t] = [omx[t] EXCEPT !.cmd = c]
          \/ omx'[t] = [omx[t] EXCEPT !.bufs = c]
      BY <1>1, <2>2
    <3> QED
      BY <3>1, <3>2 DEF EncoderType
  <2> QED
    BY <2>1, <2>2
<1>4. \/ UNCHANGED sess
      \/ \E t \in Session \cup {inprogress, none} : \/ sess' = [sess EXCEPT ![t].pending = TRUE]
         \/ \E b \in BOOLEAN : sess' = [sess EXCEPT ![t].config = b]
  <2>1. run.s \in Session \cup {none}
    BY DEF Inv, Types, RunType
  <2> QED
    BY <2>1 DEF SendCommand, AfterSend, Woken, Unload, ClearOther, Configure, ChangeState
<1>5. \A t \in Session : sess'[t].encoding = sess[t].encoding /\ sess'[t].abort = sess[t].abort
  BY <1>1, <1>4 DEF SessionType
<1> QED
  BY <1>1, <1>2, <1>3, <1>5, HolderEncoding

\* Calls that begin, end, abort a job or free a session.
LEMMA CallEncoding ==
  ASSUME Inv, Encodings, Begin \/ Return \/ AbortInit \/ AbortCommand \/ AbortWait \/ FreeHandle
  PROVE  Encodings'
<1>1. /\ sess \in [Session -> SessionType] /\ omx \in [Session -> EncoderType] /\ run \in RunType
      /\ UNCHANGED cb
  BY DEF Inv, Types, Begin, Return, AbortInit, AbortCommand, AbortWait, FreeHandle, ghosts
<1>2. run.at \notin HandOver
  BY DEF Inv, RunOK, Free, Begin, Return, AbortInit, AbortCommand, AbortWait, FreeHandle, Is, HandOver
<1>3. CASE Begin
  BY <1>1, <1>2, <1>3, HolderEncoding DEF Begin
<1>4. CASE Return
  <2>1. \/ UNCHANGED sess
        \/ \E c \in {"open", "bad"} : sess' = [sess EXCEPT ![run.s].client = c]
    BY <1>4 DEF Return
  <2>2. \A t \in Session : sess'[t].encoding = sess[t].encoding /\ sess'[t].abort = sess[t].abort
    BY <1>1, <2>1 DEF SessionType
  <2> QED
    BY <1>1, <1>2, <1>4, <2>2, HolderEncoding DEF Return
<1>5. CASE AbortInit \/ AbortCommand \/ AbortWait
  <2>1. \A t \in Session : omx'[t].work = omx[t].work
    BY <1>1, <1>5 DEF AbortInit, AbortCommand, AbortWait, EncoderType
  <2>2. \/ UNCHANGED sess
        \/ sess' = [sess EXCEPT ![run.s].abort = "init", ![run.s].pending = TRUE]
        \/ sess' = [sess EXCEPT ![run.s].abort = "done", ![run.s].ref = FALSE]
    BY <1>5 DEF AbortInit, AbortCommand, AbortWait, Aborted
  <2>3. \A t \in Session : sess'[t].encoding /\ sess'[t].abort = "none"
                           => sess[t].encoding /\ sess[t].abort = "none"
    BY <1>1, <2>2 DEF SessionType
  <2> QED
    BY <1>1, <1>2, <2>1, <2>3, HolderEncoding
<1>6. CASE FreeHandle
  <2>1. \A t \in Session : /\ t # run.s => omx'[t].work = omx[t].work /\ sess'[t] = sess[t]
                           /\ t = run.s => ~sess'[t].encoding
    BY <1>1, <1>6 DEF FreeHandle, Closed
  <2> QED
    BY <1>1, <1>2, <2>1 DEF Encodings, EncodingOK
<1> QED
  BY <1>3, <1>4, <1>5, <1>6

\* The manager takes a job, starts it or fails to.
LEMMA ManagerEncoding ==
  ASSUME Inv, Encodings,
         \/ ManagerWakes \/ ManagerChecks \/ ManagerTakes \/ Reset \/ ConfigureJob \/ EmptyThisBuffer
         \/ FillThisBuffer \/ JobFails \/ FailedJobDone
  PROVE  Encodings'
<1>1. /\ sess \in [Session -> SessionType] /\ omx \in [Session -> EncoderType] /\ run \in RunType
      /\ UNCHANGED cb
  BY DEF Inv, Types, ManagerWakes, ManagerChecks, ManagerTakes, Reset, ConfigureJob, EmptyThisBuffer,
         FillThisBuffer, JobFails, FailedJobDone, ghosts
<1>2. CASE ManagerWakes \/ ManagerChecks
  BY <1>1, <1>2, QuietEncoding DEF ManagerWakes, ManagerChecks
<1>3. CASE ManagerTakes
  <2>1. run.at \notin HandOver /\ UNCHANGED omx
    BY <1>3 DEF ManagerTakes, Free, HandOver
  <2>2. \A t \in Session : sess'[t].encoding = sess[t].encoding /\ sess'[t].abort = sess[t].abort
    <3>1. CASE UNCHANGED sess
      BY <3>1
    <3>2. CASE \E s, j, h : sess' = [sess EXCEPT ![s].hq = h, ![s].job = j, ![s].ref = FALSE]
      BY <1>1, <3>2 DEF SessionType
    <3> QED
      BY <1>3, <3>1, <3>2 DEF ManagerTakes
  <2> QED
    BY <1>1, <2>1, <2>2, HolderEncoding
<1>4. CASE Reset
  <2>1. \A t \in Session : /\ t # run.s => sess'[t] = sess[t]
                           /\ t = run.s => ~sess'[t].encoding
    BY <1>1, <1>4 DEF Reset, SessionType
  <2>2. run.at \notin HandOver /\ UNCHANGED omx
    BY <1>4 DEF Reset, Is, HandOver
  <2> QED
    BY <1>1, <2>1, <2>2, HolderEncoding
<1>5. CASE ConfigureJob
  <2>1. run.at \notin HandOver /\ UNCHANGED omx
    BY <1>5 DEF ConfigureJob, Is, HandOver
  <2>2. CASE UNCHANGED sess
    BY <1>1, <2>1, <2>2, HolderEncoding
  <2>3. CASE /\ run' = [run EXCEPT !.at = "empty", !.ok = TRUE]
             /\ sess' = [sess EXCEPT ![run.s].encoding = TRUE]
    <3>1. run'.s = run.s /\ run'.at = "empty"
      BY <1>1, <2>3 DEF RunType
    <3>2. \A t \in Session : t # run.s => sess'[t] = sess[t]
      BY <1>1, <2>3
    <3> QED
      BY <1>1, <2>1, <3>1, <3>2 DEF Encodings, EncodingOK, HandOver
  <2> QED
    BY <1>5, <2>2, <2>3 DEF ConfigureJob, GoTo
<1>6. CASE EmptyThisBuffer \/ FillThisBuffer \/ JobFails
  <2>1. /\ UNCHANGED sess /\ run.at \in {"empty", "fill", "fail"} /\ run.s \in Session
        /\ run.op = "encode"
    <3>1. UNCHANGED sess /\ \E a \in {"empty", "fill", "fail"} : Is(a)
      BY <1>6 DEF EmptyThisBuffer, FillThisBuffer, JobFails
    <3>2. PICK a \in {"empty", "fill", "fail"} : Is(a)
      BY <3>1
    <3>3. /\ run.s \in Session /\ a \in StepsOf(run.op)
          /\ run.op \in {"create", "abort", "destroy", "encode"}
      BY <3>2, HolderIs
    <3> QED
      BY <3>1, <3>2, <3>3 DEF StepsOf, AbortSteps, Unloading, Is
  <2>2. \A t \in Session : t # run.s => omx'[t].work = omx[t].work
    BY <1>1, <1>6 DEF EmptyThisBuffer, FillThisBuffer, JobFails
  <2>3. \/ omx'[run.s].work # "none"
        \/ run' = [run EXCEPT !.at = Fail] \/ run' = [run EXCEPT !.at = "done1", !.ok = TRUE]
        \/ run.at = "fill" /\ omx' = omx
    <3>1. CASE EmptyThisBuffer
      BY <1>1, <2>1, <3>1 DEF EmptyThisBuffer, GoTo, FailAt, EncoderType
    <3>2. CASE FillThisBuffer
      BY <1>1, <2>1, <3>2 DEF FillThisBuffer, Is, FailAt, EncoderType
    <3>3. CASE JobFails
      BY <3>3 DEF JobFails, GoTo
    <3> QED
      BY <1>6, <3>1, <3>2, <3>3
  <2>4. \/ omx'[run.s].work # "none" \/ (run'.s = run.s /\ run'.at \in HandOver)
        \/ run.at = "fill" /\ omx' = omx
    BY <1>1, <2>1, <2>3 DEF HandOver, Fail, RunType
  <2>5. ASSUME NEW t \in Session PROVE EncodingOK(t)'
    <3>1. CASE t = run.s
      BY <1>1, <2>1, <2>4, <3>1 DEF Encodings, EncodingOK, HandOver
    <3>2. CASE t # run.s
      BY <1>1, <2>1, <2>2, <3>2 DEF Encodings, EncodingOK
    <3> QED BY <3>1, <3>2
  <2> QED
    BY <2>5 DEF Encodings
<1>7. CASE FailedJobDone
  <2>1. UNCHANGED <<cb, omx>> /\ run.at \in {"done1", "done2", "done3"}
    BY <1>1, <1>7 DEF FailedJobDone, Is
  <2>2. CASE run.at = "done1"
    <3>1. sess' = [sess EXCEPT ![run.s].encoding = FALSE]
      BY <1>7, <2>2 DEF FailedJobDone, JobDone, Is
    <3>2. \A t \in Session : /\ t # run.s => sess'[t] = sess[t]
                             /\ t = run.s => ~sess'[t].encoding
      BY <1>1, <3>1 DEF SessionType
    <3> QED
      BY <2>1, <3>2 DEF Encodings, EncodingOK
  <2>3. CASE run.at # "done1"
    <3>1. sess' = sess \/ sess' = [sess EXCEPT ![run.s].hq = @ + 1]
      BY <1>7, <2>1, <2>3 DEF FailedJobDone, JobDone, Is
    <3>4. ASSUME NEW h, sess' = [sess EXCEPT ![run.s].hq = h]
          PROVE  \A t \in Session :
                   sess'[t].encoding = sess[t].encoding /\ sess'[t].abort = sess[t].abort
      BY <1>1, <3>4 DEF SessionType
    <3>2. \A t \in Session : sess'[t].encoding = sess[t].encoding /\ sess'[t].abort = sess[t].abort
      BY <3>1, <3>4
    <3>3. run.at \notin HandOver
      BY <2>1, <2>3 DEF HandOver
    <3> QED
      BY <2>1, <3>2, <3>3, HolderEncoding
  <2> QED
    BY <2>2, <2>3
<1> QED
  BY <1>2, <1>3, <1>4, <1>5, <1>6, <1>7

\* The encoder's work, its events, and what its callbacks do.
LEMMA EncoderEncoding ==
  ASSUME Inv, Encodings, NEW s \in Session, Encoder(s) \/ EventError(s)
  PROVE  Encodings'
<1>1. /\ sess \in [Session -> SessionType] /\ omx \in [Session -> EncoderType] /\ run \in RunType
      /\ cb \in [Session -> ({"fbd", "error"} \X (1..3)) \cup {Quiet}] /\ SessionOK(s)
      /\ EncodingOK(s)
  BY DEF Inv, Types, Sessions, Encodings
<1>2. \A t \in Session : t # s => sess'[t] = sess[t] /\ omx'[t] = omx[t] /\ cb'[t] = cb[t]
  BY <1>1
     DEF Encoder, GetMem, FillBufferDone, EventCmdComplete, CallbackGoesOn, CallbackEnds, EventError,
         JobDone, Answer
<1>3. run.at \in HandOver => run' = run
  <2>1. run.at \in HandOver => run.cs = "none" /\ run.at # "abwait"
    BY DEF HandOver, Inv, RunOK
  <2>2. run' = run \/ run' = Signalled(run, s)
    BY DEF Encoder, GetMem, FillBufferDone, EventCmdComplete, CallbackGoesOn, CallbackEnds, EventError
  <2> QED
    BY <2>1, <2>2 DEF Signalled
<1>4. SUFFICES EncodingOK(s)'
  BY <1>2, <1>3, EncodingKept DEF Encodings
<1>5. CASE GetMem(s)
  <2>1. sess' = [sess EXCEPT ![s] = [sess[s] EXCEPT !.ref = TRUE]]
        /\ omx' = [omx EXCEPT ![s] = [omx[s] EXCEPT !.mem = TRUE]]
    BY <1>5 DEF GetMem
  <2>2. sess'[s].encoding = sess[s].encoding /\ sess'[s].abort = sess[s].abort /\ cb' = cb
        /\ omx'[s].work = omx[s].work
    BY <1>1, <1>5, <2>1 DEF GetMem, SessionType, EncoderType
  <2> QED
    BY <1>3, <2>2, EncodingKept
<1>6. CASE FillBufferDone(s)
  <2>1. sess' = sess /\ (sess[s].abort # "none" \/ cb' = [cb EXCEPT ![s] = <<"fbd", 1>>])
    BY <1>6 DEF FillBufferDone
  <2> QED
    BY <1>1, <2>1 DEF EncodingOK
<1>7. CASE EventCmdComplete(s)
  <2>1. omx[s].work # "none" => sess[s].abort = "init"
    BY <1>1, <1>7 DEF SessionOK, WorkOK, EventCmdComplete
  <2>2. CASE sess[s].abort = "init"
    <3>1. sess'[s].abort = "done"
      BY <1>1, <1>7, <2>2 DEF EventCmdComplete, SessionType
    <3> QED
      BY <3>1 DEF EncodingOK
  <2>3. CASE sess[s].abort # "init"
    <3>1. sess'[s].encoding = sess[s].encoding /\ sess'[s].abort = sess[s].abort /\ cb' = cb
      BY <1>1, <1>7, <2>3 DEF EventCmdComplete, SessionType
    <3>2. omx[s].work = "none"
      BY <2>1, <2>3
    <3>3. cb[s][2] = 1 \/ (run.s = s /\ run.at \in HandOver)
            => cb'[s][2] = 1 \/ (run'.s = s /\ run'.at \in HandOver)
      BY <1>3, <3>1
    <3> QED
      BY <1>1, <3>1, <3>2, <3>3 DEF EncodingOK
  <2> QED
    BY <2>2, <2>3
<1>8. CASE CallbackGoesOn(s)
  <2>1. PICK kind \in {"fbd", "error"}, step \in 1..2 : cb[s] = <<kind, step>> /\ JobDone(s, step)
    BY <1>8 DEF CallbackGoesOn
  <2>2. omx' = omx /\ run' = run
    BY <1>8 DEF CallbackGoesOn
  <2>3. CASE step = 1
    <3>1. sess'[s].encoding = FALSE
      BY <1>1, <2>1, <2>3 DEF JobDone, SessionType
    <3> QED
      BY <3>1 DEF EncodingOK
  <2>4. CASE step = 2
    <3>1. ASSUME NEW h, sess' = [sess EXCEPT ![s].hq = h]
          PROVE  sess'[s].encoding = sess[s].encoding /\ sess'[s].abort = sess[s].abort
      BY <1>1, <3>1 DEF SessionType
    <3>2. sess'[s].encoding = sess[s].encoding /\ sess'[s].abort = sess[s].abort /\ cb[s][2] # 1
      BY <2>1, <2>4, <3>1 DEF JobDone
    <3> QED
      BY <1>1, <2>2, <3>2 DEF EncodingOK
  <2> QED
    BY <2>3, <2>4
<1>9. CASE CallbackEnds(s)
  <2>1. cb[s][2] = 3 /\ omx' = omx
    BY <1>9 DEF CallbackEnds
  <2>2. sess' = sess \/ sess' = [sess EXCEPT ![s].ref = FALSE]
    BY <1>9 DEF CallbackEnds
  <2>3. sess'[s].encoding = sess[s].encoding /\ sess'[s].abort = sess[s].abort
    BY <1>1, <2>2 DEF SessionType
  <2> QED
    BY <1>1, <1>3, <2>1, <2>3 DEF EncodingOK
<1>10. CASE EventError(s)
  <2>1. CASE sess[s].abort = "init"
    <3>1. sess'[s].abort = "done"
      BY <1>1, <1>10, <2>1 DEF EventError, SessionType
    <3> QED
      BY <3>1 DEF EncodingOK
  <2>2. CASE sess[s].abort # "init" /\ sess[s].encoding
    <3>1. cb' = [cb EXCEPT ![s] = <<"error", 1>>]
      BY <1>10, <2>2 DEF EventError
    <3> QED
      BY <1>1, <3>1 DEF EncodingOK
  <2>3. CASE sess[s].abort # "init" /\ ~sess[s].encoding
    <3>1. ~sess'[s].encoding
      BY <1>1, <1>10, <2>3 DEF EventError, SessionType
    <3> QED
      BY <3>1 DEF EncodingOK
  <2> QED
    BY <2>1, <2>2, <2>3
<1> QED
  BY <1>5, <1>6, <1>7, <1>8, <1>9, <1>10 DEF Encoder

\* Every step keeps it.
LEMMA EncodingStep == ASSUME Inv, Encodings, [Next]_vars PROVE Encodings'
<1>1. CASE UNCHANGED vars
  BY <1>1, QuietEncoding DEF vars
<1> QED
  BY <1>1, ClientEncoding, EncoderEncoding, ChangeEncoding, CallEncoding, ManagerEncoding
     DEF Next, Holder

-----------------------------------------------------------------------------

\* Every step keeps the invariant.
LEMMA InvStep == ASSUME OrderlyEncoder, Inv, Encodings, [Next]_vars PROVE Inv'
<1>1. CASE UNCHANGED vars
  BY <1>1, StutterInv
<1>2. ASSUME NEW s \in Session, Client(s) PROVE Inv'
  BY <1>2, CreateSessionInv, DestroySessionInv, StartJobInv, AbortJobInv DEF Client
<1>3. ASSUME NEW s \in Session, Encoder(s) PROVE Inv'
  BY <1>3, GetMemInv, FillBufferDoneInv, EventCmdCompleteInv, CallbackGoesOnInv, CallbackEndsInv
     DEF Encoder
<1>4. ASSUME NEW s \in Session, EventError(s) PROVE Inv'
  BY <1>4, EventErrorInv
<1>5. CASE Holder
  <2>1. CASE Return \/ SendCommand \/ AfterSend \/ Woken
    BY <2>1, ReturnInv, SendCommandInv, AfterSendInv, WokenInv
  <2>2. CASE AbortInit \/ AbortCommand \/ AbortWait \/ Unload \/ FreeHandle
    BY <2>2, AbortInitInv, AbortCommandInv, AbortWaitInv, UnloadInv, FreeHandleInv
  <2>3. CASE Reset \/ ClearOther \/ Configure \/ ConfigureJob
    BY <2>3, ResetInv, ClearOtherInv, ConfigureInv, ConfigureJobInv
  <2>4. CASE EmptyThisBuffer \/ FillThisBuffer \/ JobFails \/ FailedJobDone
    BY <2>4, EmptyThisBufferInv, FillThisBufferInv, JobFailsInv, FailedJobDoneInv
  <2> QED
    BY <1>5, <2>1, <2>2, <2>3, <2>4 DEF Holder
<1>6. CASE Begin
  BY <1>6, BeginInv
<1>7. CASE ManagerWakes \/ ManagerChecks \/ ManagerTakes
  BY <1>7, ManagerWakesInv, ManagerTakesInv
<1> QED
  BY <1>1, <1>2, <1>3, <1>4, <1>5, <1>6, <1>7 DEF Next

-----------------------------------------------------------------------------

\* A session is never given more memory than there are jobs.
LEMMA OutIsBounded ==
  ASSUME Inv, NEW s \in Session
  PROVE  out[s] \in 0..MaxJob
<1>1. out[s] \in Nat /\ Cardinality(Failed(s)) \in Nat
      /\ out[s] <= Cardinality(Failed(s)) + (IF Held(s) THEN 1 ELSE 0)
  BY FailedIsFinite DEF Inv, Types, Sessions, SessionOK, MemoryOK
<1>2. IsFiniteSet(Failed(s)) /\ IsFiniteSet(Job) /\ Cardinality(Job) = MaxJob /\ Failed(s) \subseteq Job
  BY FailedIsFinite DEF Failed, Of
<1>3. CASE Held(s)
  <2> DEFINE k == sess[s].job
  <2>1. k \in Job /\ k \notin Failed(s)
    BY <1>3 DEF Held, Unanswered, Failed
  <2>2. Cardinality(Failed(s) \cup {k}) = Cardinality(Failed(s)) + 1
    BY <1>2, <2>1, FS_AddElement
  <2>3. Failed(s) \cup {k} \subseteq Job
    BY <1>2, <2>1
  <2> HIDE DEF k
  <2>4. Cardinality(Failed(s) \cup {k}) <= Cardinality(Job)
    BY <1>2, <2>3, FS_Subset
  <2> QED
    BY <1>1, <1>2, <1>3, <2>2, <2>4, MmJpegAssumption
<1>4. CASE ~Held(s)
  <2>1. Cardinality(Failed(s)) <= Cardinality(Job)
    BY <1>2, FS_Subset
  <2> QED
    BY <1>1, <1>2, <1>4, <2>1, MmJpegAssumption
<1> QED
  BY <1>3, <1>4

\* Inv is an invariant of an orderly encoder.
THEOREM InvHolds == ASSUME OrderlyEncoder PROVE Spec => [](Inv /\ Encodings)
<1>1. Init => Inv /\ Encodings
  BY InitInv DEF Init, Encodings, EncodingOK, Closed
<1>2. Inv /\ Encodings /\ [Next]_vars => Inv' /\ Encodings'
  BY InvStep, EncodingStep
<1> QED
  BY <1>1, <1>2, PTL DEF Spec

\* The state keeps its types: there is one job under way at most, a session has its
\* handle back once at most (mm_jpegenc_job_done puts it back on three threads), and
\* no more output memory is out than there were jobs.
THEOREM TypeCorrect == ASSUME OrderlyEncoder PROVE Spec => []TypeOK
<1>1. Inv => TypeOK
  <2> SUFFICES ASSUME Inv PROVE TypeOK
    OBVIOUS
  <2>1. \A s \in Session : out[s] \in 0..MaxJob
    BY OutIsBounded
  <2>2. \A s \in Session : sess[s] \in SessionType /\ omx[s] \in EncoderType
    BY DEF Inv, Types
  <2>3. \A s \in Session : /\ sess[s].hq \in 0..1 /\ sess[s].abort \in {"none", "init", "done"}
                           /\ omx[s].state \in {"loaded", "idle", "exec"}
    BY <2>2 DEF SessionType, EncoderType, States
  <2> QED
    BY <2>1, <2>3 DEF Inv, Types, TypeOK
<1> QED
  BY <1>1, InvHolds, PTL

\* Output memory that is neither delivered nor released belongs to the session's job,
\* unless a job of the session has failed (mm_jpeg_get_mem, mm_jpeg_fbd and
\* mm_jpeg_session_abort each take or give it under other locks).
THEOREM MemoryHasOwner == ASSUME OrderlyEncoder PROVE Spec => []OutputHasOwner
<1>1. Inv => OutputHasOwner
  <2> SUFFICES ASSUME Inv, NEW s \in Session, out[s] > (IF sess[s].ref THEN 1 ELSE 0)
               PROVE  \E j \in Of(s) : ans[j] = "error"
    BY DEF OutputHasOwner
  <2>1. out[s] \in Nat /\ Cardinality(Failed(s)) \in Nat
        /\ out[s] <= Cardinality(Failed(s)) + (IF Held(s) THEN 1 ELSE 0)
    BY FailedIsFinite DEF Inv, Types, Sessions, SessionOK, MemoryOK
  <2>2. Cardinality(Failed(s)) # 0
    BY <2>1 DEF Held
  <2>3. Failed(s) # {}
    BY <2>2, FS_EmptySet
  <2> QED
    BY <2>3 DEF Failed
<1> QED
  BY <1>1, InvHolds, PTL

\* A step that answers a job answers one whose client has not heard of it.
Answers == \A j \in Job : ans'[j] # ans[j] => ans[j] = "none" /\ j \notin gone

\* A session answers its own job, which had no answer.
LEMMA OneAnswer ==
  ASSUME Inv, NEW s \in Session, Unanswered(s), sess[s].job \notin gone, NEW a \in {"done", "error"},
         ans' = [ans EXCEPT ![sess[s].job] = a]
  PROVE  Answers
BY DEF Answers, Unanswered, Inv, Types

\* Every step answers at most a job that was not answered and not given up.
LEMMA AnswersStep == ASSUME OrderlyEncoder, Inv, Encodings, [Next]_vars PROVE Answers
<1>1. CASE ans' = ans
  BY <1>1 DEF Answers
<1>2. CASE JobFails
  <2>1. PICK s \in Session : run.s = s
    BY <1>2, HolderIs DEF JobFails
  <2>2. Stage(s) = "fail" /\ SessionOK(s)
    BY <1>2, <2>1
       DEF JobFails, Is, Stage, Inv, Sessions, RunOK, StepsOf, AbortSteps, Unloading, Preparing,
           Types, RunType, Free
  <2>3. Unanswered(s) /\ sess[s].job \notin gone
    BY <2>2 DEF SessionOK, EncodeOK, Inv, QueueOK, Unanswered
  <2> QED
    BY <1>2, <2>1, <2>3, OneAnswer DEF JobFails, Answer
<1>3. ASSUME NEW s \in Session, FillBufferDone(s) \/ EventError(s), ans' # ans PROVE Answers
  <2>1. omx[s].work # "none"
    <3>1. CASE FillBufferDone(s)
      BY <3>1 DEF FillBufferDone
    <3>2. CASE EventError(s)
      <4>1. cb[s] = Quiet /\ ~HandedOver(s) /\ sess[s].abort \notin {"init", "done"} /\ sess[s].encoding
        BY <1>3, <3>2 DEF EventError, Unlocked
      <4>2. sess[s].abort = "none" /\ cb[s][2] # 1 /\ EncodingOK(s)
        BY <4>1 DEF Inv, Types, SessionType, Quiet, Encodings
      <4> QED
        BY <4>1, <4>2 DEF EncodingOK, HandedOver, HandOver
    <3> QED
      BY <1>3, <3>1, <3>2
  <2>2. \E a \in {"done", "error"} : ans' = [ans EXCEPT ![sess[s].job] = a]
    BY <1>3 DEF FillBufferDone, EventError, Answer
  <2> QED
    BY <2>1, <2>2, WorkIsUnanswered, OneAnswer
<1>4. ASSUME NEW s \in Session, Client(s) \/ Encoder(s) \/ EventError(s) PROVE Answers
  <2>1. CASE FillBufferDone(s) \/ EventError(s)
    BY <1>1, <1>3, <2>1
  <2>2. CASE Client(s)
    BY <1>1, <2>2 DEF Client, CreateSession, DestroySession, StartJob, AbortJob, ghosts
  <2>3. CASE GetMem(s) \/ EventCmdComplete(s) \/ CallbackGoesOn(s) \/ CallbackEnds(s)
    BY <1>1, <2>3 DEF GetMem, EventCmdComplete, CallbackGoesOn, CallbackEnds, ghosts
  <2> QED
    BY <1>4, <2>1, <2>2, <2>3 DEF Encoder
<1>5. CASE Holder
  <2>1. CASE Return \/ SendCommand \/ AfterSend \/ Woken
    BY <1>1, <2>1 DEF Return, SendCommand, AfterSend, Woken, ghosts
  <2>2. CASE AbortInit \/ AbortCommand \/ AbortWait \/ Unload \/ FreeHandle
    BY <1>1, <2>2 DEF AbortInit, AbortCommand, AbortWait, Unload, FreeHandle, ghosts
  <2>3. CASE Reset \/ ClearOther \/ Configure \/ ConfigureJob
    BY <1>1, <2>3 DEF Reset, ClearOther, Configure, ConfigureJob, ghosts
  <2>4. CASE EmptyThisBuffer \/ FillThisBuffer \/ FailedJobDone
    BY <1>1, <2>4 DEF EmptyThisBuffer, FillThisBuffer, FailedJobDone, ghosts
  <2> QED
    BY <1>2, <1>5, <2>1, <2>2, <2>3, <2>4 DEF Holder
<1>6. CASE Begin \/ ManagerWakes \/ ManagerChecks \/ ManagerTakes
  BY <1>1, <1>6 DEF Begin, ManagerWakes, ManagerChecks, ManagerTakes, ghosts
<1>7. CASE UNCHANGED vars
  BY <1>1, <1>7 DEF vars
<1> QED
  BY <1>4, <1>5, <1>6, <1>7 DEF Next

\* A client is told of a job once, and not after the call that aborted it: of the manager's
\* failure path, mm_jpeg_fbd and mm_jpeg_event_handler one answers.
THEOREM AnswersAreFinal == ASSUME OrderlyEncoder PROVE Spec => AnsweredOnce
<1>1. Inv /\ Encodings /\ [Next]_vars => [Answers]_vars
  BY AnswersStep
<1> QED
  BY <1>1, InvHolds, PTL DEF Spec, AnsweredOnce, Answers

=============================================================================
