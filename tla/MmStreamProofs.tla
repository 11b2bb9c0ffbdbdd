--------------------------- MODULE MmStreamProofs ---------------------------
(***************************************************************************)
(* Theorems about MmStream, for every set of buffers, every combination of *)
(* consumers and any number of calls and failures.                         *)
(***************************************************************************)
EXTENDS MmStream, MmStreamMap, FiniteSetTheorems, TLAPS

-----------------------------------------------------------------------------
(* Operators. *)

\* One counts a Boolean.
LEMMA OneType == \A c \in BOOLEAN : One(c) \in {0, 1}
  BY DEF One

\* The references a frame is given are natural numbers.
LEMMA OneNat ==
  /\ One(IsBundled) \in Nat /\ One(HasCb) \in Nat /\ One(IsLinked) \in Nat
  /\ \A b \in Buf : One(b \notin InitialReg) \in 0..255
  /\ One(HasCb /\ cmdActive) \in Nat
  BY DEF One

\* uint8_t arithmetic stays in its range.
LEMMA Byte == \A n \in Int : n % 256 \in 0..255
  OBVIOUS

LEMMA RefcntInt == TypeOK => \A b \in Buf : refcnt[b] \in Int
<1>1. TypeOK => \A b \in Buf : refcnt[b] \in 0..255
  BY DEF TypeOK
<1> QED
  BY <1>1

\* A counter per buffer stays one.
LEMMA NatExcept ==
  ASSUME NEW f \in [Buf -> Nat], NEW b \in Buf, NEW n \in Nat
  PROVE  [f EXCEPT ![b] = n] \in [Buf -> Nat]
  OBVIOUS

\* A poll command leaves a sequence of commands.
LEMMA PollSigType ==
  ASSUME pipe \in Seq({"sync", "async"}), NEW kind \in {"sync", "async"}, PollSig(kind)
  PROVE  pipe' \in Seq({"sync", "async"}) /\ pipe' # <<>>
  BY DEF PollSig

\* So does the removal of the fd,
LEMMA DelPollFdType ==
  ASSUME pipe \in Seq({"sync", "async"}), entry \in BOOLEAN,
         NEW kind \in {"sync", "async"}, DelPollFd(kind)
  PROVE  entry' \in BOOLEAN /\ pipe' \in Seq({"sync", "async"})
  BY PollSigType DEF DelPollFd

\* and its addition.
LEMMA AddPollFdType ==
  ASSUME pipe \in Seq({"sync", "async"}), AddPollFd
  PROVE  entry' \in BOOLEAN /\ pipe' \in Seq({"sync", "async"})
  BY PollSigType DEF AddPollFd

\* A caller that moves on leaves the calls well typed.
LEMMA GoType ==
  ASSUME NEW who \in {"app", "cmd"}, NEW b \in Buf,
         NEW from \in Stage, NEW to \in Stage \cup {"return"},
         calls \in [Stage -> [Buf -> Nat]], cmd \in Stage \cup {"idle", "dispatch"},
         At(who, from, b), Go(who, b, from, to)
  PROVE  /\ calls' \in [Stage -> [Buf -> Nat]]
         /\ cmd' \in Stage \cup {"idle", "dispatch"}
<1>1. CASE who = "app"
  <2>1. \A s \in Stage : calls[s] \in [Buf -> Nat] /\ calls[from][b] > 0
    BY <1>1 DEF At
  <2>2. \A s \in Stage : [calls[s] EXCEPT ![b] = IF s = from THEN @ - 1 ELSE IF s = to THEN @ + 1 ELSE @]
                           \in [Buf -> Nat]
    BY <2>1
  <2> QED
    BY <1>1, <2>2 DEF Go
<1>2. CASE who = "cmd"
  BY <1>2 DEF Go, Stage
<1> QED
  BY <1>1, <1>2

\* The parts of TypeOK an update of a count needs.
LEMMA RefcntType == TypeOK => refcnt \in [Buf -> 0..255] /\ pollBuf \in Buf /\ cmdBuf \in Buf
  BY DEF TypeOK

\* A failure counts.
LEMMA FailType == ASSUME fails \in 0..MaxFail, Fail PROVE fails' \in 0..MaxFail
  BY MmStreamAssumption DEF Fail

\* The number of elements of a set of buffers is a natural number.
LEMMA BufCardinality == \A S \in SUBSET Buf : Cardinality(S) \in Nat
  BY MmStreamAssumption, FS_Subset, FS_CardinalityType

-----------------------------------------------------------------------------
(* Types. *)

\* The poll thread keeps the types.
LEMMA PollType == TypeOK /\ Poll => TypeOK'
<1> SUFFICES ASSUME TypeOK, Poll PROVE TypeOK'
  OBVIOUS
<1>1. CASE ProcPipe
  <2>1. polled' \in BOOLEAN /\ pipe' \in Seq({"sync", "async"})
    BY <1>1 DEF TypeOK, ProcPipe
  <2>2. ctl' \in CtlStage
    BY <1>1 DEF TypeOK, ProcPipe, CtlStage
  <2>3. UNCHANGED <<state, refcnt, inKernel, count, queued, filled, streaming, entry, poll,
                    pollBuf, cmdActive, cmdQ, cmd, cmdBuf, calls, owed, late, fails>>
    BY <1>1 DEF ProcPipe, buffers, polling, cmdThread, threads, rest
  <2> QED
    BY <2>1, <2>2, <2>3 DEF TypeOK
<1>2. CASE PollWake
  <2>1. poll' \in PollStage
    BY <1>2 DEF TypeOK, PollWake, PollStage
  <2>2. UNCHANGED <<state, refcnt, inKernel, count, queued, filled, streaming, entry, polled,
                    pipe, pollBuf, cmdActive, cmdQ, cmd, cmdBuf, calls, owed, ctl, late, fails>>
    BY <1>2 DEF PollWake, buffers, polling, cmdThread, threads, rest
  <2> QED
    BY <2>1, <2>2 DEF TypeOK
<1>3. CASE PollCall
  <2>1. poll' \in PollStage
    BY <1>3 DEF TypeOK, PollCall, PollStage
  <2>2. UNCHANGED <<state, refcnt, inKernel, count, queued, filled, streaming, entry, polled,
                    pipe, pollBuf, cmdActive, cmdQ, cmd, cmdBuf, calls, owed, ctl, late, fails>>
    BY <1>3 DEF PollCall, buffers, polling, cmdThread, threads, rest
  <2> QED
    BY <2>1, <2>2 DEF TypeOK
<1> QED
  BY <1>1, <1>2, <1>3 DEF Poll

\* So does mm_stream_data_notify.
LEMMA NotifyType == TypeOK /\ Notify => TypeOK'
<1> SUFFICES ASSUME TypeOK, Notify PROVE TypeOK'
  OBVIOUS
<1>1. CASE NotifyDequeue
  <2>1. poll' \in PollStage
    BY <1>1 DEF TypeOK, NotifyDequeue, PollStage
  <2>2. filled' \subseteq Buf /\ pollBuf' \in Buf
    BY <1>1 DEF TypeOK, NotifyDequeue
  <2>3. UNCHANGED <<state, refcnt, inKernel, count, queued, streaming, entry, polled, pipe,
                    cmdActive, cmdQ, cmd, cmdBuf, calls, owed, ctl, late, fails>>
    BY <1>1 DEF NotifyDequeue, buffers, polling, cmdThread, threads, rest
  <2> QED
    BY <2>1, <2>2, <2>3 DEF TypeOK
<1>2. CASE NotifyCount
  <2>1. poll' \in PollStage
    BY <1>2 DEF TypeOK, NotifyCount, PollStage
  <2>2. count' \in Int
    BY <1>2 DEF TypeOK, NotifyCount
  <2>3. entry' \in BOOLEAN /\ pipe' \in Seq({"sync", "async"})
    BY <1>2, DelPollFdType DEF TypeOK, NotifyCount
  <2>4. fails' \in 0..MaxFail
    BY <1>2, FailType DEF TypeOK, NotifyCount
  <2>5. UNCHANGED <<state, refcnt, inKernel, queued, filled, streaming, polled, pollBuf,
                    cmdActive, cmdQ, cmd, cmdBuf, calls, owed, ctl, late>>
    BY <1>2 DEF NotifyCount, buffers, polling, cmdThread, threads, rest
  <2> QED
    BY <2>1, <2>2, <2>3, <2>4, <2>5 DEF TypeOK
<1>3. CASE NotifyRef
  <2>1. poll' \in PollStage
    BY <1>3 DEF TypeOK, NotifyRef, PollStage
  <2>2. refcnt' \in [Buf -> 0..255]
    <3> DEFINE m == One(IsBundled)
               n == One(HasCb)
    <3>1. refcnt' = [refcnt EXCEPT ![pollBuf] = (@ + m + n) % 256]
      BY <1>3 DEF NotifyRef
    <3>2. m \in Int /\ n \in Int
      BY OneNat
    <3> HIDE DEF m, n
    <3>3. refcnt \in [Buf -> 0..255] /\ pollBuf \in Buf
      BY RefcntType
    <3>4. refcnt[pollBuf] + m + n \in Int
      BY <3>2, <3>3, RefcntInt
    <3>5. (refcnt[pollBuf] + m + n) % 256 \in 0..255
      BY <3>4, Byte
    <3> QED
      BY <3>1, <3>3, <3>5
  <2>3. inKernel' \in [Buf -> BOOLEAN]
    BY <1>3 DEF TypeOK, NotifyRef
  <2>4. UNCHANGED <<state, count, queued, filled, streaming, entry, polled, pipe, pollBuf,
                    cmdActive, cmdQ, cmd, cmdBuf, calls, owed, ctl, late, fails>>
    BY <1>3 DEF NotifyRef, buffers, polling, cmdThread, threads, rest
  <2> QED
    BY <2>1, <2>2, <2>3, <2>4 DEF TypeOK
<1>4. CASE NotifyBundle
  <2>1. poll' \in PollStage
    BY <1>4 DEF TypeOK, NotifyBundle, PollStage
  <2>2. owed' \in [Buf -> Nat]
    <3>1. owed[pollBuf] + One(IsBundled) \in Nat
      BY OneNat DEF TypeOK
    <3> QED
      BY <3>1, <1>4, NatExcept DEF TypeOK, NotifyBundle
  <2>3. UNCHANGED <<state, refcnt, inKernel, count, queued, filled, streaming, entry, polled,
                    pipe, pollBuf, cmdActive, cmdQ, cmd, cmdBuf, calls, ctl, late, fails>>
    BY <1>4 DEF NotifyBundle, buffers, polling, cmdThread, threads, rest
  <2> QED
    BY <2>1, <2>2, <2>3 DEF TypeOK
<1>5. CASE NotifyLink
  <2>1. poll' \in PollStage
    BY <1>5 DEF TypeOK, NotifyLink, PollStage
  <2>2. refcnt' \in [Buf -> 0..255]
    <3> DEFINE m == One(IsLinked)
    <3>1. refcnt' = [refcnt EXCEPT ![pollBuf] = (@ + m) % 256]
      BY <1>5 DEF NotifyLink
    <3>2. m \in Int
      BY OneNat
    <3> HIDE DEF m
    <3>3. refcnt \in [Buf -> 0..255] /\ pollBuf \in Buf
      BY RefcntType
    <3>4. refcnt[pollBuf] + m \in Int
      BY <3>2, <3>3, RefcntInt
    <3>5. (refcnt[pollBuf] + m) % 256 \in 0..255
      BY <3>4, Byte
    <3> QED
      BY <3>1, <3>3, <3>5
  <2>3. owed' \in [Buf -> Nat]
    <3>1. owed[pollBuf] + One(IsLinked) \in Nat
      BY OneNat DEF TypeOK
    <3> QED
      BY <3>1, <1>5, NatExcept DEF TypeOK, NotifyLink
  <2>4. UNCHANGED <<state, inKernel, count, queued, filled, streaming, entry, polled, pipe,
                    pollBuf, cmdActive, cmdQ, cmd, cmdBuf, calls, ctl, late, fails>>
    BY <1>5 DEF NotifyLink, buffers, polling, cmdThread, threads, rest
  <2> QED
    BY <2>1, <2>2, <2>3, <2>4 DEF TypeOK
<1>6. CASE NotifyCmd
  <2>1. poll' \in PollStage
    BY <1>6 DEF TypeOK, NotifyCmd, PollStage
  <2>2. cmdQ' \in [Buf -> Nat]
    <3>1. cmdQ[pollBuf] + One(HasCb /\ cmdActive) \in Nat
      BY OneNat DEF TypeOK
    <3> QED
      BY <3>1, <1>6, NatExcept DEF TypeOK, NotifyCmd
  <2>3. UNCHANGED <<state, refcnt, inKernel, count, queued, filled, streaming, entry, polled,
                    pipe, pollBuf, cmdActive, cmd, cmdBuf, calls, owed, ctl, late, fails>>
    BY <1>6 DEF NotifyCmd, buffers, polling, cmdThread, threads, rest
  <2> QED
    BY <2>1, <2>2, <2>3 DEF TypeOK
<1> QED
  BY <1>1, <1>2, <1>3, <1>4, <1>5, <1>6 DEF Notify

\* So does mm_stream_buf_done, whoever runs it.
LEMMA BufDoneType ==
  ASSUME TypeOK, NEW who \in {"app", "cmd"}, NEW b \in Buf, BufDone(who, b)
  PROVE  TypeOK'
<1>1. CASE DoneCheck(who, b)
  <2>1. calls' \in [Stage -> [Buf -> Nat]] /\ cmd' \in Stage \cup {"idle", "dispatch"}
    BY <1>1, GoType DEF TypeOK, DoneCheck, Stage
  <2>2. UNCHANGED <<state, refcnt, inKernel, count, queued, filled, streaming, entry, polled,
                    pipe, poll, pollBuf, cmdActive, cmdQ, cmdBuf, owed, ctl, late, fails>>
    BY <1>1 DEF DoneCheck, buffers, polling, cmdThread, threads, rest
  <2> QED
    BY <2>1, <2>2 DEF TypeOK
<1>2. CASE DoneDec(who, b)
  <2>1. calls' \in [Stage -> [Buf -> Nat]] /\ cmd' \in Stage \cup {"idle", "dispatch"}
    BY <1>2, GoType DEF TypeOK, DoneDec, Stage
  <2>2. refcnt' \in [Buf -> 0..255]
    <3>1. refcnt' = [refcnt EXCEPT ![b] = (@ + 255) % 256]
      BY <1>2 DEF DoneDec, Dec
    <3>2. refcnt[b] + 255 \in Int
      BY RefcntInt
    <3>3. (refcnt[b] + 255) % 256 \in 0..255
      BY <3>2, Byte
    <3> QED
      BY <3>1, <3>3, RefcntType
  <2>3. UNCHANGED <<state, inKernel, count, queued, filled, streaming, entry, polled, pipe,
                    poll, pollBuf, cmdActive, cmdQ, cmdBuf, owed, ctl, late, fails>>
    BY <1>2 DEF DoneDec, buffers, polling, cmdThread, threads, rest
  <2> QED
    BY <2>1, <2>2, <2>3 DEF TypeOK
<1>3. CASE DoneCount(who, b)
  <2>1. calls' \in [Stage -> [Buf -> Nat]] /\ cmd' \in Stage \cup {"idle", "dispatch"}
    BY <1>3, GoType DEF TypeOK, DoneCount, Stage
  <2>2. count' \in Int
    BY <1>3 DEF TypeOK, DoneCount
  <2>3. entry' \in BOOLEAN /\ pipe' \in Seq({"sync", "async"})
    BY <1>3, AddPollFdType DEF TypeOK, DoneCount
  <2>4. fails' \in 0..MaxFail
    BY <1>3, FailType DEF TypeOK, DoneCount
  <2>5. UNCHANGED <<state, refcnt, inKernel, queued, filled, streaming, polled, poll, pollBuf,
                    cmdActive, cmdQ, cmdBuf, owed, ctl, late>>
    BY <1>3 DEF DoneCount, buffers, polling, cmdThread, threads, rest
  <2> QED
    BY <2>1, <2>2, <2>3, <2>4, <2>5 DEF TypeOK
<1>4. CASE DoneIoctl(who, b)
  <2>1. calls' \in [Stage -> [Buf -> Nat]] /\ cmd' \in Stage \cup {"idle", "dispatch"}
    BY <1>4, GoType DEF TypeOK, DoneIoctl, Stage
  <2>2. queued' \subseteq Buf
    BY <1>4 DEF TypeOK, DoneIoctl
  <2>3. fails' \in 0..MaxFail
    BY <1>4, FailType DEF TypeOK, DoneIoctl
  <2>4. UNCHANGED <<state, refcnt, inKernel, count, filled, streaming, entry, polled, pipe,
                    poll, pollBuf, cmdActive, cmdQ, cmdBuf, owed, ctl, late>>
    BY <1>4 DEF DoneIoctl, buffers, polling, cmdThread, threads, rest
  <2> QED
    BY <2>1, <2>2, <2>3, <2>4 DEF TypeOK
<1>5. CASE DoneUndo(who, b)
  <2>1. calls' \in [Stage -> [Buf -> Nat]] /\ cmd' \in Stage \cup {"idle", "dispatch"}
    BY <1>5, GoType DEF TypeOK, DoneUndo, Stage
  <2>2. count' \in Int
    BY <1>5 DEF TypeOK, DoneUndo
  <2>3. entry' \in BOOLEAN /\ pipe' \in Seq({"sync", "async"})
    BY <1>5, DelPollFdType DEF TypeOK, DoneUndo
  <2>4. UNCHANGED <<state, refcnt, inKernel, queued, filled, streaming, polled, poll, pollBuf,
                    cmdActive, cmdQ, cmdBuf, owed, ctl, late, fails>>
    BY <1>5 DEF DoneUndo, buffers, polling, cmdThread, threads, rest
  <2> QED
    BY <2>1, <2>2, <2>3, <2>4 DEF TypeOK
<1>6. CASE DoneMark(who, b)
  <2>1. calls' \in [Stage -> [Buf -> Nat]] /\ cmd' \in Stage \cup {"idle", "dispatch"}
    BY <1>6, GoType DEF TypeOK, DoneMark, Stage
  <2>2. inKernel' \in [Buf -> BOOLEAN]
    BY <1>6 DEF TypeOK, DoneMark
  <2>3. UNCHANGED <<state, refcnt, count, queued, filled, streaming, entry, polled, pipe, poll,
                    pollBuf, cmdActive, cmdQ, cmdBuf, owed, ctl, late, fails>>
    BY <1>6 DEF DoneMark, buffers, polling, cmdThread, threads, rest
  <2> QED
    BY <2>1, <2>2, <2>3 DEF TypeOK
<1> QED
  BY <1>1, <1>2, <1>3, <1>4, <1>5, <1>6 DEF BufDone

\* So do the cmd thread and a client's return of a frame.
LEMMA CmdType ==
  TypeOK /\ (CmdTake \/ CmdDispatch \/ \E b \in Buf : QBuf(b)) => TypeOK'
<1> SUFFICES ASSUME TypeOK, CmdTake \/ CmdDispatch \/ \E b \in Buf : QBuf(b) PROVE TypeOK'
  OBVIOUS
<1>1. CASE CmdTake
  <2>1. cmdQ' \in [Buf -> Nat]
    BY <1>1 DEF TypeOK, CmdTake
  <2>2. cmd' \in Stage \cup {"idle", "dispatch"}
    BY <1>1 DEF TypeOK, CmdTake
  <2>3. cmdBuf' \in Buf
    BY <1>1 DEF TypeOK, CmdTake
  <2>4. UNCHANGED <<state, refcnt, inKernel, count, queued, filled, streaming, entry, polled,
                    pipe, poll, pollBuf, cmdActive, calls, owed, ctl, late, fails>>
    BY <1>1 DEF CmdTake, buffers, polling, cmdThread, threads, rest
  <2> QED
    BY <2>1, <2>2, <2>3, <2>4 DEF TypeOK
<1>2. CASE CmdDispatch
  <2>1. refcnt' \in [Buf -> 0..255]
    <3>1. refcnt' = [refcnt EXCEPT ![cmdBuf] = (@ + 1) % 256]
      BY <1>2 DEF CmdDispatch, Inc
    <3>2. refcnt \in [Buf -> 0..255] /\ cmdBuf \in Buf
      BY RefcntType
    <3>3. refcnt[cmdBuf] + 1 \in Int
      BY <3>2, RefcntInt
    <3>4. (refcnt[cmdBuf] + 1) % 256 \in 0..255
      BY <3>3, Byte
    <3> QED
      BY <3>1, <3>2, <3>4
  <2>2. owed' \in [Buf -> Nat]
    BY <1>2 DEF TypeOK, CmdDispatch
  <2>3. cmd' \in Stage \cup {"idle", "dispatch"}
    BY <1>2 DEF TypeOK, CmdDispatch, Stage
  <2>4. UNCHANGED <<state, inKernel, count, queued, filled, streaming, entry, polled, pipe,
                    poll, pollBuf, cmdActive, cmdQ, cmdBuf, calls, ctl, late, fails>>
    BY <1>2 DEF CmdDispatch, buffers, polling, cmdThread, threads, rest
  <2> QED
    BY <2>1, <2>2, <2>3, <2>4 DEF TypeOK
<1>3. CASE \E b \in Buf : QBuf(b)
  <2>1. owed' \in [Buf -> Nat]
    BY <1>3 DEF TypeOK, QBuf
  <2>2. calls' \in [Stage -> [Buf -> Nat]]
    <3>1. PICK b \in Buf : calls' = [calls EXCEPT !["check"][b] = @ + 1]
      BY <1>3 DEF QBuf
    <3>2. calls \in [Stage -> [Buf -> Nat]] /\ "check" \in Stage
      BY DEF TypeOK, Stage
    <3>3. calls["check"][b] + 1 \in Nat
      BY <3>2
    <3> DEFINE row == [calls["check"] EXCEPT ![b] = @ + 1]
    <3>4. row \in [Buf -> Nat]
      BY <3>2, <3>3, NatExcept
    <3>5. calls' = [calls EXCEPT !["check"] = row]
      BY <3>1
    <3> HIDE DEF row
    <3> QED
      BY <3>2, <3>4, <3>5
  <2>3. UNCHANGED <<state, refcnt, inKernel, count, queued, filled, streaming, entry, polled,
                    pipe, poll, pollBuf, cmdActive, cmdQ, cmd, cmdBuf, ctl, late, fails>>
    BY <1>3 DEF QBuf, buffers, polling, cmdThread, threads, rest
  <2> QED
    BY <2>1, <2>2, <2>3 DEF TypeOK
<1> QED
  BY <1>1, <1>2, <1>3 DEF TypeOK

\* So do the events of the state machine.
LEMMA ControlType == TypeOK /\ (Control \/ Start \/ Stop) => TypeOK'
<1> SUFFICES ASSUME TypeOK, Control \/ Start \/ Stop PROVE TypeOK'
  OBVIOUS
<1>1. CASE Activate
  <2>1. state' \in State
    BY <1>1 DEF TypeOK, Activate, State
  <2>2. ctl' \in CtlStage
    BY <1>1 DEF TypeOK, Activate, CtlStage
  <2>3. UNCHANGED <<refcnt, inKernel, count, queued, filled, streaming, entry, polled, pipe,
                    poll, pollBuf, cmdActive, cmdQ, cmd, cmdBuf, calls, owed, late, fails>>
    BY <1>1 DEF Activate, buffers, polling, cmdThread, threads, rest
  <2> QED
    BY <2>1, <2>2, <2>3 DEF TypeOK
<1>2. CASE StreamOn
  <2>1. streaming' \in BOOLEAN
    BY <1>2 DEF TypeOK, StreamOn
  <2>2. ctl' \in CtlStage
    BY <1>2 DEF TypeOK, StreamOn, CtlStage
  <2>3. fails' \in 0..MaxFail
    BY <1>2, FailType DEF TypeOK, StreamOn
  <2>4. UNCHANGED <<state, refcnt, inKernel, count, queued, filled, entry, polled, pipe, poll,
                    pollBuf, cmdActive, cmdQ, cmd, cmdBuf, calls, owed, late>>
    BY <1>2 DEF StreamOn, buffers, polling, cmdThread, threads, rest
  <2> QED
    BY <2>1, <2>2, <2>3, <2>4 DEF TypeOK
<1>3. CASE SyncDel
  <2>1. entry' \in BOOLEAN /\ pipe' \in Seq({"sync", "async"})
    BY <1>3, DelPollFdType DEF TypeOK, SyncDel
  <2>2. ctl' \in CtlStage
    BY <1>3 DEF TypeOK, SyncDel, CtlStage
  <2>3. UNCHANGED <<state, refcnt, inKernel, count, queued, filled, streaming, polled, poll,
                    pollBuf, cmdActive, cmdQ, cmd, cmdBuf, calls, owed, late, fails>>
    BY <1>3 DEF SyncDel, buffers, polling, cmdThread, threads, rest
  <2> QED
    BY <2>1, <2>2, <2>3 DEF TypeOK
<1>4. CASE StreamOff
  <2>1. streaming' \in BOOLEAN /\ queued' \subseteq Buf /\ filled' \subseteq Buf
    BY <1>4 DEF TypeOK, StreamOff
  <2>2. ctl' \in CtlStage
    BY <1>4 DEF TypeOK, StreamOff, CtlStage
  <2>3. UNCHANGED <<state, refcnt, inKernel, count, entry, polled, pipe, poll, pollBuf,
                    cmdActive, cmdQ, cmd, cmdBuf, calls, owed, late, fails>>
    BY <1>4 DEF StreamOff, buffers, polling, cmdThread, threads, rest
  <2> QED
    BY <2>1, <2>2, <2>3 DEF TypeOK
<1>9. CASE LockCmd
  <2>1. ctl' \in CtlStage
    BY <1>9 DEF TypeOK, LockCmd, CtlStage
  <2>2. UNCHANGED <<state, refcnt, inKernel, count, queued, filled, streaming, entry, polled,
                    pipe, poll, pollBuf, cmdActive, cmdQ, cmd, cmdBuf, calls, owed, late,
                    fails>>
    BY <1>9 DEF LockCmd, buffers, polling, cmdThread, threads, rest
  <2> QED
    BY <2>1, <2>2 DEF TypeOK
<1>5. CASE Join
  <2>1. state' \in State
    BY <1>5 DEF TypeOK, Join, State
  <2>2. ctl' \in CtlStage
    BY <1>5 DEF TypeOK, Join, CtlStage
  <2>3. cmdActive' \in BOOLEAN
    BY <1>5, MmStreamAssumption DEF TypeOK, Join
  <2>4. UNCHANGED <<refcnt, inKernel, count, queued, filled, streaming, entry, polled, pipe,
                    poll, pollBuf, cmdQ, cmd, cmdBuf, calls, owed, late, fails>>
    BY <1>5 DEF Join, buffers, polling, cmdThread, threads, rest
  <2> QED
    BY <2>1, <2>2, <2>3, <2>4 DEF TypeOK
<1>6. CASE UnregBuf
  <2>1. state' \in State
    BY <1>6 DEF TypeOK, UnregBuf, State
  <2>2. refcnt' \in [Buf -> 0..255] /\ inKernel' \in [Buf -> BOOLEAN] /\ owed' \in [Buf -> Nat]
    BY <1>6 DEF TypeOK, UnregBuf
  <2>3. queued' \subseteq Buf /\ filled' \subseteq Buf
    BY <1>6 DEF TypeOK, UnregBuf
  <2>4. ctl' \in CtlStage
    BY <1>6 DEF TypeOK, UnregBuf, CtlStage
  <2>5. late' \in BOOLEAN
    BY <1>6 DEF TypeOK, UnregBuf, Quiet
  <2>6. UNCHANGED <<count, streaming, entry, polled, pipe, poll, pollBuf, cmdActive, cmdQ, cmd,
                    cmdBuf, calls, fails>>
    BY <1>6 DEF UnregBuf, buffers, polling, cmdThread, threads, rest
  <2> QED
    BY <2>1, <2>2, <2>3, <2>4, <2>5, <2>6 DEF TypeOK
<1>7. CASE Start
  <2>1. ctl' \in CtlStage
    BY <1>7 DEF TypeOK, Start, CtlStage
  <2>2. cmdActive' \in BOOLEAN
    BY <1>7, MmStreamAssumption DEF TypeOK, Start
  <2>3. cmdQ' \in [Buf -> Nat]
    BY <1>7 DEF TypeOK, Start
  <2>4. UNCHANGED <<state, refcnt, inKernel, count, queued, filled, streaming, entry, polled,
                    pipe, poll, pollBuf, cmd, cmdBuf, calls, owed, late, fails>>
    BY <1>7 DEF Start, buffers, polling, cmdThread, threads, rest
  <2> QED
    BY <2>1, <2>2, <2>3, <2>4 DEF TypeOK
<1>8. CASE Stop
  <2>1. ctl' \in CtlStage
    BY <1>8 DEF TypeOK, Stop, CtlStage
  <2>2. UNCHANGED <<state, refcnt, inKernel, count, queued, filled, streaming, entry, polled,
                    pipe, poll, pollBuf, cmdActive, cmdQ, cmd, cmdBuf, calls, owed, late,
                    fails>>
    BY <1>8 DEF Stop, buffers, polling, cmdThread, threads, rest
  <2> QED
    BY <2>1, <2>2 DEF TypeOK
<1> QED
  BY <1>1, <1>2, <1>3, <1>4, <1>5, <1>6, <1>7, <1>8, <1>9 DEF Control

\* So does the setting up of the stream.
LEMMA SetUpType == TypeOK /\ SetUp => TypeOK'
<1> SUFFICES ASSUME TypeOK, SetUp PROVE TypeOK'
  OBVIOUS
<1>1. CASE Acquire \/ SetFmt \/ GetBuf \/ PutBuf \/ AddStream
  <2>1. state' \in State
    BY <1>1 DEF TypeOK, Acquire, SetFmt, GetBuf, PutBuf, AddStream, Event, State
  <2>2. UNCHANGED <<refcnt, inKernel, count, queued, filled, streaming, entry, polled, pipe,
                    poll, pollBuf, cmdActive, cmdQ, cmd, cmdBuf, calls, owed, ctl, late, fails>>
    BY <1>1 DEF Acquire, SetFmt, GetBuf, PutBuf, AddStream, Event, buffers, polling, cmdThread, threads, rest
  <2> QED
    BY <2>1, <2>2 DEF TypeOK
<1>2. CASE Release
  <2>1. state' \in State
    BY <1>2 DEF TypeOK, Release, State
  <2>2. refcnt' \in [Buf -> 0..255] /\ inKernel' \in [Buf -> BOOLEAN]
    BY <1>2 DEF TypeOK, Release
  <2>3. count' \in Int /\ queued' \subseteq Buf /\ filled' \subseteq Buf
    BY <1>2 DEF TypeOK, Release
  <2>4. UNCHANGED <<streaming, entry, polled, pipe, poll, pollBuf, cmdActive, cmdQ, cmd,
                    cmdBuf, calls, owed, ctl, late, fails>>
    BY <1>2 DEF Release, buffers, polling, cmdThread, threads, rest
  <2> QED
    BY <2>1, <2>2, <2>3, <2>4 DEF TypeOK
<1>3. CASE RegBuf
  <2>1. state' \in State
    BY <1>3 DEF TypeOK, RegBuf, State
  <2>2. refcnt' \in [Buf -> 0..255]
    BY <1>3, OneNat DEF TypeOK, RegBuf
  <2>3. owed' \in [Buf -> Nat]
    <3>1. \A b \in Buf : One(b \notin InitialReg) \in Nat
      BY DEF One
    <3> QED
      BY <3>1, <1>3 DEF RegBuf
  <2>4. inKernel' \in [Buf -> BOOLEAN]
    BY <1>3 DEF TypeOK, RegBuf
  <2>5. queued' \subseteq Buf /\ filled' \subseteq Buf
    BY <1>3, MmStreamAssumption DEF TypeOK, RegBuf
  <2>6. count' \in Int
    BY <1>3, BufCardinality, MmStreamAssumption DEF TypeOK, RegBuf
  <2>7. entry' \in BOOLEAN /\ pipe' \in Seq({"sync", "async"})
    BY <1>3, AddPollFdType DEF TypeOK, RegBuf
  <2>8. late' \in BOOLEAN
    BY <1>3 DEF TypeOK, RegBuf, Quiet
  <2>9. UNCHANGED <<streaming, polled, poll, pollBuf, cmdActive, cmdQ, cmd, cmdBuf, calls, ctl,
                    fails>>
    BY <1>3 DEF RegBuf, buffers, polling, cmdThread, threads, rest
  <2> QED
    BY <2>1, <2>2, <2>3, <2>4, <2>5, <2>6, <2>7, <2>8, <2>9 DEF TypeOK
<1>4. CASE RegBufFails
  <2>1. refcnt' \in [Buf -> 0..255] /\ inKernel' \in [Buf -> BOOLEAN]
    <3>1. PICK seen \in SUBSET Buf :
            /\ refcnt' = [b \in Buf |-> IF b \in seen THEN One(b \notin InitialReg) ELSE refcnt[b]]
            /\ inKernel' = [b \in Buf |-> IF b \in seen THEN b \in InitialReg ELSE inKernel[b]]
      BY <1>4 DEF RegBufFails
    <3>2. \A b \in Buf : refcnt[b] \in 0..255 /\ inKernel[b] \in BOOLEAN
      BY DEF TypeOK
    <3>3. refcnt' \in [Buf -> 0..255]
      BY <3>1, <3>2, OneNat
    <3>4. ASSUME NEW b \in Buf
          PROVE  (IF b \in seen THEN b \in InitialReg ELSE inKernel[b]) \in BOOLEAN
      <4>1. CASE b \in seen
        BY <4>1
      <4>2. CASE b \notin seen
        BY <4>2, <3>2
      <4> QED
        BY <4>1, <4>2
    <3>5. inKernel' \in [Buf -> BOOLEAN]
      BY <3>1, <3>4, Zenon
    <3> QED
      BY <3>3, <3>5
  <2>2. queued' \subseteq Buf /\ filled' \subseteq Buf
    BY <1>4 DEF TypeOK, RegBufFails
  <2>3. count' \in Int
    BY <1>4, BufCardinality DEF TypeOK, RegBufFails
  <2>4. entry' \in BOOLEAN /\ pipe' \in Seq({"sync", "async"})
    BY <1>4, AddPollFdType, PollSigType DEF TypeOK, RegBufFails
  <2>5. fails' \in 0..MaxFail
    BY <1>4, FailType DEF TypeOK, RegBufFails
  <2>6. UNCHANGED <<state, streaming, polled, poll, pollBuf, cmdActive, cmdQ, cmd, cmdBuf,
                    calls, owed, ctl, late>>
    BY <1>4 DEF RegBufFails, buffers, polling, cmdThread, threads, rest
  <2> QED
    BY <2>1, <2>2, <2>3, <2>4, <2>5, <2>6 DEF TypeOK
<1> QED
  BY <1>1, <1>2, <1>3, <1>4 DEF SetUp

\* Type correctness of the stream.
THEOREM TypeCorrect == Spec => []TypeOK
<1>1. Init => TypeOK
  <2> SUFFICES ASSUME Init PROVE TypeOK
    OBVIOUS
  <2>1. state \in State /\ ctl \in CtlStage
    BY DEF Init, State, CtlStage
  <2>2. poll \in PollStage /\ cmd \in Stage \cup {"idle", "dispatch"}
    BY DEF Init, PollStage
  <2>3. fails \in 0..MaxFail /\ pipe \in Seq({"sync", "async"})
    BY MmStreamAssumption DEF Init
  <2>4. calls \in [Stage -> [Buf -> Nat]]
    BY DEF Init
  <2>5. /\ refcnt \in [Buf -> 0..255] /\ inKernel \in [Buf -> BOOLEAN]
        /\ owed \in [Buf -> Nat] /\ cmdQ \in [Buf -> Nat]
    BY DEF Init
  <2>6. count \in Int /\ queued \subseteq Buf /\ filled \subseteq Buf
    BY DEF Init
  <2>7. streaming \in BOOLEAN /\ entry \in BOOLEAN /\ polled \in BOOLEAN
    BY DEF Init
  <2>8. cmdActive \in BOOLEAN /\ late \in BOOLEAN /\ pollBuf \in Buf /\ cmdBuf \in Buf
    BY DEF Init
  <2> QED
    BY <2>1, <2>2, <2>3, <2>4, <2>5, <2>6, <2>7, <2>8 DEF TypeOK
<1>2. TypeOK /\ [Next]_vars => TypeOK'
  <2> SUFFICES ASSUME TypeOK, [Next]_vars PROVE TypeOK'
    OBVIOUS
  <2>1. CASE Poll
    BY <2>1, PollType
  <2>2. CASE Notify
    BY <2>2, NotifyType
  <2>3. CASE Cmd
    BY <2>3, CmdType, BufDoneType DEF Cmd
  <2>4. CASE App
    BY <2>4, BufDoneType DEF App
  <2>5. CASE Control \/ Start \/ Stop
    BY <2>5, ControlType
  <2>6. CASE SetUp
    BY <2>6, SetUpType
  <2>7. CASE \E b \in Buf : QBuf(b)
    BY <2>7, CmdType
  <2>8. CASE DriverFill
    <3>1. queued' \subseteq Buf /\ filled' \subseteq Buf
      BY <2>8 DEF TypeOK, DriverFill
    <3>2. UNCHANGED <<state, refcnt, inKernel, count, streaming, entry, polled, pipe, poll,
                      pollBuf, cmdActive, cmdQ, cmd, cmdBuf, calls, owed, ctl, late, fails>>
      BY <2>8 DEF DriverFill, polling, threads, cmdThread
    <3> QED
      BY <3>1, <3>2 DEF TypeOK
  <2>9. CASE UNCHANGED vars
    BY <2>9 DEF vars, TypeOK
  <2> QED
    BY <2>1, <2>2, <2>3, <2>4, <2>5, <2>6, <2>7, <2>8, <2>9 DEF Next
<1> QED
  BY <1>1, <1>2, PTL DEF Spec
-----------------------------------------------------------------------------
(***************************************************************************)
(* The reference counts of MmStream are exact and no one holds a frame the *)
(* driver may write into: for every set of buffers, any number of clients  *)
(* inside buf_done and of failures, and any consumers, provided that a     *)
(* linked stream has a callback.                                           *)
(*                                                                         *)
(* The argument: BufInv, in MmStream, places every buffer either in one    *)
(* place where nobody refers to it or with those who do.  Each step is     *)
(* shown to keep it for a buffer b (the lemmas below), and ControlInv says *)
(* when such steps are possible at all.                                    *)
(***************************************************************************)

-----------------------------------------------------------------------------
(* Operators. *)

\* Everything BufInv counts is a number.
LEMMA Nums ==
  ASSUME TypeOK, NEW c \in Buf
  PROVE  /\ \A s \in Stage : calls[s][c] \in Nat
         /\ calls["check"][c] \in Nat /\ calls["dec"][c] \in Nat
         /\ calls["count"][c] \in Nat /\ calls["ioctl"][c] \in Nat
         /\ calls["undo"][c] \in Nat /\ calls["mark"][c] \in Nat
         /\ cmdQ[c] \in Nat /\ owed[c] \in Nat /\ refcnt[c] \in 0..255
  BY DEF TypeOK, Stage

LEMMA Sums ==
  ASSUME TypeOK, NEW c \in Buf
  PROVE  /\ PollRefs(c) \in Nat /\ CmdRefs(c) \in Nat /\ owed[c] \in Nat
         /\ Inside("check", c) \in Nat /\ Inside("dec", c) \in Nat
         /\ Inside("count", c) \in Nat /\ Queueing(c) \in Nat
         /\ Refs(c) \in Nat /\ Places(c) \in Nat /\ Pending(c) \in Nat
<1>1. PollRefs(c) \in Nat
  BY DEF PollRefs, One
<1>2. CmdRefs(c) \in Nat /\ owed[c] \in Nat
  BY Nums DEF CmdRefs, One
<1>3. Inside("check", c) \in Nat /\ Inside("dec", c) \in Nat
  BY Nums DEF Inside, One
<1>4. Inside("count", c) \in Nat /\ Queueing(c) \in Nat
  BY Nums DEF Queueing, Inside, One
<1>5. Refs(c) \in Nat
  BY <1>1, <1>2, <1>3 DEF Refs
<1>6. Places(c) \in Nat
  BY <1>4 DEF Places, One
<1>7. Pending(c) \in Nat
  BY <1>2 DEF Pending, One
<1> QED
  BY <1>1, <1>2, <1>3, <1>4, <1>5, <1>6, <1>7

\* A caller of buf_done with buffer b moves on; what buffer c sees of it.
CallerMoves(b, c, from, to) ==
  /\ \A s \in Stage :
       /\ Inside(s, c) \in Nat
       /\ Inside(s, c)' = IF b # c THEN Inside(s, c)
                          ELSE IF s = from THEN Inside(s, c) - 1
                          ELSE IF s = to THEN Inside(s, c) + 1
                          ELSE Inside(s, c)
  /\ b = c => Inside(from, c) > 0
  /\ One(cmd = "dispatch" /\ cmdBuf = c)' = One(cmd = "dispatch" /\ cmdBuf = c)

LEMMA GoMoves ==
  ASSUME TypeOK, NEW who \in {"app", "cmd"}, NEW b \in Buf, NEW c \in Buf,
         NEW from \in Stage, NEW to \in Stage \cup {"return"}, from # to,
         At(who, from, b), Go(who, b, from, to), cmdBuf' = cmdBuf
  PROVE  CallerMoves(b, c, from, to)
<1> SUFFICES ASSUME NEW s \in Stage
             PROVE  /\ Inside(s, c) \in Nat
                    /\ Inside(s, c)' = IF b # c THEN Inside(s, c)
                                       ELSE IF s = from THEN Inside(s, c) - 1
                                       ELSE IF s = to THEN Inside(s, c) + 1
                                       ELSE Inside(s, c)
                    /\ b = c => Inside(from, c) > 0
                    /\ One(cmd = "dispatch" /\ cmdBuf = c)' = One(cmd = "dispatch" /\ cmdBuf = c)
  BY DEF CallerMoves
<1>1. CASE who = "app"
  <2>1. cmd' = cmd /\ calls[from][b] > 0
    BY <1>1 DEF At, Go
  <2>2. calls'[s] = [calls[s] EXCEPT ![b] =
                       IF s = from THEN @ - 1 ELSE IF s = to THEN @ + 1 ELSE @]
    BY <1>1 DEF Go
  <2>3. calls[s] \in [Buf -> Nat]
    BY DEF TypeOK
  <2>4. calls'[s][c] = IF b # c THEN calls[s][c]
                       ELSE IF s = from THEN calls[s][c] - 1
                       ELSE IF s = to THEN calls[s][c] + 1
                       ELSE calls[s][c]
    BY <2>2, <2>3
  <2>5. calls[s][c] \in Nat /\ calls[from][c] \in Nat
    BY Nums
  <2> QED
    BY <2>1, <2>4, <2>5 DEF Inside, One
<1>2. CASE who = "cmd"
  <2>1. calls' = calls /\ cmd = from /\ cmdBuf = b
    BY <1>2 DEF At, Go
  <2>2. cmd' = IF to = "return" THEN "idle" ELSE to
    BY <1>2 DEF Go
  <2>3. calls[s][c] \in Nat /\ calls[from][c] \in Nat
    BY Nums
  <2>4. "idle" \notin Stage /\ "dispatch" \notin Stage /\ "return" \notin Stage
    BY DEF Stage
  <2> QED
    BY <2>1, <2>2, <2>3, <2>4 DEF Inside, One
<1> QED
  BY <1>1, <1>2

\* A step that moves neither buffer c nor a reference to it.
LEMMA BufFrame ==
  ASSUME NEW c \in Buf, BufInv(c),
         UNCHANGED <<poll, pollBuf, cmd, cmdBuf, cmdQ, calls, owed>>,
         refcnt'[c] = refcnt[c],
         One(c \in queued)' + One(c \in filled)' = One(c \in queued) + One(c \in filled)
  PROVE  BufInv(c)'
  BY DEF BufInv, Places, Queueing, Inside, Refs, PollRefs, CmdRefs, Pending

-----------------------------------------------------------------------------
(* The poll thread keeps BufInv. *)

LEMMA PollInv == ASSUME TypeOK, NEW c \in Buf, BufInv(c), Poll PROVE BufInv(c)'
<1>1. UNCHANGED <<refcnt, queued, filled, pollBuf, cmdQ, cmd, cmdBuf, calls, owed>>
  BY DEF Poll, ProcPipe, PollWake, PollCall, buffers, threads, cmdThread
<1>2. /\ poll \notin {"dequeued", "counted", "bundle", "link", "cmd"}
      /\ poll' \notin {"dequeued", "counted", "bundle", "link", "cmd"}
  BY DEF Poll, ProcPipe, PollWake, PollCall, threads
<1> QED
  BY <1>1, <1>2 DEF BufInv, Places, Queueing, Inside, Refs, PollRefs, CmdRefs, Pending, One

LEMMA NotifyDequeueInv ==
  ASSUME TypeOK, NEW c \in Buf, BufInv(c), NotifyDequeue PROVE BufInv(c)'
<1>1. UNCHANGED <<refcnt, queued, cmdQ, cmd, cmdBuf, calls, owed>>
  BY DEF NotifyDequeue, cmdThread
<1>2. poll = "notify"
  BY DEF NotifyDequeue
<1>3. CASE poll' = "wait" /\ UNCHANGED <<filled, pollBuf>>
  BY <1>1, <1>2, <1>3
     DEF BufInv, Places, Queueing, Inside, Refs, PollRefs, CmdRefs, Pending, One
<1>4. CASE \E b \in filled : /\ filled' = filled \ {b}
                             /\ poll' = "dequeued" /\ pollBuf' = b
  <2>1. PICK b \in filled : filled' = filled \ {b} /\ poll' = "dequeued" /\ pollBuf' = b
    BY <1>4
  <2> QED
    BY <1>1, <1>2, <2>1, Nums
       DEF BufInv, Places, Queueing, Inside, Refs, PollRefs, CmdRefs, Pending, One
<1> QED
  BY <1>3, <1>4 DEF NotifyDequeue

LEMMA NotifyCountInv ==
  ASSUME TypeOK, NEW c \in Buf, BufInv(c), NotifyCount PROVE BufInv(c)'
<1>1. UNCHANGED <<refcnt, queued, filled, pollBuf, cmdQ, cmd, cmdBuf, calls, owed>>
  BY DEF NotifyCount, cmdThread
<1>2. poll = "dequeued" /\ poll' \in {"counted", "wait"}
  BY DEF NotifyCount
<1> QED
  BY <1>1, <1>2, Nums
     DEF BufInv, Places, Queueing, Inside, Refs, PollRefs, CmdRefs, Pending, One

LEMMA NotifyRefInv ==
  ASSUME TypeOK, NEW c \in Buf, BufInv(c), NotifyRef PROVE BufInv(c)'
<1>1. UNCHANGED <<queued, filled, pollBuf, cmdQ, cmd, cmdBuf, calls, owed>>
  BY DEF NotifyRef, cmdThread
<1>2. poll = "counted" /\ poll' = "bundle"
  BY DEF NotifyRef
<1>3. CASE c = pollBuf
  <2>1. refcnt'[c] = (refcnt[c] + One(IsBundled) + One(HasCb)) % 256
    BY <1>3 DEF NotifyRef, TypeOK
  <2>2. One(IsBundled) \in 0..1 /\ One(HasCb) \in 0..1 /\ One(IsLinked) \in 0..1
    BY DEF One
  <2>3. Places(c) > 0 /\ Places(c)' = Places(c) - 1
    BY <1>1, <1>2, <1>3, Nums DEF Places, Queueing, Inside, One
  <2>4. Refs(c) = 0 /\ Places(c) = 1 /\ refcnt[c] = 0
    BY <2>3, Sums DEF BufInv, One
  <2>5. CmdRefs(c) = 0 /\ owed[c] = 0 /\ Inside("check", c) = 0 /\ Inside("dec", c) = 0
    BY <2>4, Sums DEF Refs
  <2>6. /\ CmdRefs(c)' = CmdRefs(c) /\ owed' = owed
        /\ Inside("check", c)' = Inside("check", c) /\ Inside("dec", c)' = Inside("dec", c)
    BY <1>1 DEF CmdRefs, Inside
  <2>7. PollRefs(c)' = One(IsBundled) + One(HasCb)
    BY <1>1, <1>2, <1>3 DEF PollRefs, One
  <2>8. Refs(c)' = One(IsBundled) + One(HasCb)
    BY <2>2, <2>5, <2>6, <2>7 DEF Refs
  <2>9. Pending(c)' = One(IsLinked) + One(HasCb)
    BY <1>1, <1>2, <1>3, <2>2, <2>5, <2>6 DEF Pending, One
  <2>10. refcnt'[c] = One(IsBundled) + One(HasCb)
    BY <2>1, <2>2, <2>4 DEF One
  <2> QED
    BY <2>2, <2>3, <2>4, <2>8, <2>9, <2>10 DEF BufInv, One
<1>4. CASE c # pollBuf
  <2>1. refcnt'[c] = refcnt[c]
    BY <1>4 DEF NotifyRef, TypeOK
  <2>2. \A s \in Stage : Inside(s, c)' = Inside(s, c)
    BY <1>1 DEF Inside
  <2>3. PollRefs(c)' = PollRefs(c) /\ CmdRefs(c)' = CmdRefs(c)
    BY <1>1, <1>4 DEF PollRefs, CmdRefs, One
  <2>4. Refs(c)' = Refs(c) /\ Places(c)' = Places(c) /\ Pending(c)' = Pending(c)
    BY <1>1, <1>4, <2>2, <2>3 DEF Refs, Places, Pending, Queueing, Stage, One
  <2> QED
    BY <2>1, <2>4 DEF BufInv
<1> QED
  BY <1>3, <1>4

LEMMA NotifyBundleInv ==
  ASSUME TypeOK, NEW c \in Buf, BufInv(c), NotifyBundle PROVE BufInv(c)'
<1>1. UNCHANGED <<refcnt, queued, filled, pollBuf, cmdQ, cmd, cmdBuf, calls>>
  BY DEF NotifyBundle, cmdThread
<1>2. poll = "bundle" /\ poll' = "link"
  BY DEF NotifyBundle
<1>3. owed'[c] = owed[c] + One(IsBundled /\ c = pollBuf)
  BY Nums DEF NotifyBundle, TypeOK, One
<1>4. \A s \in Stage : Inside(s, c)' = Inside(s, c)
  BY <1>1 DEF Inside
<1>5. CmdRefs(c)' = CmdRefs(c)
  BY <1>1 DEF CmdRefs
<1>6. PollRefs(c)' = PollRefs(c) - One(IsBundled /\ c = pollBuf)
  BY <1>1, <1>2 DEF PollRefs, One
<1>7. Refs(c)' = Refs(c)
  BY <1>3, <1>4, <1>5, <1>6, Sums DEF Refs, Stage, One
<1>8. Places(c)' = Places(c)
  BY <1>1, <1>2, <1>4 DEF Places, Queueing, Stage
<1>9. Pending(c)' = Pending(c)
  BY <1>1, <1>2, <1>5 DEF Pending
<1> QED
  BY <1>1, <1>7, <1>8, <1>9 DEF BufInv

LEMMA NotifyLinkInv ==
  ASSUME IsLinked => HasCb, TypeOK, NEW c \in Buf, BufInv(c), NotifyLink PROVE BufInv(c)'
<1>1. UNCHANGED <<queued, filled, pollBuf, cmdQ, cmd, cmdBuf, calls>>
  BY DEF NotifyLink, cmdThread
<1>2. poll = "link" /\ poll' = "cmd"
  BY DEF NotifyLink
<1>3. owed'[c] = owed[c] + One(IsLinked /\ c = pollBuf)
  BY Nums DEF NotifyLink, TypeOK, One
<1>4. refcnt'[c] = IF c = pollBuf THEN (refcnt[c] + One(IsLinked)) % 256 ELSE refcnt[c]
  BY DEF NotifyLink, TypeOK
<1>5. refcnt[c] \in 0..4
  BY Sums DEF BufInv
<1>6. One(IsLinked) \in 0..1
  BY DEF One
<1>7. refcnt'[c] = refcnt[c] + One(IsLinked /\ c = pollBuf)
  BY <1>4, <1>5, <1>6 DEF One
<1>8. Places(c)' = Places(c)
  BY <1>1, <1>2 DEF Places, Queueing, Inside
<1>9. Refs(c)' = Refs(c) + One(IsLinked /\ c = pollBuf)
  <2>1. PollRefs(c)' = PollRefs(c) /\ CmdRefs(c)' = CmdRefs(c)
    BY <1>1, <1>2 DEF PollRefs, CmdRefs
  <2>2. Inside("check", c)' = Inside("check", c) /\ Inside("dec", c)' = Inside("dec", c)
    BY <1>1 DEF Inside
  <2> QED
    BY <1>3, <2>1, <2>2, Sums DEF Refs, One
<1>10. Pending(c)' = Pending(c) - One(IsLinked /\ c = pollBuf)
  <2>1. CmdRefs(c)' = CmdRefs(c)
    BY <1>1 DEF CmdRefs
  <2> QED
    BY <1>1, <1>2, <2>1, Sums DEF Pending, One
<1>11. IsLinked /\ c = pollBuf => Refs(c) > 0
  <2>1. IsLinked /\ c = pollBuf => PollRefs(c) > 0
    BY <1>2 DEF PollRefs, One
  <2> QED
    BY <2>1, Sums DEF Refs
<1> QED
  BY <1>7, <1>8, <1>9, <1>10, <1>11, Sums DEF BufInv, One

LEMMA NotifyCmdInv ==
  ASSUME HasCb => cmdActive, TypeOK, NEW c \in Buf, BufInv(c), NotifyCmd PROVE BufInv(c)'
<1>1. UNCHANGED <<refcnt, queued, filled, pollBuf, cmd, cmdBuf, calls, owed>>
  BY DEF NotifyCmd, buffers
<1>2. poll = "cmd" /\ poll' = "wait"
  BY DEF NotifyCmd
<1>3. cmdQ'[c] = cmdQ[c] + One(HasCb /\ c = pollBuf)
  BY Nums DEF NotifyCmd, TypeOK, One
<1> QED
  BY <1>1, <1>2, <1>3, Nums
     DEF BufInv, Places, Queueing, Inside, Refs, PollRefs, CmdRefs, Pending, One

-----------------------------------------------------------------------------
(* The cmd thread and the clients keep BufInv. *)

LEMMA CmdTakeInv == ASSUME TypeOK, NEW c \in Buf, BufInv(c), CmdTake PROVE BufInv(c)'
<1>1. UNCHANGED <<refcnt, queued, filled, poll, pollBuf, calls, owed>>
  BY DEF CmdTake, buffers
<1>2. PICK b \in Buf : /\ cmdQ[b] > 0
                       /\ cmdQ' = [cmdQ EXCEPT ![b] = @ - 1]
                       /\ cmd' = "dispatch" /\ cmdBuf' = b
  BY DEF CmdTake
<1>3. cmd = "idle"
  BY DEF CmdTake
<1>4. cmdQ'[c] = cmdQ[c] - One(b = c)
  <2>1. cmdQ \in [Buf -> Nat]
    BY DEF TypeOK
  <2>2. cmdQ[c] \in Nat /\ cmdQ[c] - 0 = cmdQ[c]
    BY <2>1
  <2> QED
    BY <1>2, <2>1, <2>2 DEF One
<1>5. CmdRefs(c)' = CmdRefs(c)
  BY <1>2, <1>3, <1>4, Nums DEF CmdRefs, One
<1>6. \A s \in Stage : Inside(s, c)' = Inside(s, c)
  <2>1. \A s \in Stage : s # "idle" /\ s # "dispatch"
    BY DEF Stage
  <2> QED
    BY <1>1, <1>2, <1>3, <2>1 DEF Inside, One
<1>7. PollRefs(c)' = PollRefs(c)
  BY <1>1 DEF PollRefs
<1> QED
  BY <1>1, <1>5, <1>6, <1>7 DEF BufInv, Places, Queueing, Refs, Pending, Stage

LEMMA CmdDispatchInv ==
  ASSUME TypeOK, NEW c \in Buf, BufInv(c), CmdDispatch PROVE BufInv(c)'
<1>1. UNCHANGED <<queued, filled, poll, pollBuf, cmdQ, cmdBuf, calls>>
  BY DEF CmdDispatch
<1>2. cmd = "dispatch" /\ cmd' = "check"
  BY DEF CmdDispatch
<1>3. owed'[c] = IF c = cmdBuf THEN owed[c] + 1 ELSE owed[c]
  BY DEF CmdDispatch, TypeOK
<1>4. refcnt'[c] = IF c = cmdBuf THEN (refcnt[c] + 1) % 256 ELSE refcnt[c]
  BY DEF CmdDispatch, Inc, TypeOK
<1>5. refcnt[c] \in 0..4
  BY Sums DEF BufInv
<1>6. refcnt'[c] = IF c = cmdBuf THEN refcnt[c] + 1 ELSE refcnt[c]
  BY <1>4, <1>5
<1>7. CASE c = cmdBuf
  <2>1. Refs(c)' = Refs(c) + 1 /\ Refs(c) \in Nat /\ Refs(c) > 0
    <3>1. PollRefs(c)' = PollRefs(c) /\ Inside("dec", c)' = Inside("dec", c)
      BY <1>1, <1>2 DEF PollRefs, Inside, One
    <3>2. CmdRefs(c)' = CmdRefs(c) - 1 /\ CmdRefs(c) > 0
      BY <1>1, <1>2, <1>7, Nums DEF CmdRefs, One
    <3>3. Inside("check", c)' = Inside("check", c) + 1
      BY <1>1, <1>2, <1>7, Nums DEF Inside, One
    <3> QED
      BY <1>3, <1>7, <3>1, <3>2, <3>3, Sums DEF Refs
  <2>2. Places(c)' = Places(c) /\ Places(c) \in Nat
    BY <1>1, <1>2, Nums DEF Places, Queueing, Inside, One
  <2>3. Pending(c)' = Pending(c) - 1 /\ Pending(c) \in Nat
    BY <1>1, <1>2, <1>7, Nums DEF Pending, CmdRefs, One
  <2> QED
    BY <1>6, <1>7, <2>1, <2>2, <2>3 DEF BufInv, One
<1>8. CASE c # cmdBuf
  <2>0. owed'[c] = owed[c] /\ refcnt'[c] = refcnt[c]
    BY <1>3, <1>6, <1>8
  <2>1. PollRefs(c)' = PollRefs(c) /\ CmdRefs(c)' = CmdRefs(c)
    BY <1>1, <1>8 DEF PollRefs, CmdRefs, One
  <2>2. \A s \in Stage : Inside(s, c)' = Inside(s, c)
    BY <1>1, <1>8 DEF Inside, One
  <2>3. Places(c)' = Places(c) /\ Pending(c)' = Pending(c) /\ Refs(c)' = Refs(c)
    BY <1>1, <2>0, <2>1, <2>2 DEF Places, Pending, Refs, Queueing, Stage
  <2> QED
    BY <2>0, <2>3 DEF BufInv
<1> QED
  BY <1>7, <1>8

LEMMA QBufInv ==
  ASSUME TypeOK, NEW c \in Buf, BufInv(c), NEW b \in Buf, QBuf(b) PROVE BufInv(c)'
<1>1. UNCHANGED <<refcnt, queued, filled, poll, pollBuf, cmdQ, cmd, cmdBuf>>
  BY DEF QBuf, rest
<1>2. owed'[c] = owed[c] - One(b = c) /\ (b = c => owed[c] > 0)
  <2>1. owed \in [Buf -> Nat]
    BY DEF TypeOK
  <2>2. owed[c] \in Nat /\ owed[c] - 0 = owed[c]
    BY <2>1
  <2>3. owed[b] > 0 /\ owed' = [owed EXCEPT ![b] = @ - 1]
    BY DEF QBuf
  <2> QED
    BY <2>1, <2>2, <2>3 DEF One
<1>3. calls'["check"][c] = calls["check"][c] + One(b = c)
  <2>1. calls["check"] \in [Buf -> Nat] /\ calls' = [calls EXCEPT !["check"][b] = @ + 1]
    BY DEF TypeOK, QBuf, Stage
  <2>2. calls'["check"] = [calls["check"] EXCEPT ![b] = @ + 1]
    BY <2>1 DEF TypeOK, Stage
  <2> QED
    BY <2>1, <2>2 DEF One
<1>4. /\ calls'["dec"] = calls["dec"] /\ calls'["count"] = calls["count"]
      /\ calls'["ioctl"] = calls["ioctl"] /\ calls'["undo"] = calls["undo"]
  BY DEF QBuf, TypeOK, Stage
<1> QED
  BY <1>1, <1>2, <1>3, <1>4, Nums
     DEF BufInv, Places, Queueing, Inside, Refs, PollRefs, CmdRefs, Pending, One

-----------------------------------------------------------------------------
(* mm_stream_buf_done keeps BufInv, whoever runs it. *)

\* A step that moves callers of buf_done, and nothing else, for buffer c.
LEMMA DoneFrame ==
  ASSUME TypeOK, NEW c \in Buf, BufInv(c),
         UNCHANGED <<poll, pollBuf, cmdQ, owed, queued, filled>>, refcnt'[c] = refcnt[c],
         One(cmd = "dispatch" /\ cmdBuf = c)' = One(cmd = "dispatch" /\ cmdBuf = c),
         Inside("check", c)' + Inside("dec", c)' = Inside("check", c) + Inside("dec", c),
         Inside("check", c)' \in Nat, Inside("dec", c)' \in Nat,
         Inside("count", c)' \in Nat, Queueing(c)' \in Nat,
         Inside("count", c)' + Queueing(c)' <= Inside("count", c) + Queueing(c)
  PROVE  BufInv(c)'
<1>1. PollRefs(c)' = PollRefs(c) /\ CmdRefs(c)' = CmdRefs(c)
  BY DEF PollRefs, CmdRefs
<1>2. Refs(c)' = Refs(c)
  BY <1>1, Sums DEF Refs
<1>3. Places(c)' <= Places(c) /\ Places(c)' \in Nat
  BY Sums DEF Places, One
<1>4. Pending(c)' = Pending(c)
  BY <1>1 DEF Pending
<1> QED
  BY <1>2, <1>3, <1>4, Sums DEF BufInv, One

LEMMA DoneCheckInv ==
  ASSUME TypeOK, NEW who \in {"app", "cmd"}, NEW b \in Buf, NEW c \in Buf, BufInv(c),
         DoneCheck(who, b)
  PROVE  BufInv(c)'
<1> DEFINE to == IF refcnt[b] = 0 THEN "return" ELSE "dec"
<1>1. /\ UNCHANGED <<poll, pollBuf, cmdQ, cmdBuf, owed, queued, filled, refcnt>>
      /\ At(who, "check", b) /\ Go(who, b, "check", to)
  BY DEF DoneCheck, rest, buffers
<1>2. "check" \in Stage /\ to \in Stage \cup {"return"} /\ to # "check"
  BY DEF Stage
<1> HIDE DEF to
<1>3. CallerMoves(b, c, "check", to)
  BY <1>1, <1>2, GoMoves
<1>4. b = c => to = "dec"
  <2>1. b = c => Refs(c) > 0
    BY <1>3, <1>2, Sums DEF Refs, CallerMoves
  <2> QED
    BY <2>1, Sums DEF BufInv, to
<1>5. /\ Inside("check", c)' + Inside("dec", c)' = Inside("check", c) + Inside("dec", c)
      /\ Inside("check", c)' \in Nat /\ Inside("dec", c)' \in Nat
      /\ Inside("count", c)' = Inside("count", c) /\ Queueing(c)' = Queueing(c)
  BY <1>3, <1>4 DEF CallerMoves, Queueing, Stage
<1> QED
  BY <1>1, <1>3, <1>5, DoneFrame, Sums DEF CallerMoves, Stage

LEMMA DoneDecInv ==
  ASSUME TypeOK, NEW who \in {"app", "cmd"}, NEW b \in Buf, NEW c \in Buf, BufInv(c),
         DoneDec(who, b)
  PROVE  BufInv(c)'
<1> DEFINE to == IF Dec(refcnt[b]) = 0 THEN "count" ELSE "return"
<1>1. /\ UNCHANGED <<poll, pollBuf, cmdQ, cmdBuf, owed, queued, filled>>
      /\ At(who, "dec", b) /\ Go(who, b, "dec", to)
  BY DEF DoneDec, rest
<1>2. "dec" \in Stage /\ to \in Stage \cup {"return"} /\ to # "dec" /\ to \in {"count", "return"}
  BY DEF Stage
<1>3. refcnt'[c] = IF b = c THEN Dec(refcnt[c]) ELSE refcnt[c]
  BY DEF DoneDec, TypeOK
<1> HIDE DEF to
<1>4. CallerMoves(b, c, "dec", to)
  BY <1>1, <1>2, GoMoves
<1>5. CASE b # c
  <2>1. /\ Inside("check", c)' = Inside("check", c) /\ Inside("dec", c)' = Inside("dec", c)
        /\ Inside("count", c)' = Inside("count", c) /\ Queueing(c)' = Queueing(c)
    BY <1>4, <1>5 DEF CallerMoves, Queueing, Stage
  <2> QED
    BY <1>1, <1>3, <1>4, <1>5, <2>1, DoneFrame, Sums DEF CallerMoves
<1>6. CASE b = c
  <2>1. /\ Inside("check", c)' = Inside("check", c) /\ Inside("dec", c)' = Inside("dec", c) - 1
        /\ Inside("dec", c) > 0 /\ Queueing(c)' = Queueing(c)
        /\ Inside("count", c)' = Inside("count", c) + One(to = "count")
    <3>1. CASE to = "count"
      BY <1>4, <1>6, <3>1 DEF CallerMoves, Queueing, Stage, One
    <3>2. CASE to = "return"
      BY <1>4, <1>6, <3>2 DEF CallerMoves, Queueing, Stage, One
    <3> QED
      BY <1>2, <3>1, <3>2
  <2>2. PollRefs(c)' = PollRefs(c) /\ CmdRefs(c)' = CmdRefs(c) /\ owed'[c] = owed[c]
    BY <1>1, <1>4 DEF CallerMoves, PollRefs, CmdRefs
  <2>3. Refs(c)' = Refs(c) - 1 /\ Refs(c) > 0
    BY <2>1, <2>2, Sums DEF Refs
  <2>4. Places(c) = 0 /\ Places(c)' = One(to = "count")
    BY <1>1, <2>1, <2>3, Sums DEF BufInv, Places, One
  <2>5. Pending(c)' = Pending(c)
    BY <1>1, <2>2 DEF Pending
  <2>6. refcnt[c] \in 1..4 /\ Refs(c) = refcnt[c]
    BY <2>3, Sums DEF BufInv
  <2>7. Dec(refcnt[c]) = refcnt[c] - 1
    BY <2>6 DEF Dec
  <2>8. One(to = "count") = One(refcnt[c] - 1 = 0)
    BY <1>6, <2>7 DEF to, One
  <2> QED
    BY <1>3, <1>6, <2>3, <2>4, <2>5, <2>6, <2>7, <2>8, Sums DEF BufInv, One
<1> QED
  BY <1>5, <1>6

LEMMA DoneCountInv ==
  ASSUME TypeOK, NEW who \in {"app", "cmd"}, NEW b \in Buf, NEW c \in Buf, BufInv(c),
         DoneCount(who, b)
  PROVE  BufInv(c)'
<1>1. PICK to \in {"ioctl", "return"} :
        /\ UNCHANGED <<poll, pollBuf, cmdQ, cmdBuf, owed, queued, filled, refcnt>>
        /\ At(who, "count", b) /\ Go(who, b, "count", to)
  BY DEF DoneCount, rest
<1>2. "count" \in Stage /\ to \in Stage \cup {"return"} /\ to # "count"
  BY DEF Stage
<1>3. CallerMoves(b, c, "count", to)
  BY <1>1, <1>2, GoMoves
<1>4. /\ Inside("check", c)' = Inside("check", c) /\ Inside("dec", c)' = Inside("dec", c)
      /\ Inside("count", c)' \in Nat /\ Queueing(c)' \in Nat
      /\ Inside("count", c)' + Queueing(c)' <= Inside("count", c) + Queueing(c)
  BY <1>3 DEF CallerMoves, Queueing, Stage
<1> QED
  BY <1>1, <1>3, <1>4, DoneFrame, Sums DEF CallerMoves

LEMMA DoneIoctlInv ==
  ASSUME TypeOK, NEW who \in {"app", "cmd"}, NEW b \in Buf, NEW c \in Buf, BufInv(c),
         DoneIoctl(who, b)
  PROVE  BufInv(c)'
<1>1. /\ UNCHANGED <<poll, pollBuf, cmdQ, cmdBuf, owed, filled, refcnt>>
      /\ At(who, "ioctl", b)
      /\ \/ Go(who, b, "ioctl", "mark") /\ b \notin queued \cup filled
            /\ queued' = queued \cup {b}
         \/ Go(who, b, "ioctl", "undo") /\ queued' = queued
  BY DEF DoneIoctl, DriverTakes, rest
<1>2. {"ioctl", "mark", "undo"} \subseteq Stage
  BY DEF Stage
<1>3. CASE Go(who, b, "ioctl", "undo") /\ queued' = queued
  <2>1. CallerMoves(b, c, "ioctl", "undo")
    BY <1>1, <1>2, <1>3, GoMoves
  <2>2. /\ Inside("check", c)' = Inside("check", c) /\ Inside("dec", c)' = Inside("dec", c)
        /\ Inside("count", c)' = Inside("count", c) /\ Queueing(c)' = Queueing(c)
    BY <2>1 DEF CallerMoves, Queueing, Stage
  <2> QED
    BY <1>1, <1>3, <2>1, <2>2, DoneFrame, Sums DEF CallerMoves
<1>4. CASE /\ Go(who, b, "ioctl", "mark") /\ b \notin queued \cup filled
           /\ queued' = queued \cup {b}
  <2>1. CallerMoves(b, c, "ioctl", "mark")
    BY <1>1, <1>2, <1>4, GoMoves
  <2>2. /\ Inside("check", c)' = Inside("check", c) /\ Inside("dec", c)' = Inside("dec", c)
        /\ Inside("count", c)' = Inside("count", c)
        /\ Queueing(c)' = Queueing(c) - One(b = c)
    BY <2>1 DEF CallerMoves, Queueing, Stage, One
  <2>3. PollRefs(c)' = PollRefs(c) /\ CmdRefs(c)' = CmdRefs(c) /\ owed'[c] = owed[c]
    BY <1>1, <2>1 DEF CallerMoves, PollRefs, CmdRefs
  <2>4. Refs(c)' = Refs(c) /\ Pending(c)' = Pending(c)
    BY <1>1, <2>2, <2>3 DEF Refs, Pending
  <2>5. One(c \in queued)' = One(c \in queued) + One(b = c)
    BY <1>4 DEF One
  <2>6. Places(c)' = Places(c)
    BY <1>1, <2>2, <2>5, Sums DEF Places, One
  <2> QED
    BY <1>1, <2>4, <2>6 DEF BufInv
<1> QED
  BY <1>1, <1>3, <1>4

LEMMA DoneUndoInv ==
  ASSUME TypeOK, NEW who \in {"app", "cmd"}, NEW b \in Buf, NEW c \in Buf, BufInv(c),
         DoneUndo(who, b) \/ DoneMark(who, b)
  PROVE  BufInv(c)'
<1>1. PICK from \in {"undo", "mark"} :
        /\ UNCHANGED <<poll, pollBuf, cmdQ, cmdBuf, owed, queued, filled, refcnt>>
        /\ At(who, from, b) /\ Go(who, b, from, "return")
  BY DEF DoneUndo, DoneMark, rest
<1>2. from \in Stage /\ from # "return"
  BY DEF Stage
<1>3. CallerMoves(b, c, from, "return")
  BY <1>1, <1>2, GoMoves
<1>4. /\ Inside("check", c)' = Inside("check", c) /\ Inside("dec", c)' = Inside("dec", c)
      /\ Inside("count", c)' = Inside("count", c) /\ Queueing(c)' \in Nat
      /\ Queueing(c)' <= Queueing(c)
  BY <1>1, <1>3 DEF CallerMoves, Queueing, Stage
<1> QED
  BY <1>1, <1>3, <1>4, DoneFrame, Sums DEF CallerMoves

LEMMA BufDoneInv ==
  ASSUME TypeOK, NEW who \in {"app", "cmd"}, NEW b \in Buf, NEW c \in Buf, BufInv(c),
         BufDone(who, b)
  PROVE  BufInv(c)'
  BY DoneCheckInv, DoneDecInv, DoneCountInv, DoneIoctlInv, DoneUndoInv DEF BufDone

-----------------------------------------------------------------------------
(* The threads and the clients keep ControlInv. *)

\* No calls at all, then none at any stage.
LEMMA NoCalls ==
  ASSUME TypeOK, NEW b \in Buf, CallsOn(b) = 0
  PROVE  \A t \in Stage : calls[t][b] = 0
<1> DEFINE n(t) == calls[t][b]
<1>1. /\ n("check") \in Nat /\ n("dec") \in Nat /\ n("count") \in Nat
      /\ n("ioctl") \in Nat /\ n("undo") \in Nat /\ n("mark") \in Nat
  BY Nums
<1>2. n("check") + n("dec") + n("count") + n("ioctl") + n("undo") + n("mark") = 0
  BY DEF CallsOn
<1> HIDE DEF n
<1>3. /\ n("check") = 0 /\ n("dec") = 0 /\ n("count") = 0
      /\ n("ioctl") = 0 /\ n("undo") = 0 /\ n("mark") = 0
  BY <1>1, <1>2
<1> QED
  BY <1>3 DEF Stage, n

\* In a quiet state no one is inside buf_done.
LEMMA QuietCalls ==
  ASSUME TypeOK, Quiet, NEW b \in Buf, NEW who \in {"app", "cmd"}, NEW s \in Stage
  PROVE  ~At(who, s, b)
<1>1. \A t \in Stage : calls[t][b] = 0
  BY NoCalls DEF Quiet
<1>2. cmd = "idle" /\ "idle" \notin Stage
  BY DEF Quiet, Stage
<1> QED
  BY <1>1, <1>2 DEF At

\* A step of a thread or a client: where the control thread is changes at most
\* by the signal it waits for, and a quiet state before START stays quiet.
ThreadStep ==
  /\ UNCHANGED <<state, late, cmdActive>>
  /\ \A at \in {"idle", "activate", "stopped"} : (ctl' = at) <=> (ctl = at)
  /\ Quiet /\ state = "REG" => Quiet'

LEMMA ThreadKeepsControl == ControlInv /\ ThreadStep => ControlInv' /\ (Live' => Live)
  BY DEF ControlInv, ThreadStep, Live

LEMMA PollSteps == TypeOK /\ Poll => ThreadStep
<1> SUFFICES ASSUME TypeOK, Poll PROVE ThreadStep
  OBVIOUS
<1>1. UNCHANGED <<state, late, cmdActive, cmd, cmdQ, calls>>
  BY DEF Poll, ProcPipe, PollWake, PollCall, threads, cmdThread
<1>2. \A at \in {"idle", "activate", "stopped"} : (ctl' = at) <=> (ctl = at)
  BY DEF Poll, ProcPipe, PollWake, PollCall
<1>3. poll' \in {"wait", "woken", "notify"}
  BY DEF Poll, ProcPipe, PollWake, PollCall, threads
<1> QED
  BY <1>1, <1>2, <1>3 DEF ThreadStep, Quiet, CallsOn

LEMMA NotifySteps == TypeOK /\ Notify => ThreadStep
<1> SUFFICES ASSUME TypeOK, Notify PROVE ThreadStep
  OBVIOUS
<1>1. UNCHANGED <<state, late, cmdActive, cmd, ctl, calls>>
  BY DEF Notify, NotifyDequeue, NotifyCount, NotifyRef, NotifyBundle, NotifyLink, NotifyCmd,
         cmdThread
<1>2. Quiet /\ state = "REG" => poll' = "wait" /\ cmdQ' = cmdQ
  BY DEF Quiet, Notify, NotifyDequeue, NotifyCount, NotifyRef, NotifyBundle, NotifyLink,
         NotifyCmd, cmdThread
<1> QED
  BY <1>1, <1>2 DEF ThreadStep, Quiet, CallsOn

LEMMA CmdSteps == TypeOK /\ Cmd => ThreadStep
<1> SUFFICES ASSUME TypeOK, Cmd PROVE ThreadStep
  OBVIOUS
<1>1. CASE CmdTake
  <2>1. ~Quiet
    BY <1>1 DEF CmdTake, Quiet
  <2> QED
    BY <1>1, <2>1 DEF CmdTake, ThreadStep
<1>2. CASE CmdDispatch
  BY <1>2 DEF CmdDispatch, Quiet, ThreadStep
<1>3. CASE \E b \in Buf : BufDone("cmd", b)
  <2>1. PICK b \in Buf : BufDone("cmd", b)
    BY <1>3
  <2>2. UNCHANGED <<state, late, cmdActive, ctl>>
    BY <2>1 DEF BufDone, DoneCheck, DoneDec, DoneCount, DoneIoctl, DoneUndo, DoneMark, rest
  <2>3. \E s \in Stage : At("cmd", s, b)
    BY <2>1 DEF BufDone, DoneCheck, DoneDec, DoneCount, DoneIoctl, DoneUndo, DoneMark, Stage
  <2> QED
    BY <2>2, <2>3, QuietCalls DEF ThreadStep
<1> QED
  BY <1>1, <1>2, <1>3 DEF Cmd

LEMMA AppSteps == TypeOK /\ (App \/ \E b \in Buf : QBuf(b)) => ThreadStep
<1> SUFFICES ASSUME TypeOK, App \/ \E b \in Buf : QBuf(b) PROVE ThreadStep
  OBVIOUS
<1>1. CASE App
  <2>1. PICK b \in Buf : BufDone("app", b)
    BY <1>1 DEF App
  <2>2. UNCHANGED <<state, late, cmdActive, ctl>>
    BY <2>1 DEF BufDone, DoneCheck, DoneDec, DoneCount, DoneIoctl, DoneUndo, DoneMark, rest
  <2>3. \E s \in Stage : At("app", s, b)
    BY <2>1 DEF BufDone, DoneCheck, DoneDec, DoneCount, DoneIoctl, DoneUndo, DoneMark, Stage
  <2> QED
    BY <2>2, <2>3, QuietCalls DEF ThreadStep
<1>2. CASE \E b \in Buf : QBuf(b)
  <2>1. UNCHANGED <<state, late, cmdActive, ctl>> /\ state = "ACTIVE"
    BY <1>2 DEF QBuf, rest
  <2> QED
    BY <2>1 DEF ThreadStep
<1> QED
  BY <1>1, <1>2

LEMMA DriverSteps == DriverFill => ThreadStep
  BY DEF DriverFill, threads, cmdThread, ThreadStep, Quiet, CallsOn

-----------------------------------------------------------------------------
(* The control thread keeps both. *)

\* Nothing happens to the buffers.
Still == UNCHANGED <<refcnt, queued, filled, poll, pollBuf, cmdQ, cmd, cmdBuf, calls, owed>>

LEMMA StillKeepsBuf == ASSUME NEW c \in Buf, BufInv(c), Still PROVE BufInv(c)'
  BY BufFrame DEF Still

LEMMA StillKeepsQuiet == Still => (Quiet' <=> Quiet)
  BY DEF Still, Quiet, CallsOn

\* An event that is not about registered buffers.
LEMMA SetUpInv ==
  ASSUME TypeOK, Inv,
         Acquire \/ SetFmt \/ GetBuf \/ PutBuf \/ AddStream \/ Release \/ RegBufFails
  PROVE  Inv'
<1>1. ctl' = "idle" /\ state' \notin {"REG", "ACTIVE"}
  BY DEF Acquire, SetFmt, GetBuf, PutBuf, AddStream, Release, RegBufFails, Event
<1> QED
  BY <1>1 DEF Inv, ControlInv, Live

\* REG_BUF starts from a quiet state, or the session is a late one.
LEMMA RegBufInv == ASSUME TypeOK, Inv, RegBuf PROVE Inv'
<1>1. /\ ctl = "idle" /\ ctl' = "idle" /\ state' = "REG" /\ late' = ~Quiet
      /\ UNCHANGED <<poll, pollBuf, cmdActive, cmdQ, cmd, cmdBuf, calls>>
  BY DEF RegBuf, threads, cmdThread
<1>2. Live' => Quiet /\ Quiet'
  BY <1>1 DEF Live, Quiet, CallsOn
<1>3. ControlInv'
  BY <1>1, <1>2 DEF ControlInv, Live
<1>4. ASSUME Live', NEW c \in Buf PROVE BufInv(c)'
  <2>1. /\ refcnt'[c] = One(c \notin InitialReg) /\ owed'[c] = One(c \notin InitialReg)
        /\ queued' = InitialReg /\ filled' = {}
    BY DEF RegBuf
  <2>2. /\ poll' \in {"wait", "woken", "notify"} /\ cmd' = "idle" /\ cmdQ'[c] = 0
    BY <1>1, <1>2, <1>4 DEF Quiet
  <2>3. \A s \in Stage : calls'[s][c] = 0
    BY <1>1, <1>2, <1>4, NoCalls DEF Quiet
  <2>4. \A s \in Stage : Inside(s, c)' = 0
    BY <2>2, <2>3 DEF Inside, One, Stage
  <2>5. PollRefs(c)' = 0 /\ CmdRefs(c)' = 0
    BY <2>2 DEF PollRefs, CmdRefs, One
  <2>6. Refs(c)' = One(c \notin InitialReg)
    BY <2>1, <2>4, <2>5 DEF Refs, Stage, One
  <2>7. Places(c)' = One(c \in InitialReg)
    BY <2>1, <2>2, <2>4 DEF Places, Queueing, Stage, One
  <2>8. Pending(c)' = 0
    BY <2>2, <2>5 DEF Pending, One
  <2> QED
    BY <2>1, <2>6, <2>7, <2>8 DEF BufInv, One
<1> QED
  BY <1>3, <1>4 DEF Inv

LEMMA StartInv == ASSUME TypeOK, Inv, Start PROVE Inv'
<1>1. /\ ctl = "idle" /\ state = "REG" /\ ctl' = "activate" /\ state' = "REG"
      /\ cmdActive' = (cmdActive \/ HasCb) /\ late' = late
      /\ UNCHANGED <<refcnt, queued, filled, owed, poll, pollBuf, cmd, cmdBuf, calls>>
  BY DEF Start, buffers
<1>2. Live' => Live /\ Quiet
  BY <1>1 DEF Live, Inv, ControlInv
<1>3. Live' => cmdQ' = cmdQ
  BY <1>2 DEF Start, Quiet, TypeOK
<1>4. Live' => Still
  BY <1>1, <1>3 DEF Still
<1>5. ControlInv'
  BY <1>1, <1>2, <1>4, StillKeepsQuiet DEF ControlInv
<1>6. Live' => \A b \in Buf : BufInv(b)'
  BY <1>2, <1>4, StillKeepsBuf DEF Inv
<1> QED
  BY <1>5, <1>6 DEF Inv

LEMMA EventInv ==
  ASSUME TypeOK, Inv, Activate \/ StreamOn \/ SyncDel \/ Stop \/ LockCmd \/ Join \/ UnregBuf
  PROVE  Inv'
<1>1. CASE Activate \/ StreamOn \/ SyncDel \/ Stop \/ LockCmd
  <2>1. Still /\ UNCHANGED <<cmdActive, late>>
    BY <1>1 DEF Still, Activate, StreamOn, SyncDel, Stop, LockCmd, buffers, threads, cmdThread
  <2>2. /\ state' \in {state, "ACTIVE"} /\ ctl # "stopped"
        /\ ctl' # "activate" /\ (state' # state => ctl = "activate")
    BY <1>1 DEF Activate, StreamOn, SyncDel, Stop, LockCmd
  <2>3. ctl = "idle" => state = "ACTIVE"
    BY <1>1 DEF Activate, StreamOn, SyncDel, Stop, LockCmd
  <2>4. state \in {"REG", "ACTIVE"}
    BY <2>3 DEF Inv, ControlInv
  <2>5. Live' => Live
    BY <2>1, <2>2, <2>4 DEF Live
  <2>6. ControlInv'
    BY <2>1, <2>2, <2>4, <2>5, StillKeepsQuiet DEF Inv, ControlInv
  <2> QED
    BY <2>1, <2>5, <2>6, StillKeepsBuf DEF Inv
<1>2. CASE Join
  <2>1. ctl' = "stopped" /\ state' = "REG"
    BY <1>2 DEF Join
  <2> QED
    BY <2>1 DEF Inv, ControlInv, Live
<1>3. CASE UnregBuf
  <2>1. ctl' = "idle" /\ state' = "BUFFED"
    BY <1>3 DEF UnregBuf
  <2> QED
    BY <2>1 DEF Inv, ControlInv, Live
<1> QED
  BY <1>1, <1>2, <1>3

LEMMA StreamOffInv == ASSUME TypeOK, Inv, StreamOff PROVE Inv'
<1>1. /\ ctl = "off" /\ ctl' = "join" /\ queued' = {} /\ filled' = {}
      /\ UNCHANGED <<state, late, cmdActive, refcnt, poll, pollBuf, cmdQ, cmd, cmdBuf, calls, owed>>
  BY DEF StreamOff, threads, cmdThread
<1>2. (Live' <=> Live) /\ (Quiet' <=> Quiet)
  BY <1>1 DEF Live, Quiet, CallsOn
<1>3. ControlInv'
  BY <1>1, <1>2 DEF Inv, ControlInv
<1>4. ASSUME Live', NEW c \in Buf PROVE BufInv(c)'
  <2>1. BufInv(c)
    BY <1>2, <1>4 DEF Inv
  <2>2. Refs(c)' = Refs(c) /\ Pending(c)' = Pending(c)
    BY <1>1 DEF Refs, PollRefs, CmdRefs, Inside, Pending
  <2>3. Places(c)' <= Places(c) /\ Places(c)' \in Nat
    BY <1>1, Sums DEF Places, Queueing, Inside, One
  <2> QED
    BY <1>1, <2>1, <2>2, <2>3, Sums DEF BufInv, One
<1> QED
  BY <1>3, <1>4 DEF Inv

LEMMA DriverFillInv == ASSUME TypeOK, NEW c \in Buf, BufInv(c), DriverFill PROVE BufInv(c)'
<1>1. UNCHANGED <<refcnt, poll, pollBuf, cmdQ, cmd, cmdBuf, calls, owed>>
  BY DEF DriverFill, threads, cmdThread
<1>2. PICK b \in queued : queued' = queued \ {b} /\ filled' = filled \cup {b}
  BY DEF DriverFill
<1>3. Places(c) \in Nat /\ Places(c) <= 1
  BY Sums DEF BufInv, One
<1>4. ~(c \in queued /\ c \in filled)
  BY <1>3, Sums DEF Places, One
<1>5. One(c \in queued)' + One(c \in filled)' = One(c \in queued) + One(c \in filled)
  BY <1>2, <1>4 DEF One
<1> QED
  BY <1>1, <1>5, BufFrame

-----------------------------------------------------------------------------
(* The theorems. *)

\* A linked channel's reference is taken after the bundle has been notified,
\* so another reference must keep the buffer until then.
LinkedHasCb == IsLinked => HasCb

LEMMA NotifyInv ==
  ASSUME LinkedHasCb, TypeOK, Inv, Notify, Live, NEW c \in Buf
  PROVE  BufInv(c)'
<1>1. BufInv(c)
  BY DEF Inv
<1>2. CASE NotifyCmd
  <2>1. CASE state = "ACTIVE"
    <3>1. HasCb => cmdActive
      BY <2>1 DEF Inv, ControlInv
    <3> QED
      BY <1>1, <1>2, <3>1, NotifyCmdInv
  <2>2. CASE state = "REG"
    BY <1>2, <2>2 DEF Inv, ControlInv, Quiet, NotifyCmd
  <2> QED
    BY <2>1, <2>2 DEF Live
<1> QED
  BY <1>1, <1>2, NotifyDequeueInv, NotifyCountInv, NotifyRefInv, NotifyBundleInv,
     NotifyLinkInv DEF Notify, LinkedHasCb

LEMMA InvStep == LinkedHasCb /\ TypeOK /\ Inv /\ [Next]_vars => Inv'
<1> SUFFICES ASSUME LinkedHasCb, TypeOK, Inv, [Next]_vars PROVE Inv'
  OBVIOUS
<1>1. ASSUME ThreadStep, \A c \in Buf : Live /\ BufInv(c) => BufInv(c)' PROVE Inv'
  BY <1>1, ThreadKeepsControl DEF Inv
<1>2. CASE Poll
  BY <1>1, <1>2, PollSteps, PollInv
<1>3. CASE Notify
  BY <1>1, <1>3, NotifySteps, NotifyInv
<1>4. CASE Cmd
  BY <1>1, <1>4, CmdSteps, CmdTakeInv, CmdDispatchInv, BufDoneInv DEF Cmd
<1>5. CASE App \/ \E b \in Buf : QBuf(b)
  BY <1>1, <1>5, AppSteps, BufDoneInv, QBufInv DEF App
<1>6. CASE DriverFill
  BY <1>1, <1>6, DriverSteps, DriverFillInv
<1>7. CASE Control \/ Start \/ Stop
  BY <1>7, EventInv, StreamOffInv, StartInv DEF Control
<1>8. CASE SetUp
  BY <1>8, SetUpInv, RegBufInv DEF SetUp
<1>9. CASE UNCHANGED vars
  BY <1>9 DEF vars, Inv, ControlInv, Live, Quiet, CallsOn, BufInv, Places, Queueing, Inside,
              Refs, PollRefs, CmdRefs, Pending
<1> QED
  BY <1>2, <1>3, <1>4, <1>5, <1>6, <1>7, <1>8, <1>9 DEF Next

\* The inductive invariant.
THEOREM InvHolds == LinkedHasCb => (Spec => []Inv)
<1> SUFFICES ASSUME LinkedHasCb PROVE Spec => []Inv
  OBVIOUS
<1>1. Init => Inv
  BY DEF Init, Inv, ControlInv, Live
<1>2. TypeOK /\ Inv /\ [Next]_vars => Inv'
  BY InvStep
<1> QED
  BY <1>1, <1>2, TypeCorrect, PTL DEF Spec

\* The reference count of a buffer is the number of those who will give it
\* back (mm_stream_data_notify, mm_stream_dispatch_app_data, mm_stream_buf_done
\* and the channel, each under its own hold of buf_lock).
THEOREM RefcountIsExact == LinkedHasCb => (Spec => []RefcountExact)
<1> SUFFICES ASSUME LinkedHasCb PROVE Spec => []RefcountExact
  OBVIOUS
<1>1. Inv => RefcountExact
  BY DEF Inv, RefcountExact, BufInv
<1> QED
  BY <1>1, InvHolds, PTL

\* No frame someone refers to is with the driver.
THEOREM HeldFrameIsSafe == LinkedHasCb => (Spec => []HeldFrameNotInDriver)
<1> SUFFICES ASSUME LinkedHasCb PROVE Spec => []HeldFrameNotInDriver
  OBVIOUS
<1>1. TypeOK /\ Inv => HeldFrameNotInDriver
  <2> SUFFICES ASSUME TypeOK, Inv, Live, NEW b \in Buf, Refs(b) > 0
               PROVE  b \notin queued \cup filled
    BY DEF HeldFrameNotInDriver
  <2>1. Places(b) = 0
    BY Sums DEF Inv, BufInv, One
  <2> QED
    BY <2>1, Sums DEF Places, One
<1> QED
  BY <1>1, InvHolds, TypeCorrect, PTL

-----------------------------------------------------------------------------
(***************************************************************************)
(* Two more theorems about MmStream, on top of its inductive invariant     *)
(* Inv: no buffer is lost while nothing fails, and queued_buffer_count is  *)
(* exact.  For any buffers, clients, failures and consumers, provided that *)
(* a linked stream has a callback.                                         *)
(***************************************************************************)

-----------------------------------------------------------------------------
(* No buffer is lost. *)

\* A failed VIDIOC_QBUF is the only way to the stage that undoes one.
NoUndo(b) == Inside("undo", b) = 0

Somewhere(b) == Places(b) > 0 \/ refcnt[b] > 0

KeptInv ==
  Live /\ fails = 0 /\ (IsBundled \/ HasCb) =>
    \A b \in Buf : NoUndo(b) /\ (~SwitchedOff => Somewhere(b))

\* What a step does to buffer c.
Keeps(c) == NoUndo(c)' /\ (Somewhere(c) => Somewhere(c)')

LEMMA PollKeeps == ASSUME TypeOK, NEW c \in Buf, NoUndo(c), Poll PROVE Keeps(c)
<1>1. UNCHANGED <<refcnt, queued, filled, pollBuf, cmd, cmdBuf, calls>>
  BY DEF Poll, ProcPipe, PollWake, PollCall, buffers, threads, cmdThread
<1>2. poll \notin {"dequeued", "counted"} /\ poll' \notin {"dequeued", "counted"}
  BY DEF Poll, ProcPipe, PollWake, PollCall, threads
<1>3. Places(c)' = Places(c) /\ Inside("undo", c)' = Inside("undo", c)
  BY <1>1, <1>2 DEF Places, Queueing, Inside, One
<1> QED
  BY <1>1, <1>3 DEF Keeps, NoUndo, Somewhere

LEMMA NotifyDequeueKeeps ==
  ASSUME TypeOK, NEW c \in Buf, BufInv(c), NoUndo(c), NotifyDequeue PROVE Keeps(c)
<1>1. UNCHANGED <<refcnt, queued, cmd, cmdBuf, calls>> /\ poll = "notify"
  BY DEF NotifyDequeue, cmdThread
<1>2. \A s \in Stage : Inside(s, c)' = Inside(s, c)
  BY <1>1 DEF Inside
<1>3. NoUndo(c)'
  BY <1>2 DEF NoUndo, Stage
<1>4. CASE poll' = "wait" /\ UNCHANGED <<filled, pollBuf>>
  <2>1. Places(c)' = Places(c)
    BY <1>1, <1>2, <1>4 DEF Places, Queueing, Stage
  <2> QED
    BY <1>1, <1>3, <2>1 DEF Keeps, Somewhere
<1>5. CASE \E b \in filled : /\ filled' = filled \ {b}
                             /\ poll' = "dequeued" /\ pollBuf' = b
  <2>1. PICK b \in filled : filled' = filled \ {b} /\ poll' = "dequeued" /\ pollBuf' = b
    BY <1>5
  <2>2. /\ One(c \in filled)' + One(poll \in {"dequeued", "counted"} /\ pollBuf = c)'
           = One(c \in filled) + One(poll \in {"dequeued", "counted"} /\ pollBuf = c)
        /\ One(c \in queued)' = One(c \in queued)
    BY <1>1, <2>1 DEF One
  <2>3. Inside("count", c)' = Inside("count", c) /\ Queueing(c)' = Queueing(c)
    BY <1>2 DEF Queueing, Stage
  <2>4. Places(c)' = Places(c)
    BY <2>2, <2>3, Sums DEF Places, One
  <2> QED
    BY <1>1, <1>3, <2>4 DEF Keeps, Somewhere
<1> QED
  BY <1>4, <1>5 DEF NotifyDequeue

LEMMA NotifyCountKeeps ==
  ASSUME TypeOK, fails' = 0, NEW c \in Buf, NoUndo(c), NotifyCount PROVE Keeps(c)
<1>1. /\ UNCHANGED <<refcnt, queued, filled, pollBuf, cmd, cmdBuf, calls>>
      /\ poll = "dequeued" /\ poll' \in {"counted", "wait"}
  BY DEF NotifyCount, cmdThread
<1>2. poll' = "counted"
  <2>1. fails \in Nat
    BY DEF TypeOK
  <2> QED
    BY <2>1 DEF NotifyCount, Fail
<1>3. Places(c)' = Places(c) /\ Inside("undo", c)' = Inside("undo", c)
  BY <1>1, <1>2 DEF Places, Queueing, Inside
<1> QED
  BY <1>1, <1>3 DEF Keeps, NoUndo, Somewhere

LEMMA NotifyRefKeeps ==
  ASSUME TypeOK, IsBundled \/ HasCb, NEW c \in Buf, BufInv(c), NoUndo(c), NotifyRef
  PROVE  Keeps(c)
<1>1. UNCHANGED <<queued, filled, pollBuf, cmd, cmdBuf, calls>>
  BY DEF NotifyRef, cmdThread
<1>2. poll = "counted" /\ poll' = "bundle"
  BY DEF NotifyRef
<1>3. NoUndo(c)'
  BY <1>1 DEF NoUndo, Inside
<1>4. CASE c = pollBuf
  <2>1. refcnt'[c] = (refcnt[c] + One(IsBundled) + One(HasCb)) % 256
    BY <1>4 DEF NotifyRef, TypeOK
  <2>2. One(poll \in {"dequeued", "counted"} /\ pollBuf = c) = 1
    BY <1>2, <1>4 DEF One
  <2>3. Places(c) > 0
    BY <2>2, Sums DEF Places, One
  <2>4. refcnt[c] = 0
    BY <2>3, Sums DEF BufInv, One
  <2>5. One(IsBundled) \in 0..1 /\ One(HasCb) \in 0..1 /\ One(IsBundled) + One(HasCb) > 0
    BY DEF One
  <2>6. refcnt'[c] > 0
    BY <2>1, <2>4, <2>5
  <2> QED
    BY <1>3, <2>6 DEF Keeps, Somewhere
<1>5. CASE c # pollBuf
  <2>1. refcnt'[c] = refcnt[c]
    BY <1>5 DEF NotifyRef, TypeOK
  <2>2. Places(c)' = Places(c)
    BY <1>1, <1>5 DEF Places, Queueing, Inside, One
  <2> QED
    BY <1>3, <2>1, <2>2 DEF Keeps, Somewhere
<1> QED
  BY <1>4, <1>5

\* The rest of a frame's handling only adds references.
LEMMA HandOnKeeps ==
  ASSUME TypeOK, NEW c \in Buf, BufInv(c), NoUndo(c),
         NotifyBundle \/ NotifyLink \/ NotifyCmd
  PROVE  Keeps(c)
<1>1. /\ UNCHANGED <<queued, filled, pollBuf, cmd, cmdBuf, calls>>
      /\ poll \in {"bundle", "link", "cmd"} /\ poll' \in {"link", "cmd", "wait"}
  BY DEF NotifyBundle, NotifyLink, NotifyCmd, cmdThread, buffers
<1>2. Places(c)' = Places(c) /\ NoUndo(c)'
  BY <1>1 DEF Places, Queueing, Inside, NoUndo, One
<1>3. refcnt[c] \in 0..4
  BY Sums DEF BufInv
<1>4. refcnt'[c] = refcnt[c] \/ refcnt'[c] = (refcnt[c] + One(IsLinked)) % 256
  BY DEF NotifyBundle, NotifyLink, NotifyCmd, buffers, TypeOK
<1>5. One(IsLinked) \in 0..1
  BY DEF One
<1>6. refcnt'[c] >= refcnt[c]
  BY <1>3, <1>4, <1>5
<1>7. refcnt[c] > 0 => refcnt'[c] > 0
  BY <1>3, <1>4, <1>5
<1> QED
  BY <1>2, <1>7 DEF Keeps, Somewhere

LEMMA NotifyKeeps ==
  ASSUME TypeOK, fails' = 0, IsBundled \/ HasCb, NEW c \in Buf, BufInv(c), NoUndo(c), Notify
  PROVE  Keeps(c)
  BY NotifyDequeueKeeps, NotifyCountKeeps, NotifyRefKeeps, HandOnKeeps DEF Notify

LEMMA CmdKeeps ==
  ASSUME TypeOK, NEW c \in Buf, BufInv(c), NoUndo(c), CmdTake \/ CmdDispatch PROVE Keeps(c)
<1>1. /\ UNCHANGED <<queued, filled, poll, pollBuf, calls>>
      /\ cmd \in {"idle", "dispatch"} /\ cmd' \in {"dispatch", "check"}
  BY DEF CmdTake, CmdDispatch, buffers
<1>2. /\ Inside("count", c)' = Inside("count", c) /\ Inside("ioctl", c)' = Inside("ioctl", c)
      /\ Inside("undo", c)' = Inside("undo", c)
  BY <1>1 DEF Inside, One
<1>3. Places(c)' = Places(c) /\ NoUndo(c)'
  BY <1>1, <1>2 DEF Places, Queueing, NoUndo
<1>4. refcnt[c] \in 0..4
  BY Sums DEF BufInv
<1>5. refcnt'[c] = refcnt[c] \/ refcnt'[c] = (refcnt[c] + 1) % 256
  BY DEF CmdTake, CmdDispatch, buffers, Inc, TypeOK
<1>6. refcnt[c] > 0 => refcnt'[c] > 0
  BY <1>4, <1>5
<1> QED
  BY <1>3, <1>6 DEF Keeps, Somewhere

LEMMA QBufKeeps ==
  ASSUME TypeOK, NEW c \in Buf, NoUndo(c), NEW b \in Buf, QBuf(b) PROVE Keeps(c)
<1>1. UNCHANGED <<refcnt, queued, filled, poll, pollBuf, cmd, cmdBuf>>
  BY DEF QBuf, rest
<1>2. /\ calls'["count"] = calls["count"] /\ calls'["ioctl"] = calls["ioctl"]
      /\ calls'["undo"] = calls["undo"]
  BY DEF QBuf, TypeOK, Stage
<1> QED
  BY <1>1, <1>2 DEF Keeps, NoUndo, Somewhere, Places, Queueing, Inside

\* mm_stream_buf_done: the stage a caller leaves is followed by another, the
\* driver, or a reference that is left.
LEMMA DoneKeeps ==
  ASSUME TypeOK, fails' = 0, Live, NEW who \in {"app", "cmd"}, NEW b \in Buf, NEW c \in Buf,
         BufInv(b), BufInv(c), NoUndo(b), NoUndo(c), BufDone(who, b)
  PROVE  Keeps(c)
<1>0. fails \in Nat /\ {"check", "dec", "count", "ioctl", "undo", "mark"} = Stage
  BY DEF TypeOK, Stage
<1>1. CASE DoneCheck(who, b)
  <2> DEFINE to == IF refcnt[b] = 0 THEN "return" ELSE "dec"
  <2>1. /\ UNCHANGED <<poll, pollBuf, cmdBuf, queued, filled, refcnt>>
        /\ At(who, "check", b) /\ Go(who, b, "check", to)
    BY <1>1 DEF DoneCheck, rest, buffers
  <2>2. to \in Stage \cup {"return"} /\ to \in {"dec", "return"}
    BY DEF Stage
  <2> HIDE DEF to
  <2>3. CallerMoves(b, c, "check", to)
    BY <1>0, <2>1, <2>2, GoMoves
  <2>4. /\ Inside("count", c)' = Inside("count", c) /\ Inside("ioctl", c)' = Inside("ioctl", c)
        /\ Inside("undo", c)' = Inside("undo", c)
    BY <2>2, <2>3 DEF CallerMoves, Stage
  <2> QED
    BY <2>1, <2>4 DEF Keeps, NoUndo, Somewhere, Places, Queueing
<1>2. CASE DoneDec(who, b)
  <2> DEFINE to == IF Dec(refcnt[b]) = 0 THEN "count" ELSE "return"
  <2>1. /\ UNCHANGED <<poll, pollBuf, cmdBuf, queued, filled>>
        /\ At(who, "dec", b) /\ Go(who, b, "dec", to)
        /\ refcnt'[c] = IF b = c THEN Dec(refcnt[c]) ELSE refcnt[c]
    BY <1>2 DEF DoneDec, rest, TypeOK
  <2>2. to \in Stage \cup {"return"} /\ to \in {"count", "return"} /\ to # "dec"
    BY DEF Stage
  <2>3. b = c => refcnt'[c] > 0 \/ to = "count"
    <3>1. refcnt[c] \in 0..255
      BY Nums
    <3> QED
      BY <2>1, <3>1 DEF Dec
  <2> HIDE DEF to
  <2>4. CallerMoves(b, c, "dec", to)
    BY <1>0, <2>1, <2>2, GoMoves
  <2>5. /\ Inside("count", c)' = Inside("count", c) + One(b = c /\ to = "count")
        /\ Inside("ioctl", c)' = Inside("ioctl", c) /\ Inside("undo", c)' = Inside("undo", c)
    BY <2>2, <2>4, Sums DEF CallerMoves, Stage, One
  <2>6. Places(c)' = Places(c) + One(b = c /\ to = "count")
    BY <2>1, <2>5, Sums DEF Places, Queueing, One
  <2> QED
    BY <2>1, <2>3, <2>5, <2>6, Sums DEF Keeps, NoUndo, Somewhere, One
<1>3. CASE DoneCount(who, b)
  <2>1. /\ UNCHANGED <<poll, pollBuf, cmdBuf, queued, filled, refcnt>>
        /\ At(who, "count", b) /\ Go(who, b, "count", "ioctl")
    BY <1>0, <1>3 DEF DoneCount, Fail, rest
  <2>2. CallerMoves(b, c, "count", "ioctl")
    BY <1>0, <2>1, GoMoves
  <2>3. /\ Inside("count", c)' + Inside("ioctl", c)' = Inside("count", c) + Inside("ioctl", c)
        /\ Inside("count", c)' \in Nat /\ Inside("ioctl", c)' \in Nat
        /\ Inside("undo", c)' = Inside("undo", c)
    BY <2>2 DEF CallerMoves, Stage
  <2>4. Places(c)' = Places(c)
    BY <2>1, <2>2, <2>3 DEF Places, Queueing, CallerMoves, Stage, One
  <2> QED
    BY <2>1, <2>3, <2>4 DEF Keeps, NoUndo, Somewhere
<1>4. CASE DoneIoctl(who, b)
  <2>1. At(who, "ioctl", b) /\ UNCHANGED <<poll, pollBuf, cmdBuf, filled, refcnt>>
    BY <1>4 DEF DoneIoctl, rest
  <2>2. Inside("ioctl", b) > 0 /\ Inside("ioctl", b) \in Nat
    BY <1>0, <2>1, Nums DEF At, Inside, One
  <2>3. Places(b) <= 1
    BY Sums DEF BufInv, One
  <2>4. Queueing(b) > 0
    BY <1>0, <2>2 DEF Queueing, NoUndo
  <2>5. b \notin queued \cup filled
    BY <2>3, <2>4, Sums DEF Places, One
  <2>6. Go(who, b, "ioctl", "mark") /\ queued' = queued \cup {b}
    BY <1>0, <1>4, <2>5 DEF DoneIoctl, DriverTakes, Fail, Live
  <2>7. CallerMoves(b, c, "ioctl", "mark")
    BY <1>0, <2>1, <2>6, GoMoves
  <2>8. /\ Inside("ioctl", c)' = Inside("ioctl", c) - One(b = c)
        /\ Inside("undo", c)' = Inside("undo", c) /\ Inside("count", c)' = Inside("count", c)
    BY <2>7 DEF CallerMoves, Stage, One
  <2>9. One(c \in queued)' = One(c \in queued) + One(b = c)
    BY <2>5, <2>6 DEF One
  <2>10. Places(c)' = Places(c)
    BY <2>1, <2>7, <2>8, <2>9 DEF Places, Queueing, CallerMoves, Stage, One
  <2> QED
    BY <2>1, <2>8, <2>10 DEF Keeps, NoUndo, Somewhere
<1>5. CASE DoneUndo(who, b)
  <2>1. Inside("undo", b) > 0
    BY <1>0, <1>5, Nums DEF DoneUndo, At, Inside, One
  <2> QED
    BY <2>1 DEF NoUndo
<1>6. CASE DoneMark(who, b)
  <2>1. /\ UNCHANGED <<poll, pollBuf, cmdBuf, queued, filled, refcnt>>
        /\ At(who, "mark", b) /\ Go(who, b, "mark", "return")
    BY <1>6 DEF DoneMark, rest
  <2>2. CallerMoves(b, c, "mark", "return")
    BY <1>0, <2>1, GoMoves
  <2>3. /\ Inside("count", c)' = Inside("count", c) /\ Inside("ioctl", c)' = Inside("ioctl", c)
        /\ Inside("undo", c)' = Inside("undo", c)
    BY <2>2 DEF CallerMoves, Stage
  <2> QED
    BY <2>1, <2>3 DEF Keeps, NoUndo, Somewhere, Places, Queueing
<1> QED
  BY <1>1, <1>2, <1>3, <1>4, <1>5, <1>6 DEF BufDone

LEMMA DriverKeeps ==
  ASSUME TypeOK, NEW c \in Buf, BufInv(c), NoUndo(c), DriverFill PROVE Keeps(c)
<1>1. UNCHANGED <<refcnt, poll, pollBuf, cmd, cmdBuf, calls>>
  BY DEF DriverFill, threads, cmdThread
<1>2. PICK b \in queued : queued' = queued \ {b} /\ filled' = filled \cup {b}
  BY DEF DriverFill
<1>3. Places(c) <= 1
  BY Sums DEF BufInv, One
<1>4. ~(c \in queued /\ c \in filled)
  BY <1>3, Sums DEF Places, One
<1>5. One(c \in queued)' + One(c \in filled)' = One(c \in queued) + One(c \in filled)
  BY <1>2, <1>4 DEF One
<1>6. Places(c)' = Places(c) /\ NoUndo(c)'
  BY <1>1, <1>5 DEF Places, Queueing, Inside, NoUndo
<1> QED
  BY <1>1, <1>6 DEF Keeps, Somewhere

\* A step of the threads or the clients keeps what it has to keep.
LEMMA ThreadKeptInv ==
  ASSUME TypeOK, Inv, Inv', KeptInv, Poll \/ Notify \/ Cmd \/ App \/ DriverFill \/ \E b \in Buf : QBuf(b),
         ThreadStep
  PROVE  KeptInv'
<1> SUFFICES ASSUME Live', fails' = 0, IsBundled \/ HasCb, NEW c \in Buf
             PROVE  NoUndo(c)' /\ (~SwitchedOff' => Somewhere(c)')
  BY DEF KeptInv
<1>1. Live /\ \A b \in Buf : BufInv(b)
  BY ThreadKeepsControl DEF Inv
<1>2. fails = 0 /\ (~SwitchedOff' => ~SwitchedOff)
  <2>1. fails \in Nat
    BY DEF TypeOK
  <2>2. fails' \in {fails, fails + 1}
    BY DEF Poll, ProcPipe, PollWake, PollCall, Notify, NotifyDequeue, NotifyCount, NotifyRef,
           NotifyBundle, NotifyLink, NotifyCmd, Cmd, CmdTake, CmdDispatch, App, BufDone, DoneCheck,
           DoneDec, DoneCount, DoneIoctl, DoneUndo, DoneMark, DriverFill, QBuf, Fail
  <2>3. ~SwitchedOff' => ~SwitchedOff
    BY DEF Poll, ProcPipe, PollWake, PollCall, Notify, NotifyDequeue, NotifyCount, NotifyRef,
           NotifyBundle, NotifyLink, NotifyCmd, Cmd, CmdTake, CmdDispatch, App, BufDone, DoneCheck,
           DoneDec, DoneCount, DoneIoctl, DoneUndo, DoneMark, DriverFill, QBuf, rest, SwitchedOff
  <2> QED
    BY <2>1, <2>2, <2>3
<1>3. \A b \in Buf : NoUndo(b) /\ (~SwitchedOff => Somewhere(b))
  BY <1>1, <1>2 DEF KeptInv
<1>4. Keeps(c)
  BY <1>1, <1>3, PollKeeps, NotifyKeeps, CmdKeeps, DoneKeeps, QBufKeeps, DriverKeeps DEF Cmd, App
<1> QED
  BY <1>2, <1>3, <1>4 DEF Keeps

\* The control thread: REG_BUF puts every buffer somewhere, STREAMOFF is the
\* only one that takes them away.
LEMMA ControlKeptInv ==
  ASSUME TypeOK, Inv, Inv', KeptInv, Control \/ SetUp \/ Start \/ Stop
  PROVE  KeptInv'
<1> SUFFICES ASSUME Live', fails' = 0, IsBundled \/ HasCb, NEW c \in Buf
             PROVE  NoUndo(c)' /\ (~SwitchedOff' => Somewhere(c)')
  BY DEF KeptInv
<1>0. fails \in Nat
  BY DEF TypeOK
<1>1. CASE RegBuf
  <2>1. /\ refcnt'[c] = One(c \notin InitialReg) /\ queued' = InitialReg
        /\ Quiet /\ UNCHANGED <<calls, cmd, cmdBuf, poll>>
    BY <1>1 DEF RegBuf, Live, threads, cmdThread
  <2>2. \A s \in Stage : calls'[s][c] = 0 /\ cmd' # s
    BY <2>1, NoCalls DEF Quiet, Stage
  <2>3. /\ Inside("undo", c)' = 0 /\ Inside("count", c)' = 0 /\ Inside("ioctl", c)' = 0
    BY <2>2 DEF Inside, One, Stage
  <2>4. c \in InitialReg => Places(c)' > 0
    BY <2>1, <2>3 DEF Places, Queueing, Quiet, One
  <2> QED
    BY <2>1, <2>3, <2>4 DEF NoUndo, Somewhere, One
<1>2. CASE Start \/ Activate \/ StreamOn \/ SyncDel \/ Stop \/ LockCmd
  <2>1. UNCHANGED <<refcnt, queued, filled, poll, pollBuf, cmd, cmdBuf, calls, late>>
    BY <1>2 DEF Start, Activate, StreamOn, SyncDel, Stop, LockCmd, buffers, threads, cmdThread
  <2>2. /\ ctl # "stopped" /\ (~SwitchedOff' => ~SwitchedOff) /\ fails = 0
        /\ state' \in {state, "ACTIVE"} /\ (ctl = "idle" => state \in {"REG", "ACTIVE"})
    BY <1>0, <1>2 DEF Start, Activate, StreamOn, SyncDel, Stop, LockCmd, Fail, SwitchedOff
  <2>3. Live
    BY <2>1, <2>2 DEF Live, Inv, ControlInv
  <2>4. Places(c)' = Places(c) /\ Inside("undo", c)' = Inside("undo", c)
    BY <2>1 DEF Places, Queueing, Inside
  <2> QED
    BY <2>1, <2>2, <2>3, <2>4 DEF KeptInv, NoUndo, Somewhere
<1>3. CASE StreamOff
  <2>1. /\ UNCHANGED <<state, late, fails, cmd, cmdBuf, calls>> /\ ctl = "off" /\ ctl' = "join"
    BY <1>3 DEF StreamOff, threads, cmdThread
  <2>2. NoUndo(c)
    BY <2>1 DEF KeptInv, Live
  <2> QED
    BY <2>1, <2>2 DEF NoUndo, Inside, SwitchedOff
<1>4. CASE Join \/ UnregBuf
  BY <1>4 DEF Join, UnregBuf, Live
<1>5. CASE SetUp /\ ~RegBuf
  BY <1>5 DEF SetUp, Acquire, SetFmt, GetBuf, PutBuf, Release, AddStream, RegBufFails, Event, Live
<1> QED
  BY <1>1, <1>2, <1>3, <1>4, <1>5 DEF Control

LEMMA KeptStep == LinkedHasCb /\ TypeOK /\ Inv /\ KeptInv /\ [Next]_vars => KeptInv'
<1> SUFFICES ASSUME LinkedHasCb, TypeOK, Inv, KeptInv, [Next]_vars PROVE KeptInv'
  OBVIOUS
<1>1. Inv'
  BY InvStep
<1>2. CASE Poll \/ Notify \/ Cmd \/ App \/ DriverFill \/ \E b \in Buf : QBuf(b)
  BY <1>1, <1>2, ThreadKeptInv, PollSteps, NotifySteps, CmdSteps, AppSteps, DriverSteps
<1>3. CASE Control \/ SetUp \/ Start \/ Stop
  BY <1>1, <1>3, ControlKeptInv
<1>4. CASE UNCHANGED vars
  BY <1>4 DEF vars, KeptInv, Live, SwitchedOff, NoUndo, Somewhere, Places, Queueing, Inside
<1> QED
  BY <1>2, <1>3, <1>4 DEF Next

\* A registered buffer is with the driver, on its way to or from it, or
\* referred to, as long as nothing fails (mm_stream_buf_done and
\* mm_stream_data_notify hand it on under separate holds of buf_lock).
THEOREM NoBufferIsLost == LinkedHasCb => (Spec => []NoBufferLost)
<1> SUFFICES ASSUME LinkedHasCb PROVE Spec => []NoBufferLost
  OBVIOUS
<1>1. Init => KeptInv
  BY DEF Init, KeptInv, Live
<1>2. TypeOK /\ Inv /\ KeptInv /\ [Next]_vars => KeptInv'
  BY KeptStep
<1>3. TypeOK /\ Inv /\ KeptInv => NoBufferLost
  <2> SUFFICES ASSUME TypeOK, Inv, KeptInv, Live, ~SwitchedOff, fails = 0, IsBundled \/ HasCb,
                      NEW b \in Buf
               PROVE  \/ b \in queued \cup filled
                      \/ refcnt[b] > 0
                      \/ pollBuf = b /\ poll \in {"dequeued", "counted"}
                      \/ Inside("count", b) + Queueing(b) > 0
    BY DEF NoBufferLost
  <2>1. Somewhere(b)
    BY DEF KeptInv
  <2> QED
    BY <2>1, Sums DEF Somewhere, Places, One
<1> QED
  BY <1>1, <1>2, <1>3, InvHolds, TypeCorrect, PTL DEF Spec

-----------------------------------------------------------------------------
(* The count is exact. *)

\* The buffers on their way to the driver.
Going == {b \in Buf : Queueing(b) > 0}

Counted == count = Cardinality(queued \cup filled) + Cardinality(Going) + One(poll = "dequeued")

LEMMA CountExactIs == CountExact <=> (Live /\ ~SwitchedOff => Counted)
  BY DEF CountExact, Counted, Going

LEMMA Finite ==
  ASSUME TypeOK
  PROVE  /\ IsFiniteSet(queued \cup filled) /\ Cardinality(queued \cup filled) \in Nat
         /\ IsFiniteSet(Going) /\ Cardinality(Going) \in Nat
<1>1. IsFiniteSet(Buf) /\ queued \cup filled \in SUBSET Buf /\ Going \in SUBSET Buf
  BY MmStreamAssumption DEF TypeOK, Going
<1> QED
  BY <1>1, FS_Subset, FS_CardinalityType

\* A step that changes none of the four terms.
LEMMA CountFrame ==
  ASSUME Counted, UNCHANGED count, (queued \cup filled)' = queued \cup filled, Going' = Going,
         One(poll = "dequeued")' = One(poll = "dequeued")
  PROVE  Counted'
  BY DEF Counted

LEMMA GoingSame == ASSUME UNCHANGED <<cmd, cmdBuf, calls>> PROVE Going' = Going
  BY DEF Going, Queueing, Inside

\* A buffer is in one place only.
LEMMA OnePlace ==
  ASSUME TypeOK, NEW b \in Buf, BufInv(b)
  PROVE  /\ Queueing(b) \in 0..1
         /\ Inside("count", b) > 0 => Queueing(b) = 0
         /\ Queueing(b) > 0 => b \notin queued \cup filled
         /\ ~(b \in queued /\ b \in filled)
<1>1. Places(b) <= 1
  BY Sums DEF BufInv, One
<1> QED
  BY <1>1, Sums DEF Places, One

LEMMA PollCounted == ASSUME TypeOK, Counted, Poll PROVE Counted'
<1>1. /\ UNCHANGED <<count, queued, filled, cmd, cmdBuf, calls>>
      /\ poll # "dequeued" /\ poll' # "dequeued"
  BY DEF Poll, ProcPipe, PollWake, PollCall, buffers, threads, cmdThread
<1> QED
  BY <1>1, GoingSame, CountFrame DEF One

LEMMA NotifyCounted ==
  ASSUME TypeOK, Counted, \A b \in Buf : BufInv(b), Notify PROVE Counted'
<1>0. Going' = Going
  BY GoingSame
     DEF Notify, NotifyDequeue, NotifyCount, NotifyRef, NotifyBundle, NotifyLink, NotifyCmd,
         cmdThread
<1>1. CASE NotifyDequeue /\ UNCHANGED filled
  BY <1>0, <1>1, CountFrame DEF NotifyDequeue, One
<1>2. CASE NotifyDequeue /\ filled' # filled
  <2>1. PICK b \in filled : filled' = filled \ {b} /\ poll' = "dequeued"
    BY <1>2 DEF NotifyDequeue
  <2>2. poll = "notify" /\ UNCHANGED <<queued, count>>
    BY <1>2 DEF NotifyDequeue
  <2>3. b \in Buf /\ b \notin queued
    BY OnePlace DEF TypeOK
  <2>4. (queued \cup filled)' = (queued \cup filled) \ {b} /\ b \in queued \cup filled
    BY <2>1, <2>2, <2>3
  <2>5. Cardinality(queued \cup filled)' = Cardinality(queued \cup filled) - 1
    BY <2>4, Finite, FS_RemoveElement
  <2> QED
    BY <1>0, <2>1, <2>2, <2>5, Finite DEF Counted, One
<1>3. CASE NotifyCount
  <2>1. count' = count - 1 /\ poll = "dequeued" /\ poll' # "dequeued" /\ UNCHANGED <<queued, filled>>
    BY <1>3 DEF NotifyCount
  <2> QED
    BY <1>0, <2>1, Finite DEF Counted, One
<1>4. CASE NotifyRef \/ NotifyBundle \/ NotifyLink \/ NotifyCmd
  <2>1. UNCHANGED <<count, queued, filled>> /\ poll # "dequeued" /\ poll' # "dequeued"
    BY <1>4 DEF NotifyRef, NotifyBundle, NotifyLink, NotifyCmd, buffers
  <2> QED
    BY <1>0, <2>1, CountFrame DEF One
<1> QED
  BY <1>1, <1>2, <1>3, <1>4 DEF Notify

LEMMA CmdCounted == ASSUME TypeOK, Counted, CmdTake \/ CmdDispatch PROVE Counted'
<1>1. /\ UNCHANGED <<count, queued, filled, poll, calls>>
      /\ cmd \in {"idle", "dispatch"} /\ cmd' \in {"dispatch", "check"}
  BY DEF CmdTake, CmdDispatch, buffers
<1>2. Going' = Going
  BY <1>1 DEF Going, Queueing, Inside, One
<1> QED
  BY <1>1, <1>2, CountFrame

LEMMA QBufCounted == ASSUME TypeOK, Counted, NEW b \in Buf, QBuf(b) PROVE Counted'
<1>1. /\ UNCHANGED <<count, queued, filled, poll, cmd, cmdBuf>>
      /\ calls'["ioctl"] = calls["ioctl"] /\ calls'["undo"] = calls["undo"]
  BY DEF QBuf, rest, TypeOK, Stage
<1>2. Going' = Going
  BY <1>1 DEF Going, Queueing, Inside
<1> QED
  BY <1>1, <1>2, CountFrame

\* The callers that enter the driver's way are counted, those that leave it
\* have been handed over or are taken off.
LEMMA DoneCounted ==
  ASSUME TypeOK, Counted, \A c \in Buf : BufInv(c),
         NEW who \in {"app", "cmd"}, NEW b \in Buf, BufDone(who, b)
  PROVE  Counted'
<1>0. {"check", "dec", "count", "ioctl", "undo", "mark"} = Stage
  BY DEF Stage
<1>1. ASSUME NEW from \in Stage, NEW to \in Stage \cup {"return"}, from # to,
             At(who, from, b), Go(who, b, from, to), cmdBuf' = cmdBuf
      PROVE  /\ from \notin {"ioctl", "undo"} /\ to \notin {"ioctl", "undo"} => Going' = Going
             /\ from = "ioctl" /\ to = "undo" => Going' = Going
             /\ from = "count" /\ to = "ioctl" => Going' = Going \cup {b} /\ b \notin Going
             /\ from \in {"ioctl", "undo"} /\ to \in {"mark", "return"} =>
                  Going' = Going \ {b} /\ b \in Going /\ b \notin queued \cup filled
  <2>1. \A c \in Buf : CallerMoves(b, c, from, to)
    BY <1>1, GoMoves
  <2>2. \A c \in Buf : c # b => Queueing(c)' = Queueing(c)
    BY <1>0, <2>1 DEF CallerMoves, Queueing
  <2>3. /\ Inside("ioctl", b)' = IF from = "ioctl" THEN Inside("ioctl", b) - 1
                                  ELSE IF to = "ioctl" THEN Inside("ioctl", b) + 1
                                  ELSE Inside("ioctl", b)
        /\ Inside("undo", b)' = IF from = "undo" THEN Inside("undo", b) - 1
                                 ELSE IF to = "undo" THEN Inside("undo", b) + 1
                                 ELSE Inside("undo", b)
        /\ Inside("ioctl", b) \in Nat /\ Inside("undo", b) \in Nat /\ Inside(from, b) > 0
    BY <1>0, <2>1 DEF CallerMoves
  <2>4. /\ from \notin {"ioctl", "undo"} /\ to \notin {"ioctl", "undo"} =>
             Queueing(b)' = Queueing(b)
        /\ from = "ioctl" /\ to = "undo" => Queueing(b)' = Queueing(b)
        /\ from = "count" /\ to = "ioctl" => Queueing(b)' = Queueing(b) + 1
        /\ from \in {"ioctl", "undo"} /\ to \in {"mark", "return"} =>
             Queueing(b)' = Queueing(b) - 1 /\ Queueing(b) > 0
    BY <2>3 DEF Queueing
  <2>5. /\ Queueing(b) \in 0..1 /\ (Inside("count", b) > 0 => Queueing(b) = 0)
        /\ (Queueing(b) > 0 => b \notin queued \cup filled)
    BY OnePlace
  <2> DEFINE n(c) == Queueing(c)
  <2>6. Going = {c \in Buf : n(c) > 0} /\ Going' = {c \in Buf : n(c)' > 0}
    BY DEF Going
  <2>7. /\ \A c \in Buf : c # b => n(c)' = n(c)
        /\ from \notin {"ioctl", "undo"} /\ to \notin {"ioctl", "undo"} => n(b)' = n(b)
        /\ from = "ioctl" /\ to = "undo" => n(b)' = n(b)
        /\ from = "count" /\ to = "ioctl" => n(b)' > 0 /\ ~(n(b) > 0)
        /\ from \in {"ioctl", "undo"} /\ to \in {"mark", "return"} =>
             ~(n(b)' > 0) /\ n(b) > 0 /\ b \notin queued \cup filled
    BY <2>2, <2>3, <2>4, <2>5
  <2> HIDE DEF n
  <2> QED
    BY <2>6, <2>7
<1>2. CASE DoneCheck(who, b) \/ DoneDec(who, b) \/ DoneMark(who, b)
  <2>1. UNCHANGED <<count, queued, filled, poll>>
    BY <1>2 DEF DoneCheck, DoneDec, DoneMark, rest, buffers
  <2>2. \E from \in {"check", "dec", "mark"}, to \in {"dec", "count", "return"} :
          from # to /\ At(who, from, b) /\ Go(who, b, from, to) /\ cmdBuf' = cmdBuf
    BY <1>2 DEF DoneCheck, DoneDec, DoneMark, rest
  <2>3. Going' = Going
    BY <1>0, <1>1, <2>2
  <2> QED
    BY <2>1, <2>3, CountFrame
<1>3. CASE DoneCount(who, b)
  <2>1. UNCHANGED <<queued, filled, poll, cmdBuf>> /\ At(who, "count", b)
    BY <1>3 DEF DoneCount, rest
  <2>2. CASE count' = count + 1 /\ Go(who, b, "count", "ioctl")
    <3>1. Going' = Going \cup {b} /\ b \notin Going
      BY <1>0, <1>1, <2>1, <2>2
    <3>2. Cardinality(Going)' = Cardinality(Going) + 1
      BY <3>1, Finite, FS_AddElement
    <3> QED
      BY <2>1, <2>2, <3>2, Finite DEF Counted, One
  <2>3. CASE count' = count /\ Go(who, b, "count", "return")
    <3>1. Going' = Going
      BY <1>0, <1>1, <2>1, <2>3
    <3> QED
      BY <2>1, <2>3, <3>1, CountFrame
  <2> QED
    BY <1>3, <2>2, <2>3 DEF DoneCount
<1>4. CASE DoneIoctl(who, b)
  <2>1. UNCHANGED <<count, filled, poll, cmdBuf>> /\ At(who, "ioctl", b)
    BY <1>4 DEF DoneIoctl, rest
  <2>2. CASE queued' = queued /\ Go(who, b, "ioctl", "undo")
    <3>1. Going' = Going
      BY <1>0, <1>1, <2>1, <2>2
    <3> QED
      BY <2>1, <2>2, <3>1, CountFrame
  <2>3. CASE queued' = queued \cup {b} /\ Go(who, b, "ioctl", "mark")
    <3>1. Going' = Going \ {b} /\ b \in Going /\ b \notin queued \cup filled
      BY <1>0, <1>1, <2>1, <2>3
    <3>2. Cardinality(Going)' = Cardinality(Going) - 1
      BY <3>1, Finite, FS_RemoveElement
    <3>3. (queued \cup filled)' = (queued \cup filled) \cup {b}
      BY <2>1, <2>3
    <3>4. Cardinality(queued \cup filled)' = Cardinality(queued \cup filled) + 1
      BY <3>1, <3>3, Finite, FS_AddElement
    <3> QED
      BY <2>1, <3>2, <3>4, Finite DEF Counted, One
  <2> QED
    BY <1>4, <2>2, <2>3 DEF DoneIoctl
<1>5. CASE DoneUndo(who, b)
  <2>1. /\ UNCHANGED <<queued, filled, poll, cmdBuf>> /\ count' = count - 1
        /\ At(who, "undo", b) /\ Go(who, b, "undo", "return")
    BY <1>5 DEF DoneUndo, rest
  <2>2. Going' = Going \ {b} /\ b \in Going
    BY <1>0, <1>1, <2>1
  <2>3. Cardinality(Going)' = Cardinality(Going) - 1
    BY <2>2, Finite, FS_RemoveElement
  <2> QED
    BY <2>1, <2>3, Finite DEF Counted, One
<1> QED
  BY <1>2, <1>3, <1>4, <1>5 DEF BufDone

LEMMA DriverCounted == ASSUME TypeOK, Counted, DriverFill PROVE Counted'
<1>1. UNCHANGED <<count, poll, cmd, cmdBuf, calls>>
  BY DEF DriverFill, threads, cmdThread
<1>2. (queued \cup filled)' = queued \cup filled
  BY DEF DriverFill
<1> QED
  BY <1>1, <1>2, GoingSame, CountFrame

\* REG_BUF counts what it queues; UNREG_BUF and STREAMOFF end the session.
LEMMA ControlCounted ==
  ASSUME TypeOK, Inv, CountExact, Control \/ SetUp \/ Start \/ Stop, Live', ~SwitchedOff'
  PROVE  Counted'
<1>1. CASE RegBuf
  <2>1. /\ count' = Cardinality(InitialReg) /\ queued' = InitialReg /\ filled' = {}
        /\ Quiet /\ UNCHANGED <<calls, cmd, cmdBuf, poll>>
    BY <1>1 DEF RegBuf, Live, threads, cmdThread
  <2>2. \A c \in Buf : \A s \in Stage : calls'[s][c] = 0 /\ cmd' # s
    BY <2>1, NoCalls DEF Quiet, Stage
  <2>3. \A c \in Buf : Queueing(c)' = 0
    BY <2>2 DEF Queueing, Inside, One, Stage
  <2>4. Going' = {}
    BY <2>3 DEF Going
  <2>5. Cardinality(Going)' = 0
    BY <2>4, FS_EmptySet
  <2>6. Cardinality(queued \cup filled)' = Cardinality(InitialReg)
    <3>1. (queued \cup filled)' = InitialReg
      BY <2>1
    <3> QED
      BY <3>1
  <2>7. Cardinality(InitialReg) \in Nat
    <3>1. IsFiniteSet(Buf) /\ InitialReg \in SUBSET Buf
      BY MmStreamAssumption
    <3> QED
      BY <3>1, FS_Subset, FS_CardinalityType
  <2>8. One(poll = "dequeued")' = 0
    BY <2>1 DEF Quiet, One
  <2> QED
    BY <2>1, <2>5, <2>6, <2>7, <2>8 DEF Counted
<1>2. CASE Start \/ Activate \/ StreamOn \/ SyncDel \/ Stop \/ LockCmd
  <2>1. UNCHANGED <<count, queued, filled, poll, cmd, cmdBuf, calls, late>>
    BY <1>2 DEF Start, Activate, StreamOn, SyncDel, Stop, LockCmd, buffers, threads, cmdThread
  <2>2. /\ ctl # "stopped" /\ (~SwitchedOff' => ~SwitchedOff)
        /\ state' \in {state, "ACTIVE"} /\ (ctl = "idle" => state \in {"REG", "ACTIVE"})
    BY <1>2 DEF Start, Activate, StreamOn, SyncDel, Stop, LockCmd, SwitchedOff
  <2>3. Counted
    BY <2>1, <2>2, CountExactIs DEF Live, Inv, ControlInv
  <2> QED
    BY <2>1, <2>3, GoingSame, CountFrame
<1>3. CASE StreamOff \/ Join \/ UnregBuf
  BY <1>3 DEF StreamOff, Join, UnregBuf, Live, SwitchedOff
<1>4. CASE SetUp /\ ~RegBuf
  BY <1>4 DEF SetUp, Acquire, SetFmt, GetBuf, PutBuf, Release, AddStream, RegBufFails, Event, Live
<1> QED
  BY <1>1, <1>2, <1>3, <1>4 DEF Control

LEMMA CountStep == TypeOK /\ Inv /\ CountExact /\ [Next]_vars => CountExact'
<1> SUFFICES ASSUME TypeOK, Inv, CountExact, [Next]_vars, Live', ~SwitchedOff' PROVE Counted'
  BY DEF CountExact, Counted, Going
<1>1. CASE Control \/ SetUp \/ Start \/ Stop
  BY <1>1, ControlCounted
<1>2. CASE Poll \/ Notify \/ Cmd \/ App \/ DriverFill \/ \E b \in Buf : QBuf(b)
  <2>1. Live
    BY <1>2, ThreadKeepsControl, PollSteps, NotifySteps, CmdSteps, AppSteps, DriverSteps DEF Inv
  <2>2. ~SwitchedOff
    BY <1>2
       DEF Poll, ProcPipe, PollWake, PollCall, Notify, NotifyDequeue, NotifyCount, NotifyRef,
           NotifyBundle, NotifyLink, NotifyCmd, Cmd, CmdTake, CmdDispatch, App, BufDone, DoneCheck,
           DoneDec, DoneCount, DoneIoctl, DoneUndo, DoneMark, DriverFill, QBuf, rest, SwitchedOff
  <2>3. Counted /\ \A b \in Buf : BufInv(b)
    BY <2>1, <2>2, CountExactIs DEF Inv
  <2> QED
    BY <1>2, <2>3, PollCounted, NotifyCounted, CmdCounted, DoneCounted, QBufCounted, DriverCounted
       DEF Cmd, App
<1>3. CASE UNCHANGED vars
  <2>1. Live /\ ~SwitchedOff
    BY <1>3 DEF vars, Live, SwitchedOff
  <2>2. UNCHANGED <<count, queued, filled, poll, cmd, cmdBuf, calls>>
    BY <1>3 DEF vars
  <2> QED
    BY <2>1, <2>2, CountExactIs, GoingSame, CountFrame
<1> QED
  BY <1>1, <1>2, <1>3 DEF Next

\* queued_buffer_count, on which the polling of the stream depends, counts the
\* buffers the driver has and those between the count and the driver
\* (mm_stream_qbuf, mm_stream_read_msm_frame), whatever fails.
THEOREM CountIsExact == LinkedHasCb => (Spec => []CountExact)
<1> SUFFICES ASSUME LinkedHasCb PROVE Spec => []CountExact
  OBVIOUS
<1>1. Init => CountExact
  BY DEF Init, CountExact, Live
<1> QED
  BY <1>1, CountStep, InvHolds, TypeCorrect, PTL DEF Spec

-----------------------------------------------------------------------------
(* The wait for the mapping of the buffers (MmStreamMap). *)

\* A signal is given only to a waiting streamon, and when it comes no buffer
\* is missing, or the mapping of one has failed; either stays so.
SignalInv == signalled => on = "wait" /\ ~need_wait_for_mapping(map)

MappingInv == MappingTypeOK /\ SignalInv /\ OnWhenMapped /\ NoLostWakeup /\ AbortHasReason

\* What the three safety properties say of the mapping.
LEMMA NotNeeded ==
  ASSUME MappingTypeOK, ~need_wait_for_mapping(map), ~SomeFailed, NEW b \in InKernel
  PROVE  map[b] = 1
<1>1. b \in 1..N
  BY MmStreamMapAssumption
<1>2. map[b] \in {-1, 0, 1}
  BY <1>1 DEF MappingTypeOK
<1> QED
  BY <1>1, <1>2 DEF need_wait_for_mapping, SomeFailed, Failed, Missing

\* A mapping call keeps the invariant.
LEMMA MapInv ==
  ASSUME MappingInv, NEW S \in SUBSET (1..N), NEW status \in {1, -1}, Map(S, status)
  PROVE  MappingInv'
<1> USE DEF MappingInv
<1>1. /\ \A b \in S : map[b] = 0
      /\ map' = [b \in 1..N |-> IF b \in S THEN status ELSE map[b]]
      /\ signalled' = (signalled \/ (on = "wait" /\ ~need_wait_for_mapping(map')))
      /\ on' = on /\ timedOut' = timedOut
  BY DEF Map
<1>2. MappingTypeOK'
  BY <1>1 DEF MappingTypeOK
<1>3. \A b \in 1..N : map[b] # 0 => map'[b] = map[b]
  BY <1>1
<1>4. SomeFailed => SomeFailed'
  <2>1. \A b \in 1..N : map[b] < 0 => map[b] # 0
    BY DEF MappingTypeOK
  <2> QED
    BY <1>3, <2>1 DEF SomeFailed, Failed
<1>5. ~need_wait_for_mapping(map) => ~need_wait_for_mapping(map')
  <2>1. ASSUME \A b \in 1..N : ~Missing(map, b) PROVE \A b \in 1..N : ~Missing(map', b)
    BY <2>1, <1>3 DEF Missing
  <2>2. ASSUME SomeFailed PROVE ~need_wait_for_mapping(map')
    BY <2>2, <1>4 DEF SomeFailed, need_wait_for_mapping
  <2> QED
    BY <2>1, <2>2 DEF need_wait_for_mapping, SomeFailed
<1>6. SignalInv'
  BY <1>1, <1>5 DEF SignalInv
<1>7. OnWhenMapped'
  <2> SUFFICES ASSUME on = "streamon", ~SomeFailed, NEW b \in InKernel PROVE map'[b] = 1
    BY <1>1, <1>4 DEF OnWhenMapped
  <2>1. map[b] = 1 /\ b \in 1..N
    BY MmStreamMapAssumption DEF OnWhenMapped
  <2> QED
    BY <1>3, <2>1
<1>8. NoLostWakeup'
  BY <1>1 DEF NoLostWakeup, MappingTypeOK
<1>9. AbortHasReason'
  BY <1>1, <1>4 DEF AbortHasReason
<1> QED
  BY <1>2, <1>6, <1>7, <1>8, <1>9

\* So do the steps of streamon: the first buffer the loop stops at decides.
LEMMA StreamOnInv == ASSUME MappingInv, TryStreamOn PROVE MappingInv'
<1> USE DEF MappingInv
<1>1. on = "idle" /\ map' = map /\ signalled' = signalled /\ timedOut' = timedOut
  BY DEF TryStreamOn
<1>2. ~signalled /\ (SomeFailed' <=> SomeFailed)
  BY <1>1 DEF SignalInv, SomeFailed
<1>3. CASE on' = "streamon" /\ \A b \in 1..N : ~StopsAt(b)
  <2>1. \A b \in InKernel : ~SomeFailed => map[b] = 1
    BY <1>3, NotNeeded DEF StopsAt, need_wait_for_mapping
  <2> QED
    BY <1>1, <1>2, <1>3, <2>1
       DEF MappingTypeOK, SignalInv, OnWhenMapped, NoLostWakeup, AbortHasReason
<1>4. CASE \E b \in 1..N : /\ StopsAt(b) /\ \A c \in 1..(b - 1) : ~StopsAt(c)
                           /\ on' = IF Missing(map, b) THEN "wait" ELSE "abort"
  <2>1. PICK b \in 1..N : StopsAt(b) /\ on' = IF Missing(map, b) THEN "wait" ELSE "abort"
    BY <1>4
  <2>2. CASE Missing(map, b)
    <3>1. ~SomeFailed => need_wait_for_mapping(map)
      BY <2>2 DEF need_wait_for_mapping, SomeFailed
    <3> QED
      BY <1>1, <1>2, <2>1, <2>2, <3>1
         DEF MappingTypeOK, SignalInv, OnWhenMapped, NoLostWakeup, AbortHasReason
  <2>3. CASE Failed(map, b) /\ ~Missing(map, b)
    <3>1. SomeFailed
      BY <2>3 DEF SomeFailed
    <3> QED
      BY <1>1, <1>2, <2>1, <2>3, <3>1
         DEF MappingTypeOK, SignalInv, OnWhenMapped, NoLostWakeup, AbortHasReason
  <2> QED
    BY <2>1, <2>2, <2>3 DEF StopsAt
<1> QED
  BY <1>3, <1>4 DEF TryStreamOn

LEMMA WakeInv == ASSUME MappingInv, Wake PROVE MappingInv'
<1> USE DEF MappingInv
<1>1. /\ on' = "streamon" /\ ~signalled' /\ map' = map /\ timedOut' = timedOut
      /\ signalled /\ (SomeFailed' <=> SomeFailed)
  BY DEF Wake, SomeFailed
<1>2. \A b \in InKernel : ~SomeFailed => map[b] = 1
  BY <1>1, NotNeeded DEF SignalInv
<1>3. MappingTypeOK'
  BY <1>1 DEF MappingTypeOK, Wake
<1>4. OnWhenMapped'
  BY <1>1, <1>2 DEF OnWhenMapped
<1> QED
  BY <1>1, <1>3, <1>4 DEF SignalInv, NoLostWakeup, AbortHasReason

LEMMA MappingInvStep == MappingInv /\ [MappingNext]_mappingVars => MappingInv'
<1> SUFFICES ASSUME MappingInv, [MappingNext]_mappingVars PROVE MappingInv'
  OBVIOUS
<1>1. CASE MapBuf \/ MapBufs
  BY <1>1, MapInv DEF MapBuf, MapBufs
<1>2. CASE TryStreamOn
  BY <1>2, StreamOnInv
<1>3. CASE Wake
  BY <1>3, WakeInv
<1>4. CASE Timeout
  BY <1>4 DEF Timeout, MappingInv, MappingTypeOK, SignalInv, OnWhenMapped, NoLostWakeup, AbortHasReason
<1>5. CASE UnmapBuf
  <2>1. on' = "idle" /\ map' = [b \in 1..N |-> 0] /\ ~signalled' /\ timedOut' = FALSE
    BY <1>5 DEF UnmapBuf, MappingInv, SignalInv, MappingTypeOK
  <2>2. MappingTypeOK'
    BY <1>5, <2>1 DEF UnmapBuf, MappingInv, MappingTypeOK
  <2> QED
    BY <2>1, <2>2 DEF MappingInv, SignalInv, OnWhenMapped, NoLostWakeup, AbortHasReason
<1>6. CASE UNCHANGED mappingVars
  BY <1>6 DEF mappingVars, MappingInv, MappingTypeOK, SignalInv, OnWhenMapped, NoLostWakeup, AbortHasReason, SomeFailed
<1> QED
  BY <1>1, <1>2, <1>3, <1>4, <1>5, <1>6 DEF MappingNext

\* The inductive invariant.
THEOREM MappingInvHolds == MappingSpec => []MappingInv
<1>1. MappingInit => MappingInv
  BY DEF MappingInit, MappingInv, MappingTypeOK, SignalInv, OnWhenMapped, NoLostWakeup, AbortHasReason
<1> QED
  BY <1>1, MappingInvStep, PTL DEF MappingSpec

\* Unless a mapping fails, VIDIOC_STREAMON follows the mapping of every queued
\* buffer, although mm_stream_streamon waits at most once.
THEOREM StreamOnIsSafe == MappingSpec => []OnWhenMapped
  BY MappingInvHolds, PTL DEF MappingInv

\* No wakeup is lost between the look at the buffers and the wait.
THEOREM NoWakeupLost == MappingSpec => []NoLostWakeup
  BY MappingInvHolds, PTL DEF MappingInv

\* A stream aborts for a reason.
THEOREM AbortsForAReason == MappingSpec => []AbortHasReason
  BY MappingInvHolds, PTL DEF MappingInv

=============================================================================
