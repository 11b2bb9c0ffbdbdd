----------------------------- MODULE MmStreamMap -----------------------------
(***************************************************************************)
(* The wait for the mapping of a stream's buffers (mm_camera_stream.c).    *)
(*                                                                         *)
(* The HAL registers the buffers and starts the stream on one thread, and  *)
(* maps them to the camera daemon, one by one or all at once, on another.  *)
(* mm_stream_streamon looks at the buffers in order under buf_lock; it     *)
(* waits, once and with a timeout, for those that are queued but not yet   *)
(* mapped, and gives up when the mapping of one has failed.  The mapping   *)
(* signals buf_cond when nothing is left to wait for.                      *)
(***************************************************************************)
EXTENDS Integers

CONSTANTS
  N,         \* buf_num
  InKernel   \* buffers queued to the kernel (in_kernel)

ASSUME MmStreamMapAssumption ==
  N \in Nat \ {0} /\ InKernel \subseteq 1..N

VARIABLES
  map,       \* buf_status[b].map_status: 1 mapped, 0 not yet, -1 failed
  on,        \* where mm_stream_streamon is
  signalled, \* buf_cond was signalled since the wait began
  timedOut   \* the wait ended with ETIMEDOUT

mappingVars == <<map, on, signalled, timedOut>>

MappingTypeOK ==
  /\ map \in [1..N -> {-1, 0, 1}]
  /\ on \in {"idle", "wait", "streamon", "abort"}
  /\ signalled \in BOOLEAN /\ timedOut \in BOOLEAN

Missing(m, b) == m[b] = 0 /\ b \in InKernel
Failed(m, b) == m[b] < 0

\* Mutant: the wait ends with the first buffer mapped.
NeedWaitForAll(m) == \A b \in InKernel : Missing(m, b)

\* mm_stream_need_wait_for_mapping: a failure ends the wait for the others.
need_wait_for_mapping(m) ==
  (\E b \in 1..N : Missing(m, b)) /\ (\A b \in 1..N : ~Failed(m, b))

\* Mutant: no signal.
MapSilently(S, status) ==
  /\ \A b \in S : map[b] = 0
  /\ map' = [b \in 1..N |-> IF b \in S THEN status ELSE map[b]]
  /\ UNCHANGED <<on, signalled, timedOut>>

\* mm_stream_map_buf and mm_stream_map_bufs: the buffers in S get a status.
Map(S, status) ==
  /\ \A b \in S : map[b] = 0
  /\ map' = [b \in 1..N |-> IF b \in S THEN status ELSE map[b]]
  /\ signalled' = (signalled \/ (on = "wait" /\ ~need_wait_for_mapping(map')))
  /\ UNCHANGED <<on, timedOut>>

MapBuf == \E b \in 1..N, status \in {1, -1} : Map({b}, status)
MapBufs == \E status \in {1, -1} : Map(1..N, status)

\* The loop of mm_stream_streamon stops at buffer b.
StopsAt(b) == Missing(map, b) \/ Failed(map, b)

TryStreamOn ==
  /\ on = "idle"
  /\ \/ /\ \A b \in 1..N : ~StopsAt(b)
        /\ on' = "streamon"
     \/ \E b \in 1..N : /\ StopsAt(b) /\ \A c \in 1..(b - 1) : ~StopsAt(c)
                        /\ on' = IF Missing(map, b) THEN "wait" ELSE "abort"
  /\ UNCHANGED <<map, signalled, timedOut>>

\* The wait ends with the signal (pthread_cond_timedwait is taken not to
\* return without one); nothing is looked at again.
Wake ==
  /\ on = "wait" /\ signalled
  /\ on' = "streamon" /\ signalled' = FALSE
  /\ UNCHANGED <<map, timedOut>>

Timeout ==
  /\ on = "wait" /\ ~signalled
  /\ on' = "abort" /\ timedOut' = TRUE
  /\ UNCHANGED <<map, signalled>>

\* The stream is stopped and its buffers are unmapped (mm_stream_unmap_buf).
UnmapBuf ==
  /\ on \in {"streamon", "abort"}
  /\ on' = "idle" /\ timedOut' = FALSE
  /\ map' = [b \in 1..N |-> 0]
  /\ UNCHANGED signalled

MappingInit ==
  /\ map = [b \in 1..N |-> 0] /\ on = "idle"
  /\ signalled = FALSE /\ timedOut = FALSE

MappingNext == MapBuf \/ MapBufs \/ TryStreamOn \/ Wake \/ Timeout \/ UnmapBuf

MappingSpec == MappingInit /\ [][MappingNext]_mappingVars

-----------------------------------------------------------------------------
(* Properties. *)

SomeFailed == \E b \in 1..N : Failed(map, b)

\* Unless a mapping fails, the stream is not started before every buffer in
\* the kernel is mapped, although streamon waits only once.
OnWhenMapped ==
  on = "streamon" /\ ~SomeFailed => \A b \in InKernel : map[b] = 1

\* streamon does not sleep on when nothing is left to wait for.
NoLostWakeup ==
  on = "wait" /\ ~SomeFailed => need_wait_for_mapping(map) \/ signalled

\* A stream that aborts has waited for the timeout or seen a failure.
AbortHasReason == on = "abort" => timedOut \/ SomeFailed

=============================================================================
