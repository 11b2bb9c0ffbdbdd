------------------------- MODULE MCHal1StateMachine -------------------------
(***************************************************************************)
(* The HAL1 state machine with one application that makes any of its calls *)
(* in any order, against the machine's, the live snapshot's and the        *)
(* callback's threads and the stack.                                       *)
(***************************************************************************)
EXTENDS Hal1StateMachine

MCCaller == {"app"}

MCCalls == [c \in MCCaller |->
  {"set_preview_window", "start_preview", "stop_preview", "set_parameters", "start_recording",
   "stop_recording", "take_picture", "take_retro", "cancel_picture", "longshot_on", "longshot_off",
   "enable_msg_type"}]

MCCallsWhenDead == {"take_picture", "take_retro", "cancel_picture", "stop_recording", "stop_preview"}

=============================================================================
