---------------------------- MODULE BundleFrames ----------------------------
(***************************************************************************)
(* What a camera channel promises about the frames of its bundled streams, *)
(* whatever its queue looks like.                                          *)
(*                                                                         *)
(* A frame that is delivered stays with the channel until it leaves it, at *)
(* once or later, in one of three ways: as part of a bundle that is sent,  *)
(* given back to its stream, or lost.  It leaves once.  A bundle has a     *)
(* frame of every stream and the id of its frames; only the frame of Loose *)
(* may have another id.  Bundles are sent in the order of their ids.  Only *)
(* frames of the streams in MayLose are lost.                              *)
(*                                                                         *)
(* SuperBufQueue implements this specification.                            *)
(***************************************************************************)
EXTENDS Integers, Sequences

CONSTANTS Stream, Loose, MayLose, MaxId

VARIABLES
  taken,  \* the frames delivered so far
  held,   \* those the channel has
  sent,   \* the bundles sent so far, each with its id and its frames
  back,   \* how often each frame was given back
  lost    \* the frames lost

vars == <<taken, held, sent, back, lost>>

Frame == Stream \X (1..MaxId)
Bundle == [id : 1..MaxId, frames : SUBSET Frame]
FramesIn(bundles) == UNION {bundles[i].frames : i \in DOMAIN bundles}
Returned == {b \in Frame : back[b] > 0}

Whole(n) ==
  /\ \A s \in Stream \ {Loose} : \A f \in 1..MaxId : <<s, f>> \in n.frames <=> f = n.id
  /\ Loose \in Stream =>
       /\ \E f \in 1..MaxId : <<Loose, f>> \in n.frames
       /\ \A f, g \in 1..MaxId : {<<Loose, f>>, <<Loose, g>>} \subseteq n.frames => f = g

Ascending(bundles) ==
  \A i, j \in DOMAIN bundles : i < j => bundles[i].id < bundles[j].id

-----------------------------------------------------------------------------

Init ==
  /\ taken = {} /\ held = {} /\ sent = <<>> /\ lost = {}
  /\ back = [b \in Frame |-> 0]

\* Frames arrive that never arrived before.
Arrive == taken \subseteq taken' /\ taken' \subseteq Frame
Arrived == taken' \ taken

\* New bundles: whole, with frames of their own, after the earlier ones.
Later == {i \in DOMAIN sent' : i > Len(sent)}
Send ==
  /\ sent' \in Seq(Bundle)
  /\ Len(sent) <= Len(sent') /\ \A i \in DOMAIN sent : sent'[i] = sent[i]
  /\ \A i \in Later : Whole(sent'[i])
  /\ \A i, j \in Later : i # j => sent'[i].frames \cap sent'[j].frames = {}
  /\ Ascending(sent')
Sent == UNION {sent'[i].frames : i \in Later}

\* Frames are given back, each of them once.
Recycle ==
  /\ back' = [b \in Frame |-> back'[b]]
  /\ \A b \in Frame : back'[b] \in {back[b], back[b] + 1}
Recycled == {b \in Frame : back'[b] # back[b]}

Lose == lost \subseteq lost' /\ \A b \in lost' \ lost : b[1] \in MayLose
Lost == lost' \ lost

\* The frames in S are sent, those in R given back and those in L lost: every
\* one was there or has just arrived, and leaves one way.
Leave(S, R, L) ==
  /\ S \cup R \cup L \subseteq held \cup Arrived
  /\ S \cap R = {} /\ S \cap L = {} /\ R \cap L = {}
  /\ held' = (held \cup Arrived) \ (S \cup R \cup L)

Next == Arrive /\ Send /\ Recycle /\ Lose /\ Leave(Sent, Recycled, Lost)

Spec == Init /\ [][Next]_vars

-----------------------------------------------------------------------------
(* Properties, proved in SuperBufQueueProofs of the queue that implements this. *)

\* A frame that was delivered is with the channel, or was sent, given back or
\* lost; it is in one of these places only, and was given back at most once.
OnePlace ==
  /\ taken = held \cup FramesIn(sent) \cup Returned \cup lost
  /\ held \cap FramesIn(sent) = {} /\ held \cap Returned = {} /\ held \cap lost = {}
  /\ FramesIn(sent) \cap Returned = {} /\ FramesIn(sent) \cap lost = {}
  /\ Returned \cap lost = {}
  /\ \A b \in Frame : back[b] <= 1

\* No frame is in two bundles, and the bundles are whole and in order.
BundlesInOrder ==
  /\ \A i, j \in DOMAIN sent : i # j => sent[i].frames \cap sent[j].frames = {}
  /\ \A i \in DOMAIN sent : Whole(sent[i])
  /\ Ascending(sent)

=============================================================================
