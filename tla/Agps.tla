-------------------------------- MODULE Agps --------------------------------
(***************************************************************************)
(* AGPS data connections (gps/gnss/Agps.cpp).                              *)
(*                                                                         *)
(* The modem asks for an "ATL", a data connection for assisted GPS, under  *)
(* a connection handle.  AgpsManager routes the request to one of three    *)
(* state machines: mAgnssNif (SUPL) and mInternetNif (WWAN) ask the        *)
(* Android framework for a connection, mDsNif (emergency SUPL) starts a    *)
(* data call of the DS client and, when that fails, retries it from a      *)
(* timer or falls back to a normal SUPL request by a message to the        *)
(* adapter's own queue.  A machine shares its connection among a list of   *)
(* subscribers.                                                            *)
(*                                                                         *)
(* Every handler runs on the adapter's one MsgTask thread, so a handler is *)
(* one action; only retryCallback runs on the timer thread.  Requests of   *)
(* the modem and reports of the framework reach the adapter through the    *)
(* same queue; they may arrive at any time, so the model keeps in "queue"  *)
(* only the messages the adapter sends to itself.  handleModemSSR is left  *)
(* out: nothing in the repository calls it.                                *)
(***************************************************************************)
EXTENDS Naturals, Sequences, FiniteSets, Selection

CONSTANTS
  Handle,                       \* connection handles the modem uses
  Type,                         \* the AGPS types the modem asks for
  MAX_START_DATA_CALL_RETRIES,
  MaxTimers,                    \* bound: retry timers armed at once
  MaxQueue                      \* bound: messages the adapter sent itself

ASSUME AgpsAssumption ==
  /\ Type \subseteq {"SUPL", "SUPL_ES", "WWAN"}
  /\ MAX_START_DATA_CALL_RETRIES \in Nat
  /\ MaxTimers \in Nat /\ MaxQueue \in Nat

VARIABLES
  pdn,       \* USE_EMERGENCY_PDN_FOR_EMERGENCY_SUPL, read once at start
  sm,        \* each machine created -> its mState and mSubscriberList
  retries,   \* mRetries of the DS machine
  timers,    \* retry timers armed and not expired
  queue,     \* AgpsMsgRequestATL messages the adapter sent itself
  call,      \* what the data call started by the last step returned
  told,      \* ATL status callbacks made by the last step
  modem      \* the modem's view of each handle

vars == <<pdn, sm, retries, timers, queue, call, told, modem>>

Machine == DOMAIN sm
Framework == Machine \ {"ds"}
State == {"RELEASED", "PENDING", "ACQUIRED", "RELEASING"}
Subscriber == [h : Handle, wait : BOOLEAN, inactive : BOOLEAN]

\* What mDSClientOpenAndStartDataCallFn can return.
Outcome == {"success", "busy", "unsupported", "other"}

TypeOK ==
  /\ pdn \in BOOLEAN /\ Machine \subseteq {"agnss", "internet", "ds"}
  /\ sm \in [Machine -> [state : State, subs : Seq(Subscriber)]]
  /\ retries \in 0..MAX_START_DATA_CALL_RETRIES
  /\ timers \in 0..MaxTimers
  /\ queue \in Seq([h : Handle, type : {"SUPL", "SUPL_ES"}])
  /\ call \in Outcome \cup {"none", "nosub"}
  /\ told \subseteq [cb : {"open", "close"}, h : Handle, ok : BOOLEAN, m : Machine \cup {"none"}]
  /\ modem \in [Handle -> {"idle", "asked", "open", "releasing", "closed"}]

-----------------------------------------------------------------------------
(* The subscriber list. *)

Handles(subs) == {subs[i].h : i \in DOMAIN subs}
Active(subs) == At(subs, {i \in DOMAIN subs : ~subs[i].inactive})
Inactive(subs) == At(subs, {i \in DOMAIN subs : subs[i].inactive})
anyActiveSubscribers(subs) == \E i \in DOMAIN subs : ~subs[i].inactive

\* A subscriber already in the list, active or not, is not added again.
addSubscriber(subs, s) == IF s.h \in Handles(subs) THEN subs ELSE Append(subs, s)

\* The list holds a handle at most once, so comparing with the subscriber
\* that was just freed deletes nothing else.
deleteSubscriber(subs, h) == At(subs, {i \in DOMAIN subs : subs[i].h # h})

MarkInactive(subs, h) ==
  [i \in DOMAIN subs |->
     IF subs[i].h = h THEN [subs[i] EXCEPT !.inactive = TRUE] ELSE subs[i]]

-----------------------------------------------------------------------------
(* What a step tells: a sequence of notifications, in order. *)

Note(event, h) == [event |-> event, h |-> h]
NoteAll(event, subs) == [i \in DOMAIN subs |-> Note(event, subs[i].h)]

Status(m, n) ==
  [cb |-> IF n.event \in {"GRANTED", "DENIED"} THEN "open" ELSE "close",
   h |-> n.h, ok |-> n.event # "DENIED", m |-> m]

\* The modem's view after a set of status callbacks.
ModemAfter(view, statuses) ==
  [h \in Handle |->
     LET mine == {s \in statuses : s.h = h} IN
     IF \E s \in mine : s.cb = "close" THEN "closed"
     ELSE IF view[h] # "asked" \/ mine = {} THEN view[h]
     ELSE IF \E s \in mine : s.ok THEN "open" ELSE "closed"]

\* The DS machine answers DENIED with a SUPL request for the same handle,
\* sent through the queue, instead of a failure status.
IsFallback(m, n) == m = "ds" /\ n.event = "DENIED"

\* notifyEventToSubscriber, for each of the notifications of a step.
\* view is the modem's view before the step, q the queue.
Notify(m, notes, view, q) ==
  LET denied == {i \in DOMAIN notes : IsFallback(m, notes[i])}
      fallbacks == At(notes, denied)
      statuses == {Status(m, notes[i]) : i \in DOMAIN notes \ denied}
  IN /\ told' = statuses
     /\ modem' = ModemAfter(view, statuses)
     /\ queue' = q \o [i \in DOMAIN fallbacks |-> [h |-> fallbacks[i].h, type |-> "SUPL"]]

-----------------------------------------------------------------------------
(* requestOrReleaseDataConn *)

\* The results a request can have.  The framework is asked by a callback and
\* the base class always returns 0; the DS client needs an active subscriber.
StartResults(m, subs) ==
  IF m # "ds" THEN {"none"}
  ELSE IF ~anyActiveSubscribers(subs) THEN {"nosub"}
  ELSE Outcome

\* requestOrReleaseDataConn(true) == 0
Started(m, r) == m # "ds" \/ r = "success"

\* A busy DS client is retried from a timer until the retries are used up;
\* then, and when there is no emergency profile, the first active subscriber
\* is notified DENIED without being deleted.
GivesUp(r) == \/ r = "busy" /\ retries + 1 > MAX_START_DATA_CALL_RETRIES
              \/ r = "unsupported"

StartNotes(r, subs) ==
  IF GivesUp(r) THEN <<Note("DENIED", Active(subs)[1].h)>> ELSE <<>>

\* mRetries is reset by the DENIED notification and by nothing else.
StartEffect(m, r, notes) ==
  /\ call' = r
  /\ IF m = "ds" /\ \E i \in DOMAIN notes : IsFallback(m, notes[i])
       THEN retries' = 0 /\ timers' = timers
     ELSE IF r = "busy"
       THEN /\ timers < MaxTimers
            /\ retries' = retries + 1 /\ timers' = timers + 1
     ELSE UNCHANGED <<retries, timers>>

\* Common to all handlers: machine m goes to state st with list subs, having
\* made the notifications notes and started (r # "none") a data call.  The notes
\* are computed once, by the quantifier.
Finish(m, st, subs, notes, r, view, q) ==
  /\ sm' = [n \in Machine \cup {m} |->
              IF n = m THEN [state |-> st, subs |-> subs] ELSE sm[n]]
  /\ UNCHANGED pdn
  /\ \E list \in {notes} : Notify(m, list, view, q) /\ StartEffect(m, r, list)

-----------------------------------------------------------------------------
(* The events of a state machine. *)

\* A machine just created is released and has no subscriber.
Fresh == [state |-> "RELEASED", subs |-> <<>>]

\* AGPS_EVENT_SUBSCRIBE, for a subscriber s.
processAgpsEventSubscribe(m, s, view, q) ==
  LET now == IF m \in Machine THEN sm[m] ELSE Fresh
      st == now.state
      subs == addSubscriber(now.subs, s)
  IN \/ /\ st = "RELEASED"
        /\ \E r \in StartResults(m, subs) :
             Finish(m, IF Started(m, r) THEN "PENDING" ELSE "RELEASED", subs,
                    StartNotes(r, subs), r, view, q)
     \/ /\ st \in {"PENDING", "RELEASING"}
        /\ Finish(m, st, subs, <<>>, "none", view, q)
     \/ /\ st = "ACQUIRED"
        /\ Finish(m, st, subs, <<Note("GRANTED", s.h)>>, "none", view, q)

\* AGPS_EVENT_UNSUBSCRIBE, for a subscriber s that is in the list.  One that
\* waits for the close of the connection stays, inactive, and is not told.
\* The release requests have no result that matters.
processAgpsEventUnsubscribe(m, s, view) ==
  LET st == sm[m].state
      subs == IF s.wait THEN MarkInactive(sm[m].subs, s.h)
                        ELSE deleteSubscriber(sm[m].subs, s.h)
      note == <<Note("UNSUBSCRIBE", s.h)>>
      next == IF subs = <<>> THEN "RELEASED"
              ELSE IF anyActiveSubscribers(subs) THEN st ELSE "RELEASING"
  IN \/ /\ st = "RELEASED"
        /\ Finish(m, st, sm[m].subs, note, "none", view, queue)
     \/ /\ st # "RELEASED"
        /\ Finish(m, next, subs, IF s.wait THEN <<>> ELSE note, "none", view, queue)

\* Mutant: only the subscriber that comes first is told.
GrantedFirst(m) ==
  IF sm[m].state = "PENDING"
    THEN Finish(m, "ACQUIRED", sm[m].subs, <<Note("GRANTED", Active(sm[m].subs)[1].h)>>,
                "none", modem, queue)
    ELSE UNCHANGED vars

\* AGPS_EVENT_GRANTED: unexpected, and ignored, in any state but PENDING.
processAgpsEventGranted(m) ==
  IF sm[m].state = "PENDING"
    THEN Finish(m, "ACQUIRED", sm[m].subs, NoteAll("GRANTED", Active(sm[m].subs)),
                "none", modem, queue)
    ELSE UNCHANGED vars

\* Mutant: the whole list is cleared, the active subscribers with it.
EndReleaseForgets(m) ==
  Finish(m, "RELEASED", <<>>, NoteAll("RELEASED", Inactive(sm[m].subs)), "none", modem, queue)

\* Both RELEASED and DENIED end a RELEASING connection: the inactive
\* subscribers are told and deleted; active ones came meanwhile and get a new
\* connection.  The result of that request is ignored.
EndRelease(m) ==
  LET subs == Active(sm[m].subs)
      closed == NoteAll("RELEASED", Inactive(sm[m].subs))
  IN IF subs = <<>>
       THEN Finish(m, "RELEASED", subs, closed, "none", modem, queue)
       ELSE \E r \in StartResults(m, subs) :
              Finish(m, "PENDING", subs, closed \o StartNotes(r, subs), r, modem, queue)

\* Mutant: the transition is forgotten.
DropAllKeepsState(m, event) ==
  Finish(m, sm[m].state, <<>>, NoteAll(event, sm[m].subs), "none", modem, queue)

\* All subscribers, inactive ones too, are notified and deleted.
DropAll(m, event) ==
  Finish(m, "RELEASED", <<>>, NoteAll(event, sm[m].subs), "none", modem, queue)

processAgpsEventReleased(m) ==
  \/ sm[m].state = "ACQUIRED" /\ DropAll(m, "RELEASED")
  \/ sm[m].state = "RELEASING" /\ EndRelease(m)
  \/ sm[m].state \notin {"ACQUIRED", "RELEASING"} /\ UNCHANGED vars

processAgpsEventDenied(m) ==
  \/ sm[m].state = "PENDING" /\ DropAll(m, "DENIED")
  \/ sm[m].state = "RELEASING" /\ EndRelease(m)
  \/ sm[m].state \notin {"PENDING", "RELEASING"} /\ UNCHANGED vars

-----------------------------------------------------------------------------
(* AgpsManager *)

\* The machine an AGPS type is served by.
getAgpsStateMachine(type) ==
  CASE type = "SUPL" -> "agnss"
    [] type = "SUPL_ES" -> IF pdn THEN "ds" ELSE "agnss"
    [] type = "WWAN" -> "internet"

\* The DS machine that is missing is created by the request that wants it,
\* when the DS client can be initialised; it needs the SUPL capability, as
\* mAgnssNif does.
MayCreate(m) == m = "ds" /\ pdn /\ "agnss" \in Machine

\* requestATL, called with the modem's view and the queue as the message
\* leaves them.
requestATL(h, type, view, q) ==
  LET m == getAgpsStateMachine(type) IN
  \/ /\ m \in Machine \/ MayCreate(m)
     /\ processAgpsEventSubscribe(
          m, [h |-> h, wait |-> type = "SUPL_ES", inactive |-> FALSE], view, q)
  \/ /\ m \notin Machine
     /\ LET refused == {[cb |-> "open", h |-> h, ok |-> FALSE, m |-> "none"]}
        IN told' = refused /\ modem' = ModemAfter(view, refused)
     /\ queue' = q /\ call' = "none"
     /\ UNCHANGED <<pdn, sm, retries, timers>>

\* releaseATL looks for the handle in mAgnssNif, then mInternetNif, then mDsNif.
Holders(h) == {m \in Machine : h \in Handles(sm[m].subs)}
SearchOrder == <<"agnss", "internet", "ds">>
FirstHolder(h) ==
  SearchOrder[CHOOSE i \in 1..3 :
    /\ SearchOrder[i] \in Holders(h)
    /\ \A j \in 1..(i - 1) : SearchOrder[j] \notin Holders(h)]

releaseATL(h, view) ==
  IF Holders(h) = {}
    THEN LET unknown == {[cb |-> "close", h |-> h, ok |-> FALSE, m |-> "none"]}
         IN /\ told' = unknown /\ modem' = ModemAfter(view, unknown)
            /\ call' = "none"
            /\ UNCHANGED <<pdn, sm, retries, timers, queue>>
    ELSE LET m == FirstHolder(h)
             subs == sm[m].subs
             s == subs[CHOOSE i \in DOMAIN subs : subs[i].h = h]
         IN processAgpsEventUnsubscribe(m, s, view)

-----------------------------------------------------------------------------
(* The messages the adapter handles. *)

\* Room for the fallbacks one handler can queue.
Room == Len(queue) + Cardinality(Handle) <= MaxQueue

\* The modem asks for a connection under a handle it does not use, one that
\* was closed too unless the DS machine may still list it (RequestNotLost).
RequestATL(h, type) ==
  /\ Room
  /\ modem[h] = "idle" \/ (~pdn /\ modem[h] = "closed")
  /\ requestATL(h, type, [modem EXCEPT ![h] = "asked"], queue)

\* The modem gives a handle back, before or after it is granted.
ReleaseATL(h) ==
  /\ modem[h] \in {"asked", "open"}
  /\ releaseATL(h, [modem EXCEPT ![h] = "releasing"])

\* The adapter takes an AgpsMsgRequestATL it sent itself.
ProcessMsg ==
  /\ queue # <<>>
  /\ requestATL(Head(queue).h, Head(queue).type, modem, Tail(queue))

\* The framework reports on the connection of a machine, whenever it likes.
reportAtlOpenSuccess(m) == m \in Framework /\ processAgpsEventGranted(m)
reportAtlOpenFailed(m) == m \in Framework /\ processAgpsEventDenied(m)
reportAtlClosed(m) == m \in Framework /\ processAgpsEventReleased(m)

\* The DS client reports; it has no event of its own for a failed call, so
\* RELEASED while PENDING is taken for DENIED.
reportDataCallOpened == "ds" \in Machine /\ processAgpsEventGranted("ds")
reportDataCallClosed ==
  /\ "ds" \in Machine /\ Room
  /\ IF sm["ds"].state = "PENDING" THEN processAgpsEventDenied("ds")
                                   ELSE processAgpsEventReleased("ds")

\* A retry timer expires on the timer thread.
retryCallback ==
  /\ timers > 0 /\ Room
  /\ timers' = timers - 1
  /\ LET active == Active(sm["ds"].subs)
     IN queue' = IF active = <<>> THEN queue
                 ELSE Append(queue, [h |-> active[1].h, type |-> "SUPL_ES"])
  /\ call' = "none" /\ told' = {}
  /\ UNCHANGED <<pdn, sm, retries, modem>>

Init ==
  /\ pdn \in BOOLEAN
  /\ \E created \in {{"internet"}, {"internet", "agnss"}}
                     \cup (IF pdn THEN {{"internet", "agnss", "ds"}} ELSE {}) :
       sm = [m \in created |-> Fresh]
  /\ retries = 0 /\ timers = 0
  /\ queue = <<>> /\ call = "none" /\ told = {}
  /\ modem = [h \in Handle |-> "idle"]

Next ==
  \/ \E h \in Handle, type \in Type : RequestATL(h, type)
  \/ \E h \in Handle : ReleaseATL(h)
  \/ ProcessMsg
  \/ \E m \in Machine : reportAtlOpenSuccess(m) \/ reportAtlOpenFailed(m) \/ reportAtlClosed(m)
  \/ reportDataCallOpened
  \/ reportDataCallClosed
  \/ retryCallback

\* The adapter's thread takes its messages, timers expire, and the framework
\* and the DS client answer: a pending connection opens or fails, a released
\* one closes.
Fairness ==
  /\ WF_vars(ProcessMsg)
  /\ WF_vars(retryCallback)
  /\ \A m \in {"agnss", "internet"} :
       /\ WF_vars(/\ m \in Machine /\ sm[m].state = "PENDING"
                  /\ reportAtlOpenSuccess(m) \/ reportAtlOpenFailed(m))
       /\ WF_vars(m \in Machine /\ sm[m].state = "RELEASING" /\ reportAtlClosed(m))

Spec == Init /\ [][Next]_vars
FairSpec == Spec /\ Fairness
-----------------------------------------------------------------------------
(* Properties *)

ActiveHandles(subs) == {subs[i].h : i \in {j \in DOMAIN subs : ~subs[j].inactive}}

\* The state of a connection is the state of its subscribers: one is asked
\* for or held only for an active subscriber, one that is being released has
\* a subscriber that waits for the close, and (framework machines) a released
\* one has no subscriber left.
ConnectionMatchesSubscribers ==
  \A m \in Machine :
    /\ sm[m].state \in {"PENDING", "ACQUIRED"} => anyActiveSubscribers(sm[m].subs)
    /\ sm[m].state = "RELEASING" => Inactive(sm[m].subs) # <<>>
    /\ m \in Framework /\ sm[m].state = "RELEASED" => sm[m].subs = <<>>

\* A request the modem waits for is never dropped silently: its handle is an
\* active subscriber somewhere or its fallback is in the adapter's queue.
\* With the DS machine this needs handles that are not used again: a handle
\* closed through mAgnssNif can still be an inactive DS subscriber.
RequestNotLost ==
  \A h \in Handle : modem[h] = "asked" =>
    \/ \E m \in Machine : h \in ActiveHandles(sm[m].subs)
    \/ \E i \in DOMAIN queue : queue[i].h = h

\* An emergency subscriber is told that its ATL is closed only by a step that
\* leaves its machine without an established or closing connection.
EmergencyCloseWaits ==
  [][\A m \in Machine : \A i \in DOMAIN sm[m].subs :
       LET s == sm[m].subs[i] IN
       s.wait /\ [cb |-> "close", h |-> s.h, ok |-> TRUE, m |-> m] \in told'
         => sm'[m].state \in {"RELEASED", "PENDING"}]_vars

\* With a framework that answers, a request of the modem is answered if a
\* framework machine serves it or will: also an emergency request that the DS
\* machine gave up, while its fallback is in the queue or pending.
AskedIsAnswered ==
  \A h \in Handle :
    /\ modem[h] = "asked"
    /\ \/ \E m \in Framework : h \in ActiveHandles(sm[m].subs)
       \/ \E i \in DOMAIN queue : queue[i].h = h /\ queue[i].type = "SUPL"
    ~> modem[h] # "asked"

=============================================================================
