----------------------------- MODULE GnssTracking -----------------------------
(***************************************************************************)
(* Tracking sessions of the location stack: clients of the location API    *)
(* (LocationAPIClientBase.cpp) that share the one GNSS engine through      *)
(* GnssAdapter.cpp.                                                        *)
(*                                                                         *)
(* A client calls start, stop and update under its own mMutex; each call   *)
(* pushes a request onto the client's request queue and sends a message to *)
(* the adapter.  The adapter's one thread handles the messages in order,   *)
(* keeps the sessions, asks the engine for the smallest interval among     *)
(* them, and answers by a callback, which takes the client's mMutex to pop *)
(* the request it answers.  The engine may fail a call, and may restart.   *)
(*                                                                         *)
(* Sending a message and taking one are steps of their own, and so are a   *)
(* handler and the callback it ends with.  locAPIStartTracking sends its   *)
(* message before it pushes the request, under the mutex.                  *)
(*                                                                         *)
(* Left out: the FLP interface (a vendor library), the ULP proxy (the base *)
(* class lets every call through), options other than the interval, and    *)
(* callbacks updated later.                                                *)
(***************************************************************************)
EXTENDS Integers, Sequences, FiniteSets, Selection

CONSTANTS
  Client,
  Interval,    \* values of LocationOptions.minInterval
  MaxSession,  \* bound: sessions started
  MaxMsgs,     \* bound: messages in the adapter's queue
  MaxRequests, \* bound: requests in a client's queue
  MaxTrouble   \* bound: failures and restarts of the engine

ASSUME GnssTrackingAssumption ==
  /\ Interval \subseteq Nat
  /\ MaxSession \in Nat /\ MaxMsgs \in Nat /\ MaxRequests \in Nat
  /\ MaxTrouble \in Nat

VARIABLES
  api,       \* each client: its life, mMutex, mTracking, session and requests
  lastId,    \* mSessionIdCounter
  msgs,      \* the adapter's message queue
  clients,   \* mClientData
  sessions,  \* mTrackingSessions
  sweep,     \* the last session stopClientSessions has tried to stop
  reply,     \* the response the adapter is about to deliver
  engine,    \* the interval the engine runs at
  down,      \* the engine is restarting
  trouble,   \* failed calls and restarts so far
  unstopped, \* sessions whose stop the engine failed
  unstarted  \* restartSessions failed, and nothing was started since

adapter == <<clients, sessions, sweep>>
motor == <<engine, down, trouble, unstarted>>
vars == <<api, lastId, msgs, adapter, reply, motor, unstopped>>

Off == -1
NoReply == [kind |-> "none"]

Session == [client : Client, id : 1..MaxSession, interval : Interval]
Msg == [kind : {"add", "remove"}, client : Client]
       \cup [kind : {"start", "update"}, client : Client, id : 1..MaxSession, interval : Interval]
       \cup [kind : {"stop"}, client : Client, id : 1..MaxSession]
       \cup [kind : {"restart"}]

TypeOK ==
  /\ api \in [Client -> [life : {"none", "up", "gone"}, starting : 0..MaxSession,
                         tracking : BOOLEAN, session : 0..MaxSession,
                         requests : Seq({"start", "stop", "update"})]]
  /\ lastId \in 0..MaxSession
  /\ msgs \in Seq(Msg)
  /\ clients \subseteq Client
  /\ sessions \subseteq Session
  /\ sweep \in 0..MaxSession
  /\ reply \in {NoReply} \cup [kind : {"start", "stop", "update"}, client : Client,
                               id : 1..MaxSession, ok : BOOLEAN]
  /\ engine \in Interval \cup {Off}
  /\ down \in BOOLEAN /\ trouble \in 0..MaxTrouble
  /\ unstopped \subseteq 1..MaxSession
  /\ unstarted \in BOOLEAN

-----------------------------------------------------------------------------
(* The client, LocationAPIClientBase. *)

Send(m) == Len(msgs) < MaxMsgs /\ msgs' = Append(msgs, m)

\* A client that can call: its mutex is free ("starting" is the session its
\* locAPIStartTracking has got, while it holds the mutex).
Free(c) == api[c].life = "up" /\ api[c].starting = 0

Create(c) ==
  /\ api[c].life = "none"
  /\ api' = [api EXCEPT ![c].life = "up"]
  /\ Send([kind |-> "add", client |-> c])
  /\ UNCHANGED <<lastId, adapter, reply, motor, unstopped>>

\* locAPIStartTracking calls startTracking, unless it is tracking already,
StartCall(c, i) ==
  /\ Free(c) /\ ~api[c].tracking
  /\ lastId < MaxSession /\ lastId' = lastId + 1
  /\ Send([kind |-> "start", client |-> c, id |-> lastId', interval |-> i])
  /\ api' = [api EXCEPT ![c].starting = lastId']
  /\ UNCHANGED <<adapter, reply, motor, unstopped>>

\* and then, still under the mutex, replaces all requests by the new one.
StartReturn(c) ==
  /\ api[c].starting # 0
  /\ api' = [api EXCEPT ![c].starting = 0, ![c].tracking = TRUE,
                        ![c].session = api[c].starting,
                        ![c].requests = <<"start">>]
  /\ UNCHANGED <<lastId, msgs, adapter, reply, motor, unstopped>>

\* The session stays the client's after a stop, so it can be stopped again.
Request(c, kind) ==
  /\ Free(c) /\ api[c].session # 0
  /\ Len(api[c].requests) < MaxRequests
  /\ api' = [api EXCEPT ![c].requests = Append(@, kind),
                        ![c].tracking = @ /\ kind # "stop"]
  /\ UNCHANGED <<lastId, adapter, reply, motor, unstopped>>

Stop(c) ==
  /\ Request(c, "stop")
  /\ Send([kind |-> "stop", client |-> c, id |-> api[c].session])

Update(c, i) ==
  /\ Request(c, "update")
  /\ Send([kind |-> "update", client |-> c, id |-> api[c].session, interval |-> i])

\* The destructor: the requests are dropped.
Destroy(c) ==
  /\ Free(c)
  /\ api' = [api EXCEPT ![c].life = "gone", ![c].tracking = FALSE,
                        ![c].session = 0, ![c].requests = <<>>]
  /\ Send([kind |-> "remove", client |-> c])
  /\ UNCHANGED <<lastId, adapter, reply, motor, unstopped>>

\* Mutant: the request is popped whatever the session.
ReplyAnySession ==
  /\ reply # NoReply
  /\ LET c == reply.client IN
     /\ api[c].starting = 0
     /\ api' = IF api[c].requests # <<>>
                 THEN [api EXCEPT ![c].requests = Tail(@)]
                 ELSE api
  /\ reply' = NoReply
  /\ UNCHANGED <<lastId, msgs, adapter, motor, unstopped>>

\* onResponseCb, on the adapter's thread: it waits for the mutex and pops the
\* first request if the session is still the client's.
Reply ==
  /\ reply # NoReply
  /\ LET c == reply.client IN
     /\ api[c].starting = 0
     /\ api' = IF api[c].session = reply.id /\ api[c].requests # <<>>
                 THEN [api EXCEPT ![c].requests = Tail(@)]
                 ELSE api
  /\ reply' = NoReply
  /\ UNCHANGED <<lastId, msgs, adapter, motor, unstopped>>

-----------------------------------------------------------------------------
(* The engine. *)

\* The results a call can have.
Results == IF down THEN {FALSE} ELSE IF trouble < MaxTrouble THEN BOOLEAN ELSE {TRUE}

\* Failures of an engine that is down are not counted again.
Count(ok) == trouble' = IF ok \/ down THEN trouble ELSE trouble + 1

\* LocApiBase::startFix; a call that fails leaves the engine as it is.
StartFix(i, ok) ==
  /\ ok \in Results /\ Count(ok)
  /\ engine' = IF ok THEN i ELSE engine
  /\ unstarted' = (unstarted /\ ~ok)
  /\ UNCHANGED down

StopFix(ok) ==
  /\ ok \in Results /\ Count(ok)
  /\ engine' = IF ok THEN Off ELSE engine
  /\ UNCHANGED <<down, unstarted>>

\* The engine is left alone, which always succeeds.
NoFix(ok) == ok /\ UNCHANGED motor

EngineDown ==
  /\ ~down /\ trouble < MaxTrouble
  /\ down' = TRUE /\ trouble' = trouble + 1 /\ engine' = Off
  /\ UNCHANGED <<api, lastId, msgs, adapter, reply, unstopped, unstarted>>

\* handleEngineUpEvent
EngineUp ==
  /\ down /\ down' = FALSE
  /\ Send([kind |-> "restart"])
  /\ UNCHANGED <<api, lastId, adapter, reply, engine, trouble, unstopped, unstarted>>

-----------------------------------------------------------------------------
(* The adapter's multiplexing.  Each operator asks the engine for what it    *)
(* takes and says whether that succeeded.                                    *)

Smallest(S) == CHOOSE i \in {s.interval : s \in S} : \A s \in S : i <= s.interval

Of(id) == CHOOSE s \in sessions : s.id = id
Others(id) == {s \in sessions : s.id # id}

startTrackingMultiplex(i, ok) ==
  IF sessions = {} \/ i < Smallest(sessions) THEN StartFix(i, ok) ELSE NoFix(ok)

\* Mutant: a session that slows down does not make the engine slow down.
UpdateOnlyFaster(id, i, ok) ==
  IF Others(id) = {} \/ i < Smallest(Others(id)) THEN StartFix(i, ok) ELSE NoFix(ok)

\* A session that was the only one with the smallest interval hands over to
\* the next smallest.
updateTrackingMultiplex(id, i, ok) ==
  IF Others(id) = {} \/ i < Smallest(Others(id)) THEN StartFix(i, ok)
  ELSE IF Of(id).interval < Smallest(Others(id)) THEN StartFix(Smallest(Others(id)), ok)
  ELSE NoFix(ok)

\* Mutant: any stop stops the engine.
StopAlways(id, ok) == StopFix(ok)

stopTrackingMultiplex(id, ok) ==
  IF Others(id) = {} THEN StopFix(ok)
  ELSE IF Of(id).interval < Smallest(Others(id)) THEN StartFix(Smallest(Others(id)), ok)
  ELSE NoFix(ok)

-----------------------------------------------------------------------------
(* The adapter's handlers. *)

\* The thread takes the next message when its last callback has returned.
AtHead(kind) == reply = NoReply /\ msgs # <<>> /\ Head(msgs).kind = kind
Take(kind) == AtHead(kind) /\ msgs' = Tail(msgs) /\ UNCHANGED <<api, lastId>>

isTrackingSession(m) == \E s \in sessions : s.client = m.client /\ s.id = m.id

\* Mutant: a start that failed is not answered.
ResponseToStarted(m, ok) ==
  reply' = IF m.client \in clients /\ (m.kind = "start" => ok)
             THEN [kind |-> m.kind, client |-> m.client, id |-> m.id, ok |-> ok]
             ELSE NoReply

\* reportResponse, to clients in mClientData only.
reportResponse(m, ok) ==
  reply' = IF m.client \in clients
             THEN [kind |-> m.kind, client |-> m.client, id |-> m.id, ok |-> ok]
             ELSE NoReply

saveClient ==
  /\ Take("add")
  /\ clients' = clients \cup {Head(msgs).client}
  /\ UNCHANGED <<sessions, sweep, reply, motor, unstopped>>

\* A client that is not in mClientData has no callback.
MsgStartTracking ==
  LET m == Head(msgs) IN
  /\ Take("start")
  /\ \E ok \in BOOLEAN :
       /\ IF m.client \in clients
            THEN startTrackingMultiplex(m.interval, ok)
            ELSE ~ok /\ UNCHANGED motor
       /\ sessions' = IF ok
            THEN sessions \cup {[client |-> m.client, id |-> m.id, interval |-> m.interval]}
            ELSE sessions
       /\ reportResponse(m, ok)
  /\ UNCHANGED <<clients, sweep, unstopped>>

\* An unknown session gets no response.
UnknownSession(kind) ==
  /\ Take(kind) /\ ~isTrackingSession(Head(msgs))
  /\ UNCHANGED <<adapter, reply, motor, unstopped>>

MsgUpdateTracking ==
  LET m == Head(msgs) IN
  \/ UnknownSession("update")
  \/ /\ Take("update") /\ isTrackingSession(m)
     /\ \E ok \in BOOLEAN :
          /\ updateTrackingMultiplex(m.id, m.interval, ok)
          /\ sessions' = IF ok
               THEN Others(m.id) \cup {[Of(m.id) EXCEPT !.interval = m.interval]}
               ELSE sessions
          /\ reportResponse(m, ok)
     /\ UNCHANGED <<clients, sweep, unstopped>>

\* Mutant: the session is not erased.
EndSessionKeeps(id, ok) ==
  /\ stopTrackingMultiplex(id, ok)
  /\ sessions' = sessions
  /\ unstopped' = IF ok THEN unstopped ELSE unstopped \cup {id}

\* A session the engine does not let go of stays.
EndSession(id, ok) ==
  /\ stopTrackingMultiplex(id, ok)
  /\ sessions' = IF ok THEN Others(id) ELSE sessions
  /\ unstopped' = IF ok THEN unstopped ELSE unstopped \cup {id}

MsgStopTracking ==
  LET m == Head(msgs) IN
  \/ UnknownSession("stop")
  \/ /\ Take("stop") /\ isTrackingSession(m)
     /\ \E ok \in BOOLEAN : EndSession(m.id, ok) /\ reportResponse(m, ok)
     /\ UNCHANGED <<clients, sweep>>

\* MsgRemoveClient stops the client's sessions in the order of their ids,
Unswept(c) == {s \in sessions : s.client = c /\ s.id > sweep}

stopClientSessions ==
  /\ AtHead("remove")
  /\ \E s \in Unswept(Head(msgs).client), ok \in BOOLEAN :
       /\ \A t \in Unswept(Head(msgs).client) : s.id <= t.id
       /\ EndSession(s.id, ok)
       /\ sweep' = s.id
  /\ UNCHANGED <<api, lastId, msgs, clients, reply>>

\* and erases the client whether they stopped or not.
eraseClient ==
  /\ Take("remove")
  /\ Unswept(Head(msgs).client) = {}
  /\ clients' = clients \ {Head(msgs).client}
  /\ sweep' = 0
  /\ UNCHANGED <<sessions, reply, motor, unstopped>>

\* The result of the engine is not looked at.  (A failure here follows a
\* restart, which is counted already.)
restartSessions ==
  /\ Take("restart")
  /\ IF sessions = {}
       THEN UNCHANGED motor
       ELSE \E ok \in BOOLEAN :
              /\ down => ~ok
              /\ engine' = IF ok THEN Smallest(sessions) ELSE engine
              /\ unstarted' = ~ok
              /\ UNCHANGED <<down, trouble>>
  /\ UNCHANGED <<adapter, reply, unstopped>>

-----------------------------------------------------------------------------
Init ==
  /\ api = [c \in Client |-> [life |-> "none", starting |-> 0, tracking |-> FALSE,
                              session |-> 0, requests |-> <<>>]]
  /\ lastId = 0 /\ msgs = <<>>
  /\ clients = {} /\ sessions = {} /\ sweep = 0 /\ reply = NoReply
  /\ engine = Off /\ down = FALSE /\ trouble = 0
  /\ unstopped = {} /\ unstarted = FALSE

Adapter ==
  \/ Reply \/ saveClient \/ MsgStartTracking \/ MsgUpdateTracking \/ MsgStopTracking
  \/ stopClientSessions \/ eraseClient \/ restartSessions

Next ==
  \/ Adapter
  \/ \E c \in Client : Create(c) \/ StartReturn(c) \/ Stop(c) \/ Destroy(c)
  \/ \E c \in Client, i \in Interval : StartCall(c, i) \/ Update(c, i)
  \/ EngineDown \/ EngineUp

Spec == Init /\ [][Next]_vars

\* The adapter's thread runs, and a client inside locAPIStartTracking.
FairSpec == /\ Spec
            /\ WF_vars(Adapter)
            /\ \A c \in Client : WF_vars(StartReturn(c))

-----------------------------------------------------------------------------
(* Properties. *)

\* The engine never runs for nobody, nor at another interval than the smallest
\* one asked for, whatever calls failed and whenever the engine restarted.
EngineFollowsSessions ==
  engine # Off => sessions # {} /\ engine = Smallest(sessions)

\* The engine runs while there are sessions, except from a restart to the
\* handling of its message, or when that failed.
EngineRuns ==
  sessions # {} /\ engine = Off =>
    \/ down \/ unstarted
    \/ \E j \in DOMAIN msgs : msgs[j].kind = "restart"

\* What client c has asked of session id and the adapter has not answered: the
\* response under way, and the messages of the queue, in their order.
Asked(c, id) == {j \in DOMAIN msgs : msgs[j].kind \in {"start", "stop", "update"}
                                      /\ msgs[j].client = c /\ msgs[j].id = id}
Answering(c, id) == reply # NoReply /\ reply.client = c /\ reply.id = id
Kinds == [j \in DOMAIN msgs |-> msgs[j].kind]
Unanswered(c, id) ==
  (IF Answering(c, id) THEN <<reply.kind>> ELSE <<>>) \o At(Kinds, Asked(c, id))

\* A response finds the very request it answers at the head of the client's
\* queue, although the client drops requests when it starts again, the
\* adapter answers only some messages, and the two queues have no common lock.
ResponseFindsItsRequest ==
  \A c \in Client :
    Free(c) /\ Answering(c, api[c].session)
      => api[c].requests = Unanswered(c, api[c].session)

\* Client c's session id is being started, or tracked.
Tracks(c, id) ==
  api[c].starting = id \/ (api[c].tracking /\ api[c].session = id)

\* A message that will end session id of client c.
Ends(m, c, id) ==
  \/ m.kind = "remove" /\ m.client = c
  \/ m.kind = "stop" /\ m.id = id

\* A session the adapter keeps is one its client still tracks, or whose end is
\* on its way, or whose end the engine failed: no session is left that keeps
\* the engine running and that nobody can stop.
NoSessionLeaks ==
  \A s \in sessions :
    \/ s.id \in unstopped
    \/ Tracks(s.client, s.id)
    \/ \E j \in DOMAIN msgs : Ends(msgs[j], s.client, s.id)

\* Every start is answered: the client that holds its mutex while it sends,
\* and the adapter that waits for that mutex, do not block each other.
StartIsAnswered ==
  \A c \in Client :
    (api[c].starting # 0 \/ (api[c].requests # <<>> /\ Head(api[c].requests) = "start"))
      ~> (api[c].starting = 0 /\ (api[c].requests # <<>> => Head(api[c].requests) # "start"))

-----------------------------------------------------------------------------
(* The inductive invariant behind EngineFollowsSessions and EngineRuns. *)

\* A session id stands for one session, which is started once.
IdsOnce ==
  /\ \A s, t \in sessions : s.id = t.id => s = t
  /\ \A s \in sessions : s.id <= lastId
  /\ \A j \in DOMAIN msgs : msgs[j].kind = "start" =>
       /\ msgs[j].id <= lastId
       /\ \A s \in sessions : s.id # msgs[j].id
       /\ \A k \in DOMAIN msgs :
            msgs[k].kind = "start" /\ msgs[k].id = msgs[j].id => k = j

\* Any of the sessions have a smallest interval, since they come one by one.
WellOrdered ==
  \A T \in SUBSET sessions :
    T # {} => \E s \in T : \A t \in T : s.interval <= t.interval

Inv == IdsOnce /\ WellOrdered /\ EngineFollowsSessions /\ EngineRuns

-----------------------------------------------------------------------------
(* The inductive invariant behind NoSessionLeaks. *)

\* A start in the queue is still wanted, or followed by what ends it.
StartsEnd ==
  \A j \in DOMAIN msgs : msgs[j].kind = "start" =>
    \/ Tracks(msgs[j].client, msgs[j].id)
    \/ \E k \in DOMAIN msgs : k > j /\ Ends(msgs[k], msgs[j].client, msgs[j].id)

\* Client c has, or has asked to start or stop, session id.
Claims(c, id) ==
  \/ \E s \in sessions : s.id = id /\ s.client = c
  \/ \E j \in DOMAIN msgs : msgs[j].kind \in {"start", "stop"}
                             /\ msgs[j].id = id /\ msgs[j].client = c
  \/ api[c].starting = id \/ api[c].session = id

\* A session id is one client's, and none is ahead of the counter.
IdsOwned ==
  \A id \in 1..MaxSession, c \in Client : Claims(c, id) =>
    /\ id <= lastId
    /\ \A d \in Client : Claims(d, id) => d = c

\* While a client is being removed: the sessions passed are those whose stop failed.
Swept ==
  /\ sweep # 0 => msgs # <<>> /\ Head(msgs).kind = "remove"
  /\ \A s \in sessions :
       msgs # <<>> /\ Head(msgs).kind = "remove" /\ s.client = Head(msgs).client
         /\ s.id <= sweep => s.id \in unstopped

LeakInv ==
  /\ StartsEnd /\ IdsOwned /\ Swept /\ NoSessionLeaks
  /\ \A c \in Client : api[c].starting # 0 => ~api[c].tracking

-----------------------------------------------------------------------------
(* The inductive invariant behind ResponseFindsItsRequest. *)

\* A client that is there is one the adapter knows or will know before it gets
\* to the client's messages; one that is not there has asked for nothing.
Known ==
  \A c \in Client :
    /\ api[c].life = "up" =>
         /\ \A j \in DOMAIN msgs : msgs[j].kind = "remove" => msgs[j].client # c
         /\ \/ c \in clients
            \/ \E j \in DOMAIN msgs :
                 /\ msgs[j].kind = "add" /\ msgs[j].client = c
                 /\ \A id \in 1..MaxSession : \A k \in Asked(c, id) : j < k
    /\ api[c].life # "up" => api[c].starting = 0 /\ api[c].session = 0
    /\ api[c].life = "none" =>
         \A j \in DOMAIN msgs : msgs[j].kind # "restart" => msgs[j].client # c

\* No message and no response is about a session that is yet to come, and a
\* session's start is its first message.
StartsFirst ==
  /\ reply # NoReply => reply.id <= lastId
  /\ \A c \in Client, id \in 1..MaxSession : \A j \in Asked(c, id) :
       /\ id <= lastId
       /\ msgs[j].kind = "start" => \A k \in Asked(c, id) : j <= k

\* Session id of client c gets no response any more: it has ended, or never
\* started, and what is asked of it now is asked of an unknown session.
Silent(c, id) ==
  /\ ~Answering(c, id)
  /\ \A j \in Asked(c, id) : msgs[j].kind # "start"
  /\ \A s \in sessions : ~(s.client = c /\ s.id = id)

AnswersInOrder ==
  \A c \in Client, id \in 1..MaxSession :
    /\ api[c].starting = id => Unanswered(c, id) = <<"start">>
    /\ api[c].starting = 0 /\ api[c].session = id =>
         Unanswered(c, id) = api[c].requests \/ Silent(c, id)

AnswerInv == Known /\ StartsFirst /\ AnswersInOrder

=============================================================================
