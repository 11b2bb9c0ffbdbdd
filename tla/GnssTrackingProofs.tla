------------------------- MODULE GnssTrackingProofs -------------------------
(***************************************************************************)
(* Proofs about GnssTracking: the engine follows the sessions and runs for *)
(* them, sessions do not outlive their client, and an answer finds its     *)
(* request, for any clients, intervals, sessions, failures and restarts.   *)
(*                                                                         *)
(* The engine is always asked for Smallest(..) of some sessions, so the    *)
(* argument needs that sessions have a smallest interval (WellOrdered) and *)
(* that an id picks one of them (IdsOnce).                                 *)
(***************************************************************************)
EXTENDS GnssTracking, SelectionTheorems, TLAPS

-----------------------------------------------------------------------------
(* Sets of sessions. *)

WO(S) == \A T \in SUBSET S :
           T # {} => \E s \in T : \A t \in T : s.interval <= t.interval

LEMMA IntervalsAreNumbers ==
  \A s \in Session : s.interval \in Interval /\ s.interval \in Int /\ s.id \in Int
<1>1. Interval \subseteq Int
  BY GnssTrackingAssumption
<1>2. \A s \in Session : s.interval \in Interval /\ s.id \in 1..MaxSession
  BY DEF Session
<1>3. 1..MaxSession \subseteq Int
  BY GnssTrackingAssumption
<1> QED BY <1>1, <1>2, <1>3

\* With a session more, every subset still has a smallest interval.
LEMMA AddKeepsOrder ==
  ASSUME NEW S \in SUBSET Session, WO(S), NEW x \in Session
  PROVE  WO(S \cup {x})
<1> SUFFICES ASSUME NEW T \in SUBSET (S \cup {x}), T # {}
             PROVE  \E s \in T : \A t \in T : s.interval <= t.interval
  BY DEF WO
<1>0. /\ x.interval \in Int
      /\ \A s \in S : s.interval \in Int
  BY IntervalsAreNumbers
<1>1. CASE T \ {x} = {}
  BY <1>0, <1>1
<1>2. CASE T \ {x} # {}
  <2>1. PICK s \in T \ {x} : \A t \in T \ {x} : s.interval <= t.interval
    BY <1>2 DEF WO
  <2>2. CASE x \in T /\ x.interval < s.interval
    BY <1>0, <2>1, <2>2
  <2>3. CASE x \notin T \/ s.interval <= x.interval
    BY <1>0, <2>1, <2>3
  <2> QED BY <1>0, <2>1, <2>2, <2>3
<1> QED BY <1>1, <1>2

\* Smallest finds the smallest interval.
LEMMA SmallestIs ==
  ASSUME NEW S \in SUBSET Session, WO(S), S # {}
  PROVE  /\ Smallest(S) \in Interval
         /\ \E s \in S : s.interval = Smallest(S)
         /\ \A s \in S : Smallest(S) <= s.interval
<1>1. PICK s \in S : \A t \in S : s.interval <= t.interval
  BY DEF WO
<1>2. s.interval \in {t.interval : t \in S}
  OBVIOUS
<1>3. /\ Smallest(S) \in {t.interval : t \in S}
      /\ \A t \in S : Smallest(S) <= t.interval
  BY <1>1, <1>2 DEF Smallest
<1> QED BY <1>3, IntervalsAreNumbers

\* and only that.
LEMMA SmallestOnly ==
  ASSUME NEW S \in SUBSET Session, WO(S), NEW s \in S,
         \A t \in S : s.interval <= t.interval
  PROVE  Smallest(S) = s.interval
<1>1. PICK t \in S : t.interval = Smallest(S)
  BY SmallestIs
<1>2. Smallest(S) <= s.interval /\ s.interval <= Smallest(S)
  BY <1>1, SmallestIs
<1>3. Smallest(S) \in Int /\ s.interval \in Int
  BY SmallestIs, IntervalsAreNumbers
<1> QED BY <1>2, <1>3

\* One session more: the smallest is its interval or the old one.
LEMMA SmallestOfMore ==
  ASSUME NEW S \in SUBSET Session, WO(S), NEW x \in Session
  PROVE  /\ S = {} \/ x.interval < Smallest(S) => Smallest(S \cup {x}) = x.interval
         /\ S # {} /\ ~(x.interval < Smallest(S)) => Smallest(S \cup {x}) = Smallest(S)
<1>0. WO(S \cup {x}) /\ S \cup {x} \in SUBSET Session
  BY AddKeepsOrder
<1>1. /\ x.interval \in Int
      /\ S # {} => Smallest(S) \in Int
      /\ \A s \in S : s.interval \in Int
  BY SmallestIs, IntervalsAreNumbers
<1>2. ASSUME S = {} \/ x.interval < Smallest(S)
      PROVE  Smallest(S \cup {x}) = x.interval
  <2>1. \A t \in S \cup {x} : x.interval <= t.interval
    BY <1>1, <1>2, SmallestIs
  <2> QED BY <1>0, <2>1, SmallestOnly
<1>3. ASSUME S # {}, ~(x.interval < Smallest(S))
      PROVE  Smallest(S \cup {x}) = Smallest(S)
  <2>1. PICK s \in S : s.interval = Smallest(S)
    BY <1>3, SmallestIs
  <2>2. \A t \in S \cup {x} : s.interval <= t.interval
    BY <1>1, <1>3, <2>1, SmallestIs
  <2> QED BY <1>0, <2>1, <2>2, SmallestOnly
<1> QED BY <1>2, <1>3

\* A subset of sessions with an order has one.
LEMMA SubsetKeepsOrder ==
  ASSUME NEW S, WO(S), NEW R \in SUBSET S
  PROVE  WO(R)
BY DEF WO

-----------------------------------------------------------------------------
(* The engine. *)

\* The engine is off, or it runs at the smallest interval of S.
Follows(e, S) == e # Off => S # {} /\ e = Smallest(S)

MotorOK == /\ engine \in Interval \cup {Off} /\ down \in BOOLEAN
           /\ trouble \in 0..MaxTrouble /\ unstarted \in BOOLEAN

\* What any call leaves: an engine that is off was off, and for the reason it
\* had, unless it was stopped.
SameReason == down' = down /\ (engine' = Off => unstarted' = unstarted)

LEMMA IntervalIsNotOff == \A i \in Interval : i # Off
BY GnssTrackingAssumption DEF Off

LEMMA CountOK ==
  ASSUME MotorOK, NEW ok \in BOOLEAN, ok \in Results, Count(ok)
  PROVE  trouble' \in 0..MaxTrouble
<1>1. trouble \in 0..MaxTrouble /\ MaxTrouble \in Nat
  BY GnssTrackingAssumption DEF MotorOK
<1>2. CASE ok \/ down
  BY <1>1, <1>2 DEF Count
<1>3. CASE ~ok /\ ~down
  <2>1. trouble < MaxTrouble
    BY <1>3 DEF Results
  <2>2. trouble' = trouble + 1
    BY <1>3 DEF Count
  <2> QED BY <1>1, <2>1, <2>2
<1> QED BY <1>2, <1>3

LEMMA StartFixDoes ==
  ASSUME MotorOK, NEW i \in Interval, NEW ok \in BOOLEAN, StartFix(i, ok)
  PROVE  /\ MotorOK' /\ SameReason
         /\ ok => engine' = i
         /\ ~ok => engine' = engine
<1>1. /\ ok => engine' = i
      /\ ~ok => engine' = engine
      /\ down' = down
  BY DEF StartFix
<1>2. ok \in Results /\ Count(ok) /\ unstarted' = (unstarted /\ ~ok)
  BY DEF StartFix
<1>3. trouble' \in 0..MaxTrouble
  BY <1>2, CountOK
<1>4. unstarted' \in BOOLEAN
  BY <1>2, Zenon
<1>5. ~ok => unstarted' = unstarted
  <2> SUFFICES ASSUME ~ok PROVE unstarted' = unstarted
    OBVIOUS
  <2>1. unstarted \in BOOLEAN
    BY DEF MotorOK
  <2> QED BY <1>2, <2>1, Zenon
<1>6. engine' = Off => ~ok
  BY <1>1, IntervalIsNotOff
<1>7. engine' \in Interval \cup {Off} /\ down' \in BOOLEAN
  BY <1>1 DEF MotorOK
<1>8. MotorOK'
  BY <1>3, <1>4, <1>7 DEF MotorOK
<1>9. SameReason
  BY <1>1, <1>5, <1>6 DEF SameReason
<1> QED BY <1>1, <1>8, <1>9

LEMMA StopFixDoes ==
  ASSUME MotorOK, NEW ok \in BOOLEAN, StopFix(ok)
  PROVE  /\ MotorOK' /\ SameReason
         /\ ok => engine' = Off
         /\ ~ok => engine' = engine
<1>1. /\ ok => engine' = Off
      /\ ~ok => engine' = engine
      /\ down' = down /\ unstarted' = unstarted
      /\ ok \in Results /\ Count(ok)
  BY DEF StopFix
<1>2. trouble' \in 0..MaxTrouble
  BY <1>1, CountOK
<1> QED BY <1>1, <1>2 DEF MotorOK, SameReason

LEMMA NoFixDoes ==
  ASSUME MotorOK, NEW ok \in BOOLEAN, NoFix(ok)
  PROVE  MotorOK' /\ SameReason /\ ok /\ engine' = engine
BY DEF NoFix, motor, MotorOK, SameReason

-----------------------------------------------------------------------------
(* The multiplexing. *)

\* A session's id picks the session.
LEMMA IdPicks ==
  ASSUME IdsOnce, NEW s \in sessions
  PROVE  Of(s.id) = s /\ Others(s.id) = sessions \ {s}
<1>1. \A t \in sessions : t.id = s.id <=> t = s
  BY DEF IdsOnce
<1>2. Of(s.id) = s
  BY <1>1 DEF Of
<1>3. Others(s.id) = sessions \ {s}
  BY <1>1 DEF Others
<1> QED BY <1>2, <1>3

\* A new session x.
LEMMA StartMultiplexes ==
  ASSUME MotorOK, sessions \in SUBSET Session, WO(sessions), Follows(engine, sessions),
         NEW x \in Session, NEW ok \in BOOLEAN,
         startTrackingMultiplex(x.interval, ok)
  PROVE  /\ MotorOK' /\ SameReason
         /\ ~ok => engine' = engine
         /\ ok => Follows(engine', sessions \cup {x})
         /\ ok /\ engine' = Off => engine = Off /\ sessions # {}
<1>0. x.interval \in Interval
  BY IntervalsAreNumbers
<1>1. CASE sessions = {} \/ x.interval < Smallest(sessions)
  <2>1. StartFix(x.interval, ok)
    BY <1>1 DEF startTrackingMultiplex
  <2>2. /\ MotorOK' /\ SameReason
        /\ ok => engine' = x.interval
        /\ ~ok => engine' = engine
    BY <1>0, <2>1, StartFixDoes
  <2>3. Smallest(sessions \cup {x}) = x.interval
    BY <1>1, SmallestOfMore
  <2>4. ok => engine' # Off
    BY <1>0, <2>2, IntervalIsNotOff
  <2> QED BY <2>2, <2>3, <2>4 DEF Follows
<1>2. CASE sessions # {} /\ ~(x.interval < Smallest(sessions))
  <2>1. NoFix(ok)
    BY <1>2 DEF startTrackingMultiplex
  <2>2. MotorOK' /\ SameReason /\ ok /\ engine' = engine
    BY <2>1, NoFixDoes
  <2>3. Smallest(sessions \cup {x}) = Smallest(sessions)
    BY <1>2, SmallestOfMore
  <2> QED BY <1>2, <2>2, <2>3 DEF Follows
<1> QED BY <1>1, <1>2

\* The smallest interval without and with session s.
LEMMA SmallestWithout ==
  ASSUME sessions \in SUBSET Session, WO(sessions), NEW s \in sessions,
         sessions \ {s} # {}, ~(s.interval < Smallest(sessions \ {s}))
  PROVE  Smallest(sessions) = Smallest(sessions \ {s})
<1>1. /\ sessions \ {s} \in SUBSET Session /\ WO(sessions \ {s})
      /\ s \in Session /\ (sessions \ {s}) \cup {s} = sessions
  BY SubsetKeepsOrder
<1> QED BY <1>1, SmallestOfMore

\* Session s gets the interval of x.
LEMMA UpdateMultiplexes ==
  ASSUME MotorOK, sessions \in SUBSET Session, WO(sessions), Follows(engine, sessions),
         IdsOnce, NEW s \in sessions, NEW x \in Session, NEW ok \in BOOLEAN,
         updateTrackingMultiplex(s.id, x.interval, ok)
  PROVE  /\ MotorOK' /\ SameReason
         /\ ~ok => engine' = engine
         /\ ok => Follows(engine', (sessions \ {s}) \cup {x})
         /\ ok /\ engine' = Off => engine = Off
<1> DEFINE O == sessions \ {s}
<1>0. /\ x.interval \in Interval
      /\ Of(s.id) = s /\ Others(s.id) = O
      /\ O \in SUBSET Session /\ WO(O)
  BY IntervalsAreNumbers, IdPicks, SubsetKeepsOrder
<1> HIDE DEF O
<1>1. CASE O = {} \/ x.interval < Smallest(O)
  <2>1. StartFix(x.interval, ok)
    BY <1>0, <1>1 DEF updateTrackingMultiplex
  <2>2. /\ MotorOK' /\ SameReason
        /\ ok => engine' = x.interval
        /\ ~ok => engine' = engine
    BY <1>0, <2>1, StartFixDoes
  <2>3. Smallest(O \cup {x}) = x.interval
    BY <1>0, <1>1, SmallestOfMore
  <2>4. ok => engine' # Off
    BY <1>0, <2>2, IntervalIsNotOff
  <2> QED BY <2>2, <2>3, <2>4 DEF Follows, O
<1>2. CASE O # {} /\ ~(x.interval < Smallest(O)) /\ s.interval < Smallest(O)
  <2>0. Smallest(O) \in Interval
    BY <1>0, <1>2, SmallestIs
  <2>1. StartFix(Smallest(O), ok)
    BY <1>0, <1>2 DEF updateTrackingMultiplex
  <2>2. /\ MotorOK' /\ SameReason
        /\ ok => engine' = Smallest(O)
        /\ ~ok => engine' = engine
    BY <2>0, <2>1, StartFixDoes
  <2>3. Smallest(O \cup {x}) = Smallest(O)
    BY <1>0, <1>2, SmallestOfMore
  <2>4. ok => engine' # Off
    BY <2>0, <2>2, IntervalIsNotOff
  <2> QED BY <2>2, <2>3, <2>4 DEF Follows, O
<1>3. CASE O # {} /\ ~(x.interval < Smallest(O)) /\ ~(s.interval < Smallest(O))
  <2>1. NoFix(ok)
    BY <1>0, <1>3 DEF updateTrackingMultiplex
  <2>2. MotorOK' /\ SameReason /\ ok /\ engine' = engine
    BY <2>1, NoFixDoes
  <2>3. Smallest(O \cup {x}) = Smallest(O)
    BY <1>0, <1>3, SmallestOfMore
  <2>4. Smallest(sessions) = Smallest(O)
    BY <1>3, SmallestWithout DEF O
  <2> QED BY <2>2, <2>3, <2>4 DEF Follows, O
<1> QED BY <1>1, <1>2, <1>3

\* Session s ends.
LEMMA StopMultiplexes ==
  ASSUME MotorOK, sessions \in SUBSET Session, WO(sessions), Follows(engine, sessions),
         IdsOnce, NEW s \in sessions, NEW ok \in BOOLEAN,
         stopTrackingMultiplex(s.id, ok)
  PROVE  /\ MotorOK' /\ SameReason
         /\ ~ok => engine' = engine
         /\ ok => Follows(engine', sessions \ {s})
         /\ ok /\ engine' = Off /\ sessions \ {s} # {} => engine = Off
<1> DEFINE O == sessions \ {s}
<1>0. /\ Of(s.id) = s /\ Others(s.id) = O
      /\ O \in SUBSET Session /\ WO(O)
  BY IdPicks, SubsetKeepsOrder
<1> HIDE DEF O
<1>1. CASE O = {}
  <2>1. StopFix(ok)
    BY <1>0, <1>1 DEF stopTrackingMultiplex
  <2>2. /\ MotorOK' /\ SameReason
        /\ ok => engine' = Off
        /\ ~ok => engine' = engine
    BY <2>1, StopFixDoes
  <2> QED BY <1>1, <2>2 DEF Follows, O
<1>2. CASE O # {} /\ s.interval < Smallest(O)
  <2>0. Smallest(O) \in Interval
    BY <1>0, <1>2, SmallestIs
  <2>1. StartFix(Smallest(O), ok)
    BY <1>0, <1>2 DEF stopTrackingMultiplex
  <2>2. /\ MotorOK' /\ SameReason
        /\ ok => engine' = Smallest(O)
        /\ ~ok => engine' = engine
    BY <2>0, <2>1, StartFixDoes
  <2>3. ok => engine' # Off
    BY <2>0, <2>2, IntervalIsNotOff
  <2> QED BY <1>2, <2>2, <2>3 DEF Follows, O
<1>3. CASE O # {} /\ ~(s.interval < Smallest(O))
  <2>1. NoFix(ok)
    BY <1>0, <1>3 DEF stopTrackingMultiplex
  <2>2. MotorOK' /\ SameReason /\ ok /\ engine' = engine
    BY <2>1, NoFixDoes
  <2>3. Smallest(sessions) = Smallest(O)
    BY <1>3, SmallestWithout DEF O
  <2> QED BY <1>3, <2>2, <2>3 DEF Follows, O
<1> QED BY <1>1, <1>2, <1>3

-----------------------------------------------------------------------------
(* Messages. *)

LEMMA MsgFields ==
  ASSUME NEW m \in Msg
  PROVE  /\ m.kind \in {"add", "remove", "start", "update", "stop", "restart"}
         /\ m.kind # "restart" => m.client \in Client
         /\ m.kind \in {"start", "stop", "update"} => m.id \in 1..MaxSession
         /\ m.kind \in {"start", "update"} => m.interval \in Interval
BY DEF Msg

\* What taking a message does to the queue.
LEMMA TakeDoes ==
  ASSUME msgs \in Seq(Msg), NEW kind, Take(kind)
  PROVE  /\ Head(msgs) \in Msg /\ Head(msgs).kind = kind
         /\ 1 \in DOMAIN msgs /\ msgs[1] = Head(msgs)
         /\ msgs' \in Seq(Msg)
         /\ \A j \in DOMAIN msgs' : j + 1 \in DOMAIN msgs /\ msgs'[j] = msgs[j + 1]
         /\ \A j \in DOMAIN msgs : j = 1 \/ (j - 1 \in DOMAIN msgs' /\ msgs'[j - 1] = msgs[j])
<1>1. msgs # <<>> /\ Head(msgs).kind = kind /\ msgs' = Tail(msgs)
  BY DEF Take, AtHead
<1>2. /\ Head(msgs) \in Msg /\ msgs' \in Seq(Msg)
      /\ Len(msgs') = Len(msgs) - 1
      /\ \A j \in 1..Len(msgs') : msgs'[j] = msgs[j + 1]
  BY <1>1, HeadTailProperties
<1>3. Len(msgs) \in Nat /\ Len(msgs) > 0 /\ DOMAIN msgs = 1..Len(msgs)
      /\ DOMAIN msgs' = 1..Len(msgs') /\ msgs[1] = Head(msgs)
  BY <1>1, <1>2
<1> QED BY <1>1, <1>2, <1>3

\* What sending one does.
LEMMA SendDoes ==
  ASSUME msgs \in Seq(Msg), NEW m \in Msg, Send(m)
  PROVE  /\ msgs' \in Seq(Msg)
         /\ \A j \in DOMAIN msgs : j \in DOMAIN msgs' /\ msgs'[j] = msgs[j]
         /\ \A j \in DOMAIN msgs' : (j \in DOMAIN msgs /\ msgs'[j] = msgs[j])
                                    \/ (j \notin DOMAIN msgs /\ msgs'[j] = m)
         /\ \E j \in DOMAIN msgs' : msgs'[j] = m
         /\ \A j, k \in DOMAIN msgs' : j \notin DOMAIN msgs /\ k \notin DOMAIN msgs => j = k
<1>1. msgs' = Append(msgs, m)
  BY DEF Send
<1>2. /\ msgs' \in Seq(Msg) /\ Len(msgs') = Len(msgs) + 1
      /\ \A j \in 1..Len(msgs) : msgs'[j] = msgs[j]
      /\ msgs'[Len(msgs) + 1] = m
  BY <1>1, AppendProperties
<1>3. Len(msgs) \in Nat /\ DOMAIN msgs = 1..Len(msgs) /\ DOMAIN msgs' = 1..Len(msgs')
  BY <1>2
<1> QED BY <1>2, <1>3

-----------------------------------------------------------------------------
(* What a step keeps. *)

Call == [life : {"none", "up", "gone"}, starting : 0..MaxSession,
         tracking : BOOLEAN, session : 0..MaxSession,
         requests : Seq({"start", "stop", "update"})]

ReplyOK == reply \in {NoReply} \cup [kind : {"start", "stop", "update"}, client : Client,
                                     id : 1..MaxSession, ok : BOOLEAN]

LEMMA TypeParts ==
  TypeOK <=> /\ api \in [Client -> Call] /\ lastId \in 0..MaxSession
             /\ msgs \in Seq(Msg) /\ clients \subseteq Client
             /\ sessions \subseteq Session /\ sweep \in 0..MaxSession
             /\ ReplyOK /\ MotorOK /\ unstopped \subseteq 1..MaxSession
BY DEF TypeOK, Call, ReplyOK, MotorOK

TypePrimed ==
  /\ api' \in [Client -> Call] /\ lastId' \in 0..MaxSession
  /\ msgs' \in Seq(Msg) /\ clients' \subseteq Client
  /\ sessions' \subseteq Session /\ sweep' \in 0..MaxSession
  /\ ReplyOK' /\ MotorOK' /\ unstopped' \subseteq 1..MaxSession

LEMMA TypePartsPrimed == TypePrimed => TypeOK'
BY DEF TypePrimed, TypeOK, Call, ReplyOK, MotorOK

IInv == TypeOK /\ Inv

\* The invariant's two parts about the engine, put in terms of this module.
LEMMA InvParts ==
  /\ WellOrdered <=> WO(sessions)
  /\ EngineFollowsSessions <=> Follows(engine, sessions)
BY DEF WellOrdered, WO, EngineFollowsSessions, Follows

LEMMA InvPartsPrimed ==
  /\ WellOrdered' <=> WO(sessions')
  /\ EngineFollowsSessions' <=> Follows(engine', sessions')
BY DEF WellOrdered, WO, EngineFollowsSessions, Follows

Restarting == \E j \in DOMAIN msgs : msgs[j].kind = "restart"

\* The engine still runs, or is off for a reason that was there before.
LEMMA RunsOn ==
  ASSUME EngineRuns, SameReason, Restarting => Restarting',
         engine' = Off /\ sessions' # {} => engine = Off /\ sessions # {}
  PROVE  EngineRuns'
BY DEF EngineRuns, SameReason, Restarting

LEMMA SendKeepsRestart ==
  ASSUME msgs \in Seq(Msg), NEW m \in Msg, Send(m), Restarting
  PROVE  Restarting'
<1>1. PICK j \in DOMAIN msgs : msgs[j].kind = "restart"
  BY DEF Restarting
<1>2. j \in DOMAIN msgs' /\ msgs'[j] = msgs[j]
  BY SendDoes
<1> QED BY <1>1, <1>2 DEF Restarting

LEMMA TakeKeepsRestart ==
  ASSUME msgs \in Seq(Msg), NEW kind, kind # "restart", Take(kind), Restarting
  PROVE  Restarting'
<1>1. PICK j \in DOMAIN msgs : msgs[j].kind = "restart"
  BY DEF Restarting
<1>2. j # 1
  BY <1>1, TakeDoes
<1>3. j - 1 \in DOMAIN msgs' /\ msgs'[j - 1] = msgs[j]
  BY <1>2, TakeDoes
<1> QED BY <1>1, <1>3 DEF Restarting

\* A message that starts nothing.
LEMMA SendKeepsIds ==
  ASSUME msgs \in Seq(Msg), IdsOnce, NEW m \in Msg, m.kind # "start", Send(m),
         lastId' = lastId, sessions' = sessions
  PROVE  IdsOnce'
<1>1. ASSUME NEW j \in DOMAIN msgs', msgs'[j].kind = "start"
      PROVE  j \in DOMAIN msgs /\ msgs'[j] = msgs[j]
  BY <1>1, SendDoes
<1>2. /\ \A s, t \in sessions' : s.id = t.id => s = t
      /\ \A s \in sessions' : s.id <= lastId'
  BY DEF IdsOnce
<1>3. ASSUME NEW j \in DOMAIN msgs', msgs'[j].kind = "start"
      PROVE  /\ msgs'[j].id <= lastId'
             /\ \A s \in sessions' : s.id # msgs'[j].id
             /\ \A k \in DOMAIN msgs' :
                  msgs'[k].kind = "start" /\ msgs'[k].id = msgs'[j].id => k = j
  BY <1>1, <1>3 DEF IdsOnce
<1> QED BY <1>2, <1>3 DEF IdsOnce

\* A message taken, which may have become a session.
LEMMA TakeKeepsIds ==
  ASSUME msgs \in Seq(Msg), IdsOnce, NEW kind, Take(kind),
         \A s, t \in sessions' : s.id = t.id => s = t,
         \A s \in sessions' : \/ \E t \in sessions : t.id = s.id
                              \/ kind = "start" /\ s.id = Head(msgs).id
  PROVE  IdsOnce'
<1>0. lastId' = lastId
  BY DEF Take
<1>1. /\ 1 \in DOMAIN msgs /\ msgs[1] = Head(msgs) /\ Head(msgs).kind = kind
      /\ \A j \in DOMAIN msgs' : j + 1 \in DOMAIN msgs /\ msgs'[j] = msgs[j + 1]
      /\ msgs' \in Seq(Msg)
  BY TakeDoes
<1>2. DOMAIN msgs' = 1..Len(msgs') /\ Len(msgs') \in Nat
  BY <1>1
<1>3. \A s \in sessions' : s.id <= lastId'
  BY <1>0, <1>1 DEF IdsOnce
<1>4. ASSUME NEW j \in DOMAIN msgs', msgs'[j].kind = "start"
      PROVE  /\ msgs'[j].id <= lastId'
             /\ \A s \in sessions' : s.id # msgs'[j].id
             /\ \A k \in DOMAIN msgs' :
                  msgs'[k].kind = "start" /\ msgs'[k].id = msgs'[j].id => k = j
  <2>1. /\ j + 1 \in DOMAIN msgs /\ msgs'[j] = msgs[j + 1]
        /\ msgs[j + 1].kind = "start" /\ j \in Nat /\ j + 1 # 1
    BY <1>1, <1>2, <1>4
  <2>2. msgs'[j].id <= lastId'
    BY <1>0, <2>1 DEF IdsOnce
  <2>3. \A s \in sessions : s.id # msgs'[j].id
    BY <2>1 DEF IdsOnce
  <2>4. kind = "start" => Head(msgs).id # msgs'[j].id
    BY <1>1, <2>1 DEF IdsOnce
  <2>5. ASSUME NEW k \in DOMAIN msgs', msgs'[k].kind = "start", msgs'[k].id = msgs'[j].id
        PROVE  k = j
    <3>1. k + 1 \in DOMAIN msgs /\ msgs'[k] = msgs[k + 1] /\ k \in Nat
      BY <1>1, <1>2
    <3>2. k + 1 = j + 1
      BY <2>1, <2>5, <3>1 DEF IdsOnce
    <3> QED BY <2>1, <3>1, <3>2
  <2> QED BY <2>2, <2>3, <2>4, <2>5
<1> QED BY <1>3, <1>4 DEF IdsOnce

-----------------------------------------------------------------------------
(* The client's steps. *)

\* A step of a client that sends m, which starts nothing.
LEMMA ClientSends ==
  ASSUME IInv, NEW m \in Msg, m.kind # "start", Send(m), api' \in [Client -> Call],
         UNCHANGED <<lastId, adapter, reply, motor, unstopped>>
  PROVE  IInv'
<1>0. /\ lastId' = lastId /\ clients' = clients /\ sessions' = sessions /\ sweep' = sweep
      /\ reply' = reply /\ engine' = engine /\ down' = down /\ trouble' = trouble
      /\ unstarted' = unstarted /\ unstopped' = unstopped
  BY DEF adapter, motor
<1>1. TypeOK /\ IdsOnce /\ WellOrdered /\ EngineFollowsSessions /\ EngineRuns
  BY DEF IInv, Inv
<1>2. msgs \in Seq(Msg) /\ msgs' \in Seq(Msg)
  BY <1>1, TypeParts, SendDoes
<1>3. TypePrimed
  BY <1>0, <1>1, <1>2, TypeParts DEF TypePrimed, ReplyOK, MotorOK
<1>4. IdsOnce'
  BY <1>0, <1>1, <1>2, SendKeepsIds
<1>5. WellOrdered' /\ EngineFollowsSessions'
  BY <1>0, <1>1, InvParts, InvPartsPrimed
<1>6. EngineRuns'
  <2>1. Restarting => Restarting'
    BY <1>2, SendKeepsRestart
  <2> QED BY <1>0, <1>1, <2>1, RunsOn DEF SameReason
<1> QED BY <1>3, <1>4, <1>5, <1>6, TypePartsPrimed DEF IInv, Inv

\* A field of a client's record that is set.
LEMMA FieldSet ==
  ASSUME NEW f \in [Client -> Call], NEW c \in Client
  PROVE  /\ \A v \in {"none", "up", "gone"} : [f EXCEPT ![c].life = v] \in [Client -> Call]
         /\ \A v \in BOOLEAN : [f EXCEPT ![c].tracking = v] \in [Client -> Call]
         /\ \A v \in 0..MaxSession :
              /\ [f EXCEPT ![c].starting = v] \in [Client -> Call]
              /\ [f EXCEPT ![c].session = v] \in [Client -> Call]
         /\ \A v \in Seq({"start", "stop", "update"}) :
              [f EXCEPT ![c].requests = v] \in [Client -> Call]
BY DEF Call

LEMMA CreateKeeps ==
  ASSUME IInv, NEW c \in Client, Create(c)
  PROVE  IInv'
<1>1. api \in [Client -> Call]
  BY TypeParts DEF IInv
<1>2. api' \in [Client -> Call]
  BY <1>1 DEF Create, Call
<1>3. [kind |-> "add", client |-> c] \in Msg
  BY DEF Msg
<1> QED BY <1>2, <1>3, ClientSends DEF Create

LEMMA DestroyKeeps ==
  ASSUME IInv, NEW c \in Client, Destroy(c)
  PROVE  IInv'
<1>1. api \in [Client -> Call]
  BY TypeParts DEF IInv
<1>2. api' \in [Client -> Call]
  <2> DEFINE a1 == [api EXCEPT ![c].life = "gone"]
             a2 == [a1 EXCEPT ![c].tracking = FALSE]
             a3 == [a2 EXCEPT ![c].session = 0]
             a4 == [a3 EXCEPT ![c].requests = <<>>]
  <2>1. 0 \in 0..MaxSession /\ <<>> \in Seq({"start", "stop", "update"})
    BY GnssTrackingAssumption
  <2>2. api' = a4
    BY DEF Destroy
  <2>3. a1 \in [Client -> Call]
    BY <1>1, FieldSet
  <2> HIDE DEF a1
  <2>4. a2 \in [Client -> Call]
    BY <2>3, FieldSet
  <2> HIDE DEF a2
  <2>5. a3 \in [Client -> Call]
    BY <2>1, <2>4, FieldSet
  <2> HIDE DEF a3
  <2>6. a4 \in [Client -> Call]
    BY <2>1, <2>5, FieldSet
  <2> QED BY <2>2, <2>6
<1>3. [kind |-> "remove", client |-> c] \in Msg
  BY DEF Msg
<1> QED BY <1>2, <1>3, ClientSends DEF Destroy

\* What a request leaves of the client.
LEMMA RequestDoes ==
  ASSUME IInv, NEW c \in Client, NEW kind \in {"stop", "update"}, Request(c, kind)
  PROVE  api' \in [Client -> Call] /\ api[c].session \in 1..MaxSession
<1>1. api \in [Client -> Call] /\ api[c] \in Call
  BY TypeParts DEF IInv
<1>2. api[c].session \in 1..MaxSession
  BY <1>1, GnssTrackingAssumption DEF Request, Call
<1>3. Append(api[c].requests, kind) \in Seq({"start", "stop", "update"})
  BY <1>1 DEF Call
<1>4. (api[c].tracking /\ kind # "stop") \in BOOLEAN
  BY Zenon
<1>5. api' \in [Client -> Call]
  BY <1>1, <1>3, <1>4 DEF Request, Call
<1> QED BY <1>2, <1>5

LEMMA StopKeeps ==
  ASSUME IInv, NEW c \in Client, Stop(c)
  PROVE  IInv'
<1>1. api' \in [Client -> Call] /\ api[c].session \in 1..MaxSession
  BY RequestDoes DEF Stop
<1>2. [kind |-> "stop", client |-> c, id |-> api[c].session] \in Msg
  BY <1>1 DEF Msg
<1> QED BY <1>1, <1>2, ClientSends DEF Stop, Request

LEMMA UpdateKeeps ==
  ASSUME IInv, NEW c \in Client, NEW i \in Interval, Update(c, i)
  PROVE  IInv'
<1>1. api' \in [Client -> Call] /\ api[c].session \in 1..MaxSession
  BY RequestDoes DEF Update
<1>2. [kind |-> "update", client |-> c, id |-> api[c].session, interval |-> i] \in Msg
  BY <1>1 DEF Msg
<1> QED BY <1>1, <1>2, ClientSends DEF Update, Request

LEMMA StartCallKeeps ==
  ASSUME IInv, NEW c \in Client, NEW i \in Interval, StartCall(c, i)
  PROVE  IInv'
<1> DEFINE m == [kind |-> "start", client |-> c, id |-> lastId', interval |-> i]
<1>0. /\ clients' = clients /\ sessions' = sessions /\ sweep' = sweep
      /\ reply' = reply /\ engine' = engine /\ down' = down /\ trouble' = trouble
      /\ unstarted' = unstarted /\ unstopped' = unstopped
      /\ lastId < MaxSession /\ lastId' = lastId + 1 /\ Send(m)
      /\ api' = [api EXCEPT ![c].starting = lastId']
  BY DEF StartCall, adapter, motor
<1>1. TypeOK /\ IdsOnce /\ WellOrdered /\ EngineFollowsSessions /\ EngineRuns
  BY DEF IInv, Inv
<1>2. lastId' \in 1..MaxSession /\ lastId' \in 0..MaxSession /\ lastId \in Nat
  BY <1>0, <1>1, TypeParts, GnssTrackingAssumption
<1>3. m \in Msg /\ m.kind = "start" /\ m.id = lastId'
  BY <1>2 DEF Msg
<1> HIDE DEF m
<1>4. msgs \in Seq(Msg) /\ msgs' \in Seq(Msg)
  BY <1>0, <1>1, <1>3, TypeParts, SendDoes
<1>5. api' \in [Client -> Call]
  BY <1>0, <1>1, <1>2, TypeParts DEF Call
<1>6. TypePrimed
  BY <1>0, <1>1, <1>2, <1>4, <1>5, TypeParts DEF TypePrimed, ReplyOK, MotorOK
<1>7. IdsOnce'
  <2>1. \A s \in sessions : s.id \in Int /\ s.id <= lastId
    BY <1>1, TypeParts, IntervalsAreNumbers DEF IdsOnce
  <2>2. /\ \A s, t \in sessions' : s.id = t.id => s = t
        /\ \A s \in sessions' : s.id <= lastId' /\ s.id # lastId'
    BY <1>0, <1>1, <1>2, <2>1 DEF IdsOnce
  <2>3. ASSUME NEW j \in DOMAIN msgs, msgs[j].kind = "start"
        PROVE  msgs[j].id <= lastId' /\ msgs[j].id # lastId'
    <3>1. msgs[j] \in Msg /\ msgs[j].id <= lastId
      BY <1>1, <1>4, <2>3 DEF IdsOnce
    <3>2. msgs[j].id \in 1..MaxSession
      BY <2>3, <3>1, MsgFields
    <3> QED BY <1>0, <1>2, <3>1, <3>2
  <2>4. ASSUME NEW j \in DOMAIN msgs', msgs'[j].kind = "start"
        PROVE  /\ msgs'[j].id <= lastId'
               /\ \A s \in sessions' : s.id # msgs'[j].id
               /\ \A k \in DOMAIN msgs' :
                    msgs'[k].kind = "start" /\ msgs'[k].id = msgs'[j].id => k = j
    <3>1. /\ \A k \in DOMAIN msgs' : \/ k \in DOMAIN msgs /\ msgs'[k] = msgs[k]
                                     \/ k \notin DOMAIN msgs /\ msgs'[k] = m
          /\ \A k, l \in DOMAIN msgs' : k \notin DOMAIN msgs /\ l \notin DOMAIN msgs => k = l
      BY <1>0, <1>3, <1>4, SendDoes
    <3>2. CASE j \in DOMAIN msgs /\ msgs'[j] = msgs[j]
      <4>1. msgs'[j].id <= lastId' /\ msgs'[j].id # lastId'
        BY <2>3, <2>4, <3>2
      <4>2. \A s \in sessions' : s.id # msgs'[j].id
        BY <1>0, <1>1, <2>4, <3>2 DEF IdsOnce
      <4>3. ASSUME NEW k \in DOMAIN msgs', msgs'[k].kind = "start", msgs'[k].id = msgs'[j].id
            PROVE  k = j
        <5>1. k \in DOMAIN msgs /\ msgs'[k] = msgs[k]
          BY <1>3, <3>1, <4>1, <4>3
        <5> QED BY <1>1, <2>4, <3>2, <4>3, <5>1 DEF IdsOnce
      <4> QED BY <4>1, <4>2, <4>3
    <3>3. CASE j \notin DOMAIN msgs /\ msgs'[j] = m
      <4>1. msgs'[j].id = lastId' /\ lastId' <= lastId'
        BY <1>2, <1>3, <3>3
      <4>2. ASSUME NEW k \in DOMAIN msgs', msgs'[k].kind = "start", msgs'[k].id = msgs'[j].id
            PROVE  k = j
        BY <2>3, <3>1, <3>3, <4>1, <4>2
      <4> QED BY <2>2, <4>1, <4>2
    <3> QED BY <3>1, <3>2, <3>3
  <2> QED BY <2>2, <2>4 DEF IdsOnce
<1>8. WellOrdered' /\ EngineFollowsSessions'
  BY <1>0, <1>1, InvParts, InvPartsPrimed
<1>9. EngineRuns'
  <2>1. Restarting => Restarting'
    BY <1>0, <1>3, <1>4, SendKeepsRestart
  <2> QED BY <1>0, <1>1, <2>1, RunsOn DEF SameReason
<1> QED BY <1>6, <1>7, <1>8, <1>9, TypePartsPrimed DEF IInv, Inv

LEMMA StartReturnKeeps ==
  ASSUME IInv, NEW c \in Client, StartReturn(c)
  PROVE  IInv'
<1>0. /\ lastId' = lastId /\ clients' = clients /\ sessions' = sessions /\ sweep' = sweep
      /\ reply' = reply /\ engine' = engine /\ down' = down /\ trouble' = trouble
      /\ unstarted' = unstarted /\ unstopped' = unstopped /\ msgs' = msgs
  BY DEF StartReturn, adapter, motor
<1>1. TypeOK /\ Inv
  BY DEF IInv
<1>2. api \in [Client -> Call] /\ api[c] \in Call
  BY <1>1, TypeParts
<1>3. api' \in [Client -> Call]
  <2> DEFINE a1 == [api EXCEPT ![c].starting = 0]
             a2 == [a1 EXCEPT ![c].tracking = TRUE]
             a3 == [a2 EXCEPT ![c].session = api[c].starting]
             a4 == [a3 EXCEPT ![c].requests = <<"start">>]
  <2>1. /\ 0 \in 0..MaxSession /\ <<"start">> \in Seq({"start", "stop", "update"})
        /\ api[c].starting \in 0..MaxSession
    BY <1>2, GnssTrackingAssumption DEF Call
  <2>2. api' = a4
    BY DEF StartReturn
  <2>3. a1 \in [Client -> Call]
    BY <1>2, <2>1, FieldSet
  <2> HIDE DEF a1
  <2>4. a2 \in [Client -> Call]
    BY <2>3, FieldSet
  <2> HIDE DEF a2
  <2>5. a3 \in [Client -> Call]
    BY <2>1, <2>4, FieldSet
  <2> HIDE DEF a3
  <2>6. a4 \in [Client -> Call]
    BY <2>1, <2>5, FieldSet
  <2> QED BY <2>2, <2>6
<1>4. TypePrimed
  BY <1>0, <1>1, <1>3, TypeParts DEF TypePrimed, ReplyOK, MotorOK
<1>5. Inv'
  BY <1>0, <1>1
     DEF Inv, IdsOnce, WellOrdered, EngineFollowsSessions, EngineRuns, Smallest
<1> QED BY <1>4, <1>5, TypePartsPrimed DEF IInv

-----------------------------------------------------------------------------
(* The adapter's steps. *)

LEMMA ReplyKeeps ==
  ASSUME IInv, Reply
  PROVE  IInv'
<1>0. /\ lastId' = lastId /\ clients' = clients /\ sessions' = sessions /\ sweep' = sweep
      /\ engine' = engine /\ down' = down /\ trouble' = trouble
      /\ unstarted' = unstarted /\ unstopped' = unstopped /\ msgs' = msgs
      /\ reply' = NoReply
  BY DEF Reply, adapter, motor
<1>1. TypeOK /\ Inv
  BY DEF IInv
<1>2. api' \in [Client -> Call]
  <2> DEFINE c == reply.client
  <2>1. api \in [Client -> Call] /\ c \in Client
    BY <1>1, TypeParts DEF Reply, ReplyOK
  <2>2. CASE api[c].session = reply.id /\ api[c].requests # <<>>
    <3>1. api' = [api EXCEPT ![c].requests = Tail(api[c].requests)]
      BY <2>2 DEF Reply
    <3>2. Tail(api[c].requests) \in Seq({"start", "stop", "update"})
      <4>1. api[c].requests \in Seq({"start", "stop", "update"})
        BY <2>1 DEF Call
      <4> QED BY <2>2, <4>1
    <3> HIDE DEF c
    <3> QED BY <2>1, <3>1, <3>2, FieldSet
  <2>3. CASE ~(api[c].session = reply.id /\ api[c].requests # <<>>)
    BY <2>1, <2>3 DEF Reply
  <2> QED BY <2>2, <2>3
<1>3. ReplyOK'
  BY <1>0 DEF ReplyOK
<1>4. TypePrimed
  BY <1>0, <1>1, <1>2, <1>3, TypeParts DEF TypePrimed, MotorOK
<1>5. Inv'
  BY <1>0, <1>1
     DEF Inv, IdsOnce, WellOrdered, EngineFollowsSessions, EngineRuns, Smallest
<1> QED BY <1>4, <1>5, TypePartsPrimed DEF IInv

\* A message that is taken and touches neither the sessions nor the engine.
LEMMA TakeOnly ==
  ASSUME IInv, NEW kind, kind # "restart", Take(kind),
         UNCHANGED <<sessions, motor, unstopped>>,
         clients' \subseteq Client, sweep' \in 0..MaxSession, ReplyOK'
  PROVE  IInv'
<1>0. /\ api' = api /\ lastId' = lastId /\ sessions' = sessions
      /\ engine' = engine /\ down' = down /\ trouble' = trouble
      /\ unstarted' = unstarted /\ unstopped' = unstopped
  BY DEF motor, Take
<1>1. TypeOK /\ IdsOnce /\ WellOrdered /\ EngineFollowsSessions /\ EngineRuns
  BY DEF IInv, Inv
<1>2. msgs \in Seq(Msg) /\ msgs' \in Seq(Msg)
  BY <1>1, TypeParts, TakeDoes
<1>3. TypePrimed
  BY <1>0, <1>1, <1>2, TypeParts DEF TypePrimed, MotorOK
<1>4. IdsOnce'
  <2>1. \A s, t \in sessions' : s.id = t.id => s = t
    BY <1>0, <1>1 DEF IdsOnce
  <2> QED BY <1>0, <1>1, <1>2, <2>1, TakeKeepsIds
<1>5. WellOrdered' /\ EngineFollowsSessions'
  BY <1>0, <1>1, InvParts, InvPartsPrimed
<1>6. EngineRuns'
  <2>1. Restarting => Restarting'
    BY <1>2, TakeKeepsRestart
  <2> QED BY <1>0, <1>1, <2>1, RunsOn DEF SameReason
<1> QED BY <1>3, <1>4, <1>5, <1>6, TypePartsPrimed DEF IInv, Inv

LEMMA saveClientKeeps ==
  ASSUME IInv, saveClient
  PROVE  IInv'
<1>1. Head(msgs) \in Msg /\ Head(msgs).kind = "add"
  BY TypeParts, TakeDoes DEF saveClient, IInv
<1>2. Head(msgs).client \in Client
  BY <1>1, MsgFields
<1>3. clients' \subseteq Client /\ sweep' \in 0..MaxSession /\ ReplyOK'
  BY <1>2, TypeParts DEF saveClient, IInv, ReplyOK
<1> QED BY <1>3, TakeOnly DEF saveClient

LEMMA eraseClientKeeps ==
  ASSUME IInv, eraseClient
  PROVE  IInv'
<1>1. clients' \subseteq Client /\ sweep' \in 0..MaxSession /\ ReplyOK'
  BY TypeParts, GnssTrackingAssumption DEF eraseClient, IInv, ReplyOK
<1> QED BY <1>1, TakeOnly DEF eraseClient

LEMMA UnknownSessionKeeps ==
  ASSUME IInv, NEW kind \in {"update", "stop"}, UnknownSession(kind)
  PROVE  IInv'
<1>1. clients' \subseteq Client /\ sweep' \in 0..MaxSession /\ ReplyOK'
  BY TypeParts DEF UnknownSession, IInv, ReplyOK, adapter
<1> QED BY <1>1, TakeOnly DEF UnknownSession, adapter

LEMMA ResponseOK ==
  ASSUME NEW m \in Msg, m.kind \in {"start", "stop", "update"}, NEW ok \in BOOLEAN,
         reportResponse(m, ok)
  PROVE  ReplyOK'
BY MsgFields DEF reportResponse, ReplyOK

LEMMA StartKeeps ==
  ASSUME IInv, MsgStartTracking
  PROVE  IInv'
<1> DEFINE m == Head(msgs)
           x == [client |-> m.client, id |-> m.id, interval |-> m.interval]
<1>0. /\ Take("start") /\ api' = api /\ lastId' = lastId
      /\ clients' = clients /\ sweep' = sweep /\ unstopped' = unstopped
  BY DEF MsgStartTracking, Take
<1>1. /\ TypeOK /\ IdsOnce /\ WellOrdered /\ EngineFollowsSessions /\ EngineRuns
      /\ MotorOK /\ sessions \in SUBSET Session /\ msgs \in Seq(Msg)
      /\ WO(sessions) /\ Follows(engine, sessions)
  BY TypeParts, InvParts DEF IInv, Inv
<1>2. /\ m \in Msg /\ m.kind = "start" /\ msgs' \in Seq(Msg)
      /\ 1 \in DOMAIN msgs /\ msgs[1] = m
  BY <1>0, <1>1, TakeDoes
<1>3. x \in Session /\ x.interval = m.interval /\ x.id = m.id
  BY <1>2, MsgFields DEF Session
<1>4. PICK ok \in BOOLEAN :
        /\ IF m.client \in clients
             THEN startTrackingMultiplex(m.interval, ok)
             ELSE ~ok /\ UNCHANGED motor
        /\ sessions' = IF ok THEN sessions \cup {x} ELSE sessions
        /\ reportResponse(m, ok)
  BY DEF MsgStartTracking
<1>5. \A s \in sessions : s.id # x.id
  BY <1>1, <1>2, <1>3 DEF IdsOnce
<1> HIDE DEF x, m
<1>6. /\ MotorOK' /\ SameReason
      /\ ~ok => engine' = engine
      /\ ok => Follows(engine', sessions \cup {x})
      /\ ok /\ engine' = Off => engine = Off /\ sessions # {}
  <2>1. CASE m.client \in clients
    <3>1. startTrackingMultiplex(x.interval, ok)
      BY <1>3, <1>4, <2>1
    <3> QED BY <1>1, <1>3, <3>1, StartMultiplexes
  <2>2. CASE m.client \notin clients
    BY <1>1, <1>4, <2>2 DEF motor, MotorOK, SameReason
  <2> QED BY <2>1, <2>2
<1>7. /\ ok => sessions' = sessions \cup {x}
      /\ ~ok => sessions' = sessions
  BY <1>4
<1>8. TypePrimed
  <2>1. ReplyOK'
    BY <1>2, <1>4, ResponseOK
  <2>2. sessions' \subseteq Session
    BY <1>1, <1>3, <1>7
  <2> QED BY <1>0, <1>1, <1>2, <1>6, <2>1, <2>2, TypeParts DEF TypePrimed
<1>9. IdsOnce'
  <2>1. \A s, t \in sessions' : s.id = t.id => s = t
    BY <1>1, <1>5, <1>7 DEF IdsOnce
  <2>2. \A s \in sessions' : (\E t \in sessions : t.id = s.id) \/ s.id = Head(msgs).id
    BY <1>3, <1>7 DEF m
  <2> QED BY <1>0, <1>1, <2>1, <2>2, TakeKeepsIds
<1>10. WellOrdered' /\ EngineFollowsSessions'
  <2>1. WO(sessions')
    BY <1>1, <1>3, <1>7, AddKeepsOrder
  <2>2. Follows(engine', sessions')
    BY <1>1, <1>6, <1>7
  <2> QED BY <2>1, <2>2, InvPartsPrimed
<1>11. EngineRuns'
  <2>1. Restarting => Restarting'
    BY <1>0, <1>1, TakeKeepsRestart
  <2>2. engine' = Off /\ sessions' # {} => engine = Off /\ sessions # {}
    BY <1>6, <1>7
  <2> QED BY <1>1, <1>6, <2>1, <2>2, RunsOn
<1> QED BY <1>8, <1>9, <1>10, <1>11, TypePartsPrimed DEF IInv, Inv

LEMMA UpdateTrackingKeeps ==
  ASSUME IInv, Take("update"), isTrackingSession(Head(msgs)),
         NEW ok \in BOOLEAN,
         updateTrackingMultiplex(Head(msgs).id, Head(msgs).interval, ok),
         sessions' = IF ok
           THEN Others(Head(msgs).id)
                \cup {[Of(Head(msgs).id) EXCEPT !.interval = Head(msgs).interval]}
           ELSE sessions,
         reportResponse(Head(msgs), ok),
         UNCHANGED <<clients, sweep, unstopped>>
  PROVE  IInv'
<1> DEFINE m == Head(msgs)
<1>0. /\ Take("update") /\ api' = api /\ lastId' = lastId
      /\ clients' = clients /\ sweep' = sweep /\ unstopped' = unstopped
  BY DEF Take
<1>1. /\ TypeOK /\ IdsOnce /\ WellOrdered /\ EngineFollowsSessions /\ EngineRuns
      /\ MotorOK /\ sessions \in SUBSET Session /\ msgs \in Seq(Msg)
      /\ WO(sessions) /\ Follows(engine, sessions)
  BY TypeParts, InvParts DEF IInv, Inv
<1>2. m \in Msg /\ m.kind = "update" /\ msgs' \in Seq(Msg)
  BY <1>0, <1>1, TakeDoes
<1>3. PICK s \in sessions : s.id = m.id
  BY DEF isTrackingSession
<1> DEFINE x == [s EXCEPT !.interval = m.interval]
<1>4. x \in Session /\ x.interval = m.interval /\ x.id = s.id
  BY <1>1, <1>2, MsgFields DEF Session
<1>5. Of(m.id) = s /\ Others(m.id) = sessions \ {s}
  BY <1>1, <1>3, IdPicks
<1>6. /\ ok => sessions' = (sessions \ {s}) \cup {x}
      /\ ~ok => sessions' = sessions
      /\ updateTrackingMultiplex(s.id, x.interval, ok)
      /\ reportResponse(m, ok)
  BY <1>3, <1>4, <1>5
<1> HIDE DEF x, m
<1>7. /\ MotorOK' /\ SameReason
      /\ ~ok => engine' = engine
      /\ ok => Follows(engine', (sessions \ {s}) \cup {x})
      /\ ok /\ engine' = Off => engine = Off
  BY <1>1, <1>4, <1>6, UpdateMultiplexes
<1>8. TypePrimed
  <2>1. ReplyOK'
    BY <1>2, <1>6, ResponseOK
  <2>2. sessions' \subseteq Session
    BY <1>1, <1>4, <1>6
  <2> QED BY <1>0, <1>1, <1>2, <1>7, <2>1, <2>2, TypeParts DEF TypePrimed
<1>9. IdsOnce'
  <2>1. \A t \in sessions : t.id = x.id => t = s
    BY <1>1, <1>4 DEF IdsOnce
  <2>2. \A t, u \in sessions' : t.id = u.id => t = u
    BY <1>1, <1>6, <2>1 DEF IdsOnce
  <2>3. \A t \in sessions' : \E u \in sessions : u.id = t.id
    BY <1>4, <1>6
  <2> QED BY <1>0, <1>1, <2>2, <2>3, TakeKeepsIds
<1>10. WellOrdered' /\ EngineFollowsSessions'
  <2>1. WO(sessions \ {s})
    BY <1>1, SubsetKeepsOrder
  <2>2. WO((sessions \ {s}) \cup {x})
    BY <1>1, <1>4, <2>1, AddKeepsOrder
  <2>3. WO(sessions')
    BY <1>1, <1>6, <2>2
  <2>4. Follows(engine', sessions')
    BY <1>1, <1>6, <1>7
  <2> QED BY <2>3, <2>4, InvPartsPrimed
<1>11. EngineRuns'
  <2>1. Restarting => Restarting'
    BY <1>0, <1>1, TakeKeepsRestart
  <2>2. engine' = Off /\ sessions' # {} => engine = Off /\ sessions # {}
    BY <1>6, <1>7
  <2> QED BY <1>1, <1>7, <2>1, <2>2, RunsOn
<1> QED BY <1>8, <1>9, <1>10, <1>11, TypePartsPrimed DEF IInv, Inv

LEMMA UpdateMsgKeeps ==
  ASSUME IInv, MsgUpdateTracking
  PROVE  IInv'
<1>1. CASE UnknownSession("update")
  BY <1>1, UnknownSessionKeeps
<1>2. CASE ~UnknownSession("update")
  BY <1>2, UpdateTrackingKeeps DEF MsgUpdateTracking
<1> QED BY <1>1, <1>2

\* What the end of a session leaves, the message queue aside.
LEMMA EndSessionDoes ==
  ASSUME IInv, NEW s \in sessions, NEW ok \in BOOLEAN, EndSession(s.id, ok)
  PROVE  /\ MotorOK' /\ SameReason /\ sessions' \subseteq sessions
         /\ unstopped' \subseteq 1..MaxSession
         /\ WO(sessions') /\ Follows(engine', sessions')
         /\ engine' = Off /\ sessions' # {} => engine = Off /\ sessions # {}
<1>1. /\ IdsOnce /\ MotorOK /\ sessions \in SUBSET Session
      /\ WO(sessions) /\ Follows(engine, sessions) /\ unstopped \subseteq 1..MaxSession
  BY TypeParts, InvParts DEF IInv, Inv
<1>2. s.id \in 1..MaxSession
  BY <1>1 DEF Session
<1>3. /\ stopTrackingMultiplex(s.id, ok)
      /\ ok => sessions' = sessions \ {s}
      /\ ~ok => sessions' = sessions
      /\ unstopped' \subseteq 1..MaxSession
  BY <1>1, <1>2, IdPicks DEF EndSession
<1>4. /\ MotorOK' /\ SameReason
      /\ ~ok => engine' = engine
      /\ ok => Follows(engine', sessions \ {s})
      /\ ok /\ engine' = Off /\ sessions \ {s} # {} => engine = Off
  BY <1>1, <1>3, StopMultiplexes
<1>5. WO(sessions')
  BY <1>1, <1>3, SubsetKeepsOrder
<1>6. Follows(engine', sessions')
  BY <1>1, <1>3, <1>4
<1> QED BY <1>3, <1>4, <1>5, <1>6

LEMMA StopTrackingKeeps ==
  ASSUME IInv, Take("stop"), isTrackingSession(Head(msgs)),
         NEW ok \in BOOLEAN, EndSession(Head(msgs).id, ok),
         reportResponse(Head(msgs), ok),
         UNCHANGED <<clients, sweep>>
  PROVE  IInv'
<1>0. api' = api /\ lastId' = lastId /\ clients' = clients /\ sweep' = sweep
  BY DEF Take
<1>1. /\ TypeOK /\ IdsOnce /\ EngineRuns /\ sessions \in SUBSET Session
      /\ msgs \in Seq(Msg)
  BY TypeParts DEF IInv, Inv
<1>2. Head(msgs) \in Msg /\ Head(msgs).kind = "stop" /\ msgs' \in Seq(Msg)
  BY <1>1, TakeDoes
<1>3. PICK s \in sessions : s.id = Head(msgs).id
  BY DEF isTrackingSession
<1>4. /\ MotorOK' /\ SameReason /\ sessions' \subseteq sessions
      /\ unstopped' \subseteq 1..MaxSession
      /\ WO(sessions') /\ Follows(engine', sessions')
      /\ engine' = Off /\ sessions' # {} => engine = Off /\ sessions # {}
  BY <1>3, EndSessionDoes
<1>5. TypePrimed
  <2>1. ReplyOK'
    BY <1>2, ResponseOK
  <2> QED BY <1>0, <1>1, <1>2, <1>4, <2>1, TypeParts DEF TypePrimed
<1>6. IdsOnce'
  <2>1. \A t, u \in sessions' : t.id = u.id => t = u
    BY <1>1, <1>4 DEF IdsOnce
  <2>2. \A t \in sessions' : \E u \in sessions : u.id = t.id
    BY <1>4
  <2> QED BY <1>1, <2>1, <2>2, TakeKeepsIds
<1>7. EngineRuns'
  <2>1. Restarting => Restarting'
    BY <1>1, TakeKeepsRestart
  <2> QED BY <1>1, <1>4, <2>1, RunsOn
<1> QED BY <1>4, <1>5, <1>6, <1>7, TypePartsPrimed, InvPartsPrimed DEF IInv, Inv

LEMMA StopMsgKeeps ==
  ASSUME IInv, MsgStopTracking
  PROVE  IInv'
<1>1. CASE UnknownSession("stop")
  BY <1>1, UnknownSessionKeeps
<1>2. CASE ~UnknownSession("stop")
  BY <1>2, StopTrackingKeeps DEF MsgStopTracking
<1> QED BY <1>1, <1>2

LEMMA StopClientKeeps ==
  ASSUME IInv, stopClientSessions
  PROVE  IInv'
<1>0. api' = api /\ lastId' = lastId /\ msgs' = msgs /\ clients' = clients /\ reply' = reply
  BY DEF stopClientSessions
<1>1. /\ TypeOK /\ IdsOnce /\ EngineRuns /\ sessions \in SUBSET Session
      /\ msgs \in Seq(Msg)
  BY TypeParts DEF IInv, Inv
<1>2. PICK s \in sessions, ok \in BOOLEAN : EndSession(s.id, ok) /\ sweep' = s.id
  BY DEF stopClientSessions, Unswept
<1>3. /\ MotorOK' /\ SameReason /\ sessions' \subseteq sessions
      /\ unstopped' \subseteq 1..MaxSession
      /\ WO(sessions') /\ Follows(engine', sessions')
      /\ engine' = Off /\ sessions' # {} => engine = Off /\ sessions # {}
  BY <1>2, EndSessionDoes
<1>4. TypePrimed
  <2>1. s.id \in 0..MaxSession
    BY <1>1, GnssTrackingAssumption DEF Session
  <2> QED BY <1>0, <1>1, <1>2, <1>3, <2>1, TypeParts DEF TypePrimed, ReplyOK
<1>5. IdsOnce'
  BY <1>0, <1>1, <1>3 DEF IdsOnce
<1>6. EngineRuns'
  <2>1. Restarting => Restarting'
    BY <1>0 DEF Restarting
  <2> QED BY <1>1, <1>3, <2>1, RunsOn
<1> QED BY <1>3, <1>4, <1>5, <1>6, TypePartsPrimed, InvPartsPrimed DEF IInv, Inv

LEMMA RestartKeeps ==
  ASSUME IInv, restartSessions
  PROVE  IInv'
<1>0. /\ Take("restart") /\ api' = api /\ lastId' = lastId
      /\ clients' = clients /\ sessions' = sessions /\ sweep' = sweep
      /\ reply' = reply /\ unstopped' = unstopped
  BY DEF restartSessions, adapter, Take
<1>1. /\ TypeOK /\ IdsOnce /\ EngineRuns /\ sessions \in SUBSET Session
      /\ msgs \in Seq(Msg) /\ MotorOK /\ WO(sessions) /\ Follows(engine, sessions)
  BY TypeParts, InvParts DEF IInv, Inv
<1>2. msgs' \in Seq(Msg)
  BY <1>0, <1>1, TakeDoes
<1>3. /\ MotorOK' /\ Follows(engine', sessions)
      /\ sessions # {} /\ engine' = Off => unstarted'
  <2>1. CASE sessions = {}
    BY <1>1, <2>1 DEF restartSessions, motor, MotorOK
  <2>2. CASE sessions # {}
    <3>1. PICK ok \in BOOLEAN :
            /\ engine' = IF ok THEN Smallest(sessions) ELSE engine
            /\ unstarted' = ~ok
            /\ down' = down /\ trouble' = trouble
      BY <2>2 DEF restartSessions
    <3>2. Smallest(sessions) \in Interval /\ Smallest(sessions) # Off
      BY <1>1, <2>2, SmallestIs, IntervalIsNotOff
    <3>3. CASE ok
      BY <1>1, <2>2, <3>1, <3>2, <3>3 DEF MotorOK, Follows
    <3>4. CASE ~ok
      BY <1>1, <2>2, <3>1, <3>4 DEF MotorOK
    <3> QED BY <3>3, <3>4
  <2> QED BY <2>1, <2>2
<1>4. TypePrimed
  BY <1>0, <1>1, <1>2, <1>3, TypeParts DEF TypePrimed, ReplyOK
<1>5. IdsOnce'
  <2>1. \A s, t \in sessions' : s.id = t.id => s = t
    BY <1>0, <1>1 DEF IdsOnce
  <2> QED BY <1>0, <1>1, <2>1, TakeKeepsIds
<1>6. WellOrdered' /\ EngineFollowsSessions'
  BY <1>0, <1>1, <1>3, InvPartsPrimed
<1>7. EngineRuns'
  BY <1>0, <1>3 DEF EngineRuns
<1> QED BY <1>4, <1>5, <1>6, <1>7, TypePartsPrimed DEF IInv, Inv

-----------------------------------------------------------------------------
(* The engine's own steps. *)

LEMMA DownKeeps ==
  ASSUME IInv, EngineDown
  PROVE  IInv'
<1>0. /\ api' = api /\ lastId' = lastId /\ msgs' = msgs
      /\ clients' = clients /\ sessions' = sessions /\ sweep' = sweep
      /\ reply' = reply /\ unstopped' = unstopped /\ unstarted' = unstarted
      /\ down' = TRUE /\ engine' = Off /\ trouble < MaxTrouble /\ trouble' = trouble + 1
  BY DEF EngineDown, adapter
<1>1. TypeOK /\ IdsOnce /\ WellOrdered /\ MotorOK
  BY TypeParts DEF IInv, Inv
<1>2. trouble' \in 0..MaxTrouble
  BY <1>0, <1>1, GnssTrackingAssumption DEF MotorOK
<1>3. TypePrimed
  BY <1>0, <1>1, <1>2, TypeParts DEF TypePrimed, ReplyOK, MotorOK
<1>4. IdsOnce' /\ WellOrdered' /\ EngineFollowsSessions' /\ EngineRuns'
  BY <1>0, <1>1 DEF IdsOnce, WellOrdered, EngineFollowsSessions, EngineRuns
<1> QED BY <1>3, <1>4, TypePartsPrimed DEF IInv, Inv

LEMMA UpKeeps ==
  ASSUME IInv, EngineUp
  PROVE  IInv'
<1> DEFINE m == [kind |-> "restart"]
<1>0. /\ api' = api /\ lastId' = lastId /\ Send(m)
      /\ clients' = clients /\ sessions' = sessions /\ sweep' = sweep
      /\ reply' = reply /\ unstopped' = unstopped /\ unstarted' = unstarted
      /\ down' = FALSE /\ engine' = engine /\ trouble' = trouble
  BY DEF EngineUp, adapter
<1>1. TypeOK /\ IdsOnce /\ WellOrdered /\ EngineFollowsSessions /\ MotorOK
      /\ msgs \in Seq(Msg)
  BY TypeParts DEF IInv, Inv
<1>2. m \in Msg /\ m.kind = "restart"
  BY DEF Msg
<1> HIDE DEF m
<1>3. msgs' \in Seq(Msg) /\ Restarting'
  BY <1>0, <1>1, <1>2, SendDoes DEF Restarting
<1>4. TypePrimed
  BY <1>0, <1>1, <1>3, TypeParts DEF TypePrimed, ReplyOK, MotorOK
<1>5. IdsOnce'
  BY <1>0, <1>1, <1>2, SendKeepsIds
<1>6. WellOrdered' /\ EngineFollowsSessions'
  BY <1>0, <1>1, InvParts, InvPartsPrimed
<1>7. EngineRuns'
  BY <1>3 DEF EngineRuns, Restarting
<1> QED BY <1>4, <1>5, <1>6, <1>7, TypePartsPrimed DEF IInv, Inv

-----------------------------------------------------------------------------
(* The invariant. *)

LEMMA InitEstablishes == Init => IInv
<1> SUFFICES ASSUME Init PROVE IInv
  OBVIOUS
<1>1. TypeOK
  <2>1. 0 \in 0..MaxSession /\ 0 \in 0..MaxTrouble
    BY GnssTrackingAssumption
  <2>2. api \in [Client -> Call]
    BY <2>1 DEF Init, Call
  <2>3. ReplyOK /\ MotorOK
    BY <2>1 DEF Init, ReplyOK, MotorOK
  <2>4. /\ lastId \in 0..MaxSession /\ msgs \in Seq(Msg) /\ clients \subseteq Client
        /\ sessions \subseteq Session /\ sweep \in 0..MaxSession
        /\ unstopped \subseteq 1..MaxSession
    BY <2>1 DEF Init
  <2> QED BY <2>2, <2>3, <2>4, TypeParts
<1>2. Inv
  BY DEF Init, Inv, IdsOnce, WellOrdered, EngineFollowsSessions, EngineRuns
<1> QED BY <1>1, <1>2 DEF IInv

LEMMA NextKeeps == IInv /\ [Next]_vars => IInv'
<1> SUFFICES ASSUME IInv, [Next]_vars PROVE IInv'
  OBVIOUS
<1>1. CASE Adapter
  BY <1>1, ReplyKeeps, saveClientKeeps, StartKeeps, UpdateMsgKeeps, StopMsgKeeps,
     StopClientKeeps, eraseClientKeeps, RestartKeeps DEF Adapter
<1>2. CASE \E c \in Client : Create(c) \/ StartReturn(c) \/ Stop(c) \/ Destroy(c)
  BY <1>2, CreateKeeps, StartReturnKeeps, StopKeeps, DestroyKeeps
<1>3. CASE \E c \in Client, i \in Interval : StartCall(c, i) \/ Update(c, i)
  BY <1>3, StartCallKeeps, UpdateKeeps
<1>4. CASE EngineDown
  BY <1>4, DownKeeps
<1>5. CASE EngineUp
  BY <1>5, UpKeeps
<1>6. CASE UNCHANGED vars
  <2>0. /\ api' = api /\ lastId' = lastId /\ msgs' = msgs /\ clients' = clients
        /\ sessions' = sessions /\ sweep' = sweep /\ reply' = reply /\ engine' = engine
        /\ down' = down /\ trouble' = trouble /\ unstarted' = unstarted
        /\ unstopped' = unstopped
    BY <1>6 DEF vars, adapter, motor
  <2>1. TypePrimed
    BY <2>0, TypeParts DEF IInv, TypePrimed, ReplyOK, MotorOK
  <2>2. Inv'
    BY <2>0
       DEF IInv, Inv, IdsOnce, WellOrdered, EngineFollowsSessions, EngineRuns, Smallest
  <2> QED BY <2>1, <2>2, TypePartsPrimed DEF IInv
<1> QED BY <1>1, <1>2, <1>3, <1>4, <1>5, <1>6 DEF Next

LEMMA Invariant == Spec => []IInv
BY InitEstablishes, NextKeeps, PTL DEF Spec

\* All data stay what the code's types and bounds allow, for any clients,
\* intervals and number of sessions.
THEOREM TypeCorrect == Spec => []TypeOK
BY Invariant, PTL DEF IInv

\* The engine runs only for sessions and at the smallest interval they ask
\* for: startTrackingMultiplex, updateTrackingMultiplex, stopTrackingMultiplex
\* and restartSessions keep it so, whichever calls the engine fails.
THEOREM EngineFollows == Spec => []EngineFollowsSessions
BY Invariant, PTL DEF IInv, Inv

\* While there are sessions the engine is off only during a restart, until the
\* message of handleEngineUpEvent is handled, or when restartSessions failed.
THEOREM EngineKeepsRunning == Spec => []EngineRuns
BY Invariant, PTL DEF IInv, Inv
-----------------------------------------------------------------------------
(***************************************************************************)
(* Proof that no tracking session leaks: whatever the order in which       *)
(* clients start, stop and go away, and whichever calls the engine fails.  *)
(*                                                                         *)
(* A session becomes one when its start message is handled, so the message *)
(* must already be wanted or followed by what ends it (StartsEnd).  A stop *)
(* carries an id and a client: that it reaches the session rests on an id  *)
(* belonging to one client (IdsOwned); a removal, on the loop over the     *)
(* client's sessions having passed all of them (Swept).                    *)
(***************************************************************************)

-----------------------------------------------------------------------------
(* The parts of LeakInv, as predicates of the clients a, the counter n, the  *)
(* queue q, the sessions S, the sweep w and the unstopped sessions u.        *)

TracksIn(a, c, id) == a[c].starting = id \/ (a[c].tracking /\ a[c].session = id)

StartsEndIn(a, q) ==
  \A j \in DOMAIN q : q[j].kind = "start" =>
    \/ TracksIn(a, q[j].client, q[j].id)
    \/ \E k \in DOMAIN q : k > j /\ Ends(q[k], q[j].client, q[j].id)

ClaimsIn(a, q, S, c, id) ==
  \/ \E s \in S : s.id = id /\ s.client = c
  \/ \E j \in DOMAIN q : q[j].kind \in {"start", "stop"} /\ q[j].id = id /\ q[j].client = c
  \/ a[c].starting = id \/ a[c].session = id

IdsOwnedIn(a, n, q, S) ==
  \A id \in 1..MaxSession, c \in Client : ClaimsIn(a, q, S, c, id) =>
    id <= n /\ \A d \in Client : ClaimsIn(a, q, S, d, id) => d = c

SweptIn(q, S, w, u) ==
  /\ w # 0 => q # <<>> /\ Head(q).kind = "remove"
  /\ \A s \in S : q # <<>> /\ Head(q).kind = "remove" /\ s.client = Head(q).client
                    /\ s.id <= w => s.id \in u

NoLeaksIn(a, q, S, u) ==
  \A s \in S : \/ s.id \in u
               \/ TracksIn(a, s.client, s.id)
               \/ \E j \in DOMAIN q : Ends(q[j], s.client, s.id)

LockedIn(a) == \A c \in Client : a[c].starting # 0 => ~a[c].tracking

LeakIn(a, n, q, S, w, u) ==
  /\ StartsEndIn(a, q) /\ IdsOwnedIn(a, n, q, S) /\ SweptIn(q, S, w, u)
  /\ NoLeaksIn(a, q, S, u) /\ LockedIn(a)

LEMMA LeakParts == LeakInv <=> LeakIn(api, lastId, msgs, sessions, sweep, unstopped)
BY DEF LeakInv, LeakIn, StartsEnd, StartsEndIn, Tracks, TracksIn, IdsOwned, IdsOwnedIn,
       Claims, ClaimsIn, Swept, SweptIn, NoSessionLeaks, NoLeaksIn, LockedIn

LEMMA LeakPartsPrimed ==
  LeakIn(api', lastId', msgs', sessions', sweep', unstopped') => LeakInv'
BY DEF LeakInv, LeakIn, StartsEnd, StartsEndIn, Tracks, TracksIn, IdsOwned, IdsOwnedIn,
       Claims, ClaimsIn, Swept, SweptIn, NoSessionLeaks, NoLeaksIn, LockedIn

SInv == IInv /\ LeakInv

LEMMA SInvParts ==
  ASSUME SInv
  PROVE  /\ TypeOK /\ IdsOnce /\ msgs \in Seq(Msg) /\ sessions \in SUBSET Session
         /\ api \in [Client -> Call] /\ lastId \in Nat /\ lastId \in 0..MaxSession
         /\ StartsEndIn(api, msgs) /\ IdsOwnedIn(api, lastId, msgs, sessions)
         /\ SweptIn(msgs, sessions, sweep, unstopped)
         /\ NoLeaksIn(api, msgs, sessions, unstopped) /\ LockedIn(api)
<1>1. LeakIn(api, lastId, msgs, sessions, sweep, unstopped)
  BY LeakParts DEF SInv
<1>2. TypeOK /\ IdsOnce
  BY DEF SInv, IInv, Inv
<1>3. lastId \in Nat
  BY <1>2, TypeParts, GnssTrackingAssumption
<1> QED BY <1>1, <1>2, <1>3, TypeParts DEF LeakIn

LEMMA SessionFields ==
  \A s \in Session : s.client \in Client /\ s.id \in 1..MaxSession /\ s.id \in Nat /\ s.id # 0
<1>1. \A i \in 1..MaxSession : i \in Nat /\ i # 0
  BY GnssTrackingAssumption
<1> QED BY <1>1 DEF Session

\* Who claims an id may only lose claims.
LEMMA FewerClaims ==
  ASSUME NEW a, NEW n, NEW q, NEW S, NEW b, NEW r, NEW R, IdsOwnedIn(a, n, q, S),
         \A c \in Client, id \in 1..MaxSession :
           ClaimsIn(b, r, R, c, id) => ClaimsIn(a, q, S, c, id)
  PROVE  IdsOwnedIn(b, n, r, R)
BY DEF IdsOwnedIn

-----------------------------------------------------------------------------
(* Messages sent. *)

\* What m adds to the queue, and where.
LEMMA SendAppends ==
  ASSUME msgs \in Seq(Msg), NEW m \in Msg, Send(m)
  PROVE  /\ msgs' \in Seq(Msg) /\ msgs' # <<>>
         /\ msgs # <<>> => Head(msgs') = Head(msgs)
         /\ \A j \in DOMAIN msgs : j \in DOMAIN msgs' /\ msgs'[j] = msgs[j]
         /\ \A j \in DOMAIN msgs' : (j \in DOMAIN msgs /\ msgs'[j] = msgs[j]) \/ msgs'[j] = m
         /\ \E e \in DOMAIN msgs' : msgs'[e] = m /\ \A j \in DOMAIN msgs : e > j
<1>1. msgs' = Append(msgs, m)
  BY DEF Send
<1>2. /\ msgs' \in Seq(Msg) /\ Len(msgs') = Len(msgs) + 1
      /\ \A j \in 1..Len(msgs) : msgs'[j] = msgs[j]
      /\ msgs'[Len(msgs) + 1] = m
  BY <1>1, AppendProperties
<1>3. Len(msgs) \in Nat /\ DOMAIN msgs = 1..Len(msgs) /\ DOMAIN msgs' = 1..Len(msgs')
  BY <1>2
<1>4. msgs' # <<>>
  BY <1>2, <1>3
<1>5. msgs # <<>> => Head(msgs') = Head(msgs)
  <2> SUFFICES ASSUME msgs # <<>> PROVE Head(msgs') = Head(msgs)
    OBVIOUS
  <2>1. 1 \in 1..Len(msgs)
    BY <1>3
  <2>2. msgs'[1] = msgs[1]
    BY <1>2, <2>1
  <2> QED BY <1>2, <1>4, <2>2
<1>6. Len(msgs) + 1 \in DOMAIN msgs' /\ \A j \in DOMAIN msgs : Len(msgs) + 1 > j
  BY <1>2, <1>3
<1> QED BY <1>2, <1>3, <1>4, <1>5, <1>6

\* A client's call that sends m, which starts nothing, may stop tracking a
\* session only if m ends it, and asks to stop only what the client claims.
LEMMA SendKeepsLeak ==
  ASSUME SInv, NEW m \in Msg, m.kind # "start", Send(m),
         UNCHANGED <<lastId, sessions, sweep, unstopped>>,
         \A c \in Client, id \in 1..MaxSession :
           TracksIn(api, c, id) => TracksIn(api', c, id) \/ Ends(m, c, id),
         \A c \in Client, id \in 1..MaxSession :
           api'[c].starting = id \/ api'[c].session = id
             => api[c].starting = id \/ api[c].session = id,
         m.kind = "stop" => api[m.client].session = m.id,
         LockedIn(api')
  PROVE  LeakInv'
<1>0. /\ msgs \in Seq(Msg) /\ sessions \in SUBSET Session
      /\ StartsEndIn(api, msgs) /\ IdsOwnedIn(api, lastId, msgs, sessions)
      /\ SweptIn(msgs, sessions, sweep, unstopped)
      /\ NoLeaksIn(api, msgs, sessions, unstopped)
  BY SInvParts
<1>1. /\ msgs' \in Seq(Msg) /\ msgs' # <<>>
      /\ msgs # <<>> => Head(msgs') = Head(msgs)
      /\ \A j \in DOMAIN msgs : j \in DOMAIN msgs' /\ msgs'[j] = msgs[j]
      /\ \A j \in DOMAIN msgs' : (j \in DOMAIN msgs /\ msgs'[j] = msgs[j]) \/ msgs'[j] = m
      /\ \E e \in DOMAIN msgs' : msgs'[e] = m /\ \A j \in DOMAIN msgs : e > j
  BY <1>0, SendAppends
<1>2. StartsEndIn(api', msgs')
  <2> SUFFICES ASSUME NEW j \in DOMAIN msgs', msgs'[j].kind = "start"
               PROVE  \/ TracksIn(api', msgs'[j].client, msgs'[j].id)
                      \/ \E k \in DOMAIN msgs' :
                           k > j /\ Ends(msgs'[k], msgs'[j].client, msgs'[j].id)
    BY DEF StartsEndIn
  <2>1. j \in DOMAIN msgs /\ msgs'[j] = msgs[j] /\ msgs[j] \in Msg
    BY <1>0, <1>1
  <2>2. PICK c \in Client, id \in 1..MaxSession : c = msgs[j].client /\ id = msgs[j].id
    BY <2>1, MsgFields
  <2>3. CASE TracksIn(api, c, id)
    BY <1>1, <2>1, <2>2, <2>3
  <2>4. CASE \E k \in DOMAIN msgs : k > j /\ Ends(msgs[k], c, id)
    BY <1>1, <2>1, <2>2, <2>4
  <2> QED BY <1>0, <2>1, <2>2, <2>3, <2>4 DEF StartsEndIn
<1>3. IdsOwnedIn(api', lastId', msgs', sessions')
  <2>1. ASSUME NEW c \in Client, NEW id \in 1..MaxSession,
               ClaimsIn(api', msgs', sessions', c, id)
        PROVE  ClaimsIn(api, msgs, sessions, c, id)
    <3>1. CASE \E s \in sessions' : s.id = id /\ s.client = c
      BY <3>1 DEF ClaimsIn
    <3>2. CASE \E j \in DOMAIN msgs' : /\ msgs'[j].kind \in {"start", "stop"}
                                       /\ msgs'[j].id = id /\ msgs'[j].client = c
      BY <1>1, <3>2 DEF ClaimsIn
    <3>3. CASE api'[c].starting = id \/ api'[c].session = id
      BY <3>3 DEF ClaimsIn
    <3> QED BY <2>1, <3>1, <3>2, <3>3 DEF ClaimsIn
  <2> QED BY <1>0, <2>1, FewerClaims
<1>4. SweptIn(msgs', sessions', sweep', unstopped')
  <2>1. CASE msgs = <<>>
    <3>1. sweep' = 0
      BY <1>0, <2>1 DEF SweptIn
    <3>2. \A s \in sessions' : ~(s.id <= 0)
      BY <1>0, SessionFields
    <3> QED BY <3>1, <3>2 DEF SweptIn
  <2>2. CASE msgs # <<>>
    BY <1>0, <1>1, <2>2 DEF SweptIn
  <2> QED BY <2>1, <2>2
<1>5. NoLeaksIn(api', msgs', sessions', unstopped')
  <2> SUFFICES ASSUME NEW s \in sessions
               PROVE  \/ s.id \in unstopped
                      \/ TracksIn(api', s.client, s.id)
                      \/ \E j \in DOMAIN msgs' : Ends(msgs'[j], s.client, s.id)
    BY DEF NoLeaksIn
  <2>1. s.client \in Client /\ s.id \in 1..MaxSession
    BY <1>0, SessionFields
  <2> QED BY <1>0, <1>1, <2>1 DEF NoLeaksIn
<1> QED BY <1>2, <1>3, <1>4, <1>5, LeakPartsPrimed DEF LeakIn

-----------------------------------------------------------------------------
(* Messages taken. *)

\* The adapter takes a message and leaves, or makes of it, sessions that are
\* not the ones the message ends, except those the engine has not let go of.
LEMMA TakeKeepsLeak ==
  ASSUME SInv, NEW kind, Take(kind), sweep' = 0, unstopped \subseteq unstopped',
         sessions' \subseteq Session,
         \A t \in sessions' :
           \/ \E s \in sessions : s.id = t.id /\ s.client = t.client
           \/ kind = "start" /\ t.id = Head(msgs).id /\ t.client = Head(msgs).client,
         \A t \in sessions' : Ends(Head(msgs), t.client, t.id) => t.id \in unstopped'
  PROVE  LeakInv'
<1>0. /\ msgs \in Seq(Msg) /\ sessions \in SUBSET Session
      /\ StartsEndIn(api, msgs) /\ IdsOwnedIn(api, lastId, msgs, sessions)
      /\ NoLeaksIn(api, msgs, sessions, unstopped) /\ LockedIn(api)
      /\ api' = api /\ lastId' = lastId
  BY SInvParts DEF Take
<1>1. /\ Head(msgs) \in Msg /\ Head(msgs).kind = kind
      /\ 1 \in DOMAIN msgs /\ msgs[1] = Head(msgs)
      /\ msgs' \in Seq(Msg)
      /\ \A j \in DOMAIN msgs' : j + 1 \in DOMAIN msgs /\ msgs'[j] = msgs[j + 1]
      /\ \A j \in DOMAIN msgs : j = 1 \/ (j - 1 \in DOMAIN msgs' /\ msgs'[j - 1] = msgs[j])
  BY <1>0, TakeDoes
<1>2. /\ \A j \in DOMAIN msgs : j \in Nat /\ j >= 1
      /\ \A j \in DOMAIN msgs' : j \in Nat /\ j >= 1
  <2>1. DOMAIN msgs = 1..Len(msgs) /\ Len(msgs) \in Nat
    BY <1>0
  <2>2. DOMAIN msgs' = 1..Len(msgs') /\ Len(msgs') \in Nat
    BY <1>1
  <2> QED BY <2>1, <2>2
<1>3. StartsEndIn(api', msgs')
  <2> SUFFICES ASSUME NEW j \in DOMAIN msgs', msgs'[j].kind = "start",
                      ~TracksIn(api', msgs'[j].client, msgs'[j].id)
               PROVE  \E k \in DOMAIN msgs' :
                        k > j /\ Ends(msgs'[k], msgs'[j].client, msgs'[j].id)
    BY DEF StartsEndIn
  <2>1. j + 1 \in DOMAIN msgs /\ msgs'[j] = msgs[j + 1] /\ j \in Nat
    BY <1>1, <1>2
  <2>2. PICK k \in DOMAIN msgs : k > j + 1 /\ Ends(msgs[k], msgs'[j].client, msgs'[j].id)
    BY <1>0, <2>1 DEF StartsEndIn
  <2>3. k \in Nat /\ k # 1 /\ k - 1 > j
    BY <1>2, <2>1, <2>2
  <2>4. k - 1 \in DOMAIN msgs' /\ msgs'[k - 1] = msgs[k]
    BY <1>1, <2>3
  <2> QED BY <2>2, <2>3, <2>4
<1>4. IdsOwnedIn(api', lastId', msgs', sessions')
  <2>1. ASSUME NEW c \in Client, NEW id \in 1..MaxSession,
               ClaimsIn(api', msgs', sessions', c, id)
        PROVE  ClaimsIn(api, msgs, sessions, c, id)
    <3>1. CASE \E s \in sessions' : s.id = id /\ s.client = c
      BY <1>1, <3>1 DEF ClaimsIn
    <3>2. CASE \E j \in DOMAIN msgs' : /\ msgs'[j].kind \in {"start", "stop"}
                                       /\ msgs'[j].id = id /\ msgs'[j].client = c
      BY <1>1, <3>2 DEF ClaimsIn
    <3>3. CASE api'[c].starting = id \/ api'[c].session = id
      BY <1>0, <3>3 DEF ClaimsIn
    <3> QED BY <2>1, <3>1, <3>2, <3>3 DEF ClaimsIn
  <2> QED BY <1>0, <2>1, FewerClaims
<1>5. SweptIn(msgs', sessions', sweep', unstopped')
  <2>1. \A s \in sessions' : ~(s.id <= 0)
    BY SessionFields
  <2> QED BY <2>1 DEF SweptIn
<1>6. NoLeaksIn(api', msgs', sessions', unstopped')
  <2> SUFFICES ASSUME NEW t \in sessions', t.id \notin unstopped',
                      ~TracksIn(api, t.client, t.id)
               PROVE  \E j \in DOMAIN msgs' : Ends(msgs'[j], t.client, t.id)
    BY <1>0 DEF NoLeaksIn
  <2>1. CASE \E s \in sessions : s.id = t.id /\ s.client = t.client
    <3>1. PICK k \in DOMAIN msgs : Ends(msgs[k], t.client, t.id)
      BY <1>0, <2>1 DEF NoLeaksIn
    <3>2. k # 1
      BY <1>1, <3>1
    <3> QED BY <1>1, <3>1, <3>2
  <2>2. CASE kind = "start" /\ t.id = Head(msgs).id /\ t.client = Head(msgs).client
    <3>1. PICK k \in DOMAIN msgs : k > 1 /\ Ends(msgs[k], t.client, t.id)
      BY <1>0, <1>1, <2>2 DEF StartsEndIn
    <3>2. k # 1
      BY <3>1
    <3> QED BY <1>1, <3>1, <3>2
  <2> QED BY <2>1, <2>2
<1> QED BY <1>0, <1>3, <1>4, <1>5, <1>6, LeakPartsPrimed DEF LeakIn

-----------------------------------------------------------------------------
(* The client's steps. *)

LEMMA IdsArePositive == 0 \notin 1..MaxSession
BY GnssTrackingAssumption

LEMMA CreateKeepsLeak ==
  ASSUME SInv, NEW c \in Client, Create(c)
  PROVE  LeakInv'
<1> DEFINE m == [kind |-> "add", client |-> c]
<1>1. m \in Msg /\ m.kind = "add" /\ Send(m)
  BY DEF Msg, Create
<1> HIDE DEF m
<1>2. UNCHANGED <<lastId, sessions, sweep, unstopped>>
  BY DEF Create, adapter
<1>3. /\ api \in [Client -> Call] /\ LockedIn(api)
      /\ api' = [api EXCEPT ![c].life = "up"]
  BY SInvParts DEF Create
<1>4. \A d \in Client : /\ api'[d].starting = api[d].starting
                        /\ api'[d].session = api[d].session
                        /\ api'[d].tracking = api[d].tracking
  BY <1>3 DEF Call
<1>5. LockedIn(api')
  BY <1>3, <1>4 DEF LockedIn
<1>6. \A d \in Client, id \in 1..MaxSession : TracksIn(api, d, id) => TracksIn(api', d, id)
  BY <1>4 DEF TracksIn
<1> QED BY <1>1, <1>2, <1>4, <1>5, <1>6, SendKeepsLeak

LEMMA DestroyKeepsLeak ==
  ASSUME SInv, NEW c \in Client, Destroy(c)
  PROVE  LeakInv'
<1> DEFINE m == [kind |-> "remove", client |-> c]
<1>1. m \in Msg /\ m.kind = "remove" /\ m.client = c /\ Send(m)
  BY DEF Msg, Destroy
<1> HIDE DEF m
<1>2. UNCHANGED <<lastId, sessions, sweep, unstopped>>
  BY DEF Destroy, adapter
<1>3. /\ api \in [Client -> Call] /\ LockedIn(api) /\ api[c].starting = 0
      /\ api' = [api EXCEPT ![c].life = "gone", ![c].tracking = FALSE,
                            ![c].session = 0, ![c].requests = <<>>]
  BY SInvParts DEF Destroy, Free
<1>4. /\ \A d \in Client \ {c} : api'[d] = api[d]
      /\ api'[c].starting = 0 /\ api'[c].session = 0
  BY <1>3 DEF Call
<1>5. LockedIn(api')
  BY <1>3, <1>4 DEF LockedIn
<1>6. \A d \in Client, id \in 1..MaxSession :
        TracksIn(api, d, id) => TracksIn(api', d, id) \/ Ends(m, d, id)
  BY <1>1, <1>4 DEF TracksIn, Ends
<1>7. \A d \in Client, id \in 1..MaxSession :
        api'[d].starting = id \/ api'[d].session = id
          => api[d].starting = id \/ api[d].session = id
  BY <1>4, IdsArePositive
<1> QED BY <1>1, <1>2, <1>5, <1>6, <1>7, SendKeepsLeak

\* What a request leaves of what the client tracks.
LEMMA RequestTracks ==
  ASSUME SInv, NEW c \in Client, NEW kind \in {"stop", "update"}, Request(c, kind)
  PROVE  /\ \A d \in Client \ {c} : api'[d] = api[d]
         /\ api[c].starting = 0 /\ api'[c].starting = 0
         /\ api'[c].session = api[c].session
         /\ kind = "update" => api'[c].tracking = api[c].tracking
         /\ LockedIn(api')
<1>1. /\ api \in [Client -> Call] /\ LockedIn(api) /\ api[c].starting = 0
      /\ api' = [api EXCEPT ![c].requests = Append(@, kind),
                            ![c].tracking = @ /\ kind # "stop"]
  BY SInvParts DEF Request, Free
<1>2. /\ \A d \in Client \ {c} : api'[d] = api[d]
      /\ api'[c].starting = 0 /\ api'[c].session = api[c].session
  BY <1>1 DEF Call
<1>3. ASSUME kind = "update" PROVE api'[c].tracking = api[c].tracking
  <2>1. api'[c].tracking = (api[c].tracking /\ kind # "stop")
    BY <1>1 DEF Call
  <2>2. api[c].tracking \in BOOLEAN /\ kind # "stop"
    BY <1>1, <1>3 DEF Call
  <2> QED BY <2>1, <2>2, Zenon
<1>4. LockedIn(api')
  BY <1>1, <1>2 DEF LockedIn
<1> QED BY <1>1, <1>2, <1>3, <1>4

LEMMA StopKeepsLeak ==
  ASSUME SInv, NEW c \in Client, Stop(c)
  PROVE  LeakInv'
<1> DEFINE m == [kind |-> "stop", client |-> c, id |-> api[c].session]
<1>1. /\ Request(c, "stop") /\ Send(m)
      /\ UNCHANGED <<lastId, sessions, sweep, unstopped>>
  BY DEF Stop, Request, adapter
<1>2. api[c].session \in 1..MaxSession
  BY <1>1, RequestDoes DEF SInv
<1>3. m \in Msg /\ m.kind = "stop" /\ m.client = c /\ m.id = api[c].session
  BY <1>2 DEF Msg
<1> HIDE DEF m
<1>4. /\ \A d \in Client \ {c} : api'[d] = api[d]
      /\ api[c].starting = 0 /\ api'[c].starting = 0
      /\ api'[c].session = api[c].session
      /\ LockedIn(api')
  BY <1>1, RequestTracks
<1>5. \A d \in Client, id \in 1..MaxSession :
        TracksIn(api, d, id) => TracksIn(api', d, id) \/ Ends(m, d, id)
  BY <1>3, <1>4, IdsArePositive DEF TracksIn, Ends
<1>6. \A d \in Client, id \in 1..MaxSession :
        api'[d].starting = id \/ api'[d].session = id
          => api[d].starting = id \/ api[d].session = id
  BY <1>4
<1> QED BY <1>1, <1>3, <1>4, <1>5, <1>6, SendKeepsLeak

LEMMA UpdateKeepsLeak ==
  ASSUME SInv, NEW c \in Client, NEW i \in Interval, Update(c, i)
  PROVE  LeakInv'
<1> DEFINE m == [kind |-> "update", client |-> c, id |-> api[c].session, interval |-> i]
<1>1. /\ Request(c, "update") /\ Send(m)
      /\ UNCHANGED <<lastId, sessions, sweep, unstopped>>
  BY DEF Update, Request, adapter
<1>2. api[c].session \in 1..MaxSession
  BY <1>1, RequestDoes DEF SInv
<1>3. m \in Msg /\ m.kind = "update"
  BY <1>2 DEF Msg
<1> HIDE DEF m
<1>4. /\ \A d \in Client \ {c} : api'[d] = api[d]
      /\ api[c].starting = 0 /\ api'[c].starting = 0
      /\ api'[c].session = api[c].session
      /\ api'[c].tracking = api[c].tracking
      /\ LockedIn(api')
  BY <1>1, RequestTracks
<1>5. \A d \in Client, id \in 1..MaxSession : TracksIn(api, d, id) => TracksIn(api', d, id)
  BY <1>4 DEF TracksIn
<1>6. \A d \in Client, id \in 1..MaxSession :
        api'[d].starting = id \/ api'[d].session = id
          => api[d].starting = id \/ api[d].session = id
  BY <1>4
<1> QED BY <1>1, <1>3, <1>4, <1>5, <1>6, SendKeepsLeak

\* The id is new, so only this client claims it.
LEMMA StartCallKeepsLeak ==
  ASSUME SInv, NEW c \in Client, NEW i \in Interval, StartCall(c, i)
  PROVE  LeakInv'
<1> DEFINE n == lastId + 1
           m == [kind |-> "start", client |-> c, id |-> n, interval |-> i]
<1>0. /\ msgs \in Seq(Msg) /\ sessions \in SUBSET Session /\ lastId \in Nat
      /\ api \in [Client -> Call] /\ LockedIn(api)
      /\ StartsEndIn(api, msgs) /\ IdsOwnedIn(api, lastId, msgs, sessions)
      /\ SweptIn(msgs, sessions, sweep, unstopped)
      /\ NoLeaksIn(api, msgs, sessions, unstopped)
  BY SInvParts
<1>1. /\ api[c].starting = 0 /\ ~api[c].tracking
      /\ lastId < MaxSession /\ lastId' = n /\ Send(m)
      /\ api' = [api EXCEPT ![c].starting = n]
      /\ sessions' = sessions /\ sweep' = sweep /\ unstopped' = unstopped
  BY DEF StartCall, Free, adapter
<1>2. n \in 1..MaxSession /\ n # 0 /\ n > lastId
  BY <1>0, <1>1, GnssTrackingAssumption
<1>3. m \in Msg /\ m.kind = "start" /\ m.client = c /\ m.id = n
  BY <1>2 DEF Msg
<1> HIDE DEF m, n
<1>4. /\ msgs' \in Seq(Msg) /\ msgs' # <<>>
      /\ msgs # <<>> => Head(msgs') = Head(msgs)
      /\ \A j \in DOMAIN msgs : j \in DOMAIN msgs' /\ msgs'[j] = msgs[j]
      /\ \A j \in DOMAIN msgs' : (j \in DOMAIN msgs /\ msgs'[j] = msgs[j]) \/ msgs'[j] = m
  BY <1>0, <1>1, <1>3, SendAppends
<1>5. /\ \A d \in Client \ {c} : api'[d] = api[d]
      /\ api'[c].starting = n /\ api'[c].session = api[c].session
      /\ api'[c].tracking = api[c].tracking
  BY <1>0, <1>1 DEF Call
<1>6. \A d \in Client, id \in 1..MaxSession : TracksIn(api, d, id) => TracksIn(api', d, id)
  BY <1>1, <1>5, IdsArePositive DEF TracksIn
<1>7. StartsEndIn(api', msgs')
  <2> SUFFICES ASSUME NEW j \in DOMAIN msgs', msgs'[j].kind = "start"
               PROVE  \/ TracksIn(api', msgs'[j].client, msgs'[j].id)
                      \/ \E k \in DOMAIN msgs' :
                           k > j /\ Ends(msgs'[k], msgs'[j].client, msgs'[j].id)
    BY DEF StartsEndIn
  <2>1. CASE msgs'[j] = m
    BY <1>3, <1>5, <2>1 DEF TracksIn
  <2>2. CASE j \in DOMAIN msgs /\ msgs'[j] = msgs[j]
    <3>1. msgs[j] \in Msg
      BY <1>0, <2>2
    <3>2. PICK d \in Client, id \in 1..MaxSession : d = msgs[j].client /\ id = msgs[j].id
      BY <2>2, <3>1, MsgFields
    <3>3. CASE TracksIn(api, d, id)
      BY <1>6, <2>2, <3>2, <3>3
    <3>4. CASE \E k \in DOMAIN msgs : k > j /\ Ends(msgs[k], d, id)
      BY <1>4, <2>2, <3>2, <3>4
    <3> QED BY <1>0, <2>2, <3>2, <3>3, <3>4 DEF StartsEndIn
  <2> QED BY <1>4, <2>1, <2>2
<1>8. IdsOwnedIn(api', lastId', msgs', sessions')
  <2>1. ASSUME NEW d \in Client, NEW id \in 1..MaxSession,
               ClaimsIn(api', msgs', sessions', d, id)
        PROVE  ClaimsIn(api, msgs, sessions, d, id) \/ (d = c /\ id = n)
    <3>1. CASE \E s \in sessions' : s.id = id /\ s.client = d
      BY <1>1, <3>1 DEF ClaimsIn
    <3>2. CASE \E j \in DOMAIN msgs' : /\ msgs'[j].kind \in {"start", "stop"}
                                       /\ msgs'[j].id = id /\ msgs'[j].client = d
      BY <1>3, <1>4, <3>2 DEF ClaimsIn
    <3>3. CASE api'[d].starting = id \/ api'[d].session = id
      BY <1>5, <3>3 DEF ClaimsIn
    <3> QED BY <2>1, <3>1, <3>2, <3>3 DEF ClaimsIn
  <2>2. \A d \in Client : ~ClaimsIn(api, msgs, sessions, d, n)
    BY <1>0, <1>2 DEF IdsOwnedIn
  <2> SUFFICES ASSUME NEW id \in 1..MaxSession, NEW d \in Client,
                      ClaimsIn(api', msgs', sessions', d, id)
               PROVE  /\ id <= n
                      /\ \A e \in Client : ClaimsIn(api', msgs', sessions', e, id) => e = d
    BY <1>1 DEF IdsOwnedIn
  <2>3. CASE id = n
    BY <1>2, <2>1, <2>2, <2>3
  <2>4. CASE id # n
    <3>1. ClaimsIn(api, msgs, sessions, d, id)
      BY <2>1, <2>4
    <3>2. id <= lastId /\ \A e \in Client : ClaimsIn(api, msgs, sessions, e, id) => e = d
      BY <1>0, <3>1 DEF IdsOwnedIn
    <3>3. id \in Int /\ n \in Int
      BY <1>2
    <3>4. id <= n
      BY <1>0, <1>2, <3>2, <3>3
    <3> QED BY <2>1, <2>4, <3>2, <3>4
  <2> QED BY <2>3, <2>4
<1>9. SweptIn(msgs', sessions', sweep', unstopped')
  <2>1. CASE msgs = <<>>
    <3>1. sweep' = 0
      BY <1>0, <1>1, <2>1 DEF SweptIn
    <3>2. \A s \in sessions' : ~(s.id <= 0)
      BY <1>0, <1>1, SessionFields
    <3> QED BY <3>1, <3>2 DEF SweptIn
  <2>2. CASE msgs # <<>>
    BY <1>0, <1>1, <1>4, <2>2 DEF SweptIn
  <2> QED BY <2>1, <2>2
<1>10. NoLeaksIn(api', msgs', sessions', unstopped')
  <2> SUFFICES ASSUME NEW s \in sessions
               PROVE  \/ s.id \in unstopped
                      \/ TracksIn(api', s.client, s.id)
                      \/ \E j \in DOMAIN msgs' : Ends(msgs'[j], s.client, s.id)
    BY <1>1 DEF NoLeaksIn
  <2>1. s.client \in Client /\ s.id \in 1..MaxSession
    BY <1>0, SessionFields
  <2> QED BY <1>0, <1>4, <1>6, <2>1 DEF NoLeaksIn
<1>11. LockedIn(api')
  BY <1>0, <1>1, <1>5 DEF LockedIn
<1> QED BY <1>7, <1>8, <1>9, <1>10, <1>11, LeakPartsPrimed DEF LeakIn

\* A step that changes only what the clients know, and not what they track.
LEMMA SameTracks ==
  ASSUME SInv, UNCHANGED <<lastId, msgs, sessions, sweep, unstopped>>,
         \A c \in Client, id \in 1..MaxSession :
           /\ TracksIn(api, c, id) => TracksIn(api', c, id)
           /\ api'[c].starting = id \/ api'[c].session = id
                => api[c].starting = id \/ api[c].session = id,
         LockedIn(api')
  PROVE  LeakInv'
<1>0. /\ msgs \in Seq(Msg) /\ sessions \in SUBSET Session
      /\ StartsEndIn(api, msgs) /\ IdsOwnedIn(api, lastId, msgs, sessions)
      /\ SweptIn(msgs, sessions, sweep, unstopped)
      /\ NoLeaksIn(api, msgs, sessions, unstopped)
  BY SInvParts
<1>1. \A j \in DOMAIN msgs : msgs[j].kind = "start" =>
        msgs[j].client \in Client /\ msgs[j].id \in 1..MaxSession
  BY <1>0, MsgFields
<1>2. StartsEndIn(api', msgs')
  BY <1>0, <1>1 DEF StartsEndIn
<1>3. \A c \in Client, id \in 1..MaxSession :
        ClaimsIn(api', msgs', sessions', c, id) => ClaimsIn(api, msgs, sessions, c, id)
  BY DEF ClaimsIn
<1>4. IdsOwnedIn(api', lastId', msgs', sessions')
  BY <1>0, <1>3, FewerClaims
<1>5. \A s \in sessions : s.client \in Client /\ s.id \in 1..MaxSession
  BY <1>0, SessionFields
<1>6. NoLeaksIn(api', msgs', sessions', unstopped')
  BY <1>0, <1>5 DEF NoLeaksIn
<1>7. SweptIn(msgs', sessions', sweep', unstopped')
  BY <1>0
<1> QED BY <1>2, <1>4, <1>6, <1>7, LeakPartsPrimed DEF LeakIn

\* The session being started becomes the one tracked.
LEMMA StartReturnKeepsLeak ==
  ASSUME SInv, NEW c \in Client, StartReturn(c)
  PROVE  LeakInv'
<1>1. /\ api \in [Client -> Call] /\ LockedIn(api) /\ api[c].starting # 0
      /\ api' = [api EXCEPT ![c].starting = 0, ![c].tracking = TRUE,
                            ![c].session = api[c].starting,
                            ![c].requests = <<"start">>]
      /\ UNCHANGED <<lastId, msgs, sessions, sweep, unstopped>>
  BY SInvParts DEF StartReturn, adapter
<1>2. /\ \A d \in Client \ {c} : api'[d] = api[d]
      /\ api'[c].starting = 0 /\ api'[c].tracking
      /\ api'[c].session = api[c].starting
  BY <1>1 DEF Call
<1>3. LockedIn(api') /\ ~api[c].tracking
  BY <1>1, <1>2 DEF LockedIn
<1>4. \A d \in Client, id \in 1..MaxSession : TracksIn(api, d, id) => TracksIn(api', d, id)
  BY <1>2, <1>3 DEF TracksIn
<1>5. \A d \in Client, id \in 1..MaxSession :
        api'[d].starting = id \/ api'[d].session = id
          => api[d].starting = id \/ api[d].session = id
  BY <1>2, IdsArePositive
<1> QED BY <1>1, <1>3, <1>4, <1>5, SameTracks

LEMMA ReplyKeepsLeak ==
  ASSUME SInv, Reply
  PROVE  LeakInv'
<1>1. /\ api \in [Client -> Call] /\ LockedIn(api)
      /\ UNCHANGED <<lastId, msgs, sessions, sweep, unstopped>>
  BY SInvParts DEF Reply, adapter
<1>2. \/ api' = [api EXCEPT ![reply.client].requests = Tail(@)]
      \/ api' = api
  BY DEF Reply
<1>3. \A d \in Client : /\ api'[d].starting = api[d].starting
                        /\ api'[d].session = api[d].session
                        /\ api'[d].tracking = api[d].tracking
  <2>1. CASE api' = [api EXCEPT ![reply.client].requests = Tail(@)]
    <3> DEFINE r == reply.client
    <3>1. api' = [api EXCEPT ![r] = [api[r] EXCEPT !.requests = Tail(api[r].requests)]]
      BY <2>1
    <3> HIDE DEF r
    <3>2. \A d \in Client : d # r => api'[d] = api[d]
      BY <1>1, <3>1
    <3>3. r \in Client => api'[r] = [api[r] EXCEPT !.requests = Tail(api[r].requests)]
      BY <1>1, <3>1
    <3> QED BY <1>1, <3>2, <3>3 DEF Call
  <2>2. CASE api' = api
    BY <2>2
  <2> QED BY <1>2, <2>1, <2>2
<1>4. LockedIn(api')
  BY <1>1, <1>3 DEF LockedIn
<1>5. \A d \in Client, id \in 1..MaxSession : TracksIn(api, d, id) => TracksIn(api', d, id)
  BY <1>3 DEF TracksIn
<1> QED BY <1>1, <1>3, <1>4, <1>5, SameTracks

-----------------------------------------------------------------------------
(* The adapter's steps. *)

\* No sweep is under way while a message that removes no client is handled.
LEMMA NoSweep ==
  ASSUME SInv, NEW kind, kind # "remove", Take(kind)
  PROVE  sweep = 0
BY SInvParts DEF Take, AtHead, SweptIn

\* A message that changes no session and ends none that is left.
LEMMA TakeOnlyKeepsLeak ==
  ASSUME SInv, NEW kind, Take(kind), kind \notin {"stop", "remove"},
         UNCHANGED <<sessions, sweep, unstopped>>
  PROVE  LeakInv'
<1>1. sweep' = 0 /\ sessions' \subseteq Session
  BY NoSweep, SInvParts
<1>2. Head(msgs).kind = kind
  BY SInvParts, TakeDoes
<1>3. \A t \in sessions' : ~Ends(Head(msgs), t.client, t.id)
  BY <1>2 DEF Ends
<1> QED BY <1>1, <1>3, TakeKeepsLeak

LEMMA saveClientKeepsLeak ==
  ASSUME SInv, saveClient
  PROVE  LeakInv'
BY TakeOnlyKeepsLeak DEF saveClient

LEMMA RestartKeepsLeak ==
  ASSUME SInv, restartSessions
  PROVE  LeakInv'
BY TakeOnlyKeepsLeak DEF restartSessions, adapter

LEMMA StartMsgKeepsLeak ==
  ASSUME SInv, MsgStartTracking
  PROVE  LeakInv'
<1> DEFINE m == Head(msgs)
           x == [client |-> m.client, id |-> m.id, interval |-> m.interval]
<1>1. Take("start") /\ sweep' = sweep /\ unstopped' = unstopped
  BY DEF MsgStartTracking
<1>2. m \in Msg /\ m.kind = "start" /\ sweep = 0 /\ sessions \in SUBSET Session
  BY <1>1, SInvParts, TakeDoes, NoSweep
<1>3. x \in Session /\ x.id = m.id /\ x.client = m.client
  BY <1>2, MsgFields DEF Session
<1>4. sessions' = sessions \cup {x} \/ sessions' = sessions
  BY DEF MsgStartTracking
<1>5. \A t \in sessions' : ~Ends(m, t.client, t.id)
  BY <1>2 DEF Ends
<1>6. \A t \in sessions' : \/ \E s \in sessions : s.id = t.id /\ s.client = t.client
                           \/ t.id = m.id /\ t.client = m.client
  BY <1>3, <1>4
<1>7. sessions' \subseteq Session
  BY <1>2, <1>3, <1>4
<1> QED BY <1>1, <1>2, <1>5, <1>6, <1>7, TakeKeepsLeak

LEMMA UpdateMsgKeepsLeak ==
  ASSUME SInv, MsgUpdateTracking
  PROVE  LeakInv'
<1> DEFINE m == Head(msgs)
<1>1. CASE UnknownSession("update")
  BY <1>1, TakeOnlyKeepsLeak DEF UnknownSession, adapter
<1>2. CASE ~UnknownSession("update")
  <2>1. /\ Take("update") /\ isTrackingSession(m)
        /\ sweep' = sweep /\ unstopped' = unstopped
    BY <1>2 DEF MsgUpdateTracking
  <2>2. /\ m \in Msg /\ m.kind = "update" /\ sweep = 0
        /\ IdsOnce /\ sessions \in SUBSET Session
    BY <2>1, SInvParts, TakeDoes, NoSweep
  <2>3. PICK s \in sessions : s.id = m.id
    BY <2>1 DEF isTrackingSession
  <2>4. Of(m.id) = s /\ Others(m.id) = sessions \ {s}
    BY <2>2, <2>3, IdPicks
  <2> DEFINE x == [s EXCEPT !.interval = m.interval]
  <2>5. x \in Session /\ x.id = s.id /\ x.client = s.client
    BY <2>2, MsgFields DEF Session
  <2>6. sessions' = (sessions \ {s}) \cup {x} \/ sessions' = sessions
    BY <1>2, <2>4 DEF MsgUpdateTracking
  <2> HIDE DEF x
  <2>7. \A t \in sessions' : \E r \in sessions : r.id = t.id /\ r.client = t.client
    BY <2>5, <2>6
  <2>8. sessions' \subseteq Session
    BY <2>2, <2>5, <2>6
  <2>9. \A t \in sessions' : ~Ends(m, t.client, t.id)
    BY <2>2 DEF Ends
  <2> QED BY <2>1, <2>2, <2>7, <2>8, <2>9, TakeKeepsLeak
<1> QED BY <1>1, <1>2

\* A session with the id of the stop is the client's, and so it is found.
LEMMA StopMsgKeepsLeak ==
  ASSUME SInv, MsgStopTracking
  PROVE  LeakInv'
<1> DEFINE m == Head(msgs)
<1>1. Take("stop") /\ sweep' = sweep
  BY DEF MsgStopTracking, UnknownSession, adapter
<1>2. /\ m \in Msg /\ m.kind = "stop" /\ sweep = 0
      /\ 1 \in DOMAIN msgs /\ msgs[1] = m
      /\ IdsOnce /\ sessions \in SUBSET Session
      /\ IdsOwnedIn(api, lastId, msgs, sessions)
  BY <1>1, SInvParts, TakeDoes, NoSweep
<1>3. CASE UnknownSession("stop")
  <2>1. /\ sessions' = sessions /\ unstopped' = unstopped /\ ~isTrackingSession(m)
    BY <1>3 DEF UnknownSession, adapter
  <2>2. ASSUME NEW t \in sessions, t.id = m.id PROVE FALSE
    <3>1. t.client \in Client /\ m.client \in Client /\ m.id \in 1..MaxSession
      BY <1>2, SessionFields, MsgFields
    <3>2. /\ ClaimsIn(api, msgs, sessions, t.client, m.id)
          /\ ClaimsIn(api, msgs, sessions, m.client, m.id)
      BY <1>2, <2>2 DEF ClaimsIn
    <3>3. t.client = m.client
      BY <1>2, <3>1, <3>2 DEF IdsOwnedIn
    <3> QED BY <2>1, <2>2, <3>3 DEF isTrackingSession
  <2>3. \A t \in sessions' : ~Ends(m, t.client, t.id)
    BY <1>2, <2>1, <2>2 DEF Ends
  <2> QED BY <1>1, <1>2, <2>1, <2>3, TakeKeepsLeak
<1>4. CASE ~UnknownSession("stop")
  <2>1. PICK ok \in BOOLEAN : EndSession(m.id, ok)
    BY <1>4 DEF MsgStopTracking
  <2>2. /\ sessions' = IF ok THEN Others(m.id) ELSE sessions
        /\ unstopped' = IF ok THEN unstopped ELSE unstopped \cup {m.id}
    BY <2>1 DEF EndSession
  <2>3. sessions' \subseteq sessions /\ unstopped \subseteq unstopped'
    BY <2>2 DEF Others
  <2>4. \A t \in sessions' : t.id = m.id => t.id \in unstopped'
    BY <2>2 DEF Others
  <2>5. \A t \in sessions' : Ends(m, t.client, t.id) => t.id \in unstopped'
    BY <1>2, <2>4 DEF Ends
  <2>6. sessions' \subseteq Session
    BY <1>2, <2>3
  <2> QED BY <1>1, <1>2, <2>3, <2>5, <2>6, TakeKeepsLeak
<1> QED BY <1>3, <1>4

\* The sessions are passed in the order of their ids: the one tried now is
\* gone, or its stop failed.
LEMMA StopClientKeepsLeak ==
  ASSUME SInv, stopClientSessions
  PROVE  LeakInv'
<1> DEFINE c == Head(msgs).client
<1>0. /\ msgs \in Seq(Msg) /\ sessions \in SUBSET Session /\ IdsOnce
      /\ StartsEndIn(api, msgs) /\ IdsOwnedIn(api, lastId, msgs, sessions)
      /\ SweptIn(msgs, sessions, sweep, unstopped)
      /\ NoLeaksIn(api, msgs, sessions, unstopped) /\ LockedIn(api)
  BY SInvParts
<1>1. /\ msgs # <<>> /\ Head(msgs).kind = "remove"
      /\ api' = api /\ lastId' = lastId /\ msgs' = msgs
  BY DEF stopClientSessions, AtHead
<1>2. PICK s \in Unswept(c), ok \in BOOLEAN :
        /\ \A t \in Unswept(c) : s.id <= t.id
        /\ EndSession(s.id, ok) /\ sweep' = s.id
  BY DEF stopClientSessions
<1>3. /\ sessions' = IF ok THEN Others(s.id) ELSE sessions
      /\ unstopped' = IF ok THEN unstopped ELSE unstopped \cup {s.id}
  BY <1>2 DEF EndSession
<1>4. sessions' \subseteq sessions /\ unstopped \subseteq unstopped'
  BY <1>3 DEF Others
<1>5. \A d \in Client, id \in 1..MaxSession :
        ClaimsIn(api', msgs', sessions', d, id) => ClaimsIn(api, msgs, sessions, d, id)
  BY <1>1, <1>4 DEF ClaimsIn
<1>6. IdsOwnedIn(api', lastId', msgs', sessions')
  BY <1>0, <1>1, <1>5, FewerClaims
<1>7. NoLeaksIn(api', msgs', sessions', unstopped')
  BY <1>0, <1>1, <1>4 DEF NoLeaksIn
<1>8. SweptIn(msgs', sessions', sweep', unstopped')
  <2> SUFFICES ASSUME NEW t \in sessions', t.client = c, t.id <= s.id
               PROVE  t.id \in unstopped'
    BY <1>1, <1>2 DEF SweptIn
  <2>1. t \in sessions /\ s \in sessions /\ s.id \in Nat /\ t.id \in Nat
    BY <1>0, <1>2, <1>4, SessionFields DEF Unswept
  <2>2. CASE t.id <= sweep
    BY <1>0, <1>1, <1>4, <2>1, <2>2 DEF SweptIn
  <2>3. CASE ~(t.id <= sweep)
    <3>1. sweep \in Nat
      BY TypeParts, GnssTrackingAssumption DEF SInv, IInv
    <3>2. t \in Unswept(c)
      BY <2>1, <2>3, <3>1 DEF Unswept
    <3>3. t.id = s.id
      BY <1>2, <2>1, <3>2
    <3> QED BY <1>3, <3>3 DEF Others
  <2> QED BY <2>2, <2>3
<1> QED BY <1>0, <1>1, <1>6, <1>7, <1>8, LeakPartsPrimed DEF LeakIn

LEMMA eraseClientKeepsLeak ==
  ASSUME SInv, eraseClient
  PROVE  LeakInv'
<1> DEFINE m == Head(msgs)
<1>1. /\ Take("remove") /\ Unswept(m.client) = {} /\ sweep' = 0
      /\ sessions' = sessions /\ unstopped' = unstopped
  BY DEF eraseClient
<1>2. /\ msgs \in Seq(Msg) /\ sessions \in SUBSET Session
      /\ SweptIn(msgs, sessions, sweep, unstopped)
      /\ msgs # <<>> /\ m.kind = "remove" /\ sweep \in Nat
  BY <1>1, SInvParts, TypeParts, GnssTrackingAssumption DEF Take, AtHead, SInv, IInv
<1>3. ASSUME NEW t \in sessions, t.client = m.client PROVE t.id \in unstopped
  <2>1. t.id \in Nat
    BY <1>2, SessionFields
  <2>2. t.id <= sweep
    BY <1>1, <1>2, <1>3, <2>1 DEF Unswept
  <2> QED BY <1>2, <1>3, <2>2 DEF SweptIn
<1>4. \A t \in sessions' : Ends(m, t.client, t.id) => t.id \in unstopped'
  BY <1>1, <1>2, <1>3 DEF Ends
<1>5. sessions' \subseteq Session
  BY <1>1, <1>2
<1> QED BY <1>1, <1>4, <1>5, TakeKeepsLeak

-----------------------------------------------------------------------------
(* The invariant. *)

LEMMA DownKeepsLeak ==
  ASSUME SInv, EngineDown
  PROVE  LeakInv'
<1>1. /\ api' = api /\ LockedIn(api')
      /\ UNCHANGED <<lastId, msgs, sessions, sweep, unstopped>>
  BY SInvParts DEF EngineDown, adapter
<1> QED BY <1>1, SameTracks

LEMMA UpKeepsLeak ==
  ASSUME SInv, EngineUp
  PROVE  LeakInv'
<1> DEFINE m == [kind |-> "restart"]
<1>1. /\ api' = api /\ LockedIn(api') /\ Send(m)
      /\ UNCHANGED <<lastId, sessions, sweep, unstopped>>
  BY SInvParts DEF EngineUp, adapter
<1>2. m \in Msg /\ m.kind = "restart"
  BY DEF Msg
<1> HIDE DEF m
<1> QED BY <1>1, <1>2, SendKeepsLeak

LEMMA InitEstablishesLeak == Init => LeakInv
<1> SUFFICES ASSUME Init PROVE LeakInv
  OBVIOUS
<1>1. \A c \in Client : api[c].starting = 0 /\ api[c].session = 0
  BY DEF Init
<1>2. msgs = <<>> /\ sessions = {} /\ sweep = 0
  BY DEF Init
<1>3. DOMAIN msgs = {}
  BY <1>2
<1>4. \A c \in Client, id \in 1..MaxSession : ~ClaimsIn(api, msgs, sessions, c, id)
  BY <1>1, <1>2, <1>3, IdsArePositive DEF ClaimsIn
<1>5. StartsEndIn(api, msgs) /\ IdsOwnedIn(api, lastId, msgs, sessions)
  BY <1>3, <1>4 DEF StartsEndIn, IdsOwnedIn
<1>6. /\ SweptIn(msgs, sessions, sweep, unstopped)
      /\ NoLeaksIn(api, msgs, sessions, unstopped) /\ LockedIn(api)
  BY <1>1, <1>2 DEF SweptIn, NoLeaksIn, LockedIn
<1> QED BY <1>5, <1>6, LeakParts DEF LeakIn

LEMMA NextKeepsLeak == SInv /\ [Next]_vars => SInv'
<1> SUFFICES ASSUME SInv, [Next]_vars PROVE LeakInv'
  BY NextKeeps DEF SInv
<1>1. CASE Adapter
  BY <1>1, ReplyKeepsLeak, saveClientKeepsLeak, StartMsgKeepsLeak, UpdateMsgKeepsLeak,
     StopMsgKeepsLeak, StopClientKeepsLeak, eraseClientKeepsLeak, RestartKeepsLeak
     DEF Adapter
<1>2. CASE \E c \in Client : Create(c) \/ StartReturn(c) \/ Stop(c) \/ Destroy(c)
  BY <1>2, CreateKeepsLeak, StartReturnKeepsLeak, StopKeepsLeak, DestroyKeepsLeak
<1>3. CASE \E c \in Client, i \in Interval : StartCall(c, i) \/ Update(c, i)
  BY <1>3, StartCallKeepsLeak, UpdateKeepsLeak
<1>4. CASE EngineDown
  BY <1>4, DownKeepsLeak
<1>5. CASE EngineUp
  BY <1>5, UpKeepsLeak
<1>6. CASE UNCHANGED vars
  <2>1. /\ api' = api /\ LockedIn(api')
        /\ UNCHANGED <<lastId, msgs, sessions, sweep, unstopped>>
    BY <1>6, SInvParts DEF vars, adapter
  <2> QED BY <2>1, SameTracks
<1> QED BY <1>1, <1>2, <1>3, <1>4, <1>5, <1>6 DEF Next

\* No tracking session leaks: one that the adapter keeps, and for which the
\* engine runs, is tracked by its client, or a stop or the removal of the
\* client is on its way (locAPIStopTracking, the client's destructor), or the
\* engine refused to stop it.
THEOREM NoSessionIsLeaked == Spec => []NoSessionLeaks
<1>1. Init => SInv
  BY InitEstablishes, InitEstablishesLeak DEF SInv
<1>2. SInv => NoSessionLeaks
  BY DEF SInv, LeakInv
<1> QED BY <1>1, <1>2, NextKeepsLeak, PTL DEF Spec

(***************************************************************************)
(* A response finds its request.                                           *)
(*                                                                         *)
(* What a client has asked of its session and not been answered is, in     *)
(* order, the response under way and the messages in the queue; the client *)
(* keeps the same list (AnswersInOrder), until it asks something of a      *)
(* session that has ended: that is never answered, and nothing asked of    *)
(* the session later is (Silent).  A start is answered because its client  *)
(* is known by then (Known), and nothing is asked of a session before its  *)
(* start (StartsFirst).                                                    *)
(***************************************************************************)

-----------------------------------------------------------------------------
(* The parts of AnswerInv, as predicates of the clients a, the counter n,    *)
(* the queue q, the response r, mClientData C and the sessions S.            *)

Calls == {"start", "stop", "update"}
Kind == {"add", "remove", "restart"} \cup Calls
Response == [kind : Calls, client : Client, id : 1..MaxSession, ok : BOOLEAN]

Asks(m, c, id) == m.kind \in Calls /\ m.client = c /\ m.id = id
AskedIn(q, c, id) == {j \in DOMAIN q : Asks(q[j], c, id)}
AnsweringIn(r, c, id) == r # NoReply /\ r.client = c /\ r.id = id
KindsIn(q) == [j \in DOMAIN q |-> q[j].kind]
First(r, c, id) == IF AnsweringIn(r, c, id) THEN <<r.kind>> ELSE <<>>
UnansweredIn(q, r, c, id) == First(r, c, id) \o At(KindsIn(q), AskedIn(q, c, id))

KnownIn(a, q, C) ==
  \A c \in Client :
    /\ a[c].life = "up" =>
         /\ \A j \in DOMAIN q : q[j].kind = "remove" => q[j].client # c
         /\ \/ c \in C
            \/ \E j \in DOMAIN q :
                 /\ q[j].kind = "add" /\ q[j].client = c
                 /\ \A id \in 1..MaxSession : \A k \in AskedIn(q, c, id) : j < k
    /\ a[c].life # "up" => a[c].starting = 0 /\ a[c].session = 0
    /\ a[c].life = "none" => \A j \in DOMAIN q : q[j].kind # "restart" => q[j].client # c

StartsFirstIn(n, q, r) ==
  /\ r # NoReply => r.id <= n
  /\ \A c \in Client, id \in 1..MaxSession : \A j \in AskedIn(q, c, id) :
       id <= n /\ (q[j].kind = "start" => \A k \in AskedIn(q, c, id) : j <= k)

SilentIn(q, r, S, c, id) ==
  /\ ~AnsweringIn(r, c, id)
  /\ \A j \in AskedIn(q, c, id) : q[j].kind # "start"
  /\ \A s \in S : ~(s.client = c /\ s.id = id)

AnswersIn(a, q, r, S) ==
  \A c \in Client, id \in 1..MaxSession :
    /\ a[c].starting = id => UnansweredIn(q, r, c, id) = <<"start">>
    /\ a[c].starting = 0 /\ a[c].session = id =>
         UnansweredIn(q, r, c, id) = a[c].requests \/ SilentIn(q, r, S, c, id)

LEMMA AnswerParts ==
  AnswerInv <=> /\ KnownIn(api, msgs, clients) /\ StartsFirstIn(lastId, msgs, reply)
                /\ AnswersIn(api, msgs, reply, sessions)
<1>1. Known <=> KnownIn(api, msgs, clients)
  BY DEF Known, KnownIn, Asked, AskedIn, Asks, Calls
<1>2. StartsFirst <=> StartsFirstIn(lastId, msgs, reply)
  BY DEF StartsFirst, StartsFirstIn, Asked, AskedIn, Asks, Calls
<1>3. AnswersInOrder <=> AnswersIn(api, msgs, reply, sessions)
  BY DEF AnswersInOrder, AnswersIn, Unanswered, UnansweredIn, First, Answering, AnsweringIn,
         Kinds, KindsIn, Silent, SilentIn, Asked, AskedIn, Asks, Calls
<1> QED BY <1>1, <1>2, <1>3 DEF AnswerInv

LEMMA AnswerPartsPrimed ==
  /\ KnownIn(api', msgs', clients') /\ StartsFirstIn(lastId', msgs', reply')
  /\ AnswersIn(api', msgs', reply', sessions')
  => AnswerInv'
<1>1. KnownIn(api', msgs', clients') => Known'
  BY DEF Known, KnownIn, Asked, AskedIn, Asks, Calls
<1>2. StartsFirstIn(lastId', msgs', reply') => StartsFirst'
  BY DEF StartsFirst, StartsFirstIn, Asked, AskedIn, Asks, Calls
<1>3. AnswersIn(api', msgs', reply', sessions') => AnswersInOrder'
  BY DEF AnswersInOrder, AnswersIn, Unanswered, UnansweredIn, First, Answering, AnsweringIn,
         Kinds, KindsIn, Silent, SilentIn, Asked, AskedIn, Asks, Calls
<1> QED BY <1>1, <1>2, <1>3 DEF AnswerInv

RInv == SInv /\ AnswerInv

LEMMA RInvParts ==
  ASSUME RInv
  PROVE  /\ TypeOK /\ IInv /\ msgs \in Seq(Msg) /\ sessions \in SUBSET Session
         /\ api \in [Client -> Call] /\ lastId \in Nat /\ clients \subseteq Client
         /\ reply \in {NoReply} \cup Response
         /\ KnownIn(api, msgs, clients) /\ StartsFirstIn(lastId, msgs, reply)
         /\ AnswersIn(api, msgs, reply, sessions)
<1>1. TypeOK /\ IInv
  BY DEF RInv, SInv, IInv
<1>2. lastId \in Nat
  BY <1>1, TypeParts, GnssTrackingAssumption
<1>3. reply \in {NoReply} \cup Response
  BY <1>1, TypeParts DEF ReplyOK, Response, Calls
<1>4. /\ msgs \in Seq(Msg) /\ sessions \in SUBSET Session
      /\ api \in [Client -> Call] /\ clients \subseteq Client
  BY <1>1, TypeParts
<1> QED BY <1>1, <1>2, <1>3, <1>4, AnswerParts DEF RInv

-----------------------------------------------------------------------------
(* What is asked, in a queue that grows or shrinks. *)

LEMMA KindsType ==
  ASSUME NEW q \in Seq(Msg)
  PROVE  /\ KindsIn(q) \in Seq(Kind) /\ DOMAIN KindsIn(q) = DOMAIN q
         /\ Len(KindsIn(q)) = Len(q)
         /\ \A j \in DOMAIN q : KindsIn(q)[j] = q[j].kind
<1>1. \A j \in DOMAIN q : q[j] \in Msg
  BY ElementOfSeq, LenProperties
<1>2. \A j \in DOMAIN q : q[j].kind \in Kind
  BY <1>1, MsgFields DEF Kind, Calls
<1>3. KindsIn(q) \in [DOMAIN q -> Kind]
  BY <1>2 DEF KindsIn
<1>4. KindsIn(q) \in Seq(Kind) /\ DOMAIN KindsIn(q) = DOMAIN q
  BY <1>3, FunctionIsSeq
<1>5. Len(KindsIn(q)) = Len(q)
  BY <1>4, LenProperties
<1> QED BY <1>4, <1>5 DEF KindsIn

LEMMA FirstType ==
  ASSUME NEW r \in {NoReply} \cup Response, NEW c, NEW id
  PROVE  First(r, c, id) \in Seq(Kind)
<1>1. r # NoReply => r.kind \in Kind
  BY DEF Response, Kind
<1> QED BY <1>1 DEF First, AnsweringIn

Joined(u, e, A, B) ==
  At(Append(u, e), A) = At(u, A) /\ At(Append(u, e), B) = Append(At(u, A), e)
Grown(u, A) == A \cup {Len(u) + 1}

LEMMA KindJoins ==
  \A u \in Seq(Kind) : \A e \in Kind : \A A \in SUBSET (DOMAIN u) :
    Joined(u, e, A, Grown(u, A))
BY AtAppend DEF Joined, Grown

\* A list without its first element.
LEMMA TailOfOne ==
  ASSUME NEW k \in Kind, NEW s \in Seq(Kind)
  PROVE  <<k>> \o s # <<>> /\ Tail(<<k>> \o s) = s
<1> DEFINE u == <<k>> \o s
<1>1. /\ <<k>> \in Seq(Kind) /\ Len(<<k>>) = 1 /\ Len(s) \in Nat
  BY LenProperties
<1>2. /\ u \in Seq(Kind) /\ Len(u) = 1 + Len(s)
      /\ \A i \in 1..(1 + Len(s)) : u[i] = IF i <= 1 THEN <<k>>[i] ELSE s[i - 1]
  BY <1>1, ConcatProperties
<1> HIDE DEF u
<1>3. u # <<>>
  BY <1>1, <1>2, EmptySeq
<1>4. /\ Tail(u) \in Seq(Kind) /\ Len(Tail(u)) = Len(s)
      /\ \A i \in 1..Len(s) : Tail(u)[i] = u[i + 1]
  BY <1>1, <1>2, <1>3, HeadTailProperties
<1>5. \A i \in 1..Len(s) : u[i + 1] = s[i]
  <2> TAKE i \in 1..Len(s)
  <2>1. i + 1 \in 1..(1 + Len(s)) /\ ~(i + 1 <= 1) /\ (i + 1) - 1 = i
    BY <1>1
  <2> QED BY <1>2, <2>1
<1>6. Tail(u) = s
  BY <1>4, <1>5, SeqEqual
<1> QED BY <1>3, <1>6 DEF u

\* A message that is sent is asked last.
LEMMA AskSend ==
  ASSUME NEW q \in Seq(Msg), NEW m \in Msg, NEW c \in Client, NEW id \in 1..MaxSession,
         NEW r \in {NoReply} \cup Response
  PROVE  /\ AskedIn(Append(q, m), c, id) =
              IF Asks(m, c, id) THEN AskedIn(q, c, id) \cup {Len(q) + 1} ELSE AskedIn(q, c, id)
         /\ UnansweredIn(Append(q, m), r, c, id) =
              IF Asks(m, c, id) THEN Append(UnansweredIn(q, r, c, id), m.kind)
              ELSE UnansweredIn(q, r, c, id)
<1> DEFINE t == Append(q, m)
           I == AskedIn(q, c, id)
           k == KindsIn(q)
           f == First(r, c, id)
<1>1. /\ t \in Seq(Msg) /\ Len(t) = Len(q) + 1 /\ Len(q) \in Nat
      /\ DOMAIN q = 1..Len(q) /\ DOMAIN t = 1..Len(t)
      /\ \A i \in 1..Len(q) : t[i] = q[i]
      /\ t[Len(q) + 1] = m
  BY AppendProperties, LenProperties
<1> HIDE DEF t
<1>2. m.kind \in Kind
  BY MsgFields DEF Kind, Calls
<1>3. KindsIn(t) = Append(k, m.kind)
  <2>1. /\ k \in Seq(Kind) /\ Len(k) = Len(q)
        /\ \A j \in 1..Len(q) : k[j] = q[j].kind
    BY <1>1, KindsType
  <2>2. /\ KindsIn(t) \in Seq(Kind) /\ Len(KindsIn(t)) = Len(q) + 1
        /\ \A j \in 1..(Len(q) + 1) : KindsIn(t)[j] = t[j].kind
    BY <1>1, KindsType
  <2> HIDE DEF k
  <2>3. /\ Append(k, m.kind) \in Seq(Kind) /\ Len(Append(k, m.kind)) = Len(q) + 1
        /\ \A j \in 1..Len(q) : Append(k, m.kind)[j] = k[j]
        /\ Append(k, m.kind)[Len(q) + 1] = m.kind
    BY <1>2, <2>1, AppendProperties
  <2>4. \A j \in 1..(Len(q) + 1) : KindsIn(t)[j] = Append(k, m.kind)[j]
    <3> TAKE j \in 1..(Len(q) + 1)
    <3>1. j \in 1..Len(q) \/ j = Len(q) + 1
      BY <1>1
    <3> QED BY <3>1, <1>1, <2>1, <2>2, <2>3
  <2> QED BY <2>2, <2>3, <2>4, SeqEqual
<1>4. AskedIn(t, c, id) = IF Asks(m, c, id) THEN I \cup {Len(q) + 1} ELSE I
  <2>1. \A j \in DOMAIN t : j \in DOMAIN q \/ j = Len(q) + 1
    BY <1>1
  <2>2. DOMAIN q \subseteq DOMAIN t /\ Len(q) + 1 \in DOMAIN t
    BY <1>1
  <2>3. \A j \in DOMAIN q : Asks(t[j], c, id) <=> Asks(q[j], c, id)
    BY <1>1
  <2>4. Asks(t[Len(q) + 1], c, id) <=> Asks(m, c, id)
    BY <1>1
  <2> HIDE DEF t
  <2>5. \A j \in DOMAIN t : j \in AskedIn(t, c, id) <=>
           j \in AskedIn(q, c, id) \/ (j = Len(q) + 1 /\ Asks(m, c, id))
    <3>1. Len(q) + 1 \notin DOMAIN q
      BY <1>1
    <3> QED BY <2>1, <2>3, <2>4, <3>1 DEF AskedIn
  <2> QED BY <2>2, <2>5 DEF AskedIn
<1>5. k \in Seq(Kind) /\ I \in SUBSET (DOMAIN k) /\ Len(k) = Len(q) /\ f \in Seq(Kind)
  BY KindsType, FirstType DEF AskedIn
<1> HIDE DEF k, I, f
<1>6. /\ At(Append(k, m.kind), I) = At(k, I)
      /\ At(Append(k, m.kind), I \cup {Len(q) + 1}) = Append(At(k, I), m.kind)
      /\ At(k, I) \in Seq(Kind)
  <2>1. At(k, I) \in Seq(Kind)
    BY <1>5, AtType
  <2> DEFINE e == m.kind
             J == I \cup {Len(q) + 1}
  <2>2. e \in Kind
    BY <1>2
  <2>3. J = Grown(k, I)
    BY <1>5 DEF Grown
  <2> HIDE DEF e, J
  <2>4. Joined(k, e, I, Grown(k, I))
    BY <1>5, <2>2, KindJoins
  <2>5. At(Append(k, e), I) = At(k, I) /\ At(Append(k, e), J) = Append(At(k, I), e)
    BY <2>3, <2>4 DEF Joined
  <2> QED BY <2>1, <2>5 DEF e, J
<1>7. f \o Append(At(k, I), m.kind) = Append(f \o At(k, I), m.kind)
  <2> DEFINE l == <<m.kind>>
             g == At(k, I)
  <2>1. l \in Seq(Kind)
    BY <1>2
  <2>2. Append(g, m.kind) = g \o l
    BY <1>2, <1>6, AppendIsConcat
  <2>3. f \o g \in Seq(Kind)
    BY <1>5, <1>6, ConcatProperties
  <2>4. Append(f \o g, m.kind) = (f \o g) \o l
    BY <1>2, <2>3, AppendIsConcat
  <2>5. (f \o g) \o l = f \o (g \o l)
    BY <1>5, <1>6, <2>1, ConcatAssociative
  <2> QED BY <2>2, <2>4, <2>5
<1>8. UnansweredIn(t, r, c, id) = f \o At(Append(k, m.kind), AskedIn(t, c, id))
  BY <1>3 DEF UnansweredIn, f
<1>9. UnansweredIn(q, r, c, id) = f \o At(k, I)
  BY DEF UnansweredIn, f, k, I
<1>10. UnansweredIn(t, r, c, id) =
         IF Asks(m, c, id) THEN Append(UnansweredIn(q, r, c, id), m.kind)
         ELSE UnansweredIn(q, r, c, id)
  BY <1>4, <1>5, <1>6, <1>7, <1>8, <1>9
<1> QED BY <1>4, <1>10 DEF t, I

\* The message that is taken was asked first.
LEMMA AskTake ==
  ASSUME NEW q \in Seq(Msg), q # <<>>, NEW c \in Client, NEW id \in 1..MaxSession
  PROVE  LET m == Head(q)  t == Tail(q)  rest == At(KindsIn(t), AskedIn(t, c, id)) IN
         /\ AskedIn(t, c, id) = {j \in DOMAIN t : j + 1 \in AskedIn(q, c, id)}
         /\ 1 \in AskedIn(q, c, id) <=> Asks(m, c, id)
         /\ rest \in Seq(Kind)
         /\ UnansweredIn(q, NoReply, c, id) =
              IF Asks(m, c, id) THEN <<m.kind>> \o rest ELSE rest
<1> DEFINE m == Head(q)
           t == Tail(q)
           I == AskedIn(q, c, id)
           k == KindsIn(q)
<1>1. /\ t \in Seq(Msg) /\ Len(t) = Len(q) - 1 /\ Len(q) \in Nat /\ Len(q) > 0
      /\ DOMAIN q = 1..Len(q) /\ DOMAIN t = 1..Len(t)
      /\ \A i \in 1..Len(t) : t[i] = q[i + 1]
      /\ m = q[1] /\ m \in Msg
  BY HeadTailProperties, LenProperties, EmptySeq
<1> HIDE DEF t, m
<1>2. \A i \in DOMAIN t : i + 1 \in DOMAIN q
  BY <1>1
<1>3. AskedIn(t, c, id) = {j \in DOMAIN t : j + 1 \in I}
  BY <1>1, <1>2 DEF AskedIn
<1>4. 1 \in I <=> Asks(m, c, id)
  BY <1>1 DEF AskedIn
<1>5. /\ k \in Seq(Kind) /\ DOMAIN k = DOMAIN q /\ Len(k) = Len(q)
      /\ \A j \in DOMAIN q : k[j] = q[j].kind
      /\ KindsIn(t) \in Seq(Kind) /\ DOMAIN KindsIn(t) = DOMAIN t /\ Len(KindsIn(t)) = Len(t)
      /\ \A j \in DOMAIN t : KindsIn(t)[j] = t[j].kind
  BY <1>1, KindsType
<1>6. I \in SUBSET (DOMAIN k)
  BY <1>5 DEF AskedIn
<1> HIDE DEF I, k
<1>7. k # <<>> /\ Head(k) = m.kind
  <2>1. k # <<>>
    BY <1>1, <1>5, EmptySeq
  <2>2. 1 \in DOMAIN q
    BY <1>1
  <2> QED BY SMTT(30), <2>1, <2>2, <1>1, <1>5
<1>8. Tail(k) = KindsIn(t)
  <2>1. /\ Tail(k) \in Seq(Kind) /\ Len(Tail(k)) = Len(t)
        /\ \A j \in 1..Len(t) : Tail(k)[j] = k[j + 1]
    BY <1>1, <1>5, <1>7, HeadTailProperties
  <2>2. \A j \in 1..Len(t) : KindsIn(t)[j] = k[j + 1]
    BY <1>1, <1>2, <1>5
  <2> QED BY <1>5, <2>1, <2>2, SeqEqual
<1>9. DOMAIN Tail(k) = DOMAIN t
  BY <1>5, <1>8
<1> DEFINE rest == At(KindsIn(t), AskedIn(t, c, id))
<1>10. At(k, I) = IF 1 \in I THEN <<m.kind>> \o rest ELSE rest
  <2> DEFINE J == {j \in DOMAIN Tail(k) : j + 1 \in I}
  <2>1. At(k, I) = IF 1 \in I THEN <<Head(k)>> \o At(Tail(k), J) ELSE At(Tail(k), J)
    BY <1>5, <1>6, <1>7, AtTail
  <2>2. J = AskedIn(t, c, id)
    BY <1>3, <1>9
  <2> QED BY <2>1, <2>2, <1>7, <1>8
<1>11. rest \in Seq(Kind)
  <2>1. AskedIn(t, c, id) \in SUBSET (DOMAIN KindsIn(t))
    BY <1>5 DEF AskedIn
  <2> QED BY <2>1, <1>5, AtType
<1>12. UnansweredIn(q, NoReply, c, id) = At(k, I)
  <2>1. First(NoReply, c, id) = <<>>
    BY DEF First, AnsweringIn
  <2>2. At(k, I) \in Seq(Kind)
    BY <1>5, <1>6, AtType
  <2> QED BY <2>1, <2>2, ConcatEmptySeq DEF UnansweredIn, k, I
<1> QED BY <1>3, <1>4, <1>10, <1>11, <1>12 DEF t, m, I

\* The response under way comes before what is in the queue.
LEMMA UnansweredIs ==
  ASSUME NEW q \in Seq(Msg), NEW r \in {NoReply} \cup Response, NEW c, NEW id
  PROVE  LET rest == At(KindsIn(q), AskedIn(q, c, id)) IN
         /\ rest \in Seq(Kind)
         /\ UnansweredIn(q, r, c, id) =
              IF AnsweringIn(r, c, id) THEN <<r.kind>> \o rest ELSE rest
<1>1. AskedIn(q, c, id) \in SUBSET (DOMAIN KindsIn(q)) /\ KindsIn(q) \in Seq(Kind)
  BY KindsType DEF AskedIn
<1>2. At(KindsIn(q), AskedIn(q, c, id)) \in Seq(Kind)
  BY <1>1, AtType
<1> QED BY <1>2, ConcatEmptySeq DEF UnansweredIn, First

-----------------------------------------------------------------------------
(* Messages sent. *)

LEMMA SendAt ==
  ASSUME msgs \in Seq(Msg), NEW m \in Msg, Send(m)
  PROVE  /\ msgs' = Append(msgs, m) /\ msgs' \in Seq(Msg)
         /\ \E e \in Nat : /\ e = Len(msgs) + 1 /\ e \notin DOMAIN msgs
                           /\ DOMAIN msgs' = DOMAIN msgs \cup {e} /\ msgs'[e] = m
                           /\ \A j \in DOMAIN msgs : j < e /\ msgs'[j] = msgs[j]
<1>1. msgs' = Append(msgs, m)
  BY DEF Send
<1>2. /\ msgs' \in Seq(Msg) /\ Len(msgs') = Len(msgs) + 1
      /\ \A j \in 1..Len(msgs) : msgs'[j] = msgs[j]
      /\ msgs'[Len(msgs) + 1] = m
  BY <1>1, AppendProperties
<1>3. Len(msgs) \in Nat /\ DOMAIN msgs = 1..Len(msgs) /\ DOMAIN msgs' = 1..Len(msgs')
  BY <1>2, LenProperties
<1> QED BY <1>1, <1>2, <1>3

\* A message joins: who is known stays known, and a client that asks for
\* something has been added.
LEMMA SendKeepsKnown ==
  ASSUME msgs \in Seq(Msg), NEW m \in Msg, Send(m), KnownIn(api, msgs, clients),
         clients' = clients,
         \A c \in Client :
           /\ api'[c].life = "up" =>
                /\ ~(m.kind = "remove" /\ m.client = c)
                /\ \/ api[c].life = "up"
                   \/ api[c].life = "none" /\ m.kind = "add" /\ m.client = c
           /\ api'[c].life # "up" => api'[c].starting = 0 /\ api'[c].session = 0
           /\ api'[c].life = "none" =>
                api[c].life = "none" /\ (m.kind # "restart" => m.client # c)
  PROVE  KnownIn(api', msgs', clients')
<1>1. PICK e \in Nat : /\ e \notin DOMAIN msgs
                       /\ DOMAIN msgs' = DOMAIN msgs \cup {e} /\ msgs'[e] = m
                       /\ \A j \in DOMAIN msgs : j < e /\ msgs'[j] = msgs[j]
  BY SendAt
<1> SUFFICES ASSUME NEW c \in Client
             PROVE  /\ api'[c].life = "up" =>
                         /\ \A j \in DOMAIN msgs' : msgs'[j].kind = "remove" => msgs'[j].client # c
                         /\ \/ c \in clients'
                            \/ \E j \in DOMAIN msgs' :
                                 /\ msgs'[j].kind = "add" /\ msgs'[j].client = c
                                 /\ \A id \in 1..MaxSession : \A k \in AskedIn(msgs', c, id) : j < k
                    /\ api'[c].life = "none" =>
                         \A j \in DOMAIN msgs' : msgs'[j].kind # "restart" => msgs'[j].client # c
  BY DEF KnownIn
<1>2. ASSUME api'[c].life = "up"
      PROVE  \A j \in DOMAIN msgs' : msgs'[j].kind = "remove" => msgs'[j].client # c
  BY <1>1, <1>2 DEF KnownIn
<1>3. ASSUME api'[c].life = "up", c \notin clients'
      PROVE  \E j \in DOMAIN msgs' :
               /\ msgs'[j].kind = "add" /\ msgs'[j].client = c
               /\ \A id \in 1..MaxSession : \A k \in AskedIn(msgs', c, id) : j < k
  <2>1. CASE api[c].life = "up"
    <3>1. PICK j \in DOMAIN msgs :
            /\ msgs[j].kind = "add" /\ msgs[j].client = c
            /\ \A id \in 1..MaxSession : \A k \in AskedIn(msgs, c, id) : j < k
      BY <1>3, <2>1 DEF KnownIn
    <3>2. \A id \in 1..MaxSession : \A k \in AskedIn(msgs', c, id) :
            k = e \/ k \in AskedIn(msgs, c, id)
      BY <1>1 DEF AskedIn
    <3> QED BY <1>1, <3>1, <3>2
  <2>2. CASE api[c].life = "none" /\ m.kind = "add" /\ m.client = c
    <3>1. \A id \in 1..MaxSession : AskedIn(msgs', c, id) = {}
      <4>1. \A j \in DOMAIN msgs : msgs[j].kind # "restart" => msgs[j].client # c
        BY <2>2 DEF KnownIn
      <4>2. "restart" \notin Calls /\ "add" \notin Calls
        BY DEF Calls
      <4> QED BY <1>1, <2>2, <4>1, <4>2 DEF AskedIn, Asks
    <3> QED BY <1>1, <2>2, <3>1
  <2> QED BY <1>3, <2>1, <2>2
<1>4. ASSUME api'[c].life = "none"
      PROVE  \A j \in DOMAIN msgs' : msgs'[j].kind # "restart" => msgs'[j].client # c
  BY <1>1, <1>4 DEF KnownIn
<1> QED BY <1>2, <1>3, <1>4

\* What joins is asked of a session that was there, or starts one.
LEMMA SendKeepsStarts ==
  ASSUME msgs \in Seq(Msg), NEW m \in Msg, Send(m), StartsFirstIn(lastId, msgs, reply),
         lastId \in Nat, lastId' \in Nat, lastId <= lastId', reply' = reply,
         reply \in {NoReply} \cup Response,
         m.kind \in Calls => m.id <= lastId',
         m.kind = "start" => lastId < m.id
  PROVE  StartsFirstIn(lastId', msgs', reply')
<1>1. PICK e \in Nat : /\ e \notin DOMAIN msgs
                       /\ DOMAIN msgs' = DOMAIN msgs \cup {e} /\ msgs'[e] = m
                       /\ \A j \in DOMAIN msgs : j < e /\ msgs'[j] = msgs[j]
  BY SendAt
<1>2. \A c \in Client, id \in 1..MaxSession : \A j \in AskedIn(msgs', c, id) :
        (j = e /\ Asks(m, c, id)) \/ j \in AskedIn(msgs, c, id)
  BY <1>1 DEF AskedIn
<1>3. \A i \in 1..MaxSession : i \in Nat
  BY GnssTrackingAssumption
<1>4. reply' # NoReply => reply'.id <= lastId'
  <2> SUFFICES ASSUME reply # NoReply PROVE reply.id <= lastId'
    OBVIOUS
  <2>1. reply.id \in 1..MaxSession /\ reply.id <= lastId
    BY DEF StartsFirstIn, Response
  <2> QED BY <2>1, <1>3
<1>5. ASSUME NEW c \in Client, NEW id \in 1..MaxSession, NEW j \in AskedIn(msgs', c, id)
      PROVE  /\ id <= lastId'
             /\ msgs'[j].kind = "start" => \A k \in AskedIn(msgs', c, id) : j <= k
  <2>1. CASE j \in AskedIn(msgs, c, id)
    <3>1. id <= lastId /\ id \in Nat /\ j \in DOMAIN msgs
      BY <1>3, <2>1 DEF StartsFirstIn, AskedIn
    <3>2. msgs[j].kind = "start" => \A k \in AskedIn(msgs, c, id) : j <= k
      BY <2>1 DEF StartsFirstIn
    <3>3. msgs'[j] = msgs[j] /\ j < e /\ j \in Nat
      BY <1>1, <3>1, LenProperties
    <3> QED BY <1>2, <3>1, <3>2, <3>3
  <2>2. CASE j = e /\ Asks(m, c, id)
    <3>1. m.kind \in Calls /\ m.id = id
      BY <2>2 DEF Asks
    <3>2. ASSUME m.kind = "start" PROVE AskedIn(msgs, c, id) = {}
      <4>1. lastId < id /\ id \in Nat
        BY <1>3, <3>1, <3>2
      <4>2. ~(id <= lastId)
        BY <4>1
      <4> QED BY <4>2 DEF StartsFirstIn
    <3>3. msgs'[j] = m
      BY <1>1, <2>2
    <3> QED BY <1>1, <1>2, <2>2, <3>1, <3>2, <3>3
  <2> QED BY <1>2, <2>1, <2>2
<1> QED BY <1>4, <1>5 DEF StartsFirstIn

\* Nothing is asked of a session that is yet to come.
LEMMA NothingAsked ==
  ASSUME msgs \in Seq(Msg), StartsFirstIn(lastId, msgs, reply), lastId \in Nat,
         reply \in {NoReply} \cup Response,
         NEW c \in Client, NEW id \in 1..MaxSession, lastId < id
  PROVE  UnansweredIn(msgs, reply, c, id) = <<>>
<1>1. id \in Nat /\ ~(id <= lastId)
  BY GnssTrackingAssumption
<1>2. AskedIn(msgs, c, id) = {} /\ ~AnsweringIn(reply, c, id)
  BY <1>1 DEF StartsFirstIn, AnsweringIn
<1>3. KindsIn(msgs) \in Seq(Kind) /\ AskedIn(msgs, c, id) \in SUBSET (DOMAIN KindsIn(msgs))
  BY <1>2, KindsType
<1>4. At(KindsIn(msgs), AskedIn(msgs, c, id)) = <<>>
  BY <1>2, <1>3, AtEmpty
<1> QED BY <1>2, <1>4, UnansweredIs

\* A client that asks adds what it asks to what it waits for.
LEMMA SendKeepsAnswers ==
  ASSUME msgs \in Seq(Msg), NEW m \in Msg, Send(m), AnswersIn(api, msgs, reply, sessions),
         reply \in {NoReply} \cup Response, reply' = reply, sessions' = sessions,
         \A c \in Client, id \in 1..MaxSession :
           /\ api'[c].starting = id =>
                \/ api[c].starting = id /\ ~Asks(m, c, id)
                \/ Asks(m, c, id) /\ m.kind = "start" /\ UnansweredIn(msgs, reply, c, id) = <<>>
           /\ api'[c].starting = 0 /\ api'[c].session = id =>
                /\ api[c].starting = 0 /\ api[c].session = id
                /\ Asks(m, c, id) => m.kind # "start"
                /\ api'[c].requests = IF Asks(m, c, id) THEN Append(api[c].requests, m.kind)
                                      ELSE api[c].requests
  PROVE  AnswersIn(api', msgs', reply', sessions')
<1> SUFFICES ASSUME NEW c \in Client, NEW id \in 1..MaxSession
             PROVE  /\ api'[c].starting = id => UnansweredIn(msgs', reply, c, id) = <<"start">>
                    /\ api'[c].starting = 0 /\ api'[c].session = id =>
                         \/ UnansweredIn(msgs', reply, c, id) = api'[c].requests
                         \/ SilentIn(msgs', reply, sessions, c, id)
  BY DEF AnswersIn
<1>1. UnansweredIn(msgs', reply, c, id) =
        IF Asks(m, c, id) THEN Append(UnansweredIn(msgs, reply, c, id), m.kind)
        ELSE UnansweredIn(msgs, reply, c, id)
  <2>1. msgs' = Append(msgs, m)
    BY SendAt
  <2>2. UnansweredIn(Append(msgs, m), reply, c, id) =
          IF Asks(m, c, id) THEN Append(UnansweredIn(msgs, reply, c, id), m.kind)
          ELSE UnansweredIn(msgs, reply, c, id)
    BY AskSend
  <2> QED BY <2>1, <2>2
<1>2. ASSUME api'[c].starting = id
      PROVE  UnansweredIn(msgs', reply, c, id) = <<"start">>
  <2>1. CASE api[c].starting = id /\ ~Asks(m, c, id)
    BY <1>1, <2>1 DEF AnswersIn
  <2>2. CASE Asks(m, c, id) /\ m.kind = "start" /\ UnansweredIn(msgs, reply, c, id) = <<>>
    BY <1>1, <2>2
  <2> QED BY <1>2, <2>1, <2>2
<1>3. ASSUME api'[c].starting = 0, api'[c].session = id
      PROVE  \/ UnansweredIn(msgs', reply, c, id) = api'[c].requests
             \/ SilentIn(msgs', reply, sessions, c, id)
  <2>1. /\ api[c].starting = 0 /\ api[c].session = id
        /\ Asks(m, c, id) => m.kind # "start"
        /\ api'[c].requests = IF Asks(m, c, id) THEN Append(api[c].requests, m.kind)
                              ELSE api[c].requests
    BY <1>3
  <2>2. CASE UnansweredIn(msgs, reply, c, id) = api[c].requests
    BY <1>1, <2>1, <2>2
  <2>3. CASE SilentIn(msgs, reply, sessions, c, id)
    <3>1. PICK e \in Nat : /\ DOMAIN msgs' = DOMAIN msgs \cup {e} /\ msgs'[e] = m
                           /\ \A j \in DOMAIN msgs : msgs'[j] = msgs[j]
      BY SendAt
    <3>2. \A j \in AskedIn(msgs', c, id) :
            (j = e /\ Asks(m, c, id)) \/ (j \in AskedIn(msgs, c, id) /\ j \in DOMAIN msgs)
      BY <3>1 DEF AskedIn
    <3>3. \A j \in AskedIn(msgs', c, id) : msgs'[j].kind # "start"
      BY <2>1, <2>3, <3>1, <3>2 DEF SilentIn
    <3> QED BY <2>3, <3>3 DEF SilentIn
  <2> QED BY <2>1, <2>2, <2>3 DEF AnswersIn
<1> QED BY <1>2, <1>3

-----------------------------------------------------------------------------
(* Messages taken. *)

\* What has become of the asked, when a message is taken and reply' is what
\* the adapter answers.
LEMMA TakeAsks ==
  ASSUME msgs \in Seq(Msg), NEW kind, Take(kind), reply' \in {NoReply} \cup Response,
         NEW c \in Client, NEW id \in 1..MaxSession
  PROVE  /\ AskedIn(msgs', c, id) = {j \in DOMAIN msgs' : j + 1 \in AskedIn(msgs, c, id)}
         /\ 1 \in AskedIn(msgs, c, id) <=> Asks(Head(msgs), c, id)
         /\ (Asks(Head(msgs), c, id) <=> AnsweringIn(reply', c, id))
              /\ (AnsweringIn(reply', c, id) => reply'.kind = Head(msgs).kind)
            => UnansweredIn(msgs', reply', c, id) = UnansweredIn(msgs, reply, c, id)
         /\ Asks(Head(msgs), c, id) /\ UnansweredIn(msgs, reply, c, id) = <<"start">>
            => Head(msgs).kind = "start"
<1>1. reply = NoReply /\ msgs # <<>> /\ msgs' = Tail(msgs) /\ msgs' \in Seq(Msg)
  BY HeadTailProperties DEF Take, AtHead
<1> DEFINE rest == At(KindsIn(msgs'), AskedIn(msgs', c, id))
<1>2. /\ AskedIn(msgs', c, id) = {j \in DOMAIN msgs' : j + 1 \in AskedIn(msgs, c, id)}
      /\ 1 \in AskedIn(msgs, c, id) <=> Asks(Head(msgs), c, id)
      /\ rest \in Seq(Kind)
      /\ UnansweredIn(msgs, NoReply, c, id) =
           IF Asks(Head(msgs), c, id) THEN <<Head(msgs).kind>> \o rest ELSE rest
  BY <1>1, AskTake
<1>3. UnansweredIn(msgs', reply', c, id) =
        IF AnsweringIn(reply', c, id) THEN <<reply'.kind>> \o rest ELSE rest
  BY ZenonT(40), <1>1, UnansweredIs
<1>4. ASSUME Asks(Head(msgs), c, id), UnansweredIn(msgs, reply, c, id) = <<"start">>
      PROVE  Head(msgs).kind = "start"
  <2> DEFINE k == Head(msgs).kind
             u == <<k>> \o rest
  <2>1. u = <<"start">>
    BY <1>1, <1>2, <1>4
  <2>2. k \in Kind
    BY <1>1, HeadTailProperties, MsgFields DEF Kind, Calls
  <2> HIDE DEF k, rest
  <2>3. u[1] = k
    <3>1. <<k>> \in Seq(Kind) /\ Len(<<k>>) = 1 /\ <<k>>[1] = k
      BY <2>2
    <3>2. Len(rest) \in Nat
      BY <1>2, LenProperties
    <3>3. \A i \in 1..(1 + Len(rest)) : u[i] = IF i <= 1 THEN <<k>>[i] ELSE rest[i - 1]
      BY <1>2, <3>1, ConcatProperties
    <3> QED BY <3>1, <3>2, <3>3
  <2> HIDE DEF u
  <2>4. k = "start"
    BY <2>1, <2>3
  <2> QED BY <2>4 DEF k
<1> HIDE DEF rest
<1>5. (Asks(Head(msgs), c, id) <=> AnsweringIn(reply', c, id))
        /\ (AnsweringIn(reply', c, id) => reply'.kind = Head(msgs).kind)
      => UnansweredIn(msgs', reply', c, id) = UnansweredIn(msgs, reply, c, id)
  BY <1>1, <1>2, <1>3
<1> QED BY <1>2, <1>4, <1>5

LEMMA TakeKeepsKnown ==
  ASSUME msgs \in Seq(Msg), NEW kind, Take(kind), KnownIn(api, msgs, clients),
         \A c \in clients : c \in clients' \/ (kind = "remove" /\ Head(msgs).client = c),
         kind = "add" => Head(msgs).client \in clients'
  PROVE  KnownIn(api', msgs', clients')
<1>1. /\ Head(msgs).kind = kind /\ 1 \in DOMAIN msgs /\ msgs[1] = Head(msgs)
      /\ msgs' \in Seq(Msg) /\ api' = api
      /\ \A j \in DOMAIN msgs' : j + 1 \in DOMAIN msgs /\ msgs'[j] = msgs[j + 1]
      /\ \A j \in DOMAIN msgs : j = 1 \/ (j - 1 \in DOMAIN msgs' /\ msgs'[j - 1] = msgs[j])
  BY TakeDoes DEF Take
<1>2. \A j \in DOMAIN msgs' : j \in Nat
  BY <1>1, LenProperties
<1> SUFFICES ASSUME NEW c \in Client
             PROVE  /\ api[c].life = "up" =>
                         /\ \A j \in DOMAIN msgs' : msgs'[j].kind = "remove" => msgs'[j].client # c
                         /\ \/ c \in clients'
                            \/ \E j \in DOMAIN msgs' :
                                 /\ msgs'[j].kind = "add" /\ msgs'[j].client = c
                                 /\ \A id \in 1..MaxSession : \A k \in AskedIn(msgs', c, id) : j < k
                    /\ api[c].life # "up" => api[c].starting = 0 /\ api[c].session = 0
                    /\ api[c].life = "none" =>
                         \A j \in DOMAIN msgs' : msgs'[j].kind # "restart" => msgs'[j].client # c
  BY <1>1 DEF KnownIn
<1>3. /\ api[c].life = "up" =>
           \A j \in DOMAIN msgs' : msgs'[j].kind = "remove" => msgs'[j].client # c
      /\ api[c].life # "up" => api[c].starting = 0 /\ api[c].session = 0
      /\ api[c].life = "none" =>
           \A j \in DOMAIN msgs' : msgs'[j].kind # "restart" => msgs'[j].client # c
  BY <1>1 DEF KnownIn
<1>4. ASSUME api[c].life = "up", c \notin clients'
      PROVE  \E j \in DOMAIN msgs' :
               /\ msgs'[j].kind = "add" /\ msgs'[j].client = c
               /\ \A id \in 1..MaxSession : \A k \in AskedIn(msgs', c, id) : j < k
  <2>1. c \notin clients
    BY <1>1, <1>4 DEF KnownIn
  <2>2. PICK j \in DOMAIN msgs :
          /\ msgs[j].kind = "add" /\ msgs[j].client = c
          /\ \A id \in 1..MaxSession : \A k \in AskedIn(msgs, c, id) : j < k
    BY <1>4, <2>1 DEF KnownIn
  <2>3. j # 1
    BY <1>1, <1>4, <2>2
  <2>4. j - 1 \in DOMAIN msgs' /\ msgs'[j - 1] = msgs[j] /\ j \in Nat
    BY <1>1, <2>3, LenProperties
  <2>5. ASSUME NEW id \in 1..MaxSession, NEW k \in AskedIn(msgs', c, id)
        PROVE  j - 1 < k
    <3>1. k + 1 \in AskedIn(msgs, c, id) /\ k \in Nat
      BY <1>1, <1>2 DEF AskedIn
    <3>2. j < k + 1
      BY <2>2, <3>1
    <3> QED BY <2>4, <3>1, <3>2
  <2> QED BY <2>2, <2>4, <2>5
<1> QED BY <1>3, <1>4

LEMMA TakeKeepsStarts ==
  ASSUME msgs \in Seq(Msg), NEW kind, Take(kind), StartsFirstIn(lastId, msgs, reply),
         reply' # NoReply => kind \in Calls /\ reply'.id = Head(msgs).id
  PROVE  StartsFirstIn(lastId', msgs', reply')
<1>1. /\ Head(msgs).kind = kind /\ Head(msgs) \in Msg
      /\ 1 \in DOMAIN msgs /\ msgs[1] = Head(msgs)
      /\ msgs' \in Seq(Msg) /\ lastId' = lastId
      /\ \A j \in DOMAIN msgs' : j + 1 \in DOMAIN msgs /\ msgs'[j] = msgs[j + 1]
  BY TakeDoes DEF Take
<1>2. \A j \in DOMAIN msgs' : j \in Nat
  BY <1>1, LenProperties
<1>3. reply' # NoReply => reply'.id <= lastId
  <2> SUFFICES ASSUME reply' # NoReply PROVE Head(msgs).id <= lastId
    OBVIOUS
  <2>1. Head(msgs).client \in Client /\ Head(msgs).id \in 1..MaxSession
    BY <1>1, MsgFields DEF Calls
  <2>2. 1 \in AskedIn(msgs, Head(msgs).client, Head(msgs).id)
    BY <1>1 DEF AskedIn, Asks
  <2> QED BY <2>1, <2>2 DEF StartsFirstIn
<1>4. ASSUME NEW c \in Client, NEW id \in 1..MaxSession, NEW j \in AskedIn(msgs', c, id)
      PROVE  /\ id <= lastId
             /\ msgs'[j].kind = "start" => \A k \in AskedIn(msgs', c, id) : j <= k
  <2>1. \A k \in AskedIn(msgs', c, id) :
          k + 1 \in AskedIn(msgs, c, id) /\ msgs'[k] = msgs[k + 1] /\ k \in Nat
    BY <1>1, <1>2 DEF AskedIn
  <2>2. /\ id <= lastId
        /\ msgs[j + 1].kind = "start" => \A k \in AskedIn(msgs, c, id) : j + 1 <= k
    BY <2>1 DEF StartsFirstIn
  <2>3. ASSUME msgs'[j].kind = "start", NEW k \in AskedIn(msgs', c, id) PROVE j <= k
    <3>1. j + 1 <= k + 1
      BY <2>1, <2>2, <2>3
    <3> QED BY <2>1, <3>1
  <2> QED BY <2>2, <2>3
<1> QED BY <1>1, <1>3, <1>4 DEF StartsFirstIn

\* The adapter answers the message, unless the session is unknown to it.
Answered(kind) ==
  /\ reply' \in {NoReply} \cup Response
  /\ reply' # NoReply =>
       /\ kind \in Calls /\ reply'.kind = kind
       /\ reply'.client = Head(msgs).client /\ reply'.id = Head(msgs).id
       /\ kind = "start" \/ isTrackingSession(Head(msgs))
  /\ kind \in Calls /\ Head(msgs).client \in clients
       /\ (kind = "start" \/ isTrackingSession(Head(msgs))) => reply' # NoReply

\* Only a start brings a session.
Started(kind) ==
  \A s \in sessions' : \/ \E t \in sessions : t.client = s.client /\ t.id = s.id
                       \/ /\ kind = "start"
                          /\ s.client = Head(msgs).client /\ s.id = Head(msgs).id

LEMMA TakeKeepsAnswers ==
  ASSUME RInv, NEW kind, Take(kind), Answered(kind), Started(kind)
  PROVE  AnswersIn(api', msgs', reply', sessions')
<1> DEFINE m == Head(msgs)
<1>0. /\ msgs \in Seq(Msg) /\ api \in [Client -> Call]
      /\ KnownIn(api, msgs, clients) /\ StartsFirstIn(lastId, msgs, reply)
      /\ AnswersIn(api, msgs, reply, sessions) /\ reply' \in {NoReply} \cup Response
  BY RInvParts DEF Answered
<1>1. /\ m.kind = kind /\ m \in Msg /\ 1 \in DOMAIN msgs /\ msgs[1] = m
      /\ msgs' \in Seq(Msg) /\ api' = api /\ reply = NoReply
      /\ \A j \in DOMAIN msgs' : j + 1 \in DOMAIN msgs /\ msgs'[j] = msgs[j + 1]
  BY <1>0, TakeDoes DEF Take, AtHead
<1> SUFFICES ASSUME NEW c \in Client, NEW id \in 1..MaxSession,
                    api[c].starting = id \/ (api[c].starting = 0 /\ api[c].session = id)
             PROVE  /\ api[c].starting = id => UnansweredIn(msgs', reply', c, id) = <<"start">>
                    /\ api[c].starting = 0 /\ api[c].session = id =>
                         \/ UnansweredIn(msgs', reply', c, id) = api[c].requests
                         \/ SilentIn(msgs', reply', sessions', c, id)
  BY <1>1 DEF AnswersIn
<1>2. /\ AskedIn(msgs', c, id) = {j \in DOMAIN msgs' : j + 1 \in AskedIn(msgs, c, id)}
      /\ 1 \in AskedIn(msgs, c, id) <=> Asks(m, c, id)
      /\ (Asks(m, c, id) <=> AnsweringIn(reply', c, id))
           /\ (AnsweringIn(reply', c, id) => reply'.kind = m.kind)
         => UnansweredIn(msgs', reply', c, id) = UnansweredIn(msgs, reply, c, id)
      /\ Asks(m, c, id) /\ UnansweredIn(msgs, reply, c, id) = <<"start">> => m.kind = "start"
  BY <1>0, TakeAsks
<1>3. AnsweringIn(reply', c, id) => Asks(m, c, id) /\ reply'.kind = m.kind
  BY <1>1 DEF Answered, AnsweringIn, Asks
<1>4. \A j \in AskedIn(msgs', c, id) : j + 1 \in AskedIn(msgs, c, id) /\ msgs'[j] = msgs[j + 1]
                                       /\ j \in Nat /\ j \in DOMAIN msgs'
  BY <1>1, <1>2, LenProperties
\* A client that asks is known.
<1>5. ASSUME Asks(m, c, id) PROVE c \in clients
  <2>1. id # 0
    BY GnssTrackingAssumption
  <2>2. api[c].life = "up"
    BY <1>0, <2>1 DEF KnownIn
  <2>3. 1 \in AskedIn(msgs, c, id)
    BY <1>2, <1>5
  <2>4. \A j \in DOMAIN msgs : ~(j < 1)
    BY <1>0, LenProperties
  <2> QED BY <1>0, <2>2, <2>3, <2>4 DEF KnownIn
<1>6. CASE Asks(m, c, id) <=> AnsweringIn(reply', c, id)
  <2>1. UnansweredIn(msgs', reply', c, id) = UnansweredIn(msgs, reply, c, id)
    BY <1>2, <1>3, <1>6
  <2>2. ASSUME SilentIn(msgs, reply, sessions, c, id)
        PROVE  SilentIn(msgs', reply', sessions', c, id)
    <3>1. ~Asks(m, c, id)
      <4> SUFFICES ASSUME Asks(m, c, id) PROVE FALSE
        OBVIOUS
      <4>1. m.kind # "start"
        BY <1>1, <1>2, <2>2 DEF SilentIn
      <4>2. ~isTrackingSession(m)
        BY <2>2 DEF SilentIn, isTrackingSession, Asks
      <4> QED BY <1>1, <1>6, <4>1, <4>2 DEF Answered, AnsweringIn
    <3>2. \A j \in AskedIn(msgs', c, id) : msgs'[j].kind # "start"
      BY <1>4, <2>2 DEF SilentIn
    <3>3. \A s \in sessions' : ~(s.client = c /\ s.id = id)
      <4> SUFFICES ASSUME NEW s \in sessions', s.client = c, s.id = id PROVE FALSE
        OBVIOUS
      <4>1. \A t \in sessions : ~(t.client = s.client /\ t.id = s.id)
        BY <2>2 DEF SilentIn
      <4>2. kind = "start" /\ m.client = c /\ m.id = id
        BY <4>1 DEF Started
      <4> QED BY <1>1, <3>1, <4>2 DEF Asks, Calls
    <3> QED BY <1>6, <3>1, <3>2, <3>3 DEF SilentIn
  <2> QED BY <1>0, <2>1, <2>2 DEF AnswersIn
<1>7. CASE Asks(m, c, id) /\ ~AnsweringIn(reply', c, id)
  <2>1. reply' = NoReply
    BY <1>7 DEF Answered, AnsweringIn, Asks
  <2>2. kind \in Calls /\ m.client = c /\ m.id = id /\ m.client \in clients
    BY <1>1, <1>5, <1>7 DEF Asks
  <2>3. kind # "start" /\ ~isTrackingSession(m)
    BY <2>1, <2>2 DEF Answered
  <2>4. api[c].starting # id
    BY <1>0, <1>1, <1>2, <1>7, <2>3 DEF AnswersIn
  <2>5. SilentIn(msgs', reply', sessions', c, id)
    <3>1. \A j \in AskedIn(msgs', c, id) : msgs'[j].kind # "start"
      <4> SUFFICES ASSUME NEW j \in AskedIn(msgs', c, id), msgs'[j].kind = "start" PROVE FALSE
        OBVIOUS
      <4>1. j + 1 \in AskedIn(msgs, c, id) /\ msgs[j + 1].kind = "start" /\ j \in DOMAIN msgs'
        BY <1>4
      <4>2. 1 \in AskedIn(msgs, c, id)
        BY <1>2, <1>7
      <4>3. j + 1 <= 1
        BY <1>0, <4>1, <4>2 DEF StartsFirstIn
      <4>4. j \in 1..Len(msgs') /\ Len(msgs') \in Nat
        BY <1>1, <4>1, LenProperties
      <4> QED BY <4>3, <4>4
    <3>2. \A s \in sessions' : ~(s.client = c /\ s.id = id)
      BY <2>2, <2>3 DEF Started, isTrackingSession
    <3> QED BY <1>7, <3>1, <3>2 DEF SilentIn
  <2> QED BY <2>4, <2>5
<1> QED BY <1>3, <1>6, <1>7

\* A message that is taken, the clients that the adapter knows from then on.
LEMMA TakeKeepsAnswer ==
  ASSUME RInv, NEW kind, Take(kind), Answered(kind), Started(kind),
         \A c \in clients : c \in clients' \/ (kind = "remove" /\ Head(msgs).client = c),
         kind = "add" => Head(msgs).client \in clients'
  PROVE  AnswerInv'
<1>1. /\ msgs \in Seq(Msg) /\ KnownIn(api, msgs, clients)
      /\ StartsFirstIn(lastId, msgs, reply)
  BY RInvParts
<1>2. KnownIn(api', msgs', clients')
  BY <1>1, TakeKeepsKnown
<1>3. StartsFirstIn(lastId', msgs', reply')
  BY <1>1, TakeKeepsStarts DEF Answered
<1>4. AnswersIn(api', msgs', reply', sessions')
  BY TakeKeepsAnswers
<1> QED BY <1>2, <1>3, <1>4, AnswerPartsPrimed

-----------------------------------------------------------------------------
(* The client's steps. *)

\* A message that asks nothing of a session, sent by a client that comes or
\* goes, or by the engine.
LEMMA SendKeepsAnswer ==
  ASSUME RInv, NEW m \in Msg, m.kind \notin Calls, Send(m),
         UNCHANGED <<lastId, clients, sessions, reply>>,
         \A c \in Client :
           /\ api'[c].life = "up" =>
                /\ ~(m.kind = "remove" /\ m.client = c)
                /\ \/ api[c].life = "up"
                   \/ api[c].life = "none" /\ m.kind = "add" /\ m.client = c
           /\ api'[c].life # "up" => api'[c].starting = 0 /\ api'[c].session = 0
           /\ api'[c].life = "none" =>
                api[c].life = "none" /\ (m.kind # "restart" => m.client # c)
           /\ api'[c].starting # 0 => api'[c].starting = api[c].starting
           /\ api'[c].starting = 0 /\ api'[c].session # 0 =>
                /\ api[c].starting = 0 /\ api'[c].session = api[c].session
                /\ api'[c].requests = api[c].requests
  PROVE  AnswerInv'
<1>1. /\ msgs \in Seq(Msg) /\ KnownIn(api, msgs, clients) /\ lastId \in Nat
      /\ StartsFirstIn(lastId, msgs, reply) /\ AnswersIn(api, msgs, reply, sessions)
      /\ reply \in {NoReply} \cup Response
  BY RInvParts
<1>2. lastId' = lastId /\ clients' = clients /\ sessions' = sessions /\ reply' = reply
  OBVIOUS
<1>3. KnownIn(api', msgs', clients')
  BY <1>1, <1>2, SendKeepsKnown
<1>4. StartsFirstIn(lastId', msgs', reply')
  BY <1>1, <1>2, SendKeepsStarts DEF Calls
<1>5. AnswersIn(api', msgs', reply', sessions')
  <2>1. \A c \in Client, id \in 1..MaxSession : ~Asks(m, c, id) /\ id # 0
    BY IdsArePositive DEF Asks
  <2> QED BY <1>1, <1>2, <2>1, SendKeepsAnswers
<1> QED BY <1>3, <1>4, <1>5, AnswerPartsPrimed

LEMMA CreateKeepsAnswer ==
  ASSUME RInv, NEW c \in Client, Create(c)
  PROVE  AnswerInv'
<1> DEFINE m == [kind |-> "add", client |-> c]
<1>1. m \in Msg /\ m.kind = "add" /\ m.client = c /\ Send(m) /\ m.kind \notin Calls
  BY DEF Msg, Create, Calls
<1> HIDE DEF m
<1>2. /\ api \in [Client -> Call] /\ api[c].life = "none" /\ KnownIn(api, msgs, clients)
      /\ api' = [api EXCEPT ![c].life = "up"]
      /\ UNCHANGED <<lastId, clients, sessions, reply>>
  BY RInvParts DEF Create, adapter
<1>3. /\ \A d \in Client \ {c} : api'[d] = api[d]
      /\ api'[c].life = "up" /\ api'[c].starting = api[c].starting
      /\ api'[c].session = api[c].session /\ api'[c].requests = api[c].requests
  BY <1>2 DEF Call
<1>4. \A d \in Client : api[d].life # "up" => api[d].starting = 0 /\ api[d].session = 0
  BY <1>2 DEF KnownIn
<1> QED BY <1>1, <1>2, <1>3, <1>4, SendKeepsAnswer

LEMMA DestroyKeepsAnswer ==
  ASSUME RInv, NEW c \in Client, Destroy(c)
  PROVE  AnswerInv'
<1> DEFINE m == [kind |-> "remove", client |-> c]
<1>1. m \in Msg /\ m.kind = "remove" /\ m.client = c /\ Send(m) /\ m.kind \notin Calls
  BY DEF Msg, Destroy, Calls
<1> HIDE DEF m
<1>2. /\ api \in [Client -> Call] /\ api[c].life = "up" /\ api[c].starting = 0
      /\ KnownIn(api, msgs, clients)
      /\ api' = [api EXCEPT ![c].life = "gone", ![c].tracking = FALSE,
                            ![c].session = 0, ![c].requests = <<>>]
      /\ UNCHANGED <<lastId, clients, sessions, reply>>
  BY RInvParts DEF Destroy, Free, adapter
<1>3. /\ \A d \in Client \ {c} : api'[d] = api[d]
      /\ api'[c].life = "gone" /\ api'[c].starting = 0 /\ api'[c].session = 0
  BY <1>2 DEF Call
<1>4. \A d \in Client : api[d].life # "up" => api[d].starting = 0 /\ api[d].session = 0
  BY <1>2 DEF KnownIn
<1>5. \A d \in Client : d # c /\ api[d].life = "none" => api'[d].life = "none"
  BY <1>3
<1> QED BY <1>1, <1>2, <1>3, <1>4, SendKeepsAnswer

\* A call that asks something of a session that was there.
LEMMA RequestKeepsAnswer ==
  ASSUME RInv, NEW c \in Client, NEW kind \in {"stop", "update"}, Request(c, kind),
         NEW m \in Msg, m.kind = kind, m.client = c, m.id = api[c].session, Send(m)
  PROVE  AnswerInv'
<1>1. /\ msgs \in Seq(Msg) /\ KnownIn(api, msgs, clients) /\ lastId \in Nat
      /\ StartsFirstIn(lastId, msgs, reply) /\ AnswersIn(api, msgs, reply, sessions)
      /\ reply \in {NoReply} \cup Response /\ api \in [Client -> Call] /\ IInv
  BY RInvParts
<1>2. /\ lastId' = lastId /\ clients' = clients /\ sessions' = sessions /\ reply' = reply
      /\ api[c].life = "up" /\ api[c].starting = 0 /\ api[c].session # 0
      /\ api' = [api EXCEPT ![c].requests = Append(@, kind),
                            ![c].tracking = @ /\ kind # "stop"]
  BY DEF Request, Free, adapter
<1>3. /\ \A d \in Client \ {c} : api'[d] = api[d]
      /\ api'[c].life = "up" /\ api'[c].starting = 0 /\ api'[c].session = api[c].session
      /\ api'[c].requests = Append(api[c].requests, kind)
  BY <1>1, <1>2 DEF Call
<1>4. /\ m.kind \in Calls /\ m.kind # "start" /\ m.kind # "remove" /\ m.kind # "restart"
      /\ m.id \in 1..MaxSession
  BY <1>1, RequestDoes DEF Calls
<1>5. KnownIn(api', msgs', clients')
  <2>1. \A d \in Client : api[d].life # "up" => api[d].starting = 0 /\ api[d].session = 0
    BY <1>1 DEF KnownIn
  <2> QED BY <1>1, <1>2, <1>3, <1>4, <2>1, SendKeepsKnown
<1>6. m.id <= lastId
  <2>1. IdsOwnedIn(api, lastId, msgs, sessions)
    BY SInvParts DEF RInv
  <2>2. ClaimsIn(api, msgs, sessions, c, m.id)
    BY DEF ClaimsIn
  <2> QED BY <1>4, <2>1, <2>2 DEF IdsOwnedIn
<1>7. StartsFirstIn(lastId', msgs', reply')
  BY <1>1, <1>2, <1>4, <1>6, SendKeepsStarts
<1>8. AnswersIn(api', msgs', reply', sessions')
  <2>1. \A d \in Client, id \in 1..MaxSession :
          Asks(m, d, id) <=> d = c /\ id = api[c].session
    BY <1>4 DEF Asks
  <2>2. \A id \in 1..MaxSession : id # 0
    BY IdsArePositive
  <2>3. ASSUME NEW d \in Client, NEW id \in 1..MaxSession
        PROVE  /\ api'[d].starting = id =>
                     \/ api[d].starting = id /\ ~Asks(m, d, id)
                     \/ Asks(m, d, id) /\ m.kind = "start" /\ UnansweredIn(msgs, reply, d, id) = <<>>
               /\ api'[d].starting = 0 /\ api'[d].session = id =>
                     /\ api[d].starting = 0 /\ api[d].session = id
                     /\ Asks(m, d, id) => m.kind # "start"
                     /\ api'[d].requests = IF Asks(m, d, id) THEN Append(api[d].requests, m.kind)
                                           ELSE api[d].requests
    <3>1. CASE d = c
      BY ZenonT(40), <1>2, <1>3, <1>4, <2>1, <2>2, <3>1
    <3>2. CASE d # c
      BY <1>3, <2>1, <3>2
    <3> QED BY <3>1, <3>2
  <2> QED BY <1>1, <1>2, <2>3, SendKeepsAnswers
<1> QED BY <1>5, <1>7, <1>8, AnswerPartsPrimed

LEMMA StopKeepsAnswer ==
  ASSUME RInv, NEW c \in Client, Stop(c)
  PROVE  AnswerInv'
<1> DEFINE m == [kind |-> "stop", client |-> c, id |-> api[c].session]
<1>1. Request(c, "stop") /\ Send(m)
  BY DEF Stop
<1>2. api[c].session \in 1..MaxSession
  BY <1>1, RInvParts, RequestDoes
<1>3. m \in Msg /\ m.kind = "stop" /\ m.client = c /\ m.id = api[c].session
  BY <1>2 DEF Msg
<1> HIDE DEF m
<1> QED BY <1>1, <1>3, RequestKeepsAnswer

LEMMA UpdateKeepsAnswer ==
  ASSUME RInv, NEW c \in Client, NEW i \in Interval, Update(c, i)
  PROVE  AnswerInv'
<1> DEFINE m == [kind |-> "update", client |-> c, id |-> api[c].session, interval |-> i]
<1>1. Request(c, "update") /\ Send(m)
  BY DEF Update
<1>2. api[c].session \in 1..MaxSession
  BY <1>1, RInvParts, RequestDoes
<1>3. m \in Msg /\ m.kind = "update" /\ m.client = c /\ m.id = api[c].session
  BY <1>2 DEF Msg
<1> HIDE DEF m
<1> QED BY <1>1, <1>3, RequestKeepsAnswer

\* A new session: nothing is asked of it but its start.
LEMMA StartCallKeepsAnswer ==
  ASSUME RInv, NEW c \in Client, NEW i \in Interval, StartCall(c, i)
  PROVE  AnswerInv'
<1> DEFINE m == [kind |-> "start", client |-> c, id |-> lastId', interval |-> i]
<1>1. /\ msgs \in Seq(Msg) /\ KnownIn(api, msgs, clients)
      /\ lastId \in Nat /\ lastId \in 0..MaxSession
      /\ StartsFirstIn(lastId, msgs, reply) /\ AnswersIn(api, msgs, reply, sessions)
      /\ reply \in {NoReply} \cup Response /\ api \in [Client -> Call]
  BY RInvParts, SInvParts DEF RInv
<1>2. /\ clients' = clients /\ sessions' = sessions /\ reply' = reply
      /\ api[c].life = "up" /\ api[c].starting = 0
      /\ api' = [api EXCEPT ![c].starting = lastId']
      /\ lastId < MaxSession /\ lastId' = lastId + 1 /\ Send(m)
  BY DEF StartCall, Free, adapter
<1>3. lastId' \in 1..MaxSession /\ lastId' \in Nat /\ lastId < lastId' /\ lastId <= lastId'
  BY <1>1, <1>2, GnssTrackingAssumption
<1>4. m \in Msg /\ m.kind = "start" /\ m.client = c /\ m.id = lastId'
  BY <1>3 DEF Msg
<1> HIDE DEF m
<1>5. /\ \A d \in Client \ {c} : api'[d] = api[d]
      /\ api'[c].life = "up" /\ api'[c].starting = lastId'
  BY <1>1, <1>2 DEF Call
<1>6. KnownIn(api', msgs', clients')
  <2>1. \A d \in Client : api[d].life # "up" => api[d].starting = 0 /\ api[d].session = 0
    BY <1>1 DEF KnownIn
  <2> QED BY <1>1, <1>2, <1>4, <1>5, <2>1, SendKeepsKnown
<1>7. StartsFirstIn(lastId', msgs', reply')
  BY <1>1, <1>2, <1>3, <1>4, SendKeepsStarts
<1>8. AnswersIn(api', msgs', reply', sessions')
  <2>1. \A d \in Client, id \in 1..MaxSession : Asks(m, d, id) <=> d = c /\ id = lastId'
    BY <1>4 DEF Asks, Calls
  <2>2. UnansweredIn(msgs, reply, c, lastId') = <<>>
    BY <1>1, <1>3, NothingAsked
  <2>3. lastId' # 0
    BY <1>3, IdsArePositive
  <2>4. ASSUME NEW d \in Client, NEW id \in 1..MaxSession
        PROVE  /\ api'[d].starting = id =>
                     \/ api[d].starting = id /\ ~Asks(m, d, id)
                     \/ Asks(m, d, id) /\ m.kind = "start" /\ UnansweredIn(msgs, reply, d, id) = <<>>
               /\ api'[d].starting = 0 /\ api'[d].session = id =>
                     /\ api[d].starting = 0 /\ api[d].session = id
                     /\ Asks(m, d, id) => m.kind # "start"
                     /\ api'[d].requests = IF Asks(m, d, id) THEN Append(api[d].requests, m.kind)
                                           ELSE api[d].requests
    <3>1. CASE d = c
      BY <1>4, <1>5, <2>1, <2>2, <2>3, <3>1
    <3>2. CASE d # c
      BY <1>5, <2>1, <3>2
    <3> QED BY <3>1, <3>2
  <2> QED BY <1>1, <1>2, <1>4, <2>4, SendKeepsAnswers
<1> QED BY <1>6, <1>7, <1>8, AnswerPartsPrimed

\* The queue and what the adapter knows stay.
LEMMA SameQueue ==
  ASSUME RInv, UNCHANGED <<lastId, msgs, clients, reply>>,
         \A s \in sessions' : \E t \in sessions : t.client = s.client /\ t.id = s.id,
         \A c \in Client :
           /\ api'[c].life = api[c].life
           /\ \/ api'[c].starting = api[c].starting /\ api'[c].session = api[c].session
                 /\ api'[c].requests = api[c].requests
              \/ /\ api[c].starting # 0 /\ api'[c].starting = 0
                 /\ api'[c].session = api[c].starting /\ api'[c].requests = <<"start">>
  PROVE  AnswerInv'
<1>1. /\ KnownIn(api, msgs, clients) /\ StartsFirstIn(lastId, msgs, reply)
      /\ AnswersIn(api, msgs, reply, sessions)
  BY RInvParts
<1>2. lastId' = lastId /\ msgs' = msgs /\ clients' = clients /\ reply' = reply
  OBVIOUS
<1>3. KnownIn(api', msgs', clients')
  <2>1. \A c \in Client : api[c].life # "up" => api[c].starting = 0 /\ api[c].session = 0
    BY <1>1 DEF KnownIn
  <2>2. \A c \in Client : api'[c].life # "up" => api'[c].starting = 0 /\ api'[c].session = 0
    BY <2>1
  <2> QED BY <1>1, <1>2, <2>2 DEF KnownIn
<1>4. AnswersIn(api', msgs', reply', sessions')
  <2>1. \A c \in Client, id \in 1..MaxSession :
          SilentIn(msgs, reply, sessions, c, id) => SilentIn(msgs, reply, sessions', c, id)
    BY DEF SilentIn
  <2>2. \A id \in 1..MaxSession : id # 0
    BY IdsArePositive
  <2> SUFFICES ASSUME NEW c \in Client, NEW id \in 1..MaxSession
               PROVE  /\ api'[c].starting = id => UnansweredIn(msgs, reply, c, id) = <<"start">>
                      /\ api'[c].starting = 0 /\ api'[c].session = id =>
                           \/ UnansweredIn(msgs, reply, c, id) = api'[c].requests
                           \/ SilentIn(msgs, reply, sessions', c, id)
    BY <1>2 DEF AnswersIn
  <2>3. CASE api'[c].starting = api[c].starting /\ api'[c].session = api[c].session
             /\ api'[c].requests = api[c].requests
    BY <1>1, <2>1, <2>3 DEF AnswersIn
  <2>4. CASE api[c].starting # 0 /\ api'[c].starting = 0
             /\ api'[c].session = api[c].starting /\ api'[c].requests = <<"start">>
    BY <1>1, <2>2, <2>4 DEF AnswersIn
  <2> QED BY <2>3, <2>4
<1>5. StartsFirstIn(lastId', msgs', reply')
  BY <1>1, <1>2
<1> QED BY <1>3, <1>4, <1>5, AnswerPartsPrimed

LEMMA StartReturnKeepsAnswer ==
  ASSUME RInv, NEW c \in Client, StartReturn(c)
  PROVE  AnswerInv'
<1>1. /\ api \in [Client -> Call] /\ api[c].starting # 0
      /\ api' = [api EXCEPT ![c].starting = 0, ![c].tracking = TRUE,
                            ![c].session = api[c].starting,
                            ![c].requests = <<"start">>]
      /\ UNCHANGED <<lastId, msgs, clients, reply, sessions>>
  BY RInvParts DEF StartReturn, adapter
<1>2. /\ \A d \in Client \ {c} : api'[d] = api[d]
      /\ api'[c].life = api[c].life /\ api'[c].starting = 0
      /\ api'[c].session = api[c].starting /\ api'[c].requests = <<"start">>
  BY <1>1 DEF Call
<1> QED BY <1>1, <1>2, SameQueue

-----------------------------------------------------------------------------
(* The adapter's steps. *)

\* The response finds its request, which is popped.
LEMMA ReplyKeepsAnswer ==
  ASSUME RInv, Reply
  PROVE  AnswerInv'
<1> DEFINE e == reply.client
<1>1. /\ msgs \in Seq(Msg) /\ KnownIn(api, msgs, clients)
      /\ StartsFirstIn(lastId, msgs, reply) /\ AnswersIn(api, msgs, reply, sessions)
      /\ reply \in {NoReply} \cup Response /\ api \in [Client -> Call]
  BY RInvParts
<1>2. /\ reply # NoReply /\ reply' = NoReply /\ api[e].starting = 0
      /\ lastId' = lastId /\ msgs' = msgs /\ clients' = clients /\ sessions' = sessions
      /\ api' = IF api[e].session = reply.id /\ api[e].requests # <<>>
                  THEN [api EXCEPT ![e].requests = Tail(@)]
                  ELSE api
  BY DEF Reply, adapter
<1>3. reply \in Response /\ e \in Client /\ reply.id \in 1..MaxSession
  BY <1>1, <1>2 DEF Response
<1> HIDE DEF e
<1>4. /\ \A d \in Client \ {e} : api'[d] = api[d]
      /\ api'[e].life = api[e].life /\ api'[e].starting = api[e].starting
      /\ api'[e].session = api[e].session
      /\ api'[e].requests = IF api[e].session = reply.id /\ api[e].requests # <<>>
                              THEN Tail(api[e].requests) ELSE api[e].requests
  BY <1>1, <1>2, <1>3 DEF Call
<1>5. KnownIn(api', msgs', clients')
  <2>1. \A c \in Client : /\ api'[c].life = api[c].life /\ api'[c].starting = api[c].starting
                          /\ api'[c].session = api[c].session
    BY <1>4
  <2> QED BY <1>1, <1>2, <2>1 DEF KnownIn
<1>6. StartsFirstIn(lastId', msgs', reply')
  BY <1>1, <1>2 DEF StartsFirstIn
<1>7. AnswersIn(api', msgs', reply', sessions')
  <2> SUFFICES ASSUME NEW c \in Client, NEW id \in 1..MaxSession
               PROVE  /\ api'[c].starting = id => UnansweredIn(msgs, NoReply, c, id) = <<"start">>
                      /\ api'[c].starting = 0 /\ api'[c].session = id =>
                           \/ UnansweredIn(msgs, NoReply, c, id) = api'[c].requests
                           \/ SilentIn(msgs, NoReply, sessions, c, id)
    BY <1>2 DEF AnswersIn
  <2> DEFINE rest == At(KindsIn(msgs), AskedIn(msgs, c, id))
             k == reply.kind
  <2>1. /\ rest \in Seq(Kind) /\ UnansweredIn(msgs, NoReply, c, id) = rest
        /\ UnansweredIn(msgs, reply, c, id) =
             IF AnsweringIn(reply, c, id) THEN <<k>> \o rest ELSE rest
    BY ZenonT(40), <1>1, UnansweredIs DEF AnsweringIn
  <2>2. k \in Kind
    BY <1>3 DEF Response, Kind
  <2> HIDE DEF rest, k
  <2>3. AnsweringIn(reply, c, id) <=> c = e /\ id = reply.id
    BY <1>2 DEF AnsweringIn, e
  <2>4. SilentIn(msgs, reply, sessions, c, id) => SilentIn(msgs, NoReply, sessions, c, id)
    BY DEF SilentIn, AnsweringIn
  <2>5. id # 0
    BY IdsArePositive
  <2>6. CASE c = e /\ id = reply.id
    <3>1. api[e].starting = 0 /\ api'[e].starting = 0
      BY <1>2, <1>4
    <3>2. ASSUME api[e].session = id PROVE rest = api'[e].requests
      <4>1. <<k>> \o rest = api[e].requests
        BY <1>1, <1>3, <2>1, <2>3, <2>6, <3>1, <3>2 DEF AnswersIn, SilentIn
      <4>2. <<k>> \o rest # <<>> /\ Tail(<<k>> \o rest) = rest
        BY <2>1, <2>2, TailOfOne
      <4> QED BY <1>4, <2>6, <3>2, <4>1, <4>2
    <3> QED BY <1>4, <2>1, <2>5, <2>6, <3>1, <3>2
  <2>7. CASE ~(c = e /\ id = reply.id)
    <3>1. /\ api'[c].starting = api[c].starting /\ api'[c].session = api[c].session
          /\ api[c].session = id => api'[c].requests = api[c].requests
      BY <1>4, <2>7
    <3> QED BY <1>1, <2>1, <2>3, <2>4, <2>7, <3>1 DEF AnswersIn
  <2> QED BY <2>6, <2>7
<1> QED BY <1>5, <1>6, <1>7, AnswerPartsPrimed

LEMMA SaveKeepsAnswer ==
  ASSUME RInv, saveClient
  PROVE  AnswerInv'
<1>1. /\ Take("add") /\ reply' = NoReply /\ sessions' = sessions
      /\ clients' = clients \cup {Head(msgs).client}
  BY DEF saveClient, Take, AtHead
<1>2. Answered("add") /\ Started("add")
  BY <1>1 DEF Answered, Started, Calls
<1> QED BY <1>1, <1>2, TakeKeepsAnswer

LEMMA EraseKeepsAnswer ==
  ASSUME RInv, eraseClient
  PROVE  AnswerInv'
<1>1. /\ Take("remove") /\ reply' = NoReply /\ sessions' = sessions
      /\ clients' = clients \ {Head(msgs).client}
  BY DEF eraseClient, Take, AtHead
<1>2. Answered("remove") /\ Started("remove")
  BY <1>1 DEF Answered, Started, Calls
<1> QED BY <1>1, <1>2, TakeKeepsAnswer

LEMMA RestartKeepsAnswer ==
  ASSUME RInv, restartSessions
  PROVE  AnswerInv'
<1>1. Take("restart") /\ reply' = NoReply /\ sessions' = sessions /\ clients' = clients
  BY DEF restartSessions, Take, AtHead, adapter
<1>2. Answered("restart") /\ Started("restart")
  BY <1>1 DEF Answered, Started, Calls
<1> QED BY <1>1, <1>2, TakeKeepsAnswer

\* What reportResponse answers.
LEMMA ReportAnswers ==
  ASSUME RInv, NEW kind \in Calls, Take(kind), NEW ok \in BOOLEAN,
         reportResponse(Head(msgs), ok), kind = "start" \/ isTrackingSession(Head(msgs))
  PROVE  Answered(kind)
<1>1. Head(msgs) \in Msg /\ Head(msgs).kind = kind
  BY RInvParts, TakeDoes
<1>2. Head(msgs).client \in Client /\ Head(msgs).id \in 1..MaxSession
  BY <1>1, MsgFields DEF Calls
<1> DEFINE r == [kind |-> Head(msgs).kind, client |-> Head(msgs).client, id |-> Head(msgs).id, ok |-> ok]
<1>3. r \in Response /\ r # NoReply
  BY <1>1, <1>2 DEF Response, NoReply, Calls
<1>4. reply' = IF Head(msgs).client \in clients THEN r ELSE NoReply
  BY DEF reportResponse
<1>5. r.kind = kind /\ r.client = Head(msgs).client /\ r.id = Head(msgs).id
  BY <1>1
<1> HIDE DEF r
<1> QED BY <1>3, <1>4, <1>5 DEF Answered

LEMMA UnknownKeepsAnswer ==
  ASSUME RInv, NEW kind \in {"stop", "update"}, UnknownSession(kind)
  PROVE  AnswerInv'
<1>1. /\ Take(kind) /\ ~isTrackingSession(Head(msgs)) /\ reply' = NoReply
      /\ sessions' = sessions /\ clients' = clients
  BY DEF UnknownSession, Take, AtHead, adapter
<1>2. Answered(kind) /\ Started(kind)
  BY <1>1 DEF Answered, Started
<1> QED BY <1>1, <1>2, TakeKeepsAnswer

LEMMA StartMsgKeepsAnswer ==
  ASSUME RInv, MsgStartTracking
  PROVE  AnswerInv'
<1> DEFINE m == Head(msgs)
           x == [client |-> m.client, id |-> m.id, interval |-> m.interval]
<1>1. PICK ok \in BOOLEAN : reportResponse(m, ok)
  BY DEF MsgStartTracking
<1>2. Take("start") /\ clients' = clients /\ (sessions' = sessions \cup {x} \/ sessions' = sessions)
  BY DEF MsgStartTracking
<1>3. Answered("start")
  BY <1>1, <1>2, ReportAnswers DEF Calls
<1>4. Started("start")
  BY <1>2 DEF Started
<1> QED BY <1>2, <1>3, <1>4, TakeKeepsAnswer

LEMMA UpdateMsgKeepsAnswer ==
  ASSUME RInv, MsgUpdateTracking
  PROVE  AnswerInv'
<1> DEFINE m == Head(msgs)
<1>1. CASE UnknownSession("update")
  BY <1>1, UnknownKeepsAnswer
<1>2. CASE ~UnknownSession("update")
  <2>1. PICK ok \in BOOLEAN :
          /\ sessions' = IF ok
               THEN Others(m.id) \cup {[Of(m.id) EXCEPT !.interval = m.interval]}
               ELSE sessions
          /\ reportResponse(m, ok)
    BY <1>2 DEF MsgUpdateTracking
  <2>2. Take("update") /\ isTrackingSession(m) /\ clients' = clients
    BY <1>2 DEF MsgUpdateTracking
  <2>3. PICK s \in sessions : s.id = m.id
    BY <2>2 DEF isTrackingSession
  <2>4. Of(m.id) = s /\ Others(m.id) = sessions \ {s} /\ s \in Session
    BY <2>3, IdPicks, RInvParts, SInvParts DEF RInv
  <2> DEFINE x == [s EXCEPT !.interval = m.interval]
  <2>5. x.id = s.id /\ x.client = s.client
    BY <2>4 DEF Session
  <2>6. sessions' = (sessions \ {s}) \cup {x} \/ sessions' = sessions
    BY <2>1, <2>4
  <2> HIDE DEF x
  <2>7. Started("update")
    BY <2>5, <2>6 DEF Started
  <2>8. Answered("update")
    BY <2>1, <2>2, ReportAnswers DEF Calls
  <2> QED BY <2>2, <2>7, <2>8, TakeKeepsAnswer
<1> QED BY <1>1, <1>2

LEMMA StopMsgKeepsAnswer ==
  ASSUME RInv, MsgStopTracking
  PROVE  AnswerInv'
<1> DEFINE m == Head(msgs)
<1>1. CASE UnknownSession("stop")
  BY <1>1, UnknownKeepsAnswer
<1>2. CASE ~UnknownSession("stop")
  <2>1. PICK ok \in BOOLEAN : EndSession(m.id, ok) /\ reportResponse(m, ok)
    BY <1>2 DEF MsgStopTracking
  <2>2. Take("stop") /\ isTrackingSession(m) /\ clients' = clients
    BY <1>2 DEF MsgStopTracking
  <2>3. sessions' \subseteq sessions
    BY <2>1 DEF EndSession, Others
  <2>4. Answered("stop") /\ Started("stop")
    BY <2>1, <2>2, <2>3, ReportAnswers DEF Calls, Started
  <2> QED BY <2>2, <2>4, TakeKeepsAnswer
<1> QED BY <1>1, <1>2

LEMMA StopClientKeepsAnswer ==
  ASSUME RInv, stopClientSessions
  PROVE  AnswerInv'
<1>1. UNCHANGED <<api, lastId, msgs, clients, reply>>
  BY DEF stopClientSessions
<1>2. sessions' \subseteq sessions
  BY DEF stopClientSessions, EndSession, Others
<1> QED BY <1>1, <1>2, SameQueue

-----------------------------------------------------------------------------
(* The invariant. *)

LEMMA UpKeepsAnswer ==
  ASSUME RInv, EngineUp
  PROVE  AnswerInv'
<1> DEFINE m == [kind |-> "restart"]
<1>1. m \in Msg /\ m.kind = "restart" /\ Send(m) /\ m.kind \notin Calls
  BY DEF Msg, EngineUp, Calls
<1> HIDE DEF m
<1>2. api' = api /\ UNCHANGED <<lastId, clients, sessions, reply>>
  BY DEF EngineUp, adapter
<1>3. \A d \in Client : api[d].life # "up" => api[d].starting = 0 /\ api[d].session = 0
  BY RInvParts DEF KnownIn
<1> QED BY <1>1, <1>2, <1>3, SendKeepsAnswer

LEMMA InitEstablishesAnswer == Init => AnswerInv
<1> SUFFICES ASSUME Init PROVE AnswerInv
  OBVIOUS
<1>1. /\ \A c \in Client : api[c].life = "none" /\ api[c].starting = 0 /\ api[c].session = 0
      /\ msgs = <<>> /\ reply = NoReply
  BY DEF Init
<1>2. DOMAIN msgs = {}
  BY <1>1
<1>3. KnownIn(api, msgs, clients)
  BY <1>1, <1>2 DEF KnownIn
<1>4. StartsFirstIn(lastId, msgs, reply)
  BY <1>1, <1>2 DEF StartsFirstIn, AskedIn
<1>5. AnswersIn(api, msgs, reply, sessions)
  BY <1>1, IdsArePositive DEF AnswersIn
<1> QED BY <1>3, <1>4, <1>5, AnswerParts

LEMMA NextKeepsAnswer == RInv /\ [Next]_vars => RInv'
<1> SUFFICES ASSUME RInv, [Next]_vars PROVE AnswerInv'
  BY NextKeepsLeak DEF RInv
<1>1. CASE Adapter
  BY <1>1, ReplyKeepsAnswer, SaveKeepsAnswer, StartMsgKeepsAnswer, UpdateMsgKeepsAnswer,
     StopMsgKeepsAnswer, StopClientKeepsAnswer, EraseKeepsAnswer, RestartKeepsAnswer
     DEF Adapter
<1>2. CASE \E c \in Client : Create(c) \/ StartReturn(c) \/ Stop(c) \/ Destroy(c)
  BY <1>2, CreateKeepsAnswer, StartReturnKeepsAnswer, StopKeepsAnswer, DestroyKeepsAnswer
<1>3. CASE \E c \in Client, i \in Interval : StartCall(c, i) \/ Update(c, i)
  BY <1>3, StartCallKeepsAnswer, UpdateKeepsAnswer
<1>4. CASE EngineDown
  <2>1. UNCHANGED <<api, lastId, msgs, clients, reply, sessions>>
    BY <1>4 DEF EngineDown, adapter
  <2> QED BY <2>1, SameQueue
<1>5. CASE EngineUp
  BY <1>5, UpKeepsAnswer
<1>6. CASE UNCHANGED vars
  <2>1. UNCHANGED <<api, lastId, msgs, clients, reply, sessions>>
    BY <1>6 DEF vars, adapter
  <2> QED BY <2>1, SameQueue
<1> QED BY <1>1, <1>2, <1>3, <1>4, <1>5, <1>6 DEF Next

\* A response pops the very request it answers (onResponseCb), although the
\* client drops requests when it starts again, the adapter answers only some
\* messages, and the two queues have no common lock.
THEOREM ResponsesMatch == Spec => []ResponseFindsItsRequest
<1>1. Init => RInv
  BY InitEstablishes, InitEstablishesLeak, InitEstablishesAnswer DEF SInv, RInv
<1>2. RInv => ResponseFindsItsRequest
  <2> SUFFICES ASSUME RInv, NEW c \in Client, Free(c), Answering(c, api[c].session)
               PROVE  api[c].requests = Unanswered(c, api[c].session)
    BY DEF ResponseFindsItsRequest
  <2> DEFINE id == api[c].session
  <2>1. /\ AnswersIn(api, msgs, reply, sessions) /\ reply \in {NoReply} \cup Response
    BY RInvParts
  <2>2. id \in 1..MaxSession /\ AnsweringIn(reply, c, id) /\ api[c].starting = 0
    BY <2>1 DEF Answering, AnsweringIn, Response, Free
  <2>3. UnansweredIn(msgs, reply, c, id) = api[c].requests
    BY <2>1, <2>2 DEF AnswersIn, SilentIn
  <2>4. Unanswered(c, id) = UnansweredIn(msgs, reply, c, id)
    BY DEF Unanswered, UnansweredIn, First, Answering, AnsweringIn, Kinds, KindsIn,
           Asked, AskedIn, Asks, Calls
  <2> QED BY <2>3, <2>4
<1> QED BY <1>1, <1>2, NextKeepsAnswer, PTL DEF Spec

=============================================================================
