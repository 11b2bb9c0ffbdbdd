----------------------------- MODULE AgpsProofs -----------------------------
(***************************************************************************)
(* Theorems about Agps: connections are held for their subscribers, no     *)
(* request is dropped and an emergency call's connection is closed only    *)
(* after its wait, for any handles, types, retries and timers.             *)
(*                                                                         *)
(* A list of subscribers matters only by its elements, so the argument is  *)
(* about their sets (Range); the lemmas of the first part say what the     *)
(* operations on lists do to these sets.                                   *)
(***************************************************************************)
EXTENDS Agps, SelectionTheorems, TLAPS

-----------------------------------------------------------------------------
(* The subscriber list. *)

LEMMA ListFacts ==
  ASSUME NEW s \in Seq(Subscriber)
  PROVE  /\ Handles(s) = {x.h : x \in Range(s)}
         /\ ActiveHandles(s) = {x.h : x \in {y \in Range(s) : ~y.inactive}}
         /\ anyActiveSubscribers(s) <=> \E x \in Range(s) : ~x.inactive
         /\ s = <<>> <=> Range(s) = {}
         /\ Range(s) \subseteq Subscriber
<1>1. s = <<>> <=> Range(s) = {}
  BY RangeIndex
<1>2. Range(s) \subseteq Subscriber
  BY RangeIndex
<1> QED BY <1>1, <1>2 DEF Handles, ActiveHandles, anyActiveSubscribers, Range

LEMMA ActiveIs ==
  ASSUME NEW s \in Seq(Subscriber)
  PROVE  /\ Active(s) \in Seq(Subscriber)
         /\ Range(Active(s)) = {x \in Range(s) : ~x.inactive}
<1> DEFINE I == {i \in DOMAIN s : ~s[i].inactive}
<1>1. I \in SUBSET (DOMAIN s)
  OBVIOUS
<1>2. {s[i] : i \in I} = {x \in Range(s) : ~x.inactive}
  BY DEF Range
<1> HIDE DEF I
<1>3. At(s, I) \in Seq(Subscriber) /\ Range(At(s, I)) = {s[i] : i \in I}
  BY <1>1, AtType, AtRange
<1> QED BY <1>2, <1>3 DEF Active, I

LEMMA InactiveIs ==
  ASSUME NEW s \in Seq(Subscriber)
  PROVE  /\ Inactive(s) \in Seq(Subscriber)
         /\ Range(Inactive(s)) = {x \in Range(s) : x.inactive}
<1> DEFINE I == {i \in DOMAIN s : s[i].inactive}
<1>1. I \in SUBSET (DOMAIN s)
  OBVIOUS
<1>2. {s[i] : i \in I} = {x \in Range(s) : x.inactive}
  BY DEF Range
<1> HIDE DEF I
<1>3. At(s, I) \in Seq(Subscriber) /\ Range(At(s, I)) = {s[i] : i \in I}
  BY <1>1, AtType, AtRange
<1> QED BY <1>2, <1>3 DEF Inactive, I

LEMMA DeleteIs ==
  ASSUME NEW s \in Seq(Subscriber), NEW h
  PROVE  /\ deleteSubscriber(s, h) \in Seq(Subscriber)
         /\ Range(deleteSubscriber(s, h)) = {x \in Range(s) : x.h # h}
<1> DEFINE I == {i \in DOMAIN s : s[i].h # h}
<1>1. I \in SUBSET (DOMAIN s)
  OBVIOUS
<1>2. {s[i] : i \in I} = {x \in Range(s) : x.h # h}
  BY DEF Range
<1> HIDE DEF I
<1>3. At(s, I) \in Seq(Subscriber) /\ Range(At(s, I)) = {s[i] : i \in I}
  BY <1>1, AtType, AtRange
<1> QED BY <1>2, <1>3 DEF deleteSubscriber, I

LEMMA AddIs ==
  ASSUME NEW s \in Seq(Subscriber), NEW x \in Subscriber
  PROVE  /\ addSubscriber(s, x) \in Seq(Subscriber)
         /\ Range(addSubscriber(s, x)) =
              IF \E y \in Range(s) : y.h = x.h THEN Range(s) ELSE Range(s) \cup {x}
<1>1. x.h \in Handles(s) <=> \E y \in Range(s) : y.h = x.h
  BY ListFacts
<1>2. Append(s, x) \in Seq(Subscriber) /\ Range(Append(s, x)) = Range(s) \cup {x}
  BY RangeAppend
<1> QED BY <1>1, <1>2 DEF addSubscriber

LEMMA MarkIs ==
  ASSUME NEW s \in Seq(Subscriber), NEW h
  PROVE  /\ MarkInactive(s, h) \in Seq(Subscriber)
         /\ Range(MarkInactive(s, h)) =
              {IF x.h = h THEN [x EXCEPT !.inactive = TRUE] ELSE x : x \in Range(s)}
<1>1. \A i \in DOMAIN s : s[i] \in Subscriber
  BY RangeIndex
<1>2. \A x \in Subscriber : [x EXCEPT !.inactive = TRUE] \in Subscriber
  BY DEF Subscriber
<1>3. MarkInactive(s, h) \in [DOMAIN s -> Subscriber]
  BY <1>1, <1>2 DEF MarkInactive
<1>4. /\ MarkInactive(s, h) \in Seq(Subscriber)
      /\ Range(MarkInactive(s, h)) = {MarkInactive(s, h)[i] : i \in DOMAIN s}
  BY <1>3, FunctionIsSeq
<1> DEFINE M(x) == IF x.h = h THEN [x EXCEPT !.inactive = TRUE] ELSE x
<1>5. \A i \in DOMAIN s : MarkInactive(s, h)[i] = M(s[i])
  BY DEF MarkInactive
<1> HIDE DEF M
<1>6. {MarkInactive(s, h)[i] : i \in DOMAIN s} = {M(x) : x \in Range(s)}
  BY <1>5 DEF Range
<1> QED BY <1>4, <1>6 DEF M

\* What marking does, without EXCEPT.
LEMMA MarkMeans ==
  ASSUME NEW s \in Seq(Subscriber), NEW h
  PROVE  /\ \A x \in Range(s) : \E y \in Range(MarkInactive(s, h)) :
              y.h = x.h /\ y.wait = x.wait /\ (y.inactive <=> x.inactive \/ x.h = h)
         /\ \A y \in Range(MarkInactive(s, h)) : \E x \in Range(s) :
              y.h = x.h /\ y.wait = x.wait /\ (y.inactive <=> x.inactive \/ x.h = h)
<1> DEFINE M(x) == IF x.h = h THEN [x EXCEPT !.inactive = TRUE] ELSE x
<1>1. \A x \in Subscriber : M(x).h = x.h /\ M(x).wait = x.wait /\ (M(x).inactive <=> x.inactive \/ x.h = h)
  BY DEF Subscriber
<1>2. Range(s) \subseteq Subscriber
  BY ListFacts
<1>3. Range(MarkInactive(s, h)) = {M(x) : x \in Range(s)}
  BY MarkIs
<1> HIDE DEF M
<1> QED BY <1>1, <1>2, <1>3

-----------------------------------------------------------------------------
(* Notifications. *)

Name == {"agnss", "internet", "ds"}
NoteSet == [event : {"GRANTED", "DENIED", "RELEASED", "UNSUBSCRIBE"}, h : Handle]
Message == [h : Handle, type : {"SUPL", "SUPL_ES"}]
ViewSet == [Handle -> {"idle", "asked", "open", "releasing", "closed"}]

LEMMA NoteAllIs ==
  ASSUME NEW s \in Seq(Subscriber), NEW e \in {"GRANTED", "DENIED", "RELEASED", "UNSUBSCRIBE"}
  PROVE  /\ NoteAll(e, s) \in Seq(NoteSet)
         /\ Range(NoteAll(e, s)) = {Note(e, x.h) : x \in Range(s)}
<1>0. \A i \in DOMAIN s : s[i] \in Subscriber
  BY RangeIndex
<1>1. \A i \in DOMAIN s : s[i].h \in Handle
  BY <1>0 DEF Subscriber
<1>2. \A i \in DOMAIN s : Note(e, s[i].h) \in NoteSet
  BY <1>1 DEF Note, NoteSet
<1>3. NoteAll(e, s) \in [DOMAIN s -> NoteSet]
  BY <1>2 DEF NoteAll
<1>4. /\ NoteAll(e, s) \in Seq(NoteSet)
      /\ Range(NoteAll(e, s)) = {NoteAll(e, s)[i] : i \in DOMAIN s}
  BY <1>3, FunctionIsSeq
<1>5. \A i \in DOMAIN s : NoteAll(e, s)[i] = Note(e, s[i].h)
  BY DEF NoteAll
<1>6. {NoteAll(e, s)[i] : i \in DOMAIN s} = {Note(e, x.h) : x \in Range(s)}
  BY <1>5 DEF Range
<1> QED BY <1>4, <1>6

LEMMA OneNote ==
  ASSUME NEW h \in Handle, NEW e \in {"GRANTED", "DENIED", "RELEASED", "UNSUBSCRIBE"}
  PROVE  /\ <<Note(e, h)>> \in Seq(NoteSet)
         /\ Range(<<Note(e, h)>>) = {[event |-> e, h |-> h]}
<1>1. Note(e, h) \in NoteSet
  BY DEF Note, NoteSet
<1> QED BY <1>1 DEF Range, Note

LEMMA NoNote == <<>> \in Seq(NoteSet) /\ Range(<<>>) = {}
  BY EmptySeq DEF Range

\* The status and the fallback a notification turns into.
Fallback(n) == [h |-> n.h, type |-> "SUPL"]

\* What Notify does, by the elements of its notifications.
LEMMA NotifyIs ==
  ASSUME NEW m, NEW notes \in Seq(NoteSet), NEW view, NEW q \in Seq(Message),
         Notify(m, notes, view, q)
  PROVE  /\ told' = {Status(m, n) : n \in {x \in Range(notes) : ~IsFallback(m, x)}}
         /\ modem' = ModemAfter(view, told')
         /\ queue' \in Seq(Message)
         /\ Range(queue') = Range(q) \cup
              {Fallback(n) : n \in {x \in Range(notes) : IsFallback(m, x)}}
<1> DEFINE I == {i \in DOMAIN notes : IsFallback(m, notes[i])}
           f == At(notes, I)
           g == [i \in DOMAIN f |-> Fallback(f[i])]
<1>1. told' = {Status(m, notes[i]) : i \in DOMAIN notes \ I}
  BY DEF Notify
<1>2. {Status(m, notes[i]) : i \in DOMAIN notes \ I}
        = {Status(m, n) : n \in {x \in Range(notes) : ~IsFallback(m, x)}}
  BY DEF Range
<1>3. modem' = ModemAfter(view, told')
  BY DEF Notify
<1>4. queue' = q \o g
  BY DEF Notify, Fallback
<1>5. I \in SUBSET (DOMAIN notes)
  OBVIOUS
<1>6. {notes[i] : i \in I} = {x \in Range(notes) : IsFallback(m, x)}
  BY DEF Range
<1> HIDE DEF I
<1>7. f \in Seq(NoteSet) /\ Range(f) = {notes[i] : i \in I}
  BY <1>5, AtType, AtRange
<1> HIDE DEF f
<1>8. \A i \in DOMAIN f : Fallback(f[i]) \in Message
  <2>1. \A i \in DOMAIN f : f[i] \in NoteSet
    BY <1>7, RangeIndex
  <2> QED BY <2>1 DEF Fallback, Message, NoteSet
<1>9. g \in Seq(Message) /\ Range(g) = {g[i] : i \in DOMAIN f}
  <2>1. g \in [DOMAIN f -> Message]
    BY <1>8
  <2> HIDE DEF g
  <2> QED BY <2>1, <1>7, FunctionIsSeq
<1>10. {g[i] : i \in DOMAIN f} = {Fallback(n) : n \in Range(f)}
  BY DEF Range
<1> HIDE DEF g
<1>11. queue' \in Seq(Message) /\ Range(queue') = Range(q) \cup Range(g)
  BY <1>4, <1>9, ConcatProperties, RangeConcatenation
<1> QED BY <1>1, <1>2, <1>3, <1>6, <1>7, <1>9, <1>10, <1>11

\* How the modem's view changes: a close closes, an answer ends the wait.
LEMMA ViewAfter ==
  ASSUME NEW view \in ViewSet, NEW S
  PROVE  /\ ModemAfter(view, S) \in ViewSet
         /\ \A h \in Handle :
              /\ (\A s \in S : s.h # h) => ModemAfter(view, S)[h] = view[h]
              /\ (\E s \in S : s.h = h) => ModemAfter(view, S)[h] # "asked"
              /\ view[h] \in {"releasing", "closed"} =>
                   ModemAfter(view, S)[h] \in {"releasing", "closed"}
              /\ view[h] # "idle" => ModemAfter(view, S)[h] # "idle"
              /\ ModemAfter(view, S)[h] = "idle" => view[h] = "idle"
              /\ ModemAfter(view, S)[h] = "asked" => view[h] = "asked"
<1>1. \A h \in Handle : view[h] \in {"idle", "asked", "open", "releasing", "closed"}
  BY DEF ViewSet
<1>2. \A h \in Handle : ModemAfter(view, S)[h] \in {view[h], "open", "closed"}
  BY DEF ModemAfter
<1>3. ModemAfter(view, S) \in ViewSet
  BY <1>1, <1>2 DEF ModemAfter, ViewSet
<1>4. ASSUME NEW h \in Handle
      PROVE  /\ (\A s \in S : s.h # h) => ModemAfter(view, S)[h] = view[h]
             /\ (\E s \in S : s.h = h) => ModemAfter(view, S)[h] # "asked"
             /\ view[h] \in {"releasing", "closed"} =>
                  ModemAfter(view, S)[h] \in {"releasing", "closed"}
             /\ view[h] # "idle" => ModemAfter(view, S)[h] # "idle"
             /\ ModemAfter(view, S)[h] = "idle" => view[h] = "idle"
             /\ ModemAfter(view, S)[h] = "asked" => view[h] = "asked"
  <2> DEFINE mine == {s \in S : s.h = h}
             close == \E s \in mine : s.cb = "close"
             good == \E s \in mine : s.ok
  <2>1. ModemAfter(view, S)[h] =
          IF close THEN "closed"
          ELSE IF view[h] # "asked" \/ mine = {} THEN view[h]
          ELSE IF good THEN "open" ELSE "closed"
    BY DEF ModemAfter
  <2>2. mine = {} <=> \A s \in S : s.h # h
    OBVIOUS
  <2>3. close => mine # {}
    OBVIOUS
  <2> HIDE DEF mine, close, good
  <2> QED BY <2>1, <2>2, <2>3, <1>1
<1> QED BY <1>3, <1>4

LEMMA StaysOpen ==
  ASSUME NEW view \in ViewSet, NEW S, NEW h \in Handle, view[h] # "closed",
         \A s \in S : s.h = h => s.cb = "open" /\ s.ok = TRUE
  PROVE  ModemAfter(view, S)[h] # "closed"
<1> DEFINE mine == {s \in S : s.h = h}
           close == \E s \in mine : s.cb = "close"
           good == \E s \in mine : s.ok
<1>1. ModemAfter(view, S)[h] =
        IF close THEN "closed"
        ELSE IF view[h] # "asked" \/ mine = {} THEN view[h]
        ELSE IF good THEN "open" ELSE "closed"
  BY DEF ModemAfter
<1>2. mine = {} <=> \A s \in S : s.h # h
  OBVIOUS
<1>3. close => mine # {}
  OBVIOUS
<1>4. ~close /\ (mine # {} => good)
  OBVIOUS
<1> HIDE DEF mine, close, good
<1> QED BY <1>1, <1>2, <1>3, <1>4

-----------------------------------------------------------------------------
(* The inductive invariant. *)

\* The state of a machine fits the set E of its subscribers.  Handles are listed
\* once; only one that waits for the close is kept inactive; when the DS machine
\* serves emergency requests (p), the others have nobody that waits.
Fits(p, m, st, E) ==
  /\ \A x, y \in E : x.h = y.h => x = y
  /\ \A x \in E : x.inactive => x.wait
  /\ st \in {"PENDING", "ACQUIRED"} => \E x \in E : ~x.inactive
  /\ st = "RELEASING" => \E x \in E : x.inactive
  /\ m # "ds" /\ st = "RELEASED" => E = {}
  /\ p /\ m # "ds" => \A x \in E : ~x.wait

Lists == \A m \in Machine : Fits(pdn, m, sm[m].state, Range(sm[m].subs))

\* Only the DS machine retries and falls back.
Setup == /\ ~pdn => "ds" \notin Machine /\ queue = <<>>
         /\ timers > 0 => "ds" \in Machine

\* A subscriber is inactive because the modem has released its handle.
Released == \A m \in Machine : \A x \in Range(sm[m].subs) :
              x.inactive => modem[x.h] \in {"releasing", "closed"}

\* Nobody knows a handle the modem has not used.
IdleUnknown == \A h \in Handle : modem[h] = "idle" =>
                 /\ \A m \in Machine : \A x \in Range(sm[m].subs) : x.h # h
                 /\ \A x \in Range(queue) : x.h # h

\* Without the DS machine one machine lists a handle, until it is closed.
ListedOnce == ~pdn => \A m \in Machine : \A x \in Range(sm[m].subs) :
                /\ modem[x.h] # "closed"
                /\ \A n \in Machine \ {m} : \A y \in Range(sm[n].subs) : y.h # x.h

AskedIsKept == \A h \in Handle : modem[h] = "asked" =>
                 \/ \E m \in Machine : \E x \in Range(sm[m].subs) : x.h = h /\ ~x.inactive
                 \/ \E x \in Range(queue) : x.h = h

IInv == /\ TypeOK /\ Lists /\ Setup /\ Released /\ IdleUnknown /\ ListedOnce /\ AskedIsKept

-----------------------------------------------------------------------------
(* A handler changes one machine and tells of it (Finish). *)

Old(m) == IF m \in Machine THEN sm[m].subs ELSE <<>>

\* The lists the machines other than m keep.
Elsewhere(m, h) == \E n \in Machine \ {m} : \E x \in Range(sm[n].subs) : x.h = h

\* What makes a Finish of machine m correct: its arguments have their types,
Typed(m, st, subs, notes, r) ==
  /\ m \in Name /\ (m = "ds" => pdn)
  /\ st \in State /\ subs \in Seq(Subscriber)
  /\ notes \in Seq(NoteSet) /\ r \in Outcome \cup {"none", "nosub"}
  /\ r = "busy" => m = "ds" /\ (\/ retries + 1 <= MAX_START_DATA_CALL_RETRIES
                                \/ \E n \in Range(notes) : n.event = "DENIED")

\* it tells only those it lists, or the one whose request (new) it handles,
\* and after a close no longer lists them,
Tells(m, subs, notes, new) ==
  /\ \A x \in Range(subs) : x.h \in new \/ \E y \in Range(Old(m)) : y.h = x.h
  /\ \A n \in Range(notes) : n.h \in new \/ \E y \in Range(Old(m)) : y.h = n.h
  /\ ~pdn => \A n \in Range(notes) : n.event # "GRANTED" => \A x \in Range(subs) : x.h # n.h

\* every active subscriber stays or is told,
Keeps(m, subs, notes, view) ==
  \A x \in Range(Old(m)) : ~x.inactive /\ view[x.h] = "asked" =>
     \/ \E y \in Range(subs) : y.h = x.h /\ ~y.inactive
     \/ \E n \in Range(notes) : n.h = x.h

\* and one that waits is told of the close when the connection is gone.
Closes(m, st, notes) ==
  \A n \in Range(notes) : n.event \in {"RELEASED", "UNSUBSCRIBE"} =>
     \/ st \in {"RELEASED", "PENDING"}
     \/ \A x \in Range(Old(m)) : x.h = n.h => ~x.wait

\* The modem's view and the queue a handler begins with, and the handles whose
\* request it handles.
Begins(view, q, new) ==
  /\ view \in ViewSet /\ q \in Seq(Message) /\ new \subseteq Handle
  /\ Range(q) \subseteq Range(queue)
  /\ ~pdn => q = <<>>
  /\ \A h \in Handle : view[h] = "idle" => modem[h] = "idle" /\ h \notin new
  /\ \A m \in Machine : \A x \in Range(sm[m].subs) :
       /\ x.inactive => view[x.h] \in {"releasing", "closed"}
       /\ ~pdn => view[x.h] # "closed" /\ x.h \notin new
  /\ ~pdn => \A h \in new : view[h] # "closed"
  /\ \A h \in Handle : view[h] = "asked" =>
       \/ \E m \in Machine : \E x \in Range(sm[m].subs) : x.h = h /\ ~x.inactive
       \/ \E x \in Range(q) : x.h = h
       \/ h \in new

\* The request a handler is about is not lost by it.
Serves(subs, notes, view, new) ==
  \A h \in new : view[h] = "asked" =>
     \/ \E y \in Range(subs) : y.h = h /\ ~y.inactive
     \/ \E n \in Range(notes) : n.h = h

Correct(m, st, subs, notes, r, view, new) ==
  /\ Typed(m, st, subs, notes, r) /\ Fits(pdn, m, st, Range(subs))
  /\ \A x \in Range(subs) : x.inactive => view[x.h] \in {"releasing", "closed"}
  /\ Tells(m, subs, notes, new) /\ Keeps(m, subs, notes, view)
  /\ Closes(m, st, notes) /\ Serves(subs, notes, view, new)

\* What Finish does to the machines.
LEMMA FinishMachines ==
  ASSUME NEW m, NEW st, NEW subs, NEW notes, NEW r, NEW view, NEW q,
         Finish(m, st, subs, notes, r, view, q)
  PROVE  /\ Machine' = Machine \cup {m}
         /\ sm'[m].state = st /\ sm'[m].subs = subs
         /\ \A n \in Machine \ {m} : sm'[n] = sm[n]
         /\ sm' = [n \in Machine' |-> sm'[n]]
         /\ sm'[m] = [state |-> st, subs |-> subs]
         /\ pdn' = pdn
         /\ Notify(m, notes, view, q) /\ StartEffect(m, r, notes)
<1>1. sm' = [n \in Machine \cup {m} |->
              IF n = m THEN [state |-> st, subs |-> subs] ELSE sm[n]]
  BY DEF Finish
<1>2. pdn' = pdn /\ Notify(m, notes, view, q) /\ StartEffect(m, r, notes)
  BY DEF Finish
<1>3. Machine' = Machine \cup {m}
  BY <1>1 DEF Machine
<1>4. sm' = [n \in Machine' |-> sm'[n]]
  BY <1>1, <1>3
<1>5. sm'[m] = [state |-> st, subs |-> subs]
  BY <1>1
<1>6. \A n \in Machine \ {m} : sm'[n] = sm[n]
  BY <1>1
<1> QED BY <1>2, <1>3, <1>4, <1>5, <1>6

LEMMA FinishLists ==
  ASSUME IInv, NEW m, NEW st, NEW subs, NEW notes, NEW r, NEW view, NEW q,
         Finish(m, st, subs, notes, r, view, q),
         Typed(m, st, subs, notes, r), Fits(pdn, m, st, Range(subs))
  PROVE  /\ pdn' \in BOOLEAN /\ (Machine \subseteq Name)'
         /\ (sm \in [Machine -> [state : State, subs : Seq(Subscriber)]])'
         /\ Lists'
<1>0. /\ Machine' = Machine \cup {m} /\ pdn' = pdn
      /\ sm'[m] = [state |-> st, subs |-> subs]
      /\ \A n \in Machine \ {m} : sm'[n] = sm[n]
      /\ sm' = [n \in Machine' |-> sm'[n]]
  BY ZenonT(40), FinishMachines
<1>1. /\ pdn \in BOOLEAN /\ Machine \subseteq Name
      /\ \A n \in Machine : sm[n] \in [state : State, subs : Seq(Subscriber)]
  BY DEF IInv, TypeOK, Name
<1>2. m \in Name /\ st \in State /\ subs \in Seq(Subscriber)
  BY DEF Typed
<1>3. Machine' \subseteq Name
  BY <1>0, <1>1, <1>2
<1>4. \A n \in Machine' : sm'[n] \in [state : State, subs : Seq(Subscriber)]
  BY <1>0, <1>1, <1>2
<1>5. sm' \in [Machine' -> [state : State, subs : Seq(Subscriber)]]
  BY <1>0, <1>4
<1>6. sm'[m].state = st /\ sm'[m].subs = subs
  BY <1>0
<1>7. \A n \in Machine : Fits(pdn, n, sm[n].state, Range(sm[n].subs))
  BY DEF IInv, Lists
<1>8. \A n \in Machine' : Fits(pdn, n, sm'[n].state, Range(sm'[n].subs))
  BY <1>0, <1>6, <1>7
<1>9. Lists'
  BY <1>0, <1>8 DEF Lists
<1>10. pdn' \in BOOLEAN
  BY <1>0, <1>1, Zenon
<1> QED BY <1>3, <1>5, <1>9, <1>10

LEMMA FinishCounts ==
  ASSUME IInv, NEW m, NEW st, NEW subs, NEW notes, NEW r, NEW view, NEW q,
         Finish(m, st, subs, notes, r, view, q), Typed(m, st, subs, notes, r)
  PROVE  /\ retries' \in 0..MAX_START_DATA_CALL_RETRIES /\ timers' \in 0..MaxTimers
         /\ call' \in Outcome \cup {"none", "nosub"}
         /\ timers' > 0 => timers > 0 \/ m = "ds"
<1>1. call' = r /\ r \in Outcome \cup {"none", "nosub"}
  BY FinishMachines DEF StartEffect, Typed
<1>2. retries \in 0..MAX_START_DATA_CALL_RETRIES /\ timers \in 0..MaxTimers
  BY DEF IInv, TypeOK
<1>3. MAX_START_DATA_CALL_RETRIES \in Nat /\ MaxTimers \in Nat
  BY AgpsAssumption
<1> DEFINE B == m = "ds" /\ \E i \in DOMAIN notes : IsFallback(m, notes[i])
<1>4. B <=> m = "ds" /\ \E n \in Range(notes) : n.event = "DENIED"
  BY DEF IsFallback, Range
<1>5. \/ B /\ retries' = 0 /\ timers' = timers
      \/ ~B /\ r = "busy" /\ timers < MaxTimers /\ retries' = retries + 1 /\ timers' = timers + 1
      \/ retries' = retries /\ timers' = timers
  <2>1. StartEffect(m, r, notes)
    BY FinishMachines
  <2> QED BY <2>1 DEF StartEffect
<1>6. r = "busy" => m = "ds" /\ (retries + 1 <= MAX_START_DATA_CALL_RETRIES \/ B)
  BY <1>4 DEF Typed
<1> HIDE DEF B
<1> QED BY <1>1, <1>2, <1>3, <1>5, <1>6

\* What it tells: by whom, and to whom; and what the modem makes of it.
Talk(m, notes, view, q) ==
  /\ told' \subseteq [cb : {"open", "close"}, h : Handle, ok : BOOLEAN, m : Machine' \cup {"none"}]
  /\ \A s \in told' : s.m = m /\ \E n \in Range(notes) :
       /\ s.h = n.h /\ (s.cb = "close" <=> n.event \in {"RELEASED", "UNSUBSCRIBE"})
       /\ n.event = "GRANTED" => s.ok = TRUE
  /\ \A n \in Range(notes) : \/ \E s \in told' : s.h = n.h
                             \/ \E x \in Range(queue') : x.h = n.h
  /\ queue' \in Seq(Message) /\ Range(q) \subseteq Range(queue')
  /\ \A x \in Range(queue') : x \in Range(q) \/ \E n \in Range(notes) : x.h = n.h
  /\ m # "ds" => Range(queue') = Range(q)
  /\ modem' = ModemAfter(view, told') /\ modem' \in ViewSet

LEMMA FinishTells ==
  ASSUME IInv, NEW m, NEW st, NEW subs, NEW notes, NEW r, NEW view, NEW q, NEW new,
         Finish(m, st, subs, notes, r, view, q),
         Typed(m, st, subs, notes, r), Begins(view, q, new)
  PROVE  Talk(m, notes, view, q)
<1>1. notes \in Seq(NoteSet) /\ view \in ViewSet /\ q \in Seq(Message)
  BY DEF Typed, Begins
<1>2. Notify(m, notes, view, q)
  BY FinishMachines
<1>3. /\ told' = {Status(m, n) : n \in {x \in Range(notes) : ~IsFallback(m, x)}}
      /\ modem' = ModemAfter(view, told')
      /\ queue' \in Seq(Message)
      /\ Range(queue') = Range(q) \cup
           {Fallback(n) : n \in {x \in Range(notes) : IsFallback(m, x)}}
  BY <1>1, <1>2, NotifyIs
<1>4. \A n \in Range(notes) : n \in NoteSet
  BY <1>1, RangeIndex
<1>5. \A n \in NoteSet :
        /\ Status(m, n).m = m /\ Status(m, n).h = n.h
        /\ Status(m, n).cb = "close" <=> n.event \in {"RELEASED", "UNSUBSCRIBE"}
        /\ n.event = "GRANTED" => Status(m, n).ok = TRUE
        /\ Status(m, n) \in [cb : {"open", "close"}, h : Handle, ok : BOOLEAN, m : {m}]
        /\ Fallback(n).h = n.h
  BY DEF Status, NoteSet, Fallback
<1>6. \A s \in told' : s \in [cb : {"open", "close"}, h : Handle, ok : BOOLEAN, m : {m}]
  BY <1>3, <1>4, <1>5
<1>7. Machine' = Machine \cup {m}
  BY FinishMachines
<1>8. told' \subseteq [cb : {"open", "close"}, h : Handle, ok : BOOLEAN, m : Machine' \cup {"none"}]
  BY <1>6, <1>7
<1>9. \A s \in told' : s.m = m /\ \E n \in Range(notes) :
         /\ s.h = n.h /\ (s.cb = "close" <=> n.event \in {"RELEASED", "UNSUBSCRIBE"})
         /\ n.event = "GRANTED" => s.ok = TRUE
  BY <1>3, <1>4, <1>5
<1>10. \A n \in Range(notes) : \/ \E s \in told' : s.h = n.h
                               \/ \E x \in Range(queue') : x.h = n.h
  BY <1>3, <1>4, <1>5
<1>11. \A x \in Range(queue') : x \in Range(q) \/ \E n \in Range(notes) : x.h = n.h
  BY <1>3, <1>4, <1>5
<1>12. m # "ds" => Range(queue') = Range(q)
  BY <1>3 DEF IsFallback
<1>13. modem' \in ViewSet
  BY <1>1, <1>3, ViewAfter
<1> QED BY <1>3, <1>8, <1>9, <1>10, <1>11, <1>12, <1>13 DEF Talk

\* The parts of the invariant about the modem's view.
LEMMA FinishReleased ==
  ASSUME IInv, NEW m, NEW st, NEW subs, NEW notes, NEW r, NEW view, NEW q, NEW new,
         Finish(m, st, subs, notes, r, view, q),
         Begins(view, q, new), Correct(m, st, subs, notes, r, view, new)
  PROVE  Released'
<1>1. /\ Machine' = Machine \cup {m} /\ sm'[m].subs = subs
      /\ \A n \in Machine \ {m} : sm'[n] = sm[n]
  BY ZenonT(40), FinishMachines
<1>2. \A n \in Machine' : \A x \in Range(sm'[n].subs) :
        x.inactive => view[x.h] \in {"releasing", "closed"}
  BY <1>1 DEF Begins, Correct
<1>0. Typed(m, st, subs, notes, r) /\ Fits(pdn, m, st, Range(subs)) /\ view \in ViewSet
  BY DEF Correct, Begins
<1>3. modem' = ModemAfter(view, told')
  <2>1. Talk(m, notes, view, q)
    BY <1>0, FinishTells
  <2> QED BY <2>1 DEF Talk
<1>4. \A h \in Handle : view[h] \in {"releasing", "closed"} => modem'[h] \in {"releasing", "closed"}
  BY <1>0, <1>3, ViewAfter
<1>5. \A n \in Machine' : sm'[n].subs \in Seq(Subscriber)
  BY <1>0, FinishLists
<1>6. \A n \in Machine' : \A x \in Range(sm'[n].subs) : x.h \in Handle
  BY <1>5, ListFacts DEF Subscriber
<1>7. \A n \in Machine' : \A x \in Range(sm'[n].subs) :
        x.inactive => modem'[x.h] \in {"releasing", "closed"}
  BY <1>2, <1>4, <1>6
<1> QED BY <1>7 DEF Released

LEMMA FinishIdle ==
  ASSUME IInv, NEW m, NEW st, NEW subs, NEW notes, NEW r, NEW view, NEW q, NEW new,
         Finish(m, st, subs, notes, r, view, q),
         Begins(view, q, new), Correct(m, st, subs, notes, r, view, new)
  PROVE  IdleUnknown'
<1>1. /\ Machine' = Machine \cup {m} /\ sm'[m].subs = subs
      /\ \A n \in Machine \ {m} : sm'[n] = sm[n]
  BY ZenonT(40), FinishMachines
<1>2. Typed(m, st, subs, notes, r) /\ view \in ViewSet /\ Tells(m, subs, notes, new)
  BY DEF Correct, Begins
<1>3. /\ modem' = ModemAfter(view, told')
      /\ \A x \in Range(queue') : x \in Range(q) \/ \E n \in Range(notes) : x.h = n.h
  <2>1. Talk(m, notes, view, q)
    BY <1>2, FinishTells
  <2> QED BY <2>1 DEF Talk
<1> SUFFICES ASSUME NEW h \in Handle, modem'[h] = "idle"
             PROVE  /\ \A n \in Machine' : \A x \in Range(sm'[n].subs) : x.h # h
                    /\ \A x \in Range(queue') : x.h # h
  BY DEF IdleUnknown
<1>4. view[h] = "idle"
  BY <1>2, <1>3, ViewAfter
<1>5. modem[h] = "idle" /\ h \notin new /\ Range(q) \subseteq Range(queue)
  BY <1>4 DEF Begins
<1>6. /\ \A n \in Machine : \A x \in Range(sm[n].subs) : x.h # h
      /\ \A x \in Range(queue) : x.h # h
  BY <1>5 DEF IInv, IdleUnknown
<1>7. \A x \in Range(Old(m)) : x.h # h
  BY <1>6, NoNote DEF Old
<1>8. /\ \A x \in Range(subs) : x.h # h
      /\ \A n \in Range(notes) : n.h # h
  BY <1>2, <1>5, <1>7 DEF Tells
<1>9. \A n \in Machine' : \A x \in Range(sm'[n].subs) : x.h # h
  BY <1>1, <1>6, <1>8
<1> QED BY <1>3, <1>5, <1>6, <1>8, <1>9

\* Without the DS machine, m's handles are nowhere else.
LEMMA FinishOnce ==
  ASSUME IInv, NEW m, NEW st, NEW subs, NEW notes, NEW r, NEW view, NEW q, NEW new,
         Finish(m, st, subs, notes, r, view, q),
         Begins(view, q, new), Correct(m, st, subs, notes, r, view, new)
  PROVE  ListedOnce'
<1>1. /\ Machine' = Machine \cup {m} /\ sm'[m].subs = subs /\ pdn' = pdn
      /\ \A n \in Machine \ {m} : sm'[n] = sm[n]
  BY ZenonT(40), FinishMachines
<1>2. /\ Typed(m, st, subs, notes, r) /\ view \in ViewSet /\ Tells(m, subs, notes, new)
      /\ Fits(pdn, m, st, Range(subs))
  BY DEF Correct, Begins
<1> SUFFICES ASSUME ~pdn
             PROVE  \A n \in Machine' : \A x \in Range(sm'[n].subs) :
                      /\ modem'[x.h] # "closed"
                      /\ \A k \in Machine' \ {n} : \A y \in Range(sm'[k].subs) : y.h # x.h
  BY <1>1 DEF ListedOnce
<1>3. /\ modem' = ModemAfter(view, told')
      /\ \A s \in told' : \E n \in Range(notes) :
           /\ s.h = n.h /\ (s.cb = "close" <=> n.event \in {"RELEASED", "UNSUBSCRIBE"})
           /\ n.event = "GRANTED" => s.ok = TRUE
      /\ told' \subseteq [cb : {"open", "close"}, h : Handle, ok : BOOLEAN, m : Machine' \cup {"none"}]
  <2>1. Talk(m, notes, view, q)
    BY <1>2, FinishTells
  <2> QED BY <2>1 DEF Talk
<1>4. \A n \in Machine : \A x \in Range(sm[n].subs) :
        /\ view[x.h] # "closed" /\ x.h \notin new
        /\ \A k \in Machine \ {n} : \A y \in Range(sm[k].subs) : y.h # x.h
  BY DEF Begins, IInv, ListedOnce
<1>5. \A h \in new : view[h] # "closed"
  BY DEF Begins
\* A handle m deals with is not in the other lists.
<1>6. ASSUME NEW h, h \in new \/ \E y \in Range(Old(m)) : y.h = h
      PROVE  \A n \in Machine \ {m} : \A x \in Range(sm[n].subs) : x.h # h
  <2>1. CASE h \in new
    BY <2>1, <1>4
  <2>2. CASE \E y \in Range(Old(m)) : y.h = h
    <3>1. m \in Machine /\ \E y \in Range(sm[m].subs) : y.h = h
      BY <2>2, NoNote DEF Old
    <3> QED BY <3>1, <1>4
  <2> QED BY <1>6, <2>1, <2>2
<1>7. \A x \in Range(subs) : view[x.h] # "closed"
      /\ \A n \in Machine \ {m} : \A y \in Range(sm[n].subs) : y.h # x.h
  <2> SUFFICES ASSUME NEW x \in Range(subs)
               PROVE  /\ view[x.h] # "closed"
                      /\ \A n \in Machine \ {m} : \A y \in Range(sm[n].subs) : y.h # x.h
    OBVIOUS
  <2>1. x.h \in new \/ \E y \in Range(Old(m)) : y.h = x.h
    BY <1>2 DEF Tells
  <2>2. view[x.h] # "closed"
    BY <2>1, <1>4, <1>5, NoNote DEF Old
  <2> QED BY <2>1, <2>2, <1>6
<1>8. \A n \in Range(notes) : \A k \in Machine \ {m} : \A y \in Range(sm[k].subs) : y.h # n.h
  BY <1>2, <1>6 DEF Tells
\* A handle that is listed afterwards was told of nothing but a grant.
<1>9. ASSUME NEW n \in Machine', NEW x \in Range(sm'[n].subs)
      PROVE  view[x.h] # "closed" /\ \A s \in told' : s.h = x.h => s.cb = "open" /\ s.ok = TRUE
  <2>1. CASE n = m
    <3>1. \A k \in Range(notes) : k.h = x.h => k.event = "GRANTED"
      BY <2>1, <1>1, <1>2 DEF Tells
    <3> QED BY <3>1, <2>1, <1>1, <1>3, <1>7
  <2>2. CASE n # m
    <3>1. n \in Machine \ {m} /\ x \in Range(sm[n].subs)
      BY <2>2, <1>1
    <3> QED BY <3>1, <1>3, <1>4, <1>8
  <2> QED BY <2>1, <2>2
<1>10. \A n \in Machine' : \A x \in Range(sm'[n].subs) : x.h \in Handle
  <2>1. \A n \in Machine' : sm'[n].subs \in Seq(Subscriber)
    BY <1>2, FinishLists
  <2> QED BY <2>1, ListFacts DEF Subscriber
<1>11. \A n \in Machine' : \A x \in Range(sm'[n].subs) : modem'[x.h] # "closed"
  <2> SUFFICES ASSUME NEW h \in Handle, view[h] # "closed",
                      \A s \in told' : s.h = h => s.cb = "open" /\ s.ok = TRUE
               PROVE  modem'[h] # "closed"
    BY <1>9, <1>10
  <2>1. ModemAfter(view, told')[h] # "closed"
    BY <1>2, StaysOpen
  <2> QED BY <2>1, <1>3
<1>12. \A n \in Machine' : \A x \in Range(sm'[n].subs) :
         \A k \in Machine' \ {n} : \A y \in Range(sm'[k].subs) : y.h # x.h
  BY <1>1, <1>4, <1>7
<1> QED BY <1>11, <1>12

LEMMA FinishAsked ==
  ASSUME IInv, NEW m, NEW st, NEW subs, NEW notes, NEW r, NEW view, NEW q, NEW new,
         Finish(m, st, subs, notes, r, view, q),
         Begins(view, q, new), Correct(m, st, subs, notes, r, view, new)
  PROVE  AskedIsKept'
<1>1. /\ Machine' = Machine \cup {m} /\ sm'[m].subs = subs
      /\ \A n \in Machine \ {m} : sm'[n] = sm[n]
  BY FinishMachines
<1>2. /\ Typed(m, st, subs, notes, r) /\ view \in ViewSet /\ Keeps(m, subs, notes, view)
      /\ Serves(subs, notes, view, new)
  BY DEF Correct, Begins
<1>3. /\ modem' = ModemAfter(view, told')
      /\ \A n \in Range(notes) : \/ \E s \in told' : s.h = n.h
                                 \/ \E x \in Range(queue') : x.h = n.h
      /\ Range(q) \subseteq Range(queue')
  <2>1. Talk(m, notes, view, q)
    BY <1>2, FinishTells
  <2> QED BY <2>1 DEF Talk
<1> SUFFICES ASSUME NEW h \in Handle, modem'[h] = "asked"
             PROVE  \/ \E n \in Machine' : \E x \in Range(sm'[n].subs) : x.h = h /\ ~x.inactive
                    \/ \E x \in Range(queue') : x.h = h
  BY DEF AskedIsKept
<1>4. view[h] = "asked" /\ \A s \in told' : s.h # h
  <2>1. ModemAfter(view, told')[h] = "asked" => view[h] = "asked"
    BY <1>2, ViewAfter
  <2>2. (\E s \in told' : s.h = h) => ModemAfter(view, told')[h] # "asked"
    BY <1>2, ViewAfter
  <2> QED BY <2>1, <2>2, <1>3
\* Who is told and still waits has a fallback in the queue.
<1>5. (\E n \in Range(notes) : n.h = h) => \E x \in Range(queue') : x.h = h
  BY <1>3, <1>4
<1>6. \/ \E n \in Machine : \E x \in Range(sm[n].subs) : x.h = h /\ ~x.inactive
      \/ \E x \in Range(q) : x.h = h
      \/ h \in new
  BY <1>4 DEF Begins
<1>7. CASE \E x \in Range(q) : x.h = h
  BY <1>7, <1>3
<1>8. CASE h \in new
  BY <1>8, <1>1, <1>2, <1>4, <1>5 DEF Serves
<1>9. CASE \E n \in Machine : \E x \in Range(sm[n].subs) : x.h = h /\ ~x.inactive
  <2>1. PICK n \in Machine : \E x \in Range(sm[n].subs) : x.h = h /\ ~x.inactive
    BY <1>9
  <2>2. CASE n = m
    <3>1. \E x \in Range(Old(m)) : ~x.inactive /\ x.h = h
      BY <2>1, <2>2 DEF Old
    <3> QED BY <3>1, <1>1, <1>2, <1>4, <1>5 DEF Keeps
  <2>3. CASE n # m
    BY <2>1, <2>3, <1>1
  <2> QED BY <2>2, <2>3
<1> QED BY <1>6, <1>7, <1>8, <1>9

\* The step of EmergencyCloseWaits.
CloseWaits ==
  \A m \in Machine : \A i \in DOMAIN sm[m].subs :
    LET s == sm[m].subs[i] IN
    s.wait /\ [cb |-> "close", h |-> s.h, ok |-> TRUE, m |-> m] \in told'
      => sm'[m].state \in {"RELEASED", "PENDING"}

LEMMA FinishCloses ==
  ASSUME IInv, NEW m, NEW st, NEW subs, NEW notes, NEW r, NEW view, NEW q, NEW new,
         Finish(m, st, subs, notes, r, view, q),
         Begins(view, q, new), Correct(m, st, subs, notes, r, view, new)
  PROVE  CloseWaits
<1>1. sm'[m].state = st
  BY FinishMachines
<1>2. Typed(m, st, subs, notes, r) /\ Closes(m, st, notes)
  BY DEF Correct
<1>3. \A s \in told' : s.m = m /\ \E n \in Range(notes) :
        s.h = n.h /\ (s.cb = "close" <=> n.event \in {"RELEASED", "UNSUBSCRIBE"})
  <2>1. Talk(m, notes, view, q)
    BY <1>2, FinishTells
  <2> QED BY <2>1 DEF Talk
<1> SUFFICES ASSUME NEW k \in Machine, NEW x \in Range(sm[k].subs), x.wait,
                    NEW s \in told', s.m = k, s.cb = "close", s.h = x.h
             PROVE  sm'[k].state \in {"RELEASED", "PENDING"}
  BY DEF CloseWaits, Range
<1>4. k = m
  BY <1>3
<1>5. PICK n \in Range(notes) : s.h = n.h /\ n.event \in {"RELEASED", "UNSUBSCRIBE"}
  BY <1>3
<1>6. x \in Range(Old(m)) /\ x.h = n.h
  BY <1>4, <1>5 DEF Old
<1> QED BY <1>1, <1>2, <1>4, <1>5, <1>6 DEF Closes

LEMMA FinishInv ==
  ASSUME IInv, NEW m, NEW st, NEW subs, NEW notes, NEW r, NEW view, NEW q, NEW new,
         Finish(m, st, subs, notes, r, view, q),
         Begins(view, q, new), Correct(m, st, subs, notes, r, view, new)
  PROVE  IInv' /\ CloseWaits
<1>1. Typed(m, st, subs, notes, r) /\ Fits(pdn, m, st, Range(subs))
  BY DEF Correct
<1>2. /\ pdn' \in BOOLEAN /\ (Machine \subseteq Name)'
      /\ (sm \in [Machine -> [state : State, subs : Seq(Subscriber)]])'
      /\ Lists'
  BY <1>1, FinishLists
<1>3. /\ retries' \in 0..MAX_START_DATA_CALL_RETRIES /\ timers' \in 0..MaxTimers
      /\ call' \in Outcome \cup {"none", "nosub"}
      /\ timers' > 0 => timers > 0 \/ m = "ds"
  BY <1>1, FinishCounts
<1>4. Talk(m, notes, view, q)
  BY <1>1, FinishTells
<1>5. TypeOK'
  BY <1>2, <1>3, <1>4 DEF TypeOK, Talk, Message, ViewSet, Name
<1>6. Setup'
  <2>1. /\ Machine' = Machine \cup {m} /\ pdn' = pdn
    BY FinishMachines
  <2>2. (~pdn => m # "ds") /\ (~pdn => q = <<>>)
    BY <1>1 DEF Typed, Begins
  <2>3. queue' \in Seq(Message) /\ (m # "ds" => Range(queue') = Range(q))
    BY <1>4 DEF Talk
  <2>4. ~pdn => queue' = <<>>
    <3>1. ~pdn => Range(queue') = {}
      BY <2>2, <2>3, NoNote
    <3> QED BY <3>1, <2>3, RangeIndex
  <2>5. (~pdn => "ds" \notin Machine) /\ (timers > 0 => "ds" \in Machine)
    BY DEF IInv, Setup
  <2>6. ~pdn' => "ds" \notin Machine'
    BY <2>1, <2>2, <2>5
  <2>7. timers' > 0 => "ds" \in Machine'
    BY <2>1, <2>5, <1>3
  <2> QED BY <2>1, <2>4, <2>6, <2>7 DEF Setup
<1> QED BY <1>2, <1>5, <1>6, FinishReleased, FinishIdle, FinishOnce, FinishAsked, FinishCloses
        DEF IInv

-----------------------------------------------------------------------------
(* The events. *)

LEMMA OldIs ==
  ASSUME IInv, NEW m \in Name
  PROVE  /\ Old(m) \in Seq(Subscriber)
         /\ m \in Machine => /\ Old(m) = sm[m].subs /\ sm[m].state \in State
                             /\ sm[m].subs \in Seq(Subscriber)
                             /\ Fits(pdn, m, sm[m].state, Range(sm[m].subs))
                             /\ m = "ds" => pdn
BY EmptySeq DEF IInv, TypeOK, Lists, Setup, Old

\* A data call is started for somebody; when it is given up, one who is active
\* is told.
LEMMA StartIs ==
  ASSUME IInv, NEW m \in Name, NEW s \in Seq(Subscriber), NEW r \in StartResults(m, s)
  PROVE  /\ r \in Outcome \cup {"none", "nosub"}
         /\ StartNotes(r, s) \in Seq(NoteSet)
         /\ \A n \in Range(StartNotes(r, s)) :
              m = "ds" /\ n.event = "DENIED" /\ \E x \in Range(s) : ~x.inactive /\ x.h = n.h
         /\ r = "busy" => m = "ds" /\ (\/ retries + 1 <= MAX_START_DATA_CALL_RETRIES
                                       \/ \E n \in Range(StartNotes(r, s)) : n.event = "DENIED")
         /\ m = "ds" /\ Started(m, r) => \E x \in Range(s) : ~x.inactive
<1>1. r \in Outcome \cup {"none", "nosub"}
  BY DEF StartResults
<1>2. r \in Outcome => m = "ds" /\ \E x \in Range(s) : ~x.inactive
  BY ListFacts DEF StartResults, Outcome
<1>3. m = "ds" /\ Started(m, r) => \E x \in Range(s) : ~x.inactive
  BY <1>2 DEF Started, Outcome
<1>4. retries \in Nat /\ MAX_START_DATA_CALL_RETRIES \in Nat
  BY AgpsAssumption DEF IInv, TypeOK
<1>5. CASE GivesUp(r)
  <2>1. r \in Outcome
    BY <1>5 DEF GivesUp, Outcome
  <2>2. Active(s) \in Seq(Subscriber) /\ Range(Active(s)) = {x \in Range(s) : ~x.inactive}
    BY ActiveIs
  <2>3. Active(s) # <<>>
    BY <2>1, <2>2, <1>2, NoNote
  <2>4. Active(s)[1] \in Range(Active(s)) /\ Active(s)[1] \in Subscriber
    <3>1. 1 \in DOMAIN Active(s)
      BY <2>2, <2>3, EmptySeq, LenProperties
    <3> QED BY <3>1, <2>2, RangeIndex
  <2>5. Active(s)[1].h \in Handle
    BY <2>4 DEF Subscriber
  <2>6. StartNotes(r, s) = <<Note("DENIED", Active(s)[1].h)>>
    BY <1>5 DEF StartNotes
  <2>7. /\ StartNotes(r, s) \in Seq(NoteSet)
        /\ Range(StartNotes(r, s)) = {[event |-> "DENIED", h |-> Active(s)[1].h]}
    BY <2>5, <2>6, OneNote
  <2>8. \A n \in Range(StartNotes(r, s)) :
          m = "ds" /\ n.event = "DENIED" /\ \E x \in Range(s) : ~x.inactive /\ x.h = n.h
    BY <2>1, <2>2, <2>4, <2>7, <1>2
  <2>9. \E n \in Range(StartNotes(r, s)) : n.event = "DENIED"
    BY <2>7
  <2> QED BY <2>1, <2>7, <2>8, <2>9, <1>1, <1>2, <1>3
<1>6. CASE ~GivesUp(r)
  <2>1. StartNotes(r, s) = <<>>
    BY <1>6 DEF StartNotes
  <2>2. r = "busy" => m = "ds" /\ retries + 1 <= MAX_START_DATA_CALL_RETRIES
    BY <1>2, <1>4, <1>6 DEF GivesUp, Outcome
  <2> QED BY <2>1, <2>2, <1>1, <1>3, NoNote
<1> QED BY <1>5, <1>6

LEMMA SubscribeKeeps ==
  ASSUME IInv, NEW m \in Name, NEW s \in Subscriber, NEW view, NEW q,
         m = "ds" => pdn, ~s.inactive, pdn /\ m # "ds" => ~s.wait,
         Begins(view, q, {s.h}), processAgpsEventSubscribe(m, s, view, q)
  PROVE  IInv' /\ CloseWaits
<1> DEFINE now == IF m \in Machine THEN sm[m] ELSE Fresh
           subs == addSubscriber(now.subs, s)
           st == now.state
           new == {s.h}
<1>1. now.subs = Old(m) /\ (m \notin Machine => st = "RELEASED")
  BY DEF Old, Fresh
<1>2. /\ Old(m) \in Seq(Subscriber)
      /\ m \in Machine => sm[m].state \in State /\ Fits(pdn, m, sm[m].state, Range(sm[m].subs))
  BY OldIs
<1>3. st \in State
  BY <1>1, <1>2 DEF State
<1>4. Fits(pdn, m, st, Range(Old(m)))
  <2>1. CASE m \in Machine
    BY <2>1, <1>2 DEF Old
  <2>2. CASE m \notin Machine
    BY <2>2, <1>1, NoNote DEF Old, Fits
  <2> QED BY <2>1, <2>2
<1>5. /\ subs \in Seq(Subscriber)
      /\ Range(subs) = IF \E y \in Range(Old(m)) : y.h = s.h THEN Range(Old(m))
                                                            ELSE Range(Old(m)) \cup {s}
  BY ZenonT(40), <1>1, <1>2, AddIs
<1>6. \A x \in Range(Old(m)) : x.inactive => view[x.h] \in {"releasing", "closed"}
  BY NoNote DEF Begins, Old
<1>7. s.h \in Handle
  BY DEF Subscriber
<1>8. processAgpsEventSubscribe(m, s, view, q) <=>
        \/ /\ st = "RELEASED"
           /\ \E r \in StartResults(m, subs) :
                Finish(m, IF Started(m, r) THEN "PENDING" ELSE "RELEASED", subs,
                       StartNotes(r, subs), r, view, q)
        \/ /\ st \in {"PENDING", "RELEASING"}
           /\ Finish(m, st, subs, <<>>, "none", view, q)
        \/ /\ st = "ACQUIRED"
           /\ Finish(m, st, subs, <<Note("GRANTED", s.h)>>, "none", view, q)
  BY DEF processAgpsEventSubscribe
<1> HIDE DEF now, subs, st
<1>9. \A x \in Range(subs) : x.inactive => view[x.h] \in {"releasing", "closed"}
  BY <1>5, <1>6
<1>10. \A x \in Range(subs) : x.h \in new \/ \E y \in Range(Old(m)) : y.h = x.h
  BY <1>5
<1>11. \A notes : Keeps(m, subs, notes, view)
  BY <1>5 DEF Keeps
<1>12. \A notes : Serves(subs, notes, view, new)
  <2>1. view[s.h] = "asked" => \E y \in Range(subs) : y.h = s.h /\ ~y.inactive
    BY <1>5, <1>6
  <2> QED BY <2>1 DEF Serves
\* The conditions of Fits that do not depend on the state.
<1>13. /\ \A x, y \in Range(subs) : x.h = y.h => x = y
       /\ \A x \in Range(subs) : x.inactive => x.wait
       /\ pdn /\ m # "ds" => \A x \in Range(subs) : ~x.wait
  BY <1>4, <1>5 DEF Fits
<1>14. Range(Old(m)) \subseteq Range(subs)
  BY <1>5
<1>15. CASE st = "RELEASED"
  <2>1. PICK r \in StartResults(m, subs) :
          Finish(m, IF Started(m, r) THEN "PENDING" ELSE "RELEASED", subs,
                 StartNotes(r, subs), r, view, q)
    BY <1>8, <1>15
  <2> DEFINE to == IF Started(m, r) THEN "PENDING" ELSE "RELEASED"
             notes == StartNotes(r, subs)
  <2>2. /\ r \in Outcome \cup {"none", "nosub"} /\ notes \in Seq(NoteSet)
        /\ \A n \in Range(notes) :
             m = "ds" /\ n.event = "DENIED" /\ \E x \in Range(subs) : ~x.inactive /\ x.h = n.h
        /\ r = "busy" => m = "ds" /\ (\/ retries + 1 <= MAX_START_DATA_CALL_RETRIES
                                      \/ \E n \in Range(notes) : n.event = "DENIED")
        /\ m = "ds" /\ Started(m, r) => \E x \in Range(subs) : ~x.inactive
    BY <1>5, StartIs
  <2>3. to \in {"PENDING", "RELEASED"} /\ (to = "PENDING" <=> Started(m, r))
    OBVIOUS
  <2>4. m # "ds" => Started(m, r) /\ Range(Old(m)) = {}
    BY <1>4, <1>15 DEF Started, Fits
  <2>5. Finish(m, to, subs, notes, r, view, q)
    BY <2>1
  <2> HIDE DEF to, notes
  <2>6. m # "ds" => \E x \in Range(subs) : ~x.inactive
    BY <1>5, <2>4
  <2>7. Fits(pdn, m, to, Range(subs))
    BY <1>13, <2>2, <2>3, <2>4, <2>6 DEF Fits
  <2>8. Typed(m, to, subs, notes, r)
    BY <1>5, <2>2, <2>3 DEF Typed, State
  <2>9. Tells(m, subs, notes, new)
    BY <1>10, <2>2 DEF Tells
  <2>10. Closes(m, to, notes)
    BY <2>3 DEF Closes
  <2>11. Correct(m, to, subs, notes, r, view, new)
    BY <2>7, <2>8, <2>9, <2>10, <1>9, <1>11, <1>12 DEF Correct
  <2> QED BY <2>5, <2>11, FinishInv
<1>16. CASE st \in {"PENDING", "RELEASING"}
  <2>1. Finish(m, st, subs, <<>>, "none", view, q)
    BY <1>8, <1>16
  <2>2. Fits(pdn, m, st, Range(subs))
    BY <1>4, <1>13, <1>14, <1>16 DEF Fits
  <2>3. Typed(m, st, subs, <<>>, "none")
    BY <1>3, <1>5, NoNote DEF Typed
  <2>4. Tells(m, subs, <<>>, new) /\ Closes(m, st, <<>>)
    BY <1>10, NoNote DEF Tells, Closes
  <2>5. Correct(m, st, subs, <<>>, "none", view, new)
    BY <2>2, <2>3, <2>4, <1>9, <1>11, <1>12 DEF Correct
  <2> QED BY <2>1, <2>5, FinishInv
<1>17. CASE st = "ACQUIRED"
  <2> DEFINE notes == <<Note("GRANTED", s.h)>>
  <2>1. Finish(m, st, subs, notes, "none", view, q)
    BY <1>8, <1>17
  <2>2. notes \in Seq(NoteSet) /\ Range(notes) = {[event |-> "GRANTED", h |-> s.h]}
    BY <1>7, OneNote
  <2> HIDE DEF notes
  <2>3. Fits(pdn, m, st, Range(subs))
    BY <1>4, <1>13, <1>14, <1>17 DEF Fits
  <2>4. Typed(m, st, subs, notes, "none")
    BY <1>3, <1>5, <2>2 DEF Typed
  <2>5. Tells(m, subs, notes, new) /\ Closes(m, st, notes)
    BY <1>10, <2>2 DEF Tells, Closes
  <2>6. Correct(m, st, subs, notes, "none", view, new)
    BY <2>3, <2>4, <2>5, <1>9, <1>11, <1>12 DEF Correct
  <2> QED BY <2>1, <2>6, FinishInv
<1> QED BY <1>3, <1>15, <1>16, <1>17 DEF State

\* An unsubscribe in a machine that is not released, with what is left (subs).
LEMMA LeaveKeeps ==
  ASSUME IInv, NEW m \in Machine, NEW s \in Range(sm[m].subs), NEW view,
         NEW subs \in Seq(Subscriber), NEW notes \in Seq(NoteSet), NEW to,
         sm[m].state # "RELEASED", Begins(view, queue, {}), view[s.h] = "releasing",
         to = (IF subs = <<>> THEN "RELEASED"
               ELSE IF anyActiveSubscribers(subs) THEN sm[m].state ELSE "RELEASING"),
         \/ /\ s.wait /\ notes = <<>> /\ subs = MarkInactive(sm[m].subs, s.h)
         \/ /\ ~s.wait /\ Range(notes) = {[event |-> "UNSUBSCRIBE", h |-> s.h]}
            /\ subs = deleteSubscriber(sm[m].subs, s.h),
         Finish(m, to, subs, notes, "none", view, queue)
  PROVE  IInv' /\ CloseWaits
<1> DEFINE E == Range(sm[m].subs)
           F == Range(subs)
           st == sm[m].state
<1>1. /\ m \in Name /\ Old(m) = sm[m].subs /\ st \in State /\ (m = "ds" => pdn)
      /\ sm[m].subs \in Seq(Subscriber) /\ Fits(pdn, m, st, E)
  <2>1. m \in Name
    BY DEF IInv, TypeOK, Name
  <2> QED BY <2>1, OldIs
<1>2. \A x \in E : x.h = s.h => x = s
  BY <1>1 DEF Fits
<1>3. \A x \in E : x.inactive => view[x.h] \in {"releasing", "closed"}
  BY DEF Begins
\* What is left, in either case.
<1>4. /\ \A y \in F : \E x \in E : y.h = x.h /\ y.wait = x.wait /\
                         (y.inactive => x.inactive \/ (x = s /\ s.wait))
      /\ \A x, y \in F : x.h = y.h => x = y
      /\ \A x \in E : x.h # s.h => \E y \in F : y.h = x.h /\ (y.inactive <=> x.inactive)
      /\ (\E x \in E : x.inactive) => \E y \in F : y.inactive
  <2>1. CASE s.wait /\ subs = MarkInactive(sm[m].subs, s.h)
    <3> DEFINE M(x) == IF x.h = s.h THEN [x EXCEPT !.inactive = TRUE] ELSE x
    <3>1. F = {M(x) : x \in E}
      BY <1>1, <2>1, MarkIs
    <3>2. E \subseteq Subscriber
      BY <1>1, ListFacts
    <3>3. \A x \in Subscriber : /\ M(x).h = x.h /\ M(x).wait = x.wait
                                /\ M(x).inactive <=> x.inactive \/ x.h = s.h
      BY DEF Subscriber
    <3> HIDE DEF M, E, F
    <3>4. \A y \in F : \E x \in E : y.h = x.h /\ y.wait = x.wait /\
                         (y.inactive => x.inactive \/ (x = s /\ s.wait))
      BY <1>2, <2>1, <3>1, <3>2, <3>3
    <3>5. \A x, y \in F : x.h = y.h => x = y
      <4>1. \A x, y \in E : x.h = y.h => x = y
        BY <1>1 DEF Fits, E
      <4> QED BY <4>1, <3>1, <3>2, <3>3
    <3>6. \A x \in E : M(x) \in F
      BY <3>1
    <3> QED BY <3>2, <3>3, <3>4, <3>5, <3>6
  <2>2. CASE ~s.wait /\ subs = deleteSubscriber(sm[m].subs, s.h)
    <3>1. F = {x \in E : x.h # s.h}
      BY <1>1, <2>2, DeleteIs
    <3>2. \A x, y \in E : x.h = y.h => x = y
      BY <1>1 DEF Fits
    <3>3. \A x \in E : x.inactive => x.wait
      BY <1>1 DEF Fits
    <3>4. \A x \in E : x.inactive => x \in F
      BY <1>2, <2>2, <3>1, <3>3
    <3> HIDE DEF E, F
    <3> QED BY <3>1, <3>2, <3>4
  <2> QED BY <2>1, <2>2
<1>5. subs = <<>> <=> F = {}
  BY RangeIndex
<1>6. anyActiveSubscribers(subs) <=> \E x \in F : ~x.inactive
  BY ListFacts
<1>7. Fits(pdn, m, to, F)
  <2>1. /\ \A x \in E : x.inactive => x.wait
        /\ pdn /\ m # "ds" => \A x \in E : ~x.wait
    BY <1>1 DEF Fits
  <2>2. \A y \in F : y.inactive => y.wait
    BY <1>4, <2>1
  <2>3. pdn /\ m # "ds" => \A y \in F : ~y.wait
    BY <1>4, <2>1
  <2>4. st = "RELEASING" => \E x \in E : x.inactive
    BY <1>1 DEF Fits
  <2>5. to \in {"PENDING", "ACQUIRED"} => \E x \in F : ~x.inactive
    BY <1>6
  <2>6. to = "RELEASING" => \E x \in F : x.inactive
    BY <1>4, <1>5, <1>6, <2>4
  <2>7. to = "RELEASED" => F = {}
    BY <1>5
  <2> HIDE DEF F
  <2> QED BY <1>4, <2>2, <2>3, <2>5, <2>6, <2>7 DEF Fits
<1>8. Typed(m, to, subs, notes, "none")
  BY <1>1 DEF Typed, State
<1>9. Tells(m, subs, notes, {})
  <2>1. \A x \in F : \E y \in E : y.h = x.h
    BY <1>4
  <2>2. \A n \in Range(notes) : n.h = s.h /\ subs = deleteSubscriber(sm[m].subs, s.h)
    BY NoNote
  <2>3. subs = deleteSubscriber(sm[m].subs, s.h) => \A x \in F : x.h # s.h
    BY <1>1, DeleteIs
  <2> QED BY <2>1, <2>2, <2>3, <1>1 DEF Tells
<1>10. Keeps(m, subs, notes, view)
  BY <1>1, <1>4 DEF Keeps
<1>11. Closes(m, to, notes)
  <2>1. \A n \in Range(notes) : n.h = s.h /\ ~s.wait
    BY NoNote
  <2> QED BY <2>1, <1>1, <1>2 DEF Closes
<1>12. \A x \in F : x.inactive => view[x.h] \in {"releasing", "closed"}
  BY <1>3, <1>4
<1>13. Serves(subs, notes, view, {})
  BY DEF Serves
<1>14. Correct(m, to, subs, notes, "none", view, {})
  BY <1>7, <1>8, <1>9, <1>10, <1>11, <1>12, <1>13 DEF Correct
<1> QED BY <1>14, FinishInv

LEMMA UnsubscribeKeeps ==
  ASSUME IInv, NEW m \in Machine, NEW s \in Range(sm[m].subs), NEW view,
         Begins(view, queue, {}), view[s.h] = "releasing",
         processAgpsEventUnsubscribe(m, s, view)
  PROVE  IInv' /\ CloseWaits
<1> DEFINE subs == IF s.wait THEN MarkInactive(sm[m].subs, s.h)
                             ELSE deleteSubscriber(sm[m].subs, s.h)
           note == <<Note("UNSUBSCRIBE", s.h)>>
           to == IF subs = <<>> THEN "RELEASED"
                 ELSE IF anyActiveSubscribers(subs) THEN sm[m].state ELSE "RELEASING"
           notes == IF s.wait THEN <<>> ELSE note
<1>1. /\ m \in Name /\ Old(m) = sm[m].subs /\ (m = "ds" => pdn)
      /\ sm[m].subs \in Seq(Subscriber) /\ Fits(pdn, m, sm[m].state, Range(sm[m].subs))
  <2>1. m \in Name
    BY DEF IInv, TypeOK, Name
  <2> QED BY <2>1, OldIs
<1>2. s \in Subscriber /\ s.h \in Handle
  BY <1>1, ListFacts DEF Subscriber
<1>3. note \in Seq(NoteSet) /\ Range(note) = {[event |-> "UNSUBSCRIBE", h |-> s.h]}
  BY <1>2, OneNote
<1>4. \/ /\ sm[m].state = "RELEASED"
         /\ Finish(m, sm[m].state, sm[m].subs, note, "none", view, queue)
      \/ /\ sm[m].state # "RELEASED"
         /\ Finish(m, to, subs, notes, "none", view, queue)
  BY DEF processAgpsEventUnsubscribe
<1>5. CASE sm[m].state = "RELEASED" /\ Finish(m, sm[m].state, sm[m].subs, note, "none", view, queue)
  <2> HIDE DEF note
  <2>1. m = "ds" /\ pdn
    BY <1>1, <1>5 DEF Fits
  <2>2. Typed(m, sm[m].state, sm[m].subs, note, "none")
    BY <1>1, <1>3, <1>5 DEF Typed, State
  <2>3. Tells(m, sm[m].subs, note, {})
    BY <1>1, <1>3, <2>1 DEF Tells
  <2>4. Keeps(m, sm[m].subs, note, view) /\ Serves(sm[m].subs, note, view, {})
    BY <1>1 DEF Keeps, Serves
  <2>5. Closes(m, sm[m].state, note)
    BY <1>5 DEF Closes
  <2>6. \A x \in Range(sm[m].subs) : x.inactive => view[x.h] \in {"releasing", "closed"}
    BY DEF Begins
  <2>7. Correct(m, sm[m].state, sm[m].subs, note, "none", view, {})
    BY <1>1, <2>2, <2>3, <2>4, <2>5, <2>6 DEF Correct
  <2> QED BY <1>5, <2>7, FinishInv
<1>6. CASE sm[m].state # "RELEASED" /\ Finish(m, to, subs, notes, "none", view, queue)
  <2>1. subs \in Seq(Subscriber)
    BY <1>1, MarkIs, DeleteIs
  <2>2. notes \in Seq(NoteSet)
    BY <1>3, NoNote
  <2>3. \/ s.wait /\ notes = <<>> /\ subs = MarkInactive(sm[m].subs, s.h)
        \/ /\ ~s.wait /\ Range(notes) = {[event |-> "UNSUBSCRIBE", h |-> s.h]}
           /\ subs = deleteSubscriber(sm[m].subs, s.h)
    BY <1>3
  <2>4. to = (IF subs = <<>> THEN "RELEASED"
              ELSE IF anyActiveSubscribers(subs) THEN sm[m].state ELSE "RELEASING")
    OBVIOUS
  <2> HIDE DEF subs, notes, to
  <2> QED BY <1>6, <2>1, <2>2, <2>3, <2>4, LeaveKeeps
<1> QED BY <1>4, <1>5, <1>6

\* A report begins with the modem's view and the queue as they are.
LEMMA ReportBegins == ASSUME IInv PROVE Begins(modem, queue, {})
<1>1. modem \in ViewSet /\ queue \in Seq(Message)
  BY DEF IInv, TypeOK, ViewSet, Message
<1>2. ~pdn => queue = <<>>
  BY DEF IInv, Setup
<1>3. \A m \in Machine : \A x \in Range(sm[m].subs) :
        /\ x.inactive => modem[x.h] \in {"releasing", "closed"}
        /\ ~pdn => modem[x.h] # "closed"
  BY DEF IInv, Released, ListedOnce
<1>4. \A h \in Handle : modem[h] = "asked" =>
        \/ \E m \in Machine : \E x \in Range(sm[m].subs) : x.h = h /\ ~x.inactive
        \/ \E x \in Range(queue) : x.h = h
  BY DEF IInv, AskedIsKept
<1> QED BY <1>1, <1>2, <1>3, <1>4 DEF Begins

LEMMA GrantedKeeps ==
  ASSUME IInv, NEW m \in Machine, processAgpsEventGranted(m)
  PROVE  UNCHANGED vars \/ (IInv' /\ CloseWaits)
<1> DEFINE subs == sm[m].subs
           notes == NoteAll("GRANTED", Active(subs))
<1>1. CASE sm[m].state # "PENDING"
  BY <1>1 DEF processAgpsEventGranted
<1>2. CASE sm[m].state = "PENDING"
  <2>1. Finish(m, "ACQUIRED", subs, notes, "none", modem, queue)
    BY <1>2 DEF processAgpsEventGranted
  <2>2. m \in Name
    BY DEF IInv, TypeOK, Name
  <2>3. /\ Old(m) = subs /\ (m = "ds" => pdn)
        /\ subs \in Seq(Subscriber) /\ Fits(pdn, m, "PENDING", Range(subs))
    BY <2>2, <1>2, OldIs
  <2>4. Active(subs) \in Seq(Subscriber) /\ Range(Active(subs)) = {x \in Range(subs) : ~x.inactive}
    BY <2>3, ActiveIs
  <2>5. notes \in Seq(NoteSet) /\ Range(notes) = {Note("GRANTED", x.h) : x \in Range(Active(subs))}
    BY <2>4, NoteAllIs
  <2>6. \A n \in Range(notes) : n.event = "GRANTED" /\ \E x \in Range(subs) : x.h = n.h
    BY <2>4, <2>5 DEF Note
  <2> HIDE DEF subs, notes
  <2>7. Fits(pdn, m, "ACQUIRED", Range(subs))
    BY <2>3 DEF Fits
  <2>8. Typed(m, "ACQUIRED", subs, notes, "none")
    BY <2>2, <2>3, <2>5 DEF Typed, State
  <2>9. Tells(m, subs, notes, {}) /\ Closes(m, "ACQUIRED", notes)
    BY <2>3, <2>6 DEF Tells, Closes
  <2>10. Keeps(m, subs, notes, modem) /\ Serves(subs, notes, modem, {})
    BY <2>3 DEF Keeps, Serves
  <2>11. Begins(modem, queue, {})
    BY ReportBegins
  <2>12. \A x \in Range(subs) : x.inactive => modem[x.h] \in {"releasing", "closed"}
    BY DEF IInv, Released, subs
  <2>13. Correct(m, "ACQUIRED", subs, notes, "none", modem, {})
    BY <2>7, <2>8, <2>9, <2>10, <2>12 DEF Correct
  <2> QED BY <2>1, <2>11, <2>13, FinishInv
<1> QED BY <1>1, <1>2

LEMMA DropAllKeeps ==
  ASSUME IInv, NEW m \in Machine, NEW e \in {"RELEASED", "DENIED"}, DropAll(m, e)
  PROVE  IInv' /\ CloseWaits
<1> DEFINE subs == sm[m].subs
           notes == NoteAll(e, subs)
<1>1. Finish(m, "RELEASED", <<>>, notes, "none", modem, queue)
  BY DEF DropAll
<1>2. m \in Name
  BY DEF IInv, TypeOK, Name
<1>3. Old(m) = subs /\ (m = "ds" => pdn) /\ subs \in Seq(Subscriber)
  BY <1>2, OldIs
<1>4. notes \in Seq(NoteSet) /\ Range(notes) = {Note(e, x.h) : x \in Range(subs)}
  BY <1>3, NoteAllIs
<1>5. /\ \A n \in Range(notes) : \E x \in Range(subs) : x.h = n.h
      /\ \A x \in Range(subs) : \E n \in Range(notes) : n.h = x.h
  <2>1. \A x : Note(e, x.h).h = x.h
    BY DEF Note
  <2> HIDE DEF subs, notes
  <2> QED BY <2>1, <1>4
<1> HIDE DEF subs, notes
<1>6. <<>> \in Seq(Subscriber) /\ Range(<<>>) = {}
  BY EmptySeq, NoNote
<1>7. Fits(pdn, m, "RELEASED", Range(<<>>))
  BY <1>6 DEF Fits
<1>8. Typed(m, "RELEASED", <<>>, notes, "none")
  BY <1>2, <1>3, <1>4, <1>6 DEF Typed, State
<1>9. Tells(m, <<>>, notes, {}) /\ Closes(m, "RELEASED", notes)
  BY <1>3, <1>5, <1>6 DEF Tells, Closes
<1>10. Keeps(m, <<>>, notes, modem) /\ Serves(<<>>, notes, modem, {})
  BY <1>3, <1>5 DEF Keeps, Serves
<1>11. Correct(m, "RELEASED", <<>>, notes, "none", modem, {})
  BY <1>6, <1>7, <1>8, <1>9, <1>10 DEF Correct
<1> QED BY <1>1, <1>11, ReportBegins, FinishInv

LEMMA EndReleaseKeeps ==
  ASSUME IInv, NEW m \in Machine, EndRelease(m)
  PROVE  IInv' /\ CloseWaits
<1> DEFINE all == sm[m].subs
           subs == Active(all)
           closed == NoteAll("RELEASED", Inactive(all))
<1>1. \/ subs = <<>> /\ Finish(m, "RELEASED", subs, closed, "none", modem, queue)
      \/ subs # <<>> /\ \E r \in StartResults(m, subs) :
           Finish(m, "PENDING", subs, closed \o StartNotes(r, subs), r, modem, queue)
  BY DEF EndRelease
<1>2. m \in Name
  BY DEF IInv, TypeOK, Name
<1>3. /\ Old(m) = all /\ (m = "ds" => pdn) /\ all \in Seq(Subscriber)
      /\ Fits(pdn, m, sm[m].state, Range(all))
  BY <1>2, OldIs
<1>4. subs \in Seq(Subscriber) /\ Range(subs) = {x \in Range(all) : ~x.inactive}
  BY <1>3, ActiveIs
<1>5. Inactive(all) \in Seq(Subscriber) /\ Range(Inactive(all)) = {x \in Range(all) : x.inactive}
  BY <1>3, InactiveIs
<1>6. closed \in Seq(NoteSet) /\ Range(closed) = {Note("RELEASED", x.h) : x \in Range(Inactive(all))}
  BY <1>5, NoteAllIs
<1>7. \A n \in Range(closed) : n.event = "RELEASED" /\ \E x \in Range(all) : x.inactive /\ x.h = n.h
  BY <1>5, <1>6 DEF Note
<1>8. subs = <<>> <=> Range(subs) = {}
  BY <1>4, RangeIndex
<1> HIDE DEF all, subs, closed
<1>9. \A x, y \in Range(all) : x.h = y.h => x = y
  BY <1>3 DEF Fits
\* Nobody who stays is told of the close.
<1>10. \A n \in Range(closed) : \A x \in Range(subs) : x.h # n.h
  BY <1>4, <1>7, <1>9
<1>11. \A to \in {"RELEASED", "PENDING"} :
         (to = "RELEASED" => Range(subs) = {}) /\ (to = "PENDING" => Range(subs) # {})
           => Fits(pdn, m, to, Range(subs))
  BY <1>3, <1>4 DEF Fits
<1>12. \A notes, to : to \in {"RELEASED", "PENDING"} => Closes(m, to, notes)
  BY DEF Closes
<1>13. \A notes : Keeps(m, subs, notes, modem) /\ Serves(subs, notes, modem, {})
  BY <1>3, <1>4 DEF Keeps, Serves
<1>14. \A x \in Range(subs) : x.inactive => modem[x.h] \in {"releasing", "closed"}
  BY <1>4
<1>15. Begins(modem, queue, {})
  BY ReportBegins
<1>16. CASE subs = <<>> /\ Finish(m, "RELEASED", subs, closed, "none", modem, queue)
  <2>1. Typed(m, "RELEASED", subs, closed, "none")
    BY <1>2, <1>3, <1>4, <1>6 DEF Typed, State
  <2>2. Tells(m, subs, closed, {})
    BY <1>3, <1>4, <1>7, <1>10 DEF Tells
  <2>3. Fits(pdn, m, "RELEASED", Range(subs))
    BY <1>8, <1>11, <1>16
  <2>4. Correct(m, "RELEASED", subs, closed, "none", modem, {})
    BY <2>1, <2>2, <2>3, <1>12, <1>13, <1>14 DEF Correct
  <2> QED BY <1>15, <1>16, <2>4, FinishInv
<1>17. CASE subs # <<>> /\ \E r \in StartResults(m, subs) :
              Finish(m, "PENDING", subs, closed \o StartNotes(r, subs), r, modem, queue)
  <2>1. PICK r \in StartResults(m, subs) :
          Finish(m, "PENDING", subs, closed \o StartNotes(r, subs), r, modem, queue)
    BY <1>17
  <2> DEFINE more == StartNotes(r, subs)
             notes == closed \o more
  <2>2. /\ r \in Outcome \cup {"none", "nosub"} /\ more \in Seq(NoteSet)
        /\ \A n \in Range(more) :
             m = "ds" /\ n.event = "DENIED" /\ \E x \in Range(subs) : ~x.inactive /\ x.h = n.h
        /\ r = "busy" => m = "ds" /\ (\/ retries + 1 <= MAX_START_DATA_CALL_RETRIES
                                      \/ \E n \in Range(more) : n.event = "DENIED")
    BY <1>2, <1>4, StartIs
  <2>3. Finish(m, "PENDING", subs, notes, r, modem, queue)
    BY <2>1
  <2> HIDE DEF more
  <2>4. notes \in Seq(NoteSet) /\ Range(notes) = Range(closed) \cup Range(more)
    BY <1>6, <2>2, ConcatProperties, RangeConcatenation
  <2> HIDE DEF notes
  <2>5. Typed(m, "PENDING", subs, notes, r)
    BY <1>2, <1>3, <1>4, <2>2, <2>4 DEF Typed, State
  <2>6. Tells(m, subs, notes, {})
    <3>1. \A x \in Range(subs) : \E y \in Range(Old(m)) : y.h = x.h
      BY <1>3, <1>4
    <3>2. \A n \in Range(notes) : \E y \in Range(Old(m)) : y.h = n.h
      BY <1>3, <1>4, <1>7, <2>2, <2>4
    <3>3. ~pdn => \A n \in Range(notes) : \A x \in Range(subs) : x.h # n.h
      BY <1>3, <1>10, <2>2, <2>4
    <3> QED BY <3>1, <3>2, <3>3 DEF Tells
  <2>7. Fits(pdn, m, "PENDING", Range(subs))
    BY <1>8, <1>11, <1>17
  <2>8. Correct(m, "PENDING", subs, notes, r, modem, {})
    BY <2>5, <2>6, <2>7, <1>12, <1>13, <1>14 DEF Correct
  <2> QED BY <1>15, <2>3, <2>8, FinishInv
<1> QED BY <1>1, <1>16, <1>17

-----------------------------------------------------------------------------
(* The manager. *)

\* No machine changes: the handles listed stay listed once.
LEMMA ListedOnceKept ==
  ASSUME pdn' = pdn, sm' = sm,
         ~pdn => \A m \in Machine : \A x \in Range(sm[m].subs) :
                   /\ modem'[x.h] # "closed"
                   /\ \A n \in Machine \ {m} : \A y \in Range(sm[n].subs) : y.h # x.h
  PROVE  ListedOnce'
<1>1. CASE pdn
  BY <1>1, Zenon DEF ListedOnce
<1>2. CASE ~pdn
  <2>1. \A m \in Machine' : \A x \in Range(sm'[m].subs) :
          /\ modem'[x.h] # "closed"
          /\ \A n \in Machine' \ {m} : \A y \in Range(sm'[n].subs) : y.h # x.h
    BY <1>2 DEF Machine
  <2> QED BY <2>1, Zenon DEF ListedOnce
<1> QED BY <1>1, <1>2

\* A refusal changes nothing but the modem's view of a handle.
LEMMA RefusalKeeps ==
  ASSUME IInv, NEW view, NEW q, NEW new, Begins(view, q, new),
         NEW t \in [cb : {"open", "close"}, h : Handle, ok : BOOLEAN, m : {"none"}],
         new \subseteq {t.h}, \A m \in Machine : \A x \in Range(sm[m].subs) : ~pdn => x.h # t.h,
         told' = {t}, modem' = ModemAfter(view, {t}), queue' = q, call' = "none",
         UNCHANGED <<pdn, sm, retries, timers>>
  PROVE  IInv' /\ CloseWaits
<1>1. pdn' = pdn /\ sm' = sm /\ retries' = retries /\ timers' = timers /\ Machine' = Machine
  BY DEF Machine
<1>2. view \in ViewSet /\ q \in Seq(Message)
  BY DEF Begins
<1>3. /\ modem' \in ViewSet
      /\ \A h \in Handle : h # t.h => modem'[h] = view[h]
      /\ \A h \in Handle : view[h] \in {"releasing", "closed"} => modem'[h] \in {"releasing", "closed"}
  BY <1>2, ViewAfter
<1>4. /\ modem'[t.h] # "asked"
      /\ \A h \in Handle : modem'[h] = "idle" => view[h] = "idle"
  BY <1>2, ViewAfter
<1>5. \A m \in Machine : \A x \in Range(sm[m].subs) : x.h \in Handle
  <2>1. \A m \in Machine : sm[m].subs \in Seq(Subscriber)
    BY DEF IInv, TypeOK
  <2> QED BY <2>1, ListFacts DEF Subscriber
<1>6. TypeOK'
  <2>1. (Machine \subseteq {"agnss", "internet", "ds"})' /\ pdn' \in BOOLEAN
    BY <1>1, Zenon DEF IInv, TypeOK
  <2>2. (sm \in [Machine -> [state : State, subs : Seq(Subscriber)]])'
    BY <1>1 DEF IInv, TypeOK
  <2>3. retries' \in 0..MAX_START_DATA_CALL_RETRIES /\ timers' \in 0..MaxTimers
    BY <1>1 DEF IInv, TypeOK
  <2>4. t \in [cb : {"open", "close"}, h : Handle, ok : BOOLEAN, m : Machine' \cup {"none"}]
    OBVIOUS
  <2>5. queue' \in Seq(Message) /\ modem' \in ViewSet
    BY <1>2, <1>3
  <2> QED BY <2>1, <2>2, <2>3, <2>4, <2>5 DEF TypeOK, Message, ViewSet
<1>7. Lists' /\ Setup'
  <2>1. Lists /\ Setup /\ (~pdn => q = <<>>)
    BY DEF IInv, Begins
  <2>2. Lists'
    BY <2>1, <1>1 DEF Lists
  <2>3. Setup'
    BY <2>1, <1>1 DEF Setup
  <2> QED BY <2>2, <2>3
<1>8. Released'
  <2>1. \A m \in Machine : \A x \in Range(sm[m].subs) :
          x.inactive => view[x.h] \in {"releasing", "closed"}
    BY DEF Begins
  <2> QED BY <2>1, <1>1, <1>3, <1>5 DEF Released
<1>9. IdleUnknown'
  <2>1. \A h \in Handle : view[h] = "idle" => modem[h] = "idle"
    BY DEF Begins
  <2>2. Range(q) \subseteq Range(queue) /\ IdleUnknown
    BY DEF Begins, IInv
  <2> SUFFICES ASSUME NEW h \in Handle, modem'[h] = "idle"
               PROVE  /\ \A m \in Machine : \A x \in Range(sm[m].subs) : x.h # h
                      /\ \A x \in Range(q) : x.h # h
    BY <1>1 DEF IdleUnknown
  <2> QED BY <2>1, <2>2, <1>4 DEF IdleUnknown
<1>10. ListedOnce'
  <2>1. ~pdn => \A m \in Machine : \A x \in Range(sm[m].subs) : view[x.h] # "closed"
    BY DEF Begins
  <2>2. ~pdn => \A m \in Machine : \A x \in Range(sm[m].subs) : modem'[x.h] # "closed"
    BY <2>1, <1>3, <1>5
  <2>3. ~pdn => \A m \in Machine : \A x \in Range(sm[m].subs) :
                  \A n \in Machine \ {m} : \A y \in Range(sm[n].subs) : y.h # x.h
    BY DEF IInv, ListedOnce
  <2>4. ~pdn => \A m \in Machine : \A x \in Range(sm[m].subs) :
                  /\ modem'[x.h] # "closed"
                  /\ \A n \in Machine \ {m} : \A y \in Range(sm[n].subs) : y.h # x.h
    BY <2>2, <2>3
  <2>5. pdn' = pdn /\ sm' = sm
    BY <1>1
  <2> QED BY <2>4, <2>5, ListedOnceKept
<1>11. AskedIsKept'
  <2>1. \A h \in Handle : view[h] = "asked" =>
          \/ \E m \in Machine : \E x \in Range(sm[m].subs) : x.h = h /\ ~x.inactive
          \/ \E x \in Range(q) : x.h = h
          \/ h \in new
    BY DEF Begins
  <2> QED BY <2>1, <1>1, <1>3, <1>4 DEF AskedIsKept
<1>12. CloseWaits
  <2>1. "none" \notin Machine
    BY DEF IInv, TypeOK
  <2> QED BY <2>1 DEF CloseWaits
<1> QED BY <1>6, <1>7, <1>8, <1>9, <1>10, <1>11, <1>12 DEF IInv

LEMMA requestATLKeeps ==
  ASSUME IInv, NEW h \in Handle, NEW type \in {"SUPL", "SUPL_ES", "WWAN"}, NEW view, NEW q,
         Begins(view, q, {h}), requestATL(h, type, view, q),
         ~pdn => \A m \in Machine : \A x \in Range(sm[m].subs) : x.h # h
  PROVE  IInv' /\ CloseWaits
<1> DEFINE m == getAgpsStateMachine(type)
           s == [h |-> h, wait |-> type = "SUPL_ES", inactive |-> FALSE]
           t == [cb |-> "open", h |-> h, ok |-> FALSE, m |-> "none"]
<1>1. m \in Name /\ (m = "ds" => pdn) /\ (pdn /\ m # "ds" => type # "SUPL_ES")
  BY DEF getAgpsStateMachine, Name
<1>2. s \in Subscriber /\ s.h = h /\ ~s.inactive /\ (type # "SUPL_ES" => ~s.wait)
  BY DEF Subscriber
<1>3. \/ processAgpsEventSubscribe(m, s, view, q)
      \/ /\ told' = {t} /\ modem' = ModemAfter(view, {t})
         /\ queue' = q /\ call' = "none" /\ UNCHANGED <<pdn, sm, retries, timers>>
  BY DEF requestATL
<1>4. t \in [cb : {"open", "close"}, h : Handle, ok : BOOLEAN, m : {"none"}] /\ t.h = h
  OBVIOUS
<1> HIDE DEF m, s, t
<1>5. CASE processAgpsEventSubscribe(m, s, view, q)
  BY <1>1, <1>2, <1>5, SubscribeKeeps
<1>6. CASE /\ told' = {t} /\ modem' = ModemAfter(view, {t})
           /\ queue' = q /\ call' = "none" /\ UNCHANGED <<pdn, sm, retries, timers>>
  BY <1>4, <1>6, RefusalKeeps
<1> QED BY <1>3, <1>5, <1>6

LEMMA RequestKeeps ==
  ASSUME IInv, NEW h \in Handle, NEW type \in Type, RequestATL(h, type)
  PROVE  IInv' /\ CloseWaits
<1> DEFINE view == [modem EXCEPT ![h] = "asked"]
<1>1. modem \in ViewSet
  BY DEF IInv, TypeOK, ViewSet
<1>2. /\ view \in ViewSet /\ view[h] = "asked"
      /\ \A k \in Handle : k # h => view[k] = modem[k]
  BY <1>1 DEF ViewSet
<1>3. modem[h] = "idle" \/ (~pdn /\ modem[h] = "closed")
  BY DEF RequestATL
<1>4. \A m \in Machine : \A x \in Range(sm[m].subs) : x.h # h
  BY <1>3 DEF IInv, IdleUnknown, ListedOnce
<1>5. \A m \in Machine : \A x \in Range(sm[m].subs) : x.h \in Handle
  <2>1. \A m \in Machine : sm[m].subs \in Seq(Subscriber)
    BY DEF IInv, TypeOK
  <2> QED BY <2>1, ListFacts DEF Subscriber
<1>6. Begins(modem, queue, {})
  BY ReportBegins
<1>7. requestATL(h, type, view, queue) /\ type \in {"SUPL", "SUPL_ES", "WWAN"}
  BY AgpsAssumption DEF RequestATL
<1> HIDE DEF view
<1>8. Begins(view, queue, {h})
  BY <1>2, <1>4, <1>5, <1>6 DEF Begins
<1> QED BY <1>4, <1>7, <1>8, requestATLKeeps

LEMMA ProcessKeeps == ASSUME IInv, ProcessMsg PROVE IInv' /\ CloseWaits
<1> DEFINE a == Head(queue)
<1>1. queue # <<>> /\ requestATL(a.h, a.type, modem, Tail(queue))
  BY DEF ProcessMsg
<1>2. queue \in Seq(Message)
  BY DEF IInv, TypeOK, Message
<1>3. /\ a \in Message /\ Tail(queue) \in Seq(Message)
      /\ Range(queue) = Range(Tail(queue)) \cup {a}
  BY <1>1, <1>2, RangeHeadTail
<1>4. pdn
  BY <1>1 DEF IInv, Setup
<1>5. Begins(modem, queue, {})
  BY ReportBegins
<1>6. modem[a.h] # "idle"
  <2>1. a.h \in Handle /\ a \in Range(queue)
    BY <1>3 DEF Message
  <2> QED BY <2>1 DEF IInv, IdleUnknown
<1>7. a.h \in Handle /\ a.type \in {"SUPL", "SUPL_ES", "WWAN"}
  BY <1>3 DEF Message
<1> HIDE DEF a
<1>8. Begins(modem, Tail(queue), {a.h})
  BY <1>3, <1>4, <1>5, <1>6, <1>7 DEF Begins
<1> QED BY <1>1, <1>4, <1>7, <1>8, requestATLKeeps

LEMMA FirstHolderIs ==
  ASSUME IInv, NEW h, Holders(h) # {}
  PROVE  FirstHolder(h) \in Holders(h)
<1> DEFINE P(i) == /\ SearchOrder[i] \in Holders(h)
                   /\ \A j \in 1..(i - 1) : SearchOrder[j] \notin Holders(h)
<1>1. SearchOrder[1] = "agnss" /\ SearchOrder[2] = "internet" /\ SearchOrder[3] = "ds"
  BY DEF SearchOrder
<1>2. Holders(h) \subseteq {"agnss", "internet", "ds"}
  BY DEF Holders, IInv, TypeOK
<1>3. \E i \in 1..3 : P(i)
  <2>1. 1..0 = {} /\ 1..1 = {1} /\ 1..2 = {1, 2}
    OBVIOUS
  <2>2. "agnss" \in Holders(h) => P(1)
    BY <1>1, <2>1
  <2>3. "agnss" \notin Holders(h) /\ "internet" \in Holders(h) => P(2)
    BY <1>1, <2>1
  <2>4. "agnss" \notin Holders(h) /\ "internet" \notin Holders(h) => P(3)
    BY <1>1, <1>2, <2>1
  <2> HIDE DEF P
  <2> QED BY <2>2, <2>3, <2>4
<1>4. FirstHolder(h) = SearchOrder[CHOOSE i \in 1..3 : P(i)]
  BY DEF FirstHolder
<1>5. P(CHOOSE i \in 1..3 : P(i))
  BY <1>3
<1> QED BY <1>4, <1>5

LEMMA ReleaseKeeps == ASSUME IInv, NEW h \in Handle, ReleaseATL(h) PROVE IInv' /\ CloseWaits
<1> DEFINE view == [modem EXCEPT ![h] = "releasing"]
           t == [cb |-> "close", h |-> h, ok |-> FALSE, m |-> "none"]
           m == FirstHolder(h)
           subs == sm[m].subs
           s == subs[CHOOSE i \in DOMAIN subs : subs[i].h = h]
<1>1. modem \in ViewSet /\ modem[h] \in {"asked", "open"}
  BY DEF IInv, TypeOK, ViewSet, ReleaseATL
<1>2. /\ view \in ViewSet /\ view[h] = "releasing"
      /\ \A k \in Handle : k # h => view[k] = modem[k]
  BY <1>1 DEF ViewSet
<1>3. \A n \in Machine : \A x \in Range(sm[n].subs) : x.h \in Handle
  <2>1. \A n \in Machine : sm[n].subs \in Seq(Subscriber)
    BY DEF IInv, TypeOK
  <2> QED BY <2>1, ListFacts DEF Subscriber
<1>4. Begins(modem, queue, {})
  BY ReportBegins
<1>5. releaseATL(h, view)
  BY DEF ReleaseATL
<1> HIDE DEF view
<1>6. Begins(view, queue, {})
  BY <1>2, <1>3, <1>4 DEF Begins
<1>7. CASE Holders(h) = {}
  <2>1. /\ told' = {t} /\ modem' = ModemAfter(view, {t}) /\ call' = "none"
        /\ UNCHANGED <<pdn, sm, retries, timers, queue>>
    BY <1>5, <1>7 DEF releaseATL
  <2>2. \A n \in Machine : \A x \in Range(sm[n].subs) : x.h # h
    <3>1. \A n \in Machine : sm[n].subs \in Seq(Subscriber)
      BY DEF IInv, TypeOK
    <3> QED BY <3>1, <1>7, ListFacts DEF Holders
  <2>3. t \in [cb : {"open", "close"}, h : Handle, ok : BOOLEAN, m : {"none"}] /\ t.h = h
    OBVIOUS
  <2> HIDE DEF t
  <2> QED BY <1>6, <2>1, <2>2, <2>3, RefusalKeeps
<1>8. CASE Holders(h) # {}
  <2>1. m \in Machine /\ h \in Handles(subs)
    BY <1>8, FirstHolderIs DEF Holders
  <2>2. processAgpsEventUnsubscribe(m, s, view)
    BY <1>5, <1>8 DEF releaseATL
  <2>3. s \in Range(subs) /\ s.h = h
    <3>1. \E i \in DOMAIN subs : subs[i].h = h
      BY <2>1 DEF Handles
    <3> QED BY <3>1 DEF Range
  <2> HIDE DEF s, m
  <2> QED BY <1>2, <1>6, <2>1, <2>2, <2>3, UnsubscribeKeeps
<1> QED BY <1>7, <1>8

LEMMA TimerKeeps == ASSUME IInv, retryCallback PROVE IInv' /\ CloseWaits
<1> DEFINE active == Active(sm["ds"].subs)
           a == [h |-> active[1].h, type |-> "SUPL_ES"]
<1>1. /\ timers > 0 /\ timers' = timers - 1 /\ call' = "none" /\ told' = {}
      /\ queue' = IF active = <<>> THEN queue ELSE Append(queue, a)
      /\ pdn' = pdn /\ sm' = sm /\ retries' = retries /\ modem' = modem /\ Machine' = Machine
  BY DEF retryCallback, Machine
<1>2. "ds" \in Machine /\ pdn /\ queue \in Seq(Message)
  BY <1>1 DEF IInv, Setup, TypeOK, Message
<1>3. active \in Seq(Subscriber) /\ Range(active) = {x \in Range(sm["ds"].subs) : ~x.inactive}
  <2>1. sm["ds"].subs \in Seq(Subscriber)
    BY <1>2 DEF IInv, TypeOK
  <2> QED BY <2>1, ActiveIs
<1> HIDE DEF active
<1>4. active # <<>> => active[1] \in Range(active) /\ active[1] \in Subscriber
  <2>1. active # <<>> => 1 \in DOMAIN active
    BY <1>3, EmptySeq, LenProperties
  <2> QED BY <2>1, <1>3, RangeIndex
<1>5. active # <<>> => a \in Message
  BY <1>4 DEF Subscriber, Message
<1> HIDE DEF a
<1>6. \/ queue' = queue
      \/ active # <<>> /\ queue' \in Seq(Message) /\ Range(queue') = Range(queue) \cup {a}
  BY <1>1, <1>2, <1>5, RangeAppend
<1>7. queue' \in Seq(Message) /\ Range(queue) \subseteq Range(queue')
  BY <1>2, <1>6
<1>8. TypeOK'
  <2>1. (Machine \subseteq {"agnss", "internet", "ds"})' /\ pdn' \in BOOLEAN
    BY <1>1, Zenon DEF IInv, TypeOK
  <2>2. (sm \in [Machine -> [state : State, subs : Seq(Subscriber)]])'
    BY <1>1 DEF IInv, TypeOK
  <2>3. retries' \in 0..MAX_START_DATA_CALL_RETRIES /\ timers' \in 0..MaxTimers
    BY <1>1, AgpsAssumption DEF IInv, TypeOK
  <2>4. modem' \in ViewSet
    BY <1>1 DEF IInv, TypeOK, ViewSet
  <2> QED BY <2>1, <2>2, <2>3, <2>4, <1>1, <1>7 DEF TypeOK, Message, ViewSet
<1>9. Lists'
  BY <1>1 DEF IInv, Lists
<1>10. Setup'
  BY <1>1, <1>2 DEF Setup
<1>11. Released' /\ ListedOnce'
  <2>1. Released /\ ListedOnce
    BY DEF IInv
  <2>2. Released'
    BY <2>1, <1>1 DEF Released
  <2>3. ListedOnce'
    BY <1>1, <1>2 DEF ListedOnce
  <2> QED BY <2>2, <2>3
<1>12. IdleUnknown'
  <2> SUFFICES ASSUME NEW h \in Handle, modem[h] = "idle"
               PROVE  /\ \A m \in Machine : \A x \in Range(sm[m].subs) : x.h # h
                      /\ \A x \in Range(queue') : x.h # h
    BY <1>1 DEF IdleUnknown
  <2>1. /\ \A m \in Machine : \A x \in Range(sm[m].subs) : x.h # h
        /\ \A x \in Range(queue) : x.h # h
    BY DEF IInv, IdleUnknown
  <2>2. active # <<>> => a.h # h
    BY <2>1, <1>2, <1>3, <1>4 DEF a
  <2> QED BY <2>1, <2>2, <1>6
<1>13. AskedIsKept'
  <2>1. AskedIsKept
    BY DEF IInv
  <2> QED BY <2>1, <1>1, <1>7 DEF AskedIsKept
<1>14. CloseWaits
  BY <1>1 DEF CloseWaits
<1> QED BY <1>8, <1>9, <1>10, <1>11, <1>12, <1>13, <1>14 DEF IInv

LEMMA ReleasedKeeps ==
  ASSUME IInv, NEW m \in Machine, processAgpsEventReleased(m)
  PROVE  UNCHANGED vars \/ (IInv' /\ CloseWaits)
BY DropAllKeeps, EndReleaseKeeps DEF processAgpsEventReleased

LEMMA DeniedKeeps ==
  ASSUME IInv, NEW m \in Machine, processAgpsEventDenied(m)
  PROVE  UNCHANGED vars \/ (IInv' /\ CloseWaits)
BY DropAllKeeps, EndReleaseKeeps DEF processAgpsEventDenied

-----------------------------------------------------------------------------
(* Theorems. *)

LEMMA InitInv == Init => IInv
<1> SUFFICES ASSUME Init PROVE IInv
  OBVIOUS
<1>1. PICK created \in {{"internet"}, {"internet", "agnss"}}
                       \cup (IF pdn THEN {{"internet", "agnss", "ds"}} ELSE {}) :
        sm = [m \in created |-> Fresh]
  BY DEF Init
<1>2. /\ Machine = created /\ created \subseteq Name /\ (~pdn => "ds" \notin Machine)
      /\ \A m \in Machine : sm[m] = Fresh /\ sm[m].state = "RELEASED" /\ sm[m].subs = <<>>
  BY <1>1 DEF Machine, Name, Fresh
<1>3. Fresh \in [state : State, subs : Seq(Subscriber)]
  BY EmptySeq DEF Fresh, State
<1>4. /\ retries = 0 /\ timers = 0 /\ queue = <<>> /\ call = "none" /\ told = {}
      /\ modem = [h \in Handle |-> "idle"]
  BY DEF Init
<1>5. pdn \in BOOLEAN
  BY Zenon DEF Init
<1>6. TypeOK
  <2>1. sm \in [Machine -> [state : State, subs : Seq(Subscriber)]]
    BY <1>1, <1>2, <1>3
  <2>2. retries \in 0..MAX_START_DATA_CALL_RETRIES /\ timers \in 0..MaxTimers
    BY <1>4, AgpsAssumption
  <2>3. queue \in Seq(Message) /\ modem \in ViewSet
    BY <1>4, EmptySeq DEF ViewSet
  <2> QED BY <2>1, <2>2, <2>3, <1>2, <1>4, <1>5 DEF TypeOK, Message, ViewSet, Name
<1>7. \A m \in Machine : Range(sm[m].subs) = {}
  BY <1>2, NoNote
<1>8. Range(queue) = {}
  BY <1>4, NoNote
<1>9. Lists
  BY <1>2, <1>7 DEF Lists, Fits
<1>10. Setup
  BY <1>2, <1>4 DEF Setup
<1>11. Released /\ IdleUnknown /\ ListedOnce
  BY <1>7, <1>8 DEF Released, IdleUnknown, ListedOnce
<1>12. AskedIsKept
  BY <1>4 DEF AskedIsKept
<1> QED BY <1>6, <1>9, <1>10, <1>11, <1>12 DEF IInv

LEMMA NextInv == IInv /\ Next => UNCHANGED vars \/ (IInv' /\ CloseWaits)
<1> SUFFICES ASSUME IInv, Next PROVE UNCHANGED vars \/ (IInv' /\ CloseWaits)
  OBVIOUS
<1>1. CASE \E h \in Handle, type \in Type : RequestATL(h, type)
  BY <1>1, RequestKeeps
<1>2. CASE \E h \in Handle : ReleaseATL(h)
  BY <1>2, ReleaseKeeps
<1>3. CASE ProcessMsg
  BY <1>3, ProcessKeeps
<1>4. CASE \E m \in Machine : reportAtlOpenSuccess(m) \/ reportAtlOpenFailed(m) \/ reportAtlClosed(m)
  BY <1>4, GrantedKeeps, DeniedKeeps, ReleasedKeeps
     DEF reportAtlOpenSuccess, reportAtlOpenFailed, reportAtlClosed
<1>5. CASE reportDataCallOpened
  BY <1>5, GrantedKeeps DEF reportDataCallOpened
<1>6. CASE reportDataCallClosed
  BY <1>6, DeniedKeeps, ReleasedKeeps DEF reportDataCallClosed
<1>7. CASE retryCallback
  BY <1>7, TimerKeeps
<1> QED BY <1>1, <1>2, <1>3, <1>4, <1>5, <1>6, <1>7 DEF Next

LEMMA StutterInv == IInv /\ UNCHANGED vars => IInv'
<1> SUFFICES ASSUME IInv, UNCHANGED vars PROVE IInv'
  OBVIOUS
<1>1. /\ pdn' = pdn /\ sm' = sm /\ retries' = retries /\ timers' = timers /\ queue' = queue
      /\ call' = call /\ told' = told /\ modem' = modem /\ Machine' = Machine
  BY DEF vars, Machine
<1>2. TypeOK'
  BY <1>1, Zenon DEF IInv, TypeOK
<1>3. Lists' /\ Setup'
  BY <1>1 DEF IInv, Lists, Setup
<1>4. Released'
  BY <1>1 DEF IInv, Released
<1>5. IdleUnknown'
  BY <1>1 DEF IInv, IdleUnknown
<1>6. ListedOnce'
  <2>1. CASE pdn
    BY <2>1, <1>1, Zenon DEF ListedOnce
  <2>2. CASE ~pdn
    <3>1. \A m \in Machine : \A x \in Range(sm[m].subs) :
            /\ modem[x.h] # "closed"
            /\ \A n \in Machine \ {m} : \A y \in Range(sm[n].subs) : y.h # x.h
      BY <2>2, Zenon DEF IInv, ListedOnce
    <3>2. \A m \in Machine' : \A x \in Range(sm'[m].subs) :
            /\ modem'[x.h] # "closed"
            /\ \A n \in Machine' \ {m} : \A y \in Range(sm'[n].subs) : y.h # x.h
      BY <3>1, <1>1
    <3> QED BY <3>2, Zenon DEF ListedOnce
  <2> QED BY <2>1, <2>2
<1>7. AskedIsKept'
  BY <1>1 DEF IInv, AskedIsKept
<1> QED BY <1>2, <1>3, <1>4, <1>5, <1>6, <1>7 DEF IInv

THEOREM Invariant == Spec => []IInv
<1>1. IInv /\ [Next]_vars => IInv'
  BY NextInv, StutterInv
<1> QED BY InitInv, <1>1, PTL DEF Spec

\* Type correctness of the machines, the manager and the modem's view.
THEOREM TypeCorrect == Spec => []TypeOK
<1>1. IInv => TypeOK
  BY DEF IInv
<1> QED BY Invariant, <1>1, PTL

\* A connection is asked for, held and released for the subscribers it has
\* (AgpsStateMachine, the subscriber list and the state).
THEOREM ConnectionsMatch == Spec => []ConnectionMatchesSubscribers
<1>1. IInv => ConnectionMatchesSubscribers
  <2> SUFFICES ASSUME IInv, NEW m \in Machine
               PROVE  /\ sm[m].state \in {"PENDING", "ACQUIRED"} => anyActiveSubscribers(sm[m].subs)
                      /\ sm[m].state = "RELEASING" => Inactive(sm[m].subs) # <<>>
                      /\ m \in Framework /\ sm[m].state = "RELEASED" => sm[m].subs = <<>>
    BY DEF ConnectionMatchesSubscribers
  <2>1. sm[m].subs \in Seq(Subscriber) /\ Fits(pdn, m, sm[m].state, Range(sm[m].subs))
    BY DEF IInv, TypeOK, Lists
  <2>2. Range(Inactive(sm[m].subs)) = {x \in Range(sm[m].subs) : x.inactive}
    BY <2>1, InactiveIs
  <2>3. anyActiveSubscribers(sm[m].subs) <=> \E x \in Range(sm[m].subs) : ~x.inactive
    BY <2>1, ListFacts
  <2>4. sm[m].subs = <<>> <=> Range(sm[m].subs) = {}
    BY <2>1, ListFacts
  <2>5. Inactive(sm[m].subs) = <<>> => Range(Inactive(sm[m].subs)) = {}
    BY NoNote
  <2> QED BY <2>1, <2>2, <2>3, <2>4, <2>5 DEF Fits, Framework
<1> QED BY Invariant, <1>1, PTL

\* No request is dropped silently: a handle the modem asked for is an active
\* subscriber or its message is under way (DSStateMachine falls back and
\* retries through the adapter's queue).
THEOREM NoRequestIsLost == Spec => []RequestNotLost
<1>1. IInv => RequestNotLost
  <2> SUFFICES ASSUME IInv, NEW h \in Handle, modem[h] = "asked"
               PROVE  \/ \E m \in Machine : h \in ActiveHandles(sm[m].subs)
                      \/ \E i \in DOMAIN queue : queue[i].h = h
    BY DEF RequestNotLost
  <2>1. \/ \E m \in Machine : \E x \in Range(sm[m].subs) : x.h = h /\ ~x.inactive
        \/ \E x \in Range(queue) : x.h = h
    BY DEF IInv, AskedIsKept
  <2>2. \A m \in Machine : ActiveHandles(sm[m].subs)
          = {x.h : x \in {y \in Range(sm[m].subs) : ~y.inactive}}
    BY ListFacts DEF IInv, TypeOK
  <2> QED BY <2>1, <2>2 DEF Range
<1> QED BY Invariant, <1>1, PTL

\* An emergency subscriber is told of the close only when its connection is
\* neither held nor being released (processAgpsEventUnsubscribe keeps it).
THEOREM EmergencyWaits == Spec => EmergencyCloseWaits
<1>1. IInv /\ [Next]_vars => [CloseWaits]_vars
  BY NextInv
<1>2. EmergencyCloseWaits <=> [][CloseWaits]_vars
  BY DEF EmergencyCloseWaits, CloseWaits
<1> QED BY Invariant, <1>1, <1>2, PTL DEF Spec

=============================================================================
