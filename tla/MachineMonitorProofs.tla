------------------------ MODULE MachineMonitorProofs ------------------------
(***************************************************************************)
(* The safety properties of MachineMonitor hold for every set of machines, *)
(* topic lists, configurations, messages and bounds.                       *)
(*                                                                         *)
(* Types and the receive loop go together: that a subscription stays       *)
(* within MaxSessions rests on there being one receive operation, so that  *)
(* no second session expiry is queued behind the first (ExpiryBound).  The *)
(* watchdog invariants then need only types; those on a machine shown as   *)
(* offline and on retired watchdogs also need that the watchdogs were made *)
(* in this session from one topic list (Subscribed).                       *)
(***************************************************************************)
EXTENDS MachineMonitor, WellFoundedInduction, TLAPS

-----------------------------------------------------------------------------
(* Every non-empty set of numbers has a least element.                     *)

NatLess == OpToRel(<, Nat)

LEMMA NatLessIs == \A x, y \in Nat : x < y => <<x, y>> \in NatLess
BY DEF NatLess, OpToRel

LEMMA NatLessWellFounded == IsWellFoundedOn(NatLess, Nat)
BY NatLessThanWellFounded DEF NatLess

LEMMA LeastExists ==
  ASSUME NEW T, T \subseteq Nat, T # {}
  PROVE  \E x \in T : \A y \in T : x <= y
<1>1. PICK x \in T : \A y \in T : ~ (<<y, x>> \in NatLess)
  BY NatLessWellFounded, WFMin
<1>2. ASSUME NEW y \in T PROVE x <= y
  <2>1. x \in Nat /\ y \in Nat
    OBVIOUS
  <2>2. ~ (<<y, x>> \in NatLess)
    BY <1>1
  <2>3. ~ (y < x)
    BY <2>1, <2>2, NatLessIs, Zenon
  <2> QED
    BY <2>1, <2>3
<1> QED
  BY <1>2

-----------------------------------------------------------------------------
(* The queue.                                                              *)

LEMMA AppendedQueue ==
  ASSUME NEW S, NEW q \in Seq(S), NEW e \in S
  PROVE  /\ Append(q, e) \in Seq(S)
         /\ DOMAIN Append(q, e) = 1..(Len(q) + 1) /\ DOMAIN q = 1..Len(q) /\ Len(q) \in Nat
         /\ \A i \in DOMAIN q : Append(q, e)[i] = q[i]
         /\ Append(q, e)[Len(q) + 1] = e
OBVIOUS

LEMMA TakenQueue ==
  ASSUME NEW S, NEW q \in Seq(S), q # <<>>
  PROVE  /\ Tail(q) \in Seq(S) /\ Head(q) \in S
         /\ Head(q) = q[1] /\ 1 \in DOMAIN q
         /\ \A i \in DOMAIN Tail(q) : i + 1 \in DOMAIN q /\ Tail(q)[i] = q[i + 1] /\ i \in Nat \ {0}
         /\ \A i \in DOMAIN q : i # 1 => i - 1 \in DOMAIN Tail(q) /\ Tail(q)[i - 1] = q[i]
OBVIOUS

(* What a queued operation carries, by the handler it runs.                *)
LEMMA HandlerShape ==
  ASSUME NEW h \in Handlers
  PROVE  /\ h.h = "timeout" => h.w \in Watchdog
         /\ h.h = "message" => h.m \in Messages
         /\ h.h = "error" => h.expired \in BOOLEAN
BY DEF Handlers

LEMMA HandlerMade ==
  /\ \A w \in Watchdog : [h |-> "timeout", w |-> w] \in Handlers
  /\ \A m \in Messages : [h |-> "message", m |-> m] \in Handlers
  /\ \A e \in BOOLEAN : [h |-> "error", expired |-> e] \in Handlers
  /\ [h |-> "retry"] \in Handlers
BY DEF Handlers

-----------------------------------------------------------------------------
(* Watchdogs.                                                              *)

LEMMA WatchdogListIs ==
  ASSUME NEW ws \in WatchdogLists
  PROVE  /\ DOMAIN ws \subseteq 1..MaxTopics
         /\ \A i \in DOMAIN ws : ws[i] \in Watchdog
         /\ Objects(ws) \subseteq Watchdog
BY DEF WatchdogLists, Objects

LEMMA NewWatchdogsType ==
  ASSUME NEW t \in TopicLists, NEW s \in 0..MaxSessions
  PROVE  NewWatchdogs(t, s) \in WatchdogLists
<1>1. /\ t \in Seq(Ids \cup {Malformed}) /\ Len(t) <= MaxTopics /\ MaxTopics \in Nat
      /\ Malformed \notin Ids
  BY ConstantsAssumption
<1>2. CreatedFor(t) \subseteq 1..MaxTopics
  BY <1>1 DEF CreatedFor
<1>3. \A i \in CreatedFor(t) : t[i] \in Ids
  BY <1>1 DEF CreatedFor
<1>4. \A i \in CreatedFor(t) : [session |-> s, slot |-> i, id |-> t[i]] \in Watchdog
  BY <1>2, <1>3 DEF Watchdog
<1>5. NewWatchdogs(t, s) \in [CreatedFor(t) -> Watchdog]
  BY <1>4 DEF NewWatchdogs
<1> QED
  BY <1>2, <1>5 DEF WatchdogLists

(* The linear search finds a watchdog of the session, of that machine.     *)
LEMMA WatchdogOfIs ==
  ASSUME watchdogs \in WatchdogLists, NEW id, Watched(id)
  PROVE  /\ WatchdogOf(id) \in Watchdog /\ WatchdogOf(id) \in Objects(watchdogs)
         /\ WatchdogOf(id).id = id
<1> DEFINE T == {i \in DOMAIN watchdogs : watchdogs[i].id = id}
<1>1. DOMAIN watchdogs \subseteq Nat
  BY WatchdogListIs, ConstantsAssumption
<1>2. T \subseteq Nat /\ T # {}
  BY <1>1 DEF Watched
<1>3. PICK i \in T : \A j \in T : i <= j
  <2> HIDE DEF T
  <2> QED BY <1>2, LeastExists
<1> DEFINE First(k) == /\ watchdogs[k].id = id
                       /\ \A j \in DOMAIN watchdogs : j < k => watchdogs[j].id # id
<1>4. i \in DOMAIN watchdogs /\ First(i)
  BY <1>1, <1>3
<1>5. WatchdogOf(id) = watchdogs[CHOOSE k \in DOMAIN watchdogs : First(k)]
  BY DEF WatchdogOf
<1>6. \E k \in DOMAIN watchdogs : First(k) /\ WatchdogOf(id) = watchdogs[k]
  <2> HIDE DEF First
  <2> QED BY <1>4, <1>5
<1> QED
  BY <1>6, WatchdogListIs DEF Objects

-----------------------------------------------------------------------------
(* Alerts.                                                                 *)

LEMMA LogicType == logic \in LogicConfigs =>
  /\ logic.name \in [Ids -> Names] /\ logic.timeout_limit \in Nat
BY ConstantsAssumption DEF Logic

LEMMA EventType ==
  ASSUME logic \in LogicConfigs, NEW id \in Ids, NEW state \in AlertStates
  PROVE  Event(state, id) \in Alert /\ Event(state, id).name \in Names
BY LogicType DEF Event, Alert

LEMMA ReportType ==
  ASSUME logic \in LogicConfigs, NEW w \in Watchdog, NEW state \in AlertStates
  PROVE  Report(state, w) \in Alert /\ Report(state, w).name \in Names
<1>1. w.id \in Ids
  BY DEF Watchdog
<1> QED
  BY <1>1, LogicType DEF Report, Alert

LEMMA PushType ==
  ASSUME NEW x \in Alert
  PROVE  Push(x) \in Seq(Alert)
<1>1. <<>> \in Seq(Alert) /\ <<x>> \in Seq(Alert)
  OBVIOUS
<1> QED
  BY <1>1, Zenon DEF Push

LEMMA RememberType ==
  ASSUME alertMap \in [Names -> Alert \cup {None}], NEW x \in Alert, Remember(x)
  PROVE  alertMap' \in [Names -> Alert \cup {None}]
BY DEF Remember, Alert

-----------------------------------------------------------------------------
(* Types, action by action.                                                *)

LEMMA NothingType == Nothing \in [alerts : Seq(Alert), metrics : Nat]
BY DEF Nothing

LEMMA AlertsOutType ==
  ASSUME NEW q \in Seq(Alert)
  PROVE  [Nothing EXCEPT !.alerts = q] \in [alerts : Seq(Alert), metrics : Nat]
BY DEF Nothing

LEMMA MetricsOutType ==
  ASSUME NEW n \in Nat
  PROVE  [Nothing EXCEPT !.metrics = n] \in [alerts : Seq(Alert), metrics : Nat]
BY NothingType

LEMMA MetricCountType ==
  ASSUME NEW theme
  PROVE  MetricCount(theme) \in Nat
BY DEF MetricCount

(* The events around the handlers.                                         *)
LEMMA EnvironmentType ==
  ASSUME TypeOK,
         \/ \E w \in Watchdog : TimerExpires(w)
         \/ \E m \in Messages : MessageArrives(m)
         \/ \E expired \in BOOLEAN : ReceiveFails(expired)
         \/ RetryTimerExpires
         \/ BrokerStatusChanges
         \/ ConfigChanges
         \/ \E id \in Ids : MachineFallsSilent(id)
  PROVE  TypeOK'
<1> USE NothingType
<1>1. ASSUME NEW w \in Watchdog, TimerExpires(w) PROVE TypeOK'
  <2>1. ready' \in Seq(Handlers)
    BY <1>1, HandlerMade, AppendedQueue DEF TimerExpires, TypeOK
  <2> QED
    BY <1>1, <2>1 DEF TimerExpires, TypeOK, loopVars, watchdogVars, linkVars, configVars, deviceVars
<1>2. ASSUME NEW m \in Messages, MessageArrives(m) PROVE TypeOK'
  <2>1. ready' \in Seq(Handlers)
    BY <1>2, HandlerMade, AppendedQueue DEF MessageArrives, Completes, TypeOK
  <2> QED
    BY <1>2, <2>1 DEF MessageArrives, Completes, TypeOK, watchdogVars, linkVars, configVars, deviceVars
<1>3. ASSUME NEW e \in BOOLEAN, ReceiveFails(e) PROVE TypeOK'
  <2>1. ready' \in Seq(Handlers)
    BY <1>3, HandlerMade, AppendedQueue DEF ReceiveFails, Completes, TypeOK
  <2> QED
    BY <1>3, <2>1 DEF ReceiveFails, Completes, TypeOK, watchdogVars, linkVars, configVars, deviceVars
<1>4. CASE RetryTimerExpires
  <2>1. ready' \in Seq(Handlers)
    BY <1>4, HandlerMade, AppendedQueue DEF RetryTimerExpires, Completes, TypeOK
  <2> QED
    BY <1>4, <2>1 DEF RetryTimerExpires, Completes, TypeOK, watchdogVars, linkVars, configVars, deviceVars
<1>5. CASE BrokerStatusChanges
  BY <1>5 DEF BrokerStatusChanges, TypeOK, loopVars, watchdogVars, configVars, deviceVars
<1>6. CASE ConfigChanges
  BY <1>6 DEF ConfigChanges, TypeOK, loopVars, watchdogVars, linkVars, deviceVars
<1>7. ASSUME NEW id \in Ids, MachineFallsSilent(id) PROVE TypeOK'
  BY <1>7 DEF MachineFallsSilent, TypeOK, loopVars, watchdogVars, linkVars, configVars, deviceVars
<1> QED
  BY <1>1, <1>2, <1>3, <1>4, <1>5, <1>6, <1>7

LEMMA ExpireType ==
  ASSUME TypeOK, NEW w \in Watchdog, Expire(w)
  PROVE  /\ armed' \in SUBSET Watchdog
         /\ timeouts' \in [Watchdog -> Nat] /\ offlines' \in [Watchdog -> Nat]
         /\ alertMap' \in [Names -> Alert \cup {None}]
         /\ out' \in [alerts : Seq(Alert), metrics : Nat]
<1> DEFINE x == Report("offline", w)
<1>1. x \in Alert
  BY ReportType DEF TypeOK, AlertStates
<1>2. timeouts' \in [Watchdog -> Nat]
  BY DEF Expire, TypeOK
<1>3. CASE ReportOffline(w)
  <2>1. alertMap' \in [Names -> Alert \cup {None}]
    BY <1>1, <1>3, RememberType DEF ReportOffline, TypeOK
  <2>2. out' \in [alerts : Seq(Alert), metrics : Nat]
    BY <1>1, <1>3, PushType, AlertsOutType DEF ReportOffline
  <2> QED
    BY <1>2, <1>3, <2>1, <2>2 DEF ReportOffline, StartTimer, TypeOK
<1>4. CASE ReportNothing /\ UNCHANGED armed
  BY <1>2, <1>4, NothingType DEF ReportNothing, TypeOK
<1> QED
  BY <1>3, <1>4 DEF Expire

LEMMA OnTimeoutType == TypeOK /\ OnTimeout => TypeOK'
<1> SUFFICES ASSUME TypeOK, OnTimeout PROVE TypeOK'
  OBVIOUS
<1>1. Head(ready).w \in Watchdog /\ ready' \in Seq(Handlers)
  BY TakenQueue, HandlerShape DEF OnTimeout, TypeOK
<1>2. /\ armed' \in SUBSET Watchdog
      /\ timeouts' \in [Watchdog -> Nat] /\ offlines' \in [Watchdog -> Nat]
      /\ alertMap' \in [Names -> Alert \cup {None}]
      /\ out' \in [alerts : Seq(Alert), metrics : Nat]
  <2>1. CASE Expire(Head(ready).w)
    BY <1>1, <2>1, ExpireType
  <2>2. CASE StartTimer(Head(ready).w) /\ ReportNothing /\ UNCHANGED timeouts
    BY <1>1, <2>2, NothingType DEF StartTimer, ReportNothing, TypeOK
  <2> QED
    BY <2>1, <2>2 DEF OnTimeout
<1> QED
  BY <1>1, <1>2 DEF OnTimeout, TypeOK, linkVars, configVars, deviceVars

LEMMA ReceiveNextType ==
  ASSUME TypeOK, ready # <<>>, ReceiveNext
  PROVE  /\ ready' \in Seq(Handlers) /\ receiving' \in Nat /\ retrying' \in BOOLEAN
         /\ session' \in 0..MaxSessions /\ watchdogs' \in WatchdogLists
         /\ pinging' \in BOOLEAN /\ isConnected' \in BOOLEAN
         /\ topic' \in TopicLists /\ logic' \in LogicConfigs /\ silent' \in SUBSET Ids
BY TakenQueue DEF ReceiveNext, TypeOK, linkVars, configVars

LEMMA MessageIs ==
  ASSUME NEW m \in Messages
  PROVE  m.id \in Ids /\ m.theme \in Themes /\ (m.val # None => m.val \in Nat)
BY ConstantsAssumption DEF Message

LEMMA PetType ==
  ASSUME TypeOK, NEW w \in Watchdog, Pet(w)
  PROVE  /\ armed' \in SUBSET Watchdog
         /\ timeouts' \in [Watchdog -> Nat] /\ offlines' \in [Watchdog -> Nat]
         /\ alertMap' \in [Names -> Alert \cup {None}]
<1> DEFINE x == Report("online", w)
<1>1. x \in Alert
  BY ReportType DEF TypeOK, AlertStates
<1>2. alertMap' \in [Names -> Alert \cup {None}]
  BY <1>1, RememberType DEF Pet, TypeOK
<1> QED
  BY <1>2 DEF Pet, Petted, StartTimer, TypeOK

LEMMA OnlineAlertsType ==
  ASSUME TypeOK, NEW w \in Watchdog
  PROVE  OnlineAlerts(w) \in Seq(Alert)
<1>1. Report("online", w) \in Alert
  BY ReportType DEF TypeOK, AlertStates
<1>2. Push(Report("online", w)) \in Seq(Alert) /\ <<>> \in Seq(Alert)
  BY <1>1, PushType
<1> QED
  BY <1>2, Zenon DEF OnlineAlerts

LEMMA HandleStateType ==
  ASSUME TypeOK, NEW m \in Messages, HandleState(m)
  PROVE  TypeOK'
<1> DEFINE w == WatchdogOf(m.id)
           step == m.val % 65536
           news == PumpNews(msMap[m.id], step)
<1>1. w \in Watchdog /\ m.id \in Ids /\ ready # <<>>
  BY WatchdogOfIs, MessageIs DEF HandleState, Handling, TypeOK
<1>2. /\ armed' \in SUBSET Watchdog
      /\ timeouts' \in [Watchdog -> Nat] /\ offlines' \in [Watchdog -> Nat]
      /\ alertMap' \in [Names -> Alert \cup {None}]
  BY <1>1, PetType DEF HandleState
<1>3. OnlineAlerts(w) \in Seq(Alert)
  BY <1>1, OnlineAlertsType
<1>4. /\ msMap' \in [Ids -> Nat \cup {None}]
      /\ winterTold' \in [Ids -> {"pump_on", "pump_off", None}]
      /\ out' \in [alerts : Seq(Alert), metrics : Nat]
  <2>1. CASE m.val = None
    BY <1>3, <2>1, AlertsOutType DEF HandleState, TypeOK
  <2>2. CASE m.val # None
    <3>1. step \in Nat
      BY <2>2, MessageIs
    <3>2. news \in {"pump_on", "pump_off", None}
      BY DEF PumpNews
    <3>3. (IF news = None THEN <<>> ELSE <<Event(news, m.id)>>) \in Seq(Alert)
      <4>1. CASE news = None
        BY <4>1
      <4>2. CASE news # None
        <5>1. news \in AlertStates
          BY <3>2, <4>2 DEF AlertStates
        <5>2. Event(news, m.id) \in Alert
          BY <1>1, <5>1, EventType DEF TypeOK
        <5> QED
          BY <4>2, <5>2
      <4> QED
        BY <4>1, <4>2
    <3>4. /\ msMap' = [msMap EXCEPT ![m.id] = step]
          /\ winterTold' = [winterTold EXCEPT ![m.id] = IF news # None \/ step \notin {0} \cup Winter
                                          THEN news ELSE @]
          /\ out' = [metrics |-> MetricCount(m.theme), alerts |-> OnlineAlerts(w) \o
                       (IF news = None THEN <<>> ELSE <<Event(news, m.id)>>)]
      BY <2>2 DEF HandleState
    <3>5. OnlineAlerts(w) \o (IF news = None THEN <<>> ELSE <<Event(news, m.id)>>) \in Seq(Alert)
      BY <1>3, <3>3
    <3>6. out' \in [alerts : Seq(Alert), metrics : Nat]
      BY <3>4, <3>5, MetricCountType
    <3>7. msMap' \in [Ids -> Nat \cup {None}]
      BY <1>1, <3>1, <3>4 DEF TypeOK
    <3>8. winterTold' \in [Ids -> {"pump_on", "pump_off", None}]
      <4> HIDE DEF news
      <4> QED
        BY <1>1, <3>2, <3>4 DEF TypeOK
    <3> QED
      BY <3>6, <3>7, <3>8
  <2> QED
    BY <2>1, <2>2
<1>5. ReceiveNext /\ UNCHANGED <<mIn, mOut>>
  BY DEF HandleState
<1> QED
  BY <1>1, <1>2, <1>4, <1>5, ReceiveNextType DEF TypeOK

LEMMA HandleAlarmType ==
  ASSUME TypeOK, NEW m \in Messages, HandleAlarm(m)
  PROVE  TypeOK'
<1> DEFINE code == m.val % 65536
           x == AlarmAlert(m, code)
<1>1. ready # <<>> /\ ReceiveNext /\ UNCHANGED <<armed, timeouts, offlines, deviceVars>>
  BY DEF HandleAlarm, Handling
<1>2. alertMap' \in [Names -> Alert \cup {None}] /\ out' \in [alerts : Seq(Alert), metrics : Nat]
  <2>1. CASE m.val = None
    BY <2>1, NothingType DEF HandleAlarm, TypeOK
  <2>2. CASE m.val # None
    <3>1. code \in Nat /\ m.id \in Ids /\ logic.name[m.id] \in Names
      BY <2>2, MessageIs, LogicType DEF TypeOK
    <3>2. x \in Alert
      BY <3>1 DEF AlarmAlert, Alert, AlertStates
    <3>3. Push(x) \in Seq(Alert)
      BY <3>2, PushType
    <3>4. CASE code \in logic.disabled
      <4>1. out' = [Nothing EXCEPT !.metrics = MetricCount(m.theme)] /\ UNCHANGED alertMap
        BY <2>2, <3>4 DEF HandleAlarm
      <4> QED
        BY <4>1, MetricsOutType, MetricCountType DEF TypeOK
    <3>5. CASE code \notin logic.disabled
      <4>1. Remember(x) /\ out' = [alerts |-> Push(x), metrics |-> MetricCount(m.theme)]
        BY <2>2, <3>5 DEF HandleAlarm
      <4> HIDE DEF x
      <4>2. out' \in [alerts : Seq(Alert), metrics : Nat]
        BY <3>3, <4>1, MetricCountType
      <4> QED
        BY <3>2, <4>1, <4>2, RememberType DEF TypeOK
    <3> QED
      BY <3>4, <3>5
  <2> QED
    BY <2>1, <2>2
<1> QED
  BY <1>1, <1>2, ReceiveNextType DEF TypeOK, deviceVars

LEMMA UpdateType ==
  ASSUME NEW h \in History \cup {None}, NEW v \in {0, 1}
  PROVE  Update(h, v) \in History
BY DEF Update, History

LEMMA HandleInType ==
  ASSUME TypeOK, NEW m \in Messages, HandleIn(m)
  PROVE  TypeOK'
<1> DEFINE v == IF m.val = 0 THEN 0 ELSE 1
<1>1. /\ ready # <<>> /\ ReceiveNext /\ m.id \in Ids
      /\ UNCHANGED <<armed, timeouts, offlines, alertMap, msMap, winterTold, mOut>>
  BY MessageIs DEF HandleIn, Handling
<1>2. mIn' \in [Ids -> History \cup {None}] /\ out' \in [alerts : Seq(Alert), metrics : Nat]
  <2>1. CASE m.val = None
    BY <2>1, NothingType DEF HandleIn, TypeOK
  <2>2. CASE m.val # None
    <3>1. /\ mIn' = [mIn EXCEPT ![m.id] = Update(@, v)]
          /\ out' = [alerts |-> EcoAlerts(m.id, v),
                     metrics |-> IF mIn[m.id] # None /\ mOut[m.id] # None
                                 THEN MetricCount(m.theme) ELSE 0]
      BY <2>2 DEF HandleIn
    <3>2. Update(mIn[m.id], v) \in History
      BY <1>1, UpdateType DEF TypeOK
    <3>3. mIn' \in [Ids -> History \cup {None}]
      BY <1>1, <3>1, <3>2 DEF TypeOK
    <3>4. Event("eco_malfunction", m.id) \in Alert
      BY <1>1, EventType DEF TypeOK, AlertStates
    <3>5. <<Event("eco_malfunction", m.id)>> \in Seq(Alert) /\ <<>> \in Seq(Alert)
      BY <3>4
    <3>6. EcoAlerts(m.id, v) \in Seq(Alert)
      BY <3>5, Zenon DEF EcoAlerts
    <3> QED
      BY <3>1, <3>3, <3>6, MetricCountType
  <2> QED
    BY <2>1, <2>2
<1> QED
  BY <1>1, <1>2, ReceiveNextType DEF TypeOK

LEMMA HandleOutType ==
  ASSUME TypeOK, NEW m \in Messages, HandleOut(m)
  PROVE  TypeOK'
<1> DEFINE v == IF m.val = 0 THEN 0 ELSE 1
           n == IF mIn[m.id] # None /\ mOut[m.id] # None THEN MetricCount(m.theme) ELSE 0
<1>1. /\ ready # <<>> /\ ReceiveNext /\ m.id \in Ids
      /\ UNCHANGED <<armed, timeouts, offlines, alertMap, msMap, winterTold, mIn>>
  BY MessageIs DEF HandleOut, Handling
<1>2. mOut' \in [Ids -> History \cup {None}] /\ out' \in [alerts : Seq(Alert), metrics : Nat]
  <2>1. CASE m.val = None
    BY <2>1, NothingType DEF HandleOut, TypeOK
  <2>2. CASE m.val # None
    <3>1. mOut' = [mOut EXCEPT ![m.id] = Update(@, v)] /\ out' = [Nothing EXCEPT !.metrics = n]
      BY <2>2 DEF HandleOut
    <3>2. Update(mOut[m.id], v) \in History
      BY <1>1, UpdateType DEF TypeOK
    <3>3. mOut' \in [Ids -> History \cup {None}]
      BY <1>1, <3>1, <3>2 DEF TypeOK
    <3>4. n \in Nat
      BY MetricCountType
    <3>5. out' \in [alerts : Seq(Alert), metrics : Nat]
      <4> HIDE DEF n
      <4> QED
        BY <3>1, <3>4, MetricsOutType
    <3> QED
      BY <3>3, <3>5
  <2> QED
    BY <2>1, <2>2
<1> QED
  BY <1>1, <1>2, ReceiveNextType DEF TypeOK

LEMMA HandleMessageType == TypeOK /\ HandleMessage => TypeOK'
<1> SUFFICES ASSUME TypeOK, HandleMessage PROVE TypeOK'
  OBVIOUS
<1>1. PICK m \in Messages :
        \/ HandleState(m) \/ HandleAlarm(m) \/ HandleIn(m) \/ HandleOut(m)
        \/ HandleOther(m) \/ HandleUnregistered(m) \/ HandleMissingTheme(m)
  BY DEF HandleMessage
<1>2. CASE HandleOther(m)
  <2>1. /\ ready # <<>> /\ ReceiveNext
        /\ UNCHANGED <<armed, timeouts, offlines, alertMap, deviceVars>>
    BY <1>2 DEF HandleOther, Handling
  <2>2. out' \in [alerts : Seq(Alert), metrics : Nat]
    BY <1>2, MetricsOutType, MetricCountType DEF HandleOther
  <2> QED
    BY <2>1, <2>2, ReceiveNextType DEF TypeOK, deviceVars
<1>3. CASE HandleUnregistered(m)
  <2>1. /\ ready # <<>> /\ ReceiveNext /\ out' = Nothing
        /\ UNCHANGED <<armed, timeouts, offlines, alertMap, deviceVars>>
    BY <1>3 DEF HandleUnregistered
  <2> QED
    BY <2>1, ReceiveNextType, NothingType DEF TypeOK, deviceVars
<1>4. CASE HandleMissingTheme(m)
  BY <1>4, TakenQueue, NothingType
  DEF HandleMissingTheme, TypeOK, watchdogVars, linkVars, configVars, deviceVars
<1> QED
  BY <1>1, <1>2, <1>3, <1>4, HandleStateType, HandleAlarmType, HandleInType, HandleOutType

LEMMA HandleRetryType == TypeOK /\ HandleRetry => TypeOK'
BY ReceiveNextType, NothingType DEF HandleRetry, TypeOK, deviceVars

-----------------------------------------------------------------------------
(* The receive loop.                                                       *)

(* An expiry that is queued is one of those MaxSessions allows.            *)
ExpiryBound ==
  \A i \in DOMAIN ready :
    ready[i].h = "error" /\ ready[i].expired => session < MaxSessions

LoopInv == TypeOK /\ SingleReceiver /\ ExpiryBound

LEMMA HandleErrorType ==
  ASSUME TypeOK, ExpiryBound, HandleError
  PROVE  TypeOK' /\ session <= session'
<1>1. /\ ready # <<>> /\ Head(ready) \in Handlers /\ ready' \in Seq(Handlers)
      /\ Head(ready) = ready[1] /\ 1 \in DOMAIN ready /\ ready[1].h = "error"
  BY TakenQueue DEF HandleError, TypeOK
<1>2. /\ out' = Nothing
      /\ UNCHANGED <<receiving, timeouts, offlines, linkVars, configVars, alertMap,
                     deviceVars, silent>>
  BY DEF HandleError
<1>3. CASE Head(ready).expired
  <2>1. session < MaxSessions
    BY <1>1, <1>3 DEF ExpiryBound
  <2>2. /\ session' = session + 1 /\ watchdogs' = NewWatchdogs(topic, session + 1)
        /\ armed' = (armed \ Objects(watchdogs)) \cup Objects(watchdogs')
        /\ retrying' = (WellFormed(topic) \/ retrying)
    BY <1>3 DEF HandleError, Resubscribe
  <2>3. session' \in 0..MaxSessions /\ session <= session'
    BY <2>1, <2>2, ConstantsAssumption DEF TypeOK
  <2>4. watchdogs' \in WatchdogLists
    BY <2>2, <2>3, NewWatchdogsType DEF TypeOK
  <2>5. armed' \in SUBSET Watchdog
    BY <2>2, <2>4, WatchdogListIs DEF TypeOK
  <2>6. retrying' \in BOOLEAN
    BY <2>2
  <2> QED
    BY <1>1, <1>2, <2>3, <2>4, <2>5, <2>6, NothingType
    DEF TypeOK, linkVars, configVars, deviceVars
<1>4. CASE ~Head(ready).expired
  <2>1. retrying' = TRUE /\ UNCHANGED <<session, watchdogs, armed>>
    BY <1>4 DEF HandleError
  <2> QED
    BY <1>1, <1>2, <2>1, NothingType, ConstantsAssumption
    DEF TypeOK, linkVars, configVars, deviceVars
<1> QED
  BY <1>3, <1>4

LEMMA TypeStep == TypeOK /\ ExpiryBound /\ [Next]_vars => TypeOK'
<1> SUFFICES ASSUME TypeOK, ExpiryBound, [Next]_vars PROVE TypeOK'
  OBVIOUS
<1>1. CASE UNCHANGED vars
  BY <1>1 DEF vars, TypeOK, loopVars, watchdogVars, linkVars, configVars, deviceVars
<1> QED
  BY <1>1, EnvironmentType, OnTimeoutType, HandleMessageType, HandleErrorType,
     HandleRetryType DEF Next

Chain == {"message", "error", "retry"}

(* A handler outside the receive loop is queued.                           *)
LEMMA OtherAppended ==
  ASSUME TypeOK, SingleReceiver, ExpiryBound, NEW e \in Handlers, e.h \notin Chain,
         ready' = Append(ready, e), UNCHANGED <<receiving, retrying, session>>
  PROVE  SingleReceiver' /\ ExpiryBound'
<1>1. /\ DOMAIN ready' = 1..(Len(ready) + 1) /\ DOMAIN ready = 1..Len(ready)
      /\ Len(ready) \in Nat
      /\ \A i \in DOMAIN ready : ready'[i] = ready[i]
      /\ ready'[Len(ready) + 1] = e
  BY AppendedQueue DEF TypeOK
<1>2. \A i \in DOMAIN ready' : ready'[i].h \in Chain => i \in DOMAIN ready
  BY <1>1
<1> QED
  BY <1>1, <1>2 DEF SingleReceiver, InChain, ExpiryBound, Chain

(* The receive operation or the retry timer completes.                     *)
LEMMA ChainAppended ==
  ASSUME TypeOK, SingleReceiver, NEW e \in Handlers, receiving = 1 \/ retrying,
         e.h = "error" /\ e.expired => session < MaxSessions,
         ready' = Append(ready, e), receiving' = 0, ~retrying', UNCHANGED session
  PROVE  SingleReceiver' /\ ExpiryBound'
<1>1. /\ DOMAIN ready' = 1..(Len(ready) + 1) /\ DOMAIN ready = 1..Len(ready)
      /\ Len(ready) \in Nat
      /\ \A i \in DOMAIN ready : ready'[i] = ready[i]
      /\ ready'[Len(ready) + 1] = e
  BY AppendedQueue DEF TypeOK
<1>2. \A i \in DOMAIN ready : ready[i].h \notin Chain
  BY DEF SingleReceiver, InChain, Chain
<1>3. \A i \in DOMAIN ready' : ready'[i].h \in Chain => i = Len(ready) + 1
  BY <1>1, <1>2
<1>4. SingleReceiver'
  BY <1>3 DEF SingleReceiver, InChain, Chain
<1>5. ExpiryBound'
  BY <1>1, <1>3 DEF ExpiryBound, Chain
<1> QED
  BY <1>4, <1>5

(* A handler outside the receive loop runs.                                *)
LEMMA OtherTaken ==
  ASSUME TypeOK, SingleReceiver, ExpiryBound, ready # <<>>,
         ready' = Tail(ready), UNCHANGED <<receiving, retrying, session>>
  PROVE  SingleReceiver' /\ ExpiryBound'
<1>1. \A i \in DOMAIN ready' :
        i + 1 \in DOMAIN ready /\ ready'[i] = ready[i + 1] /\ i \in Nat
  BY TakenQueue DEF TypeOK
<1>2. ExpiryBound'
  BY <1>1 DEF ExpiryBound
<1>3. \A i \in DOMAIN ready' : InChain(i)' => InChain(i + 1)
  BY <1>1 DEF InChain
<1>4. \A i \in DOMAIN ready' : InChain(i)' => receiving' = 0 /\ ~retrying'
  BY <1>1, <1>3 DEF SingleReceiver
<1>5. \A i, j \in DOMAIN ready' : InChain(i)' /\ InChain(j)' => i = j
  BY <1>1, <1>3 DEF SingleReceiver
<1> QED
  BY <1>2, <1>4, <1>5 DEF SingleReceiver

(* A handler of the receive loop runs.                                     *)
LEMMA ChainTaken ==
  ASSUME TypeOK, SingleReceiver, ready # <<>>, Head(ready).h \in Chain,
         ready' = Tail(ready),
         receiving' = 0 \/ (receiving' = 1 /\ ~retrying')
  PROVE  SingleReceiver' /\ ExpiryBound'
<1>1. /\ 1 \in DOMAIN ready /\ Head(ready) = ready[1]
      /\ \A i \in DOMAIN ready' :
           i + 1 \in DOMAIN ready /\ ready'[i] = ready[i + 1] /\ i \in Nat \ {0}
  BY TakenQueue DEF TypeOK
<1>2. InChain(1)
  BY <1>1 DEF InChain, Chain
<1>3. \A i \in DOMAIN ready' : ready'[i].h \notin Chain
  BY <1>1, <1>2 DEF SingleReceiver, InChain, Chain
<1>4. ExpiryBound'
  BY <1>3 DEF ExpiryBound, Chain
<1>5. \A i \in DOMAIN ready' : ~InChain(i)'
  BY <1>3 DEF InChain, Chain
<1> QED
  BY <1>4, <1>5 DEF SingleReceiver

(* The loop is quiet while one of its handlers waits in the queue.         *)
LEMMA ChainHead ==
  ASSUME TypeOK, SingleReceiver, ready # <<>>, Head(ready).h \in Chain
  PROVE  receiving = 0 /\ ~retrying
<1>1. 1 \in DOMAIN ready /\ Head(ready) = ready[1]
  BY TakenQueue DEF TypeOK
<1> QED
  BY <1>1 DEF SingleReceiver, InChain, Chain

LEMMA ChainMessage ==
  ASSUME TypeOK, SingleReceiver, HandleMessage \/ HandleRetry
  PROVE  SingleReceiver' /\ ExpiryBound'
<1>1. /\ ready # <<>> /\ Head(ready).h \in Chain /\ ready' = Tail(ready)
      /\ UNCHANGED retrying /\ receiving' \in {receiving, receiving + 1}
  <2>1. CASE HandleMessage
    BY <2>1 DEF HandleMessage, HandleState, HandleAlarm, HandleIn, HandleOut, HandleOther,
       HandleUnregistered, HandleMissingTheme, Handling, ReceiveNext, Chain
  <2>2. CASE HandleRetry
    BY <2>2 DEF HandleRetry, ReceiveNext, Chain
  <2> QED
    BY <2>1, <2>2
<1>2. receiving = 0 /\ ~retrying
  BY <1>1, ChainHead
<1>3. receiving' = 0 \/ (receiving' = 1 /\ ~retrying')
  BY <1>1, <1>2
<1> QED
  BY <1>1, <1>3, ChainTaken

LEMMA ChainError ==
  ASSUME TypeOK, SingleReceiver, HandleError
  PROVE  SingleReceiver' /\ ExpiryBound'
<1>1. /\ ready # <<>> /\ Head(ready).h \in Chain /\ ready' = Tail(ready)
      /\ receiving' = receiving
  BY DEF HandleError, Chain
<1>2. receiving' = 0
  BY <1>1, ChainHead
<1> QED
  BY <1>1, <1>2, ChainTaken

LEMMA LoopStep == LoopInv /\ [Next]_vars => LoopInv'
<1> SUFFICES ASSUME TypeOK, SingleReceiver, ExpiryBound, [Next]_vars
             PROVE  SingleReceiver' /\ ExpiryBound'
  BY TypeStep DEF LoopInv
<1>1. ASSUME NEW w \in Watchdog, TimerExpires(w)
      PROVE  SingleReceiver' /\ ExpiryBound'
  <2> DEFINE e == [h |-> "timeout", w |-> w]
  <2>1. e \in Handlers /\ e.h \notin Chain
    BY HandlerMade DEF Chain
  <2>2. ready' = Append(ready, e) /\ UNCHANGED <<receiving, retrying, session>>
    BY <1>1 DEF TimerExpires
  <2> HIDE DEF e
  <2> QED
    BY <2>1, <2>2, OtherAppended
<1>2. ASSUME NEW m \in Messages, MessageArrives(m)
      PROVE  SingleReceiver' /\ ExpiryBound'
  <2> DEFINE e == [h |-> "message", m |-> m]
  <2>1. e \in Handlers /\ e.h # "error"
    BY HandlerMade
  <2>2. /\ ready' = Append(ready, e) /\ receiving > 0 /\ receiving' = receiving - 1
        /\ UNCHANGED <<retrying, session>>
    BY <1>2 DEF MessageArrives, Completes, watchdogVars
  <2>3. receiving = 1 /\ receiving' = 0 /\ ~retrying'
    BY <2>2 DEF SingleReceiver, TypeOK
  <2> HIDE DEF e
  <2> QED
    BY <2>1, <2>2, <2>3, ChainAppended
<1>3. ASSUME NEW x \in BOOLEAN, ReceiveFails(x)
      PROVE  SingleReceiver' /\ ExpiryBound'
  <2> DEFINE e == [h |-> "error", expired |-> x]
  <2>1. e \in Handlers /\ e.expired = x
    BY HandlerMade
  <2>2. /\ ready' = Append(ready, e) /\ receiving > 0 /\ receiving' = receiving - 1
        /\ UNCHANGED <<retrying, session>> /\ (x => session < MaxSessions)
    BY <1>3 DEF ReceiveFails, Completes, watchdogVars
  <2>3. receiving = 1 /\ receiving' = 0 /\ ~retrying'
    BY <2>2 DEF SingleReceiver, TypeOK
  <2> HIDE DEF e
  <2> QED
    BY <2>1, <2>2, <2>3, ChainAppended
<1>4. CASE RetryTimerExpires
  <2> DEFINE e == [h |-> "retry"]
  <2>1. e \in Handlers /\ e.h # "error"
    BY HandlerMade
  <2>2. /\ ready' = Append(ready, e) /\ retrying /\ ~retrying'
        /\ UNCHANGED <<receiving, session>>
    BY <1>4 DEF RetryTimerExpires, Completes, watchdogVars
  <2>3. receiving' = 0
    BY <2>2 DEF SingleReceiver, TypeOK
  <2> HIDE DEF e
  <2> QED
    BY <2>1, <2>2, <2>3, ChainAppended
<1>5. CASE OnTimeout
  BY <1>5, OtherTaken DEF OnTimeout
<1>6. CASE BrokerStatusChanges \/ ConfigChanges \/ (\E id \in Ids : MachineFallsSilent(id))
             \/ UNCHANGED vars
  <2>1. UNCHANGED <<ready, receiving, retrying, session>>
    BY <1>6 DEF BrokerStatusChanges, ConfigChanges, MachineFallsSilent, vars, loopVars,
                watchdogVars
  <2> QED
    BY <2>1 DEF SingleReceiver, InChain, ExpiryBound
<1> QED
  BY <1>1, <1>2, <1>3, <1>4, <1>5, <1>6, ChainMessage, ChainError DEF Next

LEMMA LoopInit == Init => LoopInv
<1> SUFFICES ASSUME Init PROVE LoopInv
  OBVIOUS
<1>1. watchdogs \in WatchdogLists /\ Objects(watchdogs) \subseteq Watchdog
  BY NewWatchdogsType, WatchdogListIs, ConstantsAssumption DEF Init
<1>2. ready = <<>> /\ ready \in Seq(Handlers)
  BY DEF Init
<1>3. receiving \in {0, 1} /\ ~retrying /\ session \in 0..MaxSessions
  BY ConstantsAssumption DEF Init
<1>4. pinging \in BOOLEAN
  BY DEF Init, WellFormed
<1>5. TypeOK
  BY <1>1, <1>2, <1>3, <1>4, NothingType DEF Init, TypeOK
<1> QED
  BY <1>2, <1>3, <1>5 DEF LoopInv, SingleReceiver, ExpiryBound

LEMMA LoopInvariant == Spec => []LoopInv
BY LoopInit, LoopStep, PTL DEF Spec

(* Every variable of the monitor keeps its type.                           *)
THEOREM TypeCorrect == Spec => []TypeOK
<1>1. LoopInv => TypeOK
  BY DEF LoopInv
<1> QED
  BY <1>1, LoopInvariant, PTL

(* At most one of: a receive operation, its handler in the queue, a wait   *)
(* on the retry timer; whatever fails, and however often.                  *)
THEOREM OneReceiver == Spec => []SingleReceiver
<1>1. LoopInv => SingleReceiver
  BY DEF LoopInv
<1> QED
  BY <1>1, LoopInvariant, PTL

-----------------------------------------------------------------------------
(* The watchdogs.                                                          *)

LEMMA TimedOutAppended ==
  ASSUME TypeOK, NEW e \in Handlers, ready' = Append(ready, e), NEW w
  PROVE  /\ TimedOut(w) => TimedOut(w)'
         /\ e.h = "timeout" /\ e.w = w => TimedOut(w)'
<1>1. /\ DOMAIN ready' = 1..(Len(ready) + 1) /\ DOMAIN ready = 1..Len(ready)
      /\ Len(ready) \in Nat
      /\ \A i \in DOMAIN ready : ready'[i] = ready[i]
      /\ ready'[Len(ready) + 1] = e
  BY AppendedQueue DEF TypeOK
<1> QED
  BY <1>1 DEF TimedOut

LEMMA TimedOutKept ==
  ASSUME TypeOK, ready # <<>>, ready' = Tail(ready), NEW w,
         Head(ready).h = "timeout" => Head(ready).w # w
  PROVE  TimedOut(w) => TimedOut(w)'
<1>1. /\ Head(ready) = ready[1]
      /\ \A i \in DOMAIN ready : i # 1 => i - 1 \in DOMAIN ready' /\ ready'[i - 1] = ready[i]
  BY TakenQueue DEF TypeOK
<1> QED
  BY <1>1 DEF TimedOut

(* What a step does to the watchdogs.                                      *)
LEMMA WatchdogSteps ==
  ASSUME TypeOK, [Next]_vars
  PROVE  \/ \E w \in Watchdog : TimerExpires(w)
         \/ OnTimeout
         \/ \E m \in Messages : HandleState(m)
         \/ HandleError
         \/ /\ UNCHANGED <<watchdogs, armed, timeouts, offlines>>
            /\ \A w : TimedOut(w) => TimedOut(w)'
<1> DEFINE Still == /\ UNCHANGED <<watchdogs, armed, timeouts, offlines>>
                    /\ \A w : TimedOut(w) => TimedOut(w)'
<1>1. ASSUME NEW m \in Messages, MessageArrives(m) PROVE Still
  <2>1. [h |-> "message", m |-> m] \in Handlers
    BY HandlerMade
  <2> QED
    BY <1>1, <2>1, TimedOutAppended DEF MessageArrives, Completes, watchdogVars
<1>2. ASSUME NEW x \in BOOLEAN, ReceiveFails(x) PROVE Still
  <2>1. [h |-> "error", expired |-> x] \in Handlers
    BY HandlerMade
  <2> QED
    BY <1>2, <2>1, TimedOutAppended DEF ReceiveFails, Completes, watchdogVars
<1>3. ASSUME RetryTimerExpires PROVE Still
  <2>1. [h |-> "retry"] \in Handlers
    BY HandlerMade
  <2> QED
    BY <1>3, <2>1, TimedOutAppended DEF RetryTimerExpires, Completes, watchdogVars
<1>4. ASSUME BrokerStatusChanges \/ ConfigChanges
               \/ (\E id \in Ids : MachineFallsSilent(id)) \/ UNCHANGED vars
      PROVE  Still
  <2>1. UNCHANGED <<ready, watchdogs, armed, timeouts, offlines>>
    BY <1>4 DEF BrokerStatusChanges, ConfigChanges, MachineFallsSilent, vars, loopVars,
                watchdogVars
  <2> QED
    BY <2>1 DEF TimedOut
<1>5. ASSUME NEW m \in Messages,
             HandleAlarm(m) \/ HandleIn(m) \/ HandleOut(m) \/ HandleOther(m)
               \/ HandleUnregistered(m) \/ HandleMissingTheme(m)
      PROVE  Still
  <2>1. /\ ready # <<>> /\ Head(ready).h = "message" /\ ready' = Tail(ready)
        /\ UNCHANGED <<watchdogs, armed, timeouts, offlines>>
    BY <1>5 DEF HandleAlarm, HandleIn, HandleOut, HandleOther, HandleUnregistered,
                HandleMissingTheme, Handling, ReceiveNext, watchdogVars
  <2> QED
    BY <2>1, TimedOutKept
<1>6. ASSUME HandleRetry PROVE Still
  <2>1. /\ ready # <<>> /\ Head(ready).h = "retry" /\ ready' = Tail(ready)
        /\ UNCHANGED <<watchdogs, armed, timeouts, offlines>>
    BY <1>6 DEF HandleRetry, ReceiveNext
  <2> QED
    BY <2>1, TimedOutKept
<1>7. HandleMessage => (\E m \in Messages : HandleState(m)) \/ Still
  BY <1>5 DEF HandleMessage
<1> HIDE DEF Still
<1>8. \/ \E w \in Watchdog : TimerExpires(w)
      \/ OnTimeout
      \/ \E m \in Messages : HandleState(m)
      \/ HandleError
      \/ Still
  BY <1>1, <1>2, <1>3, <1>4, <1>6, <1>7 DEF Next
<1> QED
  BY <1>8 DEF Still

(* What a state message does to the watchdogs.                             *)
LEMMA StatePets ==
  ASSUME TypeOK, NEW m \in Messages, HandleState(m)
  PROVE  /\ WatchdogOf(m.id) \in Watchdog /\ Pet(WatchdogOf(m.id))
         /\ ready # <<>> /\ Head(ready).h = "message" /\ ready' = Tail(ready)
         /\ UNCHANGED watchdogs
<1>1. Handling(m, {"state"}) /\ Pet(WatchdogOf(m.id)) /\ ReceiveNext
  BY DEF HandleState
<1> QED
  BY <1>1, WatchdogOfIs DEF Handling, ReceiveNext, TypeOK

(* What an expiry handled with the broker connected does.                  *)
LEMMA ExpireDoes ==
  ASSUME TypeOK, NEW w \in Watchdog, Expire(w)
  PROVE  /\ timeouts' = [timeouts EXCEPT ![w] = timeouts[w] + 1]
         /\ \/ /\ timeouts[w] < logic.timeout_limit
               /\ armed' = armed \cup {w}
               /\ offlines' = [offlines EXCEPT ![w] = offlines[w] + 1]
            \/ /\ ~(timeouts[w] < logic.timeout_limit)
               /\ UNCHANGED <<armed, offlines>>
BY DEF Expire, ReportOffline, ReportNothing, StartTimer

LEMMA TimeoutDoes ==
  ASSUME TypeOK, OnTimeout
  PROVE  /\ ready # <<>> /\ Head(ready).h = "timeout" /\ ready' = Tail(ready)
         /\ Head(ready).w \in Watchdog
         /\ UNCHANGED watchdogs
         /\ \/ Expire(Head(ready).w)
            \/ armed' = armed \cup {Head(ready).w} /\ UNCHANGED <<timeouts, offlines>>
BY TakenQueue, HandlerShape DEF OnTimeout, TypeOK, StartTimer, ReportNothing

LEMMA AliveStep == TypeOK /\ WatchdogAlive /\ [Next]_vars => WatchdogAlive'
<1> SUFFICES ASSUME TypeOK, WatchdogAlive, [Next]_vars,
                    NEW w \in Current'
             PROVE  \/ w \in armed'
                    \/ TimedOut(w)'
                    \/ \E c \in LogicConfigs : timeouts'[w] > c.timeout_limit
  BY DEF WatchdogAlive
<1> DEFINE Spent(t) == \E c \in LogicConfigs : t[w] > c.timeout_limit
<1>1. w \in Current => w \in armed \/ TimedOut(w) \/ Spent(timeouts)
  BY DEF WatchdogAlive
<1>2. UNCHANGED watchdogs => w \in Current
  BY DEF Current
<1>3. ASSUME NEW v \in Watchdog, TimerExpires(v)
      PROVE  w \in armed' \/ TimedOut(w)' \/ Spent(timeouts')
  <2>1. [h |-> "timeout", w |-> v] \in Handlers
    BY HandlerMade
  <2>2. /\ armed' = armed \ {v} /\ UNCHANGED <<watchdogs, timeouts>>
        /\ ready' = Append(ready, [h |-> "timeout", w |-> v])
    BY <1>3 DEF TimerExpires
  <2>3. (TimedOut(w) => TimedOut(w)') /\ (v = w => TimedOut(w)')
    BY <2>1, <2>2, TimedOutAppended
  <2> QED
    BY <1>1, <1>2, <2>2, <2>3
<1>4. CASE OnTimeout
  <2> DEFINE v == Head(ready).w
  <2>1. /\ ready # <<>> /\ ready' = Tail(ready) /\ v \in Watchdog /\ w \in Current
        /\ Expire(v) \/ (armed' = armed \cup {v} /\ UNCHANGED <<timeouts, offlines>>)
    BY <1>2, <1>4, TimeoutDoes
  <2>2. w # v /\ TimedOut(w) => TimedOut(w)'
    BY <2>1, TimedOutKept
  <2>3. CASE armed' = armed \cup {v} /\ UNCHANGED <<timeouts, offlines>>
    BY <1>1, <2>1, <2>2, <2>3
  <2>4. CASE Expire(v)
    <3>1. /\ timeouts' = [timeouts EXCEPT ![v] = timeouts[v] + 1]
          /\ armed \subseteq armed'
          /\ v \in armed' \/ ~(timeouts[v] < logic.timeout_limit)
      BY <2>1, <2>4, ExpireDoes
    <3>2. CASE w = v
      <4>1. logic \in LogicConfigs /\ logic.timeout_limit \in Nat /\ timeouts[v] \in Nat
        BY <2>1, LogicType DEF TypeOK
      <4>2. timeouts'[w] = timeouts[v] + 1
        BY <2>1, <3>1, <3>2 DEF TypeOK
      <4> QED
        BY <3>1, <3>2, <4>1, <4>2
    <3>3. CASE w # v
      <4>1. timeouts'[w] = timeouts[w] \/ w \notin Watchdog
        BY <3>1, <3>3 DEF TypeOK
      <4>2. w \in Watchdog
        BY <2>1, WatchdogListIs DEF TypeOK, Current
      <4> QED
        BY <1>1, <2>1, <2>2, <3>1, <3>3, <4>1, <4>2
    <3> QED
      BY <3>2, <3>3
  <2> QED
    BY <2>1, <2>3, <2>4
<1>5. ASSUME NEW m \in Messages, HandleState(m)
      PROVE  w \in armed' \/ TimedOut(w)' \/ Spent(timeouts')
  <2> DEFINE v == WatchdogOf(m.id)
  <2>1. /\ v \in Watchdog /\ w \in Current /\ ready # <<>> /\ Head(ready).h = "message"
        /\ ready' = Tail(ready) /\ armed' = armed \cup {v}
        /\ timeouts' = [timeouts EXCEPT ![v] = 0]
    BY <1>2, <1>5, StatePets DEF Pet, Petted, StartTimer
  <2>2. TimedOut(w) => TimedOut(w)'
    BY <2>1, TimedOutKept
  <2>3. w \in Watchdog
    BY <2>1, WatchdogListIs DEF TypeOK, Current
  <2>4. w # v => timeouts'[w] = timeouts[w]
    BY <2>1, <2>3 DEF TypeOK
  <2> QED
    BY <1>1, <2>1, <2>2, <2>4
<1>6. CASE HandleError
  <2>1. CASE Head(ready).expired
    BY <1>6, <2>1 DEF HandleError, Resubscribe, Current
  <2>2. CASE ~Head(ready).expired
    <3>1. /\ ready # <<>> /\ Head(ready).h = "error" /\ ready' = Tail(ready)
          /\ UNCHANGED <<watchdogs, armed, timeouts>>
      BY <1>6, <2>2 DEF HandleError
    <3>2. TimedOut(w) => TimedOut(w)'
      BY <3>1, TimedOutKept
    <3> QED
      BY <1>1, <1>2, <3>1, <3>2
  <2> QED
    BY <2>1, <2>2
<1>7. CASE UNCHANGED <<watchdogs, armed, timeouts, offlines>> /\ \A v : TimedOut(v) => TimedOut(v)'
  BY <1>1, <1>2, <1>7
<1> QED
  BY <1>3, <1>4, <1>5, <1>6, <1>7, WatchdogSteps

(* Every machine of the current subscription is watched: its watchdog      *)
(* waits, has a timeout to handle, or has used up a limit.                 *)
THEOREM EveryMachineWatched == Spec => []WatchdogAlive
<1>1. Init => WatchdogAlive
  BY DEF Init, WatchdogAlive, Current
<1>2. LoopInv => TypeOK
  BY DEF LoopInv
<1> QED
  BY <1>1, <1>2, LoopInvariant, AliveStep, PTL DEF Spec

-----------------------------------------------------------------------------
(* The Offline reports.                                                    *)

(* Every report goes with a count, so a limit on the one bounds the other. *)
Counted == \A w \in Watchdog : offlines[w] <= timeouts[w]

ReportInv == Counted /\ OfflineBudget /\ ReturnIsNews

LEMMA ReportStep == TypeOK /\ ReportInv /\ [Next]_vars => ReportInv'
<1> SUFFICES ASSUME TypeOK, ReportInv, [Next]_vars PROVE ReportInv'
  OBVIOUS
<1>1. timeouts \in [Watchdog -> Nat] /\ offlines \in [Watchdog -> Nat]
  BY DEF TypeOK
<1>2. ASSUME UNCHANGED <<timeouts, offlines>> PROVE ReportInv'
  BY <1>2 DEF ReportInv, Counted, OfflineBudget, ReturnIsNews
<1>3. ASSUME NEW v \in Watchdog, Pet(v) PROVE ReportInv'
  <2>1. \A w \in Watchdog :
          /\ timeouts'[w] = IF w = v THEN 0 ELSE timeouts[w]
          /\ offlines'[w] = IF w = v THEN 0 ELSE offlines[w]
    BY <1>1, <1>3 DEF Pet, Petted
  <2>2. \E c \in LogicConfigs : 0 <= c.timeout_limit
    BY LogicType DEF TypeOK
  <2>3. Counted'
    BY <2>1 DEF ReportInv, Counted
  <2>4. OfflineBudget'
    BY <2>1, <2>2 DEF ReportInv, OfflineBudget
  <2>5. ReturnIsNews'
    BY <2>1 DEF ReportInv, ReturnIsNews
  <2> QED
    BY <2>3, <2>4, <2>5 DEF ReportInv
<1>4. ASSUME NEW v \in Watchdog, Expire(v) PROVE ReportInv'
  <2>1. \A w \in Watchdog : timeouts'[w] = IF w = v THEN timeouts[w] + 1 ELSE timeouts[w]
    BY <1>1, <1>4, ExpireDoes
  <2>2. logic \in LogicConfigs /\ logic.timeout_limit \in Nat
    BY LogicType DEF TypeOK
  <2>3. CASE /\ timeouts[v] < logic.timeout_limit
             /\ offlines' = [offlines EXCEPT ![v] = offlines[v] + 1]
    <3>1. \A w \in Watchdog : offlines'[w] = IF w = v THEN offlines[w] + 1 ELSE offlines[w]
      BY <1>1, <2>3
    <3>2. Counted'
      BY <1>1, <2>1, <3>1 DEF ReportInv, Counted
    <3>3. offlines[v] + 1 <= logic.timeout_limit
      BY <1>1, <2>2, <2>3 DEF ReportInv, Counted
    <3>4. OfflineBudget'
      BY <2>2, <3>1, <3>3 DEF ReportInv, OfflineBudget
    <3>5. ReturnIsNews'
      BY <1>1, <2>1, <3>1 DEF ReportInv, ReturnIsNews
    <3> QED
      BY <3>2, <3>4, <3>5 DEF ReportInv
  <2>4. CASE ~(timeouts[v] < logic.timeout_limit) /\ UNCHANGED offlines
    <3>1. Counted'
      BY <1>1, <2>1, <2>4 DEF ReportInv, Counted
    <3>2. OfflineBudget'
      BY <2>4 DEF ReportInv, OfflineBudget
    <3>3. ReturnIsNews'
      <4> SUFFICES ASSUME \A c \in LogicConfigs : c.timeout_limit > 0,
                          NEW w \in Watchdog, timeouts'[w] > 0
                   PROVE  offlines'[w] > 0
        BY DEF ReturnIsNews
      <4>1. w = v => timeouts[w] > 0
        BY <1>1, <2>2, <2>4
      <4>2. timeouts[w] > 0
        BY <2>1, <4>1
      <4> QED
        BY <2>4, <4>2 DEF ReportInv, ReturnIsNews
    <3> QED
      BY <3>1, <3>2, <3>3 DEF ReportInv
  <2> QED
    BY <1>4, <2>3, <2>4, ExpireDoes
<1>5. CASE OnTimeout
  BY <1>2, <1>4, <1>5, TimeoutDoes
<1>6. ASSUME NEW m \in Messages, HandleState(m) PROVE ReportInv'
  BY <1>3, <1>6, StatePets
<1> QED
  BY <1>2, <1>5, <1>6, WatchdogSteps DEF TimerExpires, HandleError

LEMMA ReportInvariant == Spec => []ReportInv
<1>1. Init => ReportInv
  <2> SUFFICES ASSUME Init PROVE ReportInv
    OBVIOUS
  <2>1. \A w \in Watchdog : timeouts[w] = 0 /\ offlines[w] = 0
    BY DEF Init
  <2>2. \E c \in LogicConfigs : 0 <= c.timeout_limit
    BY LogicType DEF Init
  <2> QED
    BY <2>1, <2>2 DEF ReportInv, Counted, OfflineBudget, ReturnIsNews
<1>2. LoopInv => TypeOK
  BY DEF LoopInv
<1> QED
  BY <1>1, <1>2, LoopInvariant, ReportStep, PTL DEF Spec

(* A watchdog reports Offline at most as often as a limit allows, between  *)
(* two state messages of its machine.                                      *)
THEOREM ReportsWithinLimit == Spec => []OfflineBudget
<1>1. ReportInv => OfflineBudget
  BY DEF ReportInv
<1> QED
  BY <1>1, ReportInvariant, PTL

(* With limits above 0, a watchdog that would report Online has reported   *)
(* Offline before.                                                         *)
THEOREM OnlineIsNews == Spec => []ReturnIsNews
<1>1. ReportInv => ReturnIsNews
  BY DEF ReportInv
<1> QED
  BY <1>1, ReportInvariant, PTL

-----------------------------------------------------------------------------
(* Winter mode.  What was told depends on the step before, so that nothing *)
(* may have been told before a first step is known, nor after a step that  *)
(* is neither winter mode nor its end.                                     *)

Agrees(id) ==
  /\ msMap[id] \notin {0} \cup Winter => winterTold[id] = None
  /\ msMap[id] = 0 => winterTold[id] # "pump_on"
  /\ msMap[id] \in Winter => winterTold[id] # "pump_off"

WinterInv == \A id \in Ids : Agrees(id)

(* Only a state message that parses changes what is known and told.        *)
LEMMA WinterKept ==
  ASSUME [Next]_vars, ~\E m \in Messages : HandleState(m)
  PROVE  UNCHANGED <<msMap, winterTold>>
<1>1. CASE UNCHANGED vars
  BY <1>1 DEF vars, deviceVars
<1>2. CASE Next
  <2>1. CASE HandleMessage
    BY <2>1 DEF HandleMessage, HandleAlarm, HandleIn, HandleOut, HandleOther,
                HandleUnregistered, HandleMissingTheme, deviceVars
  <2>2. CASE ~HandleMessage
    BY <1>2, <2>2 DEF Next, TimerExpires, MessageArrives, ReceiveFails, RetryTimerExpires,
       Completes, BrokerStatusChanges, ConfigChanges, MachineFallsSilent, OnTimeout,
       HandleError, HandleRetry, deviceVars
  <2> QED
    BY <2>1, <2>2
<1> QED
  BY <1>1, <1>2

LEMMA WinterStep == TypeOK /\ WinterInv /\ [Next]_vars => WinterInv'
<1> SUFFICES ASSUME TypeOK, WinterInv, [Next]_vars, NEW id \in Ids
             PROVE  Agrees(id)'
  BY DEF WinterInv
<1>1. Agrees(id)
  BY DEF WinterInv
<1>2. CASE UNCHANGED <<msMap[id], winterTold[id]>>
  BY <1>1, <1>2 DEF Agrees
<1>3. CASE ~\E m \in Messages : HandleState(m)
  BY <1>2, <1>3, WinterKept
<1>4. None # "pump_on" /\ None # "pump_off"
  BY ConstantsAssumption DEF AlertStates
<1>5. ASSUME NEW m \in Messages, HandleState(m), ~UNCHANGED <<msMap[id], winterTold[id]>>
      PROVE  Agrees(id)'
  <2> DEFINE step == m.val % 65536
             news == PumpNews(msMap[id], step)
  <2>1. m.val # None
    BY <1>5 DEF HandleState
  <2>2. /\ msMap' = [msMap EXCEPT ![m.id] = step]
        /\ winterTold' = [winterTold EXCEPT
             ![m.id] = IF PumpNews(msMap[m.id], step) # None \/ step \notin {0} \cup Winter
                       THEN PumpNews(msMap[m.id], step) ELSE @]
    BY <1>5, <2>1 DEF HandleState
  <2>3. DOMAIN msMap = Ids /\ DOMAIN winterTold = Ids
    BY DEF TypeOK
  <2> HIDE DEF step
  <2>4. m.id = id
    BY <1>5, <2>2, <2>3
  <2>5. /\ msMap'[id] = step
        /\ winterTold'[id] = IF news # None \/ step \notin {0} \cup Winter
                             THEN news ELSE winterTold[id]
    BY <2>2, <2>3, <2>4
  <2>6. CASE step \notin {0} \cup Winter
    <3>1. news = None
      BY <2>6 DEF PumpNews
    <3> QED
      BY <2>5, <2>6, <3>1 DEF Agrees
  <2>7. CASE step = 0
    BY <1>1, <1>4, <2>5, <2>7 DEF Agrees, PumpNews, Winter
  <2>8. CASE step \in Winter
    BY <1>1, <1>4, <2>5, <2>8 DEF Agrees, PumpNews, Winter
  <2> QED
    BY <2>6, <2>7, <2>8
<1> QED
  BY <1>2, <1>3, <1>5

LEMMA WinterInit == Init => WinterInv
<1>1. None # 0 /\ None # 1 /\ None # 2
  BY ConstantsAssumption
<1> QED
  BY <1>1 DEF Init, WinterInv, Agrees, Winter

(* Whatever steps machines report, the last winter mode alert agrees with  *)
(* the last known step, up to a step that is neither winter mode nor its   *)
(* end.                                                                    *)
THEOREM WinterAlertsAgree == Spec => []WinterToldIsState
<1>1. WinterInv => WinterToldIsState
  BY DEF WinterInv, Agrees, WinterToldIsState
<1>2. LoopInv => TypeOK
  BY DEF LoopInv
<1> QED
  BY <1>1, <1>2, WinterInit, WinterStep, LoopInvariant, PTL DEF Spec

-----------------------------------------------------------------------------
(* Offline and Online.  That the watchdog which made a name offline still  *)
(* counts is inductive together with the names it reports under            *)
(* (RememberedInv); dropped watchdogs, which nobody pets, are left out of  *)
(* the theorem.  That it is the watchdog messages reach is another matter: *)
(* in the first session it follows from what else could have reported it,  *)
(* which is nothing but the watchdogs of that session (NobodyElse), of     *)
(* which a machine has one.                                                *)

Raised(n) ==
  /\ alertMap[n].by \in Watchdog
  /\ logic.name[alertMap[n].by.id] = n
  /\ timeouts[alertMap[n].by] > 0

RememberedInv ==
  NamesAreKept =>
    \A n \in Names : alertMap[n] # None /\ alertMap[n].state = "offline" => Raised(n)

(* What a step does to the counts and to what is shown.                    *)
LEMMA ReportSteps ==
  ASSUME TypeOK, [Next]_vars
  PROVE  \/ \E v \in Watchdog : Expire(v)
         \/ \E v \in Watchdog : Pet(v)
         \/ /\ UNCHANGED timeouts
            /\ \A n \in Names : alertMap'[n] # alertMap[n] => alertMap'[n].state # "offline"
<1> DEFINE Quiet == /\ UNCHANGED timeouts
                    /\ \A n \in Names : alertMap'[n] # alertMap[n] => alertMap'[n].state # "offline"
<1>1. ASSUME UNCHANGED <<timeouts, alertMap>> PROVE Quiet
  BY <1>1
<1>2. ASSUME NEW m \in Messages, HandleAlarm(m) PROVE Quiet
  <2> DEFINE x == AlarmAlert(m, m.val % 65536)
  <2>1. UNCHANGED timeouts /\ (UNCHANGED alertMap \/ Remember(x))
    BY <1>2 DEF HandleAlarm
  <2>2. x.state # "offline"
    BY DEF AlarmAlert
  <2> HIDE DEF x
  <2>3. Remember(x) => \A n \in Names : alertMap'[n] # alertMap[n] => alertMap'[n] = x
    BY DEF Remember, TypeOK
  <2> QED
    BY <2>1, <2>2, <2>3
<1>3. CASE OnTimeout
  <2>1. /\ Head(ready).w \in Watchdog
        /\ Expire(Head(ready).w) \/ UNCHANGED <<timeouts, alertMap>>
    BY <1>3, TimeoutDoes DEF OnTimeout, ReportNothing
  <2> QED
    BY <1>1, <2>1
<1>4. ASSUME NEW m \in Messages, HandleState(m) PROVE \E v \in Watchdog : Pet(v)
  BY <1>4, StatePets
<1>5. CASE HandleMessage
  <2>1. PICK m \in Messages :
          \/ HandleState(m) \/ HandleAlarm(m) \/ HandleIn(m) \/ HandleOut(m)
          \/ HandleOther(m) \/ HandleUnregistered(m) \/ HandleMissingTheme(m)
    BY <1>5 DEF HandleMessage
  <2>2. HandleState(m) \/ HandleAlarm(m) \/ UNCHANGED <<timeouts, alertMap>>
    BY <2>1 DEF HandleIn, HandleOut, HandleOther, HandleUnregistered, HandleMissingTheme,
                watchdogVars
  <2> QED
    BY <1>1, <1>2, <1>4, <2>2
<1>6. CASE ~OnTimeout /\ ~HandleMessage
  <2>1. UNCHANGED <<timeouts, alertMap>>
    BY <1>6 DEF Next, vars, TimerExpires, MessageArrives, ReceiveFails, RetryTimerExpires,
       Completes, BrokerStatusChanges, ConfigChanges, MachineFallsSilent, HandleError,
       HandleRetry, watchdogVars
  <2> QED
    BY <1>1, <2>1
<1> QED
  BY <1>3, <1>5, <1>6

LEMMA RememberedStep == TypeOK /\ TypeOK' /\ RememberedInv /\ [Next]_vars => RememberedInv'
<1> SUFFICES ASSUME TypeOK, TypeOK', RememberedInv, [Next]_vars, NamesAreKept,
                    NEW n \in Names, alertMap'[n] # None, alertMap'[n].state = "offline"
             PROVE  Raised(n)'
  BY DEF RememberedInv, NamesAreKept
<1>1. logic'.name = logic.name
  BY DEF NamesAreKept, TypeOK
<1>2. timeouts \in [Watchdog -> Nat] /\ alertMap \in [Names -> Alert \cup {None}]
  BY DEF TypeOK
<1>3. alertMap[n] = alertMap'[n] => Raised(n)
  BY DEF RememberedInv
<1>4. ASSUME NEW v \in Watchdog, Expire(v) PROVE Raised(n)'
  <2>1. \A w \in Watchdog : timeouts'[w] = IF w = v THEN timeouts[w] + 1 ELSE timeouts[w]
    BY <1>2, <1>4, ExpireDoes
  <2>2. CASE alertMap'[n] = alertMap[n]
    BY <1>1, <1>2, <1>3, <2>1, <2>2 DEF Raised
  <2>3. CASE alertMap'[n] # alertMap[n]
    <3>1. Remember(Report("offline", v))
      BY <1>4, <2>3 DEF Expire, ReportOffline, ReportNothing
    <3>2. n = Report("offline", v).name /\ alertMap'[n] = Report("offline", v)
      BY <1>2, <2>3, <3>1 DEF Remember
    <3>3. alertMap'[n].by = v /\ logic.name[v.id] = n
      BY <3>2 DEF Report
    <3>4. timeouts'[v] > 0
      BY <1>2, <2>1
    <3> QED
      BY <1>1, <3>3, <3>4 DEF Raised
  <2> QED
    BY <2>2, <2>3
<1>5. ASSUME NEW v \in Watchdog, Pet(v) PROVE Raised(n)'
  <2> DEFINE x == Report("online", v)
  <2>1. /\ timeouts' = [timeouts EXCEPT ![v] = 0]
        /\ IF timeouts[v] > 0 THEN Remember(x) ELSE UNCHANGED alertMap
    BY <1>5 DEF Pet, Petted
  <2>2. x.state = "online" /\ x.name = logic.name[v.id]
    BY DEF Report
  <2> HIDE DEF x
  <2>3. alertMap'[n] # x
    BY <2>2
  <2>4. alertMap'[n] = alertMap[n] /\ (timeouts[v] > 0 => n # logic.name[v.id])
    BY <1>2, <2>1, <2>2, <2>3 DEF Remember
  <2>5. Raised(n)
    BY <1>3, <2>4
  <2>6. alertMap[n].by # v
    BY <2>4, <2>5 DEF Raised
  <2>7. timeouts'[alertMap[n].by] = timeouts[alertMap[n].by]
    BY <1>2, <2>1, <2>5, <2>6 DEF Raised
  <2> QED
    BY <1>1, <2>4, <2>5, <2>7 DEF Raised
<1>6. CASE /\ UNCHANGED timeouts
           /\ \A k \in Names : alertMap'[k] # alertMap[k] => alertMap'[k].state # "offline"
  BY <1>1, <1>3, <1>6 DEF Raised
<1> QED
  BY <1>4, <1>5, <1>6, ReportSteps

LEMMA RememberedInvariant == Spec => []RememberedInv
<1>1. Init => RememberedInv
  BY DEF Init, RememberedInv
<1>2. LoopInv => TypeOK
  BY DEF LoopInv
<1> QED
  BY <1>1, <1>2, LoopInvariant, RememberedStep, PTL DEF Spec

(* While names are kept, also names that machines share, the watchdog that *)
(* made a name offline still counts its timeouts, unless it was dropped by *)
(* a new subscription.                                                     *)
THEOREM OfflineHasAWatchdog == Spec => []OfflineIsRemembered
<1>1. RememberedInv => OfflineIsRemembered
  BY DEF RememberedInv, Raised, OfflineIsRemembered
<1> QED
  BY <1>1, RememberedInvariant, PTL

-----------------------------------------------------------------------------
(* Sessions.                                                               *)

(* The watchdogs of the session were made from a value the topics had.     *)
Subscribed == \E t \in TopicLists : watchdogs = NewWatchdogs(t, session)

OfSession == \A w \in Current : w.session = session

Active(w) == w \in armed \/ TimedOut(w)

LEMMA CurrentIs ==
  ASSUME TypeOK, Subscribed
  PROVE  /\ OfSession
         /\ TopicsDiffer => \A v, w \in Current : v.id = w.id => v = w
<1>1. PICK t \in TopicLists : watchdogs = NewWatchdogs(t, session)
  BY DEF Subscribed
<1>2. /\ DOMAIN watchdogs = CreatedFor(t) /\ CreatedFor(t) \subseteq 1..Len(t)
      /\ \A i \in CreatedFor(t) : watchdogs[i] = [session |-> session, slot |-> i, id |-> t[i]]
  BY <1>1 DEF NewWatchdogs, CreatedFor
<1>3. \A i \in CreatedFor(t) : t[i] # Malformed
  BY ConstantsAssumption DEF CreatedFor
<1>4. OfSession
  BY <1>2 DEF OfSession, Current, Objects
<1>5. ASSUME TopicsDiffer, NEW v \in Current, NEW w \in Current, v.id = w.id
      PROVE  v = w
  <2>1. PICK i \in CreatedFor(t) : v = [session |-> session, slot |-> i, id |-> t[i]]
    BY <1>2 DEF Current, Objects
  <2>2. PICK j \in CreatedFor(t) : w = [session |-> session, slot |-> j, id |-> t[j]]
    BY <1>2 DEF Current, Objects
  <2>3. t[i] = t[j]
    BY <1>5, <2>1, <2>2
  <2>4. i = j
    BY <1>1, <1>2, <1>3, <1>5, <2>3 DEF TopicsDiffer
  <2> QED
    BY <2>1, <2>2, <2>4
<1> QED
  BY <1>4, <1>5

(* What a step does to the queue.                                          *)
LEMMA QueueSteps ==
  ASSUME TypeOK, [Next]_vars
  PROVE  \/ UNCHANGED ready
         \/ ready # <<>> /\ ready' = Tail(ready)
         \/ \E e \in Handlers :
              /\ ready' = Append(ready, e)
              /\ e.h = "timeout" => e.w \in armed
<1>1. ASSUME NEW w \in Watchdog, TimerExpires(w)
      PROVE  \E e \in Handlers : ready' = Append(ready, e) /\ (e.h = "timeout" => e.w \in armed)
  <2>1. [h |-> "timeout", w |-> w] \in Handlers
    BY HandlerMade
  <2> QED
    BY <1>1, <2>1 DEF TimerExpires
<1>2. ASSUME \/ \E m \in Messages : MessageArrives(m)
             \/ \E expired \in BOOLEAN : ReceiveFails(expired)
             \/ RetryTimerExpires
      PROVE  \E e \in Handlers : ready' = Append(ready, e) /\ (e.h = "timeout" => e.w \in armed)
  <2>1. PICK e \in Handlers : ready' = Append(ready, e) /\ e.h # "timeout"
    BY <1>2, HandlerMade DEF MessageArrives, ReceiveFails, RetryTimerExpires, Completes
  <2> QED
    BY <2>1
<1>3. ASSUME OnTimeout \/ HandleMessage \/ HandleError \/ HandleRetry
      PROVE  ready # <<>> /\ ready' = Tail(ready)
  <2>1. CASE HandleMessage
    <3>1. PICK m \in Messages :
            \/ HandleState(m) \/ HandleAlarm(m) \/ HandleIn(m) \/ HandleOut(m)
            \/ HandleOther(m) \/ HandleUnregistered(m) \/ HandleMissingTheme(m)
      BY <2>1 DEF HandleMessage
    <3>2. ready # <<>> /\ (ReceiveNext \/ ready' = Tail(ready))
      BY <3>1 DEF HandleState, HandleAlarm, HandleIn, HandleOut, HandleOther,
                  HandleUnregistered, HandleMissingTheme, Handling
    <3> QED
      BY <3>2 DEF ReceiveNext
  <2>2. CASE OnTimeout \/ HandleError \/ HandleRetry
    BY <2>2 DEF OnTimeout, ReceiveNext, HandleError, HandleRetry
  <2> QED
    BY <1>3, <2>1, <2>2
<1>4. ASSUME BrokerStatusChanges \/ ConfigChanges \/ (\E id \in Ids : MachineFallsSilent(id))
             \/ UNCHANGED vars
      PROVE  UNCHANGED ready
  BY <1>4 DEF BrokerStatusChanges, ConfigChanges, MachineFallsSilent, vars, loopVars
<1> QED
  BY <1>1, <1>2, <1>3, <1>4 DEF Next

(* A timeout gets into the queue by the expiry of a timer only.            *)
LEMMA TimedOutComes ==
  ASSUME TypeOK, [Next]_vars, NEW w, TimedOut(w)'
  PROVE  Active(w)
<1>1. PICK k \in DOMAIN ready' : ready'[k].h = "timeout" /\ ready'[k].w = w
  BY DEF TimedOut
<1>2. CASE UNCHANGED ready
  BY <1>1, <1>2 DEF Active, TimedOut
<1>3. CASE ready # <<>> /\ ready' = Tail(ready)
  <2>1. k + 1 \in DOMAIN ready /\ ready'[k] = ready[k + 1]
    BY <1>1, <1>3, TakenQueue DEF TypeOK
  <2> QED
    BY <1>1, <2>1 DEF Active, TimedOut
<1>4. ASSUME NEW e \in Handlers, ready' = Append(ready, e), e.h = "timeout" => e.w \in armed
      PROVE  Active(w)
  <2>1. /\ DOMAIN ready' = 1..(Len(ready) + 1) /\ DOMAIN ready = 1..Len(ready)
        /\ Len(ready) \in Nat
        /\ \A i \in DOMAIN ready : ready'[i] = ready[i]
        /\ ready'[Len(ready) + 1] = e
    BY <1>4, AppendedQueue DEF TypeOK
  <2>2. k \in DOMAIN ready \/ k = Len(ready) + 1
    BY <2>1
  <2> QED
    BY <1>1, <1>4, <2>1, <2>2 DEF Active, TimedOut
<1> QED
  BY <1>2, <1>3, <1>4, QueueSteps

(* A watchdog becomes active by a message of its machine, if it is the one *)
(* messages reach, or by a new subscription; and it counts timeouts only   *)
(* while it is active.                                                     *)
LEMMA SessionSteps ==
  ASSUME TypeOK, Subscribed, [Next]_vars
  PROVE  /\ \/ UNCHANGED <<session, watchdogs>>
            \/ session' = session + 1 /\ watchdogs' = NewWatchdogs(topic, session + 1)
         /\ \A w \in Watchdog :
              Active(w)' => Active(w) \/ w \in Current \/ (session' = session + 1 /\ w \in Current')
         /\ \A w \in Watchdog : timeouts'[w] > 0 => timeouts[w] > 0 \/ TimedOut(w)
<1>1. \/ UNCHANGED <<session, watchdogs>>
      \/ session' = session + 1 /\ watchdogs' = NewWatchdogs(topic, session + 1)
  <2>1. CASE HandleMessage
    BY <2>1 DEF HandleMessage, HandleState, HandleAlarm, HandleIn, HandleOut, HandleOther,
       HandleUnregistered, HandleMissingTheme, ReceiveNext, watchdogVars
  <2>2. CASE ~HandleMessage
    BY <2>2 DEF Next, vars, TimerExpires, MessageArrives, ReceiveFails, RetryTimerExpires,
       Completes, BrokerStatusChanges, ConfigChanges, MachineFallsSilent, OnTimeout,
       HandleError, Resubscribe, HandleRetry, ReceiveNext, watchdogVars
  <2> QED
    BY <2>1, <2>2
<1>2. \A w \in Watchdog :
        /\ w \in armed'
             => Active(w) \/ w \in Current \/ (session' = session + 1 /\ w \in Current')
        /\ timeouts'[w] > 0 => timeouts[w] > 0 \/ TimedOut(w)
  <2> SUFFICES ASSUME NEW w \in Watchdog
               PROVE  /\ w \in armed'
                           => Active(w) \/ w \in Current \/ (session' = session + 1 /\ w \in Current')
                      /\ timeouts'[w] > 0 => timeouts[w] > 0 \/ TimedOut(w)
    OBVIOUS
  <2>1. CASE OnTimeout
    <3> DEFINE v == Head(ready).w
    <3>1. /\ TimedOut(v) /\ v \in Watchdog
          /\ Expire(v) \/ (armed' = armed \cup {v} /\ UNCHANGED timeouts)
      BY <2>1, TimeoutDoes, TakenQueue DEF TimedOut, TypeOK
    <3> HIDE DEF v
    <3>2. CASE Expire(v)
      <4>1. armed' \subseteq armed \cup {v}
            /\ timeouts' = [timeouts EXCEPT ![v] = timeouts[v] + 1]
        BY <3>1, <3>2, ExpireDoes
      <4>2. w # v => timeouts'[w] = timeouts[w]
        BY <3>1, <4>1 DEF TypeOK
      <4> QED
        BY <3>1, <4>1, <4>2 DEF Active
    <3>3. CASE armed' = armed \cup {v} /\ UNCHANGED timeouts
      BY <3>1, <3>3 DEF Active
    <3> QED
      BY <3>1, <3>2, <3>3
  <2>2. ASSUME NEW m \in Messages, HandleState(m)
        PROVE  /\ w \in armed' => Active(w) \/ w \in Current
               /\ timeouts'[w] > 0 => timeouts[w] > 0
    <3> DEFINE v == WatchdogOf(m.id)
    <3>1. v \in Watchdog /\ Pet(v) /\ v \in Current
      BY <2>2, StatePets, WatchdogOfIs DEF HandleState, Handling, Current, TypeOK
    <3> HIDE DEF v
    <3>2. armed' = armed \cup {v} /\ timeouts' = [timeouts EXCEPT ![v] = 0]
      BY <3>1 DEF Pet, Petted, StartTimer
    <3>3. timeouts'[w] = IF w = v THEN 0 ELSE timeouts[w]
      BY <3>2 DEF TypeOK
    <3> QED
      BY <3>1, <3>2, <3>3 DEF Active
  <2>3. CASE HandleError
    BY <2>3 DEF HandleError, Resubscribe, Current, Active
  <2>4. ASSUME NEW v \in Watchdog, TimerExpires(v)
        PROVE  w \in armed' => w \in armed /\ (timeouts'[w] > 0 => timeouts[w] > 0)
    BY <2>4 DEF TimerExpires
  <2>5. ASSUME NEW v \in Watchdog, TimerExpires(v)
        PROVE  timeouts'[w] > 0 => timeouts[w] > 0
    BY <2>5 DEF TimerExpires
  <2> QED
    BY <2>1, <2>2, <2>3, <2>4, <2>5, WatchdogSteps DEF Active
<1>3. \A w \in Watchdog :
        Active(w)' => Active(w) \/ w \in Current \/ (session' = session + 1 /\ w \in Current')
  <2>1. ASSUME NEW w \in Watchdog, TimedOut(w)' PROVE Active(w)
    BY <2>1, TimedOutComes
  <2>2. \A w \in Watchdog : Active(w)' => w \in armed' \/ TimedOut(w)'
    BY DEF Active
  <2> QED
    BY <1>2, <2>1, <2>2
<1> QED
  BY <1>1, <1>2, <1>3

LEMMA SubscribedStep == TypeOK /\ Subscribed /\ [Next]_vars => Subscribed'
<1> SUFFICES ASSUME TypeOK, Subscribed, [Next]_vars PROVE Subscribed'
  OBVIOUS
<1>1. topic \in TopicLists
  BY DEF TypeOK
<1> QED
  BY <1>1, SessionSteps DEF Subscribed

LEMMA SubscribedInvariant == Spec => [](TypeOK /\ Subscribed /\ OfSession)
<1>1. Init => Subscribed
  BY DEF Init, Subscribed
<1>2. LoopInv => TypeOK
  BY DEF LoopInv
<1>3. TypeOK /\ Subscribed => OfSession
  BY CurrentIs
<1> QED
  BY <1>1, <1>2, <1>3, LoopInvariant, SubscribedStep, PTL DEF Spec

(* A dropped watchdog without a wait stays so: whatever becomes active is  *)
(* of the current session or was active before.                            *)
THEOREM RetiredIsDead == Spec => RetiredStaysDead
<1>1. TypeOK /\ Subscribed /\ OfSession /\ OfSession' /\ [Next]_vars
        => [\A w \in Watchdog : Retired(w) => Retired(w)']_vars
  <2> SUFFICES ASSUME TypeOK, Subscribed, OfSession, OfSession', [Next]_vars,
                      NEW w \in Watchdog, Retired(w)
               PROVE  Retired(w)'
    OBVIOUS
  <2>1. w.session < session /\ ~Active(w) /\ w.session \in Nat /\ session \in Nat
    BY ConstantsAssumption DEF Retired, Active, Watchdog, TypeOK
  <2>2. w \notin Current
    BY <2>1 DEF OfSession
  <2>3. session' = session \/ session' = session + 1
    BY SessionSteps
  <2>4. w.session < session'
    BY <2>1, <2>3
  <2>5. w \notin Current'
    BY <2>1, <2>4 DEF OfSession
  <2>6. ~Active(w)'
    BY <2>1, <2>2, <2>5, SessionSteps
  <2> QED
    BY <2>4, <2>6 DEF Retired, Active
<1> QED
  BY <1>1, SubscribedInvariant, PTL DEF Spec, RetiredStaysDead

(* In the first session nobody but the watchdogs of that session counts.   *)
NobodyElse ==
  session = 0 => \A w \in Watchdog : Active(w) \/ timeouts[w] > 0 => w \in Current

LEMMA NobodyElseStep ==
  TypeOK /\ Subscribed /\ NobodyElse /\ [Next]_vars => NobodyElse'
<1> SUFFICES ASSUME TypeOK, Subscribed, NobodyElse, [Next]_vars, session' = 0,
                    NEW w \in Watchdog, Active(w)' \/ timeouts'[w] > 0
             PROVE  w \in Current'
  BY DEF NobodyElse
<1>1. session' # session + 1
  BY DEF TypeOK
<1>2. session = 0 /\ Current' = Current
  BY <1>1, SessionSteps DEF Current
<1>3. Active(w) \/ w \in Current \/ timeouts[w] > 0
  BY <1>1, SessionSteps DEF Active
<1> QED
  BY <1>2, <1>3 DEF NobodyElse

LEMMA NobodyElseInit == Init => NobodyElse
BY DEF Init, NobodyElse, Active, TimedOut, Current

(* Until a session expires, and with every machine listed once under a     *)
(* name of its own, a machine shown as offline is reported back by its     *)
(* next state message.                                                     *)
THEOREM OfflineIsLifted ==
  ASSUME NamesAreKept, NamesDiffer, TopicsDiffer
  PROVE  Spec => [](session = 0 => OfflineWillBeLifted)
<1>1. /\ TypeOK /\ Subscribed /\ NobodyElse /\ RememberedInv /\ session = 0
      => OfflineWillBeLifted
  <2> SUFFICES ASSUME TypeOK, Subscribed, NobodyElse, RememberedInv, session = 0,
                      NEW id \in Ids, Watched(id), alertMap[logic.name[id]] # None,
                      alertMap[logic.name[id]].state = "offline"
               PROVE  timeouts[WatchdogOf(id)] > 0
    BY DEF OfflineWillBeLifted
  <2>1. logic \in LogicConfigs /\ logic.name[id] \in Names
    BY LogicType DEF TypeOK
  <2>2. PICK w \in Watchdog : logic.name[w.id] = logic.name[id] /\ timeouts[w] > 0
    BY <2>1 DEF RememberedInv, Raised
  <2>3. w.id = id
    BY <2>1, <2>2 DEF NamesDiffer, Watchdog
  <2>4. w \in Current
    BY <2>2 DEF NobodyElse
  <2>5. WatchdogOf(id) \in Current /\ WatchdogOf(id).id = id
    BY WatchdogOfIs DEF TypeOK, Current
  <2>6. WatchdogOf(id) = w
    BY <2>3, <2>4, <2>5, CurrentIs
  <2> QED
    BY <2>2, <2>6
<1> QED
  BY <1>1, SubscribedInvariant, RememberedInvariant, NobodyElseInit, NobodyElseStep, PTL
  DEF Spec

-----------------------------------------------------------------------------
(* The receive loop is never lost.  That there are not two receive         *)
(* operations plays no part in it.                                         *)

AllWellFormed == /\ \A m \in Messages : m.theme # "missing"
                 /\ \A t \in TopicLists : WellFormed(t)

Looping == receiving > 0 \/ retrying \/ \E i \in DOMAIN ready : InChain(i)

LEMMA LoopingAppended ==
  ASSUME TypeOK, NEW e \in Handlers, ready' = Append(ready, e)
  PROVE  /\ e.h \in Chain => Looping'
         /\ Looping /\ UNCHANGED <<receiving, retrying>> => Looping'
<1>1. /\ DOMAIN ready' = 1..(Len(ready) + 1) /\ DOMAIN ready = 1..Len(ready)
      /\ Len(ready) \in Nat
      /\ \A i \in DOMAIN ready : ready'[i] = ready[i]
      /\ ready'[Len(ready) + 1] = e
  BY AppendedQueue DEF TypeOK
<1>2. Len(ready) + 1 \in DOMAIN ready' /\ DOMAIN ready \subseteq DOMAIN ready'
  BY <1>1
<1>3. e.h \in Chain => Looping'
  BY <1>1, <1>2 DEF Looping, InChain, Chain
<1>4. Looping /\ UNCHANGED <<receiving, retrying>> => Looping'
  BY <1>1, <1>2 DEF Looping, InChain
<1> QED
  BY <1>3, <1>4

LEMMA LoopingTaken ==
  ASSUME TypeOK, Looping, ready # <<>>, Head(ready).h \notin Chain, ready' = Tail(ready),
         UNCHANGED <<receiving, retrying>>
  PROVE  Looping'
<1>1. /\ Head(ready) = ready[1]
      /\ \A i \in DOMAIN ready : i # 1 => i - 1 \in DOMAIN ready' /\ ready'[i - 1] = ready[i]
  BY TakenQueue DEF TypeOK
<1>2. \A i \in DOMAIN ready : InChain(i) => i # 1
  BY <1>1 DEF InChain, Chain
<1> QED
  BY <1>1, <1>2 DEF Looping, InChain

LEMMA LoopingStep ==
  ASSUME AllWellFormed
  PROVE  TypeOK /\ Looping /\ [Next]_vars => Looping'
<1> SUFFICES ASSUME TypeOK, Looping, [Next]_vars PROVE Looping'
  OBVIOUS
<1>1. ASSUME NEW w \in Watchdog, TimerExpires(w) PROVE Looping'
  <2>1. [h |-> "timeout", w |-> w] \in Handlers
    BY HandlerMade
  <2> QED
    BY <1>1, <2>1, LoopingAppended DEF TimerExpires
<1>2. ASSUME \/ \E m \in Messages : MessageArrives(m)
             \/ \E expired \in BOOLEAN : ReceiveFails(expired)
             \/ RetryTimerExpires
      PROVE  Looping'
  <2>1. PICK e \in Handlers : ready' = Append(ready, e) /\ e.h \in Chain
    BY <1>2, HandlerMade DEF MessageArrives, ReceiveFails, RetryTimerExpires, Completes, Chain
  <2> QED
    BY <2>1, LoopingAppended
<1>3. CASE OnTimeout
  <2>1. /\ ready # <<>> /\ Head(ready).h = "timeout" /\ ready' = Tail(ready)
        /\ UNCHANGED <<receiving, retrying>>
    BY <1>3 DEF OnTimeout
  <2> QED
    BY <2>1, LoopingTaken DEF Chain
<1>4. CASE HandleMessage \/ HandleRetry
  <2>1. ReceiveNext
    <3>1. ASSUME NEW m \in Messages PROVE ~HandleMissingTheme(m)
      BY DEF AllWellFormed, HandleMissingTheme
    <3>2. ASSUME NEW m \in Messages,
                 HandleState(m) \/ HandleAlarm(m) \/ HandleIn(m) \/ HandleOut(m)
                   \/ HandleOther(m) \/ HandleUnregistered(m)
          PROVE  ReceiveNext
      BY <3>2 DEF HandleState, HandleAlarm, HandleIn, HandleOut, HandleOther,
                  HandleUnregistered
    <3> QED
      BY <1>4, <3>1, <3>2 DEF HandleMessage, HandleRetry
  <2> QED
    BY <2>1 DEF ReceiveNext, Looping, TypeOK
<1>5. CASE HandleError
  <2>1. WellFormed(topic)
    BY DEF AllWellFormed, TypeOK
  <2> QED
    BY <1>5, <2>1 DEF HandleError, Looping
<1>6. CASE BrokerStatusChanges \/ ConfigChanges \/ (\E id \in Ids : MachineFallsSilent(id))
             \/ UNCHANGED vars
  <2>1. UNCHANGED <<ready, receiving, retrying>>
    BY <1>6 DEF BrokerStatusChanges, ConfigChanges, MachineFallsSilent, vars, loopVars
  <2> QED
    BY <2>1 DEF Looping, InChain
<1> QED
  BY <1>1, <1>2, <1>3, <1>4, <1>5, <1>6 DEF Next

(* If no topic is malformed and no message lacks its theme, something      *)
(* always leads to the next async_receive, whatever fails and however the  *)
(* configuration is edited.                                                *)
THEOREM LoopIsNeverLost == Spec => []ReceiverAlive
<1>1. CASE AllWellFormed
  <2>1. Init => Looping
    BY <1>1 DEF Init, AllWellFormed, Looping
  <2>2. TypeOK /\ Looping /\ [Next]_vars => Looping'
    BY <1>1, LoopingStep
  <2>3. LoopInv => TypeOK
    BY DEF LoopInv
  <2>4. Looping => ReceiverAlive
    BY DEF Looping, ReceiverAlive
  <2> QED
    BY <2>1, <2>2, <2>3, <2>4, LoopInvariant, PTL DEF Spec
<1>2. CASE ~AllWellFormed
  <2>1. ReceiverAlive
    BY <1>2 DEF AllWellFormed, ReceiverAlive
  <2> QED
    BY <2>1, PTL
<1> QED
  BY <1>1, <1>2
=============================================================================
