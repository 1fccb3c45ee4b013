--------------------------- MODULE MachineMonitor ---------------------------
(***************************************************************************)
(* The main thread of MqttSentry: the receive loop of MqttService, one     *)
(* TopicWatchdog per configured topic, and the callbacks through which     *)
(* Application turns what they report into alerts for the Telegram worker  *)
(* and metrics for Graphite.                                               *)
(*                                                                         *)
(* One thread runs the io_context, so a handler is one step.  `ready` is   *)
(* the queue of completed operations.  Cancelling a timer completes a      *)
(* pending wait with operation_aborted, which the watchdog's handler       *)
(* ignores; a wait that has already completed stays queued and is handled. *)
(* Time is left out: a pending wait may complete whenever the bounds       *)
(* allow it.  What the handlers hand over in a step is in `out`.           *)
(***************************************************************************)
EXTENDS Naturals, Sequences, FiniteSets

CONSTANTS
  Ids,           \* machine ids (hmi_id), subscribed to or not
  Names,         \* what resolveHmiName shows for an id
  None,          \* std::nullopt, and a payload that does not parse
  Malformed,     \* a configured topic without a second level
  TopicLists,    \* values the configured topic vector may take
  LogicConfigs,  \* values the logic section of the configuration may take
  Messages,      \* messages the broker may deliver
  MaxTopics,     \* bound: length of a topic vector
  MaxSessions,   \* bound: session expiries
  MaxExpired     \* bound: completed waits of one watchdog in the queue

AlertStates == {"fine", "online", "offline", "error", "pump_on", "pump_off",
                "eco_malfunction"}

Themes == {"state", "alarm_kod", "in_not_fil", "out", "in_filter",
           "time_light_ECO", "unknown", "missing"}

Message == [id : Ids, theme : Themes, val : Nat \cup {None}]

Logic == [timeout_limit : Nat, disabled : SUBSET Nat, known : SUBSET Nat,
          name : [Ids -> Names]]

ASSUME ConstantsAssumption ==
  /\ None \notin AlertStates
  /\ MaxTopics \in Nat /\ MaxSessions \in Nat /\ MaxExpired \in Nat \ {0}
  /\ None \notin Nat /\ Malformed \notin Ids
  /\ LogicConfigs \subseteq Logic
  /\ Messages \subseteq Message
  /\ \A t \in TopicLists : t \in Seq(Ids \cup {Malformed}) /\ Len(t) <= MaxTopics

VARIABLES
  ready,        \* completed operations, by the handler they run
  receiving,    \* async_receive operations under way
  retrying,     \* a wait on _retryTimer is pending
  session,      \* how often _subscribeToTopics has run
  watchdogs,    \* _watchdogs
  armed,        \* watchdogs whose timer has a pending wait
  timeouts,     \* TopicWatchdog::_timeouts
  offlines,     \* history: Offline reports since the watchdog was last petted
  pinging,      \* _pingLoop was started
  isConnected,  \* MqttService::_isConnected, kept by PingLoop
  topic, logic, \* ConfigManager::_mqtt.topic and ::_logic
  alertMap,     \* Application::_alertMap
  msMap,        \* Application::_msMap, the step position only
  winterTold,   \* history: the last winter mode alert for each machine; None
                \* before it, and after a step other than 0, 1 and 2
  mIn, mOut,    \* Application::_mIn (pressure), ::_mOut (an ECO unit runs)
  silent,       \* machines that have stopped sending for good
  out           \* what the last step pushed: alerts, number of metrics

loopVars     == <<ready, receiving, retrying>>
watchdogVars == <<session, watchdogs, armed, timeouts, offlines>>
configVars   == <<topic, logic>>
linkVars     == <<pinging, isConnected>>
deviceVars   == <<msMap, winterTold, mIn, mOut>>
vars == <<loopVars, watchdogVars, linkVars, configVars, alertMap, deviceVars,
          silent, out>>

(* A watchdog object.  It lives on while a handler or a pending wait holds *)
(* it, after the session it was made for has been replaced.                *)
Watchdog == [session : 0..MaxSessions, slot : 1..MaxTopics, id : Ids]

WatchdogLists == UNION {[slots -> Watchdog] : slots \in SUBSET (1..MaxTopics)}

(* by is history: the watchdog that raised an Offline or Online alert.     *)
Alert == [state : AlertStates, name : Names, code : Nat \cup {None},
          by : Watchdog \cup {None}]

History == [current : {0, 1}, previous : {0, 1}]

Handlers ==
  [h : {"timeout"}, w : Watchdog] \cup [h : {"message"}, m : Messages]
    \cup [h : {"error"}, expired : BOOLEAN] \cup [h : {"retry"}]

TypeOK ==
  /\ ready \in Seq(Handlers)
  /\ receiving \in Nat /\ retrying \in BOOLEAN
  /\ session \in 0..MaxSessions
  /\ watchdogs \in WatchdogLists
  /\ armed \in SUBSET Watchdog
  /\ timeouts \in [Watchdog -> Nat]
  /\ offlines \in [Watchdog -> Nat]
  /\ pinging \in BOOLEAN /\ isConnected \in BOOLEAN
  /\ topic \in TopicLists /\ logic \in LogicConfigs
  /\ alertMap \in [Names -> Alert \cup {None}]
  /\ msMap \in [Ids -> Nat \cup {None}]
  /\ winterTold \in [Ids -> {"pump_on", "pump_off", None}]
  /\ mIn \in [Ids -> History \cup {None}]
  /\ mOut \in [Ids -> History \cup {None}]
  /\ silent \in SUBSET Ids
  /\ out \in [alerts : Seq(Alert), metrics : Nat]

Nothing == [alerts |-> <<>>, metrics |-> 0]

-----------------------------------------------------------------------------
(* Subscribing.                                                            *)

(* Watchdogs that are kept by topic and used again.                        *)
ReusedWatchdogs(t, s) ==
  [i \in {j \in 1..Len(t) : \A k \in 1..j : t[k] # Malformed} |->
     [session |-> 0, slot |-> i, id |-> t[i]]]

(* The topics before the first malformed one: split(t, '/').at(1) throws   *)
(* there, with the watchdogs of the topics before it created and started.  *)
WellFormed(t) == \A i \in 1..Len(t) : t[i] # Malformed
CreatedFor(t) == {i \in 1..Len(t) : \A j \in 1..i : t[j] # Malformed}
NewWatchdogs(t, s) ==
  [i \in CreatedFor(t) |-> [session |-> s, slot |-> i, id |-> t[i]]]

Objects(ws) == {ws[i] : i \in DOMAIN ws}

(* MqttService::start: subscribe, then the ping and receive loops.  A      *)
(* malformed topic throws into start's catch block: neither is started.    *)
Init ==
  /\ topic \in TopicLists /\ logic \in LogicConfigs
  /\ session = 0
  /\ watchdogs = NewWatchdogs(topic, 0)
  /\ armed = Objects(watchdogs)
  /\ timeouts = [w \in Watchdog |-> 0]
  /\ offlines = [w \in Watchdog |-> 0]
  /\ receiving = IF WellFormed(topic) THEN 1 ELSE 0
  /\ retrying = FALSE
  /\ ready = <<>>
  /\ pinging = WellFormed(topic)
  /\ isConnected = TRUE
  /\ alertMap = [n \in Names |-> None]
  /\ msMap = [i \in Ids |-> None]
  /\ winterTold = [i \in Ids |-> None]
  /\ mIn = [i \in Ids |-> None]
  /\ mOut = [i \in Ids |-> None]
  /\ silent = {}
  /\ out = Nothing

-----------------------------------------------------------------------------
(* Completions, in the order the io_context queues them.                   *)

TimerExpires(w) ==
  /\ w \in armed
  /\ Cardinality({i \in DOMAIN ready : ready[i] = [h |-> "timeout", w |-> w]})
       < MaxExpired
  /\ armed' = armed \ {w}
  /\ ready' = Append(ready, [h |-> "timeout", w |-> w])
  /\ out' = Nothing
  /\ UNCHANGED <<receiving, retrying, session, watchdogs, timeouts, offlines,
                 linkVars, configVars, alertMap, deviceVars, silent>>

Completes(handler) ==
  /\ ready' = Append(ready, handler)
  /\ out' = Nothing
  /\ UNCHANGED <<watchdogVars, linkVars, configVars, alertMap, deviceVars, silent>>

MessageArrives(m) ==
  /\ receiving > 0 /\ m.id \notin silent
  /\ receiving' = receiving - 1
  /\ Completes([h |-> "message", m |-> m])
  /\ UNCHANGED retrying

(* async_receive fails: the broker lost the session, or another error.     *)
ReceiveFails(expired) ==
  /\ receiving > 0 /\ (expired => session < MaxSessions)
  /\ receiving' = receiving - 1
  /\ Completes([h |-> "error", expired |-> expired])
  /\ UNCHANGED retrying

RetryTimerExpires ==
  /\ retrying
  /\ retrying' = FALSE
  /\ Completes([h |-> "retry"])
  /\ UNCHANGED receiving

-----------------------------------------------------------------------------
(* The other threads and the machines.                                     *)

BrokerStatusChanges ==
  /\ pinging
  /\ isConnected' = ~isConnected
  /\ out' = Nothing
  /\ UNCHANGED <<pinging, loopVars, watchdogVars, configVars, alertMap, deviceVars,
                 silent>>

(* The Telegram thread stores an edited section of the configuration.      *)
ConfigChanges ==
  /\ \/ topic' \in TopicLists /\ UNCHANGED logic
     \/ logic' \in LogicConfigs /\ UNCHANGED topic
  /\ out' = Nothing
  /\ UNCHANGED <<loopVars, watchdogVars, linkVars, alertMap, deviceVars, silent>>

MachineFallsSilent(id) ==
  /\ silent' = silent \cup {id}
  /\ out' = Nothing
  /\ UNCHANGED <<loopVars, watchdogVars, linkVars, configVars, alertMap, deviceVars>>

-----------------------------------------------------------------------------
(* Application's callbacks.                                                *)

Remember(a) == alertMap' = [alertMap EXCEPT ![a.name] = a]

(* OnAlert: what reaches _alertQueue; an alert of the state remembered for *)
(* its machine does not.                                                   *)
Push(a) ==
  IF alertMap[a.name] = None \/ alertMap[a.name].state # a.state THEN <<a>> ELSE <<>>

Event(state, id) ==
  [state |-> state, name |-> logic.name[id], code |-> None, by |-> None]

Report(state, w) ==
  [state |-> state, name |-> logic.name[w.id], code |-> None, by |-> w]

(* OnMachineState: winter mode is steps 1 and 2; what the new step makes   *)
(* of the step known before.                                               *)
Winter == {1, 2}

(* Leaving winter mode is looked for at step 1 only.                       *)
PumpNewsOfStep1(known, step) ==
  IF known = 0 /\ step \in Winter THEN "pump_on"
  ELSE IF known = 1 /\ step = 0 THEN "pump_off" ELSE None

PumpNews(known, step) ==
  IF known = 0 /\ step \in Winter THEN "pump_on"
  ELSE IF known \in Winter /\ step = 0 THEN "pump_off" ELSE None

(* The first report, with 0 for the previous value, and History::update.   *)
Update(hist, v) ==
  IF hist = None THEN [current |-> v, previous |-> 0]
                 ELSE [current |-> v, previous |-> hist.current]

(* OnMachineIn: pressure was lost while an ECO unit ran, now and at the    *)
(* previous report of the outputs.                                         *)
EcoAlerts(id, pressure) ==
  IF /\ mIn[id] # None /\ mOut[id] # None
     /\ mOut[id].current = 1 /\ mOut[id].previous = 1
     /\ pressure = 0 /\ mIn[id].current = 1
  THEN <<Event("eco_malfunction", id)>>
  ELSE <<>>

(* Mapper: the metrics made of a message that parses.                      *)
MetricCount(theme) ==
  CASE theme \in {"state", "alarm_kod"}       -> 1
    [] theme = "time_light_ECO"               -> 2
    [] theme \in {"in_not_fil", "in_filter"}  -> 5
    [] theme = "out"                          -> 6
    [] OTHER                                  -> 0

-----------------------------------------------------------------------------
(* TopicWatchdog.                                                          *)

(* pet() that counts down instead of clearing the count.                   *)
PettedCountsDown(w) ==
  /\ timeouts' = [timeouts EXCEPT ![w] = @ - 1]
  /\ offlines' = [offlines EXCEPT ![w] = 0]

(* pet() clears the count, and with it the reports counted for it.         *)
Petted(w) ==
  /\ timeouts' = [timeouts EXCEPT ![w] = 0]
  /\ offlines' = [offlines EXCEPT ![w] = 0]

(* start_timer(): a pending wait is cancelled and a new one starts.        *)
StartTimer(w) == armed' = armed \cup {w}

(* pet() that forgets to start the timer again.                            *)
PetWithoutStart(w) ==
  /\ Petted(w) /\ armed' = armed \ {w}
  /\ IF timeouts[w] > 0 THEN Remember(Report("online", w)) ELSE UNCHANGED alertMap

(* pet() that clears the count before it looks at it: Online is not told.  *)
PetClearsFirst(w) == Petted(w) /\ StartTimer(w) /\ UNCHANGED alertMap

(* pet(): a watchdog that has timed out reports the machine back.          *)
Pet(w) ==
  /\ Petted(w)
  /\ StartTimer(w)
  /\ IF timeouts[w] > 0 THEN Remember(Report("online", w)) ELSE UNCHANGED alertMap

OnlineAlerts(w) == IF timeouts[w] > 0 THEN Push(Report("online", w)) ELSE <<>>

ReportOffline(w) ==
  /\ StartTimer(w)
  /\ offlines' = [offlines EXCEPT ![w] = @ + 1]
  /\ Remember(Report("offline", w))
  /\ out' = [Nothing EXCEPT !.alerts = Push(Report("offline", w))]

ReportNothing == out' = Nothing /\ UNCHANGED <<offlines, alertMap>>

(* The connected branch with an off-by-one, `++_timeouts <= limit + 1`.    *)
ExpireOnceTooOften(w) ==
  /\ timeouts' = [timeouts EXCEPT ![w] = @ + 1]
  /\ IF timeouts[w] <= logic.timeout_limit
     THEN ReportOffline(w)
     ELSE ReportNothing /\ UNCHANGED armed

(* The connected branch that starts the timer again at the limit too.      *)
ExpireForEver(w) ==
  IF timeouts[w] < logic.timeout_limit
  THEN timeouts' = [timeouts EXCEPT ![w] = @ + 1] /\ ReportOffline(w)
  ELSE ReportNothing /\ StartTimer(w) /\ UNCHANGED timeouts

(* The connected branch with `++_timeouts < limit`.                        *)
ExpireOnceTooFew(w) ==
  /\ timeouts' = [timeouts EXCEPT ![w] = @ + 1]
  /\ IF timeouts[w] + 1 < logic.timeout_limit
     THEN ReportOffline(w)
     ELSE ReportNothing /\ UNCHANGED armed

(* on_timeout() with the broker connected: `_timeouts++ < timeout_limit`.  *)
Expire(w) ==
  /\ timeouts' = [timeouts EXCEPT ![w] = @ + 1]
  /\ IF timeouts[w] < logic.timeout_limit
     THEN ReportOffline(w)
     ELSE ReportNothing /\ UNCHANGED armed

(* on_timeout() without the early return's start_timer.                    *)
OnTimeoutGivesUp ==
  /\ ready # <<>> /\ Head(ready).h = "timeout"
  /\ ready' = Tail(ready)
  /\ IF isConnected
     THEN Expire(Head(ready).w)
     ELSE ReportNothing /\ UNCHANGED <<armed, timeouts>>
  /\ UNCHANGED <<receiving, retrying, session, watchdogs, linkVars, configVars,
                 deviceVars, silent>>

(* on_timeout(): without a broker the watchdog only waits on.              *)
OnTimeout ==
  /\ ready # <<>> /\ Head(ready).h = "timeout"
  /\ ready' = Tail(ready)
  /\ IF isConnected
     THEN Expire(Head(ready).w)
     ELSE StartTimer(Head(ready).w) /\ ReportNothing /\ UNCHANGED timeouts
  /\ UNCHANGED <<receiving, retrying, session, watchdogs, linkVars, configVars,
                 deviceVars, silent>>

-----------------------------------------------------------------------------
(* The handler of async_receive.                                           *)

Watched(id) == \E i \in DOMAIN watchdogs : watchdogs[i].id = id

(* The linear search: the first watchdog with the id.                      *)
WatchdogOf(id) ==
  watchdogs[CHOOSE i \in DOMAIN watchdogs :
              /\ watchdogs[i].id = id
              /\ \A j \in DOMAIN watchdogs : j < i => watchdogs[j].id # id]

(* The message at the head of the queue is of a theme, from a machine with *)
(* a watchdog.                                                             *)
Handling(m, themes) ==
  /\ ready # <<>> /\ Head(ready).h = "message" /\ m = Head(ready).m
  /\ m.theme \in themes
  /\ Watched(m.id)

(* _recieveLoop() called again at the end of the handler.                  *)
ReceiveNext ==
  /\ ready' = Tail(ready)
  /\ receiving' = receiving + 1
  /\ UNCHANGED <<retrying, session, watchdogs, linkVars, configVars, silent>>

(* A payload that does not parse is logged; the watchdog has been petted.  *)
HandleState(m) ==
  /\ Handling(m, {"state"})
  /\ LET w == WatchdogOf(m.id)
         step == m.val % 65536            \* unsigned short
         news == PumpNews(msMap[m.id], step)
     IN /\ Pet(w)
        /\ IF m.val = None
           THEN /\ out' = [Nothing EXCEPT !.alerts = OnlineAlerts(w)]
                /\ UNCHANGED <<msMap, winterTold>>
           ELSE /\ msMap' = [msMap EXCEPT ![m.id] = step]
                /\ winterTold' = [winterTold EXCEPT
                     ![m.id] = IF news # None \/ step \notin {0} \cup Winter
                               THEN news ELSE @]
                /\ out' = [metrics |-> MetricCount(m.theme), alerts |-> OnlineAlerts(w) \o
                             IF news = None THEN <<>> ELSE <<Event(news, m.id)>>]
  /\ ReceiveNext
  /\ UNCHANGED <<mIn, mOut>>

(* An alarm code: muted, known, or unknown (codes.at throws, and the error *)
(* alert comes from the catch block, for code 0 too).                      *)
AlarmAlert(m, code) ==
  [state |-> IF code = 0 /\ code \in logic.known THEN "fine" ELSE "error",
   name |-> logic.name[m.id], code |-> code, by |-> None]

HandleAlarm(m) ==
  /\ Handling(m, {"alarm_kod"})
  /\ IF m.val = None
     THEN out' = Nothing /\ UNCHANGED alertMap
     ELSE LET code == m.val % 65536       \* uint16_t
              a == AlarmAlert(m, code)
          IN IF code \in logic.disabled
             THEN out' = [Nothing EXCEPT !.metrics = MetricCount(m.theme)] /\ UNCHANGED alertMap
             ELSE /\ out' = [alerts |-> Push(a), metrics |-> MetricCount(m.theme)]
                  /\ Remember(a)
  /\ ReceiveNext
  /\ UNCHANGED <<armed, timeouts, offlines, deviceVars>>

(* in_not_fil: the first report, and any report while no output report is  *)
(* known, is only remembered.                                              *)
HandleIn(m) ==
  /\ Handling(m, {"in_not_fil"})
  /\ IF m.val = None
     THEN out' = Nothing /\ UNCHANGED mIn
     ELSE LET v == IF m.val = 0 THEN 0 ELSE 1 IN
          /\ mIn' = [mIn EXCEPT ![m.id] = Update(@, v)]
          /\ out' = [alerts |-> EcoAlerts(m.id, v),
                     metrics |-> IF mIn[m.id] # None /\ mOut[m.id] # None
                                 THEN MetricCount(m.theme) ELSE 0]
  /\ ReceiveNext
  /\ UNCHANGED <<armed, timeouts, offlines, alertMap, msMap, winterTold, mOut>>

HandleOut(m) ==
  /\ Handling(m, {"out"})
  /\ IF m.val = None
     THEN out' = Nothing /\ UNCHANGED mOut
     ELSE LET v == IF m.val = 0 THEN 0 ELSE 1 IN
          /\ mOut' = [mOut EXCEPT ![m.id] = Update(@, v)]
          /\ out' = [Nothing EXCEPT !.metrics =
                       IF mIn[m.id] # None /\ mOut[m.id] # None
                       THEN MetricCount(m.theme) ELSE 0]
  /\ ReceiveNext
  /\ UNCHANGED <<armed, timeouts, offlines, alertMap, msMap, winterTold, mIn>>

(* Themes that reach Graphite only, and themes the handler does not know.  *)
HandleOther(m) ==
  /\ Handling(m, {"in_filter", "time_light_ECO", "unknown"})
  /\ out' = [Nothing EXCEPT !.metrics =
               IF m.val = None THEN 0 ELSE MetricCount(m.theme)]
  /\ ReceiveNext
  /\ UNCHANGED <<armed, timeouts, offlines, alertMap, deviceVars>>

HandleUnregistered(m) ==
  /\ ready # <<>> /\ Head(ready).h = "message" /\ m = Head(ready).m
  /\ m.theme # "missing" /\ ~Watched(m.id)
  /\ out' = Nothing
  /\ ReceiveNext
  /\ UNCHANGED <<armed, timeouts, offlines, alertMap, deviceVars>>

(* topics.at(2) throws out of the handler and of _ioc.run().  start()      *)
(* catches it and Application::run() runs the loop again, but nothing      *)
(* calls async_receive any more.                                           *)
HandleMissingTheme(m) ==
  /\ ready # <<>> /\ Head(ready).h = "message" /\ m = Head(ready).m
  /\ m.theme = "missing"
  /\ ready' = Tail(ready)
  /\ out' = Nothing
  /\ UNCHANGED <<receiving, retrying, watchdogVars, linkVars, configVars,
                 alertMap, deviceVars, silent>>

HandleMessage ==
  \E m \in Messages :
    \/ HandleState(m) \/ HandleAlarm(m) \/ HandleIn(m) \/ HandleOut(m)
    \/ HandleOther(m) \/ HandleUnregistered(m) \/ HandleMissingTheme(m)

(* _subscribeToTopics: stop() cancels the pending waits of the watchdogs   *)
(* it drops; a wait that has completed keeps its watchdog alive.           *)
Resubscribe ==
  /\ session' = session + 1
  /\ watchdogs' = NewWatchdogs(topic, session + 1)
  /\ armed' = (armed \ Objects(watchdogs)) \cup Objects(watchdogs')

(* The error branch that also calls _recieveLoop() at once.                *)
HandleErrorTwice ==
  /\ ready # <<>> /\ Head(ready).h = "error"
  /\ ready' = Tail(ready)
  /\ receiving' = receiving + 1
  /\ IF Head(ready).expired
     THEN Resubscribe /\ retrying' = (WellFormed(topic) \/ retrying)
     ELSE retrying' = TRUE /\ UNCHANGED <<session, watchdogs, armed>>
  /\ out' = Nothing
  /\ UNCHANGED <<timeouts, offlines, linkVars, configVars, alertMap, deviceVars, silent>>

(* The error branch that returns after the subscription, without the timer. *)
HandleErrorNoRetry ==
  /\ ready # <<>> /\ Head(ready).h = "error"
  /\ ready' = Tail(ready)
  /\ IF Head(ready).expired
     THEN Resubscribe /\ UNCHANGED retrying
     ELSE retrying' = TRUE /\ UNCHANGED <<session, watchdogs, armed>>
  /\ out' = Nothing
  /\ UNCHANGED <<receiving, timeouts, offlines, linkVars, configVars, alertMap,
                 deviceVars, silent>>

(* The error branch: subscribe again if the session expired (a malformed   *)
(* topic throws out of the handler), then wait on _retryTimer.             *)
HandleError ==
  /\ ready # <<>> /\ Head(ready).h = "error"
  /\ ready' = Tail(ready)
  /\ IF Head(ready).expired
     THEN Resubscribe /\ retrying' = (WellFormed(topic) \/ retrying)
     ELSE retrying' = TRUE /\ UNCHANGED <<session, watchdogs, armed>>
  /\ out' = Nothing
  /\ UNCHANGED <<receiving, timeouts, offlines, linkVars, configVars, alertMap,
                 deviceVars, silent>>

HandleRetry ==
  /\ ready # <<>> /\ Head(ready).h = "retry"
  /\ out' = Nothing
  /\ ReceiveNext
  /\ UNCHANGED <<armed, timeouts, offlines, alertMap, deviceVars>>

-----------------------------------------------------------------------------
Next ==
  \/ \E w \in Watchdog : TimerExpires(w)
  \/ \E m \in Messages : MessageArrives(m)
  \/ \E expired \in BOOLEAN : ReceiveFails(expired)
  \/ RetryTimerExpires
  \/ BrokerStatusChanges
  \/ ConfigChanges
  \/ \E id \in Ids : MachineFallsSilent(id)
  \/ OnTimeout
  \/ HandleMessage
  \/ HandleError
  \/ HandleRetry

(* A timer that nobody restarts fires: the machine is silent, or the       *)
(* watchdog is not the one that messages of its machine reach.             *)
Unpetted(w) == (w.id \notin silent /\ Watched(w.id)) => w # WatchdogOf(w.id)

(* The loop runs its queue and its timers; the broker, the machines and    *)
(* the administrator owe nothing.                                          *)
Fairness ==
  /\ WF_vars(OnTimeout \/ HandleMessage \/ HandleError \/ HandleRetry)
  /\ WF_vars(RetryTimerExpires)
  /\ \A w \in Watchdog : WF_vars(Unpetted(w) /\ TimerExpires(w))

Spec == Init /\ [][Next]_vars

FairSpec == Spec /\ Fairness

-----------------------------------------------------------------------------
(* Properties.                                                             *)

Current == Objects(watchdogs)

TimedOut(w) == \E i \in DOMAIN ready : ready[i].h = "timeout" /\ ready[i].w = w

(* No machine of the current session goes unwatched: its watchdog waits,   *)
(* or has a timeout to handle, or has used up a limit the configuration    *)
(* had.  pet(), on_timeout() and a new subscription all stop and start     *)
(* timers, and a late timeout may be handled after any of them.            *)
WatchdogAlive ==
  \A w \in Current :
    \/ w \in armed
    \/ TimedOut(w)
    \/ \E c \in LogicConfigs : timeouts[w] > c.timeout_limit

(* Between two state messages of a machine its watchdog reports Offline at *)
(* most timeout_limit times, also when stale timeouts queue up and the     *)
(* limit is edited in between.                                             *)
OfflineBudget ==
  \A w \in Watchdog : \E c \in LogicConfigs : offlines[w] <= c.timeout_limit

(* Online is news: a watchdog about to report Online has reported Offline. *)
(* A limit of 0 is left out, with it pet() reports Online out of nothing.  *)
ReturnIsNews ==
  (\A c \in LogicConfigs : c.timeout_limit > 0)
    => \A w \in Watchdog : timeouts[w] > 0 => offlines[w] > 0

(* There is never more than one receive operation or a successor of it:    *)
(* the retry timer, a failed receive and every early return of the message *)
(* handler must call async_receive at most once.                           *)
InChain(i) == ready[i].h \in {"message", "error", "retry"}
SingleReceiver ==
  /\ receiving <= 1
  /\ ~(receiving = 1 /\ retrying)
  /\ \A i \in DOMAIN ready : InChain(i) => receiving = 0 /\ ~retrying
  /\ \A i, j \in DOMAIN ready : InChain(i) /\ InChain(j) => i = j

(* A machine shown as offline will be reported back by its next state      *)
(* message: the watchdog messages reach remembers that it has timed out.   *)
OfflineWillBeLifted ==
  \A id \in Ids :
    Watched(id) /\ alertMap[logic.name[id]] # None
      => (alertMap[logic.name[id]].state = "offline" => timeouts[WatchdogOf(id)] > 0)

(* What is expected of the configuration: names are not edited, every      *)
(* machine has its own, and no machine is listed twice.                    *)
NamesAreKept == \A c, d \in LogicConfigs : c.name = d.name
NamesDiffer  == \A c \in LogicConfigs : \A i, j \in Ids : c.name[i] = c.name[j] => i = j
TopicsDiffer ==
  \A t \in TopicLists : \A i, j \in 1..Len(t) : t[i] = t[j] /\ t[i] # Malformed => i = j

(* While a name is shown as offline, the watchdog that made it so, unless  *)
(* a new subscription has dropped it, still remembers that it has timed    *)
(* out, so that pet() would report Online: no message of another machine   *)
(* of that name or of another topic, no alarm and no late timeout clears   *)
(* the count and leaves the alert.                                         *)
OfflineIsRemembered ==
  NamesAreKept =>
    \A n \in Names :
      alertMap[n] # None /\ alertMap[n].state = "offline"
        => (alertMap[n].by \in Current => timeouts[alertMap[n].by] > 0)

(* The receive loop is never lost: with a third level in every topic and   *)
(* no malformed one configured, there is always an operation, or a handler *)
(* or the timer of one, that leads to the next async_receive.              *)
ReceiverAlive ==
  (\A m \in Messages : m.theme # "missing") /\ (\A t \in TopicLists : WellFormed(t))
    => receiving > 0 \/ retrying \/ \E i \in DOMAIN ready : InChain(i)

(* A watchdog dropped by a new subscription that waits for nothing is dead *)
(* for good: no message, no late timeout of another watchdog and no later  *)
(* subscription starts its timer.                                          *)
Retired(w) == w.session < session /\ w \notin armed /\ ~TimedOut(w)
RetiredStaysDead == [][\A w \in Watchdog : Retired(w) => Retired(w)']_vars

(* The last winter mode alert of a machine agrees with its last known      *)
(* step.  A step other than 0, 1 and 2 ends what was told: from and to     *)
(* such a step the code finds no news, until the next alert.               *)
WinterToldIsState ==
  \A id \in Ids :
    (msMap[id] = 0 => winterTold[id] # "pump_on")
      /\ (msMap[id] \in Winter => winterTold[id] # "pump_off")

(* The receive loop goes on whatever fails and whatever arrives.           *)
ReceivesForever == []<>(receiving > 0)

(* Watchdogs dropped by a new subscription die out, if the broker stays.   *)
RetiredDies ==
  \A w \in Watchdog : <>[]isConnected => <>[](w.session < session => w \notin armed)

(* A machine that falls silent is reported and stays so, if the broker     *)
(* stays connected and the limit is not 0.                                 *)
SilentReported ==
  \A id \in Ids :
    <>[]isConnected /\ <>(id \in silent)
      => <>[](IF Watched(id) THEN offlines[WatchdogOf(id)] > 0 ELSE TRUE)

-----------------------------------------------------------------------------
(* What the documentation says and the code does not do.                   *)

(* The manual: the users are notified when an error occurs; a code other   *)
(* than the one shown for the machine is a new error.                      *)
ErrorsAreNotified ==
  [][\A n \in Names :
       /\ alertMap'[n] # alertMap[n]
       /\ alertMap'[n] # None /\ alertMap'[n].state = "error"
       => out'.alerts # <<>>]_vars
=============================================================================
