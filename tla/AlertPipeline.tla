--------------------------- MODULE AlertPipeline ---------------------------
(***************************************************************************)
(* The three threads of Application (src/src/application.cpp) and what     *)
(* passes between them: the main thread runs the io_context and pushes     *)
(* alerts into the ThreadSafeQueue, the worker takes them out and sends    *)
(* them to every Telegram user, the Telegram thread polls for updates, and *)
(* a signal makes the main thread stop and join the others.                *)
(*                                                                         *)
(* The queue's mutex makes push and pop single steps; each call of         *)
(* sendMessage is a step, which may throw with the message delivered or    *)
(* not.  Alerts are numbered in the order they are pushed; the empty alert *)
(* that ends the worker is Sentinel.                                       *)
(***************************************************************************)
EXTENDS Naturals, Sequences

CONSTANTS Users,     \* Telegram users
          UserLists, \* values the configured user vector may take
          MaxAlerts  \* bound: alerts pushed

ASSUME PipelineAssumption ==
  /\ MaxAlerts \in Nat
  /\ UserLists \subseteq Seq(Users) /\ UserLists # {}

(* addUser() adds nobody twice.                                            *)
ASSUME ListsAssumption ==
  \A l \in UserLists : \A i, j \in DOMAIN l : i # j => l[i] # l[j]

VARIABLES
  queue,          \* _alertQueue
  pushed,         \* alerts pushed so far
  running,        \* Application::_running
  exit,           \* TgService::_exit
  users,          \* ConfigManager::_tg.users
  tgConnected,    \* TgService::_isConnection
  main, mainLeft, \* the main thread, and the users its send() has yet to reach
  worker, alert,  \* the worker thread and the alert it holds
  workerLeft,     \* the users its sendAlert() has yet to reach
  listed,         \* the users sendAlert() read for the alert in hand
  poller,         \* the Telegram thread
  inbox,          \* the alerts each user received, in order
  failed,         \* history: the alerts whose sending to a user threw
  late            \* history: alerts taken after the stop began

mainVars   == <<main, mainLeft>>
workerVars == <<worker, alert, workerLeft, listed, inbox, failed, late>>
vars == <<queue, pushed, running, exit, users, tgConnected, mainVars, workerVars, poller>>

Sentinel == 0
Alerts   == 1..MaxAlerts

TypeOK ==
  /\ queue \in Seq(Alerts \cup {Sentinel})
  /\ pushed \in 0..MaxAlerts
  /\ running \in BOOLEAN /\ exit \in BOOLEAN /\ tgConnected \in BOOLEAN
  /\ users \in UserLists
  /\ main \in {"starting", "loop", "sending", "stop_tg", "stop_loop", "push_empty",
               "join_worker", "join_tg", "done"}
  /\ mainLeft \in Seq(Users)
  /\ worker \in {"check", "pop", "send", "done"}
  /\ alert \in Alerts \cup {Sentinel}
  /\ workerLeft \in Seq(Users) /\ listed \in Seq(Users)
  /\ poller \in {"starting", "check", "polling", "done"}
  /\ inbox \in [Users -> Seq(Alerts)]
  /\ failed \in [Users -> SUBSET Alerts]
  /\ late \in Nat

(* Application::run has created both threads and sleeps.  _exit is not set *)
(* by the constructor.                                                     *)
Init ==
  /\ queue = <<>>
  /\ pushed = 0
  /\ running = TRUE
  /\ exit \in BOOLEAN
  /\ users \in UserLists
  /\ tgConnected = TRUE
  /\ main = "starting" /\ mainLeft = <<>>
  /\ worker = "check" /\ alert = Sentinel /\ workerLeft = <<>> /\ listed = <<>>
  /\ poller = "starting"
  /\ inbox = [u \in Users |-> <<>>]
  /\ failed = [u \in Users |-> {}]
  /\ late = 0

-----------------------------------------------------------------------------
(* The main thread.                                                        *)

(* The five seconds of sleep outlast the start of the Telegram thread:     *)
(* otherwise its `_exit = false` could undo a stop().                      *)
StartLoop ==
  /\ main = "starting" /\ poller # "starting"
  /\ main' = "loop"
  /\ UNCHANGED <<queue, pushed, running, exit, users, tgConnected, mainLeft,
                 workerVars, poller>>

PushAlert ==
  /\ main = "loop" /\ pushed < MaxAlerts
  /\ pushed' = pushed + 1
  /\ queue' = Append(queue, pushed + 1)
  /\ UNCHANGED <<running, exit, users, tgConnected, mainVars, workerVars, poller>>

(* _onConnection and _onDisconnection call TgService::send in a handler.   *)
TellStatus ==
  /\ main = "loop" /\ tgConnected
  /\ main' = "sending" /\ mainLeft' = users
  /\ UNCHANGED <<queue, pushed, running, exit, users, tgConnected, workerVars, poller>>

(* One sendMessage of send(), or its end; an exception ends the loop over  *)
(* the users.                                                              *)
SendStatus ==
  /\ main = "sending"
  /\ IF mainLeft = <<>> THEN main' = "loop" /\ UNCHANGED mainLeft
     ELSE /\ UNCHANGED main
          /\ mainLeft' \in {Tail(mainLeft), <<>>}
  /\ UNCHANGED <<queue, pushed, running, exit, users, tgConnected, workerVars, poller>>

(* SIGINT or SIGTERM, from outside or from the restart button: the handler *)
(* runs stop().                                                            *)
Signal ==
  /\ main = "loop"
  /\ running' = FALSE
  /\ main' = "stop_tg"
  /\ UNCHANGED <<queue, pushed, exit, users, tgConnected, mainLeft, workerVars, poller>>

StopTg ==
  /\ main = "stop_tg"
  /\ exit' = TRUE
  /\ main' = "stop_loop"
  /\ UNCHANGED <<queue, pushed, running, users, tgConnected, mainLeft, workerVars, poller>>

(* MqttService::stop() and io_context::stop(): no handler runs any more.   *)
StopLoop ==
  /\ main = "stop_loop"
  /\ main' = "push_empty"
  /\ UNCHANGED <<queue, pushed, running, exit, users, tgConnected, mainLeft,
                 workerVars, poller>>

(* stop() that relies on the flag alone.                                   *)
PushNothing ==
  /\ main = "push_empty"
  /\ main' = "join_worker"
  /\ UNCHANGED <<queue, pushed, running, exit, users, tgConnected, mainLeft,
                 workerVars, poller>>

PushEmpty ==
  /\ main = "push_empty"
  /\ queue' = Append(queue, Sentinel)
  /\ main' = "join_worker"
  /\ UNCHANGED <<pushed, running, exit, users, tgConnected, mainLeft, workerVars, poller>>

JoinWorker ==
  /\ main = "join_worker" /\ worker = "done"
  /\ main' = "join_tg"
  /\ UNCHANGED <<queue, pushed, running, exit, users, tgConnected, mainLeft,
                 workerVars, poller>>

JoinTg ==
  /\ main = "join_tg" /\ poller = "done"
  /\ main' = "done"
  /\ UNCHANGED <<queue, pushed, running, exit, users, tgConnected, mainLeft,
                 workerVars, poller>>

-----------------------------------------------------------------------------
(* The worker thread.                                                      *)

WorkerUnchanged == UNCHANGED <<pushed, running, exit, users, tgConnected, mainVars, poller>>

(* `while (true)`: only the empty alert ends the worker.                   *)
WorkerChecksNothing ==
  /\ worker = "check"
  /\ worker' = "pop"
  /\ UNCHANGED <<queue, alert, workerLeft, listed, inbox, failed, late>> /\ WorkerUnchanged

(* `while (_running)`.                                                     *)
WorkerCheck ==
  /\ worker = "check"
  /\ worker' = IF running THEN "pop" ELSE "done"
  /\ UNCHANGED <<queue, alert, workerLeft, listed, inbox, failed, late>> /\ WorkerUnchanged

(* pop() of a stack.                                                       *)
PopLast == <<queue[Len(queue)], SubSeq(queue, 1, Len(queue) - 1)>>

PopNext == <<Head(queue), Tail(queue)>>

(* The worker that does not look for the empty alert.                      *)
WorkerPopSendsEmpty ==
  /\ worker = "pop" /\ queue # <<>>
  /\ alert' = PopNext[1] /\ queue' = PopNext[2]
  /\ worker' = "send" /\ workerLeft' = users /\ listed' = users
  /\ late' = IF running THEN late ELSE late + 1
  /\ UNCHANGED <<inbox, failed>> /\ WorkerUnchanged

(* pop() waits for an element; sendAlert() reads the users.                *)
WorkerPop ==
  /\ worker = "pop" /\ queue # <<>>
  /\ alert' = PopNext[1] /\ queue' = PopNext[2]
  /\ IF alert' = Sentinel
     THEN worker' = "done" /\ UNCHANGED <<workerLeft, listed, late>>
     ELSE /\ worker' = "send" /\ workerLeft' = users /\ listed' = users
          /\ late' = IF running THEN late ELSE late + 1
  /\ UNCHANGED <<inbox, failed>> /\ WorkerUnchanged

(* A sendMessage that throws leaves the worker thread.                     *)
SendThrowsOut(u) ==
  /\ failed' = [failed EXCEPT ![u] = @ \cup {alert}]
  /\ inbox' \in {inbox, [inbox EXCEPT ![u] = Append(@, alert)]}
  /\ worker' = "done" /\ workerLeft' = <<>>

(* A sendMessage that throws is tried again.                               *)
SendTriesAgain(u) ==
  /\ failed' = [failed EXCEPT ![u] = @ \cup {alert}]
  /\ inbox' \in {inbox, [inbox EXCEPT ![u] = Append(@, alert)]}
  /\ UNCHANGED <<worker, workerLeft>>

(* A sendMessage that throws, its message lost or delivered all the same:  *)
(* the catch block of sendAlert() ends the loop over the users.            *)
SendThrows(u) ==
  /\ failed' = [failed EXCEPT ![u] = @ \cup {alert}]
  /\ inbox' \in {inbox, [inbox EXCEPT ![u] = Append(@, alert)]}
  /\ workerLeft' = <<>> /\ UNCHANGED worker

(* A return within the loop over the users.                                *)
SendReturnsOnce(u) ==
  /\ inbox' = [inbox EXCEPT ![u] = Append(@, alert)]
  /\ workerLeft' = <<>>
  /\ UNCHANGED <<worker, failed>>

SendReturns(u) ==
  /\ inbox' = [inbox EXCEPT ![u] = Append(@, alert)]
  /\ workerLeft' = Tail(workerLeft)
  /\ UNCHANGED <<worker, failed>>

WorkerSend ==
  /\ worker = "send" /\ workerLeft # <<>>
  /\ SendReturns(Head(workerLeft)) \/ SendThrows(Head(workerLeft))
  /\ UNCHANGED <<queue, alert, listed, late>> /\ WorkerUnchanged

WorkerSent ==
  /\ worker = "send" /\ workerLeft = <<>>
  /\ worker' = "check"
  /\ UNCHANGED <<queue, alert, workerLeft, listed, inbox, failed, late>> /\ WorkerUnchanged

-----------------------------------------------------------------------------
(* The Telegram thread: runLongPoll, and the administrator's commands it   *)
(* handles (here: the list of users).                                      *)

PollerUnchanged == UNCHANGED <<queue, pushed, running, mainVars, workerVars>>

PollerStart ==
  /\ poller = "starting"
  /\ exit' = FALSE
  /\ poller' = "check"
  /\ UNCHANGED <<users, tgConnected>> /\ PollerUnchanged

PollerCheck ==
  /\ poller = "check"
  /\ poller' = IF exit THEN "done" ELSE "polling"
  /\ UNCHANGED <<exit, users, tgConnected>> /\ PollerUnchanged

(* A poll returns or throws: a DNS error clears the flag, another error    *)
(* leaves it.                                                              *)
PollerPolled ==
  /\ poller = "polling"
  /\ poller' = "check"
  /\ tgConnected' \in BOOLEAN
  /\ UNCHANGED <<exit, users>> /\ PollerUnchanged

UsersEdited ==
  /\ poller = "polling"
  /\ users' \in UserLists
  /\ UNCHANGED <<exit, tgConnected, poller>> /\ PollerUnchanged

-----------------------------------------------------------------------------
Stopping == StopTg \/ StopLoop \/ PushEmpty \/ JoinWorker \/ JoinTg
Working  == WorkerCheck \/ WorkerPop \/ WorkerSend \/ WorkerSent
Polling  == PollerStart \/ PollerCheck \/ PollerPolled

Next ==
  \/ StartLoop \/ PushAlert \/ TellStatus \/ SendStatus \/ Signal \/ Stopping
  \/ Working
  \/ Polling \/ UsersEdited

(* Every thread runs, and a call to Telegram returns or throws; nobody     *)
(* has to send a signal.                                                   *)
Fairness ==
  /\ WF_vars(StartLoop)
  /\ WF_vars(SendStatus)
  /\ WF_vars(Stopping)
  /\ WF_vars(Working)
  /\ WF_vars(Polling)

Spec == Init /\ [][Next]_vars

FairSpec == Spec /\ Fairness

-----------------------------------------------------------------------------
(* Properties.                                                             *)

(* Alerts leave the queue in the order they were pushed, none twice, and   *)
(* nothing follows the empty alert of stop().                              *)
QueueInOrder ==
  /\ \A i, j \in DOMAIN queue : i < j => queue[i] # Sentinel
  /\ \A i, j \in DOMAIN queue : i < j /\ queue[j] # Sentinel => queue[i] < queue[j]
  /\ \A i \in DOMAIN queue : queue[i] # Sentinel => alert < queue[i]

(* No user gets an alert twice, or an older one after a newer one, however *)
(* calls fail and lists of users change.  A list names each user once.     *)
InboxInOrder ==
  \A u \in Users : \A i, j \in DOMAIN inbox[u] : i < j => inbox[u][i] < inbox[u][j]

(* Once stop() has begun, the worker takes at most one more alert, so that *)
(* the join waits for one alert and not for a backlog.                     *)
StopIsPrompt == late <= 1

(* The worker outlives every failure to send: it ends with the program.    *)
WorkerStays == worker = "done" => ~running

(* The alerts in a queue: the empty alert, if it is there, is the last one *)
(* in it.  The others have been taken.                                     *)
Backlog(q) == IF q # <<>> /\ q[Len(q)] = Sentinel THEN Len(q) - 1 ELSE Len(q)

Taken == pushed - Backlog(queue)

Delivery == INSTANCE AlertDelivery WITH
  raised <- pushed, taken <- Taken, stopping <- ~running, overtime <- late,
  ended <- main = "done"

(* Queue, worker, failures to send and the stop together keep the promise  *)
(* of AlertDelivery: each alert in its turn, to each user at most once,    *)
(* one after a stop and none when run() has returned.                      *)
DeliveredInTurn == Delivery!Spec

(* No join waits for a thread that nothing wakes: when the main thread     *)
(* waits, the empty alert or an alert before it wakes the worker, and the  *)
(* flag of the poller is set and stays set, whenever its thread started.   *)
StopCannotBlock ==
  main \in {"join_worker", "join_tg", "done"}
    => (worker = "pop" => queue # <<>>) /\ exit /\ poller # "starting"

(* A stop ends: both joins return.                                         *)
StopEnds == ~running ~> main = "done"

(* Every alert that is pushed is taken, unless the program stops.          *)
AlertsAreTaken == \A n \in Alerts : pushed >= n ~> alert >= n \/ ~running

Has(u) == \E i \in DOMAIN inbox[u] : inbox[u][i] = alert

(* Nobody is passed over in silence: when the sending of an alert is over, *)
(* every user of the list that was read for it has it, unless a sending of *)
(* it to that user or to one before threw, although the list was edited    *)
(* meanwhile.                                                              *)
NobodyPassedOver ==
  worker = "send" /\ workerLeft = <<>>
    => \A k \in DOMAIN listed : Has(listed[k]) \/ \E i \in 1..k : alert \in failed[listed[i]]

(* Readme.md, "Reliable alerts": every user of the list gets the alert,    *)
(* unless the sending to that very user failed.                            *)
EveryUserIsSent ==
  worker = "send" /\ workerLeft = <<>>
    => \A k \in DOMAIN listed : Has(listed[k]) \/ alert \in failed[listed[k]]
=============================================================================
