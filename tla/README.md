# MqttSentry in TLA+

MqttSentry watches machines ("robots") over MQTT, tells Telegram users when
one of them fails, falls silent or comes back, and stores their measurements in
Graphite. This directory models the program's concurrent core, checks the models
with TLC and proves the invariants that matter most with TLAPS.

File names below are relative to `src/`; `src/mqttService.cpp:107` is a line of
the repository.

## 1. The system

### Parts, their state and operations

| part | state | operations |
|---|---|---|
| `MqttService`, receive loop (`src/mqttService.cpp`) | one `async_receive` at a time, `_retryTimer`, `_watchdogs` | `start`, handler of a message or an error, `_subscribeToTopics`, `stop` |
| `MqttService`, connection check | `_pingTimer`, `_responseTimer`, `_isWaitingForResponse`, `_isConnected` | `_pingLoop`, `_sendPing`, completion of the publish |
| `TopicWatchdog` (`src/topicWatchdog.cpp`) | timer, `_timeouts` | `pet`, `start_timer`, `on_timeout`, `stop` |
| `Application`, callbacks (`src/application.cpp:43-177`) | `_alertMap`, `_msMap`, `_mIn`, `_mOut` | `OnAlert`, one callback per theme, status of the broker |
| `Application`, threads | `_alertQueue`, `_running`, worker and Telegram thread | `run`, `stop`, `_workerLoop` |
| `TgService` (`src/tgService.cpp`) | `_exit`, `_isConnection` | `runLongPoll`, `sendAlert`, `send` |
| `GraphiteService` (`src/graphiteService.cpp`) | `_queue`, `_buff`, socket, timer, two flags | `push`, `_do_connect`, `_do_write` |
| `ConfigManager` (`src/settings.cpp`) | four sections and their file | getters, `update*`, add and remove operations, `resolve*` |
| `AdminController` (`src/adminController.cpp`) | `_awaitingInput`, one dialogue per administrator | commands, buttons, text answers |
| `Mapper` (`src/mapper.cpp`) | none | message to metrics |

### How they interact

Three threads. The **main thread** runs the `io_context`: MQTT, all timers,
signals and Graphite. Its handlers run one at a time and to the end. The
**Telegram thread** polls for updates and runs `AdminController`, which replaces
sections of the configuration under its mutex. The **worker** takes alerts out of
`_alertQueue` and sends them. An alert goes from a message or a watchdog through
`OnAlert`, which drops it if it repeats the state remembered for its machine,
into the queue. A metric goes from a callback through `Mapper` to
`GraphiteService::push`. The connection check decides `_isConnected`, which the
watchdogs ask before they report a machine, and sends changes of the status to
the users from the main thread. A restart is a SIGINT raised by the restart
button.

### What is hard

* A timer wait that has completed cannot be cancelled: its handler is queued and
  runs after whatever cancelled it (`pet`, a new subscription, an answer).
* A wait that is cancelled runs its handler as well. Watchdog and ping handlers
  look at the error code; the handlers of `_responseTimer` and of Graphite's
  `_timer` do not.
* A session expiry replaces the watchdogs while old ones still have handlers
  queued.
* The configuration changes between two firings of one silence.
* Exceptions leave handlers, and the event loop, half way.
* Publishes answered late; Telegram and the broker failing independently.
* Shutdown against a worker that waits, sends, or has a backlog.

`PROJECT.json` lists each of these at its line under `hazards`.

### What makes each part correct

* receive loop: exactly one receive operation or successor of it, for ever;
* watchdogs: no machine unwatched, Offline within its limit, Online only after
  Offline, every silence reported;
* callbacks: a machine shown as offline will be reported back; winter mode alerts
  agree with the machine;
* connection check: never dies, never waits for nothing, users know the status;
* queue and worker: order, no repetition, nothing kills the worker, stop ends;
* Graphite: order, no repetition, flags never stuck, never gives up;
* configuration: what memory, file and reply to the administrator say agrees, no
  update is lost;
* dialogues: an answer changes what it was asked for, once.

## 2. Modules

| module | models | correspondence |
|---|---|---|
| `PingLoop` | connection check | `ready` is the queue of completed operations; `pingTimer`, `responseTimer` are pending waits; `publishes` is what the MQTT client has not completed; `Send` is `TgService::send`, which the first user that throws ends; `told` and `missed` record, user by user, what was delivered and to whom the last change was not sent |
| `MachineMonitor` | receive loop, watchdogs, callbacks | `ready` as above; `receiving` and `retrying` are the receive loop; `armed`, `timeouts` the watchdogs; `alertMap`, `msMap`, `mIn`, `mOut` are `Application`'s maps; `by` in an alert and `winterTold` are history: the watchdog that raised it, and the last winter mode alert; `out` is what the step pushed to the alert queue and to Graphite |
| `AlertPipeline` | three threads, alert queue, sending, shutdown | program counters `main`, `worker`, `poller`; `inbox` is what each user received, `failed` the sendings that threw, `listed` the users that were read for the alert in hand |
| `AlertDelivery` | abstract promise of the alert path | implemented by `AlertPipeline`; what was taken up is what was pushed less the alerts still in the queue, and the stop is `~_running` |
| `GraphiteService` | metrics path | `conn` and `write` are asynchronous operations, first under way, then ended, then handled |
| `ConfigManager` | memory and file of the configuration, every operation that edits, loading | `mem` are the sections, `file` what the file holds; `todo` are the sections an operation still has to store, `store` where the update of one of them is; an operation is an operator that gives what it returns and stores, as the code copies, edits and stores |
| `AdminController` | the Telegram thread's handlers on top of `ConfigManager`, batches of updates, the process | `dialogue` is `_awaitingInput`; `queue` and `handled` are the updates of the current batch, not yet handled and not yet confirmed; `phase` is where the handler in hand is; `told` records what was last reported as changed |
| `LossyFifo` | abstract promise of the metrics path | implemented by `GraphiteService` under `waiting <- batch \o queue`; a failure loses one batch at most |
| `MCMachineMonitor`, `MCAlertPipeline`, `MCGraphiteService`, `MCAdminController` | - | small instances for TLC |
| `PingLoopProofs`, `MachineMonitorProofs`, `AlertPipelineProofs`, `GraphiteServiceProofs`, `AdminControllerProofs` | - | theorems and proofs |

Each action is a handler, or a step another thread can observe. Definitions of a
form `XDoesWrong` that stand directly before a definition are mutations of it:
a plausible bug, used to see that a property notices it. They are not part of
any specification.

`AdminController` EXTENDS `ConfigManager`: the handler of an answer calls the
operations of the configuration, and a crash may fall between any two of their
steps. The other threads meet the configuration in two ways: the unlocked reads
are `ConfigManager!Resolve`, and `MachineMonitor` and `AlertPipeline` let topics,
limits, codes and users change at any moment.

What the abstraction leaves out:

* **Time.** A pending wait may complete at any moment. This includes every real
  timing and many that are not; all safety results hold without any assumption
  on the periods. One use of time is assumed: the five seconds of sleep in
  `Application::run` outlast the start of the Telegram thread
  (`AlertPipeline!StartLoop`).
* **Payloads.** A message is a machine, a theme and a number, or `None` for a
  payload that does not parse. Numbers are cut to 16 bits where the code's types
  do. In- and outputs keep the one input (pressure) and the one fact on outputs
  (an ECO unit runs) that the code looks at.
* **Topics.** A topic is the machine it names, or `Malformed` when it has no
  second level; a message topic without a third level has the theme `missing`.
* **The MQTT client.** It delivers any message to a pending receive, fails a
  receive, and completes a publish acknowledged or refused, now, later or never.
  Publishes are counted up to `MaxPublishes`; those beyond it are never completed.
* **Texts.** What an administrator types is a model value with three facts: what
  `stoull` makes of it, what the second level of its topic is, and whether it is
  `/cancel`. `stoul` throws from `ULongSize` on; a number is stored in an
  `unsigned int` modulo `UIntSize`. Texts with a sign are left out.
* **Lists as sets.** Of the order and the repetitions of topics, users and codes
  nothing is said.
* **A write that is cut short** leaves `Cut`, a file that is empty or does not
  parse. `fail()` is asked before the buffer is flushed, so that a failed write may
  be returned as a success (`WriteFileFails`).
* **The bot library.** Its sources are not in the repository. Of a batch in which a
  handler threw it handles again everything, or nothing. A poll confirms what was
  handled before it; a new process is given the rest again.
* **Undefined reads.** `split(topic)[1]` of a topic without a second level reads
  behind a vector: `TopicsOf` leaves open whether it equals the machine looked for.
  A read of a map during its assignment gives a name or garbage.
* **The socket of Graphite.** Bytes are metrics; a failed write may have handed
  over any part; a line cut in two counts as lost.

## 3. Runs

Passing runs:

| run | shows | bounds, and why they are enough |
|---|---|---|
| `PingLoop` | the check never dies (`LoopAlive`, `PingsForever`), a wait always concerns a ping that is unanswered (`WaitIsForAPing`), users know the status, but for those its sending did not reach (`ToldIsStatus`) | three publishes unanswered and four handlers queued behind the timer: answers to an older and an oldest ping meet the newest wait, or no answer comes any more; two users, the second one not always listed |
| `Watchdogs` | every current watchdog lives (`WatchdogAlive`), one receive chain (`SingleReceiver`), the watchdog that made a name offline, unless it was dropped, remembers that it has timed out (`OfflineIsRemembered`) | one machine, subscribed to twice, not at all (its messages are then of an unknown machine), or beside a malformed topic; a short message topic; one session expiry, so that watchdogs of two sessions coexist |
| `Limits` | `OfflineBudget`, `ReturnIsNews` the receive loop is never lost (`ReceiverAlive`), a dropped watchdog stays dead (`RetiredStaysDead`), and the liveness of loop and watchdogs | limits 1 and 2 edited at any moment, two late timeouts per watchdog, one expiry, the machine removed from the topics or put back |
| `Devices` | `OfflineWillBeLifted`, `WinterToldIsState` | all themes, values that do not parse, the steps 0 to 3, 65536 (which wraps to 0), a muted, a known and an unknown code; one session |
| `Pipeline` | `QueueInOrder`, `InboxInOrder`, `StopIsPrompt`, `WorkerStays`; a join waits only for a thread that something wakes (`StopCannotBlock`), no user is passed over in silence (`NobodyPassedOver`), the threads together implement `AlertDelivery` (`DeliveredInTurn`); `StopEnds`, `AlertsAreTaken` | three alerts, two users, the list edited meanwhile; three alerts give a backlog behind the one being sent. The program may end, so deadlock is not checked |
| `Graphite` | `FlagsMatch`, `NoIdleBacklog`, `KeepsTrying`, and that it implements `LossyFifo` (`InOrder`): order, no repetition, no more than a batch lost at a time | two different metrics, batches of two, three queued, two due timer handlers: full and partial batches, a backlog behind a write, two waits of the timer overlapping |
| `Administration` | through every dialogue, batch, exception, crash and restart, unless a write failed or was cut: file and memory agree (`FileIsMemory`), the program can start again (`CanStartAgain`), what an administrator was told is so (`ToldIsTrue`), and no answer blocks the updates behind it (`UpdatesAreHandled`) | one administrator and one stranger; a number, a name and a path whose second level is that name; 128 values of `unsigned int` and 256 of `unsigned long`, so that 129 converts and wraps; a batch of two, four updates and one restart: a button and its answers or two short dialogues, all handled a second time after an exception or in a new process. The process may stay down and the updates end, so deadlock is not checked |

Runs that show where the code departs from what the repository says:

| run | what happens |
|---|---|
| `ErrorsAreNotified` | `OnAlert` compares states, so a different error of a machine whose last alert was an error is not sent |
| `LostOnline` | a session expiry makes new watchdogs that do not know the machine was reported offline; its return is not told. `OfflineWillBeLifted` holds within one session (`Devices`) |
| `DeafAfterShortTopic` | `NordFrost/ID/#` also matches `NordFrost/ID`; `topics.at(2)` throws out of the event loop, which is run again but without a receive. `ReceivesForever` holds without such messages (`Limits`) |
| `Recipients` | one `sendMessage` that throws ends the loop over the users |
| `UnlockedRead` | `ConfigManager` is said to be thread-safe, but `resolveHmiName` and `resolvePath` read the names of the machines without the mutex, while the Telegram thread may be replacing them |

Other disagreements met while modelling, visible in the models but without a run
of their own: `pet` is called for `state` messages only, while its comment says
every message (`include/topicWatchdog.hpp:57`), and only on the first of two
watchdogs of one machine, so that the second reports a lively machine offline;
Offline may be reported right after a message, by a timeout that
had already completed; only the first of the "notified firings" within
`timeout_limit` is sent; the manual (`src/Телеграм оповіщувач.odt`) says that
winter mode switched on or off is told, but a change through a step other than 0, 1
and 2 is not; a change of the broker's status is sent to the
users by the event loop itself; a second cancelled wait of Graphite's timer
reconnects without pause. Of the configuration: `addMachine` is said to update the
name of a known machine (`include/settings.hpp:178`) but returns false, which the
administrator is not told; a success is said to mean saved on disk
(`include/settings.hpp:156`), which holds unless the flush fails
(`ToldIsTrue` needs its history `unsaved`); a number that is refused is
answered with a request for a correct positive one (`src/adminController.cpp:505`),
yet -1 is accepted as 4294967295, and 2^32 as 0 where `long` has 64 bits (on the
documented ARMv6 `stoul` throws). Of the
dialogues: an id with a slash can be added but not removed (`Plain` excepts it from
`ToldIsTrue`); a code that is no number is noticed after the second question only,
and the dialogue then never ends but by `/cancel` or another button; the question
is advanced before it is sent, so that an answer given again with its batch may
answer the question after it.

### Fairness

`PingLoop`: the loop runs its queue and its timers fire; the client owes no answer,
since a publish with QoS 1 completes only when a broker that stays away comes back.
`MachineMonitor`: the
loop runs its queue, `_retryTimer` fires, and so does the timer of a watchdog that
nobody pets; nothing is assumed of machines, broker or administrator, so that
`SilentReported` and `RetiredDies` carry "the broker stays connected" as a premise.
`AlertPipeline`: every thread runs, and a call to Telegram returns or throws,
which its own timeouts guarantee; no signal has to come. `GraphiteService`: every
operation ends one way or the other and every handler runs; that metrics keep
coming is a premise of `KeepsTrying`. `AdminController`: the Telegram thread runs
and its calls return or throw; that the process stays up and handlers cease to
throw is the premise of `UpdatesAreHandled`. Only weak fairness is used.

## 4. Proofs

All theorems hold for every value of the constants that satisfies the named
assumption of their module; the bounds are constants too.

* **`PingLoopProofs`**: `TypeCorrect`, `LoopNeverDies`, `NoFalseAlarm`,
  `UsersKnowStatus`. `LoopAlive` and `WaitIsForAPing` are inductive with `TypeOK`;
  the work is in lemmas on what appending to and taking from `ready` does to
  `Queued`, and in `CancelledResponse`, which queues the handler of an aborted
  wait and so keeps `LoopAlive` when a wait is replaced. `UsersKnowStatus` rests on
  `NotifyDoes`: wherever the loop over the users ends, those before that point have
  the new status and all others are in `missed`.
* **`MachineMonitorProofs`**: `TypeCorrect` and `OneReceiver` from `LoopInv`, which
  is `TypeOK`, `SingleReceiver` and `ExpiryBound`: that a failed receive which is
  still queued finds a session left is needed to keep `session` in its bound, and
  holds only because there is one receive chain. `EveryMachineWatched` is
  inductive with `TypeOK`: a step changes a watchdog by arming it, by queueing or
  handling a timeout, or by replacing the list, and lemmas name what each does.
  `ReportsWithinLimit` and `OnlineIsNews` come from `ReportInv`, whose conjunct
  `Counted` relates the reports counted in the history to `timeouts`; without it
  neither bound is inductive. `WinterAlertsAgree` needs that nothing
  was told of a machine without a known step, or since a step other than 0, 1 and 2
  (`WinterInv`); which steps machines report is not restricted. `OfflineHasAWatchdog`
  speaks of the watchdog that made a name offline, while the session has it: through
  edited topics, a machine listed twice and names that several machines share it still
  counts, so that petting it would report Online. Of a watchdog that an expiry has
  dropped it says nothing; nobody pets it (`LostOnline`).
  `OfflineIsLifted` is about the watchdog that messages of the machine reach.
  Its hypotheses are what the run `LostOnline` shows to be needed, or what a second
  watchdog or a shared name breaks: the first session (`session = 0`), names that are
  not edited and differ (`NamesAreKept`, `NamesDiffer`), no topic listed twice
  (`TopicsDiffer`); it needs that the watchdogs come from one topic list
  (`Subscribed`) and that nobody else counts (`NobodyElse`). `RetiredIsDead` is an
  action property: whatever starts a timer belongs to the session (`OfSession`).
  `LoopIsNeverLost` is inductive by `Looping`; each step of the receive chain hands
  over to the next.
* **`AlertPipelineProofs`**: `TypeCorrect`, `QueueIsInOrder`, `StopTakesOneAlert` and
  `WorkerOutlivesFailures` from `PipelineInv`. To the order of the queue it adds
  that no queued alert is newer than `pushed` and that the sentinel is queued only
  in the last steps of a stop; to `late` it adds where the worker may be after
  `_running` was cleared. `InboxesAreInOrder` adds that nothing received is newer than
  the alert in hand (`Received`) and that the users still to be reached do not have it
  (`ToReach`); it rests on `ListsAssumption`, that a list names nobody twice, as
  `addUser` sees to. `PipelineDelivers` maps every step of the three threads to a
  step of `AlertDelivery` or to a stutter: a pop takes up the next number because the
  queue holds the last numbers pushed, without a gap, and a user who is sent the
  alert does not have it. `StopWakesEveryone` is the safety core of `StopEnds`.
  `NobodyIsPassedOver` needs `Round`: how far the loop has come in the list it read,
  that the rest of the list is what is left, and that all before it are settled.
* **`GraphiteServiceProofs`**: `TypeCorrect`, `FlagsMatchOperations`,
  `NoBacklogLiesIdle` and `ServiceImplementsFifo` from `ServiceInv`. `NoIdleBacklog`
  is not inductive, because it lets any resolve or connect excuse a backlog;
  `Backlog` allows one only while the socket is not open or in the moment between a
  connect and its handler. The refinement maps every step to `LossyFifo`'s `Put`,
  `HandOver` or `Lose`, or to a stutter; that `_do_write` finds its buffer empty, and
  so loses nothing when it fills it, is `BatchIsUsed`, and that a failed write loses
  no more than a batch is `BatchIsBounded`. The lemmas on sequences say that
  cutting the first of two sequences cuts both.
* **`AdminControllerProofs`**: `TypeCorrect`, `FileHoldsMemory`, `TokenIsKept` and
  `ToldStaysTrue`, from three nested invariants. `TypeInv` adds to `TypeOK` that the
  update in hand is an answer that is being stored (`HandInv`); that a second question
  has the answer to the first (`FirstIsKept`) is a part of `TypeOK`. `FileInv` adds
  that memory and everything still to be stored have a token (`TokenInv`). `Inv` adds
  what `ToldIsTrue` rests on: memory agrees with everything told now, and still will
  after each of the sections the operation under way has to store, the last of which
  makes its answer true (`StoringInv`); two sections of one operation become visible
  one after the other.
  The key lemma,
  `OperationEffect`, says that an operation changes what the configuration says of
  its own object and of no other.

Only model-checked: what needs fairness, which is out of the prover's reach. Most of
it has a part that is proved, that nothing is left without a step to wait for:

| model-checked | proved |
|---|---|
| `PingsForever` | `LoopAlive` |
| `ReceivesForever` | `ReceiverAlive` |
| `SilentReported` | `WatchdogAlive` |
| `RetiredDies` | `RetiredStaysDead` |
| `StopEnds` | `StopCannotBlock` |
| `AlertsAreTaken` | `WorkerStays` |
| `KeepsTrying` | `NoIdleBacklog` |
| `UpdatesAreHandled` | - |

The findings' properties are refuted by their runs and so not theorems.

## 5. Not modelled

* The layout of menus, lists and alerts, and their wording; what `/stateof` and the
  inline search show: they leave no trace in the state and are one step each.
* `formatTime`, `stringToUnix` and the other helpers of `utils`, and the paths and
  timestamps of `Mapper`: conversions without state. Of `Mapper` the number of
  metrics of each theme is modelled (`MachineMonitor!MetricCount`).
* `updateGraphiteConfig`, which nobody calls; broker, graphite and poses, which are
  only read.
* A file that parses but has a value of the wrong type: it ends the program at its
  start.
* The argument check of `main`, the build files, and the libraries, whose sources
  are not in the repository.

## 6. Plan

1. done: `PingLoop`, `MachineMonitor`, `AlertPipeline` with proofs, `GraphiteService`
   with `LossyFifo`.
2. done: `ConfigManager`: memory, file, a crash during `_write`, operations of two
   sections, unlocked `resolve*`.
3. done: `AdminController` on it: dialogues, answers that fail, the restart button,
   updates that are delivered again.
4. done: proofs for `GraphiteService` and its refinement, and for `AdminController`.
5. done: proofs of `InboxInOrder` and `WinterToldIsState`.
6. done: `OfflineWillBeLifted` as a theorem, with its premises as hypotheses; the loop
   that is never lost, watchdogs that stay dead.
7. done: several machines of one displayed name, by theorem
   (`OfflineHasAWatchdog`); the instance with two machines and expiries is too large
   for a run of minutes.
8. done: `AlertDelivery`, what the alert path promises, and its refinement; the bound
   on what `LossyFifo` loses.
9. left: an abstract specification of the connection check (what users are told of
   the broker), and of the watchdogs (Offline and Online in turn).
