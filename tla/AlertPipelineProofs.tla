------------------------ MODULE AlertPipelineProofs ------------------------
(***************************************************************************)
(* The order of the queue and of the inboxes, the end of the threads, the  *)
(* round over the users and the refinement of AlertDelivery, for every set *)
(* of users, user list and number of alerts.                               *)
(*                                                                         *)
(* The order of the queue is not inductive by itself: it needs that the    *)
(* elements are numbers already given out (Given), and that the empty      *)
(* alert comes after the event loop has stopped (EmptyIsLast), so that no  *)
(* push can follow it.  The round over the users needs to know how far it  *)
(* has come in the list that was read (Round).                             *)
(***************************************************************************)
EXTENDS AlertPipeline, Integers, TLAPS

LEMMA PushedQueue ==
  ASSUME NEW S, NEW q \in Seq(S), NEW e \in S
  PROVE  /\ Append(q, e) \in Seq(S)
         /\ DOMAIN Append(q, e) = 1..(Len(q) + 1) /\ DOMAIN q = 1..Len(q) /\ Len(q) \in Nat
         /\ \A i \in DOMAIN q : Append(q, e)[i] = q[i]
         /\ Append(q, e)[Len(q) + 1] = e
OBVIOUS

LEMMA PoppedQueue ==
  ASSUME NEW S, NEW q \in Seq(S), q # <<>>
  PROVE  /\ Tail(q) \in Seq(S) /\ Head(q) \in S
         /\ Head(q) = q[1] /\ 1 \in DOMAIN q
         /\ \A i \in DOMAIN Tail(q) :
              i + 1 \in DOMAIN q /\ Tail(q)[i] = q[i + 1] /\ i \in Nat \ {0} /\ q[i + 1] \in S
OBVIOUS

-----------------------------------------------------------------------------
Stopped == {"stop_tg", "stop_loop", "push_empty", "join_worker", "join_tg", "done"}
Joining == {"join_worker", "join_tg", "done"}

(* The flag is cleared first, and nothing sets it again.                   *)
FlagIsStop == running <=> main \notin Stopped

Given ==
  /\ \A i \in DOMAIN queue : queue[i] <= pushed
  /\ alert <= pushed

EmptyIsLast == \A i \in DOMAIN queue : queue[i] = Sentinel => main \in Joining

LateOnce ==
  /\ late <= 1
  /\ running => late = 0
  /\ late = 1 => worker # "pop"

Holding == worker = "send" => alert # Sentinel

PipelineInv ==
  TypeOK /\ FlagIsStop /\ Given /\ EmptyIsLast /\ QueueInOrder /\ LateOnce /\ WorkerStays
    /\ Holding

(* Actions that leave the queue and the worker alone: of the main thread   *)
(* and of the Telegram thread.                                             *)
MainMoves == StartLoop \/ TellStatus \/ SendStatus \/ Signal \/ StopTg \/ StopLoop
               \/ JoinWorker \/ JoinTg

LEMMA UserListType == \A l \in UserLists : l \in Seq(Users)
BY PipelineAssumption

LEMMA MainMovesType ==
  ASSUME TypeOK, MainMoves
  PROVE  TypeOK'
<1>1. UNCHANGED <<queue, pushed, users, tgConnected, worker, alert, workerLeft, listed, inbox,
                  failed, late, poller>>
  BY DEF MainMoves, StartLoop, TellStatus, SendStatus, Signal, StopTg, StopLoop,
         JoinWorker, JoinTg, workerVars
<1>2. mainLeft' \in Seq(Users)
  <2>1. CASE SendStatus /\ mainLeft # <<>>
    <3>1. Tail(mainLeft) \in Seq(Users) /\ <<>> \in Seq(Users)
      BY <2>1 DEF TypeOK
    <3> QED
      BY <2>1, <3>1 DEF SendStatus
  <2>2. CASE TellStatus
    BY <2>2, UserListType DEF TellStatus, TypeOK
  <2> QED
    BY <2>1, <2>2 DEF MainMoves, StartLoop, SendStatus, Signal, StopTg, StopLoop,
       JoinWorker, JoinTg, TypeOK
<1>3. /\ running' \in BOOLEAN /\ exit' \in BOOLEAN
      /\ main' \in {"starting", "loop", "sending", "stop_tg", "stop_loop", "push_empty",
                    "join_worker", "join_tg", "done"}
  BY DEF MainMoves, StartLoop, TellStatus, SendStatus, Signal, StopTg, StopLoop,
         JoinWorker, JoinTg, TypeOK
<1> QED
  BY <1>1, <1>2, <1>3 DEF TypeOK

LEMMA MainMovesInv ==
  ASSUME PipelineInv, MainMoves
  PROVE  PipelineInv'
<1>1. UNCHANGED <<queue, pushed, worker, alert, late>>
  BY DEF MainMoves, StartLoop, TellStatus, SendStatus, Signal, StopTg, StopLoop,
         JoinWorker, JoinTg, workerVars
<1>2. FlagIsStop' /\ (running' => running) /\ (main \in Joining => main' \in Joining)
  BY DEF PipelineInv, FlagIsStop, Stopped, Joining, MainMoves, StartLoop, TellStatus,
         SendStatus, Signal, StopTg, StopLoop, JoinWorker, JoinTg
<1>3. Given' /\ QueueInOrder'
  BY <1>1 DEF PipelineInv, Given, QueueInOrder
<1>4. EmptyIsLast' /\ LateOnce' /\ WorkerStays' /\ Holding'
  BY <1>1, <1>2 DEF PipelineInv, EmptyIsLast, LateOnce, WorkerStays, Holding
<1> QED
  BY <1>2, <1>3, <1>4, MainMovesType DEF PipelineInv

LEMMA PushAlertInv ==
  ASSUME PipelineInv, PushAlert
  PROVE  PipelineInv'
<1>1. /\ main = "loop" /\ pushed < MaxAlerts /\ pushed' = pushed + 1
      /\ queue' = Append(queue, pushed + 1)
      /\ UNCHANGED <<running, exit, users, tgConnected, main, mainLeft, worker, alert,
                     workerLeft, listed, inbox, failed, late, poller>>
  BY DEF PushAlert, mainVars, workerVars
<1>2. pushed \in Nat /\ MaxAlerts \in Nat /\ pushed + 1 \in Alerts
  BY <1>1, PipelineAssumption DEF PipelineInv, TypeOK, Alerts
<1>3. /\ queue' \in Seq(Alerts \cup {Sentinel})
      /\ DOMAIN queue' = 1..(Len(queue) + 1) /\ DOMAIN queue = 1..Len(queue)
      /\ Len(queue) \in Nat
      /\ \A i \in DOMAIN queue : queue'[i] = queue[i]
      /\ queue'[Len(queue) + 1] = pushed + 1
  BY <1>1, <1>2, PushedQueue DEF PipelineInv, TypeOK
<1>4. \A i \in DOMAIN queue : queue[i] # Sentinel /\ queue[i] <= pushed /\ queue[i] \in Nat
  BY <1>1, <1>2 DEF PipelineInv, EmptyIsLast, Joining, Given, TypeOK, Alerts, Sentinel
<1>5. alert <= pushed /\ alert \in Nat
  BY DEF PipelineInv, Given, TypeOK, Alerts, Sentinel
<1>6. TypeOK'
  BY <1>1, <1>2, <1>3 DEF PipelineInv, TypeOK, Alerts
<1>7. Given'
  BY <1>1, <1>2, <1>3, <1>4, <1>5 DEF Given
<1>8. QueueInOrder'
  BY <1>1, <1>2, <1>3, <1>4, <1>5 DEF PipelineInv, QueueInOrder, Sentinel
<1>9. EmptyIsLast'
  BY <1>2, <1>3, <1>4 DEF EmptyIsLast, Sentinel
<1> QED
  BY <1>1, <1>6, <1>7, <1>8, <1>9 DEF PipelineInv, FlagIsStop, LateOnce, WorkerStays, Holding

LEMMA PushEmptyInv ==
  ASSUME PipelineInv, PushEmpty
  PROVE  PipelineInv'
<1>1. /\ main = "push_empty" /\ main' = "join_worker"
      /\ queue' = Append(queue, Sentinel)
      /\ UNCHANGED <<pushed, running, exit, users, tgConnected, mainLeft, worker, alert,
                     workerLeft, listed, inbox, failed, late, poller>>
  BY DEF PushEmpty, workerVars
<1>2. /\ queue' \in Seq(Alerts \cup {Sentinel})
      /\ DOMAIN queue' = 1..(Len(queue) + 1) /\ DOMAIN queue = 1..Len(queue)
      /\ Len(queue) \in Nat
      /\ \A i \in DOMAIN queue : queue'[i] = queue[i]
      /\ queue'[Len(queue) + 1] = Sentinel
  BY <1>1, PushedQueue DEF PipelineInv, TypeOK
<1>3. \A i \in DOMAIN queue : queue[i] # Sentinel
  BY <1>1 DEF PipelineInv, EmptyIsLast, Joining
<1>4. TypeOK'
  BY <1>1, <1>2 DEF PipelineInv, TypeOK
<1>5. Given'
  <2>1. 0 <= pushed
    BY DEF PipelineInv, TypeOK
  <2>2. \A i \in DOMAIN queue' : i \in DOMAIN queue \/ i = Len(queue) + 1
    BY <1>2
  <2>3. \A i \in DOMAIN queue' : queue'[i] <= pushed
    BY <1>2, <2>1, <2>2 DEF PipelineInv, Given, Sentinel
  <2> QED
    BY <1>1, <2>3 DEF PipelineInv, Given
<1>6. QueueInOrder'
  BY <1>1, <1>2, <1>3 DEF PipelineInv, QueueInOrder
<1>7. EmptyIsLast' /\ FlagIsStop' /\ LateOnce' /\ WorkerStays' /\ Holding'
  BY <1>1 DEF PipelineInv, EmptyIsLast, FlagIsStop, Stopped, Joining, LateOnce, WorkerStays,
              Holding
<1> QED
  BY <1>4, <1>5, <1>6, <1>7 DEF PipelineInv

LEMMA WorkerPopInv ==
  ASSUME PipelineInv, WorkerPop
  PROVE  PipelineInv'
<1>1. /\ worker = "pop" /\ queue # <<>> /\ alert' = Head(queue) /\ queue' = Tail(queue)
      /\ UNCHANGED <<inbox, failed, pushed, running, exit, users, tgConnected, main,
                     mainLeft, poller>>
      /\ \/ alert' = Sentinel /\ worker' = "done" /\ UNCHANGED <<workerLeft, listed, late>>
         \/ /\ alert' # Sentinel /\ worker' = "send" /\ workerLeft' = users /\ listed' = users
            /\ late' = IF running THEN late ELSE late + 1
  BY DEF WorkerPop, PopNext, WorkerUnchanged, mainVars
<1>2. /\ queue' \in Seq(Alerts \cup {Sentinel}) /\ alert' \in Alerts \cup {Sentinel}
      /\ alert' = queue[1] /\ 1 \in DOMAIN queue
      /\ \A i \in DOMAIN queue' :
           i + 1 \in DOMAIN queue /\ queue'[i] = queue[i + 1] /\ i \in Nat \ {0}
  BY <1>1, PoppedQueue DEF PipelineInv, TypeOK
<1>3. late \in {0} /\ late' \in {0, 1} /\ (running => late' = 0)
  BY <1>1 DEF PipelineInv, LateOnce, TypeOK
<1>4. TypeOK'
  BY <1>1, <1>2, <1>3, UserListType DEF PipelineInv, TypeOK
<1>5. Given'
  BY <1>1, <1>2 DEF PipelineInv, Given
<1>6. QueueInOrder'
  <2>1. \A i \in DOMAIN queue' : queue'[i] # Sentinel => alert' < queue'[i]
    BY <1>2 DEF PipelineInv, QueueInOrder
  <2>2. \A i, j \in DOMAIN queue' : i < j => i + 1 < j + 1
    BY <1>2
  <2> QED
    BY <1>2, <2>1, <2>2 DEF PipelineInv, QueueInOrder
<1>7. EmptyIsLast'
  BY <1>1, <1>2 DEF PipelineInv, EmptyIsLast
<1>8. WorkerStays'
  BY <1>1, <1>2 DEF PipelineInv, WorkerStays, EmptyIsLast, FlagIsStop, Joining, Stopped
<1>9. LateOnce' /\ FlagIsStop' /\ Holding'
  BY <1>1, <1>3 DEF PipelineInv, LateOnce, FlagIsStop, Holding
<1> QED
  BY <1>4, <1>5, <1>6, <1>7, <1>8, <1>9 DEF PipelineInv

LEMMA WorkerSendInv ==
  ASSUME PipelineInv, WorkerSend
  PROVE  PipelineInv'
<1> DEFINE u == Head(workerLeft)
<1>1. /\ worker = "send" /\ workerLeft # <<>> /\ worker' = "send"
      /\ UNCHANGED <<queue, alert, listed, late, pushed, running, exit, users, tgConnected, main,
                     mainLeft, poller>>
      /\ inbox' \in {inbox, [inbox EXCEPT ![u] = Append(@, alert)]}
      /\ failed' \in {failed, [failed EXCEPT ![u] = @ \cup {alert}]}
      /\ workerLeft' \in {Tail(workerLeft), <<>>}
  BY DEF WorkerSend, SendReturns, SendThrows, WorkerUnchanged, mainVars
<1>2. u \in Users /\ Tail(workerLeft) \in Seq(Users) /\ <<>> \in Seq(Users)
  BY <1>1, PoppedQueue DEF PipelineInv, TypeOK
<1>3. alert \in Alerts
  BY <1>1 DEF PipelineInv, Holding, TypeOK
<1>4. inbox' \in [Users -> Seq(Alerts)]
  <2>1. Append(inbox[u], alert) \in Seq(Alerts)
    BY <1>2, <1>3 DEF PipelineInv, TypeOK
  <2> QED
    BY <1>1, <1>2, <2>1 DEF PipelineInv, TypeOK
<1>5. failed' \in [Users -> SUBSET Alerts]
  <2>1. failed \in [Users -> SUBSET Alerts]
    BY DEF PipelineInv, TypeOK
  <2>2. failed[u] \cup {alert} \in SUBSET Alerts
    BY <1>2, <1>3, <2>1
  <2> HIDE DEF u
  <2> QED
    BY <1>1, <1>2, <2>1, <2>2
<1>6. TypeOK'
  BY <1>1, <1>2, <1>4, <1>5 DEF PipelineInv, TypeOK
<1> QED
  BY <1>1, <1>6 DEF PipelineInv, FlagIsStop, Given, EmptyIsLast, QueueInOrder, LateOnce,
                    WorkerStays, Holding

LEMMA WorkerMovesInv ==
  ASSUME PipelineInv, WorkerCheck \/ WorkerSent
  PROVE  PipelineInv'
<1>1. /\ UNCHANGED <<queue, alert, workerLeft, listed, inbox, failed, late, pushed, running, exit,
                     users, tgConnected, main, mainLeft, poller>>
      /\ \/ worker' = "check"
         \/ worker' = "pop" /\ running
         \/ worker' = "done" /\ ~running
  BY DEF WorkerCheck, WorkerSent, WorkerUnchanged, mainVars
<1> QED
  BY <1>1 DEF PipelineInv, TypeOK, FlagIsStop, Given, EmptyIsLast, QueueInOrder, LateOnce,
              WorkerStays, Holding

LEMMA PollerInv ==
  ASSUME PipelineInv, Polling \/ UsersEdited
  PROVE  PipelineInv'
<1>1. /\ UNCHANGED <<queue, pushed, running, main, mainLeft, worker, alert, workerLeft, listed,
                     inbox, failed, late>>
      /\ users' \in UserLists /\ exit' \in BOOLEAN /\ tgConnected' \in BOOLEAN
      /\ poller' \in {"starting", "check", "polling", "done"}
  BY DEF Polling, PollerStart, PollerCheck, PollerPolled, UsersEdited, PollerUnchanged,
         mainVars, workerVars, PipelineInv, TypeOK
<1> QED
  BY <1>1 DEF PipelineInv, TypeOK, FlagIsStop, Given, EmptyIsLast, QueueInOrder, LateOnce,
              WorkerStays, Holding

LEMMA PipelineStep == PipelineInv /\ [Next]_vars => PipelineInv'
<1> SUFFICES ASSUME PipelineInv, [Next]_vars PROVE PipelineInv'
  OBVIOUS
<1>1. CASE UNCHANGED vars
  BY <1>1 DEF vars, mainVars, workerVars, PipelineInv, TypeOK, FlagIsStop, Given,
              EmptyIsLast, QueueInOrder, LateOnce, WorkerStays, Holding
<1>2. Next => MainMoves \/ PushAlert \/ PushEmpty \/ WorkerPop \/ WorkerSend
                \/ (WorkerCheck \/ WorkerSent) \/ (Polling \/ UsersEdited)
  BY DEF Next, Stopping, Working, MainMoves
<1> QED
  BY <1>1, <1>2, MainMovesInv, PushAlertInv, PushEmptyInv, WorkerPopInv, WorkerSendInv,
     WorkerMovesInv, PollerInv

LEMMA PipelineInit == Init => PipelineInv
<1> SUFFICES ASSUME Init PROVE PipelineInv
  OBVIOUS
<1>1. <<>> \in Seq(Alerts \cup {Sentinel}) /\ <<>> \in Seq(Users) /\ <<>> \in Seq(Alerts)
  OBVIOUS
<1>2. TypeOK
  BY <1>1, PipelineAssumption DEF Init, TypeOK
<1> QED
  BY <1>2 DEF Init, PipelineInv, FlagIsStop, Stopped, Given, EmptyIsLast, QueueInOrder,
              LateOnce, WorkerStays, Holding, Sentinel

LEMMA PipelineInvariant == Spec => []PipelineInv
BY PipelineInit, PipelineStep, PTL DEF Spec

-----------------------------------------------------------------------------
(* Every variable of the pipeline keeps its type.                          *)
THEOREM TypeCorrect == Spec => []TypeOK
<1>1. PipelineInv => TypeOK
  BY DEF PipelineInv
<1> QED
  BY <1>1, PipelineInvariant, PTL

(* The queue holds the alerts in the order of their pushes, after the one  *)
(* the worker holds, and nothing follows the empty alert.                  *)
THEOREM QueueIsInOrder == Spec => []QueueInOrder
<1>1. PipelineInv => QueueInOrder
  BY DEF PipelineInv
<1> QED
  BY <1>1, PipelineInvariant, PTL

(* After the flag is cleared the worker takes at most one alert more.      *)
THEOREM StopTakesOneAlert == Spec => []StopIsPrompt
<1>1. PipelineInv => StopIsPrompt
  BY DEF PipelineInv, LateOnce, StopIsPrompt
<1> QED
  BY <1>1, PipelineInvariant, PTL

(* No failure to send ends the worker while the program runs.              *)
THEOREM WorkerOutlivesFailures == Spec => []WorkerStays
<1>1. PipelineInv => WorkerStays
  BY DEF PipelineInv
<1> QED
  BY <1>1, PipelineInvariant, PTL

-----------------------------------------------------------------------------
(* What the users received.  That an inbox is in order needs to know that  *)
(* nothing in it is newer than the alert in hand, and that the users still *)
(* to be reached, each of them once, do not have that alert.               *)

LEMMA ElementIs ==
  ASSUME NEW S, NEW q \in Seq(S), NEW i \in DOMAIN q
  PROVE  q[i] \in S
OBVIOUS

LEMMA AlertIsNat == \A a \in Alerts : a \in Nat
BY PipelineAssumption DEF Alerts

Received == worker # "done" => \A u \in Users : \A i \in DOMAIN inbox[u] : inbox[u][i] <= alert

ToReach ==
  worker = "send" =>
    \A k \in DOMAIN workerLeft : \A i \in DOMAIN inbox[workerLeft[k]] :
      inbox[workerLeft[k]][i] < alert

NoneTwice == \A k, l \in DOMAIN workerLeft : k # l => workerLeft[k] # workerLeft[l]

InboxInv == PipelineInv /\ Received /\ ToReach /\ NoneTwice /\ InboxInOrder

(* Steps that leave worker and inboxes alone, or end the sending.          *)
LEMMA InboxKept ==
  ASSUME InboxInv, PipelineInv', UNCHANGED <<alert, workerLeft, inbox>>,
         worker' # "done" => worker # "done", worker' = "send" => worker = "send"
  PROVE  InboxInv'
BY DEF InboxInv, Received, ToReach, NoneTwice, InboxInOrder

LEMMA WorkerPopInbox ==
  ASSUME InboxInv, PipelineInv', WorkerPop
  PROVE  InboxInv'
<1>1. /\ worker = "pop" /\ queue # <<>> /\ alert' = Head(queue) /\ inbox' = inbox
      /\ \/ alert' = Sentinel /\ worker' = "done" /\ workerLeft' = workerLeft
         \/ alert' # Sentinel /\ worker' = "send" /\ workerLeft' = users
  BY DEF WorkerPop, PopNext
<1>2. CASE worker' = "done"
  BY <1>1, <1>2 DEF InboxInv, Received, ToReach, NoneTwice, InboxInOrder
<1>3. CASE worker' = "send" /\ alert' # Sentinel /\ workerLeft' = users
  <2>1. alert' = queue[1] /\ 1 \in DOMAIN queue
    BY <1>1, PoppedQueue DEF InboxInv, PipelineInv, TypeOK
  <2>2. alert < alert'
    BY <1>3, <2>1 DEF InboxInv, PipelineInv, QueueInOrder
  <2>3. alert \in Nat /\ alert' \in Nat
    BY DEF InboxInv, PipelineInv, TypeOK, Alerts, Sentinel
  <2>4. users \in UserLists /\ users \in Seq(Users)
    BY UserListType DEF InboxInv, PipelineInv, TypeOK
  <2>5. \A k \in DOMAIN users : users[k] \in Users
    BY <2>4
  <2>6. \A u \in Users : \A i \in DOMAIN inbox[u] : inbox[u][i] \in Nat /\ inbox[u][i] < alert'
    <3>1. ASSUME NEW u \in Users, NEW i \in DOMAIN inbox[u]
          PROVE  inbox[u][i] \in Nat /\ inbox[u][i] < alert'
      <4>1. inbox[u] \in Seq(Alerts)
        BY DEF InboxInv, PipelineInv, TypeOK
      <4>2. inbox[u][i] \in Nat
        <5>1. inbox[u][i] \in Alerts
          BY <4>1, ElementIs
        <5> QED
          BY <5>1, AlertIsNat
      <4>3. inbox[u][i] <= alert
        <5>1. worker # "done" /\ Received
          BY <1>1 DEF InboxInv
        <5> QED
          BY <5>1, Zenon DEF Received
      <4> QED
        BY <2>2, <2>3, <4>2, <4>3
    <3> QED
      BY <3>1
  <2>7. Received'
    BY <1>1, <2>3, <2>6 DEF Received
  <2>8. ToReach'
    BY <1>1, <1>3, <2>5, <2>6 DEF ToReach
  <2>9. NoneTwice'
    BY <1>3, <2>4, ListsAssumption DEF NoneTwice
  <2>10. InboxInOrder'
    BY <1>1 DEF InboxInv, InboxInOrder
  <2> QED
    BY <2>7, <2>8, <2>9, <2>10 DEF InboxInv
<1> QED
  BY <1>1, <1>2, <1>3

LEMMA WorkerSendInbox ==
  ASSUME InboxInv, PipelineInv', WorkerSend
  PROVE  InboxInv'
<1> DEFINE u == Head(workerLeft)
<1>1. /\ worker = "send" /\ workerLeft # <<>> /\ worker' = "send" /\ alert' = alert
      /\ inbox' \in {inbox, [inbox EXCEPT ![u] = Append(@, alert)]}
      /\ workerLeft' \in {Tail(workerLeft), <<>>}
  BY DEF WorkerSend, SendReturns, SendThrows
<1>2. workerLeft \in Seq(Users)
  BY DEF InboxInv, PipelineInv, TypeOK
<1>3. /\ u \in Users /\ u = workerLeft[1] /\ 1 \in DOMAIN workerLeft
      /\ \A k \in DOMAIN Tail(workerLeft) :
           /\ k + 1 \in DOMAIN workerLeft /\ Tail(workerLeft)[k] = workerLeft[k + 1]
           /\ k \in Nat \ {0} /\ workerLeft[k + 1] \in Users
  BY <1>1, <1>2, PoppedQueue
<1>4. alert \in Alerts /\ alert \in Nat
  BY <1>1 DEF InboxInv, PipelineInv, Holding, TypeOK, Alerts, Sentinel
<1>5. \A v \in Users : inbox[v] \in Seq(Alerts) /\ \A i \in DOMAIN inbox[v] : inbox[v][i] \in Nat
  <2>1. \A v \in Users : inbox[v] \in Seq(Alerts)
    BY DEF InboxInv, PipelineInv, TypeOK
  <2> QED
    BY <2>1, ElementIs, AlertIsNat
<1> HIDE DEF u
<1>6. \A i \in DOMAIN inbox[u] : inbox[u][i] < alert
  BY <1>1, <1>3 DEF InboxInv, ToReach
<1>7. \A v \in Users : inbox'[v] = inbox[v] \/ (v = u /\ inbox'[v] = Append(inbox[u], alert))
  <2>1. inbox \in [Users -> Seq(Alerts)]
    BY DEF InboxInv, PipelineInv, TypeOK
  <2>2. CASE inbox' = inbox
    BY <2>2
  <2>3. CASE inbox' = [inbox EXCEPT ![u] = Append(inbox[u], alert)]
    BY <1>3, <2>1, <2>3
  <2> QED
    BY <1>1, <2>2, <2>3
<1>8. LET b == Append(inbox[u], alert)
      IN /\ DOMAIN b = 1..(Len(inbox[u]) + 1) /\ DOMAIN inbox[u] = 1..Len(inbox[u])
         /\ Len(inbox[u]) \in Nat
         /\ \A i \in DOMAIN inbox[u] : b[i] = inbox[u][i]
         /\ b[Len(inbox[u]) + 1] = alert
  BY <1>3, <1>4, <1>5, PushedQueue
<1>9. Received'
  <2>1. ASSUME NEW v \in Users, NEW i \in DOMAIN inbox'[v] PROVE inbox'[v][i] <= alert
    <3>1. CASE inbox'[v] = inbox[v]
      BY <1>1, <3>1 DEF InboxInv, Received
    <3>2. CASE v = u /\ inbox'[v] = Append(inbox[u], alert)
      <4>1. i \in DOMAIN inbox[u] \/ i = Len(inbox[u]) + 1
        BY <1>8, <3>2
      <4> QED
        BY <1>3, <1>4, <1>5, <1>6, <1>8, <3>2, <4>1
    <3> QED
      BY <1>7, <3>1, <3>2
  <2> QED
    BY <1>1, <2>1 DEF Received
<1>10. ToReach' /\ NoneTwice'
  <2>1. CASE workerLeft' = <<>>
    BY <2>1 DEF ToReach, NoneTwice
  <2>2. CASE workerLeft' = Tail(workerLeft)
    <3>1. NoneTwice'
      <4>1. \A k, l \in DOMAIN workerLeft' : k # l => k + 1 # l + 1
        BY <1>3, <2>2
      <4> QED
        BY <1>3, <2>2, <4>1 DEF InboxInv, NoneTwice
    <3>2. ASSUME NEW k \in DOMAIN workerLeft'
          PROVE  /\ workerLeft'[k] \in Users /\ inbox'[workerLeft'[k]] = inbox[workerLeft[k + 1]]
                 /\ k + 1 \in DOMAIN workerLeft
      <4>1. k + 1 \in DOMAIN workerLeft /\ workerLeft'[k] = workerLeft[k + 1] /\ k + 1 # 1
        BY <1>3, <2>2
      <4>2. workerLeft[k + 1] # u /\ workerLeft[k + 1] \in Users
        BY <1>3, <2>2, <4>1 DEF InboxInv, NoneTwice
      <4> QED
        BY <1>7, <4>1, <4>2
    <3>3. ToReach'
      BY <1>1, <3>2 DEF InboxInv, ToReach
    <3> QED
      BY <3>1, <3>3
  <2> QED
    BY <1>1, <2>1, <2>2
<1>11. InboxInOrder'
  <2>1. ASSUME NEW v \in Users, NEW i \in DOMAIN inbox'[v], NEW j \in DOMAIN inbox'[v], i < j
        PROVE  inbox'[v][i] < inbox'[v][j]
    <3>1. CASE inbox'[v] = inbox[v]
      BY <2>1, <3>1 DEF InboxInv, InboxInOrder
    <3>2. CASE v = u /\ inbox'[v] = Append(inbox[u], alert)
      <4>1. CASE j \in DOMAIN inbox[u]
        <5>1. i \in DOMAIN inbox[u]
          BY <1>8, <2>1, <3>2, <4>1
        <5> QED
          BY <1>3, <1>8, <2>1, <3>2, <4>1, <5>1 DEF InboxInv, InboxInOrder
      <4>2. CASE j = Len(inbox[u]) + 1
        <5>1. i \in DOMAIN inbox[u]
          BY <1>8, <2>1, <3>2, <4>2
        <5> QED
          BY <1>6, <1>8, <3>2, <4>2, <5>1
      <4> QED
        BY <1>8, <3>2, <4>1, <4>2
    <3> QED
      BY <1>7, <3>1, <3>2
  <2> QED
    BY <2>1 DEF InboxInOrder
<1> QED
  BY <1>9, <1>10, <1>11 DEF InboxInv

LEMMA InboxStep == InboxInv /\ [Next]_vars => InboxInv'
<1> SUFFICES ASSUME InboxInv, [Next]_vars PROVE InboxInv'
  OBVIOUS
<1>1. PipelineInv'
  BY PipelineStep DEF InboxInv
<1>2. CASE WorkerPop
  BY <1>1, <1>2, WorkerPopInbox
<1>3. CASE WorkerSend
  BY <1>1, <1>3, WorkerSendInbox
<1>4. CASE WorkerCheck \/ WorkerSent
  <2>1. /\ UNCHANGED <<alert, workerLeft, inbox>> /\ worker # "done"
        /\ worker' \in {"check", "pop", "done"}
    BY <1>4 DEF WorkerCheck, WorkerSent
  <2> QED
    BY <1>1, <2>1, InboxKept
<1>5. CASE MainMoves \/ PushAlert \/ PushEmpty \/ Polling \/ UsersEdited \/ UNCHANGED vars
  <2>1. UNCHANGED <<alert, workerLeft, inbox, worker>>
    BY <1>5 DEF MainMoves, StartLoop, TellStatus, SendStatus, Signal, StopTg, StopLoop,
       JoinWorker, JoinTg, PushAlert, PushEmpty, Polling, PollerStart, PollerCheck,
       PollerPolled, UsersEdited, PollerUnchanged, workerVars, vars
  <2> QED
    BY <1>1, <2>1, InboxKept
<1> QED
  BY <1>2, <1>3, <1>4, <1>5 DEF Next, Stopping, Working, MainMoves

LEMMA InboxInit == Init => InboxInv
<1>1. Init => PipelineInv
  BY PipelineInit
<1>2. Init => Received /\ ToReach /\ NoneTwice /\ InboxInOrder
  BY DEF Init, Received, ToReach, NoneTwice, InboxInOrder
<1> QED
  BY <1>1, <1>2 DEF InboxInv

(* No user receives an alert twice, or an older one after a newer one.     *)
THEOREM InboxesAreInOrder == Spec => []InboxInOrder
<1>1. InboxInv => InboxInOrder
  BY DEF InboxInv
<1> QED
  BY <1>1, InboxInit, InboxStep, PTL DEF Spec

-----------------------------------------------------------------------------
(* The promise of AlertDelivery.  The refinement needs that the queue      *)
(* holds the next alerts without a gap, that the alert in hand is the last *)
(* one taken, and that the main thread ends after the worker.              *)

LEMMA BacklogAppended ==
  ASSUME NEW S, NEW q \in Seq(S), NEW e \in S, \A i \in DOMAIN q : q[i] # Sentinel
  PROVE  /\ Backlog(q) = Len(q)
         /\ Backlog(Append(q, e)) = IF e = Sentinel THEN Len(q) ELSE Len(q) + 1
<1>1. /\ Append(q, e) \in Seq(S) /\ Append(q, e) # <<>>
      /\ Len(Append(q, e)) = Len(q) + 1 /\ Append(q, e)[Len(q) + 1] = e
      /\ Len(q) \in Nat /\ DOMAIN q = 1..Len(q)
  OBVIOUS
<1>2. q # <<>> => Len(q) \in DOMAIN q
  OBVIOUS
<1>3. Backlog(q) = Len(q)
  BY <1>2 DEF Backlog
<1>4. Len(q) + 1 - 1 = Len(q)
  BY <1>1
<1> HIDE DEF Backlog
<1>5. Backlog(Append(q, e)) = IF e = Sentinel THEN Len(q) ELSE Len(q) + 1
  BY <1>1, <1>4 DEF Backlog
<1> QED
  BY <1>3, <1>5

(* The empty alert comes last, so what is taken from the head of a queue   *)
(* is an alert, or the queue was the empty alert alone.                    *)
LEMMA BacklogTaken ==
  ASSUME NEW S, NEW q \in Seq(S), q # <<>>,
         \A i, j \in DOMAIN q : i < j => q[i] # Sentinel
  PROVE  /\ Head(q) # Sentinel => Backlog(q) > 0 /\ Backlog(Tail(q)) = Backlog(q) - 1
         /\ Head(q) = Sentinel => Backlog(q) = 0 /\ Backlog(Tail(q)) = 0 /\ Tail(q) = <<>>
<1>1. /\ Len(q) \in Nat \ {0} /\ DOMAIN q = 1..Len(q) /\ Head(q) = q[1]
      /\ Tail(q) \in Seq(S) /\ Len(Tail(q)) = Len(q) - 1
  OBVIOUS
<1>2. \A s \in Seq(S) : s = <<>> <=> Len(s) = 0
  OBVIOUS
<1>3. Tail(q) = <<>> <=> Len(q) = 1
  BY <1>1, <1>2
<1>4. Len(q) > 1 => Tail(q)[Len(q) - 1] = q[Len(q)]
  OBVIOUS
<1>5. CASE Len(q) = 1
  <2>1. Backlog(q) = (IF q[1] = Sentinel THEN 0 ELSE 1) /\ Backlog(Tail(q)) = 0
    BY <1>1, <1>3, <1>5 DEF Backlog
  <2> QED
    BY <1>1, <1>3, <1>5, <2>1
<1>6. CASE Len(q) > 1
  <2>1. Head(q) # Sentinel
    BY <1>1, <1>6
  <2>2. Backlog(q) = IF q[Len(q)] = Sentinel THEN Len(q) - 1 ELSE Len(q)
    BY DEF Backlog
  <2>3. Backlog(Tail(q)) = IF q[Len(q)] = Sentinel THEN Len(q) - 1 - 1 ELSE Len(q) - 1
    BY <1>1, <1>3, <1>4, <1>6 DEF Backlog
  <2> QED
    BY <1>1, <1>6, <2>1, <2>2, <2>3
<1> QED
  BY <1>1, <1>5, <1>6

InTurn ==
  /\ \A i \in DOMAIN queue : queue[i] # Sentinel => queue[i] = Taken + i
  /\ worker # "done" => alert = Taken
  /\ main \in {"join_tg", "done"} => worker = "done"

DeliveryInv == InboxInv /\ InTurn

LEMMA TakenIsInt == TypeOK => Taken \in Int /\ pushed \in Nat /\ Len(queue) \in Nat
<1> SUFFICES ASSUME TypeOK PROVE Taken \in Int /\ pushed \in Nat /\ Len(queue) \in Nat
  OBVIOUS
<1>1. pushed \in Nat /\ Len(queue) \in Nat
  BY PipelineAssumption DEF TypeOK
<1>2. Backlog(queue) \in Int
  BY <1>1 DEF Backlog
<1> QED
  BY <1>1, <1>2 DEF Taken

LEMMA PushAlertInTurn ==
  ASSUME DeliveryInv, PushAlert
  PROVE  InTurn' /\ Taken' = Taken
<1>1. /\ main = "loop" /\ pushed' = pushed + 1 /\ queue' = Append(queue, pushed + 1)
      /\ UNCHANGED <<running, main, worker, alert>>
  BY DEF PushAlert, mainVars, workerVars
<1>2. pushed + 1 \in Alerts /\ pushed \in Nat /\ pushed + 1 # Sentinel
  BY PipelineAssumption DEF PushAlert, DeliveryInv, InboxInv, PipelineInv, TypeOK, Alerts, Sentinel
<1>3. queue \in Seq(Alerts \cup {Sentinel}) /\ \A i \in DOMAIN queue : queue[i] # Sentinel
  BY <1>1 DEF DeliveryInv, InboxInv, PipelineInv, EmptyIsLast, Joining, TypeOK
<1>4. /\ DOMAIN queue' = 1..(Len(queue) + 1) /\ DOMAIN queue = 1..Len(queue)
      /\ Len(queue) \in Nat
      /\ \A i \in DOMAIN queue : queue'[i] = queue[i]
      /\ queue'[Len(queue) + 1] = pushed + 1
  BY <1>1, <1>2, <1>3, PushedQueue
<1>5. Backlog(queue) = Len(queue) /\ Backlog(queue') = Len(queue) + 1
  BY <1>1, <1>2, <1>3, BacklogAppended
<1>6. Taken' = Taken /\ Taken + (Len(queue) + 1) = pushed + 1
  BY <1>1, <1>2, <1>4, <1>5 DEF Taken
<1>7. \A i \in DOMAIN queue' : i \in DOMAIN queue \/ i = Len(queue) + 1
  BY <1>4
<1>8. \A i \in DOMAIN queue' : queue'[i] # Sentinel => queue'[i] = Taken' + i
  BY <1>4, <1>6, <1>7 DEF DeliveryInv, InTurn
<1> QED
  BY <1>1, <1>6, <1>8 DEF DeliveryInv, InTurn

LEMMA PushEmptyInTurn ==
  ASSUME DeliveryInv, PushEmpty
  PROVE  InTurn' /\ Taken' = Taken
<1>1. /\ main = "push_empty" /\ main' = "join_worker" /\ queue' = Append(queue, Sentinel)
      /\ UNCHANGED <<pushed, worker, alert>>
  BY DEF PushEmpty, workerVars
<1>2. queue \in Seq(Alerts \cup {Sentinel}) /\ \A i \in DOMAIN queue : queue[i] # Sentinel
  BY <1>1 DEF DeliveryInv, InboxInv, PipelineInv, EmptyIsLast, Joining, TypeOK
<1>3. /\ DOMAIN queue' = 1..(Len(queue) + 1) /\ DOMAIN queue = 1..Len(queue)
      /\ \A i \in DOMAIN queue : queue'[i] = queue[i]
      /\ queue'[Len(queue) + 1] = Sentinel
  BY <1>1, <1>2, PushedQueue
<1>4. Backlog(queue) = Len(queue) /\ Backlog(queue') = Len(queue)
  BY <1>1, <1>2, BacklogAppended
<1>5. Taken' = Taken
  BY <1>1, <1>4 DEF Taken
<1>6. \A i \in DOMAIN queue' : queue'[i] # Sentinel => queue'[i] = Taken' + i
  BY <1>3, <1>5 DEF DeliveryInv, InTurn
<1> QED
  BY <1>1, <1>5, <1>6 DEF DeliveryInv, InTurn

LEMMA WorkerPopInTurn ==
  ASSUME DeliveryInv, WorkerPop
  PROVE  /\ InTurn'
         /\ alert' # Sentinel => Taken < pushed /\ Taken' = Taken + 1
         /\ alert' = Sentinel => Taken' = Taken
<1>1. /\ worker = "pop" /\ queue # <<>> /\ alert' = Head(queue) /\ queue' = Tail(queue)
      /\ UNCHANGED <<pushed, main>>
      /\ alert' = Sentinel => worker' = "done"
  BY DEF WorkerPop, PopNext, WorkerUnchanged, mainVars
<1>2. /\ queue \in Seq(Alerts \cup {Sentinel})
      /\ \A i, j \in DOMAIN queue : i < j => queue[i] # Sentinel
  BY DEF DeliveryInv, InboxInv, PipelineInv, QueueInOrder, TypeOK
<1>3. /\ Head(queue) = queue[1] /\ 1 \in DOMAIN queue
      /\ \A i \in DOMAIN queue' :
           i + 1 \in DOMAIN queue /\ queue'[i] = queue[i + 1] /\ i \in Nat \ {0}
  BY <1>1, <1>2, PoppedQueue
<1>4. Taken \in Int /\ pushed \in Nat
  BY TakenIsInt DEF DeliveryInv, InboxInv, PipelineInv
<1>5. main \notin {"join_tg", "done"}
  BY <1>1 DEF DeliveryInv, InTurn
<1>6. CASE alert' # Sentinel
  <2>1. Backlog(queue) > 0 /\ Backlog(queue') = Backlog(queue) - 1
    BY <1>1, <1>2, <1>6, BacklogTaken
  <2>2. Backlog(queue) \in Int
    BY <1>2 DEF Backlog
  <2>3. Taken < pushed /\ Taken' = Taken + 1
    BY <1>1, <1>4, <2>1, <2>2 DEF Taken
  <2>4. alert' = Taken + 1
    BY <1>1, <1>3, <1>6 DEF DeliveryInv, InTurn
  <2>5. \A i \in DOMAIN queue' : queue'[i] # Sentinel => queue'[i] = Taken + (i + 1)
    BY <1>3 DEF DeliveryInv, InTurn
  <2>6. \A i \in DOMAIN queue' : Taken + (i + 1) = Taken' + i
    BY <1>3, <1>4, <2>3
  <2>7. \A i \in DOMAIN queue' : queue'[i] # Sentinel => queue'[i] = Taken' + i
    BY <2>5, <2>6
  <2> QED
    BY <1>1, <1>5, <1>6, <2>3, <2>4, <2>7 DEF InTurn
<1>7. CASE alert' = Sentinel
  <2>1. Backlog(queue) = 0 /\ Backlog(queue') = 0 /\ queue' = <<>>
    BY <1>1, <1>2, <1>7, BacklogTaken
  <2>2. Taken' = Taken
    BY <1>1, <2>1 DEF Taken
  <2> QED
    BY <1>1, <1>7, <2>1, <2>2 DEF InTurn
<1> QED
  BY <1>6, <1>7

LEMMA OthersInTurn ==
  ASSUME DeliveryInv, [Next]_vars, ~PushAlert, ~PushEmpty, ~WorkerPop
  PROVE  InTurn' /\ Taken' = Taken
<1>1. /\ UNCHANGED <<queue, pushed, alert>>
      /\ worker' # "done" => worker # "done"
  BY DEF Next, Stopping, Working, Polling, StartLoop, TellStatus, SendStatus, Signal, StopTg,
     StopLoop, JoinWorker, JoinTg, WorkerCheck, WorkerSend, SendReturns, SendThrows,
     WorkerSent, WorkerUnchanged, PollerStart, PollerCheck, PollerPolled, UsersEdited,
     PollerUnchanged, workerVars, vars
<1>2. main' \in {"join_tg", "done"} => worker' = "done"
  BY DEF DeliveryInv, InTurn, Next, Stopping, Working, Polling, StartLoop, TellStatus,
     SendStatus, Signal, StopTg, StopLoop, JoinWorker, JoinTg, WorkerCheck, WorkerSend,
     WorkerSent, WorkerUnchanged, PollerStart, PollerCheck, PollerPolled,
     UsersEdited, PollerUnchanged, mainVars, workerVars, vars
<1>3. Taken' = Taken
  BY <1>1 DEF Taken
<1> QED
  BY <1>1, <1>2, <1>3 DEF DeliveryInv, InTurn

LEMMA DeliveryStep == DeliveryInv /\ [Next]_vars => DeliveryInv'
BY InboxStep, PushAlertInTurn, PushEmptyInTurn, WorkerPopInTurn, OthersInTurn DEF DeliveryInv

LEMMA DeliveryInit == Init => DeliveryInv
<1> SUFFICES ASSUME Init PROVE InTurn
  BY InboxInit DEF DeliveryInv
<1>1. Backlog(queue) = 0
  BY DEF Init, Backlog
<1> QED
  BY <1>1 DEF Init, InTurn, Taken, Sentinel

LEMMA DeliveryInvariant == Spec => []DeliveryInv
BY DeliveryInit, DeliveryStep, PTL DEF Spec

LEMMA StepDelivers ==
  DeliveryInv /\ DeliveryInv' /\ [Next]_vars => [Delivery!Next]_(Delivery!vars)
<1> SUFFICES ASSUME DeliveryInv, DeliveryInv', [Next]_vars
             PROVE  Delivery!Next \/ UNCHANGED Delivery!vars
  OBVIOUS
<1>1. CASE PushAlert
  <2>1. /\ main = "loop" /\ pushed' = pushed + 1
        /\ UNCHANGED <<inbox, running, late, main>>
    BY <1>1 DEF PushAlert, mainVars, workerVars
  <2>2. Taken' = Taken
    BY <1>1, PushAlertInTurn
  <2>3. running
    BY <2>1 DEF DeliveryInv, InboxInv, PipelineInv, FlagIsStop, Stopped
  <2>4. Delivery!Raise
    BY <2>1, <2>2, <2>3 DEF Delivery!Raise
  <2> QED
    BY <2>4 DEF Delivery!Next
<1>2. CASE PushEmpty
  <2>1. UNCHANGED <<pushed, inbox, running, late>> /\ main = "push_empty" /\ main' = "join_worker"
    BY <1>2 DEF PushEmpty, workerVars
  <2>2. Taken' = Taken
    BY <1>2, PushEmptyInTurn
  <2> QED
    BY <2>1, <2>2 DEF Delivery!vars
<1>3. CASE WorkerPop
  <2>1. /\ worker = "pop"
        /\ UNCHANGED <<pushed, inbox, running, main>>
        /\ IF alert' = Sentinel THEN UNCHANGED late
           ELSE late' = IF running THEN late ELSE late + 1
    BY <1>3 DEF WorkerPop, WorkerUnchanged, mainVars
  <2>2. CASE alert' = Sentinel
    <3>1. Taken' = Taken
      BY <1>3, <2>2, WorkerPopInTurn
    <3> QED
      BY <2>1, <2>2, <3>1 DEF Delivery!vars
  <2>3. CASE alert' # Sentinel
    <3>1. Taken < pushed /\ Taken' = Taken + 1
      BY <1>3, <2>3, WorkerPopInTurn
    <3>2. main # "done"
      BY <2>1 DEF DeliveryInv, InTurn
    <3>3. late = 0
      BY <2>1 DEF DeliveryInv, InboxInv, PipelineInv, LateOnce, TypeOK
    <3>4. IF ~running THEN late = 0 /\ late' = 1 ELSE UNCHANGED late
      BY <2>1, <2>3, <3>3
    <3>5. Delivery!Take
      BY <2>1, <3>1, <3>2, <3>4 DEF Delivery!Take
    <3> QED
      BY <3>5 DEF Delivery!Next
  <2> QED
    BY <2>2, <2>3
<1>4. CASE WorkerSend
  <2> DEFINE u == Head(workerLeft)
  <2>1. /\ worker = "send" /\ workerLeft # <<>>
        /\ UNCHANGED <<queue, pushed, running, late, main>>
        /\ inbox' \in {inbox, [inbox EXCEPT ![u] = Append(@, alert)]}
    BY <1>4 DEF WorkerSend, SendReturns, SendThrows, WorkerUnchanged, mainVars
  <2>2. u \in Users /\ u = workerLeft[1] /\ 1 \in DOMAIN workerLeft
    BY <2>1, PoppedQueue DEF DeliveryInv, InboxInv, PipelineInv, TypeOK
  <2>3. alert = Taken /\ main # "done" /\ Taken' = Taken
    BY <2>1 DEF DeliveryInv, InTurn, Taken
  <2>4. alert \in Nat \ {0}
    BY <2>1, AlertIsNat DEF DeliveryInv, InboxInv, PipelineInv, Holding, TypeOK, Sentinel
  <2> HIDE DEF u
  <2>5. \A i \in DOMAIN inbox[u] : inbox[u][i] < alert
    BY <2>1, <2>2 DEF DeliveryInv, InboxInv, ToReach
  <2>6. \A i \in DOMAIN inbox[u] : inbox[u][i] # Taken
    <3>1. \A i \in DOMAIN inbox[u] : inbox[u][i] \in Nat
      <4>1. inbox[u] \in Seq(Alerts)
        BY <2>2 DEF DeliveryInv, InboxInv, PipelineInv, TypeOK
      <4> QED
        BY <4>1, ElementIs, AlertIsNat
    <3> QED
      BY <2>3, <2>4, <2>5, <3>1
  <2>7. CASE inbox' = inbox
    BY <2>1, <2>3, <2>7 DEF Delivery!vars
  <2>8. CASE inbox' = [inbox EXCEPT ![u] = Append(@, alert)]
    <3>1. Delivery!Deliver(u)
      BY <2>1, <2>3, <2>4, <2>6, <2>8 DEF Delivery!Deliver
    <3> QED
      BY <2>2, <3>1 DEF Delivery!Next
  <2> QED
    BY <2>1, <2>7, <2>8
<1>5. CASE Signal
  <2>1. /\ main = "loop" /\ main' = "stop_tg" /\ ~running'
        /\ UNCHANGED <<queue, pushed, inbox, late>>
    BY <1>5 DEF Signal, workerVars
  <2>2. running /\ Taken' = Taken
    BY <2>1 DEF DeliveryInv, InboxInv, PipelineInv, FlagIsStop, Stopped, Taken
  <2>3. Delivery!Stop
    BY <2>1, <2>2 DEF Delivery!Stop
  <2> QED
    BY <2>3 DEF Delivery!Next
<1>6. CASE JoinTg
  <2>1. main = "join_tg" /\ main' = "done" /\ UNCHANGED <<queue, pushed, inbox, running, late>>
    BY <1>6 DEF JoinTg, workerVars
  <2>2. ~running /\ Taken' = Taken
    BY <2>1 DEF DeliveryInv, InboxInv, PipelineInv, FlagIsStop, Stopped, Taken
  <2>3. Delivery!End
    BY <2>1, <2>2 DEF Delivery!End
  <2> QED
    BY <2>3 DEF Delivery!Next
<1>7. CASE StartLoop \/ TellStatus \/ SendStatus \/ StopTg \/ StopLoop \/ JoinWorker
             \/ WorkerCheck \/ WorkerSent \/ Polling \/ UsersEdited \/ UNCHANGED vars
  <2>1. UNCHANGED <<queue, pushed, inbox, running, late>>
    BY <1>7 DEF StartLoop, TellStatus, SendStatus, StopTg, StopLoop, JoinWorker, WorkerCheck,
       WorkerSent, WorkerUnchanged, Polling, PollerStart, PollerCheck, PollerPolled,
       UsersEdited, PollerUnchanged, workerVars, vars
  <2>2. main' = "done" <=> main = "done"
    BY <1>7 DEF StartLoop, TellStatus, SendStatus, StopTg, StopLoop, JoinWorker, WorkerCheck,
       WorkerSent, WorkerUnchanged, Polling, PollerStart, PollerCheck, PollerPolled,
       UsersEdited, PollerUnchanged, mainVars, vars
  <2>3. Taken' = Taken
    BY <2>1 DEF Taken
  <2> QED
    BY <2>1, <2>2, <2>3 DEF Delivery!vars
<1> QED
  BY <1>1, <1>2, <1>3, <1>4, <1>5, <1>6, <1>7 DEF Next, Stopping, Working

(* AlertPipeline implements AlertDelivery: alerts are taken up one after   *)
(* the other, reach a user at most once, and a stop ends it all after one  *)
(* more, however calls fail and users are edited.                          *)
THEOREM PipelineDelivers == Spec => DeliveredInTurn
<1>1. Init => Delivery!Init
  <2> SUFFICES ASSUME Init PROVE Delivery!Init
    OBVIOUS
  <2>1. Taken = 0
    <3>1. queue = <<>> /\ pushed = 0
      BY DEF Init
    <3>2. Backlog(queue) = Len(<<>>)
      BY <3>1 DEF Backlog
    <3>3. Len(<<>>) = 0
      OBVIOUS
    <3> QED
      BY <3>1, <3>2, <3>3 DEF Taken
  <2> QED
    BY <2>1 DEF Init, Delivery!Init
<1> QED
  BY <1>1, StepDelivers, DeliveryInvariant, PTL DEF Spec, DeliveredInTurn, Delivery!Spec

-----------------------------------------------------------------------------
(* The stop.                                                               *)

(* The Telegram thread starts before the loop, so that its `_exit = false` *)
(* comes before the stop; and the empty alert stays in the queue until it  *)
(* ends the worker.                                                        *)
StopInv ==
  /\ poller = "starting" => main = "starting"
  /\ main \in {"stop_loop", "push_empty"} \cup Joining => exit = TRUE
  /\ main \in Joining /\ worker # "done" => \E i \in DOMAIN queue : queue[i] = Sentinel

LEMMA StopInvStep == TypeOK /\ StopInv /\ [Next]_vars => StopInv'
<1> SUFFICES ASSUME TypeOK, StopInv, [Next]_vars PROVE StopInv'
  OBVIOUS
<1>1. CASE PushEmpty
  <2>1. /\ queue' = Append(queue, Sentinel) /\ main = "push_empty"
        /\ UNCHANGED <<exit, worker, poller>>
    BY <1>1 DEF PushEmpty, workerVars
  <2>2. queue'[Len(queue) + 1] = Sentinel /\ Len(queue) + 1 \in DOMAIN queue'
    <3>1. Sentinel \in Alerts \cup {Sentinel} /\ queue \in Seq(Alerts \cup {Sentinel})
      BY DEF TypeOK
    <3> QED
      BY <2>1, <3>1, PushedQueue
  <2> QED
    BY <2>1, <2>2 DEF StopInv
<1>2. CASE WorkerPop
  <2>1. /\ queue # <<>> /\ alert' = queue[1] /\ UNCHANGED <<exit, main, poller>>
        /\ worker = "pop" /\ (alert' = Sentinel => worker' = "done")
        /\ \A i \in DOMAIN queue : i # 1 => i - 1 \in DOMAIN queue' /\ queue'[i - 1] = queue[i]
    BY <1>2 DEF WorkerPop, PopNext, WorkerUnchanged, mainVars, TypeOK
  <2> QED
    BY <2>1 DEF StopInv
<1>3. CASE PushAlert
  BY <1>3 DEF PushAlert, StopInv, Joining, mainVars, workerVars
<1>4. CASE StartLoop \/ TellStatus \/ SendStatus \/ Signal \/ StopTg \/ StopLoop \/ JoinWorker
             \/ JoinTg
  BY <1>4 DEF StartLoop, TellStatus, SendStatus, Signal, StopTg, StopLoop, JoinWorker, JoinTg,
     StopInv, Joining, workerVars
<1>5. CASE Polling \/ UsersEdited
  BY <1>5 DEF Polling, PollerStart, PollerCheck, PollerPolled, UsersEdited, PollerUnchanged,
     StopInv, Joining, mainVars, workerVars
<1>6. CASE WorkerCheck \/ WorkerSend \/ WorkerSent
  BY <1>6 DEF WorkerCheck, WorkerSend, SendReturns, SendThrows, WorkerSent, WorkerUnchanged,
     StopInv, mainVars
<1>7. CASE UNCHANGED vars
  BY <1>7 DEF vars, mainVars, workerVars, StopInv
<1> QED
  BY <1>1, <1>2, <1>3, <1>4, <1>5, <1>6, <1>7 DEF Next, Stopping, Working

(* A stop waits for no thread that nothing wakes: an element is there for  *)
(* the worker, and the poller's flag is set.                               *)
THEOREM StopWakesEveryone == Spec => []StopCannotBlock
<1>1. Init => StopInv
  BY DEF Init, StopInv, Joining
<1>2. PipelineInv => TypeOK
  BY DEF PipelineInv
<1>3. StopInv => StopCannotBlock
  BY DEF StopInv, StopCannotBlock, Joining
<1> QED
  BY <1>1, <1>2, <1>3, StopInvStep, PipelineInvariant, PTL DEF Spec
-----------------------------------------------------------------------------
(* The users of the list.  Who is still to be reached is the end of the    *)
(* list; all before have the alert, or come after a failure.               *)

Done == Len(listed) - Len(workerLeft)

Settled(k) == Has(listed[k]) \/ \E i \in 1..k : alert \in failed[listed[i]]

Round ==
  worker = "send" =>
    /\ Done \in 0..Len(listed)
    /\ \A j \in DOMAIN workerLeft : workerLeft[j] = listed[Done + j]
    /\ \A k \in DOMAIN listed : k <= Done => Settled(k)

RoundInv == PipelineInv /\ Round

LEMMA RoundKept ==
  ASSUME Round, UNCHANGED <<alert, workerLeft, listed, inbox, failed>>,
         worker' = "send" => worker = "send"
  PROVE  Round'
BY DEF Round, Done, Settled, Has

LEMMA WorkerPopRound ==
  ASSUME TypeOK, WorkerPop
  PROVE  Round'
<1>1. worker' = "send" => workerLeft' = users /\ listed' = users
  BY DEF WorkerPop
<1>2. users \in Seq(Users)
  BY UserListType DEF TypeOK
<1>3. Len(users) \in Nat /\ \A j \in DOMAIN users : j \in Nat /\ j > 0
  BY <1>2
<1>4. worker' = "send" => Done' = 0
  BY <1>1, <1>3 DEF Done
<1>5. \A j \in DOMAIN users : 0 + j = j /\ ~(j <= 0)
  BY <1>3
<1> QED
  BY <1>1, <1>3, <1>4, <1>5 DEF Round

LEMMA WorkerSendRound ==
  ASSUME RoundInv, WorkerSend
  PROVE  Round'
<1>1. /\ worker = "send" /\ workerLeft # <<>> /\ UNCHANGED <<alert, listed>>
      /\ SendReturns(Head(workerLeft)) \/ SendThrows(Head(workerLeft))
  BY DEF WorkerSend
<1>2. /\ workerLeft \in Seq(Users) /\ listed \in Seq(Users)
      /\ inbox \in [Users -> Seq(Alerts)] /\ failed \in [Users -> SUBSET Alerts]
  BY DEF RoundInv, PipelineInv, TypeOK
<1>3. PICK d \in 0..Len(listed) :
        /\ d = Done
        /\ \A j \in DOMAIN workerLeft : workerLeft[j] = listed[d + j]
        /\ \A k \in DOMAIN listed : k <= d => Settled(k)
  BY <1>1 DEF RoundInv, Round
<1>4. /\ Len(workerLeft) \in Nat \ {0} /\ 1 \in DOMAIN workerLeft
      /\ Head(workerLeft) = workerLeft[1]
      /\ Len(Tail(workerLeft)) = Len(workerLeft) - 1
      /\ \A j \in DOMAIN Tail(workerLeft) :
           j \in Nat /\ j + 1 \in DOMAIN workerLeft /\ Tail(workerLeft)[j] = workerLeft[j + 1]
  BY <1>1, <1>2
<1>5. /\ Len(listed) \in Nat /\ DOMAIN listed = 1..Len(listed) /\ d \in Nat
      /\ \A k \in DOMAIN listed : listed[k] \in Users
  BY <1>2
<1>6. d + Len(workerLeft) = Len(listed) /\ d + 1 \in DOMAIN listed
  BY <1>3, <1>4, <1>5 DEF Done
<1>7. PICK u \in Users : u = Head(workerLeft) /\ u = listed[d + 1]
  BY <1>3, <1>4, <1>5, <1>6
<1>8. SendReturns(u) \/ SendThrows(u)
  BY <1>1, <1>7
<1>9. \A v \in Users : failed[v] \subseteq failed'[v]
  BY <1>2, <1>8 DEF SendReturns, SendThrows
<1>10. /\ \A v \in Users : Has(v) => Has(v)'
       /\ inbox' = [inbox EXCEPT ![u] = Append(@, alert)] => Has(u)'
  <2>1. inbox[u] \in Seq(Alerts) /\ alert \in Alerts \cup {Sentinel}
    BY <1>2 DEF RoundInv, PipelineInv, TypeOK
  <2>2. inbox[u] \in Seq(Alerts \cup {Sentinel})
    BY <2>1
  <2> DEFINE b == Append(inbox[u], alert)
  <2>3. /\ DOMAIN b = 1..(Len(inbox[u]) + 1) /\ DOMAIN inbox[u] = 1..Len(inbox[u])
        /\ Len(inbox[u]) \in Nat /\ b[Len(inbox[u]) + 1] = alert
        /\ \A i \in DOMAIN inbox[u] : b[i] = inbox[u][i]
    BY <2>1, <2>2, PushedQueue
  <2>4. Len(inbox[u]) + 1 \in DOMAIN b /\ \A i \in DOMAIN inbox[u] : i \in DOMAIN b
    BY <2>3
  <2> HIDE DEF b
  <2>5. CASE inbox' = inbox
    <3>1. inbox' # [inbox EXCEPT ![u] = b]
      <4>1. b # inbox[u]
        BY <2>3, <2>4
      <4> QED
        BY <1>2, <2>5, <4>1
    <3> QED
      BY <1>1, <2>5, <3>1 DEF Has, b
  <2>6. CASE inbox' = [inbox EXCEPT ![u] = b]
    <3>1. inbox'[u] = b /\ \A v \in Users : v # u => inbox'[v] = inbox[v]
      BY <1>2, <2>6
    <3>2. Has(u)'
      BY <1>1, <2>3, <2>4, <3>1 DEF Has
    <3>3. \A v \in Users : v # u /\ Has(v) => Has(v)'
      BY <1>1, <3>1 DEF Has
    <3> QED
      BY <3>2, <3>3
  <2> QED
    BY <1>8, <2>5, <2>6 DEF SendReturns, SendThrows, b
<1>11. \A k \in DOMAIN listed : k <= d => Settled(k)'
  <2>1. ASSUME NEW k \in DOMAIN listed, k <= d PROVE Settled(k)'
    <3>1. Settled(k)
      BY <1>3, <2>1
    <3>2. CASE Has(listed[k])
      <4>1. PICK v \in Users : v = listed[k]
        BY <1>5
      <4>2. Has(v)'
        BY <1>10, <3>2, <4>1 DEF Has
      <4>3. v = listed'[k]
        BY <1>1, <4>1
      <4>4. Has(listed[k])'
        BY <4>2, <4>3, Zenon DEF Has
      <4> QED
        BY <4>4 DEF Settled
    <3>3. CASE \E i \in 1..k : alert \in failed[listed[i]]
      <4>1. \A i \in 1..k : i \in DOMAIN listed
        BY <1>5, <2>1
      <4> QED
        BY <1>1, <1>5, <1>9, <3>3, <4>1 DEF Settled
    <3> QED
      BY <3>1, <3>2, <3>3 DEF Settled
  <2> QED
    BY <2>1
<1>12. CASE SendReturns(u)
  <2>1. workerLeft' = Tail(workerLeft) /\ inbox' = [inbox EXCEPT ![u] = Append(@, alert)]
    BY <1>7, <1>12 DEF SendReturns
  <2>2. Done' = d + 1
    BY <1>1, <1>4, <1>5, <1>6, <2>1 DEF Done
  <2>3. Settled(d + 1)'
    <3>1. Has(u)'
      BY <1>10, <2>1
    <3>2. u = listed'[d + 1]
      BY <1>1, <1>7
    <3>3. Has(listed[d + 1])'
      BY <3>1, <3>2, Zenon DEF Has
    <3> QED
      BY <3>3 DEF Settled
  <2>4. \A k \in DOMAIN listed : k <= d + 1 => k <= d \/ k = d + 1
    BY <1>5
  <2>5. \A j \in DOMAIN workerLeft' : workerLeft'[j] = listed[(d + 1) + j]
    <3>1. \A j \in DOMAIN workerLeft' : workerLeft'[j] = listed[d + (j + 1)]
      BY <1>3, <1>4, <2>1
    <3>2. \A j \in DOMAIN workerLeft' : d + (j + 1) = (d + 1) + j
      BY <1>4, <1>5, <2>1
    <3> QED
      BY <3>1, <3>2
  <2>6. d + 1 \in 0..Len(listed)
    BY <1>5, <1>6
  <2> QED
    BY <1>1, <1>11, <2>2, <2>3, <2>4, <2>5, <2>6 DEF Round
<1>13. CASE SendThrows(u)
  <2>1. workerLeft' = <<>> /\ failed' = [failed EXCEPT ![u] = @ \cup {alert}]
    BY <1>7, <1>13 DEF SendThrows
  <2>2. Done' = Len(listed) /\ Len(listed) \in 0..Len(listed)
    <3>1. Len(<<>>) = 0
      OBVIOUS
    <3> QED
      BY <1>1, <1>5, <2>1, <3>1 DEF Done
  <2>3. alert \in failed'[listed[d + 1]]
    BY <1>2, <1>7, <2>1
  <2>4. \A k \in DOMAIN listed : ~(k <= d) => d + 1 \in 1..k
    BY <1>5
  <2>5. \A k \in DOMAIN listed : Settled(k)'
    BY <1>1, <1>11, <2>3, <2>4 DEF Settled
  <2> QED
    BY <1>1, <2>1, <2>2, <2>5 DEF Round
<1> QED
  BY <1>8, <1>12, <1>13

LEMMA RoundStep == RoundInv /\ [Next]_vars => RoundInv'
<1> SUFFICES ASSUME RoundInv, [Next]_vars PROVE Round'
  BY PipelineStep DEF RoundInv
<1>1. CASE WorkerPop
  BY <1>1, WorkerPopRound DEF RoundInv, PipelineInv
<1>2. CASE WorkerSend
  BY <1>2, WorkerSendRound
<1>3. CASE WorkerCheck \/ WorkerSent
  <2>1. /\ UNCHANGED <<alert, workerLeft, listed, inbox, failed>>
        /\ worker' \in {"check", "pop", "done"}
    BY <1>3 DEF WorkerCheck, WorkerSent
  <2> QED
    BY <2>1, RoundKept DEF RoundInv
<1>4. CASE MainMoves \/ PushAlert \/ PushEmpty \/ Polling \/ UsersEdited \/ UNCHANGED vars
  <2>1. UNCHANGED <<alert, workerLeft, listed, inbox, failed, worker>>
    BY <1>4 DEF MainMoves, StartLoop, TellStatus, SendStatus, Signal, StopTg, StopLoop,
       JoinWorker, JoinTg, PushAlert, PushEmpty, Polling, PollerStart, PollerCheck,
       PollerPolled, UsersEdited, PollerUnchanged, workerVars, vars
  <2> QED
    BY <2>1, RoundKept DEF RoundInv
<1> QED
  BY <1>1, <1>2, <1>3, <1>4 DEF Next, Stopping, Working, MainMoves

(* Every user of the list that was read for an alert has it when its       *)
(* sending is over, unless one to that user or before that user threw.     *)
THEOREM NobodyIsPassedOver == Spec => []NobodyPassedOver
<1>1. Init => RoundInv
  BY PipelineInit DEF Init, RoundInv, Round
<1>2. RoundInv => NobodyPassedOver
  <2> SUFFICES ASSUME RoundInv, worker = "send", workerLeft = <<>>,
                      NEW k \in DOMAIN listed
               PROVE  Settled(k)
    BY DEF NobodyPassedOver, Settled
  <2>1. listed \in Seq(Users)
    BY DEF RoundInv, PipelineInv, TypeOK
  <2>2. Len(<<>>) = 0
    OBVIOUS
  <2>3. k <= Done
    BY <2>1, <2>2 DEF Done
  <2> QED
    BY <2>3 DEF RoundInv, Round
<1> QED
  BY <1>1, <1>2, RoundStep, PTL DEF Spec
=============================================================================
