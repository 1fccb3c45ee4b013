------------------------------ MODULE PingLoop ------------------------------
(***************************************************************************)
(* The connection check of MqttService (src/src/mqttService.cpp): every    *)
(* ping period a "ping" is published with QoS 1, a response timer bounds   *)
(* the wait for its acknowledgement, and a change of the broker's status   *)
(* is told to the Telegram users.                                          *)
(*                                                                         *)
(* The io_context is run by one thread: handlers run one at a time, to the *)
(* end, in the order in which their operations completed.  `ready` is that *)
(* queue.  A timer whose wait has completed can no longer be cancelled;    *)
(* cancelling a pending wait completes it with operation_aborted.  The     *)
(* handler of an aborted ping wait returns at once and is left out; the    *)
(* handler of the response wait ignores its error code, so an aborted wait *)
(* queues it as an expired one does.  Time is not modelled: a pending wait *)
(* may complete in any order with the other events.                        *)
(***************************************************************************)
EXTENDS Naturals, Sequences

CONSTANTS Users,        \* Telegram users
          UserSets,     \* values the configured users may take
          MaxPublishes, \* bound: publishes are counted up to it
          MaxReady      \* bound: handlers queued behind the running one

ASSUME BoundsAssumption == MaxPublishes \in Nat \ {0} /\ MaxReady \in Nat \ {0}

ASSUME UsersAssumption == UserSets \subseteq SUBSET Users

VARIABLES ready,                \* completed operations, by the handler they run
          pingTimer,            \* a wait on _pingTimer is pending
          responseTimer,        \* a wait on _responseTimer is pending
          isWaitingForResponse, \* _isWaitingForResponse
          isConnected,          \* _isConnected
          publishes,            \* async_publish calls the client has not completed;
                                \* those beyond MaxPublishes are not counted
          tgConnected,          \* TgService::_isConnection, set by the Telegram thread
          told,                 \* history: the status last delivered to each user
          missed                \* history: users to whom the last change of the
                                \* status was not sent, or its sending threw

vars == <<ready, pingTimer, responseTimer, isWaitingForResponse, isConnected,
          publishes, tgConnected, told, missed>>

Handlers == {"ping", "response", "acked", "refused"}

TypeOK ==
  /\ ready \in Seq(Handlers)
  /\ pingTimer \in BOOLEAN
  /\ responseTimer \in BOOLEAN
  /\ isWaitingForResponse \in BOOLEAN
  /\ isConnected \in BOOLEAN
  /\ publishes \in Nat
  /\ tgConnected \in BOOLEAN
  /\ told \in [Users -> BOOLEAN]
  /\ missed \in SUBSET Users

(* MqttService::start has called _pingLoop; the status starts as connected *)
(* and nobody has been told otherwise.                                     *)
Init ==
  /\ ready = <<>>
  /\ pingTimer = TRUE
  /\ responseTimer = FALSE
  /\ isWaitingForResponse = FALSE
  /\ isConnected = TRUE
  /\ publishes = 0
  /\ tgConnected = TRUE
  /\ told = [u \in Users |-> TRUE]
  /\ missed = {}

-----------------------------------------------------------------------------
(* Completions, in the order the io_context queues them.                   *)

PingTimerExpires ==
  /\ pingTimer
  /\ Len(ready) < MaxReady
  /\ pingTimer' = FALSE
  /\ ready' = Append(ready, "ping")
  /\ UNCHANGED <<responseTimer, isWaitingForResponse, isConnected, publishes,
                 tgConnected, told, missed>>

ResponseTimerExpires ==
  /\ responseTimer
  /\ responseTimer' = FALSE
  /\ ready' = Append(ready, "response")
  /\ UNCHANGED <<pingTimer, isWaitingForResponse, isConnected, publishes,
                 tgConnected, told, missed>>

(* A client that completes a publish it has completed before.             *)
PublishCompletesTwice ==
  /\ publishes' = publishes - 1
  /\ \E h \in {"acked", "refused"} : ready' = Append(ready, h)
  /\ UNCHANGED <<pingTimer, responseTimer, isWaitingForResponse, isConnected,
                 tgConnected, told, missed>>

(* The client completes a publish: acknowledged, or refused (an error or a *)
(* reason code other than success).  While the broker is away it keeps     *)
(* the publish, so that an answer may come after its response timer, or    *)
(* never.                                                                  *)
PublishCompletes ==
  /\ publishes > 0
  /\ publishes' = publishes - 1
  /\ \E h \in {"acked", "refused"} : ready' = Append(ready, h)
  /\ UNCHANGED <<pingTimer, responseTimer, isWaitingForResponse, isConnected,
                 tgConnected, told, missed>>

(* The long poll thread notices that Telegram went away or came back.      *)
TelegramLinkChanges ==
  /\ tgConnected' = ~tgConnected
  /\ UNCHANGED <<ready, pingTimer, responseTimer, isWaitingForResponse,
                 isConnected, publishes, told, missed>>

-----------------------------------------------------------------------------
(* Handlers.                                                               *)

(* _responseTimer->cancel() or ->expires_after(): a wait that is still     *)
(* pending completes with operation_aborted.                               *)
CancelledResponse == IF responseTimer THEN <<"response">> ELSE <<>>

(* TgService::send to the users read from the configuration: sent are the  *)
(* ones for whom sendMessage returned.  The first that throws, after its   *)
(* message was delivered or before, ends the loop over the users.          *)
Send(status) ==
  \E listed \in UserSets : \E sent \in SUBSET listed :
    \E delivered \in {sent} \cup {sent \cup {u} : u \in listed \ sent} :
      /\ told' = [u \in Users |-> IF u \in delivered THEN status ELSE told[u]]
      /\ missed' = Users \ sent

(* The status is assigned before it is compared with the new one.          *)
NotifyNever(status) == UNCHANGED <<told, missed>>

(* _onConnection / _onDisconnection as Application sets them, called when  *)
(* the status changes: nothing is sent while Telegram counts as away.      *)
Notify(status) ==
  IF status = isConnected
  THEN UNCHANGED <<told, missed>>
  ELSE IF tgConnected THEN Send(status)
                      ELSE missed' = Users /\ UNCHANGED told

(* _sendPing, run by the handler of the ping timer.                        *)
SendPing ==
  /\ ready # <<>> /\ Head(ready) = "ping"
  /\ IF isWaitingForResponse
     THEN /\ ready' = Tail(ready)
          /\ UNCHANGED <<responseTimer, isWaitingForResponse, publishes>>
     ELSE /\ ready' = Tail(ready) \o CancelledResponse
          /\ responseTimer' = TRUE
          /\ isWaitingForResponse' = TRUE
          /\ publishes' = IF publishes < MaxPublishes THEN publishes + 1 ELSE publishes
  /\ UNCHANGED <<pingTimer, isConnected, tgConnected, told, missed>>

(* _pingLoop() only when the status changes.                               *)
RestartAfterTimeoutOnlyOnChange ==
  IF isConnected THEN pingTimer' = TRUE ELSE UNCHANGED pingTimer

(* _pingLoop(), called at the end of the timeout branch.                   *)
RestartAfterTimeout == pingTimer' = TRUE

(* The handler of the response timer: it looks only at the flag.           *)
ResponseTimeout ==
  /\ ready # <<>> /\ Head(ready) = "response"
  /\ ready' = Tail(ready)
  /\ IF isWaitingForResponse
     THEN /\ Notify(FALSE)
          /\ isConnected' = FALSE
          /\ isWaitingForResponse' = FALSE
          /\ RestartAfterTimeout
     ELSE UNCHANGED <<pingTimer, isWaitingForResponse, isConnected, told, missed>>
  /\ UNCHANGED <<responseTimer, publishes, tgConnected>>

(* A completion handler that does not clear the flag.                      *)
ClearWaitingNever == UNCHANGED isWaitingForResponse

ClearWaiting == isWaitingForResponse' = FALSE

(* _pingLoop() only after a ping that was acknowledged.                    *)
RestartAfterAck ==
  IF Head(ready) = "acked" THEN pingTimer' = TRUE ELSE UNCHANGED pingTimer

(* _pingLoop(), called at the end of the completion handler.               *)
RestartAfterAnswer == pingTimer' = TRUE

(* The completion handler of async_publish.                                *)
PublishCompleted ==
  /\ ready # <<>> /\ Head(ready) \in {"acked", "refused"}
  /\ ready' = Tail(ready) \o CancelledResponse
  /\ responseTimer' = FALSE
  /\ Notify(Head(ready) = "acked")
  /\ isConnected' = (Head(ready) = "acked")
  /\ ClearWaiting
  /\ RestartAfterAnswer
  /\ UNCHANGED <<publishes, tgConnected>>

Next ==
  \/ PingTimerExpires
  \/ ResponseTimerExpires
  \/ PublishCompletes
  \/ TelegramLinkChanges
  \/ SendPing
  \/ ResponseTimeout
  \/ PublishCompleted

(* The loop runs its queue and its timers fire.  The broker may stay away  *)
(* for good: the client owes no answer.                                    *)
Fairness ==
  /\ WF_vars(SendPing \/ ResponseTimeout \/ PublishCompleted)
  /\ WF_vars(PingTimerExpires)
  /\ WF_vars(ResponseTimerExpires)

Spec == Init /\ [][Next]_vars

FairSpec == Spec /\ Fairness

-----------------------------------------------------------------------------
(* Properties.                                                             *)

Queued(h) == \E i \in 1..Len(ready) : ready[i] = h

(* The connection check never dies, whatever order late answers, aborted   *)
(* waits and expired timers come in: while an answer is awaited, a         *)
(* response handler is on its way that ends the wait; otherwise the next   *)
(* ping is on its way.  _sendPing's early return and the flag that both    *)
(* completion paths clear could break this.                                *)
LoopAlive ==
  /\ isWaitingForResponse => responseTimer \/ Queued("response")
  /\ ~isWaitingForResponse => pingTimer \/ Queued("ping")

(* The wait for an answer, and so the status OFFLINE the response timer    *)
(* sets, always concerns a ping that has not been answered: a publish is   *)
(* held by the client or its completion is still queued.                   *)
WaitIsForAPing ==
  isWaitingForResponse => publishes > 0 \/ Queued("acked") \/ Queued("refused")

(* Every user was last told the status MqttService holds and the watchdogs *)
(* go by, whichever of the two handlers changed it and however late its    *)
(* answer was; but for the users to whom the last change was not sent      *)
(* without an exception: Telegram counted as away, they were not listed,   *)
(* or the sending to them or to one before them threw.                     *)
ToldIsStatus == \A u \in Users \ missed : told[u] = isConnected

(* Pings go on for ever, also if the broker never answers again.           *)
PingsForever == []<>isWaitingForResponse

=============================================================================
