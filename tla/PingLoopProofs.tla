--------------------------- MODULE PingLoopProofs ---------------------------
(***************************************************************************)
(* The safety properties of PingLoop hold for all users and every bound on *)
(* the publishes and on the queue.  Each is inductive together with        *)
(* TypeOK; what the proofs rest on is that taking the first handler from   *)
(* the queue and adding handlers behind it loses none of the others.       *)
(***************************************************************************)
EXTENDS PingLoop, TLAPS

(* Appending to a queue keeps what is in it and adds the new element.      *)
LEMMA AppendKeeps ==
  ASSUME NEW S, NEW q \in Seq(S), NEW e \in S
  PROVE  /\ Append(q, e) \in Seq(S)
         /\ \A h : (\E i \in 1..Len(q) : q[i] = h)
                     => \E i \in 1..Len(Append(q, e)) : Append(q, e)[i] = h
         /\ \E i \in 1..Len(Append(q, e)) : Append(q, e)[i] = e
<1>1. Append(q, e) \in Seq(S) /\ Len(Append(q, e)) = Len(q) + 1
  OBVIOUS
<1>2. \A i \in 1..Len(q) : Append(q, e)[i] = q[i] /\ i \in 1..Len(Append(q, e))
  OBVIOUS
<1>3. Append(q, e)[Len(q) + 1] = e /\ Len(q) + 1 \in 1..Len(Append(q, e))
  OBVIOUS
<1> QED
  BY <1>1, <1>2, <1>3

(* Taking the head of a queue keeps every element that is not equal to it. *)
LEMMA TailKeeps ==
  ASSUME NEW S, NEW q \in Seq(S), q # <<>>, NEW t \in Seq(S)
  PROVE  /\ Tail(q) \o t \in Seq(S)
         /\ \A h : h # Head(q) /\ (\E i \in 1..Len(q) : q[i] = h)
              => \E i \in 1..Len(Tail(q) \o t) : (Tail(q) \o t)[i] = h
<1>1. Tail(q) \in Seq(S) /\ Len(Tail(q)) = Len(q) - 1 /\ Len(q) >= 1
  OBVIOUS
<1>2. Tail(q) \o t \in Seq(S) /\ Len(Tail(q) \o t) = Len(q) - 1 + Len(t) /\ Len(t) \in Nat
  BY <1>1
<1>3. ASSUME NEW i \in 1..Len(q), q[i] # Head(q)
      PROVE  i - 1 \in 1..Len(Tail(q) \o t) /\ (Tail(q) \o t)[i - 1] = q[i]
  <2>1. i # 1
    BY <1>3
  <2>2. i - 1 \in 1..Len(Tail(q)) /\ Tail(q)[i - 1] = q[i]
    BY <1>1, <2>1
  <2> QED
    BY <1>1, <1>2, <2>2
<1> QED
  BY <1>2, <1>3

LEMMA TailAloneKeeps ==
  ASSUME NEW S, NEW q \in Seq(S), q # <<>>
  PROVE  /\ Tail(q) \in Seq(S)
         /\ \A h : h # Head(q) /\ (\E i \in 1..Len(q) : q[i] = h)
              => \E i \in 1..Len(Tail(q)) : Tail(q)[i] = h
<1>1. Tail(q) \in Seq(S) /\ Len(Tail(q)) = Len(q) - 1 /\ Len(q) >= 1
  OBVIOUS
<1>2. ASSUME NEW i \in 1..Len(q), q[i] # Head(q)
      PROVE  i - 1 \in 1..Len(Tail(q)) /\ Tail(q)[i - 1] = q[i]
  BY <1>1, <1>2
<1> QED
  BY <1>1, <1>2

-----------------------------------------------------------------------------
LEMMA CancelledType == CancelledResponse \in Seq(Handlers)
<1>1. <<>> \in Seq(Handlers)
  OBVIOUS
<1>2. <<"response">> \in Seq(Handlers)
  BY "response" \in Handlers DEF Handlers
<1> QED
  BY <1>1, <1>2, Zenon DEF CancelledResponse

(* Whoever is told, and whoever is left out: the others know the status.   *)
LEMMA NotifyDoes ==
  ASSUME TypeOK, NEW status \in BOOLEAN, Notify(status)
  PROVE  /\ told' \in [Users -> BOOLEAN] /\ missed' \in SUBSET Users
         /\ ToldIsStatus => \A u \in Users \ missed' : told'[u] = status
<1>1. told \in [Users -> BOOLEAN] /\ missed \in SUBSET Users
  BY DEF TypeOK
<1>2. CASE status = isConnected
  BY <1>1, <1>2 DEF Notify, ToldIsStatus
<1>3. CASE status # isConnected /\ ~tgConnected
  BY <1>1, <1>3 DEF Notify
<1>4. CASE status # isConnected /\ tgConnected
  <2>1. PICK listed \in UserSets : \E sent \in SUBSET listed :
          \E delivered \in {sent} \cup {sent \cup {u} : u \in listed \ sent} :
            /\ told' = [u \in Users |-> IF u \in delivered THEN status ELSE told[u]]
            /\ missed' = Users \ sent
    BY <1>4 DEF Notify, Send
  <2>2. PICK sent \in SUBSET listed :
          \E delivered \in {sent} \cup {sent \cup {u} : u \in listed \ sent} :
            /\ told' = [u \in Users |-> IF u \in delivered THEN status ELSE told[u]]
            /\ missed' = Users \ sent
    BY <2>1
  <2>3. PICK delivered \in {sent} \cup {sent \cup {u} : u \in listed \ sent} :
            /\ told' = [u \in Users |-> IF u \in delivered THEN status ELSE told[u]]
            /\ missed' = Users \ sent
    BY <2>2
  <2>4. sent \subseteq delivered
    BY <2>3
  <2> QED
    BY <1>1, <2>3, <2>4
<1> QED
  BY <1>2, <1>3, <1>4

LEMMA InitType == Init => TypeOK
<1>1. <<>> \in Seq(Handlers) /\ 0 \in Nat
  OBVIOUS
<1>2. [u \in Users |-> TRUE] \in [Users -> BOOLEAN] /\ {} \in SUBSET Users
  OBVIOUS
<1> QED
  BY <1>1, <1>2, Zenon DEF Init, TypeOK

LEMMA TypeStep == TypeOK /\ [Next]_vars => TypeOK'
<1> SUFFICES ASSUME TypeOK, [Next]_vars PROVE TypeOK'
  OBVIOUS
<1> USE DEF TypeOK
<1>1. CASE PingTimerExpires
  BY <1>1, AppendKeeps, "ping" \in Handlers DEF PingTimerExpires, Handlers
<1>2. CASE ResponseTimerExpires
  BY <1>2, AppendKeeps, "response" \in Handlers DEF ResponseTimerExpires, Handlers
<1>3. CASE PublishCompletes
  BY <1>3, AppendKeeps, {"acked", "refused"} \subseteq Handlers DEF PublishCompletes, Handlers
<1>4. CASE TelegramLinkChanges
  BY <1>4 DEF TelegramLinkChanges
<1>5. CASE SendPing
  <2>1. ready' \in Seq(Handlers)
    <3>1. ready \in Seq(Handlers) /\ ready # <<>>
      BY <1>5, Zenon DEF SendPing
    <3>2. Tail(ready) \in Seq(Handlers) /\ Tail(ready) \o CancelledResponse \in Seq(Handlers)
      BY <3>1, TailKeeps, TailAloneKeeps, CancelledType
    <3>3. ready' = Tail(ready) \/ ready' = Tail(ready) \o CancelledResponse
      BY <1>5, Zenon DEF SendPing
    <3> QED
      BY <3>2, <3>3
  <2>2. isWaitingForResponse' \in BOOLEAN /\ responseTimer' \in BOOLEAN
    BY <1>5, Zenon DEF SendPing
  <2>3. publishes' \in Nat
    BY <1>5 DEF SendPing
  <2>4. UNCHANGED <<pingTimer, isConnected, tgConnected, told, missed>>
    BY <1>5, Zenon DEF SendPing
  <2> QED
    BY <2>1, <2>2, <2>3, <2>4
<1>6. CASE ResponseTimeout
  <2>1. ready' \in Seq(Handlers)
    BY <1>6, TailAloneKeeps DEF ResponseTimeout
  <2>2. told' \in [Users -> BOOLEAN] /\ missed' \in SUBSET Users
    BY <1>6, NotifyDoes DEF ResponseTimeout
  <2> QED
    BY <1>6, <2>1, <2>2 DEF ResponseTimeout, RestartAfterTimeout
<1>7. CASE PublishCompleted
  <2>1. ready' \in Seq(Handlers)
    BY <1>7, TailKeeps, CancelledType DEF PublishCompleted
  <2>2. told' \in [Users -> BOOLEAN] /\ missed' \in SUBSET Users
    BY <1>7, NotifyDoes DEF PublishCompleted
  <2> QED
    BY <1>7, <2>1, <2>2 DEF PublishCompleted, ClearWaiting, RestartAfterAnswer
<1>8. CASE UNCHANGED vars
  BY <1>8 DEF vars
<1> QED
  BY <1>1, <1>2, <1>3, <1>4, <1>5, <1>6, <1>7, <1>8 DEF Next

(* Every variable of the connection check keeps its type.                  *)
THEOREM TypeCorrect == Spec => []TypeOK
BY InitType, TypeStep, PTL DEF Spec

-----------------------------------------------------------------------------
LEMMA LoopAliveStep == TypeOK /\ LoopAlive /\ [Next]_vars => LoopAlive'
<1> SUFFICES ASSUME TypeOK, LoopAlive, [Next]_vars PROVE LoopAlive'
  OBVIOUS
<1> USE DEF TypeOK, LoopAlive, Queued
<1>1. CASE PingTimerExpires
  BY <1>1, AppendKeeps, "ping" \in Handlers DEF PingTimerExpires, Handlers
<1>2. CASE ResponseTimerExpires
  BY <1>2, AppendKeeps, "response" \in Handlers DEF ResponseTimerExpires, Handlers
<1>3. CASE PublishCompletes
  BY <1>3, AppendKeeps, {"acked", "refused"} \subseteq Handlers DEF PublishCompletes, Handlers
<1>4. CASE TelegramLinkChanges
  BY <1>4 DEF TelegramLinkChanges
<1>5. CASE SendPing
  <2>1. CASE isWaitingForResponse
    <3>1. /\ ready # <<>> /\ Head(ready) = "ping" /\ ready' = Tail(ready)
          /\ UNCHANGED <<responseTimer, isWaitingForResponse, publishes>>
      BY <1>5, <2>1, Zenon DEF SendPing
    <3> QED
      BY <2>1, <3>1, TailAloneKeeps
  <2>2. CASE ~isWaitingForResponse
    BY <1>5, <2>2 DEF SendPing
  <2> QED
    BY <2>1, <2>2
<1>6. CASE ResponseTimeout
  <2>1. CASE isWaitingForResponse
    BY <1>6, <2>1 DEF ResponseTimeout, RestartAfterTimeout
  <2>2. CASE ~isWaitingForResponse
    BY <1>6, <2>2, TailAloneKeeps DEF ResponseTimeout
  <2> QED
    BY <2>1, <2>2
<1>7. CASE PublishCompleted
  BY <1>7 DEF PublishCompleted, ClearWaiting, RestartAfterAnswer
<1>8. CASE UNCHANGED vars
  BY <1>8 DEF vars
<1> QED
  BY <1>1, <1>2, <1>3, <1>4, <1>5, <1>6, <1>7, <1>8 DEF Next

(* The connection check never dies: whatever order answers, aborted waits  *)
(* and expired timers come in, the next handler that carries it on is      *)
(* pending or queued.                                                      *)
THEOREM LoopNeverDies == Spec => []LoopAlive
<1>1. Init => LoopAlive
  BY DEF Init, LoopAlive
<1> QED
  BY <1>1, InitType, TypeStep, LoopAliveStep, PTL DEF Spec

-----------------------------------------------------------------------------
LEMMA WaitStep == TypeOK /\ WaitIsForAPing /\ [Next]_vars => WaitIsForAPing'
<1> SUFFICES ASSUME TypeOK, WaitIsForAPing, [Next]_vars PROVE WaitIsForAPing'
  OBVIOUS
<1> USE DEF TypeOK, WaitIsForAPing, Queued
<1>1. CASE PingTimerExpires
  BY <1>1, AppendKeeps, "ping" \in Handlers DEF PingTimerExpires, Handlers
<1>2. CASE ResponseTimerExpires
  BY <1>2, AppendKeeps, "response" \in Handlers DEF ResponseTimerExpires, Handlers
<1>3. CASE PublishCompletes
  BY <1>3, AppendKeeps, {"acked", "refused"} \subseteq Handlers DEF PublishCompletes, Handlers
<1>4. CASE TelegramLinkChanges
  BY <1>4 DEF TelegramLinkChanges
<1>5. CASE SendPing
  <2>1. CASE isWaitingForResponse
    <3>1. /\ ready # <<>> /\ Head(ready) = "ping" /\ ready' = Tail(ready)
          /\ UNCHANGED <<responseTimer, isWaitingForResponse, publishes>>
      BY <1>5, <2>1, Zenon DEF SendPing
    <3> QED
      <4>1. \A h : h # "ping" /\ Queued(h) => Queued(h)'
        BY <3>1, TailAloneKeeps
      <4>2. "acked" # "ping" /\ "refused" # "ping" /\ publishes' = publishes
        BY <3>1
      <4> QED
        BY <2>1, <4>1, <4>2, Zenon
  <2>2. CASE ~isWaitingForResponse
    <3>1. publishes' = IF publishes < MaxPublishes THEN publishes + 1 ELSE publishes
      BY <1>5, <2>2, Zenon DEF SendPing
    <3> QED
      BY <3>1, BoundsAssumption
  <2> QED
    BY <2>1, <2>2
<1>6. CASE ResponseTimeout
  BY <1>6, TailAloneKeeps DEF ResponseTimeout
<1>7. CASE PublishCompleted
  BY <1>7 DEF PublishCompleted, ClearWaiting, RestartAfterAnswer
<1>8. CASE UNCHANGED vars
  BY <1>8 DEF vars
<1> QED
  BY <1>1, <1>2, <1>3, <1>4, <1>5, <1>6, <1>7, <1>8 DEF Next

(* The response timer declares the broker lost only for a ping that was    *)
(* published and whose completion has not been handled.                    *)
THEOREM NoFalseAlarm == Spec => []WaitIsForAPing
<1>1. Init => WaitIsForAPing
  BY DEF Init, WaitIsForAPing
<1> QED
  BY <1>1, InitType, TypeStep, WaitStep, PTL DEF Spec

-----------------------------------------------------------------------------
LEMMA ToldStep == TypeOK /\ ToldIsStatus /\ [Next]_vars => ToldIsStatus'
<1> SUFFICES ASSUME TypeOK, ToldIsStatus, [Next]_vars PROVE ToldIsStatus'
  OBVIOUS
<1>1. CASE UNCHANGED <<isConnected, told, missed>>
  BY <1>1 DEF ToldIsStatus
<1>2. CASE ResponseTimeout
  <2>1. CASE isWaitingForResponse
    <3>1. Notify(FALSE) /\ isConnected' = FALSE
      BY <1>2, <2>1, Zenon DEF ResponseTimeout
    <3> QED
      BY <3>1, NotifyDoes DEF ToldIsStatus
  <2>2. CASE ~isWaitingForResponse
    BY <1>1, <1>2, <2>2, Zenon DEF ResponseTimeout
  <2> QED
    BY <2>1, <2>2
<1>3. CASE PublishCompleted
  <2>1. /\ Notify(Head(ready) = "acked") /\ isConnected' = (Head(ready) = "acked")
        /\ (Head(ready) = "acked") \in BOOLEAN
    BY <1>3, Zenon DEF PublishCompleted
  <2> QED
    BY <2>1, NotifyDoes DEF ToldIsStatus
<1> QED
  BY <1>1, <1>2, <1>3 DEF Next, vars, PingTimerExpires, ResponseTimerExpires,
     PublishCompletes, TelegramLinkChanges, SendPing

(* Every user knows the status the watchdogs go by, unless the sending of  *)
(* its last change to them failed, was cut short before them, or was never *)
(* tried: whatever Telegram and the order of answers and timeouts do.      *)
THEOREM UsersKnowStatus == Spec => []ToldIsStatus
<1>1. Init => ToldIsStatus
  BY DEF Init, ToldIsStatus
<1> QED
  BY <1>1, InitType, TypeStep, ToldStep, PTL DEF Spec

=============================================================================
