-------------------------- MODULE GraphiteService --------------------------
(***************************************************************************)
(* GraphiteService (src/src/graphiteService.cpp): metrics are queued and   *)
(* written in batches over one TCP connection, which is made again when a  *)
(* write or a connect fails.                                               *)
(*                                                                         *)
(* All of it runs on the one thread of the io_context.  The network ends   *)
(* an asynchronous operation in one step and its handler runs in a later   *)
(* one, so that other handlers run in between.  Opening the socket again   *)
(* closes it first, and closing it fails what is under way on it.  Time is *)
(* left out.                                                               *)
(***************************************************************************)
EXTENDS Naturals, Sequences

CONSTANTS Metrics,    \* what push() may be given
          BatchLimit, \* metrics that fill the 1024 bytes of a batch
          MaxQueue,   \* bound: metrics queued during a write
          MaxRetries  \* bound: handlers of _timer that are due

ASSUME GraphiteAssumption ==
  BatchLimit \in Nat \ {0} /\ MaxQueue \in Nat \ {0} /\ MaxRetries \in Nat \ {0}

VARIABLES
  queue,        \* _queue
  isConnecting, \* _is_connecting
  isWriting,    \* _is_writing
  conn,         \* the resolve or connect, under way or ended and not handled
  write,        \* the async_write, under way or ended and not handled
  batch,        \* what it has not handed over of its buffer
  socket,       \* _socket: closed (or not connected), opening or open
  timer,        \* a wait on _timer is pending
  retries,      \* handlers of _timer that are due
  handed        \* history: what the last step handed to the connection

connVars  == <<isConnecting, conn>>
writeVars == <<isWriting, write, batch>>
timerVars == <<timer, retries>>
vars == <<queue, connVars, writeVars, socket, timerVars, handed>>

TypeOK ==
  /\ queue \in Seq(Metrics) /\ batch \in Seq(Metrics) /\ handed \in Seq(Metrics)
  /\ isConnecting \in BOOLEAN /\ isWriting \in BOOLEAN /\ timer \in BOOLEAN
  /\ conn \in {"none", "resolving", "resolved", "unresolved",
               "connecting", "connected", "refused"}
  /\ write \in {"none", "pending", "done", "failed"}
  /\ socket \in {"closed", "opening", "open"}
  /\ retries \in Nat

(* The constructor calls _do_connect.                                      *)
Init ==
  /\ queue = <<>> /\ batch = <<>> /\ handed = <<>>
  /\ isConnecting = TRUE /\ conn = "resolving"
  /\ isWriting = FALSE /\ write = "none"
  /\ socket = "closed"
  /\ timer = FALSE /\ retries = 0

-----------------------------------------------------------------------------
(* How the network ends an operation.                                      *)

ResolveEnds(result) ==
  /\ conn = "resolving"
  /\ conn' = result
  /\ handed' = <<>>
  /\ UNCHANGED <<queue, isConnecting, writeVars, socket, timerVars>>

ConnectEnds(result) ==
  /\ conn = "connecting"
  /\ conn' = result
  /\ socket' = IF result = "connected" THEN "open" ELSE "closed"
  /\ handed' = <<>>
  /\ UNCHANGED <<queue, isConnecting, writeVars, timerVars>>

HandOver(j) ==
  /\ handed' = SubSeq(batch, 1, j)
  /\ batch' = SubSeq(batch, j + 1, Len(batch))

(* A write that starts while the socket opens waits until it is open.      *)
WriteSucceeds ==
  /\ write = "pending" /\ socket = "open"
  /\ write' = "done"
  /\ HandOver(Len(batch))
  /\ UNCHANGED <<queue, connVars, isWriting, socket, timerVars>>

(* What was handed over of a write that fails.                             *)
HandOverPart ==
  \E j \in 0..(Len(batch) - 1) : (j > 0 => socket = "open") /\ HandOver(j)

WriteFails ==
  /\ write = "pending"
  /\ write' = "failed"
  /\ HandOverPart
  /\ UNCHANGED <<queue, connVars, isWriting, socket, timerVars>>

TimerExpires ==
  /\ timer /\ retries < MaxRetries
  /\ timer' = FALSE /\ retries' = retries + 1
  /\ handed' = <<>>
  /\ UNCHANGED <<queue, connVars, writeVars, socket>>

-----------------------------------------------------------------------------
(* _do_connect(), with the resolve or connect that is under way.           *)
DoConnect(current) ==
  /\ isConnecting' = TRUE
  /\ conn' = IF isConnecting THEN current ELSE "resolving"

(* The batch, and what it leaves in the queue.                             *)
BatchLength(q) == IF Len(q) < BatchLimit THEN Len(q) ELSE BatchLimit

(* A batch filled without looking whether try_pop() gave a metric.         *)
TakeUnchecked(q) ==
  <<[i \in 1..BatchLimit |-> IF i <= Len(q) THEN q[i] ELSE "nullopt"],
    SubSeq(q, BatchLength(q) + 1, Len(q))>>

(* A batch filled by peeking: its metrics stay in the queue.               *)
TakeNothing(q) == <<SubSeq(q, 1, BatchLength(q)), q>>

TakeBatch(q) ==
  <<SubSeq(q, 1, BatchLength(q)), SubSeq(q, BatchLength(q) + 1, Len(q))>>

(* _do_write() with no write under way; on a closed socket the operation   *)
(* fails at once.                                                          *)
DoWrite(q) ==
  IF q = <<>>
  THEN /\ queue' = q /\ batch' = <<>>
       /\ write' = "none" /\ isWriting' = FALSE
  ELSE /\ batch' = TakeBatch(q)[1] /\ queue' = TakeBatch(q)[2]
       /\ write' = IF socket = "closed" THEN "failed" ELSE "pending"
       /\ isWriting' = TRUE

(* push().                                                                 *)
Push(m) ==
  /\ isWriting => Len(queue) < MaxQueue
  /\ IF isWriting THEN queue' = Append(queue, m) /\ UNCHANGED writeVars
                  ELSE DoWrite(Append(queue, m))
  /\ handed' = <<>>
  /\ UNCHANGED <<connVars, socket, timerVars>>

(* The host is resolved: async_connect closes the socket and opens it.     *)
Resolved ==
  /\ conn = "resolved"
  /\ conn' = "connecting" /\ socket' = "opening"
  /\ IF write = "pending" THEN write' = "failed" /\ HandOverPart
                          ELSE UNCHANGED <<write, batch>> /\ handed' = <<>>
  /\ UNCHANGED <<queue, isConnecting, isWriting, timerVars>>

(* The handler that returns from a resolve error at once.                  *)
UnresolvedReturns ==
  /\ conn = "unresolved"
  /\ conn' = "none"
  /\ handed' = <<>>
  /\ UNCHANGED <<queue, isConnecting, writeVars, socket, timerVars>>

(* The resolve failed: nothing is scheduled, the next failing write tries. *)
Unresolved ==
  /\ conn = "unresolved"
  /\ conn' = "none" /\ isConnecting' = FALSE
  /\ handed' = <<>>
  /\ UNCHANGED <<queue, writeVars, socket, timerVars>>

(* The connect handler that leaves the queue to the next push.             *)
ConnectedIdle ==
  /\ conn = "connected"
  /\ conn' = "none" /\ isConnecting' = FALSE
  /\ handed' = <<>>
  /\ UNCHANGED <<queue, writeVars, socket, timerVars>>

Connected ==
  /\ conn = "connected"
  /\ conn' = "none" /\ isConnecting' = FALSE
  /\ IF isWriting THEN UNCHANGED <<queue, writeVars>> ELSE DoWrite(queue)
  /\ handed' = <<>>
  /\ UNCHANGED <<socket, timerVars>>

(* expires_after() makes a wait that is still pending run its handler too. *)
Refused ==
  /\ conn = "refused" /\ (timer => retries < MaxRetries)
  /\ conn' = "none" /\ isConnecting' = FALSE
  /\ timer' = TRUE /\ retries' = IF timer THEN retries + 1 ELSE retries
  /\ handed' = <<>>
  /\ UNCHANGED <<queue, writeVars, socket>>

(* The handler of _timer: it does not look at its error code, nor at what  *)
(* has been connected since.                                               *)
Retry ==
  /\ retries > 0
  /\ retries' = retries - 1
  /\ DoConnect(conn)
  /\ handed' = <<>>
  /\ UNCHANGED <<queue, writeVars, socket, timer>>

Written ==
  /\ write = "done"
  /\ DoWrite(queue)
  /\ handed' = <<>>
  /\ UNCHANGED <<connVars, socket, timerVars>>

(* What _socket.close() does to a connect that is under way.               *)
Interrupted == IF conn = "connecting" THEN "refused" ELSE conn

(* The handler of a failed write that only closes the socket.              *)
NotWrittenCloses ==
  /\ write = "failed"
  /\ write' = "none" /\ isWriting' = FALSE /\ batch' = <<>>
  /\ socket' = "closed" /\ conn' = Interrupted /\ isConnecting' = isConnecting
  /\ handed' = <<>>
  /\ UNCHANGED <<queue, timerVars>>

(* The write failed: the rest of its batch is lost.                        *)
NotWritten ==
  /\ write = "failed"
  /\ write' = "none" /\ isWriting' = FALSE /\ batch' = <<>>
  /\ socket' = "closed"
  /\ DoConnect(Interrupted)
  /\ handed' = <<>>
  /\ UNCHANGED <<queue, timerVars>>

-----------------------------------------------------------------------------
Resolving  == \E result \in {"resolved", "unresolved"} : ResolveEnds(result)
Connecting == \E result \in {"connected", "refused"} : ConnectEnds(result)

Next ==
  \/ \E m \in Metrics : Push(m)
  \/ Resolving \/ Connecting \/ WriteSucceeds \/ WriteFails \/ TimerExpires
  \/ Resolved \/ Unresolved \/ Connected \/ Refused \/ Retry
  \/ Written \/ NotWritten

(* Every operation ends, one way or the other, and every handler runs.     *)
Fairness ==
  /\ WF_vars(Resolving) /\ WF_vars(Connecting)
  /\ WF_vars(WriteSucceeds \/ WriteFails)
  /\ WF_vars(TimerExpires)
  /\ WF_vars(Resolved \/ Unresolved \/ Connected \/ Refused)
  /\ WF_vars(Written \/ NotWritten)
  /\ WF_vars(Retry)

Spec == Init /\ [][Next]_vars

FairSpec == Spec /\ Fairness

-----------------------------------------------------------------------------
(* Properties.                                                             *)

(* _is_connecting and _is_writing never outlive their operations and never *)
(* miss one: a flag left set stops the service for good, a flag left clear *)
(* lets two operations loose on one socket.                                *)
FlagsMatch ==
  /\ isConnecting <=> conn # "none"
  /\ isWriting <=> write # "none"

(* Metrics do not lie in the queue of a connected service: something that  *)
(* will write them is under way.  The calls of _do_write after a connect   *)
(* and after a write, and the condition in push(), share this duty.        *)
NoIdleBacklog ==
  queue # <<>> /\ socket = "open" => isWriting \/ conn # "none"

(* As long as metrics come, the service is connected or tries again, time  *)
(* after time, although a failed resolve schedules nothing.                *)
KeepsTrying ==
  []<><<\E m \in Metrics : Push(m)>>_vars
    => []<>(socket = "open" \/ conn = "resolving")

(* Metrics are handed over in order, none twice, whatever writes fail and  *)
(* connections are made in between; and a failure never loses more than    *)
(* the batch it struck, however long the queue behind it has grown.        *)
Fifo == INSTANCE LossyFifo WITH waiting <- batch \o queue, MaxLoss <- BatchLimit
InOrder == Fifo!Spec
=============================================================================
