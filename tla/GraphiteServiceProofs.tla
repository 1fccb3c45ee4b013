----------------------- MODULE GraphiteServiceProofs -----------------------
(***************************************************************************)
(* The flags of GraphiteService match its operations, no metrics lie idle  *)
(* on an open connection, and the service implements LossyFifo, for every  *)
(* set of metrics and all bounds.                                          *)
(*                                                                         *)
(* That nothing lies idle needs more than it says: a backlog without a     *)
(* write is possible only while the socket is not open, or in the moment   *)
(* between a connect and its handler, whatever else is being resolved      *)
(* (Backlog).  The refinement needs that a buffer is left only by a write  *)
(* that is under way or has failed (BatchIsUsed), and that it holds one    *)
(* batch at most (BatchIsBounded), which is all that a failure may lose.   *)
(***************************************************************************)
EXTENDS GraphiteService, SequenceTheorems, TLAPS

USE GraphiteAssumption

(* The two parts of a sequence make it up.                                 *)
LEMMA SplitAt ==
  ASSUME NEW S, NEW q \in Seq(S), NEW n \in 0..Len(q)
  PROVE  /\ SubSeq(q, 1, n) \in Seq(S) /\ SubSeq(q, n + 1, Len(q)) \in Seq(S)
         /\ SubSeq(q, 1, n) \o SubSeq(q, n + 1, Len(q)) = q
         /\ Len(SubSeq(q, 1, n)) = n /\ Len(SubSeq(q, n + 1, Len(q))) = Len(q) - n
<1>1. Len(q) \in Nat /\ n \in Nat /\ n <= Len(q)
  BY LenProperties
<1>2. \A i \in 1..Len(q) : q[i] \in S
  BY ElementOfSeq
<1>3. SubSeq(q, 1, n) \in Seq(S) /\ Len(SubSeq(q, 1, n)) = n
  <2>1. \A i \in 1..n : q[i] \in S
    BY <1>1, <1>2
  <2> QED
    BY <1>1, <2>1, SubSeqProperties
<1>4. SubSeq(q, n + 1, Len(q)) \in Seq(S) /\ Len(SubSeq(q, n + 1, Len(q))) = Len(q) - n
  <2>1. \A i \in (n + 1)..Len(q) : q[i] \in S
    BY <1>1, <1>2
  <2> QED
    BY <1>1, <2>1, SubSeqProperties
<1>5. SubSeq(q, 1, n) \o SubSeq(q, n + 1, Len(q)) = SubSeq(q, 1, Len(q))
  <2>1. 1 \in 1..(Len(q) + 1) /\ n \in (1 - 1)..Len(q) /\ Len(q) \in n..Len(q)
    BY <1>1
  <2> QED
    BY <2>1, ConcatAdjacentSubSeq
<1>6. SubSeq(q, 1, Len(q)) = q
  BY SubSeqFull
<1> QED
  BY <1>3, <1>4, <1>5, <1>6

(* What is cut off the first of two sequences is cut off both.             *)
LEMMA CutAt ==
  ASSUME NEW S, NEW b \in Seq(S), NEW q \in Seq(S), NEW j \in 0..Len(b)
  PROVE  /\ SubSeq(b \o q, 1, j) = SubSeq(b, 1, j)
         /\ SubSeq(b \o q, j + 1, Len(b \o q)) = SubSeq(b, j + 1, Len(b)) \o q
<1> DEFINE w == b \o q
           a == SubSeq(b, 1, j)
           e == SubSeq(b, j + 1, Len(b))
           v == SubSeq(w, j + 1, Len(w))
<1>1. w \in Seq(S) /\ Len(w) = Len(b) + Len(q) /\ Len(b) \in Nat /\ Len(q) \in Nat
  BY ConcatProperties, LenProperties
<1>2. j \in 0..Len(w)
  BY <1>1
<1>3. a \in Seq(S) /\ e \in Seq(S) /\ a \o e = b
  BY SplitAt
<1>4. v \in Seq(S) /\ SubSeq(w, 1, j) \o v = w
  BY <1>1, <1>2, SplitAt
<1>5. SubSeq(w, 1, j) = a
  <2>1. CASE j = 0
    BY <2>1, SubSeqEmpty
  <2>2. CASE j # 0
    <3>1. 1 \in 1..Len(b) /\ j \in 1..Len(b)
      BY <1>1, <2>2
    <3> QED
      BY <3>1, SubSeqOfConcat1
  <2> QED
    BY <2>1, <2>2
<1> HIDE DEF a, e, v
<1>6. a \o (e \o q) = w
  <2>1. \A x, y, z \in Seq(S) : (x \o y) \o z = x \o (y \o z)
    BY ConcatAssociative, SMTT(30)
  <2> QED
    BY <1>3, <2>1, Zenon
<1>7. e \o q \in Seq(S)
  BY <1>3, ConcatProperties
<1>8. v = e \o q
  <2>1. \A x, y, z \in Seq(S) : x \o y = x \o z => y = z
    BY ConcatSimplifications, Zenon
  <2>2. a \o v = a \o (e \o q)
    BY <1>4, <1>5, <1>6, Zenon
  <2> QED
    BY <1>3, <1>4, <1>7, <2>1, <2>2, Zenon
<1> QED
  BY <1>5, <1>8 DEF a, e, v

-----------------------------------------------------------------------------
(* A backlog waits for a write, unless the socket is not open, or has been *)
(* opened by a connect whose handler is still to run.                      *)
Backlog ==
  queue # <<>> /\ isWriting = FALSE => socket # "open" \/ conn = "connected"

(* FlagsMatch, of flags that are values.                                   *)
FlagsAgree ==
  /\ isConnecting = TRUE <=> conn # "none"
  /\ isWriting = TRUE <=> write # "none"

(* Only a write under way, or failed, has metrics left in its buffer.      *)
BatchIsUsed == write \in {"none", "done"} => batch = <<>>

(* What a buffer holds was taken for one batch.                            *)
BatchIsBounded == Len(batch) <= BatchLimit

LEMMA NothingIsBounded == Len(<<>>) <= BatchLimit
<1>1. Len(<<>>) = 0
  OBVIOUS
<1> QED
  BY <1>1

ServiceInv == TypeOK /\ FlagsAgree /\ Backlog /\ BatchIsUsed /\ BatchIsBounded

-----------------------------------------------------------------------------
(* A step that hands nothing over and loses nothing.                       *)
LEMMA KeepIsFifo ==
  ASSUME TypeOK, batch' \o queue' = batch \o queue, handed' = <<>>
  PROVE  Fifo!Next
<1> DEFINE w == batch \o queue
<1>1. w \in Seq(Metrics)
  BY ConcatProperties DEF TypeOK
<1>2. 0 \in 0..Len(w)
  BY <1>1, LenProperties
<1>3. SubSeq(w, 0 + 1, Len(w)) = w /\ SubSeq(w, 1, 0) = <<>>
  BY <1>1, SubSeqFull, SubSeqEmpty
<1>4. Fifo!HandOver(0)
  BY <1>3 DEF Fifo!HandOver, Fifo!Leave
<1> QED
  BY <1>2, <1>4 DEF Fifo!Next

(* Handing over a part of the buffer.                                      *)
LEMMA HandOverIsFifo ==
  ASSUME TypeOK, NEW j \in 0..Len(batch), HandOver(j), queue' = queue
  PROVE  /\ Fifo!Next
         /\ batch' \in Seq(Metrics) /\ handed' \in Seq(Metrics)
         /\ BatchIsBounded => BatchIsBounded'
<1>1. batch \in Seq(Metrics) /\ queue \in Seq(Metrics)
  BY DEF TypeOK
<1>2. batch' \in Seq(Metrics) /\ handed' \in Seq(Metrics)
  BY <1>1, SplitAt DEF HandOver
<1> DEFINE w == batch \o queue
<1>3. SubSeq(w, 1, j) = handed' /\ SubSeq(w, j + 1, Len(w)) = batch' \o queue'
  BY <1>1, CutAt DEF HandOver
<1>4. Len(w) = Len(batch) + Len(queue) /\ Len(batch) \in Nat /\ Len(queue) \in Nat
  BY <1>1, ConcatProperties, LenProperties
<1>5. j \in 0..Len(w)
  BY <1>4
<1>6. Len(batch') <= Len(batch)
  <2>1. Len(batch') = Len(batch) - j
    BY <1>1, SplitAt DEF HandOver
  <2> QED
    BY <1>4, <2>1
<1>7. BatchIsBounded => BatchIsBounded'
  BY <1>2, <1>4, <1>6, LenProperties DEF BatchIsBounded
<1>8. Fifo!HandOver(j)
  BY <1>3 DEF Fifo!HandOver, Fifo!Leave
<1> QED
  BY <1>2, <1>5, <1>7, <1>8 DEF Fifo!Next

(* Losing the rest of the buffer, which is a batch at most.                *)
LEMMA LossIsFifo ==
  ASSUME TypeOK, BatchIsBounded, batch' = <<>>, queue' = queue, handed' = <<>>
  PROVE  Fifo!Next
<1> DEFINE w == batch \o queue
           n == Len(batch)
<1>1. batch \in Seq(Metrics) /\ queue \in Seq(Metrics)
  BY DEF TypeOK
<1>2. Len(w) = n + Len(queue) /\ n \in Nat /\ Len(queue) \in Nat
  BY <1>1, ConcatProperties, LenProperties
<1>3. n \in 0..n /\ n \in 0..Len(w)
  BY <1>2
<1>4. SubSeq(w, n + 1, Len(w)) = SubSeq(batch, n + 1, n) \o queue
  BY <1>1, <1>3, CutAt
<1>5. SubSeq(batch, n + 1, n) = <<>>
  BY <1>2, SubSeqEmpty
<1>6. <<>> \o queue = queue
  BY <1>1, ConcatEmptySeq
<1>7. Fifo!Lose(n)
  BY <1>4, <1>5, <1>6 DEF Fifo!Lose, Fifo!Leave, BatchIsBounded
<1> QED
  BY <1>3, <1>7 DEF Fifo!Next

(* _do_write() moves metrics from the front of the queue to the buffer.    *)
LEMMA DoWriteKeeps ==
  ASSUME NEW q \in Seq(Metrics), DoWrite(q)
  PROVE  /\ batch' \in Seq(Metrics) /\ queue' \in Seq(Metrics)
         /\ batch' \o queue' = q
         /\ write' \in {"none", "pending", "failed"} /\ isWriting' \in BOOLEAN
         /\ isWriting' = TRUE <=> write' # "none"
         /\ isWriting' = FALSE => batch' = <<>> /\ queue' = <<>>
         /\ BatchIsBounded'
<1>1. CASE q = <<>>
  <2>1. <<>> \in Seq(Metrics) /\ <<>> \o q = q
    BY ConcatEmptySeq, EmptySeq
  <2>2. /\ queue' = q /\ batch' = <<>>
        /\ write' = "none" /\ isWriting' = FALSE
    BY <1>1 DEF DoWrite
  <2>3. BatchIsBounded'
    BY <2>2, NothingIsBounded DEF BatchIsBounded
  <2> QED
    BY <1>1, <2>1, <2>2, <2>3
<1>2. CASE q # <<>>
  <2> DEFINE n == BatchLength(q)
  <2>1. n \in 0..Len(q) /\ n <= BatchLimit
    BY LenProperties, GraphiteAssumption DEF BatchLength
  <2> HIDE DEF n
  <2>2. /\ SubSeq(q, 1, n) \in Seq(Metrics) /\ SubSeq(q, n + 1, Len(q)) \in Seq(Metrics)
        /\ SubSeq(q, 1, n) \o SubSeq(q, n + 1, Len(q)) = q
    BY <2>1, SplitAt
  <2>3. /\ batch' = SubSeq(q, 1, n) /\ queue' = SubSeq(q, n + 1, Len(q))
        /\ isWriting' = TRUE /\ write' \in {"pending", "failed"}
    BY <1>2 DEF DoWrite, TakeBatch, n
  <2>4. Len(SubSeq(q, 1, n)) <= BatchLimit
    BY <2>1, SplitAt
  <2> QED
    BY <2>2, <2>3, <2>4 DEF BatchIsBounded
<1> QED
  BY <1>1, <1>2

-----------------------------------------------------------------------------
(* The steps, one lemma each: the invariant is kept, and the step is one   *)
(* of LossyFifo.                                                           *)

(* Steps that leave the queue and the write alone.                         *)
LEMMA QueueKept ==
  ASSUME ServiceInv, UNCHANGED <<queue, writeVars>>, handed' = <<>>,
         isConnecting' \in BOOLEAN, timer' \in BOOLEAN, retries' \in Nat,
         socket' \in {"closed", "opening", "open"},
         conn' \in {"none", "resolving", "resolved", "unresolved",
                    "connecting", "connected", "refused"},
         isConnecting' = TRUE <=> conn' # "none",
         queue # <<>> /\ isWriting = FALSE => socket' # "open" \/ conn' = "connected"
  PROVE  ServiceInv' /\ Fifo!Next
<1>1. TypeOK'
  BY EmptySeq DEF ServiceInv, TypeOK, writeVars
<1>2. FlagsAgree' /\ Backlog' /\ BatchIsUsed' /\ BatchIsBounded'
  BY DEF ServiceInv, FlagsAgree, Backlog, BatchIsUsed, BatchIsBounded, writeVars
<1>3. Fifo!Next
  BY KeepIsFifo DEF ServiceInv, writeVars
<1> QED
  BY <1>1, <1>2, <1>3 DEF ServiceInv

LEMMA ResolvingStep ==
  ASSUME ServiceInv, Resolving
  PROVE  ServiceInv' /\ Fifo!Next
<1>1. /\ conn = "resolving" /\ conn' \in {"resolved", "unresolved"} /\ handed' = <<>>
      /\ UNCHANGED <<queue, writeVars>>
      /\ isConnecting' = isConnecting /\ socket' = socket
      /\ timer' = timer /\ retries' = retries
  BY DEF Resolving, ResolveEnds, timerVars
<1> QED
  BY <1>1, QueueKept DEF ServiceInv, TypeOK, FlagsAgree, Backlog

LEMMA ConnectingStep ==
  ASSUME ServiceInv, Connecting
  PROVE  ServiceInv' /\ Fifo!Next
<1>1. /\ conn = "connecting" /\ conn' \in {"connected", "refused"} /\ handed' = <<>>
      /\ UNCHANGED <<queue, writeVars>>
      /\ isConnecting' = isConnecting
      /\ socket' = IF conn' = "connected" THEN "open" ELSE "closed"
      /\ timer' = timer /\ retries' = retries
  BY DEF Connecting, ConnectEnds, timerVars
<1> QED
  BY <1>1, QueueKept DEF ServiceInv, TypeOK, FlagsAgree

LEMMA TimerExpiresStep ==
  ASSUME ServiceInv, TimerExpires
  PROVE  ServiceInv' /\ Fifo!Next
<1>1. /\ handed' = <<>> /\ UNCHANGED <<queue, writeVars>>
      /\ isConnecting' = isConnecting /\ conn' = conn /\ socket' = socket
      /\ timer' = FALSE /\ retries' = retries + 1
  BY DEF TimerExpires, connVars
<1>2. /\ isConnecting' \in BOOLEAN /\ timer' \in BOOLEAN /\ retries' \in Nat
      /\ socket' \in {"closed", "opening", "open"}
      /\ conn' \in {"none", "resolving", "resolved", "unresolved",
                    "connecting", "connected", "refused"}
  <2>1. retries' \in Nat
    <3>1. retries \in Nat
      BY DEF ServiceInv, TypeOK
    <3> QED
      BY <1>1, <3>1
  <2>2. isConnecting' \in BOOLEAN /\ timer' \in BOOLEAN
    BY <1>1, Zenon DEF ServiceInv, TypeOK
  <2> QED
    BY <1>1, <2>1, <2>2 DEF ServiceInv, TypeOK
<1>3. /\ isConnecting' = TRUE <=> conn' # "none"
      /\ queue # <<>> /\ isWriting = FALSE => socket' # "open" \/ conn' = "connected"
  BY <1>1 DEF ServiceInv, FlagsAgree, Backlog
<1> QED
  BY <1>1, <1>2, <1>3, QueueKept

LEMMA UnresolvedStep ==
  ASSUME ServiceInv, Unresolved
  PROVE  ServiceInv' /\ Fifo!Next
<1>1. /\ conn = "unresolved" /\ handed' = <<>> /\ UNCHANGED <<queue, writeVars>>
      /\ isConnecting' = FALSE /\ conn' = "none" /\ socket' = socket
      /\ timer' = timer /\ retries' = retries
  BY DEF Unresolved, timerVars
<1> QED
  BY <1>1, QueueKept DEF ServiceInv, TypeOK, FlagsAgree, Backlog

LEMMA RefusedStep ==
  ASSUME ServiceInv, Refused
  PROVE  ServiceInv' /\ Fifo!Next
<1>1. /\ conn = "refused" /\ handed' = <<>> /\ UNCHANGED <<queue, writeVars>>
      /\ isConnecting' = FALSE /\ conn' = "none" /\ socket' = socket
      /\ timer' = TRUE /\ (retries' = retries + 1 \/ retries' = retries)
  BY DEF Refused
<1>2. /\ isConnecting' \in BOOLEAN /\ timer' \in BOOLEAN /\ retries' \in Nat
      /\ socket' \in {"closed", "opening", "open"}
      /\ conn' \in {"none", "resolving", "resolved", "unresolved",
                    "connecting", "connected", "refused"}
  <2>1. retries' \in Nat
    <3>1. retries \in Nat
      BY DEF ServiceInv, TypeOK
    <3> QED
      BY <1>1, <3>1
  <2>2. socket' \in {"closed", "opening", "open"}
    BY <1>1 DEF ServiceInv, TypeOK
  <2> QED
    BY <1>1, <2>1, <2>2
<1>3. /\ isConnecting' = TRUE <=> conn' # "none"
      /\ queue # <<>> /\ isWriting = FALSE => socket' # "open" \/ conn' = "connected"
  BY <1>1 DEF ServiceInv, FlagsAgree, Backlog
<1> QED
  BY <1>1, <1>2, <1>3, QueueKept

LEMMA RetryStep ==
  ASSUME ServiceInv, Retry
  PROVE  ServiceInv' /\ Fifo!Next
<1>1. /\ handed' = <<>> /\ UNCHANGED <<queue, writeVars>>
      /\ socket' = socket /\ timer' = timer
      /\ retries > 0 /\ retries' = retries - 1
      /\ isConnecting' = TRUE
      /\ \/ isConnecting = TRUE /\ conn' = conn
         \/ isConnecting = FALSE /\ conn' = "resolving"
  BY DEF Retry, DoConnect, ServiceInv, TypeOK
<1>2. conn = "connected" => conn' = "connected"
  BY <1>1 DEF ServiceInv, FlagsAgree
<1>3. /\ isConnecting' \in BOOLEAN /\ timer' \in BOOLEAN /\ retries' \in Nat
      /\ socket' \in {"closed", "opening", "open"}
      /\ conn' \in {"none", "resolving", "resolved", "unresolved",
                    "connecting", "connected", "refused"}
  <2>1. retries' \in Nat
    <3>1. retries \in Nat
      BY DEF ServiceInv, TypeOK
    <3> QED
      BY <1>1, <3>1
  <2>2. isConnecting' \in BOOLEAN /\ timer' \in BOOLEAN
    BY <1>1, Zenon DEF ServiceInv, TypeOK
  <2>3. socket' \in {"closed", "opening", "open"}
    BY <1>1 DEF ServiceInv, TypeOK
  <2>4. conn' \in {"none", "resolving", "resolved", "unresolved",
                  "connecting", "connected", "refused"}
    BY <1>1 DEF ServiceInv, TypeOK
  <2> QED
    BY <2>1, <2>2, <2>3, <2>4, Zenon
<1>4. /\ isConnecting' = TRUE <=> conn' # "none"
      /\ queue # <<>> /\ isWriting = FALSE => socket' # "open" \/ conn' = "connected"
  BY <1>1, <1>2 DEF ServiceInv, FlagsAgree, Backlog
<1> QED
  BY <1>1, <1>3, <1>4, QueueKept

(* Steps that hand over a part of the buffer, of a write that is under way *)
LEMMA BatchHanded ==
  ASSUME ServiceInv, NEW j \in 0..Len(batch), HandOver(j), queue' = queue,
         isWriting' = isWriting, isConnecting' = isConnecting,
         timer' = timer, retries' = retries,
         write = "pending", write' \in {"done", "failed"},
         write' = "done" => batch' = <<>>,
         \/ socket' = socket /\ conn' = conn
         \/ conn = "resolved" /\ conn' = "connecting" /\ socket' = "opening"
  PROVE  ServiceInv' /\ Fifo!Next
<1>1. batch' \in Seq(Metrics) /\ handed' \in Seq(Metrics) /\ Fifo!Next /\ BatchIsBounded'
  BY HandOverIsFifo DEF ServiceInv
<1>2. TypeOK'
  BY <1>1 DEF ServiceInv, TypeOK
<1>3. FlagsAgree' /\ Backlog' /\ BatchIsUsed' /\ BatchIsBounded'
  BY <1>1 DEF ServiceInv, FlagsAgree, Backlog, BatchIsUsed
<1> QED
  BY <1>1, <1>2, <1>3 DEF ServiceInv

LEMMA WriteSucceedsStep ==
  ASSUME ServiceInv, WriteSucceeds
  PROVE  ServiceInv' /\ Fifo!Next
<1> DEFINE n == Len(batch)
<1>1. n \in Nat /\ n \in 0..n
  BY LenProperties DEF ServiceInv, TypeOK
<1>2. batch' = SubSeq(batch, n + 1, n)
  BY DEF WriteSucceeds, HandOver
<1>3. batch' = <<>>
  BY <1>1, <1>2, SubSeqEmpty
<1>4. /\ HandOver(n) /\ queue' = queue /\ isWriting' = isWriting
      /\ isConnecting' = isConnecting /\ conn' = conn /\ socket' = socket
      /\ timer' = timer /\ retries' = retries
      /\ write = "pending" /\ write' = "done"
  BY DEF WriteSucceeds, connVars, timerVars
<1> HIDE DEF n
<1> QED
  BY <1>1, <1>3, <1>4, BatchHanded DEF n

LEMMA WriteFailsStep ==
  ASSUME ServiceInv, WriteFails
  PROVE  ServiceInv' /\ Fifo!Next
<1>1. PICK j \in 0..(Len(batch) - 1) : HandOver(j)
  BY DEF WriteFails, HandOverPart
<1>2. j \in 0..Len(batch)
  BY LenProperties DEF ServiceInv, TypeOK
<1>3. /\ queue' = queue /\ isWriting' = isWriting
      /\ isConnecting' = isConnecting /\ conn' = conn /\ socket' = socket
      /\ timer' = timer /\ retries' = retries
      /\ write = "pending" /\ write' = "failed"
  BY DEF WriteFails, connVars, timerVars
<1> QED
  BY <1>1, <1>2, <1>3, BatchHanded

LEMMA ResolvedStep ==
  ASSUME ServiceInv, Resolved
  PROVE  ServiceInv' /\ Fifo!Next
<1>1. /\ conn = "resolved" /\ conn' = "connecting" /\ socket' = "opening"
      /\ queue' = queue /\ isConnecting' = isConnecting /\ isWriting' = isWriting
      /\ timer' = timer /\ retries' = retries
  BY DEF Resolved, timerVars
<1>2. CASE write = "pending"
  <2>1. write' = "failed" /\ HandOverPart
    BY <1>2 DEF Resolved
  <2>2. PICK j \in 0..(Len(batch) - 1) : HandOver(j)
    BY <2>1 DEF HandOverPart
  <2>3. j \in 0..Len(batch)
    BY LenProperties DEF ServiceInv, TypeOK
  <2> QED
    BY <1>1, <1>2, <2>1, <2>2, <2>3, BatchHanded
<1>3. CASE write # "pending"
  <2>1. UNCHANGED <<queue, writeVars>> /\ handed' = <<>>
    BY <1>1, <1>3 DEF Resolved, writeVars
  <2> QED
    BY <1>1, <2>1, QueueKept DEF ServiceInv, TypeOK, FlagsAgree
<1> QED
  BY <1>2, <1>3

(* Steps that write a batch of what waits, with a metric more or not.      *)
LEMMA BatchTaken ==
  ASSUME ServiceInv, NEW q \in Seq(Metrics), DoWrite(q), handed' = <<>>,
         isConnecting' \in BOOLEAN, timer' = timer, retries' = retries, socket' = socket,
         conn' \in {"none", conn}, isConnecting' = TRUE <=> conn' # "none"
  PROVE  ServiceInv' /\ batch' \o queue' = q
<1>1. /\ batch' \in Seq(Metrics) /\ queue' \in Seq(Metrics) /\ batch' \o queue' = q
      /\ write' \in {"none", "pending", "failed"} /\ isWriting' \in BOOLEAN
      /\ isWriting' = TRUE <=> write' # "none"
      /\ isWriting' = FALSE => batch' = <<>> /\ queue' = <<>>
      /\ BatchIsBounded'
  BY DoWriteKeeps
<1>2. TypeOK'
  BY <1>1, EmptySeq DEF ServiceInv, TypeOK
<1>3. FlagsAgree' /\ Backlog' /\ BatchIsUsed' /\ BatchIsBounded'
  BY <1>1 DEF FlagsAgree, Backlog, BatchIsUsed
<1> QED
  BY <1>1, <1>2, <1>3 DEF ServiceInv

(* Without a write, or after one that is done, the queue is all that waits. *)
LEMMA QueueIsAll ==
  ASSUME ServiceInv, isWriting = FALSE \/ write = "done"
  PROVE  queue \in Seq(Metrics) /\ batch \o queue = queue
<1>1. queue \in Seq(Metrics) /\ batch = <<>>
  BY DEF ServiceInv, TypeOK, FlagsAgree, BatchIsUsed
<1> QED
  BY <1>1, ConcatEmptySeq

LEMMA ConnectedStep ==
  ASSUME ServiceInv, Connected
  PROVE  ServiceInv' /\ Fifo!Next
<1>1. /\ conn' = "none" /\ isConnecting' = FALSE /\ handed' = <<>>
      /\ socket' = socket /\ timer' = timer /\ retries' = retries
  BY DEF Connected, timerVars
<1>2. CASE isWriting = TRUE
  <2>1. UNCHANGED <<queue, writeVars>>
    BY <1>2 DEF Connected
  <2> QED
    BY <1>1, <1>2, <2>1, QueueKept DEF ServiceInv, TypeOK
<1>3. CASE isWriting = FALSE
  <2>1. DoWrite(queue)
    BY <1>3 DEF Connected
  <2>2. ServiceInv' /\ batch' \o queue' = batch \o queue
    BY <1>1, <1>3, <2>1, QueueIsAll, BatchTaken
  <2> QED
    BY <1>1, <2>2, KeepIsFifo DEF ServiceInv
<1> QED
  BY <1>2, <1>3 DEF ServiceInv, TypeOK

LEMMA WrittenStep ==
  ASSUME ServiceInv, Written
  PROVE  ServiceInv' /\ Fifo!Next
<1>1. /\ write = "done" /\ DoWrite(queue) /\ handed' = <<>>
      /\ isConnecting' = isConnecting /\ conn' = conn
      /\ socket' = socket /\ timer' = timer /\ retries' = retries
  BY DEF Written, connVars, timerVars
<1>2. isConnecting' \in BOOLEAN /\ (isConnecting' = TRUE <=> conn' # "none")
  BY <1>1 DEF ServiceInv, TypeOK, FlagsAgree
<1>3. ServiceInv' /\ batch' \o queue' = batch \o queue
  BY <1>1, <1>2, QueueIsAll, BatchTaken
<1> QED
  BY <1>1, <1>3, KeepIsFifo DEF ServiceInv

LEMMA NotWrittenStep ==
  ASSUME ServiceInv, NotWritten
  PROVE  ServiceInv' /\ Fifo!Next
<1>1. /\ write' = "none" /\ isWriting' = FALSE /\ batch' = <<>> /\ queue' = queue
      /\ socket' = "closed" /\ handed' = <<>> /\ timer' = timer /\ retries' = retries
  BY DEF NotWritten, timerVars
<1>2. /\ isConnecting' = TRUE
      /\ \/ isConnecting = TRUE /\ conn' \in {conn, "refused"}
         \/ isConnecting = FALSE /\ conn' = "resolving"
  BY DEF NotWritten, DoConnect, Interrupted, ServiceInv, TypeOK
<1>3. TypeOK'
  BY <1>1, <1>2, EmptySeq DEF ServiceInv, TypeOK
<1>4. FlagsAgree' /\ Backlog' /\ BatchIsUsed' /\ BatchIsBounded'
  BY <1>1, <1>2, NothingIsBounded DEF ServiceInv, FlagsAgree, Backlog, BatchIsUsed, BatchIsBounded
<1>5. Fifo!Next
  BY <1>1, LossIsFifo DEF ServiceInv
<1> QED
  BY <1>3, <1>4, <1>5 DEF ServiceInv

LEMMA PushStep ==
  ASSUME ServiceInv, NEW m \in Metrics, Push(m)
  PROVE  ServiceInv' /\ Fifo!Next
<1>1. /\ handed' = <<>> /\ isConnecting' = isConnecting /\ conn' = conn
      /\ socket' = socket /\ timer' = timer /\ retries' = retries
  BY DEF Push, connVars, timerVars
<1>2. batch \in Seq(Metrics) /\ queue \in Seq(Metrics)
  BY DEF ServiceInv, TypeOK
<1>3. Append(queue, m) \in Seq(Metrics)
  BY <1>2, AppendProperties
<1>4. ServiceInv' /\ batch' \o queue' = Append(batch \o queue, m)
  <2>1. CASE isWriting = TRUE
    <3>1. queue' = Append(queue, m) /\ UNCHANGED writeVars
      BY <2>1 DEF Push
    <3>2. <<m>> \in Seq(Metrics) /\ batch \o queue \in Seq(Metrics)
      BY <1>2, ConcatProperties
    <3>3. queue' = queue \o <<m>> /\ Append(batch \o queue, m) = (batch \o queue) \o <<m>>
      BY <1>2, <3>1, <3>2, AppendIsConcat
    <3>4. batch \o (queue \o <<m>>) = (batch \o queue) \o <<m>>
      BY <1>2, <3>2, ConcatAssociative
    <3>5. TypeOK'
      BY <1>1, <1>3, <3>1, EmptySeq DEF ServiceInv, TypeOK, writeVars
    <3>6. FlagsAgree' /\ Backlog' /\ BatchIsUsed' /\ BatchIsBounded'
      BY <1>1, <2>1, <3>1 DEF ServiceInv, FlagsAgree, Backlog, BatchIsUsed, BatchIsBounded, writeVars
    <3> QED
      BY <3>1, <3>3, <3>4, <3>5, <3>6 DEF ServiceInv, writeVars
  <2>2. CASE isWriting = FALSE
    <3>1. DoWrite(Append(queue, m))
      BY <2>2 DEF Push
    <3>2. isConnecting' \in BOOLEAN /\ (isConnecting' = TRUE <=> conn' # "none")
      BY <1>1 DEF ServiceInv, TypeOK, FlagsAgree
    <3> QED
      BY <1>1, <1>3, <2>2, <3>1, <3>2, QueueIsAll, BatchTaken
  <2> QED
    BY <2>1, <2>2 DEF ServiceInv, TypeOK
<1>5. Fifo!Put(m)
  BY <1>1, <1>4 DEF Fifo!Put
<1> QED
  BY <1>4, <1>5 DEF Fifo!Next

-----------------------------------------------------------------------------
LEMMA ServiceStep == ServiceInv /\ Next => ServiceInv' /\ Fifo!Next
BY ResolvingStep, ConnectingStep, WriteSucceedsStep, WriteFailsStep, TimerExpiresStep,
   ResolvedStep, UnresolvedStep, ConnectedStep, RefusedStep, RetryStep, WrittenStep,
   NotWrittenStep, PushStep DEF Next

LEMMA ServiceStutter ==
  ServiceInv /\ UNCHANGED vars => ServiceInv' /\ UNCHANGED <<batch \o queue, handed>>
BY DEF ServiceInv, TypeOK, FlagsAgree, Backlog, BatchIsUsed, BatchIsBounded,
       vars, connVars, writeVars, timerVars

LEMMA ServiceInit == Init => ServiceInv /\ Fifo!Init
<1>1. <<>> \in Seq(Metrics) /\ <<>> \o <<>> = <<>>
  BY EmptySeq, ConcatEmptySeq
<1>2. Init => Fifo!Init
  BY <1>1 DEF Init, Fifo!Init
<1>3. Init => TypeOK
  <2> SUFFICES ASSUME Init PROVE TypeOK
    OBVIOUS
  <2>1. queue \in Seq(Metrics) /\ batch \in Seq(Metrics) /\ handed \in Seq(Metrics)
    BY <1>1 DEF Init
  <2>2. isConnecting \in BOOLEAN /\ isWriting \in BOOLEAN /\ timer \in BOOLEAN
    BY DEF Init
  <2>3. conn = "resolving" /\ write = "none" /\ socket = "closed" /\ retries \in Nat
    BY DEF Init
  <2> QED
    BY <2>1, <2>2, <2>3 DEF TypeOK
<1>4. Init => FlagsAgree /\ Backlog /\ BatchIsUsed /\ BatchIsBounded
  BY NothingIsBounded DEF Init, FlagsAgree, Backlog, BatchIsUsed, BatchIsBounded
<1> QED
  BY <1>2, <1>3, <1>4 DEF ServiceInv

LEMMA ServiceInvariant == Spec => []ServiceInv
BY ServiceInit, ServiceStep, ServiceStutter, PTL DEF Spec

-----------------------------------------------------------------------------
(* Every variable of the service keeps its type.                           *)
THEOREM TypeCorrect == Spec => []TypeOK
<1>1. ServiceInv => TypeOK
  BY DEF ServiceInv
<1> QED
  BY <1>1, ServiceInvariant, PTL

(* _is_connecting and _is_writing are set exactly while an operation of    *)
(* theirs is under way or has a handler to run.                            *)
THEOREM FlagsMatchOperations == Spec => []FlagsMatch
<1>1. ServiceInv => FlagsMatch
  BY DEF ServiceInv, FlagsAgree, FlagsMatch, TypeOK
<1> QED
  BY <1>1, ServiceInvariant, PTL

(* No metrics lie in the queue of a connected service without something    *)
(* under way that will write them.                                         *)
THEOREM NoBacklogLiesIdle == Spec => []NoIdleBacklog
<1>1. ServiceInv => NoIdleBacklog
  BY DEF ServiceInv, TypeOK, Backlog, NoIdleBacklog
<1> QED
  BY <1>1, ServiceInvariant, PTL

(* The service hands metrics over in the order they were pushed, each at   *)
(* most once.                                                              *)
THEOREM ServiceImplementsFifo == Spec => InOrder
<1>1. Init => Fifo!Init
  BY ServiceInit
<1>2. ServiceInv /\ [Next]_vars => [Fifo!Next]_<<batch \o queue, handed>>
  BY ServiceStep, ServiceStutter
<1> QED
  BY <1>1, <1>2, ServiceInvariant, PTL DEF Spec, InOrder, Fifo!Spec
=============================================================================
