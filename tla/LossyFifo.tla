----------------------------- MODULE LossyFifo -----------------------------
(***************************************************************************)
(* What the metrics path promises: metrics are handed to the connection in *)
(* the order they were put, each at most once; some may be lost on the     *)
(* way, but never more than MaxLoss at a time, and none is invented,       *)
(* repeated or overtaken.                                                  *)
(***************************************************************************)
EXTENDS Naturals, Sequences

CONSTANTS Metrics,
          MaxLoss \* metrics that one failure may lose

VARIABLES waiting, \* put, and neither handed over nor lost
          handed   \* what the last step handed over

Init == waiting = <<>> /\ handed = <<>>

Put(m) == waiting' = Append(waiting, m) /\ handed' = <<>>

(* The first k metrics leave the queue.                                    *)
Leave(k) == waiting' = SubSeq(waiting, k + 1, Len(waiting))

HandOver(k) == Leave(k) /\ handed' = SubSeq(waiting, 1, k)

Lose(k) == k <= MaxLoss /\ Leave(k) /\ handed' = <<>>

Next ==
  \/ \E m \in Metrics : Put(m)
  \/ \E k \in 0..Len(waiting) : HandOver(k) \/ Lose(k)

Spec == Init /\ [][Next]_<<waiting, handed>>
=============================================================================
