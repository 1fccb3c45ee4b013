-------------------------- MODULE MCAlertPipeline --------------------------
(* Small instances of AlertPipeline.                                       *)
EXTENDS AlertPipeline

CONSTANTS u1, u2

MCUsers   == {u1, u2}
MCLists   == {<<u1, u2>>, <<u2>>}
FixedList == {<<u1, u2>>}
=============================================================================
