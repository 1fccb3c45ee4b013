------------------------- MODULE MCGraphiteService -------------------------
(* Small instances of GraphiteService.                                     *)
EXTENDS GraphiteService

CONSTANTS m1, m2

MCMetrics == {m1, m2}
=============================================================================
