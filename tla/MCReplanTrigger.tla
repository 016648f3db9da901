--------------------------- MODULE MCReplanTrigger ----------------------------
(* Risks at the thresholds: 5 is clear, 7 lies in the band, 10 alarms; 5   *)
(* and 7 differ by less than the change threshold, 7 and 10 by just as     *)
(* much, 5 and 10 by more.                                                 *)
EXTENDS ReplanTrigger

===============================================================================
