--------------------------- MODULE MCTrafficStats ---------------------------
(* Small instances of TrafficStats: one named user and the nameless one, a  *)
(* calendar of three dates of which the second and the third each open a    *)
(* month.                                                                   *)
EXTENDS TrafficStats

MCCalendar  == <<31, 1, 1>>
MCCalendar2 == <<31, 1>>
MCBytes2    == [a \in Accounts |-> 2]
MCBytes21   == [a \in Accounts |-> IF a = Unknown THEN 1 ELSE 2]
MCAllFails  == FileOps
MCNoFails   == {}
=============================================================================
