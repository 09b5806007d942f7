--------------------------- MODULE MCMonitorScript ---------------------------
(* One user with a quota of one byte of the two he may ever move, in one     *)
(* tunnel, and a month that opens on the second date.                        *)
EXTENDS MonitorScript

CONSTANTS alice, up, down

MCCalendar == <<31, 1>>
MCBytes    == [a \in Accounts |-> 2]
MCQuota    == [u \in Users |-> 1]
MCPairs    == {{up, down}}
MCFails    == {"read"}
=============================================================================
