------------------------------ MODULE MCTunnel ------------------------------
(* A tunnel of two bytes each way, and one byte sent ahead.                 *)
EXTENDS Tunnel

MCBytes == [d \in Dirs |-> 2]
=============================================================================
