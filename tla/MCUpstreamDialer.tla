-------------------------- MODULE MCUpstreamDialer --------------------------
(* Two callers and two connections: a shared one and a fresh one, or two    *)
(* fresh ones dialled together.                                            *)
EXTENDS UpstreamDialer

CONSTANTS p1, p2, c1, c2

MCCallers == {p1, p2}
MCConns   == {c1, c2}
=============================================================================
