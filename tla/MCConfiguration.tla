-------------------------- MODULE MCConfiguration --------------------------
(* Small instances of Configuration.  An int64 of 5 bits (15 at most) with   *)
(* units up to 8 bytes and quarters of a byte stands for 63 bits, units up   *)
(* to 2^40 and decimals: the largest unit fits once or twice.                *)
EXTENDS Configuration

CONSTANTS alice, bob, host, secret, statsPath, otherPath, dir, otherDir, net, broken

MCMultiplier == [B |-> 1, KB |-> 2, MB |-> 4, GB |-> 6, TB |-> 8]
MCUpstreams  == [scheme : {"https", "http", "ftp"}, local : BOOLEAN]
MCDirOf      == [p \in Paths |-> dir]
MCNumbers    == {-1, 0, 28, 29}
MCPortArgs   == {{443}, {0, 443}}
MCJSON       == {[Fresh EXCEPT !.traffic_reset_day = 31],
                 [Fresh EXCEPT !.probe_resistance = NoDomain],
                 [Fresh EXCEPT !.probe_resistance = NoDomain, !.basic_auth = {}],
                 [Fresh EXCEPT !.basic_auth = {alice}, !.dial_timeout = -1]}

\* Whole and broken sizes around one, one unit and the largest int64.
Finite(n, u) == [kind |-> "finite", num |-> n, unit |-> u]
MCQuotaTexts ==
  {Finite(n, "TB") : n \in {-4, 2, 4, 8, 80}}
    \cup {Finite(3, "B"), Finite(4, "KB"), Finite(60, Bare), Finite(64, Bare), Finite(5, Bare)}
    \cup {[kind |-> k, num |-> 1, unit |-> "MB"] : k \in {"inf", "nan"}}
=============================================================================
