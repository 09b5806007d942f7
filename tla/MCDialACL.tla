------------------------------ MODULE MCDialACL ------------------------------
(* Every list of at most two user rules over one public and one private     *)
(* address, a domain, its subdomain, a foreign name and an IP literal.      *)
EXTENDS DialACL, FiniteSets

CONSTANTS Public, Private

MCAddrs == {Public, Private}
MCDomain == <<"example", "com">>
MCSub    == <<"www", "example", "com">>
MCOther  == <<"fakeexample", "com">>
MCLiteral == <<"10.0.0.1">>
MCHosts == {MCDomain, MCSub, MCOther, MCLiteral}
MCLiteralOf == [h \in MCHosts |-> IF h = MCLiteral THEN Private ELSE NoAddr]
MCPrivateNets == <<{Private}>>
MCRules ==
  {AllRule(b) : b \in BOOLEAN}
    \cup {IPRule(n, b) : n \in {{Public}, {Private}}, b \in BOOLEAN}
    \cup {DomainRule(MCDomain, sub, b) : sub \in BOOLEAN, b \in BOOLEAN}
    \cup {DomainRule(MCSub, FALSE, b) : b \in BOOLEAN}
MCUserRules == UNION {[1 .. n -> MCRules] : n \in 0 .. 2}
MCPorts == {0, 443, 8080}
MCAllowed == {443}
=============================================================================
