------------------------------- MODULE DialACL -------------------------------
(***************************************************************************)
(* dialContextCheckACL of forwardproxy/forwardproxy.go over the rules of   *)
(* forwardproxy/acl.go: how one CONNECT (or plain request) is checked      *)
(* against ports, hostname rules and address rules and then dialled.       *)
(*                                                                         *)
(* A hostname is the sequence of its labels.  The resolver and the network *)
(* answer as they like: any sequence of addresses, any dial may fail.      *)
(***************************************************************************)
EXTENDS Integers, Sequences

CONSTANTS
  Hosts,         \* hosts a request may name, each a sequence of labels
  LiteralOf,     \* for a host that is an IP literal, its address; else NoAddr
  Addrs,         \* addresses
  NoAddr,
  PrivateNets,   \* sequence of the blocks denied by default, each a set of addresses
  UserRules,     \* rule lists the acl directive may give
  Ports,         \* port numbers a request may carry
  AllowedPorts,  \* the ports directive; {} allows every port
  MaxAnswer      \* bound: addresses in one answer of the resolver

Outcomes == {"pending", "upstream", "400", "403", "502"}

ASSUME AddrAssumption ==
  /\ NoAddr \notin Addrs /\ Addrs \cap Outcomes = {}
  /\ LiteralOf \in [Hosts -> Addrs \cup {NoAddr}]
ASSUME RulesAssumption ==
  /\ PrivateNets \in Seq(SUBSET Addrs)
  /\ \A u \in UserRules : u \in Seq({u[i] : i \in DOMAIN u})
ASSUME BoundAssumption == MaxAnswer \in Nat

AllRule(allow)           == [kind |-> "all", allow |-> allow]
IPRule(net, allow)       == [kind |-> "ip", net |-> net, allow |-> allow]
DomainRule(n, sub, allow) == [kind |-> "domain", name |-> n, sub |-> sub, allow |-> allow]

\* Provision: after the user's rules, a denial per private block, then allow all.
\* Faulty: the final allowance comes first.
Denials == [i \in DOMAIN PrivateNets |-> IPRule(PrivateNets[i], FALSE)]
DefaultRulesSwapped == <<AllRule(TRUE)>> \o Denials
DefaultRules        == Denials \o <<AllRule(TRUE)>>

\* The labels of n end with those of d, and n has more.
IsSubdomain(n, d) ==
  Len(n) > Len(d) /\ SubSeq(n, Len(n) - Len(d) + 1, Len(n)) = d

MatchesName(r, host) == host = r.name \/ (r.sub /\ IsSubdomain(host, r.name))

Matches(r, addr, host) ==
  CASE r.kind = "all"    -> TRUE
    [] r.kind = "ip"     -> addr \in r.net
    [] r.kind = "domain" -> MatchesName(r, host)

\* The first rule among the positions "at" that matches decides.
FirstMatch(rs, at, addr, host) ==
  {i \in at : /\ Matches(rs[i], addr, host)
              /\ \A j \in at : j < i => ~Matches(rs[j], addr, host)}

AllowedBy(rs, at, addr, host) == \E i \in FirstMatch(rs, at, addr, host) : rs[i].allow
DeniedBy(rs, at, addr, host)  == \E i \in FirstMatch(rs, at, addr, host) : ~rs[i].allow

\* hostIsAllowed scans every rule; the pass before the lookup, hostname rules only.
\* Faulty: an allowance by name settles it, whatever rules come earlier.
AllowedByName(rs, host, addr) ==
  \/ \E i \in DOMAIN rs : rs[i].kind = "domain" /\ rs[i].allow /\ MatchesName(rs[i], host)
  \/ AllowedBy(rs, DOMAIN rs, addr, host)
HostIsAllowed(rs, host, addr) == AllowedBy(rs, DOMAIN rs, addr, host)
NameRules(rs) == {i \in DOMAIN rs : rs[i].kind = "domain"}

\* Faulty: any hostname rule that denies is final, allowed before or not.
DeniedByAnyName(rs, host) == \E i \in NameRules(rs) : ~rs[i].allow /\ MatchesName(rs[i], host)
DeniedByName(rs, host) == DeniedBy(rs, NameRules(rs), NoAddr, host)

PortIsAllowed(p) == p \in 1 .. 65535 /\ (AllowedPorts = {} \/ p \in AllowedPorts)

VARIABLES
  rules,     \* h.aclRules
  upstream,  \* is an upstream proxy configured?
  host, port,
  phase,     \* "start", "names", "lookup", "dial" or "done"
  answer,    \* the resolver's addresses, in order
  pos,       \* position of the next address to consider
  dialled,   \* addresses dialled so far
  result     \* "pending", the address connected to, "upstream" or an HTTP status

config == <<rules, upstream, host, port>>
vars == <<config, phase, answer, pos, dialled, result>>

Answers == UNION {[1 .. n -> Addrs] : n \in 1 .. MaxAnswer}

\* Faulty: ParseIP, which knows literals only, in place of LookupIP.
ParsedAddr(h)  == {<<LiteralOf[h]>>}
Resolutions(h) == IF LiteralOf[h] = NoAddr THEN Answers ELSE {<<LiteralOf[h]>>}

Init ==
  /\ \E u \in UserRules : rules = u \o DefaultRules
  /\ upstream \in BOOLEAN
  /\ host \in Hosts /\ port \in Ports
  /\ phase = "start" /\ answer = <<>> /\ pos = 1 /\ dialled = {} /\ result = "pending"

Return(r) == phase' = "done" /\ result' = r
Enter(p)  == phase' = p /\ UNCHANGED result

\* The network or host:port is unusable.
RejectRequest ==
  /\ phase = "start"
  /\ Return("400")
  /\ UNCHANGED <<config, answer, pos, dialled>>

\* With an upstream neither ports nor rules are checked here.
DialUpstream ==
  /\ phase = "start" /\ upstream
  /\ Return("upstream") \/ Return("502")
  /\ UNCHANGED <<config, answer, pos, dialled>>

CheckPort ==
  /\ phase = "start" /\ ~upstream
  /\ IF PortIsAllowed(port) THEN Enter("names") ELSE Return("403")
  /\ UNCHANGED <<config, answer, pos, dialled>>

\* Hostname rules alone, before the lookup: a denial is final, an allowance
\* only ends the pass.
CheckNames ==
  /\ phase = "names"
  /\ IF DeniedByName(rules, host) THEN Return("403") ELSE Enter("lookup")
  /\ UNCHANGED <<config, answer, pos, dialled>>

\* An IP literal resolves to itself.
Lookup ==
  /\ phase = "lookup"
  /\ \/ LiteralOf[host] = NoAddr /\ Return("502") /\ UNCHANGED answer
     \/ /\ answer' \in Resolutions(host)
        /\ Enter("dial")
  /\ UNCHANGED <<config, pos, dialled>>

SkipAddr ==
  /\ phase = "dial" /\ pos <= Len(answer)
  /\ ~HostIsAllowed(rules, host, answer[pos])
  /\ pos' = pos + 1
  /\ UNCHANGED <<config, phase, answer, dialled, result>>

DialAddr ==
  /\ phase = "dial" /\ pos <= Len(answer)
  /\ HostIsAllowed(rules, host, answer[pos])
  /\ dialled' = dialled \cup {answer[pos]}
  /\ pos' = pos + 1
  /\ Return(answer[pos]) \/ UNCHANGED <<phase, result>>
  /\ UNCHANGED <<config, answer>>

GiveUp ==
  /\ phase = "dial" /\ pos > Len(answer)
  /\ Return("403")
  /\ UNCHANGED <<config, answer, pos, dialled>>

Next == \/ RejectRequest \/ DialUpstream \/ CheckPort \/ CheckNames
        \/ Lookup \/ SkipAddr \/ DialAddr \/ GiveUp

Spec == Init /\ [][Next]_vars

-----------------------------------------------------------------------------
(* Properties.                                                             *)

TypeOK ==
  /\ port \in Ports /\ host \in Hosts /\ upstream \in BOOLEAN
  /\ phase \in {"start", "names", "lookup", "dial", "done"}
  /\ answer \in Seq(Addrs) /\ pos \in 1 .. Len(answer) + 1
  /\ dialled \subseteq Addrs
  /\ result \in Outcomes \cup Addrs

(* The order the README documents, rule by rule with the hostname and the   *)
(* resolved address together: the first that matches says yes.              *)
PolicyAllows(addr) ==
  \E i \in DOMAIN rules :
    /\ rules[i].allow /\ Matches(rules[i], addr, host)
    /\ \A j \in 1 .. i - 1 : ~Matches(rules[j], addr, host)

(* Of the addresses the resolver gave, those the policy allows are dialled, *)
(* in its order and up to the first that answers, and no other is: neither  *)
(* an allowed hostname nor a failed dial lets a denied address through, and *)
(* a refusal means that each allowed one was tried.                         *)
DialsWhatPolicyAllows ==
  /\ dialled = {answer[i] : i \in {k \in 1 .. pos - 1 : PolicyAllows(answer[k])}}
  /\ result \in Addrs => result \in dialled /\ result = answer[pos - 1]
  /\ phase = "done" /\ result = "403" /\ answer # <<>> => pos = Len(answer) + 1

(* A private address is dialled only when a rule of the user's, ahead of    *)
(* the default denials, allows it.                                          *)
PrivateNeedsUserRule ==
  \A a \in dialled : \A n \in DOMAIN PrivateNets : a \in PrivateNets[n] =>
    \E i \in 1 .. Len(rules) - Len(DefaultRules) :
      rules[i].allow /\ Matches(rules[i], a, host)

RefusedByName == /\ phase = "done" /\ result = "403" /\ answer = <<>>
                 /\ ~upstream /\ PortIsAllowed(port)

(* The pass over hostname rules refuses only what the policy denies whatever *)
(* the address, as long as hostname rules come before address rules.        *)
NamesFirst == \A i, j \in DOMAIN rules :
                rules[i].kind = "domain" /\ rules[j].kind # "domain" => i < j
NamePassAgrees ==
  NamesFirst /\ RefusedByName => \A a \in Addrs : ~PolicyAllows(a)
=============================================================================
