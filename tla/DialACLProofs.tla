---------------------------- MODULE DialACLProofs ----------------------------
(* Proofs about DialACL for all rules, hosts, addresses and ports.          *)
EXTENDS DialACL, SequenceTheorems, TLAPS

-----------------------------------------------------------------------------
(* The rule list: the user's rules, then the defaults.                     *)

RulesShape == \E u \in UserRules : rules = u \o DefaultRules

\* The defaults are one denial per private block and an allowance.
LEMMA DefaultShape ==
  /\ Len(PrivateNets) \in Nat
  /\ DOMAIN PrivateNets = 1 .. Len(PrivateNets)
  /\ DOMAIN DefaultRules = 1 .. Len(PrivateNets) + 1
  /\ Len(DefaultRules) = Len(PrivateNets) + 1
  /\ \A n \in DOMAIN PrivateNets : DefaultRules[n] = IPRule(PrivateNets[n], FALSE)
  /\ DefaultRules[Len(PrivateNets) + 1] = AllRule(TRUE)
<1> DEFINE R == {IPRule(PrivateNets[n], FALSE) : n \in DOMAIN PrivateNets} \cup {AllRule(TRUE)}
           L == Len(PrivateNets)
           last == <<AllRule(TRUE)>>
<1>1. L \in Nat /\ DOMAIN PrivateNets = 1 .. L
  BY RulesAssumption, LenProperties
<1>2. Denials = [n \in 1 .. L |-> IPRule(PrivateNets[n], FALSE)]
  BY <1>1 DEF Denials
<1>3. Denials \in Seq(R) /\ Len(Denials) = L
  <2>1. Denials \in [1 .. L -> R]
    BY <1>1, <1>2
  <2> HIDE DEF R, L
  <2> QED
    BY <1>1, <2>1
<1>4. last \in Seq(R) /\ Len(last) = 1 /\ last[1] = AllRule(TRUE)
  <2>1. AllRule(TRUE) \in R
    OBVIOUS
  <2>2. ASSUME NEW S, NEW x \in S PROVE <<x>> \in Seq(S) /\ Len(<<x>>) = 1 /\ <<x>>[1] = x
    OBVIOUS
  <2> HIDE DEF R
  <2> QED
    BY <2>1, <2>2
<1>5. /\ DefaultRules \in Seq(R)
      /\ Len(DefaultRules) = L + 1
      /\ \A i \in 1 .. L + 1 : DefaultRules[i] = IF i <= L THEN Denials[i] ELSE last[i - L]
  <2> HIDE DEF R, last, L
  <2> QED
    BY <1>3, <1>4, ConcatProperties DEF DefaultRules, last
<1>6. DOMAIN DefaultRules = 1 .. L + 1
  BY <1>5, LenProperties
<1>7. ASSUME NEW n \in 1 .. L PROVE DefaultRules[n] = IPRule(PrivateNets[n], FALSE)
  <2> HIDE DEF R, last, L
  <2>1. DefaultRules[n] = Denials[n]
    BY <1>1, <1>5
  <2> QED
    BY <1>2, <2>1
<1>8. DefaultRules[L + 1] = AllRule(TRUE)
  <2> HIDE DEF R, last, L
  <2>1. L + 1 \in 1 .. L + 1 /\ ~(L + 1 <= L) /\ (L + 1) - L = 1
    BY <1>1
  <2>2. DefaultRules[L + 1] = last[1]
    BY <1>5, <2>1
  <2> QED
    BY <1>4, <2>2
<1> QED
  BY <1>1, <1>5, <1>6, <1>7, <1>8

\* A list of that shape is a sequence whose tail is the defaults.
LEMMA RuleList ==
  ASSUME NEW u \in UserRules, rules = u \o DefaultRules
  PROVE  /\ Len(u) \in Nat
         /\ Len(rules) = Len(u) + Len(DefaultRules) /\ DOMAIN rules = 1 .. Len(rules)
         /\ \A n \in 1 .. Len(DefaultRules) : rules[Len(u) + n] = DefaultRules[n]
<1> DEFINE U == {u[i] : i \in DOMAIN u}
           D == {DefaultRules[i] : i \in DOMAIN DefaultRules}
<1>1. u \in Seq(U) /\ Len(u) \in Nat
  BY RulesAssumption, LenProperties
<1>2. DefaultRules \in Seq(D)
  <2>1. DefaultRules \in [1 .. Len(DefaultRules) -> D] /\ Len(DefaultRules) \in Nat
    <3>1. DefaultRules = [i \in DOMAIN DefaultRules |-> DefaultRules[i]]
      BY DEF DefaultRules
    <3> QED
      BY <3>1, DefaultShape
  <2> HIDE DEF D
  <2> QED
    BY <2>1
<1>3. u \in Seq(U \cup D) /\ DefaultRules \in Seq(U \cup D)
  <2>1. u \in [1 .. Len(u) -> U] /\ DefaultRules \in [1 .. Len(DefaultRules) -> D]
        /\ Len(DefaultRules) \in Nat
    BY <1>1, <1>2, LenProperties
  <2> HIDE DEF U, D
  <2>2. u \in [1 .. Len(u) -> U \cup D] /\ DefaultRules \in [1 .. Len(DefaultRules) -> U \cup D]
    BY <2>1
  <2> QED
    BY <1>1, <2>1, <2>2
<1> HIDE DEF U, D
<1>4. /\ rules \in Seq(U \cup D)
      /\ Len(rules) = Len(u) + Len(DefaultRules)
      /\ \A i \in 1 .. Len(u) + Len(DefaultRules) :
           rules[i] = IF i <= Len(u) THEN u[i] ELSE DefaultRules[i - Len(u)]
  BY <1>3, ConcatProperties
<1>5. DOMAIN rules = 1 .. Len(rules)
  BY <1>4, LenProperties
<1> QED
  BY <1>1, <1>4, <1>5, DefaultShape

\* The scan of hostIsAllowed says yes to what the policy allows.
LEMMA ScanIsPolicy ==
  ASSUME RulesShape, NEW a
  PROVE  HostIsAllowed(rules, host, a) <=> PolicyAllows(a)
<1>1. Len(rules) \in Nat /\ DOMAIN rules = 1 .. Len(rules)
  BY RuleList, DefaultShape DEF RulesShape
<1> QED
  BY <1>1 DEF HostIsAllowed, AllowedBy, FirstMatch, PolicyAllows

-----------------------------------------------------------------------------
(* The inductive invariant.                                                *)

Refused == phase = "done" /\ result = "403" /\ answer = <<>>

\* The admissible ones among the addresses considered so far.
Tried == {answer[i] : i \in {k \in 1 .. pos - 1 : PolicyAllows(answer[k])}}

DialInv ==
  /\ TypeOK
  /\ RulesShape
  /\ phase \in {"start", "names", "lookup"} => answer = <<>> /\ pos = 1 /\ dialled = {}
  /\ phase # "done" => result = "pending"
  /\ phase = "dial" => answer # <<>>
  /\ dialled = Tried
  /\ result \in Addrs => pos > 1 /\ result = answer[pos - 1] /\ result \in dialled
  /\ phase = "done" /\ result = "403" /\ answer # <<>> => pos = Len(answer) + 1
  /\ phase # "start" /\ ~upstream /\ PortIsAllowed(port) /\ Refused
       => DeniedByName(rules, host)

LEMMA InitDial == Init => DialInv
  BY AddrAssumption DEF Init, DialInv, TypeOK, RulesShape, Refused, Outcomes, Tried

LEMMA NextDial == DialInv /\ [Next]_vars => DialInv'
<1> SUFFICES ASSUME DialInv, [Next]_vars PROVE DialInv'
  OBVIOUS
<1> USE DEF DialInv, TypeOK, RulesShape, Outcomes, Return, Enter, config, Refused
<1>p. ASSUME UNCHANGED config PROVE \A a : PolicyAllows(a)' <=> PolicyAllows(a)
  BY <1>p DEF PolicyAllows
<1>q. ASSUME UNCHANGED <<config, answer, pos>> PROVE Tried' = Tried
  BY <1>p, <1>q DEF Tried
<1>e. ASSUME pos = 1 PROVE Tried = {}
  BY <1>e DEF Tried
<1>1. ASSUME RejectRequest PROVE DialInv'
  BY <1>1, <1>q, AddrAssumption DEF RejectRequest
<1>2. ASSUME DialUpstream PROVE DialInv'
  BY <1>2, <1>q, AddrAssumption DEF DialUpstream
<1>3. ASSUME CheckPort PROVE DialInv'
  BY <1>3, <1>q, AddrAssumption DEF CheckPort
<1>4. ASSUME CheckNames PROVE DialInv'
  BY <1>4, <1>q, AddrAssumption DEF CheckNames
<1>s. ASSUME pos \in Nat \ {0}, answer' = answer, pos' = pos + 1, UNCHANGED config
      PROVE  /\ PolicyAllows(answer[pos]) => Tried' = Tried \cup {answer[pos]}
             /\ ~PolicyAllows(answer[pos]) => Tried' = Tried
  <2>1. 1 .. pos' - 1 = (1 .. pos - 1) \cup {pos}
    BY <1>s
  <2>2. Tried' = {answer[i] : i \in {k \in (1 .. pos - 1) \cup {pos} : PolicyAllows(answer[k])}}
    BY <1>s, <1>p, <2>1 DEF Tried
  <2> QED
    BY <2>2 DEF Tried
<1>t. /\ answer \in Seq(Addrs) /\ Len(answer) \in Nat /\ pos \in Nat \ {0}
      /\ \A i \in 1 .. Len(answer) : answer[i] \in Addrs
  BY LenProperties, ElementOfSeq
<1>5. ASSUME Lookup PROVE DialInv'
  <2>1. ASSUME LiteralOf[host] = NoAddr, Return("502"), answer' = answer PROVE DialInv'
    BY <1>5, <1>q, <2>1, AddrAssumption DEF Lookup
  <2>2. ASSUME answer' \in Resolutions(host), Enter("dial") PROVE DialInv'
    <3>1. answer' \in Seq(Addrs) /\ Len(answer') >= 1
      <4>1. CASE LiteralOf[host] = NoAddr
        <5>1. PICK n \in 1 .. MaxAnswer : answer' \in [1 .. n -> Addrs]
          BY <2>2, <4>1 DEF Resolutions, Answers
        <5> QED
          BY <5>1, BoundAssumption
      <4>2. CASE LiteralOf[host] # NoAddr
        <5>1. LiteralOf[host] \in Addrs
          BY <4>2, AddrAssumption
        <5>2. answer' = <<LiteralOf[host]>>
          BY <2>2, <4>2 DEF Resolutions
        <5> QED
          BY <5>1, <5>2
      <4> QED
        BY <4>1, <4>2
    <3>2. Tried' = {}
      BY <1>5 DEF Lookup, Tried
    <3>3. answer' # <<>> /\ Len(answer') \in Nat
      BY <3>1, LenProperties
    <3>4. pos = 1 /\ dialled = {} /\ UNCHANGED <<config, pos, dialled>>
          /\ phase' = "dial" /\ result' = "pending"
      BY <1>5, <2>2 DEF Lookup
    <3>5. "pending" \notin Addrs /\ 1 \in 1 .. Len(answer') + 1
      BY <3>3, AddrAssumption
    <3> QED
      BY <3>1, <3>2, <3>3, <3>4, <3>5
  <2>3. \/ LiteralOf[host] = NoAddr /\ Return("502") /\ answer' = answer
        \/ answer' \in Resolutions(host) /\ Enter("dial")
    BY <1>5 DEF Lookup
  <2> HIDE DEF DialInv, Return, Enter
  <2> QED
    BY <2>1, <2>2, <2>3
<1>6. ASSUME SkipAddr PROVE DialInv'
  <2>1. Tried' = Tried
    BY <1>6, <1>s, <1>t, ScanIsPolicy DEF SkipAddr
  <2> QED
    <3>1. /\ phase = "dial" /\ pos <= Len(answer) /\ pos' = pos + 1
          /\ UNCHANGED <<config, phase, answer, dialled, result>>
      BY <1>6 DEF SkipAddr
    <3>2. pos' \in 1 .. Len(answer) + 1
      BY <1>t, <3>1
    <3>3. result \notin Addrs
      BY <3>1, AddrAssumption
    <3> QED
      BY <2>1, <3>1, <3>2, <3>3
<1>7. ASSUME DialAddr PROVE DialInv'
  <2>1. Tried' = Tried \cup {answer[pos]}
    BY <1>7, <1>s, <1>t, ScanIsPolicy DEF DialAddr
  <2>2. answer[pos] \in Addrs /\ answer[pos] \notin Outcomes
    BY <1>7, <1>t, AddrAssumption DEF DialAddr
  <2>3. /\ dialled' = dialled \cup {answer[pos]} /\ answer' = answer /\ pos' = pos + 1
        /\ pos <= Len(answer) /\ answer # <<>> /\ phase = "dial" /\ UNCHANGED config
    BY <1>7 DEF DialAddr
  <2>4. pos' \in 1 .. Len(answer) + 1 /\ pos' > 1 /\ pos' - 1 = pos
    BY <1>t, <2>3
  <2>5. ASSUME phase' = "done", result' = answer[pos] PROVE DialInv'
    BY <2>1, <2>2, <2>3, <2>4, <2>5
  <2>6. ASSUME UNCHANGED <<phase, result>> PROVE DialInv'
    BY <2>1, <2>2, <2>3, <2>4, <2>6, AddrAssumption
  <2> QED
    BY <1>7, <2>5, <2>6 DEF DialAddr
<1>8. ASSUME GiveUp PROVE DialInv'
  <2>1. /\ phase' = "done" /\ result' = "403" /\ Tried' = Tried
        /\ UNCHANGED <<config, answer, pos, dialled>>
    BY <1>8, <1>q DEF GiveUp
  <2>2. pos = Len(answer) + 1 /\ answer # <<>>
    BY <1>8, <1>t DEF GiveUp
  <2>3. "403" \notin Addrs
    BY AddrAssumption
  <2> QED
    BY <2>1, <2>2, <2>3
<1>9. CASE UNCHANGED vars
  BY <1>9, <1>q DEF vars
<1> QED
  BY <1>1, <1>2, <1>3, <1>4, <1>5, <1>6, <1>7, <1>8, <1>9 DEF Next

LEMMA DialInvariant == Spec => []DialInv
  BY InitDial, NextDial, PTL DEF Spec

(* Every variable keeps its type: the answer of the resolver is never left  *)
(* and only its addresses are dialled.                                      *)
THEOREM DialTypeCorrect == Spec => []TypeOK
<1>1. DialInv => TypeOK
  BY DEF DialInv
<1> QED
  BY <1>1, DialInvariant, PTL

(* Whatever the rules, the resolver and the network do, the addresses       *)
(* dialled are those the documented order allows, and a refusal comes only  *)
(* after each of them was tried.                                            *)
THEOREM DialCorrect == Spec => []DialsWhatPolicyAllows
<1>1. DialInv => DialsWhatPolicyAllows
  BY DEF DialInv, DialsWhatPolicyAllows, Tried
<1> QED
  BY <1>1, DialInvariant, PTL

(* No private address is dialled but on the strength of a user's rule.      *)
THEOREM PrivateCorrect == Spec => []PrivateNeedsUserRule
<1>1. DialInv => PrivateNeedsUserRule
  <2> SUFFICES ASSUME DialInv, NEW a \in dialled, NEW n \in DOMAIN PrivateNets,
                      a \in PrivateNets[n]
               PROVE  \E i \in 1 .. Len(rules) - Len(DefaultRules) :
                        rules[i].allow /\ Matches(rules[i], a, host)
    BY DEF PrivateNeedsUserRule
  <2>1. PolicyAllows(a)
    BY DEF DialInv, Tried
  <2>2. PICK u \in UserRules : rules = u \o DefaultRules
    BY DEF DialInv, RulesShape
  <2> DEFINE L == Len(PrivateNets)
             m == Len(u)
  <2>3. /\ m \in Nat /\ L \in Nat /\ n \in 1 .. L
        /\ Len(DefaultRules) = L + 1 /\ Len(rules) = m + (L + 1)
        /\ DOMAIN rules = 1 .. m + (L + 1)
        /\ rules[m + n] = IPRule(PrivateNets[n], FALSE)
        /\ \A k \in 1 .. L : rules[m + k] = IPRule(PrivateNets[k], FALSE)
    <3>1. m \in Nat /\ L \in Nat /\ n \in 1 .. L /\ Len(DefaultRules) = L + 1
      BY <2>2, RuleList, DefaultShape
    <3>2. Len(rules) = m + (L + 1) /\ DOMAIN rules = 1 .. m + (L + 1)
      BY <2>2, <3>1, RuleList
    <3>3. ASSUME NEW k \in 1 .. L PROVE rules[m + k] = IPRule(PrivateNets[k], FALSE)
      <4>1. k \in 1 .. Len(DefaultRules) /\ k \in DOMAIN PrivateNets
        BY <3>1, DefaultShape
      <4>2. rules[m + k] = DefaultRules[k]
        BY <2>2, <4>1, RuleList
      <4> QED
        BY <4>1, <4>2, DefaultShape
    <3> QED
      BY <3>1, <3>2, <3>3
  <2>4. PICK i \in DOMAIN rules : /\ rules[i].allow /\ Matches(rules[i], a, host)
                                  /\ \A j \in 1 .. i - 1 : ~Matches(rules[j], a, host)
    BY <2>1 DEF PolicyAllows
  <2>5. Matches(rules[m + n], a, host)
    BY <2>3 DEF Matches, IPRule
  <2>6. ~(i > m + n)
    <3>1. i \in 1 .. m + (L + 1) /\ n \in 1 .. L /\ m \in Nat /\ L \in Nat
      BY <2>3
    <3>2. i > m + n => m + n \in 1 .. i - 1
      <4> HIDE DEF m, L
      <4> QED
        BY <3>1
    <3> QED
      BY <2>4, <2>5, <3>2
  <2>7. ~(i > m)
    <3> SUFFICES ASSUME i > m PROVE FALSE
      OBVIOUS
    <3>1. i - m \in 1 .. L /\ m + (i - m) = i
      BY <2>3, <2>6
    <3>2. rules[i] = IPRule(PrivateNets[i - m], FALSE)
      BY <2>3, <3>1
    <3> QED
      BY <2>4, <3>2 DEF IPRule
  <2>8. i \in 1 .. Len(rules) - Len(DefaultRules)
    BY <2>3, <2>7
  <2> QED
    BY <2>4, <2>8
<1> QED
  BY <1>1, DialInvariant, PTL

(* With hostname rules ahead of address rules the pass before the lookup    *)
(* refuses nothing the documented order would allow.                        *)
THEOREM NamePassCorrect == Spec => []NamePassAgrees
<1>1. DialInv => NamePassAgrees
  <2> SUFFICES ASSUME DialInv, NamesFirst, RefusedByName, NEW a \in Addrs
               PROVE  ~PolicyAllows(a)
    BY DEF NamePassAgrees
  <2>1. DOMAIN rules = 1 .. Len(rules) /\ Len(rules) \in Nat
    BY RuleList, DefaultShape DEF DialInv, RulesShape
  <2>2. DeniedByName(rules, host)
    BY DEF DialInv, RefusedByName, Refused
  <2>3. PICK i \in NameRules(rules) :
          /\ Matches(rules[i], NoAddr, host) /\ ~rules[i].allow
          /\ \A j \in NameRules(rules) : j < i => ~Matches(rules[j], NoAddr, host)
    BY <2>2 DEF DeniedByName, DeniedBy, FirstMatch
  <2>4. ASSUME NEW j \in NameRules(rules)
        PROVE  Matches(rules[j], a, host) <=> Matches(rules[j], NoAddr, host)
    BY DEF Matches, NameRules
  <2>5. \A j \in DOMAIN rules : j < i => j \in NameRules(rules)
    BY <2>1 DEF NamesFirst, NameRules
  <2>6. i \in DOMAIN rules
    BY DEF NameRules
  <2> QED
    <3>1. Matches(rules[i], a, host)
      BY <2>3, <2>4
    <3>2. ASSUME NEW j \in DOMAIN rules, j < i PROVE ~Matches(rules[j], a, host)
      BY <2>3, <2>4, <2>5, <3>2
    <3>3. ASSUME NEW k \in DOMAIN rules, rules[k].allow, Matches(rules[k], a, host),
                 \A j \in 1 .. k - 1 : ~Matches(rules[j], a, host)
          PROVE  FALSE
      <4>1. ~(k < i)
        BY <3>2, <3>3
      <4>2. ~(i < k)
        BY <2>1, <2>6, <3>1, <3>3
      <4>3. k = i
        BY <2>1, <2>6, <4>1, <4>2
      <4> QED
        BY <2>3, <3>3, <4>3
    <3> QED
      BY <3>3 DEF PolicyAllows
<1> QED
  BY <1>1, DialInvariant, PTL
=============================================================================
