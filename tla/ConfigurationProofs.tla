------------------------ MODULE ConfigurationProofs ------------------------
(* Sizes and configurations, proved for every width of an integer, every     *)
(* unit, every name and every bound.                                         *)
EXTENDS Configuration, TLAPS

-----------------------------------------------------------------------------
(* Sizes.                                                                   *)

LEMMA DivBounds ==
  ASSUME NEW p \in Int, NEW f \in Nat \ {0}
  PROVE  /\ p \div f \in Int
         /\ (p \div f) * f <= p /\ p < (p \div f + 1) * f
  OBVIOUS

LEMMA TimesMonotone ==
  ASSUME NEW a \in Nat, NEW b \in Nat, NEW c \in Nat, a <= b
  PROVE  a * c <= b * c /\ c * a <= c * b
  OBVIOUS

LEMMA DivBelow ==
  ASSUME NEW p \in Nat, NEW f \in Nat \ {0}, NEW b \in Nat, p < b * f
  PROVE  p \div f \in Nat /\ p \div f < b
  OBVIOUS

(* What parseByteSize accepts is the size written, to the byte, on either   *)
(* kind of build: no product of a number and a unit wraps unnoticed.        *)
THEOREM SizesFaithful == \A t \in Texts, sat \in BOOLEAN : Faithful(t, sat)
<1> SUFFICES ASSUME NEW t \in Texts, NEW sat \in BOOLEAN, Accepted(t, sat)
             PROVE  \/ /\ t.kind = "finite" /\ Bytes(t, sat) * Frac <= Exact(t)
                       /\ Exact(t) < (Bytes(t, sat) + 1) * Frac
                    \/ t.kind = "finite" /\ Bytes(t, sat) = MaxInt /\ MaxInt * Frac < Exact(t)
                    \/ t.kind = "inf" /\ Bytes(t, sat) = MaxInt
                    \/ t.kind = "nan" /\ Bytes(t, sat) <= 0
  BY DEF Faithful
<1>a. Frac \in Nat \ {0} /\ MaxInt \in Nat \ {0} /\ Multiplier \in [Units -> 1 .. MaxInt]
  BY SizeAssumption
<1>t. t.kind \in {"finite", "inf", "nan"} /\ t.num \in Int /\ t.unit \in Units \cup {Bare}
  BY DEF Texts
<1>1. CASE t.unit = Bare
  BY <1>1, <1>a, <1>t, DivBounds DEF Accepted, IsInt64, Bytes, Exact
<1>2. CASE t.unit # Bare
  <2> DEFINE m == Multiplier[t.unit]
  <2>1. m \in 1 .. MaxInt
    BY <1>2, <1>a, <1>t
  <2>2. Bytes(t, sat) = Converted(t, sat) /\ Exact(t) = t.num * m
    BY <1>2 DEF Bytes, Exact, Product
  <2>3. ~Negative(t) /\ ~(AtLeastOne(t) /\ Converted(t, sat) < m)
    BY <1>2 DEF Accepted, Overflows
  <2>4. CASE t.kind = "nan"
    BY <2>2, <2>4, <1>a DEF Converted
  <2>5. CASE t.kind = "inf"
    BY <2>1, <2>2, <2>3, <2>5, <1>a, <1>t DEF Converted, Negative, AtLeastOne
  <2>6. CASE t.kind = "finite"
    <3> DEFINE p == t.num * m
    <3>1. p \in Int /\ t.num >= 0
      BY <2>1, <2>3, <2>6, <1>t, <1>a DEF Negative
    <3>2. CASE p < (MaxInt + 1) * Frac
      <4>1. Bytes(t, sat) = p \div Frac
        BY <2>2, <2>6, <3>2 DEF Converted, Product
      <4> QED
        BY <4>1, <2>2, <2>6, <3>1, <1>a, DivBounds
    <3>3. CASE p >= (MaxInt + 1) * Frac
      <4>1. t.num >= Frac
        <5> SUFFICES ASSUME t.num < Frac PROVE FALSE
          BY <1>t, <1>a
        <5>1. t.num * m <= Frac * m
          BY <2>1, <3>1, <1>t, <1>a, TimesMonotone
        <5>2. Frac * m <= Frac * MaxInt
          BY <2>1, <1>a, TimesMonotone
        <5>3. Frac * MaxInt < (MaxInt + 1) * Frac
          BY <1>a
        <5>4. Frac * m \in Int /\ Frac * MaxInt \in Int /\ (MaxInt + 1) * Frac \in Int
          BY <2>1, <1>a
        <5> QED
          BY <5>1, <5>2, <5>3, <5>4, <3>1, <3>3
      <4>2. Converted(t, sat) >= m
        BY <4>1, <2>1, <2>3, <2>6, <3>3, <1>a, <1>t DEF AtLeastOne, Converted, Product
      <4>3. Converted(t, sat) = MaxInt
        BY <4>2, <2>1, <2>6, <3>1, <3>3, <1>a DEF Converted, Product
      <4>4. MaxInt * Frac < (MaxInt + 1) * Frac
        BY <1>a
      <4> QED
        BY <4>3, <4>4, <2>2, <2>6, <3>1, <3>3, <1>a
    <3> QED
      BY <3>1, <3>2, <3>3, <1>a
  <2> QED
    BY <2>4, <2>5, <2>6, <1>t
<1> QED
  BY <1>1, <1>2

-----------------------------------------------------------------------------
(* Loads.  What is known of a handler grows on its way: its reset day and    *)
(* its users when it is read, its safety when it is provisioned.             *)

FromBlock(h) == h.basic_auth # {} /\ h.traffic_reset_day \in 0 .. 28
Given(h)     == h \in JSONHandlers \/ FromBlock(h)

Safe(h) == /\ h.probe_resistance # Unset => h.basic_auth # Unset
           /\ h.basic_auth # {} \/ \E j \in JSONHandlers : h = Provisioned(j)
           /\ h.upstream # Unset => h.disable_insecure_upstreams_check \/ Secure(h.upstream)
           /\ h.dial_timeout > 0

LoadInv ==
  /\ FromBlock(block) /\ \A i \in DOMAIN config : Given(config[i])
  /\ \A i \in DOMAIN ready : Safe(ready[i])
  /\ \A i \in DOMAIN running : Safe(running[i])

WriterInv ==
  /\ ready # <<>> \/ running # <<>> => first # <<>>
  /\ first = <<>> => writer = NoWriter
  /\ first # <<>> => /\ writer # NoWriter /\ writer = Settings(first[1])
                     /\ Given(first[1])

Inv == TypeOK /\ LoadInv /\ WriterInv

LEMMA FreshFine == Fresh \in Handlers /\ FromBlock(Fresh)
<1>1. Unset # {}
  BY NamesAssumption
<1> QED
  BY <1>1 DEF Fresh, Handlers, FromBlock, Or

LEMMA SettingsStart == \A h : Settings(h) # NoWriter
<1> SUFFICES ASSUME NEW h PROVE Settings(h).interval # NoWriter.interval
  OBVIOUS
<1> QED
  BY DEF Settings, NoWriter

LEMMA SettingsType == \A h \in Handlers : Settings(h) \in Writers
<1> SUFFICES ASSUME NEW h \in Handlers PROVE Settings(h) \in Writers
  OBVIOUS
<1>1. /\ h.traffic_stats_path \in Paths \cup {Unset} /\ h.traffic_archive_dir \in Dirs \cup {Unset}
      /\ h.traffic_stats_interval \in Int /\ h.traffic_reset_day \in Int
  BY DEF Handlers, Or
<1>2. DefaultPath \in Paths /\ DirOf \in [Paths -> Dirs]
  BY NamesAssumption
<1> DEFINE path == IF h.traffic_stats_path = Unset THEN DefaultPath ELSE h.traffic_stats_path
<1>3. path \in Paths /\ DirOf[path] \in Dirs
  BY <1>1, <1>2
<1> QED
  BY <1>1, <1>3 DEF Settings, Writers

LEMMA InitInv == Init => Inv
<1> SUFFICES ASSUME Init PROVE Inv
  OBVIOUS
<1>1. MaxLines \in Nat /\ MaxLoads \in Nat
  BY NamesAssumption
<1> QED
  BY <1>1, FreshFine DEF Init, Inv, TypeOK, LoadInv, WriterInv

LEMMA RefuseInv ==
  ASSUME Inv, Refuse, UNCHANGED <<writer, first>>,
         lines' \in 0 .. MaxLines, loads' \in 0 .. MaxLoads
  PROVE  Inv'
  BY FreshFine DEF Inv, Refuse, TypeOK, LoadInv, WriterInv, FromBlock

\* A line that is right keeps the invariant when the handler it makes is one.
LEMMA LineInv ==
  ASSUME NEW d, NEW arg, NEW right, NEW value, Inv, Line(d, arg, right, value),
         right => /\ [block EXCEPT ![d] = value] \in Handlers
                  /\ FromBlock([block EXCEPT ![d] = value])
  PROVE  Inv'
<1>1. lines' \in 0 .. MaxLines /\ loads' \in 0 .. MaxLoads /\ UNCHANGED <<writer, first>>
  BY NamesAssumption DEF Line, Inv, TypeOK
<1>2. CASE right /\ block' = [block EXCEPT ![d] = value] /\ UNCHANGED <<phase, config, ready, running>>
  BY <1>1, <1>2 DEF Inv, TypeOK, LoadInv, WriterInv
<1>3. CASE Refuse
  BY <1>1, <1>3, RefuseInv
<1> QED
  BY <1>2, <1>3 DEF Line

\* A quota that is accepted is an integer.
LEMMA QuotaInt == \A t \in Texts, sat \in BOOLEAN : Accepted(t, sat) => Bytes(t, sat) \in Int
<1> SUFFICES ASSUME NEW t \in Texts, NEW sat \in BOOLEAN PROVE Bytes(t, sat) \in Int
  OBVIOUS
<1>1. t.num \in Int /\ (t.unit # Bare => Product(t) \in Int)
  BY SizeAssumption DEF Texts, Product
<1> QED
  BY <1>1, SizeAssumption, DivBounds DEF Bytes, Converted

LEMMA ReadLineInv == Inv /\ ReadLine => Inv'
<1> SUFFICES ASSUME Inv, ReadLine PROVE Inv'
  OBVIOUS
<1>b. block \in Handlers /\ FromBlock(block)
  BY DEF Inv, TypeOK, LoadInv
<1>1. ASSUME NEW u \in Users, BasicAuth(u) PROVE Inv'
  <2> DEFINE b == [block EXCEPT !["basic_auth"] = UsersOf(block) \cup {u}]
  <2>1. b \in Handlers /\ FromBlock(b)
    <3>1. UsersOf(block) \cup {u} \in SUBSET Users /\ UsersOf(block) \cup {u} # {}
      BY <1>b DEF Handlers, Or, UsersOf
    <3>2. ASSUME NEW us \in SUBSET Users, us # {}
          PROVE  /\ [block EXCEPT !["basic_auth"] = us] \in Handlers
                 /\ FromBlock([block EXCEPT !["basic_auth"] = us])
      <4>1. us \in Or(SUBSET Users)
        BY DEF Or
      <4>2. [block EXCEPT !["basic_auth"] = us] \in Handlers
        BY <1>b, <4>1 DEF Handlers
      <4>3. /\ [block EXCEPT !["basic_auth"] = us].basic_auth = us
            /\ [block EXCEPT !["basic_auth"] = us].traffic_reset_day = block.traffic_reset_day
        BY <1>b DEF Handlers
      <4> QED
        BY ONLY <1>b, <3>2, <4>2, <4>3, Zenon DEF FromBlock
    <3> QED
      BY ONLY <3>1, <3>2, Zenon
  <2>2. Line("basic_auth", u, TRUE, UsersOf(block) \cup {u})
    BY <1>1 DEF BasicAuth
  <2> QED
    BY <2>1, <2>2, LineInv
<1>2. ASSUME NEW h \in Hosts, HostsLine(h) PROVE Inv'
  <2> DEFINE b == [block EXCEPT !["hosts"] = h]
  <2>1. block.hosts = Unset => b \in Handlers /\ FromBlock(b)
    BY <1>b DEF Handlers, FromBlock, Or
  <2>2. Line("hosts", h, block.hosts = Unset, h)
    BY <1>2 DEF HostsLine
  <2> QED
    BY <2>1, <2>2, LineInv
<1>3. ASSUME NEW ps \in PortArgs, PortsLine(ps) PROVE Inv'
  <2> DEFINE b == [block EXCEPT !["ports"] = ps]
  <2>1. PortsFit(ps) => b \in Handlers /\ FromBlock(b)
    BY <1>b, NamesAssumption DEF Handlers, FromBlock, Or
  <2>2. Line("ports", ps, PortsFit(ps), ps)
    BY <1>3 DEF PortsLine
  <2> QED
    BY <2>1, <2>2, LineInv
<1>4. ASSUME NEW f \in Flags, Flag(f) PROVE Inv'
  <2>1. /\ [block EXCEPT ![f] = TRUE] \in Handlers
        /\ FromBlock([block EXCEPT ![f] = TRUE])
    <3>1. CASE f = "hide_ip"
      BY <1>b, <3>1 DEF Handlers, FromBlock
    <3>2. CASE f = "hide_via"
      BY <1>b, <3>2 DEF Handlers, FromBlock
    <3>3. CASE f = "disable_insecure_upstreams_check"
      BY <1>b, <3>3 DEF Handlers, FromBlock
    <3> QED
      BY <3>1, <3>2, <3>3 DEF Flags
  <2>2. Line(f, TRUE, TRUE, TRUE)
    BY <1>4 DEF Flag
  <2> QED
    BY <2>1, <2>2, LineInv
<1>5. ASSUME NEW d \in Domains \cup {NoDomain}, Probe(d) PROVE Inv'
  <2> DEFINE b == [block EXCEPT !["probe_resistance"] = d]
  <2>1. b \in Handlers /\ FromBlock(b)
    <3>1. b \in Handlers
      BY <1>b DEF Handlers, Or
    <3>2. b.traffic_reset_day = block.traffic_reset_day /\ b.basic_auth = block.basic_auth
      BY <1>b DEF Handlers
    <3> QED
      BY ONLY <1>b, <3>1, <3>2, Zenon DEF FromBlock
  <2>2. Line("probe_resistance", d, TRUE, d)
    BY <1>5 DEF Probe
  <2> QED
    BY <2>1, <2>2, LineInv
<1>6. ASSUME NEW p \in Paths \cup {PACDefault}, ServePAC(p) PROVE Inv'
  <2> DEFINE b == [block EXCEPT !["serve_pac"] = p]
  <2>1. block.serve_pac = Unset => b \in Handlers /\ FromBlock(b)
    BY <1>b DEF Handlers, FromBlock, Or
  <2>2. Line("serve_pac", p, block.serve_pac = Unset, p)
    BY <1>6 DEF ServePAC
  <2> QED
    BY <2>1, <2>2, LineInv
<1>7. ASSUME NEW n \in Numbers, DialTimeout(n) PROVE Inv'
  <2> DEFINE b == [block EXCEPT !["dial_timeout"] = n]
  <2>1. n >= 0 => b \in Handlers /\ FromBlock(b)
    BY <1>b, NamesAssumption DEF Handlers, FromBlock, Or
  <2>2. Line("dial_timeout", n, n >= 0, n)
    BY <1>7 DEF DialTimeout
  <2> QED
    BY <2>1, <2>2, LineInv
<1>8. ASSUME NEW n \in Numbers, StatsInterval(n) PROVE Inv'
  <2> DEFINE b == [block EXCEPT !["traffic_stats_interval"] = n]
  <2>1. b \in Handlers /\ FromBlock(b)
    <3>1. b \in Handlers
      BY <1>b, NamesAssumption DEF Handlers, Or
    <3>2. b.traffic_reset_day = block.traffic_reset_day /\ b.basic_auth = block.basic_auth
      BY <1>b DEF Handlers
    <3> QED
      BY ONLY <1>b, <3>1, <3>2, Zenon DEF FromBlock
  <2>2. Line("traffic_stats_interval", n, TRUE, n)
    BY <1>8 DEF StatsInterval
  <2> QED
    BY <2>1, <2>2, LineInv
<1>9. ASSUME NEW n \in Numbers, ResetDayLine(n) PROVE Inv'
  <2> DEFINE b == [block EXCEPT !["traffic_reset_day"] = n]
  <2>1. n \in 0 .. 28 => b \in Handlers /\ FromBlock(b)
    BY <1>b, NamesAssumption DEF Handlers, FromBlock, Or
  <2>2. Line("traffic_reset_day", n, n \in 0 .. 28, n)
    BY <1>9 DEF ResetDayLine
  <2> QED
    BY <2>1, <2>2, LineInv
<1>10. ASSUME NEW n \in Numbers, NEW d \in {"max_idle_conns", "max_idle_conns_per_host"},
              MaxIdle(d, n)
       PROVE  Inv'
  <2>1. /\ [block EXCEPT ![d] = n] \in Handlers
        /\ FromBlock([block EXCEPT ![d] = n])
    <3>1. CASE d = "max_idle_conns"
      BY <1>b, <3>1, NamesAssumption DEF Handlers, FromBlock
    <3>2. CASE d = "max_idle_conns_per_host"
      BY <1>b, <3>2, NamesAssumption DEF Handlers, FromBlock
    <3> QED
      BY <3>1, <3>2
  <2>2. Line(d, n, TRUE, n)
    BY <1>10 DEF MaxIdle
  <2> QED
    BY <2>1, <2>2, LineInv
<1>11. ASSUME NEW u \in Upstreams, UpstreamLine(u) PROVE Inv'
  <2> DEFINE b == [block EXCEPT !["upstream"] = u]
  <2>1. block.upstream = Unset => b \in Handlers /\ FromBlock(b)
    BY <1>b DEF Handlers, FromBlock, Or
  <2>2. Line("upstream", u, block.upstream = Unset, u)
    BY <1>11 DEF UpstreamLine
  <2> QED
    BY <2>1, <2>2, LineInv
<1>12. ASSUME NEW p \in Paths, StatsPath(p) PROVE Inv'
  <2> DEFINE b == [block EXCEPT !["traffic_stats_path"] = p]
  <2>1. b \in Handlers /\ FromBlock(b)
    <3>1. b \in Handlers
      BY <1>b DEF Handlers, Or
    <3>2. b.traffic_reset_day = block.traffic_reset_day /\ b.basic_auth = block.basic_auth
      BY <1>b DEF Handlers
    <3> QED
      BY ONLY <1>b, <3>1, <3>2, Zenon DEF FromBlock
  <2>2. Line("traffic_stats_path", p, TRUE, p)
    BY <1>12 DEF StatsPath
  <2> QED
    BY <2>1, <2>2, LineInv
<1>13. ASSUME NEW d \in Dirs, ArchiveDir(d) PROVE Inv'
  <2> DEFINE b == [block EXCEPT !["traffic_archive_dir"] = d]
  <2>1. b \in Handlers /\ FromBlock(b)
    <3>1. b \in Handlers
      BY <1>b DEF Handlers, Or
    <3>2. b.traffic_reset_day = block.traffic_reset_day /\ b.basic_auth = block.basic_auth
      BY <1>b DEF Handlers
    <3> QED
      BY ONLY <1>b, <3>1, <3>2, Zenon DEF FromBlock
  <2>2. Line("traffic_archive_dir", d, TRUE, d)
    BY <1>13 DEF ArchiveDir
  <2> QED
    BY <2>1, <2>2, LineInv
<1>14. ASSUME NEW u \in Users, NEW t \in QuotaTexts, QuotaLine(u, t) PROVE Inv'
  <2>1. ASSUME NEW q \in [Users -> Int]
        PROVE  /\ [block EXCEPT !["traffic_quota"] = q] \in Handlers
               /\ FromBlock([block EXCEPT !["traffic_quota"] = q])
    BY <1>b DEF Handlers, FromBlock
  <2>2. block.traffic_quota \in [Users -> Int]
    BY <1>b DEF Handlers
  <2>3. Accepted(t, Saturates) =>
          [block.traffic_quota EXCEPT ![u] = Bytes(t, Saturates)] \in [Users -> Int]
    BY <2>2, NamesAssumption, QuotaInt
  <2>4. ASSUME NEW q, Accepted(t, Saturates) => q \in [Users -> Int],
               Line("traffic_quota", [user |-> u, size |-> t], Accepted(t, Saturates), q)
        PROVE  Inv'
    BY <2>1, <2>4, LineInv
  <2> QED
    BY <1>14, <2>3, <2>4 DEF QuotaLine
<1>15. ASSUME NEW a \in BOOLEAN, NEW s \in Subjects, ACLLine([allow |-> a, subject |-> s])
       PROVE  Inv'
  <2> DEFINE rules == Seq([allow : BOOLEAN, subject : Subjects \cup {"private", "all"}])
  <2>1. ASSUME NEW r \in rules
        PROVE  /\ [block EXCEPT !["acl"] = r] \in Handlers
               /\ FromBlock([block EXCEPT !["acl"] = r])
    BY <1>b DEF Handlers, FromBlock
  <2>2. block.acl \in rules
    BY <1>b DEF Handlers
  <2>3. Append(block.acl, [allow |-> a, subject |-> s]) \in rules
    BY <2>2
  <2>4. ASSUME NEW r \in rules, Line("acl", [allow |-> a, subject |-> s], TRUE, r) PROVE Inv'
    BY <2>1, <2>4, LineInv
  <2> QED
    BY <1>15, <2>3, <2>4 DEF ACLLine
<1>16. ASSUME MalformedLine PROVE Inv'
  BY <1>16, LineInv DEF MalformedLine
<1> QED
  BY <1>1, <1>2, <1>3, <1>4, <1>5, <1>6, <1>7, <1>8, <1>9, <1>10, <1>11, <1>12, <1>13, <1>14, <1>15, <1>16 DEF ReadLine

LEMMA ProvisionInv == Inv /\ Provision => Inv'
<1> SUFFICES ASSUME Inv, Provision PROVE Inv'
  OBVIOUS
<1> DEFINE h == Head(config)
<1>1. /\ config \in Seq(Handlers) /\ config # <<>> /\ h \in Handlers /\ Given(h)
      /\ UNCHANGED <<lines, loads>>
  BY DEF Inv, TypeOK, LoadInv, Provision
<1>2. CASE Refuse /\ UNCHANGED <<writer, first>>
  BY <1>1, <1>2, RefuseInv DEF Inv, TypeOK
<1>3. ASSUME RulesOK(h), ProbeOK(h), UpstreamOK(h), ready' = Append(ready, Provisioned(h)),
             config' = Tail(config), writer' = WriterAfter(h),
             first' = IF first = <<>> THEN <<h>> ELSE first,
             UNCHANGED <<phase, block, text, running>>
      PROVE  Inv'
  <2>1. Provisioned(h) \in Handlers
    <3> DEFINE rules == Seq([allow : BOOLEAN, subject : Subjects \cup {"private", "all"}])
               t == IF h.dial_timeout > 0 THEN h.dial_timeout ELSE 30
               c == IF h.max_idle_conns = 0 THEN 50
                    ELSE IF h.max_idle_conns < 0 THEN 0 ELSE h.max_idle_conns
    <3>1. h.acl \in rules /\ h.dial_timeout \in Int /\ h.max_idle_conns \in Int
      BY <1>1 DEF Handlers
    <3>2. PrivateRules \in rules
      BY DEF PrivateRules
    <3>3. h.acl \o PrivateRules \in rules
      BY <3>1, <3>2
    <3>4. t \in Int /\ c \in Int
      BY <3>1
    <3>5. ASSUME NEW x \in Int, NEW y \in Int, NEW r \in rules
          PROVE  [h EXCEPT !.dial_timeout = x, !.max_idle_conns = y, !.acl = r] \in Handlers
      BY <1>1 DEF Handlers
    <3>6. Provisioned(h) = [h EXCEPT !.dial_timeout = t, !.max_idle_conns = c,
                                     !.acl = h.acl \o PrivateRules]
      BY Zenon DEF Provisioned
    <3> HIDE DEF rules, t, c
    <3>7. [h EXCEPT !.dial_timeout = t, !.max_idle_conns = c,
                    !.acl = h.acl \o PrivateRules] \in Handlers
      BY ONLY <3>3, <3>4, <3>5, Zenon
    <3> QED
      BY ONLY <3>6, <3>7, Zenon
  <2>2. Safe(Provisioned(h))
    <3>1. /\ Provisioned(h).probe_resistance = h.probe_resistance
          /\ Provisioned(h).basic_auth = h.basic_auth
          /\ Provisioned(h).upstream = h.upstream
          /\ Provisioned(h).disable_insecure_upstreams_check
               = h.disable_insecure_upstreams_check
      BY <1>1 DEF Provisioned, Handlers
    <3>2. Provisioned(h).dial_timeout > 0
      BY <1>1 DEF Provisioned, Handlers
    <3>3. h.basic_auth # {} \/ h \in JSONHandlers
      BY <1>1 DEF Given, FromBlock
    <3>4. Provisioned(h).basic_auth # {} \/ \E j \in JSONHandlers : Provisioned(h) = Provisioned(j)
      BY ONLY <3>1, <3>3, Zenon
    <3>5. Provisioned(h).upstream # Unset =>
            Provisioned(h).disable_insecure_upstreams_check \/ Secure(Provisioned(h).upstream)
      BY <1>3, <3>1 DEF UpstreamOK, UpstreamsFor
    <3>6. Provisioned(h).probe_resistance # Unset => Provisioned(h).basic_auth # Unset
      BY <1>3, <3>1 DEF ProbeOK
    <3> QED
      BY ONLY <3>2, <3>4, <3>5, <3>6, Zenon DEF Safe
  <2>3. TypeOK'
    <3>1. writer' \in Writers \cup {NoWriter}
      BY <1>1, <1>3, SettingsType DEF Inv, TypeOK, WriterAfter
    <3> QED
      BY <1>1, <1>3, <2>1, <3>1 DEF Inv, TypeOK
  <2>4. LoadInv'
    <3>1. FromBlock(block)'
      BY <1>3 DEF Inv, LoadInv, FromBlock
    <3>2. \A i \in DOMAIN config' : Given(config'[i])
      BY <1>1, <1>3 DEF Inv, LoadInv
    <3>3. \A i \in DOMAIN ready' : Safe(ready'[i])
      BY <1>3, <2>1, <2>2 DEF Inv, TypeOK, LoadInv
    <3>4. \A i \in DOMAIN running' : Safe(running'[i])
      BY <1>3 DEF Inv, LoadInv
    <3> QED
      BY <3>1, <3>2, <3>3, <3>4 DEF LoadInv, FromBlock, Given, Safe
  <2>5. WriterInv'
    BY <1>1, <1>3, SettingsStart DEF Inv, WriterInv, WriterAfter, Given, FromBlock
  <2> QED
    BY <2>3, <2>4, <2>5 DEF Inv
<1> QED
  BY <1>2, <1>3 DEF Provision

LEMMA AppendElements ==
  ASSUME NEW S, NEW s \in Seq(S), NEW e \in S, NEW i \in DOMAIN Append(s, e)
  PROVE  Append(s, e)[i] = e \/ (i \in DOMAIN s /\ Append(s, e)[i] = s[i])
  OBVIOUS

LEMMA NextInv == Inv /\ [Next]_vars => Inv'
<1> SUFFICES ASSUME Inv, [Next]_vars PROVE Inv'
  OBVIOUS
<1> USE DEF Inv, TypeOK, LoadInv, WriterInv, FromBlock, Given
<1>1. ASSUME StartLoad PROVE Inv'
  BY <1>1, NamesAssumption DEF StartLoad
<1>2. ASSUME EndBlock PROVE Inv'
  <2>1. block \in Handlers /\ FromBlock(block) /\ config \in Seq(Handlers)
    OBVIOUS
  <2>2. TypeOK'
    BY <1>2, <2>1, FreshFine DEF EndBlock
  <2>3. \A i \in DOMAIN config' : Given(config'[i])
    <3>1. \A i \in DOMAIN config' :
            config'[i] = block \/ (i \in DOMAIN config /\ config'[i] = config[i])
      BY <1>2, <2>1, AppendElements DEF EndBlock
    <3> QED
      BY <2>1, <3>1
  <2>4. LoadInv'
    BY <1>2, <2>3, FreshFine DEF EndBlock
  <2>5. WriterInv'
    BY <1>2 DEF EndBlock
  <2> QED
    BY <2>2, <2>4, <2>5
<1>3. ASSUME NEW h \in JSONHandlers, DecodeJSON(h) PROVE Inv'
  <2>1. h \in Handlers /\ Given(h) /\ config \in Seq(Handlers)
    BY JSONAssumption
  <2>2. TypeOK'
    BY <1>3, <2>1 DEF DecodeJSON
  <2>3. \A i \in DOMAIN config' : Given(config'[i])
    BY <1>3, <2>1 DEF DecodeJSON
  <2>4. LoadInv'
    BY <1>3, <2>3 DEF DecodeJSON
  <2>5. WriterInv'
    BY <1>3 DEF DecodeJSON
  <2> QED
    BY <2>2, <2>4, <2>5
<1>4. ASSUME EndParse PROVE Inv'
  BY <1>4 DEF EndParse
<1>5. ASSUME Adopt PROVE Inv'
  BY <1>5 DEF Adopt
<1>6. CASE UNCHANGED vars
  BY <1>6 DEF vars, loading
<1> QED
  BY <1>1, <1>2, <1>3, <1>4, <1>5, <1>6, ReadLineInv, ProvisionInv DEF Next

THEOREM Invariant == Spec => []Inv
  BY InitInv, NextInv, PTL DEF Spec

(* Every handler on its way keeps its type.                                  *)
THEOREM TypeCorrect == Spec => []TypeOK
  BY Invariant, PTL DEF Inv

(* No sequence of lines, blocks, JSON handlers and failed loads makes a      *)
(* handler run that the checks of Provision forbid.                          *)
THEOREM RunningSafe == Spec => []RunningIsSafe
<1>1. Inv => RunningIsSafe
  BY DEF Inv, LoadInv, Safe, RunningIsSafe
<1> QED
  BY <1>1, Invariant, PTL

(* The writer belongs to the first handler ever provisioned, and no handler  *)
(* runs without it.                                                          *)
THEOREM WriterCorrect == Spec => []OneWriter
<1>1. Inv => OneWriter
  BY DEF Inv, WriterInv, OneWriter
<1> QED
  BY <1>1, Invariant, PTL

(* Only JSON can give a reset day that some month lacks.                     *)
THEOREM MonthlyReset == Spec => []ResetEveryMonth
<1>1. Inv => ResetEveryMonth
  <2> SUFFICES ASSUME Inv PROVE ResetEveryMonth
    OBVIOUS
  <2>1. CASE first = <<>>
    BY <2>1 DEF Inv, WriterInv, NoWriter, ResetEveryMonth
  <2>2. CASE first # <<>>
    <3>1. Given(first[1]) /\ writer = Settings(first[1])
      BY <2>2 DEF Inv, WriterInv
    <3>2. writer.resetDay = first[1].traffic_reset_day
      BY ONLY <3>1 DEF Settings
    <3> QED
      BY ONLY <3>1, <3>2 DEF Given, FromBlock, ResetEveryMonth
  <2> QED
    BY <2>1, <2>2
<1> QED
  BY <1>1, Invariant, PTL

-----------------------------------------------------------------------------
(* What the lines of a block leave behind.  Both properties say so already;  *)
(* what they lack to be kept by every line is the kind of argument that each *)
(* directive takes: what a directive that may be given once leaves is not    *)
(* what a handler starts with, and the size in a quota line was accepted.    *)

Rules      == [allow : BOOLEAN, subject : Subjects]
QuotaArgs  == [user : Users, size : QuotaTexts]
Arguments  == Users \cup Hosts \cup PortArgs \cup {TRUE} \cup Domains \cup {NoDomain} \cup Paths
                \cup {PACDefault} \cup Numbers \cup Upstreams \cup Dirs \cup QuotaArgs \cup Rules

QuotaRead ==
  /\ text["traffic_quota"] \in Seq(QuotaArgs)
  /\ \A i \in DOMAIN text["traffic_quota"] : Accepted(text["traffic_quota"][i].size, Saturates)

GivenOnce(d) == text[d] = <<>> \/ (block[d] # Fresh[d] /\ Len(text[d]) = 1)

TextInv ==
  /\ text \in [Directives -> Seq(Arguments)] /\ DOMAIN block = Directives
  /\ QuotaRead /\ \A d \in Once : GivenOnce(d)
  /\ BlockMeansItsLines /\ QuotaAsWritten

LEMMA DirectiveNames ==
  /\ Directives = {"basic_auth", "hosts", "ports", "hide_ip", "hide_via",
                   "disable_insecure_upstreams_check", "probe_resistance", "serve_pac", "upstream",
                   "dial_timeout", "max_idle_conns", "max_idle_conns_per_host",
                   "traffic_stats_path", "traffic_stats_interval", "traffic_quota",
                   "traffic_reset_day", "traffic_archive_dir", "acl"}
  /\ Once \subseteq Directives \ Adding
  BY DEF Directives, Fresh, Once, Adding

LEMMA BlockDomain == block \in Handlers => DOMAIN block = Directives
  BY DirectiveNames DEF Handlers

LEMMA LastOfAppend ==
  ASSUME NEW S, NEW s \in Seq(S), NEW e \in S, NEW x
  PROVE  LastOf(Append(s, e), x) = e
  BY DEF LastOf

\* A block that has no lines yet.
EmptyBlock == block = Fresh /\ text = NoLines

LEMMA EmptyText == EmptyBlock => TextInv
<1> SUFFICES ASSUME EmptyBlock PROVE TextInv
  OBVIOUS
<1>1. block = Fresh /\ \A d \in Directives : text[d] = <<>>
  BY DEF EmptyBlock, NoLines
<1>2. text \in [Directives -> Seq(Arguments)]
  BY DEF EmptyBlock, NoLines
<1>3. DOMAIN block = Directives
  BY <1>1 DEF Directives
<1>4. text["traffic_quota"] = <<>> /\ text["basic_auth"] = <<>> /\ text["acl"] = <<>>
  BY <1>1, DirectiveNames
<1>5. QuotaRead
  BY <1>4 DEF QuotaRead
<1>6. \A d \in Once : GivenOnce(d)
  BY <1>1, DirectiveNames DEF GivenOnce
<1>7. BlockMeansItsLines
  <2>1. \A d \in Directives \ Adding : block[d] = LastOf(text[d], Fresh[d])
    BY <1>1 DEF LastOf
  <2>2. \A d \in Once : Len(text[d]) <= 1
    BY <1>1, DirectiveNames
  <2>3. UsersOf(block) = {} /\ block.basic_auth # {} /\ block.acl = <<>>
    BY <1>1, NamesAssumption DEF Fresh, UsersOf
  <2> QED
    BY <1>4, <2>1, <2>2, <2>3 DEF BlockMeansItsLines
<1>8. QuotaAsWritten
  BY <1>1, <1>4 DEF QuotaAsWritten, Fresh
<1> QED
  BY <1>2, <1>3, <1>5, <1>6, <1>7, <1>8 DEF TextInv

\* What a line may make of the setting that its directive gives.
Reads(d, arg, value) ==
  /\ d \in Directives /\ arg \in Arguments
  /\ d \in Directives \ Adding => value = arg
  /\ d \in Once => block[d] = Fresh[d] /\ value # Fresh[d]
  /\ d = "basic_auth" => arg \in Users /\ value = UsersOf(block) \cup {arg}
  /\ d = "acl" => value = Append(block["acl"], arg)
  /\ d = "traffic_quota" =>
       /\ arg \in QuotaArgs /\ Accepted(arg.size, Saturates)
       /\ value = [block["traffic_quota"] EXCEPT ![arg.user] = Bytes(arg.size, Saturates)]

\* A line disturbs what concerns its own directive.
LEMMA ReadText ==
  ASSUME TypeOK, TextInv, NEW d, NEW arg, NEW value, Reads(d, arg, value),
         block' = [block EXCEPT ![d] = value], text' = [text EXCEPT ![d] = Append(@, arg)]
  PROVE  TextInv'
<1>t. /\ text \in [Directives -> Seq(Arguments)] /\ DOMAIN block = Directives
      /\ d \in Directives /\ arg \in Arguments
  BY DEF TextInv, Reads
<1>1. /\ \A e \in Directives : e # d => block'[e] = block[e] /\ text'[e] = text[e]
      /\ block'[d] = value /\ text'[d] = Append(text[d], arg)
      /\ DOMAIN block' = Directives /\ text[d] \in Seq(Arguments)
  BY <1>t
<1>2. text' \in [Directives -> Seq(Arguments)]
  BY <1>t
<1>3. /\ Len(text'[d]) = Len(text[d]) + 1 /\ text'[d] # <<>>
      /\ DOMAIN text'[d] = 1 .. Len(text[d]) + 1 /\ DOMAIN text[d] = 1 .. Len(text[d])
      /\ text'[d][Len(text[d]) + 1] = arg /\ Len(text[d]) \in Nat
      /\ \A i \in 1 .. Len(text[d]) : text'[d][i] = text[d][i]
  BY <1>t, <1>1
<1>4. \A e \in Once : GivenOnce(e)'
  <2> SUFFICES ASSUME NEW e \in Once PROVE GivenOnce(e)'
    OBVIOUS
  <2>1. e \in Directives /\ GivenOnce(e)
    BY DirectiveNames DEF TextInv
  <2>2. CASE e # d
    BY <1>1, <2>1, <2>2 DEF GivenOnce
  <2>3. CASE e = d
    <3>1. block[d] = Fresh[d] /\ value # Fresh[d]
      BY <2>3 DEF Reads
    <3>2. text[d] = <<>>
      BY <2>1, <2>3, <3>1 DEF GivenOnce
    <3> QED
      BY <1>1, <1>3, <2>3, <3>1, <3>2 DEF GivenOnce
  <2> QED
    BY <2>2, <2>3
<1>5. BlockMeansItsLines'
  <2>1. ASSUME NEW e \in Directives \ Adding PROVE block'[e] = LastOf(text'[e], Fresh[e])
    <3>1. block[e] = LastOf(text[e], Fresh[e])
      BY DEF TextInv, BlockMeansItsLines
    <3>2. CASE e # d
      BY ONLY <1>1, <3>1, <3>2, e \in Directives \ Adding
    <3>3. CASE e = d
      <4>1. block'[e] = arg
        BY <1>1, <3>3 DEF Reads
      <4>2. LastOf(Append(text[d], arg), Fresh[e]) = arg
        BY <1>t, <1>1, LastOfAppend
      <4> QED
        BY ONLY <1>1, <3>3, <4>1, <4>2
    <3> QED
      BY <3>2, <3>3
  <2>2. ASSUME NEW e \in Once PROVE Len(text'[e]) <= 1
    <3>1. GivenOnce(e)'
      BY <1>4
    <3>2. PICK s : s = text'[e]
      OBVIOUS
    <3>3. s = <<>> \/ Len(s) = 1
      BY ONLY <3>1, <3>2, Zenon DEF GivenOnce
    <3>4. Len(s) <= 1
      <4>1. Len(<<>>) = 0
        OBVIOUS
      <4>2. Len(s) = 0 \/ Len(s) = 1
        BY ONLY <3>3, <4>1, Zenon
      <4>3. PICK l \in {0, 1} : l = Len(s)
        BY ONLY <4>2, Zenon
      <4>4. l <= 1
        BY ONLY l \in {0, 1}
      <4> QED
        BY ONLY <4>3, <4>4, Zenon
    <3> QED
      BY ONLY <3>2, <3>4, Zenon
  <2>3. /\ UsersOf(block') = {text'["basic_auth"][i] : i \in DOMAIN text'["basic_auth"]}
        /\ block'["basic_auth"] # {}
    <3>1. /\ UsersOf(block) = {text["basic_auth"][i] : i \in DOMAIN text["basic_auth"]}
          /\ block["basic_auth"] # {}
      BY DEF TextInv, BlockMeansItsLines
    <3>2. CASE d # "basic_auth"
      <4>1. block'["basic_auth"] = block["basic_auth"] /\ text'["basic_auth"] = text["basic_auth"]
        BY ONLY <1>1, <3>2, DirectiveNames
      <4>2. UsersOf(block') = UsersOf(block)
        BY ONLY <4>1 DEF UsersOf
      <4> QED
        BY ONLY <3>1, <4>1, <4>2
    <3>3. CASE d = "basic_auth"
      <4>1. /\ block'["basic_auth"] = UsersOf(block) \cup {arg} /\ arg \in Users
            /\ UsersOf(block) = {text[d][i] : i \in DOMAIN text[d]}
        BY <1>1, <3>1, <3>3 DEF Reads
      <4>2. {text'[d][i] : i \in DOMAIN text'[d]} = {text[d][i] : i \in DOMAIN text[d]} \cup {arg}
        BY ONLY <1>3
      <4>3. UsersOf(block) \in SUBSET Users
        BY DEF UsersOf, TypeOK, Handlers, Or
      <4>4. UsersOf(block) \cup {arg} # Unset
        BY ONLY <4>1, <4>3, NamesAssumption
      <4>5. UsersOf(block') = UsersOf(block) \cup {arg}
        BY ONLY <4>1, <4>4 DEF UsersOf
      <4> QED
        BY ONLY <3>3, <4>1, <4>2, <4>5
    <3> QED
      BY <3>2, <3>3
  <2>4. block'["acl"] = text'["acl"]
    <3>1. block["acl"] = text["acl"]
      BY DEF TextInv, BlockMeansItsLines
    <3>2. CASE d # "acl"
      BY ONLY <1>1, <3>1, <3>2, DirectiveNames
    <3>3. CASE d = "acl"
      BY <1>1, <3>1, <3>3 DEF Reads
    <3> QED
      BY <3>2, <3>3
  <2> QED
    BY <2>1, <2>2, <2>3, <2>4 DEF BlockMeansItsLines
<1>6. CASE d # "traffic_quota"
  <2>1. /\ text'["traffic_quota"] = text["traffic_quota"]
        /\ block'["traffic_quota"] = block["traffic_quota"]
    BY <1>1, <1>6, DirectiveNames
  <2>2. QuotaRead' /\ QuotaAsWritten'
    BY <2>1 DEF TextInv, QuotaRead, QuotaAsWritten
  <2> QED
    BY <1>1, <1>2, <1>4, <1>5, <2>2 DEF TextInv
<1>7. CASE d = "traffic_quota"
  <2>1. PICK old \in Seq(QuotaArgs) : old = text["traffic_quota"]
    BY DEF TextInv, QuotaRead
  <2>2. PICK q \in [Users -> Int] : q = block["traffic_quota"]
    BY DEF TypeOK, Handlers
  <2>3. PICK u \in Users, t \in QuotaTexts : u = arg.user /\ t = arg.size
    BY <1>7 DEF Reads, QuotaArgs
  <2>4. /\ arg \in QuotaArgs /\ Accepted(t, Saturates)
        /\ block'["traffic_quota"] = [q EXCEPT ![u] = Bytes(t, Saturates)]
        /\ text'["traffic_quota"] = Append(old, arg)
    BY <1>1, <1>7, <2>1, <2>2, <2>3 DEF Reads
  <2>5. PICK l \in Nat : l = Len(old)
    BY <2>1
  <2>6. PICK new \in Seq(QuotaArgs) : new = Append(old, arg)
    <3>1. Append(old, arg) \in Seq(QuotaArgs)
      BY ONLY <2>4, old \in Seq(QuotaArgs)
    <3> QED
      BY ONLY <3>1
  <2>7. /\ DOMAIN new = 1 .. l + 1 /\ DOMAIN old = 1 .. l /\ new[l + 1] = arg
        /\ \A i \in 1 .. l : new[i] = old[i]
    BY <2>1, <2>4, <2>5, <2>6
  <2>8. \A i \in 1 .. l + 1 : i \in 1 .. l \/ i = l + 1
    OBVIOUS
  <2>9. \A i \in 1 .. l : /\ i \in 1 .. l + 1 /\ l + 1 > i
                          /\ \A j \in 1 .. l : j \in 1 .. l + 1
    OBVIOUS
  <2>10. QuotaRead'
    <3>1. \A i \in 1 .. l : Accepted(old[i].size, Saturates)
      BY <2>1, <2>7 DEF TextInv, QuotaRead
    <3>2. \A i \in 1 .. l + 1 : Accepted(new[i].size, Saturates)
      BY ONLY <2>3, <2>4, <2>7, <2>8, <3>1
    <3> QED
      BY ONLY <2>4, <2>6, <2>7, <3>2, new \in Seq(QuotaArgs) DEF QuotaRead
  <2>11. PICK r : r = block'["traffic_quota"]
    OBVIOUS
  <2>12. r[u] = Bytes(t, Saturates) /\ \A v \in Users : v # u => r[v] = q[v]
    BY ONLY <2>4, <2>11, q \in [Users -> Int], u \in Users
  <2>13. ASSUME NEW i \in 1 .. l + 1, \A j \in 1 .. l + 1 : j > i => new[j].user # new[i].user
         PROVE  r[new[i].user] = Bytes(new[i].size, Saturates) /\ Faithful(new[i].size, Saturates)
    <3>1. CASE i = l + 1
      <4>1. Faithful(t, Saturates)
        BY SizesFaithful, NamesAssumption
      <4> QED
        BY ONLY <2>3, <2>7, <2>12, <3>1, <4>1
    <3>2. CASE i \in 1 .. l
      <4>1. new[l + 1].user # new[i].user /\ l + 1 > i /\ l + 1 \in 1 .. l + 1
        BY ONLY <2>13, <2>9, <3>2, l \in Nat
      <4>2. old[i].user \in Users /\ old[i].user # u
        <5>1. old[i] \in QuotaArgs
          BY ONLY <2>5, <3>2, old \in Seq(QuotaArgs)
        <5> QED
          BY ONLY <2>3, <2>7, <3>2, <4>1, <5>1 DEF QuotaArgs
      <4>3. \A j \in 1 .. l : j > i => old[j].user # old[i].user
        BY ONLY <2>13, <2>7, <2>9, <3>2
      <4>4. q[old[i].user] = Bytes(old[i].size, Saturates) /\ Faithful(old[i].size, Saturates)
        BY <2>1, <2>2, <2>7, <3>2, <4>3 DEF TextInv, QuotaAsWritten
      <4> QED
        BY ONLY <2>7, <2>12, <3>2, <4>2, <4>4
    <3> QED
      BY <2>8, <3>1, <3>2
  <2>14. ASSUME NEW v \in Users, \A i \in 1 .. l + 1 : new[i].user # v PROVE r[v] = 0
    <3>1. v # u
      <4>1. l + 1 \in 1 .. l + 1
        OBVIOUS
      <4> QED
        BY ONLY <2>3, <2>7, <2>14, <4>1
    <3>2. \A i \in 1 .. l : old[i].user # v
      BY ONLY <2>7, <2>9, <2>14
    <3>3. q[v] = 0
      BY <2>1, <2>2, <2>7, <3>2 DEF TextInv, QuotaAsWritten
    <3> QED
      BY ONLY <2>12, <3>1, <3>3, v \in Users
  <2>15. QuotaAsWritten'
    <3>1. text'["traffic_quota"] = new /\ block'["traffic_quota"] = r
      BY <2>4, <2>6, <2>11
    <3> QED
      BY ONLY <2>7, <2>13, <2>14, <3>1 DEF QuotaAsWritten
  <2> QED
    BY <1>1, <1>2, <1>4, <1>5, <2>10, <2>15 DEF TextInv
<1> QED
  BY <1>6, <1>7

LEMMA LineText ==
  ASSUME NEW d, NEW arg, NEW right, NEW value, TypeOK, TextInv, Line(d, arg, right, value),
         right => Reads(d, arg, value)
  PROVE  TextInv'
<1>1. CASE right /\ block' = [block EXCEPT ![d] = value] /\ text' = [text EXCEPT ![d] = Append(@, arg)]
  BY <1>1, ReadText
<1>2. CASE Refuse
  <2>1. EmptyBlock'
    BY <1>2 DEF Refuse, EmptyBlock
  <2>2. EmptyBlock' => TextInv'
    BY EmptyText, PTL
  <2> QED
    BY <2>1, <2>2
<1> QED
  BY <1>1, <1>2 DEF Line

LEMMA ReadLineText == Inv /\ TextInv /\ ReadLine => TextInv'
<1> SUFFICES ASSUME TypeOK, TextInv, ReadLine PROVE TextInv'
  BY DEF Inv
<1> USE DEF Reads, Once, Adding
<1>n. Directives = {"basic_auth", "hosts", "ports", "hide_ip", "hide_via",
                    "disable_insecure_upstreams_check", "probe_resistance", "serve_pac", "upstream",
                    "dial_timeout", "max_idle_conns", "max_idle_conns_per_host",
                    "traffic_stats_path", "traffic_stats_interval", "traffic_quota",
                    "traffic_reset_day", "traffic_archive_dir", "acl"}
  BY DirectiveNames
<1>f. Fresh["hosts"] = Unset /\ Fresh["ports"] = {} /\ Fresh["serve_pac"] = Unset /\ Fresh["upstream"] = Unset
  BY DEF Fresh
<1>1. ASSUME NEW u \in Users, BasicAuth(u) PROVE TextInv'
  <2>1. Reads("basic_auth", u, UsersOf(block) \cup {u})
    BY <1>n DEF Arguments
  <2> QED
    BY <1>1, <2>1, LineText DEF BasicAuth
<1>2. ASSUME NEW h \in Hosts, HostsLine(h) PROVE TextInv'
  <2>1. block.hosts = Unset => Reads("hosts", h, h)
    BY <1>n, <1>f, NamesAssumption DEF Arguments
  <2> QED
    BY <1>2, <2>1, LineText DEF HostsLine
<1>3. ASSUME NEW ps \in PortArgs, PortsLine(ps) PROVE TextInv'
  <2>1. PortsFit(ps) => Reads("ports", ps, ps)
    <3>1. ps # {}
      BY NamesAssumption
    <3>2. ps \in Arguments /\ "ports" \in Directives
      BY <1>n DEF Arguments
    <3>3. PortsFit(ps) => block["ports"] = {}
      BY DEF PortsFit
    <3> QED
      BY ONLY <1>f, <3>1, <3>2, <3>3 DEF Reads, Once, Adding
  <2> QED
    BY <1>3, <2>1, LineText DEF PortsLine
<1>4. ASSUME NEW f \in Flags, Flag(f) PROVE TextInv'
  <2>1. Reads(f, TRUE, TRUE)
    BY <1>n DEF Arguments, Flags
  <2> QED
    BY <1>4, <2>1, LineText DEF Flag
<1>5. ASSUME NEW d \in Domains \cup {NoDomain}, Probe(d) PROVE TextInv'
  <2>1. Reads("probe_resistance", d, d)
    BY <1>n DEF Arguments
  <2> QED
    BY <1>5, <2>1, LineText DEF Probe
<1>6. ASSUME NEW p \in Paths \cup {PACDefault}, ServePAC(p) PROVE TextInv'
  <2>1. block.serve_pac = Unset => Reads("serve_pac", p, p)
    BY <1>n, <1>f, NamesAssumption DEF Arguments
  <2> QED
    BY <1>6, <2>1, LineText DEF ServePAC
<1>7. ASSUME NEW n \in Numbers, DialTimeout(n) PROVE TextInv'
  <2>1. Reads("dial_timeout", n, n)
    BY <1>n DEF Arguments
  <2> QED
    BY <1>7, <2>1, LineText DEF DialTimeout
<1>8. ASSUME NEW n \in Numbers, StatsInterval(n) PROVE TextInv'
  <2>1. Reads("traffic_stats_interval", n, n)
    BY <1>n DEF Arguments
  <2> QED
    BY <1>8, <2>1, LineText DEF StatsInterval
<1>9. ASSUME NEW n \in Numbers, ResetDayLine(n) PROVE TextInv'
  <2>1. Reads("traffic_reset_day", n, n)
    BY <1>n DEF Arguments
  <2> QED
    BY <1>9, <2>1, LineText DEF ResetDayLine
<1>10. ASSUME NEW n \in Numbers, NEW d \in {"max_idle_conns", "max_idle_conns_per_host"}, MaxIdle(d, n)
       PROVE  TextInv'
  <2>1. Reads(d, n, n)
    BY <1>n DEF Arguments
  <2> QED
    BY <1>10, <2>1, LineText DEF MaxIdle
<1>11. ASSUME NEW u \in Upstreams, UpstreamLine(u) PROVE TextInv'
  <2>1. block.upstream = Unset => Reads("upstream", u, u)
    BY <1>n, <1>f, NamesAssumption DEF Arguments
  <2> QED
    BY <1>11, <2>1, LineText DEF UpstreamLine
<1>12. ASSUME NEW p \in Paths, StatsPath(p) PROVE TextInv'
  <2>1. Reads("traffic_stats_path", p, p)
    BY <1>n DEF Arguments
  <2> QED
    BY <1>12, <2>1, LineText DEF StatsPath
<1>13. ASSUME NEW d \in Dirs, ArchiveDir(d) PROVE TextInv'
  <2>1. Reads("traffic_archive_dir", d, d)
    BY <1>n DEF Arguments
  <2> QED
    BY <1>13, <2>1, LineText DEF ArchiveDir
<1>14. ASSUME NEW u \in Users, NEW t \in QuotaTexts, QuotaLine(u, t) PROVE TextInv'
  <2>1. PICK arg \in QuotaArgs : arg = [user |-> u, size |-> t] /\ arg.user = u /\ arg.size = t
    <3>1. [user |-> u, size |-> t] \in QuotaArgs
      BY ONLY u \in Users, t \in QuotaTexts DEF QuotaArgs
    <3>2. PICK arg : arg = [user |-> u, size |-> t]
      OBVIOUS
    <3>3. arg.user = u /\ arg.size = t
      BY ONLY <3>2
    <3> QED
      BY ONLY <3>1, <3>2, <3>3, Zenon
  <2>2. Accepted(t, Saturates) =>
          Reads("traffic_quota", arg, [block["traffic_quota"] EXCEPT ![u] = Bytes(t, Saturates)])
    BY <1>n, <2>1 DEF Arguments
  <2>3. Line("traffic_quota", arg, Accepted(t, Saturates),
             [block.traffic_quota EXCEPT ![u] = Bytes(t, Saturates)])
    BY <1>14, <2>1 DEF QuotaLine
  <2> QED
    BY <2>2, <2>3, LineText
<1>15. ASSUME NEW a \in BOOLEAN, NEW s \in Subjects, ACLLine([allow |-> a, subject |-> s])
       PROVE  TextInv'
  <2>1. PICK rule \in Rules : rule = [allow |-> a, subject |-> s]
    BY DEF Rules
  <2>2. Reads("acl", rule, Append(block["acl"], rule))
    BY <1>n DEF Arguments
  <2>3. Line("acl", rule, TRUE, Append(block.acl, rule))
    BY <1>15, <2>1 DEF ACLLine
  <2> QED
    BY <2>2, <2>3, LineText
<1>16. ASSUME MalformedLine PROVE TextInv'
  BY <1>16, LineText DEF MalformedLine
<1> QED
  BY <1>1, <1>2, <1>3, <1>4, <1>5, <1>6, <1>7, <1>8, <1>9, <1>10, <1>11, <1>12, <1>13, <1>14, <1>15, <1>16 DEF ReadLine

LEMMA NextText == Inv /\ TextInv /\ [Next]_vars => TextInv'
<1> SUFFICES ASSUME Inv, TextInv, [Next]_vars PROVE TextInv'
  OBVIOUS
<1>1. CASE UNCHANGED <<block, text>>
  BY <1>1 DEF TextInv, QuotaRead, GivenOnce, BlockMeansItsLines, QuotaAsWritten
<1>2. CASE EmptyBlock'
  <2>1. EmptyBlock' => TextInv'
    BY EmptyText, PTL
  <2> QED
    BY <1>2, <2>1
<1>3. CASE ReadLine
  BY <1>3, ReadLineText
<1>4. ReadLine \/ UNCHANGED <<block, text>> \/ EmptyBlock'
  BY DEF Next, StartLoad, EndBlock, EndParse, DecodeJSON, Provision, Refuse, Adopt, EmptyBlock, vars, loading
<1> QED
  BY <1>1, <1>2, <1>3, <1>4

LEMMA TextInvariant == Spec => []TextInv
<1>1. Init => TextInv
  BY EmptyText DEF Init, EmptyBlock
<1> QED
  BY <1>1, NextText, Invariant, PTL DEF Spec

(* Any number of lines, in any order and with errors between them, leaves    *)
(* the block that the lines of each directive ask for by themselves.         *)
THEOREM BlockCorrect == Spec => []BlockMeansItsLines
<1>1. TextInv => BlockMeansItsLines
  BY DEF TextInv
<1> QED
  BY <1>1, TextInvariant, PTL

(* Every quota of a block is the size last written for its user, to the      *)
(* byte, for every width of an integer and every unit.                       *)
THEOREM QuotasCorrect == Spec => []QuotaAsWritten
<1>1. TextInv => QuotaAsWritten
  BY DEF TextInv
<1> QED
  BY <1>1, TextInvariant, PTL
=============================================================================
