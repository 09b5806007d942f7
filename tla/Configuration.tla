--------------------------- MODULE Configuration ---------------------------
(***************************************************************************)
(* From configuration to running handlers: the forward_proxy blocks that   *)
(* forwardproxy/caddyfile.go reads line by line (or the handlers a JSON    *)
(* configuration gives as they are), Provision of each handler, and the    *)
(* stats writer that the first provisioned handler of the process starts.  *)
(* A load that fails at any point leaves the running configuration alone;  *)
(* what Provision did to the process stays done.                           *)
(***************************************************************************)
EXTENDS ByteSize, Sequences

CONSTANTS
  Users, Hosts, Domains, Paths, Dirs, \* names of each kind
  Subjects,     \* ACL subjects, those of BadSubjects being no rule
  BadSubjects,
  PortArgs,     \* sets of port numbers a line may list
  Upstreams,    \* proxy URLs: [scheme |-> ..., local |-> is the host localhost?]
  Numbers,      \* arguments of the numeric directives, durations included
  QuotaTexts,   \* sizes written in a traffic_quota
  JSONHandlers, \* handlers that a JSON configuration gives
  DirOf,        \* the archive directory beside each stats path
  DefaultPath, PACDefault,
  Unset,        \* a setting that was not given
  NoDomain,     \* probe_resistance without a secret domain
  Saturates,    \* the build's float conversion, see ByteSize
  MaxLines,     \* bound: lines of blocks ever read
  MaxBlocks,    \* bound: blocks of one configuration
  MaxLoads      \* bound: configurations loaded

ASSUME NamesAssumption == /\ BadSubjects \subseteq Subjects /\ Saturates \in BOOLEAN
                          /\ \A S \in SUBSET Users : S # Unset
                          /\ Unset \notin Hosts \cup Domains \cup Paths \cup Dirs \cup Upstreams
                          /\ DirOf \in [Paths -> Dirs] /\ DefaultPath \in Paths
                          /\ QuotaTexts \subseteq Texts /\ Numbers \subseteq Int
                          /\ PortArgs \subseteq (SUBSET Int) \ {{}} /\ PACDefault # Unset
                          /\ MaxLines \in Nat /\ MaxBlocks \in Nat /\ MaxLoads \in Nat

Flags == {"hide_ip", "hide_via", "disable_insecure_upstreams_check"}

\* The zero Handler: its settings are called as the directives that give them.
\* Its AuthCredentials are nil; no users at all is something else.
Fresh == [basic_auth |-> Unset, hosts |-> Unset, ports |-> {},
          hide_ip |-> FALSE, hide_via |-> FALSE, disable_insecure_upstreams_check |-> FALSE,
          probe_resistance |-> Unset, serve_pac |-> Unset, upstream |-> Unset,
          dial_timeout |-> 0, max_idle_conns |-> 0, max_idle_conns_per_host |-> 0,
          traffic_stats_path |-> Unset, traffic_stats_interval |-> 0,
          traffic_quota |-> [u \in Users |-> 0], traffic_reset_day |-> 0,
          traffic_archive_dir |-> Unset, acl |-> <<>>]

Directives == DOMAIN Fresh
NoLines    == [d \in Directives |-> <<>>]

Or(S)    == {Unset} \cup S
Handlers == [basic_auth : Or(SUBSET Users), hosts : Or(Hosts), ports : SUBSET Int,
             hide_ip : BOOLEAN, hide_via : BOOLEAN, disable_insecure_upstreams_check : BOOLEAN,
             probe_resistance : Or(Domains \cup {NoDomain}), serve_pac : Or(Paths \cup {PACDefault}),
             upstream : Or(Upstreams),
             dial_timeout : Int, max_idle_conns : Int, max_idle_conns_per_host : Int,
             traffic_stats_path : Or(Paths), traffic_stats_interval : Int,
             traffic_quota : [Users -> Int], traffic_reset_day : Int,
             traffic_archive_dir : Or(Dirs),
             acl : Seq([allow : BOOLEAN, subject : Subjects \cup {"private", "all"}])]

PrivateRules == <<[allow |-> FALSE, subject |-> "private"], [allow |-> TRUE, subject |-> "all"]>>
ASSUME JSONAssumption == JSONHandlers \subseteq Handlers

\* A ticker takes no interval of zero or less.
Writers      == [path : Paths, interval : Nat \ {0}, resetDay : Int, archiveDir : Dirs]
NoWriter     == [path |-> Unset, interval |-> 0, resetDay |-> 0, archiveDir |-> Unset]

VARIABLES
  phase,    \* "idle", "block" while blocks are read, "provision"
  block,    \* the Handler that UnmarshalCaddyfile fills
  text,     \* the arguments of its lines so far, by directive, for properties
  config,   \* handlers of the configuration being loaded, yet to be provisioned
  ready,    \* those provisioned
  running,  \* handlers of the running configuration
  writer,   \* what the writer goroutine of this process was started with
  lines, loads,                                              \* for the bounds
  first     \* the first handler that Provision let through, for properties

loading == <<phase, block, text, config, ready>>
vars    == <<loading, running, writer, lines, loads, first>>

Init ==
  /\ phase = "idle" /\ block = Fresh /\ text = NoLines /\ config = <<>> /\ ready = <<>>
  /\ running = <<>> /\ writer = NoWriter
  /\ lines = 0 /\ loads = 0 /\ first = <<>>

StartLoad ==
  /\ phase = "idle" /\ loads < MaxLoads
  /\ phase' = "block" /\ loads' = loads + 1
  /\ UNCHANGED <<block, text, config, ready, running, writer, lines, first>>

\* An error anywhere drops all that was read or provisioned of the load.
Refuse ==
  /\ phase' = "idle" /\ block' = Fresh /\ text' = NoLines /\ config' = <<>> /\ ready' = <<>>
  /\ UNCHANGED running

-----------------------------------------------------------------------------
(* The lines of a block, in the order of the switch.                       *)

\* Read a line: if it is right it changes one setting of the handler.
Line(directive, arg, right, value) ==
  /\ phase = "block" /\ lines < MaxLines
  /\ lines' = lines + 1
  /\ \/ /\ right
        /\ block' = [block EXCEPT ![directive] = value]
        /\ text' = [text EXCEPT ![directive] = Append(@, arg)]
        /\ UNCHANGED <<phase, config, ready, running>>
     \/ ~right /\ Refuse
  /\ UNCHANGED <<writer, loads, first>>

\* Wrong number of arguments, one that does not parse, an unknown directive,
\* a username that is empty or holds a colon, a file that cannot be read.
MalformedLine == Line("hide_ip", TRUE, FALSE, TRUE)

UsersOf(h)       == IF h.basic_auth = Unset THEN {} ELSE h.basic_auth
BasicAuth(u)     == Line("basic_auth", u, TRUE, UsersOf(block) \cup {u})
HostsLine(h)     == Line("hosts", h, block.hosts = Unset, h)
PortNumbers      == 1 .. 65535
PortsFit(ps)     == block.ports = {} /\ ps \subseteq PortNumbers
PortsLine(ps)    == Line("ports", ps, PortsFit(ps), ps)
Flag(f)          == Line(f, TRUE, TRUE, TRUE)
Probe(d)         == Line("probe_resistance", d, TRUE, d)

\* Faulty: a second line replaces the first.
ServePACAgain(p) == Line("serve_pac", p, TRUE, p)
ServePAC(p)      == Line("serve_pac", p, block.serve_pac = Unset, p)
DialTimeout(n)   == Line("dial_timeout", n, n >= 0, n)
MaxIdle(d, n)    == Line(d, n, TRUE, n)
UpstreamLine(u)  == Line("upstream", u, block.upstream = Unset, u)
StatsPath(p)     == Line("traffic_stats_path", p, TRUE, p)
StatsInterval(n) == Line("traffic_stats_interval", n, TRUE, n)

\* No entry in the map and an entry of 0 are the same to the gate.
QuotaLine(u, t)  == Line("traffic_quota", [user |-> u, size |-> t], Accepted(t, Saturates),
                         [block.traffic_quota EXCEPT ![u] = Bytes(t, Saturates)])

\* Faulty: any day of a long month will do.
ResetDayOfLongMonth(n) == Line("traffic_reset_day", n, n \in 0 .. 31, n)
ResetDayLine(n)  == Line("traffic_reset_day", n, n \in 0 .. 28, n)
ArchiveDir(d)    == Line("traffic_archive_dir", d, TRUE, d)

\* allow, deny, allow_file and deny_file add their subjects, one each here.
ACLLine(rule)    == Line("acl", rule, TRUE, Append(block.acl, rule))

ReadLine ==
  \/ \E u \in Users : BasicAuth(u)
  \/ \E h \in Hosts : HostsLine(h)
  \/ \E ps \in PortArgs : PortsLine(ps)
  \/ \E f \in Flags : Flag(f)
  \/ \E d \in Domains \cup {NoDomain} : Probe(d)
  \/ \E p \in Paths \cup {PACDefault} : ServePAC(p)
  \/ \E n \in Numbers :
       \/ DialTimeout(n) \/ StatsInterval(n) \/ ResetDayLine(n)
       \/ \E d \in {"max_idle_conns", "max_idle_conns_per_host"} : MaxIdle(d, n)
  \/ \E u \in Upstreams : UpstreamLine(u)
  \/ \E p \in Paths : StatsPath(p)
  \/ \E d \in Dirs : ArchiveDir(d)
  \/ \E u \in Users, t \in QuotaTexts : QuotaLine(u, t)
  \/ \E a \in BOOLEAN, s \in Subjects : ACLLine([allow |-> a, subject |-> s])
  \/ MalformedLine

EndBlock ==
  /\ phase = "block" /\ Len(config) < MaxBlocks
  /\ config' = Append(config, block)
  /\ block' = Fresh /\ text' = NoLines
  /\ UNCHANGED <<phase, ready, running, writer, lines, loads, first>>

\* A JSON configuration fills the handler with no check of its values.
DecodeJSON(h) ==
  /\ phase = "block" /\ text = NoLines /\ config = <<>>
  /\ config' = Append(config, h)
  /\ phase' = "provision"
  /\ UNCHANGED <<block, text, ready, running, writer, lines, loads, first>>

EndParse ==
  /\ phase = "block" /\ text = NoLines /\ config # <<>>
  /\ phase' = "provision"
  /\ UNCHANGED <<block, text, config, ready, running, writer, lines, loads, first>>

-----------------------------------------------------------------------------
(* Provision.                                                              *)

Secure(u) == u.local \/ u.scheme = "https"

\* Schemes that proxy.FromURL has a dialer for.
Schemes == {"https", "http", "socks5", "socks5h"}

\* Faulty: the check looks at the scheme alone.
AnyOfScheme(h) == {u \in Upstreams : u.scheme \in Schemes}
UpstreamsFor(h) ==
  {u \in Upstreams : /\ h.disable_insecure_upstreams_check \/ Secure(u)
                     /\ u.scheme \in Schemes}

UpstreamOK(h) == h.upstream \in UpstreamsFor(h) \cup {Unset}
ProbeOK(h)    == h.probe_resistance # Unset => h.basic_auth # Unset
RulesOK(h) == \A i \in DOMAIN h.acl : h.acl[i].subject \notin BadSubjects

Provisioned(h) ==
  [h EXCEPT !.dial_timeout = IF h.dial_timeout > 0 THEN @ ELSE 30,
            !.max_idle_conns = IF @ = 0 THEN 50 ELSE IF @ < 0 THEN 0 ELSE @,
            !.acl = @ \o PrivateRules]

\* Faulty: an interval is taken as it was given, zero included.
SettingsAsGiven(h) ==
  [path       |-> h.traffic_stats_path,
   interval   |-> h.traffic_stats_interval,
   resetDay   |-> h.traffic_reset_day,
   archiveDir |-> h.traffic_archive_dir]
Settings(h) ==
  LET path == IF h.traffic_stats_path = Unset THEN DefaultPath ELSE h.traffic_stats_path IN
  [path       |-> path,
   interval   |-> IF h.traffic_stats_interval > 0 THEN h.traffic_stats_interval ELSE 30,
   resetDay   |-> h.traffic_reset_day,
   archiveDir |-> IF h.traffic_archive_dir = Unset THEN DirOf[path] ELSE h.traffic_archive_dir]

\* trafficStatsOnce: load and start with the settings of the handler at hand,
\* unless this process has done so before.
\* Faulty: no Once.
WriterOfLast(h) == Settings(h)
WriterAfter(h)  == IF writer = NoWriter THEN Settings(h) ELSE writer

Provision ==
  LET h == Head(config) IN
  /\ phase = "provision" /\ config # <<>>
  /\ \/ /\ RulesOK(h) /\ ProbeOK(h) /\ UpstreamOK(h)
        /\ ready' = Append(ready, Provisioned(h))
        /\ config' = Tail(config)
        /\ writer' = WriterAfter(h)
        /\ first' = IF first = <<>> THEN <<h>> ELSE first
        /\ UNCHANGED <<phase, block, text, running>>
     \/ /\ ~(RulesOK(h) /\ ProbeOK(h) /\ UpstreamOK(h))
        /\ Refuse
        /\ UNCHANGED <<writer, first>>
  /\ UNCHANGED <<lines, loads>>

\* Every handler is provisioned: the new configuration replaces the old one.
Adopt ==
  /\ phase = "provision" /\ config = <<>>
  /\ running' = ready
  /\ phase' = "idle" /\ ready' = <<>>
  /\ UNCHANGED <<block, text, config, writer, lines, loads, first>>

Next == \/ StartLoad \/ ReadLine \/ EndBlock \/ EndParse \/ Provision \/ Adopt
        \/ \E h \in JSONHandlers : DecodeJSON(h)

Spec == Init /\ [][Next]_vars

-----------------------------------------------------------------------------
(* Properties.                                                             *)

TypeOK ==
  /\ phase \in {"idle", "block", "provision"} /\ block \in Handlers
  /\ config \in Seq(Handlers) /\ ready \in Seq(Handlers) /\ running \in Seq(Handlers)
  /\ writer \in Writers \cup {NoWriter}
  /\ lines \in 0 .. MaxLines /\ loads \in 0 .. MaxLoads

LastOf(args, default) == IF args = <<>> THEN default ELSE args[Len(args)]
Adding == {"basic_auth", "traffic_quota", "acl"}
Once   == {"hosts", "ports", "serve_pac", "upstream"}

(* A block means the same whatever the order of its directives: a setting   *)
(* depends on the lines of its own directive only, the last one counting,   *)
(* users and rules adding up, and no directive that may be given once is    *)
(* there twice.  No block asks for users and names none.                    *)
BlockMeansItsLines ==
  /\ \A d \in Directives \ Adding : block[d] = LastOf(text[d], Fresh[d])
  /\ \A d \in Once : Len(text[d]) <= 1
  /\ UsersOf(block) = {text.basic_auth[i] : i \in DOMAIN text.basic_auth}
  /\ block.basic_auth # {}
  /\ block.acl = text.acl

(* The user's quota is the one of the last line that names him, in whole    *)
(* bytes: neither wrapped, nor lost to another line; and nobody has a quota *)
(* that no line gave him.                                                   *)
QuotaAsWritten ==
  LET args == text.traffic_quota IN
  /\ \A i \in DOMAIN args :
       (\A j \in DOMAIN args : j > i => args[j].user # args[i].user) =>
         /\ block.traffic_quota[args[i].user] = Bytes(args[i].size, Saturates)
         /\ Faithful(args[i].size, Saturates)
  /\ \A u \in Users : (\A i \in DOMAIN args : args[i].user # u) => block.traffic_quota[u] = 0

(* However its configuration was written and whatever failed before it, a   *)
(* handler that runs reaches only upstreams it may, hides behind probe      *)
(* resistance only if it asks for credentials, and gives up a dial some     *)
(* day.  One that asks for credentials has users to let in, unless JSON     *)
(* gave it an empty list of them, which Provision takes.                    *)
RunningIsSafe ==
  \A i \in DOMAIN running :
    LET h == running[i] IN
    /\ h.probe_resistance # Unset => h.basic_auth # Unset
    /\ h.basic_auth # {} \/ \E j \in JSONHandlers : h = Provisioned(j)
    /\ h.upstream # Unset => h.disable_insecure_upstreams_check \/ Secure(h.upstream)
    /\ h.dial_timeout > 0

(* The reset day of a configuration written in a Caddyfile exists in every  *)
(* month.                                                                   *)
ResetEveryMonth ==
  \/ \A length \in 28 .. 31 : writer.resetDay \in 0 .. length
  \/ \E j \in JSONHandlers : writer.resetDay = j.traffic_reset_day

(* A process has one writer, with the settings of the first handler that    *)
(* was ever provisioned, even when the configuration of that handler was    *)
(* refused or has been replaced; and no handler runs without one.           *)
OneWriter ==
  /\ running # <<>> => writer # NoWriter
  /\ IF first = <<>> THEN writer = NoWriter ELSE writer = Settings(first[1])
=============================================================================
