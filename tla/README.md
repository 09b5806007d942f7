# A formal model of the NaiveProxy forward proxy with traffic accounting

TLA+ modules, TLC runs and TLAPS proofs for the fork of `forwardproxy` in
`src/forwardproxy`: a Caddy handler that proxies CONNECT tunnels and plain
requests, counts each user's bytes, refuses users over a quota and resets the
totals once a month.

Run a check with `tlc -config <run>.cfg <module>` and a proof with
`tlapm <module>Proofs.tla`. `PROJECT.json` gives, for each definition, the lines
it models; for each run, what it asks; for each property, a plausible bug that
breaks it; and the list of hazards.

## The system

| Part | State it keeps | Operations | Modelled by |
|---|---|---|---|
| Traffic counters (`traffic_stats.go`) | `trafficStats`, a `sync.Map` of atomic counters | `addTrafficForUser`, called by every copy loop | `TrafficStats` |
| Stats writer | the stats file, its temporary file, the ticker | `loadTrafficStats`, `startTrafficStatsWriter`, `writeTrafficStats` | `TrafficStats` |
| Monthly reset | `lastResetDate` and its file, the archives | `checkAndPerformScheduledReset`, `saveLastResetDate` | `TrafficStats`, `StatsLedger` |
| Admission and routing (`forwardproxy.go`) | none of its own; reads the counters | `ServeHTTP`, `checkCredentials`, `serveHiddenPage` | `Admission`, `QuotaGate` |
| Access control and dialling (`acl.go`, `forwardproxy.go`) | the rule list, fixed by `Provision` | `dialContextCheckACL`, `hostIsAllowed`, `portIsAllowed` | `DialACL` |
| Upstream dialer (`httpclient.go`) | the cached HTTP/2 connection under a mutex | `DialContext`, `http2Conn.Close`, the plain request of `ServeHTTP` | `UpstreamDialer` |
| Tunnel (`forwardproxy.go`) | two connections, one goroutine beside the handler | `serveHijack`, `dualStream`, `flushingIoCopy` | `Tunnel`, `Padding` |
| Configuration (`caddyfile.go`, `byte_size.go`, `Provision`) | the handlers that run; `trafficStatsOnce`, for the life of the process | `UnmarshalCaddyfile`, `parseByteSize`, `Provision` | `Configuration`, `ByteSize` |
| `proxy_monitor.sh` | the archive of the month | `--archive` | `MonitorScript` |
| `proxy_live.sh`, `view_stats.sh`, the status of `proxy_monitor.sh` | none | display | not modelled |

How they meet: `ServeHTTP` admits a request with one read of the counters, dials
through `DialACL` or `UpstreamDialer`, and hands both connections to a `Tunnel`,
whose loops add to the counters. The writer goroutine is the only one that
writes files; it shares the counters with every tunnel without a lock. It is
started once per process, by the first handler that `Provision` lets through.
The scripts read, copy and remove the stats file from outside the process.

What is hard here, and what must be true in spite of it:

* *Accounting.* Tunnels add while a reset takes snapshot, archives, zeroes,
  writes and perhaps rolls back, one counter at a time. A crash may fall between
  any two of these, and any file operation may fail. No byte may be billed
  twice, no date reset twice, no saved total lost, and a failed reset is retried.
* *Admission.* The quota is read once, long before the tunnel opens. A user who
  arrives over quota must not get through, and must not be told why.
* *Dialling.* Rules are asked twice: for the hostname before the lookup, for
  each address after it. The two must agree, and a denied address must not be
  dialled because another one was allowed or failed.
* *Upstream.* A call checks the cached connection under the lock and uses it
  after. Another call, or the peer, closes it in between; errors of `Close`
  replace the errors that led to it.
* *Configuration.* Directives come in any order and number, a load may fail at
  any point, and what a failed load did to the process stays done. A size may
  exceed what an `int64` holds, and the conversion of a float then depends on
  the build.
* *By hand.* The operator's reset copies, asks, kills, removes and restarts beside
  a process that writes and resets by itself.
* *Tunnel.* The handler returns when one direction ends. Nothing may leak, and
  the count has to equal what got across even when a write is short. A padded
  wire may be cut inside a header, a payload or a padding.

## Modules

`TrafficStats` is the core. A step is one atomic access to a counter
(`FindCounter` is `LoadOrStore`, `AddBytes` is `AddInt64`, `ZeroKey` and
`RollbackKey` are `StoreInt64`, `SnapshotKey` and `CollectKey` are one visit of a
`Range`) or one file operation (`OpenArchive`, `FillArchive`, `WriteTmp`,
`RenameOf...`, `SaveGuard`). `wpc` is the place of the writer goroutine. `Boot` is
`loadTrafficStats`, `Crash` loses memory and keeps files, `NextDay` is the clock.
A `Range` visits each key that was there when it began and may visit newer ones,
as `sync.Map` promises. The history variables (`counted`, `billed`, `settled`,
`ahead`, `inits`, `atRisk`, `blind`) are read by properties only. The bills of users
are the archive files themselves: `NoDoubleBilling` sums what `archive` holds over
all dates. `ahead` are the dates whose archive was filled by a reset that has not
reached the stats file, and only those are left out of the sum.

`StatsLedger` is the abstract specification: three numbers per account
(counted, saved in the stats file, billed to an archive) and four steps. A
saved total never shrinks except into a bill that covers it, or in the write
after a `Restart` that could not read the file; saved plus billed never exceed
counted. Its bills are those of resets that reached the stats file; that the
archive files hold no more is `ArchiveInv`, below. `TrafficStats` implements it under the mapping `saved <- what the stats
file holds`, with `blind` (set by a `Boot` whose read failed) for the last case.

`QuotaGate` extends `TrafficStats` by the check of `checkCredentials`: a tunnel is
admitted by the total of its user at that moment, and its copy loops then are the
streams that add. Every behaviour of it is one of `TrafficStats`.

`MonitorScript` extends `QuotaGate` by `proxy_monitor.sh --archive`, with the
operator who declines or goes on and a `pkill` that the process may outlive.

`Configuration` reads `forward_proxy` blocks with one action per directive, or
takes handlers from JSON as they are, provisions them one by one and adopts the
configuration when all passed. Any error drops the load; the writer started on
the way stays. `text` keeps the arguments of the lines read, for the properties.
A handler whose `AuthCredentials` are nil (`Unset`) asks for none; an empty list,
which only JSON can give, asks for credentials that nobody has. `ByteSize` holds
`parseByteSize` as operators over exact numbers, with the widest integer, the
units, the finest fraction and the largest float as parameters.

`Padding` is the framing of `flushingIoCopy` byte by byte: an `AddPadding` loop, a
wire and a `RemovePadding` loop, each of which the proxy runs against a client
that runs the other.

`Admission` has one action per exit of `ServeHTTP` (hidden page, the site and its
PAC file, refusal, version and form errors, fast-open 200, plain request) after
`CheckCredentials`. `dialContextCheckACL` is the two outcomes of `Dial`. Open tunnels
and the reset (`ZeroCounter`, then `KeepZero` or `RollBack`) move the counters.

`DialACL` follows one call of `dialContextCheckACL` from port to dial over the rule
list `Provision` builds. Hostnames are sequences of labels, networks sets of
addresses, and the resolver answers any sequence of addresses.

`UpstreamDialer` has concurrent calls of `DialContext`; a step lies between two
points where another call, the peer or the HTTP/2 reader can act. After the
call, `EndTunnel` is what a CONNECT does with the connection and `EndPlain` what
a plain request does, which closes nothing. `left` records what was let go.

`Tunnel` has the handler's goroutine and the two loops of `flushingIoCopy`, each
split into read, write, count and end, with peers that send, finish or break at
any moment.

`MC...` modules instantiate these for TLC; `...Proofs` modules hold the theorems.
Operators commented *Faulty* are the bugs of the mutants and are not part of any
specification.

## Runs

| Run | What it shows | Bounds |
|---|---|---|
| `stats_faults` | types; stats file never torn; no byte in two archive files, or in one and the stats file or the counters, archives of resets that were cut short left out; guard recorded only for a reset that reached the disk; the accounting implements `StatsLedger` | one user, two bytes, three dates (two of them reset days), any crash, any failure |
| `stats_live` | one reset per date; bytes go missing only when added during a reset; a due reset happens; counted bytes become durable | a named and the nameless user, two dates, any failure, no crash |
| `admission` | nobody without credentials or over quota on arrival reaches the network; refused requests of a shape look alike | two requests at a time of every shape, every configuration, a quota of one byte and counters up to two |
| `dial_acl` | exactly the allowed addresses are dialled; private ones only by a user's rule; the hostname pass agrees with the order when hostname rules come first | every list of up to two user rules, four hosts, two addresses, answers of up to two |
| `upstream_dialer` | one `(nil, nil)` per connection; HTTP/1.1 connections are private; nothing is left open but a displaced connection and that of a plain request; dead ones are abandoned | two callers, two connections |
| `tunnel` | counts equal deliveries; downloads are whole; both goroutines end once the target has | two bytes each way, one sent ahead, both protocols |
| `configuration` | blocks mean their lines; quotas are the sizes written; a handler that runs under probe resistance asks for credentials and reaches only upstreams it may; a Caddyfile's reset day exists in every month; one writer, of the first handler | two lines, two blocks, two loads, four JSON handlers, one of them with an empty list of credentials; an integer of five bits, units up to eight bytes, quarters of a byte, a text past the largest float |
| `padding` | what comes out is what went in, all of it when the wire is whole; frames fit their buffer | bytes of three values, buffers of nine, two padded frames, six bytes to send, every padding and cut |
| `service` | nobody is admitted whose saved total reached the quota; resets by hand and by schedule put no byte in two archives, with the exceptions `BilledOnceByHand` names | one user with a quota of one of his two bytes, one tunnel, two dates, two runs of the script, any crash, reads failing |

Why these are enough to be of interest: two bytes let an add fall before and
after every step of a reset; three dates give a first run, a reset and a second
reset over the state the first left; a quota of one is reached and passed; two
rules are the least that can disagree in order, two addresses that a denied one
can follow or precede a dial; two calls on two connections give every
combination of shared and fresh; two bytes make short writes and split chunks;
two lines are the least that can repeat or disturb each other, two blocks and
two loads that a first handler can be refused or replaced; a payload of three
uses both bytes of a length and frames can be split over every chunking of six;
sizes around one, one unit and the largest integer take every branch of
`parseByteSize`; and two runs of the script give a reset by hand over the result
of another.
What the bounds leave open, the theorems close for safety.

Three runs find a disagreement between code and documentation:

* `stats_byte_lost`: bytes added between the snapshot and `StoreInt64(0)` are
  overwritten (`traffic_stats.go:253`), where the comment above says that losing
  the data is not acceptable. Each key is exposed from its own snapshot to its
  own store, which is at least the writing of the archive.
* `stats_reset_twice`: a crash after the zeroed file is in place and before the
  guard is saved resets the date again, over the first archive.
* `dialer_retry`: a failed round trip whose `Close` succeeds returns `(nil, nil)`
  (`httpclient.go:135`) and the call never carries on to a fresh connection. The
  CONNECT path answers that with a 403; the plain path writes to the nil
  connection (`panic` in `Admission`).

A fourth is an exception that a passing run had to make. A reset writes its archive
(`traffic_stats.go:243`) before it zeroes and persists, so a write that fails
(`:261-272`) or a crash before the rename leaves `traffic_<date>.json` on disk with
bytes the stats file still holds. The comment at `:264` promises that the next
check retries, and while the reset day lasts it does, over the same file. Once
the day is over nothing removes that file, and the next month's reset, or
`proxy_monitor.sh --archive`, archives its bytes again. `NoDoubleBilling` and
`BilledOnceByHand` leave out exactly those archives, the dates in `ahead`; summed
over all dates, TLC refutes the former without any crash: the reset of the second
date is rolled back, the day ends, and the reset of the third archives the byte a
second time.

Also noticed, and not the subject of a run:

* A deny rule for a hostname wins over an earlier rule for its address, or `allow
  all` (`forwardproxy.go:588-598`), where `src/forwardproxy/README.md:170` says "in
  order until a directive matches". `NamePassAgrees` gives the condition under which
  the two agree.
* `dualStream` returns when the download is done, not the upload as its comment
  says (`forwardproxy.go:717`), and the deferred closes cut what is still being
  uploaded: the exception in `WholeUnlessBroken`.
* `src/README.md` says padding is added in the upload direction, while `dualStream`
  adds it to the download, where the user pays for it, and removes it from the
  upload. A padded frame without payload leaves its padding to be read as the next
  header.
* `src/README.md` says that the first handler's quota applies to all. It is the
  path, interval, reset day and archive directory that do, from the first handler
  the process ever provisioned, even one of a configuration that was refused or
  replaced (`OneWriter`). Each handler reads its own `TrafficQuota`.
* Probe resistance asks whether `AuthCredentials` is nil (`forwardproxy.go:192`). JSON
  with `"auth_credentials": []` passes that check, and the handler runs with nobody
  to let in: the exception in `RunningIsSafe`. A block cannot give it
  (`BlockMeansItsLines`).
* `parseByteSize` accepts `NaNB`, which is no limit, against its comment
  (`byte_size.go:29`); a fraction below one byte is accepted as 0, no limit either.
* A process that outlives the two seconds between `pkill` and `rm`, or a scheduled
  reset while the operator is asked, makes the operator's archive and the
  process bill the same bytes; a second archive in a month replaces the first.

No property covers these hazards of `PROJECT.json`, because the code does what they
describe: a reset day without a tick skips its month; plain requests are not
counted; one call on a shared HTTP/2 connection can close it under the others; the
returning handler cuts an upload; a client that vanished holds its tunnel; and a
start without a stats file ignores the guard file.

## Fairness

Liveness is claimed from these assumptions alone:

* `TrafficStats`: `Boot` and the writer's steps are weakly fair, since the ticker
  loop runs for the life of the process and a `Range` over finitely many keys
  ends; and failures do not recur for ever (a periodic write that fails with
  nothing new to write leaves what a successful one would, and is not counted as
  a failure: forbidding it would forbid the idle loop). Tunnels, midnight and crashes are not
  fair: `ResetCatchesUp` and `CountedReachesDisk` excuse a day that ends or a process
  that dies.
* `UpstreamDialer`: each call's steps are weakly fair, because dials and round
  trips end by their timeouts or the connection's end, and the HTTP/2 reader
  comes to know of a connection that is gone. Callers need not call.
* `Tunnel`: the scheduler runs each goroutine, and a peer that is written to
  reads or goes away. No peer is made to speak or to finish, so `TunnelEnds` starts
  from a target that has finished: for a client that vanished silently the code
  guarantees nothing.
* `Padding`: the two loops are weakly fair, as goroutines are; a cut is never
  forced, and `AllComesOut` excuses one.

## Proofs

Each proof module shows an inductive invariant and derives the properties, for
all values of the constants under the named assumptions.

* `TrafficStatsProofs`. `TypeCorrect` is inductive as it stands. Billing is not: what
  is billed plus what is saved stays within what was counted only because of
  what the counters, the snapshot, the image and the archive hold in each place
  of the writer. `BillingInv` says so place by place: outside a reset the counters
  cover the unbilled bytes at most; inside one the snapshot is what the month is
  worth, and what is collected once keys are zeroed was added since. From it
  follow `GuardCorrect` and `StatsFileCorrect`, with crashes and any failures.
  `BillingCorrect` is about the archive files, so it needs `ArchiveInv` too: what they
  hold of a user, `ahead` left out, is at most what resets took out of the stats
  file. Only `FillArchive` and `RenameOfReset` move that sum. A fill, also one over an
  earlier archive of its date, takes the date out of it, and the rename puts it back
  by what it adds to the bill. What a sum over the dates does when one term changes
  (`SumPut`) is shown on the least date at which two partial sums would differ,
  with the library's theorem that every set of naturals has a least element.
  `LedgerCorrect` has no further assumption (`KeepsInv`: outside a reset and a start
  that could not read, the counters cover the file). `OneResetCorrect` assumes `~MayCrash` (`OnceInv`: every settled date not later than the
  guard in memory, or about to be); `stats_reset_twice` shows the assumption is
  needed. `LossCorrect` assumes the same, since a crash loses what was not
  written yet: what is counted and neither billed nor held by a counter was added
  while a reset was under way.
* `ServiceProofs`. `GateRefinesStats` maps every step of the gate to one of
  `TrafficStats` or a stutter, so the invariants of `TrafficStatsProofs` hold in it;
  `QuotaCorrect` then needs only that the counters cover the saved totals outside a
  reset (`KeepsInv`). Steps of the script are not steps of `TrafficStats`, so beside
  it the invariant has to be kept again: removing the file saves nothing, which
  `KeepsInv` allows (`QuotaWithScript`). For the bill the script makes by hand,
  `BillingInv` is stated with one more number per account, the bytes billed
  otherwise: `TrafficStatsProofs` proves it with that number constant and
  `ServiceProofs` with it moving when the script removes the file it has copied, as
  long as the process is down by then and no reset fell in between (`HandInv`).
  `HandBillingCorrect` adds `ArchiveInv`, which the script does not touch.
* `ConfigurationProofs`. `SizesFaithful` is arithmetic over any width and units. The
  invariant follows a handler on its way: its reset day is monthly or a JSON
  handler's from the line on, it is safe from `Provision` on, it has users if it asks
  for credentials or is a JSON handler from first to last, and the writer is that of
  the first. `RunningSafe`, `WriterCorrect`, `MonthlyReset`. What the lines of a
  block leave is inductive once it is known that a directive that may be given once
  leaves something other than the zero setting, and that every quota line kept was
  accepted (`TextInv`); each line then disturbs its own directive only.
  `BlockCorrect`, `QuotasCorrect`.
* `PaddingProofs`. One invariant bounds what was charged by the number of frames
  made, and the two numbers of a header by the values of a byte. `PaddingCorrect`.
  `DeliveryInv` needs what the model does not keep: a history of all the bytes ever
  sent, where the wire begins in it, and where each frame ends. It claims that one
  exists in which every frame is laid out as `Frame` makes it and the receiving loop
  stands at the place its `pc` says (`Located`), or that the wire has ended for good
  (`Dead`). A sender's step extends that history, a receiver's step moves along it,
  and a cut that falls inside a frame leads to `Dead` before a byte of framing is
  written. No frame's number, length or padding is bounded. `DeliveryCorrect`.
* `AdmissionProofs`. A request that came over quota stays so until a reset touches
  the counter, since everything else only adds; and each phase tells what the
  check found. `AdmittedCorrect`, `SameFaceCorrect`.
* `DialACLProofs`. `DialInv` ties position, dialled set and result together; a lemma
  shows that the first match among the hostname rules is the first match of all
  when they come first. `DialCorrect`, `PrivateCorrect`, `NamePassCorrect`.
* `UpstreamDialerProofs`. `DialerInv`: a connection that gave a `(nil, nil)` is closed, a
  caller on a connection without an HTTP/2 client is alone on it, and an open
  connection has a caller, is cached or was let go. `OneNilCorrect`, `Http1Correct`,
  `LeftOpenCorrect`, for any number of callers and connections.
* `TunnelProofs`. `TunnelInv`: what is delivered is counted or pending, and a loop
  ends short only for a broken peer or a closed side. `CountCorrect`, `WholeCorrect`.

Only model-checked: the liveness properties `ResetCatchesUp`, `CountedReachesDisk`,
`AbandonsDeadConn`, `TunnelEnds` and `AllComesOut`, which rest on fairness and are out of
the prover's reach. Every safety property that a passing run checks is a theorem.

The assumptions on the constants are those that the modules name. Those of
`Configuration` say that names of different kinds differ where the code tells them
apart by being empty or nil (`Unset`, which no set of users is either), and that a list of ports is not empty, which
`caddyfile.go:73` refuses; those of `Padding` that a byte has three values or more, so
that a header fits the buffer.

## Abstractions

* A crash is the loss of the process, not of power: what was written stays; it may
  come at any step, and no line of the code stands for it. The
  temporary file is not a variable, because only the rename that follows reads it.
  Saving the guard is one step.
* The calendar is a sequence of days of the month; the ticks are not tied to a
  length of time.
* `AddBytes` of different streams on one counter is one atomic add.
* `Admission`: the credentials of a request are absent, wrong or a user's; base64
  and the user id set for the log are left out. A plain request is one step with
  its possible outcomes. Restarts are left out: they end every request. The reset
  is seen one user at a time.
* `DialACL`: CIDR arithmetic, letters of labels and the reading of rule files are
  sets and sequences. An answer of the resolver is not empty.
* `UpstreamDialer`: TLS, headers and the choice of port are left out;
  `EnableH2ConnReuse` is true, as its constructor sets it; an unknown protocol is a
  failed dial. Close succeeds at most once.
* `Tunnel`: a failing `Hijack` returns to a handler that closes the target alone, a
  failing flush to one that closes both sides; HTTP/2 has neither. Bytes are counted,
  not told apart; its frames are what `Padding`
  delivers. What the client sent ahead of a hijack passes uncounted, as in the code.
* `QuotaGate`: a username has been authenticated; `Admission` models who is. `Quota`
  is that of one handler and does not change.
* `MonitorScript`: `cp` reads one version of the file, since the process replaces
  it by a rename; the archive of the month is its last content. A later start of
  the process, by the script or a supervisor, is `Boot`.
* `Configuration`: an argument is a name or a number and its letters are left out;
  so are the files of `allow_file` and `deny_file`, passwords, and the JSON decoder.
  A `basic_auth` list is the set of its users. An entry of 0 in the quota map is no
  entry, as it is to the gate. The order of Caddy's own start and stop of
  configurations is one step, `Adopt`.
* `ByteSize`: the number written is exact, which holds for 53 significant bits.
* `Padding`: the bytes of a cut wire are lost, and a write is not short: `Tunnel`
  has those.

## Not modelled

* `proxy_live.sh`, `view_stats.sh` and the status of `proxy_monitor.sh`: they print
  what they read of the stats file and of `ss` and change no state.
* The headers that `ServeHTTP` adds and removes, the pool of `http.Transport` behind
  local plain requests, the PAC file's text and the hidden page's: data that no
  decision of the proxy depends on.
* `build.sh`, `build.ps1`, `docker-build`, and the tests, which were read as evidence
  of intent.

## Plan

Done: `TrafficStats` with `StatsLedger`, `DialACL`, `UpstreamDialer`, `Tunnel`, `Admission`,
`QuotaGate`, `MonitorScript`, `ByteSize`, `Configuration`, `Padding`, and the proofs of all
their safety properties.

What could follow, in this order:

1. That `Admission`'s counters are those of `TrafficStats`, by a refinement in place of
   the reset seen one user at a time.
2. That the frames of `Padding` are a pipe of bytes as `Tunnel` assumes one, and the
   framing of a direction inside `Tunnel` its refinement.
3. Rates of the dashboard from two reads of the stats file across a reset.
