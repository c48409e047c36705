# TLA+ models of naive-reality

This directory specifies and model-checks the Go code of the
repository and proves its safety properties: the TCP frontend (`frontend/`), the
HTTP/3 frontend with its BBR congestion controller (`h3frontend/`) and the
terminal client (`tui/`). Paths
below are relative to the repository's root; `PROJECT.json` maps every
definition to the lines it models.

Contents: 1 the system, 2 modules and plan, 3 the modules and the code, 4 the
runs, 5 bounds, 6 fairness, 7 proofs, 8 disagreements, 9 what is left out.

## 1. The system

    application -> local entry (SOCKS5 / HTTP / TUN) -> naive core -> frontend -> upstream proxy
                   \______________ tui __________________/            TCP or HTTP/3

| component | state | operations | what makes it correct |
|---|---|---|---|
| TCP frontend (`frontend/main.go`, `relay.go`, `reality.go`, `status.go`) | accept loop, `active`, the channel `relaySlots`, one goroutine and one socket per client, counters | Serve, handleConn, dialContext, relayConn.Close, serveConn | limits hold, every place and slot comes back on every path, shutdown ends |
| Tunnel relays (six copies of one shape in `frontend/relay.go`, `h3frontend/relay.go`, `entry.go`, `tun_windows.go`) | two copy goroutines, the channel `done`, two sockets | request, dial, answer, copy, end | no leaked socket or goroutine, no truncated transfer, the handler returns |
| Core manager (`tui/internal/coremgr`) | running, generation, cmd, Exits, `core-config.json`, a supervisor goroutine and a process per generation | Start, Stop, the supervisor loop | one generation never disturbs another, Stop ends the core, a crash restarts it |
| Local entry (`tui/internal/entry`) | listeners, conns, closed, accept loops, handlers | Start, acceptLoop, handler, Stop | nothing is served after Stop, ports are freed |
| TUI session (`tui/app.go`, `sysproxy`) | state, cancel, entry, tun, spOn, prevSP; the registry | connect, disconnect, waitExit | what was done to the host is undone exactly once |
| BBR sender, pacer, ack height tracker, bandwidth sampler (`h3frontend/internal/congestion`) | modes, rounds, windows, filters, per-packet states | OnPacketSent, OnCongestionEventEx, SetMaxDatagramSize, TimeUntilSend ... | windows within limits, modes and flags agree, estimates fresh and not overstated |
| BBR containers (`ringbuffer.go`, `packet_number_indexed_queue.go`, `windowed_filter.go`) | slices and positions | push, pop, grow; Emplace, Remove; Update, Reset | they are a queue, a map and a sliding maximum |
| TUN device (`tui/internal/tun/tun_windows.go`, `app_tun_windows.go`) | adapter, stack, two pumps, the routes of the system, the gateway found at Create | startTUN, Create, Close, stopTUN | traffic to the server never enters the device, a failure half-way is undone, Close ends the pumps |
| DNS (`tui/internal/tun/dns.go`, handleUDP) | one query, the endpoint being asked | parse, lookup over DNS over HTTPS, answer | the answer is to the question that was asked, cut or odd messages are survived |
| Profile store and share links (`tui/internal/config`, `sharelink`, the profile page of `app.go`) | profiles in memory, the file and its temporary | Load, Save, Parse, Build, import, activate, copy | a crash loses nothing, a link round-trips, the active profile stays |
| SOCKS5 dialogues (`serveSocks5`, `socks5Dial`) | two byte streams and what was read of each | greeting, request, reply | the tunnel begins with the first byte of payload on both sides |
| HTTP/3 frontend (`h3frontend/main.go`, `config.go`, `origin.go`) | what serve has opened, the website's goroutine and error channel, the watcher, QUIC connections | loadConfig, serve, ServeHTTP | a failure is reported and leaves nothing open, the end of one part ends the others |
| TCP frontend: configuration and status (`frontend/config.go`, `status.go`, main) | the configuration, the status server | LoadConfig, startStatus, /stats | an accepted configuration is usable, the counters need a token |
| qlog; certificates and keys; rates; Chromium patches; scripts | - | - | not modelled, see 9 |

The components meet by calls (the session calls the managers; the sender calls
sampler, filter and pacer), by channels (`Exits`, `relaySlots`, `done`), by
contexts (a cancel kills the core and ends the TUN's tunnels) and by shared
state behind a mutex or atomics (`Manager.mu`, `Stats`). Hard to test are: the
old generation's goroutines that run on beside a new one; the limits of the
frontend on the many early returns of a handshake; which of two copy goroutines
ends first and what is closed then; a key pressed while the core restarts;
registry writes that fail half-way, route commands and a network that changes
between them; a process that dies inside Save; a website that fails while the
HTTP/3 frontend accepts; messages cut at any byte; acknowledgements and losses
in any order and mixture; integer limits of the pacer. `PROJECT.json` lists them as hazards,
each with its line and the properties that would show it going wrong.

## 2. Modules and plan

Order of work, most important behaviour first. Everything up to 8 is on disk.

1. `TunnelServer`, abstract specification `BoundedPool`, proofs in
   `TunnelServerProofs`.
2. `TunnelRelay`.
3. `CoreManager`; `ClientSession` EXTENDS it and composes it with the entry,
   the TUN device and the system proxy; `EntryManager` is the entry in detail.
4. `Filters` (operators), used by `WindowedFilter`, by `BbrSender` and by
   `AckHeight`.
5. `RingBuffer` implements `FifoQueue`; `PacketNumberQueue`, over the sequence
   that queue is, implements `PacketMap`.
6. `Pacer`, `AckHeight`, `BandwidthSampler`. `MCBbrParts` puts the five parts
   of the controller that depend on nothing but their caller side by side
   (`RingBuffer`, `PacketNumberQueue`, `WindowedFilter`, `Pacer`, `AckHeight`);
   the variable `part` says which of them a behaviour drives.
7. `TunDevice`, `DnsResolver`, `ProfileStore`, `H3Serve`, `Socks5`,
   `FrontendMain`; `Bytes` holds what the two codecs share. `MCComponents` puts
   them, with `CoreManager` and `EntryManager`, side by side in the same way.
8. Proofs, one module per group of components that share lemmas:
   `TunnelServerProofs`, `TunnelRelayProofs`, `ClientPartsProofs` (SOCKS5
   dialogues, DNS resolver, core manager), `ClientSessionProofs` (the session, with
   the core manager's lemmas), `ComponentsProofs` (both frontends' main, entry,
   profile store, TUN device, and all components together), `BbrSenderProofs`,
   `BbrPartsProofs` (filter, ring buffer, packet queue, ack height, pacer),
   `SamplerProofs`.
9. Next: the sampler composed with `AckHeight` and `BbrSender`; packet numbers as
   distances, so that the end of PROBE_RTT can be checked as liveness.

Each `MC*` module extends its component with the constants of the runs. A
definition commented "Mutant:" is a wrong variant of the definition after it;
no specification uses it. It documents what the properties are able to see.

## 3. The modules and the code

**TunnelServer.** A connection is a member of `Conn`, accepted at most once.
`loop` and `accepted` are the accept loop of Serve (`Accept`, `AcceptError`,
`SleepOver`, `Reject`, `Admit`, `Spawn`); the test of the limit and the
increment are two steps with handlers running between them. `handler` is the
program counter of the goroutine: handshake steps ("start" to "failed") with
the dial to the camouflage target through `dialContext`, serving steps
("authed" to "h2"), and the two deferred calls as "closing" and "exiting" in
their order. The REALITY fork is external: it may authenticate, fail before or
after it dialled, and close the relay connection once or twice. All four
configurations (mode, relay_enabled) are initial states. An upstream that is
`Silent` takes the request and never answers: serveH1Connect reads the head of
the answer without a deadline and does not watch its client meanwhile, so such a
handler has no step left.

**TunnelRelay.** One tunnel of any of six kinds. Data is a count of chunks
sent, taken and delivered; both ends finish, reset, stall or go on at any
moment, so that a copy can block in a read or in a write on either side. Each
kind's guards say what it closes when the first copy goroutine ends and for how
long it waits for the second. A close wakes what is blocked on the socket that is
closed and nothing else: the local splice that closed its client still waits for
the upstream, and a goroutine blocked on the flow control of an HTTP/2 or HTTP/3
stream outlives its handler until the client's stream ends. The write by which
serveHTTPConnect passes on what was buffered with the request ("drain") waits for
an upstream that does not read. What a
library does to a response writer that is used after its handler has returned is
not modelled. An HTTP/1.1 request that cannot be read is given up without an
answer.

**CoreManager.** Each action is one critical section of `Manager.mu` or one
call between two of them. A generation owns a supervisor, a process and a
context. Inside `cmd.Run` the test of the context and the creation of the process
are two steps (`Launch`, `StartProcess`), and a cancel and a Stop may fall
between them: the process then exists for a moment and os/exec kills it. The configuration file is the profile it holds; it is read at launch.
The caller is one goroutine, as in Bubble Tea's Update; `Cancels` says whether
it cancels the context before Stop (disconnect does, connect does not when the
entry fails).

**ClientSession.** `ui` is the place in connect or disconnect; supervisors run
beside it. An entry manager is named by its connect, and `listening` are those
that hold the ports. The three registry values are "before", "ours" or
"mixed". `regFailed` remembers that Restore failed, at whichever call
(stopRest ignores its error and forgets the settings), or that Enable failed after
its first write; `ProxySettingsKept` is about sessions without such a failure,
and says nothing of the user's settings after one (see 8).

**EntryManager.** Listeners, accept loops and handlers; an accepted connection
is in nobody's table until the next critical section.

**Socks5.** serveSocks5 and socks5Dial of one handler. The streams are sequences
of bytes; what a peer sends is given whole at the start, up to a byte at which
it leaves, and the handler reads from its front, so that payload may already be
there while a message is parsed. A read or write that fails is `AppLost` or
`CoreLost`. The text form through which a destination passes is modelled by
what it does: an address mapped into IPv6, or the text of an address given as a
name, reaches the core as an address of its own family.

**TunDevice.** `tunStep` is the place of the UI goroutine in Create or Close:
the exclusions of the server's addresses, the adapter, the stack, the address,
the routes. One action per command it runs, each with its failure: one in Create
enters Close from there, one in Close is ignored and Close goes on. `routes` are
those of the system; `physicalGateway` finds the `gateway` of now or none, and
`phyGW` is what Create found. `Roam` changes the network and takes the routes
through the old gateway along or leaves them. Two histories exist for the
properties: `kept`, the routes whose deletion failed or was never tried because
no gateway was found, and `flushed`, those the system took with its network.

**DnsResolver.** One query: handleUDP, lookup over the endpoints, answer. The
query, the endpoint's message and the reply are sequences of bytes and both
parsers walk them by offsets as the code does, with the same early returns. A
message that arrives is `Received`: the encoding of its records cut at a byte.

**ProfileStore.** One record per running TUI (memory, cursor, the place in
Save), the file and the temporary file. Save is open, write and rename; each may
fail, and `Die` may come between any two. Names, hosts and fingerprints are
members of `Words`. `Parse` and `Build` work on the parts
of a link; net/url is external. A profile also has the settings of this machine
(`Local`: TLS, concurrency, the local ports, system proxy, TUN), which Build does
not write and Parse fills with `localDefaults`.

**H3Serve.** `hpc` runs through the stages of serve; a stage that opens something
adds it to `open`, and `Unwind` runs the deferred closes in their order. The
website's goroutine, the watcher of the context and the connections run beside
it. `valid` and `filled` are validateAndFill.

**FrontendMain.** main of the TCP frontend around Serve, which is
`TunnelServer`. `frontValid` and `frontFilled` are applyDefaultsAndValidate; a
text is absent, blank, good, good in blanks ("padded"), or bad. A header loses
its trailing blanks on the way ("cut"), the token of the configuration does not.

**MCComponents.** A behaviour drives one part, chosen at the start; the others
stay in an initial state in which none of their fair actions is enabled.

**Filters, WindowedFilter.** The three estimates as a sequence; Update, Reset
and Clear as functions of it; `history` exists for the properties only.

**BbrSender.** The struct is the record `b`; each method is an operator from
record to record and the congestion event their composition in the order of
the code. Bytes are packets, gains thousandths, times ages cut off where the
comparison no longer changes. Sampler results are inputs. The profile and the
ranges of the inputs are one record, chosen at the start from `Setups`.

**RingBuffer, PacketNumberQueue.** Position arithmetic, growth, and the removal
of absent entries at the front, as in the code.

**Pacer.** Budget and timer in integers from `-HalfRange` to `HalfRange - 1`
(2^63 in the code), whose product of rate and time wraps, with the two datagram
sizes that sender and pacer keep, and the rate floor of
`bandwidthForPacer`. `quicSize` is the size QUIC starts with; the configuration
does not bound it, so a packet may be larger than either datagram size, and the
pacer then charges no more than the budget it has.

**AckHeight.** The tracker with its filter; an estimate's event is kept next to
its extra bytes, which order the filter. `options` is what the profile sets.

**BandwidthSampler.** The sampler as a record, with per-packet states, ack
points and A0 candidates. A sample keeps its slopes as numerator and
denominator. Losses follow quic-go as the code uses it: from the oldest packet
on, by a threshold of three packet numbers or by time. Numbers that were skipped
count towards the threshold, as the comment at `bbr_sender.go:622` says of the
library; the library is not in the repository. In one that subtracts them
`NothingForgotten` is shown for connections without skipped numbers only. `earlier` packets are in
flight before the controller is installed. `chooseA0Point` is modelled with the
loop that pops while it counts up to a length that shrinks, so that it drops
only about half the candidates it looks at. `Acknowledged` is the loop over the
acknowledged packets as a recursive function of the packet number, which is the
order of the code's slice.

## 4. The runs

| run | what it shows |
|---|---|
| `tunnel_server` | both limits and the counts behind them are exact on every path; the handlers implement `BoundedPool` |
| `tunnel_server_live` | slots come back, handshakes end, departed clients free their place unless an upstream is silent, a signal ends Serve |
| `tunnel_relay` | the upstream socket is closed on every return; orderly transfers are complete in both directions; handlers return; a cancel ends a local relay whose core goes on reading or is gone; no copy goroutine stays, over HTTP/2 and HTTP/3 once the client's stream is gone |
| `components` | core manager: `running` is exact, Stop finds the current core, a core runs the profile it was started for, a process that comes to be after its generation was left is about to be killed, stopped generations end, a crashed core is restarted although nobody reads `Exits`. Entry: nothing is served after Stop, `conns` is exact, everything ends. SOCKS5: the tunnel begins aligned, success is told only when the core granted. TUN: traffic to the server enters the device only by a route whose deletion failed or in a network that took the exclusions, Close leaves only what it could not delete, pumps end. DNS: whole records and only those are read, the reply fits the question, every well-formed query is answered. Store: saves are atomic and keep every profile, links round-trip but for the settings of this machine. HTTP/3: nothing left open, failures reported, all goroutines end. TCP frontend: an accepted configuration is usable, no counters without a token |
| `client_session` | the user's proxy settings are lost by a failing registry only, no TUN device is forgotten, a changed host has a managed core |
| `bbr_parts` | ring buffer and packet queue refine `FifoQueue` and `PacketMap`, no popped element is retained, the count is exact; the filter's estimates are ordered and fresh, nothing measured later exceeds one, a best within the window is not dropped; without a budget the next sending time is ahead, in packets counted up to the sender's size at most one burst above the highest rate; no height counts bytes that the bandwidth explains, and zero means a new epoch, in both profiles |
| `bbr_sender` | windows in their limits, also with a datagram size that grows at any moment; mode, gain and full-bandwidth flag agree through PROBE_RTT; conservation lasts a round; rate and window do not fall before full bandwidth |
| `sampler` | nothing in flight is forgotten, app-limited marks follow the documented rule; samples are positive, candidates ordered |
| `session_ports`, `core_stop`, `ack_height_reinsert`, `dns_names` | expected violations, see 8 |

An invariant whose name ends in `Inv` is the conjunction of a component's type
invariant with its bookkeeping, each part named and commented in the module
(`CoreInv` is `CoreTypeOK`, `RunningExact`, `StopFindsCore` and
`CoreRunsItsProfile`; `TunnelInv` holds `UpstreamClosed`, `DownloadComplete` and
`UploadComplete`). `PartsInv` and `ComponentsInv` are the conjunctions over the
parts of the two union modules: `ComponentsInv` is `CoreInv`, `EntryInv`,
`SocksInv`, `FrontInv`, `LinkRoundTrip` and the type invariants of the others.
`IInv` and `FilterInv` are inductive; the other proofs strengthen the invariant
of the run, see 7.

Deadlock is checked for the relays, whose ends always have a step left. It is
off where the system may end (a stopped server, a finished session) or where a
bound on packets, generations or connects ends the behaviour.

## 5. Bounds

- TunnelServer: 3 connections for 2 places and 1 relay slot (2 connections in
  the liveness run). One more client than places and two handshakes for one
  slot are what the limits are about; connections are interchangeable
  (symmetry, safety run only).
- TunnelRelay: 2 chunks each way: one can be buffered with the head while
  another is in the copy goroutine.
- CoreManager: 4 generations (5 in `core_stop`), `Exits` of 1 place (2) instead
  of 4, two profiles: an old, a stopped and a new generation overlap and
  `Exits` fills.
- ClientSession: 4 generations, 3 connects, one profile.
- EntryManager: 3 connections on 2 listeners: one waits in the backlog, one is
  between Accept and `conns`, one is served.
- TunDevice: 2 calls of startTUN, one change of the network, two profiles: a
  server with two addresses, one of which the user excluded already, and settings
  that are refused. Every command of Create and Close may fail.
- DnsResolver: 2 endpoints for the code's list; messages of up to two records
  of every kind the parser tells apart, one of them cut at every byte; 7 queries.
- ProfileStore: 1 TUI, 2 profiles, 3 links (8 says what two TUIs do), any number
  of crashes.
- H3Serve: 2 QUIC clients and a configuration for each setting that changes
  what is opened.
- Socks5: every address type, both streams cut at every byte of a dialogue, two
  bytes of payload on either side, which shows a shift of one byte.
- FrontendMain: a configuration for each refusal and default.
- WindowedFilter: window 4, samples 0..3, 9 moments: a quarter and a half of
  the window differ, three estimates can differ, and one can expire after
  another has.
- BbrSender: 4 to 6 packets, 2 or 3 outstanding, windows of 1 to 4 packets,
  cut-off times of one tick, a gain cycle of three phases. One setup lets time
  pass and samples be app-limited, one loses packets in any order, one changes
  the datagram size. Every mode, PROBE_RTT from each of them, both recovery
  phases and the exit on losses occur.
- RingBuffer: up to 8 slots, growth 0, 1, 2, 4, 8, each position of the head.
  PacketNumberQueue: 6 numbers with gaps.
- Pacer: a second of 4 ticks, rates 0, 3 and 5, 14 idle ticks, integers of 7
  bits, QUIC sizes unknown, below, at and above the seeded 3: at the highest rate the product of rate and time overflows into the
  negative numbers after 13 ticks, and the guard of Budget acts. In the code that
  is after 7 s of silence at 10 Gbit/s. The product passes 2^64 after about 15 s;
  that case is not run.
- AckHeight: a window of 2 rounds for 10, 5 rounds, bandwidths 1 to 3.
- BandwidthSampler: packets 0..4; 4 outstanding, gaps, one packet from before
  the controller and a clock to 2, or, with overestimate avoidance, 3
  outstanding and a clock to 3.

## 6. Fairness

Only what the code or the scheduler guarantees is assumed, always weakly.

- `TunnelServer!Fairness`: goroutines are scheduled; each handshake step ends
  because handleConn sets a deadline and the dialer has a timeout; the listener
  is closed by the context's goroutine; a serving step has to end only when its
  client has gone, since ReadRequest and the tunnel have no deadline. The
  HTTP/1.1 handler of a connection whose upstream is `Silent` does not even then:
  up.Write and ReadResponse have no deadline and do not watch the client.
- `TunnelRelay!FairSpec`: goroutines that are not blocked run, the local relays'
  requests, dials and answers have deadlines, the frontends' last wait a 5 s timer.
  Nothing is assumed of the two ends, which may stall for ever, nor of how a
  frontend opens, which reads the upstream's head without a deadline. Where a
  property needs an end to move it says so: `CancelEnds` supposes for the entry's
  relays that the core does not stall for ever, since Stop of the entry closes
  the client's side only.
- `CoreManager!CoreFairness`: the supervisor runs, the backoff ends, a process
  whose context is cancelled or that was killed dies, and a caller that entered
  Start or Stop leaves it; one that has cancelled the context calls Stop, which
  is the next line of disconnect. Nobody has to read `Exits`, no core has to crash.
- `EntryManager!EntryFairness`: accept loops and handlers run; a handler whose
  connection was closed ends. That is `CancelEnds` with its hypothesis: the
  upstream of these handlers is the core, which the same disconnect kills.
- `TunDevice!TunFairness`: the commands of Create and Close end; a pump ends once
  its adapter is closed or its context cancelled. Nobody has to press a key and
  no command has to succeed.
- `DnsResolver!DnsFairness`: the request to an endpoint ends, with an answer or
  with the timeout of its client.
- `H3Serve!ServeFairness`: main, the watcher and the website's goroutine run, and
  http3 ends the connections of a server that was closed. Neither a signal nor
  a failure has to come. The end of a connection is the library's; a handler in
  ReadResponse (`h3frontend/relay.go:60`, no deadline) may outlast it and ends
  with the process, which exits when serve has returned.

## 7. Proofs

Checked by TLAPS for every value of the constants that satisfies the named
ASSUMEs of the component's module, so for any number of connections, chunks,
generations, packets, rounds, configurations, profiles or links. The ASSUMEs
say what the constants are (finite `Conn`, positive limits, bounds that are
numbers, configurations that are records of the right shape) and what the code
fixes (`GainCycle`: one phase above 1, one below, the others 1; `HalvesNoIPv4`:
the two half routes are no host addresses); TLC evaluates them in the runs.

Each proof has the same shape: a strengthened invariant, which TLC checked on
the run's instance before it was proved, a lemma for the first state, a lemma or
a case per action, and the theorem by PTL. What the strengthening adds is what
makes the component correct, so it is listed here.

**TunnelServerProofs.** Theorems `TypeCorrect`, `Invariance`, `ActiveCorrect`,
`SlotsCorrect`, `SocketsCorrect`, `ConnPoolRefinement`, `RelayPoolRefinement`.
`ActiveExact` alone is not inductive: that the accept loop's increment is due
to a handler about to exist needs `AcceptInv` (what the loop holds between test
and spawn), that no relay connection gives its slot back twice needs
`RelayInv`, and that a socket is open only while its handler is counted needs
`SocketInv`. `IInv` is their conjunction with `TypeOK`, `ActiveExact` and
`SlotsExact`. `HandlersStep` and `HoldersStep` say how a step changes the two
sets that are counted (by at most one member); the cardinality facts of
`AddOne` and `RemoveOne` do the rest. The refinements map the pool's users
to the counted set; each action takes, returns or keeps one place.

**TunnelRelayProofs.** `TunnelCorrect`: `TunnelInv` for all six relays and any
number of chunks. `TunnelIInv` adds which goroutines exist in which place of the
handler (`PhaseInv`), that every copy that ended has put one token into `done`
(`TokenInv`), that a chunk that was taken is delivered or in the hand of its
goroutine (`ChunkInv`), and which direction ends first while one side stays
(`DownloadFirst`, `UploadFirst`): complete transfers follow from the last two.

**ClientPartsProofs.** SOCKS5: `SocksCorrect` is `SocksInv` for any applications
and cores that send the messages of RFC 1928 (`SocksPeers`: any version, methods,
command, code, port, payload and address field whose length fits its type; other
types of any length) and leave at any byte. `AppLayout` and `CoreLayout` say where
each field lies in a stream, `MessageLength` that a header that is accepted gives
the length of what was sent, `HostForwarded` that the destination written to the
core is the canonical form of the one that was read. `SocksIInv` says for each
step of the handler how far each stream has been read (`RequestOf`, `ReplyOf`) and
what was written.
DNS: `DnsCorrect` is `DnsAnswers` for any queries and any responses of the types
`Datagram` and `Message` (up to 65535 records of up to 65535 bytes, any header
fields, anything behind the question, cut at any byte), under one hypothesis,
`PlainOwners`: no owner name is a label followed by a pointer. Without it the
property is false, which is the run `dns_names`. The name of the question is the
one of `Question`. The parsers are recursive functions. `LabelsSkipped` shows that the walk
over labels is defined at every offset of any packet, `ParseRounds` that
`parseAnswers` is where its loop stands after as many rounds as the header counts;
both are shown for the least number at which they would fail. `Flattened` and
`FlatPart` say where each part of a concatenation lies, `HeaderLayout`,
`QuestionLayout` and `RecordLayout` where the fields of a message are, `RoundReads`
what a round does at the beginning of a record, whole or cut, and `WholeFirst` that
the records that arrived whole are the first ones: so `AnswersFound`, that
`parseAnswers` returns their addresses. `QueryParsed` and `BuildsResponse` are the
same for the query and the reply. `DnsInv`, that no endpoint heard so far had an
address while the lookup goes on, completes the argument. `DnsTypes` and
`DnsAnswersQueries` need no hypothesis: they rest on `ParseType`, which holds for
any string of bytes.
Core manager: `CoreCorrect` (`CoreInv`), `LateCoresDoomed` (`LateCoreDoomed`).
`CoreIInv` adds what the caller holds between its critical sections (`CallInv`),
that a process is alive only while its supervisor waits for it (`GenInv`), that
`cmd` and the file are the current generation's from the making of the command
to the return of Run (`CurrentInv`), and that its supervisor leaves only when its
context is cancelled (`LeaveInv`). `LateCoresDoomed` says that no Run of a
generation that was left passes the test of its context, and that a process
created by one that had passed it before has a cancelled context, by which os/exec
kills it. It assumes that the caller cancels before Stop (`Cancels` within
`{TRUE}`), as disconnect does; without it the property is false, which is the run
`core_stop`.

**ClientSessionProofs.** `SessionRecordCorrect`, `ProxySettingsSafe`,
`HostHasCore`. `SessionIInv` adds to `CoreIInv` that the
current context is cancelled only between disconnect's cancel and its Stop
(`ContextInv`), that whatever was changed on the host has a managed core or is
about to be undone, with a registry that is "ours" while `spOn` (`HostInv`), and
which call each step of connect and disconnect is in (`UiInv`).

**ComponentsProofs.** `ServeCorrect`: past its loading the configuration is usable
and nothing is open outside serve (`MainInv`), the website's error is with its
goroutine or in the channel while main accepts (`ErrorInv`), only a signal or
that goroutine cancels the context (`ContextInv`); filling a valid configuration
gives a usable one (`FilledUsable`).
`FrontCorrect`: the same for the TCP frontend (`FrontFilledUsable`), and no
counters without a token.
Entry: `EntryReleases`, `EntryTableExact`, with the
listeners exactly known and an accepted connection held by one accept loop.
Store: `StoreTypes`, `LinksComeBack` (a copied link yields its profile with the
local settings of a new one) and `StoreKept`, the action property
`StoreSafe`. `StoreKept` assumes one TUI (`OneTui`): `SaveInv`, that the
temporary file is what this process wrote, is false with two (see 8).
TUN device: `TunRoutesCorrect`, for any profile and gateways, any failing command
of Create or Close and any change of the network. `TunIInv` says at which step
which routes are there: the server's addresses are excluded before Create begins
(`ServerExcluded`), a gateway for them is known before the first route is added
(`GatewayKnown`), halves that no failed command left (`Diverted`) go into the
device only from then until Close has removed them (`HalvesInv`), all exclusions
were added before the first of them and only the network takes one away
(`ExclusionsFirst`), and in a network that stays the same every route is the
device's or was left by a command of Close that failed (`StableInv`).
`ComponentsCorrect` is `ComponentsInv` of the union module `MCComponents`: a step of
it is a step of one component and leaves the others alone, so the conjunction of
the inductive invariants (`ComponentsIInv`) holds by the lemmas of each.

**BbrSenderProofs.** `SenderWindows`, `SenderModes`, `SenderConserves` and the
action property `SenderStartup`. The event is the composition of twelve
methods; for each there is a lemma that says which fields it may change (`Same`)
and that it keeps `Core` (types, and limits that are packet counts times the
datagram size). `SenderIInv` adds the agreement of mode and gain (`Modal`), that
the recovery window is at least the minimum in recovery, and that the round ends
no earlier than the packet with which recovery began: without it conservation
could end within the round.

**BbrPartsProofs.** Filter: `FilterInvariance`, `FilterOrdered`, `FilterFresh`,
`FilterDominates`, `FilterKeepsBest`; `FilterInv` is inductive, and
`UpdateFacts` collects what one Update guarantees, the promotion of two
estimates at once included. Ring buffer: `RingCorrect` and the refinement
`RingIsFifo`, from `RingIInv`: the slots from head to tail are exactly those
that are not the zero value. Packet queue: `QueueCorrect` and the refinement
`QueueIsMap`, from `QueueIInv`: the count is the number of present slots, the
front slot is present, and a slot belongs to the packet of its distance from
the front. Ack height: `HeightCorrect` and the action property `HeightEpochs`.
Pacer: `PacerBounded` and `PacerCorrect`, from `PacerIInv`: the history `excess`
and the budget, in bytes times ticks, make up at most one burst of some datagram
size not below the pacer's, and the sender's size is not above the pacer's. The
excess counts a packet up to the sender's size: what a larger one carries beyond
that is not charged by the code either, so that a connection may exceed its rate
in the proportion of the two sizes (see 8).
`PacerBounded` needs only that such a burst is an integer of the machine
(`BurstsFit`): when the guard of Budget sets the budget, so much time has passed
that nothing of the excess is left. `PacerCorrect` adds that the timer lies
ahead; it assumes that the product of rate and idle time stays a burst below
twice `HalfRange` (`ProductsFit`), and fails without it (see 8). Both hypotheses
are formulas over the constants and hold for those of the run.
`PartsCorrect` is `PartsInv` of the union module `MCBbrParts`, from the step lemmas
of the parts.

**SamplerProofs.** `SamplerCorrect`, `SamplerRemembers`, `SamplerPhases`.
`SamplerIInv` says that what is remembered of a packet is of the past (its times,
its bytes sent and acknowledged), that no candidate is later than the point the
next epoch would add, that the recorded phase is the sampler's and ends with a
packet that was sent, and that packets in flight carry the mark of the phase
they were sent in. `Survivors` is the argument for `NothingForgotten`: a packet
that stays in flight is at most two behind the largest acknowledged, or newer
than everything lost. The loop over the acknowledged packets is defined
(`LoopDefined`) and keeps `LoopInv` for as many turns as there are packets; both
are shown for the least number at which they would fail.

Only model-checked:

- liveness, which needs fairness and ENABLED: the properties of
  `tunnel_server_live`, those of `tunnel_relay` but `TunnelInv`, and `StoppedEnds`,
  `CrashRestarts`, `StopEndsAll`, `TunEnds`, `QueryAnswered`, `ServeEnds`.

Every invariant and every action property of the passing runs is a theorem, some
under the hypotheses named above (`PlainOwners`, `OneTui`, `Cancels`, `ProductsFit`).

## 8. Disagreements between the code and what is said of it

Four are runs TLC must find violated; `PROJECT.json` quotes the lines.

- `core_stop`: Stop between the assignment of `m.cmd` and the start inside
  `cmd.Run` misses the process; the caller that does not cancel leaves it alive.
- `session_ports`: pressing c while "reconnecting" replaces `entry` and
  `cancel` before Start refuses; the old manager's ports stay bound.
- `ack_height_reinsert`: events carry round 0, so heights that are reinserted
  when the bandwidth grows expire at once in a connection older than the window.
- `dns_names`: a record whose owner is a label followed by a compression
  pointer, as RFC 1035 allows, is not found by parseAnswers, and neither are
  the records behind it.

Met while modelling, and not checked by a run:

- The counter `relays` of the frontend also counts handshakes that were refused
  or whose dial failed, where a comment says relayed probes.
- The local splice waits for a silent client after the upstream has closed,
  where a comment says until one side closes.
- Enable of the system proxy that fails half-way leaves settings that nobody
  restores, and a Restore that fails leaves ours: its error is ignored and the
  saved settings are forgotten (`regFailed` above).
- An HTTP/1.1 handler of the frontend waits for a silent upstream without a
  deadline and without watching its client, and keeps its place (`Silent`).
- A half route whose deletion fails, or a network that takes the server's route
  along, sends the tunnel into itself (`kept` and `flushed` in `NoLoop`).
- With a configured packet size above the 1280 that is seeded, and MTU discovery
  off, packets are larger than the sender believes; the pacer charges at most the
  budget it has.
- A congestion event with losses only does not move `endRecoveryAt`, so
  recovery may end in a round that had losses.
- The pacer's guard against overflow sees negative products only: past 2^64 the
  product is small again and the timer may lie in the past, at which the sender
  spins (TLC finds this for `NoSpin` with constants that break `ProductsFit`).
- Packets in flight before the controller is installed break the equation
  stated for `bytesInFlight`.
- handleUDP answers queries to port 53 of any address, where a comment speaks of
  the virtual gateway.
- Close of the TUN device asks for the gateway again: after a change of the
  network the exclusions through the old gateway stay.
- Two TUIs share one temporary file, and a rename may put in place what the
  other has half written; a store that Load cannot read is replaced by the
  next import.
- Activating the second of two profiles of one name selects the first.
- A status token that ends in a blank passes the validation and never matches.

## 9. Not modelled

- Contents of messages: HTTP headers, the core's JSON, log texts, views.
- The comparison of credentials by hashes in the HTTP/3 origin: its outcome is
  an input. The QUIC and HTTP/3 servers are external.
- `inboundPacket`, which drops what is neither IPv4 nor IPv6.
- qlog sampling and the smoothed rates: diagnostics with one timestamp of state.
- `cert.go`, `genkey.go`: file and cryptography calls. `tlsserve.go`: the website
  of the end-to-end tests, with an accept loop of its own and one goroutine per
  connection that answers a fixed page; no limit, deadline or shared state.
- What http2 and http3 do to a response writer that is used after its handler
  has returned.
- The end of PROBE_RTT as liveness: packet numbers grow without bound in the
  model and would have to become distances (plan, 8).
- REALITY, TLS, HTTP/2, QUIC and gVisor are libraries; they appear as what the
  code sees of them.
- The Chromium patches in `patches/` change a tree that is not in the
  repository; scripts, packaging, deployment and tests are one-shot tooling.
- `OnPacketNeutered`, `SetWindowLength`, `MinFilter` and
  `startNewAggregationEpochAfterFullRound` are not used by the program.
- Overflow other than the pacer's: integers are unbounded.
