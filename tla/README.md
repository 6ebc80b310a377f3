# A TLA+ model of Lightway

Lightway is a VPN protocol: a tunnel of IP packets over TLS 1.3 (TCP) or DTLS
1.3 (UDP), with an optional faster data plane called ExpressLane. This project
models the parts of the Rust implementation whose correctness depends on the
order of things: two ends that exchange messages over a network that loses and
reorders them, threads that share a window or a map and release its lock between
two steps, timers that race answers, sockets that block in the middle of a frame,
and callbacks that fire after the state they were armed for is gone.

Every definition is a translation of the source; `PROJECT.json` gives the lines
each one stands for. TLC checks the modules on small instances, TLAPS proves
some of the results for every value of the constants.

## 1. Inventory

| Component | Source | State it keeps | Operations | Hard because |
|---|---|---|---|---|
| Connection state machine | `lightway-core/src/connection.rs`, `connection/key_update.rs`, `app-utils/connection_ticker.rs` | state, tick interval and timer, key update state, TLS session | handshake, authentication, ticks, key update, disconnect, teardown | lost and reordered datagrams, ticks in flight, two ends closing at once |
| ExpressLane key exchange | `connection.rs`, `connection/expresslane.rs`, `lightway-expresslane/src/session.rs` | state, counter, retransmissions, four key slots, version | rotate, retransmit, ack, degrade, install, promote | acks of superseded configs, lost configs, AEAD that refuses a key |
| ExpressLane receive and send half | `replay_window.rs`, `session.rs`, `aead/pool.rs` | window, counter, keys, pools of ciphers | preview, open, commit; reserve, seal, stage, promote | threads that share everything through `&self` |
| ExpressLane health check | `connection.rs` | counters, two leaky buckets | compare, strike, degrade | ends that count at different times |
| Server connection manager | `lightway-server/src/connection_manager.rs`, `connection_map.rs`, `connection.rs`, `io/outside/{udp,tcp}.rs` | two maps, pending rotations, weak and strong references | look up, create, float, rotate, finalize, evict, disconnect | every operation takes several locks in turn |
| Server inside loop, IP pools, send queue | `server/src/lib.rs`, `ip_manager.rs`, `send_queue.rs` | pools, map of IPs, a window of datagrams | allocate, free, look up, forward, flush | a looked-up connection may be gone, tasks that send outside the window |
| UDP receive | `server/io/outside/udp.rs`, `batch_receive.rs`, `client/io/outside/udp.rs` | slots of a batch | receive, handle, reset | slots are reused |
| Server statistics, idle eviction | `statistics.rs`, `offload_stats.rs` | ages, baselines by session id | poll, report, evict | ids rotate under the poll |
| Keepalive | `lightway-client/src/keepalive.rs` | state, timeout, channel | six messages, two timers, cancel | replies and reports in any order and state |
| Path MTU discovery | `connection/dplpmtud.rs`, `dplpmtud_timer.rs` | probe state, ids, timer | probe, pong, timeout | stale ticks, probe id wrap |
| Fragmentation | `connection/fragment_map.rs`, `wire/data_frag.rs` | fragments by 16-bit id, recency | cut, add, merge, evict | overlap, id wrap, eviction |
| Send path and GSO | `connection.rs`, `io_adapter.rs`, `gso.rs` | pending queue, send buffer, batch | send, queue, flush, cut, batch | sockets that block in the middle of a frame |
| Codec negotiation | `connection.rs`, `encoding_request_states.rs` | request id, pending request, retries | request, retransmit, respond, downgrade | stale requests and answers |
| Wire format, frame parsing | `wire.rs`, `wire/*`, `borrowed_bytesmut.rs` | receive buffer | encode, decode, read loop | arbitrary chunks, refused frames |
| Plugins, translation, TUN | `plugin.rs`, `utils.rs`, `io/inside/tun.rs`, `tun.rs`, `iouring.rs` | addresses, ring, slots, permits | rewrite, clamp, run chains, read, write | incremental checksums, completions in any order |
| Client task, selection, socket | `lightway-client/src/lib.rs`, `io/outside/udp.rs` | tasks, signals, socket mode | connect, choose, reconnect, tear down | `select!` with guards, signals that never come |
| Route, DNS, network monitor | `route_manager.rs`, `dns_manager.rs` and platforms, `network_change_monitor.rs` | routes, resolver, snapshots | install, replace, restore, detect | aborts at awaits, crashes, other programs |
| Mobile client | `mobile/lightway.rs` | tasks, deferred connections | connect, defer, choose, clean up | ends and signals that cross |
| TLS backends, authentication, configuration, metrics | the rest | none, or a library's | | sequential; bytes and system calls |

How they interact. A `Connection` is driven by three tasks: the reader hands it
datagrams or stream bytes, the ticker delivers ticks it asked for through a
callback, and the event task consumes the events it emits. On the client those
events also feed the keepalive task, which calls back into `Connection`. On the
server they drive session id rotation in the `ConnectionManager`, which also
serves the receive loop (lookup by address, else by session id) and the eviction
timers; when a `Connection` authenticates it draws an inside IP and when it
disconnects it gives it back. ExpressLane control frames travel inside DTLS and
are handled by `Connection`; ExpressLane data is sealed and opened by threads
that share only the session. Inside packets pass TUN, translation, clamping,
plugins, fragmentation or segmentation, the pending queue and the socket, in
that order, and back.

What makes each part correct, in one line each: no tunnel is Online on one end
only by mistake, and what is lost is sent again (Connection); no packet is
encrypted under a key the receiver lacks, and Degraded is final (key exchange);
no packet is delivered twice and no fresh one refused (window); no counter and no
cipher is used twice (sealing); an inside IP has one holder and a session id one
connection (manager, inside loop); a dead path is found and a live one is not
given up (keepalive, health); what is reassembled, parsed, segmented or
translated is what was sent (data path); what the client did to its host is
undone, and nothing it waits for fails to come (client).

## 2. Modules

| Module | Models | Checked in |
|---|---|---|
| `AntiReplay` | what a receiver promises: a set of seen counters and a horizon | abstract |
| `ReplayWindow` | the bitmap and the preview, open, commit steps; implements `AntiReplay` | `MCPackets` |
| `LaneSeal` | reserve, read keys, take a cipher, seal, give back; stage and promote | `MCPackets` |
| `FrameChannel` | what a connection promises of its peer's frames | abstract |
| `FrameStream` | every frame's encoding and the read loop; implements `FrameChannel` | `MCPackets` |
| `InsidePath` | a packet from the client's TUN to the server's and back | `MCPackets` |
| `Uring` | the io_uring task of the TUN, kernel and application | `MCPackets` |
| `Keepalive` | the task, its channel and the tasks around it | `MCPackets` |
| `Expresslane` | both ends of the key exchange and the lossy control channel | `MCExpresslane`, `MCDatapath` |
| `ExpresslaneHealth` | the loss check and its leaky buckets | `MCDatapath` |
| `Dplpmtud` | path MTU discovery, its timer and a changing path | `MCDatapath` |
| `FragmentMap` | cutting, reassembly and eviction | `MCDatapath` |
| `SendPath` | pending queue, I/O adapter, segmentation and batches | `MCDatapath` |
| `Codec` | negotiation of the inside packet codec | `MCDatapath` |
| `Connection` | both ends of a tunnel, the network, readers and tickers | `MCConnection` |
| `ConnectionManager` | maps, rotations, IPs, one action per lock region | `MCConnectionManager` |
| `InsideLoop` | inside loop, IP pools, send queue | `MCServer` |
| `UdpReceive` | single and batched receive | `MCServer` |
| `ServerStats` | activity, offload statistics, eviction | `MCServer` |
| `ClientSelect`, `MobileConnect` | choosing among servers, desktop and mobile | `MCClient` |
| `ClientTask` | the tasks of a connection and their end | `MCClient` |
| `ClientUdp` | the connected UDP socket | `MCClient` |
| `Routes`, `Dns`, `NetworkMonitor` | the client's hold on its host | `MCClient` |
| `PacketProofs` | theorems about `ReplayWindow`, `LaneSeal`, `Keepalive`, `Uring` and `InsidePath` | TLAPS |
| `ExpresslaneProofs`, `ConnectionProofs` | theorems about the modules they are named for | TLAPS |
| `DatapathProofs` | theorems about `Codec`, `Dplpmtud`, `ExpresslaneHealth`, `FragmentMap` and `SendPath` | TLAPS |
| `ManagerProofs`, `SessionProofs` | theorems about `ConnectionManager`: inside IPs, then session ids | TLAPS |
| `ServerProofs` | theorems about `ServerStats`, `UdpReceive` and `InsideLoop` | TLAPS |
| `ClientProofs` | theorems about the client's modules and their gathering in `MCClient` | TLAPS |

`Connection` composes two ends with a network and the tasks around them,
`ConnectionManager` and `InsideLoop` the server's tasks over shared maps,
`Expresslane` and `Codec` two ends over a lossy channel. `MCPackets`,
`MCDatapath`, `MCServer` and `MCClient` gather modules that meet only through
their callers: the variable `focus` says which of them a behaviour exercises, the
others rest in an initial state, and the state space is the sum of theirs, not
the product. Nothing that two of these modules could do to each other is claimed
there.

An invariant of a run is a conjunction of named parts (`SendSafe` of
`StreamIntact`, `AcceptedAccounted`, ...), each with its own comment in the
module. Definitions marked as mutants or slips, or named for a slip just before
the definition they distort, are deliberate errors that make sure each property
can fail; no specification uses them.

Notes on the correspondence, module by module:

- `ReplayWindow`. A packet is its counter and whether it is authentic.
  `opening[w]` is the packet thread `w` holds between the two lock regions of
  `try_from_wire`; `decrypt_into` has the same steps. The blocks of 64 bits are a
  function from slots.
- `LaneSeal`. One action per step of a sealing thread; writers of the keys wait
  for readers. `set_version` is allowed until the first packet, as its caller
  ensures.
- `Expresslane`. A key is the number of the config that shares it. The verdict of
  the health check is a free choice of `Degrade`; `ExpresslaneHealth` models the
  check itself. `Timely` says that the retransmission timer outlasts a round
  trip; safety is checked without it.
- `Connection`. A call is an operator that returns the connection after it, the
  messages it wrote and its error, so a write that fails leaves exactly the
  fields assigned before it. `env` collects the surroundings. The TLS library is
  external: its handshake is three messages, it repeats an unanswered flight
  `env.resends` times and then reports a timeout. Once Online an end sends traffic
  of its own accord: the client's keepalives, the server's Ping when it rotates
  the session id, data of both; on datagrams it may overtake the AuthSuccess.
- `ConnectionManager`. `Alive(c)` says that some `Arc` to `c` is left. Random
  64-bit session ids are fresh numbers.
- `Dplpmtud`. A manager is a record, a method maps it to the one it leaves, whose
  field `out` is the returned action. Probe ids wrap after `IdSpace`.
- `FragmentMap`. A piece remembers which bytes of which packet it carries; ids
  wrap after one or two packets. The offset word is that of the code, whose
  more-fragments flag is bit 13 (`data_frag.rs`).
- `SendPath`. A call runs under the connection's lock and is one action; what the
  socket takes of it is an input.
- `FrameStream`. Bytes are naturals below 256; widths of fields are constants.
  Every frame kind, limit and refusal of `wire/` is there.
- `InsidePath`. A checksum word has 16 values instead of 2^16; one's complement
  arithmetic is the same, and all values occur.
- `Uring`. One action per stretch of the loop between two points where the kernel
  or the application can act.
- `InsideLoop`. The IP manager's lock and the connection's are taken in turn.
- `UdpReceive`. Which datagrams were cut is known only where the receive call says
  so (`rx_role.flags`): `recvmsg` and `recvmmsg` do, `recvmsg_x` never does, and
  the client's single read cannot.
- `ServerStats`. The first reading of a session id is its baseline: `skipped`
  counts the bytes baselines took, `hidden` says of whom they were the last sign
  of life.
- `ClientSelect`, `MobileConnect`. A step is an iteration of a biased `select!`;
  `armed` is the guard as it was when the `select!` started. The runtime runs all
  that is queued before it polls the loop again, so a connect result and the end
  of the timer can both be there; `stale` and `mstale` remember that the timer's
  branch was then disabled with a candidate at hand.
- `ClientTask`. A step is a stretch of one task of the single-threaded runtime
  between two awaits.
- `Routes`, `Dns`. Each call into the operating system is a step of its own, after
  which the task may be aborted or the client crash. The server's old route is
  taken from the manager in one step and deleted in the next; a delete the kernel
  refuses leaves its route in `stuck`. A host may have no `resolv.conf`, and the
  user of a Mac a DNS value of his own on a service (`manual`).

## 3. Runs

States are distinct states; each run ends within three minutes on two workers.

| Run | Bounds | Shows |
|---|---|---|
| `packets` | window of 3, counters to 7, two receive threads; two frames out of 18 samples in all chunks; keepalive timeout of two intervals, channel of two, four calls; ring of two, two packets each way, one error; two sealing threads, two keys, a pool of one; chains of up to three plugins; 490,727 states | `NeverTwice`, `OnlyAuthenticMoves`, `Implements`, `FramesIntact`, `NoFalseAlarm`, `SilenceFound`, `UringSafe`, `SendsDrain`, `LaneSafe`, `TunnelTransparent` |
| `expresslane_safety` | versions 2 and 1, two client configs, one of the server, one retransmission, client may degrade, one data packet; 721,489 states | `PromotedWasInstalled`, `VersionAgreed` |
| `expresslane_live` | five configs each, three losses, one retransmission, one data packet, timers that outlast a round trip, fairness; 52,705 states | `Settles`, through exhausted retransmissions; `GraceKept` |
| `connection_safety` | DTLS, one loss, any reordering, timers at any moment, refusals, one key update, stop, eviction; 727,465 states | `TunnelSafe`, `DisconnectedFinal` |
| `connection_live` | a TLS stream with a failing write, two keepalives or data frames, stop, eviction; and DTLS with two losses and three repeats, one such frame; 29,143 states | `NoProtocolError`, `BothEnd`, `ComesUp`, `KeyUpdateCompletes` |
| `manager_safety` | UDP and TCP, two connections, two addresses, one IP, three session ids, two receivers, one disconnecter; 630,560 states | `IpsConserved`, `MapsExact`, `EndedForgotten` |
| `datapath` | probes of sizes 2 to 5 on paths of 1, 3, 5, one change, ids modulo 3; two packets in two or three fragments, ids modulo 1 or 2; queue of two, batches of two, four frames; three codec requests; three windows of five kinds of path, with bursts in flight; key exchange with failing AEAD; 281,081 states | `DiscoverySafe`, `FragmentsRejoined`, `SendSafe`, `NegotiationSafe`, `HealthExact`, `DatapathSettles`, `DegradedIsTerminal` |
| `server` | two clients on two addresses of two pools, batches of two; datagrams of one to three units in slots of two; one offloaded session over three ids; 239,339 states | `InsideSafe`, `QueueDrains`, `ReceiveExact`, `StatsSafe`, `EvictedSilent` |
| `client` | three servers, two uplinks and three route events, three runs with crashes, two addresses with a clock of four, three endpoints; 155,415 states | `ChoiceSafe`, `TaskSafe`, `NetworkSafe`, `HostRestored`, `ClientLive` |
| `packets_unknown`, `packets_uring`, `datapath_gso` | violations, with the bounds of `packets` and `datapath` | `IgnoredSkipped`, `ReadsDrain`, `GsoUniform`, see below |

Why the bounds are enough for the interesting cases: counters up to 7 lap a
window of 3 more than twice, so each slot is reused after a short and after a
long jump; two configs of one end make every ack of the first one late for the
second, and with one retransmission the retry cycle is exhausted as with five; one
inside IP makes every second client meet an empty pool; three session ids allow
two connections and a rotation, or a rotation begun while the previous one is
being finalized; a channel, a ring or a queue of two is full after two calls; ids
modulo one or two come round with the second or third packet; slots of two units
cut a datagram of three, and a pool of one cipher overflows with two threads.

Deadlock is not checked because these systems do stop: a tunnel that both ends
have left, a task that has returned, a composition whose bounds are used up. That
nothing stops too early is the subject of the liveness properties.

Fairness. `Expresslane`: a scheduled tick fires, a frame that is not lost is
handled, and traffic keeps asking for rotation. `Connection`: tokio runs the
reader, the ticker and the teardown; each message that is not lost is delivered,
also when others overtake it for a while (fairness per message kind). `Keepalive`:
the task is polled, its timers expire, the event and I/O tasks run. `Uring`: the
task's loop turns while it has something to do, the kernel completes what was
submitted, the application receives. `Dplpmtud`: timers elapse, queued ticks are
handled, probes the path carries are answered. `Codec`: ticks fire. `InsideLoop`:
the loop runs on and the socket becomes writable. Client: a woken task or thread
runs, sends are retried. Nobody is obliged to stop, evict, ping, lose, change the
network or crash. `ComesUp` and `KeyUpdateCompletes` speak of calm environments:
fewer losses than repeats, nobody stops the tunnel, and the library's timer
outlasts a round trip.

Refinement. `Implements` says that `ReplayWindow` implements `AntiReplay` under
the identity on `delivered` and `verdict`. `FramesIntact` says that `FrameStream`
implements `FrameChannel`, where the frames sent are those of the stream, or those
of the datagrams that arrived; and that no complete frame waits in the buffer.

### Where the code and its comments disagree

Runs that end in a violation, each with the quoted line in `PROJECT.json`:

- `IgnoredSkipped`. `Frame::try_from_wire` refuses an unknown kind without taking
  it from `receive_buf`. A datagram connection ignores the error, as `is_fatal`
  says, and from then on parses the same frame at every read: nothing that
  follows is handled.
- `ReadsDrain`. The io_uring loop refills the read slots before it handles the
  completions that free them, and then waits for an event. When one turn
  completes every read the ring holds none, and only a packet of the application
  wakes the task.
- `GsoUniform`. A frame the socket refused stays at the head of the pending queue
  and becomes the first segment of the next batch; its length becomes `gso_size`
  and the kernel slices the rest in the wrong places.

Seen while modelling, all behaviours of the modules, without runs of their own:

Connection and ExpressLane
- A retransmitted config is installed again and pushes a copy of itself into the
  slot of the grace key (`session.rs:200`, against `docs/expresslane.md:294`).
  `GraceKept` says that, while timers outlast a round trip, a packet of a rotation
  is lost only when that rotation was retransmitted or an earlier one abandoned.
  Without such timers a retransmission delayed past the next rotation does it too.
- A config or ack of an end that has degraded, still in flight, makes its peer
  Active again (`connection.rs:2247`).
- When the AEAD refuses a new key, the ack of the resulting "disabled" config
  promotes the key staged before it, whose own config may never have arrived
  (`connection.rs:2325`). `PromotedWasInstalled` is therefore checked and proved
  for `KeyOutcomes = {TRUE}`.
- Keepalive replies that overtake each other make the counter deltas wrap, and a
  lossless path is degraded; `HealthyKept` is stated of ordered replies.
- Packets in flight when a reply arrives count as sent and not as received. With
  more of them than `MIN_PACKETS_FOR_LOSS_CHECK`, growing from one window to the
  next, a lossless path collects strikes faster than it drains them and is
  degraded (`connection.rs:2084`; five replies with 0, 2, 5, 0, 2 and 5 in flight
  and a minimum of 2). The attempt to prove `HealthyKept` found it, three replies
  are too few to show it; `HealthyKept` is stated of calm paths.
- The `Authenticating` branch of `connection_tick` never asks the library for its
  timeout: a client whose server has gone repeats its request for ever
  (`connection.rs:967`, against `docs/connection_state_machine.md`).
- A DTLS timeout while Connecting leaves the state Connecting: `disconnect`
  refuses it (`connection.rs:977`, 1519).
- A write that fails inside `connection_tick` returns before the next tick is
  scheduled (`connection.rs:969`): a client on datagrams is then without a tick,
  and `TickArmed` excepts a client whose environment has such faults.
- A delayed datagram with the old session id makes the client adopt it again
  (`connection.rs:1698`).
- Traffic of the server that overtakes its AuthSuccess, data (`connection.rs:2630`)
  or the Ping of a session id rotation (1640), is refused with `InvalidState` by a
  client that is granted and not yet Online. The code expects it (306, 1120) and
  goes on; `NoProtocolError` says that there is no other case, and none on a
  stream, where it would be fatal.

Keepalive
- A reply under way when keepalives were suspended resumes them (`keepalive.rs:180`).
- A report of activity is dropped when the channel is full; a timeout started
  before the tunnel came Online can then end it. `NoFalseAlarm` assumes room.

Server
- A stream's task disconnects twice; the second `remove_connection` removes
  whatever its address maps to by then (`tcp.rs:178`, `connection.rs:206`).
- A disconnect between the acknowledgement of a session id and the move of the map
  entry leaves the dead connection under the new id (`connection_map.rs:125`);
  a float in the same moment leaves its address. `EndedForgotten` excepts both.
- A datagram from a new address is rejected between the two locks of
  `finalize_session_id_rotation` (`connection_manager.rs:508`), or before
  `begin_session_id_rotation` has recorded the id. `SessionReachable` excepts
  exactly these gaps.
- The stale timer of a stream in its handshake removes it from the maps only; the
  stream can still come Online (`connection_manager.rs:210`).
- What the server sends counts as traffic of the peer, so that a silent client's
  session is counted active and not standby (`statistics.rs:31`).
- The first poll of a session id takes what it reads as the baseline, after a
  rotation too (`offload_stats.rs:67`): bytes received since the last poll under
  the old id are never reported, and a client of which nothing else was heard is
  left out of the statistics and may be evicted. `HeardCounted` and `EvictedSilent`
  except a client as long as its last traffic is unpolled or hidden in this way.
- On macOS, and on a client that reads one datagram at a time, a datagram cut by
  its buffer is handled and counted like a whole one (`batch_receive.rs:65`);
  `HandledIntact` says that cut ones are counted wherever the receive call tells.

Client
- `find_best_connection` promises the connection of lowest index that came online
  during the wait (`lib.rs:1440`, `docs/parallel_connect.md:95`), and returns it
  only in the branch of the timer, behind that of the setup channel in a biased
  `select!`. When a connect future and the timer finish between two polls, which
  the single-threaded runtime allows, the channel's branch runs, the guard
  `!wait_timer_task.is_finished()` is evaluated again and the timer's branch never
  runs: the best so far is dropped for the next to come online, or the selection
  fails with a server online (TLC finds it as an invariant of `ClientSelect` in ten
  steps: servers 0 and 2 refused, 1 online, the timer finishing with the last
  refusal). The mobile client has the same guard (`mobile/lightway.rs:276`, 289): a
  deferred connection may stay unused for ever while the loop waits for the
  others. `PreferredChosen`, `FailsOnlyOffline`, `SelectionEnds`, `MobilePrefers`
  and `DeferredUsed` except exactly the behaviours in which it has happened.
- When `set_dns` or `initialize_routes` fails after the choice, `client()` returns
  and the connection's task waits for an event nobody sends; `StopEnds` excepts
  a caller that has failed. On an error the application need not hear of the
  Disconnected state.
- An abort while the server's route is taken and not yet deleted
  (`route_manager.rs:524`, 526), or added and not yet recorded, leaves the route. A
  delete that the kernel refuses is ignored or only logged (405-434): the route
  stays, and a replacement is then recorded although the old one is in force. A
  failed add leaves `server_route` at `None`, never retried; a route that existed
  before is deleted at cleanup; an uplink that goes and comes back takes the server
  route with it while the manager believes it installed.
- A host without `resolv.conf` keeps the client's: there is no backup to restore
  (`direct_file.rs:31`). On macOS `set_dns` overwrites a value the user had set on
  the service and `reset_dns` removes it (`macos/dns_manager.rs:166`, 188).
- Other programs that replace `resolv.conf` between the client's check and its
  rename lose their change or are restored over; `Recoverable` excepts them.
- Address changes while the listener backs off or re-arms are not told again; a
  pair that completes in the cooldown is dropped.
- Mobile: the end of a deferred connection is not watched, so that one that has
  ended may be chosen, and a connection made between the choice and the cleanup is
  not closed.

Inside packets
- An MSS option at an odd offset straddles two checksum words and its clamp makes
  the checksum wrong; a later fragment that looks like a SYN is clamped
  (`utils.rs:181`, 189).
- Answers from the server's DNS address are translated back also for hosts that
  wrote to that address themselves (`client/io/inside/tun.rs:105`).
- A plugin's reply at a server on a stream ends the connection.

## 4. Proofs

Assumptions are the named ASSUMEs of the modules: a positive window, two ends,
natural bounds, a positive timeout and capacity, ids of at least three values, a
small step smaller than the big one, counters wider than the traffic of the
replies' windows, finite sets of connections, servers,
endpoints and uplinks; a session id for every connection, and a resolver's
contents or a gateway that is not the client's own; packets of the lengths an IP
header can state, path MTUs that leave room for a fragment, a word of two bytes
and addresses of two words; frames and announced segments that are not empty, a
queue with a place, and no ExpressLane on streams. TLC evaluates them in every
run. The inductive invariants were model-checked on the instances of the runs
before they were proved.

- `WindowCorrect`: `Spec => [](TypeOK /\ WindowExact /\ NeverTwice)` for every
  window size, number of threads and bound. The inductive invariant `IInv` adds
  that `delivered` is finite. `NeverTwice` alone is not inductive: that a counter
  about to be recorded is new follows only from the exactness of the bitmap,
  and exactness needs that counters fewer than `W` apart have different slots
  (`SlotsDistinct`) and that the slide clears exactly the slots it crosses
  (`RecordExact`).
- `AuthenticOnly`: the action property from the same invariant.
- `Refinement`: `Spec => Abstract!Spec`; initial states map to initial states,
  and previews and failed openings are stutters or rejections of `AntiReplay`.
- `Expresslane!TypeOK` (`TypeCorrect`) for all bounds, and `DegradedTerminal`
  from it, action by action: each handler that assigns the state either asks for
  Degraded first or is guarded so that a degraded end does not take it.
- `KeysInstalled`: `PromotedWasInstalled` for every number of rotations,
  retransmissions and losses, if no AEAD refuses a key. The invariant `KeyInv`
  adds that every scheduled tick and config in flight belongs to a config its
  sender really issued, with the key it has staged if it is the latest one
  (`TicksOwn`, `ConfigsOwn`), and that an ack vouches for a key its sender has
  installed (`AcksVouch`).
- `VersionsAgree`: `VersionAgreed`, whatever the AEAD answers. `VersionInv` adds
  that every config in flight or to be repeated offers the version both builds
  know or the highest its sender knows, either of which resolves to the common
  one, and that an end has the common version once it has sent or installed.
- `GraceIsKept`: `GraceKept`, again for keys that are accepted. `GraceInv` adds to
  `KeyInv` that an end which has not degraded has one config under way at most,
  the latest (`LatestOnly`), with a tick running for it (`Ticking`), that an ack
  under way is of the key installed (`Answered`), and so which of the receiver's
  two slots holds the key in use (`Held`).
- `OnlyPending`: the comment in `keepalive.rs` on when the timeout is `Some`.
- `NeverFalseAlarm`: from `Awaited`, which says that while the timeout runs on a
  live Online tunnel something is under way that will clear it: a pong, a report
  not yet made, or a message in one of the two queues. Two lemmas on `Append` and
  `Tail` carry the messages from queue to queue.
- `LaneIsSafe`: `LaneSafe` for any number of threads, ciphers and rotations.
  `LaneInv` says what a thread may rely on at each of its places: its counter was
  reserved, the cipher it took is of the current key, in no pool and in no other
  hand, and the key it read is current because it holds the read lock; pools
  share no cipher.
- `InsideIpsConserved`: `IpsConserved` for any number of clients, addresses,
  receivers and disconnecting tasks, inductive together with `BookInv`: nothing
  in a map, a queue or a task leads to a connection that was not accepted, a task
  between two lock regions has the address and the ids its next region needs, and
  the UDP loop is one task.
- `SessionsExact` and `EndsAreForgotten`: `MapsExact` and `EndedForgotten`. The
  acknowledged rotations of a connection, still queued as events, form a chain of
  session ids. `ChainInv` says that the chain of a connection nobody disconnects
  starts in the session map and ends in the connection's id, each link being
  announced until it is finalized; `EntriesInv` that the map has no other id of
  the connection than those of the chain.
- `ConnectionInvariant`, `TunnelIsSafe`, `NoProtocolErrors`, `ClosedForGood`:
  `TunnelSafe`, `NoProtocolError` and the action property `DisconnectedFinal`, on
  datagrams and streams, for any number of losses, faults, copies and key
  updates. None of them is inductive: that no frame meets a state which refuses
  it needs to know what a frame in flight tells of its sender. `FramesVouch` says
  it: an AuthSuccess on its way is of a server that has granted and come Online,
  traffic to the client means that it was granted and traffic to the server that
  the server has come Online, and nothing travels in the wrong direction. On a
  stream every frame of traffic to a client not yet Online has the AuthSuccess
  ahead of it (`StreamOrder`), so that only datagrams can be refused. `ConnInv` adds
  `Tickless` (a stream has no ticks) and that a server is never Authenticating.
- `NegotiationIsSafe`: `NegotiationSafe` for any number of requests and retries.
  `CodecInv` says that one id is one request: all copies of it and all answers to
  it say the same, and the server follows the newest id it has seen. Agreement
  alone is not inductive: a stale answer could contradict it.
- `DiscoveryIsSafe`: `DiscoverySafe` for every base, maximum, step, number of
  probes and width of the id. `PmtudInv` says that a probe or an answer under way
  that bears the id of the pending probe is that probe, and that such an answer
  is of a size carried since the last fall back to the base.
- `HealthIsExact`: `HealthExact` for every traffic, minimum, number of strikes and
  of replies. That the bucket holds the largest excess of drops over clean windows
  is inductive by itself (`ExactGrows`), counting how a new window shifts each
  excess. That a healthy path is kept is not: `Unharmed` adds that the inbound
  counters were read alike, and by `Compared` what the last window saw, so many
  packets told by the peer and so many more on the way. A window that seems to
  drop packets then needs more than half of the minimum in flight at its end and
  at most that at its start (`OutboundSpared`), so that no two such windows follow
  each other. The wrapped differences are the true ones (`MinusIs`).
- `FragmentsAreRejoined`: `FragmentsRejoined` for every set of packet sizes, path
  MTUs, id widths and capacities. `FragInv` says of each fragment in flight that it
  is a piece of a packet that was sent (`Flown`), of each entry of the map that its
  runs tile what they span (`MapWell`), before ids come round that an entry belongs
  to one packet and its runs are sorted, apart and cut where that packet was cut
  (`Unmixed`, `Apart`), and, without duplicates and with room, that a piece is in
  flight exactly if it is not in the map (`Arrival`). The last two are what the
  comments of `update` take for granted; the three ways a fragment can meet the
  runs, before, between or joining two, are a lemma each. That the offset word
  gives back what was put in needs packets of at most 65535 bytes.
- `SendIsSafe`: `SendSafe` for every limit of the queue, superpacket, room of the
  socket and verdict of the plugins. `SendInv` has what is queued numbered and
  younger than what left (`Rises`, `Below`), every accepted frame queued, on the
  wire or dropped (`Accounted`), and a queue on a sound stream whose head has
  always begun, what the adapter holds being exactly its rest (`StreamWell`):
  without that a new frame could be written into the rest of another. A call is
  three loops within each other. `LoopAt` is the invariant of the innermost, of one
  turn per queued frame: the frames tried so far are gone, in order, and the others
  wait; `EachSent` and `CoalescedIs` lift it to the segments of a superpacket.
  `TilesAre` is the arithmetic of the segments, `UniformSliced` that slices of the
  first segment's size are the segments.
- `StatsAreSafe` and the action property `OnlySilentEvicted`: `StatsSafe` and
  `EvictedSilent`. `StatInv` adds to `BytesOnce` that no two connections share a
  session id and the poll keeps nothing under an id not yet given out
  (`IdsApart`), without which a rotation could meet a stale baseline, and that
  what was heard of a connection is noted in its age, still to be reported, or was
  hidden by a baseline (`Noted`), which is the exception both results state.
- `ReceivedExactly`: `ReceiveExact` for every batch and slot size, for calls that
  tell which datagrams they cut and for those that do not. `RxInv` follows
  each datagram through its places: the kernel holds the last ones in order
  (`InKernel`), a slot of the batch not yet handled holds the bytes and addresses
  of its own datagram (`Handling`), and a slot is empty whenever the loop receives
  into it (`Receiving`). The last is what the reset after each datagram is for.
- `InsideIsSafe`: `InsideSafe` for any number of connections, pools, datagrams and
  slots. `InsideInv` has each datagram in one place under its own number
  (`Placed`): in the queue, in the hands of the flush, taken by the socket, or
  dropped; says that the connection a task looked up and no longer holds the lock
  for still has the destination or is disconnected (`LookedUp`); and that map,
  pool and holder of an address agree, pools being disjoint (`IpsInv`).
- `UringIsSafe`: `UringSafe` for every size of ring, any number of packets and of
  failing reads and writes, and every order of completions. `UringInv` has each
  entry submitted, performed or completed, and that once (`RingWell`); a write slot
  free or in the ring with its buffer, a read slot with a permit free or in the
  ring (`SlotsWell`); each accepted packet in the channel, in a buffer still to be
  written, written or failed (`SendsWell`); and what was read and not yet delivered
  as an interval in order (`ReadsWell`). That half of the ring serves each
  direction is what makes room for every entry whose slot is free (`RoomToPush`):
  the branch that would drop a received buffer is never taken.
- `TunnelIsTransparent`: `TunnelTransparent` for every width of a word, chain of
  plugins and set of addresses. `PathInv` says of a packet between the ends that it
  came of the chain from one with right addresses and checksums. `RoundTrip` shows
  that the reversed chain undoes the chain, plugin by plugin; `UpdatesIs` that an
  incremental update changes the checksum by the difference of old and new, modulo
  `Ones`; and `ClampIs` that a clamped MSS keeps it, unless it is at an odd offset.
- `TaskEndsClean`: `TaskSafe`. `TaskInv` relates the tasks to the events and
  signals between them: events are emitted in the order of the states and few are
  under way (`FewUnderWay`), none tells of an end that has not come (`EndIsTrue`),
  and the signal of the end was sent after the application was told, or closed
  with its task (`SignalIsTrue`).
- `HostIsRestored`: `HostRestored`, from `RoutesAreSafe` and `ResolverIsRestored`.
  Of the routes it says that none is left behind but one the kernel refused to
  delete or, after an abort, the server's while it was unrecorded; of the resolver
  that the user's file is kept and given back, if there was one, and that on a Mac
  no service but those the client was pointed at loses the user's value.
  `RouteInv` says that each route in the kernel is recorded by the manager, is
  the one just being added or deleted, or is stuck (`Recorded`), that the server is
  pinned to an uplink before anything is routed into the tunnel (`Pinned`), and
  that the pin is to the uplink that was best at the last event (`OnTarget`).
  `DnsInv` says the same of
  resolver and backup at each step at which the client can crash.
- `ChoiceIsSafe`: `ChoiceSafe`, from `SelectionIsSafe` and `MobileInv`: the best
  server so far is the least of those heard from, as long as the timer runs the
  guard of its branch holds and once it has finished a best is still there only if
  the branch is about to run or was missed (`stale`), each failed endpoint was
  counted once (`Counted`),
  and what the chosen one left behind is to be aborted or cleaned up (`Swept`).
  That the preferred endpoint is the least member of a set is proved without
  induction, from the well-foundedness of strict inclusion among finite sets
  (`MinIsLeast`).
- `NetworkIsSafe`: `NetworkSafe`, from `SocketIsSafe` and `MonitorInv`: no more
  changes were told than happened or were misread (`Accounted`), the last
  snapshot is current unless something is under way (`Current`), and the two
  times the detector keeps are those of the latest events since it last told
  (`Remembered`).

The theorems on the client are of `MCClient`'s own specification: `PartsInit` and
`PartsNext` show that each of its steps is a step of one part and a stutter of the
others, so that what is proved of a part holds of the gathering.

Induction over data. The induction theorems of the library cannot be instantiated
here, so where a proof needs one it takes the least index at which the claim fails
(`LeastIndex`, `LeastExists`) and refutes it. That a function defined by recursion has a value at
all is proved the same way, once (`Unrolls`).

Only model-checked: all liveness (`Settles`, `ComesUp`, `KeyUpdateCompletes`,
`BothEnd`, `SilenceFound`, `SendsDrain`, `QueueDrains`, `DatapathSettles`,
`ClientLive`), because fairness and ENABLED are out of the prover's reach; and
`FramesIntact`, which rests on what the parser makes of the encoding of each kind
of frame and of each part of it.

## 5. Not modelled, and why

- Authentication backends, configuration, the command line, metrics and tracing:
  sequential, or output only. Their outcomes are inputs of the models.
- The TLS libraries beyond what a write does with a socket that blocks, socket
  options, creation of the TUN device, and the operating system's own DNS tools:
  external.
- Of `Connection`: `PathMtuDiscoveryRequired` and the callbacks that only report.
  The composition of the client's session id with the server's rotation.
- Of the server: PROXY protocol, shutdown, and the order of nested locks (the
  last reference to a connection dropped under a map's lock,
  `server/src/connection.rs:211`).
- Of the mobile client: the new socket after a network change on iOS,
  `handle_global_events` and the foreign function interface.
- Of the plugins: the verdict Error.

## 6. State of the plan

Done: the components above in the order of their importance, their properties, and
theorems for every invariant but `FramesIntact`. What is left, most valuable first:

1. `FrameStream`: a lemma per kind of frame, that parsing its encoding gives it back.
2. The composition of the client's session id with the server's rotation, and the
   verdict Error of a plugin.
