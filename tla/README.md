# A TLA+ verification project for juicity-rs

This directory holds TLA+ models of juicity-rs (a QUIC proxy: `server`, `client`,
`common`, `gui`), TLC configurations that check them on
small instances, and TLAPS proofs of the properties that matter most for every
size of instance. `PROJECT.json` is the index: components, runs, mutants, the map
from definitions to source lines, findings, hazards and theorems.

Paths below are relative to `src/`.

## 1. The system

A client multiplexes local TCP connections and UDP datagrams over one QUIC
connection to the server. UDP can also bypass QUIC: the client announces an
*underlay credential* (salt, key, target) on an authenticated QUIC stream and then
sends raw datagrams, encrypted under it, to the same server port.

| component | state | operations | hard behaviour |
|---|---|---|---|
| In-flight table, `server/src/inflight.rs` | maps `auth` and `waiting` under one mutex | `store`, `evict`, `cleanup` | packets arrive before their credential; check outside the lock; timeouts; both maps bounded |
| Endpoint pool, `server/src/udp.rs` | moka cache `inner`, maps `creating` and `notify` | `get_or_create`, `get_socket`, `remove` | lock-free election of a creator, waiters, a guard dropped on cancellation |
| Underlay data path, `server/src/server.rs` 547-1008 | moka cache of sessions, pool entry, relay-back tasks | packet loop, slow-path handler, relay task, eviction listener | three kinds of task and two caches change the same address; late guards |
| UDP DNS resolver, `server.rs` 1412-1501 | shared cache and map of lookups in flight | `resolve_udp_target` | single flight, failed and cancelled lookups, eviction |
| Demultiplexer, `server/src/underlay_socket.rs` | idle counter, bounded channel | `poll_recv` | wake-ups, in-place sorting, budget |
| TCP relay, `server/src/tcp.rs` | two buffers, an atomic timestamp | `relay`, `copy_direction` | idle timer against progress, half-close |
| Certificate reload, `server.rs` 1528-1615 | cached pair with modification times | `reload`, `resolve` | a renewal replaces two files while they are read |
| Accept workers and shutdown, `server.rs` 381-510 | JoinSet and semaphore per worker | accept, drain, abort | two timeouts race, a worker blocked on a permit |
| Connection handler, `server.rs` 1011-1410 | per-connection JoinSet, auth reader, relay tasks | `handle_connection`, `handle_auth`, `handle_stream`, `handle_udp_relay` | auth deadline, tasks spawned by an aborted task |
| Client connection, `client/src/client.rs` | shared connection, auth stream, `ReconnectState` | `connect`, `preconnect`, `lead_reconnect`, `wait_for_reconnect` | single leader, backoff, cancellation |
| Client UDP sessions, `client/src/forwarder.rs`, `local.rs` | maps `sessions`, `opening` | receive loop, open, writer, reader, supervisor, cleanup | replacement, closed queues, cancellation |
| Local proxy and port forward, `client/src/local.rs`, `forwarder.rs` | permits, one handler per connection | accept loop, SOCKS5, HTTP CONNECT and forward, copies | bytes buffered past the head, half-close, head deadline |
| Codecs, `common/src/protocol.rs` | bytes on a stream | encode/decode | no separators, length limits, a half-written frame |
| GUI node list, `gui/src/ui/controller/{nodes,save,persist}.rs` | working, saved and on-disk list; active and selected index; dirty files | edit, Save, Revert, prompt, debounced flush, reload | two files per save, external edits, kill and restart |
| GUI proxy, `overview.rs`, `settings.rs`, `state.rs`, `pac.rs`, `system_proxy.rs` | configuration, OS setting, PAC server, core | mode, port, PAC source, reload, rule download, shutdown | each effect can fail alone; scripts fail half-way |
| GUI editor, logs, traffic, window | draft, log ring and page, counters, lock and window | typing, sheets, push and snapshot, sampling, activation, tray, close | version read apart from lines; counters that restart; no tray |

Who talks to whom: the demultiplexer feeds the packet loop; the packet loop and
its handlers use the session cache, the in-flight table and the endpoint pool; the
QUIC connection handler stores credentials in the in-flight table and starts TCP
relays and UDP relays (which use the DNS resolver); on the client every proxy
connection and every UDP session goes through `connect`. In the GUI every handler runs
on the UI thread; the file watcher, the core, the rule download, loggers and a second
launch post to it or change what it reads.

## 2. Modules

| module | models | actions |
|---|---|---|
| `CredentialStore` | abstract promise of the in-flight table: each credential is issued once and consumed at most once | `Issue`, `Consume`, `Discard` |
| `InFlight` | `inflight.rs` and its cleanup task | `Store`; `Arrive`, `Claim`, `Verify`, `Remove`, `Register`, `Wake`, `GiveUp` of `evict`; `Cleanup`; `Tick` |
| `UdpEndpointPool` | one address of the pool | the statements of `get_or_create`, three steps of the guard, `RemoveEndpoint` |
| `Reconnect` | `connect_inner` and below | one action per critical section or await, `Cancel`, `GuardDrop`, connection loss, backoff expiry |
| `UnderlaySession` | one client address; composes the promises of the table and of the pool | packet loop, handler, relay task, cache evictions |
| `UdpSessions` | one source address, forwarder and SOCKS5 association (`Socks`) | receive loop, opener, writer, reader, supervisor, cleanup |
| `DnsResolver` | `resolve_udp_target` | hit, wait, lookup, insert, guard drop, timeouts, expiry |
| `TcpRelay` | `relay` and both `copy_direction`s | read, EOF, partial write, shutdown, failure, timer |
| `CertReload` | the reload task against a renewal | file writes, the two stats, compare, the two loads |
| `ServerShutdown` | accept workers and `serve_with_shutdown` | accept, permit, drain, abort, join |
| `DemuxSocket` | `poll_recv` and the channel | inner poll outcomes, the sorting loop buffer by buffer and segment by segment, arrival, other wake-ups, consumer |
| `ServerConnection` | one QUIC connection at the server | handshake, authentication or its deadline, credentials, streams, TCP and UDP relay, end |
| `LocalProxy` | accept loop and handlers of the mixed listener and of a port forward | permit, accept, head, open, copies, end |
| `WireCodec` | encoders and decoders, and the callers that decide what follows a failed write | open, send, reply, auth frame; read header, read message |
| `GuiController` | the three copies of the node list, `Persist`, the watcher, the process | node commands, `SaveNodes`, `RevertNodes`, prompt, `FlushDue`, `OnFilesChanged`, `Crash`, `Start` |
| `GuiProxy` | the configuration against OS proxy, PAC server and core | one action per handler, rule download, start, shutdown, kill |
| `SystemProxy` | `apply_system_proxy`, command by command, on four desktops | call, command, failure, ignored deletion, return |
| `NodeEditor` | the drafts of the node editor, the Advanced sheet and the settings sheet | edit, open, commit, cancel, share, reload |
| `LogPane` | the log buffer and the Logs page | push in two steps, snapshot in three, timer, navigation |
| `TrafficMeter` | counters of both cores and `TrafficMonitor` | bytes, reconnect, restart, poll, sample |
| `GuiWindow` | single instance, start-up, tray and closing | claim, activate, run, timer, close, quit, prompt |
| `InFlightProofs`, `UdpEndpointPoolProofs`, `ReconnectProofs`, `DnsResolverProofs` | theorems about the module they are named after | |
| `ServerProofs` | theorems about `ServerConnection`, `CertReload`, `ServerShutdown`, `UnderlaySession` | |
| `TaskProofs` | theorems about `LocalProxy`, `UdpSessions` and `MCTasks` | |
| `DataPathProofs` | theorems about `TcpRelay`, `DemuxSocket`, `WireCodec` and `MCDataPath` | |
| `GuiProofs` | theorems about `TrafficMeter`, `GuiProxy`, `NodeEditor`, `SystemProxy`, `GuiController`, `LogPane`, `GuiWindow` and `MCGui` | |
| `MC*` | instances for TLC | |

`MCDataPath`, `MCTasks` and `MCGui` each put several modules that share no state into
one run. A behaviour follows one of them (`part`) and the others rest, so that the
state spaces add up. The definitions of these modules carry the part's name
(`RelayInit`, `poolVars`, `SessionsFairness`, ...), so that one module can extend them.

Conventions. `pc` values name the place a task has reached; an action runs from one
lock acquisition, await or lock-free map operation to the next. An RAII guard
dropped in several statements is several actions. `None` is `Option::None`. A
definition named `X_Something` with the comment "Mutant" is a plausible wrong
version of `X`, never used by a specification: it shows that the property paired
with it in `PROJECT.json` can fail.

Abstractions. A cipher is the credential it was derived from, so "decrypts" is
equality of credentials. A connection, an auth stream or an error is the number of
the dial that produced it. In the GUI a profile is its identity (in `NodeEditor` a
record of texts told apart by what trimming and validation do to them), and a file is
its content or garbage. `WireCodec` keeps the encodings byte by byte, since no
separator protects one message from the next, but a byte has six values. One address, source or port stands for all where the
code shares nothing between them but a map. Payloads are counts or identities.

## 3. Runs

Passing runs. `inflight` and `reconnect` check for deadlock. The composed runs do not: their
parts do end (a relay finishes, a server shuts down, a bounded user stops), and
liveness is stated where something has to happen.

* `inflight` - two packets, two salts, two keys, a table of one entry, two stores. A
  tick is the cleanup period; the TTL is one tick and the evict timeout less than
  one, and there is time for two cleanups after a store. One entry is the smallest
  limit at which every branch at capacity is taken; two packets are enough for a
  race on one credential and for two waiters on one salt. Safety is proved for all
  values; the run adds the liveness of `evict` (`EvictReturns`).
* `reconnect` - three tasks and three calls, each of which may be cancelled at any
  await: a leader, a waiter and a third that contends for the lock, or one task that
  fails twice and calls again. `cancelled` remembers whether a call was cancelled:
  `CallsReturn` and half of `BackoffMatchesRequest` are claimed for behaviours
  without cancellation only (see `reconnect_guard`), everything else always.
* `data_path` - safety of the parts that carry data:
  * TCP relay: two bytes each way, a timeout of two milliseconds, three ticks to a
    millisecond, and time for three timeouts;
  * demultiplexer: batches of three, a channel of two, four buffers, two batches per
    poll and one idle poll before a yield;
  * endpoint pool: three tasks (a creator, a waiter and a late caller) with the Notify
    objects of four creations;
  * DNS resolver: three tasks, three names, a cache of two;
  * codec: two messages per stream, hosts of every kind with names of 0, 1, the
    longest and one more byte, payloads at and past the limit of their length field.
* `tasks` - the parts that own tasks, with the liveness of releasing them:
  * client UDP sessions: two session ids and a queue of one, so that it fills up;
  * local proxy: two connections over one permit, two bytes after each head;
  * underlay sessions: two handlers, two endpoints, three credentials, one of them
    blocked by `disable_udp_443`, two datagrams: two sessions that replace one another,
    or one that is used again by the packet loop or after an eviction;
  * connection: two streams, one credential, one datagram per stream and direction;
  * certificate reload: three file writes with any contents, so a torn or mismatching
    middle state and a matching end;
  * shutdown: two workers with two permits, three connections. The drain period is
    below the stop timeout, because with the code's values (5 s and 3 s) the drain
    branch cannot be reached.
* `gui` - the parts of the GUI process:
  * node list: two complete profiles and the blank one, up to three nodes, two edits,
    one external edit and one fault (a kill, also between the two writes of Save, a
    failing write or a failing core): enough for an edit, a save that fails and a
    restart, in any order;
  * proxy: two addresses of each kind, three handlers or starts, two faults;
  * OS proxy: every desktop, three calls, one command that fails or deletion that does
    nothing;
  * editor: two nodes, three user actions on any field; node and settings sheets;
  * logs: two loggers, a buffer of two lines, three lines, three clicks: enough for a push
    between any two reads of a snapshot;
  * traffic: three bytes, three starts or reconnects, three samples;
  * window: two launches, one of which may have no session bus to ask, four events of the
    user or the tray host.

What the properties say, in the terms of the code, stands above each of them.
`PROJECT.json` pairs every property with a mutant: a plausible error in one mapped
definition under which TLC finds the property violated.

Runs that show a disagreement between the code and what its comments say of it.
Each is one finding in `PROJECT.json`, with the line quoted:

| run | what TLC shows |
|---|---|
| `pool_wakeup` | the waiter of `get_or_create` can miss the only notification |
| `reconnect_guard` | a cancelled leader can leave `in_flight` set for ever |
| `underlay_target` | a new session can inherit the endpoint, and so the target, of an old one |
| `udp_sessions_remove` | a supervisor can remove the session that replaced its own |
| `demux_sleep` | after a burst of underlay datagrams the QUIC driver can sleep with no waker registered |
| `server_detach` | the relay tasks of a UDP stream outlive their connection until an idle timer |
| `gui_index` | saving after the last, active node was deleted leaves the old index in `runtime.json` |

Smaller observations that the models make visible and no run states:

* A waiter of `connect` answers with `last_failure` even if that is the error of an
  attempt older than the one it waited for: when the leader was cancelled
  (`client.rs:431-445`), or when it was a preconnect whose failure is not recorded.
* The caches of the server are moka's, which evict only while some operation runs on them;
  on a quiet server an idle session without a relay task, and its pooled socket, stay
  until the next datagram of any client. `EventuallyReleased` therefore promises that the
  relay tasks end, and the release of the rest only if operations on the caches go on.
* For an existing session whose pool entry is gone the handler discards `is_new`
  (`server.rs:747-762`), so the new endpoint has no relay-back reader.
* While a session lives, datagrams of a new session from the same port are dropped
  as undecryptable on both paths (`server.rs:617-622`, `735-743`).
* `oldest_key` (`server.rs:1494`) is the first slot of an `IndexMap` with
  `swap_remove`, not always the oldest entry.
* The 5 s `connection_drain_timeout` never elapses: the 3 s `accept_stop_timeout`
  aborts the workers, and with them the handlers, first. `Returns` therefore
  promises the shorter of the two as grace period.
* `disable_udp_443` is checked on the first datagram of a UDP stream only
  (`server.rs:1269`), while `README.md:105` says UDP to 443 is blocked.
* A UDP stream keeps the addresses it resolved for its whole life (`server.rs:1308`),
  beyond the TTL of the shared cache.
* With `send_through`, `dial_tcp` parses its target as a `SocketAddr` (`dialer.rs`), so
  TCP to a name fails.
* An empty host is accepted by the writer of an auth frame and ends the server's
  reader; `RoundTrip` therefore does not promise that the auth reader stays alive.
* A tunnel whose QUIC connection is lost is not told so while its application is
  silent: copying up only notices when there is a byte to write, and the permit is held
  until then. `HandlersEnd` claims the end only once the application has closed its side.
* Any byte on the control connection of a SOCKS5 UDP association ends it.
* GUI: `set_proxy_mode(Disable)` whose command fails is never retried, and shutdown
  then skips the restore (hence the exception `stale` in `OsFollowsConfig`); a core that
  dies leaves `was_running` set; an external edit of the port re-points the OS proxy but
  does not restart the core; Revert can leave the core running a node that is no longer
  listed; a PAC address that cannot be bound on reload leaves the old server running;
  a second launch that asks while the first is shutting down is lost; a second
  launch is also all that can bring back a window that was hidden when the tray host went
  offline.
* A close request with unsaved edits looks at the tray icon before the prompt asks; the
  answer (`desktop.rs:74-82`) hides the window without looking again, so when the tray host
  goes offline meanwhile the window is hidden with no icon, against the comment at
  `desktop.rs:279`. `HiddenIsReachable` makes an exception for this prompt.
* `reg_delete` (`system_proxy.rs:413`) ignores that `reg` could not be run or refused to
  delete a value that is there; its comment only has the absent value in mind.
  `apply_windows` then returns Ok with the old `AutoConfigURL` in place, which Windows
  prefers to the proxy just set. `SystemProxy` has this as `DeleteIgnored`, and
  `AppliedIsEffective` allows for exactly this value.

Liveness is claimed only where a passing run checks it: `WaitersWake` fails, so
nothing that waits on the pool is claimed to return; `UnderlaySession` composes the
pool at the level of its safety promise and assumes in its fairness that a waiting
handler proceeds when it can.

## 4. Fairness and time

Weak fairness is put on the steps of tasks that the tokio runtime polls, and never
on what a peer decides (a connection that closes, a datagram, a user). A
leader's dial and a session's open end because connecting has timeouts in the code.
In `UnderlaySession` the relay task ends by its idle timer. Nothing is assumed of the
eviction of idle entries, which waits for operations on the cache; `EventuallyReleased`
has it as the premise `HousekeepingRuns`. `CertReload` assumes that the five-second task
runs; `ServerShutdown` that workers are polled and that aborted tasks are dropped, and not that handlers end.
`ServerConnection` assumes the authentication deadline, the idle timer of
`relay_responses` and that reads of a closed connection return; `LocalProxy` the head
deadline, and that a copy with something to read or to end is polled. Opening a stream is
not assumed to return. In the GUI the event loop runs timers and posted closures, and the
watcher thread delivers. The composed runs state the same formulas, restricted to the
part that a behaviour follows.

Where deadlines matter the clock is a variable, and a tick is not taken past a timer
that is due. This idealises tokio's timers, which may fire late but not early;
the "not before" half of `TimesOutWhenIdle` does not depend on it.

`GuiProxy` takes a successful `apply_system_proxy` at its word, which `SystemProxy`
justifies except after an ignored deletion. A kill of the GUI is excused in
`OsFollowsConfig` (`stale`): what is checked is that a graceful end takes the proxy back and
that the next call which applies a mode, at a start or by hand, ends the exception.
In `GuiWindow` showing and hiding succeed when they are called; in `LocalProxy` a stream that the server drops while the
connection lives is one of the cases of `lost`.

Further assumptions: two calls of `store` never read the same `Instant`; each file
write gives a new modification time; moka runs the eviction listener as part of the
removal; a tokio Mutex may be granted to any waiter; `Notify::notify_waiters`
reaches exactly the `Notified` futures created before it; tokio's UDP socket
registers a waker only when it returns `Pending`.

## 5. Proofs

All theorems are for arbitrary constants under the named assumptions of the modules.

* `InFlightProofs`. `Parking` joins `NoMissedWakeup` and `ParkedReachable`: a parked
  packet is woken, or it is registered and no credential for its salt is stored; the
  second half is needed to know that the next `store` wakes it. `SingleUse` needs a
  ledger: stamps in the table and in hands were issued (`StampsIssued`), held ones
  differ from handed-out ones (`StampsApart`), and a claim whose stamp is still in
  the table is that very credential (`ClaimsSound`). `BothMapsBounded` counts with
  the library's cardinality theorems. `NoResidue` needs that `nextCleanup` is never
  in the past and that the last cleanup left nothing expired (`Swept`).
  `CredentialsLeaveWhenDue` and `Refinement` are step properties from the ledger;
  `Refinement` maps the table to `CredentialStore`.
* `UdpEndpointPoolProofs`. `Creation`: the tasks in the creating section, from the
  election to the release of the mark, are at most one, the mark is set exactly
  while there is one, and the one that dials saw an empty slot, which nobody else
  can fill.
* `ReconnectProofs`. `Leadership`: leaders are at most one, `in_flight` is set while
  there is one, the connection slot is dead or empty until the leader publishes, and
  the auth stream belongs to the leader's attempt between `SetAuth` and `Publish`.
  It holds with cancellation: a guard that fails to clear `in_flight` blocks
  progress, not safety. `Asking` adds the requests: whoever shares the leader's dial is
  still subscribed to a Notify that has not fired, so no request can leave a dial in
  progress except by cancellation, and `record_failure` is set exactly if one has a part
  in it. Callers that retry keep the number of their old dial; that dials have different
  numbers keeps them apart.
* `DnsResolverProofs`. `Resolver`: the lookup map names exactly the tasks with a
  guard, each waiter is subscribed to such a task of its own name, and the name a
  task looks up is not cached meanwhile, which is what keeps insertion free of
  duplicates.
* `ServerProofs`. `ConnInv` adds to `AuthenticatedFirst` that without authentication no
  auth reader and no relay task exists that could store or open something later.
  `SocketsOwned` says which task holds a socket, after the JoinSet is gone too: no
  socket leaks, it is only held longer than the comment expects (`server_detach`).
  `NoneLeftBehind` is the safety half of `Returns`. `NoOrphanRelay` needs
  `EndpointsKnown` (endpoints that something refers to exist, and have no relay task
  before they do) and `FramesFilled` (what a handler has in hand at each of its awaits;
  a new endpoint is its own until the session is inserted). `LeastNatural`, from the
  library's well-founded minimum, replaces induction where identities are handed out in
  order.
* `TaskProofs`. `LocalInv`: the permits add up (`PermitsCounted`, with cardinalities),
  the bytes read are those relayed followed by those in the buffer (`BytesAccounted`,
  behind `RelayedInOrder`), and a copy has ended for a reason it may end for
  (`CopiesEndFor`, behind `HalfCloseKept`). `SessionsInv`: one opener per source, and
  no reader or writer without its supervisor. `AllInv` puts the six parts of `MCTasks`
  together for its `TypeOK`; a step of one part leaves the others where they are.
* `DataPathProofs`. `ClockInv`: the atomic is the rounded time of the last progress, and
  the timer waits on a value it had; the two halves of `TimesOutWhenIdle` follow by the
  arithmetic of `\div` (`DivBounds`, `DivMonotone`). `CopyInv` counts the bytes in hand.
  `BatchShape`: the slots the sorting loop has not reached hold the batch as it came,
  although kept buffers are swapped to the front. `CodecInv`: the bytes on the wire are the
  frames of the messages not yet decoded, followed by at most the start of a frame that
  was given up. A concatenation over all messages would need induction; instead `Carries`
  asserts a trail of rests, each of which is one frame followed by the next rest, so that
  reading peels the first frame off and writing extends the last. Lemmas about single
  frames say that each decoder takes exactly the bytes its encoder wrote, whatever follows,
  at every limit of a length field. The result holds for every base, the real 256
  included, and any number of messages; hosts, ports and payloads are the samples of the
  module, chosen relative to the base at the limits of the length fields. `PartsBehave`: a
  behaviour of `MCDataPath` is one of each of its parts, so that their theorems give
  `TypeOK`.
* `GuiProofs`. `MeterInv`: what the counter shows above the baseline has not been
  counted. `ProxyInv`: `OsFollowsConfig` and `PacServesConfig` are inductive with the
  types; the work is that every handler re-applies what its change can affect
  (`TargetDepends`). `EditorInv`: the errors shown are errors of the draft as it is.
  `SysInv`: every tool of a call is on track (each command of its script is done or still
  to be run, or is the deletion of `AutoConfigURL` and was ignored) or given up; it rests on each script writing a key once and having the
  requested effect when all of it is done, which is shown script by script. `ListInv`:
  the working, saved and on-disk lists are well formed and the indices point into them,
  with what `Vec::insert`, `remove` and `swap` do position by position; `GuiInv` adds what
  the type invariant says of lengths, of `runtime.json` and of the flags. `LogInv`: a
  snapshot under the current version, with no bump due, holds the current lines, which is
  why reading the version before the lines is safe. `WindowInv`: a launch that was granted
  the lock is its holder and runs; a launch without a bus never is, so its end does not
  release the lock of another. `HiddenToIcon` adds that no window is on the screen before its
  event loop (`StartsUnseen`). `GuiPartsInv` joins the seven parts for `TypeOK` of `MCGui`.

Assumptions on the constants are those the code makes: there is at least one address to
listen on (`ProxyAssumption`, `SysAssumption`), the value that stands for "absent" is not
an address, `None` is not a profile and there are two profiles to tell apart
(`GuiAssumption`), no launch is the value for "nobody has the lock" (`WindowAssumption`),
a decoding error is neither a message nor an answer (`WireCodec`), sizes and timeouts are
positive where the code's constants are. `RoomAssumption` is about the model: the bound on
a node list leaves room for the two nodes a file brings and the index another program may
write.

Two models are shaped by their proofs: the sorting loop of `DemuxSocket` takes one step per
buffer and segment, and the scripts of `SystemProxy` are written out as sequences, since
what a fold or a filter computes cannot be proved without induction over data.

Some predicates are proved and, since the proof says more than a small instance, not
repeated in a run: the type invariants of the single modules, `TableBounded`,
`LeavesOnlyWhenDue`, `OneCreator`, `OneLeader`, `SingleFlight`, `CacheSound`,
`SocketsOwned`, `NoneLeftBehind`, `PermitsCounted`, `OneOpener`, `Supervised`,
`IndicesInLists`, `RowsMatchVersion` (rows shown under the current version are the current
lines) and `OneInstance` (launches that could check claim the lock one at a time, while its
holder starts, fails to open its window or ends).

Only model-checked:

* all liveness (`EvictReturns`, `CallsReturn`, `Returns`, `SocketsReleased`,
  `SessionsReleased`, `HandlersEnd`, `EventuallyReleased`, `EventuallyServed`,
  `EventuallyFlushed`, `EditSeen`, `LogsCatchUp`, `HiddenIsReachable`): fairness is
  outside the prover's reach.

Every invariant and every action property of a passing run is a theorem; of
`HiddenIsReachable` the first half is (`HidesToIcon`).

## 6. Plan

What is left of the proofs is liveness, which stays with TLC.

Models that would still add something: the order in which `try_addresses` races the
addresses of a server, the text of share links (a space is encoded as `+` and not decoded
from every part), and the matching of PAC rules. All three are pure functions.

## 7. Not modelled

Cryptography (abstracted to identities), TLS and QUIC themselves, socket options,
command lines, the text of configuration files and links, logging and wording, what the
Slint views look like, autostart and desktop files, translation, and packaging: pure
I/O, presentation or text without a state of its own. The parts are listed in
`PROJECT.json` under "components".
