# Ligend server: TLA+ models, checks and proofs

Ligend is a VPN server in Go. Clients connect over WebSocket to a secret path (or by
AmneziaWG datagrams), get a tunnel address from a pool, and exchange IP packets with a TUN
device. The modules in this directory model its concurrent core; all sources named below are
under `src/server/`.

## 1. The system

| component | state | operations | talks to |
|---|---|---|---|
| address pool (`tunnel/session.go`, `IPPool`) | queue of free addresses, set of used ones, `p.mu` | `Allocate`, `Release` | session manager |
| session manager (`tunnel/session.go`) | `sessions` by id, `ipMap` by address, `sm.mu` | `CreateSession`, `RemoveSession`, `GetSession`, `ListSessions` | pool, handlers, panel |
| NAT table (`tunnel/nat.go`) | `entries` by address, `n.mu` | `Register`, `Unregister`, `LookupByPacketDst` | handlers, TUN router |
| client handler (`server/server.go`) | one goroutine per WebSocket client | `handleClient`, `clientReadLoop`, `cleanupSession` | everything above |
| AWG listener (`server/server.go`) | one goroutine, one UDP socket | handshake, data datagram | session manager, NAT table, TUN |
| TUN router (`server/server.go`) | one goroutine | `tunReadLoop`, `SendDataToClient` | NAT table, connections |
| padding (`protocol/padding.go`) | one goroutine per client outside game mode | `Start`, `Stop`, `run` | connection |
| authenticator (`auth/auth.go`) | nonce cache, its order, `nc.mu` | `Validate`, `has`, `add`, `cleanup` | HTTP handlers |
| codecs (`protocol/frame.go`, `batch.go`, `awg.go`) | none (a batch encoder's packets) | encode, decode | everything that sends |
| process and listener (`main.go`, `server.go`, `panel/api_server.go`) | HTTP server, shared `cfg`, config file | `Start`, `UpdateListenAddr`, `Shutdown`, save | systemd, panel |
| panel (`panel/*.go`) | SQLite database, log ring | REST handlers: settings, clients, keys, login | shared `cfg`, session manager |
| panel login (`panel/auth.go`) | the secret, in the database; tokens with the administrator | `NewAuth`, `LoginHandler`, `ValidateToken` | database |
| configuration (`config/config.go`) | `cfg`, the file | `Load`, JSON and YAML by field names | everything |

What is hard:

* **Many short critical sections.** Each table has its own mutex and no operation holds two.
  Creating a session goes through the pool, the maps, the connection list and the NAT table in
  four separate sections, and cleanup goes back through them, so every operation can be seen
  half done by every other.
* **Overlapping cleanups.** A session is cleaned up by its own handler and by `KickSession`.
  The address may be reused between two steps of the second one.
* **Failures in the middle.** The pool can be empty, the key generator can fail, the client can
  vanish at each step.
* **Check then act.** The nonce is looked up and added in separate critical sections.
* **A listener that moves.** The panel may change the listen address while the server starts or
  stops, and main's fate depends on the very `http.Server` that is replaced.
* **Starts that end early.** Database, secret, port and file are written in single statements, errors are
  partly ignored, and systemd starts the process again wherever it has ended.
* **Datagrams without order.** A datagram may arrive after its session is gone and its address reused.
* **Blocking writes.** Router, handler and padding write to sockets that a client may not drain.

What makes each part correct is stated with the modules below; the list `hazards` of
`PROJECT.json` names the line where each difficulty sits and the property that covers it.

## 2. The modules

**`IPPool`** models the pool: `available` is `p.available`, `used` is `p.used`, addresses are last
octets. `PoolInit`, `Allocate` and `Release` are `NewIPPool`, `Allocate` and `Release`. It is a
specification of its own (any caller allocates and releases anything), about which `PoolCorrect` is proved, and `SessionLifecycle`
extends it. The subnet is taken to be IPv4, as `NewIPPool` and the server do everywhere.

**`SessionLifecycle`** models `handleClient`, the handshake branch of `awgReadLoop`, `KickSession`,
the session manager and the NAT table. `pc` says where each goroutine stands; every critical
section is one action:

| action | code |
|---|---|
| `Accept`, `Handshake` | `handleWebSocket` starts a handler; the read loop gets an H1 datagram |
| `TakeAddress`, `PoolExhausted`, `KeyFails`, `Insert` | `CreateSession` |
| `AddConnection`, `Register` | the same calls in `handleClient` and `awgReadLoop` |
| `ControlsSent`, `ControlsFail` | `sendInitialControls` |
| `Disconnect`, `ReadFails` | `clientReadLoop` |
| `KickFinds`, `KickMisses` | `KickSession` |
| `Unregister`, `Remove`, `GiveBack`, `CloseConns`, `Close` | `cleanupSession`, `RemoveSession`, the deferred `conn.Close` |
| `ConnLost` | the client or the network |

Session ids are 16 random bytes and are taken to be unique: a session is named after the
goroutine or datagram that creates it. The loop of the AWG listener is sequential, so a
datagram waits until the one before is done (`LoopFree`). Several kicks may run at once.
Removing a connection, `GetSessionByIP` and `RoutePacket` have no callers and are left out.
`KickSession` has no caller either (the panel's kick endpoint answers without it), but it is the
exported operation for this purpose, so the model has it, and the runs say which properties need
its absence (`Kickers = {}`).

**`AddressLease`** is the abstract specification: an address is leased to one session, its packets
go to that session or to nobody, and the lease ends only when no route is left. `SessionLifecycle`
maps to it with `Owner` (who holds the address, from `Allocate` to `Release`) and `nat`.

**`AwgListener`** extends `SessionLifecycle` with the data path of the AmneziaWG listener:

| action | code |
|---|---|
| `LookUp` | `awgReadLoop` reads a data datagram and looks for its session in `ListSessions` |
| `Take` | the session found takes the sender's address; the datagram is opened and written to the TUN device |
| `ServeHandshake` | the steps of `Handshake` and `CreateStep`, and `session.UDPAddr = remoteAddr` |

The loop is sequential (`LoopIdle`), so a handshake and a data datagram are not served together, but between `LookUp` and
`Take` every handler may go on. A data datagram is named after its sender: it carries the number of the sender's
session, and it may arrive at any time after the sender has learnt that number (`KnowsNumber`), also after the session is gone. The order
of `ListSessions` is that of a Go map, so `LookUp` takes any session that matches. Which datagrams open with which key, and
changes of the header magics, are left out. `KickSession` is left out too.

**`Authenticator`** models `Validate` and the nonce cache. Time is a counter of ticks, `Second` ticks
to the second: `Validate` compares whole seconds, the cache compares instants, and the drift
wraps like the 64-bit duration it is (`DurationLimit`). `has` and `add` are separate actions, as they
are separate critical sections; `Compacted` is the loop with which `Sweep` (`cleanup`) rebuilds the order. `accepted`, `evicted` and `raced` are history variables;
`raced` has the validators that stand between `has` and `add` while another has had the same nonce accepted. The records of
`nc.order` carry an expiry that is never read, so only their nonces are kept. Requests that race add a nonce twice, and the
second record does not make the map any larger, so nothing in the code bounds the order; `MaxRecords` does it for TLC. Wall clock and
monotonic clock advance together, and the 64-bit float in which `Validate` takes the absolute
value is exact.

**`Tunnel`** models the way of frames to the clients. There are three kinds of goroutine and `pc` says
where each stands: the router (`tunReadLoop` with `SendDataToClient`), a handler per client
(`handleClient` from `Register` on, `sendInitialControls`, the answers of `clientReadLoop`), and the padding
goroutine of a client (`PaddingGenerator`).

| action | code |
|---|---|
| `Route` | `tunReadLoop` reads and looks up, `SendDataToClient` makes the frame |
| `Register`, `Control`, `Choose` | NAT entry, the next initial control, start of padding |
| `Answer`, `Disconnect`, `ReadFails` | `clientReadLoop`, `handleControlFrame`, `handleMigrate` |
| `Stop`, `Join`, `Unregister`, `Close` | the deferred calls: `padGen.Stop` in two steps, `cleanupSession` |
| `Pad`, `PadStops` | the two cases of `run`'s select |
| `Lock`, `Return` | `SendFrame` takes and gives back `writeMu`; the others go on without |
| `Enter`, `Refused`, `Panic`, `Flush`, `FlushFails` | `conn.WriteMessage` of the WebSocket library |
| `Read`, `Leave`, `Vanish`, `Arrive` | the client, the network, the TUN device |

The library is external and modelled by its documented contract, one concurrent writer: a writer copies its
frame into the connection's buffer and then hands the buffer to the socket; a second writer may overwrite
the buffer in between, wholly or in part (`Mixed`), and either of them may hand over its own frame, the other's or the mixed one; or it is
noticed, and the library panics. It may refuse a write as soon as
the connection is no longer open, which is more than it does. Nothing in the server recovers from a
panic: router and padding end the process at once, a handler (started with `go`) first runs its deferred
calls. `Room` frames fit between server and client before a write blocks; there are no deadlines. `cfg.GameMode`
is read anew by each handler, since the panel may set it at any time. Each client has its own address here;
reuse of addresses belongs to `SessionLifecycle`. The padding delay, flags and payloads do not matter to the
properties and are left out, and so are datagram sessions and the sequence numbers of the frames: a 32-bit counter that wraps, of which
no document promises anything and which the server reads only to choose the frames it pads.

**`Codec`** has the pure functions of `protocol/frame.go` and `protocol/batch.go` as operators: `Encode` and `Decode`
of frames, `EncodeBatch` and `DecodeBatch`, `Compress` and `Decompress`. Lengths go through two bytes of `Base` values, with
the conversions to 16 bits where the code has them. The header's other fields have fixed places and are
record fields. `Decode`'s checks for a short header and for the version are left out: a message is a record, so its
header is whole, and what fails these checks is refused before anything else is read from it. LZ4 is a library: `CompressBlock`, which cuts a run at the end to one byte and
makes nothing of data it cannot shorten, and `DecompressLZ4` stand for it, because all that matters is that it shortens some
data and gives it back when told the size. `CompressLZ4` is the code around it; that the library reports an error is left out.

**`PacketTransfer`** uses `Codec` in a small state machine: a sender fills a `BatchEncoder`, or sends packets alone,
compressed or not, padded or not, and `Receive` is `clientReadLoop` down to the TUN device. The server contains
only the receiving half of this path; the sender is the client, which is not in this repository, so it is
assumed to use the package as its comments ask: flush when `Add` says so. Writes to the TUN device succeed.

**`ServerLifecycle`** models the process: `main`, `Server.Start`, `UpdateListenAddr`, `Shutdown`, the panel's PUT of the
server configuration with the file it saves, and systemd. There are the main goroutine, a goroutine per PUT, the
ones `UpdateListenAddr` starts, and the signal goroutine.

| action | code |
|---|---|
| `Load`, `MakeTun`, `TunFails`, `SetupNAT` | `main` up to `Start`, and `Start` up to the firewall rules |
| `Publish`, `Listen`, `Return` | `Start` makes `s.httpServer`, then serves whatever is there; its return ends `main` |
| `Put`, `PutOther`, `Assign`, `Marshal`, `Truncate`, `Write` | `handleServerConfig`; `Truncate` and `Write` are the two halves of `os.WriteFile`, each of which may fail |
| `Update`, `Replace`, `Starter` | `UpdateListenAddr` up to the shutdown of the old server, its rest, its goroutine |
| `Signal`, `ShutServer`, `CleanupNAT` | the signal goroutine and `Server.Shutdown` |
| `Hangup` | `systemctl reload` sends SIGHUP, which nobody catches |
| `Exit`, `Boot` | the process ends; systemd starts it again |

A configuration stands for its listen address, and two addresses are different ports. `Exit` takes all volatile
state with it; the file and the firewall rules stay. `SetupNAT` appends its rules at every start. A file that was
truncated and not written has no secret key, so `Load` fails; of one that is torn, by two writers or by a full disk, YAML may make anything.
The error of `os.WriteFile` is dropped and the PUT answers with success. Nothing orders PUTs that come together. Two history variables
tell when either has happened in the life of the process: `unsaved` (the last save failed, or the file that was loaded was torn) and `overlap` (a PUT
has begun while another was under way).
Reading `s.httpServer` and `ListenAndServe` are one step. Shutting down the panel may run out of time, so PUTs may go on after a
signal. Systemd's limit on the rate of starts is not modelled; `MaxStarts` bounds them.

**`PanelStore`** models what a start makes of the panel's database, one SQL statement a step, with a crash possible between any two:

| action | code |
|---|---|
| `CreateTables`, `AddAdmin`, `FallBack` | `initSchema`; `main` tries `ligend.db` when `NewDB` fails |
| `ReadPort`, `DrawPort`, `SavePort` | `main` settles the panel's port; both errors are ignored |
| `ReadSecret`, `DrawSecret`, `SaveSecret` | `NewAuth` |
| `Login`, `Expire`, `Valid` | `LoginHandler`, `ValidateToken` |
| `Crash`, `Boot` | the process ends for whatever reason; systemd starts it again |
| `BootFails` | a start that ends before the database, because the configuration cannot be read |

A random port or secret is named after the start that draws it. A token is the database it was given out on and the secret it is
signed with. A statement of SQLite is taken to be atomic and durable.

**`Settings`** extends `PanelStore` with the configuration that server and panel share and the file it is saved in:

| action | code |
|---|---|
| `Load`, `LoadFails`, `Start`, `Stop` | `config.Load`; the start of `PanelStore`; the end of the process, also within `os.WriteFile` |
| `Put`, `AssignAddr`, `AssignRest`, `Marshal`, `Write` | `handleServerConfig` |
| `PutProtocol` | `handleProtocol`: changes memory only |

Five settings stand for all: three that a server PUT sets when they are not zero, `GameMode`, which both PUTs set whatever the body says,
and `AWGJc`, which only a protocol PUT sets. A body is a function from JSON keys to values; `Decoded` finds a field as
`encoding/json` does for a struct without tags, by its name in any case. `told` is what the settings form tells the administrator.

A save may fail like in `ServerLifecycle`, but here the text has an inside. `Line` is the place of a setting in it, which is the order of
`config.Config`, and the secret key follows the path (`KeyAfter`). A text that ends early (`Written`) either has lost the key, or
breaks off in a way that is no YAML, and then `config.Load` fails (`Unreadable`); or it loads, with the default of every setting that is
missing and perhaps with the first digits of a number (`Short`). If the file cannot even be opened it stays as it was, and
`unopened` remembers that. One server PUT is under way at a time; several at once and the moving listener are in `ServerLifecycle`.

`MCSessions`, `MCAuth`, `MCTunnel`, `MCTransfer` and `MCSettings` hold the instances of the modules they are named after (`MCSessions` of `AwgListener`); `kicks` and the runs of `ServerLifecycle` need only constants. Definitions marked *Variant* in a comment are
deliberately wrong forms of the definition they precede, kept to show that the properties notice.

## 3. The runs

| run | question | bounds |
|---|---|---|
| `sessions` | do the tables implement the address lease while data datagrams come late and out of order? | 3 clients (a symmetry set) and a datagram session over 2 addresses, no kick |
| `kicks` | which invariants survive overlapping cleanups, are sessions reclaimed and addresses reused late, do kicks end? | 2 clients, a datagram, a kick, the 2 addresses at the end of the subnet; no symmetry, because of the liveness properties |
| `auth` | does the cache keep its size, and when can a nonce pass or be accepted twice within its lifetime? | 2 nonces in a cache of 1, two validators (a symmetry set), 10 ticks, 4 records |
| `tunnel` | do the writers of one connection get in each other's way, what becomes of the order, do they come back? | 1 client, 2 initial controls, 2 packets, 1 answer, 1 padding frame, room for 1 frame |
| `transfer` | do packets arrive whole, once and in order? | bytes of 5 values (lengths below 25), 3 packets of 1, 2 and 6 bytes, batches of 3 packets or 10 bytes, 2 messages under way |
| `lifecycle` | where does a server listen and what does it restart with, when its address changes while it starts, serves and stops? | 3 addresses, one held by another process, 2 PUTs, together or one after the other, 2 starts |
| `panel` | what survives a start that crashes, fails or uses the other database, and a save that fails? | 2 database files, 3 starts, 2 server PUTs out of 4 bodies, 2 protocol PUTs at will |
| `auth_concurrent` | expected violation of `RepeatOnlyAfterTTL` | as in `auth` |
| `echo_lost` | expected violation of `Echoed` | 1 client, 5 initial controls, 1 packet, 1 answer |
| `port_change` | expected violation of `ListenerRestarts` | 2 free addresses, 1 PUT, 1 start |
| `datagram_misrouted` | expected violation of `RoutedByNumber` | 1 client and a datagram session |
| `settings_ignored` | expected violation of `PortAsTold` | 1 start, 1 server PUT |

**Why the bounds are enough.** There are more clients than addresses, so the pool runs dry and an
address is reused while its last session is still being cleaned up; in `kicks` a kick and the handler
give two overlapping cleanups of one session while the other client and the datagram want its address. In `sessions` a datagram of a client
whose session is gone can meet the session of another client at its address, of a third one, and the datagram session. For the cache, two nonces overflow one place,
10 ticks are two lifetimes and five drift windows, and the requests include a bad signature, one client that uses its nonce again later, and, as every
request may come any number of times, two deliveries of one request at once. Four records leave room for a nonce that is recorded twice, in
a race or after it expired, before and after another. In `tunnel` all three kinds of writer meet on one connection: two controls
are enough for one to come before and one after another writer's frame, two packets for one to meet what is left of the other, and room for one frame lets every
second write block. In `transfer` the longest packet compresses; two of them fill a batch by its bytes and three
short ones by its count, and a batch may pass `MaxBatchBytes` by the packet that fills it. `BatchExact` takes every
string of up to six bytes. `MaxBatchBytes + MaxPacket + 6 < Word` is the assumption behind the 16-bit lengths: a batch below the limit
takes one more packet with its two bytes of length, the count has two bytes, and a payload that compresses by a single byte gets
four bytes of size in front. With the code's 60000 it holds for packets of up to 5529 bytes, and the TUN device's MTU is far below. In `lifecycle` two PUTs move the
address away and back, or both away, or to the one that is taken; they tear the file between them; and a second start reads what the first has left.
In `panel` three starts are one that fails half way, one on the other file and one that comes back; two PUTs are one that moves the listener
and one that comes after it, and the bodies are the form's own, two by other programs, and one that changes address and path together. The safety properties proved below do not depend on the bounds.

**Fairness** (`FairSpec`). The Go scheduler runs every goroutine that can run, so a handler, a
datagram's processing and a kick each make progress (weak fairness of their steps). Nothing makes
a client connect, answer or go away, and a write to an open connection may block for as long as
the client does not read: `Accept`, `ControlsSent`, `Disconnect`, `ConnLost` have no fairness.
In `Tunnel`, `Scheduled` says the same of router, handlers and padding; `ClientsAttend` adds that an attentive client
reads what it is sent and, once it leaves, closes its socket. In `tunnel` every client is attentive, and
the liveness properties say that the server itself then never gets stuck.
In `ServerLifecycle` main and the signal goroutine make progress, and the PUTs together, so that the lock is given back; which of them goes on is
left open, and nothing needs the starters to run. PUTs, signals and systemd's restarts may never come, and `TunFails` is one way for main to go on, not one that must be taken. Padding's timer
has no fairness: `PadStops` is enabled as soon as the handler has closed the channel, and a padding frame
need never be sent.

**Deadlock** is checked in the session, tunnel, transfer, lifecycle and panel runs: `Finished` is the only way to stop. The clock of the
authenticator is bounded by `MaxClock`, so its runs end and do not check for deadlock.
`AwgListener` and `Settings` state no fairness: nothing in them has to happen.

### What the violations show

* `auth_concurrent`: two deliveries of one request can both pass `has` before either reaches `add`.
* `echo_lost`: answers are written outside `writeMu`. When the router writes at the same time and the library does
  not notice, the buffer holds the other frame: one frame goes out twice and the answer never does. When it
  does notice, the process panics; the passing run `tunnel` has that in it (`Dead`).
* `port_change`: `UpdateListenAddr` shuts down the server that main serves, so `ListenAndServe` returns `ErrServerClosed` and
  main exits with status 1. The VPN is back only because systemd restarts it, and with it goes every session.
* `datagram_misrouted`: the lookup of a data datagram takes any datagram session, whatever the number. A session then takes the
  address of a stranger, and its own client gets nothing more until it sends again.
* `settings_ignored`: the settings form sends the names of the configuration file, `encoding/json` looks for those of the Go
  fields. Nothing changes but the settings whose names differ in case only (`mtu`, `dns`), and the page reports the new port.

### What else the models show

Some behaviour is in the models, contradicts no document, and has no run:

* The NAT entry is deleted by address, not by session. If a session is kicked and its address given to a new client, the old
  handler's own cleanup deletes the new client's entry: with a kick `ServedIsRouted` fails. `KickSession` has no caller, so `sessions`
  and the proofs about routes take `Kickers = {}`.
* A kick between `CreateSession` and `AddConnection` closes no connection and still reports success.
* The NAT entry is made before the initial controls are sent, so data can come before `SESSION_INIT`.
* The router writes to sockets itself and without a deadline: one client that does not read stops the packets of all.
  `RouterReturns` therefore takes every client to be attentive.
* A save that fails is answered with success. `Truncate` and `Write` have what is left: the old file, an empty one, from which no start succeeds, or a
  torn one. A cut file that still loads brings back address and path (`AccessKept`), because they stand before the secret key, but
  protocol settings and limits fall back to their defaults without a word.
* The configuration file also stays empty if the process ends inside `WriteFile`.
* Of two PUTs under way together, the second may assign its address without moving the listener, and both may write the file at once:
  `ListenerFollows` and `RestartsAsRunning` hold until PUTs overlap. `ServesCurrent` holds in any case.
* `Start` overwrites the server of an earlier `UpdateListenAddr` without stopping it.
* A signal before `Publish` stops nothing, and no goroutine takes the next one; `SignalEnds` is about a process that serves.
* A record of `nc.order` outlives its entry when the nonce has expired. If the nonce is accepted again, the eviction drops its
  fresh entry while older ones stay; `RepeatOnlyInRace` allows for evictions, so nothing stated here is broken.
* A request stamped as far ahead as the drift allows is still fresh, in whole seconds, when the lifetime of its nonce is over, and is accepted
  once more. `RepeatOnlyInRace` speaks of the lifetime only.
* `Shutdown` stops the HTTP server before it removes the firewall rules. Main may exit in between, the rules stay (`rules`), and the next
  start appends another pair. The same happens whenever the process ends in another way, as on SIGHUP.
* Protocol settings are in memory only until a server PUT comes along and saves them. A server PUT whose body has no `GameMode` switches game
  mode off. Of these settings `AccessKept` says nothing.
* If the database fails when the port is read, the panel comes up on a random port and may overwrite the saved one
  (`DrawPort`, `SavePort`); no document promises more.
* Nothing reads `max_clients` after the configuration is loaded.

## 4. The proofs

Checked by TLAPS for all values of the constants under the `ASSUME`s of the modules. These say that the kinds of goroutines
are disjoint, that the null values are not real ones, that an initial control is no data, answer or padding frame, and that the limits of
the codec are positive and leave room for one packet over `MaxBatchBytes` (see the bounds above). Every safety property that a
passing run checks is proved, except `ListenerFollows` and `RestartsAsRunning`, which are about processes in which PUTs do not overlap.

| module | results |
|---|---|
| `IPPoolProofs` | `PoolCorrect`: no address queued twice, every address free or used, never both; lemmas on queues used below |
| `SessionLifecycleProofs` | `TypeCorrect`, `Exclusive`, `NoAddressLost`, `MapsStayInverse`, `ReusedLatest`, with any number of kicks |
| `RoutingProofs` | without kicks: `RoutesLive`, `ServedRouted`, `LeaseRefined` (the refinement of `AddressLease`); `AwgImplemented` (the listener's steps are steps of `SessionLifecycle`), `AwgTypeCorrect` |
| `AuthenticatorProofs` | `AuthTypeCorrect`, `CacheStaysBounded`, `PassesLate` (`PassesOnlyAfterTTL`), `ReplayOnlyInRace` (`RepeatOnlyInRace`), with any number of validators |
| `TunnelProofs` | `TunnelTypeCorrect`, `PaddingStopped`, `SendersExclusive`, `ControlsArrive` (`ControlsWhole`), `DataKeepsOrder` (`DataInOrder`), with any number of clients, frames and room |
| `ServerLifecycleProofs` | `LifecycleTypeCorrect`, `ServesTheCurrent` (`ServesCurrent`), for any number of addresses, starts and PUTs under way together |
| `SettingsProofs` | `SettingsTypeCorrect`, `StoreImplemented`, `TokensStayHonoured`, `AdminStays`, `AccessStays` (`AccessKept`), for any files, settings, bodies, starts and PUTs |
| `PacketTransferProofs` | of the codec: `DecodesEncoded` and `EncodesDecoded` (batches), `DecodesFrame`; of the transfer: `TransferTypeCorrect`, `BatchesFit` (`FlushFits`), `PacketsInOrder` (`InOrder`), `BatchesExact`, for every byte size, set of packets and number of messages under way |

**Sessions.** `ExclusiveAddress` is not inductive: to see that `TakeAddress` gets an address nobody holds,
one must know that every held address is marked used. The inductive invariant has three parts
besides types: *control* (what `pc` implies about `ip`, `sessions` and `target`, and that at most one
goroutine is between `Remove` and `GiveBack` for a session), *accounting* (`used` is exactly the set
of held addresses, and holders are distinct), and `MapsAgree`. The step of `Remove` carries the argument:
only the goroutine that finds the session in the map goes on to release.

**Routing.** With no kicks a session is cleaned up by its handler only, so until `Unregister` the entry
of its address is its own and between `Unregister` and `GiveBack` there is none. That invariant
gives `RoutesAreLive` and `ServedIsRouted`, and makes every step a lease step or a stutter.

**Reuse.** `ReusedLatest` is a step property: every step of the sessions is one call of the pool or none (`PoolCalls`), and no call of a pool
without double entries hands out or queues an address out of turn.

**Datagrams.** The listener adds two variables and reads the tables without writing them, so each of its steps is a step of
`SessionLifecycle` or leaves it alone (`AwgImplemented`), and every theorem about steps and states of the tables carries over.

**Panel.** A token's secret is the one saved in its database: the secret is written once, when there is none, and the panel gives out
tokens only after that. `AccessKept` is not inductive: while a PUT is under way file and memory differ. The invariant adds that what a PUT
is about to write has the address and path of memory, and `WrittenUsable` that a text that ends early and still loads has those of the
whole text; that lemma is where the order of the lines goes in.

**Nonces.** `MemoryInv`: a nonce that was accepted and not evicted is in the cache with expiry `accepted + NonceTTL`
until that time has passed. It gives `PassesOnlyAfterTTL`: the check itself is never wrong. The
last part of the invariant is about the time between `has` and `add`: what a validator has found absent is still absent, because `Sweep` only
removes and any other `Accept` of that nonce puts the validator into `raced` (`AcceptRaces`). So an acceptance out of turn is one of a
race, for any number of validators; `auth_concurrent` shows that there are such.

**Cache.** The loop in `add` stops when it runs out of records, so it keeps the bound only because every entry has a record. `has` and `cleanup`
forget entries and leave records, which does no harm; the eviction drops a nonce with its first record, wherever else it is recorded; and
`Compacted` keeps exactly the nonces still held (`CompactedFacts`). The eviction ends because the map fits, or because
no record is left, and then no entry is left either (`EvictionFits`).

**Tunnel.** Types alone are not inductive: the counter of initial controls stays in range because a handler at `control` has
some left, which `Orderly` states. Exclusion of the senders needs to know who is inside: a goroutine in `conn.WriteMessage` that had to lock is the holder
of the `writeMu` of the connection it writes to, and the connection does not change under it (`dest` is only
assigned while the router is at `read`). After a panic ended the process nobody moves, so the claim about
stages is made for a living process only. For padding, the invariant says that a padding goroutine
runs only while its handler is between `Choose` and `Join`, also when a handler panics.

**Initial controls.** A handler that sends no answer sends the control numbered `next`, and nobody else sends controls
(`KindsInv`). It holds `writeMu` meanwhile and padding has not begun, so nobody writes to the connection beside it, and what it has put in
the buffer is still there when it hands it over (`BufferInv`); answers, which could spoil that, come from the handler itself and only later.
`ControlsInv` then counts: the controls the client has got are as many as the handler's stage says, and each is the one with its number.

**Order of data.** Answers and padding frames may overwrite what the router has put into a buffer, and the router may overwrite theirs, so a packet can
be lost, mixed with something else or go out twice. `DataInv` says why none comes late: data in a buffer is as new as any that has gone out on that
connection, and while the router writes there it is the packet in the router's hand; the packets in the TUN device are newer.

**Data.** The prover cannot use induction with an operator as its parameter. The proofs about data use two facts about sets instead:
a set of naturals has a least element (the library's theorem about well-founded relations), and so a set with 0 and with every successor up to
`n` has all of `0 .. n` (`UpTo`). That a recursive function exists at all is shown in the same way: the functions that
follow the recursion up to `k` exist for each `k` (`Iterated`, `KeptExists`). `EncodeBatch`, `Entries` and `Compacted` are
therefore recursive functions.

**Codec.** Of an encoded batch the proof says where each entry begins; `Entry` then reads one packet after the other (`DecodesEncoded`). The other
way, every round of `Entry` leaves the batch of the packets read so far as a beginning of the data (`EncodesDecoded`). For frames and
compression the arithmetic of two and four bytes does it. LZ4 is the code of the module, not the library.

**Transfer.** `FlushFits` alone is not inductive: `full` is false only while the encoder is below both limits; one more packet then adds
at most `MaxPacket + 2` bytes and one to the count (`EncoderInv`). The assumption on the constants does the rest, together with `SizeInv`: the
encoded batch has `2 + size` bytes. For the order, `OrderInv` says that the packets given are those written, then what the
messages under way bring, one after the other, then those the encoder holds; each message brings what was sent in it because
it is decoded, decompressed and unpacked to just that (`SendBrings`).

**Listener.** `ServesCurrent` needs to know what each PUT has done so far. Between `Update` and `Replace` a PUT holds the lock, so it is the only one there, and
the server it has shut down stays the current one (`Replacing`). So when `Replace` makes a new one current, the server main
serves is closed, unless main had none yet; `Publish` cannot come in between because it takes the lock, too. `Made` says that main never
serves a server that is not there, and that a process that is not up has no PUT left over. Nothing in this depends on how many PUTs
there are. `ListenerFollows` and `RestartsAsRunning` do depend on it and stay with TLC.

Only model-checked: liveness (`Reclaimed`, `KickEnds`, `RouterReturns`, `HandlerEnds`, `SignalEnds`), since the prover does not
handle fairness and `ENABLED`; `ListenerFollows` and `RestartsAsRunning`; and the violations, each of which is one behaviour of one instance.

## 5. Plan

1. Done: the core (`IPPool`, `AddressLease`, `SessionLifecycle`, `Authenticator`, `Tunnel`, `Codec`, `PacketTransfer`,
   `ServerLifecycle`), `AwgListener` over the session tables, `PanelStore` and `Settings`, and their proofs.
2. Done: a proof of every safety property of the passing runs, the codec's included, but for the two about PUTs that do not overlap.
3. `Tunnel` over changing addresses: a router that holds a session while its address moves on.
4. An abstract channel (each frame written whole or not at all, one writer at a time) that `Tunnel` without answers
   and padding implements.
5. Changed header magics in `AwgListener`: sessions keep the ones of their creation.

Related questions are asked in one run where the instance allows it.

## 6. Not modelled

Not modelled, and not planned: cryptography (pure library calls; a signature is the name of its secret), statistics and logs of the panel and
its other read-only endpoints, its client keys and the links it makes of them (host and port are fixed in the code, the rest is formatting), traffic counters (nothing writes them), the TUN device's system calls and firewall commands, the key generator,
the installation scripts and the web pages.
