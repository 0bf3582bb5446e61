# TLA+ models of fishpkg's RPC transport, gateway pool, heartbeat and room-card pool

This directory holds TLA+ specifications of the concurrent core of fishpkg. That core is the request/response socket of both protocol variants (`src/sprotocol/core`, `src/sprotocol/http`), the frame codecs of both variants with the byte stream they travel on, and the self-healing gateway connection pool (`src/servicesdk/http`). It also holds the TLC configurations that check the specifications. Every action is translated from the Go source, and `PROJECT.json` maps each definition to the lines it models.

## 1. Inventory

### Components, their state and operations

| Component | Source | State | Operations |
|---|---|---|---|
| Frame codec (core) | `sprotocol/core/message.go` | none (pure) | `Encode`, `Decode` (length-prefixed segments, continuation segment, optional route/trace sub-headers, zlib) |
| Frame codec (http) | `sprotocol/http/message.go` | none (pure) | `Encode`, `Decode` (magic `#@`, resynchronisation by skipping bytes) |
| Socket (core / http) | `sprotocol/*/socket.go` | `requestID` (uint32), `requestQueue` (id → `chan *Message`, cap 1), `requestLocker`, write mutex `mu`, `lastWriteTime`, context | `Start`/`Run`/`readLoop`, `dispatch`, `post`, `Send`/`sendTimeout`, `checkTimeout`, `Close` |
| Handler registry & middleware | `sprotocol/*/handler.go`, `middleware.go` | `handlerMap`, `middleware` slice | `AddHandler`, `Use`, `routerHandler`, `doCall` (recover) |
| Gateway pool (http) | `servicesdk/http/connect.go` | `gwList.m`: address → `{so, status ∈ IDLE/PENDING/RUNNING, cancelFn}` under an RWMutex | `Add`, `Del`, `dial` goroutine, `GetAll`, `GetReadyCount` |
| Discovery adapter | `connect.go` (`dialGateway`, `fetchGateway`, `watchGateway`), `servicesdk/pkg/etcd` | etcd key prefix (external) | startup listing, PUT → `Add`, DELETE → `Del` |
| Notify / Filter | `servicesdk/http/notify.go`, `filter.go` | `Notify.ping` | `OnClose` (re-`Add` the socket's address), `OnTimeout` (ping, close after 3 failures), `OnMessage` (PING → PONG) |
| Service registration | `servicesdk/http/service.go` (`register`), `servicesdk/core/service.go` | service identity | `register` (a `Send` of `/gw/register`, success iff code 0), `publish` |
| Core SDK calls | `servicesdk/core/client.go`, `context.go` | none | marshal, `gwList.Roll()`, one `Send` |
| Room-card pool | `gamesdk/pkg/game/room.go` | `shared` (card ids), `used` (id → slice index), `freeIdx`, `pendingIdx`, `currentSize`, `status` ∈ NOOP/NEW/FREE, under one mutex | `StartRoomCardPool`, `GetRoomCardID`, `ReleaseRoomCardID`, `loopFree`, the `new` (scale up) and `free` (scale down) goroutines, which call the dispatch server with the mutex released |
| Out of the core | `db`, `agollo`, the rest of `gamesdk`, `util(s)`, `tracer` | see `PROJECT.json` | |

The core variant's `gwList` (`Roll`, `Add`, `Del`) is referenced by `servicesdk/core` but its source is not in the repository.

### How they interact

Callers such as the core SDK, `register` and `OnTimeout`'s ping call `Socket.Send`. `Send` registers a wait channel under a fresh id, writes the frame, and waits on the channel or a timer. Its deferred calls then delete the entry and close the channel. The socket's read loop decodes frames and pushes each Response into the channel registered for its id.

The pool's `Add` spawns a `dial` goroutine. That goroutine connects, starts the socket's read loop, runs `register` on the socket, and installs the socket with `SetContext(address)`. When the read loop ends, `Notify.OnClose` reads the context and calls `gwList.Add` again; this is the reconnection loop. The discovery watcher calls `Add` and `Del` from etcd events.

### What is hard

- **Response against timeout.** A caller's timer and its response race. The late response must go nowhere, and it must never reach the next call.
- **Lock scope in dispatch.** Core holds `requestLocker` across the channel send, while http releases it before the send.
- **Duplicate, lost and reordered responses.** The peer may deliver responses in any of these ways.
- **Del.** `Del` takes the lock and releases it at once. Its lookup, cancel, close and delete therefore interleave with `Add`, `dial` and `OnClose`.
- **Stale cancellation.** A dial sees its context cancelled only at the top of its loop.
- **Registration failures.** These are split by matching the error text.
- **Reconnection depends on the socket context.** The context is set on install, cleared by `Add` before it closes a socket, and never cleared by `Del`.
- **Drops at any moment.** Network drops and ping-timeout closes can happen at any point, including during the handshake.

### What makes each component correct

- **Socket:**
  - every `Send` returns;
  - a returned response is the peer's answer to that very call;
  - the read loop never panics or blocks for good because of a response.
- **Pool:**
  - a pending entry always has a dial working for it;
  - no registered connection is left open without an owner;
  - a deleted address stays deleted;
  - every address in the pool is eventually running again after a drop (self-healing);
  - at most one dial runs per address.
- **Codec:**
  - the read loop dispatches, in order, every field `Encode` carries of every message that was posted;
  - it does so whatever the read sizes are, byte at a time included;
  - it leaves no byte behind once the stream is drained;
  - a frame of exactly `MAX_BODY_LENGTH` bytes goes out whole, and one byte more is split into a first package and a tail.
- **Registry:** the middleware order is as documented.

## 2. Plan

1. **`RpcCall` and `RpcSocket`** (done). `RpcCall` is the abstract promise of `Send`. `RpcSocket` models one socket with concurrent callers, the read loop, the peer and connection loss, for either variant, and is shown to refine `RpcCall`.
2. **`GatewayPool`** (done). It models the http pool, the discovery watcher and `OnClose`. It composes the socket at the level of `RpcCall`: registration returns ok, "send timeout" or another error, and a socket is open or closed with a read loop that runs `OnClose`.
3. **`CoreCodec`, `HttpCodec` and `FrameStream`** (done). They model `Encode`/`Decode` of both variants over byte sequences, with a reduced segment bound for the core variant, composed with `post` and `readLoop`'s decode loop.
4. **Handler registry and middleware.** The `AddHandler`/`Use` order, `routerHandler`, and `doCall`'s recover.
5. **`Heartbeat`** (done). It models `checkTimeout`, `OnTimeout`'s PING goroutines with their shared counter, and `Filter.OnMessage`'s PONG. It is a module of its own: a PING is one `Send`, whose correctness `RpcSocket` already shows, so here a PING is reduced to answered or timed out.
6. **`RoomCardPool`** (done). It models the room-card pool of `gamesdk/pkg/game/room.go`: `GetRoomCardID`, `ReleaseRoomCardID`, `loopFree` and the `new`/`free` goroutines, against a dispatch server that may fail or lose an answer.

## 3. Modules

### `RpcCall.tla`: what `Send` promises

| Element | Meaning |
|---|---|
| `active[c]` | the number of the call that caller `c` is inside, 0 when idle |
| `issued` | how many calls have started |
| `answered` | the call numbers the peer has answered |
| `outcome[c]` | what `c`'s last call returned |
| `Call(c)` | a caller starts a call |
| `Answer(n)` | the peer answers call `n` |
| `Return(c)` | the call returns its own answer, or fails with "timeout" or "error" and no answer |

### `RpcSocket.tla`: `sendTimeout`, `dispatch`, `readLoop` and `Close` of both variants

The variables have the names of the socket's fields: `requestID`, `requestQueue` and `locker` (`requestLocker`). The other variables are:

- `chans`: every wait channel ever made, with its buffer and whether it is closed;
- `pc[c]` and `call[c]`: where caller `c` is in `sendTimeout`, and its id and channel;
- `rd`: the read loop;
- `toPeer` and `toSock`: the network, where `toSock` is FIFO because TCP is;
- `replied`: a ghost record of the frames the peer answered;
- `variant`: `"core"` or `"http"`, chosen at `Init` from the constant `Variants` and never changed. `MaxCalls` and `MaxDup` are functions of the variant, so one run checks both packages with a bound suited to each.

Caller actions follow `sendTimeout` line by line:

| Action | Code it models |
|---|---|
| `SendRegister` | make channel; lock; `requestID++`; register; unlock |
| `PostRequest` | write succeeded or failed |
| `SelectRecv`, `SelectTimeout` | the `select` |
| `DeleteEntry` | the deferred delete under the lock |
| `CloseWaitCh` | the deferred `close(waitCh)`, which runs last |

Reader actions:

| Action | Code it models |
|---|---|
| `DispatchCore` | lock held until after the push |
| `DispatchHttp` | lookup, then unlock |
| `PushResponse` | `ch <- msg`: blocks on a full buffer; on a closed channel it panics, and `readLoop`'s defers close the connection |
| `ReadExit` | the read error after `Close` |

The environment actions are `ConnLost` and the peer's `PeerRespond`, `PeerDrop` and `PeerDuplicate`. The gateway is not in this repository, so the peer is an unconstrained environment: it answers each request at most once, in any order, may never answer, and may duplicate up to `MaxDup` responses.

`RefinesRpcCall` maps the socket onto `RpcCall`:

- `active` is the channel number of the call in progress;
- `issued` is `Len(chans)`;
- `answered` is the set of call numbers the peer replied to;
- `outcome` is the result recorded when the caller is back to idle.

Data abstraction:

- message bodies are not modelled;
- a frame is an id plus its ghost call number;
- core's gateway-status branch, which turns a received status message into an error, is folded into "ok" because it returns the caller's own response;
- `post`'s chunked write loop is one step that succeeds or fails.

### `CoreCodec.tla` and `HttpCodec.tla`: the two frame codecs

Both modules are sets of operators over byte sequences and have no variables.

**`CoreCodec`** models `sprotocol/core/message.go`:

| Operator | Code it models |
|---|---|
| `PutBE(n, w)`, `GetBE(buf, start, w)` | `put16bit`…`put64bit` and `get16bit`…`get64bit`: big-endian, recursive over the byte count |
| `zlibCompress`, `zlibUnCompress` | zlib as a transformation that prepends a 2-byte stream header; decompression fails on a bad header, and `io.Copy`'s error is ignored as in the code |
| `HeaderLen`, `WireBody`, `IsPackage`, `Encoded`, `Encode` | `Message.Encode`, including the sticky `msgFlag \|= MF_PACKAGE` and the split into a first package of `MAX_BODY_LENGTH` bytes, a u32 tail length and the tail |
| `Carried` | the fields `Encode` writes: no function id in a response, and route and trace fields only under their flag |
| `Decode`, `Wait`, `Fail` | `Decode`, in the code's order of checks: short buffer, short frame, bad flag, incomplete package, bad type, index out of range (a panic that `Socket.Run` recovers), bad length, zlib error |
| `Drain` | the core `readLoop`'s inner loop: decode and dispatch until a frame is incomplete or `Decode` fails |

**`HttpCodec`** models `sprotocol/http/message.go`:

| Operator | Code it models |
|---|---|
| `Encode` | the 13-byte fixed head (magic `#@`, version, type, flag, request id, body length), then the extended data of a normal or request message or the status of a response, then the body |
| `Scan`, `Decode`, `Wait` | `Decode`: skip to the magic word; wait for the fixed head, the extended data or status, and the body; drop the magic of a frame of unknown type |
| `Carried` | extended data only in a normal or request message, a status only in a response |
| `Drain` | the http `readLoop`'s inner loop; it has no error exit |

### `FrameStream.tla`: one connection, `post` and `readLoop`

A connection speaks one variant, `proto`, chosen at `Init` from `Protocols`. Its state:

- `sent`: the messages whose `post` returned nil, as `Encode` left them;
- `wire`: the bytes written and not yet read;
- `buf`: the read loop's undecoded bytes;
- `got`: the dispatched messages;
- `closed`: the core read loop returned on a decode error;
- `posts`: how many times `post` has been called.

Its actions:

| Action | Code it models |
|---|---|
| `Post(msg)` | `post(msg.Encode())` under `Socket.mu`: the whole frame is written |
| `PostTimeout(msg, k)` | a write deadline after `k` bytes of the frame: `post` returns the error and the connection stays open |
| `Read(n)` | one iteration of `readLoop`: `conn.Read` returns up to `n` bytes, they are appended to `buf`, then `Drain` runs |

The core `MAX_BODY_LENGTH` is 0xFFFF in the code and `MaxBodyLength` = 40 in the runs. It is above the largest core header (38 bytes), so every header layout and both sides of the split boundary fit in a few dozen bytes.

The core messages of `MCFrameStream` are:

- a response with an empty body, carrying a function id as `gamesdk.Reply` sets one;
- a compressed, routed normal message;
- two routed and traced requests of exactly 40 and 41 bytes.

Field values span several bytes (65537, 70000, 2^30+1), so a byte-order or width error shows. All byte values stay below 128, so garbage read after a fault cannot overflow TLC's integers.

The http messages are:

- a request with extended data and a body holding `#@`;
- a response with a status;
- a pong, as the filter sends one.

One consequence of `Carried` needs no run: `gamesdk.Reply` sets a function id (the `msgID`) on a response, and `Encode` never writes it, so the client never receives it.

`Pack`/`UnPack` and the `Filter` hooks are not in the repository and are left out.

### `GatewayPool.tla`: `connect.go`, `notify.go` `OnClose`, `register`'s outcomes

State:

- `m` is `gwList.m` as address → entry number;
- `entries` holds every `_GWContext` ever made (status, socket, dial), kept so that `Del`, which holds a pointer, sees the entry it looked up;
- `dials` are the dial goroutines (address, cancelled, pc, socket);
- `socks` are connections (open, context, read-loop state, the context `OnClose` read);
- `store` is the etcd content;
- `w` is the watch goroutine inside `Del`.

Actions:

| Action | Code it models |
|---|---|
| `Add(k, sk)` | the whole locked body of `_GWList.Add`; `sk` is the socket table as the caller leaves it |
| `StartAdd` | `dialGateway` / `fetchGateway` listing |
| `DialCancelled` | the `select` on `ctx.Done()` at the top of the loop |
| `DialConnect` | net.Dial succeeds, NewSocket, Start; a failed dial changes nothing |
| `RegisterDone` | everything after `srv.register` returns: the "send timeout" demotion, the close on error, the locked install |
| `SockFail` | network drop, or `OnTimeout` closing after failed pings |
| `OnCloseEnter` / `OnCloseAdd` | `GetContext`, then `gwList.Add` |
| `WatchPut` / `WatchDelete` | the watch loop; `WatchDelete` includes `Del`'s lookup |
| `DelCancel`, `DelClose`, `DelRemove` | `Del`'s three unlocked steps |

`RegResult` gives the outcomes `register` can return on a socket. A closed socket can only produce a timeout or an error. This is what `RpcSocket` shows of `Send`.

### `RoomCardPool.tla`: the room-card pool of `room.go`

State: the pool's fields `shared`, `used`, `freeIdx`, `pendingIdx`, `currentSize` and `status`. Three further variables stand for things outside the pool:

- `dispatch` is the set of ids the dispatch server may still assign. That server is not in this repository. It assigns distinct ids from the set and takes back the ids it is sent.
- `held` is the set of ids the game holds.
- `gs` is the set of running `new`/`free` calls, each with its `pc`.

`shared[0..freeIdx)` are handed out, `shared[freeIdx..pendingIdx)` may be handed out, and `shared[pendingIdx..)` is being revoked. Slice indices are Go's, from 0: `At(i)` is `shared[i]`. The thresholds are rationals, `UpNum/Den` and `DownNum/Den`. `Init` is the state after `StartRoomCardPool`'s first successful `new`.

Every section run under the mutex is one action:

| Action | Code it models |
|---|---|
| `GetRoomCardID` | the exhaustion check; on an exhausted pool, unlock and run `new` synchronously; otherwise `Take` |
| `GetResume` | re-lock after that `new`; its error, or `Take` |
| `Take` | the `pendingIdx` refusal, the scale-up `go new`, hand out `shared[freeIdx]` |
| `ReleaseRoomCardID(id)` | swap the last handed-out card into `id`'s slot, re-index it, shuffle with a random free slot, the scale-down `go free`; an out-of-range index or a nil entry panics (`crashed`) |
| `LoopFree` | the timer's scale-down check |
| `NewStart`, `NewReply` | `new`'s first locked section; the RPC and its deferred append |
| `FreeStart`, `FreeReply` | `free`'s first locked section with its int32 loop (`Shrink`; a loop that never ends leaves the call at `pc = "spin"` holding the mutex); the RPC and its deferred cut |

An RPC may come to `"ok"`, `"error"` (the server did nothing) or `"lost"` (it acted and the answer timed out). `RpcOutcomes` chooses which.

### `Heartbeat.tla`: `checkTimeout`, `Notify.OnTimeout` and `Filter.OnMessage`

The http read loop arms a read deadline of `timeout` seconds before each `Read`. When the deadline expires, `checkTimeout` pings unless a write succeeded less than `timeout` Unix seconds ago. Each PING runs in its own goroutine, which shares `Notify.ping` with the others without a lock.

Time is abstracted to read-deadline epochs. `wrote` is the last write since the previous deadline:

- `"early"` means the write fell in the same Unix second as the deadline, so `checkTimeout` may go either way;
- `"late"` means it fell after that second, so `checkTimeout` does not ping.

A PING's timer ends near the next deadline. So a goroutine that has seen one deadline (`seen`) must finish before the next deadline, and before a fresh PING's timer fires.

`servicesdk/core/notify.go` has the same logic, and the model stands for it too.

| Action | Code it models |
|---|---|
| `ReadTimeout` (with `PingDue`, `OnTimeout`) | the deadline expires; `checkTimeout`'s `lastWriteTime` test; `go func(){ so.Send(PING) }` |
| `Pong(i)`, `SendTimeout(i)` | the `select` of the PING's `sendTimeout` |
| `Reset(i)` | `this.ping = 0` |
| `Load(i)`, `Store(i)` | `this.ping++` as a load and a store |
| `Check(i)` | `if this.ping > 2 { so.Close() }` |
| `Post` | the service's writes; `post` refreshes `lastWriteTime`; after the gateway goes only `MaxBuffered` more succeed |
| `OnMessage` | `Filter.OnMessage` answering the gateway's PING with a PONG |
| `PeerGone` | the gateway vanishes without closing the TCP connection |

`fails` is a ghost: the number of PINGs that failed since the last one was answered.

## 4. Runs

| Run | Config | Expect | Checks | What it shows |
|---|---|---|---|---|
| socket_both | `MCRpcSocket_both.cfg` | pass (81,438 states) | TypeOK, CoreNoSendOnClosedChannel, RefinesRpcCall, SendReturns | Both variants. The core variant is correct with 2 callers, 3 calls, timeouts, lost responses and connection loss. The http variant with one duplicate response still returns each call's own answer, and every call returns. |
| socket_http_panic | `MCRpcSocket_http_panic.cfg` | violation | NoSendOnClosedChannel | A response racing its caller's timeout makes the http read loop send on a closed channel. |
| socket_core_dup | `MCRpcSocket_core_dup.cfg` | violation | SendReturns | A duplicate response blocks the core read loop while it holds `requestLocker`; the timed-out caller's deferred delete waits forever. |
| pool_static | `MCGatewayPool_static.cfg` | pass (4,153) | TypeOK, NoLeakedSocket | With two static addresses, any register outcome and drops at any time, no connection stays open without an owner. |
| pool_etcd_heal | `MCGatewayPool_etcd_heal.cfg` | pass (79,782) | StoredHeals | With PUT/DELETE events racing dials, drops and `OnClose`, and every registration accepted, an address that stays in etcd ends up running on an open connection. Behaviours with no events are the static list with one address, so this also shows that a running connection that drops is healed. |
| pool_register_stuck | `MCGatewayPool_register_stuck.cfg` | violation | PendingHasDial | A registration that fails with any error whose text lacks "send timeout" leaves the entry PENDING with no dial, and `Add` ignores PENDING entries. A write-deadline error from `post` reads "timeout: ...", so a write timeout is one such error, though spec §4.4 says it demotes the entry to Idle. TLC's trace has 4 states. |
| pool_etcd_resurrect | `MCGatewayPool_etcd_resurrect.cfg` | violation | NoEntryAfterDelete | `Del` of a running gateway is undone by its `OnClose`. |
| pool_etcd_orphan | `MCGatewayPool_etcd_orphan.cfg` | violation | NoLeakedSocket | The unlocked `Del` races a dial's install and leaks a registered connection. |
| codec_stream | `MCFrameStream_stream.cfg` | pass (10,134) | TypeOK, FramingSound | A core or an http connection with three posts of any of its messages, read in chunks of 1, 7 or 64 bytes, with a write that may time out before sending anything. Everything posted is dispatched whole and in order, and nothing is left in `buf`. |
| room_card_race | `MCRoomCardPool_race.cfg` | violation | CardsOwnedOnce | A `free` overlapping a `new` cuts the ids `new` appended instead of the ids it revoked. The pool then keeps ids the dispatch server may assign elsewhere, and loses the ids it was given. |
| heartbeat_dead | `MCHeartbeat_dead.cfg` | pass (1,648) | TypeOK, DeadPeerClosed | A gateway that vanishes without closing the connection is always detected and the connection closed, however the unsynchronised `ping++` and `ping = 0` of overlapping PING goroutines interleave, and even while the service keeps writing into the send buffer. |
| codec_partial_write | `MCFrameStream_partial.cfg` | violation | DispatchedAsSent | On a core connection, a write that times out after 1 to 3 bytes leaves a fragment on the open connection. The peer reads the next frame's header out of place, fails with "bad message type" and closes the connection, so that frame is never dispatched. |

The findings are listed in `PROJECT.json`.

Modelling the pool also turned up a further divergence that no run checks. The spec says only one dial may be in flight per address. A DELETE then PUT while a dial is registering starts a second dial, because `dial` sees cancellation only at the top of its loop.

Every property of a passing run has a mutant in `PROJECT.json`: a plausible bug in a mapped action, such as a missing `requestID++`, an unlocked core dispatch, a missing close, a missing `SetContext` or an off-by-one index, under which TLC finds the property violated.

## 5. Bounds

**Socket runs.**

- 2 callers, which is the smallest number that makes callers race each other.
- `MaxCalls` is 3 for core and 2 for http in the passing run. Three calls let a timed-out call be followed by two more. The http variant with 3 calls and a duplicate alone takes 3 minutes.
- `MaxDup` is 0 or 1.
- `ChanCap` is 1, as in the code.
- `IdSpace` is 2^30, because TLC's integers cannot hold 2^32. Ids never wrap within `MaxCalls`, as they would not within a send timeout in practice.

**Codec runs.**

- `MaxBodyLength` = 40, so the split happens at 41 bytes.
- Three posts: enough for a frame to be followed by another inside one read.
- Reads of 1 byte (every prefix of every frame), 7 bytes (cuts inside headers and the package length) and 64 bytes (several frames decoded in one pass).
- `MaxPartial` is 0 in the passing run and 3 in the violation run.

**Pool runs.**

- 1 or 2 addresses.
- 5 dials and 5 connections.
- Up to 3 discovery events: enough for PUT, DELETE and PUT again.
- Connection drops are allowed only while every address can still get one more dial and connection (`CanFail`). Without this, the bounds themselves would starve reconnection.
- Runs with two addresses and etcd events exceed 5 minutes, so the etcd runs use one address. The code has no state shared between addresses except the lock.

**Room-card pool run.**

- 6 card ids, as model values under symmetry.
- `InitialSize`, `ScaleUpSize` and `ScaleDownSize` are 2.
- The thresholds are the code's defaults, 0.8 and 0.4.
- 5 calls of `GetRoomCardID` and 3 goroutines started.

This is enough to grow the pool to 4, release down to the scale-down threshold, and refill it while a `free` waits. The race appears in 16 states. With `"lost"` allowed, one lost revoke breaks the same property in 9 states.

Two more properties are defined in `RoomCardPool` and checked by no run:

- `UsedIndexed` is broken by the same race.
- `MutexReleased` is broken in 11 states. A release starts a `free`, and `GetRoomCardID` fills the pool before that `free` takes the mutex. `int32(freeIdx)/(currentSize-k)` then stays 1 while `k` halves to 0, and the loop never ends with the mutex held. The hazard is listed in `PROJECT.json`.

Every configuration that lets the pool both grow and shrink meets these races, so the pool has no passing run.

**Heartbeat run.**

- `MaxBuffered` is 2. After the gateway vanishes, two more writes succeed, and each can suppress a PING. This is enough for the service's writes to delay detection by more than one epoch.
- Goroutines are not bounded by a constant. The epoch rule keeps at most two of them alive at once: the one that saw the last deadline and the fresh one. `TypeOK` checks this.

`CloseJustified` is defined in `Heartbeat` and checked by no run. TLC breaks it in 13 states, as follows:

1. A timed-out PING loads `ping`.
2. The next PING's PONG sets `ping = 0`.
3. The stale count + 1 is stored.
4. One more failure closes a gateway that has just answered.

The hazard is listed in `PROJECT.json`.

`CHECK_DEADLOCK FALSE` is used everywhere because all counts are bounded, so every behaviour ends.

## 6. Fairness

**`RpcSocket`.**

- Callers' and the read loop's steps are weakly fair: goroutines are scheduled.
- The `time.After` timer always fires.
- Steps that take `requestLocker` are strongly fair, because Go's `sync.Mutex` hands the lock to a waiter that has waited over 1 ms (starvation mode).
- Starting calls, the peer and connection loss are not fair.

**`FrameStream`** and **`RoomCardPool`** have no fairness. Their properties are invariants. In `FrameStream`, the drained-stream clause is stated on states whose wire is empty.

**`Heartbeat`.**

- The PING goroutines' steps and their `time.After` timers are weakly fair.
- The read deadline is weakly fair only once the gateway has gone: nothing is read any more, so it expires every `timeout` seconds. While the gateway is there, its data may keep postponing the deadline.
- The gateway's behaviour and the service's writes are not fair.

**`GatewayPool`.**

- Dial goroutines, `OnClose`, the startup listing and `Del`'s steps are weakly fair.
- `DialConnect` is weakly fair. This stands for "an address kept in the pool eventually accepts a connection": the loop retries every 5 s.
- Discovery events and drops are not fair.

## 7. Not modelled

- **`servicesdk/core`'s pool.** Its code is absent from the repository.
- **The handler registry and middleware.** These are planned; see §2. One path of `doCall` is already known to matter. A handler that sends its response and then panics makes the recover send a second `RC_HANDLER_PANIC` response for the same request id (`handler.go:74`). That is the duplicated response that `socket_core_dup` shows blocking the peer's core read loop.
- **`Pack`/`UnPack`.** These are the stream obfuscation calls in `readLoop` and `post`; their source is not in the repository.
- **Go's runtime fault on concurrent map access in `Del`.** Map accesses are atomic in the model.
- **The `requestID` wrap-around.** It needs 2^32 calls within one timeout.
- **Out of scope.** The database layer and SQL builder, the Apollo configuration client, the tracer, the game server and websocket front end, `game.go`'s player registry, table assignment, and the utility packages. `AddPlayer` (`game.go:107`) loads and stores the player count without a lock, so two concurrent adds can lose a count. It is a plain lost update on a `sync.Map` with no protocol around it.
