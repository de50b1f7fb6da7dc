# TLA+ models of MW-NFD

This directory holds TLA+ models of parts of MW-NFD, the multi-worker NFD
forwarder in this repository, and the TLC configurations that check them.
`PROJECT.json` is the machine-readable index. It lists the components, the
runs, the mutants, the map from each definition to its source lines, the
findings and the hazards.

## 1. Inventory

The source tree (`src/`) holds the following parts. `spec.md` describes the
rest of the forwarder, which is not in the tree.

| Part | Source | State | Operations | Concurrency and hard behaviour |
|---|---|---|---|---|
| Strategy actions and triggers | `src/daemon/fw/strategy.cpp`, `strategy.hpp` | PIT entry: in-records (face, Interest with PitToken, expiry), out-records (face, nonce), expiry timer | `sendInterest`, `sendData`, `sendDataToAll`, `sendNack(s)`, `rejectPendingInterest`, `setExpiryTimer`; the triggers `afterReceiveInterest`, `afterContentStoreHit`, `afterReceiveData`, `afterReceiveNack` | Many Data, Nacks and Interests for one entry arrive in any order. In-records expire independently. Answers delete in-records. PitTokens route Data back to the right worker |
| Strategy registry | `strategy.cpp` 43-144 | name -> factory map | `find`, `canCreate`, `create`, `parseInstanceName`, `makeInstanceName` | version lookup |
| FIB lookup with forwarding hint | `strategy.cpp` 320-358 | FIB, NetworkRegionTable | `lookupFib` | delegation order |
| CS replacement policy | `src/daemon/table/cs-policy.cpp`, `cs-policy-lru.hpp` | limit, PM / EM limits, LRU queues | `setLimit`, `setPmLimit`, `setEmLimit`, `afterInsert`, `afterRefresh`, `beforeErase`, `beforeUse` (and the `Exact` variants under ETRI_DUAL_CS) | size <= limit after every call; the LRU order |
| Internal transport | `src/daemon/face/internal-transport.cpp` | forwarder side (peer, state) and client side (forwarder, connection) | `receivePacket` (posts to the global io service), `doSend`, `doClose`, `connectToForwarder`, `send`, the client destructor | Tasks posted to the event loop capture `this`. Close is propagated through `afterStateChange` |
| ndn-cxx stream transport | `src/ndn-cxx/ndn-cxx/transport/detail/stream-transport-impl.hpp` | socket, `m_isConnecting`, `m_isConnected`, `m_isReceiving`, transmission queue, input buffer and its size, connect timer | `connect`, `close`, `pause`, `resume`, `send`, `connectHandler`, `connectTimeoutHandler`, `handleAsyncWrite`, `handleAsyncReceive`, `processAllReceived` | Operations complete asynchronously. Their handlers queue on one io thread. Cancellation races with completions that are already queued, and the receive callback reenters pause() |
| Forwarder status / remote status manager | `src/daemon/mgmt/forwarder-status-remote-manager.cpp`, `forwarder-status-manager.hpp` | counters of the main forwarder and of each worker | `collectGeneralStatus`, `formatCsJson`, `listGeneralRemoteStatus` | sums over the workers plus the main forwarder |
| RIB -> FIB update record | `src/daemon/rib/fib-update.hpp` | the record the routing daemon sends (name, face, cost, action) | `createAddUpdate`, `createRemoveUpdate`, `operator==` | a sequence of updates decides which entry `lookupFib` finds, and whether an entry without next hops is left behind |
| Input thread | `src/daemon/mw-nfd/input-thread.cpp/.hpp` | a thread's io_service and a signal_set waiting once for SIGINT/SIGTERM | constructor, `initialize`, `run`, `terminate`, destructor | the wait completes by a signal or by cancellation; `terminate` ignores which |
| Status publisher | `src/daemon/mw-nfd/forwarder-status-publisher.hpp` | declarations only | none | none |
| pcap helper | `src/daemon/face/pcap-helper.cpp` | the `pcap_t` handle `m_pcap`, libpcap's socket, the descriptors `getFd` duplicates | constructor, `activate`, `getFd`, `close`, destructor, `readNextPacket`, `setPacketFilter`, `getNDropped` | each libpcap call may fail and throw; ownership of three kinds of resource |

How the parts interact:

- Interest, Data and Nack pipelines of a worker call the strategy's triggers,
  and the strategy's actions call back into the pipelines (`onOutgoingInterest`,
  `onOutgoingData`, `onOutgoingNack`, `setExpiryTimer`).
- The PitToken a worker puts on an outgoing Interest (`sendInterest`) carries
  its worker id. Dispatch uses it to send returning Data to that worker
  (spec.md 4.8, 8.4). `sendData` puts the downstream's own token back on the
  Data.
- The routing daemon's `FibUpdate`s change each worker's FIB, and a strategy
  reads it through `lookupFib`; the strategy registry is filled before
  `main` by static initialisers.
- Management clients in the process reach the forwarder through the internal
  transport. External applications reach it through the ndn-cxx stream transport
  over a Unix or TCP socket.

## 2. Modules

| Module | Models | State | Actions |
|---|---|---|---|
| `Forwarding` | the strategy actions and default triggers, with the pipelines of one worker around them (spec.md 4.2-4.5), for the PIT entry of one name | `pit`, `inRec` (face -> id, nonce, token, live), `outRec` (face -> nonce, nacked), `expiry`, `satisfied`, `cs`; history `sent`, `answers`, `issued`, `expired` | `IncomingInterest` (loop Nack, CS hit via `afterContentStoreHit`, miss via `AfterReceiveInterest`), `IncomingData` (`AfterReceiveData` = `sendDataToAll`), `IncomingNack` (`AfterReceiveNack`), `InRecordExpire`, `PitExpire` |
| `StrategyRegistry` (+ `MCStrategyRegistry`) | the registry, `find`, `parseInstanceName`, `makeInstanceName`, `canCreate`, `create`, `areSameType` | `registry`, the set of registered versioned names | `RegisterType`; `find` and the name helpers are operators |
| `FibLookup` (+ `MCStrategyRegistry`) | `Strategy::lookupFib`, the `FibUpdate` records and a worker's FIB they change | `fib`, prefix -> set of next hops (face, cost) | `ApplyFibUpdate` (`AddNextHop`, `RemoveNextHop`); `LookupFib` and `FindLongestPrefixMatch` are operators |
| `CsPolicy` (+ `MCCsPolicy`) | `Policy` of `cs-policy.cpp` with the LRU policy, both views of the dual CS | `prefixQ`, `exactQ` (LRU queues, oldest first), `limit`, `pmLimit`, `emLimit`; history `clock`, `pTouch`, `eTouch` | `Insert`, `UsePrefix`, `UseExact`, `Erase` (the Content Store calling the hooks), `SetLimit`, `SetPmLimit`, `SetEmLimit` |
| `LruCache` | what an LRU view promises (abstract) | `content`, `touch` (last-touch stamps), `cap` | `Put`, `Hit`, `Drop`, `Resize` |
| `FifoChannel` | what a one-way in-process link promises (abstract) | `sent`, `delivered` | `Send`, `Deliver` (weakly fair) |
| `PcapHelper` (+ `MCFaces`) | `PcapHelper` of `pcap-helper.cpp` | `obj` (the object's lifetime), `mPcap`, `active`; history `opened`, `released` (per resource), `handed`, `closedIdx` | `Construct`, `Activate`, `GetFd`, `Close`, `Destroy`, `CallerClose(i)` |
| `InputThread` (+ `MCFaces`) | `InputThread` of `input-thread.cpp/.hpp` | `thr`, `registered`, `waiting` (async_wait outstanding), `ready` (completed handler), `running`, `stopped` | `ConstructThread`, `Initialize`, `Run`, `Signal`, `DestroyThread`, `Terminate` |
| `InternalTransport` | the internal face pair | `fwState`, `fwPeer`, `clientFwd`, `stateConn`, `clientAlive`, `loop` (global io_service tasks); history `toFw`, `fwReceived`, `toClient`, `clientReceived`, `ub` | `ClientSend`, `FwSend`, `FwClose`, `ClientDestroy`, `FwRunTask`, `ClientRunTask` |
| `StatusAggregation` | `collectGeneralStatus` and `listGeneralRemoteStatus` | FIB sizes and `nInInterests` of the global forwarder and each worker, the collection's `pc`, `i`, `acc`; history `start`, `report` | `WorkerInterest`, `WorkerFibAdd` (worker threads), `Collect`, `ReadGlobal`, `ReadWorker`, `Publish` (management thread) |
| `StreamTransport` | `StreamTransportImpl` | the flags, socket (`sock`, generation `ep`), in-flight OS operations `ops`, completed handlers `ready` (the io_service FIFO), `queue`, `bufLen`, `mem` (the input buffer, byte by byte); history `wire`, `delivered`, `errors`, `ub` | application calls `Connect`, `Close`, `Send`, `Pause`, `Resume`; OS completions `OsConnect`, `OsTimer`, `OsWrite`, `OsRecv`, `OsFail`; `RunHandler` runs `HConnect`, `HTimer`, `HWrite` or `HRecv` |

Correspondence to the code:

- **Forwarding.**
  - A PitToken is abstracted to who issued it: the downstream face itself,
    this worker (`Own`) or none (`NoToken`).
  - `SendData`, `SendDataToAll`, `SendNack` and `SendNacks` are pure helpers.
    They return the new in-records and the packets sent, so that an action
    composes them the way the C++ calls them in sequence. `SendDataToAll`
    collects the pending downstreams first and then folds `SendData` over
    them, as the code does.
  - `AfterReceiveInterest` is the pure-virtual trigger, covering every choice a
    strategy may make: forward to a next hop, Nack all downstreams and reject,
    or wait. The pipeline has already set the entry's expiry timer to the
    in-records' lifetime (spec.md 4.1 step 4); `AfterReceiveInterest` gets
    that timer and keeps it, except that `rejectPendingInterest` sets it to
    zero.
  - The build flag `TokenOnOriginal` stands for `ETRI_DUAL_CS ||
    ETRI_PITTOKEN_HASH`, the line `interest.setTag(...)` at `strategy.cpp:230`.
- **StreamTransport.**
  - An asynchronous operation is first in `ops` (in flight in the kernel),
    then in `ready` (completed, handler queued), then run.
  - `cancel()` and `close()` move in-flight operations to `ready` with
    `aborted`. A handler already in `ready` keeps its result, which is exactly
    the boost.asio behaviour the races depend on.
  - The forwarder's byte stream on connection `e` is `StreamBytes(e)`, a
    sequence of packets of lengths `PktLens`. `OsRecv` copies up to `space`
    bytes into `mem` at the offset the read was started with. `HRecv` adds the
    byte count to `bufLen`, exactly as the code does, whatever offset the read
    used.
  - `ParseFrom` is `processAllReceived`. A byte that starts no packet decodes
    as a one-byte garbage element. A packet whose bytes are not consecutive
    bytes of one packet decodes as garbage. A packet whose body has not
    arrived stops the loop.

- **StrategyRegistry.** A name is a sequence of components, generic or
  version, in NDN canonical order (TLV type first, then value).
  `LowerBound` and `BeforeLowerBound` are `std::map::lower_bound` and the
  `--found` step. The registry run checks every instance name of up to three
  components over `/a`, `/b`, `/c` and versions 0..4 against every subset of
  the nine registrable names, so the operators are checked as functions
  against the reference definitions `NextHigher` and `Highest`.
  `Create` returns the found strategy and the instance name its constructor
  takes (`makeInstanceName`), or nothing; `AreSameType` compares two finds.
- **FibLookup.** `LookupFib` is `lookupFib` line by line: the LPM of the
  Interest name without a hint, else the LPM of each delegation in order, the
  first with next hops, else the last one found. The FIB itself (`fib.cpp`)
  is not in the tree; it follows spec.md 4.7 and 6: an add replaces the
  face's next hop, a remove drops it and erases an entry left empty, and the
  LPM walks up to the root, which always answers. `MCStrategyRegistry`
  composes the two modules in the order the program runs them: the static
  `NFD_REGISTER_STRATEGY` initialisers fill the registry before `main`, and
  FIB updates start once every built-in strategy is registered.
- **CsPolicy.** One queue per view, as `m_queue` and `m_queueExact`.
  `setLimit` evicts both views, `setPmLimit` only the prefix view and
  `setEmLimit` only the exact view, so the prefix view's cap is
  `Min({limit, pmLimit})` and the exact view's `Min({limit, emLimit})`. The
  LRU bodies and `cs.cpp` are not in the tree and follow spec.md 4.6: an
  insert goes to both views, a read goes to one view by `CanBePrefix`, an
  erase leaves both. `PrefixLru == INSTANCE LruCache WITH content <-
  ToSet(prefixQ), touch <- pTouch, cap <- PrefixCap` is the refinement
  mapping.
- **InternalTransport.** `receivePacket` of either side appends a task to
  `loop`; the task's run is its own action. `FwClose` includes the
  `afterStateChange` handler, which runs synchronously inside `setState`.
  The client side starts connected, as after `makeInternalFace`.
  `ClientToForwarder == INSTANCE FifoChannel WITH sent <- toFw, delivered
  <- fwReceived` is the refinement mapping of the client-to-forwarder link.
- **PcapHelper.** A resource is the handle, libpcap's socket or the i-th
  `::dup` of it; `released` counts how often each was closed. A call that
  throws leaves the state as the lines before the throw made it: a failed
  `pcap_set_datalink` after a successful `pcap_activate` leaves the socket
  open. The caller (`EthernetTransport`, not in the tree) is any sequence of
  calls on a live helper, and closes each descriptor it got once, at any
  time. `MCFaces` interleaves the helper with the internal pair and the
  input thread; they share no modelled state.
- **InputThread.** An asio handler is outstanding (`waiting`), then queued
  with its result (`ready`), then run by `run()`. A signal completes the
  wait; the defaulted destructor destroys the signal set, which completes
  it with `operation_aborted`. `Terminate` is `terminate` as `run()` calls
  it: it stops the io_service for either result. The signal set is built
  on the constructing thread's io_service and `run()` runs the calling
  thread's; the model takes them to be the same.
- **StatusAggregation.** One step reads one forwarder's fields. The workers
  move between steps, since they run on other threads and the reads are
  unsynchronised. Two columns stand for all of them: the FIB size, which
  only grows here, and `nInInterests`.

## 3. Runs

| Run | Config | Expect | What it shows |
|---|---|---|---|
| `forwarding` | `MCForwarding.cfg` | pass | 3 faces (`c` ad-hoc), next hops `{b, c}`, 2 nonces, 3 Interests, 2 Data, 1 Nack (1.86M states). Checks `AnswerOnce`, `EchoesDownstreamToken` and `NoDataForExpired` |
| `forwarding_token_on_original` | `MCForwardingDualCs.cfg` | violation | under ETRI_DUAL_CS the Data to a downstream that sent no token carries this worker's token (3 steps) |
| `stream` | `MCStreamTransport.cfg` | pass | one connection with network errors and application close, no pause, packets of lengths 1 and 2 into a 3-byte buffer (7k states). Checks one write in flight, wire order, framing across partial reads, no stale erase, and `SendProgress` |
| `stream_pause` | `MCStreamTransportPause.cfg` | pass | as `stream`, with up to two `pause()` calls from the application or the receive callback (659k states). Checks one write in flight and wire order with pauses cancelling writes |
| `stream_pause_framing` | `MCStreamTransportPauseFraming.cfg` | violation | pause/resume with a completed read queued: bytes decoded at a wrong offset |
| `stream_close_abort` | `MCStreamTransportCloseAbort.cfg` | violation | close() during connect: connectHandler throws on operation_aborted |
| `stream_timer_race` | `MCStreamTransportTimerRace.cfg` | violation | connect completion and timer expiry in one turn: the timer handler closes the established connection |
| `registry` | `MCStrategyRegistry.cfg` | pass | 512 registries by 584 instance names, then 729 FIBs by 5 names and 31 hints (1240 states). Checks `FindVersionedAsDocumented`, `InstanceNameStable` (via `canCreate`, `create`, `areSameType`) and `LookupFibAsDocumented` |
| `cs_policy` | `MCCsPolicy.cfg` | pass | 3 names, limits 0..2, 6 touches (670k states). Checks `WithinLimits` and the refinements `PrefixIsLru` and `ExactIsLru` |
| `internal_transport` | `MCFaces.cfg` | pass | `MCFaces`: the internal pair, a pcap helper and an input thread, side by side (257k states). 3 packets, close and destruction in any order: `PeersAgree` and the refinement `ClientLinkIsFifo` (`INSTANCE FifoChannel WITH sent <- toFw, delivered <- fwReceived`), liveness included. Any order of helper calls, every libpcap failure, 2 `getFd` calls, the caller closing at any time: `ReleasedOnce` and `DestroyReleases`. An input thread constructed, run, signalled and destroyed in any order, whose actions the other runs' properties do not constrain; its disagreement is listed in section 4 |
| `internal_free` | `MCInternalTransportFree.cfg` | violation | a task posted to the client before its destruction runs on the freed object (4 steps) |
| `status_fib` | `MCStatusAggregation.cfg` | violation | the reported FIB count exceeds the true total (5 steps) |

Every property of a passing run has a mutant in `PROJECT.json`. A mutant is a
plausible bug of a mapped definition, for example a dropped `erase`, a
forgotten `!m_isConnected` check, a buffer size one too large, or an in-record
not deleted. Each one makes TLC find that property violated.

### Bounds

- **Forwarding.** Three faces are the fewest that give an ingress, a second
  downstream and an ad-hoc face. Two next hops allow Data from one upstream and
  a Nack from another. Two nonces allow loops. Three Interests give a refresh
  and a second downstream.
- **StreamTransport.**
  - A 3-byte buffer with packets of 1 and 2 bytes lets a read end inside a
    packet, so that the tail is shifted down and completed by the next read.
  - Three sends keep two blocks queued behind a write.
  - The runs use one connection. Their properties are about a connection's
    lifetime.
- **StrategyRegistry.** Versions 1..3 registered, 0..4 queried: a query below,
  between, at and above the registered versions. Three components allow
  parameters after a version and a version in component 0.
- **FibLookup.** Prefixes `/`, `/a`, `/a/b` over two faces and two costs
  give every FIB of up to three entries. Interest and delegation names lie
  at, below and beside the prefixes (`/a`, `/b`, `/a/a`, `/a/b`, `/a/b/b`).
  Hints of two delegations let the first one fail and the second one win.
- **CsPolicy.** Three names and caps up to 2 make a full view evict; cap 0
  and a shrink from 2 to 0 evict more than one entry at once. Six touches
  allow insert, read and refresh orders that differ between the views.
- **InternalTransport.** Three packets: one in flight at the close and one at
  the destruction, in either direction.
- **PcapHelper.** Two `getFd` calls: a descriptor closed before and one
  after `close()`. Every libpcap call that can fail does so in some branch.
- **InputThread.** One object; one signal is enough, since the wait is
  one-shot and a later signal finds no wait.
- **StatusAggregation.** Two workers and four worker events let a worker
  change between and after the reads.

### Fairness

- **Forwarding.** Its properties are safety only, and it assumes no fairness.
- **StreamTransport.** The io thread runs every queued handler (WF on
  `RunHandler`). The kernel eventually completes every connect, armed timer and
  write (WF on those completions). Reads, failures and the application get no
  fairness.
- **InternalTransport.** The main thread runs every posted task (WF on
  `FwRunTask \/ ClientRunTask`). Sends, close and destruction get none.
  This fairness is what implies the abstract channel's weak fairness of
  `Deliver`. The pcap helper and the input thread get none.
- The registry, FIB, CS policy and status models check safety only (the
  refinements to `LruCache` are of its safety part) and assume no fairness.
  The registry run checks deadlock: after registration the routing daemon
  may always send another update.

## 4. Findings

See `PROJECT.json` "findings".

- **Forwarding.** Under ETRI_DUAL_CS / ETRI_PITTOKEN_HASH, `sendInterest`
  tags the in-record's own Interest, so `sendData` echoes the worker's token to
  a downstream that sent none. This contradicts spec.md 4.4.
- **StreamTransport.**
  - `pause()`/`resume()` with a completed read pending corrupts framing.
  - `connectHandler` throws on `operation_aborted` after `close()`.
  - A timer handler queued in the same turn as the connect's completion closes
    the established connection.
- **StatusAggregation.** `collectGeneralStatus` counts the global forwarder's
  FIB twice (line 83, then `+=` at line 104).
- **InternalTransport.** A task posted to the client transport captures the
  raw `this`. If the client is destroyed before the task runs, the task uses
  freed memory.

Further disagreements met while modelling. No run is kept for them; the
hazards in `PROJECT.json` record them:

- `pause()` from the receive callback cancels the in-flight write. Its handler
  returns, and nothing restarts the transmission queue (`SendProgress` with
  `MaxPauses = 2`).
- After a reconnect, a stale `connectHandler` writes a block twice
  (`WireInOrder` with `MaxConnects = 2`). This holds under the one-impl-object
  reading.
- spec.md 4.8 says a versioned `find` returns the highest version not above
  the requested one. The code and its comment return the exact or next higher
  version. The model follows the code.
- An unversioned `find(/a)` returns a strategy registered as `/a/b/vN` when
  `/a` has no version of its own. No strategy of this repository is
  registered under a name that extends another's, so the registry run
  cannot reach the case, and it checks no property of unversioned `find`.
- spec.md 4.6 C1 says the two views of the dual CS hold the same entries.
  A read through one view refreshes only that view's LRU queue. With every
  limit 2, inserting a and b, reading a by exact name and then inserting c
  leaves `{b, c}` in one view and `{a, c}` in the other.
- The `PcapHelper` constructor leaks the `pcap_t` handle when
  `pcap_set_immediate_mode` fails (line 59): the throw skips the destructor
  of the half-built object and `m_pcap` is a raw pointer. `MCFaces` reaches
  the failed constructor with the handle open in two steps; `DestroyReleases`
  speaks only of a destroyed helper.
- `InputThread::terminate` ignores its error code and is bound to a raw
  `this`. Destroying the object cancels the wait, and the aborted handler
  then runs on the destroyed object and stops the io_service although no
  signal came. `MCFaces` reaches a stopped io_service with no `Signal`
  step in four steps (construct, run, destroy, terminate).
- The status Data that `listGeneralRemoteStatus` hands to the internal face
  has no content. The JSON goes only to stdout and `/tmp/json.json`.

## 5. Plan and what is not modelled yet

Remaining work, in order:

1. **`Dispatch`**: several workers composed with `Forwarding`, with Data routed
   by the PitToken's worker id (spec.md 4.8, 8.4).
2. **StatusAggregation**: the non-monotone PIT/CS sums.

Not modelled, and why:

- pcap helper's `readNextPacket`, `setPacketFilter`, `getNDropped`: they
  change no resource the helper owns; packet contents are libpcap's.
- `FibUpdate::operator<<`: printing only.
- `formatCsJson` and the other `format*Json` helpers: their JSON goes to
  stdout and `/tmp/json.json`, never into the reply Data, so no state of
  the program depends on them.
- The producer-region assertion of `lookupFib`: the incoming Interest
  pipeline that strips the hint is not in the tree.
- JSON and TLV formatting: no property is about layout.
- Status publisher: declarations only.
- StreamTransport assumes one impl object. ndn-cxx's `UnixTransport::close`
  (outside `src/`) replaces the impl, and stale handlers then act on the shared
  `m_isConnected` of the transport.
