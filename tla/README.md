# TLA+ models of the baudtime gateway core

These modules model the distributed coordination core of baudtime's gateway.
The sources are `src/unnamed/part_001` (package `meta`: route cache, cluster
view, watch loop, failover), `src/backend/fanout.go` (fan-out query and k-way
merge), `src/unnamed/part_000` (`tcp.ReadWriteLoop`) and
`src/msg/pb/pb.pb.go` and `admin.pb.go` (the generated protobuf code). `spec.md` is the
specification they are compared with. The model checker is TLC.

## The system and how its parts interact

| Part | Code | What it does |
|---|---|---|
| C1 consensus-store client | not under `src/` | etcd get/put/watch, leases, the `failover` mutex |
| C2 route cache | `meta.getShardIDs` and friends, part_001 54-139 | maps (metric, day) to a shard group: cache, lock, etcd read, allocation |
| C3 cluster view | `RefreshCluster`, `GetShard`, `GetMaster`, `GetSlaves`, 141-178, 298-316 | a pointer to an immutable map of shards, swapped atomically |
| C4 watcher | `meta.watch`, 180-270 | one goroutine selecting over the route, sgroute and node watch streams |
| C5 failover | `FailoverIfNeeded`, 318-418 | on a node DELETE, promotes a slave under the etcd mutex |
| C6 shard client | not under `src/` | per-shard request/response |
| C7 fan-out query | `fanoutQuerier`, `mergeQuerier`, fanout.go 44-266 | parallel per-shard Select/LabelValues, error collection, string merge |
| C8 merge series set | `mergeSeriesSet`, `mergeIterator`, fanout.go 280-476 | k-way heap merge by labels, then by timestamp |
| C9 fan-out appender | fanout.go 478-517 | routes samples to lazily created per-shard appenders |
| protobuf codec | `msg/pb/pb.pb.go`, `msg/pb/admin.pb.go` | Size, Marshal and Unmarshal of Label, Point, Series, LabelValuesResponse, GeneralResponse, and of AdminCmdRequest (a oneof of Info and JoinCluster) |
| tcp loop | `tcp.ReadWriteLoop`, part_000 | one read and one write goroutine per connection, half-close, exit |

They interact as follows:
- Every gateway runs many `getShardIDs` goroutines. It also runs one watch
  goroutine, which both updates the route cache and calls `FailoverIfNeeded`
  and `RefreshCluster`.
- Gateways share only etcd. Their route caches and cluster views are separate
  copies that agree only through watch events.
- A failover's result becomes visible through a node's heartbeat (a PUT on its
  key) and the refresh that follows.

## Modules

### RouteCache (C2, with the route-key watch of C4 and the etcd route keys of C1)

State:
- `store`: etcd's route keys.
- `epoch`: how many times each key's lease has expired.
- `events`: the pending route-watch events of each gateway.
- `routeInfos`: each gateway's `sync.Map`, from metric to a RouteInfo object id.
- `ris`: the RouteInfo objects, each with `byDay`, `Timeline` and its lock.
- Per caller goroutine `<<gateway, i>>`: `pc`, `req`, `held` (the object it
  locked) and `val` (the group read or allocated).
- History: `routed` (the groups returned per key before its first expiry) and
  `failures`.

RouteInfo objects have identities because the watcher can drop one from the
map while a caller holds its lock.

Each action is one step of `getShardIDs` that touches shared state:
- `CallHit` and `CallMiss`: lines 55-58.
- `ResolveRouteInfo`: line 62.
- `LockRecheckHit` and `LockRecheckMiss`: lines 63-67.
- `EtcdGetFound` and `EtcdGetNotFound`: lines 103-113.
- `Alloc`: lines 115-138.
- `AllocConflict`: lines 133-136.
- `EtcdError`: every transient-error return of `getShardIDsFromEtcd`, with the
  unlock.
- `CacheFill`: lines 68-76.
- The watcher's `WatchPut` (224-229) and `WatchDelete` (218-223). A DELETE of
  the day equal to `Timeline` drops the whole RouteInfo from the map.

Modelled from the spec, because the code is not under `src/`:
- `RouteInfo.Put`: it also raises `Timeline` to the day.
- `etcdPut`: create-if-absent. Otherwise two concurrent allocations would
  simply overwrite each other (the mutant `AllocBlind` shows what that breaks).
- `LeaseExpire`: deletes the key and sends a DELETE to every watcher.

### PbCodec (the generated code of msg/pb/pb.pb.go and admin.pb.go)

State:
- `data`: the bytes received so far.
- `fed`: how many fragments have arrived, capped at `MaxChunks`.

The single action `Feed(c)` appends a fragment from `Chunks`. The codec is a
set of pure operators evaluated on `data`. The properties ask what every
`Unmarshal` does with any prefix a peer can send.

Integers keep their width:
- `W` bits stand for uint64 and int, with arithmetic modulo `2^W` (`UInt`,
  `GoInt`, `AddInt`).
- `H` bits stand for int32 (`GoInt32`).
- `MCPbCodec` uses W = 15, so the last varint byte carries one bit, as the
  tenth byte does at 64. It uses H = 8.

Operators and what they translate:
- Encoding:
  - `encodeVarintPb`, `sovPb`, `sozPb`, `ZigZag`;
  - the `Size*`, `MarshalTo*` and `Marshal*` functions of pb.pb.go's five
    messages and of `AdminCmdRequest`;
  - `AllocMarshal`: `Marshal` allocates `Size()` bytes and panics if
    `MarshalTo` writes more.
- Decoding:
  - `Varint` and `VarintLoop`: the inline varint loops, with the
    `shift >= 64` overflow and EOF returns;
  - `LengthDelimited`: the `intStringLen < 0`, `postIndex > l` and
    slice checks;
  - `skipPb` and `SkipGroup`: `skipPb`;
  - `SkipField` and `Skipped`: the `default:` branch of every switch,
    with the skip function of the message's file;
  - the per-message switches `LabelField`, `PointField`, `SeriesField`,
    `LabelValuesResponseField` and `GeneralResponseField`, with `FieldOf`
    choosing among them.
- admin.pb.go:
  - `AdminCmdRequest` is its oneof case: "nil", "Info" or "JoinCluster".
    Info and JoinCluster have no fields.
  - `OneofField` decodes a case, and a later case replaces an earlier one.
  - `EmptyField` is the default-only switch of Info and JoinCluster.
  - `encodeVarintAdmin`, `sovAdmin` and `skipAdmin` are the file's copies
    of the pb.pb.go helpers.
  - The two files' error variables (`ErrIntOverflowPb` and
    `ErrIntOverflowAdmin`, ...) share one name in the model.
- `UnmarshalFrom`, `AfterKey`, `AfterField` and `AfterSkip` are the `for
  iNdEx < l` loop shared by every `Unmarshal`. It is split at the reads:
  key, field, skip.
- An out-of-range slice in Go is the error `"panic"`.

Byte strings stay byte sequences. A float64 stays its 8 bytes: Marshal
writes them back unchanged. The exception is -0.0: it compares equal to 0,
so `m.V != 0` omits the field (`IsZero64`), and it decodes again as +0.0.

### Failover (C3, the node-watch case of C4, C5, and the data nodes)

One shard and several gateways.

State:
- `alive` and `role`: the nodes' processes.
- `key`: the role each node last published to etcd, or absent after its
  session expires.
- `view`: each gateway's published cluster view.
- `nodeEvents`: each gateway's pending node-watch events.
- The watch goroutine's `wpc`, `target` and `chosen`.
- `mutex`: the etcd mutex.
- `inbox`: slaveof commands not yet handled.

Actions of the watch goroutine:
- `WatchNodePut`.
- `WatchNodeDeleteIgnored`: shard not found, or `MayOnline`.
- `WatchNodeDeleteFailover`: checks and latch.
- `FailoverSkip`: the master recheck or no slaves, lines 348-356.
- `FailoverChoose`: lines 358-366.
- `FailoverSend`: lines 368-377.
- `FailoverConnectFail`.
- `FailoverFinish`: reply or 15 s timeout, then `RefreshCluster`.
- `WatchRefresh`: line 267.

`GetMaster` keeps the last master in `GetNodes` order, as the map build of
lines 163-167 does. `ChooseSlave` keeps the last slave of the dead node's IDC,
else the first slave, as the loop of lines 358-366 does.

The failovering latch is not a variable. Only the watch goroutine calls
`FailoverIfNeeded`, so the CAS at 342 always succeeds; the same holds for the
`refreshing` CAS of `RefreshCluster`.

The nodes are modelled from the spec:
- `Crash` (bounded by `MaxCrashes`).
- `SessionExpire`.
- `Publish`: a heartbeat writes the current role.
- `HandleSlaveOf`: become master, or with `FailReply` answer with a failure.

Properties:
- `NoSplitBrain`: never two live masters.
- `FailoverEnds`: every event a watch goroutine takes up is handled to the
  end, and the etcd mutex is released. A chosen slave that dies after
  "slaveof no one" was sent (line 374), or never answers, does not hold up
  this gateway or any other: the select at lines 405-408 gives up after
  15 s. The mutual exclusion of the mutex is etcd's and not checked here.
- `MasterRestored`: a shard that lost its master while a slave lives gets a
  live master back.
- `ViewsConverge`: every gateway's view eventually shows the live master, and
  keeps showing it. When the 15 s timeout fires before the slave is promoted,
  the `RefreshCluster` of `FailoverFinish` still shows no master. Only the
  promoted node's heartbeat, a PUT event refreshed at line 267, corrects
  the view.

### FanoutQuery (C7, and the label-set merge of C8)

One query over `K` shard queriers.
- `op`: `select` or `labelValues`. `resp[i]`: shard i's answer, either a
  sorted list of label sets or label values, or an error. `Init` enumerates
  every combination.
- `done`, `multiErr`, `results`: the WaitGroup, the mutex-protected error
  set and the `results` slice of `LabelValues`.
- `phase`: `fanout`, `iterating`, `finished` or `failed`.
- `pos`, `heap`, `cur`, `out`: the cursors of the series sets, the
  `seriesSetHeap`, `currentSets`, and the label sets `Next` produced.
- `values`: the result of `LabelValues`.

Actions:
- `SelectReturns(i)` and `LabelValuesReturns(i)`: one goroutine of lines
  174-185 and 206-218, in any order.
- `SelectWait` and `LabelValuesWait`: `wg.Wait` and what follows. `SelectWait`
  includes `NewMergeSeriesSet`'s pre-advance.
- `MergeNext`: `mergeSeriesSet.Next`. It pops every set whose current label
  set is the minimum.

`mergeStringSlices` and `mergeTwoStringSlices` are `RECURSIVE` operators with
the code's divide-and-conquer split.

`FanoutQueryAbstract` is what the query promises its caller: an atomic
query. Once every shard has answered, one of three things happens:
- `Fail`: the query reports every failed shard.
- A Select gives the ascending merge of the label sets, one label set per
  `Emit`. Each comes with the series sets that hold it. `EndSelect` ends it.
- A LabelValues returns the sorted, duplicate-free union
  (`AnswerLabelValues`).

`FanoutQuery` implements it under this refinement mapping (`Abstract ==
INSTANCE FanoutQueryAbstract WITH ...`):
- `fanout` and `iterating` map to `running`;
- a failed query's `multiErr` maps to `errs`;
- `out` and `values` map to themselves.

Each goroutine step and `wg.Wait` is a stuttering step of the abstract
query. Each `MergeNext` that returns TRUE is an `Emit`.

### MergeIterator (the time merge of C8)

`N` child iterators over strictly increasing timestamps. The consumer calls
`Next` or `Seek` until one returns FALSE.
- `pos[i]`: child i's cursor.
- `started`: `mergeIterator.h != nil`.
- `h`: the children in the heap.
- `out`: the timestamps `At` returned.
- `floor`: the largest `Seek` target.

`NextFirst` and `NextStep` are the two branches of `Next`; `Seek` rebuilds
the heap. `Tops` is the heap minimum. Ties are a nondeterministic choice,
which covers every order `container/heap` can leave equal elements in.

### ReadWriteLoop (the tcp loop)

One connection.
- The peer's bytes are a queue `inbox`: requests, `ConnCtrl` codes, a frame
  that does not decode, and a read error that is not a `net.Error`.
- `peerGone`: the peer closed its end.
- `rdClosed`, `wrClosed`, `closed`: the loop's flags.
- `out` and `outClosed`: the `syn.Queue`.
- `rpc` and `wpc`: where `LoopRead` and `LoopWrite` are.
- `block`, `wmsg`: `LoopWrite`'s local state.
- `wire`, `lost`, `onExits`: history.

`LoopRead` is split at its blocking points:
- `LoopReadTop`: the loop check.
- `LoopReadEOF`: a `net.Error` or EOF from `ReadMsg`.
- `LoopReadMsg`: a message read, then the read-error, decode-error, control
  and request branches.
- `LoopReadReply`: after `handle`.

`LoopWrite` is split the same way:
- `LoopWriteTop`.
- `LoopWriteDequeue` and `LoopWriteNil`: what `Dequeue` returns. A blocking
  `Dequeue` on an empty open queue is simply not enabled.
- `LoopWriteOK`, `LoopWriteNetErr` and `LoopWriteErr`: the outcomes of
  `WriteMsg`.

`Exit`, `CloseRead` and `CloseWrite` (lines 146-180) are definitions of
their own. Each runs inside the action that calls it, with its
CompareAndSwap.

Properties:
- `TypeOK`: among the types, `onExits` is at most 1, so the CompareAndSwap in
  `Exit` lets only one of two failing goroutines run `onExit`.
- `ExitReleases`: once the peer has closed, `LoopRead` ends. Unless a
  `CloseRead` ended it first, `Exit` runs `onExit` and `LoopWrite` ends.
- `ReplyDelivered`: an enqueued message is written, lost to a logged write
  error, or dropped because the loop closed or stopped writing.
- `WriteHalfEnds`: once a `CloseWrite` is handled, `LoopWrite` ends from
  every step. That includes the step after `Dequeue`, where it holds a
  message it took after its `wrClosed` check at line 51.

`Conn`, the codec and `syn.Queue` are not under `src/`. Modelled:
- `ReadMsg` and `WriteMsg` on a closed connection fail with a `net.Error`, and
  so does `WriteMsg` on a write-shut one.
- A write to a gone peer may succeed or fail.
- `Close` wakes a blocked `Dequeue`.
- `Enqueue` on a closed queue drops the message.
- The `bufio` buffering of `Conn` is abstracted away, so a reply counts as
  written when `WriteMsg` returns; the `block` toggle that decides when
  `LoopWrite` calls `Flush` (lines 71-74) is therefore not checked.

## Runs

| run | cfg | result | what it shows |
|---|---|---|---|
| route_cache | MCRouteCache.cfg | pass | 2 gateways, 3 callers, one day, one lease expiry, transient errors: before a key's first expiry, every gateway routes it to the same group, and every call returns |
| route_stale_fill | MCRouteCacheStaleFill.cfg | violation | a fill stores a group after its DELETE was applied: the cache keeps an expired route |
| route_single_fill | MCRouteCacheSingleFill.cfg | violation | a timeline DELETE drops a locked RouteInfo; two callers of one gateway run the etcd section at once |
| failover_safety | MCFailoverSafety.cfg | pass | 4 nodes, 2 crashes, possible clock skew, failure replies and slaves that die before answering: every failover a watch goroutine starts ends and releases the etcd mutex (`FailoverEnds`) |
| failover_one_crash | MCFailoverOneCrash.cfg | pass | if one node dies, a live master always comes back, and every gateway's view comes to show it, even after a reply timeout |
| failover_no_retry | MCFailoverNoRetry.cfg | violation | master and then the chosen slave die: failover picks the dead slave from the stale view, nothing retries, no master while a slave lives |
| failover_split_brain | MCFailoverSplitBrain.cfg | violation | the view shows no master until the promoted node's heartbeat; a slave's DELETE in that window promotes a second master |
| fanout_query | MCFanoutQuery.cfg | pass | 3 shards, every answer/error combination and completion order: the goroutine implementation refines the atomic query of `FanoutQueryAbstract` (`QueryRefinesAbstract`), so a query fails with every shard's error iff a shard failed, else yields the sorted deduplicated union, and always returns |
| merge_iterator | MCMergeIterator.cfg | pass | 3 series over 3 timestamps, Next and one Seek: samples come out in time order and none is lost |
| pb_roundtrip | MCPbCodec.cfg | pass | every input of up to 4 fragments, as each of the 8 message types: each message Unmarshal accepts is re-encoded by Marshal in Size() bytes to the same message (-0.0 becoming +0.0); appending any unknown field changes nothing |
| pb_length_overflow | MCPbCodecPanic.cfg | violation | a length varint close to the largest int makes `iNdEx + intStringLen` wrap negative, and the slice then panics instead of returning ErrInvalidLengthPb |
| tcp_loop | MCReadWriteLoop.cfg | pass | requests, CloseRead, CloseWrite, bad frame, read and write errors, a push: onExit runs at most once; a peer close ends the loop and runs onExit unless CloseRead came first; every enqueued message is written unless the loop closed or stopped writing; after CloseWrite the write loop always ends |

Behaviours the models reach that no run checks, because no documented claim
says otherwise (see the hazards in PROJECT.json):
- Every gateway that sees the master's DELETE sends its own slaveof. This is
  the stale view of `failover_split_brain` at line 348. The spec's
  section 8, scenario 3, says a second invocation sends none.
- Two gateways that allocate the same (metric, day) concurrently: the loser's
  `etcdPut` fails (part_001 lines 133-136), and `getShardIDs` returns that
  error. The spec's section 4, step 5, says the loser re-reads and adopts the
  winner's value. `RouteCache` models the error return. `EveryCallReturns`
  still holds, because the call does return.
- After a `CloseRead`, a peer that closes the connection leaves `LoopWrite`
  blocked in `Dequeue` forever, and `onExit` never runs. `ExitReleases`
  leaves this case out for exactly this reason.
- A reply that `LoopRead` enqueues after `Exit` closed the queue is dropped
  (line 114; `Enqueue`'s error is ignored). No documented claim says it
  should be delivered once the connection is closed.
- A message dequeued just before a `CloseWrite` is written to the shut
  socket. The `net.Error` makes `LoopWrite` call `Exit`, which tears down the
  read half as well. `WriteHalfEnds` checks the part the code controls:
  `LoopWrite` does end on this path.

## Bounds and why they are enough

- Route cache: one metric. Two days (in the violation runs) make the
  `Timeline` eviction of a RouteInfo that still caches another day possible.
- The route-cache run uses one day, so that the lease expiry and three callers
  fit in the time budget; with two days the state space grows past a million
  states within minutes. The two-day `Timeline` eviction is reached by
  `route_single_fill` and `route_stale_fill`, so `route_cache` makes no claim
  about it.
- Two masters and `ShardGroupCap = 1` give two different groups, which is
  enough for two allocators to disagree.
- Two gateways show cross-gateway agreement. Two callers of one gateway show
  the in-process lock.
- One lease expiry in total is enough for every stale-fill and eviction race.
- Failover uses four nodes: the master and a slave in IDC z1, two slaves in
  z2. With three nodes, one per IDC, the split brain cannot happen, because
  the IDC choice picks the dying node itself.
- Two crashes are enough for "the master, then a slave".
- Fan-out: three shards over three labels. Three lists make
  `mergeStringSlices` take its divide-and-conquer branch (`len(ss) > 2`).
  Every subset of the labels per shard gives ties, empty lists and lists of
  different lengths. Three heap entries give ties between two while a third
  waits.
- Merge iterator: three series over timestamps {1,2,3}, in every combination,
  with one `Seek` to any timestamp. This covers Seek before, between and
  after Next calls, and on exhausted children.
- Codec: 17 fragments, up to four of them (88k inputs). They are:
  - a tag byte of every known field and wire type, and a wrong wire type;
  - an unknown group and its end;
  - the varint bytes 0x00, 0x01, 0x7F, 0x80 and 0xFF;
  - the 8 bytes of -0.0 and of 1.0;
  - a Name "a" and an embedded-message header.

  Together they give every error return, nested Series/Label/Point messages,
  zigzag and int32 values at their extremes, and varints longer than W bits.
  Six unknown fields cover every wire type, including a nested group.
- tcp loop: two requests, one push, and one of each control code, bad frame,
  read error and write error. That is enough for every pair of
  read-side/write-side events to race.

## Fairness

- Goroutines that can run keep running: weak fairness on caller steps and on
  watch steps.
  The watch steps include `FailoverFinish`, which is enabled as soon as the
  wait begins: `time.After(15 * time.Second)` always fires, so the wait ends
  whether or not the slave answers.
- The RouteInfo lock gets strong fairness: Go's `sync.Mutex` hands the lock to
  a waiter that has starved for 1 ms.
- The etcd mutex gets strong fairness: etcd's lock is a FIFO queue of keys.
- Data nodes heartbeat, handle commands, and dead sessions expire: weak
  fairness.
- No fairness on crashes or lease expiry.
- Fan-out: the goroutines and the consumer's `Next` calls run to completion
  (weak fairness on `Next`). `FanoutQueryAbstract` has weak fairness on its
  `Next`, so the refinement also checks that every query ends.
- tcp loop: weak fairness on each of the two goroutines; none on the peer or
  on server pushes. The liveness properties therefore hold even when the peer
  never sends anything again.

## Not modelled

- The ShardGrpRouteK string and its sgroute watch (part_001 lines 232-247).
  The string is handed to the caller and changes no state the route cache
  acts on. The hazard at line 244 in PROJECT.json records two ways it goes
  stale:
  - a fill that read the sgroute key before a watch event overwrites the
    newer value;
  - a RouteInfo created by the route watch starts with an empty key.
- The loss of a watch stream. If etcd cancels a watch, the code keeps
  receiving empty responses from the closed channel and never re-subscribes
  (part_001 line 202). The models' watch streams are reliable.
- The console: a one-goroutine read-eval-print loop over one connection.
  Its executor, `CodedConn` and the server are not under `src/`. Two of
  its behaviours are recorded as hazards in PROJECT.json:
  - a command that failed with a `net.Error` is run again after
    reconnecting;
  - the querier asserts the reply type without checking it.
- The protobuf getters, `String`/`Reset`, the file descriptors and
  admin.pb.go's `XXX_OneofFuncs`, which only the reflection-based proto
  library calls.
- The shard client, which is not under `src/`.
- The fan-out appender: sequential per-request code over a map, and its
  per-shard appenders are not under `src/`. The spec (4.8) says `Flush`
  flushes them in parallel. The code (lines 509-517) flushes them one after
  another, which accumulates the same errors.
- `fanoutQuerier`'s shard-list building and `NewMergeQuerier`'s filtering:
  they only collect querier objects.

See PROJECT.json for each component's reason.
