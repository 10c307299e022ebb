# A verification of Warp in TLA+

Warp (the Go code one directory up) is a cache that sits between an application
and its store. Every process (a *node*) has an in-memory L1 cache; a write on
one node must reach the caches of the others, which happens over an invalidation
bus. Around that core the repository has distributed locks, leases,
transactions, merge functions, a stream bus and client code.

This directory holds TLA+ models of those parts, the configurations with which
TLC checks them on small instances, and proofs that TLAPS checks for every
instance. `PROJECT.json` lists the runs, the theorems, the lines of the source
that each definition stands for, and the hazards the properties are aimed at.

To repeat the work, in this directory:

    tlc -workers 4 -config MCWarpLive.cfg MCWarpLive
    tlapm SyncBusProofs.tla

## 1. The parts of the system

| part | source | state | model |
|---|---|---|---|
| in-process bus | `syncbus/syncbus.go` | subscribers of a key, their one-place buffers, the map of pending keys | `SyncBus` |
| core: `Get`, `Set`, `Invalidate`, listener | `core/core.go` | registrations, L1 cache, store, singleflight groups, publishing goroutines | `Warp`, which composes it with `SyncBus` |
| merge engine | `merge/merge.go` | functions per key | `Merged` in `Warp` (vector clocks: later) |
| locker interface | `lock/lock.go` | none | `Locker`, an abstract specification |
| Redis and NATS lockers | `lock/redis.go`, `lock/nats.go` | the key in the server, entries, timers | `TokenLock`, shown to implement `Locker` |
| in-memory locker | `lock/memory.go` | held keys, waiters, timers, bus events | planned |
| transactions | `core/core.go` (`Txn`, `Commit`) | buffered operations, deferred applies, the batch | `Txn` |
| leases | `core/lease.go` | leases, timers, attached keys | planned |
| stream bus | `streambus/` | replay ring, bounded priority queues, subscriptions | `StreamBus` (the wire format: later) |
| WebTransport sessions | `streambus/webtransport/` | sessions and pumps | planned, on the stream bus |
| L1 cache implementations | `cache/` | LRU list, TTLs, sweeper | planned |
| versioned cache | `cache/versioned/` | bounded history | planned |
| validator | `validator/` | periodic scan with auto-heal | planned |
| other buses | `syncbus/{mesh,redis,nats,kafka}` | batches, deduplication windows, acknowledgements | planned |
| circuit breaker | `syncbus/circuit_breaker.go` | failure count | only that `IsHealthy` may be false (`flaky` in `Warp`) |
| watch bus | `watchbus/` | watchers of prefixes | planned |
| JavaScript client | `warp-store/` | L1 map, fetches in flight, IndexedDB | planned |
| adapters, presets, metrics, proxy, benchmarks | `adapter/`, `presets/`, `metrics/`, `cmd/` | databases and I/O | a store is a map in `Warp` and `Txn`; the rest is not modelled |

## 2. The modules

### SyncBus: the in-process bus

One key is enough: `subs` and `pending` are maps from keys and the methods touch
the entry of their own key only. A member of `Calls` is one call of `Publish` or
`PublishAndAwait`; its steps are separated where another goroutine can be seen.

| code | model |
|---|---|
| `Compute` on `pending`, first call or duplicate | `Enter` (through `Publish`, `PublishAndAwait`) |
| context already ended on entry | `EnterCanceled` |
| `mu.RLock`, read of the slice, early returns | `Lock` |
| one turn of the loop with its `select` and `default` | `Send`, `SendCanceled` |
| deferred `pending.Delete` | `Unmark` |
| `Subscribe`, `Unsubscribe` under `mu.Lock` | the same names, enabled while no loop runs |
| the subscriber's receive | `Receive` |

`owed` and `got` are history variables: to whom an event is still owed, and whose
buffer took it. Counters of published and delivered events are left out.

### Warp: the cache path

`Warp` extends `SyncBus`; a node owns the channel of the same name, and a call of
`Get`, `Set` or `Invalidate` names the bus call it makes. Every access to the
cache, the store, the singleflight group and the bus is a step of its own, in the
order of the code. Values are sets of the `Set` calls that contributed to them, so
that a merge function that adds up is the union and last-write-wins keeps one.

| code | model |
|---|---|
| `Register`, `listenForInvalidations` | `Register`, `ListenerSubscribe`, `ListenerReceive`, `ListenerInvalidate` |
| `Get`: hit, `group.Do`, `store.Get`, `cache.Set` | `Lookup`, `Do`, `Fetch`, `Share`, `Fill` |
| `Set`: timestamp, old value, merge | `Stamp`, `ReadOld`, `ReadStore`, `Merged` |
| `Set`/`Invalidate`: the switch on the mode | `Route`, `Awaited`, `ApplyCache` or `ApplyInvalidate`, `ApplyStore`, `AfterApply` |
| the publishing goroutine | `StartPublish`, `EndPublish` |
| end of the TTL, eviction, `InvalidateLocal` | `Evict` |

The variable `conf` is the configuration: mode, quorum, merge function, publish
timeout, whether requests may fail (`flaky`), and how clients call:
`free` (any time), `serial` (after every earlier call has returned) or `settled`
(after its goroutines have ended as well). It is chosen in the initial state and
never changes, so that one run covers several configurations.

With `flaky`, `IsHealthy` may be false and every request to the cache or the store
may fail; a write fails before or after its effect. What follows is the code's: `Set`
and `Invalidate` return the error of a write, and of the read of the old value, and
publish nothing; `Get` takes an error of the cache for a miss, returns one of the
store, and ignores one of its fill; the listener ignores an error, and the entry
stays.

Left out of `Warp`: fail-safe values, eager refresh and soft timeouts of `Get`,
`GetOrSet`, `GetAt`, `Warmup`, dynamic TTLs, `Unregister`, a merge function that
fails, a missing bus, metrics and tracing, and `publishErrCh`.

### Locker and TokenLock: distributed locks

`Locker` says what `lock/lock.go` promises for one key: the lock is granted when
nobody holds it, a tenure ends because `Release` is called or a ttl is over, and
only a tenure that has ended makes the lock free.

`TokenLock` models both token-based lockers, because they run one protocol: create
the key with a fresh token, remember the token, delete the key if it still holds
that token. The differences are kept: Redis expires the key itself and polls while
it waits; NATS looks before it deletes, waits for a watcher and has no ttl in the
server. The UUID of a call is the call; the NATS revision is the token it was read
with, since a call creates the key at most once.

| code | model |
|---|---|
| `SetNX` / `kv.Create`, timer armed | `Create`, `CreateFails` (request or answer lost) |
| write of the entry | `Record` |
| wait of `Acquire` | `RedisRetry`; `NatsWatch`, `WatcherCloses`, `Wake`; `Cancel` |
| `Release` reads the entry | `BeginRelease` |
| timer fires | `Fire` |
| `releaseWithToken` | `NatsGet`, `Delete`, `DeleteFails` |
| `cleanupLocal` | `Cleanup` |
| server expiry, end of a process | `Expire`, `Crash` (external) |

A keyspace notification and the polling timer of Redis have the same effect, so
`RedisRetry` stands for both.

### StreamBus: the stream bus

A member of `Pubs` is one call of `Publish`, a member of `Subs` one subscription
with its goroutine. The replay ring is an array with an index that wraps around,
as in the code; a queue is one sequence, and the front of a priority class is the
first frame of that class. Payloads are left out,
and the trie of prefixes is the set of topics that a subscription matches.

| code | model |
|---|---|
| `Publish`: sequence number; then, under the lock, ring and targets | `PublishRefused`, `Publish`, `Fanout`, `Return` |
| `enqueue` and its overflow policies | `EnqueueClosed`, `Enqueue`, `Signal`, `Block` |
| a blocked publisher's `select` | `TakeSpace`, `BlockedOnDone`, `BlockedCanceled` |
| `run` of a subscription | `RunWake`, `RunPop`, `RunSignal`, `Deliver`, `RunStop` |
| `replayBuffer`, `frameQueue` | `RingAdd`, `RingLast`, `RingAfter`; `Push`, `Overflow`, `Clear`, `HighestFront`, `OldestFront` |
| `Subscribe` with replay and resumption | `Subscribe` |
| `Close` of a subscription, of the bus | `CloseMark`, `CloseDone`, `Unregister`; `BusClose`, `BusCloseSub` |

`log`, `offered` and `got` are history variables. Three things the model made
plain: the head of a class is its oldest frame only while publishers do not
overlap (the comment at `queue.go:76` assumes it always is); `LatestOnly` collapses
the queue only once it is full; and `Close` discards queued frames without counting
them as dropped.

### Txn: transactions

`Txn` models transactions on one node with several keys. `Commit` holds no lock, so
commits interleave at each access to the cache, the store and the bus. A
transaction writes itself as the value. The bus answers or fails; a write to the
cache or the store fails before or after its effect.

| code | model |
|---|---|
| `Set`, `Delete`, `CompareAndSwap`: the last operation on a key counts | `TxnSet`, `TxnDelete`, `CompareAndSwap` |
| creation of the batch | `Commit` |
| the two loops, in any order of the keys | `PickSet`, `Read`, `PickDelete` |
| the switch on the mode, the quorum, the deferral | `Route` |
| `applyLocal`, the synchronous publish | `ApplyCache`, `Persist`, `PublishKey` |
| `strongSetOps`, `strongDeleteOps` | `RunDeferred` |
| `batch.Commit`, of all three adapters | `CommitBatch`, `AfterBatch` |
| a `Get` that loads, the TTL | `Load`, `Evict` |

Left out: custom merge functions (their errors are ignored by the code), a second
`Commit` of the same `Txn`, and the TTL bookkeeping of registrations. `Load` is one
step; `QuorumFirst` and `BatchWhole` do not depend on what the cache holds, and
`CasOnce` is stated for calls that do not overlap.

## 3. What TLC checks

| run | instance | result |
|---|---|---|
| `bus_quorum_nil` | 2 calls, 2 channels | **violation** of "PublishAndAwait broadcasts and waits for 'replicas' acknowledgements" (docs/syncbus.md:48) |
| `warp_safe` | 2 nodes, up to 3 calls, four configurations | with settled clients all caches agree with the store when nothing is in progress; a strong `Set` refused by the bus is invisible; one fetch per node at a time; sequential merges on one node lose nothing |
| `warp_live` | the bus alone, 2 calls and 2 channels; 1 node with failures and timeouts, 2 nodes with timeouts, 2 nodes without | the bus: one publisher per key at a time; no send on a closed channel; an event is dropped only when another one waits in the buffer; exact quorum count; every event that was not deduplicated arrives; the pending mark never stays. The nodes: every call returns and every publishing goroutine ends; with settled clients a stale entry does not stay |
| `warp_serial_stale` | eventual mode, 3 sequential calls | **violation** of "They apply the invalidation locally" (docs/syncbus.md:91-92) |
| `warp_local_overlap` | local mode, 2 overlapping calls on one node | **violation** of "Data is consistent *on this node*" (docs/core.md:180) |
| `warp_strong_counter` | strong mode with a merge function | **violation** of "ensures serialized access via quorum" (docs/merge.md:124) |
| `token_lock` | 2 instances, 2 calls with failures and crashes or 3 without, both backends, with and without ttl | mutual exclusion; refinement of `Locker`; a held lock can be released; NATS locks with a ttl end by their own timer when nothing fails; with a ttl, Redis calls return, whatever fails or crashes |
| `nats_acquire` | NATS, 2 calls | **violation** of "Blocks until acquired or context expires" (docs/lock.md:64) |
| `stream` | up to 4 publishers, 2 subscriptions, 2 topics, 2 classes, rings and queues of 1 or 2 places | the ring holds the newest frames; every frame offered to a subscription is delivered, queued or counted as dropped, and none comes twice; order within a class; a resumption has no silent gap when publishers do not overlap; `DropOldest` drops by age; blocked publishers return; queued frames are handed over; a closed bus leaves no goroutine |
| `stream_resume_gap` | 2 overlapping publishers, a ring of one place | **violation** of "returns ErrReplayUnavailable instead of silently skipping a known gap" (streambus/types.go:72-73) |
| `txn` | 2 transactions, 2 keys, all modes and kinds of store | no strong key is applied before all have their quorum; a batched transaction is in the store whole or not at all; a compare-and-swap succeeds once |
| `txn_atomic` | 1 commit on 2 local keys, without failures | **violation** of "Commit applies all queued operations atomically" (core/core.go:1286) |

The bounds. Two calls are what it takes for every race of the pending map (one
inside, one arriving), two channels for the loop to be interrupted half way, and a
third call in `Warp` to refill a cache between two writes. `MCWarpLive` puts the bus
and the nodes in one run: `part` says which of the two a behaviour is about, and
the actions of the other one are off. Three lock calls make a
holder, a successor and a stranger's release. Rings and queues of one or two
places are full, wrap around and overflow with two to four frames. Two keys make a
commit stop half way, and two transactions overlap or follow each other. Deadlock checking is off in all
runs because a call is made once: when all have returned, the system has stopped.

### Where the code and its documentation part

* *A quorum that nobody counted.* While a publish of a key is in progress, another
  `PublishAndAwait` of that key returns `nil` at once (`syncbus.go:181`).
* *A lost invalidation.* `Set` returns before its goroutine has published. The
  publish of the next `Set` may find the key still marked by the first one, whose
  event has already been consumed; it is swallowed, and a node that refilled its
  cache in between keeps the old value.
* *Cache and store apart on one node.* `Set` writes the cache and then the store, and
  holds no lock over the two (`core.go:979`): of two overlapping calls one can be the
  last in the cache and the other one in the store. A `Get` that read the store before
  a `Set` and fills the cache after it does the same. In local mode nothing repairs it
  before the TTL.
* *A lost increment in strong mode.* The old value is read before the bus is asked,
  and nothing makes the other node's listener run before that node's next `Set`.
* *A lost wake-up.* `Acquire` of the NATS locker starts watching after its attempt
  failed; a delete between the two is never seen. The Redis locker subscribes first,
  and polls.
* *A hidden gap.* `Publish` takes its sequence number before the lock
  (`inmemory.go:115`), so two frames can enter the ring in the opposite order. Once the
  later number has been overwritten by the earlier one, a client that resumes after
  the earlier one gets neither the frame nor `ErrReplayUnavailable`.
* *Half a transaction.* A key in local or eventual mode is applied as soon as the
  loop reaches it; an error of a later key, such as a refused compare-and-swap, ends
  `Commit` and leaves it there. Strong keys alone are not affected by a refused
  quorum (`QuorumFirst`), nor is a store with batches (`BatchWhole`).

TLC also reaches these, for which no run is kept.

* Two overlapping commits that compare and swap one key from the same old value both
  succeed, because the comparison is made on a read that nothing protects until the
  write. "Commit applies all queued operations atomically" (`core.go:1286`; also
  docs/glossary.md:66) says otherwise. `CasOnce` holds for calls that do not overlap
  and is false without that condition.
* A NATS lock stays for ever when its holder crashed, since its ttl is a timer of the
  process (against docs/lock.md:66); when the answer to its create was lost; and when
  a request of its timer failed (`nats.go:80` ignores the error). `NatsLockEnds` is
  therefore stated without failures and crashes.
* With a ttl, a slow `TryLock` writes its entry over that of a newer holder on the same
  instance, whose `Release` then does nothing (`lock/redis.go:70`, `lock/nats.go:84`);
  its lock ends by its ttl. `ReleaseFindsEntry` is therefore stated without a ttl.

### Fairness

Weak fairness of the steps of a call that has started, of listeners and of timers:
goroutines are scheduled by the Go runtime and none of these steps waits for a
condition that another one keeps switching off. `Expire` is fair because Redis
expires keys. In `StreamBus` the consumers keep reading their channel and a close
that was begun goes on; without a reader a `Block` subscription blocks its publishers,
which is its purpose. `Txn` has no liveness property. Nothing obliges a client to
call, to release or to cancel.

## 4. What TLAPS proves

`SyncBusProofs`, for any sets of calls, channels and replica counts:
`BusTypeCorrect`, `OnePublisherAlways`, `NeverSendsOnClosed`, `AlwaysDelivered` and
`AwaitIsExact`. None of the four safety properties is inductive by itself. The
inductive invariant `BusInv` adds what a loop knows while it runs: the slice it
works on is the registered one as long as it holds the read lock; the channels
before its index are full or no longer owed; the channels it counted are distinct
because the registered slice has no repetitions and the index only grows; and a
call inside implies the mark. The only assumption is that replica counts are
integers.

`TokenLockProofs`, for any sets of calls and instances, every configuration,
any number of failures and crashes: `MutualExclusion` and `TokenLockRefines`
(`Spec => L!LockerSpec`). The inductive invariant `LockInv` adds to mutual
exclusion that a token is in the server, in an entry or in a timer only if its
call obtained the lock, that a call that is still trying has not, and that a run
of `releaseWithToken` works on a token whose tenure has ended: that is why it
can delete what it finds. Steps fall into three kinds, and the proof has one
lemma for each action: creates (`Grant`), neutral steps (stutters) and steps that take
away, whose common shape is `TenureStep` (`End`, `Free` or a stutter). The
assumptions: configurations are records of the right shape, and `None` is neither a
call nor an instance.

Only model-checked: everything about `Warp`, `StreamBus` and `Txn`; every liveness property, since the
prover handles neither fairness nor `ENABLED`; `ReleaseFindsEntry`.

## 5. The plan

In the order of importance to a user of the library, with what each is to show:

1. *done* `SyncBus`, `Warp`, `Locker`, `TokenLock` and the proofs above.
2. *done* `StreamBus` and `Txn`. To come: proofs of `QuorumFirst` and `BatchWhole`
   for any keys and transactions, and of the queue and ring invariants.
3. The in-memory locker composed with the bus: what the lock and unlock events
   keep consistent and what happens when they are deduplicated or late.
4. Leases, the LRU cache with its sweeper, the versioned cache, the validator.
5. The remaining paths of `Get` (fail-safe, eager refresh), `GetOrSet`, `Warmup`.
6. The other buses: deduplication window and batching of Redis, acknowledgements
   and peers of the mesh, and the circuit breaker; the watch bus; WebTransport sessions.
7. Vector clocks and merge as operators against reference definitions.
8. Proofs: `RejectedInvisible` and the bus invariants under `Warp`'s `Spec`, and the
   safety invariants of the modules to come.
