# Formal models of the crypto service

TLA+ models of `src/services/crypto-service`, TLC configurations that
model-check them on small instances, and TLAPS proofs of their safety
invariants for every value of the constants. `PROJECT.json` lists the
components, the runs, the mutants that show each property can fail, the map
from every definition to the source lines it translates, the findings, the
hazards and the theorems.

## The system and what is modelled

The service's state lives in these cooperating parts:

| Part | Source | Model |
|------|--------|-------|
| Key service: `generateKey`, `rotateKey`, `deprecateKey`, `getKeyMaterial`, `deleteKey` | `src/crypto/keys/key_service.cpp` | `KeyService` (actions) |
| Key stores: `InMemoryKeyStore`, `LocalKeyStore` (one file per key) | `src/crypto/keys/key_store.cpp` | `KeyService` (`store`, `WriteRecord`, `updateMetadata*`, `Crash`) |
| Key identifiers and metadata | `include/crypto/keys/key_types.h` | `KeyIds`, `KeyStates`, `Records` |
| Local LRU tier of the cache client | `src/crypto/clients/cache_client.cpp` | `cache`, `CacheSet`, `CacheTouch`, `Without` |
| Logging client: `log`, `flush`, the flush thread, the destructor | `src/crypto/clients/logging_client.cpp` | `LoggingClient` |
| What the logging client promises its callers | `include/crypto/clients/logging_client.h` | `LogDelivery` (abstract) |
| Shutdown: `ShutdownHandler`, `InFlightGuard`, `GracefulShutdown` | `src/crypto/resilience/shutdown.cpp` | `Shutdown` |

The key service, the stores and the cache interact and are modelled in one
module. The logging client and the shutdown machinery share no state with
them or with each other, so each has a module of its own.

### Key service, stores and cache

The key service holds a `std::mutex` (`ksLock`) for `generateKey`,
`rotateKey`, `getKeyMaterial` and `deleteKey`. It calls the store, which has
its own mutex (`storeOwner`), and it calls the cache. `deprecateKey` takes no
service lock: `rotateKey` calls it while holding the mutex, and clients call it
directly. Each call of the key service into the store is an atomic step of
the model, because the store serialises it under its own mutex. So
`rotateKey` is five actions: `rotateRetrieve`, `rotateStore`,
`rotateDeprecate`, `updateMetadata`, then `rotateFinish` or `rotateRollback`.
`pc[t]` records where thread `t` is, and `oldKey`, `newKey` and `meta` are its
locals.

The model abstracts the data as follows:

- Key material and its sealing under the master key are represented by the
  `KeyId`, since the cache's value is a function of it.
- A KeyId is a UUID from the finite set `Uuids`, which `UUID::generate`
  draws fresh, and a version modulo `VersionModulus`. `uint32_t` wraps, and the
  model keeps that wrap at a smaller width.
- A stored record keeps only what the code reads back: the state, the
  predecessor (which `LocalKeyStore` does not persist, see `Persisted`) and
  whether the file is corrupt.

The model keeps these failures of `LocalKeyStore`, bounded by `MaxIoFailures`:

- an open that fails, so nothing is written;
- a write that fails after the file was truncated, leaving a corrupt file that
  `retrieve` rejects;
- a failed read;
- a failed remove.

`Crash` (bounded by `MaxCrashes`) loses the threads, the locks and the cache.
The on-disk store survives it, so a crash is taken only with `LocalKeyStore`.

`LocalKeyStore::updateMetadata` locks the store mutex and then calls
`retrieve`, which locks the same non-recursive mutex again. The model's
`updateMetadataLocal` takes the store mutex and goes to `upd_relock`, where the
thread takes no further step. This is the outcome of that undefined
behaviour on the platforms the code builds for.

### Logging client

`LoggingClient::Impl` keeps a queue of entries (`buffer`) under
`buffer_mutex`. Three kinds of thread call `do_flush`: the flush thread, any
client thread inside `flush()`, and the thread that runs `~Impl`. `do_flush`
takes at most `batch_size` entries under the mutex, releases it, then sends
them. The model splits it at that point:

- `TakeBatch(f)` moves the prefix into `f`'s local `batch[f]`.
- `SendBatch(f)` hands the batch on. A READY or IDLE channel delivers it. Any
  other channel state is a failure, which prints to the console when
  `fallback_enabled` is set and loses the batch otherwise.

The other actions are these:

- `Log(c)` is `enqueue`. It evicts the oldest entry and counts it when the
  buffer is full, then appends.
- `Flush(c)` is a client's `flush()`.
- `FlushLoop`, `FlushWait` and `FlushTake` are `flush_loop`.
- `DestructorStop` and `DestructorJoin` are `~Impl` before its last
  `do_flush`.

Entries are numbered in the order `enqueue` accepts them. The record an entry
carries is left out, and so is the level filter of `log()`, which changes no
state. `delivered`, `dropped` and `lost` record where each entry went, and
`flushWant[c]` records what was buffered when a `flush()` began.

`LogDelivery` is the contract of `logging_client.h`, with no threads and no
batches. An accepted entry is held (`pending`) until it is delivered, dropped
and counted in `dropped_count()`, or lost (only without the fallback).
`LoggingClient` instantiates it as `LD` with
`logged <- nextEntry - 1` and `pending <- Buffered \cup InFlight`.

### Shutdown

`Shutdown` models three parts and the threads that use them:

- the process-wide `ShutdownHandler`: the flag, the callbacks, `mutex_` and
  `cv_`;
- the static in-flight gate of `InFlightGuard`: the counter, `accepting_`,
  `drain_mutex_` and `drain_cv_`;
- one `GracefulShutdown` object, whose constructor registers a callback that
  calls its `shutdown()`.

The threads are these:

- `Main` waits in `waitForShutdown`.
- `Requester` runs `requestShutdown` as the SIGTERM handler. It runs on a
  thread of its own or, when `SignalOnMain` is set, on top of `Main`.
- `Owner` constructs the object, adds components and may destroy it.
- Each worker serves requests under an `InFlightGuard`.

A condition variable is a wait set. `wait` releases the mutex and joins the
set in one step, `notify_all` empties the set, and a woken thread re-takes the
mutex and re-checks its predicate. `stale` records that a member of a
destroyed object was used.

## Runs

### Key service runs

The key service runs use `MCKeyService`: 2 threads and 3 UUIDs as model
values, `VersionModulus = 4` and `CacheCapacity = 2`. Threads and UUIDs
are interchangeable, and the three safety-only `LocalKeyStore` runs use
that symmetry (`SYMMETRY Symmetry`). The in-memory run and the
rotate-hangs run check the liveness property `OperationsReturn`. Symmetry
reduction is not sound for liveness, so these two runs do without it.

| Run | cfg | Checks | Result |
|-----|-----|--------|--------|
| keyservice_inmemory | `KeyServiceInMemory.cfg` | `TypeOK`, `CacheCoherent`, `PredecessorRetired`, `RetireInv`, `OperationsReturn` | passes, 31,676 states |
| keyservice_local_faults | `KeyServiceLocal.cfg` | `TypeOK`, `CacheCoherent`, `CoherenceInv` (2 I/O errors, 1 crash) | passes |
| keyservice_local_rotate_hangs | `KeyServiceLocalRotateHangs.cfg` | `OperationsReturn` | violated: self-deadlock in `LocalKeyStore::updateMetadata` |
| keyservice_local_crash_mid_rotation | `KeyServiceLocalCrash.cfg` | `PredecessorRetired` | violated: a crash between store and deprecate leaves two ACTIVE versions |
| keyservice_local_rollback | `KeyServiceLocalRollback.cfg` | `PredecessorRetired` | violated: the ignored result of the rollback `remove` |

Why these bounds are enough:

- Two threads are enough for every interleaving of two operations, such as a
  client's unlocked `deprecateKey` against a rotation or a deletion.
- Three UUIDs allow a key, its rotation and one more generation.
- A capacity of 2 makes `set` evict while a rotation caches its new key.
- `local_cache_size = 0` is accepted by the configuration loader
  (`validate()` does not check it). There `set`'s eviction loop stops at
  the empty list and the insert follows, so the cache holds one entry.
  `CacheSet` models the empty-list guard, and `CacheBound` (one when the
  size is 0) is the bound `TypeOK` states. The proofs cover every size,
  0 included. The runs use 2. A run at 0 passes the same invariants but
  was not kept.
- Two I/O errors allow a failed deprecation followed by a failed rollback.

The local runs do not check deadlock, because the service really stops at
`upd_relock`.

Properties:

- `CacheCoherent`: every cached key has a record that `retrieve` returns.
  This is the invariant that `deleteKey` and `rotateKey` rely on when they
  invalidate the cache before the record changes.
- `TypeOK`: includes `Len(cache) <= CacheBound`, the bound that `set`'s
  eviction loop must keep. It is `local_cache_size`, or one entry when the
  size is 0.
- `PredecessorRetired`: once a rotation is no longer in progress, the key it
  rotated away from is not ACTIVE while its successor is stored (spec 4.6,
  property 10).
- `RetireInv`: the inductive invariant behind `PredecessorRetired` over the
  in-memory store (see Proofs).
- `OperationsReturn`: every started operation returns.
- `CoherenceInv`: the inductive invariant used by the proofs (below),
  model-checked as well.

Each property of a passing run has a mutant in `KeyService.tla`, listed in
`PROJECT.json`, that TLC finds violating it:

- `CacheSetLateEviction` evicts only above capacity.
- `deleteKeyKeepCache` does not invalidate the cache.
- `rotateStoreNoDeprecate` skips the deprecation. It breaks both
  `PredecessorRetired` and `RetireInv`.
- `updateMetadataRelock` makes the in-memory store re-lock as well.

### Logging client runs

These runs use `MCLoggingClient`: two client threads, the flush thread and
the destructor as model values, `BatchSize = 2`, `BufferSize = 3` and
`FallbackEnabled = TRUE`.

| Run | cfg | Checks | Result |
|-----|-----|--------|--------|
| logging_client | `LoggingClient.cfg` | `TypeOK`, `Accounted`, `ImplementsLogDelivery`, `Drained` (6 entries) | passes, 7,721 states |
| logging_flush_partial | `LoggingClientFlushPartial.cfg` | `FlushEmptiesBuffer` (4 entries) | violated: `flush()` sends one batch |
| logging_shutdown_loss | `LoggingClientShutdownLoss.cfg` | `ShutdownFlushesAll` (4 entries) | violated: the destructor sends one batch |

Why these bounds are enough:

- Six entries in a buffer of 3 make `enqueue` evict, more than once.
- Batches of 2 make a batch partial or full, and leave entries behind.
- Two clients let two `flush()` calls race each other, the flush thread and
  an `enqueue`.

Properties:

- `Accounted`: every accepted entry is in exactly one place (buffered, in
  one batch, delivered, dropped or lost), and `dropped_count` equals the
  number of dropped entries.
- `ImplementsLogDelivery`: the client implements `LogDelivery` under `LD`.
- `Drained`: while the client runs, every held entry is eventually handed
  on. This needs `wait_for`'s timeout, since a batch that never fills wakes
  no one.
- `FlushEmptiesBuffer` and `ShutdownFlushesAll` state what the header says
  of `flush()` and of the destructor. Both are violated; see the findings.

Mutants: `LogLateEviction` evicts only above `buffer_size`, `LogUncounted`
skips the counter, `SendBatchKeep` does not clear the batch, and
`FlushWaitNoTimeout` waits without a timeout.

### Shutdown runs

These runs use `MCShutdown`: two workers and two components as model values.

| Run | cfg | Checks | Result |
|-----|-----|--------|--------|
| shutdown | `Shutdown.cfg` | `TypeOK`, `StoppedOnceInReverse`, `StopInv`, `WaiterWakes`, `ShutdownCompletes` | passes, 268,377 states |
| shutdown_drain_lost_wakeup | `ShutdownDrainLostWakeup.cfg` | `DrainWaitJustified` | violated: a lost `drain_cv_` wakeup |
| shutdown_use_after_destroy | `ShutdownUseAfterDestroy.cfg` | `NoUseAfterDestroy` | violated: the callback outlives the object |
| shutdown_signal_on_main | `ShutdownSignalOnMain.cfg` | `ShutdownCompletes` (`SignalOnMain = TRUE`) | violated: the handler blocks on `mutex_` |

Why these bounds are enough:

- Two workers let one leave while the other is still in flight.
- Two components make the reverse order of `shutdown()` observable.

Properties:

- `StoppedOnceInReverse`: each component is stopped at most once, in the
  reverse of the order it was added, even though the destructor and the
  callback both run `shutdown()`.
- `StopInv`: the inductive invariant behind `StoppedOnceInReverse` (see
  Proofs). At most one thread is past the compare-and-swap, nothing is
  stopped before that thread copies `components_`, and `in_flight_` equals
  the number of workers inside a guard.
- `WaiterWakes`: once shutdown is requested, `waitForShutdown` returns.
- `ShutdownCompletes`: once shutdown is requested, `requestShutdown`
  returns.
- `DrainWaitJustified`: a thread waits on `drain_cv_` only while a request
  is in flight or its exit has yet to notify.
- `NoUseAfterDestroy`: no member of a destroyed object is used.

Mutants:

- `GuardExitTwice` decrements twice.
- `ShutdownCheckThenSet` replaces the compare-and-swap with a check and a
  set. It breaks both `StoppedOnceInReverse` and `StopInv`.
- `ExecuteCallbacksUnlocked` copies the callbacks without `mutex_`.
- `DrainNoTimeout` drops `waitForDrain`'s timeout.

The logging and shutdown runs set `CHECK_DEADLOCK FALSE`, because these
systems really stop: the logging client
once it is destroyed, and the process once shutdown completes.

## Fairness

In `KeyService`, `Fairness` is weak fairness of `Continue(t)` for every thread: a thread inside
`rotateKey` or `deprecateKey` keeps being scheduled until it returns, as the
operating system schedules every runnable thread. Starting an operation is a
client's choice and is not fair. `OperationsReturn` holds for
`InMemoryKeyStore` under this fairness. It fails for `LocalKeyStore`, where
the thread is blocked, not merely unscheduled.

In `LoggingClient`, `Fairness` is weak fairness of these steps:

- every step of the flush thread;
- the destructor's steps once it has started;
- `SendBatch(c)` of a client inside `flush()`.

The flush thread is always runnable, because its `wait_for` times out after
`flush_interval`. Calling `log()` or `flush()`, and destroying the client,
are choices of the caller and are not fair.

In `Shutdown`, fairness covers these steps:

- `waitForShutdown`, `executeCallbacks`, the construction and the free;
- a worker's guard entry and exit;
- `shutdown()` on both threads that can run it.

Raising the signal, admitting a request, adding a component and destroying
the object are choices, not obligations. `ShutdownCompletes` rests on
`waitForDrain`'s timeout, because the lost wakeup can leave a drainer
waiting with nothing in flight.

## Proofs

### Key service

`KeyServiceProofs.tla` proves, for every value of the constants allowed by
`ConstantsAssumption` and `NoneAssumption`:

- `CoherenceInvariant`: `Spec => []CoherenceInv`.
- `TypeCorrect`: `Spec => []TypeOK`.
- `CacheCoherentHolds`: `Spec => []CacheCoherent`.

`CacheCoherent` alone is not inductive, because three facts it depends on are
not part of it. `CoherenceInv` strengthens it with them:

- `StoreInv`: every stored record's UUID has been drawn. So the fresh UUID of
  `rotateStore` and `generateKey` names no record, the new record cannot
  overwrite a cached key's record, and the new key is not cached.
- `CacheInv`: the LRU list holds each key once. The code's map guarantees it,
  and `Without` needs it to remove a key completely.
- `ThreadInv(t)`, which states what a thread's locals satisfy where it is:
  - a thread inside `rotateKey` holds the service mutex, so no other thread
    rotates;
  - the new key stays readable and uncached until `rotateFinish` caches it;
  - the metadata that `deprecateKey` writes back was read from a readable
    record, so `updateMetadata` never makes a readable key unreadable.

The argument has three parts:

- `InitCoherent`: the initial state satisfies `CoherenceInv`.
- One lemma per action (`GenerateKeyStep` through `CrashStep`) shows that
  the action keeps `CoherenceInv`.
- `NextCoherent` combines them with the stutter step, and the theorems follow
  by `PTL`.

The step lemmas rest on:

- lemmas about the list operators: `EraseAtProps`, `WithoutProps`,
  `MoveToFrontProps`, `CacheSetProps`, about length, distinctness and where
  each element comes from;
- `WriteRecordProps`, about the store's write outcomes;
- frame lemmas for the threads that a step does not touch: `ThreadFrame`,
  `LocalsFrame`, `IdleThreadsFrame`.

The cache operators are written as explicit functions, not with `SelectSeq`
or `RECURSIVE` operators, so that the provers can reason about them.

`KeyServiceRetireProofs.tla` proves, for the in-memory store
(`StoreKind = "InMemory"`) and every value of the other constants:

- `RetireInvHolds`: `Spec => []RetireInv`;
- `PredecessorRetiredInMemory`: `Spec => []PredecessorRetired`.

The hypothesis is needed: over `LocalKeyStore` the property fails (the
crash and rollback runs). In memory no write or read fails and nothing
crashes, so rotation reaches only its deprecation or a rollback.

`PredecessorRetired` is not inductive: it says nothing about a key while
`rotateKey` works on it, nor about UUIDs not yet drawn. `RetireInv` adds:

- `LinksDrawn`: a rotation link joins two keys with drawn UUIDs. So the
  fresh key of `generateKey` or `rotateStore` is nobody's predecessor or
  successor.
- `RotationInv(t)` says where `t` is in `rotateKey`:
  - at `rot_store`, the old key has no stored successor. It was ACTIVE
    when `t` took the mutex, and `PredecessorRetired` held for it;
  - until the rollback, the only stored successor is the new version;
  - at `rot_finish`, the old key is no longer ACTIVE;
  - no thread is at `upd_relock`, which only `LocalKeyStore` reaches.

With `CoherenceInv`, only the holder of the service mutex rotates, so at
most one key is being rotated (`RotatingOldOwner`). When `rotateFinish`
or `rotateRollback` ends the rotation, the old key is DEPRECATED or has no
stored successor.

The other steps need no case analysis:

- `deprecateKey`'s write-back (even of stale metadata) and `deleteKey` add
  no record and make none ACTIVE (`NoActivation`);
- they keep the invariant through the frame lemmas `RetiredFrame`,
  `RotationFrame` and `OneThreadStep`.

`NextRetire` combines the action lemmas, and the theorems follow from
`NextCoherent` by `PTL`.

### Logging client

`LoggingClientProofs.tla` proves, for every set of client threads, every
`batch_size` and `buffer_size` and either fallback setting allowed by
`ConstantsAssumption`:

- `AccountedHolds`: `Spec => []Accounted`.
- `ImplementsLogDeliveryHolds`: `Spec => ImplementsLogDelivery`. The client
  refines the contract.

`Accounted` is not inductive. `IInv` strengthens it with two facts the code
keeps without stating them:

- the queue holds each entry once (`Distinct(buffer)`). Eviction removes
  `Head(buffer)` from the buffered set only if the head occurs once;
- a flusher's batch is non-empty exactly when it is about to send
  (`pc[f] = "send"`). So `TakeBatch` writes into an empty batch and loses
  nothing, and `SendBatch` always hands on a non-empty set, as `Deliver` and
  `Lose` require.

`IInv` also spells out the ten pairwise disjointness facts (`Parts`, shown
equal to `Accounted` by `PartsAccounted`), and the finiteness of `dropped`
that the counter needs.

The argument has these parts:

- `InitInv`: the initial state satisfies `IInv`.
- One lemma per action, each showing that the action keeps `IInv` and is a
  step of `LogDelivery`:
  - `LogStep` maps `enqueue` to `Log`, with the evicted head as the dropped
    entry;
  - `SendBatchStep` maps a send to `Deliver` or `Lose` of the batch's
    entries;
  - `TakeBatchStep`, `FlushStep`, `FlushTakeStep` and `PcStep` show that the
    other steps leave the held entries unchanged.
- `NextInv` combines them.
- The initial state maps to `LD!Init`, and the theorems follow by `PTL`.

The step lemmas rest on lemmas about the queue operations:

- `SeqSetAppend` and `AppendDistinct` for `push`;
- `SeqSetTail` for `pop`;
- `SeqSetSplit` for the split into batch and rest;
- `InFlightExcept` and `OthersDisjoint` for the batches.

- `LoggingTypeCorrect`: `Spec => []TypeOK`, from the same `IInv`.

### Shutdown

`ShutdownProofs.tla` proves, for every set of threads, workers and
components allowed by the assumptions of `Shutdown`:

- `StopInvHolds`: `Spec => []StopInv`;
- `TypeCorrect`: `Spec => []TypeOK`;
- `StoppedOnceInReverseHolds`: `Spec => []StoppedOnceInReverse`.

`StoppedOnceInReverse` is not inductive: a step of `shutdown()` appends the
next component of the thread's copy to `stopped`, and nothing in the
property says which one that is. `StopInv` supplies what the code keeps:

- `inFlight` equals the number of busy workers. `GuardExit` then never
  takes the counter below zero (`BusyBound`, with `FS_AddElement` and
  `FS_RemoveElement` of `FiniteSetTheorems`).
- At most one thread is in `shutdown()` past the compare-and-swap on
  `shutting_down_`, and none is while the flag is clear. This is what the
  mutant `ShutdownCheckThenSet` breaks.
- Nothing is stopped until that thread has copied `components_`.
- While it stops components (`StopsSoFar`), its copy is a prefix of
  `components_` (later `addComponent` calls only append), and `stopped` is
  the reverse of the last `Len(copy) - stopIdx` entries of the copy
  (`ReversedPrefix`).
- Hence `stopped` is always the reverse of a prefix of `components_`.

`StopInvOrder` derives `StoppedOnceInReverse` from the last conjunct: the
i-th stopped component sits at position `n + 1 - i` of `components`, so
earlier stops have larger positions. Components are distinct because
`addComponent` picks one not yet registered, so "at most once" follows.

The argument has one lemma per action. `StopFrame` handles the sixteen
actions that leave `stopped`, `compsCopy`, `stopIdx`, `shuttingDown`,
`inFlight` and the shutdown part of `pc` alone. `GuardEnterStep` and
`GuardExitStep` handle the counter, `AddComponentStep` the append to
`components_`, and `ShutdownCasStep`, `ShutdownCopyStep` and
`ShutdownStopStep` the three steps of `shutdown()`. `NextInv` combines
them.

### Checked by TLC only

Only TLC checks the following:

- liveness (`OperationsReturn`, `Drained`, `WaiterWakes`,
  `ShutdownCompletes`), since TLAPS does not handle fairness and `ENABLED`;
- `PredecessorRetired` for `LocalKeyStore`, where it does not hold (see the
  findings);
- the eight violations. A violation is a behaviour TLC exhibits; it is a
  finding, not something to prove.

## Findings

- **Code bug.** `LocalKeyStore::updateMetadata` (`key_store.cpp:272`)
  re-locks its own non-recursive mutex through `retrieve`. Every `rotateKey`
  and `deprecateKey` on the on-disk store blocks forever, and every later
  store call blocks with it.
- **Divergence from the spec.** `rotateKey` ignores the result of the
  rollback `remove` (`key_service.cpp:234`). A failed deprecation followed by
  a failed remove leaves both versions ACTIVE.
- **Gap in the spec.** A crash between storing the new version (`:225`) and
  deprecating the old one (`:231`) leaves both versions ACTIVE. Nothing
  repairs this at start-up, and the spec does not say what should happen.
- **Divergence from the spec.** `LoggingClient::flush()`
  (`logging_client.cpp:118`) runs `do_flush` once, which stops after
  `batch_size` entries. The header says it flushes all buffered entries, and
  `logging_properties_test` expects `pending_count() == 0` afterwards. With
  three entries buffered and batches of 2, one entry stays buffered.
- **Code bug.** `~Impl` (`logging_client.cpp:77`) clears `running`, joins the
  flush thread, which exits at its `while (running)` check without flushing,
  and runs `do_flush` once. The entries beyond one batch are destroyed with
  the queue, although the destructor is documented to flush pending logs.
- **Code bug.** `~InFlightGuard` (`shutdown.cpp:74`) decrements the counter
  and notifies `drain_cv_` without `drain_mutex_`. The notification can fall
  between `waitForDrain`'s check and its wait, which then sleeps for its
  whole timeout with nothing in flight.
- **Code bug.** The callback that `GracefulShutdown`'s constructor registers
  (`shutdown.cpp:98`) captures `this` and is never unregistered. The
  destructor skips `shutdown()` when `shutting_down_` is set. A destructor
  that returns while the callback is still in `shutdown()` leaves the
  callback using a destroyed object, and so does a signal after destruction.
- **Code bug.** `requestShutdown` is installed as a signal handler, and
  `executeCallbacks` (`shutdown.cpp:43`) locks `mutex_`. A signal delivered to
  the thread inside `waitForShutdown`, which holds `mutex_`, blocks on a mutex
  its own thread holds, and shutdown never proceeds.

## Not modelled, and next

- **Graceful shutdown, partly.** `waitForShutdown(timeout)` and more than one
  registered callback are not modelled, since nothing in `src` uses them.
- **Logging client.** Only the level filter and `ScopedLogger` are left out.
  They add entries through `log()` and change no state of their own.
- **Crypto engines, JWT and RBAC, configuration, API servers, metrics,
  audit logger.** These are stateless calls to OpenSSL, parsers over strings,
  formatting and forwarding, or I/O. They have no interleavings and no control
  state for TLC to explore. The file-encryption envelope and the traceparent
  parser are the candidates for pure-algorithm modules.
- **Encryption, signature and file-encryption services.** They call
  `key_service_->getKey` and `KeyType` values that `KeyService` does not
  declare, so they do not build against the key service.
- **Remote cache tier.** It is a TODO in the code and makes no calls.
- **Parts of the key service not modelled.** `getKeyMetadata` and `listKeys`
  only read. The version wrap is modelled, but it needs 2^32 - 1
  rotations of one chain, so it is not treated as a hazard.

Most of the service's source is in these stateless parts. So the map covers
the stateful components, which are the ones a model checker can say
something about, and not most of the lines.
