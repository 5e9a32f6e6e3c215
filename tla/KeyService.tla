----------------------------- MODULE KeyService -----------------------------
(***************************************************************************)
(* The key service of the crypto service (keys/key_service.cpp) together   *)
(* with the key store it persists to (keys/key_store.cpp) and the local    *)
(* LRU tier of the cache client it caches key material in                  *)
(* (clients/cache_client.cpp).                                             *)
(*                                                                         *)
(* Client threads call the public operations concurrently.  generateKey,   *)
(* rotateKey, getKeyMaterial and deleteKey hold the service mutex for      *)
(* their whole run; deprecateKey does not.  Every store call is atomic     *)
(* under the store mutex; a thread is interleaved with the others at each  *)
(* store call it makes while it runs without the service mutex or while    *)
(* another thread may run without it.                                      *)
(*                                                                         *)
(* Abstractions.  A KeyId is its UUID and its version (the namespace only  *)
(* filters listKeys, which changes no state).  The key material of a key   *)
(* is determined by the key (each generation draws fresh material), so the *)
(* cache holds key identifiers; sealing under the master key and under the *)
(* cache encryption key round-trips and is left out.  getKeyMetadata and   *)
(* listKeys only read and are not actions.  The remote cache tier is a     *)
(* TODO in the code (no call is made) and is not modelled.                 *)
(***************************************************************************)
EXTENDS Naturals, Sequences, FiniteSets

CONSTANTS
    Threads,          \* client threads calling the key service
    Uuids,            \* values UUID::generate can return
    StoreKind,        \* "InMemory" (InMemoryKeyStore) or "Local" (LocalKeyStore)
    VersionModulus,   \* KeyId::version is a uint32_t: versions wrap at this modulus
    CacheCapacity,    \* CacheClientConfig::local_cache_size
    MaxIoFailures,    \* bound on I/O errors of the on-disk store
    MaxCrashes,       \* bound on process crashes (on-disk store only)
    None              \* no thread / no key

ASSUME ConstantsAssumption ==
    /\ IsFiniteSet(Threads) /\ Threads # {}
    /\ IsFiniteSet(Uuids)
    /\ StoreKind \in {"InMemory", "Local"}
    /\ VersionModulus \in Nat /\ VersionModulus >= 2
    /\ CacheCapacity \in Nat
    /\ MaxIoFailures \in Nat
    /\ MaxCrashes \in Nat
    /\ None \notin Threads

KeyIds == [uuid : Uuids, version : 0 .. VersionModulus - 1]


\* KeyState (key_types.h).  Only ACTIVE and DEPRECATED are ever written.
KeyStates == {"PENDING_ACTIVATION", "ACTIVE", "DEPRECATED",
              "PENDING_DESTRUCTION", "DESTROYED"}

\* A stored record: the metadata the store gives back on retrieve, and
\* whether the record is a truncated file that retrieve rejects.
Records == [state : KeyStates, previous : KeyIds \cup {None}, corrupt : BOOLEAN]

ASSUME NoneAssumption == None \notin KeyIds \cup Records

\* No record is stored under a KeyId.
Absent == None

Pcs == {"idle", "rot_store", "rot_deprecate", "rot_update", "rot_rollback",
        "rot_finish", "dep_update", "upd_relock"}

VARIABLES
    store,        \* the key store: KeyId -> record, or Absent
    cache,        \* the local LRU tier: cached KeyIds, most recent first
    used,         \* UUIDs generated so far
    ksLock,       \* owner of KeyService::mutex_
    storeOwner,   \* owner of the store mutex held across calls
    pc,           \* where each thread is in the operation it runs
    oldKey,       \* rotateKey's / deprecateKey's argument
    newKey,       \* the KeyId rotateKey generated
    meta,         \* the metadata deprecateKey read before writing it back
    ioFailures,   \* I/O errors so far
    crashes,      \* crashes so far
    rotatedFrom   \* ghost: the key each rotated key was rotated from

vars == <<store, cache, used, ksLock, storeOwner, pc, oldKey, newKey, meta,
          ioFailures, crashes, rotatedFrom>>

-----------------------------------------------------------------------------
(* Helpers.                                                                *)

\* A record that retrieve returns successfully.
Readable(k) == store[k] # Absent /\ ~store[k].corrupt

\* The metadata the store keeps of a record written with metadata m:
\* LocalKeyStore serialises only the algorithm and the state.
Persisted(m) == IF StoreKind = "Local" THEN [m EXCEPT !.previous = None] ELSE m

\* Outcomes of a store write: LocalKeyStore::store can fail to open the
\* file (nothing written) or fail after opening it (a truncated file).
WriteOutcomes ==
    IF StoreKind = "Local" /\ ioFailures < MaxIoFailures
    THEN {"ok", "open_fail", "write_fail"} ELSE {"ok"}

\* Whether a read or a remove of the on-disk store may hit an I/O error.
IoMayFail == StoreKind = "Local" /\ ioFailures < MaxIoFailures

\* Store the record of k after a write with outcome o.
WriteRecord(k, m, o) ==
    CASE o = "ok"         -> [store EXCEPT ![k] = [Persisted(m) EXCEPT !.corrupt = FALSE]]
      [] o = "open_fail"  -> store
      [] o = "write_fail" -> [store EXCEPT ![k] = [Persisted(m) EXCEPT !.corrupt = TRUE]]

FailuresAfter(o) == IF o = "ok" THEN ioFailures ELSE ioFailures + 1

\* Each key has at most one node in the LRU list c.
ListDistinct(c) == \A i, j \in 1 .. Len(c) : i # j => c[i] # c[j]

\* Whether k has an entry in the LRU list c.
InList(c, k) == \E i \in 1 .. Len(c) : c[i] = k

\* The list c with its i-th node erased.
EraseAt(c, i) == [j \in 1 .. Len(c) - 1 |-> IF j < i THEN c[j] ELSE c[j + 1]]

\* The list c with k pushed at its front.
PushFront(c, k) == [j \in 1 .. Len(c) + 1 |-> IF j = 1 THEN k ELSE c[j - 1]]

\* The first n nodes of c: the back is popped until n are left.
Prefix(c, n) == [j \in 1 .. n |-> c[j]]

\* LocalLRUCache::del: the map finds k's entry and its list node is erased.
Without(c, k) ==
    IF InList(c, k) THEN EraseAt(c, CHOOSE i \in 1 .. Len(c) : c[i] = k) ELSE c

\* Mutant of CacheSet: evicts only once the cache is over capacity.
CacheSetLateEviction(c, k) ==
    IF InList(c, k)
    THEN PushFront(Without(c, k), k)
    ELSE PushFront(Prefix(c, IF Len(c) > CacheCapacity THEN CacheCapacity ELSE Len(c)), k)

\* The most entries the LRU list holds: max_size_, or one when max_size_ is
\* 0 (the eviction loop stops at an empty list and the insert follows).
CacheBound == IF CacheCapacity = 0 THEN 1 ELSE CacheCapacity

\* LocalLRUCache::set: an existing entry moves to the front; otherwise the
\* least recently used entries are evicted while the cache holds
\* max_size_ or more and the list is not empty, and the new entry is
\* pushed at the front.
CacheSet(c, k) ==
    IF InList(c, k)
    THEN PushFront(Without(c, k), k)
    ELSE PushFront(Prefix(c, IF Len(c) >= CacheCapacity THEN CacheBound - 1 ELSE Len(c)), k)

\* LocalLRUCache::get on a hit: the entry moves to the front.
CacheTouch(c, k) == PushFront(Without(c, k), k)

Cached(k) == InList(cache, k)

\* Thread t goes on at label next; returning to "idle" drops its locals.
Goto(t, next) ==
    /\ pc' = [pc EXCEPT ![t] = next]
    /\ IF next = "idle"
       THEN /\ oldKey' = [oldKey EXCEPT ![t] = None]
            /\ newKey' = [newKey EXCEPT ![t] = None]
            /\ meta' = [meta EXCEPT ![t] = None]
       ELSE UNCHANGED <<oldKey, newKey, meta>>

-----------------------------------------------------------------------------
Init ==
    /\ store = [k \in KeyIds |-> Absent]
    /\ cache = << >>
    /\ used = {}
    /\ ksLock = None
    /\ storeOwner = None
    /\ pc = [t \in Threads |-> "idle"]
    /\ oldKey = [t \in Threads |-> None]
    /\ newKey = [t \in Threads |-> None]
    /\ meta = [t \in Threads |-> None]
    /\ ioFailures = 0
    /\ crashes = 0
    /\ rotatedFrom = [k \in KeyIds |-> None]

-----------------------------------------------------------------------------
(* generateKey: a fresh KeyId of version 1, its metadata (ACTIVE), the     *)
(* sealed material stored, then the material cached.  The whole call runs  *)
(* under the service mutex and makes one store call.                       *)
generateKey(t) ==
    /\ pc[t] = "idle" /\ ksLock = None /\ storeOwner = None
    /\ \E u \in Uuids \ used, o \in WriteOutcomes :
         LET k == [uuid |-> u, version |-> 1 % VersionModulus] IN
         /\ used' = used \cup {u}
         /\ store' = WriteRecord(k, [state |-> "ACTIVE", previous |-> None,
                                     corrupt |-> FALSE], o)
         /\ cache' = IF o = "ok" THEN CacheSet(cache, k) ELSE cache
         /\ ioFailures' = FailuresAfter(o)
    /\ UNCHANGED <<ksLock, storeOwner, pc, oldKey, newKey, meta, crashes, rotatedFrom>>

(* rotateKey, first step: take the service mutex and retrieve the old key; *)
(* only an ACTIVE key can be rotated.  The early returns (no record, not   *)
(* ACTIVE, key generation failed) change nothing and are stuttering steps. *)
(* A rotation starts only while a UUID is left for it (the model's bound). *)
rotateRetrieve(t, k) ==
    /\ pc[t] = "idle" /\ ksLock = None /\ storeOwner = None
    /\ used # Uuids
    /\ \/ /\ Readable(k) /\ store[k].state = "ACTIVE"
          /\ ksLock' = t
          /\ pc' = [pc EXCEPT ![t] = "rot_store"]
          /\ oldKey' = [oldKey EXCEPT ![t] = k]
          /\ UNCHANGED <<newKey, meta, ioFailures>>
       \/ /\ IoMayFail /\ Readable(k)
          /\ ioFailures' = ioFailures + 1
          /\ UNCHANGED <<ksLock, pc, oldKey, newKey, meta>>
    /\ UNCHANGED <<store, cache, used, storeOwner, crashes, rotatedFrom>>

\* Mutant of rotateStore: the old key is never deprecated.
rotateStoreNoDeprecate(t) ==
    /\ pc[t] = "rot_store" /\ storeOwner = None
    /\ \E u \in Uuids \ used :
         LET n == [uuid |-> u, version |-> (oldKey[t].version + 1) % VersionModulus]
         IN /\ used' = used \cup {u}
            /\ store' = WriteRecord(n, [state |-> "ACTIVE", previous |-> oldKey[t],
                                        corrupt |-> FALSE], "ok")
            /\ pc' = [pc EXCEPT ![t] = "rot_finish"]
            /\ newKey' = [newKey EXCEPT ![t] = n]
            /\ rotatedFrom' = [rotatedFrom EXCEPT ![n] = oldKey[t]]
    /\ UNCHANGED <<ksLock, oldKey, meta, ioFailures, cache, storeOwner, crashes>>

(* rotateKey: new material, a KeyId with a fresh UUID and the old version  *)
(* plus one, metadata pointing back to the old key, stored.                *)
rotateStore(t) ==
    /\ pc[t] = "rot_store" /\ storeOwner = None
    /\ \E u \in Uuids \ used, o \in WriteOutcomes :
         LET k == oldKey[t]
             n == [uuid |-> u, version |-> (k.version + 1) % VersionModulus]
         IN /\ used' = used \cup {u}
            /\ store' = WriteRecord(n, [state |-> "ACTIVE", previous |-> k,
                                        corrupt |-> FALSE], o)
            /\ ioFailures' = FailuresAfter(o)
            /\ IF o = "ok"
               THEN /\ pc' = [pc EXCEPT ![t] = "rot_deprecate"]
                    /\ newKey' = [newKey EXCEPT ![t] = n]
                    /\ rotatedFrom' = [rotatedFrom EXCEPT ![n] = k]
                    /\ UNCHANGED <<ksLock, oldKey, meta>>
               ELSE /\ ksLock' = None
                    /\ Goto(t, "idle")
                    /\ UNCHANGED rotatedFrom
    /\ UNCHANGED <<cache, storeOwner, crashes>>

(* deprecateKey, first half: retrieve the key.  Called by rotateKey on the *)
(* old key (failure leads to the rollback) and directly by clients, who    *)
(* call it without the service mutex.                                      *)
deprecateRetrieve(t, k, next, onFail) ==
    /\ storeOwner = None
    /\ \/ /\ Readable(k)
          /\ pc' = [pc EXCEPT ![t] = next]
          /\ meta' = [meta EXCEPT ![t] = store[k]]
          /\ oldKey' = [oldKey EXCEPT ![t] = k]
          /\ UNCHANGED <<newKey, ioFailures>>
       \/ /\ ~Readable(k)
          /\ Goto(t, onFail)
          /\ UNCHANGED ioFailures
       \/ /\ IoMayFail /\ Readable(k)
          /\ Goto(t, onFail)
          /\ ioFailures' = ioFailures + 1
    /\ UNCHANGED <<store, cache, used, ksLock, storeOwner, crashes, rotatedFrom>>

rotateDeprecate(t) ==
    /\ pc[t] = "rot_deprecate"
    /\ deprecateRetrieve(t, oldKey[t], "rot_update", "rot_rollback")

deprecateKey(t, k) ==
    /\ pc[t] = "idle"
    /\ deprecateRetrieve(t, k, "dep_update", "idle")

(* deprecateKey, second half: updateMetadata with the state set to         *)
(* DEPRECATED, writing back the metadata read in the first half.           *)
(* InMemoryKeyStore replaces the metadata in one locked step; the record   *)
(* may have been removed in between.                                       *)
updateMetadataInMemory(t) ==
    /\ \/ /\ store[oldKey[t]] # Absent
          /\ store' = [store EXCEPT ![oldKey[t]] = [meta[t] EXCEPT !.state = "DEPRECATED"]]
          /\ Goto(t, IF pc[t] = "rot_update" THEN "rot_finish" ELSE "idle")
       \/ /\ store[oldKey[t]] = Absent
          /\ Goto(t, IF pc[t] = "rot_update" THEN "rot_rollback" ELSE "idle")
          /\ UNCHANGED store
    /\ UNCHANGED storeOwner

(* LocalKeyStore::updateMetadata locks the store mutex and then calls      *)
(* retrieve, which locks the same std::mutex again.  std::mutex is not     *)
(* recursive: the thread blocks forever holding the store mutex            *)
(* ("upd_relock" has no step).                                             *)
updateMetadataLocal(t) ==
    /\ storeOwner' = t
    /\ Goto(t, "upd_relock")
    /\ UNCHANGED store

\* Mutant of updateMetadata: the in-memory store re-locks like the local one.
updateMetadataRelock(t) ==
    /\ pc[t] \in {"rot_update", "dep_update"} /\ storeOwner = None
    /\ updateMetadataLocal(t)
    /\ UNCHANGED <<cache, used, ksLock, ioFailures, crashes, rotatedFrom>>

updateMetadata(t) ==
    /\ pc[t] \in {"rot_update", "dep_update"} /\ storeOwner = None
    /\ IF StoreKind = "InMemory" THEN updateMetadataInMemory(t) ELSE updateMetadataLocal(t)
    /\ UNCHANGED <<cache, used, ksLock, ioFailures, crashes, rotatedFrom>>

(* rotateKey after a failed deprecation: remove the new record and return  *)
(* the error; the result of remove is ignored.                             *)
rotateRollback(t) ==
    /\ pc[t] = "rot_rollback" /\ storeOwner = None
    /\ \/ /\ store' = [store EXCEPT ![newKey[t]] = Absent]
          /\ UNCHANGED ioFailures
       \/ /\ IoMayFail /\ store[newKey[t]] # Absent
          /\ ioFailures' = ioFailures + 1
          /\ UNCHANGED store
    /\ ksLock' = None
    /\ Goto(t, "idle")
    /\ UNCHANGED <<cache, used, storeOwner, crashes, rotatedFrom>>

(* rotateKey after the deprecation: invalidate the old key's cache entry,  *)
(* cache the new material, release the mutex and return the new KeyId.     *)
rotateFinish(t) ==
    /\ pc[t] = "rot_finish"
    /\ cache' = CacheSet(Without(cache, oldKey[t]), newKey[t])
    /\ ksLock' = None
    /\ Goto(t, "idle")
    /\ UNCHANGED <<store, used, storeOwner, ioFailures, crashes, rotatedFrom>>

(* getKeyMaterial: a cache hit is returned; on a miss the record is       *)
(* retrieved, unsealed and cached.                                         *)
getKeyMaterial(t, k) ==
    /\ pc[t] = "idle" /\ ksLock = None /\ storeOwner = None
    /\ \/ /\ Cached(k)
          /\ cache' = CacheTouch(cache, k)
          /\ UNCHANGED ioFailures
       \/ /\ ~Cached(k) /\ Readable(k)
          /\ cache' = CacheSet(cache, k)
          /\ UNCHANGED ioFailures
       \/ /\ ~Cached(k) /\ IoMayFail /\ Readable(k)
          /\ ioFailures' = ioFailures + 1
          /\ UNCHANGED cache
    /\ UNCHANGED <<store, used, ksLock, storeOwner, pc, oldKey, newKey, meta,
                   crashes, rotatedFrom>>

\* Mutant of deleteKey: the cache entry is not invalidated.
deleteKeyKeepCache(t, k) ==
    /\ pc[t] = "idle" /\ ksLock = None /\ storeOwner = None
    /\ store' = [store EXCEPT ![k] = Absent]
    /\ UNCHANGED <<cache, ioFailures, used, ksLock, storeOwner, pc, oldKey, newKey,
                   meta, crashes, rotatedFrom>>

(* deleteKey: invalidate the cache entry first, then remove the record.    *)
deleteKey(t, k) ==
    /\ pc[t] = "idle" /\ ksLock = None /\ storeOwner = None
    /\ cache' = Without(cache, k)
    /\ \/ /\ store' = [store EXCEPT ![k] = Absent]
          /\ UNCHANGED ioFailures
       \/ /\ IoMayFail /\ store[k] # Absent
          /\ ioFailures' = ioFailures + 1
          /\ UNCHANGED store
    /\ UNCHANGED <<used, ksLock, storeOwner, pc, oldKey, newKey, meta, crashes,
                   rotatedFrom>>

(* A crash of the process: threads, locks and the in-process cache are     *)
(* lost; the on-disk store survives.  The in-memory store would be lost    *)
(* with the process, so crashes are only taken with LocalKeyStore.         *)
Crash ==
    /\ StoreKind = "Local" /\ crashes < MaxCrashes
    /\ crashes' = crashes + 1
    /\ cache' = << >>
    /\ ksLock' = None
    /\ storeOwner' = None
    /\ pc' = [t \in Threads |-> "idle"]
    /\ oldKey' = [t \in Threads |-> None]
    /\ newKey' = [t \in Threads |-> None]
    /\ meta' = [t \in Threads |-> None]
    /\ UNCHANGED <<store, used, ioFailures, rotatedFrom>>

-----------------------------------------------------------------------------
\* The steps a thread takes inside an operation it has started.
Continue(t) ==
    \/ rotateStore(t)
    \/ rotateDeprecate(t)
    \/ updateMetadata(t)
    \/ rotateRollback(t)
    \/ rotateFinish(t)

Next ==
    \/ \E t \in Threads :
          \/ generateKey(t)
          \/ Continue(t)
          \/ \E k \in KeyIds :
                \/ rotateRetrieve(t, k)
                \/ deprecateKey(t, k)
                \/ getKeyMaterial(t, k)
                \/ deleteKey(t, k)
    \/ Crash

\* A thread that has started an operation is scheduled until it returns;
\* the operating system schedules every runnable thread.
Fairness == \A t \in Threads : WF_vars(Continue(t))

Spec == Init /\ [][Next]_vars /\ Fairness

-----------------------------------------------------------------------------
(* Properties.                                                             *)

TypeOK ==
    /\ store \in [KeyIds -> Records \cup {Absent}]
    /\ cache \in Seq(KeyIds) /\ Len(cache) <= CacheBound
    /\ used \subseteq Uuids
    /\ ksLock \in Threads \cup {None}
    /\ storeOwner \in Threads \cup {None}
    /\ pc \in [Threads -> Pcs]
    /\ oldKey \in [Threads -> KeyIds \cup {None}]
    /\ newKey \in [Threads -> KeyIds \cup {None}]
    /\ meta \in [Threads -> Records \cup {None}]
    /\ ioFailures \in 0 .. MaxIoFailures
    /\ crashes \in 0 .. MaxCrashes
    /\ rotatedFrom \in [KeyIds -> KeyIds \cup {None}]

\* The cache never serves material the store would not give back now: every
\* cached key has a readable record (spec 4.5; deleteKey and rotateKey's
\* invalidation against the LRU list's insertions and evictions).
CacheCoherent ==
    \A i \in 1 .. Len(cache) : Readable(cache[i])

\* The states in which a thread runs inside rotateKey, holding the service
\* mutex.
RotStates == {"rot_store", "rot_deprecate", "rot_update", "rot_rollback", "rot_finish"}

\* Every stored record is under a KeyId whose UUID has been drawn: a fresh
\* UUID names no record and no cached key.
StoreInv == \A k \in KeyIds : store[k] # Absent => k.uuid \in used

\* The LRU list holds each key once (it mirrors a map) and only readable keys.
CacheInv == ListDistinct(cache) /\ CacheCoherent

\* What a thread's locals satisfy where it is: a rotating thread holds the
\* service mutex, and the key it has stored stays readable and uncached
\* until it caches it itself; the metadata deprecateKey writes back was read
\* from a readable record.
ThreadInv(t) ==
    /\ pc[t] \in RotStates => ksLock = t
    /\ pc[t] \in RotStates \cup {"dep_update", "upd_relock"} => oldKey[t] \in KeyIds
    /\ pc[t] \in {"rot_update", "dep_update"} => meta[t] # None /\ ~meta[t].corrupt
    /\ pc[t] \in {"rot_deprecate", "rot_update", "rot_rollback", "rot_finish"}
         => newKey[t] \in KeyIds
    /\ pc[t] \in {"rot_deprecate", "rot_update", "rot_finish"} => Readable(newKey[t])
    /\ pc[t] \in {"rot_deprecate", "rot_update", "rot_rollback"} => ~Cached(newKey[t])

\* The inductive strengthening of TypeOK and CacheCoherent.
CoherenceInv == TypeOK /\ StoreInv /\ CacheInv /\ \A t \in Threads : ThreadInv(t)

\* Once a rotation has returned, the key it rotated away from is no longer
\* ACTIVE while its successor is stored (spec 4.6 and property 10: rotateKey
\* deprecates the old key or rolls the new one back).
RotatingOld == {oldKey[t] : t \in {s \in Threads : pc[s] # "idle" /\ pc[s] # "dep_update"}}

PredecessorRetired ==
    \A n \in KeyIds :
        (store[n] # Absent /\ rotatedFrom[n] # None
           /\ rotatedFrom[n] \notin RotatingOld /\ store[rotatedFrom[n]] # Absent)
        => store[rotatedFrom[n]].state # "ACTIVE"

\* The stored keys rotated from o.
Successors(o) == {n \in KeyIds : store[n] # Absent /\ rotatedFrom[n] = o}

\* Rotation links name drawn UUIDs, so a fresh UUID is nobody's
\* predecessor or successor.
LinksDrawn ==
    \A n \in KeyIds : rotatedFrom[n] # None
        => n.uuid \in used /\ rotatedFrom[n] \in KeyIds /\ rotatedFrom[n].uuid \in used

\* Where a thread is in rotateKey: the old key has no stored successor
\* before rotateKey stores one, then only the new key, and it is no longer
\* ACTIVE once the deprecation has succeeded; no thread is blocked
\* re-locking the store.
RotationInv(t) ==
    /\ pc[t] # "upd_relock"
    /\ pc[t] \in RotStates => oldKey[t].uuid \in used
    /\ pc[t] = "rot_store" => Successors(oldKey[t]) = {}
    /\ pc[t] \in {"rot_deprecate", "rot_update", "rot_rollback"}
         => Successors(oldKey[t]) \subseteq {newKey[t]}
    /\ pc[t] = "rot_finish"
         => store[oldKey[t]] = Absent \/ store[oldKey[t]].state # "ACTIVE"

\* The inductive strengthening of PredecessorRetired over InMemoryKeyStore.
RetireInv == LinksDrawn /\ (\A t \in Threads : RotationInv(t)) /\ PredecessorRetired

\* Every call of rotateKey or deprecateKey returns.
OperationsReturn == \A t \in Threads : pc[t] # "idle" ~> pc[t] = "idle"
=============================================================================
