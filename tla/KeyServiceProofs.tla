-------------------------- MODULE KeyServiceProofs --------------------------
(***************************************************************************)
(* Proofs about the key service model: the LRU list operations keep a      *)
(* duplicate-free list of bounded length, the model is type correct, and   *)
(* the cache never holds a key the store cannot give back.                 *)
(***************************************************************************)
EXTENDS KeyService, TLAPS

-----------------------------------------------------------------------------
(* The LRU list operations.                                                *)

\* Erasing a node leaves a list one shorter, with the nodes before it in
\* place and the nodes after it moved up by one.
LEMMA EraseAtProps ==
    ASSUME NEW S, NEW c \in Seq(S), NEW i \in 1 .. Len(c)
    PROVE  /\ EraseAt(c, i) \in Seq(S)
           /\ Len(EraseAt(c, i)) = Len(c) - 1
           /\ \A j \in 1 .. Len(c) - 1 :
                 EraseAt(c, i)[j] = IF j < i THEN c[j] ELSE c[j + 1]
BY DEF EraseAt

\* Pushing at the front gives a list one longer with k first.
LEMMA PushFrontProps ==
    ASSUME NEW S, NEW c \in Seq(S), NEW k \in S
    PROVE  /\ PushFront(c, k) \in Seq(S)
           /\ Len(PushFront(c, k)) = Len(c) + 1
           /\ PushFront(c, k)[1] = k
           /\ \A j \in 2 .. Len(c) + 1 : PushFront(c, k)[j] = c[j - 1]
BY DEF PushFront

\* A prefix of n nodes.
LEMMA PrefixProps ==
    ASSUME NEW S, NEW c \in Seq(S), NEW n \in 0 .. Len(c)
    PROVE  /\ Prefix(c, n) \in Seq(S)
           /\ Len(Prefix(c, n)) = n
           /\ \A j \in 1 .. n : Prefix(c, n)[j] = c[j]
BY DEF Prefix

\* Pushing a key that is not in a duplicate-free list keeps it duplicate-free.
LEMMA PushFrontDistinct ==
    ASSUME NEW S, NEW c \in Seq(S), NEW k \in S, ListDistinct(c), ~InList(c, k)
    PROVE  ListDistinct(PushFront(c, k))
<1>1. /\ PushFront(c, k) \in Seq(S)
      /\ Len(PushFront(c, k)) = Len(c) + 1
      /\ PushFront(c, k)[1] = k
      /\ \A j \in 2 .. Len(c) + 1 : PushFront(c, k)[j] = c[j - 1]
  BY PushFrontProps
<1>2. SUFFICES ASSUME NEW i \in 1 .. Len(c) + 1, NEW j \in 1 .. Len(c) + 1, i # j
               PROVE  PushFront(c, k)[i] # PushFront(c, k)[j]
  BY <1>1 DEF ListDistinct
<1>3. CASE i = 1
  BY <1>1, <1>2, <1>3 DEF InList
<1>4. CASE j = 1
  BY <1>1, <1>2, <1>4 DEF InList
<1>5. CASE i # 1 /\ j # 1
  BY <1>1, <1>2, <1>5 DEF ListDistinct
<1>. QED  BY <1>3, <1>4, <1>5

\* A prefix of a duplicate-free list is duplicate-free and holds no key the
\* list does not hold.
LEMMA PrefixDistinct ==
    ASSUME NEW S, NEW c \in Seq(S), NEW n \in 0 .. Len(c), ListDistinct(c), NEW k,
           ~InList(c, k)
    PROVE  ListDistinct(Prefix(c, n)) /\ ~InList(Prefix(c, n), k)
<1>1. /\ Prefix(c, n) \in Seq(S)
      /\ Len(Prefix(c, n)) = n
      /\ \A j \in 1 .. n : Prefix(c, n)[j] = c[j]
  BY PrefixProps
<1>2. ListDistinct(Prefix(c, n))
  BY <1>1 DEF ListDistinct
<1>3. ~InList(Prefix(c, n), k)
  BY <1>1 DEF InList
<1>. QED  BY <1>2, <1>3

\* Erasing the p-th node of a duplicate-free list gives a duplicate-free list
\* of nodes of c that no longer holds c[p].
LEMMA EraseAtDistinct ==
    ASSUME NEW S, NEW c \in Seq(S), ListDistinct(c), NEW p \in 1 .. Len(c)
    PROVE  /\ ListDistinct(EraseAt(c, p))
           /\ ~InList(EraseAt(c, p), c[p])
           /\ \A j \in 1 .. Len(EraseAt(c, p)) :
                 \E m \in 1 .. Len(c) : EraseAt(c, p)[j] = c[m]
<1>. DEFINE w == EraseAt(c, p)
            src(x) == IF x < p THEN x ELSE x + 1
<1>1. /\ w \in Seq(S)
      /\ Len(w) = Len(c) - 1
      /\ \A j \in 1 .. Len(c) - 1 : w[j] = IF j < p THEN c[j] ELSE c[j + 1]
  BY EraseAtProps
<1>2. \A j \in 1 .. Len(c) - 1 :
         src(j) \in 1 .. Len(c) /\ src(j) # p /\ w[j] = c[src(j)]
  BY <1>1
<1>3. ListDistinct(w)
  <2>. SUFFICES ASSUME NEW i \in 1 .. Len(w), NEW j \in 1 .. Len(w), i # j
                PROVE  w[i] # w[j]
    BY DEF ListDistinct
  <2>1. src(i) \in 1 .. Len(c) /\ src(j) \in 1 .. Len(c) /\ src(i) # src(j)
    BY <1>1, <1>2
  <2>. QED  BY <1>1, <1>2, <2>1 DEF ListDistinct
<1>4. ~InList(w, c[p])
  <2>. SUFFICES ASSUME NEW j \in 1 .. Len(w), w[j] = c[p]
                PROVE  FALSE
    BY DEF InList
  <2>1. src(j) \in 1 .. Len(c) /\ src(j) # p /\ c[src(j)] = c[p]
    BY <1>1, <1>2
  <2>. QED  BY <2>1 DEF ListDistinct
<1>5. \A j \in 1 .. Len(w) : \E m \in 1 .. Len(c) : w[j] = c[m]
  BY <1>1, <1>2
<1>. QED  BY <1>3, <1>4, <1>5

\* Removing k from a duplicate-free list gives a duplicate-free list of nodes
\* of c, without k, one shorter when k was in it.
LEMMA WithoutProps ==
    ASSUME NEW S, NEW c \in Seq(S), ListDistinct(c), NEW k
    PROVE  /\ Without(c, k) \in Seq(S)
           /\ Len(Without(c, k)) = IF InList(c, k) THEN Len(c) - 1 ELSE Len(c)
           /\ ListDistinct(Without(c, k))
           /\ ~InList(Without(c, k), k)
           /\ \A j \in 1 .. Len(Without(c, k)) :
                 \E m \in 1 .. Len(c) : Without(c, k)[j] = c[m]
<1>1. CASE InList(c, k)
  <2>. DEFINE p == CHOOSE q \in 1 .. Len(c) : c[q] = k
  <2>1. p \in 1 .. Len(c) /\ c[p] = k
    BY <1>1 DEF InList
  <2>2. Without(c, k) = EraseAt(c, p)
    BY <1>1 DEF Without
  <2>. HIDE DEF p
  <2>3. EraseAt(c, p) \in Seq(S) /\ Len(EraseAt(c, p)) = Len(c) - 1
    BY <2>1, EraseAtProps
  <2>4. /\ ListDistinct(EraseAt(c, p))
        /\ ~InList(EraseAt(c, p), c[p])
        /\ \A j \in 1 .. Len(EraseAt(c, p)) : \E m \in 1 .. Len(c) : EraseAt(c, p)[j] = c[m]
    BY <2>1, EraseAtDistinct
  <2>. QED  BY <1>1, <2>1, <2>2, <2>3, <2>4
<1>2. CASE ~InList(c, k)
  BY <1>2 DEF Without
<1>. QED  BY <1>1, <1>2

\* A node moved to the front: the list stays duplicate-free, keeps its
\* length when k was in it, and holds only k and nodes of c.
LEMMA MoveToFrontProps ==
    ASSUME NEW S, NEW c \in Seq(S), ListDistinct(c), NEW k \in S
    PROVE  /\ PushFront(Without(c, k), k) \in Seq(S)
           /\ Len(PushFront(Without(c, k), k)) = IF InList(c, k) THEN Len(c) ELSE Len(c) + 1
           /\ ListDistinct(PushFront(Without(c, k), k))
           /\ \A j \in 1 .. Len(PushFront(Without(c, k), k)) :
                 \/ PushFront(Without(c, k), k)[j] = k
                 \/ \E m \in 1 .. Len(c) : PushFront(Without(c, k), k)[j] = c[m]
<1>. DEFINE w == Without(c, k)
<1>1. /\ w \in Seq(S)
      /\ Len(w) = IF InList(c, k) THEN Len(c) - 1 ELSE Len(c)
      /\ ListDistinct(w)
      /\ ~InList(w, k)
      /\ \A j \in 1 .. Len(w) : \E m \in 1 .. Len(c) : w[j] = c[m]
  BY WithoutProps
<1>2. /\ PushFront(w, k) \in Seq(S)
      /\ Len(PushFront(w, k)) = Len(w) + 1
      /\ PushFront(w, k)[1] = k
      /\ \A j \in 2 .. Len(w) + 1 : PushFront(w, k)[j] = w[j - 1]
  BY <1>1, PushFrontProps
<1>3. ListDistinct(PushFront(w, k))
  BY <1>1, PushFrontDistinct
<1>4. \A j \in 1 .. Len(PushFront(w, k)) :
         PushFront(w, k)[j] = k \/ \E m \in 1 .. Len(c) : PushFront(w, k)[j] = c[m]
  <2>. TAKE j \in 1 .. Len(PushFront(w, k))
  <2>1. CASE j = 1
    BY <1>2, <2>1
  <2>2. CASE j # 1
    <3>1. j - 1 \in 1 .. Len(w) /\ PushFront(w, k)[j] = w[j - 1]
      BY <1>1, <1>2, <2>2
    <3>. QED  BY <1>1, <3>1
  <2>. QED  BY <2>1, <2>2
<1>5. Len(PushFront(w, k)) = IF InList(c, k) THEN Len(c) ELSE Len(c) + 1
  BY <1>1, <1>2
<1>. QED  BY <1>2, <1>3, <1>4, <1>5

\* The LRU list may hold at least one entry, whatever local_cache_size is.
LEMMA CacheBoundPositive == CacheBound \in Nat \ {0}
BY ConstantsAssumption DEF CacheBound

\* LocalLRUCache::set keeps the list duplicate-free and within CacheBound,
\* and adds no key but the one set.
LEMMA CacheSetProps ==
    ASSUME NEW c \in Seq(KeyIds), ListDistinct(c), Len(c) <= CacheBound,
           NEW k \in KeyIds
    PROVE  /\ CacheSet(c, k) \in Seq(KeyIds)
           /\ Len(CacheSet(c, k)) <= CacheBound
           /\ ListDistinct(CacheSet(c, k))
           /\ \A j \in 1 .. Len(CacheSet(c, k)) :
                 CacheSet(c, k)[j] = k \/ \E m \in 1 .. Len(c) : CacheSet(c, k)[j] = c[m]
<1>0. CacheBound \in Nat \ {0} /\ CacheCapacity \in Nat
  BY ConstantsAssumption DEF CacheBound
<1>1. CASE InList(c, k)
  <2>1. CacheSet(c, k) = PushFront(Without(c, k), k)
    BY <1>1 DEF CacheSet
  <2>2. /\ PushFront(Without(c, k), k) \in Seq(KeyIds)
        /\ Len(PushFront(Without(c, k), k)) = Len(c)
        /\ ListDistinct(PushFront(Without(c, k), k))
        /\ \A j \in 1 .. Len(PushFront(Without(c, k), k)) :
              \/ PushFront(Without(c, k), k)[j] = k
              \/ \E m \in 1 .. Len(c) : PushFront(Without(c, k), k)[j] = c[m]
    BY <1>1, MoveToFrontProps
  <2>. QED  BY <2>1, <2>2
<1>2. CASE ~InList(c, k)
  <2>. DEFINE n == IF Len(c) >= CacheCapacity THEN CacheBound - 1 ELSE Len(c)
              w == Prefix(c, n)
  <2>1. n \in 0 .. Len(c) /\ n + 1 <= CacheBound
    BY <1>0 DEF CacheBound
  <2>2. /\ w \in Seq(KeyIds)
        /\ Len(w) = n
        /\ \A j \in 1 .. n : w[j] = c[j]
    BY <2>1, PrefixProps
  <2>3. ListDistinct(w) /\ ~InList(w, k)
    BY <1>2, <2>1, PrefixDistinct
  <2>4. CacheSet(c, k) = PushFront(w, k)
    BY <1>2 DEF CacheSet
  <2>. HIDE DEF n, w
  <2>5. /\ PushFront(w, k) \in Seq(KeyIds)
        /\ Len(PushFront(w, k)) = Len(w) + 1
        /\ PushFront(w, k)[1] = k
        /\ \A j \in 2 .. Len(w) + 1 : PushFront(w, k)[j] = w[j - 1]
    BY <2>2, PushFrontProps
  <2>6. ListDistinct(PushFront(w, k))
    BY <2>2, <2>3, PushFrontDistinct
  <2>7. \A j \in 1 .. Len(PushFront(w, k)) :
           PushFront(w, k)[j] = k \/ \E m \in 1 .. Len(c) : PushFront(w, k)[j] = c[m]
    <3>. TAKE j \in 1 .. Len(PushFront(w, k))
    <3>1. CASE j = 1
      BY <2>5, <3>1
    <3>2. CASE j # 1
      BY <2>1, <2>2, <2>5, <3>2
    <3>. QED  BY <3>1, <3>2
  <2>. QED  BY <2>1, <2>2, <2>4, <2>5, <2>6, <2>7
<1>. QED  BY <1>1, <1>2
-----------------------------------------------------------------------------
(* The store write.                                                        *)

\* The outcomes of a write, and that a failed one needs an I/O error left.
LEMMA WriteOutcomesProps ==
    /\ WriteOutcomes \subseteq {"ok", "open_fail", "write_fail"}
    /\ "ok" \in WriteOutcomes
    /\ \A o \in WriteOutcomes : o # "ok" => ioFailures < MaxIoFailures
BY DEF WriteOutcomes

\* LocalKeyStore::store writes the record of k only: a successful write
\* leaves it readable, a failed open leaves the store as it was, and a
\* failed write leaves a record that retrieve rejects.
LEMMA WriteRecordProps ==
    ASSUME TypeOK, NEW k \in KeyIds, NEW m \in Records,
           NEW o \in {"ok", "open_fail", "write_fail"}
    PROVE  /\ WriteRecord(k, m, o) \in [KeyIds -> Records \cup {Absent}]
           /\ \A j \in KeyIds \ {k} : WriteRecord(k, m, o)[j] = store[j]
           /\ o = "ok" => WriteRecord(k, m, o)[k] # Absent /\ ~WriteRecord(k, m, o)[k].corrupt
           /\ o = "write_fail" => WriteRecord(k, m, o)[k] # Absent
           /\ o = "open_fail" => WriteRecord(k, m, o) = store
<1>1. Persisted(m) \in Records
  BY DEF Persisted, Records, KeyIds
<1>2. /\ [Persisted(m) EXCEPT !.corrupt = FALSE] \in Records
      /\ [Persisted(m) EXCEPT !.corrupt = TRUE] \in Records
      /\ [Persisted(m) EXCEPT !.corrupt = FALSE].corrupt = FALSE
  BY <1>1 DEF Records
<1>3. None \notin Records
  BY NoneAssumption
<1>. QED  BY <1>2, <1>3 DEF WriteRecord, TypeOK, Absent

-----------------------------------------------------------------------------
(* The inductive invariant.                                                *)

\* While the service mutex is free no thread is inside rotateKey.
LEMMA NoRotationWhenFree ==
    ASSUME CoherenceInv, ksLock = None
    PROVE  \A s \in Threads : pc[s] \notin RotStates
BY ConstantsAssumption DEF CoherenceInv, ThreadInv

\* Only the owner of the service mutex is inside rotateKey.
LEMMA OnlyOwnerRotates ==
    ASSUME CoherenceInv, NEW t \in Threads, pc[t] \in RotStates
    PROVE  ksLock = t /\ \A s \in Threads \ {t} : pc[s] \notin RotStates
BY DEF CoherenceInv, ThreadInv

\* A thread outside rotateKey whose control and locals a step leaves alone
\* keeps what it satisfies, whatever the step does to the store and cache.
LEMMA ThreadFrame ==
    ASSUME NEW s \in Threads, ThreadInv(s), pc[s] \notin RotStates,
           pc'[s] = pc[s], oldKey'[s] = oldKey[s], meta'[s] = meta[s]
    PROVE  ThreadInv(s)'
BY DEF ThreadInv, RotStates

\* A step that leaves the store, the drawn UUIDs and the cache alone keeps
\* the store and cache parts of the invariant.
LEMMA StoreCacheFrame ==
    ASSUME CoherenceInv, UNCHANGED <<store, cache, used>>
    PROVE  StoreInv' /\ CacheInv'
BY DEF CoherenceInv, StoreInv, CacheInv, ListDistinct, CacheCoherent, Readable

\* A step taken while the service mutex is free that leaves every thread's
\* control and locals alone keeps what they satisfy.
LEMMA IdleThreadsFrame ==
    ASSUME CoherenceInv, ksLock = None,
           UNCHANGED <<ksLock, pc, oldKey, newKey, meta>>
    PROVE  \A s \in Threads : ThreadInv(s)'
<1>. SUFFICES ASSUME NEW s \in Threads PROVE ThreadInv(s)'
  OBVIOUS
<1>1. ThreadInv(s) /\ pc[s] \notin RotStates
  BY NoRotationWhenFree DEF CoherenceInv
<1>. QED  BY <1>1 DEF ThreadInv, RotStates

\* In the initial state the store and the cache are empty and every thread
\* is idle.
LEMMA InitCoherent == Init => CoherenceInv
<1>. SUFFICES ASSUME Init PROVE CoherenceInv
  OBVIOUS
<1>1. TypeOK
  BY ConstantsAssumption, CacheBoundPositive DEF Init, TypeOK, Pcs, Absent
<1>2. StoreInv
  BY DEF Init, StoreInv
<1>3. CacheInv
  BY DEF Init, CacheInv, ListDistinct, CacheCoherent
<1>4. \A t \in Threads : ThreadInv(t)
  BY DEF Init, ThreadInv, RotStates
<1>. QED  BY <1>1, <1>2, <1>3, <1>4 DEF CoherenceInv

\* generateKey: the fresh KeyId names no record and no cached key, and no
\* thread is rotating while the service mutex is free.
LEMMA GenerateKeyStep ==
    ASSUME CoherenceInv, NEW t \in Threads, generateKey(t)
    PROVE  CoherenceInv'
<1>. DEFINE K(x) == [uuid |-> x, version |-> 1 % VersionModulus]
            Rec == [state |-> "ACTIVE", previous |-> None, corrupt |-> FALSE]
<1>1. PICK u \in Uuids \ used, o \in WriteOutcomes :
        /\ used' = used \cup {u}
        /\ store' = WriteRecord(K(u), Rec, o)
        /\ cache' = IF o = "ok" THEN CacheSet(cache, K(u)) ELSE cache
        /\ ioFailures' = FailuresAfter(o)
  BY DEF generateKey
<1>2. /\ UNCHANGED <<ksLock, storeOwner, pc, oldKey, newKey, meta, crashes, rotatedFrom>>
      /\ ksLock = None
  BY DEF generateKey
<1>3. K(u) \in KeyIds /\ Rec \in Records
  BY ConstantsAssumption DEF KeyIds, Records, KeyStates
<1>4. TypeOK /\ StoreInv /\ CacheInv /\ \A s \in Threads : ThreadInv(s)
  BY DEF CoherenceInv
<1>5. /\ store' \in [KeyIds -> Records \cup {Absent}]
      /\ \A j \in KeyIds \ {K(u)} : store'[j] = store[j]
      /\ o = "ok" => store'[K(u)] # Absent /\ ~store'[K(u)].corrupt
      /\ o = "write_fail" => store'[K(u)] # Absent
      /\ o = "open_fail" => store' = store
  <2>1. o \in {"ok", "open_fail", "write_fail"} /\ TypeOK
    BY <1>4, WriteOutcomesProps
  <2>2. /\ WriteRecord(K(u), Rec, o) \in [KeyIds -> Records \cup {Absent}]
        /\ \A j \in KeyIds \ {K(u)} : WriteRecord(K(u), Rec, o)[j] = store[j]
        /\ o = "ok" => WriteRecord(K(u), Rec, o)[K(u)] # Absent
                        /\ ~WriteRecord(K(u), Rec, o)[K(u)].corrupt
        /\ o = "write_fail" => WriteRecord(K(u), Rec, o)[K(u)] # Absent
        /\ o = "open_fail" => WriteRecord(K(u), Rec, o) = store
    BY <1>3, <2>1, WriteRecordProps
  <2>. QED  BY <1>1, <2>2
<1>6. \A i \in 1 .. Len(cache) : cache[i] # K(u)
  BY <1>4 DEF StoreInv, CacheInv, CacheCoherent, Readable, TypeOK
<1>7. TypeOK'
  <2>1. cache' \in Seq(KeyIds) /\ Len(cache') <= CacheBound
    BY <1>1, <1>3, <1>4, CacheSetProps DEF TypeOK, CacheInv
  <2>2. ioFailures' \in 0 .. MaxIoFailures
    <3>1. ioFailures' = IF o = "ok" THEN ioFailures ELSE ioFailures + 1
      BY <1>1 DEF FailuresAfter
    <3>2. o # "ok" => ioFailures < MaxIoFailures
      BY WriteOutcomesProps
    <3>3. ioFailures \in 0 .. MaxIoFailures
      BY <1>4 DEF TypeOK
    <3>. QED  BY <3>1, <3>2, <3>3, ConstantsAssumption
  <2>. QED  BY <1>1, <1>2, <1>4, <1>5, <2>1, <2>2 DEF TypeOK
<1>8. StoreInv'
  <2>. SUFFICES ASSUME NEW j \in KeyIds, store'[j] # Absent
                PROVE  j.uuid \in used'
    BY DEF StoreInv
  <2>1. CASE j = K(u)
    BY <1>1, <2>1
  <2>2. CASE j # K(u)
    BY <1>1, <1>4, <1>5, <2>2 DEF StoreInv
  <2>. QED  BY <2>1, <2>2
<1>9. CacheInv'
  <2>1. CASE o = "ok"
    <3>1. cache' = CacheSet(cache, K(u))
      BY <1>1, <2>1
    <3>2. cache \in Seq(KeyIds) /\ ListDistinct(cache) /\ Len(cache) <= CacheBound
      BY <1>4 DEF TypeOK, CacheInv
    <3>3. /\ ListDistinct(CacheSet(cache, K(u)))
          /\ \A j \in 1 .. Len(CacheSet(cache, K(u))) :
                \/ CacheSet(cache, K(u))[j] = K(u)
                \/ \E m \in 1 .. Len(cache) : CacheSet(cache, K(u))[j] = cache[m]
      BY <1>3, <3>2, CacheSetProps
    <3>4. CacheCoherent'
      <4>. SUFFICES ASSUME NEW j \in 1 .. Len(cache')
                    PROVE  store'[cache'[j]] # Absent /\ ~store'[cache'[j]].corrupt
        BY DEF CacheCoherent, Readable
      <4>1. CASE cache'[j] = K(u)
        BY <1>5, <2>1, <4>1
      <4>2. CASE \E m \in 1 .. Len(cache) : cache'[j] = cache[m]
        <5>1. PICK m \in 1 .. Len(cache) : cache'[j] = cache[m]
          BY <4>2
        <5>2. cache[m] \in KeyIds /\ cache[m] # K(u) /\ Readable(cache[m])
          BY <1>4, <1>6, <3>2 DEF CacheInv, CacheCoherent
        <5>. QED  BY <1>5, <5>1, <5>2 DEF Readable
      <4>. QED  BY <3>1, <3>3, <4>1, <4>2
    <3>. QED  BY <3>1, <3>3, <3>4 DEF CacheInv
  <2>2. CASE o # "ok"
    <3>1. cache' = cache
      BY <1>1, <2>2
    <3>2. \A i \in 1 .. Len(cache) : cache[i] \in KeyIds /\ Readable(cache[i])
      BY <1>4 DEF TypeOK, CacheInv, CacheCoherent
    <3>3. \A i \in 1 .. Len(cache) : store'[cache[i]] = store[cache[i]]
      BY <1>5, <1>6, <3>2
    <3>. QED  BY <1>4, <3>1, <3>2, <3>3 DEF CacheInv, CacheCoherent, Readable
  <2>. QED  BY <2>1, <2>2
<1>10. \A s \in Threads : ThreadInv(s)'
  BY <1>2, <1>4, IdleThreadsFrame
<1>. QED  BY <1>7, <1>8, <1>9, <1>10 DEF CoherenceInv

\* rotateKey's first step: the thread takes the free service mutex and
\* remembers the key, or the retrieve hits an I/O error.
LEMMA RotateRetrieveStep ==
    ASSUME CoherenceInv, NEW t \in Threads, NEW k \in KeyIds, rotateRetrieve(t, k)
    PROVE  CoherenceInv'
<1>1. /\ UNCHANGED <<store, cache, used, storeOwner, crashes, rotatedFrom>>
      /\ pc[t] = "idle" /\ ksLock = None
  BY DEF rotateRetrieve
<1>2. TypeOK /\ \A s \in Threads : ThreadInv(s) /\ pc[s] \notin RotStates
  BY <1>1, NoRotationWhenFree DEF CoherenceInv
<1>3. StoreInv' /\ CacheInv'
  BY <1>1, StoreCacheFrame
<1>4. CASE /\ ksLock' = t
           /\ pc' = [pc EXCEPT ![t] = "rot_store"]
           /\ oldKey' = [oldKey EXCEPT ![t] = k]
           /\ UNCHANGED <<newKey, meta, ioFailures>>
  <2>1. TypeOK'
    BY <1>1, <1>2, <1>4 DEF TypeOK, Pcs
  <2>2. ThreadInv(t)'
    BY <1>2, <1>4 DEF ThreadInv, RotStates, TypeOK
  <2>3. \A s \in Threads \ {t} : ThreadInv(s)'
    BY <1>2, <1>4, ThreadFrame
  <2>. QED  BY <1>3, <2>1, <2>2, <2>3 DEF CoherenceInv
<1>5. CASE /\ IoMayFail
           /\ ioFailures' = ioFailures + 1
           /\ UNCHANGED <<ksLock, pc, oldKey, newKey, meta>>
  <2>1. TypeOK'
    BY <1>1, <1>2, <1>5, ConstantsAssumption DEF TypeOK, IoMayFail
  <2>2. \A s \in Threads : ThreadInv(s)'
    BY <1>1, <1>5, IdleThreadsFrame
  <2>. QED  BY <1>3, <2>1, <2>2 DEF CoherenceInv
<1>. QED  BY <1>4, <1>5 DEF rotateRetrieve

\* rotateKey stores the new version under a fresh UUID: no record and no
\* cached key is named by it, and on success it is readable and uncached.
LEMMA RotateStoreStep ==
    ASSUME CoherenceInv, NEW t \in Threads, rotateStore(t)
    PROVE  CoherenceInv'
<1>. DEFINE N(x) == [uuid |-> x, version |-> (oldKey[t].version + 1) % VersionModulus]
            R == [state |-> "ACTIVE", previous |-> oldKey[t], corrupt |-> FALSE]
<1>1. PICK u \in Uuids \ used, o \in WriteOutcomes :
        /\ used' = used \cup {u}
        /\ store' = WriteRecord(N(u), R, o)
        /\ ioFailures' = FailuresAfter(o)
        /\ IF o = "ok"
           THEN /\ pc' = [pc EXCEPT ![t] = "rot_deprecate"]
                /\ newKey' = [newKey EXCEPT ![t] = N(u)]
                /\ rotatedFrom' = [rotatedFrom EXCEPT ![N(u)] = oldKey[t]]
                /\ UNCHANGED <<ksLock, oldKey, meta>>
           ELSE /\ ksLock' = None
                /\ Goto(t, "idle")
                /\ UNCHANGED rotatedFrom
  BY DEF rotateStore
<1>2. UNCHANGED <<cache, storeOwner, crashes>> /\ pc[t] = "rot_store"
  BY DEF rotateStore
<1>3. /\ TypeOK /\ StoreInv /\ CacheInv /\ ThreadInv(t)
      /\ ksLock = t /\ \A s \in Threads \ {t} : ThreadInv(s) /\ pc[s] \notin RotStates
  BY <1>2, OnlyOwnerRotates DEF CoherenceInv, RotStates
<1>4. oldKey[t] \in KeyIds
  BY <1>2, <1>3 DEF ThreadInv, RotStates
<1>5. N(u) \in KeyIds /\ R \in Records
  BY <1>4, ConstantsAssumption DEF KeyIds, Records, KeyStates
<1>6. /\ store' \in [KeyIds -> Records \cup {Absent}]
      /\ \A j \in KeyIds \ {N(u)} : store'[j] = store[j]
      /\ o = "ok" => store'[N(u)] # Absent /\ ~store'[N(u)].corrupt
      /\ o = "write_fail" => store'[N(u)] # Absent
      /\ o = "open_fail" => store' = store
  <2>1. o \in {"ok", "open_fail", "write_fail"}
    BY WriteOutcomesProps
  <2>2. /\ WriteRecord(N(u), R, o) \in [KeyIds -> Records \cup {Absent}]
        /\ \A j \in KeyIds \ {N(u)} : WriteRecord(N(u), R, o)[j] = store[j]
        /\ o = "ok" => WriteRecord(N(u), R, o)[N(u)] # Absent
                       /\ ~WriteRecord(N(u), R, o)[N(u)].corrupt
        /\ o = "write_fail" => WriteRecord(N(u), R, o)[N(u)] # Absent
        /\ o = "open_fail" => WriteRecord(N(u), R, o) = store
    BY <1>3, <1>5, <2>1, WriteRecordProps
  <2>. QED  BY <1>1, <2>2
<1>7. \A i \in 1 .. Len(cache) : cache[i] # N(u)
  BY <1>3 DEF StoreInv, CacheInv, CacheCoherent, Readable, TypeOK
<1>8. ioFailures' \in 0 .. MaxIoFailures
  <2>1. ioFailures' = IF o = "ok" THEN ioFailures ELSE ioFailures + 1
    BY <1>1 DEF FailuresAfter
  <2>2. o # "ok" => ioFailures < MaxIoFailures
    BY WriteOutcomesProps
  <2>3. ioFailures \in 0 .. MaxIoFailures
    BY <1>3 DEF TypeOK
  <2>. QED  BY <2>1, <2>2, <2>3, ConstantsAssumption
<1>9. StoreInv'
  <2>. SUFFICES ASSUME NEW j \in KeyIds, store'[j] # Absent
                PROVE  j.uuid \in used'
    BY DEF StoreInv
  <2>1. CASE j = N(u)
    BY <1>1, <2>1
  <2>2. CASE j # N(u)
    BY <1>1, <1>3, <1>6, <2>2 DEF StoreInv
  <2>. QED  BY <2>1, <2>2
<1>10. CacheInv'
  <2>1. \A i \in 1 .. Len(cache) : cache[i] \in KeyIds /\ Readable(cache[i])
    BY <1>3 DEF TypeOK, CacheInv, CacheCoherent
  <2>2. \A i \in 1 .. Len(cache) : store'[cache[i]] = store[cache[i]]
    BY <1>6, <1>7, <2>1
  <2>. QED  BY <1>2, <1>3, <2>1, <2>2 DEF CacheInv, CacheCoherent, Readable, ListDistinct
<1>11. CASE o = "ok"
  <2>1. /\ pc' = [pc EXCEPT ![t] = "rot_deprecate"]
        /\ newKey' = [newKey EXCEPT ![t] = N(u)]
        /\ rotatedFrom' = [rotatedFrom EXCEPT ![N(u)] = oldKey[t]]
        /\ UNCHANGED <<ksLock, oldKey, meta>>
    BY <1>1, <1>11
  <2>2. TypeOK'
    BY <1>1, <1>2, <1>3, <1>4, <1>5, <1>6, <1>8, <2>1 DEF TypeOK, Pcs
  <2>3. ThreadInv(t)'
    <3>1. ~InList(cache', N(u))
      BY <1>2, <1>7 DEF InList
    <3>. QED  BY <1>3, <1>4, <1>5, <1>6, <1>11, <2>1, <3>1
              DEF ThreadInv, RotStates, TypeOK, Readable, Cached
  <2>4. \A s \in Threads \ {t} : ThreadInv(s)'
    BY <1>3, <2>1, ThreadFrame
  <2>. QED  BY <1>9, <1>10, <2>2, <2>3, <2>4 DEF CoherenceInv
<1>12. CASE o # "ok"
  <2>1. /\ ksLock' = None
        /\ pc' = [pc EXCEPT ![t] = "idle"]
        /\ oldKey' = [oldKey EXCEPT ![t] = None]
        /\ newKey' = [newKey EXCEPT ![t] = None]
        /\ meta' = [meta EXCEPT ![t] = None]
        /\ UNCHANGED rotatedFrom
    BY <1>1, <1>12 DEF Goto
  <2>2. TypeOK'
    BY <1>1, <1>2, <1>3, <1>6, <1>8, <2>1 DEF TypeOK, Pcs
  <2>3. ThreadInv(t)'
    BY <1>3, <2>1 DEF ThreadInv, RotStates, TypeOK
  <2>4. \A s \in Threads \ {t} : ThreadInv(s)'
    BY <1>3, <2>1, ThreadFrame
  <2>. QED  BY <1>9, <1>10, <2>2, <2>3, <2>4 DEF CoherenceInv
<1>. QED  BY <1>11, <1>12

\* A thread whose control and locals a step leaves alone keeps what it
\* satisfies when the step leaves the cache and the service mutex alone and
\* makes no readable record unreadable.
LEMMA LocalsFrame ==
    ASSUME NEW s \in Threads, ThreadInv(s), UNCHANGED <<cache, ksLock>>,
           \A k \in KeyIds : Readable(k) => Readable(k)',
           pc'[s] = pc[s], oldKey'[s] = oldKey[s], newKey'[s] = newKey[s],
           meta'[s] = meta[s]
    PROVE  ThreadInv(s)'
BY DEF ThreadInv, Cached

\* rotateKey's call of deprecateKey retrieves the old key under the service
\* mutex: it either holds its metadata or goes to the rollback.
LEMMA RotateDeprecateStep ==
    ASSUME CoherenceInv, NEW t \in Threads, rotateDeprecate(t)
    PROVE  CoherenceInv'
<1>. DEFINE k == oldKey[t]
<1>1. /\ UNCHANGED <<store, cache, used, ksLock, storeOwner, crashes, rotatedFrom>>
      /\ pc[t] = "rot_deprecate"
  BY DEF rotateDeprecate, deprecateRetrieve
<1>2. /\ TypeOK /\ ThreadInv(t) /\ ksLock = t
      /\ \A s \in Threads \ {t} : ThreadInv(s) /\ pc[s] \notin RotStates
  BY <1>1, OnlyOwnerRotates DEF CoherenceInv, RotStates
<1>3. k \in KeyIds /\ newKey[t] \in KeyIds /\ Readable(newKey[t]) /\ ~Cached(newKey[t])
  BY <1>1, <1>2 DEF ThreadInv, RotStates
<1>4. StoreInv' /\ CacheInv'
  BY <1>1, StoreCacheFrame
<1>5. \A kk \in KeyIds : Readable(kk) => Readable(kk)'
  BY <1>1 DEF Readable
<1>6. \A s \in Threads \ {t} : ThreadInv(s)'
  <2>. SUFFICES ASSUME NEW s \in Threads \ {t} PROVE ThreadInv(s)'
    OBVIOUS
  <2>1. /\ pc'[s] = pc[s] /\ oldKey'[s] = oldKey[s]
        /\ newKey'[s] = newKey[s] /\ meta'[s] = meta[s]
    BY <1>2 DEF rotateDeprecate, deprecateRetrieve, Goto, TypeOK
  <2>. QED  BY <1>1, <1>2, <1>5, <2>1, LocalsFrame
<1>7. CASE /\ Readable(k)
           /\ pc' = [pc EXCEPT ![t] = "rot_update"]
           /\ meta' = [meta EXCEPT ![t] = store[k]]
           /\ oldKey' = [oldKey EXCEPT ![t] = k]
           /\ UNCHANGED <<newKey, ioFailures>>
  <2>1. store[k] \in Records
    BY <1>2, <1>3, <1>7 DEF TypeOK, Readable
  <2>2. TypeOK'
    BY <1>1, <1>2, <1>7, <2>1 DEF TypeOK, Pcs
  <2>3. meta'[t] # None /\ ~meta'[t].corrupt
    BY <1>2, <1>7, <2>1, NoneAssumption DEF TypeOK, Readable
  <2>4. ThreadInv(t)'
    BY <1>1, <1>2, <1>3, <1>5, <1>7, <2>3 DEF ThreadInv, RotStates, TypeOK, Cached
  <2>. QED  BY <1>4, <1>6, <2>2, <2>4 DEF CoherenceInv
<1>8. CASE /\ pc' = [pc EXCEPT ![t] = "rot_rollback"]
           /\ UNCHANGED <<oldKey, newKey, meta>>
           /\ \/ ioFailures' = ioFailures
              \/ IoMayFail /\ ioFailures' = ioFailures + 1
  <2>1. TypeOK'
    BY <1>1, <1>2, <1>8, ConstantsAssumption DEF TypeOK, Pcs, IoMayFail
  <2>2. ThreadInv(t)'
    BY <1>1, <1>2, <1>3, <1>8 DEF ThreadInv, RotStates, TypeOK, Cached
  <2>. QED  BY <1>4, <1>6, <2>1, <2>2 DEF CoherenceInv
<1>. QED  BY <1>7, <1>8 DEF rotateDeprecate, deprecateRetrieve, Goto

\* A client's deprecateKey retrieves the key without the service mutex; the
\* metadata it holds for the write-back comes from a readable record.
LEMMA DeprecateKeyStep ==
    ASSUME CoherenceInv, NEW t \in Threads, NEW k \in KeyIds, deprecateKey(t, k)
    PROVE  CoherenceInv'
<1>1. /\ UNCHANGED <<store, cache, used, ksLock, storeOwner, crashes, rotatedFrom>>
      /\ pc[t] = "idle"
  BY DEF deprecateKey, deprecateRetrieve
<1>2. TypeOK /\ \A s \in Threads : ThreadInv(s)
  BY DEF CoherenceInv
<1>4. StoreInv' /\ CacheInv'
  BY <1>1, StoreCacheFrame
<1>5. \A kk \in KeyIds : Readable(kk) => Readable(kk)'
  BY <1>1 DEF Readable
<1>6. \A s \in Threads \ {t} : ThreadInv(s)'
  <2>. SUFFICES ASSUME NEW s \in Threads \ {t} PROVE ThreadInv(s)'
    OBVIOUS
  <2>1. /\ pc'[s] = pc[s] /\ oldKey'[s] = oldKey[s]
        /\ newKey'[s] = newKey[s] /\ meta'[s] = meta[s]
    BY <1>2 DEF deprecateKey, deprecateRetrieve, Goto, TypeOK
  <2>. QED  BY <1>1, <1>2, <1>5, <2>1, LocalsFrame
<1>7. CASE /\ Readable(k)
           /\ pc' = [pc EXCEPT ![t] = "dep_update"]
           /\ meta' = [meta EXCEPT ![t] = store[k]]
           /\ oldKey' = [oldKey EXCEPT ![t] = k]
           /\ UNCHANGED <<newKey, ioFailures>>
  <2>1. store[k] \in Records
    BY <1>2, <1>7 DEF TypeOK, Readable
  <2>2. TypeOK'
    BY <1>1, <1>2, <1>7, <2>1 DEF TypeOK, Pcs
  <2>3. meta'[t] # None /\ ~meta'[t].corrupt
    BY <1>2, <1>7, <2>1, NoneAssumption DEF TypeOK, Readable
  <2>4. ThreadInv(t)'
    BY <1>2, <1>7, <2>3 DEF ThreadInv, RotStates, TypeOK
  <2>. QED  BY <1>4, <1>6, <2>2, <2>4 DEF CoherenceInv
<1>8. CASE /\ pc' = [pc EXCEPT ![t] = "idle"]
           /\ oldKey' = [oldKey EXCEPT ![t] = None]
           /\ newKey' = [newKey EXCEPT ![t] = None]
           /\ meta' = [meta EXCEPT ![t] = None]
           /\ \/ ioFailures' = ioFailures
              \/ IoMayFail /\ ioFailures' = ioFailures + 1
  <2>1. TypeOK'
    BY <1>1, <1>2, <1>8, ConstantsAssumption DEF TypeOK, Pcs, IoMayFail
  <2>2. ThreadInv(t)'
    BY <1>2, <1>8 DEF ThreadInv, RotStates, TypeOK
  <2>. QED  BY <1>4, <1>6, <2>1, <2>2 DEF CoherenceInv
<1>. QED  BY <1>7, <1>8 DEF deprecateKey, deprecateRetrieve, Goto

\* updateMetadata writes back the non-corrupt metadata that deprecateKey
\* read, so no readable record becomes unreadable; the local store's
\* re-lock leaves the store alone.
LEMMA UpdateMetadataStep ==
    ASSUME CoherenceInv, NEW t \in Threads, updateMetadata(t)
    PROVE  CoherenceInv'
<1>. DEFINE k == oldKey[t]
            R == [meta[t] EXCEPT !.state = "DEPRECATED"]
<1>0. TypeOK
  BY DEF CoherenceInv
<1>1. /\ pc[t] \in {"rot_update", "dep_update"} /\ storeOwner = None
      /\ UNCHANGED <<cache, used, ksLock, ioFailures, crashes, rotatedFrom>>
  BY DEF updateMetadata
<1>2. TypeOK /\ StoreInv /\ CacheInv /\ \A s \in Threads : ThreadInv(s)
  BY DEF CoherenceInv
<1>3. /\ k \in KeyIds /\ meta[t] \in Records /\ ~meta[t].corrupt
      /\ pc[t] = "rot_update" => /\ ksLock = t /\ newKey[t] \in KeyIds
                                 /\ Readable(newKey[t]) /\ ~Cached(newKey[t])
  BY <1>1, <1>2 DEF ThreadInv, RotStates, TypeOK
<1>4. R \in Records /\ ~R.corrupt
  BY <1>3 DEF Records, KeyStates
<1>5. ASSUME UNCHANGED store \/ (store[k] # Absent /\ store' = [store EXCEPT ![k] = R])
      PROVE  /\ store' \in [KeyIds -> Records \cup {Absent}]
             /\ \A kk \in KeyIds : Readable(kk) => Readable(kk)'
             /\ StoreInv' /\ CacheInv'
  <2>1. store' \in [KeyIds -> Records \cup {Absent}]
    BY <1>2, <1>3, <1>4, <1>5 DEF TypeOK
  <2>2. \A kk \in KeyIds : Readable(kk) => Readable(kk)'
    <3>1. CASE UNCHANGED store
      BY <3>1 DEF Readable
    <3>2. CASE store[k] # Absent /\ store' = [store EXCEPT ![k] = R]
      BY <1>0, <1>3, <1>4, <3>2, NoneAssumption DEF TypeOK, Readable, Absent
    <3>. QED  BY <1>5, <3>1, <3>2
  <2>3. StoreInv'
    BY <1>1, <1>2, <1>3, <1>5 DEF StoreInv, TypeOK
  <2>4. CacheInv'
    BY <1>1, <1>2, <2>2 DEF CacheInv, CacheCoherent, ListDistinct, TypeOK
  <2>. QED  BY <2>1, <2>2, <2>3, <2>4
<1>6. ASSUME \A kk \in KeyIds : Readable(kk) => Readable(kk)',
             pc' = [pc EXCEPT ![t] = pc'[t]],
             \/ UNCHANGED <<oldKey, newKey, meta>>
             \/ /\ oldKey' = [oldKey EXCEPT ![t] = None]
                /\ newKey' = [newKey EXCEPT ![t] = None]
                /\ meta' = [meta EXCEPT ![t] = None]
      PROVE  \A s \in Threads \ {t} : ThreadInv(s)'
  <2>. SUFFICES ASSUME NEW s \in Threads \ {t} PROVE ThreadInv(s)'
    OBVIOUS
  <2>1. /\ pc'[s] = pc[s] /\ oldKey'[s] = oldKey[s]
        /\ newKey'[s] = newKey[s] /\ meta'[s] = meta[s]
    BY <1>2, <1>6 DEF TypeOK
  <2>. QED  BY <1>1, <1>2, <1>6, <2>1, LocalsFrame
<1>7. CASE StoreKind = "InMemory" /\ store[k] # Absent /\ store' = [store EXCEPT ![k] = R]
  <2>1. /\ UNCHANGED storeOwner
        /\ pc[t] = "rot_update" => /\ pc' = [pc EXCEPT ![t] = "rot_finish"]
                                   /\ UNCHANGED <<oldKey, newKey, meta>>
        /\ pc[t] = "dep_update" => /\ pc' = [pc EXCEPT ![t] = "idle"]
                                   /\ oldKey' = [oldKey EXCEPT ![t] = None]
                                   /\ newKey' = [newKey EXCEPT ![t] = None]
                                   /\ meta' = [meta EXCEPT ![t] = None]
    <3>1. updateMetadataInMemory(t)
      BY <1>7 DEF updateMetadata
    <3>. QED  BY <1>1, <1>7, <3>1 DEF updateMetadataInMemory, Goto
  <2>2. /\ store' \in [KeyIds -> Records \cup {Absent}]
        /\ \A kk \in KeyIds : Readable(kk) => Readable(kk)'
        /\ StoreInv' /\ CacheInv'
    BY <1>5, <1>7
  <2>3. TypeOK'
    <3>1. CASE pc[t] = "rot_update"
      BY <1>0, <1>1, <2>1, <2>2, <3>1 DEF TypeOK, Pcs
    <3>2. CASE pc[t] = "dep_update"
      BY <1>0, <1>1, <2>1, <2>2, <3>2 DEF TypeOK, Pcs
    <3>. QED  BY <1>1, <3>1, <3>2
  <2>4. ThreadInv(t)'
    BY <1>1, <1>2, <1>3, <2>1, <2>2 DEF ThreadInv, RotStates, TypeOK
  <2>5. \A s \in Threads \ {t} : ThreadInv(s)'
    BY <1>1, <1>2, <2>1, <2>2, <1>6 DEF TypeOK
  <2>. QED  BY <2>2, <2>3, <2>4, <2>5 DEF CoherenceInv
<1>8. CASE StoreKind = "InMemory" /\ store[k] = Absent /\ UNCHANGED store
  <2>1. /\ UNCHANGED storeOwner
        /\ pc[t] = "rot_update" => /\ pc' = [pc EXCEPT ![t] = "rot_rollback"]
                                   /\ UNCHANGED <<oldKey, newKey, meta>>
        /\ pc[t] = "dep_update" => /\ pc' = [pc EXCEPT ![t] = "idle"]
                                   /\ oldKey' = [oldKey EXCEPT ![t] = None]
                                   /\ newKey' = [newKey EXCEPT ![t] = None]
                                   /\ meta' = [meta EXCEPT ![t] = None]
    <3>1. updateMetadataInMemory(t)
      BY <1>8 DEF updateMetadata
    <3>. QED  BY <1>1, <1>8, <3>1 DEF updateMetadataInMemory, Goto
  <2>2. /\ \A kk \in KeyIds : Readable(kk) => Readable(kk)'
        /\ StoreInv' /\ CacheInv'
    BY <1>5, <1>8
  <2>3. TypeOK'
    <3>1. CASE pc[t] = "rot_update"
      BY <1>0, <1>1, <1>8, <2>1, <3>1 DEF TypeOK, Pcs
    <3>2. CASE pc[t] = "dep_update"
      BY <1>0, <1>1, <1>8, <2>1, <3>2 DEF TypeOK, Pcs
    <3>. QED  BY <1>1, <3>1, <3>2
  <2>4. ThreadInv(t)'
    BY <1>1, <1>2, <1>3, <1>8, <2>1 DEF ThreadInv, RotStates, TypeOK, Cached
  <2>5. \A s \in Threads \ {t} : ThreadInv(s)'
    BY <1>1, <1>2, <2>1, <2>2, <1>6 DEF TypeOK
  <2>. QED  BY <2>2, <2>3, <2>4, <2>5 DEF CoherenceInv
<1>9. CASE StoreKind = "InMemory"
  <2>1. updateMetadataInMemory(t)
    BY <1>9 DEF updateMetadata
  <2>. QED  BY <1>7, <1>8, <1>9, <2>1 DEF updateMetadataInMemory
<1>10. CASE StoreKind # "InMemory"
  <2>1. /\ storeOwner' = t /\ UNCHANGED <<store, oldKey, newKey, meta>>
        /\ pc' = [pc EXCEPT ![t] = "upd_relock"]
    BY <1>10 DEF updateMetadata, updateMetadataLocal, Goto
  <2>2. /\ \A kk \in KeyIds : Readable(kk) => Readable(kk)'
        /\ StoreInv' /\ CacheInv'
    BY <1>5, <2>1
  <2>3. TypeOK'
    BY <1>1, <1>2, <2>1 DEF TypeOK, Pcs
  <2>4. ThreadInv(t)'
    BY <1>2, <1>3, <2>1 DEF ThreadInv, RotStates, TypeOK
  <2>5. \A s \in Threads \ {t} : ThreadInv(s)'
    BY <1>2, <2>1, <2>2, <1>6 DEF TypeOK
  <2>. QED  BY <2>2, <2>3, <2>4, <2>5 DEF CoherenceInv
<1>. QED  BY <1>9, <1>10

\* rotateKey's rollback removes the new record, which nobody has cached,
\* and releases the service mutex.
LEMMA RotateRollbackStep ==
    ASSUME CoherenceInv, NEW t \in Threads, rotateRollback(t)
    PROVE  CoherenceInv'
<1>. DEFINE n == newKey[t]
<1>1. /\ pc[t] = "rot_rollback" /\ ksLock' = None
      /\ pc' = [pc EXCEPT ![t] = "idle"]
      /\ oldKey' = [oldKey EXCEPT ![t] = None]
      /\ newKey' = [newKey EXCEPT ![t] = None]
      /\ meta' = [meta EXCEPT ![t] = None]
      /\ UNCHANGED <<cache, used, storeOwner, crashes, rotatedFrom>>
  BY DEF rotateRollback, Goto
<1>2. /\ store' = [store EXCEPT ![n] = Absent] /\ UNCHANGED ioFailures
      \/ /\ IoMayFail /\ ioFailures' = ioFailures + 1 /\ UNCHANGED store
  BY DEF rotateRollback
<1>3. TypeOK /\ StoreInv /\ CacheInv /\ ThreadInv(t)
  BY DEF CoherenceInv
<1>4. n \in KeyIds /\ ~Cached(n)
  BY <1>1, <1>3 DEF ThreadInv, RotStates
<1>5. \A s \in Threads \ {t} : ThreadInv(s) /\ pc[s] \notin RotStates
  BY <1>1, OnlyOwnerRotates DEF CoherenceInv, RotStates
<1>6. \A kk \in KeyIds \ {n} : store'[kk] = store[kk]
  BY <1>2, <1>3 DEF TypeOK
<1>7. TypeOK'
  BY <1>1, <1>2, <1>3, <1>4, ConstantsAssumption DEF TypeOK, Pcs, IoMayFail
<1>8. StoreInv'
  <2>1. store'[n] = Absent \/ store'[n] = store[n]
    BY <1>2, <1>3, <1>4 DEF TypeOK
  <2>. QED  BY <1>1, <1>3, <1>4, <1>6, <2>1 DEF StoreInv
<1>9. CacheInv'
  <2>1. \A i \in 1 .. Len(cache) : cache[i] \in KeyIds \ {n}
    BY <1>3, <1>4 DEF TypeOK, Cached, InList
  <2>. QED  BY <1>1, <1>3, <1>6, <2>1 DEF CacheInv, CacheCoherent, Readable, ListDistinct
<1>10. ThreadInv(t)'
  BY <1>1, <1>3 DEF ThreadInv, RotStates, TypeOK
<1>11. \A s \in Threads \ {t} : ThreadInv(s)'
  BY <1>1, <1>3, <1>5, ThreadFrame DEF TypeOK
<1>. QED  BY <1>7, <1>8, <1>9, <1>10, <1>11 DEF CoherenceInv

\* rotateKey's last step invalidates the old key's cache entry and caches
\* the new key, whose record it stored and nobody has removed.
LEMMA RotateFinishStep ==
    ASSUME CoherenceInv, NEW t \in Threads, rotateFinish(t)
    PROVE  CoherenceInv'
<1>. DEFINE o == oldKey[t]
            n == newKey[t]
            w == Without(cache, o)
<1>1. /\ pc[t] = "rot_finish" /\ ksLock' = None
      /\ cache' = CacheSet(w, n)
      /\ pc' = [pc EXCEPT ![t] = "idle"]
      /\ oldKey' = [oldKey EXCEPT ![t] = None]
      /\ newKey' = [newKey EXCEPT ![t] = None]
      /\ meta' = [meta EXCEPT ![t] = None]
      /\ UNCHANGED <<store, used, storeOwner, ioFailures, crashes, rotatedFrom>>
  BY DEF rotateFinish, Goto
<1>2. TypeOK /\ StoreInv /\ CacheInv /\ ThreadInv(t)
  BY DEF CoherenceInv
<1>3. o \in KeyIds /\ n \in KeyIds /\ Readable(n)
  BY <1>1, <1>2 DEF ThreadInv, RotStates
<1>4. \A s \in Threads \ {t} : ThreadInv(s) /\ pc[s] \notin RotStates
  BY <1>1, OnlyOwnerRotates DEF CoherenceInv, RotStates
<1>5. /\ w \in Seq(KeyIds) /\ Len(w) <= CacheBound /\ ListDistinct(w)
      /\ \A j \in 1 .. Len(w) : \E m \in 1 .. Len(cache) : w[j] = cache[m]
  <2>1. cache \in Seq(KeyIds) /\ Len(cache) <= CacheBound /\ ListDistinct(cache)
    BY <1>2 DEF TypeOK, CacheInv
  <2>2. /\ w \in Seq(KeyIds)
        /\ Len(w) = IF InList(cache, o) THEN Len(cache) - 1 ELSE Len(cache)
        /\ ListDistinct(w)
        /\ \A j \in 1 .. Len(w) : \E m \in 1 .. Len(cache) : w[j] = cache[m]
    BY <2>1, WithoutProps
  <2>3. Len(w) <= Len(cache)
    BY <2>1, <2>2
  <2>. QED  BY <2>1, <2>2, <2>3, ConstantsAssumption, CacheBoundPositive
<1>6. /\ cache' \in Seq(KeyIds) /\ Len(cache') <= CacheBound /\ ListDistinct(cache')
      /\ \A j \in 1 .. Len(cache') : cache'[j] = n \/ \E m \in 1 .. Len(w) : cache'[j] = w[m]
  BY <1>1, <1>3, <1>5, CacheSetProps
<1>7. \A j \in 1 .. Len(cache') : Readable(cache'[j])
  <2>. SUFFICES ASSUME NEW j \in 1 .. Len(cache') PROVE Readable(cache'[j])
    OBVIOUS
  <2>1. CASE cache'[j] = n
    BY <1>3, <2>1
  <2>2. CASE \E m \in 1 .. Len(w) : cache'[j] = w[m]
    <3>1. PICK m \in 1 .. Len(w) : cache'[j] = w[m]
      BY <2>2
    <3>2. PICK q \in 1 .. Len(cache) : w[m] = cache[q]
      BY <1>5
    <3>. QED  BY <1>2, <3>1, <3>2 DEF CacheInv, CacheCoherent
  <2>. QED  BY <1>6, <2>1, <2>2
<1>8. TypeOK'
  BY <1>1, <1>2, <1>6 DEF TypeOK, Pcs
<1>9. StoreInv' /\ CacheInv'
  BY <1>1, <1>2, <1>6, <1>7 DEF StoreInv, CacheInv, CacheCoherent, Readable
<1>10. ThreadInv(t)'
  BY <1>1, <1>2 DEF ThreadInv, RotStates, TypeOK
<1>11. \A s \in Threads \ {t} : ThreadInv(s)'
  BY <1>1, <1>2, <1>4, ThreadFrame DEF TypeOK
<1>. QED  BY <1>8, <1>9, <1>10, <1>11 DEF CoherenceInv

\* getKeyMaterial caches a key only on a hit, which moves a cached key to
\* the front, or after retrieving its readable record.
LEMMA GetKeyMaterialStep ==
    ASSUME CoherenceInv, NEW t \in Threads, NEW k \in KeyIds, getKeyMaterial(t, k)
    PROVE  CoherenceInv'
<1>1. /\ ksLock = None
      /\ UNCHANGED <<store, used, ksLock, storeOwner, pc, oldKey, newKey, meta,
                     crashes, rotatedFrom>>
  BY DEF getKeyMaterial
<1>2. /\ TypeOK /\ StoreInv /\ CacheInv
      /\ cache \in Seq(KeyIds) /\ Len(cache) <= CacheBound /\ ListDistinct(cache)
  BY DEF CoherenceInv, TypeOK, CacheInv
<1>3. \A s \in Threads : ThreadInv(s)'
  BY <1>1, IdleThreadsFrame
<1>4. StoreInv'
  BY <1>1, <1>2 DEF StoreInv
<1>5. CASE Cached(k) /\ cache' = CacheTouch(cache, k) /\ UNCHANGED ioFailures
  <2>1. /\ cache' \in Seq(KeyIds)
        /\ Len(cache') = IF InList(cache, k) THEN Len(cache) ELSE Len(cache) + 1
        /\ ListDistinct(cache')
        /\ \A j \in 1 .. Len(cache') :
              cache'[j] = k \/ \E m \in 1 .. Len(cache) : cache'[j] = cache[m]
    <3>1. /\ PushFront(Without(cache, k), k) \in Seq(KeyIds)
          /\ Len(PushFront(Without(cache, k), k)) = IF InList(cache, k) THEN Len(cache) ELSE Len(cache) + 1
          /\ ListDistinct(PushFront(Without(cache, k), k))
          /\ \A j \in 1 .. Len(PushFront(Without(cache, k), k)) :
                \/ PushFront(Without(cache, k), k)[j] = k
                \/ \E m \in 1 .. Len(cache) : PushFront(Without(cache, k), k)[j] = cache[m]
      BY <1>2, MoveToFrontProps
    <3>2. cache' = PushFront(Without(cache, k), k)
      BY <1>5 DEF CacheTouch
    <3>. QED  BY <3>1, <3>2
  <2>2. Len(cache') <= CacheBound
    BY <1>2, <1>5, <2>1 DEF Cached
  <2>3. Readable(k)
    <3>1. PICK i \in 1 .. Len(cache) : cache[i] = k
      BY <1>5 DEF Cached, InList
    <3>. QED  BY <1>2, <3>1 DEF CacheInv, CacheCoherent
  <2>4. \A j \in 1 .. Len(cache') : Readable(cache'[j])
    BY <1>1, <1>2, <2>1, <2>3 DEF CacheInv, CacheCoherent, Readable
  <2>5. TypeOK'
    BY <1>1, <1>2, <1>5, <2>1, <2>2 DEF TypeOK
  <2>. QED  BY <1>1, <1>3, <1>4, <2>1, <2>4, <2>5 DEF CoherenceInv, CacheInv, CacheCoherent, Readable
<1>6. CASE ~Cached(k) /\ Readable(k) /\ cache' = CacheSet(cache, k) /\ UNCHANGED ioFailures
  <2>1. /\ cache' \in Seq(KeyIds)
        /\ Len(cache') <= CacheBound
        /\ ListDistinct(cache')
        /\ \A j \in 1 .. Len(cache') :
              cache'[j] = k \/ \E m \in 1 .. Len(cache) : cache'[j] = cache[m]
    BY <1>2, <1>6, CacheSetProps
  <2>2. \A j \in 1 .. Len(cache') : Readable(cache'[j])
    BY <1>1, <1>2, <1>6, <2>1 DEF CacheInv, CacheCoherent, Readable
  <2>3. TypeOK'
    BY <1>1, <1>2, <1>6, <2>1 DEF TypeOK
  <2>. QED  BY <1>1, <1>3, <1>4, <2>1, <2>2, <2>3 DEF CoherenceInv, CacheInv, CacheCoherent, Readable
<1>7. CASE IoMayFail /\ ioFailures' = ioFailures + 1 /\ UNCHANGED cache
  <2>1. StoreInv' /\ CacheInv'
    BY <1>1, <1>7, StoreCacheFrame
  <2>2. TypeOK'
    BY <1>1, <1>2, <1>7, ConstantsAssumption DEF TypeOK, IoMayFail
  <2>. QED  BY <1>3, <2>1, <2>2 DEF CoherenceInv
<1>. QED  BY <1>5, <1>6, <1>7 DEF getKeyMaterial

\* deleteKey invalidates the cache entry before it removes the record: no
\* cached key loses its record.
LEMMA DeleteKeyStep ==
    ASSUME CoherenceInv, NEW t \in Threads, NEW k \in KeyIds, deleteKey(t, k)
    PROVE  CoherenceInv'
<1>. DEFINE w == Without(cache, k)
<1>1. /\ ksLock = None /\ cache' = w
      /\ UNCHANGED <<used, ksLock, storeOwner, pc, oldKey, newKey, meta, crashes,
                     rotatedFrom>>
  BY DEF deleteKey
<1>2. \/ store' = [store EXCEPT ![k] = Absent] /\ UNCHANGED ioFailures
      \/ IoMayFail /\ ioFailures' = ioFailures + 1 /\ UNCHANGED store
  BY DEF deleteKey
<1>3. /\ TypeOK /\ StoreInv /\ CacheInv
      /\ cache \in Seq(KeyIds) /\ Len(cache) <= CacheBound /\ ListDistinct(cache)
  BY DEF CoherenceInv, TypeOK, CacheInv
<1>4. /\ w \in Seq(KeyIds)
      /\ Len(w) = IF InList(cache, k) THEN Len(cache) - 1 ELSE Len(cache)
      /\ ListDistinct(w)
      /\ ~InList(w, k)
      /\ \A j \in 1 .. Len(w) : \E m \in 1 .. Len(cache) : w[j] = cache[m]
  BY <1>3, WithoutProps
<1>5. Len(w) <= CacheBound
  BY <1>3, <1>4, ConstantsAssumption, CacheBoundPositive
<1>6. \A kk \in KeyIds \ {k} : store'[kk] = store[kk]
  BY <1>2, <1>3 DEF TypeOK
<1>7. \A j \in 1 .. Len(w) : w[j] # k /\ Readable(w[j])
  <2>. SUFFICES ASSUME NEW j \in 1 .. Len(w) PROVE w[j] # k /\ Readable(w[j])
    OBVIOUS
  <2>1. w[j] # k
    BY <1>4 DEF InList
  <2>2. PICK m \in 1 .. Len(cache) : w[j] = cache[m]
    BY <1>4
  <2>. QED  BY <1>3, <2>1, <2>2 DEF CacheInv, CacheCoherent
<1>8. CacheInv'
  <2>1. \A j \in 1 .. Len(w) : w[j] \in KeyIds \ {k}
    BY <1>4, <1>7
  <2>. QED  BY <1>1, <1>4, <1>6, <1>7, <2>1 DEF CacheInv, CacheCoherent, Readable
<1>9. StoreInv'
  <2>1. store'[k] = Absent \/ store'[k] = store[k]
    BY <1>2, <1>3 DEF TypeOK
  <2>. QED  BY <1>1, <1>3, <1>6, <2>1 DEF StoreInv
<1>10. TypeOK'
  BY <1>1, <1>2, <1>3, <1>4, <1>5, ConstantsAssumption DEF TypeOK, IoMayFail
<1>11. \A s \in Threads : ThreadInv(s)'
  BY <1>1, IdleThreadsFrame
<1>. QED  BY <1>8, <1>9, <1>10, <1>11 DEF CoherenceInv

\* A crash loses the threads, the locks and the in-process cache; the
\* on-disk store survives.
LEMMA CrashStep ==
    ASSUME CoherenceInv, Crash
    PROVE  CoherenceInv'
<1>1. /\ crashes < MaxCrashes /\ crashes' = crashes + 1 /\ cache' = << >>
      /\ ksLock' = None /\ storeOwner' = None
      /\ pc' = [s \in Threads |-> "idle"]
      /\ oldKey' = [s \in Threads |-> None]
      /\ newKey' = [s \in Threads |-> None]
      /\ meta' = [s \in Threads |-> None]
      /\ UNCHANGED <<store, used, ioFailures, rotatedFrom>>
  BY DEF Crash
<1>2. TypeOK /\ StoreInv
  BY DEF CoherenceInv
<1>3. TypeOK'
  BY <1>1, <1>2, ConstantsAssumption, CacheBoundPositive DEF TypeOK, Pcs
<1>4. StoreInv' /\ CacheInv'
  BY <1>1, <1>2 DEF StoreInv, CacheInv, CacheCoherent, ListDistinct
<1>5. \A s \in Threads : ThreadInv(s)'
  BY <1>1 DEF ThreadInv, RotStates
<1>. QED  BY <1>3, <1>4, <1>5 DEF CoherenceInv

-----------------------------------------------------------------------------
(* The theorems.                                                           *)

\* Every step of the service, and a stutter, keeps the inductive invariant.
LEMMA NextCoherent == CoherenceInv /\ [Next]_vars => CoherenceInv'
<1>. SUFFICES ASSUME CoherenceInv, [Next]_vars PROVE CoherenceInv'
  OBVIOUS
<1>1. CASE \E t \in Threads : generateKey(t)
  BY <1>1, GenerateKeyStep
<1>2. CASE \E t \in Threads : Continue(t)
  <2>. PICK t \in Threads : Continue(t)
    BY <1>2
  <2>. QED  BY RotateStoreStep, RotateDeprecateStep, UpdateMetadataStep,
               RotateRollbackStep, RotateFinishStep DEF Continue
<1>3. CASE \E t \in Threads, k \in KeyIds : rotateRetrieve(t, k)
  BY <1>3, RotateRetrieveStep
<1>4. CASE \E t \in Threads, k \in KeyIds : deprecateKey(t, k)
  BY <1>4, DeprecateKeyStep
<1>5. CASE \E t \in Threads, k \in KeyIds : getKeyMaterial(t, k)
  BY <1>5, GetKeyMaterialStep
<1>6. CASE \E t \in Threads, k \in KeyIds : deleteKey(t, k)
  BY <1>6, DeleteKeyStep
<1>7. CASE Crash
  BY <1>7, CrashStep
<1>8. CASE UNCHANGED vars
  BY <1>8 DEF vars, CoherenceInv, TypeOK, StoreInv, CacheInv, ListDistinct,
              CacheCoherent, Readable, ThreadInv, Cached, InList
<1>. QED  BY <1>1, <1>2, <1>3, <1>4, <1>5, <1>6, <1>7, <1>8 DEF Next

\* The key service keeps its inductive invariant in every reachable state:
\* every stored record's UUID was drawn, the LRU list holds distinct
\* readable keys, and each thread's locals fit where it is in rotateKey or
\* deprecateKey.
THEOREM CoherenceInvariant == Spec => []CoherenceInv
BY InitCoherent, NextCoherent, PTL DEF Spec

\* Every reachable state is well typed, for every local_cache_size the
\* configuration accepts, 0 included: the LRU cache never holds more than
\* local_cache_size entries, or one entry when local_cache_size is 0
\* (LocalLRUCache::set evicts before it inserts, but stops at an empty list).
THEOREM TypeCorrect == Spec => []TypeOK
<1>1. CoherenceInv => TypeOK
  BY DEF CoherenceInv
<1>. QED  BY <1>1, CoherenceInvariant, PTL

\* The cache never serves key material whose record the store would not
\* give back: deleteKey and rotateKey invalidate before the record goes,
\* and getKeyMaterial only caches what it has just retrieved.
THEOREM CacheCoherentHolds == Spec => []CacheCoherent
<1>1. CoherenceInv => CacheCoherent
  BY DEF CoherenceInv, CacheInv
<1>. QED  BY <1>1, CoherenceInvariant, PTL
=============================================================================
