----------------------- MODULE KeyServiceRetireProofs -----------------------
(***************************************************************************)
(* Proof that rotateKey retires the key it rotates away from over          *)
(* InMemoryKeyStore: once a rotation has returned, its predecessor is no   *)
(* longer ACTIVE while the successor is stored.  Over LocalKeyStore the    *)
(* property fails (a crash between the two store calls, or a failed        *)
(* rollback), so every lemma here assumes the in-memory store.  The proof  *)
(* rests on CoherenceInv, proved in KeyServiceProofs.                      *)
(***************************************************************************)
EXTENDS KeyServiceProofs

\* The in-memory store: writes and reads never fail and the previous key
\* is kept in the metadata.
InMemory == StoreKind = "InMemory"

\* k has a record and it is ACTIVE.
ActiveIn(st, k) == st[k] # Absent /\ st[k].state = "ACTIVE"

\* A step adds no record and makes no record ACTIVE.
NoActivation ==
    \A j \in KeyIds : /\ store'[j] # Absent => store[j] # Absent
                      /\ ActiveIn(store', j) => ActiveIn(store, j)

IInv == CoherenceInv /\ RetireInv

-----------------------------------------------------------------------------
(* Facts about the in-memory store and about RotatingOld.                  *)

\* Over InMemoryKeyStore every write succeeds and no I/O error is raised.
LEMMA InMemoryFacts ==
    ASSUME InMemory
    PROVE  /\ WriteOutcomes = {"ok"}
           /\ ~IoMayFail
           /\ ~Crash
BY DEF InMemory, WriteOutcomes, IoMayFail, Crash

\* A successful in-memory write stores the record as given.
LEMMA InMemoryWrite ==
    ASSUME InMemory, NEW k \in KeyIds, NEW m
    PROVE  WriteRecord(k, m, "ok") = [store EXCEPT ![k] = [m EXCEPT !.corrupt = FALSE]]
BY DEF InMemory, WriteRecord, Persisted

\* With no thread inside rotateKey, no key is being rotated.
LEMMA RotatingOldFree ==
    ASSUME CoherenceInv, RetireInv, ksLock = None
    PROVE  RotatingOld = {}
<1>1. \A s \in Threads : pc[s] \in Pcs \ (RotStates \cup {"upd_relock"})
  BY NoRotationWhenFree DEF CoherenceInv, TypeOK, RetireInv, RotationInv
<1>. QED  BY <1>1 DEF RotatingOld, Pcs, RotStates

\* While t is inside rotateKey, the only key being rotated is t's.
LEMMA RotatingOldOwner ==
    ASSUME CoherenceInv, RetireInv, NEW t \in Threads, pc[t] \in RotStates
    PROVE  RotatingOld \subseteq {oldKey[t]}
<1>1. \A s \in Threads \ {t} : pc[s] \in Pcs \ (RotStates \cup {"upd_relock"})
  BY OnlyOwnerRotates DEF CoherenceInv, TypeOK, RetireInv, RotationInv
<1>. QED  BY <1>1 DEF RotatingOld, Pcs, RotStates

\* A step in which no rotating thread stops rotating or changes its key
\* rotates at least the keys it rotated before.
LEMMA RotatingOldGrows ==
    ASSUME NEW t \in Threads,
           \A s \in Threads \ {t} : pc'[s] = pc[s] /\ oldKey'[s] = oldKey[s],
           pc[t] \notin {"idle", "dep_update"}
             => pc'[t] \notin {"idle", "dep_update"} /\ oldKey'[t] = oldKey[t]
    PROVE  RotatingOld \subseteq RotatingOld'
BY DEF RotatingOld

-----------------------------------------------------------------------------
(* Frame lemmas.                                                           *)

\* A step that keeps the rotation links, rotates at least the keys rotated
\* before, and adds or activates no record keeps PredecessorRetired.
LEMMA RetiredFrame ==
    ASSUME PredecessorRetired, rotatedFrom' = rotatedFrom,
           rotatedFrom \in [KeyIds -> KeyIds \cup {None}],
           RotatingOld \subseteq RotatingOld', NoActivation
    PROVE  PredecessorRetired'
BY DEF PredecessorRetired, NoActivation, ActiveIn

\* A thread whose control and locals a step leaves alone keeps what it
\* satisfies in rotateKey when the step keeps the links, draws no UUID back
\* and adds or activates no record.
LEMMA RotationFrame ==
    ASSUME NEW s \in Threads, RotationInv(s), rotatedFrom' = rotatedFrom,
           pc[s] \in RotStates => oldKey[s] \in KeyIds, used \subseteq used', NoActivation,
           pc'[s] = pc[s], oldKey'[s] = oldKey[s], newKey'[s] = newKey[s]
    PROVE  RotationInv(s)'
<1>1. \A o : Successors(o)' \subseteq Successors(o)
  BY DEF Successors, NoActivation
<1>2. pc[s] = "rot_finish" => ~ActiveIn(store', oldKey[s])
  BY DEF RotationInv, NoActivation, ActiveIn, RotStates
<1>. QED  BY <1>1, <1>2 DEF RotationInv, ActiveIn

\* A thread outside rotateKey and not re-locking the store satisfies
\* RotationInv whatever else holds.
LEMMA RotationIdle ==
    ASSUME NEW s \in Threads, pc'[s] \notin RotStates \cup {"upd_relock"}
    PROVE  RotationInv(s)'
BY DEF RotationInv, RotStates

\* The links only grow with the UUIDs drawn when a step keeps them.
LEMMA LinksFrame ==
    ASSUME LinksDrawn, rotatedFrom' = rotatedFrom, used \subseteq used'
    PROVE  LinksDrawn'
BY DEF LinksDrawn

\* In the initial state nothing has been rotated and every thread is idle.
LEMMA InitRetire == Init => RetireInv
<1>. SUFFICES ASSUME Init PROVE RetireInv
  OBVIOUS
<1>1. LinksDrawn
  BY DEF Init, LinksDrawn
<1>2. \A t \in Threads : RotationInv(t)
  BY DEF Init, RotationInv, RotStates
<1>3. PredecessorRetired
  BY DEF Init, PredecessorRetired
<1>. QED  BY <1>1, <1>2, <1>3 DEF RetireInv


\* The key of a thread inside rotateKey is a KeyId.
LEMMA RotKeyTyped ==
    ASSUME CoherenceInv, NEW s \in Threads
    PROVE  pc[s] \in RotStates => oldKey[s] \in KeyIds
BY DEF CoherenceInv, ThreadInv

\* A step of one thread t that keeps the links, draws no UUID back, adds
\* or activates no record, and leaves every other thread alone keeps the
\* invariant once t's own part holds, provided t does not stop rotating.
LEMMA OneThreadStep ==
    ASSUME IInv, NEW t \in Threads, NoActivation,
           rotatedFrom' = rotatedFrom, used \subseteq used',
           \A s \in Threads \ {t} : /\ pc'[s] = pc[s] /\ oldKey'[s] = oldKey[s]
                                   /\ newKey'[s] = newKey[s],
           pc[t] \notin {"idle", "dep_update"}
             => pc'[t] \notin {"idle", "dep_update"} /\ oldKey'[t] = oldKey[t],
           RotationInv(t)'
    PROVE  RetireInv'
<1>1. LinksDrawn'
  BY LinksFrame DEF IInv, RetireInv
<1>2. \A s \in Threads \ {t} : RotationInv(s)'
  BY RotationFrame, RotKeyTyped DEF IInv, RetireInv
<1>3. RotatingOld \subseteq RotatingOld'
  BY RotatingOldGrows
<1>4. PredecessorRetired'
  BY <1>3, RetiredFrame DEF IInv, RetireInv, CoherenceInv, TypeOK
<1>. QED  BY <1>1, <1>2, <1>4 DEF RetireInv

-----------------------------------------------------------------------------
(* One lemma per action.                                                   *)

\* getKeyMaterial only moves entries of the cache.
LEMMA GetKeyMaterialRetire ==
    ASSUME IInv, NEW t \in Threads, NEW k \in KeyIds, getKeyMaterial(t, k)
    PROVE  RetireInv'
<1>1. UNCHANGED <<store, used, rotatedFrom, pc, oldKey, newKey>>
  BY DEF getKeyMaterial
<1>2. NoActivation
  BY <1>1 DEF NoActivation, ActiveIn
<1>3. RotationInv(t)'
  BY <1>1, <1>2, RotationFrame, RotKeyTyped DEF IInv, RetireInv
<1>. QED  BY <1>1, <1>2, <1>3, OneThreadStep

\* deleteKey removes a record, which activates nothing.
LEMMA DeleteKeyRetire ==
    ASSUME IInv, NEW t \in Threads, NEW k \in KeyIds, deleteKey(t, k)
    PROVE  RetireInv'
<1>1. UNCHANGED <<used, rotatedFrom, pc, oldKey, newKey>>
  BY DEF deleteKey
<1>2. store' = [store EXCEPT ![k] = Absent] \/ store' = store
  BY DEF deleteKey
<1>3. store \in [KeyIds -> Records \cup {Absent}]
  BY DEF IInv, CoherenceInv, TypeOK
<1>4. NoActivation
  BY <1>2, <1>3 DEF NoActivation, ActiveIn
<1>5. RotationInv(t)'
  BY <1>1, <1>4, RotationFrame, RotKeyTyped DEF IInv, RetireInv
<1>. QED  BY <1>1, <1>4, <1>5, OneThreadStep

\* deprecateKey's retrieve moves an idle thread to dep_update or keeps it
\* idle; neither counts as rotating.
LEMMA DeprecateKeyRetire ==
    ASSUME IInv, NEW t \in Threads, NEW k \in KeyIds, deprecateKey(t, k)
    PROVE  RetireInv'
<1>1. /\ UNCHANGED <<store, used, rotatedFrom>>
      /\ pc[t] = "idle" /\ pc'[t] \in {"dep_update", "idle"}
      /\ \A s \in Threads \ {t} : /\ pc'[s] = pc[s] /\ oldKey'[s] = oldKey[s]
                                  /\ newKey'[s] = newKey[s]
  BY DEF deprecateKey, deprecateRetrieve, Goto, IInv, CoherenceInv, TypeOK
<1>2. NoActivation
  BY <1>1 DEF NoActivation, ActiveIn
<1>3. RotationInv(t)'
  BY <1>1, RotationIdle DEF RotStates
<1>. QED  BY <1>1, <1>2, <1>3, OneThreadStep


\* rotateKey takes the service mutex on an ACTIVE key.  No key is being
\* rotated while the mutex is free, so by PredecessorRetired the key has no
\* stored successor yet.
LEMMA RotateRetrieveRetire ==
    ASSUME InMemory, IInv, NEW t \in Threads, NEW k \in KeyIds, rotateRetrieve(t, k)
    PROVE  RetireInv'
<1>1. /\ UNCHANGED <<store, used, rotatedFrom, newKey>>
      /\ pc' = [pc EXCEPT ![t] = "rot_store"]
      /\ oldKey' = [oldKey EXCEPT ![t] = k]
      /\ ksLock = None /\ Readable(k) /\ store[k].state = "ACTIVE" /\ pc[t] = "idle"
  BY InMemoryFacts DEF rotateRetrieve
<1>2. pc \in [Threads -> Pcs] /\ oldKey \in [Threads -> KeyIds \cup {None}]
  BY DEF IInv, CoherenceInv, TypeOK
<1>3. RotatingOld = {}
  BY <1>1, RotatingOldFree DEF IInv
<1>4. Successors(k) = {}
  <2>. SUFFICES ASSUME NEW n \in KeyIds, store[n] # Absent, rotatedFrom[n] = k
                PROVE  FALSE
    BY DEF Successors
  <2>1. k # None
    BY NoneAssumption
  <2>. QED  BY <1>1, <1>3, <2>1 DEF IInv, RetireInv, PredecessorRetired, Readable
<1>5. k.uuid \in used
  BY <1>1 DEF IInv, CoherenceInv, StoreInv, Readable
<1>6. RotationInv(t)'
  BY <1>1, <1>2, <1>4, <1>5 DEF RotationInv, Successors, RotStates
<1>7. NoActivation
  BY <1>1 DEF NoActivation, ActiveIn
<1>8. \A s \in Threads \ {t} : /\ pc'[s] = pc[s] /\ oldKey'[s] = oldKey[s]
                              /\ newKey'[s] = newKey[s]
  BY <1>1, <1>2
<1>. QED  BY <1>1, <1>6, <1>7, <1>8, OneThreadStep

\* rotateKey's retrieve of the old key moves on to the update or to the
\* rollback; the key and the new key stay.
LEMMA RotateDeprecateRetire ==
    ASSUME IInv, NEW t \in Threads, rotateDeprecate(t)
    PROVE  RetireInv'
<1>1. /\ UNCHANGED <<store, used, rotatedFrom>>
      /\ pc[t] = "rot_deprecate"
      /\ pc' = [pc EXCEPT ![t] = pc'[t]] /\ pc'[t] \in {"rot_update", "rot_rollback"}
      /\ UNCHANGED <<oldKey, newKey>>
  <2>1. oldKey \in [Threads -> KeyIds \cup {None}] /\ pc \in [Threads -> Pcs]
    BY DEF IInv, CoherenceInv, TypeOK
  <2>. QED  BY <2>1 DEF rotateDeprecate, deprecateRetrieve, Goto
<1>2. RotationInv(t)'
  BY <1>1 DEF IInv, RetireInv, RotationInv, Successors, RotStates
<1>3. NoActivation
  BY <1>1 DEF NoActivation, ActiveIn
<1>4. pc \in [Threads -> Pcs]
  BY DEF IInv, CoherenceInv, TypeOK
<1>. QED  BY <1>1, <1>2, <1>3, <1>4, OneThreadStep


\* The in-memory updateMetadata writes the metadata back as DEPRECATED, or
\* finds the record gone.  rotateKey moves on to its finish or its
\* rollback, deprecateKey returns.
LEMMA UpdateMetadataRetire ==
    ASSUME InMemory, IInv, NEW t \in Threads, updateMetadata(t)
    PROVE  RetireInv'
<1>. DEFINE k == oldKey[t]
<1>1. /\ pc[t] \in {"rot_update", "dep_update"}
      /\ updateMetadataInMemory(t)
      /\ UNCHANGED <<used, rotatedFrom>>
  BY DEF updateMetadata, InMemory
<1>2. /\ pc \in [Threads -> Pcs] /\ oldKey \in [Threads -> KeyIds \cup {None}]
      /\ newKey \in [Threads -> KeyIds \cup {None}]
      /\ store \in [KeyIds -> Records \cup {Absent}]
      /\ k \in KeyIds /\ meta[t] \in Records
  BY <1>1 DEF IInv, CoherenceInv, TypeOK, ThreadInv, RotStates
<1>3. \A s \in Threads \ {t} : /\ pc'[s] = pc[s] /\ oldKey'[s] = oldKey[s]
                              /\ newKey'[s] = newKey[s]
  BY <1>1, <1>2 DEF updateMetadataInMemory, Goto
<1>4. pc[t] = "rot_update" => oldKey'[t] = k /\ newKey'[t] = newKey[t]
  BY <1>1 DEF updateMetadataInMemory, Goto
<1>5. CASE store[k] # Absent
  <2>. DEFINE r == [meta[t] EXCEPT !.state = "DEPRECATED"]
  <2>1. store' = [store EXCEPT ![k] = r]
        /\ pc' = [pc EXCEPT ![t] = IF pc[t] = "rot_update" THEN "rot_finish" ELSE "idle"]
    BY <1>1, <1>5 DEF updateMetadataInMemory, Goto, Absent
  <2>2. r # Absent /\ r.state = "DEPRECATED"
    <3>1. r \in Records
      BY <1>2 DEF Records, KeyStates
    <3>2. r.state = "DEPRECATED"
      BY <1>2 DEF Records
    <3>. QED  BY <3>1, <3>2, NoneAssumption DEF Absent
  <2>3. NoActivation
    BY <1>2, <1>5, <2>1, <2>2 DEF NoActivation, ActiveIn
  <2>4. RotationInv(t)'
    <3>1. CASE pc[t] = "rot_update"
      <4>1. oldKey'[t] = k /\ pc'[t] = "rot_finish" /\ k.uuid \in used'
        BY <1>1, <1>2, <1>4, <2>1, <3>1 DEF IInv, RetireInv, RotationInv, RotStates
      <4>2. store'[k] = r
        BY <1>2, <2>1
      <4>. QED  BY <2>2, <4>1, <4>2 DEF RotationInv, RotStates
    <3>2. CASE pc[t] = "dep_update"
      BY <1>2, <2>1, <3>2, RotationIdle DEF RotStates
    <3>. QED  BY <1>1, <3>1, <3>2
  <2>. QED  BY <1>1, <1>2, <1>3, <1>4, <2>1, <2>3, <2>4, OneThreadStep
<1>6. CASE store[k] = Absent
  <2>1. store' = store
        /\ pc' = [pc EXCEPT ![t] = IF pc[t] = "rot_update" THEN "rot_rollback" ELSE "idle"]
    BY <1>1, <1>6 DEF updateMetadataInMemory, Goto, Absent
  <2>2. NoActivation
    BY <2>1 DEF NoActivation, ActiveIn
  <2>3. RotationInv(t)'
    <3>1. CASE pc[t] = "rot_update"
      BY <1>1, <1>2, <1>4, <2>1, <3>1 DEF IInv, RetireInv, RotationInv, Successors, RotStates
    <3>2. CASE pc[t] = "dep_update"
      BY <1>2, <2>1, <3>2, RotationIdle DEF RotStates
    <3>. QED  BY <1>1, <3>1, <3>2
  <2>. QED  BY <1>1, <1>2, <1>3, <1>4, <2>1, <2>2, <2>3, OneThreadStep
<1>. QED  BY <1>5, <1>6


\* No thread rotates while the service mutex is free, and none re-locks
\* the in-memory store.
LEMMA NoneRotating ==
    ASSUME IInv, ksLock = None
    PROVE  \A s \in Threads : pc[s] \notin RotStates \cup {"upd_relock"}
BY NoRotationWhenFree DEF IInv, RetireInv, RotationInv

\* generateKey stores an ACTIVE key under a fresh UUID.  The links name
\* drawn UUIDs only, so the new key is nobody's predecessor or successor.
LEMMA GenerateKeyRetire ==
    ASSUME InMemory, IInv, NEW t \in Threads, generateKey(t)
    PROVE  RetireInv'
<1>. DEFINE K(x) == [uuid |-> x, version |-> 1 % VersionModulus]
            Rec == [state |-> "ACTIVE", previous |-> None, corrupt |-> FALSE]
<1>1. PICK u \in Uuids \ used, o \in WriteOutcomes :
        /\ used' = used \cup {u}
        /\ store' = WriteRecord(K(u), Rec, o)
  BY DEF generateKey
<1>2. K(u) \in KeyIds
  BY ConstantsAssumption DEF KeyIds
<1>3. store' = [store EXCEPT ![K(u)] = [Rec EXCEPT !.corrupt = FALSE]]
  BY <1>1, <1>2, InMemoryFacts, InMemoryWrite
<1>4. /\ UNCHANGED <<rotatedFrom, pc, oldKey, newKey>> /\ ksLock = None
      /\ store \in [KeyIds -> Records \cup {Absent}]
  BY DEF generateKey, IInv, CoherenceInv, TypeOK
<1>5. LinksDrawn'
  BY <1>1, <1>4, LinksFrame DEF IInv, RetireInv
<1>6. \A s \in Threads : RotationInv(s)'
  BY <1>4, NoneRotating, RotationIdle
<1>7. PredecessorRetired'
  <2>. SUFFICES ASSUME NEW n \in KeyIds, store'[n] # Absent, rotatedFrom'[n] # None,
                       rotatedFrom'[n] \notin RotatingOld',
                       store'[rotatedFrom'[n]] # Absent
                PROVE  store'[rotatedFrom'[n]].state # "ACTIVE"
    BY DEF PredecessorRetired
  <2>. DEFINE p == rotatedFrom[n]
  <2>1. n.uuid \in used /\ p \in KeyIds /\ p.uuid \in used
    BY <1>4 DEF IInv, RetireInv, LinksDrawn
  <2>2. n # K(u) /\ p # K(u)
    BY <2>1
  <2>3. store'[n] = store[n] /\ store'[p] = store[p]
    BY <1>3, <1>4, <2>1, <2>2
  <2>4. RotatingOld' = RotatingOld
    BY <1>4 DEF RotatingOld
  <2>. QED  BY <1>4, <2>1, <2>3, <2>4 DEF IInv, RetireInv, PredecessorRetired
<1>. QED  BY <1>5, <1>6, <1>7 DEF RetireInv


\* rotateKey stores the new version under a fresh UUID and links it to the
\* old key, which had no stored successor; the old key is being rotated,
\* and every other link is unchanged.
LEMMA RotateStoreRetire ==
    ASSUME InMemory, IInv, NEW t \in Threads, rotateStore(t)
    PROVE  RetireInv'
<1>. DEFINE k == oldKey[t]
            N(x) == [uuid |-> x, version |-> (k.version + 1) % VersionModulus]
            R == [state |-> "ACTIVE", previous |-> k, corrupt |-> FALSE]
<1>1. PICK u \in Uuids \ used, o \in WriteOutcomes :
        /\ used' = used \cup {u}
        /\ store' = WriteRecord(N(u), R, o)
        /\ IF o = "ok"
           THEN /\ pc' = [pc EXCEPT ![t] = "rot_deprecate"]
                /\ newKey' = [newKey EXCEPT ![t] = N(u)]
                /\ rotatedFrom' = [rotatedFrom EXCEPT ![N(u)] = k]
                /\ UNCHANGED <<ksLock, oldKey, meta>>
           ELSE /\ ksLock' = None
                /\ Goto(t, "idle")
                /\ UNCHANGED rotatedFrom
  BY DEF rotateStore
<1>2. /\ pc' = [pc EXCEPT ![t] = "rot_deprecate"]
      /\ newKey' = [newKey EXCEPT ![t] = N(u)]
      /\ rotatedFrom' = [rotatedFrom EXCEPT ![N(u)] = k]
      /\ UNCHANGED oldKey
  BY <1>1, InMemoryFacts
<1>3. /\ pc[t] = "rot_store" /\ k \in KeyIds /\ k.uuid \in used
      /\ Successors(k) = {}
      /\ \A s \in Threads \ {t} : pc[s] \notin RotStates \cup {"upd_relock"}
  <2>1. pc[t] = "rot_store"
    BY DEF rotateStore
  <2>. QED  BY <2>1, OnlyOwnerRotates, RotKeyTyped
            DEF IInv, RetireInv, RotationInv, RotStates
<1>4. /\ pc \in [Threads -> Pcs] /\ newKey \in [Threads -> KeyIds \cup {None}]
      /\ store \in [KeyIds -> Records \cup {Absent}]
      /\ rotatedFrom \in [KeyIds -> KeyIds \cup {None}]
  BY DEF IInv, CoherenceInv, TypeOK
<1>5. N(u) \in KeyIds /\ N(u).uuid = u
  BY <1>3, ConstantsAssumption DEF KeyIds
<1>6. store' = [store EXCEPT ![N(u)] = [R EXCEPT !.corrupt = FALSE]]
      /\ [R EXCEPT !.corrupt = FALSE] # Absent
  <2>1. o = "ok"
    BY InMemoryFacts
  <2>2. [R EXCEPT !.corrupt = FALSE] \in Records
    BY <1>3 DEF Records, KeyStates
  <2>. QED  BY <1>1, <1>5, <2>1, <2>2, InMemoryWrite, NoneAssumption DEF Absent
<1>7. \A j \in KeyIds : j.uuid \in used => j # N(u)
  BY <1>5
<1>8. LinksDrawn'
  <2>. SUFFICES ASSUME NEW n \in KeyIds, rotatedFrom'[n] # None
                PROVE  n.uuid \in used' /\ rotatedFrom'[n] \in KeyIds
                       /\ rotatedFrom'[n].uuid \in used'
    BY DEF LinksDrawn
  <2>1. CASE n = N(u)
    BY <1>1, <1>2, <1>3, <1>4, <1>5, <2>1
  <2>2. CASE n # N(u)
    BY <1>1, <1>2, <1>4, <2>2 DEF IInv, RetireInv, LinksDrawn
  <2>. QED  BY <2>1, <2>2
<1>9. RotationInv(t)'
  <2>1. Successors(k)' \subseteq {N(u)}
    <3>. SUFFICES ASSUME NEW n \in KeyIds, store'[n] # Absent, rotatedFrom'[n] = k,
                         n # N(u)
                  PROVE  FALSE
      BY <1>2 DEF Successors
    <3>1. store[n] # Absent /\ rotatedFrom[n] = k
      BY <1>2, <1>4, <1>6
    <3>. QED  BY <1>3, <3>1 DEF Successors
  <2>2. pc'[t] = "rot_deprecate" /\ oldKey'[t] = k /\ newKey'[t] = N(u)
    BY <1>2, <1>4
  <2>. QED  BY <1>1, <1>3, <2>1, <2>2 DEF RotationInv, RotStates
<1>10. \A s \in Threads \ {t} : RotationInv(s)'
  <2>1. \A s \in Threads \ {t} : pc'[s] = pc[s]
    BY <1>2, <1>4
  <2>. QED  BY <1>3, <2>1, RotationIdle
<1>11. PredecessorRetired'
  <2>. SUFFICES ASSUME NEW n \in KeyIds, store'[n] # Absent, rotatedFrom'[n] # None,
                       rotatedFrom'[n] \notin RotatingOld',
                       store'[rotatedFrom'[n]] # Absent
                PROVE  store'[rotatedFrom'[n]].state # "ACTIVE"
    BY DEF PredecessorRetired
  <2>1. k \in RotatingOld'
    <3>1. pc'[t] = "rot_deprecate" /\ oldKey'[t] = k
      BY <1>2, <1>4
    <3>. QED  BY <3>1 DEF RotatingOld
  <2>2. RotatingOld \subseteq RotatingOld'
    <3>1. \A s \in Threads \ {t} : pc'[s] = pc[s] /\ oldKey'[s] = oldKey[s]
      BY <1>2, <1>4
    <3>2. pc'[t] = "rot_deprecate" /\ oldKey'[t] = oldKey[t]
      BY <1>2, <1>4
    <3>. QED  BY <3>1, <3>2, RotatingOldGrows
  <2>3. n # N(u)
    BY <1>2, <1>4, <1>5, <2>1
  <2>. DEFINE p == rotatedFrom[n]
  <2>4. rotatedFrom'[n] = p /\ store'[n] = store[n]
    BY <1>2, <1>4, <1>6, <2>3
  <2>5. p \in KeyIds /\ p.uuid \in used
    BY <2>4 DEF IInv, RetireInv, LinksDrawn
  <2>6. store'[p] = store[p]
    BY <1>6, <1>7, <2>5
  <2>. QED  BY <2>2, <2>4, <2>6 DEF IInv, RetireInv, PredecessorRetired
<1>. QED  BY <1>8, <1>9, <1>10, <1>11 DEF RetireInv


\* rotateKey's rollback removes the new version, the old key's only
\* stored successor, so the old key may stay ACTIVE once rotateKey returns.
LEMMA RotateRollbackRetire ==
    ASSUME InMemory, IInv, NEW t \in Threads, rotateRollback(t)
    PROVE  RetireInv'
<1>. DEFINE k == oldKey[t]
            nk == newKey[t]
<1>1. /\ pc[t] = "rot_rollback"
      /\ store' = [store EXCEPT ![nk] = Absent]
      /\ pc' = [pc EXCEPT ![t] = "idle"]
      /\ UNCHANGED <<used, rotatedFrom>>
  BY InMemoryFacts DEF rotateRollback, Goto
<1>2. /\ k \in KeyIds /\ nk \in KeyIds /\ Successors(k) \subseteq {nk}
      /\ RotatingOld \subseteq {k}
      /\ \A s \in Threads \ {t} : pc[s] \notin RotStates \cup {"upd_relock"}
  BY <1>1, OnlyOwnerRotates, RotatingOldOwner
     DEF IInv, RetireInv, RotationInv, CoherenceInv, ThreadInv, RotStates
<1>3. /\ pc \in [Threads -> Pcs] /\ store \in [KeyIds -> Records \cup {Absent}]
      /\ rotatedFrom \in [KeyIds -> KeyIds \cup {None}]
  BY DEF IInv, CoherenceInv, TypeOK
<1>4. LinksDrawn'
  BY <1>1, LinksFrame DEF IInv, RetireInv
<1>5. \A s \in Threads : RotationInv(s)'
  <2>1. \A s \in Threads : pc'[s] \notin RotStates \cup {"upd_relock"}
    BY <1>1, <1>2, <1>3 DEF RotStates
  <2>. QED  BY <2>1, RotationIdle
<1>6. PredecessorRetired'
  <2>. SUFFICES ASSUME NEW n \in KeyIds, store'[n] # Absent, rotatedFrom'[n] # None,
                       rotatedFrom'[n] \notin RotatingOld',
                       store'[rotatedFrom'[n]] # Absent
                PROVE  store'[rotatedFrom'[n]].state # "ACTIVE"
    BY DEF PredecessorRetired
  <2>. DEFINE p == rotatedFrom[n]
  <2>1. n # nk /\ store[n] # Absent /\ p \in KeyIds /\ p # None
    BY <1>1, <1>2, <1>3
  <2>2. p # k
    BY <1>2, <2>1 DEF Successors
  <2>3. p # nk /\ store'[p] = store[p]
    BY <1>1, <1>2, <1>3, <2>1
  <2>. QED  BY <1>1, <1>2, <2>1, <2>2, <2>3 DEF IInv, RetireInv, PredecessorRetired
<1>. QED  BY <1>4, <1>5, <1>6 DEF RetireInv

\* rotateKey returns after the deprecation succeeded: the old key leaves
\* the keys being rotated, and it is no longer ACTIVE.
LEMMA RotateFinishRetire ==
    ASSUME IInv, NEW t \in Threads, rotateFinish(t)
    PROVE  RetireInv'
<1>. DEFINE k == oldKey[t]
<1>1. /\ pc[t] = "rot_finish"
      /\ pc' = [pc EXCEPT ![t] = "idle"]
      /\ UNCHANGED <<store, used, rotatedFrom>>
  BY DEF rotateFinish, Goto
<1>2. /\ k \in KeyIds /\ (store[k] = Absent \/ store[k].state # "ACTIVE")
      /\ RotatingOld \subseteq {k}
      /\ \A s \in Threads \ {t} : pc[s] \notin RotStates \cup {"upd_relock"}
  BY <1>1, OnlyOwnerRotates, RotatingOldOwner
     DEF IInv, RetireInv, RotationInv, CoherenceInv, ThreadInv, RotStates
<1>3. pc \in [Threads -> Pcs]
  BY DEF IInv, CoherenceInv, TypeOK
<1>4. LinksDrawn'
  BY <1>1, LinksFrame DEF IInv, RetireInv
<1>5. \A s \in Threads : RotationInv(s)'
  <2>1. \A s \in Threads : pc'[s] \notin RotStates \cup {"upd_relock"}
    BY <1>1, <1>2, <1>3 DEF RotStates
  <2>. QED  BY <2>1, RotationIdle
<1>6. PredecessorRetired'
  <2>. SUFFICES ASSUME NEW n \in KeyIds, store'[n] # Absent, rotatedFrom'[n] # None,
                       rotatedFrom'[n] \notin RotatingOld',
                       store'[rotatedFrom'[n]] # Absent
                PROVE  store'[rotatedFrom'[n]].state # "ACTIVE"
    BY DEF PredecessorRetired
  <2>1. CASE rotatedFrom[n] = k
    BY <1>1, <1>2, <2>1
  <2>2. CASE rotatedFrom[n] # k
    BY <1>1, <1>2, <2>2 DEF IInv, RetireInv, PredecessorRetired
  <2>. QED  BY <2>1, <2>2
<1>. QED  BY <1>4, <1>5, <1>6 DEF RetireInv


-----------------------------------------------------------------------------
(* The invariant and the theorem.                                          *)

\* Every step of the key service over the in-memory store keeps RetireInv.
LEMMA NextRetire ==
    ASSUME InMemory, IInv, [Next]_vars
    PROVE  RetireInv'
<1>1. CASE \E t \in Threads : generateKey(t)
  BY <1>1, GenerateKeyRetire
<1>2. CASE \E t \in Threads : Continue(t)
  <2>. PICK t \in Threads : Continue(t)
    BY <1>2
  <2>. QED  BY RotateStoreRetire, RotateDeprecateRetire, UpdateMetadataRetire,
               RotateRollbackRetire, RotateFinishRetire DEF Continue
<1>3. CASE \E t \in Threads, k \in KeyIds : rotateRetrieve(t, k)
  BY <1>3, RotateRetrieveRetire
<1>4. CASE \E t \in Threads, k \in KeyIds : deprecateKey(t, k)
  BY <1>4, DeprecateKeyRetire
<1>5. CASE \E t \in Threads, k \in KeyIds : getKeyMaterial(t, k)
  BY <1>5, GetKeyMaterialRetire
<1>6. CASE \E t \in Threads, k \in KeyIds : deleteKey(t, k)
  BY <1>6, DeleteKeyRetire
<1>7. CASE Crash
  BY <1>7, InMemoryFacts
<1>8. CASE UNCHANGED vars
  <2>1. UNCHANGED <<store, used, rotatedFrom, pc, oldKey, newKey>>
    BY <1>8 DEF vars
  <2>2. NoActivation /\ RotatingOld' = RotatingOld
    BY <2>1 DEF NoActivation, ActiveIn, RotatingOld
  <2>3. \A s \in Threads : RotationInv(s)'
    BY <2>1, <2>2, RotationFrame, RotKeyTyped DEF IInv, RetireInv
  <2>. QED  BY <2>1, <2>2, <2>3, LinksFrame, RetiredFrame
            DEF IInv, RetireInv, CoherenceInv, TypeOK
<1>. QED  BY <1>1, <1>2, <1>3, <1>4, <1>5, <1>6, <1>7, <1>8 DEF Next

\* Over InMemoryKeyStore every reachable state satisfies RetireInv: links
\* name drawn UUIDs, the key rotateKey works on has no stored successor but
\* the version it stores, and it is no longer ACTIVE when rotateKey returns.
THEOREM RetireInvHolds == InMemory => (Spec => []RetireInv)
<1>. SUFFICES ASSUME InMemory PROVE Spec => []RetireInv
  OBVIOUS
<1>1. Init => IInv
  BY InitCoherent, InitRetire DEF IInv
<1>2. IInv /\ [Next]_vars => IInv'
  BY NextRetire, NextCoherent DEF IInv
<1>3. IInv => RetireInv
  BY DEF IInv
<1>. QED  BY <1>1, <1>2, <1>3, PTL DEF Spec

\* Over InMemoryKeyStore, once rotateKey has returned, the key it rotated
\* away from is no longer ACTIVE while the new version is stored: rotateKey
\* deprecates the old key under the service mutex, or rolls the new key
\* back, and no other operation makes a stored key ACTIVE again.
THEOREM PredecessorRetiredInMemory == InMemory => (Spec => []PredecessorRetired)
<1>. SUFFICES ASSUME InMemory PROVE Spec => []PredecessorRetired
  OBVIOUS
<1>1. Init => IInv
  BY InitCoherent, InitRetire DEF IInv
<1>2. IInv /\ [Next]_vars => IInv'
  BY NextRetire, NextCoherent DEF IInv
<1>3. IInv => PredecessorRetired
  BY DEF IInv, RetireInv
<1>. QED  BY <1>1, <1>2, <1>3, PTL DEF Spec

=============================================================================
