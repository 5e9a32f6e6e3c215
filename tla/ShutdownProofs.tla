---------------------------- MODULE ShutdownProofs ----------------------------
(***************************************************************************)
(* Proofs about the shutdown model: for every set of workers and of        *)
(* components, shutdown() stops each component at most once and in the     *)
(* reverse of the order addComponent added them (StoppedOnceInReverse),    *)
(* and every reachable state is well typed.  Both rest on StopInv.         *)
(***************************************************************************)
EXTENDS Shutdown, FiniteSetTheorems, TLAPS

\* The workers inside an InFlightGuard, for a given map of places.
Busy(p) == {w \in Workers : p[w] = "busy"}

IInv == TypeOK /\ StopInv

\* The threads are distinct, and the workers are none of the others.
LEMMA ThreadsDistinct ==
    /\ Main \in Threads /\ Requester \in Threads /\ Owner \in Threads
    /\ Workers \subseteq Threads /\ Drainers \subseteq Threads
    /\ Main \notin Drainers /\ Main \notin Workers
    /\ \A w \in Workers : w \notin Drainers
    /\ Requester # Owner
BY ConstantsAssumption DEF Threads, Drainers

-----------------------------------------------------------------------------
(* The in-flight counter.                                                  *)

\* inFlight counts the busy workers, so it is at most the number of workers.
LEMMA BusyBound ==
    ASSUME NEW p \in [Threads -> Pcs]
    PROVE  /\ IsFiniteSet(Busy(p))
           /\ Cardinality(Busy(p)) \in 0 .. Cardinality(Workers)
<1>1. Busy(p) \subseteq Workers /\ IsFiniteSet(Workers)
  BY ConstantsAssumption DEF Busy
<1>2. IsFiniteSet(Busy(p)) /\ Cardinality(Busy(p)) <= Cardinality(Workers)
  BY <1>1, FS_Subset
<1>3. Cardinality(Busy(p)) \in Nat
  BY <1>2, FS_CardinalityType
<1>. QED  BY <1>2, <1>3

-----------------------------------------------------------------------------
LEMMA InitInv == Init => IInv
<1> SUFFICES ASSUME Init PROVE IInv
  OBVIOUS
<1>1. pc \in [Threads -> Pcs] /\ pc[Requester] = "idle" /\ pc[Owner] = "construct"
      /\ \A w \in Workers : pc[w] = "idle"
  BY ThreadsDistinct, ConstantsAssumption DEF Init, Pcs
<1>2. Busy(pc) = {}
  BY <1>1 DEF Busy
<1>3. Cardinality(Busy(pc)) = 0
  BY <1>2, FS_EmptySet
<1>4. TypeOK
  <2>1. IsFiniteSet(Workers)
    BY ConstantsAssumption
  <2>2. 0 \in 0 .. Cardinality(Workers)
    BY <2>1, FS_CardinalityType
  <2>3. /\ requested \in BOOLEAN /\ accepting \in BOOLEAN
        /\ shuttingDown \in BOOLEAN /\ alive \in BOOLEAN /\ stale \in BOOLEAN
        /\ callbacks \in Seq({"shutdown"}) /\ cbCopy \in Seq({"shutdown"})
        /\ cbIdx \in Nat \ {0}
    <3>1. << >> \in Seq({"shutdown"})
      OBVIOUS
    <3>2. /\ requested = FALSE /\ accepting = TRUE /\ shuttingDown = FALSE
          /\ alive = TRUE /\ stale = FALSE /\ callbacks = << >>
          /\ cbCopy = << >> /\ cbIdx = 1
      BY DEF Init
    <3>3. requested \in BOOLEAN /\ accepting \in BOOLEAN /\ shuttingDown \in BOOLEAN
      BY <3>2
    <3>4. alive \in BOOLEAN /\ stale \in BOOLEAN
      BY <3>2
    <3>5. callbacks \in Seq({"shutdown"}) /\ cbCopy \in Seq({"shutdown"})
      BY <3>1, <3>2
    <3>6. cbIdx \in Nat \ {0}
      BY <3>2
    <3>. QED  BY <3>3, <3>4, <3>5, <3>6
  <2>4. /\ hMutex \in Threads \cup {None} /\ drainMutex \in Threads \cup {None}
        /\ cvWait \subseteq {Main} /\ drainWait \subseteq Drainers
        /\ inFlight \in 0 .. Cardinality(Workers)
    BY <2>2 DEF Init
  <2>5. /\ components \in Seq(Comps) /\ stopped \in Seq(Comps)
        /\ compsCopy \in [Drainers -> Seq(Comps)]
        /\ stopIdx \in [Drainers -> Nat]
        /\ timedOut \in [Drainers -> BOOLEAN]
        /\ count \in [Workers -> Nat]
    BY DEF Init
  <2>. QED  BY <1>1, <2>3, <2>4, <2>5 DEF TypeOK
<1>5. StopInv
  <2>1. \A t \in Drainers : pc[t] \notin ShutdownPcs
    BY <1>1 DEF Drainers, ShutdownPcs
  <2>2. ReversedPrefix(stopped, components, 0)
    BY DEF Init, ReversedPrefix
  <2>3. inFlight = Cardinality({w \in Workers : pc[w] = "busy"})
    BY <1>3 DEF Init, Busy
  <2>4. \A t \in Drainers : stopIdx[t] <= Len(compsCopy[t])
    BY DEF Init
  <2>5. \E n \in 0 .. Len(components) : ReversedPrefix(stopped, components, n)
    BY <2>2 DEF Init
  <2>6. stopped = << >>
    BY DEF Init
  <2>7. /\ \A t, u \in Drainers : pc[t] \in ShutdownPcs /\ pc[u] \in ShutdownPcs => t = u
        /\ \A t \in Drainers : pc[t] \in ShutdownPcs \ {"sd_stop"} => stopped = << >>
        /\ \A t \in Drainers : pc[t] = "sd_stop" => StopsSoFar(t)
    <3>1. "sd_stop" \in ShutdownPcs
      BY DEF ShutdownPcs
    <3>. QED  BY <2>1, <3>1
  <2>. QED  BY <2>1, <2>3, <2>4, <2>5, <2>6, <2>7 DEF StopInv
<1>. QED  BY <1>4, <1>5 DEF IInv

-----------------------------------------------------------------------------
(* Steps that leave the shutdown bookkeeping alone.                        *)

\* A step that changes neither shutting_down_, components_, the copies nor
\* the stopped list, moves no drainer into shutdown() or to its stop loop,
\* and keeps the busy workers, keeps StopInv.
LEMMA StopFrame ==
    ASSUME StopInv, TypeOK, pc' \in [Threads -> Pcs],
           UNCHANGED <<shuttingDown, components, compsCopy, stopIdx, stopped, inFlight>>,
           Busy(pc') = Busy(pc),
           \A t \in Drainers :
              /\ pc'[t] \in ShutdownPcs => pc[t] \in ShutdownPcs
              /\ pc'[t] \in ShutdownPcs \ {"sd_stop"} => pc[t] \in ShutdownPcs \ {"sd_stop"}
              /\ pc'[t] = "sd_stop" => pc[t] = "sd_stop"
    PROVE  StopInv'
<1>1. inFlight' = Cardinality({w \in Workers : pc'[w] = "busy"})
  BY DEF StopInv, Busy
<1>2. \A t \in Drainers : pc'[t] = "sd_stop" => StopsSoFar(t)'
  BY DEF StopInv, StopsSoFar, ReversedPrefix
<1>3. \E n \in 0 .. Len(components') : ReversedPrefix(stopped', components', n)
  BY DEF StopInv, ReversedPrefix
<1>. QED  BY <1>1, <1>2, <1>3 DEF StopInv

-----------------------------------------------------------------------------
(* The steps of waitForShutdown, requestShutdown, executeCallbacks, the    *)
(* request gate, waitForDrain and the object's life cycle: each keeps the  *)
(* types, and none touches what StopInv is about beyond moving a drainer   *)
(* inside waitForDrain.                                                    *)

LEMMA WaitLockStep ==
    ASSUME IInv, WaitLock
    PROVE  IInv'
<1>0. TypeOK /\ StopInv
  BY DEF IInv
<1>1. TypeOK'
  BY <1>0, ThreadsDistinct DEF WaitLock, TypeOK, Pcs
<1>2. Busy(pc') = Busy(pc)
  BY <1>0, ThreadsDistinct DEF WaitLock, Busy, TypeOK
<1>3. \A u \in Drainers :
        /\ pc'[u] \in ShutdownPcs => pc[u] \in ShutdownPcs
        /\ pc'[u] \in ShutdownPcs \ {"sd_stop"} => pc[u] \in ShutdownPcs \ {"sd_stop"}
        /\ pc'[u] = "sd_stop" => pc[u] = "sd_stop"
  BY <1>0, ThreadsDistinct DEF WaitLock, TypeOK, ShutdownPcs, Drainers
<1>4. StopInv'
  BY <1>0, <1>1, <1>2, <1>3, StopFrame DEF WaitLock, TypeOK
<1>. QED  BY <1>1, <1>4 DEF IInv

LEMMA WaitCheckStep ==
    ASSUME IInv, WaitCheck
    PROVE  IInv'
<1>0. TypeOK /\ StopInv
  BY DEF IInv
<1>1. TypeOK'
  BY <1>0, ThreadsDistinct DEF WaitCheck, TypeOK, Pcs
<1>2. Busy(pc') = Busy(pc)
  BY <1>0, ThreadsDistinct DEF WaitCheck, Busy, TypeOK
<1>3. \A u \in Drainers :
        /\ pc'[u] \in ShutdownPcs => pc[u] \in ShutdownPcs
        /\ pc'[u] \in ShutdownPcs \ {"sd_stop"} => pc[u] \in ShutdownPcs \ {"sd_stop"}
        /\ pc'[u] = "sd_stop" => pc[u] = "sd_stop"
  BY <1>0, ThreadsDistinct DEF WaitCheck, TypeOK, ShutdownPcs, Drainers
<1>4. StopInv'
  BY <1>0, <1>1, <1>2, <1>3, StopFrame DEF WaitCheck, TypeOK
<1>. QED  BY <1>1, <1>4 DEF IInv

LEMMA WaitSleepStep ==
    ASSUME IInv, WaitSleep
    PROVE  IInv'
<1>0. TypeOK /\ StopInv
  BY DEF IInv
<1>1. TypeOK'
  BY <1>0, ThreadsDistinct DEF WaitSleep, TypeOK, Pcs
<1>2. Busy(pc') = Busy(pc)
  BY <1>0, ThreadsDistinct DEF WaitSleep, Busy, TypeOK
<1>3. \A u \in Drainers :
        /\ pc'[u] \in ShutdownPcs => pc[u] \in ShutdownPcs
        /\ pc'[u] \in ShutdownPcs \ {"sd_stop"} => pc[u] \in ShutdownPcs \ {"sd_stop"}
        /\ pc'[u] = "sd_stop" => pc[u] = "sd_stop"
  BY <1>0, ThreadsDistinct DEF WaitSleep, TypeOK, ShutdownPcs, Drainers
<1>4. StopInv'
  BY <1>0, <1>1, <1>2, <1>3, StopFrame DEF WaitSleep, TypeOK
<1>. QED  BY <1>1, <1>4 DEF IInv

LEMMA RequestShutdownStep ==
    ASSUME IInv, RequestShutdown
    PROVE  IInv'
<1>0. TypeOK /\ StopInv
  BY DEF IInv
<1>1. TypeOK'
  BY <1>0, ThreadsDistinct DEF RequestShutdown, TypeOK, Pcs
<1>2. Busy(pc') = Busy(pc)
  BY <1>0, ThreadsDistinct DEF RequestShutdown, Busy, TypeOK
<1>3. \A u \in Drainers :
        /\ pc'[u] \in ShutdownPcs => pc[u] \in ShutdownPcs
        /\ pc'[u] \in ShutdownPcs \ {"sd_stop"} => pc[u] \in ShutdownPcs \ {"sd_stop"}
        /\ pc'[u] = "sd_stop" => pc[u] = "sd_stop"
  BY <1>0, ThreadsDistinct DEF RequestShutdown, TypeOK, ShutdownPcs, Drainers
<1>4. StopInv'
  BY <1>0, <1>1, <1>2, <1>3, StopFrame DEF RequestShutdown, TypeOK
<1>. QED  BY <1>1, <1>4 DEF IInv

LEMMA ExecuteCallbacksCopyStep ==
    ASSUME IInv, ExecuteCallbacksCopy
    PROVE  IInv'
<1>0. TypeOK /\ StopInv
  BY DEF IInv
<1>1. TypeOK'
  BY <1>0, ThreadsDistinct DEF ExecuteCallbacksCopy, TypeOK, Pcs
<1>2. Busy(pc') = Busy(pc)
  BY <1>0, ThreadsDistinct DEF ExecuteCallbacksCopy, Busy, TypeOK
<1>3. \A u \in Drainers :
        /\ pc'[u] \in ShutdownPcs => pc[u] \in ShutdownPcs
        /\ pc'[u] \in ShutdownPcs \ {"sd_stop"} => pc[u] \in ShutdownPcs \ {"sd_stop"}
        /\ pc'[u] = "sd_stop" => pc[u] = "sd_stop"
  BY <1>0, ThreadsDistinct DEF ExecuteCallbacksCopy, TypeOK, ShutdownPcs, Drainers
<1>4. StopInv'
  BY <1>0, <1>1, <1>2, <1>3, StopFrame DEF ExecuteCallbacksCopy, TypeOK
<1>. QED  BY <1>1, <1>4 DEF IInv

LEMMA ExecuteCallbacksCallStep ==
    ASSUME IInv, ExecuteCallbacksCall
    PROVE  IInv'
<1>0. TypeOK /\ StopInv
  BY DEF IInv
<1>1. TypeOK'
  BY <1>0, ThreadsDistinct DEF ExecuteCallbacksCall, TypeOK, Pcs
<1>2. Busy(pc') = Busy(pc)
  BY <1>0, ThreadsDistinct DEF ExecuteCallbacksCall, Busy, TypeOK
<1>3. \A u \in Drainers :
        /\ pc'[u] \in ShutdownPcs => pc[u] \in ShutdownPcs
        /\ pc'[u] \in ShutdownPcs \ {"sd_stop"} => pc[u] \in ShutdownPcs \ {"sd_stop"}
        /\ pc'[u] = "sd_stop" => pc[u] = "sd_stop"
  BY <1>0, ThreadsDistinct DEF ExecuteCallbacksCall, TypeOK, ShutdownPcs, Drainers
<1>4. StopInv'
  BY <1>0, <1>1, <1>2, <1>3, StopFrame DEF ExecuteCallbacksCall, TypeOK
<1>. QED  BY <1>1, <1>4 DEF IInv

LEMMA AdmitStep ==
    ASSUME IInv, NEW w \in Workers, Admit(w)
    PROVE  IInv'
<1>0. TypeOK /\ StopInv
  BY DEF IInv
<1>1. TypeOK'
  BY <1>0, ThreadsDistinct DEF Admit, TypeOK, Pcs
<1>2. Busy(pc') = Busy(pc)
  BY <1>0, ThreadsDistinct DEF Admit, Busy, TypeOK
<1>3. \A u \in Drainers :
        /\ pc'[u] \in ShutdownPcs => pc[u] \in ShutdownPcs
        /\ pc'[u] \in ShutdownPcs \ {"sd_stop"} => pc[u] \in ShutdownPcs \ {"sd_stop"}
        /\ pc'[u] = "sd_stop" => pc[u] = "sd_stop"
  BY <1>0, ThreadsDistinct DEF Admit, TypeOK, ShutdownPcs, Drainers
<1>4. StopInv'
  BY <1>0, <1>1, <1>2, <1>3, StopFrame DEF Admit, TypeOK
<1>. QED  BY <1>1, <1>4 DEF IInv

LEMMA GuardNotifyStep ==
    ASSUME IInv, NEW w \in Workers, GuardNotify(w)
    PROVE  IInv'
<1>0. TypeOK /\ StopInv
  BY DEF IInv
<1>1. TypeOK'
  BY <1>0, ThreadsDistinct DEF GuardNotify, TypeOK, Pcs
<1>2. Busy(pc') = Busy(pc)
  BY <1>0, ThreadsDistinct DEF GuardNotify, Busy, TypeOK
<1>3. \A u \in Drainers :
        /\ pc'[u] \in ShutdownPcs => pc[u] \in ShutdownPcs
        /\ pc'[u] \in ShutdownPcs \ {"sd_stop"} => pc[u] \in ShutdownPcs \ {"sd_stop"}
        /\ pc'[u] = "sd_stop" => pc[u] = "sd_stop"
  BY <1>0, ThreadsDistinct DEF GuardNotify, TypeOK, ShutdownPcs, Drainers
<1>4. StopInv'
  BY <1>0, <1>1, <1>2, <1>3, StopFrame DEF GuardNotify, TypeOK
<1>. QED  BY <1>1, <1>4 DEF IInv

LEMMA DrainStoreStep ==
    ASSUME IInv, NEW t \in Drainers, DrainStore(t)
    PROVE  IInv'
<1>0. TypeOK /\ StopInv
  BY DEF IInv
<1>1. TypeOK'
  BY <1>0, ThreadsDistinct DEF DrainStore, TypeOK, Pcs
<1>2. Busy(pc') = Busy(pc)
  BY <1>0, ThreadsDistinct DEF DrainStore, Busy, TypeOK
<1>3. \A u \in Drainers :
        /\ pc'[u] \in ShutdownPcs => pc[u] \in ShutdownPcs
        /\ pc'[u] \in ShutdownPcs \ {"sd_stop"} => pc[u] \in ShutdownPcs \ {"sd_stop"}
        /\ pc'[u] = "sd_stop" => pc[u] = "sd_stop"
  BY <1>0, ThreadsDistinct DEF DrainStore, TypeOK, ShutdownPcs, Drainers
<1>4. StopInv'
  BY <1>0, <1>1, <1>2, <1>3, StopFrame DEF DrainStore, TypeOK
<1>. QED  BY <1>1, <1>4 DEF IInv

LEMMA DrainLockStep ==
    ASSUME IInv, NEW t \in Drainers, DrainLock(t)
    PROVE  IInv'
<1>0. TypeOK /\ StopInv
  BY DEF IInv
<1>1. TypeOK'
  BY <1>0, ThreadsDistinct DEF DrainLock, TypeOK, Pcs
<1>2. Busy(pc') = Busy(pc)
  BY <1>0, ThreadsDistinct DEF DrainLock, Busy, TypeOK
<1>3. \A u \in Drainers :
        /\ pc'[u] \in ShutdownPcs => pc[u] \in ShutdownPcs
        /\ pc'[u] \in ShutdownPcs \ {"sd_stop"} => pc[u] \in ShutdownPcs \ {"sd_stop"}
        /\ pc'[u] = "sd_stop" => pc[u] = "sd_stop"
  BY <1>0, ThreadsDistinct DEF DrainLock, TypeOK, ShutdownPcs, Drainers
<1>4. StopInv'
  BY <1>0, <1>1, <1>2, <1>3, StopFrame DEF DrainLock, TypeOK
<1>. QED  BY <1>1, <1>4 DEF IInv

LEMMA DrainCheckStep ==
    ASSUME IInv, NEW t \in Drainers, DrainCheck(t)
    PROVE  IInv'
<1>0. TypeOK /\ StopInv
  BY DEF IInv
<1>1. TypeOK'
  BY <1>0, ThreadsDistinct DEF DrainCheck, TypeOK, Pcs
<1>2. Busy(pc') = Busy(pc)
  BY <1>0, ThreadsDistinct DEF DrainCheck, Busy, TypeOK
<1>3. \A u \in Drainers :
        /\ pc'[u] \in ShutdownPcs => pc[u] \in ShutdownPcs
        /\ pc'[u] \in ShutdownPcs \ {"sd_stop"} => pc[u] \in ShutdownPcs \ {"sd_stop"}
        /\ pc'[u] = "sd_stop" => pc[u] = "sd_stop"
  BY <1>0, ThreadsDistinct DEF DrainCheck, TypeOK, ShutdownPcs, Drainers
<1>4. StopInv'
  BY <1>0, <1>1, <1>2, <1>3, StopFrame DEF DrainCheck, TypeOK
<1>. QED  BY <1>1, <1>4 DEF IInv

LEMMA DrainSleepStep ==
    ASSUME IInv, NEW t \in Drainers, DrainSleep(t)
    PROVE  IInv'
<1>0. TypeOK /\ StopInv
  BY DEF IInv
<1>1. TypeOK'
  BY <1>0, ThreadsDistinct DEF DrainSleep, TypeOK, Pcs
<1>2. Busy(pc') = Busy(pc)
  BY <1>0, ThreadsDistinct DEF DrainSleep, Busy, TypeOK
<1>3. \A u \in Drainers :
        /\ pc'[u] \in ShutdownPcs => pc[u] \in ShutdownPcs
        /\ pc'[u] \in ShutdownPcs \ {"sd_stop"} => pc[u] \in ShutdownPcs \ {"sd_stop"}
        /\ pc'[u] = "sd_stop" => pc[u] = "sd_stop"
  BY <1>0, ThreadsDistinct DEF DrainSleep, TypeOK, ShutdownPcs, Drainers
<1>4. StopInv'
  BY <1>0, <1>1, <1>2, <1>3, StopFrame DEF DrainSleep, TypeOK
<1>. QED  BY <1>1, <1>4 DEF IInv

LEMMA DrainTimeoutStep ==
    ASSUME IInv, NEW t \in Drainers, DrainTimeout(t)
    PROVE  IInv'
<1>0. TypeOK /\ StopInv
  BY DEF IInv
<1>1. TypeOK'
  BY <1>0, ThreadsDistinct DEF DrainTimeout, TypeOK, Pcs
<1>2. Busy(pc') = Busy(pc)
  BY <1>0, ThreadsDistinct DEF DrainTimeout, Busy, TypeOK
<1>3. \A u \in Drainers :
        /\ pc'[u] \in ShutdownPcs => pc[u] \in ShutdownPcs
        /\ pc'[u] \in ShutdownPcs \ {"sd_stop"} => pc[u] \in ShutdownPcs \ {"sd_stop"}
        /\ pc'[u] = "sd_stop" => pc[u] = "sd_stop"
  BY <1>0, ThreadsDistinct DEF DrainTimeout, TypeOK, ShutdownPcs, Drainers
<1>4. StopInv'
  BY <1>0, <1>1, <1>2, <1>3, StopFrame DEF DrainTimeout, TypeOK
<1>. QED  BY <1>1, <1>4 DEF IInv

LEMMA ConstructStep ==
    ASSUME IInv, Construct
    PROVE  IInv'
<1>0. TypeOK /\ StopInv
  BY DEF IInv
<1>1. TypeOK'
  BY <1>0, ThreadsDistinct DEF Construct, TypeOK, Pcs
<1>2. Busy(pc') = Busy(pc)
  BY <1>0, ThreadsDistinct DEF Construct, Busy, TypeOK
<1>3. \A u \in Drainers :
        /\ pc'[u] \in ShutdownPcs => pc[u] \in ShutdownPcs
        /\ pc'[u] \in ShutdownPcs \ {"sd_stop"} => pc[u] \in ShutdownPcs \ {"sd_stop"}
        /\ pc'[u] = "sd_stop" => pc[u] = "sd_stop"
  BY <1>0, ThreadsDistinct DEF Construct, TypeOK, ShutdownPcs, Drainers
<1>4. StopInv'
  BY <1>0, <1>1, <1>2, <1>3, StopFrame DEF Construct, TypeOK
<1>. QED  BY <1>1, <1>4 DEF IInv

LEMMA DestroyStep ==
    ASSUME IInv, Destroy
    PROVE  IInv'
<1>0. TypeOK /\ StopInv
  BY DEF IInv
<1>1. TypeOK'
  BY <1>0, ThreadsDistinct DEF Destroy, TypeOK, Pcs
<1>2. Busy(pc') = Busy(pc)
  BY <1>0, ThreadsDistinct DEF Destroy, Busy, TypeOK
<1>3. \A u \in Drainers :
        /\ pc'[u] \in ShutdownPcs => pc[u] \in ShutdownPcs
        /\ pc'[u] \in ShutdownPcs \ {"sd_stop"} => pc[u] \in ShutdownPcs \ {"sd_stop"}
        /\ pc'[u] = "sd_stop" => pc[u] = "sd_stop"
  BY <1>0, ThreadsDistinct DEF Destroy, TypeOK, ShutdownPcs, Drainers
<1>4. StopInv'
  BY <1>0, <1>1, <1>2, <1>3, StopFrame DEF Destroy, TypeOK
<1>. QED  BY <1>1, <1>4 DEF IInv

LEMMA FreeStep ==
    ASSUME IInv, Free
    PROVE  IInv'
<1>0. TypeOK /\ StopInv
  BY DEF IInv
<1>1. TypeOK'
  BY <1>0, ThreadsDistinct DEF Free, TypeOK, Pcs
<1>2. Busy(pc') = Busy(pc)
  BY <1>0, ThreadsDistinct DEF Free, Busy, TypeOK
<1>3. \A u \in Drainers :
        /\ pc'[u] \in ShutdownPcs => pc[u] \in ShutdownPcs
        /\ pc'[u] \in ShutdownPcs \ {"sd_stop"} => pc[u] \in ShutdownPcs \ {"sd_stop"}
        /\ pc'[u] = "sd_stop" => pc[u] = "sd_stop"
  BY <1>0, ThreadsDistinct DEF Free, TypeOK, ShutdownPcs, Drainers
<1>4. StopInv'
  BY <1>0, <1>1, <1>2, <1>3, StopFrame DEF Free, TypeOK
<1>. QED  BY <1>1, <1>4 DEF IInv

-----------------------------------------------------------------------------
(* InFlightGuard's counter and addComponent.                               *)

\* As StopFrame, for a step that moves a worker into or out of a guard and
\* changes the counter with it.
LEMMA StopFrameCount ==
    ASSUME StopInv, TypeOK, pc' \in [Threads -> Pcs],
           UNCHANGED <<shuttingDown, components, compsCopy, stopIdx, stopped>>,
           inFlight' = Cardinality(Busy(pc')),
           \A t \in Drainers : pc'[t] = pc[t]
    PROVE  StopInv'
<1>1. inFlight' = Cardinality({w \in Workers : pc'[w] = "busy"})
  BY DEF Busy
<1>2. \A t \in Drainers : pc'[t] = "sd_stop" => StopsSoFar(t)'
  BY DEF StopInv, StopsSoFar, ReversedPrefix
<1>3. \E n \in 0 .. Len(components') : ReversedPrefix(stopped', components', n)
  BY DEF StopInv, ReversedPrefix
<1>. QED  BY <1>1, <1>2, <1>3 DEF StopInv

\* InFlightGuard(): the worker becomes busy and fetch_add counts it.
LEMMA GuardEnterStep ==
    ASSUME IInv, NEW w \in Workers, GuardEnter(w)
    PROVE  IInv'
<1>0. TypeOK /\ StopInv
  BY DEF IInv
<1>1. pc' = [pc EXCEPT ![w] = "busy"] /\ pc[w] = "enter" /\ inFlight' = inFlight + 1
      /\ pc' \in [Threads -> Pcs]
  BY <1>0, ThreadsDistinct DEF GuardEnter, TypeOK, Pcs
<1>2. Busy(pc') = Busy(pc) \cup {w} /\ w \notin Busy(pc)
  BY <1>0, <1>1, ThreadsDistinct DEF Busy, TypeOK
<1>3. IsFiniteSet(Busy(pc)) /\ inFlight = Cardinality(Busy(pc))
  BY <1>0, BusyBound DEF TypeOK, StopInv, Busy
<1>4. inFlight' = Cardinality(Busy(pc'))
  BY <1>1, <1>2, <1>3, FS_AddElement
<1>5. inFlight' \in 0 .. Cardinality(Workers)
  BY <1>1, <1>4, BusyBound
<1>6. TypeOK'
  BY <1>0, <1>1, <1>5 DEF GuardEnter, TypeOK
<1>7. StopInv'
  BY <1>0, <1>1, <1>4, ThreadsDistinct, StopFrameCount DEF GuardEnter
<1>. QED  BY <1>6, <1>7 DEF IInv

\* ~InFlightGuard(): the worker leaves the guard and fetch_sub uncounts it;
\* the value it keeps for the notification is a count, never negative.
LEMMA GuardExitStep ==
    ASSUME IInv, NEW w \in Workers, GuardExit(w)
    PROVE  IInv'
<1>0. TypeOK /\ StopInv
  BY DEF IInv
<1>1. pc' = [pc EXCEPT ![w] = "notify"] /\ pc[w] = "busy" /\ inFlight' = inFlight - 1
      /\ pc' \in [Threads -> Pcs]
  BY <1>0, ThreadsDistinct DEF GuardExit, TypeOK, Pcs
<1>2. Busy(pc') = Busy(pc) \ {w} /\ w \in Busy(pc)
  BY <1>0, <1>1, ThreadsDistinct DEF Busy, TypeOK
<1>3. IsFiniteSet(Busy(pc)) /\ inFlight = Cardinality(Busy(pc))
  BY <1>0, BusyBound DEF TypeOK, StopInv, Busy
<1>4. inFlight' = Cardinality(Busy(pc')) /\ inFlight - 1 \in Nat
  <2>1. Cardinality(Busy(pc) \ {w}) = Cardinality(Busy(pc)) - 1
    BY <1>2, <1>3, FS_RemoveElement
  <2>2. IsFiniteSet(Busy(pc) \ {w})
    BY <1>3, FS_RemoveElement
  <2>3. Cardinality(Busy(pc) \ {w}) \in Nat
    BY <2>2, FS_CardinalityType
  <2>. QED  BY <1>1, <1>2, <1>3, <2>1, <2>3
<1>5. inFlight' \in 0 .. Cardinality(Workers)
  BY <1>1, <1>4, BusyBound
<1>6. TypeOK'
  BY <1>0, <1>1, <1>4, <1>5 DEF GuardExit, TypeOK
<1>7. StopInv'
  BY <1>0, <1>1, <1>4, ThreadsDistinct, StopFrameCount DEF GuardExit
<1>. QED  BY <1>6, <1>7 DEF IInv

\* addComponent() appends: a copy taken earlier stays a prefix, and what
\* was stopped stays the reverse of a prefix.
LEMMA AddComponentStep ==
    ASSUME IInv, AddComponent
    PROVE  IInv'
<1>0. TypeOK /\ StopInv
  BY DEF IInv
<1>1. PICK c \in Comps : components' = Append(components, c)
  BY DEF AddComponent
<1>2. UNCHANGED <<pc, inFlight, shuttingDown, compsCopy, stopIdx, stopped>>
  BY DEF AddComponent
<1>3. /\ components' \in Seq(Comps)
      /\ Len(components') = Len(components) + 1
      /\ \A i \in 1 .. Len(components) : components'[i] = components[i]
  BY <1>0, <1>1 DEF TypeOK
<1>4. TypeOK'
  BY <1>0, <1>3 DEF AddComponent, TypeOK
<1>5. \A t \in Drainers : pc'[t] = "sd_stop" => StopsSoFar(t)'
  BY <1>0, <1>2, <1>3 DEF StopInv, StopsSoFar, ReversedPrefix
<1>6. \E n \in 0 .. Len(components') : ReversedPrefix(stopped', components', n)
  <2>1. PICK n \in 0 .. Len(components) : ReversedPrefix(stopped, components, n)
    BY <1>0 DEF StopInv
  <2>2. ReversedPrefix(stopped', components', n)
    BY <1>2, <1>3, <2>1 DEF ReversedPrefix
  <2>. QED  BY <1>3, <2>2
<1>7. StopInv'
  BY <1>0, <1>2, <1>5, <1>6 DEF StopInv, Busy
<1>. QED  BY <1>4, <1>7 DEF IInv

-----------------------------------------------------------------------------
(* GracefulShutdown::shutdown().                                           *)

\* shutdown()'s compare-and-swap: the first thread through finds nothing
\* stopped and no other thread inside; a later one returns at once.
LEMMA ShutdownCasStep ==
    ASSUME IInv, NEW t \in Drainers, ShutdownCas(t)
    PROVE  IInv'
<1>0. TypeOK /\ StopInv
  BY DEF IInv
<1>1. /\ pc[t] = "sd_cas" /\ shuttingDown' = TRUE
      /\ UNCHANGED <<components, compsCopy, stopIdx, stopped, inFlight>>
      /\ pc' = [pc EXCEPT ![t] = IF shuttingDown THEN AfterShutdown(t) ELSE "drain_store"]
  BY DEF ShutdownCas
<1>2. AfterShutdown(t) \in Pcs \ ShutdownPcs /\ "drain_store" \in Pcs \cap ShutdownPcs
      /\ "sd_cas" \notin ShutdownPcs
  BY DEF AfterShutdown, Pcs, ShutdownPcs
<1>3. TypeOK'
  BY <1>0, <1>2, ThreadsDistinct DEF ShutdownCas, TypeOK, AfterShutdown, Pcs
<1>4. Busy(pc') = Busy(pc)
  BY <1>0, <1>1, ThreadsDistinct DEF Busy, TypeOK
<1>5. CASE shuttingDown
  <2>0. pc' = [pc EXCEPT ![t] = AfterShutdown(t)]
    BY <1>1, <1>5
  <2>1. \A u \in Drainers :
          /\ pc'[u] \in ShutdownPcs => pc[u] \in ShutdownPcs
          /\ pc'[u] \in ShutdownPcs \ {"sd_stop"} => pc[u] \in ShutdownPcs \ {"sd_stop"}
          /\ pc'[u] = "sd_stop" => pc[u] = "sd_stop"
    <3>1. "sd_stop" \in ShutdownPcs /\ pc'[t] \notin ShutdownPcs
      BY <1>0, <1>2, <2>0, ThreadsDistinct DEF TypeOK, ShutdownPcs
    <3>2. \A u \in Drainers \ {t} : pc'[u] = pc[u]
      BY <1>0, <2>0, ThreadsDistinct DEF TypeOK
    <3>. QED  BY <3>1, <3>2
  <2>. QED  BY <1>0, <1>1, <1>3, <1>4, <1>5, <2>1, StopFrame DEF IInv, TypeOK
<1>6. CASE ~shuttingDown
  <2>1. stopped = << >> /\ \A u \in Drainers : pc[u] \notin ShutdownPcs
    BY <1>0, <1>6 DEF StopInv
  <2>2. \A u \in Drainers : pc'[u] \in ShutdownPcs <=> u = t
    BY <1>0, <1>1, <1>2, <1>6, <2>1, ThreadsDistinct DEF TypeOK
  <2>3. pc'[t] = "drain_store" /\ "drain_store" # "sd_stop"
    BY <1>0, <1>1, <1>6, ThreadsDistinct DEF TypeOK
  <2>4. inFlight' = Cardinality({w \in Workers : pc'[w] = "busy"})
    BY <1>0, <1>1, <1>4 DEF StopInv, Busy
  <2>5. \A u \in Drainers : stopIdx'[u] <= Len(compsCopy'[u])
    BY <1>0, <1>1 DEF StopInv
  <2>6. \E n \in 0 .. Len(components') : ReversedPrefix(stopped', components', n)
    BY <1>0, <1>1 DEF StopInv
  <2>7. /\ \A u, v \in Drainers : pc'[u] \in ShutdownPcs /\ pc'[v] \in ShutdownPcs => u = v
        /\ \A u \in Drainers : pc'[u] \in ShutdownPcs \ {"sd_stop"} => stopped' = << >>
        /\ \A u \in Drainers : pc'[u] = "sd_stop" => StopsSoFar(u)'
    <3>1. "sd_stop" \in ShutdownPcs
      BY DEF ShutdownPcs
    <3>. QED  BY <1>1, <2>1, <2>2, <2>3, <3>1
  <2>. QED  BY <1>1, <1>3, <2>4, <2>5, <2>6, <2>7 DEF IInv, StopInv
<1>. QED  BY <1>5, <1>6

\* shutdown() copies components_ with nothing stopped yet, and starts its
\* loop at the copy's last entry.
LEMMA ShutdownCopyStep ==
    ASSUME IInv, NEW t \in Drainers, ShutdownCopy(t)
    PROVE  IInv'
<1>0. TypeOK /\ StopInv
  BY DEF IInv
<1>1. /\ pc[t] = "sd_copy" /\ pc' = [pc EXCEPT ![t] = "sd_stop"]
      /\ compsCopy' = [compsCopy EXCEPT ![t] = components]
      /\ stopIdx' = [stopIdx EXCEPT ![t] = Len(components)]
      /\ UNCHANGED <<components, stopped, shuttingDown, inFlight>>
  BY DEF ShutdownCopy
<1>2. "sd_copy" \in ShutdownPcs \ {"sd_stop"} /\ "sd_stop" \in ShutdownPcs
  BY DEF ShutdownPcs
<1>3. stopped = << >> /\ shuttingDown
      /\ \A u \in Drainers : u # t => pc[u] \notin ShutdownPcs
  BY <1>0, <1>1, <1>2 DEF StopInv
<1>4. TypeOK'
  <2>1. pc' \in [Threads -> Pcs]
    BY <1>0, <1>1, ThreadsDistinct DEF TypeOK, Pcs
  <2>2. compsCopy' \in [Drainers -> Seq(Comps)] /\ stopIdx' \in [Drainers -> Nat]
    BY <1>0, <1>1 DEF TypeOK
  <2>. QED  BY <1>0, <2>1, <2>2 DEF ShutdownCopy, TypeOK
<1>5. Busy(pc') = Busy(pc)
  BY <1>0, <1>1, ThreadsDistinct DEF Busy, TypeOK
<1>6. \A u \in Drainers : pc'[u] \in ShutdownPcs <=> u = t
  BY <1>0, <1>1, <1>2, <1>3, ThreadsDistinct DEF TypeOK
<1>7. StopsSoFar(t)'
  BY <1>0, <1>1, <1>3 DEF StopsSoFar, ReversedPrefix, TypeOK
<1>8. /\ inFlight' = Cardinality({w \in Workers : pc'[w] = "busy"})
      /\ \A u \in Drainers : stopIdx'[u] <= Len(compsCopy'[u])
      /\ \E n \in 0 .. Len(components') : ReversedPrefix(stopped', components', n)
  <2>1. inFlight' = Cardinality({w \in Workers : pc'[w] = "busy"})
    BY <1>0, <1>1, <1>5 DEF StopInv, Busy
  <2>2. \A u \in Drainers : stopIdx'[u] <= Len(compsCopy'[u])
    BY <1>0, <1>1 DEF StopInv, TypeOK
  <2>3. \E n \in 0 .. Len(components') : ReversedPrefix(stopped', components', n)
    BY <1>0, <1>1 DEF StopInv
  <2>. QED  BY <2>1, <2>2, <2>3
<1>10. pc'[t] = "sd_stop"
  BY <1>0, <1>1, ThreadsDistinct DEF TypeOK
<1>9. /\ \A u, v \in Drainers : pc'[u] \in ShutdownPcs /\ pc'[v] \in ShutdownPcs => u = v
      /\ \A u \in Drainers : pc'[u] \in ShutdownPcs \ {"sd_stop"} => stopped' = << >>
      /\ \A u \in Drainers : pc'[u] = "sd_stop" => StopsSoFar(u)'
  BY <1>1, <1>3, <1>6, <1>7, <1>10
<1>. QED  BY <1>1, <1>3, <1>4, <1>8, <1>9 DEF IInv, StopInv

\* shutdown()'s loop stops the copy's entry at the index and steps down;
\* at index 0 it returns.  The stopped list grows by the next entry of the
\* copy from the back, and the copy is a prefix of components_.
LEMMA ShutdownStopStep ==
    ASSUME IInv, NEW t \in Drainers, ShutdownStop(t)
    PROVE  IInv'
<1>0. TypeOK /\ StopInv
  BY DEF IInv
<1>1. /\ pc[t] = "sd_stop" /\ t \in Threads
      /\ UNCHANGED <<components, compsCopy, shuttingDown, inFlight>>
  BY ThreadsDistinct DEF ShutdownStop
<1>2. "sd_stop" \in ShutdownPcs
  BY DEF ShutdownPcs
<1>3. /\ shuttingDown
      /\ \A u \in Drainers : u # t => pc[u] \notin ShutdownPcs
      /\ StopsSoFar(t)
      /\ stopIdx[t] \in 0 .. Len(compsCopy[t])
  BY <1>0, <1>1, <1>2 DEF StopInv, TypeOK
<1>4. Busy(pc') = Busy(pc)
  BY <1>0, <1>1, ThreadsDistinct DEF ShutdownStop, Busy, TypeOK
<1>5. CASE stopIdx[t] > 0
  <2> DEFINE cc == compsCopy[t]
  <2> DEFINE k == stopIdx[t]
  <2>1. /\ stopped' = Append(stopped, cc[k])
        /\ stopIdx' = [stopIdx EXCEPT ![t] = k - 1]
        /\ UNCHANGED pc
    BY <1>5 DEF ShutdownStop
  <2>2. /\ k \in 1 .. Len(cc) /\ cc \in Seq(Comps) /\ stopped \in Seq(Comps)
        /\ Len(cc) <= Len(components)
        /\ \A i \in 1 .. Len(cc) : cc[i] = components[i]
        /\ Len(stopped) = Len(cc) - k
        /\ \A i \in 1 .. Len(stopped) : stopped[i] = cc[Len(cc) + 1 - i]
    BY <1>0, <1>3, <1>5 DEF TypeOK, StopsSoFar, ReversedPrefix
  <2>3. /\ stopped' \in Seq(Comps)
        /\ Len(stopped') = Len(stopped) + 1
        /\ \A i \in 1 .. Len(stopped) : stopped'[i] = stopped[i]
        /\ stopped'[Len(stopped) + 1] = cc[k]
    BY <2>1, <2>2
  <2>4. \A i \in 1 .. Len(stopped') : stopped'[i] = cc[Len(cc) + 1 - i]
    <3>1. SUFFICES ASSUME NEW i \in 1 .. Len(stopped') PROVE stopped'[i] = cc[Len(cc) + 1 - i]
      OBVIOUS
    <3>2. CASE i <= Len(stopped)
      BY <2>2, <2>3, <3>2
    <3>3. CASE i = Len(stopped) + 1
      <4>1. Len(cc) + 1 - i = k
        BY <2>2, <3>3
      <4>. QED  BY <2>3, <3>3, <4>1
    <3>. QED  BY <2>2, <2>3, <3>2, <3>3
  <2>5. TypeOK'
    <3>1. stopIdx' \in [Drainers -> Nat]
      BY <1>0, <2>1, <2>2 DEF TypeOK
    <3>. QED  BY <1>0, <1>1, <2>1, <2>3, <3>1 DEF ShutdownStop, TypeOK
  <2>6. StopsSoFar(t)'
    <3>1. compsCopy'[t] = cc /\ stopIdx'[t] = k - 1 /\ components' = components
      BY <1>0, <1>1, <2>1 DEF TypeOK
    <3>2. /\ Len(stopped') = Len(cc) - (k - 1)
          /\ Len(stopped') <= Len(cc)
      BY <2>2, <2>3
    <3>3. ReversedPrefix(stopped', cc, Len(cc))
      BY <2>4, <3>2 DEF ReversedPrefix
    <3>. QED  BY <2>2, <3>1, <3>2, <3>3 DEF StopsSoFar
  <2>7. ReversedPrefix(stopped', components', Len(cc))
    <3>1. \A i \in 1 .. Len(stopped') : Len(cc) + 1 - i \in 1 .. Len(cc)
      BY <2>2, <2>3
    <3>2. \A i \in 1 .. Len(stopped') : stopped'[i] = components'[Len(cc) + 1 - i]
      BY <1>1, <2>2, <2>4, <3>1
    <3>3. Len(stopped') <= Len(cc) /\ Len(cc) <= Len(components')
      BY <1>1, <2>2, <2>3
    <3>. QED  BY <3>2, <3>3 DEF ReversedPrefix
  <2>8. /\ inFlight' = Cardinality({w \in Workers : pc'[w] = "busy"})
        /\ \A u \in Drainers : stopIdx'[u] <= Len(compsCopy'[u])
    BY <1>0, <1>1, <2>1, <2>2 DEF StopInv, TypeOK
  <2>9. /\ \A u, v \in Drainers : pc'[u] \in ShutdownPcs /\ pc'[v] \in ShutdownPcs => u = v
        /\ \A u \in Drainers : pc'[u] \in ShutdownPcs \ {"sd_stop"} => stopped' = << >>
        /\ \A u \in Drainers : pc'[u] = "sd_stop" => StopsSoFar(u)'
    BY <1>1, <1>2, <1>3, <2>1, <2>6
  <2>10. StopInv'
    BY <1>1, <1>3, <2>2, <2>7, <2>8, <2>9 DEF StopInv
  <2>. QED  BY <2>5, <2>10 DEF IInv
<1>6. CASE ~(stopIdx[t] > 0)
  <2>1. /\ pc' = [pc EXCEPT ![t] = AfterShutdown(t)]
        /\ UNCHANGED <<stopped, stopIdx>>
    BY <1>6 DEF ShutdownStop
  <2>2. AfterShutdown(t) \in Pcs \ ShutdownPcs
    BY DEF AfterShutdown, Pcs, ShutdownPcs
  <2>3. TypeOK'
    BY <1>0, <1>1, <2>1, <2>2 DEF ShutdownStop, TypeOK
  <2>4. \A u \in Drainers :
          /\ pc'[u] \in ShutdownPcs => pc[u] \in ShutdownPcs
          /\ pc'[u] \in ShutdownPcs \ {"sd_stop"} => pc[u] \in ShutdownPcs \ {"sd_stop"}
          /\ pc'[u] = "sd_stop" => pc[u] = "sd_stop"
    <3>1. pc'[t] \notin ShutdownPcs
      BY <1>0, <1>1, <2>1, <2>2 DEF TypeOK
    <3>2. \A u \in Drainers \ {t} : pc'[u] = pc[u]
      BY <1>0, <2>1, ThreadsDistinct DEF TypeOK
    <3>. QED  BY <1>2, <3>1, <3>2
  <2>. QED  BY <1>0, <1>1, <1>4, <2>1, <2>3, <2>4, StopFrame DEF IInv, TypeOK
<1>. QED  BY <1>5, <1>6

-----------------------------------------------------------------------------
(* The theorems.                                                           *)

\* Every step keeps IInv.
LEMMA NextInv == IInv /\ [Next]_vars => IInv'
<1> SUFFICES ASSUME IInv, [Next]_vars PROVE IInv'
  OBVIOUS
<1>1. CASE WaitLock \/ WaitCheck \/ WaitSleep \/ RequestShutdown
           \/ ExecuteCallbacksCopy \/ ExecuteCallbacksCall
  BY <1>1, WaitLockStep, WaitCheckStep, WaitSleepStep, RequestShutdownStep,
     ExecuteCallbacksCopyStep, ExecuteCallbacksCallStep
<1>2. ASSUME NEW w \in Workers, Admit(w) \/ GuardEnter(w) \/ GuardExit(w) \/ GuardNotify(w)
      PROVE  IInv'
  BY <1>2, AdmitStep, GuardEnterStep, GuardExitStep, GuardNotifyStep
<1>3. CASE Construct \/ AddComponent \/ Destroy \/ Free
  BY <1>3, ConstructStep, AddComponentStep, DestroyStep, FreeStep
<1>4. ASSUME NEW t \in Drainers, Shutdown(t) PROVE IInv'
  BY <1>4, ShutdownCasStep, DrainStoreStep, DrainLockStep, DrainCheckStep,
     DrainSleepStep, DrainTimeoutStep, ShutdownCopyStep, ShutdownStopStep
     DEF Shutdown
<1>5. CASE UNCHANGED vars
  BY <1>5 DEF vars, IInv, TypeOK, StopInv, StopsSoFar, ReversedPrefix
<1>. QED  BY <1>1, <1>2, <1>3, <1>4, <1>5 DEF Next

\* StopInv implies that what is stopped is in reverse order of components_.
LEMMA StopInvOrder == StopInv => StoppedOnceInReverse
<1> SUFFICES ASSUME StopInv, NEW i \in 1 .. Len(stopped), NEW j \in 1 .. Len(stopped), i < j
             PROVE  \E k, l \in 1 .. Len(components) :
                       /\ components[k] = stopped[i] /\ components[l] = stopped[j]
                       /\ k > l
  BY DEF StoppedOnceInReverse
<1>1. PICK n \in 0 .. Len(components) : ReversedPrefix(stopped, components, n)
  BY DEF StopInv
<1>2. /\ n + 1 - i \in 1 .. Len(components) /\ n + 1 - j \in 1 .. Len(components)
      /\ n + 1 - i > n + 1 - j
  BY <1>1 DEF ReversedPrefix
<1>3. components[n + 1 - i] = stopped[i] /\ components[n + 1 - j] = stopped[j]
  BY <1>1 DEF ReversedPrefix
<1>. QED  BY <1>2, <1>3

\* The invariant holds in every reachable state, for every set of workers
\* and components: the compare-and-swap on shutting_down_ admits one
\* thread, once, to shutdown(), and what it stops is the reverse of a
\* prefix of components_.
THEOREM StopInvHolds == Spec => []StopInv
<1>1. Init => IInv
  BY InitInv
<1>2. IInv /\ [Next]_vars => IInv'
  BY NextInv
<1>. QED  BY <1>1, <1>2, PTL DEF Spec, IInv

\* Every reachable state is well typed; in particular the in-flight counter
\* never goes below 0 or above the number of workers, and the stop loop
\* never indexes outside its copy of components_.
THEOREM TypeCorrect == Spec => []TypeOK
<1>1. Init => IInv
  BY InitInv
<1>2. IInv /\ [Next]_vars => IInv'
  BY NextInv
<1>. QED  BY <1>1, <1>2, PTL DEF Spec, IInv

\* Each component's shutdown function is called at most once and in the
\* reverse of the order addComponent added them, although the signal
\* handler's callback and ~GracefulShutdown may both call shutdown().
THEOREM StoppedOnceInReverseHolds == Spec => []StoppedOnceInReverse
<1>1. Init => IInv
  BY InitInv
<1>2. IInv /\ [Next]_vars => IInv'
  BY NextInv
<1>3. IInv => StoppedOnceInReverse
  BY StopInvOrder DEF IInv
<1>. QED  BY <1>1, <1>2, <1>3, PTL DEF Spec

=============================================================================
