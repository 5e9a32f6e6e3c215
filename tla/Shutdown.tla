------------------------------- MODULE Shutdown -------------------------------
(* src/crypto/resilience/shutdown.cpp: the process-wide ShutdownHandler    *)
(* (flag, callbacks, mutex_ and cv_), the static in-flight gate of         *)
(* InFlightGuard (counter, accepting flag, drain_mutex_ and drain_cv_) and *)
(* one GracefulShutdown object, whose constructor registers a callback     *)
(* that calls its shutdown().                                              *)
(*                                                                         *)
(* Threads: Main waits in waitForShutdown(); Requester runs                *)
(* requestShutdown() as the SIGTERM handler, on a thread of its own or, if *)
(* SignalOnMain, on top of Main, which is suspended until the handler      *)
(* returns; Owner constructs the GracefulShutdown object, adds components  *)
(* and may destroy it; each worker serves requests under an InFlightGuard. *)
(* A condition variable is a wait set: wait releases the mutex and joins   *)
(* the set in one step, notify_all empties the set, and a woken thread     *)
(* re-takes the mutex and re-checks the predicate.  A step that takes a    *)
(* mutex, works and releases it with nothing in between is one action, so *)
(* GracefulShutdown::mutex_ is not a variable.  Spurious wake-ups only     *)
(* lead to a re-check and are left out.                                    *)
EXTENDS Naturals, Sequences, FiniteSets

CONSTANTS
    Main, Requester, Owner,  \* threads
    Workers,                 \* threads serving requests
    Comps,                   \* components added to the GracefulShutdown
    SignalOnMain,            \* the signal handler runs on Main's stack
    None

ASSUME ConstantsAssumption ==
    /\ Main # Requester /\ Main # Owner /\ Requester # Owner
    /\ {Main, Requester, Owner} \cap Workers = {}
    /\ None \notin Workers \cup {Main, Requester, Owner}
    /\ IsFiniteSet(Workers) /\ IsFiniteSet(Comps)
    /\ SignalOnMain \in BOOLEAN

\* The threads that can run GracefulShutdown::shutdown(): the signal
\* handler through the callback, and the owner through the destructor.
Drainers == {Requester, Owner}

Threads == {Main, Requester, Owner} \cup Workers

VARIABLES
    requested,    \* ShutdownHandler::shutdown_requested_
    callbacks,    \* ShutdownHandler::callbacks_
    hMutex,       \* owner of ShutdownHandler::mutex_
    cvWait,       \* threads in ShutdownHandler::cv_'s wait set
    inFlight,     \* InFlightGuard::in_flight_count_
    accepting,    \* InFlightGuard::accepting_
    drainMutex,   \* owner of InFlightGuard::drain_mutex_
    drainWait,    \* threads in InFlightGuard::drain_cv_'s wait set
    shuttingDown, \* GracefulShutdown::shutting_down_
    components,   \* GracefulShutdown::components_
    alive,        \* the GracefulShutdown object has not been destroyed
    pc,
    cbCopy, cbIdx,        \* executeCallbacks' copy and loop index
    compsCopy, stopIdx,   \* shutdown()'s copy and reverse loop index
    timedOut,             \* wait_for's deadline has passed
    count,                \* ~InFlightGuard's value of fetch_sub(1) - 1
    stopped,      \* the components' shutdown functions, in call order
    stale         \* a member of the destroyed object has been used

vars == <<requested, callbacks, hMutex, cvWait, inFlight, accepting,
          drainMutex, drainWait, shuttingDown, components, alive, pc, cbCopy,
          cbIdx, compsCopy, stopIdx, timedOut, count, stopped, stale>>

SeqSet(s) == {s[i] : i \in 1 .. Len(s)}

\* The signal handler has interrupted Main and has not returned yet.
Interrupted(t) ==
    t = Main /\ SignalOnMain /\ pc[Requester] \notin {"idle", "done"}

\* Where shutdown() returns to.
AfterShutdown(t) == IF t = Requester THEN "call" ELSE "free"

-----------------------------------------------------------------------------
Init ==
    /\ requested = FALSE /\ callbacks = << >>
    /\ hMutex = None /\ cvWait = {}
    /\ inFlight = 0 /\ accepting = TRUE
    /\ drainMutex = None /\ drainWait = {}
    /\ shuttingDown = FALSE /\ components = << >> /\ alive = TRUE
    /\ pc = [t \in Threads |-> CASE t = Main -> "wait"
                                 [] t = Requester -> "idle"
                                 [] t = Owner -> "construct"
                                 [] OTHER -> "idle"]
    /\ cbCopy = << >> /\ cbIdx = 1
    /\ compsCopy = [t \in Drainers |-> << >>]
    /\ stopIdx = [t \in Drainers |-> 0]
    /\ timedOut = [t \in Drainers |-> FALSE]
    /\ count = [w \in Workers |-> 0]
    /\ stopped = << >> /\ stale = FALSE

\* --- ShutdownHandler -------------------------------------------------------

(* waitForShutdown(): lock mutex_, on the first call or when notify_all    *)
(* has taken Main out of the wait set.                                     *)
WaitLock ==
    /\ ~Interrupted(Main) /\ hMutex = None
    /\ pc[Main] = "wait" \/ (pc[Main] = "blocked" /\ Main \notin cvWait)
    /\ hMutex' = Main
    /\ pc' = [pc EXCEPT ![Main] = "check"]
    /\ UNCHANGED <<requested, callbacks, cvWait, inFlight, accepting,
                   drainMutex, drainWait, shuttingDown, components, alive,
                   cbCopy, cbIdx, compsCopy, stopIdx, timedOut, count,
                   stopped, stale>>

\* cv_.wait's predicate, evaluated with mutex_ held.
WaitCheck ==
    /\ ~Interrupted(Main) /\ pc[Main] = "check"
    /\ IF requested
       THEN pc' = [pc EXCEPT ![Main] = "done"] /\ hMutex' = None
       ELSE pc' = [pc EXCEPT ![Main] = "sleep"] /\ UNCHANGED hMutex
    /\ UNCHANGED <<requested, callbacks, cvWait, inFlight, accepting,
                   drainMutex, drainWait, shuttingDown, components, alive,
                   cbCopy, cbIdx, compsCopy, stopIdx, timedOut, count,
                   stopped, stale>>

\* cv_.wait blocks: release mutex_ and join the wait set.
WaitSleep ==
    /\ ~Interrupted(Main) /\ pc[Main] = "sleep"
    /\ hMutex' = None
    /\ cvWait' = cvWait \cup {Main}
    /\ pc' = [pc EXCEPT ![Main] = "blocked"]
    /\ UNCHANGED <<requested, callbacks, inFlight, accepting, drainMutex,
                   drainWait, shuttingDown, components, alive, cbCopy, cbIdx,
                   compsCopy, stopIdx, timedOut, count, stopped, stale>>

\* requestShutdown(): compare_exchange_strong(false, true); only the
\* thread that sets the flag runs the callbacks.
RequestShutdown ==
    /\ pc[Requester] = "idle"
    /\ requested' = TRUE
    /\ pc' = [pc EXCEPT ![Requester] = IF requested THEN "done" ELSE "copy"]
    /\ UNCHANGED <<callbacks, hMutex, cvWait, inFlight, accepting,
                   drainMutex, drainWait, shuttingDown, components, alive,
                   cbCopy, cbIdx, compsCopy, stopIdx, timedOut, count,
                   stopped, stale>>

\* Mutant of ExecuteCallbacksCopy: the copy is taken without mutex_.
ExecuteCallbacksUnlocked ==
    /\ pc[Requester] = "copy"
    /\ cbCopy' = callbacks /\ cbIdx' = 1
    /\ pc' = [pc EXCEPT ![Requester] = "call"]
    /\ UNCHANGED <<requested, callbacks, hMutex, cvWait, inFlight, accepting,
                   drainMutex, drainWait, shuttingDown, components, alive,
                   compsCopy, stopIdx, timedOut, count, stopped, stale>>

\* executeCallbacks(): copy callbacks_ under mutex_.
ExecuteCallbacksCopy ==
    /\ pc[Requester] = "copy" /\ hMutex = None
    /\ cbCopy' = callbacks /\ cbIdx' = 1
    /\ pc' = [pc EXCEPT ![Requester] = "call"]
    /\ UNCHANGED <<requested, callbacks, hMutex, cvWait, inFlight, accepting,
                   drainMutex, drainWait, shuttingDown, components, alive,
                   compsCopy, stopIdx, timedOut, count, stopped, stale>>

(* executeCallbacks(): call the copies in registration order (the one      *)
(* callback there is calls GracefulShutdown::shutdown()); then             *)
(* requestShutdown() notifies cv_.                                         *)
ExecuteCallbacksCall ==
    /\ pc[Requester] = "call"
    /\ IF cbIdx <= Len(cbCopy)
       THEN /\ pc' = [pc EXCEPT ![Requester] = "sd_cas"]
            /\ UNCHANGED <<cvWait, cbIdx>>
       ELSE /\ pc' = [pc EXCEPT ![Requester] = "done"]
            /\ cvWait' = {}
            /\ UNCHANGED cbIdx
    /\ UNCHANGED <<requested, callbacks, hMutex, inFlight, accepting,
                   drainMutex, drainWait, shuttingDown, components, alive,
                   cbCopy, compsCopy, stopIdx, timedOut, count, stopped, stale>>

\* --- InFlightGuard ---------------------------------------------------------

\* A request handler asks acceptingRequests() before it takes a guard.
Admit(w) ==
    /\ pc[w] = "idle" /\ accepting
    /\ pc' = [pc EXCEPT ![w] = "enter"]
    /\ UNCHANGED <<requested, callbacks, hMutex, cvWait, inFlight, accepting,
                   drainMutex, drainWait, shuttingDown, components, alive,
                   cbCopy, cbIdx, compsCopy, stopIdx, timedOut, count,
                   stopped, stale>>

\* InFlightGuard(): fetch_add(1).
GuardEnter(w) ==
    /\ pc[w] = "enter"
    /\ inFlight' = inFlight + 1
    /\ pc' = [pc EXCEPT ![w] = "busy"]
    /\ UNCHANGED <<requested, callbacks, hMutex, cvWait, accepting,
                   drainMutex, drainWait, shuttingDown, components, alive,
                   cbCopy, cbIdx, compsCopy, stopIdx, timedOut, count,
                   stopped, stale>>

\* Mutant of GuardExit: a guard released a second time.
GuardExitTwice(w) ==
    /\ pc[w] \in {"busy", "notify"}
    /\ inFlight' = inFlight - 1
    /\ count' = [count EXCEPT ![w] = inFlight - 1]
    /\ pc' = [pc EXCEPT ![w] = "notify"]
    /\ UNCHANGED <<requested, callbacks, hMutex, cvWait, accepting,
                   drainMutex, drainWait, shuttingDown, components, alive,
                   cbCopy, cbIdx, compsCopy, stopIdx, timedOut, stopped, stale>>

\* ~InFlightGuard(): count = fetch_sub(1) - 1.
GuardExit(w) ==
    /\ pc[w] = "busy"
    /\ inFlight' = inFlight - 1
    /\ count' = [count EXCEPT ![w] = inFlight - 1]
    /\ pc' = [pc EXCEPT ![w] = "notify"]
    /\ UNCHANGED <<requested, callbacks, hMutex, cvWait, accepting,
                   drainMutex, drainWait, shuttingDown, components, alive,
                   cbCopy, cbIdx, compsCopy, stopIdx, timedOut, stopped, stale>>

\* ~InFlightGuard(): if count is 0 and accepting_ is false, notify_all on
\* drain_cv_, without drain_mutex_.
GuardNotify(w) ==
    /\ pc[w] = "notify"
    /\ drainWait' = IF count[w] = 0 /\ ~accepting THEN {} ELSE drainWait
    /\ pc' = [pc EXCEPT ![w] = "idle"]
    /\ UNCHANGED <<requested, callbacks, hMutex, cvWait, inFlight, accepting,
                   drainMutex, shuttingDown, components, alive, cbCopy, cbIdx,
                   compsCopy, stopIdx, timedOut, count, stopped, stale>>

\* --- InFlightGuard::waitForDrain, run inside shutdown() ----------------------

\* accepting_.store(false), then lock drain_mutex_.
DrainStore(t) ==
    /\ pc[t] = "drain_store"
    /\ accepting' = FALSE
    /\ timedOut' = [timedOut EXCEPT ![t] = FALSE]
    /\ pc' = [pc EXCEPT ![t] = "drain_lock"]
    /\ UNCHANGED <<requested, callbacks, hMutex, cvWait, inFlight, drainMutex,
                   drainWait, shuttingDown, components, alive, cbCopy, cbIdx,
                   compsCopy, stopIdx, count, stopped, stale>>

\* Take drain_mutex_, at first or once woken or timed out.
DrainLock(t) ==
    /\ drainMutex = None
    /\ pc[t] = "drain_lock" \/ (pc[t] = "drain_blocked" /\ t \notin drainWait)
    /\ drainMutex' = t
    /\ pc' = [pc EXCEPT ![t] = "drain_check"]
    /\ UNCHANGED <<requested, callbacks, hMutex, cvWait, inFlight, accepting,
                   drainWait, shuttingDown, components, alive, cbCopy, cbIdx,
                   compsCopy, stopIdx, timedOut, count, stopped, stale>>

(* wait_for's predicate in_flight_count_ == 0, with drain_mutex_ held: it *)
(* returns when the predicate holds or the deadline has passed; the        *)
(* result is ignored by shutdown().                                        *)
DrainCheck(t) ==
    /\ pc[t] = "drain_check"
    /\ IF inFlight = 0 \/ timedOut[t]
       THEN pc' = [pc EXCEPT ![t] = "sd_copy"] /\ drainMutex' = None
       ELSE pc' = [pc EXCEPT ![t] = "drain_sleep"] /\ UNCHANGED drainMutex
    /\ UNCHANGED <<requested, callbacks, hMutex, cvWait, inFlight, accepting,
                   drainWait, shuttingDown, components, alive, cbCopy, cbIdx,
                   compsCopy, stopIdx, timedOut, count, stopped, stale>>

\* wait_for blocks: release drain_mutex_ and join drain_cv_'s wait set.
DrainSleep(t) ==
    /\ pc[t] = "drain_sleep"
    /\ drainMutex' = None
    /\ drainWait' = drainWait \cup {t}
    /\ pc' = [pc EXCEPT ![t] = "drain_blocked"]
    /\ UNCHANGED <<requested, callbacks, hMutex, cvWait, inFlight, accepting,
                   shuttingDown, components, alive, cbCopy, cbIdx, compsCopy,
                   stopIdx, timedOut, count, stopped, stale>>

\* Mutant of DrainTimeout: waitForDrain waits with no deadline.
DrainNoTimeout(t) == FALSE

\* wait_for's deadline passes while the thread is in the wait set.
DrainTimeout(t) ==
    /\ pc[t] = "drain_blocked" /\ t \in drainWait
    /\ drainWait' = drainWait \ {t}
    /\ timedOut' = [timedOut EXCEPT ![t] = TRUE]
    /\ UNCHANGED <<requested, callbacks, hMutex, cvWait, inFlight, accepting,
                   drainMutex, shuttingDown, components, alive, pc, cbCopy,
                   cbIdx, compsCopy, stopIdx, count, stopped, stale>>

\* --- GracefulShutdown --------------------------------------------------------

\* GracefulShutdown(): onShutdown([this]{ shutdown(); }) under mutex_.
Construct ==
    /\ pc[Owner] = "construct" /\ hMutex = None
    /\ callbacks' = Append(callbacks, "shutdown")
    /\ pc' = [pc EXCEPT ![Owner] = "owned"]
    /\ UNCHANGED <<requested, hMutex, cvWait, inFlight, accepting, drainMutex,
                   drainWait, shuttingDown, components, alive, cbCopy, cbIdx,
                   compsCopy, stopIdx, timedOut, count, stopped, stale>>

\* addComponent(): emplace_back under mutex_.
AddComponent ==
    /\ pc[Owner] = "owned"
    /\ \E c \in Comps \ SeqSet(components) :
          components' = Append(components, c)
    /\ UNCHANGED <<requested, callbacks, hMutex, cvWait, inFlight, accepting,
                   drainMutex, drainWait, shuttingDown, alive, pc, cbCopy,
                   cbIdx, compsCopy, stopIdx, timedOut, count, stopped, stale>>

\* ~GracefulShutdown(): shutdown() unless shutting_down_ is already set.
Destroy ==
    /\ pc[Owner] = "owned"
    /\ pc' = [pc EXCEPT ![Owner] = IF shuttingDown THEN "free" ELSE "sd_cas"]
    /\ UNCHANGED <<requested, callbacks, hMutex, cvWait, inFlight, accepting,
                   drainMutex, drainWait, shuttingDown, components, alive,
                   cbCopy, cbIdx, compsCopy, stopIdx, timedOut, count,
                   stopped, stale>>

\* The destructor returns and the object's storage is released; the
\* callback registered by the constructor stays in callbacks_.
Free ==
    /\ pc[Owner] = "free"
    /\ alive' = FALSE
    /\ pc' = [pc EXCEPT ![Owner] = "gone"]
    /\ UNCHANGED <<requested, callbacks, hMutex, cvWait, inFlight, accepting,
                   drainMutex, drainWait, shuttingDown, components, cbCopy,
                   cbIdx, compsCopy, stopIdx, timedOut, count, stopped, stale>>

\* Mutant of ShutdownCas: a load followed by a store.
ShutdownCheckThenSet(t) ==
    /\ pc[t] = "sd_cas"
    /\ shuttingDown' = TRUE
    /\ pc' = [pc EXCEPT ![t] = "drain_store"]
    /\ stale' = (stale \/ ~alive)
    /\ UNCHANGED <<requested, callbacks, hMutex, cvWait, inFlight, accepting,
                   drainMutex, drainWait, components, alive, cbCopy, cbIdx,
                   compsCopy, stopIdx, timedOut, count, stopped>>

(* shutdown(): compare_exchange_strong(false, true) on shutting_down_; the *)
(* thread that loses returns at once.  On a destroyed object this reads    *)
(* freed memory; the model lets it read the last value.                    *)
ShutdownCas(t) ==
    /\ pc[t] = "sd_cas"
    /\ shuttingDown' = TRUE
    /\ pc' = [pc EXCEPT ![t] = IF shuttingDown THEN AfterShutdown(t)
                                ELSE "drain_store"]
    /\ cbIdx' = IF t = Requester /\ shuttingDown THEN cbIdx + 1 ELSE cbIdx
    /\ stale' = (stale \/ ~alive)
    /\ UNCHANGED <<requested, callbacks, hMutex, cvWait, inFlight, accepting,
                   drainMutex, drainWait, components, alive, cbCopy,
                   compsCopy, stopIdx, timedOut, count, stopped>>

\* shutdown(): copy components_ under mutex_.
ShutdownCopy(t) ==
    /\ pc[t] = "sd_copy"
    /\ compsCopy' = [compsCopy EXCEPT ![t] = components]
    /\ stopIdx' = [stopIdx EXCEPT ![t] = Len(components)]
    /\ pc' = [pc EXCEPT ![t] = "sd_stop"]
    /\ stale' = (stale \/ ~alive)
    /\ UNCHANGED <<requested, callbacks, hMutex, cvWait, inFlight, accepting,
                   drainMutex, drainWait, shuttingDown, components, alive,
                   cbCopy, cbIdx, timedOut, count, stopped>>

\* shutdown(): call the copied shutdown functions from the last added to
\* the first, then return to the callback loop or the destructor.
ShutdownStop(t) ==
    /\ pc[t] = "sd_stop"
    /\ IF stopIdx[t] > 0
       THEN /\ stopped' = Append(stopped, compsCopy[t][stopIdx[t]])
            /\ stopIdx' = [stopIdx EXCEPT ![t] = @ - 1]
            /\ UNCHANGED <<pc, cbIdx>>
       ELSE /\ pc' = [pc EXCEPT ![t] = AfterShutdown(t)]
            /\ cbIdx' = IF t = Requester THEN cbIdx + 1 ELSE cbIdx
            /\ UNCHANGED <<stopped, stopIdx>>
    /\ UNCHANGED <<requested, callbacks, hMutex, cvWait, inFlight, accepting,
                   drainMutex, drainWait, shuttingDown, components, alive,
                   cbCopy, compsCopy, timedOut, count, stale>>

-----------------------------------------------------------------------------
\* The steps of shutdown() on thread t.
Shutdown(t) ==
    \/ ShutdownCas(t) \/ DrainStore(t) \/ DrainLock(t) \/ DrainCheck(t)
    \/ DrainSleep(t) \/ DrainTimeout(t) \/ ShutdownCopy(t) \/ ShutdownStop(t)

Next ==
    \/ WaitLock \/ WaitCheck \/ WaitSleep
    \/ RequestShutdown \/ ExecuteCallbacksCopy \/ ExecuteCallbacksCall
    \/ \E w \in Workers : Admit(w) \/ GuardEnter(w) \/ GuardExit(w) \/ GuardNotify(w)
    \/ Construct \/ AddComponent \/ Destroy \/ Free
    \/ \E t \in Drainers : Shutdown(t)

(* Every runnable thread is scheduled, a deadline passes, and a request    *)
(* in progress completes.  Raising the signal, admitting a request, adding *)
(* a component and destroying the object are choices, not obligations.    *)
Fairness ==
    /\ WF_vars(WaitLock) /\ WF_vars(WaitCheck) /\ WF_vars(WaitSleep)
    /\ WF_vars(ExecuteCallbacksCopy) /\ WF_vars(ExecuteCallbacksCall)
    /\ WF_vars(Construct) /\ WF_vars(Free)
    /\ \A w \in Workers : WF_vars(GuardEnter(w) \/ GuardExit(w) \/ GuardNotify(w))
    /\ \A t \in Drainers : WF_vars(Shutdown(t))

Spec == Init /\ [][Next]_vars /\ Fairness

-----------------------------------------------------------------------------
(* Properties.                                                             *)

Pcs == {"wait", "check", "sleep", "blocked", "done", "idle", "copy", "call",
        "construct", "owned", "free", "gone", "enter", "busy", "notify",
        "sd_cas", "drain_store", "drain_lock", "drain_check", "drain_sleep",
        "drain_blocked", "sd_copy", "sd_stop"}

TypeOK ==
    /\ requested \in BOOLEAN /\ accepting \in BOOLEAN
    /\ shuttingDown \in BOOLEAN /\ alive \in BOOLEAN /\ stale \in BOOLEAN
    /\ callbacks \in Seq({"shutdown"}) /\ cbCopy \in Seq({"shutdown"})
    /\ cbIdx \in Nat \ {0}
    /\ hMutex \in Threads \cup {None} /\ drainMutex \in Threads \cup {None}
    /\ cvWait \subseteq {Main} /\ drainWait \subseteq Drainers
    /\ inFlight \in 0 .. Cardinality(Workers)
    /\ components \in Seq(Comps) /\ stopped \in Seq(Comps)
    /\ pc \in [Threads -> Pcs]
    /\ compsCopy \in [Drainers -> Seq(Comps)]
    /\ stopIdx \in [Drainers -> Nat]
    /\ timedOut \in [Drainers -> BOOLEAN]
    /\ count \in [Workers -> Nat]

\* Once shutdown is requested, waitForShutdown() returns: requestShutdown()
\* sets the flag outside mutex_, and only executeCallbacks' lock keeps its
\* notify_all from falling between Main's check and Main's wait.
WaiterWakes == requested ~> pc[Main] = "done"

\* Once shutdown is requested, the signal handler returns having run every
\* callback, whatever the in-flight requests do: waitForDrain gives up at
\* its deadline even when ~InFlightGuard's notification was missed.
ShutdownCompletes == requested ~> pc[Requester] = "done"

\* Each component's shutdown function is called at most once, and in
\* reverse order of addComponent, although the signal handler's callback
\* and the destructor may both call shutdown() (spec 4.9: components stop
\* in reverse registration order).
StoppedOnceInReverse ==
    \A i, j \in 1 .. Len(stopped) :
        i < j => \E k, l \in 1 .. Len(components) :
                    /\ components[k] = stopped[i] /\ components[l] = stopped[j]
                    /\ k > l

\* No thread sleeps on drain_cv_ while nothing is in flight and no
\* ~InFlightGuard is about to notify: waitForDrain returns as soon as the
\* last request ends (spec 4.9: wait for the in-flight count to reach 0).
DrainWaitJustified ==
    \A t \in drainWait : inFlight > 0 \/ \E w \in Workers : pc[w] = "notify"

\* No member of the GracefulShutdown object is used after its destructor
\* has returned.
NoUseAfterDestroy == ~stale

\* Where a thread is between winning shutdown()'s compare-and-swap and
\* returning from it.
ShutdownPcs == {"drain_store", "drain_lock", "drain_check", "drain_sleep",
                "drain_blocked", "sd_copy", "sd_stop"}

\* s is the first Len(s) entries of c[1..n], last first.
ReversedPrefix(s, c, n) ==
    /\ n <= Len(c) /\ Len(s) <= n
    /\ \A i \in 1 .. Len(s) : s[i] = c[n + 1 - i]

\* shutdown() on t has stopped the last entries of its copy of components_,
\* and that copy is what components_ held when it was taken.
StopsSoFar(t) ==
    LET cc == compsCopy[t] IN
    /\ Len(cc) <= Len(components)
    /\ \A i \in 1 .. Len(cc) : cc[i] = components[i]
    /\ Len(stopped) = Len(cc) - stopIdx[t]
    /\ ReversedPrefix(stopped, cc, Len(cc))

\* The invariant the proofs of StoppedOnceInReverse and TypeOK rest on: the
\* in-flight counter counts the workers inside a guard; shutting_down_'s
\* compare-and-swap lets one thread at a time, and only the first, into
\* shutdown(); nothing is stopped before the winner copies components_;
\* and what is stopped is the reverse of a prefix of components_.
StopInv ==
    /\ inFlight = Cardinality({w \in Workers : pc[w] = "busy"})
    /\ \A t \in Drainers : stopIdx[t] <= Len(compsCopy[t])
    /\ ~shuttingDown => stopped = << >> /\ \A t \in Drainers : pc[t] \notin ShutdownPcs
    /\ \A t, u \in Drainers : pc[t] \in ShutdownPcs /\ pc[u] \in ShutdownPcs => t = u
    /\ \A t \in Drainers : pc[t] \in ShutdownPcs \ {"sd_stop"} => stopped = << >>
    /\ \A t \in Drainers : pc[t] = "sd_stop" => StopsSoFar(t)
    /\ \E n \in 0 .. Len(components) : ReversedPrefix(stopped, components, n)

=============================================================================
