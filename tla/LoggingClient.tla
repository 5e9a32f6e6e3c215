---------------------------- MODULE LoggingClient ----------------------------
(* LoggingClient::Impl (src/crypto/clients/logging_client.cpp): a bounded  *)
(* queue of log entries under buffer_mutex, a background flush thread, and *)
(* do_flush, which takes at most batch_size entries under the mutex and    *)
(* sends them after releasing it.  do_flush runs on the flush thread, on   *)
(* any client thread that calls flush(), and once more in the destructor.  *)
(* Entries are numbered in the order enqueue accepts them; the level       *)
(* filter of log() changes no state when it rejects an entry and is left   *)
(* out.                                                                    *)
EXTENDS Naturals, Sequences, FiniteSets

CONSTANTS
    Clients,          \* threads calling log() and flush()
    FlushThread,      \* Impl::flush_thread
    Destructor,       \* the thread running ~Impl
    MaxEntries,       \* log() calls in a behaviour
    BatchSize,        \* config.batch_size
    BufferSize,       \* config.buffer_size
    FallbackEnabled   \* config.fallback_enabled

\* ConfigLoader::validate rejects batch_size 0; buffer_size is never read
\* from the environment and keeps its default of 10000.
ASSUME ConstantsAssumption ==
    /\ IsFiniteSet(Clients)
    /\ FlushThread \notin Clients
    /\ Destructor \notin Clients \cup {FlushThread}
    /\ MaxEntries \in Nat
    /\ BatchSize \in Nat \ {0}
    /\ BufferSize \in Nat \ {0}
    /\ FallbackEnabled \in BOOLEAN

Entries == 1 .. MaxEntries

Flushers == Clients \cup {FlushThread, Destructor}

Pcs == {"idle", "send", "loop", "wait", "take", "done", "alive", "join", "gone"}

VARIABLES
    buffer,        \* Impl::buffer
    nextEntry,     \* the number the next accepted entry gets
    droppedCount,  \* Impl::dropped_count
    connected,     \* Impl::connected
    running,       \* Impl::running
    pc,            \* where each flusher is
    batch,         \* do_flush's local batch, per flusher
    delivered,     \* entries sent, or printed by the console fallback
    dropped,       \* entries evicted by enqueue
    lost,          \* entries of a failed send without fallback
    flushWant      \* the entries buffered when a client's flush() began

vars == <<buffer, nextEntry, droppedCount, connected, running, pc, batch,
          delivered, dropped, lost, flushWant>>

SeqSet(s) == {s[i] : i \in 1 .. Len(s)}

Buffered == SeqSet(buffer)

\* The entries taken by do_flush and not yet sent.
InFlight == UNION {SeqSet(batch[f]) : f \in Flushers}

\* Where do_flush returns to on each thread.
Return(f) == IF f \in Clients THEN "idle"
             ELSE IF f = FlushThread THEN "loop" ELSE "gone"

-----------------------------------------------------------------------------
Init ==
    /\ buffer = << >>
    /\ nextEntry = 1
    /\ droppedCount = 0
    /\ connected = FALSE
    /\ running = TRUE
    /\ pc = [f \in Flushers |-> IF f \in Clients THEN "idle"
                                ELSE IF f = FlushThread THEN "loop" ELSE "alive"]
    /\ batch = [f \in Flushers |-> << >>]
    /\ delivered = {} /\ dropped = {} /\ lost = {}
    /\ flushWant = [c \in Clients |-> {}]

\* Mutant of Log: evicts only once the buffer is over its size.
LogLateEviction(c) ==
    /\ pc[c] = "idle" /\ pc[Destructor] = "alive" /\ nextEntry <= MaxEntries
    /\ IF Len(buffer) > BufferSize
       THEN /\ buffer' = Append(Tail(buffer), nextEntry)
            /\ dropped' = dropped \cup {Head(buffer)}
            /\ droppedCount' = droppedCount + 1
       ELSE /\ buffer' = Append(buffer, nextEntry)
            /\ UNCHANGED <<dropped, droppedCount>>
    /\ nextEntry' = nextEntry + 1
    /\ UNCHANGED <<connected, running, pc, batch, delivered, lost, flushWant>>

\* Mutant of Log: the evicted entry is not counted.
LogUncounted(c) ==
    /\ pc[c] = "idle" /\ pc[Destructor] = "alive" /\ nextEntry <= MaxEntries
    /\ IF Len(buffer) >= BufferSize
       THEN /\ buffer' = Append(Tail(buffer), nextEntry)
            /\ dropped' = dropped \cup {Head(buffer)}
            /\ UNCHANGED droppedCount
       ELSE /\ buffer' = Append(buffer, nextEntry)
            /\ UNCHANGED <<dropped, droppedCount>>
    /\ nextEntry' = nextEntry + 1
    /\ UNCHANGED <<connected, running, pc, batch, delivered, lost, flushWant>>

(* log() -> Impl::enqueue: under buffer_mutex, drop the oldest entry while *)
(* the buffer holds buffer_size or more, push the new one, and notify the  *)
(* flush thread once batch_size are buffered (the notification only cuts   *)
(* short a wait that times out anyway).  Clients stop calling once the     *)
(* client is being destroyed.                                              *)
Log(c) ==
    /\ pc[c] = "idle" /\ pc[Destructor] = "alive" /\ nextEntry <= MaxEntries
    /\ IF Len(buffer) >= BufferSize
       THEN /\ buffer' = Append(Tail(buffer), nextEntry)
            /\ dropped' = dropped \cup {Head(buffer)}
            /\ droppedCount' = droppedCount + 1
       ELSE /\ buffer' = Append(buffer, nextEntry)
            /\ UNCHANGED <<dropped, droppedCount>>
    /\ nextEntry' = nextEntry + 1
    /\ UNCHANGED <<connected, running, pc, batch, delivered, lost, flushWant>>

(* do_flush, under buffer_mutex: pop at most batch_size entries from the   *)
(* front; an empty batch returns at once.                                  *)
TakeBatch(f) ==
    LET n == IF Len(buffer) < BatchSize THEN Len(buffer) ELSE BatchSize
    IN  /\ batch' = [batch EXCEPT ![f] = SubSeq(buffer, 1, n)]
        /\ buffer' = SubSeq(buffer, n + 1, Len(buffer))
        /\ pc' = [pc EXCEPT ![f] = IF n = 0 THEN Return(f) ELSE "send"]

\* Mutant of SendBatch: the batch is delivered but not cleared.
SendBatchKeep(f) ==
    /\ pc[f] = "send"
    /\ \/ /\ connected' = TRUE
          /\ delivered' = delivered \cup SeqSet(batch[f])
          /\ UNCHANGED lost
       \/ /\ connected' = FALSE
          /\ IF FallbackEnabled
             THEN /\ delivered' = delivered \cup SeqSet(batch[f])
                  /\ UNCHANGED lost
             ELSE /\ lost' = lost \cup SeqSet(batch[f])
                  /\ UNCHANGED delivered
    /\ pc' = [pc EXCEPT ![f] = Return(f)]
    /\ flushWant' = IF f \in Clients THEN [flushWant EXCEPT ![f] = {}] ELSE flushWant
    /\ UNCHANGED <<buffer, nextEntry, droppedCount, running, dropped, batch>>

(* do_flush after the mutex: send_batch asks the channel for its state; a *)
(* READY or IDLE channel counts as sent and sets connected, any other      *)
(* state clears connected and fails, and a failed batch is printed to the  *)
(* console when the fallback is enabled.                                   *)
SendBatch(f) ==
    /\ pc[f] = "send"
    /\ \/ /\ connected' = TRUE
          /\ delivered' = delivered \cup SeqSet(batch[f])
          /\ UNCHANGED lost
       \/ /\ connected' = FALSE
          /\ IF FallbackEnabled
             THEN /\ delivered' = delivered \cup SeqSet(batch[f])
                  /\ UNCHANGED lost
             ELSE /\ lost' = lost \cup SeqSet(batch[f])
                  /\ UNCHANGED delivered
    /\ batch' = [batch EXCEPT ![f] = << >>]
    /\ pc' = [pc EXCEPT ![f] = Return(f)]
    /\ flushWant' = IF f \in Clients THEN [flushWant EXCEPT ![f] = {}] ELSE flushWant
    /\ UNCHANGED <<buffer, nextEntry, droppedCount, running, dropped>>

\* LoggingClient::flush() runs do_flush on the caller's thread.
Flush(c) ==
    /\ pc[c] = "idle" /\ pc[Destructor] = "alive"
    /\ TakeBatch(c)
    /\ flushWant' = [flushWant EXCEPT ![c] = Buffered]
    /\ UNCHANGED <<nextEntry, droppedCount, connected, running, delivered,
                   dropped, lost>>

\* flush_loop: while (running) ...
FlushLoop ==
    /\ pc[FlushThread] = "loop"
    /\ pc' = [pc EXCEPT ![FlushThread] = IF running THEN "wait" ELSE "done"]
    /\ UNCHANGED <<buffer, nextEntry, droppedCount, connected, running, batch,
                   delivered, dropped, lost, flushWant>>

\* Mutant of FlushWait: a wait without the timeout, woken only by the
\* predicate.
FlushWaitNoTimeout ==
    /\ pc[FlushThread] = "wait"
    /\ ~running \/ Len(buffer) >= BatchSize
    /\ pc' = [pc EXCEPT ![FlushThread] = IF buffer # << >> THEN "take" ELSE "loop"]
    /\ UNCHANGED <<buffer, nextEntry, droppedCount, connected, running, batch,
                   delivered, dropped, lost, flushWant>>

(* flush_loop: wait_for(flush_interval) returns once the predicate holds   *)
(* or the interval has passed, either way with buffer_mutex held; a        *)
(* non-empty buffer is flushed after the mutex is released.                *)
FlushWait ==
    /\ pc[FlushThread] = "wait"
    /\ pc' = [pc EXCEPT ![FlushThread] = IF buffer # << >> THEN "take" ELSE "loop"]
    /\ UNCHANGED <<buffer, nextEntry, droppedCount, connected, running, batch,
                   delivered, dropped, lost, flushWant>>

\* flush_loop's do_flush, and the destructor's final one.
FlushTake(f) ==
    /\ f \in {FlushThread, Destructor} /\ pc[f] = "take"
    /\ TakeBatch(f)
    /\ UNCHANGED <<nextEntry, droppedCount, connected, running, delivered,
                   dropped, lost, flushWant>>

(* ~Impl: running = false and notify_all.  The owner destroys the client   *)
(* only when no thread uses it any more.                                   *)
DestructorStop ==
    /\ pc[Destructor] = "alive" /\ \A c \in Clients : pc[c] = "idle"
    /\ running' = FALSE
    /\ pc' = [pc EXCEPT ![Destructor] = "join"]
    /\ UNCHANGED <<buffer, nextEntry, droppedCount, connected, batch,
                   delivered, dropped, lost, flushWant>>

\* ~Impl: flush_thread.join(), then the final do_flush.
DestructorJoin ==
    /\ pc[Destructor] = "join" /\ pc[FlushThread] = "done"
    /\ pc' = [pc EXCEPT ![Destructor] = "take"]
    /\ UNCHANGED <<buffer, nextEntry, droppedCount, connected, running, batch,
                   delivered, dropped, lost, flushWant>>

\* The steps of the flush thread and of the destructor.
Background ==
    \/ FlushLoop \/ FlushWait
    \/ FlushTake(FlushThread) \/ SendBatch(FlushThread)
    \/ DestructorStop \/ DestructorJoin
    \/ FlushTake(Destructor) \/ SendBatch(Destructor)

Next ==
    \/ \E c \in Clients : Log(c) \/ Flush(c) \/ SendBatch(c)
    \/ Background

(* The flush thread's wait_for times out, and the scheduler runs every     *)
(* runnable thread: the flush thread, the destructor once started, and a   *)
(* client inside flush() keep taking steps.                                *)
Fairness ==
    /\ WF_vars(FlushLoop) /\ WF_vars(FlushWait)
    /\ WF_vars(FlushTake(FlushThread)) /\ WF_vars(SendBatch(FlushThread))
    /\ WF_vars(DestructorJoin) /\ WF_vars(FlushTake(Destructor))
    /\ WF_vars(SendBatch(Destructor))
    /\ \A c \in Clients : WF_vars(SendBatch(c))

Spec == Init /\ [][Next]_vars /\ Fairness

-----------------------------------------------------------------------------
(* Properties.                                                             *)

TypeOK ==
    /\ buffer \in Seq(Entries) /\ Len(buffer) <= BufferSize
    /\ nextEntry \in 1 .. MaxEntries + 1
    /\ droppedCount \in Nat
    /\ connected \in BOOLEAN /\ running \in BOOLEAN
    /\ pc \in [Flushers -> Pcs]
    /\ batch \in [Flushers -> Seq(Entries)]
    /\ delivered \subseteq Entries /\ dropped \subseteq Entries /\ lost \subseteq Entries
    /\ flushWant \in [Clients -> SUBSET Entries]

\* Every entry log() has accepted is in exactly one place: buffered, in a
\* batch being sent, delivered, dropped or lost; and dropped_count() counts
\* exactly the dropped ones (enqueue's eviction against concurrent
\* do_flush calls on three kinds of thread).
Accounted ==
    LET places == <<Buffered, InFlight, delivered, dropped, lost>>
    IN  /\ UNION {places[i] : i \in 1 .. 5} = 1 .. nextEntry - 1
        /\ \A i, j \in 1 .. 5 : i # j => places[i] \cap places[j] = {}
        /\ \A f, g \in Flushers : f # g => SeqSet(batch[f]) \cap SeqSet(batch[g]) = {}
        /\ droppedCount = Cardinality(dropped)

\* The client implements the delivery contract of LogDelivery: the entries
\* held are the buffered and the in-flight ones.
LD == INSTANCE LogDelivery WITH
        logged <- nextEntry - 1, pending <- Buffered \cup InFlight

ImplementsLogDelivery == LD!Spec

\* While the client runs, every entry it holds is eventually handed on: the
\* flush thread's timed wait flushes what never fills a batch.
Drained ==
    \A e \in Entries :
        (e \in Buffered \cup InFlight) ~> (e \notin Buffered \cup InFlight \/ ~running)

\* When flush() returns, none of the entries buffered when it was called is
\* still buffered (logging_client.h: "Flush all buffered log entries";
\* logging_properties_test expects pending_count() == 0 after flush()).
FlushEmptiesBuffer ==
    [][\A c \in Clients :
          pc[c] = "send" /\ pc'[c] = "idle" => flushWant[c] \cap Buffered' = {}]_vars

\* Once the client is destroyed no entry is left buffered (logging_client.h:
\* "Destructor - flushes pending logs").
ShutdownFlushesAll ==
    pc[Destructor] = "gone" => Buffered \cup InFlight = {}
=============================================================================
