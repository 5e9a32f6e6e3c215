------------------------- MODULE LoggingClientProofs -------------------------
(***************************************************************************)
(* Proofs about the logging client model: every accepted entry is in       *)
(* exactly one place (Accounted), and the client implements the delivery   *)
(* contract LogDelivery under the refinement mapping LD.                   *)
(***************************************************************************)
EXTENDS LoggingClient, FiniteSetTheorems, TLAPS

\* No entry occurs twice in a queue or a batch.
Distinct(s) == \A i, j \in 1 .. Len(s) : i # j => s[i] # s[j]

-----------------------------------------------------------------------------
(* The queue operations of enqueue and do_flush.                           *)

\* push appends one entry to the set of queued entries.
LEMMA SeqSetAppend ==
    ASSUME NEW S, NEW s \in Seq(S), NEW x
    PROVE  SeqSet(Append(s, x)) = SeqSet(s) \cup {x}
BY DEF SeqSet

\* push of an entry not queued keeps the queue duplicate-free.
LEMMA AppendDistinct ==
    ASSUME NEW S, NEW s \in Seq(S), NEW x, Distinct(s), x \notin SeqSet(s)
    PROVE  Distinct(Append(s, x))
BY DEF Distinct, SeqSet

\* pop removes the front entry, and only that one.
LEMMA SeqSetTail ==
    ASSUME NEW S, NEW s \in Seq(S), s # << >>, Distinct(s)
    PROVE  /\ Tail(s) \in Seq(S)
           /\ Head(s) \in SeqSet(s)
           /\ SeqSet(Tail(s)) = SeqSet(s) \ {Head(s)}
           /\ Distinct(Tail(s))
           /\ Len(Tail(s)) = Len(s) - 1
<1>1. Tail(s) \in Seq(S) /\ Len(Tail(s)) = Len(s) - 1
  OBVIOUS
<1>2. \A i \in 1 .. Len(s) - 1 : Tail(s)[i] = s[i + 1]
  OBVIOUS
<1>3. Head(s) \in SeqSet(s)
  BY DEF SeqSet
<1>4. SeqSet(Tail(s)) = SeqSet(s) \ {Head(s)}
  BY <1>1, <1>2 DEF SeqSet, Distinct
<1>5. Distinct(Tail(s))
  BY <1>1, <1>2 DEF Distinct
<1>. QED  BY <1>1, <1>3, <1>4, <1>5

\* do_flush splits the queue into the batch it takes and the rest.
LEMMA SeqSetSplit ==
    ASSUME NEW S, NEW s \in Seq(S), NEW n \in 0 .. Len(s), Distinct(s)
    PROVE  /\ SubSeq(s, 1, n) \in Seq(S)
           /\ SubSeq(s, n + 1, Len(s)) \in Seq(S)
           /\ Len(SubSeq(s, n + 1, Len(s))) = Len(s) - n
           /\ SubSeq(s, 1, n) = << >> <=> n = 0
           /\ SeqSet(SubSeq(s, 1, n)) \cup SeqSet(SubSeq(s, n + 1, Len(s))) = SeqSet(s)
           /\ SeqSet(SubSeq(s, 1, n)) \cap SeqSet(SubSeq(s, n + 1, Len(s))) = {}
           /\ Distinct(SubSeq(s, n + 1, Len(s)))
<1>1. SubSeq(s, 1, n) \in Seq(S) /\ Len(SubSeq(s, 1, n)) = n /\ \A i \in 1 .. n : SubSeq(s, 1, n)[i] = s[i]
  OBVIOUS
<1>2. SubSeq(s, n + 1, Len(s)) \in Seq(S) /\ Len(SubSeq(s, n + 1, Len(s))) = Len(s) - n /\ \A i \in 1 .. Len(s) - n : SubSeq(s, n + 1, Len(s))[i] = s[i + n]
  OBVIOUS
<1>3. SubSeq(s, 1, n) = << >> <=> n = 0
  BY <1>1
<1>4. SeqSet(SubSeq(s, 1, n)) \cup SeqSet(SubSeq(s, n + 1, Len(s))) = SeqSet(s)
  <2>1. SeqSet(SubSeq(s, 1, n)) \cup SeqSet(SubSeq(s, n + 1, Len(s))) \subseteq SeqSet(s)
    BY <1>1, <1>2 DEF SeqSet
  <2>2. ASSUME NEW i \in 1 .. Len(s) PROVE s[i] \in SeqSet(SubSeq(s, 1, n)) \cup SeqSet(SubSeq(s, n + 1, Len(s)))
    <3>1. CASE i <= n
      BY <1>1, <3>1 DEF SeqSet
    <3>2. CASE i > n
      <4>1. i - n \in 1 .. Len(s) - n /\ SubSeq(s, n + 1, Len(s))[i - n] = s[i]
        BY <1>2, <3>2
      <4>. QED  BY <4>1, <1>2 DEF SeqSet
    <3>. QED  BY <3>1, <3>2
  <2>. QED  BY <2>1, <2>2 DEF SeqSet
<1>5. SeqSet(SubSeq(s, 1, n)) \cap SeqSet(SubSeq(s, n + 1, Len(s))) = {}
  BY <1>1, <1>2 DEF SeqSet, Distinct
<1>6. Distinct(SubSeq(s, n + 1, Len(s)))
  BY <1>2 DEF Distinct
<1>. QED  BY <1>1, <1>2, <1>3, <1>4, <1>5, <1>6

-----------------------------------------------------------------------------
(* The batches in flight.                                                  *)

\* The entries in the batches of the flushers other than f.
Others(b, f) == UNION {SeqSet(b[g]) : g \in Flushers \ {f}}

\* The batches of distinct flushers share no entry.
BatchesDisjoint(b) ==
    \A f, g \in Flushers : f # g => SeqSet(b[f]) \cap SeqSet(b[g]) = {}

\* Replacing flusher f's batch changes only f's share of the entries in
\* flight.
LEMMA InFlightExcept ==
    ASSUME NEW b, NEW f \in Flushers, NEW s, b \in [Flushers -> Seq(Entries)]
    PROVE  /\ UNION {SeqSet(b[g]) : g \in Flushers} = Others(b, f) \cup SeqSet(b[f])
           /\ UNION {SeqSet([b EXCEPT ![f] = s][g]) : g \in Flushers}
                 = Others(b, f) \cup SeqSet(s)
           /\ Others([b EXCEPT ![f] = s], f) = Others(b, f)
BY DEF Others

\* With disjoint batches, f's batch shares nothing with the other batches.
LEMMA OthersDisjoint ==
    ASSUME NEW b, NEW f \in Flushers, BatchesDisjoint(b)
    PROVE  SeqSet(b[f]) \cap Others(b, f) = {}
BY DEF Others, BatchesDisjoint

-----------------------------------------------------------------------------
(* The inductive invariant.                                                *)

\* Accounted, with the places and the pairs of places spelt out.
Parts ==
    /\ Buffered \cup InFlight \cup delivered \cup dropped \cup lost = 1 .. nextEntry - 1
    /\ Buffered \cap InFlight = {} /\ Buffered \cap delivered = {}
    /\ Buffered \cap dropped = {} /\ Buffered \cap lost = {}
    /\ InFlight \cap delivered = {} /\ InFlight \cap dropped = {}
    /\ InFlight \cap lost = {}
    /\ delivered \cap dropped = {} /\ delivered \cap lost = {}
    /\ dropped \cap lost = {}
    /\ BatchesDisjoint(batch)
    /\ droppedCount = Cardinality(dropped)

LEMMA PartsAccounted == Parts <=> Accounted
<1> DEFINE P == <<Buffered, InFlight, delivered, dropped, lost>>
<1>1. 1 .. 5 = {1, 2, 3, 4, 5}
  OBVIOUS
<1>2. UNION {P[i] : i \in 1 .. 5} = Buffered \cup InFlight \cup delivered \cup dropped \cup lost
  BY <1>1
<1>3. (\A i, j \in 1 .. 5 : i # j => P[i] \cap P[j] = {})
      <=> /\ Buffered \cap InFlight = {} /\ Buffered \cap delivered = {}
          /\ Buffered \cap dropped = {} /\ Buffered \cap lost = {}
          /\ InFlight \cap delivered = {} /\ InFlight \cap dropped = {}
          /\ InFlight \cap lost = {}
          /\ delivered \cap dropped = {} /\ delivered \cap lost = {}
          /\ dropped \cap lost = {}
  BY <1>1
<1>. QED  BY <1>2, <1>3 DEF Parts, Accounted, BatchesDisjoint

(* Accounted is not inductive: eviction needs the queue to be free of     *)
(* duplicates, and do_flush needs a flusher's batch to be empty unless it *)
(* is about to send it, and non-empty when it is.                         *)
IInv ==
    /\ TypeOK
    /\ Parts
    /\ Distinct(buffer)
    /\ \A f \in Flushers : pc[f] = "send" <=> batch[f] # << >>
    /\ IsFiniteSet(dropped)

LEMMA InitInv == Init => IInv
<1> SUFFICES ASSUME Init PROVE IInv
  OBVIOUS
<1>1. TypeOK
  <2>1. pc \in [Flushers -> Pcs]
    BY DEF Init, Pcs
  <2>2. batch \in [Flushers -> Seq(Entries)] /\ flushWant \in [Clients -> SUBSET Entries]
    BY DEF Init
  <2>3. buffer \in Seq(Entries) /\ Len(buffer) <= BufferSize
    BY ConstantsAssumption DEF Init
  <2>4. nextEntry \in 1 .. MaxEntries + 1 /\ droppedCount \in Nat
    BY ConstantsAssumption DEF Init
  <2>. QED  BY <2>1, <2>2, <2>3, <2>4 DEF Init, TypeOK
<1>2. Buffered = {} /\ InFlight = {}
  BY DEF Init, Buffered, InFlight, SeqSet
<1>3. Parts
  <2>1. \A f \in Flushers : SeqSet(batch[f]) = {}
    BY DEF Init, SeqSet
  <2>2. 1 .. nextEntry - 1 = {}
    BY DEF Init
  <2>3. Cardinality(dropped) = 0
    BY FS_EmptySet DEF Init
  <2>. QED  BY <1>2, <2>1, <2>2, <2>3 DEF Init, Parts, BatchesDisjoint
<1>4. \A f \in Flushers : pc[f] = "send" <=> batch[f] # << >>
  BY DEF Init
<1>. QED  BY <1>1, <1>3, <1>4, FS_EmptySet DEF IInv, Init, Distinct

-----------------------------------------------------------------------------
(* One lemma per action: it keeps IInv and maps to a step of LogDelivery.  *)

\* The batches, the outcome sets and the flushers' places are untouched.
Quiet == UNCHANGED <<batch, delivered, lost, pc>>

\* enqueue, with or without eviction, is LogDelivery's Log.
LEMMA LogStep ==
    ASSUME IInv, NEW c \in Clients, Log(c)
    PROVE  IInv' /\ LD!Log
<1>0. /\ TypeOK /\ Parts /\ Distinct(buffer) /\ IsFiniteSet(dropped)
      /\ \A f \in Flushers : pc[f] = "send" <=> batch[f] # << >>
  BY DEF IInv
<1>1. /\ nextEntry \in 1 .. MaxEntries /\ nextEntry' = nextEntry + 1
      /\ Quiet /\ UNCHANGED <<connected, running, flushWant>>
  BY <1>0 DEF Log, Quiet, TypeOK
<1>2. InFlight' = InFlight /\ BatchesDisjoint(batch') = BatchesDisjoint(batch)
  BY <1>1 DEF InFlight, Quiet, BatchesDisjoint
<1>3. nextEntry \notin Buffered \cup InFlight \cup delivered \cup dropped \cup lost
  BY <1>0 DEF Parts
<1>4. nextEntry \in Entries
  BY <1>1 DEF Entries
<1>5. CASE Len(buffer) >= BufferSize
  <2>1. buffer # << >>
    BY <1>0, <1>5, ConstantsAssumption DEF TypeOK
  <2>2. /\ Tail(buffer) \in Seq(Entries)
        /\ Head(buffer) \in Buffered
        /\ SeqSet(Tail(buffer)) = Buffered \ {Head(buffer)}
        /\ Distinct(Tail(buffer))
        /\ Len(Tail(buffer)) = Len(buffer) - 1
    BY <1>0, <2>1, SeqSetTail DEF TypeOK, Buffered
  <2>3. /\ buffer' = Append(Tail(buffer), nextEntry)
        /\ dropped' = dropped \cup {Head(buffer)}
        /\ droppedCount' = droppedCount + 1
    BY <1>5 DEF Log
  <2>4. Buffered' = (Buffered \ {Head(buffer)}) \cup {nextEntry}
    BY <2>2, <2>3, SeqSetAppend DEF Buffered
  <2>5. Head(buffer) \notin InFlight \cup delivered \cup dropped \cup lost
    BY <1>0, <2>2 DEF Parts
  <2>6. TypeOK'
    <3>1. buffer' \in Seq(Entries) /\ Len(buffer') <= BufferSize
      BY <1>0, <1>4, <2>2, <2>3 DEF TypeOK
    <3>2. dropped' \subseteq Entries
      BY <1>0, <2>2, <2>3 DEF TypeOK, Buffered, SeqSet
    <3>3. nextEntry' \in 1 .. MaxEntries + 1 /\ droppedCount' \in Nat
      BY <1>0, <1>1, <2>3, ConstantsAssumption DEF TypeOK
    <3>4. /\ pc' \in [Flushers -> Pcs] /\ batch' \in [Flushers -> Seq(Entries)]
          /\ delivered' \subseteq Entries /\ lost' \subseteq Entries
          /\ connected' \in BOOLEAN /\ running' \in BOOLEAN
          /\ flushWant' \in [Clients -> SUBSET Entries]
      BY <1>0, <1>1 DEF TypeOK, Quiet
    <3>. QED  BY <3>1, <3>2, <3>3, <3>4 DEF TypeOK
  <2>7. Cardinality(dropped') = Cardinality(dropped) + 1 /\ IsFiniteSet(dropped')
    BY <1>0, <2>3, <2>5, FS_AddElement
  <2>8. Parts'
    <3>1. Buffered' \cup InFlight' \cup delivered' \cup dropped' \cup lost'
            = 1 .. nextEntry' - 1
      BY <1>0, <1>1, <1>2, <2>2, <2>3, <2>4 DEF Parts, Quiet
    <3>2. /\ Buffered' \cap InFlight' = {} /\ Buffered' \cap delivered' = {}
          /\ Buffered' \cap dropped' = {} /\ Buffered' \cap lost' = {}
      BY <1>0, <1>1, <1>2, <1>3, <2>2, <2>3, <2>4 DEF Parts, Quiet
    <3>3. /\ InFlight' \cap delivered' = {} /\ InFlight' \cap dropped' = {}
          /\ InFlight' \cap lost' = {}
          /\ delivered' \cap dropped' = {} /\ delivered' \cap lost' = {}
          /\ dropped' \cap lost' = {}
      BY <1>0, <1>1, <1>2, <2>3, <2>5 DEF Parts, Quiet
    <3>. QED  BY <1>0, <1>2, <2>3, <2>7, <3>1, <3>2, <3>3 DEF Parts
  <2>9. Distinct(buffer')
    BY <1>3, <2>2, <2>3, AppendDistinct
  <2>10. LD!Log
    <3>1. (Buffered \cup InFlight)' = ((Buffered \cup InFlight) \ {Head(buffer)}) \cup {nextEntry}
      BY <1>2, <2>4, <2>5
    <3>2. /\ nextEntry - 1 < MaxEntries
          /\ (nextEntry - 1)' = (nextEntry - 1) + 1
          /\ Head(buffer) \in Buffered \cup InFlight
      BY <1>1, <2>2, ConstantsAssumption
    <3>3. \E d \in Buffered \cup InFlight :
             /\ (Buffered \cup InFlight)' = ((Buffered \cup InFlight) \ {d}) \cup {(nextEntry - 1) + 1}
             /\ dropped' = dropped \cup {d}
             /\ droppedCount' = droppedCount + 1
      BY <1>1, <2>3, <3>1, <3>2
    <3>. QED  BY <1>1, <3>2, <3>3 DEF LD!Log, Quiet
  <2>. QED  BY <1>0, <1>1, <2>6, <2>7, <2>8, <2>9, <2>10 DEF IInv, Quiet
<1>6. CASE ~(Len(buffer) >= BufferSize)
  <2>1. /\ buffer' = Append(buffer, nextEntry)
        /\ UNCHANGED <<dropped, droppedCount>>
    BY <1>6 DEF Log
  <2>2. Buffered' = Buffered \cup {nextEntry}
    BY <1>0, <2>1, SeqSetAppend DEF Buffered, TypeOK
  <2>3. TypeOK'
    <3>1. buffer' \in Seq(Entries) /\ Len(buffer') <= BufferSize
      BY <1>0, <1>4, <1>6, <2>1, ConstantsAssumption DEF TypeOK
    <3>3. nextEntry' \in 1 .. MaxEntries + 1 /\ droppedCount' \in Nat
      BY <1>0, <1>1, <2>1, ConstantsAssumption DEF TypeOK
    <3>4. /\ pc' \in [Flushers -> Pcs] /\ batch' \in [Flushers -> Seq(Entries)]
          /\ delivered' \subseteq Entries /\ lost' \subseteq Entries
          /\ dropped' \subseteq Entries
          /\ connected' \in BOOLEAN /\ running' \in BOOLEAN
          /\ flushWant' \in [Clients -> SUBSET Entries]
      BY <1>0, <1>1, <2>1 DEF TypeOK, Quiet
    <3>. QED  BY <3>1, <3>3, <3>4 DEF TypeOK
  <2>4. Parts'
    <3>1. Buffered' \cup InFlight' \cup delivered' \cup dropped' \cup lost'
            = 1 .. nextEntry' - 1
      BY <1>0, <1>1, <1>2, <2>1, <2>2 DEF Parts, Quiet
    <3>2. /\ Buffered' \cap InFlight' = {} /\ Buffered' \cap delivered' = {}
          /\ Buffered' \cap dropped' = {} /\ Buffered' \cap lost' = {}
      BY <1>0, <1>1, <1>2, <1>3, <2>1, <2>2 DEF Parts, Quiet
    <3>. QED  BY <1>0, <1>1, <1>2, <2>1, <3>1, <3>2 DEF Parts, Quiet
  <2>5. Distinct(buffer')
    BY <1>0, <1>3, <2>1, AppendDistinct DEF TypeOK, Buffered
  <2>6. LD!Log
    <3>1. /\ nextEntry - 1 < MaxEntries
          /\ (nextEntry - 1)' = (nextEntry - 1) + 1
          /\ (Buffered \cup InFlight)' = (Buffered \cup InFlight) \cup {(nextEntry - 1) + 1}
      BY <1>1, <1>2, <2>2, ConstantsAssumption
    <3>. QED  BY <1>1, <2>1, <3>1 DEF LD!Log, Quiet
  <2>. QED  BY <1>0, <1>1, <2>1, <2>3, <2>4, <2>5, <2>6 DEF IInv, Quiet
<1>. QED  BY <1>5, <1>6

\* do_flush's take moves a prefix of the queue into f's empty batch: the
\* held entries stay the same, and f sends next exactly when it took some.
LEMMA TakeBatchStep ==
    ASSUME IInv, NEW f \in Flushers, pc[f] # "send", TakeBatch(f),
           UNCHANGED <<nextEntry, droppedCount, delivered, dropped, lost>>
    PROVE  /\ Parts' /\ Distinct(buffer')
           /\ \A g \in Flushers : pc'[g] = "send" <=> batch'[g] # << >>
           /\ buffer' \in Seq(Entries) /\ Len(buffer') <= BufferSize
           /\ batch' \in [Flushers -> Seq(Entries)] /\ pc' \in [Flushers -> Pcs]
           /\ (Buffered \cup InFlight)' = Buffered \cup InFlight
<1> DEFINE n == IF Len(buffer) < BatchSize THEN Len(buffer) ELSE BatchSize
<1> DEFINE taken == SubSeq(buffer, 1, n)
<1> DEFINE rest == SubSeq(buffer, n + 1, Len(buffer))
<1>0. /\ TypeOK /\ Parts /\ Distinct(buffer)
      /\ \A g \in Flushers : pc[g] = "send" <=> batch[g] # << >>
  BY DEF IInv
<1>1. n \in 0 .. Len(buffer)
  BY ConstantsAssumption
<1>2. /\ batch' = [batch EXCEPT ![f] = taken]
      /\ buffer' = rest
      /\ pc' = [pc EXCEPT ![f] = IF n = 0 THEN Return(f) ELSE "send"]
  BY DEF TakeBatch
<1>3. /\ taken \in Seq(Entries) /\ rest \in Seq(Entries)
      /\ Len(rest) = Len(buffer) - n
      /\ taken = << >> <=> n = 0
      /\ SeqSet(taken) \cup SeqSet(rest) = Buffered
      /\ SeqSet(taken) \cap SeqSet(rest) = {}
      /\ Distinct(rest)
  <2>1. buffer \in Seq(Entries) /\ Distinct(buffer)
    BY <1>0 DEF TypeOK
  <2>2. /\ SubSeq(buffer, 1, n) \in Seq(Entries)
        /\ SubSeq(buffer, n + 1, Len(buffer)) \in Seq(Entries)
        /\ Len(SubSeq(buffer, n + 1, Len(buffer))) = Len(buffer) - n
        /\ SubSeq(buffer, 1, n) = << >> <=> n = 0
        /\ SeqSet(SubSeq(buffer, 1, n)) \cup SeqSet(SubSeq(buffer, n + 1, Len(buffer))) = SeqSet(buffer)
        /\ SeqSet(SubSeq(buffer, 1, n)) \cap SeqSet(SubSeq(buffer, n + 1, Len(buffer))) = {}
        /\ Distinct(SubSeq(buffer, n + 1, Len(buffer)))
    BY <1>1, <2>1, SeqSetSplit
  <2>. QED  BY <2>2 DEF Buffered
<1>4. batch[f] = << >>
  BY <1>0
<1>5. /\ InFlight = Others(batch, f)
      /\ InFlight' = Others(batch, f) \cup SeqSet(taken)
      /\ Others(batch', f) = Others(batch, f)
  <2>1. batch \in [Flushers -> Seq(Entries)]
    BY <1>0 DEF TypeOK
  <2>2. SeqSet(batch[f]) = {}
    BY <1>4 DEF SeqSet
  <2>3. /\ UNION {SeqSet(batch[g]) : g \in Flushers} = Others(batch, f) \cup SeqSet(batch[f])
        /\ UNION {SeqSet([batch EXCEPT ![f] = taken][g]) : g \in Flushers}
              = Others(batch, f) \cup SeqSet(taken)
        /\ Others([batch EXCEPT ![f] = taken], f) = Others(batch, f)
    BY <2>1 DEF Others
  <2>4. InFlight = Others(batch, f)
    BY <2>2, <2>3 DEF InFlight
  <2>5. InFlight' = UNION {SeqSet([batch EXCEPT ![f] = taken][g]) : g \in Flushers}
    BY <1>2 DEF InFlight
  <2>. QED  BY <1>2, <2>3, <2>4, <2>5
<1>6. Buffered' = SeqSet(rest)
  BY <1>2 DEF Buffered
<1>7. Return(f) \in Pcs \ {"send"}
  BY DEF Return, Pcs
<1>8. BatchesDisjoint(batch')
  <2>1. SUFFICES ASSUME NEW g \in Flushers, NEW h \in Flushers, g # h
                 PROVE  SeqSet(batch'[g]) \cap SeqSet(batch'[h]) = {}
    BY DEF BatchesDisjoint
  <2>2. \A k \in Flushers \ {f} : SeqSet(batch[k]) \cap Buffered = {}
    BY <1>0, <1>5 DEF Parts, Others
  <2>3. CASE g = f
    BY <1>0, <1>2, <1>3, <2>1, <2>2, <2>3 DEF TypeOK
  <2>4. CASE h = f
    BY <1>0, <1>2, <1>3, <2>1, <2>2, <2>4 DEF TypeOK
  <2>5. CASE g # f /\ h # f
    BY <1>0, <1>2, <2>1, <2>5 DEF TypeOK, Parts, BatchesDisjoint
  <2>. QED  BY <2>3, <2>4, <2>5
<1>9. Parts'
  <3>1. Buffered' \cup InFlight' \cup delivered' \cup dropped' \cup lost'
          = 1 .. nextEntry' - 1
    BY <1>0, <1>3, <1>5, <1>6 DEF Parts
  <3>2. /\ Buffered' \cap InFlight' = {} /\ Buffered' \cap delivered' = {}
        /\ Buffered' \cap dropped' = {} /\ Buffered' \cap lost' = {}
    BY <1>0, <1>3, <1>5, <1>6 DEF Parts
  <3>3. /\ InFlight' \cap delivered' = {} /\ InFlight' \cap dropped' = {}
        /\ InFlight' \cap lost' = {}
    BY <1>0, <1>3, <1>5 DEF Parts
  <3>. QED  BY <1>0, <1>8, <3>1, <3>2, <3>3 DEF Parts
<1>10. \A g \in Flushers : pc'[g] = "send" <=> batch'[g] # << >>
  BY <1>0, <1>2, <1>3, <1>7 DEF TypeOK
<1>11. /\ batch' \in [Flushers -> Seq(Entries)] /\ pc' \in [Flushers -> Pcs]
       /\ buffer' \in Seq(Entries) /\ Len(buffer') <= BufferSize
  <2>1. batch' \in [Flushers -> Seq(Entries)]
    BY <1>0, <1>2, <1>3 DEF TypeOK
  <2>2. pc' \in [Flushers -> Pcs]
    BY <1>0, <1>2, <1>7 DEF TypeOK, Pcs
  <2>3. buffer' \in Seq(Entries) /\ Len(buffer') = Len(buffer) - n
    BY <1>2, <1>3
  <2>4. Len(buffer') <= BufferSize
    <3>1. Len(buffer) \in Nat /\ Len(buffer) <= BufferSize
      BY <1>0 DEF TypeOK
    <3>. QED  BY <1>1, <2>3, <3>1, ConstantsAssumption
  <2>. QED  BY <2>1, <2>2, <2>3, <2>4
<1>12. (Buffered \cup InFlight)' = Buffered \cup InFlight
  BY <1>3, <1>5, <1>6
<1>. QED  BY <1>2, <1>3, <1>9, <1>10, <1>11, <1>12

\* A step that only moves a flusher that is not sending to a place other
\* than "send", and may clear running, keeps IInv and changes nothing the
\* contract sees.
LEMMA PcStep ==
    ASSUME IInv, NEW f \in Flushers, NEW v \in Pcs \ {"send"}, pc[f] # "send",
           pc' = [pc EXCEPT ![f] = v], running' \in BOOLEAN,
           UNCHANGED <<buffer, nextEntry, droppedCount, connected, batch,
                       delivered, dropped, lost, flushWant>>
    PROVE  IInv' /\ UNCHANGED LD!vars
<1>0. /\ TypeOK /\ Parts /\ Distinct(buffer) /\ IsFiniteSet(dropped)
      /\ \A g \in Flushers : pc[g] = "send" <=> batch[g] # << >>
  BY DEF IInv
<1>1. Buffered' = Buffered /\ InFlight' = InFlight
  BY DEF Buffered, InFlight
<1>2. TypeOK'
  BY <1>0 DEF TypeOK
<1>3. Parts'
  BY <1>0, <1>1 DEF Parts, BatchesDisjoint
<1>4. \A g \in Flushers : pc'[g] = "send" <=> batch'[g] # << >>
  BY <1>0 DEF TypeOK
<1>5. Distinct(buffer') /\ IsFiniteSet(dropped')
  BY <1>0
<1>6. UNCHANGED LD!vars
  BY <1>1 DEF LD!vars
<1>. QED  BY <1>2, <1>3, <1>4, <1>5, <1>6 DEF IInv

\* flush() on a client thread: do_flush's take, and the buffered entries
\* it is meant to send recorded.
LEMMA FlushStep ==
    ASSUME IInv, NEW c \in Clients, Flush(c)
    PROVE  IInv' /\ UNCHANGED LD!vars
<1>0. /\ TypeOK /\ IsFiniteSet(dropped)
  BY DEF IInv
<1>1. pc[c] # "send" /\ c \in Flushers
  BY DEF Flush, Flushers
<1>2. UNCHANGED <<nextEntry, droppedCount, connected, running, delivered, dropped, lost>>
  BY DEF Flush
<1>3. /\ Parts' /\ Distinct(buffer')
      /\ \A g \in Flushers : pc'[g] = "send" <=> batch'[g] # << >>
      /\ buffer' \in Seq(Entries) /\ Len(buffer') <= BufferSize
      /\ batch' \in [Flushers -> Seq(Entries)] /\ pc' \in [Flushers -> Pcs]
      /\ (Buffered \cup InFlight)' = Buffered \cup InFlight
  BY <1>1, <1>2, TakeBatchStep DEF Flush
<1>4. flushWant' \in [Clients -> SUBSET Entries]
  <2>1. Buffered \subseteq Entries
    BY <1>0 DEF TypeOK, Buffered, SeqSet
  <2>. QED  BY <1>0, <2>1 DEF Flush, TypeOK
<1>5. TypeOK'
  BY <1>0, <1>2, <1>3, <1>4 DEF TypeOK
<1>6. UNCHANGED LD!vars
  BY <1>2, <1>3 DEF LD!vars
<1>7. IsFiniteSet(dropped')
  BY <1>0, <1>2
<1>. QED  BY <1>3, <1>5, <1>6, <1>7 DEF IInv

\* The flush thread's and the destructor's do_flush take.
LEMMA FlushTakeStep ==
    ASSUME IInv, NEW f \in Flushers, FlushTake(f)
    PROVE  IInv' /\ UNCHANGED LD!vars
<1>0. /\ TypeOK /\ IsFiniteSet(dropped)
  BY DEF IInv
<1>1. pc[f] # "send"
  BY DEF FlushTake
<1>2. UNCHANGED <<nextEntry, droppedCount, connected, running, delivered,
                  dropped, lost, flushWant>>
  BY DEF FlushTake
<1>3. /\ Parts' /\ Distinct(buffer')
      /\ \A g \in Flushers : pc'[g] = "send" <=> batch'[g] # << >>
      /\ buffer' \in Seq(Entries) /\ Len(buffer') <= BufferSize
      /\ batch' \in [Flushers -> Seq(Entries)] /\ pc' \in [Flushers -> Pcs]
      /\ (Buffered \cup InFlight)' = Buffered \cup InFlight
  BY <1>1, <1>2, TakeBatchStep DEF FlushTake
<1>4. TypeOK'
  BY <1>0, <1>2, <1>3 DEF TypeOK
<1>5. UNCHANGED LD!vars
  BY <1>2, <1>3 DEF LD!vars
<1>6. IsFiniteSet(dropped')
  BY <1>0, <1>2
<1>. QED  BY <1>3, <1>4, <1>5, <1>6 DEF IInv

\* send_batch hands f's batch on: delivered, or lost without the fallback;
\* that is LogDelivery's Deliver or Lose of the batch's entries.
LEMMA SendBatchStep ==
    ASSUME IInv, NEW f \in Flushers, SendBatch(f)
    PROVE  IInv' /\ (LD!Deliver \/ LD!Lose)
<1> DEFINE S == SeqSet(batch[f])
<1>0. /\ TypeOK /\ Parts /\ Distinct(buffer) /\ IsFiniteSet(dropped)
      /\ \A g \in Flushers : pc[g] = "send" <=> batch[g] # << >>
  BY DEF IInv
<1>1. /\ pc[f] = "send"
      /\ batch' = [batch EXCEPT ![f] = << >>]
      /\ pc' = [pc EXCEPT ![f] = Return(f)]
      /\ UNCHANGED <<buffer, nextEntry, droppedCount, running, dropped>>
      /\ connected' \in BOOLEAN
      /\ flushWant' = IF f \in Clients THEN [flushWant EXCEPT ![f] = {}] ELSE flushWant
  BY DEF SendBatch
<1>2. \/ /\ delivered' = delivered \cup S /\ UNCHANGED lost
      \/ /\ ~FallbackEnabled /\ lost' = lost \cup S /\ UNCHANGED delivered
  BY DEF SendBatch
<1>3. batch[f] # << >> /\ batch \in [Flushers -> Seq(Entries)]
  BY <1>0, <1>1 DEF TypeOK
<1>4. S # {} /\ S \subseteq Entries
  BY <1>3 DEF SeqSet
<1>5. /\ InFlight = Others(batch, f) \cup S
      /\ InFlight' = Others(batch, f)
      /\ Others(batch', f) = Others(batch, f)
  <2>1. /\ UNION {SeqSet(batch[g]) : g \in Flushers} = Others(batch, f) \cup S
        /\ UNION {SeqSet([batch EXCEPT ![f] = << >>][g]) : g \in Flushers}
              = Others(batch, f) \cup SeqSet(<< >>)
        /\ Others([batch EXCEPT ![f] = << >>], f) = Others(batch, f)
    BY <1>3 DEF Others
  <2>2. SeqSet(<< >>) = {}
    BY DEF SeqSet
  <2>3. InFlight' = UNION {SeqSet([batch EXCEPT ![f] = << >>][g]) : g \in Flushers}
    BY <1>1 DEF InFlight
  <2>. QED  BY <1>1, <2>1, <2>2, <2>3 DEF InFlight
<1>6. S \cap Others(batch, f) = {}
  BY <1>0, OthersDisjoint DEF Parts
<1>7. /\ S \cap Buffered = {} /\ S \cap delivered = {} /\ S \cap lost = {}
      /\ S \cap dropped = {}
  BY <1>0, <1>5 DEF Parts
<1>8. Buffered' = Buffered
  BY <1>1 DEF Buffered
<1>9. (Buffered \cup InFlight)' = (Buffered \cup InFlight) \ S
      /\ S \subseteq Buffered \cup InFlight
  BY <1>5, <1>6, <1>7, <1>8
<1>10. TypeOK'
  <2>1. pc' \in [Flushers -> Pcs] /\ batch' \in [Flushers -> Seq(Entries)]
    BY <1>0, <1>1 DEF TypeOK, Return, Pcs
  <2>2. delivered' \subseteq Entries /\ lost' \subseteq Entries
    BY <1>0, <1>2, <1>4 DEF TypeOK
  <2>3. flushWant' \in [Clients -> SUBSET Entries]
    BY <1>0, <1>1 DEF TypeOK
  <2>. QED  BY <1>0, <1>1, <2>1, <2>2, <2>3 DEF TypeOK
<1>11. BatchesDisjoint(batch')
  <2>1. SeqSet(batch'[f]) = {}
    BY <1>1, <1>3 DEF SeqSet
  <2>2. \A g \in Flushers \ {f} : batch'[g] = batch[g]
    BY <1>1, <1>3
  <2>3. BatchesDisjoint(batch)
    BY <1>0 DEF Parts
  <2>. QED  BY <2>1, <2>2, <2>3 DEF BatchesDisjoint
<1>12. Parts'
  BY <1>0, <1>1, <1>2, <1>5, <1>6, <1>7, <1>8, <1>11 DEF Parts
<1>13. \A g \in Flushers : pc'[g] = "send" <=> batch'[g] # << >>
  BY <1>0, <1>1 DEF TypeOK, Return
<1>14. LD!Deliver \/ LD!Lose
  <2>1. S \in (SUBSET (Buffered \cup InFlight)) \ {{}}
    BY <1>4, <1>9
  <2>2. CASE delivered' = delivered \cup S /\ UNCHANGED lost
    <3>. (nextEntry - 1)' = nextEntry - 1
      BY <1>1
    <3>. QED  BY <1>1, <1>9, <2>1, <2>2 DEF LD!Deliver
  <2>3. CASE ~FallbackEnabled /\ lost' = lost \cup S /\ UNCHANGED delivered
    <3>. (nextEntry - 1)' = nextEntry - 1
      BY <1>1
    <3>. QED  BY <1>1, <1>9, <2>1, <2>3 DEF LD!Lose
  <2>. QED  BY <1>2, <2>2, <2>3
<1>. QED  BY <1>0, <1>1, <1>10, <1>12, <1>13, <1>14 DEF IInv

\* Every step of the client keeps IInv and is a step or a stutter of the
\* contract.
LEMMA NextInv == IInv /\ [Next]_vars => IInv' /\ [LD!Next]_LD!vars
<1> SUFFICES ASSUME IInv, [Next]_vars PROVE IInv' /\ [LD!Next]_LD!vars
  OBVIOUS
<1>0. FlushThread \in Flushers /\ Destructor \in Flushers
  BY DEF Flushers
<1>1. ASSUME NEW c \in Clients, Log(c) PROVE IInv' /\ [LD!Next]_LD!vars
  BY <1>1, LogStep DEF LD!Next
<1>2. ASSUME NEW c \in Clients, Flush(c) PROVE IInv' /\ [LD!Next]_LD!vars
  BY <1>2, FlushStep
<1>3. ASSUME NEW f \in Flushers, SendBatch(f) PROVE IInv' /\ [LD!Next]_LD!vars
  BY <1>3, SendBatchStep DEF LD!Next
<1>4. ASSUME NEW f \in Flushers, FlushTake(f) PROVE IInv' /\ [LD!Next]_LD!vars
  BY <1>4, FlushTakeStep
<1>5. CASE FlushLoop
  <2>1. /\ pc[FlushThread] # "send"
        /\ pc' = [pc EXCEPT ![FlushThread] = IF running THEN "wait" ELSE "done"]
        /\ (IF running THEN "wait" ELSE "done") \in Pcs \ {"send"}
        /\ running' \in BOOLEAN
        /\ UNCHANGED <<buffer, nextEntry, droppedCount, connected, batch,
                       delivered, dropped, lost, flushWant>>
    BY <1>5 DEF FlushLoop, IInv, TypeOK, Pcs
  <2>. QED  BY <1>0, <2>1, PcStep
<1>6. CASE FlushWait
  <2>1. /\ pc[FlushThread] # "send"
        /\ pc' = [pc EXCEPT ![FlushThread] = IF buffer # << >> THEN "take" ELSE "loop"]
        /\ (IF buffer # << >> THEN "take" ELSE "loop") \in Pcs \ {"send"}
        /\ running' \in BOOLEAN
        /\ UNCHANGED <<buffer, nextEntry, droppedCount, connected, batch,
                       delivered, dropped, lost, flushWant>>
    BY <1>6 DEF FlushWait, IInv, TypeOK, Pcs
  <2>. QED  BY <1>0, <2>1, PcStep
<1>7. CASE DestructorStop
  <2>1. /\ pc[Destructor] # "send"
        /\ pc' = [pc EXCEPT ![Destructor] = "join"]
        /\ "join" \in Pcs \ {"send"}
        /\ running' \in BOOLEAN
        /\ UNCHANGED <<buffer, nextEntry, droppedCount, connected, batch,
                       delivered, dropped, lost, flushWant>>
    BY <1>7 DEF DestructorStop, Pcs
  <2>. QED  BY <1>0, <2>1, PcStep
<1>8. CASE DestructorJoin
  <2>1. /\ pc[Destructor] # "send"
        /\ pc' = [pc EXCEPT ![Destructor] = "take"]
        /\ "take" \in Pcs \ {"send"}
        /\ running' \in BOOLEAN
        /\ UNCHANGED <<buffer, nextEntry, droppedCount, connected, batch,
                       delivered, dropped, lost, flushWant>>
    BY <1>8 DEF DestructorJoin, IInv, TypeOK, Pcs
  <2>. QED  BY <1>0, <2>1, PcStep
<1>9. CASE UNCHANGED vars
  <2>1. UNCHANGED <<buffer, nextEntry, droppedCount, connected, running, pc,
                    batch, delivered, dropped, lost, flushWant>>
    BY <1>9 DEF vars
  <2>2. Buffered' = Buffered /\ InFlight' = InFlight
    BY <2>1 DEF Buffered, InFlight
  <2>3. IInv'
    BY <2>1, <2>2 DEF IInv, TypeOK, Parts, BatchesDisjoint, Distinct
  <2>. QED  BY <2>1, <2>2, <2>3 DEF LD!vars
<1>. QED  BY <1>0, <1>1, <1>2, <1>3, <1>4, <1>5, <1>6, <1>7, <1>8, <1>9
          DEF Next, Background, Flushers

-----------------------------------------------------------------------------
(* The theorems.                                                           *)

\* Every entry log() accepts is in exactly one place (buffered, in a batch
\* being sent, delivered, dropped or lost) and dropped_count() counts the
\* dropped ones, whatever enqueue and the do_flush calls of the client, flush
\* and destructor threads interleave, for every batch and buffer size.
THEOREM AccountedHolds == Spec => []Accounted
<1>1. Init => IInv
  BY InitInv
<1>2. IInv /\ [Next]_vars => IInv'
  BY NextInv
<1>3. IInv => Accounted
  BY PartsAccounted DEF IInv
<1>. QED  BY <1>1, <1>2, <1>3, PTL DEF Spec

\* The client implements the delivery contract: enqueue is Log, and every
\* send_batch hands on a non-empty set of held entries, every other step of
\* do_flush, flush_loop and ~Impl changing nothing the contract sees.
THEOREM ImplementsLogDeliveryHolds == Spec => ImplementsLogDelivery
<1>1. Init => LD!Init
  <2> SUFFICES ASSUME Init PROVE LD!Init
    OBVIOUS
  <2>1. Buffered = {} /\ InFlight = {}
    BY DEF Init, Buffered, InFlight, SeqSet
  <2>. QED  BY <2>1 DEF Init, LD!Init
<1>2. IInv /\ [Next]_vars => [LD!Next]_LD!vars
  BY NextInv
<1>. QED  BY <1>1, <1>2, InitInv, NextInv, PTL DEF Spec, ImplementsLogDelivery, LD!Spec

\* Every reachable state is well typed; in particular the queue never holds
\* more than buffer_size entries, whatever enqueue's eviction and the
\* do_flush calls interleave.
THEOREM LoggingTypeCorrect == Spec => []TypeOK
<1>1. Init => IInv
  BY InitInv
<1>2. IInv /\ [Next]_vars => IInv'
  BY NextInv
<1>. QED  BY <1>1, <1>2, PTL DEF Spec, IInv

=============================================================================
