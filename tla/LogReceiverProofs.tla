------------------------- MODULE LogReceiverProofs -------------------------
(***************************************************************************)
(* For every set of items, every concurrency and every size: no slot of    *)
(* the queue leaks or is given twice, nothing waits while a slot is free,  *)
(* items start in their order, and a record is refused only when it is     *)
(* full.  And of the receiver built on it, for any number of days and of   *)
(* streams that fail: it steps as the queue does, a record is filed on its *)
(* day and once, Postgres has none the file has not, and exit code 0 after *)
(* one signal means what the shutdown awaited has happened.                *)
(***************************************************************************)
EXTENDS LogReceiver, FiniteSetTheorems, SequenceTheorems, TLAPS

-----------------------------------------------------------------------------
(* The loop of _drain.  The invariant keeps it from starting more than one *)
(* item: a push finds either no free slot or an empty queue, the end of a  *)
(* worker frees one slot.                                                  *)

\* With nothing to start or no slot, the loop does nothing.
LEMMA DrainNone ==
  ASSUME NEW q \in Seq(Items), NEW n \in 0 .. Concurrency, NEW busy,
         started \in Seq(Items), q = <<>> \/ n = Concurrency, Drain(q, n, busy)
  PROVE  queue' = q /\ inFlight' = n /\ running' = busy /\ started' = started
<1> DEFINE room == Concurrency - n
           k == IF Len(q) < room THEN Len(q) ELSE room
<1>1. Len(q) \in Nat /\ k = 0
  BY QueueAssumption
<1>2. SubSeq(q, 1, Len(q)) = q /\ SubSeq(q, 1, 0) = <<>>
  BY <1>1, SubSeqFull, SubSeqEmpty
<1>3. {q[j] : j \in 1 .. 0} = {}
  OBVIOUS
<1>4. started \o <<>> = started
  BY ConcatEmptySeq
<1>5. /\ queue' = SubSeq(q, k + 1, Len(q)) /\ inFlight' = n + k
      /\ running' = busy \cup {q[j] : j \in 1 .. k}
      /\ started' = started \o SubSeq(q, 1, k)
  BY DEF Drain
<1> HIDE DEF k
<1>6. QED
  BY <1>1, <1>2, <1>3, <1>4, <1>5

\* With one item or one slot, it starts the head of the queue.
LEMMA DrainOne ==
  ASSUME NEW q \in Seq(Items), NEW n \in 0 .. Concurrency, NEW busy,
         q # <<>>, n < Concurrency, Len(q) = 1 \/ n = Concurrency - 1,
         Drain(q, n, busy)
  PROVE  /\ queue' = Tail(q) /\ inFlight' = n + 1
         /\ running' = busy \cup {Head(q)}
         /\ started' = started \o <<Head(q)>>
<1> DEFINE room == Concurrency - n
           k == IF Len(q) < room THEN Len(q) ELSE room
<1>1. Len(q) \in Nat \ {0} /\ k = 1
  <2>1. Len(q) \in Nat \ {0}
    BY EmptySeq, LenProperties
  <2>2. k = 1
    <3>1. CASE Len(q) = 1
      BY <3>1, QueueAssumption
    <3>2. CASE n = Concurrency - 1
      <4>1. room = 1
        BY <3>2, QueueAssumption
      <4>2. QED
        BY <2>1, <4>1
    <3>3. QED
      BY <3>1, <3>2
  <2>3. QED
    BY <2>1, <2>2
<1>2. SubSeq(q, 2, Len(q)) = Tail(q)
  BY TailIsSubSeq
<1>3. SubSeq(q, 1, 1) = <<Head(q)>>
  <2>1. SubSeq(q, 1, 1) = <<q[1]>> \o SubSeq(q, 2, 1)
    BY <1>1, SubSeqRecursiveFirst
  <2>2. SubSeq(q, 2, 1) = <<>>
    BY SubSeqEmpty
  <2>3. q[1] = Head(q) /\ q[1] \in Items
    BY <1>1
  <2>4. <<q[1]>> \o <<>> = <<q[1]>>
    BY <2>3, ConcatEmptySeq
  <2>5. QED
    BY <2>1, <2>2, <2>3, <2>4
<1>4. {q[j] : j \in 1 .. 1} = {Head(q)}
  OBVIOUS
<1>5. /\ queue' = SubSeq(q, k + 1, Len(q)) /\ inFlight' = n + k
      /\ running' = busy \cup {q[j] : j \in 1 .. k}
      /\ started' = started \o SubSeq(q, 1, k)
  BY DEF Drain
<1> HIDE DEF k
<1>6. QED
  BY <1>1, <1>2, <1>3, <1>4, <1>5

-----------------------------------------------------------------------------
(* The inductive invariant: beside the properties, that no item is twice   *)
(* in the queue nor both waiting and running, on which the count rests.    *)

Distinct ==
  /\ \A j \in 1 .. Len(queue) : queue[j] \in offered \ running
  /\ \A j, k \in 1 .. Len(queue) : queue[j] = queue[k] => j = k

IInv ==
  /\ TypeOK
  /\ IsFiniteSet(running) /\ NoSlotLeak
  /\ WorkConserving /\ FirstInFirstOut /\ Distinct

\* A push keeps the invariant.
LEMMA PushKeeps == ASSUME IInv, NEW i \in Items, Push(i) PROVE IInv'
<1> USE QueueAssumption
<1>0. /\ queue \in Seq(Items) /\ inFlight \in 0 .. Concurrency /\ running \subseteq offered
      /\ started \in Seq(Items) /\ accepted \in Seq(Items) /\ i \notin offered
      /\ offered' = offered \cup {i}
  BY DEF IInv, TypeOK, Push
<1>1. CASE Len(queue) >= MaxSize
  <2>1. UNCHANGED <<queue, inFlight, running, accepted, started>>
        /\ droppedTotal' = droppedTotal + 1
    BY <1>1 DEF Push
  <2>2. QED
    BY <1>0, <2>1 DEF IInv, TypeOK, NoSlotLeak, WorkConserving, FirstInFirstOut, Distinct
<1>2. CASE ~(Len(queue) >= MaxSize)
  <2>0. /\ Drain(Append(queue, i), inFlight, running)
        /\ accepted' = Append(accepted, i) /\ UNCHANGED droppedTotal
    BY <1>2 DEF Push
  <2>1. Append(queue, i) \in Seq(Items) /\ Append(queue, i) # <<>>
        /\ Len(Append(queue, i)) = Len(queue) + 1
    BY <1>0, AppendProperties
  <2>2. accepted = started \o queue
    BY DEF IInv, FirstInFirstOut
  <2>3. CASE inFlight = Concurrency
    <3>1. /\ queue' = Append(queue, i) /\ inFlight' = inFlight
          /\ running' = running /\ started' = started
      BY <1>0, <2>0, <2>1, <2>3, DrainNone
    <3>2. TypeOK'
      BY <1>0, <1>2, <2>0, <2>1, <3>1 DEF IInv, TypeOK
    <3>3. FirstInFirstOut'
      <4>1. Append(started \o queue, i) = started \o Append(queue, i)
        <5>1. started \o queue \in Seq(Items) /\ <<i>> \in Seq(Items)
          BY <1>0, ConcatProperties
        <5>2. /\ Append(started \o queue, i) = (started \o queue) \o <<i>>
              /\ Append(queue, i) = queue \o <<i>>
          BY <1>0, <5>1, AppendIsConcat
        <5>3. (started \o queue) \o <<i>> = started \o (queue \o <<i>>)
          BY <1>0, <5>1, ConcatAssociative
        <5>4. QED
          BY <5>2, <5>3
      <4>2. QED
        BY <2>0, <2>2, <3>1, <4>1 DEF FirstInFirstOut
    <3>4. Distinct'
      <4>1. \A j \in 1 .. Len(queue) + 1 :
              \/ j = Len(queue) + 1 /\ Append(queue, i)[j] = i
              \/ j \in 1 .. Len(queue) /\ Append(queue, i)[j] = queue[j]
        <5>1. Len(queue) \in Nat
          BY <1>0
        <5>2. \A j \in 1 .. Len(queue) + 1 : j = Len(queue) + 1 \/ j \in 1 .. Len(queue)
          BY <5>1
        <5>3. QED
          BY <1>0, <5>2, AppendProperties
      <4>2. /\ \A j \in 1 .. Len(queue) : queue[j] \in offered \ running /\ queue[j] # i
            /\ \A j, k \in 1 .. Len(queue) : queue[j] = queue[k] => j = k
        BY <1>0 DEF IInv, Distinct
      <4>3. i \in offered' \ running' /\ offered \ running \subseteq offered' \ running'
        BY <1>0, <3>1
      <4>4. \A j \in 1 .. Len(queue) + 1 : Append(queue, i)[j] \in offered' \ running'
        BY <4>1, <4>2, <4>3
      <4>5. \A j, k \in 1 .. Len(queue) + 1 :
              Append(queue, i)[j] = Append(queue, i)[k] => j = k
        BY <4>1, <4>2
      <4>6. QED
        BY <2>1, <3>1, <4>4, <4>5, Zenon DEF Distinct
    <3>5. QED
      BY <2>3, <3>1, <3>2, <3>3, <3>4 DEF IInv, NoSlotLeak, WorkConserving
  <2>4. CASE inFlight # Concurrency
    <3>1. queue = <<>>
      BY <2>4 DEF IInv, WorkConserving
    <3>2. Append(queue, i) = <<i>>
      BY <3>1
    <3>3. /\ queue' = <<>> /\ inFlight' = inFlight + 1
          /\ running' = running \cup {i} /\ started' = started \o <<i>>
      <4>1. inFlight < Concurrency
        BY <1>0, <2>4
      <4>2. Len(<<i>>) = 1 /\ Head(<<i>>) = i /\ Tail(<<i>>) = <<>> /\ <<i>> # <<>>
        OBVIOUS
      <4>3. QED
        BY <1>0, <2>0, <2>1, <3>2, <4>1, <4>2, DrainOne
    <3>4. Cardinality(running') = Cardinality(running) + 1 /\ IsFiniteSet(running')
      BY <1>0, <3>3, FS_AddElement DEF IInv
    <3>5. FirstInFirstOut'
      <4>1. started \o <<>> = started
        BY <1>0, ConcatEmptySeq
      <4>2. accepted' = started \o <<i>>
        BY <1>0, <2>0, <2>2, <3>1, <4>1, AppendIsConcat
      <4>3. started \o <<i>> \in Seq(Items)
        BY <1>0
      <4>4. (started \o <<i>>) \o <<>> = started \o <<i>>
        BY <4>3, ConcatEmptySeq
      <4>5. QED
        BY <3>3, <4>2, <4>4 DEF FirstInFirstOut
    <3>6. TypeOK'
      BY <1>0, <2>0, <2>4, <3>3 DEF IInv, TypeOK
    <3>7. QED
      BY <3>3, <3>4, <3>5, <3>6 DEF IInv, NoSlotLeak, WorkConserving, Distinct
  <2>5. QED
    BY <2>3, <2>4
<1>3. QED
  BY <1>1, <1>2

\* The end of a worker keeps the invariant.
LEMMA SettleKeeps == ASSUME IInv, NEW i \in Items, Settle(i) PROVE IInv'
<1> USE QueueAssumption
<1>0. /\ queue \in Seq(Items) /\ inFlight \in 0 .. Concurrency /\ running \subseteq offered
      /\ started \in Seq(Items) /\ accepted \in Seq(Items) /\ i \in running
      /\ UNCHANGED <<droppedTotal, offered, accepted>>
      /\ Drain(queue, inFlight - 1, running \ {i})
  BY DEF IInv, TypeOK, Settle
<1>1. Cardinality(running \ {i}) = inFlight - 1 /\ IsFiniteSet(running \ {i})
  BY <1>0, FS_RemoveElement DEF IInv, NoSlotLeak
<1>2. inFlight - 1 \in 0 .. Concurrency
  <2>1. Cardinality(running \ {i}) \in Nat
    BY <1>1, FS_CardinalityType
  <2>2. QED
    BY <1>0, <1>1, <2>1
<1>3. accepted = started \o queue
  BY DEF IInv, FirstInFirstOut
<1>4. CASE queue = <<>>
  <2>1. /\ queue' = <<>> /\ inFlight' = inFlight - 1
        /\ running' = running \ {i} /\ started' = started
    BY <1>0, <1>2, <1>4, DrainNone
  <2>2. TypeOK'
    BY <1>0, <1>2, <2>1 DEF IInv, TypeOK
  <2>3. QED
    BY <1>0, <1>1, <1>3, <1>4, <2>1, <2>2
    DEF IInv, NoSlotLeak, WorkConserving, FirstInFirstOut, Distinct
<1>5. CASE queue # <<>>
  <2>1. inFlight = Concurrency
    BY <1>5 DEF IInv, WorkConserving
  <2>2. /\ queue' = Tail(queue) /\ inFlight' = inFlight
        /\ running' = (running \ {i}) \cup {Head(queue)}
        /\ started' = started \o <<Head(queue)>>
    <3>1. /\ queue' = Tail(queue) /\ inFlight' = (inFlight - 1) + 1
          /\ running' = (running \ {i}) \cup {Head(queue)}
          /\ started' = started \o <<Head(queue)>>
      BY <1>0, <1>2, <1>5, <2>1, DrainOne
    <3>2. QED
      BY <1>0, <3>1
  <2>3. /\ Head(queue) \in Items /\ Tail(queue) \in Seq(Items)
        /\ Len(Tail(queue)) = Len(queue) - 1 /\ Len(queue) \in Nat \ {0}
        /\ \A j \in 1 .. Len(Tail(queue)) : Tail(queue)[j] = queue[j + 1]
        /\ Head(queue) = queue[1]
    BY <1>0, <1>5, HeadTailProperties
  <2>4. Head(queue) \in offered \ running
    BY <2>3 DEF IInv, Distinct
  <2>5. Cardinality(running') = inFlight /\ IsFiniteSet(running')
    <3>1. Head(queue) \notin running \ {i}
      BY <2>4
    <3>2. Cardinality((running \ {i}) \cup {Head(queue)}) = Cardinality(running \ {i}) + 1
          /\ IsFiniteSet((running \ {i}) \cup {Head(queue)})
      BY <1>1, <3>1, FS_AddElement
    <3>3. QED
      BY <1>0, <1>1, <2>2, <3>2
  <2>6. TypeOK'
    BY <1>0, <2>2, <2>3, <2>4 DEF IInv, TypeOK
  <2>7. FirstInFirstOut'
    <3>1. queue = <<Head(queue)>> \o Tail(queue)
      BY <1>0, <1>5
    <3>2. started \o (<<Head(queue)>> \o Tail(queue))
            = (started \o <<Head(queue)>>) \o Tail(queue)
      <4>1. started \in Seq(Items) /\ <<Head(queue)>> \in Seq(Items) /\ Tail(queue) \in Seq(Items)
        BY <1>0, <2>3
      <4> QED BY <4>1, ConcatAssociative, SMTT(20)
    <3>3. QED
      BY <1>0, <1>3, <2>2, <3>1, <3>2 DEF FirstInFirstOut
  <2>8. Distinct'
    <3>1. ASSUME NEW j \in 1 .. Len(Tail(queue))
          PROVE  Tail(queue)[j] \in offered \ ((running \ {i}) \cup {Head(queue)})
      <4>1. j + 1 \in 1 .. Len(queue) /\ 1 \in 1 .. Len(queue) /\ j + 1 # 1
        BY <2>3
      <4>2. queue[j + 1] \in offered \ running /\ queue[j + 1] # queue[1]
        BY <4>1 DEF IInv, Distinct
      <4>3. QED
        BY <2>3, <4>2
    <3>2. ASSUME NEW j \in 1 .. Len(Tail(queue)), NEW k \in 1 .. Len(Tail(queue)),
                 Tail(queue)[j] = Tail(queue)[k]
          PROVE  j = k
      <4>1. j + 1 \in 1 .. Len(queue) /\ k + 1 \in 1 .. Len(queue)
        BY <2>3
      <4>2. j + 1 = k + 1
        BY <2>3, <3>2, <4>1 DEF IInv, Distinct
      <4>3. QED
        BY <4>2
    <3>3. QED
      BY <1>0, <2>2, <3>1, <3>2 DEF Distinct
  <2>9. QED
    BY <2>1, <2>2, <2>5, <2>6, <2>7, <2>8 DEF IInv, NoSlotLeak, WorkConserving
<1>6. QED
  BY <1>4, <1>5

LEMMA QueueStarts == Init => IInv
BY QueueAssumption, FS_EmptySet, ConcatEmptySeq
DEF Init, IInv, TypeOK, NoSlotLeak, WorkConserving, FirstInFirstOut, Distinct

LEMMA QueueSteps == ASSUME IInv, [Next]_vars PROVE IInv'
<1>1. ASSUME UNCHANGED vars PROVE IInv'
  BY <1>1 DEF vars, IInv, TypeOK, NoSlotLeak, WorkConserving, FirstInFirstOut, Distinct
<1>2. QED
  BY <1>1, PushKeeps, SettleKeeps DEF Next

\* The invariant holds in every reachable state.
LEMMA Invariant == Spec => []IInv
<1>1. IInv /\ [Next]_vars => IInv'
  BY QueueSteps
<1>2. QED
  BY <1>1, QueueStarts, PTL DEF Spec

-----------------------------------------------------------------------------
(* What the invariant gives. *)

\* The queue and the counter stay within their limits, and every variable keeps
\* its type.
THEOREM TypeCorrect == Spec => []TypeOK
<1>1. IInv => TypeOK
  BY DEF IInv
<1>2. QED
  BY <1>1, Invariant, PTL

\* inFlight counts the workers under way exactly.
THEOREM SlotsNeverLeak == Spec => []NoSlotLeak
<1>1. IInv => NoSlotLeak
  BY DEF IInv
<1>2. QED
  BY <1>1, Invariant, PTL

\* An item waits only while every slot is taken.
THEOREM QueueConservesWork == Spec => []WorkConserving
<1>1. IInv => WorkConserving
  BY DEF IInv
<1>2. QED
  BY <1>1, Invariant, PTL

\* Items start in the order in which they were accepted, and none is lost before.
THEOREM QueueIsFifo == Spec => []FirstInFirstOut
<1>1. IInv => FirstInFirstOut
  BY DEF IInv
<1>2. QED
  BY <1>1, Invariant, PTL

\* The slots, the waiting and the order, together.
THEOREM BooksAlwaysBalance == Spec => []BooksBalance
<1>1. NoSlotLeak /\ WorkConserving /\ FirstInFirstOut <=> BooksBalance
  BY DEF BooksBalance
<1>2. QED
  BY <1>1, SlotsNeverLeak, QueueConservesWork, QueueIsFifo, PTL

\* A step of the queue is a step of the contract: a record is refused only when
\* MaxSize + Concurrency are held, and every refusal is counted.
LEMMA StepRefines ==
  ASSUME IInv, [Next]_vars
  PROVE  [Contract!Take \/ Contract!Refuse \/ Contract!Release]_(Contract!vars)
<1> USE QueueAssumption
<1>0. /\ queue \in Seq(Items) /\ Len(queue) \in Nat /\ Len(queue) <= MaxSize
      /\ inFlight \in 0 .. Concurrency /\ started \in Seq(Items)
      /\ (queue # <<>> => inFlight = Concurrency)
  BY DEF IInv, TypeOK, WorkConserving
<1>1. ASSUME NEW i \in Items, Push(i)
      PROVE  Contract!Take \/ Contract!Refuse
  <2>1. CASE Len(queue) >= MaxSize
    <3>1. Len(queue) = MaxSize /\ queue # <<>> /\ inFlight = Concurrency
      BY <1>0, <2>1
    <3>2. UNCHANGED <<queue, inFlight>> /\ droppedTotal' = droppedTotal + 1
      BY <1>1, <2>1 DEF Push
    <3>3. Contract!Refuse
      BY <1>0, <3>1, <3>2 DEF Contract!Refuse
    <3>4. QED
      BY <3>3
  <2>2. CASE ~(Len(queue) >= MaxSize)
    <3>1. Drain(Append(queue, i), inFlight, running) /\ UNCHANGED droppedTotal
      BY <1>1, <2>2 DEF Push
    <3>2. Append(queue, i) \in Seq(Items) /\ Append(queue, i) # <<>>
          /\ Len(Append(queue, i)) = Len(queue) + 1
          /\ Len(Tail(Append(queue, i))) = Len(queue)
      BY <1>0, AppendProperties, HeadTailProperties
    <3>3. Len(queue') + inFlight' = Len(queue) + inFlight + 1
      <4>1. CASE inFlight = Concurrency
        <5>1. queue' = Append(queue, i) /\ inFlight' = inFlight
          BY <1>0, <3>1, <3>2, <4>1, DrainNone
        <5>2. QED
          BY <1>0, <3>2, <5>1
      <4>2. CASE inFlight # Concurrency
        <5>1. Len(Append(queue, i)) = 1 /\ inFlight < Concurrency
          BY <1>0, <3>2, <4>2
        <5>2. queue' = Tail(Append(queue, i)) /\ inFlight' = inFlight + 1
          BY <1>0, <3>1, <3>2, <5>1, DrainOne
        <5>3. Len(queue') = Len(queue)
          BY <3>2, <5>2, Zenon
        <5>4. Len(queue) \in Nat /\ inFlight \in Nat /\ inFlight' = inFlight + 1
          BY <1>0, <5>2
        <5>5. QED
          BY <5>3, <5>4
      <4>3. QED
        BY <4>1, <4>2
    <3>4. Contract!Take
      BY <1>0, <2>2, <3>1, <3>3 DEF Contract!Take
    <3>5. QED
      BY <3>4
  <2>3. QED
    BY <2>1, <2>2
<1>2. ASSUME NEW i \in Items, Settle(i)
      PROVE  Contract!Release
  <2>0. Drain(queue, inFlight - 1, running \ {i}) /\ UNCHANGED droppedTotal /\ i \in running
    BY <1>2 DEF Settle
  <2>1. inFlight \in 1 .. Concurrency
    <3>1. Cardinality(running) # 0
      BY <2>0, FS_EmptySet DEF IInv
    <3>2. QED
      BY <1>0, <3>1 DEF IInv, NoSlotLeak
  <2>2. inFlight - 1 \in 0 .. Concurrency
    BY <2>1
  <2>3. Len(queue') + inFlight' = Len(queue) + inFlight - 1
    <3>1. CASE queue = <<>>
      <4>1. queue' = queue /\ inFlight' = inFlight - 1
        BY <1>0, <2>0, <2>2, <3>1, DrainNone
      <4>2. QED
        BY <1>0, <2>1, <4>1
    <3>2. CASE queue # <<>>
      <4>1. queue' = Tail(queue) /\ inFlight' = (inFlight - 1) + 1
        <5>1. inFlight - 1 = Concurrency - 1 /\ inFlight - 1 < Concurrency
          BY <1>0, <2>1, <3>2
        <5>2. QED
          BY <1>0, <2>0, <2>2, <3>2, <5>1, DrainOne
      <4>2. Len(queue') = Len(queue) - 1
        <5>1. Len(Tail(queue)) = Len(queue) - 1
          BY <1>0, <3>2, HeadTailProperties
        <5>2. QED
          BY <4>1, <5>1, Zenon
      <4>3. Len(queue) \in Nat /\ inFlight \in Nat /\ inFlight' = inFlight
        BY <1>0, <4>1
      <4>4. QED
        BY <4>2, <4>3
    <3>3. QED
      BY <3>1, <3>2
  <2>4. QED
    BY <1>0, <2>0, <2>1, <2>3 DEF Contract!Release
<1>3. CASE UNCHANGED vars
  BY <1>3 DEF vars, Contract!vars
<1>4. QED
  BY <1>1, <1>2, <1>3 DEF Next

\* BoundedQueue implements SaturationContract.
THEOREM RefusesOnlyFull == Spec => RefusesOnlyWhenFull
<1>1. Init => Contract!Init
  BY DEF Init, Contract!Init
<1>2. QED
  BY <1>1, StepRefines, Invariant, PTL DEF Spec, RefusesOnlyWhenFull, Contract!Spec

-----------------------------------------------------------------------------
(* Sequences without repetition. *)

LEMMA ToSetAppend ==
  ASSUME NEW S, NEW s \in Seq(S), NEW i \in S
  PROVE  ToSet(Append(s, i)) = ToSet(s) \cup {i}
<1>1. /\ Len(s) \in Nat /\ DOMAIN s = 1 .. Len(s)
      /\ DOMAIN Append(s, i) = 1 .. Len(s) + 1
      /\ Append(s, i)[Len(s) + 1] = i
      /\ \A j \in 1 .. Len(s) : Append(s, i)[j] = s[j]
  BY AppendProperties, LenProperties
<1>2. 1 .. Len(s) + 1 = (1 .. Len(s)) \cup {Len(s) + 1}
  BY <1>1
<1> DEFINE t == Append(s, i)
<1> HIDE DEF t
<1>3. {t[j] : j \in (1 .. Len(s)) \cup {Len(s) + 1}}
        = {t[j] : j \in 1 .. Len(s)} \cup {t[Len(s) + 1]}
  OBVIOUS
<1>4. {t[j] : j \in 1 .. Len(s)} = {s[j] : j \in 1 .. Len(s)}
  BY <1>1 DEF t
<1>5. ToSet(t) = {t[j] : j \in (1 .. Len(s)) \cup {Len(s) + 1}}
  BY <1>1, <1>2 DEF t, ToSet
<1>6. ToSet(s) = {s[j] : j \in 1 .. Len(s)} /\ t[Len(s) + 1] = i
  BY <1>1 DEF t, ToSet
<1>7. ToSet(t) = ToSet(s) \cup {i}
  BY <1>3, <1>4, <1>5, <1>6
<1> QED BY <1>7 DEF t

LEMMA InjectiveAppend ==
  ASSUME NEW S, NEW s \in Seq(S), NEW i \in S, IsInjective(s), i \notin ToSet(s)
  PROVE  IsInjective(Append(s, i))
<1>1. /\ Len(s) \in Nat /\ DOMAIN s = 1 .. Len(s)
      /\ DOMAIN Append(s, i) = 1 .. Len(s) + 1
      /\ Append(s, i)[Len(s) + 1] = i
      /\ \A j \in 1 .. Len(s) : Append(s, i)[j] = s[j]
  BY AppendProperties, LenProperties
<1> DEFINE t == Append(s, i)
<1>2. \A j \in 1 .. Len(s) + 1 : j = Len(s) + 1 \/ j \in 1 .. Len(s)
  BY <1>1
<1>3. \A j \in 1 .. Len(s) : s[j] # i
  BY <1>1 DEF ToSet
<1>4. \A j, k \in 1 .. Len(s) : s[j] = s[k] => j = k
  BY <1>1 DEF IsInjective
<1> HIDE DEF t
<1>5. ASSUME NEW j \in 1 .. Len(s) + 1, NEW k \in 1 .. Len(s) + 1, t[j] = t[k]
      PROVE  j = k
  BY <1>1, <1>2, <1>3, <1>4, <1>5 DEF t
<1> QED BY <1>1, <1>5 DEF IsInjective, t

LEMMA InjectivePrefix ==
  ASSUME NEW S, NEW s \in Seq(S), NEW t \in Seq(S), IsInjective(s \o t)
  PROVE  IsInjective(s) /\ ToSet(s) \subseteq ToSet(s \o t)
<1>1. /\ Len(s) \in Nat /\ Len(t) \in Nat /\ DOMAIN s = 1 .. Len(s)
      /\ s \o t \in Seq(S) /\ Len(s \o t) = Len(s) + Len(t)
      /\ \A j \in 1 .. Len(s) : (s \o t)[j] = s[j]
  BY ConcatProperties, LenProperties
<1>2. DOMAIN (s \o t) = 1 .. Len(s) + Len(t)
  BY <1>1, LenProperties
<1> DEFINE u == s \o t
<1>3. DOMAIN u = 1 .. Len(s) + Len(t) /\ IsInjective(u) /\ \A j \in 1 .. Len(s) : u[j] = s[j]
  BY <1>1, <1>2
<1>4. \A j \in 1 .. Len(s) : j \in 1 .. Len(s) + Len(t)
  BY <1>1
<1> HIDE DEF u
<1>5. IsInjective(s)
  BY <1>1, <1>3, <1>4 DEF IsInjective
<1>6. ToSet(s) \subseteq ToSet(u)
  BY <1>1, <1>3, <1>4 DEF ToSet
<1> QED BY <1>5, <1>6 DEF u

LEMMA AppendToSecond ==
  ASSUME NEW S, NEW s \in Seq(S), NEW t \in Seq(S), NEW i \in S
  PROVE  s \o Append(t, i) = Append(s \o t, i)
<1>1. s \o t \in Seq(S) /\ <<i>> \in Seq(S)
  BY ConcatProperties
<1>2. Append(t, i) = t \o <<i>> /\ Append(s \o t, i) = (s \o t) \o <<i>>
  BY <1>1, AppendIsConcat
<1>3. s \o (t \o <<i>>) = (s \o t) \o <<i>>
  BY <1>1, ConcatAssociative
<1> QED BY <1>2, <1>3

LEMMA ToSetConcat ==
  ASSUME NEW S, NEW s \in Seq(S), NEW t \in Seq(S)
  PROVE  ToSet(s \o t) = ToSet(s) \cup ToSet(t)
<1>1. /\ Len(s) \in Nat /\ Len(t) \in Nat
      /\ DOMAIN s = 1 .. Len(s) /\ DOMAIN t = 1 .. Len(t)
      /\ s \o t \in Seq(S) /\ Len(s \o t) = Len(s) + Len(t)
      /\ \A j \in 1 .. Len(s) + Len(t) :
           (s \o t)[j] = IF j <= Len(s) THEN s[j] ELSE t[j - Len(s)]
  BY ConcatProperties, LenProperties
<1> DEFINE u == s \o t
<1>2. DOMAIN u = 1 .. Len(s) + Len(t)
  BY <1>1, LenProperties
<1>3. \A j \in 1 .. Len(s) + Len(t) :
        u[j] = IF j <= Len(s) THEN s[j] ELSE t[j - Len(s)]
  BY <1>1
<1> HIDE DEF u
<1>4. ASSUME NEW j \in DOMAIN u PROVE u[j] \in ToSet(s) \cup ToSet(t)
  <2>1. CASE j <= Len(s)
    <3>1. j \in DOMAIN s /\ u[j] = s[j]
      BY <1>1, <1>2, <1>3, <2>1
    <3> QED BY <3>1 DEF ToSet
  <2>2. CASE ~(j <= Len(s))
    <3>1. j - Len(s) \in DOMAIN t /\ u[j] = t[j - Len(s)]
      BY <1>1, <1>2, <1>3, <2>2
    <3> QED BY <3>1 DEF ToSet
  <2> QED BY <2>1, <2>2
<1>5. ASSUME NEW j \in DOMAIN s PROVE s[j] \in ToSet(u)
  <2>1. j \in DOMAIN u /\ u[j] = s[j]
    BY <1>1, <1>2, <1>3
  <2> QED BY <2>1 DEF ToSet
<1>6. ASSUME NEW j \in DOMAIN t PROVE t[j] \in ToSet(u)
  <2>1. /\ j + Len(s) \in DOMAIN u /\ ~(j + Len(s) <= Len(s)) /\ (j + Len(s)) - Len(s) = j
    BY <1>1, <1>2
  <2>2. u[j + Len(s)] = t[j]
    BY <1>2, <1>3, <2>1
  <2> QED BY <2>1, <2>2 DEF ToSet
<1>7. ToSet(u) = ToSet(s) \cup ToSet(t)
  BY <1>4, <1>5, <1>6 DEF ToSet
<1> QED BY <1>7 DEF u

-----------------------------------------------------------------------------
(* The receiver's invariant.  A record is in one place: not arrived,       *)
(* waiting, woken, or offered to the queue; and what is offered has been   *)
(* given to the stream of its day before, which holds it or has failed.    *)

Streams == {"none", "open", "ended", "failed"}
Woken   == [record : Items, drained : BOOLEAN]

SinkTypes ==
  /\ today \in Days /\ currentDay \in 0 .. LastDay /\ needsDrain \in BOOLEAN
  /\ stream \in [Days -> Streams] /\ wantsDrain \in [Days -> BOOLEAN]
  /\ buffer \in [Days -> Seq(Items)] /\ file \in [Days -> Seq(Items)]
  /\ waiters \in [Days -> Seq(Items)] /\ woken \in Seq(Woken)
  /\ arrived \in [Items -> 0 .. LastDay]

Pools == [ended : BOOLEAN, gaveUp : BOOLEAN, owed : SUBSET Items, took : SUBSET Items]

StopTypes == phase \in Phases /\ closing \in [Signals -> Stages] /\ pool \in Pools

\* The current stream is the newest, and open until it fails or the sink closes.
StreamInv ==
  /\ currentDay <= today
  /\ \A d \in Days : d > currentDay => stream[d] = "none"
  /\ \A d \in Days : stream[d] = "open" => d = currentDay
  /\ currentDay # 0 => stream[currentDay] # "none"
  /\ currentDay # 0 /\ stream[currentDay] = "ended" => phase \notin {"up", "stopping"}
  /\ phase \in {"closed", "exit0"} => \A d \in Days : stream[d] # "open"

\* Those who wait for the stream of day d.
Waiting(d) == ToSet(waiters[d])

WaitInv ==
  \A d \in Days : /\ IsInjective(waiters[d])
                  /\ \A i \in Waiting(d) : i \notin offered /\ arrived[i] = d

\* A drained waiter finds its day's stream current and open, one that was thrown
\* out, its day's stream failed.
WokenInv ==
  /\ \A j \in 1 .. Len(woken) : LET i == woken[j].record IN
       /\ i \notin offered /\ arrived[i] # 0
       /\ \A d \in Days : i \notin Waiting(d)
       /\ woken[j].drained => arrived[i] = currentDay /\ stream[currentDay] = "open"
       /\ ~woken[j].drained => stream[arrived[i]] = "failed"
  /\ \A j, k \in 1 .. Len(woken) : woken[j].record = woken[k].record => j = k

\* What the stream of day d has taken and not lost, in its order.
Held(d) == file[d] \o buffer[d]

HeldInv ==
  \A d \in Days : /\ IsInjective(Held(d))
                  /\ \A i \in ToSet(Held(d)) : i \in offered /\ arrived[i] = d

OfferedInv ==
  \A i \in offered : \E d \in Days :
    arrived[i] = d /\ (i \in ToSet(Held(d)) \/ stream[d] = "failed")

\* No shutdown passes the server's "close" before it is emitted, only the one that
\* ended the pool finds it open, and what the pool had not taken by then is what
\* drainAndWait gave up.
StopInv ==
  /\ \A c \in Signals :
       /\ closing[c] # "none" => phase # "up"
       /\ closing[c] \in {"file", "queue", "pool"} => phase # "stopping"
  /\ pool.ended => \E c \in Signals : closing[c] = "pool"
  /\ pool.owed \subseteq pool.took \/ pool.gaveUp

\* The day's stream is written out once no shutdown waits for it, and whoever
\* exits has waited for the pool or met one that another shutdown had ended.
Flushed == currentDay # 0 => buffer[currentDay] = <<>>

CloseInv ==
  /\ phase \in {"closed", "exit0"} => Flushed \/ \E c \in Signals : closing[c] = "file"
  /\ phase = "exit0" => \E c \in Signals : \/ closing[c] = "pool" /\ pool.took \cap running = {}
                                           \/ closing[c] = "queue" /\ pool.ended

SinkInv == /\ SinkTypes /\ StreamInv /\ WaitInv /\ WokenInv /\ HeldInv /\ OfferedInv
           /\ StopTypes /\ StopInv /\ CloseInv

ReceiverInv == IInv /\ SinkInv

LEMMA ArchiveIsHeld ==
  ASSUME SinkTypes, NEW d \in Days
  PROVE  Archive(d) = ToSet(Held(d))
<1>1. file[d] \in Seq(Items) /\ buffer[d] \in Seq(Items)
  BY DEF SinkTypes
<1> QED BY <1>1, ToSetConcat DEF Archive, Held

LEMMA ReceiverStarts == ReceiverInit => ReceiverInv
<1> SUFFICES ASSUME ReceiverInit PROVE ReceiverInv
  OBVIOUS
<1> USE ReceiverAssumption
<1>1. IInv /\ offered = {}
  BY QueueStarts DEF ReceiverInit, Init
<1>2. 1 \in Days /\ 0 \in 0 .. LastDay /\ <<>> \in Seq(Items) /\ <<>> \in Seq(Woken)
  BY DEF Days
<1>3. SinkTypes
  BY <1>2 DEF ReceiverInit, SinkTypes, Streams
<1>4. /\ today = 1 /\ currentDay = 0 /\ phase = "up" /\ woken = <<>>
      /\ \A d \in Days : stream[d] = "none" /\ waiters[d] = <<>> /\ Held(d) = <<>> \o <<>>
  BY DEF ReceiverInit, Held
<1>5. \A d \in Days : Held(d) = <<>>
  BY <1>4, ConcatEmptySeq
<1>6. ToSet(<<>>) = {} /\ IsInjective(<<>>)
  BY DEF ToSet, IsInjective
<1>7. StreamInv
  BY <1>4 DEF StreamInv
<1>8. WaitInv /\ HeldInv
  BY <1>4, <1>5, <1>6 DEF WaitInv, HeldInv, Waiting
<1>9. WokenInv
  BY <1>4 DEF WokenInv
<1>10. OfferedInv /\ CloseInv
  BY <1>1, <1>4 DEF OfferedInv, CloseInv
<1>11. /\ phase = "up" /\ closing = [c \in Signals |-> "none"]
       /\ pool = [ended |-> FALSE, gaveUp |-> FALSE, owed |-> {}, took |-> {}]
  BY DEF ReceiverInit
<1>12. StopTypes /\ StopInv
  BY <1>11 DEF StopTypes, StopInv, Phases, Stages, Pools
<1> QED BY <1>1, <1>3, <1>7, <1>8, <1>9, <1>10, <1>12 DEF ReceiverInv, SinkInv

\* A step that leaves the shutdown alone, of a process that still runs, keeps what
\* is known of the shutdown, if it leaves the day's stream no fuller.
LEMMA StopKeeps ==
  ASSUME SinkInv, Running, UNCHANGED stopVars,
         phase = "closed" => (Flushed => Flushed')
  PROVE  StopTypes' /\ StopInv' /\ CloseInv'
<1>1. UNCHANGED <<phase, closing, pool>> /\ phase # "exit0" /\ StopTypes /\ StopInv /\ CloseInv
  BY DEF stopVars, Running, SinkInv
<1>2. StopTypes' /\ StopInv'
  BY <1>1 DEF StopTypes, StopInv
<1>3. CloseInv'
  BY <1>1 DEF CloseInv
<1> QED BY <1>2, <1>3

\* Every step of the receiver is one of the queue, or leaves it alone.
LEMMA ReceiverStepsQueue ==
  ASSUME SinkTypes, [ReceiverNext]_allVars PROVE [Next]_vars
<1>1. ASSUME NEW i \in Items, PostLog(i) \/ Inserted(i) PROVE [Next]_vars
  BY <1>1 DEF PostLog, Inserted, Next
<1>2. ASSUME NEW d \in Days, DiskWrite(d) \/ StreamError(d) PROVE [Next]_vars
  BY <1>2 DEF DiskWrite, StreamError
<1>3. ASSUME Resume PROVE [Next]_vars
  <2>1. Head(woken).record \in Items /\ Push(Head(woken).record)
    <3>1. woken \in Seq(Woken) /\ woken # <<>>
      BY <1>3 DEF Resume, SinkTypes
    <3>2. Head(woken) \in Woken
      BY <3>1, HeadTailProperties
    <3> QED BY <1>3, <3>2 DEF Resume, Woken
  <2> QED BY <2>1 DEF Next
<1>4. ASSUME \/ Midnight \/ Cut
             \/ \E c \in Signals : \/ Shutdown(c) \/ CloseFile(c) \/ ClosePostgres(c)
                                   \/ EndPool(c) \/ Exit(c)
      PROVE  [Next]_vars
  BY <1>4 DEF Midnight, Shutdown, CloseFile, ClosePostgres, EndPool, Exit, Cut
<1>5. CASE UNCHANGED allVars
  BY <1>5 DEF allVars
<1> QED BY <1>1, <1>2, <1>3, <1>4, <1>5 DEF ReceiverNext

\* What a write does to the streams' contents: an open one takes the record.
LEMMA Written ==
  ASSUME SinkTypes, NEW i \in Items, NEW d \in Days, NEW streams \in [Days -> Streams],
         NEW needs \in BOOLEAN, WriteRecord(i, d, streams, needs), file' = file
  PROVE  /\ buffer' \in [Days -> Seq(Items)] /\ wantsDrain' \in [Days -> BOOLEAN]
         /\ needsDrain' \in BOOLEAN
         /\ \A e \in Days \ {d} : Held(e)' = Held(e)
         /\ streams[d] = "open" => Held(d)' = Append(Held(d), i)
         /\ streams[d] # "open" => Held(d)' = Held(d)
<1> DEFINE taken == streams[d] = "open"
           ok == taken /\ Len(buffer[d]) + 1 < HighWater
<1>1. /\ buffer' = IF taken THEN [buffer EXCEPT ![d] = Append(@, i)] ELSE buffer
      /\ wantsDrain' = [wantsDrain EXCEPT ![d] = @ \/ (taken /\ ~ok)]
      /\ needsDrain' = (needs \/ ~ok)
  BY DEF WriteRecord
<1>2. buffer \in [Days -> Seq(Items)] /\ file \in [Days -> Seq(Items)]
      /\ wantsDrain \in [Days -> BOOLEAN]
  BY DEF SinkTypes
<1>3. buffer' \in [Days -> Seq(Items)]
  BY <1>1, <1>2
<1>4. wantsDrain' \in [Days -> BOOLEAN] /\ needsDrain' \in BOOLEAN
  <2>1. (wantsDrain[d] \/ (taken /\ ~ok)) \in BOOLEAN /\ (needs \/ ~ok) \in BOOLEAN
    OBVIOUS
  <2> HIDE DEF taken, ok
  <2> QED BY <1>1, <1>2, <2>1
<1>5. \A e \in Days \ {d} : buffer'[e] = buffer[e]
  BY <1>1, <1>2
<1>6. \A e \in Days \ {d} : Held(e)' = Held(e)
  BY <1>5 DEF Held
<1>7. ASSUME streams[d] = "open" PROVE Held(d)' = Append(Held(d), i)
  <2>1. buffer'[d] = Append(buffer[d], i)
    BY <1>1, <1>2, <1>7
  <2>2. file[d] \in Seq(Items) /\ buffer[d] \in Seq(Items)
    BY <1>2
  <2>3. file[d] \o Append(buffer[d], i) = Append(file[d] \o buffer[d], i)
    <3>1. \A f, b \in Seq(Items) : f \o Append(b, i) = Append(f \o b, i)
      BY AppendToSecond
    <3> QED BY <2>2, <3>1, Zenon
  <2>4. file'[d] \o buffer'[d] = Append(file[d] \o buffer[d], i)
    BY <2>1, <2>3
  <2> QED BY <2>4 DEF Held
<1>8. ASSUME streams[d] # "open" PROVE Held(d)' = Held(d)
  BY <1>1, <1>8 DEF Held
<1> QED BY <1>3, <1>4, <1>6, <1>7, <1>8

\* A record goes to the queue after the stream of its day has taken it or failed.
LEMMA RecordOffered ==
  ASSUME ReceiverInv, NEW i \in Items, NEW d \in Days,
         i \notin offered, offered' = offered \cup {i},
         arrived'[i] = d, \A k \in offered : arrived'[k] = arrived[k],
         \A e \in Days \ {d} : Held(e)' = Held(e),
         \/ Held(d)' = Append(Held(d), i)
         \/ Held(d)' = Held(d) /\ stream'[d] = "failed",
         \A e \in Days : stream[e] = "failed" => stream'[e] = "failed"
  PROVE  HeldInv' /\ OfferedInv'
<1>1. /\ SinkTypes /\ HeldInv /\ OfferedInv /\ d # 0
      /\ \A k \in offered : k \in Items /\ arrived[k] \in Days
  <2>1. SinkTypes /\ HeldInv /\ OfferedInv /\ d # 0
    BY DEF ReceiverInv, SinkInv, Days
  <2>2. offered \subseteq Items
    BY DEF ReceiverInv, IInv, TypeOK
  <2>3. \A k \in offered : arrived[k] \in Days
    BY <2>1, <2>2 DEF OfferedInv, SinkTypes, Days
  <2> QED BY <2>1, <2>2, <2>3
<1>2. file[d] \in Seq(Items) /\ buffer[d] \in Seq(Items)
  BY <1>1 DEF SinkTypes
<1>3. Held(d) \in Seq(Items) /\ i \notin ToSet(Held(d))
  BY <1>1, <1>2, ConcatProperties DEF Held, HeldInv
<1>4. /\ IsInjective(Held(d)') /\ ToSet(Held(d)') \subseteq ToSet(Held(d)) \cup {i}
      /\ ToSet(Held(d)) \subseteq ToSet(Held(d)')
      /\ i \in ToSet(Held(d)') \/ stream'[d] = "failed"
  <2>1. CASE Held(d)' = Append(Held(d), i)
    BY <1>1, <1>3, <2>1, ToSetAppend, InjectiveAppend DEF HeldInv
  <2>2. CASE Held(d)' = Held(d) /\ stream'[d] = "failed"
    BY <1>1, <2>2 DEF HeldInv
  <2> QED BY <2>1, <2>2
<1>5. HeldInv'
  <2> SUFFICES ASSUME NEW e \in Days
               PROVE  /\ IsInjective(Held(e)')
                      /\ \A k \in ToSet(Held(e)') : k \in offered' /\ arrived'[k] = e
    BY DEF HeldInv, ToSet, IsInjective
  <2>1. CASE e = d
    BY <1>1, <1>4, <2>1 DEF HeldInv
  <2>2. CASE e # d
    BY <1>1, <2>2 DEF HeldInv
  <2> QED BY <2>1, <2>2
<1>6. OfferedInv'
  <2> SUFFICES ASSUME NEW k \in offered'
               PROVE  \E e \in Days :
                        arrived'[k] = e /\ (k \in ToSet(Held(e)') \/ stream'[e] = "failed")
    BY DEF OfferedInv, ToSet
  <2>1. CASE k = i
    <3>1. arrived'[k] = d /\ (k \in ToSet(Held(d)') \/ stream'[d] = "failed")
      BY <1>4, <2>1
    <3> QED BY <3>1
  <2>2. CASE k # i
    <3>1. PICK e \in Days : arrived[k] = e /\ (k \in ToSet(Held(e)) \/ stream[e] = "failed")
      BY <1>1, <2>2 DEF OfferedInv
    <3>2. arrived'[k] = e
      BY <2>2, <3>1
    <3>3. k \in ToSet(Held(e)') \/ stream'[e] = "failed"
      BY <1>4, <3>1
    <3> QED BY <3>2, <3>3
  <2> QED BY <2>1, <2>2
<1> QED BY <1>5, <1>6

\* After _ensureStream the current stream is today's, and it is open or has
\* failed; those of the days to come are still unmade.
LEMMA EnsuredStreams ==
  ASSUME SinkTypes, StreamInv, phase \in {"up", "stopping"}
  PROVE  /\ Ensured \in [Days -> Streams]
         /\ Ensured[today] \in {"open", "failed"}
         /\ \A d \in Days : /\ d > today => Ensured[d] = "none"
                            /\ Ensured[d] = "open" => d = today
                            /\ stream[d] = "failed" => Ensured[d] = "failed"
<1>1. /\ today \in Days /\ currentDay \in 0 .. LastDay /\ currentDay <= today
      /\ stream \in [Days -> Streams]
  BY DEF SinkTypes, StreamInv
<1>2. today \in Nat /\ currentDay \in Nat /\ today # 0 /\ Days \subseteq Nat
  BY <1>1, ReceiverAssumption DEF Days
<1>3. CASE currentDay = today
  <2>1. \A d \in Days : Ensured[d] = stream[d]
    BY <1>3 DEF Ensured
  <2>2. stream[today] \in {"open", "failed"}
    BY <1>1, <1>2, <1>3 DEF StreamInv, Streams
  <2>3. Ensured \in [Days -> Streams]
    BY <1>1, <1>3 DEF Ensured
  <2> QED BY <1>1, <1>3, <2>1, <2>2, <2>3 DEF StreamInv
<1>4. CASE currentDay # today
  <2>1. \A d \in Days : Ensured[d] = IF d = today THEN "open"
                                     ELSE IF d = currentDay /\ stream[d] = "open" THEN "ended"
                                     ELSE stream[d]
    BY <1>4 DEF Ensured
  <2>2. Ensured \in [Days -> Streams]
    BY <1>1, <1>4 DEF Ensured, Streams
  <2>3. \A d \in Days : d >= today => stream[d] = "none"
    BY <1>1, <1>2, <1>4 DEF StreamInv
  <2>4. ASSUME NEW d \in Days
        PROVE  /\ d > today => Ensured[d] = "none"
               /\ Ensured[d] = "open" => d = today
               /\ stream[d] = "failed" => Ensured[d] = "failed"
    <3>1. d > today => Ensured[d] = "none"
      BY <1>2, <2>1, <2>3
    <3>2. Ensured[d] = "open" => d = today
      BY <2>1 DEF StreamInv
    <3>3. stream[d] = "failed" => Ensured[d] = "failed"
      BY <1>2, <2>1, <2>3
    <3> QED BY <3>1, <3>2, <3>3
  <2>5. Ensured[today] = "open"
    BY <1>1, <2>1
  <2> QED BY <2>2, <2>4, <2>5
<1> QED BY <1>3, <1>4

\* A record that waits is not the one that arrives, nor one that was offered.
LEMMA OthersWait ==
  ASSUME SinkInv, NEW i \in Items, arrived[i] = 0
  PROVE  /\ i \notin offered
         /\ \A d \in Days : i \notin Waiting(d) /\ i \notin ToSet(Held(d))
<1>1. 0 \notin Days
  BY DEF Days
<1> QED BY <1>1 DEF SinkInv, OfferedInv, WaitInv, HeldInv

LEMMA PostLogKeeps ==
  ASSUME ReceiverInv, NEW i \in Items, PostLog(i) PROVE SinkInv'
<1>1. /\ woken = <<>> /\ phase \in {"up", "stopping"} /\ arrived[i] = 0
      /\ arrived' = [arrived EXCEPT ![i] = today]
      /\ currentDay' = today /\ stream' = Ensured
      /\ UNCHANGED <<today, file, woken, stopVars>> /\ UNCHANGED phase /\ Running
  BY DEF PostLog, Receive, Idle, stopVars
<1>2. SinkTypes /\ StreamInv /\ SinkInv /\ today \in Days
  BY DEF ReceiverInv, SinkInv, SinkTypes
<1>3. /\ Ensured \in [Days -> Streams] /\ Ensured[today] \in {"open", "failed"}
      /\ \A d \in Days : /\ d > today => Ensured[d] = "none"
                         /\ Ensured[d] = "open" => d = today
                         /\ stream[d] = "failed" => Ensured[d] = "failed"
  BY <1>1, <1>2, EnsuredStreams
<1>4. i \notin offered /\ \A d \in Days : i \notin Waiting(d) /\ i \notin ToSet(Held(d))
  BY <1>1, <1>2, OthersWait
<1>5. today \in 0 .. LastDay /\ today \in Nat /\ Days \subseteq Nat
  BY <1>2, ReceiverAssumption DEF Days
<1>6. StreamInv'
  BY <1>1, <1>3, <1>5 DEF StreamInv
<1>7. /\ arrived' \in [Items -> 0 .. LastDay] /\ arrived'[i] = today
      /\ \A k \in Items \ {i} : arrived'[k] = arrived[k]
  BY <1>1, <1>2, <1>5 DEF SinkTypes
<1>8. \A k \in offered : k \in Items \ {i}
  BY <1>4 DEF ReceiverInv, IInv, TypeOK
<1>9. \A d \in Days : \A k \in Waiting(d) : k \in Items \ {i}
  <2> SUFFICES ASSUME NEW d \in Days, NEW k \in Waiting(d) PROVE k \in Items
    BY <1>4
  <2>1. waiters[d] \in Seq(Items)
    BY <1>2 DEF SinkTypes
  <2> QED BY <2>1 DEF Waiting, ToSet
<1>10. WokenInv' /\ StopTypes' /\ StopInv' /\ CloseInv'
  BY <1>1, <1>2, StopKeeps DEF WokenInv
<1>11. CASE MustWait
  <2>1. /\ waiters' = [waiters EXCEPT ![today] = Append(@, i)]
        /\ UNCHANGED <<buffer, wantsDrain, needsDrain, vars>>
    BY <1>11 DEF PostLog, AwaitDrain
  <2>2. waiters \in [Days -> Seq(Items)]
    BY <1>2 DEF SinkTypes
  <2>3. SinkTypes'
    BY <1>1, <1>2, <1>3, <1>5, <1>7, <2>1, <2>2 DEF SinkTypes
  <2>4. \A d \in Days \ {today} : waiters'[d] = waiters[d]
    BY <2>1, <2>2
  <2>5. waiters'[today] = Append(waiters[today], i) /\ waiters[today] \in Seq(Items)
    BY <1>2, <2>1, <2>2
  <2>6. IsInjective(waiters'[today]) /\ ToSet(waiters'[today]) = Waiting(today) \cup {i}
    BY <1>2, <1>4, <2>5, ToSetAppend, InjectiveAppend DEF SinkInv, WaitInv, Waiting
  <2>7. UNCHANGED offered
    BY <2>1 DEF vars
  <2>8. WaitInv'
    <3> SUFFICES ASSUME NEW d \in Days
                 PROVE  /\ IsInjective(waiters'[d])
                        /\ \A k \in ToSet(waiters'[d]) : k \notin offered /\ arrived'[k] = d
      BY <2>7 DEF WaitInv, Waiting, IsInjective, ToSet
    <3>1. CASE d = today
      BY <1>2, <1>4, <1>7, <1>9, <2>6, <3>1 DEF SinkInv, WaitInv
    <3>2. CASE d # today
      BY <1>2, <1>7, <1>9, <2>4, <3>2 DEF SinkInv, WaitInv, Waiting
    <3> QED BY <3>1, <3>2
  <2>9. \A d \in Days : Held(d)' = Held(d)
    BY <1>1, <2>1 DEF Held
  <2>10. HeldInv'
    BY <1>2, <1>7, <1>8, <2>7, <2>9 DEF SinkInv, HeldInv
  <2>11. OfferedInv'
    <3> SUFFICES ASSUME NEW k \in offered
                 PROVE  \E d \in Days :
                          arrived'[k] = d /\ (k \in ToSet(Held(d)') \/ stream'[d] = "failed")
      BY <2>7 DEF OfferedInv, ToSet
    <3>1. PICK d \in Days : arrived[k] = d /\ (k \in ToSet(Held(d)) \/ stream[d] = "failed")
      BY <1>2 DEF SinkInv, OfferedInv
    <3>2. arrived'[k] = d /\ (k \in ToSet(Held(d)') \/ stream'[d] = "failed")
      BY <1>1, <1>3, <1>7, <1>8, <2>9, <3>1
    <3> QED BY <3>2
  <2> QED BY <1>6, <1>10, <2>3, <2>8, <2>10, <2>11 DEF SinkInv
<1>12. CASE ~MustWait
  <2>1. WriteRecord(i, today, Ensured, FALSE) /\ UNCHANGED waiters
        /\ offered' = offered \cup {i}
    BY <1>12 DEF PostLog, Push
  <2>2. /\ buffer' \in [Days -> Seq(Items)] /\ wantsDrain' \in [Days -> BOOLEAN]
        /\ needsDrain' \in BOOLEAN
        /\ \A d \in Days \ {today} : Held(d)' = Held(d)
        /\ Ensured[today] = "open" => Held(today)' = Append(Held(today), i)
        /\ Ensured[today] # "open" => Held(today)' = Held(today)
    BY <1>1, <1>2, <1>3, <2>1, Written
  <2>3. SinkTypes'
    BY <1>1, <1>2, <1>3, <1>5, <1>7, <2>1, <2>2 DEF SinkTypes
  <2>4. WaitInv'
    BY <1>2, <1>7, <1>9, <2>1 DEF SinkInv, WaitInv, Waiting
  <2>5. \/ Held(today)' = Append(Held(today), i)
        \/ Held(today)' = Held(today) /\ stream'[today] = "failed"
    BY <1>1, <1>3, <2>2
  <2>6. HeldInv' /\ OfferedInv'
    BY <1>1, <1>2, <1>3, <1>4, <1>7, <1>8, <2>1, <2>2, <2>5, RecordOffered
  <2> QED BY <1>6, <1>10, <2>3, <2>4, <2>6 DEF SinkInv
<1> QED BY <1>11, <1>12

\* The first of the woken, and those behind it.
LEMMA FirstWoken ==
  ASSUME SinkInv, woken # <<>>
  PROVE  /\ Head(woken) \in Woken /\ Head(woken) = woken[1] /\ 1 \in 1 .. Len(woken)
         /\ Tail(woken) \in Seq(Woken) /\ Len(Tail(woken)) = Len(woken) - 1
         /\ \A j \in 1 .. Len(Tail(woken)) :
              Tail(woken)[j] = woken[j + 1] /\ j + 1 \in 1 .. Len(woken)
         /\ Len(woken) \in Nat
<1>1. woken \in Seq(Woken)
  BY DEF SinkInv, SinkTypes
<1> QED BY <1>1, HeadTailProperties

LEMMA ResumeKeeps ==
  ASSUME ReceiverInv, Resume PROVE SinkInv'
<1> DEFINE i == Head(woken).record
<1>1. /\ Running /\ woken # <<>> /\ woken' = Tail(woken) /\ Push(i)
      /\ IF Head(woken).drained THEN WriteRecord(i, currentDay, stream, FALSE)
                                ELSE UNCHANGED <<buffer, wantsDrain, needsDrain>>
      /\ UNCHANGED <<today, currentDay, stream, file, waiters, arrived, stopVars>>
      /\ UNCHANGED phase
  BY DEF Resume, stopVars
<1>2. SinkInv /\ SinkTypes /\ StreamInv
  BY DEF ReceiverInv, SinkInv
<1>3. /\ Head(woken) \in Woken /\ Head(woken) = woken[1] /\ 1 \in 1 .. Len(woken)
      /\ Tail(woken) \in Seq(Woken) /\ Len(Tail(woken)) = Len(woken) - 1
      /\ \A j \in 1 .. Len(Tail(woken)) :
           Tail(woken)[j] = woken[j + 1] /\ j + 1 \in 1 .. Len(woken)
      /\ Len(woken) \in Nat
  BY <1>1, <1>2, FirstWoken
<1>4. i \in Items /\ Head(woken).drained \in BOOLEAN
  BY <1>3 DEF Woken
<1>5. /\ i \notin offered /\ arrived[i] # 0 /\ \A d \in Days : i \notin Waiting(d)
      /\ Head(woken).drained => arrived[i] = currentDay /\ stream[currentDay] = "open"
      /\ ~Head(woken).drained => stream[arrived[i]] = "failed"
  BY <1>2, <1>3 DEF SinkInv, WokenInv
<1>6. offered' = offered \cup {i}
  BY <1>1 DEF Push
<1>7. StreamInv'
  BY <1>1, <1>2 DEF StreamInv
<1>8. WaitInv'
  BY <1>1, <1>2, <1>5, <1>6 DEF SinkInv, WaitInv, Waiting
<1>9. \A j \in 1 .. Len(Tail(woken)) : woken[j + 1].record # i
  <2> SUFFICES ASSUME NEW j \in 1 .. Len(Tail(woken)), woken[j + 1].record = i PROVE FALSE
    OBVIOUS
  <2>1. j + 1 = 1
    BY <1>2, <1>3 DEF SinkInv, WokenInv
  <2> QED BY <2>1
<1>10. WokenInv'
  <2> DEFINE rest == Tail(woken)
  <2>1. ASSUME NEW j \in 1 .. Len(rest)
        PROVE  /\ rest[j].record \notin offered' /\ arrived[rest[j].record] # 0
               /\ \A d \in Days : rest[j].record \notin Waiting(d)
               /\ rest[j].drained => arrived[rest[j].record] = currentDay
                                     /\ stream[currentDay] = "open"
               /\ ~rest[j].drained => stream[arrived[rest[j].record]] = "failed"
    BY <1>2, <1>3, <1>6, <1>9 DEF SinkInv, WokenInv
  <2>2. ASSUME NEW j \in 1 .. Len(rest), NEW k \in 1 .. Len(rest),
               rest[j].record = rest[k].record
        PROVE  j = k
    <3>1. j + 1 = k + 1
      BY <1>2, <1>3, <2>2 DEF SinkInv, WokenInv
    <3> QED BY <3>1
  <2>3. woken' = rest /\ UNCHANGED <<arrived, waiters, stream, currentDay>>
    BY <1>1
  <2> HIDE DEF rest, i
  <2> QED BY <2>1, <2>2, <2>3 DEF WokenInv, Waiting
<1>11. PICK d \in Days : d = arrived[i]
  BY <1>2, <1>4, <1>5 DEF SinkTypes, Days
<1>12. \A k \in offered : arrived'[k] = arrived[k]
  BY <1>1
<1>13. CASE Head(woken).drained
  <2>1. /\ d = currentDay /\ stream[d] = "open" /\ WriteRecord(i, d, stream, FALSE)
        /\ stream \in [Days -> Streams]
    BY <1>1, <1>2, <1>5, <1>11, <1>13 DEF SinkTypes
  <2>2. /\ buffer' \in [Days -> Seq(Items)] /\ wantsDrain' \in [Days -> BOOLEAN]
        /\ needsDrain' \in BOOLEAN
        /\ \A e \in Days \ {d} : Held(e)' = Held(e)
        /\ Held(d)' = Append(Held(d), i)
    BY <1>1, <1>2, <1>4, <2>1, Written
  <2>3. SinkTypes'
    BY <1>1, <1>2, <1>3, <2>2 DEF SinkTypes
  <2>4. HeldInv' /\ OfferedInv'
    BY <1>1, <1>4, <1>5, <1>6, <1>11, <1>12, <2>2, RecordOffered
  <2>5. phase # "closed"
    BY <1>2, <2>1 DEF StreamInv
  <2>6. StopTypes' /\ StopInv' /\ CloseInv'
    BY <1>1, <1>2, <2>5, StopKeeps
  <2> QED BY <1>7, <1>8, <1>10, <2>3, <2>4, <2>6 DEF SinkInv
<1>14. CASE ~Head(woken).drained
  <2>1. stream[d] = "failed" /\ UNCHANGED <<buffer, wantsDrain, needsDrain>>
    BY <1>1, <1>5, <1>11, <1>14
  <2>2. SinkTypes'
    BY <1>1, <1>2, <1>3, <2>1 DEF SinkTypes
  <2>3. \A e \in Days : Held(e)' = Held(e)
    BY <1>1, <2>1 DEF Held
  <2>4. HeldInv' /\ OfferedInv'
    BY <1>1, <1>4, <1>5, <1>6, <1>11, <1>12, <2>1, <2>3, RecordOffered
  <2>5. StopTypes' /\ StopInv' /\ CloseInv'
    BY <1>1, <1>2, <2>1, StopKeeps DEF Flushed
  <2> QED BY <1>7, <1>8, <1>10, <2>2, <2>4, <2>5 DEF SinkInv
<1> QED BY <1>4, <1>13, <1>14

\* All that wait on a stream are woken, by its "drain" or by its failure.
LEMMA WakeKeeps ==
  ASSUME ReceiverInv, woken = <<>>, NEW d \in Days, NEW drained \in BOOLEAN,
         waiters' = [waiters EXCEPT ![d] = <<>>], Wake(waiters[d], drained),
         UNCHANGED <<offered, arrived, currentDay>>,
         drained => d = currentDay /\ stream'[d] = "open",
         ~drained => stream'[d] = "failed"
  PROVE  /\ WaitInv' /\ WokenInv'
         /\ woken' \in Seq(Woken) /\ waiters' \in [Days -> Seq(Items)]
<1> DEFINE w == waiters[d]
<1>1. SinkTypes /\ WaitInv /\ waiters \in [Days -> Seq(Items)] /\ w \in Seq(Items)
  BY DEF ReceiverInv, SinkInv, SinkTypes
<1>2. /\ waiters'[d] = <<>> /\ \A e \in Days \ {d} : waiters'[e] = waiters[e]
      /\ waiters' \in [Days -> Seq(Items)]
  BY <1>1
<1>3. ToSet(<<>>) = {} /\ IsInjective(<<>>)
  BY DEF ToSet, IsInjective
<1>4. WaitInv'
  <2> SUFFICES ASSUME NEW e \in Days
               PROVE  /\ IsInjective(waiters'[e])
                      /\ \A i \in ToSet(waiters'[e]) : i \notin offered /\ arrived[i] = e
    BY DEF WaitInv, Waiting, ToSet, IsInjective
  <2> QED BY <1>1, <1>2, <1>3 DEF WaitInv, Waiting
<1>5. /\ woken' = [j \in 1 .. Len(w) |-> [record |-> w[j], drained |-> drained]]
      /\ Len(w) \in Nat /\ \A j \in 1 .. Len(w) : w[j] \in Items
  BY <1>1 DEF Wake
<1>6. /\ woken' \in Seq(Woken) /\ Len(woken') = Len(w)
      /\ \A j \in 1 .. Len(w) : woken'[j].record = w[j] /\ woken'[j].drained = drained
  <2>1. \A j \in 1 .. Len(w) : [record |-> w[j], drained |-> drained] \in Woken
    BY <1>5 DEF Woken
  <2> QED BY <1>5, <2>1
<1>7. \A j \in 1 .. Len(w) : w[j] \in Waiting(d)
  BY <1>1 DEF Waiting, ToSet
<1>8. d # 0
  BY DEF Days
<1>9. ASSUME NEW j \in 1 .. Len(w)
      PROVE  /\ w[j] \notin offered /\ arrived[w[j]] = d /\ arrived[w[j]] # 0
             /\ \A e \in Days : w[j] \notin ToSet(waiters'[e])
  BY <1>1, <1>2, <1>3, <1>7, <1>8 DEF WaitInv, Waiting
<1>10. \A j, k \in 1 .. Len(w) : w[j] = w[k] => j = k
  BY <1>1 DEF WaitInv, IsInjective
<1>11. WokenInv'
  <2>1. ASSUME NEW j \in 1 .. Len(woken')
        PROVE  /\ woken'[j].record \notin offered' /\ arrived'[woken'[j].record] # 0
               /\ \A e \in Days : woken'[j].record \notin ToSet(waiters'[e])
               /\ woken'[j].drained => /\ arrived'[woken'[j].record] = currentDay'
                                       /\ stream'[currentDay'] = "open"
               /\ ~woken'[j].drained => stream'[arrived'[woken'[j].record]] = "failed"
    BY <1>6, <1>9
  <2>2. \A j, k \in 1 .. Len(woken') : woken'[j].record = woken'[k].record => j = k
    BY <1>6, <1>10
  <2> QED BY <2>1, <2>2 DEF WokenInv, Waiting, ToSet
<1> QED BY <1>2, <1>4, <1>6, <1>11

\* A step that offers nothing and keeps the day of every record keeps the books of
\* the streams, if what they hold is a prefix of what they held or they failed.
LEMMA HeldKeeps ==
  ASSUME ReceiverInv, UNCHANGED <<offered, arrived>>,
         \A d \in Days : Held(d)' = Held(d)
                         \/ (stream'[d] = "failed" /\ Held(d)' = file[d]),
         \A d \in Days : stream[d] = "failed" => stream'[d] = "failed"
  PROVE  HeldInv' /\ OfferedInv'
<1>1. SinkTypes /\ HeldInv /\ OfferedInv
  BY DEF ReceiverInv, SinkInv
<1>2. ASSUME NEW d \in Days
      PROVE  IsInjective(Held(d)') /\ ToSet(Held(d)') \subseteq ToSet(Held(d))
  <2>1. file[d] \in Seq(Items) /\ buffer[d] \in Seq(Items) /\ IsInjective(file[d] \o buffer[d])
    BY <1>1 DEF SinkTypes, HeldInv, Held
  <2>2. IsInjective(file[d]) /\ ToSet(file[d]) \subseteq ToSet(file[d] \o buffer[d])
    BY <2>1, InjectivePrefix
  <2>3. CASE Held(d)' = Held(d)
    BY <1>1, <2>3 DEF HeldInv
  <2>4. CASE Held(d)' = file[d]
    <3>1. IsInjective(Held(d)') /\ ToSet(Held(d)') \subseteq ToSet(file[d] \o buffer[d])
      BY <2>2, <2>4
    <3> QED BY <3>1 DEF Held
  <2> QED BY <2>3, <2>4
<1>3. HeldInv'
  <2> SUFFICES ASSUME NEW d \in Days
               PROVE  /\ IsInjective(Held(d)')
                      /\ \A i \in ToSet(Held(d)') : i \in offered' /\ arrived'[i] = d
    BY DEF HeldInv, ToSet, IsInjective
  <2> QED BY <1>1, <1>2 DEF HeldInv
<1>4. OfferedInv'
  <2> SUFFICES ASSUME NEW i \in offered
               PROVE  \E d \in Days :
                        arrived[i] = d /\ (i \in ToSet(Held(d)') \/ stream'[d] = "failed")
    BY DEF OfferedInv, ToSet
  <2>1. PICK d \in Days : arrived[i] = d /\ (i \in ToSet(Held(d)) \/ stream[d] = "failed")
    BY <1>1 DEF OfferedInv
  <2>2. i \in ToSet(Held(d)') \/ stream'[d] = "failed"
    BY <2>1
  <2> QED BY <2>1, <2>2
<1> QED BY <1>3, <1>4

\* What moves from the buffer's front to the file's end stays where it was.
LEMMA MovedInOrder ==
  ASSUME NEW S, NEW f \in Seq(S), NEW b \in Seq(S), NEW n \in 1 .. Len(b)
  PROVE  /\ f \o SubSeq(b, 1, n) \in Seq(S) /\ SubSeq(b, n + 1, Len(b)) \in Seq(S)
         /\ (f \o SubSeq(b, 1, n)) \o SubSeq(b, n + 1, Len(b)) = f \o b
<1> DEFINE front == SubSeq(b, 1, n)
           rest  == SubSeq(b, n + 1, Len(b))
<1>1. front \in Seq(S) /\ rest \in Seq(S)
  BY SubSeqProperties
<1>2. front \o rest = b
  <2>1. /\ 1 \in 1 .. Len(b) + 1 /\ n \in 1 - 1 .. Len(b) /\ Len(b) \in n .. Len(b)
    OBVIOUS
  <2>2. SubSeq(b, 1, n) \o SubSeq(b, n + 1, Len(b)) = SubSeq(b, 1, Len(b))
    BY <2>1, ConcatAdjacentSubSeq
  <2> QED BY <2>2, SubSeqFull
<1> HIDE DEF front, rest
<1>3. (f \o front) \o rest = f \o (front \o rest)
  BY <1>1, ConcatAssociative, SMTT(30)
<1>4. f \o front \in Seq(S)
  BY <1>1, ConcatProperties
<1> QED BY <1>1, <1>2, <1>3, <1>4 DEF front, rest

LEMMA DiskWriteKeeps ==
  ASSUME ReceiverInv, NEW d \in Days, DiskWrite(d) PROVE SinkInv'
<1>1. /\ Idle /\ stream[d] \in {"open", "ended"}
      /\ \E n \in 1 .. Len(buffer[d]) :
           /\ file' = [file EXCEPT ![d] = @ \o SubSeq(buffer[d], 1, n)]
           /\ buffer' = [buffer EXCEPT ![d] = SubSeq(@, n + 1, Len(@))]
      /\ IF buffer'[d] = <<>> /\ wantsDrain[d] /\ stream[d] = "open"
         THEN /\ wantsDrain' = [wantsDrain EXCEPT ![d] = FALSE]
              /\ waiters' = [waiters EXCEPT ![d] = <<>>]
              /\ Wake(waiters[d], TRUE)
         ELSE UNCHANGED <<wantsDrain, waiters, woken>>
      /\ UNCHANGED <<vars, today, currentDay, needsDrain, stream, arrived, stopVars>>
      /\ UNCHANGED phase
  BY DEF DiskWrite, stopVars
<1>2. SinkInv /\ SinkTypes /\ StreamInv /\ UNCHANGED <<offered, queue, inFlight>>
  BY <1>1 DEF ReceiverInv, SinkInv, vars
<1>3. PICK n \in 1 .. Len(buffer[d]) :
        /\ file' = [file EXCEPT ![d] = @ \o SubSeq(buffer[d], 1, n)]
        /\ buffer' = [buffer EXCEPT ![d] = SubSeq(@, n + 1, Len(@))]
  BY <1>1
<1>4. /\ buffer \in [Days -> Seq(Items)] /\ file \in [Days -> Seq(Items)]
      /\ file[d] \in Seq(Items) /\ buffer[d] \in Seq(Items)
  BY <1>2 DEF SinkTypes
<1>5. /\ file'[d] = file[d] \o SubSeq(buffer[d], 1, n)
      /\ buffer'[d] = SubSeq(buffer[d], n + 1, Len(buffer[d]))
      /\ \A e \in Days \ {d} : file'[e] = file[e] /\ buffer'[e] = buffer[e]
  BY <1>3, <1>4
<1>6. /\ file[d] \o SubSeq(buffer[d], 1, n) \in Seq(Items)
      /\ SubSeq(buffer[d], n + 1, Len(buffer[d])) \in Seq(Items)
      /\ (file[d] \o SubSeq(buffer[d], 1, n)) \o SubSeq(buffer[d], n + 1, Len(buffer[d]))
           = file[d] \o buffer[d]
  <2>1. \A f, b \in Seq(Items) : \A k \in 1 .. Len(b) :
          /\ f \o SubSeq(b, 1, k) \in Seq(Items) /\ SubSeq(b, k + 1, Len(b)) \in Seq(Items)
          /\ (f \o SubSeq(b, 1, k)) \o SubSeq(b, k + 1, Len(b)) = f \o b
    BY MovedInOrder, Zenon
  <2> QED BY <1>4, <2>1, Zenon
<1>7. file' \in [Days -> Seq(Items)] /\ buffer' \in [Days -> Seq(Items)]
  BY <1>3, <1>4, <1>6
<1>8. \A e \in Days : Held(e)' = Held(e)
  <2> SUFFICES ASSUME NEW e \in Days PROVE file'[e] \o buffer'[e] = file[e] \o buffer[e]
    BY DEF Held
  <2>1. CASE e = d
    BY <1>5, <1>6, <2>1
  <2>2. CASE e # d
    BY <1>5, <2>2
  <2> QED BY <2>1, <2>2
<1>9. HeldInv' /\ OfferedInv'
  BY <1>1, <1>2, <1>8, HeldKeeps
<1>10. StreamInv'
  BY <1>1, <1>2 DEF StreamInv
<1>11. StopTypes' /\ StopInv' /\ CloseInv'
  <2>1. buffer[d] # <<>> /\ Running
    BY <1>1 DEF Idle
  <2>2. currentDay # 0 => currentDay \in Days
    BY <1>2, ReceiverAssumption DEF SinkTypes, Days
  <2>3. Flushed => Flushed'
    BY <1>1, <1>5, <2>1, <2>2 DEF Flushed
  <2> QED BY <1>1, <1>2, <2>1, <2>3, StopKeeps
<1>12. /\ WaitInv' /\ WokenInv' /\ woken' \in Seq(Woken)
       /\ waiters' \in [Days -> Seq(Items)] /\ wantsDrain' \in [Days -> BOOLEAN]
  <2>1. CASE buffer'[d] = <<>> /\ wantsDrain[d] /\ stream[d] = "open"
    <3>1. woken = <<>> /\ d = currentDay /\ stream'[d] = "open"
      BY <1>1, <1>2, <2>1 DEF Idle, StreamInv
    <3>2. wantsDrain' \in [Days -> BOOLEAN]
      BY <1>1, <1>2, <2>1 DEF SinkTypes
    <3> QED BY <1>1, <1>2, <2>1, <3>1, <3>2, WakeKeeps
  <2>2. CASE ~(buffer'[d] = <<>> /\ wantsDrain[d] /\ stream[d] = "open")
    <3>1. UNCHANGED <<wantsDrain, waiters, woken>>
      BY <1>1, <2>2
    <3>2. WaitInv' /\ WokenInv'
      BY <1>1, <1>2, <3>1 DEF SinkInv, WaitInv, WokenInv, Waiting
    <3> QED BY <1>2, <3>1, <3>2 DEF SinkTypes
  <2> QED BY <2>1, <2>2
<1>13. SinkTypes'
  BY <1>1, <1>2, <1>7, <1>12 DEF SinkTypes
<1> QED BY <1>9, <1>10, <1>11, <1>12, <1>13 DEF SinkInv

LEMMA StreamErrorKeeps ==
  ASSUME ReceiverInv, NEW d \in Days, StreamError(d) PROVE SinkInv'
<1>1. /\ Idle /\ stream[d] \in {"open", "ended"}
      /\ stream' = [stream EXCEPT ![d] = "failed"]
      /\ buffer' = [buffer EXCEPT ![d] = <<>>]
      /\ waiters' = [waiters EXCEPT ![d] = <<>>]
      /\ Wake(waiters[d], FALSE)
      /\ UNCHANGED <<vars, today, currentDay, needsDrain, wantsDrain, file, arrived, stopVars>>
      /\ UNCHANGED phase
  BY DEF StreamError, stopVars
<1>2. SinkInv /\ SinkTypes /\ StreamInv /\ UNCHANGED <<offered, queue, inFlight>>
  BY <1>1 DEF ReceiverInv, SinkInv, vars
<1>3. /\ stream'[d] = "failed" /\ \A e \in Days \ {d} : stream'[e] = stream[e]
      /\ stream' \in [Days -> Streams]
  BY <1>1, <1>2 DEF SinkTypes, Streams
<1>4. /\ buffer'[d] = <<>> /\ \A e \in Days \ {d} : buffer'[e] = buffer[e]
      /\ buffer' \in [Days -> Seq(Items)] /\ file[d] \in Seq(Items)
  BY <1>1, <1>2 DEF SinkTypes
<1>5. \A e \in Days : \/ Held(e)' = Held(e)
                      \/ stream'[e] = "failed" /\ Held(e)' = file[e]
  <2> SUFFICES ASSUME NEW e \in Days
               PROVE  \/ file'[e] \o buffer'[e] = file[e] \o buffer[e]
                      \/ stream'[e] = "failed" /\ file'[e] \o buffer'[e] = file[e]
    BY DEF Held
  <2>1. CASE e = d
    <3>1. file[d] \o <<>> = file[d]
      BY <1>4, ConcatEmptySeq
    <3> QED BY <1>1, <1>3, <1>4, <2>1, <3>1
  <2>2. CASE e # d
    BY <1>1, <1>4, <2>2
  <2> QED BY <2>1, <2>2
<1>6. HeldInv' /\ OfferedInv'
  BY <1>1, <1>2, <1>3, <1>5, HeldKeeps
<1>7. StreamInv'
  <2>1. d <= currentDay
    BY <1>1, <1>2 DEF StreamInv, SinkTypes, Days
  <2> QED BY <1>1, <1>2, <1>3, <2>1 DEF StreamInv
<1>8. StopTypes' /\ StopInv' /\ CloseInv'
  <2>1. Running /\ (currentDay # 0 => currentDay \in Days)
    BY <1>1, <1>2, ReceiverAssumption DEF Idle, SinkTypes, Days
  <2>2. \A e \in Days : buffer[e] = <<>> => buffer'[e] = <<>>
    BY <1>4
  <2>3. Flushed => Flushed'
    BY <1>1, <2>1, <2>2 DEF Flushed
  <2> QED BY <1>1, <1>2, <2>1, <2>3, StopKeeps
<1>9. /\ WaitInv' /\ WokenInv' /\ woken' \in Seq(Woken) /\ waiters' \in [Days -> Seq(Items)]
  BY <1>1, <1>2, <1>3, WakeKeeps DEF Idle
<1>10. SinkTypes'
  BY <1>1, <1>2, <1>3, <1>4, <1>9 DEF SinkTypes
<1> QED BY <1>6, <1>7, <1>8, <1>9, <1>10 DEF SinkInv

\* A step that leaves the streams, the waiters and the offers alone.
LEMMA QuietKeeps ==
  ASSUME ReceiverInv, UNCHANGED <<fileVars, arrived, offered>>
  PROVE  WaitInv' /\ WokenInv' /\ HeldInv' /\ OfferedInv'
<1>1. /\ UNCHANGED <<stream, buffer, file, waiters, woken, currentDay, arrived, offered>>
      /\ \A d \in Days : Held(d)' = Held(d)
  BY DEF fileVars, sinkVars, Held
<1>2. WaitInv' /\ WokenInv'
  BY <1>1 DEF ReceiverInv, SinkInv, WaitInv, WokenInv, Waiting
<1>3. HeldInv' /\ OfferedInv'
  BY <1>1, HeldKeeps
<1> QED BY <1>2, <1>3

LEMMA CloseFileKeeps ==
  ASSUME ReceiverInv, NEW c \in Signals, CloseFile(c) PROVE SinkInv'
<1>1. /\ Idle /\ closing[c] = "server" /\ phase' = "closed"
      /\ closing' = [closing EXCEPT ![c] = IF phase = "stopping" THEN "file" ELSE "queue"]
      /\ stream' = [d \in Days |-> IF d = currentDay /\ stream[d] = "open" THEN "ended"
                                   ELSE stream[d]]
      /\ UNCHANGED <<vars, today, currentDay, needsDrain, buffer, wantsDrain, file,
                     waiters, woken, arrived, pool>>
  BY DEF CloseFile
<1>2. SinkInv /\ SinkTypes /\ StreamInv /\ StopTypes /\ UNCHANGED offered
  BY <1>1 DEF ReceiverInv, SinkInv, vars
<1>3. /\ stream' \in [Days -> Streams]
      /\ \A d \in Days : /\ stream'[d] # "open"
                         /\ stream[d] \in {"none", "failed"} => stream'[d] = stream[d]
                         /\ stream[d] # "none" => stream'[d] # "none"
  BY <1>1, <1>2 DEF SinkTypes, StreamInv, Streams
<1>4. \A d \in Days : Held(d)' = Held(d)
  BY <1>1 DEF Held
<1>5. HeldInv' /\ OfferedInv'
  BY <1>1, <1>2, <1>3, <1>4, HeldKeeps
<1>6. WaitInv' /\ WokenInv'
  BY <1>1, <1>2 DEF SinkInv, WaitInv, WokenInv, Waiting, Idle
<1>7. StreamInv'
  <2>1. currentDay # 0 => currentDay \in Days
    BY <1>2, ReceiverAssumption DEF SinkTypes, Days
  <2> QED BY <1>1, <1>2, <1>3, <2>1 DEF StreamInv
<1>8. SinkTypes'
  BY <1>1, <1>2, <1>3 DEF SinkTypes
<1>9. /\ closing' \in [Signals -> Stages]
      /\ closing'[c] = IF phase = "stopping" THEN "file" ELSE "queue"
      /\ \A b \in Signals \ {c} : closing'[b] = closing[b]
  BY <1>1, <1>2 DEF StopTypes, Stages
<1>10. StopTypes' /\ StopInv'
  BY <1>1, <1>2, <1>9 DEF StopTypes, StopInv, Phases, SinkInv
<1>11. CloseInv'
  <2>1. CASE phase = "stopping"
    BY <1>1, <1>9, <2>1 DEF CloseInv
  <2>2. CASE phase = "closed"
    <3>1. Flushed \/ \E b \in Signals : closing[b] = "file"
      BY <1>2, <2>2 DEF SinkInv, CloseInv
    <3>2. Flushed => Flushed'
      BY <1>1 DEF Flushed
    <3>3. \A b \in Signals : closing[b] = "file" => closing'[b] = "file"
      BY <1>1, <1>9
    <3> QED BY <1>1, <3>1, <3>2, <3>3 DEF CloseInv
  <2>3. phase \in {"stopping", "closed"}
    BY <1>1, <1>2 DEF SinkInv, StopTypes, StopInv, Phases, Idle, Running
  <2> QED BY <2>1, <2>2, <2>3
<1> QED BY <1>5, <1>6, <1>7, <1>8, <1>10, <1>11 DEF SinkInv

\* The other steps of a shutdown leave the streams and the queue alone.
LEMMA ShutdownKeeps ==
  ASSUME ReceiverInv, NEW c \in Signals,
         Shutdown(c) \/ ClosePostgres(c) \/ EndPool(c) \/ Exit(c)
  PROVE  SinkInv'
<1>1. /\ SinkInv /\ SinkTypes /\ StreamInv /\ StopTypes /\ StopInv /\ CloseInv
      /\ closing \in [Signals -> Stages]
  BY DEF ReceiverInv, SinkInv, StopTypes
<1>2. Idle /\ UNCHANGED <<vars, today, fileVars, arrived>>
  BY DEF Shutdown, ClosePostgres, EndPool, Exit
<1>3. UNCHANGED <<running, offered>>
  BY <1>2 DEF vars
<1>4. WaitInv' /\ WokenInv' /\ HeldInv' /\ OfferedInv'
  BY <1>2, <1>3, QuietKeeps
<1>5. UNCHANGED <<stream, buffer, file, waiters, woken, currentDay, wantsDrain, needsDrain>>
  BY <1>2 DEF fileVars, sinkVars
<1>6. SinkTypes' /\ (Flushed <=> Flushed')
  BY <1>1, <1>2, <1>5 DEF SinkTypes, Flushed
<1>7. phase \in {"up", "stopping", "closed"}
  BY <1>1, <1>2 DEF StopTypes, Phases, Idle, Running
<1>8. CASE Shutdown(c)
  <2>1. /\ closing[c] = "none" /\ closing' = [closing EXCEPT ![c] = "server"]
        /\ phase' = IF phase = "up" THEN "stopping" ELSE phase
        /\ pool' = pool
    BY <1>8 DEF Shutdown
  <2>2. /\ closing'[c] = "server" /\ closing' \in [Signals -> Stages]
        /\ \A b \in Signals \ {c} : closing'[b] = closing[b]
    BY <1>1, <2>1 DEF Stages
  <2>3. StopTypes'
    BY <1>1, <2>1, <2>2 DEF StopTypes, Phases
  <2>4. StopInv'
    BY <1>1, <2>1, <2>2 DEF StopInv
  <2>5. CloseInv'
    BY <1>1, <1>6, <1>7, <2>1, <2>2 DEF CloseInv
  <2>6. StreamInv'
    BY <1>1, <1>2, <1>5, <1>7, <2>1 DEF StreamInv
  <2> QED BY <1>4, <1>6, <2>3, <2>4, <2>5, <2>6 DEF SinkInv
<1>9. CASE ClosePostgres(c)
  <2>1. /\ closing[c] = "file" /\ closing' = [closing EXCEPT ![c] = "queue"]
        /\ Flushed /\ UNCHANGED <<phase, pool>>
    BY <1>9 DEF ClosePostgres, Flushed
  <2>2. /\ closing'[c] = "queue" /\ closing' \in [Signals -> Stages]
        /\ \A b \in Signals \ {c} : closing'[b] = closing[b]
    BY <1>1, <2>1 DEF Stages
  <2>3. StopTypes' /\ StopInv'
    BY <1>1, <2>1, <2>2 DEF StopTypes, StopInv
  <2>4. CloseInv'
    BY <1>6, <1>7, <2>1 DEF CloseInv
  <2>5. StreamInv'
    BY <1>1, <1>2, <1>5, <2>1 DEF StreamInv
  <2> QED BY <1>4, <1>6, <2>3, <2>4, <2>5 DEF SinkInv
<1>10. CASE EndPool(c)
  <2>1. /\ closing[c] = "queue" /\ closing' = [closing EXCEPT ![c] = "pool"]
        /\ pool' = [ended |-> TRUE, gaveUp |-> queue # <<>> \/ inFlight > 0,
                    owed |-> ToSet(accepted), took |-> ToSet(started)]
        /\ phase' = phase
    BY <1>10 DEF EndPool
  <2>2. /\ closing'[c] = "pool" /\ closing' \in [Signals -> Stages]
        /\ \A b \in Signals \ {c} : closing'[b] = closing[b]
    BY <1>1, <2>1 DEF Stages
  <2>3. /\ accepted \in Seq(Items) /\ started \in Seq(Items) /\ queue \in Seq(Items)
        /\ accepted = started \o queue
    BY DEF ReceiverInv, IInv, TypeOK, FirstInFirstOut
  <2>4. ToSet(accepted) \subseteq Items /\ ToSet(started) \subseteq Items
    BY <2>3 DEF ToSet
  <2>5. (queue # <<>> \/ inFlight > 0) \in BOOLEAN
    OBVIOUS
  <2>6. StopTypes'
    BY <1>1, <2>1, <2>2, <2>4, <2>5 DEF StopTypes, Pools
  <2>7. ToSet(accepted) \subseteq ToSet(started) \/ queue # <<>>
    <3>1. queue = <<>> => accepted = started
      BY <2>3, ConcatEmptySeq
    <3> QED BY <3>1
  <2>8. StopInv'
    <3>1. pool'.owed = ToSet(accepted) /\ pool'.took = ToSet(started)
          /\ pool'.gaveUp = (queue # <<>> \/ inFlight > 0)
      BY <2>1
    <3> QED BY <1>1, <2>1, <2>2, <2>7, <3>1 DEF StopInv
  <2>9. CloseInv'
    <3>1. \A b \in Signals : closing[b] = "file" => closing'[b] = "file"
      BY <2>1, <2>2
    <3> QED BY <1>1, <1>6, <1>7, <2>1, <3>1 DEF CloseInv
  <2>10. StreamInv'
    BY <1>1, <1>2, <1>5, <2>1 DEF StreamInv
  <2> QED BY <1>4, <1>6, <2>6, <2>8, <2>9, <2>10 DEF SinkInv
<1>11. CASE Exit(c)
  <2>1. /\ phase' = "exit0" /\ UNCHANGED <<closing, pool>>
        /\ \/ closing[c] = "pool" /\ pool.took \cap running = {}
           \/ closing[c] = "queue" /\ pool.ended
    BY <1>11 DEF Exit
  <2>2. phase = "closed"
    BY <1>1, <1>7, <2>1 DEF StopInv
  <2>3. StopTypes' /\ StopInv'
    BY <1>1, <2>1 DEF StopTypes, StopInv, Phases
  <2>4. CloseInv'
    BY <1>1, <1>3, <1>6, <2>1, <2>2 DEF CloseInv
  <2>5. StreamInv'
    BY <1>1, <1>2, <1>5, <2>1, <2>2 DEF StreamInv
  <2> QED BY <1>4, <1>6, <2>3, <2>4, <2>5 DEF SinkInv
<1> QED BY <1>8, <1>9, <1>10, <1>11

LEMMA OthersKeep ==
  ASSUME ReceiverInv, (\E i \in Items : Inserted(i)) \/ Midnight \/ Cut \/ UNCHANGED allVars
  PROVE  SinkInv'
<1>1. SinkInv /\ SinkTypes /\ StreamInv /\ StopTypes /\ StopInv /\ CloseInv
  BY DEF ReceiverInv, SinkInv
<1>2. UNCHANGED <<fileVars, arrived, offered>>
  BY DEF Inserted, Settle, Midnight, Cut, allVars, vars
<1>3. WaitInv' /\ WokenInv' /\ HeldInv' /\ OfferedInv'
  BY <1>2, QuietKeeps
<1>4. /\ UNCHANGED <<stream, buffer, file, waiters, woken, currentDay, wantsDrain, needsDrain>>
      /\ (Flushed <=> Flushed')
  BY <1>2 DEF fileVars, sinkVars, Flushed
<1>5. CASE \E i \in Items : Inserted(i)
  <2>1. UNCHANGED <<today, phase>> /\ UNCHANGED stopVars /\ Running
    BY <1>5 DEF Inserted, Idle, stopVars
  <2>2. SinkTypes' /\ StreamInv'
    BY <1>1, <1>2, <1>4, <2>1 DEF SinkTypes, StreamInv
  <2>3. StopTypes' /\ StopInv' /\ CloseInv'
    BY <1>1, <1>4, <2>1, StopKeeps
  <2> QED BY <1>3, <2>2, <2>3 DEF SinkInv
<1>6. CASE Midnight
  <2>1. /\ today < LastDay /\ today' = today + 1 /\ Running /\ UNCHANGED phase
        /\ UNCHANGED stopVars
    BY <1>6 DEF Midnight, Idle, stopVars
  <2>2. today' \in Days /\ currentDay <= today'
    BY <1>1, <2>1, ReceiverAssumption DEF Days, SinkTypes, StreamInv
  <2>3. SinkTypes' /\ StreamInv'
    BY <1>1, <1>2, <1>4, <2>1, <2>2 DEF SinkTypes, StreamInv
  <2>4. StopTypes' /\ StopInv' /\ CloseInv'
    BY <1>1, <1>4, <2>1, StopKeeps
  <2> QED BY <1>3, <2>3, <2>4 DEF SinkInv
<1>7. CASE Cut
  <2>1. phase' = "exit1" /\ UNCHANGED <<today, closing, pool>>
    BY <1>7 DEF Cut
  <2>2. SinkTypes' /\ StreamInv'
    BY <1>1, <1>2, <1>4, <2>1 DEF SinkTypes, StreamInv
  <2>3. StopTypes' /\ StopInv' /\ CloseInv'
    BY <1>1, <2>1 DEF StopTypes, StopInv, CloseInv, Phases
  <2> QED BY <1>3, <2>2, <2>3 DEF SinkInv
<1>8. CASE UNCHANGED allVars
  <2>1. UNCHANGED <<today, phase, closing, pool, running>>
    BY <1>8 DEF allVars, stopVars, vars
  <2>2. SinkTypes' /\ StreamInv'
    BY <1>1, <1>2, <1>4, <2>1 DEF SinkTypes, StreamInv
  <2>3. StopTypes' /\ StopInv' /\ CloseInv'
    BY <1>1, <1>4, <2>1 DEF StopTypes, StopInv, CloseInv
  <2> QED BY <1>3, <2>2, <2>3 DEF SinkInv
<1> QED BY <1>5, <1>6, <1>7, <1>8

LEMMA ReceiverSteps ==
  ASSUME ReceiverInv, [ReceiverNext]_allVars PROVE ReceiverInv'
<1>1. SinkTypes /\ IInv
  BY DEF ReceiverInv, SinkInv
<1>2. IInv'
  BY <1>1, ReceiverStepsQueue, QueueSteps
<1>3. ASSUME NEW i \in Items, PostLog(i) PROVE SinkInv'
  BY <1>3, PostLogKeeps
<1>4. ASSUME NEW d \in Days, DiskWrite(d) PROVE SinkInv'
  BY <1>4, DiskWriteKeeps
<1>5. ASSUME NEW d \in Days, StreamError(d) PROVE SinkInv'
  BY <1>5, StreamErrorKeeps
<1>6. ASSUME Resume PROVE SinkInv'
  BY <1>6, ResumeKeeps
<1>7. ASSUME NEW c \in Signals, CloseFile(c) PROVE SinkInv'
  BY <1>7, CloseFileKeeps
<1>8. ASSUME NEW c \in Signals, Shutdown(c) \/ ClosePostgres(c) \/ EndPool(c) \/ Exit(c)
      PROVE  SinkInv'
  BY <1>8, ShutdownKeeps
<1>9. ASSUME (\E i \in Items : Inserted(i)) \/ Midnight \/ Cut \/ UNCHANGED allVars
      PROVE  SinkInv'
  BY <1>9, OthersKeep
<1>10. SinkInv'
  BY <1>3, <1>4, <1>5, <1>6, <1>7, <1>8, <1>9 DEF ReceiverNext
<1> QED BY <1>2, <1>10 DEF ReceiverInv

LEMMA ReceiverInvariant == ReceiverSpec => []ReceiverInv
<1>1. ReceiverInit => ReceiverInv
  BY ReceiverStarts
<1>2. ReceiverInv /\ [ReceiverNext]_allVars => ReceiverInv'
  BY ReceiverSteps
<1> QED BY <1>1, <1>2, PTL DEF ReceiverSpec

\* Types of the whole receiver, its queue included, at any number of records, days,
\* workers and failing streams.
THEOREM ReceiverTypeCorrect == ReceiverSpec => [](TypeOK /\ SinkTypes /\ StopTypes)
<1>1. ReceiverInv => TypeOK /\ SinkTypes /\ StopTypes
  BY DEF ReceiverInv, IInv, SinkInv
<1> QED BY <1>1, ReceiverInvariant, PTL

\* A record is in the file of the day it arrived on, once, though it may have
\* awaited a drain over midnight, over the failure of the stream it waited for, or
\* during the shutdown: a woken handler writes to the sink's current stream, and
\* that is still its own day's.
THEOREM FiledOnTheDayItArrived == ReceiverSpec => []FiledOnItsDay
<1>1. ReceiverInv => FiledOnItsDay
  <2> SUFFICES ASSUME ReceiverInv, NEW d \in Days
               PROVE  /\ \A i \in Archive(d) : arrived[i] = d
                      /\ IsInjective(file[d] \o buffer[d])
                      /\ stream[d] = "open" => d = currentDay
    BY DEF FiledOnItsDay
  <2>1. SinkTypes /\ HeldInv /\ StreamInv
    BY DEF ReceiverInv, SinkInv
  <2>2. Archive(d) = ToSet(Held(d))
    BY <2>1, ArchiveIsHeld
  <2> QED BY <2>1, <2>2 DEF HeldInv, Held, StreamInv
<1> QED BY <1>1, ReceiverInvariant, PTL

\* Postgres is given no record that the file of its day has not taken first, unless
\* that file has failed: the handler pushes only after its write, or its wait for
\* the write, is over.
THEOREM PostgresComesAfterFile == ReceiverSpec => []PostgresAfterFile
<1>1. ReceiverInv => PostgresAfterFile
  <2> SUFFICES ASSUME ReceiverInv, NEW i \in offered
               PROVE  i \in Archive(arrived[i]) \/ stream[arrived[i]] = "failed"
    BY DEF PostgresAfterFile
  <2>1. SinkTypes /\ OfferedInv
    BY DEF ReceiverInv, SinkInv
  <2>2. PICK d \in Days : arrived[i] = d /\ (i \in ToSet(Held(d)) \/ stream[d] = "failed")
    BY <2>1 DEF OfferedInv
  <2>3. Archive(d) = ToSet(Held(d))
    BY <2>1, ArchiveIsHeld
  <2> QED BY <2>2, <2>3
<1> QED BY <1>1, ReceiverInvariant, PTL

\* exit(0) after one signal, for any number of records, days and failing streams:
\* the day's stream has written out all it took, no insert the pool took is under
\* way, and every record accepted before the pool was ended has had its insert,
\* unless drainAndWait gave up.  With a second signal the first two may fail.
THEOREM ExitHasSettled == ReceiverSpec => []ExitSettles
<1>1. ReceiverInv => ExitSettles
  <2> DEFINE told == {c \in Signals : closing[c] # "none"}
  <2> SUFFICES ASSUME ReceiverInv, phase = "exit0", Cardinality(told) = 1
               PROVE  /\ currentDay # 0 => buffer[currentDay] = <<>>
                      /\ pool.took \cap running = {}
                      /\ pool.owed \subseteq pool.took \/ pool.gaveUp
    BY DEF ExitSettles
  <2>1. StopInv /\ CloseInv
    BY DEF ReceiverInv, SinkInv
  <2>2. IsFiniteSet(told)
    <3>1. IsFiniteSet(Signals)
      BY ReceiverAssumption, FS_Interval DEF Signals
    <3> QED BY <3>1, FS_Subset
  <2>3. PICK a : told = {a}
    BY <2>2, FS_Singleton
  <2>4. \A b, c \in Signals : closing[b] # "none" /\ closing[c] # "none" => b = c
    BY <2>3
  <2> HIDE DEF told
  <2>5. PICK c \in Signals : \/ closing[c] = "pool" /\ pool.took \cap running = {}
                             \/ closing[c] = "queue" /\ pool.ended
    BY <2>1 DEF CloseInv
  <2>6. ~ \E b \in Signals : closing[b] = "file"
    BY <2>4, <2>5
  <2>7. closing[c] = "queue" => ~pool.ended
    BY <2>1, <2>4 DEF StopInv
  <2>8. Flushed
    BY <2>1, <2>6 DEF CloseInv
  <2> QED BY <2>1, <2>5, <2>7, <2>8 DEF StopInv, Flushed
<1> QED BY <1>1, ReceiverInvariant, PTL

\* Behind the file sink the queue is the bounded queue of its own specification:
\* the receiver only ever takes its steps, so all that is proved of it holds here.
THEOREM ReceiverRunsTheQueue == ReceiverSpec => Spec
<1>1. ReceiverInit => Init
  BY DEF ReceiverInit
<1>2. SinkTypes /\ [ReceiverNext]_allVars => [Next]_vars
  BY ReceiverStepsQueue
<1>3. ReceiverSpec => []SinkTypes
  <2>1. ReceiverInv => SinkTypes
    BY DEF ReceiverInv, SinkInv
  <2> QED BY <2>1, ReceiverInvariant, PTL
<1> QED BY <1>1, <1>2, <1>3, PTL DEF ReceiverSpec, Spec

=============================================================================
