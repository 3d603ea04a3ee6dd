---------------------------- MODULE BoundedQueue ----------------------------
(***************************************************************************)
(* kong-logger's BoundedQueue: a bounded buffer in front of a worker that  *)
(* runs on at most `concurrency` items at a time.  JavaScript runs to      *)
(* completion, so push and the `finally` of a worker are one step each,    *)
(* and each of them drains.  LogReceiver puts it behind the file sink.     *)
(***************************************************************************)
EXTENDS Integers, Sequences, FiniteSets

CONSTANTS
  Items,       \* records that will be pushed
  Concurrency, \* workers that may run at a time (POOL_MAX)
  MaxSize      \* items that may wait (QUEUE_MAX)

ASSUME QueueAssumption ==
  /\ Concurrency \in Nat \ {0}
  /\ MaxSize \in Nat \ {0}

VARIABLES
  queue,
  inFlight,     \* the counter the code keeps
  droppedTotal,
  running,      \* the items whose worker has not settled
  offered,      \* history: items given to push
  accepted,     \* history: those it did not drop, in their order
  started       \* history: the items whose worker was started, in that order

vars == <<queue, inFlight, droppedTotal, running, offered, accepted, started>>

Init ==
  /\ queue = <<>> /\ inFlight = 0 /\ droppedTotal = 0
  /\ running = {} /\ offered = {} /\ accepted = <<>> /\ started = <<>>

\* The loop of _drain on queue q with n items in flight and the workers of
\* `busy`: it starts the first k items.
Drain(q, n, busy) ==
  LET room == Concurrency - n
      k    == IF Len(q) < room THEN Len(q) ELSE room
  IN
  /\ queue' = SubSeq(q, k + 1, Len(q))
  /\ inFlight' = n + k
  /\ running' = busy \cup {q[j] : j \in 1 .. k}
  /\ started' = started \o SubSeq(q, 1, k)

\* Mutant: one item more than maxSize may wait.
PushOneMore(i) ==
  /\ i \notin offered
  /\ offered' = offered \cup {i}
  /\ IF Len(queue) > MaxSize
     THEN /\ droppedTotal' = droppedTotal + 1
          /\ UNCHANGED <<queue, inFlight, running, accepted, started>>
     ELSE /\ Drain(Append(queue, i), inFlight, running)
          /\ accepted' = Append(accepted, i)
          /\ UNCHANGED droppedTotal

\* Mutant: the bound also counts what is in flight.
PushEager(i) ==
  /\ i \notin offered
  /\ offered' = offered \cup {i}
  /\ IF Len(queue) + inFlight >= MaxSize
     THEN /\ droppedTotal' = droppedTotal + 1
          /\ UNCHANGED <<queue, inFlight, running, accepted, started>>
     ELSE /\ Drain(Append(queue, i), inFlight, running)
          /\ accepted' = Append(accepted, i)
          /\ UNCHANGED droppedTotal

Push(i) ==
  /\ i \notin offered
  /\ offered' = offered \cup {i}
  /\ IF Len(queue) >= MaxSize
     THEN /\ droppedTotal' = droppedTotal + 1
          /\ UNCHANGED <<queue, inFlight, running, accepted, started>>
     ELSE /\ Drain(Append(queue, i), inFlight, running)
          /\ accepted' = Append(accepted, i)
          /\ UNCHANGED droppedTotal

\* Mutant: a settled worker releases its slot without draining.
SettleNoDrain(i) ==
  /\ i \in running
  /\ inFlight' = inFlight - 1 /\ running' = running \ {i}
  /\ UNCHANGED <<queue, droppedTotal, offered, accepted, started>>

\* Mutant: the slot is released on success only.
SettleLeak(i) ==
  /\ i \in running
  /\ \E failed \in BOOLEAN :
       Drain(queue, IF failed THEN inFlight ELSE inFlight - 1, running \ {i})
  /\ UNCHANGED <<droppedTotal, offered, accepted>>

\* The worker's promise is resolved or rejected: the `finally`.
Settle(i) ==
  /\ i \in running
  /\ Drain(queue, inFlight - 1, running \ {i})
  /\ UNCHANGED <<droppedTotal, offered, accepted>>

Next == \E i \in Items : Push(i) \/ Settle(i)

Spec == Init /\ [][Next]_vars

-----------------------------------------------------------------------------
(* Properties *)

TypeOK ==
  /\ queue \in Seq(Items) /\ Len(queue) <= MaxSize
  /\ inFlight \in 0 .. Concurrency
  /\ droppedTotal \in Nat
  /\ running \subseteq offered /\ offered \subseteq Items
  /\ accepted \in Seq(Items) /\ started \in Seq(Items)

\* The counter is the number of workers under way, whichever of them fail: no
\* slot leaks and none is given twice.
NoSlotLeak == inFlight = Cardinality(running)

\* Nothing waits while a slot is free: both push and the end of a worker drain.
WorkConserving == queue # <<>> => inFlight = Concurrency

\* Items are started in the order in which they were accepted, each of them once,
\* and nothing accepted is lost before it is started.
FirstInFirstOut == accepted = started \o queue

\* The books of the queue balance: its slots are those of the workers under way,
\* none is free while a record waits, and of what it accepted every record has
\* been started once or waits, in the order they came.
BooksBalance == NoSlotLeak /\ WorkConserving /\ FirstInFirstOut

\* The queue refuses a record only when it holds all it can hold, MaxSize waiting
\* and Concurrency in flight, and its drop counter counts every refusal.
Contract == INSTANCE SaturationContract WITH
  Capacity <- MaxSize + Concurrency, held <- Len(queue) + inFlight,
  refused <- droppedTotal

RefusesOnlyWhenFull == Contract!Spec

=============================================================================
