---------------------------- MODULE LogReceiver ----------------------------
(***************************************************************************)
(* kong-logger: the POST /logs handler, the daily JSONL file behind it and *)
(* the bounded queue in front of Postgres, up to the shutdown.             *)
(*                                                                         *)
(* A handler runs to completion between two awaits, so each step is what   *)
(* one callback does.  A handler that found the stream full awaits its     *)
(* "drain" event: the callback that emits it puts the waiters in `woken`,  *)
(* and nothing else runs until these microtasks are done.                  *)
(*                                                                         *)
(* There is one write stream per UTC day, named here by its day.  Node's   *)
(* stream is modelled by what the code relies on: write returns FALSE once *)
(* HighWater records are buffered, and "drain" is emitted only when the    *)
(* buffer empties after such a write, on a stream that has neither been    *)
(* ended nor failed.                                                       *)
(***************************************************************************)
EXTENDS BoundedQueue, SequencesExt

CONSTANTS
  HighWater, \* records a stream buffers before write returns FALSE
  LastDay,   \* bound: UTC days, numbered from 1
  MaxErrors, \* bound: streams that fail
  MaxSignals \* bound: the SIGTERMs and SIGINTs the process gets

ASSUME ReceiverAssumption ==
  /\ HighWater \in Nat \ {0} /\ LastDay \in Nat \ {0} /\ MaxErrors \in Nat
  /\ MaxSignals \in Nat

Days    == 1 .. LastDay
Signals == 1 .. MaxSignals

VARIABLES
  today,      \* the UTC day of the clock
  currentDay, \* the sink's current stream, 0 before the first record
  needsDrain, \* the sink's _needsDrain
  stream,     \* per day: "none", "open", "ended" or "failed"
  buffer,     \* per day: the records the stream holds
  wantsDrain, \* per day: the stream's own flag, some write returned FALSE
  file,       \* per day: the records on disk
  waiters,    \* per day: the handlers that await the stream's "drain"
  woken,      \* waiters whose promise is settled, to run before anything else
  arrived,    \* per record: the day of its POST, 0 before it
  phase,      \* of the process
  closing,    \* per signal: how far its shutdown has come
  pool        \* the pg pool: has it been ended, and what it was then (history)

sinkVars == <<currentDay, needsDrain, stream, buffer, wantsDrain>>
fileVars == <<sinkVars, file, waiters, woken>>
stopVars == <<phase, closing, pool>>
allVars == <<vars, today, fileVars, arrived, stopVars>>

\* "closed": the server has emitted "close" and the file sink has no stream.
Phases == {"up", "stopping", "closed", "exit0", "exit1"}

\* What a shutdown awaits: nothing yet, the server's "close", the end of the
\* stream, drainAndWait, the end of the pool.
Stages == {"none", "server", "file", "queue", "pool"}

Running == phase \notin {"exit0", "exit1"}

\* No microtask is pending: the next callback may run.
Idle == Running /\ woken = <<>>

ReceiverInit ==
  /\ Init
  /\ today = 1 /\ currentDay = 0 /\ needsDrain = FALSE
  /\ stream = [d \in Days |-> "none"]
  /\ buffer = [d \in Days |-> <<>>]
  /\ wantsDrain = [d \in Days |-> FALSE]
  /\ file = [d \in Days |-> <<>>]
  /\ waiters = [d \in Days |-> <<>>]
  /\ woken = <<>>
  /\ arrived = [i \in Items |-> 0]
  /\ phase = "up" /\ closing = [c \in Signals |-> "none"]
  /\ pool = [ended |-> FALSE, gaveUp |-> FALSE, owed |-> {}, took |-> {}]

\* Mutant: the old stream is left open.
EnsuredNoEnd ==
  [d \in Days |-> IF d = today /\ currentDay # today THEN "open" ELSE stream[d]]

\* The streams once _ensureStream has run: today's is open, the one before it has
\* been told to end.
Ensured ==
  [d \in Days |->
     IF currentDay = today THEN stream[d]
     ELSE IF d = today THEN "open"
     ELSE IF d = currentDay /\ stream[d] = "open" THEN "ended"
     ELSE stream[d]]

\* stream.write(record) on the stream of day d, one of `streams`, with `needs` for
\* _needsDrain.  A failed stream takes nothing and returns FALSE.
WriteRecord(i, d, streams, needs) ==
  LET taken == streams[d] = "open"
      ok    == taken /\ Len(buffer[d]) + 1 < HighWater
  IN
  /\ buffer' = IF taken THEN [buffer EXCEPT ![d] = Append(@, i)] ELSE buffer
  /\ wantsDrain' = [wantsDrain EXCEPT ![d] = @ \/ (taken /\ ~ok)]
  /\ needsDrain' = (needs \/ ~ok)

\* Must the record that arrives now wait?  A new stream starts without.
MustWait == needsDrain /\ currentDay = today

\* The record joins the handlers that await the stream's "drain".
AwaitDrain(i) ==
  /\ waiters' = [waiters EXCEPT ![today] = Append(@, i)]
  /\ UNCHANGED <<buffer, wantsDrain, needsDrain>>

\* The callback that handles POST /logs.
Receive(i) ==
  /\ Idle /\ phase \in {"up", "stopping"} /\ arrived[i] = 0
  /\ arrived' = [arrived EXCEPT ![i] = today]
  /\ currentDay' = today /\ stream' = Ensured
  /\ UNCHANGED <<today, file, woken, stopVars>>

\* Mutant: the Postgres sink is given the record before the file sink is awaited.
PostLogEager(i) ==
  /\ Receive(i) /\ Push(i)
  /\ IF MustWait
     THEN AwaitDrain(i)
     ELSE WriteRecord(i, today, Ensured, FALSE) /\ UNCHANGED waiters

\* Mutant: the rollover destroys the old stream with what it buffers.
PostLogDestroy(i) ==
  /\ Receive(i)
  /\ IF MustWait
     THEN AwaitDrain(i) /\ UNCHANGED vars
     ELSE /\ Push(i) /\ UNCHANGED <<waiters, wantsDrain>>
          /\ buffer' = [d \in Days |-> IF d = today THEN Append(buffer[d], i) ELSE <<>>]
          /\ needsDrain' = (Len(buffer'[today]) >= HighWater)

\* A record arrives: the handler acknowledges it, writes it to the file sink and
\* gives it to the Postgres sink, or waits for the stream to drain first.
PostLog(i) ==
  /\ Receive(i)
  /\ IF MustWait
     THEN AwaitDrain(i) /\ UNCHANGED vars
     ELSE WriteRecord(i, today, Ensured, FALSE) /\ Push(i) /\ UNCHANGED waiters

\* A woken handler goes on: it writes to the sink's stream if it was woken by
\* "drain", its wait has thrown if it was woken by "error"; either way the record
\* goes to the Postgres sink.
Resume ==
  /\ Running /\ woken # <<>>
  /\ woken' = Tail(woken)
  /\ LET i == Head(woken).record IN
     /\ IF Head(woken).drained
        THEN WriteRecord(i, currentDay, stream, FALSE)
        ELSE UNCHANGED <<buffer, wantsDrain, needsDrain>>
     /\ Push(i)
  /\ UNCHANGED <<today, currentDay, stream, file, waiters, arrived, stopVars>>

\* The promises of the handlers in ws are settled.
Wake(ws, drained) ==
  woken' = [j \in 1 .. Len(ws) |-> [record |-> ws[j], drained |-> drained]]

\* The disk has taken the first n records of a stream.  If that empties a stream
\* that had refused a write, "drain" goes to all that listen, or to nobody.
DiskWrite(d) ==
  /\ Idle /\ stream[d] \in {"open", "ended"}
  /\ \E n \in 1 .. Len(buffer[d]) :
       /\ file' = [file EXCEPT ![d] = @ \o SubSeq(buffer[d], 1, n)]
       /\ buffer' = [buffer EXCEPT ![d] = SubSeq(@, n + 1, Len(@))]
  /\ IF buffer'[d] = <<>> /\ wantsDrain[d] /\ stream[d] = "open"
     THEN /\ wantsDrain' = [wantsDrain EXCEPT ![d] = FALSE]
          /\ waiters' = [waiters EXCEPT ![d] = <<>>]
          /\ Wake(waiters[d], TRUE)
     ELSE UNCHANGED <<wantsDrain, waiters, woken>>
  /\ UNCHANGED <<vars, today, currentDay, needsDrain, stream, arrived, stopVars>>

Failures == Cardinality({d \in Days : stream[d] = "failed"})

\* A write (or the open) of the file fails: Node destroys the stream, what it
\* buffered is gone, and the promises of those who wait on it are rejected.
StreamError(d) ==
  /\ Idle /\ stream[d] \in {"open", "ended"} /\ Failures < MaxErrors
  /\ stream' = [stream EXCEPT ![d] = "failed"]
  /\ buffer' = [buffer EXCEPT ![d] = <<>>]
  /\ waiters' = [waiters EXCEPT ![d] = <<>>]
  /\ Wake(waiters[d], FALSE)
  /\ UNCHANGED <<vars, today, currentDay, needsDrain, wantsDrain, file, arrived, stopVars>>

\* The worker of a record ends, inserted or not.
Inserted(i) ==
  /\ Idle /\ Settle(i)
  /\ UNCHANGED <<today, fileVars, arrived, stopVars>>

Midnight ==
  /\ Idle /\ today < LastDay /\ today' = today + 1
  /\ UNCHANGED <<vars, fileVars, arrived, stopVars>>

\* A signal: no connection is accepted any more, those there are may still send.
\* Nothing keeps a second signal from starting a second shutdown.
Shutdown(c) ==
  /\ Idle /\ closing[c] = "none" /\ closing' = [closing EXCEPT ![c] = "server"]
  /\ \A b \in Signals : b < c => closing[b] # "none"
  /\ phase' = IF phase = "up" THEN "stopping" ELSE phase
  /\ UNCHANGED <<vars, today, fileVars, arrived, pool>>

\* The last connection is closed: the listeners of "close" run in their order.  The
\* first shutdown takes the stream from the file sink and ends it; a second finds
\* none and goes on to the Postgres sink.
CloseFile(c) ==
  /\ Idle /\ closing[c] = "server" /\ phase' = "closed"
  /\ \A b \in Signals : b < c => closing[b] # "server"
  /\ closing' = [closing EXCEPT ![c] = IF phase = "stopping" THEN "file" ELSE "queue"]
  /\ stream' = [d \in Days |-> IF d = currentDay /\ stream[d] = "open" THEN "ended"
                               ELSE stream[d]]
  /\ UNCHANGED <<vars, today, currentDay, needsDrain, buffer, wantsDrain, file,
                 waiters, woken, arrived, pool>>

\* Mutant: the stream is told to end, nobody waits until it has.
ClosePostgresAtOnce(c) ==
  /\ Idle /\ closing[c] = "file" /\ closing' = [closing EXCEPT ![c] = "queue"]
  /\ UNCHANGED <<vars, today, fileVars, arrived, phase, pool>>

\* That stream has finished, or failed: the Postgres sink is closed next.
ClosePostgres(c) ==
  /\ Idle /\ closing[c] = "file" /\ closing' = [closing EXCEPT ![c] = "queue"]
  /\ currentDay # 0 => buffer[currentDay] = <<>>
  /\ UNCHANGED <<vars, today, fileVars, arrived, phase, pool>>

\* drainAndWait is over, the queue empty or its five seconds up, and close does not
\* ask which: it ends the pool.  From then on the pool takes no insert.
EndPool(c) ==
  /\ Idle /\ closing[c] = "queue" /\ ~pool.ended
  /\ closing' = [closing EXCEPT ![c] = "pool"]
  /\ pool' = [ended |-> TRUE, gaveUp |-> queue # <<>> \/ inFlight > 0,
              owed |-> ToSet(accepted), took |-> ToSet(started)]
  /\ UNCHANGED <<vars, today, fileVars, arrived, phase>>

\* exit(0): the pool has ended, which waits for the inserts it took, or it had been
\* ended by another shutdown already, which throws.
Exit(c) ==
  /\ Idle /\ phase' = "exit0"
  /\ \/ closing[c] = "pool" /\ pool.took \cap running = {}
     \/ closing[c] = "queue" /\ pool.ended
  /\ UNCHANGED <<vars, today, fileVars, arrived, closing, pool>>

\* exit(1): ten seconds after a signal.
Cut ==
  /\ Idle /\ phase \in {"stopping", "closed"} /\ phase' = "exit1"
  /\ UNCHANGED <<vars, today, fileVars, arrived, closing, pool>>

ReceiverNext ==
  \/ \E i \in Items : PostLog(i) \/ Inserted(i)
  \/ \E d \in Days : DiskWrite(d) \/ StreamError(d)
  \/ \E c \in Signals : Shutdown(c) \/ CloseFile(c) \/ ClosePostgres(c) \/ EndPool(c) \/ Exit(c)
  \/ Resume \/ Midnight \/ Cut

ReceiverSpec == ReceiverInit /\ [][ReceiverNext]_allVars

\* The disk and Postgres answer, and what is woken runs.
FairReceiver ==
  /\ ReceiverSpec /\ WF_allVars(Resume)
  /\ \A i \in Items : WF_allVars(Inserted(i))
  /\ \A d \in Days : WF_allVars(DiskWrite(d))

-----------------------------------------------------------------------------
(* Properties *)

\* What the stream of day d has taken.
Archive(d) == ToSet(file[d]) \cup ToSet(buffer[d])

\* A record is archived in the file of the day it arrived on, and once, however
\* long it waited and whatever midnight passed meanwhile; no stream but the
\* current one is left open.
FiledOnItsDay ==
  \A d \in Days :
    /\ \A i \in Archive(d) : arrived[i] = d
    /\ IsInjective(file[d] \o buffer[d])
    /\ stream[d] = "open" => d = currentDay

\* Billing has no record the archive has not: what was given to Postgres is in the
\* file of its day, unless that file has failed.
PostgresAfterFile ==
  \A i \in offered : i \in Archive(arrived[i]) \/ stream[arrived[i]] = "failed"

\* What exit(0) means after one signal: the day's file holds all its stream took,
\* no insert the pool took is under way, and every record the queue had accepted
\* when the pool was ended has had its insert, unless drainAndWait had given up.
ExitSettles ==
  phase = "exit0" /\ Cardinality({c \in Signals : closing[c] # "none"}) = 1 =>
    /\ currentDay # 0 => buffer[currentDay] = <<>>
    /\ pool.took \cap running = {}
    /\ pool.owed \subseteq pool.took \/ pool.gaveUp

\* What a stream has taken reaches its file, over midnight and during a shutdown
\* too, unless the file fails or the process exits first.
BufferedReachesFile ==
  \A i \in Items, d \in Days :
    (i \in ToSet(buffer[d]))
      ~> (i \in ToSet(file[d]) \/ stream[d] = "failed" \/ ~Running)

\* Whatever the queue accepts gets its insert, as long as inserts end and the pool
\* is not ended.
AcceptedIsInserted ==
  \A i \in Items :
    (i \in ToSet(accepted)) ~> (i \in ToSet(started) \/ pool.ended \/ ~Running)

\* Every record that was acknowledged is given to the Postgres sink.
EveryRecordHandedOn ==
  \A i \in Items : (arrived[i] # 0) ~> (i \in offered \/ ~Running)

=============================================================================
