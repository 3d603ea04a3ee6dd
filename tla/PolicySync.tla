----------------------------- MODULE PolicySync -----------------------------
(***************************************************************************)
(* PolicyService: governance policies live in Postgres; every backend      *)
(* worker caches the active ones (self._policies) and pushes them to OPA's *)
(* data API at startup and after each admin change.  A request is judged   *)
(* by OPA's data and the worker's cache together: OPA names the policies   *)
(* that block, and the worker denies if its own cache knows one of them.   *)
(*                                                                         *)
(* What is judged is one kind of request: a policy either blocks it, lets  *)
(* it pass, or is absent (deleted, inactive, or not matching).             *)
(***************************************************************************)
EXTENDS Integers, Sequences, FiniteSets

CONSTANTS
  Workers,       \* backend processes, each with a PolicyService
  Opas,          \* OPA replicas behind one service address
  Policies,      \* policy ids
  Bootstrap,     \* the policies in the ConfigMap OPA starts with
  Syncs,         \* admin handlers that may be running at a time
  Evals,         \* requests that may be in Phase D at a time
  StrictSync,    \* OPA_STRICT_SYNC
  LocalFallback, \* OPA_ALLOW_LOCAL_FALLBACK
  FailClosed,    \* OPA_FAIL_CLOSED
  MaxChanges,    \* bound: admin changes
  MaxRestarts    \* bound: restarts of workers and OPA replicas

Effects == {"absent", "pass", "block"}
Bundle  == [Policies -> Effects]

ASSUME PolicyAssumption ==
  /\ Workers # {} /\ Bootstrap \in Bundle
  /\ {StrictSync, LocalFallback, FailClosed} \subseteq BOOLEAN
  /\ MaxChanges \in Nat /\ MaxRestarts \in Nat

VARIABLES
  db,       \* the policies committed in Postgres
  up,       \* has the worker finished its startup
  local,    \* each worker's cache; its hash is taken to be injective
  pushed,   \* the cache whose hash was last recorded as pushed; <<>> for none
  lastOk,   \* did the last push succeed
  opa,      \* the data document of each OPA replica
  sync,     \* what each admin handler is doing
  ask,      \* what each evaluation is doing
  restarts,
  hist,     \* history: every state of the policies in Postgres
  acked     \* history: the latest of them a sync has reported pushed

vars == <<db, up, local, pushed, lastOk, opa, sync, ask, restarts, hist, acked>>

Empty == [p \in Policies |-> "absent"]

Blocking(b) == {p \in Policies : b[p] = "block"}
Known(b)    == {p \in Policies : b[p] # "absent"}

NoSync == [phase |-> "idle", worker |-> CHOOSE w \in Workers : TRUE,
           snap |-> Empty, read |-> 1, lone |-> FALSE]
NoAsk  == [stage |-> "idle", worker |-> CHOOSE w \in Workers : TRUE,
           blocked |-> {}, floor |-> 1, verdict |-> "none"]

Init ==
  /\ db \in Bundle
  /\ hist = <<db>> /\ acked = 1
  /\ up = [w \in Workers |-> FALSE]
  /\ local = [w \in Workers |-> Empty]
  /\ pushed = [w \in Workers |-> <<>>]
  /\ lastOk = [w \in Workers |-> FALSE]
  /\ opa = [o \in Opas |-> Bootstrap]
  /\ sync = [s \in Syncs |-> NoSync]
  /\ ask = [e \in Evals |-> NoAsk]
  /\ restarts = 0

InSync(w) == lastOk[w] /\ local[w] = pushed[w]

-----------------------------------------------------------------------------
(* Syncing *)

\* History: sync s disturbs every other one under way.
Alone(s) == \A t \in Syncs \ {s} : sync[t].phase = "idle"

Start(s, w) ==
  /\ sync[s].phase = "idle"
  /\ sync' = [t \in Syncs |->
       IF t = s THEN [NoSync EXCEPT !.phase = "listing", !.worker = w, !.lone = Alone(s)]
       ELSE [sync[t] EXCEPT !.lone = FALSE]]

\* lifespan: the sync of a starting worker.
Boot(s, w) ==
  /\ ~up[w] /\ \A t \in Syncs : sync[t].phase # "idle" => sync[t].worker # w
  /\ Start(s, w)
  /\ UNCHANGED <<db, up, local, pushed, lastOk, opa, ask, restarts, hist, acked>>

\* An admin creates, updates or deletes policy p: committed before the sync.
ChangePolicy(s, w, p) ==
  /\ up[w] /\ Len(hist) <= MaxChanges
  /\ \E x \in Effects \ {db[p]} : db' = [db EXCEPT ![p] = x]
  /\ hist' = Append(hist, db')
  /\ Start(s, w)
  /\ UNCHANGED <<up, local, pushed, lastOk, opa, ask, restarts, acked>>

Reload(s, w) ==
  /\ up[w]
  /\ Start(s, w)
  /\ UNCHANGED <<db, up, local, pushed, lastOk, opa, ask, restarts, hist, acked>>

\* list_policies: the query reads, and its answer travels back.
List(s) ==
  /\ sync[s].phase = "listing"
  /\ \/ sync' = [sync EXCEPT ![s].phase = "listed", ![s].snap = db,
                             ![s].read = Len(hist)]
     \/ sync' = [sync EXCEPT ![s].phase = "idle"]
  /\ UNCHANGED <<db, up, local, pushed, lastOk, opa, ask, restarts, hist, acked>>

\* Mutant: an inactive or deleted policy stays in the cache.
InstallMerge(s) ==
  /\ sync[s].phase = "listed"
  /\ local' = [local EXCEPT ![sync[s].worker] =
       [p \in Policies |-> IF sync[s].snap[p] = "absent" THEN @[p] ELSE sync[s].snap[p]]]
  /\ sync' = [sync EXCEPT ![s].phase = "pushing"]
  /\ UNCHANGED <<db, up, pushed, lastOk, opa, ask, restarts, hist, acked>>

\* Mutant: the cache leaves out what is not in the database.
InstallPartial(s) ==
  /\ sync[s].phase = "listed"
  /\ local' = [local EXCEPT ![sync[s].worker] =
       [p \in Known(sync[s].snap) |-> sync[s].snap[p]]]
  /\ sync' = [sync EXCEPT ![s].phase = "pushing"]
  /\ UNCHANGED <<db, up, pushed, lastOk, opa, ask, restarts, hist, acked>>

\* The cache and its hash are replaced, and the PUT leaves with them.
Install(s) ==
  /\ sync[s].phase = "listed"
  /\ local' = [local EXCEPT ![sync[s].worker] = sync[s].snap]
  /\ sync' = [sync EXCEPT ![s].phase = "pushing"]
  /\ UNCHANGED <<db, up, pushed, lastOk, opa, ask, restarts, hist, acked>>

\* Mutant: an HTTP error status of the PUT is taken for success.
PushUnchecked(s) ==
  /\ sync[s].phase = "pushing"
  /\ \/ \E o \in Opas : opa' = [opa EXCEPT ![o] = sync[s].snap]
     \/ UNCHANGED opa
  /\ sync' = [sync EXCEPT ![s].phase = "pushed"]
  /\ UNCHANGED <<db, up, local, pushed, lastOk, ask, restarts, hist, acked>>

\* The PUT reaches one OPA replica and is acknowledged or not, or is lost.
Push(s) ==
  /\ sync[s].phase = "pushing"
  /\ \/ /\ \E o \in Opas : opa' = [opa EXCEPT ![o] = sync[s].snap]
        /\ \E f \in {"pushed", "failed"} : sync' = [sync EXCEPT ![s].phase = f]
     \/ UNCHANGED opa /\ sync' = [sync EXCEPT ![s].phase = "failed"]
  /\ UNCHANGED <<db, up, local, pushed, lastOk, ask, restarts, hist, acked>>

\* Mutant: a failed push leaves the status as it was.
FinishQuiet(s) ==
  LET w == sync[s].worker ok == sync[s].phase = "pushed"
  IN
  /\ sync[s].phase \in {"pushed", "failed"}
  /\ pushed' = [pushed EXCEPT ![w] = local[w]]
  /\ lastOk' = [lastOk EXCEPT ![w] = @ \/ ok]
  /\ acked' = IF ok /\ sync[s].read > acked THEN sync[s].read ELSE acked
  /\ up' = [up EXCEPT ![w] = @ \/ ok \/ ~StrictSync]
  /\ sync' = [sync EXCEPT ![s].phase = "idle"]
  /\ UNCHANGED <<db, local, opa, ask, restarts, hist>>

\* The answer of the PUT: the hash recorded as pushed is that of the cache as it
\* is now.  A worker whose first sync fails does not start under OPA_STRICT_SYNC.
Finish(s) ==
  LET w == sync[s].worker ok == sync[s].phase = "pushed"
  IN
  /\ sync[s].phase \in {"pushed", "failed"}
  /\ pushed' = IF ok THEN [pushed EXCEPT ![w] = local[w]] ELSE pushed
  /\ lastOk' = [lastOk EXCEPT ![w] = ok]
  /\ acked' = IF ok /\ sync[s].read > acked THEN sync[s].read ELSE acked
  /\ up' = [up EXCEPT ![w] = @ \/ ok \/ ~StrictSync]
  /\ sync' = [sync EXCEPT ![s].phase = "idle"]
  /\ UNCHANGED <<db, local, opa, ask, restarts, hist>>

-----------------------------------------------------------------------------
(* Evaluating *)

Decided(e, v) == ask' = [ask EXCEPT ![e].stage = "done", ![e].verdict = v]

\* evaluate_async up to the POST.
Ask(e, w) ==
  /\ ask[e].stage \in {"idle", "done"}
  /\ up[w]
  /\ ask' = [ask EXCEPT ![e] =
       IF FailClosed /\ ~InSync(w)
       THEN [NoAsk EXCEPT !.stage = "done", !.worker = w, !.floor = acked, !.verdict = "error"]
       ELSE [NoAsk EXCEPT !.stage = "asked", !.worker = w, !.floor = acked]]
  /\ UNCHANGED <<db, up, local, pushed, lastOk, opa, sync, restarts, hist, acked>>

\* orchestrator.rego, evaluated by one replica on the data it holds.
Answer(e) ==
  /\ ask[e].stage = "asked"
  /\ \E o \in Opas : ask' = [ask EXCEPT ![e].stage = "answered",
                                        ![e].blocked = Blocking(opa[o])]
  /\ UNCHANGED <<db, up, local, pushed, lastOk, opa, sync, restarts, hist, acked>>

\* _evaluate_with_opa: a policy denies if OPA says so and the cache knows it.
Decide(e) ==
  /\ ask[e].stage = "answered"
  /\ Decided(e, IF ask[e].blocked \cap Known(local[ask[e].worker]) # {}
                THEN "deny" ELSE "allow")
  /\ UNCHANGED <<db, up, local, pushed, lastOk, opa, sync, restarts, hist, acked>>

\* Mutant: every policy that applies denies, whatever its effect.
FallBackAny(e) ==
  /\ ask[e].stage = "asked"
  /\ Decided(e, IF ~LocalFallback THEN "error"
                ELSE IF Known(local[ask[e].worker]) # {} THEN "deny" ELSE "allow")
  /\ UNCHANGED <<db, up, local, pushed, lastOk, opa, sync, restarts, hist, acked>>

\* OPA does not answer, or with an HTTP error: the Python evaluator, if allowed.
FallBack(e) ==
  /\ ask[e].stage = "asked"
  /\ Decided(e, IF ~LocalFallback THEN "error"
                ELSE IF Blocking(local[ask[e].worker]) # {} THEN "deny" ELSE "allow")
  /\ UNCHANGED <<db, up, local, pushed, lastOk, opa, sync, restarts, hist, acked>>

\* OPA answers with something that is no decision.
Malformed(e) ==
  /\ ask[e].stage = "asked"
  /\ Decided(e, "error")
  /\ UNCHANGED <<db, up, local, pushed, lastOk, opa, sync, restarts, hist, acked>>

-----------------------------------------------------------------------------
(* Restarts *)

RestartOpa(o) ==
  /\ restarts < MaxRestarts /\ restarts' = restarts + 1
  /\ opa' = [opa EXCEPT ![o] = Bootstrap]
  /\ sync' = [s \in Syncs |-> [sync[s] EXCEPT !.lone = FALSE]]
  /\ UNCHANGED <<db, up, local, pushed, lastOk, ask, hist, acked>>

\* A worker's cache, its status and what it was doing are gone.
RestartWorker(w) ==
  /\ restarts < MaxRestarts /\ restarts' = restarts + 1
  /\ up' = [up EXCEPT ![w] = FALSE]
  /\ local' = [local EXCEPT ![w] = Empty]
  /\ pushed' = [pushed EXCEPT ![w] = <<>>]
  /\ lastOk' = [lastOk EXCEPT ![w] = FALSE]
  /\ sync' = [s \in Syncs |->
       IF sync[s].phase # "idle" /\ sync[s].worker = w THEN NoSync ELSE sync[s]]
  /\ ask' = [e \in Evals |->
       IF ask[e].stage # "idle" /\ ask[e].worker = w THEN NoAsk ELSE ask[e]]
  /\ UNCHANGED <<db, opa, hist, acked>>

Next ==
  \/ \E s \in Syncs :
       \/ \E w \in Workers : Boot(s, w) \/ Reload(s, w)
       \/ \E w \in Workers, p \in Policies : ChangePolicy(s, w, p)
       \/ List(s) \/ Install(s) \/ Push(s) \/ Finish(s)
  \/ \E e \in Evals :
       \/ \E w \in Workers : Ask(e, w)
       \/ Answer(e) \/ Decide(e) \/ FallBack(e) \/ Malformed(e)
  \/ \E o \in Opas : RestartOpa(o)
  \/ \E w \in Workers : RestartWorker(w)

Spec == Init /\ [][Next]_vars

-----------------------------------------------------------------------------
(* Properties *)

Phases == {"idle", "listing", "listed", "pushing", "pushed", "failed"}
Stages == {"idle", "asked", "answered", "done"}

TypeOK ==
  /\ db \in Bundle
  /\ up \in [Workers -> BOOLEAN]
  /\ local \in [Workers -> Bundle]
  /\ pushed \in [Workers -> Bundle \cup {<<>>}]
  /\ lastOk \in [Workers -> BOOLEAN]
  /\ opa \in [Opas -> Bundle]
  /\ sync \in [Syncs -> [phase : Phases, worker : Workers, snap : Bundle,
                         read : 1 .. MaxChanges + 1, lone : BOOLEAN]]
  /\ ask \in [Evals -> [stage : Stages, worker : Workers, blocked : SUBSET Policies,
                        floor : 1 .. MaxChanges + 1,
                        verdict : {"none", "allow", "deny", "error"}]]
  /\ restarts \in 0 .. MaxRestarts
  /\ hist \in Seq(Bundle) /\ Len(hist) \in 1 .. MaxChanges + 1
  /\ acked \in 1 .. Len(hist)

\* The policies Postgres held from the last acknowledged sync before the
\* evaluation began until now.
Window(e) == {hist[k] : k \in ask[e].floor .. Len(hist)}

\* A blocking policy that an acknowledged sync had put in force before the
\* evaluation began, and that no admin has touched since, is enforced: the
\* request is not let through.
StandingPolicyEnforced ==
  \A e \in Evals : ask[e].verdict = "allow" =>
    \A p \in Policies : \E b \in Window(e) : b[p] # "block"

\* A denial has a cause: some policy blocked the request at some time from the
\* last acknowledged sync before the evaluation until now.
DenialJustified ==
  \A e \in Evals : ask[e].verdict = "deny" => \E b \in Window(e) : Blocking(b) # {}

\* get_status: "in_sync" says that OPA holds what the worker's cache holds.
InSyncHonest == \A w \in Workers, o \in Opas : InSync(w) => opa[o] = local[w]

\* A sync that overlapped no other, and no restart of OPA, leaves its worker and
\* the OPA replica it reached with what Postgres holds, whatever state earlier
\* races, failures and restarts had left behind.
LoneSyncHeals ==
  \A s \in Syncs : sync[s].phase = "pushed" /\ sync[s].lone =>
    local[sync[s].worker] = db /\ \E o \in Opas : opa[o] = db

=============================================================================
