------------------------------- MODULE Quota -------------------------------
(***************************************************************************)
(* QuotaService and the admin endpoint that edits its limits: the daily    *)
(* token counters in Redis, the quotas.yaml and the memory of each worker, *)
(* and the requests that are checked in Phase B of the pipeline and        *)
(* charged only after their answer.                                        *)
(*                                                                         *)
(* A call to Redis computes its key, that is the day, before it awaits, so *)
(* check and charge are two steps each.  The handlers of the admin         *)
(* endpoint do not await: they are one step.                               *)
(***************************************************************************)
EXTENDS Integers, FiniteSets

CONSTANTS
  Workers,      \* backend processes, each with its own quotas.yaml
  Tenants,
  Underway,     \* requests that may be under way at a time
  Limits,       \* max_tokens an administrator may set
  ImageLimits,  \* max_tokens in the quotas.yaml of the image, per tenant
  DefaultLimit, \* "defaults" of that file, and of the code without it
  Ceiling,      \* the highest of them
  MaxCost,      \* tokens of the most expensive answer
  Retries,      \* times the Redis client sends an unanswered command again
  LastDay,      \* bound: UTC days, numbered from 1
  MaxChanges,   \* bound: admin updates, restarts and lost counters
  MaxAnswers    \* bound: answers that are metered

ASSUME QuotaAssumption ==
  /\ IsFiniteSet(Underway)
  /\ Ceiling \in Nat \ {0} /\ MaxCost \in Nat \ {0}
  /\ Retries \in Nat /\ LastDay \in Nat \ {0}
  /\ MaxChanges \in Nat /\ MaxAnswers \in Nat
  /\ DefaultLimit \in 0 .. Ceiling /\ Limits \subseteq 0 .. Ceiling
  /\ \E S \in SUBSET Tenants : ImageLimits \in [S -> 0 .. Ceiling]

Days == 1 .. LastDay

VARIABLES
  today,
  used,    \* Redis: used[d][t], the counter of day d, 0 without a key
  file,    \* per worker: quotas.yaml
  quotas,  \* per worker: the limit its memory gives each tenant
  req,     \* per request: Idle, or where it is with what it has read
  logged,  \* history: tokens of the tenant's usage_token_logs rows
  excess,  \* history: tokens charged today by requests that no counter admitted
  changes, answers

bounds == <<changes, answers>>
quotaVars == <<today, used, file, quotas, req, logged, excess, bounds>>

Idle == [pc |-> "idle"]

\* limit: what it is checked against; day: that of the key of its Redis call;
\* cost: the tokens to charge; sighted: was it admitted by today's counter.
Active ==
  [pc : {"checking", "admitted", "charging"}, worker : Workers, tenant : Tenants,
   limit : 1 .. Ceiling, day : Days, cost : 0 .. MaxCost, sighted : BOOLEAN]

\* A file of entries; an interrupted write leaves it empty or garbled.
Yaml(entries) == [form |-> "yaml", entries |-> entries]
Torn == {[form |-> "empty", entries |-> <<>>], [form |-> "garbled", entries |-> <<>>]}

\* Mutant: a file that cannot be used lifts the limits.
LoadUnlimited(f) ==
  [t \in Tenants |-> IF f.form # "yaml" THEN Ceiling + 1
                     ELSE IF t \in DOMAIN f.entries THEN f.entries[t]
                     ELSE DefaultLimit]

\* _load_quotas, then get_tenant_config(t)["max_tokens"] for every t: a file it
\* cannot use leaves no tenant and a default of 0.
Load(f) ==
  [t \in Tenants |-> IF f.form # "yaml" THEN 0
                     ELSE IF t \in DOMAIN f.entries THEN f.entries[t]
                     ELSE DefaultLimit]

QuotaInit ==
  /\ today = 1
  /\ used = [d \in Days |-> [t \in Tenants |-> 0]]
  /\ file = [w \in Workers |-> Yaml(ImageLimits)]
  /\ quotas = [w \in Workers |-> Load(Yaml(ImageLimits))]
  /\ req = [r \in Underway |-> Idle]
  /\ logged = [t \in Tenants |-> 0]
  /\ excess = [t \in Tenants |-> 0]
  /\ changes = 0 /\ answers = 0

\* check_quota up to its await.  A limit of 0 refuses without asking Redis.
Check(r, w, t) ==
  /\ req[r] = Idle /\ quotas[w][t] > 0
  /\ req' = [req EXCEPT ![r] =
       [pc |-> "checking", worker |-> w, tenant |-> t, limit |-> quotas[w][t],
        day |-> today, cost |-> 0, sighted |-> FALSE]]
  /\ UNCHANGED <<today, used, file, quotas, logged, excess, bounds>>

\* Mutant: the limit itself is still admitted.
BelowOrAt(r) == used[req[r].day][req[r].tenant] <= req[r].limit

Below(r) == used[req[r].day][req[r].tenant] < req[r].limit

\* Redis has answered, and the counter is below the limit; or Redis is unreachable,
\* and the request is let through.
Admit(r) ==
  /\ req[r].pc = "checking"
  /\ \E reachable \in BOOLEAN :
       /\ reachable => Below(r)
       /\ req' = [req EXCEPT ![r].pc = "admitted",
                             ![r].sighted = reachable /\ req[r].day = today]
  /\ UNCHANGED <<today, used, file, quotas, logged, excess, bounds>>

\* The request ends uncharged: over its limit, denied by a later gate, failed,
\* cancelled, or its usage row could not be written.
Leave(r) ==
  /\ req[r].pc = "admitted" \/ (req[r].pc = "checking" /\ ~Below(r))
  /\ req' = [req EXCEPT ![r] = Idle]
  /\ UNCHANGED <<today, used, file, quotas, logged, excess, bounds>>

\* Mutant: a usage row that could not be written does not stop the charge.
LogUsageSwallow(r) ==
  /\ req[r].pc = "admitted" /\ answers < MaxAnswers /\ answers' = answers + 1
  /\ \E c \in 1 .. MaxCost, written \in BOOLEAN :
       /\ logged' = IF written THEN [logged EXCEPT ![req[r].tenant] = @ + c] ELSE logged
       /\ req' = [req EXCEPT ![r].pc = "charging", ![r].cost = c, ![r].day = today]
  /\ UNCHANGED <<today, used, file, quotas, excess, changes>>

\* The answer is complete: its usage row is committed and increment_usage runs up
\* to its await.  If the acknowledgement of the commit is lost it never does.
LogUsage(r) ==
  /\ req[r].pc = "admitted" /\ answers < MaxAnswers /\ answers' = answers + 1
  /\ \E c \in 1 .. MaxCost, heard \in BOOLEAN :
       /\ logged' = [logged EXCEPT ![req[r].tenant] = @ + c]
       /\ req' = [req EXCEPT ![r] =
            IF heard THEN [@ EXCEPT !.pc = "charging", !.cost = c, !.day = today]
            ELSE Idle]
  /\ UNCHANGED <<today, used, file, quotas, excess, changes>>

\* The transaction of increment_usage is executed n times: not at all if Redis is
\* unreachable, which the code skips, more than once if the client sent it again.
Charge(r) ==
  /\ req[r].pc = "charging"
  /\ \E n \in 0 .. Retries + 1 :
       /\ used' = [used EXCEPT ![req[r].day][req[r].tenant] = @ + n * req[r].cost]
       /\ excess' = IF req[r].sighted \/ req[r].day # today THEN excess
                    ELSE [excess EXCEPT ![req[r].tenant] = @ + n * req[r].cost]
  /\ req' = [req EXCEPT ![r] = Idle]
  /\ UNCHANGED <<today, file, quotas, logged, bounds>>

\* Mutant: the tenants already in the file are not written back.
UpdateAlone(w, t, max) ==
  /\ changes < MaxChanges /\ changes' = changes + 1 /\ UNCHANGED answers
  /\ file[w].form # "garbled"
  /\ file' = [file EXCEPT ![w] = Yaml([x \in {t} |-> max])]
  /\ quotas' = [quotas EXCEPT ![w] = Load(file'[w])]
  /\ UNCHANGED <<today, used, req, logged, excess>>

\* PUT /admin/quotas/{t} on worker w: the file is read, changed, written back, and
\* loaded.  A garbled one is an error before anything is written.
Update(w, t, max) ==
  /\ changes < MaxChanges /\ changes' = changes + 1 /\ UNCHANGED answers
  /\ file[w].form # "garbled"
  /\ file' = [file EXCEPT ![w] =
       Yaml([x \in DOMAIN @.entries \cup {t} |-> IF x = t THEN max ELSE @.entries[x]])]
  /\ quotas' = [quotas EXCEPT ![w] = Load(file'[w])]
  /\ UNCHANGED <<today, used, req, logged, excess>>

\* The write fails after open() has truncated the file: an error, and no reload.
UpdateFails(w) ==
  /\ changes < MaxChanges /\ changes' = changes + 1 /\ UNCHANGED answers
  /\ file[w].form # "garbled"
  /\ \E f \in Torn : file' = [file EXCEPT ![w] = f]
  /\ UNCHANGED <<today, used, quotas, req, logged, excess>>

\* The process dies, perhaps in the middle of an update, with its requests, and is
\* started again on its file, or on the image's in a new container.
Restart(w) ==
  /\ changes < MaxChanges /\ changes' = changes + 1 /\ UNCHANGED answers
  /\ \E f \in {file[w], Yaml(ImageLimits)} \cup Torn :
       /\ file' = [file EXCEPT ![w] = f]
       /\ quotas' = [quotas EXCEPT ![w] = Load(f)]
  /\ req' = [r \in Underway |-> IF req[r] # Idle /\ req[r].worker = w THEN Idle ELSE req[r]]
  /\ UNCHANGED <<today, used, logged, excess>>

\* Redis loses a counter: it expires, is evicted (allkeys-lru), or Redis restarts
\* from a snapshot taken before it.
Forget(d, t) ==
  /\ changes < MaxChanges /\ changes' = changes + 1 /\ UNCHANGED answers
  /\ used[d][t] > 0
  /\ \E n \in 0 .. used[d][t] - 1 : used' = [used EXCEPT ![d][t] = n]
  /\ UNCHANGED <<today, file, quotas, req, logged, excess>>

Midnight ==
  /\ today < LastDay /\ today' = today + 1
  /\ excess' = [t \in Tenants |-> 0]
  /\ UNCHANGED <<used, file, quotas, req, logged, bounds>>

QuotaNext ==
  \/ \E r \in Underway :
       \/ \E w \in Workers, t \in Tenants : Check(r, w, t)
       \/ Admit(r) \/ Leave(r) \/ LogUsage(r) \/ Charge(r)
  \/ \E w \in Workers :
       \/ \E t \in Tenants, max \in Limits : Update(w, t, max)
       \/ UpdateFails(w) \/ Restart(w)
  \/ \E d \in Days, t \in Tenants : Forget(d, t)
  \/ Midnight

QuotaSpec == QuotaInit /\ [][QuotaNext]_quotaVars

-----------------------------------------------------------------------------
(* Properties *)

\* What one request can add to a counter.
Share == MaxCost * (Retries + 1)

\* Every variable keeps its type, and no limit passes the highest one ever set.
QuotaTypeOK ==
  /\ today \in Days
  /\ used \in [Days -> [Tenants -> Nat]]
  /\ quotas \in [Workers -> [Tenants -> 0 .. Ceiling]]
  /\ req \in [Underway -> Active \cup {Idle}]
  /\ logged \in [Tenants -> Nat] /\ excess \in [Tenants -> Nat]
  /\ changes \in 0 .. MaxChanges /\ answers \in 0 .. MaxAnswers

\* check_quota reads what increment_usage writes only after the answer: a tenant
\* may pass its limit, but by no more than the requests under way can cost, apart
\* from those let through without today's counter.
OvershootBounded ==
  \A t \in Tenants :
    used[today][t] <= Ceiling - 1 + Share * Cardinality(Underway) + excess[t]

\* No counter runs ahead of the ledger by more than the client's resends: a tenant
\* is not refused for tokens it has no usage row of.
CounterWithinLedger ==
  \A d \in Days, t \in Tenants : used[d][t] <= (Retries + 1) * logged[t]

\* A change of one tenant's limit leaves the others theirs: a step that reloads a
\* worker from a file that could be read changes one limit at most.
OneTenantAtATime ==
  [][\A w \in Workers :
       (file[w].form = "yaml" /\ file'[w] # Yaml(ImageLimits) /\ file'[w].form = "yaml")
         => \A t, u \in Tenants :
              quotas'[w][t] # quotas[w][t] /\ quotas'[w][u] # quotas[w][u] => t = u]_quotaVars

=============================================================================
