------------------------------ MODULE Routing ------------------------------
(***************************************************************************)
(* Which service answers an intent: the intent_routing and ai_services     *)
(* tables with the admin endpoints that edit them, the IntentCacheService  *)
(* of every worker with its background refresh, and the way of a request   *)
(* from its cached route to the provider.                                  *)
(*                                                                         *)
(* A handler is split where it awaits Postgres between reading a row and   *)
(* writing it.  A statement that Postgres checks itself (a unique name, a  *)
(* foreign key) is one step with its check.                                *)
(***************************************************************************)
EXTENDS Integers, Sequences, FiniteSets

CONSTANTS
  Workers,    \* backend processes, each with an IntentCacheService
  Reloaders,  \* admin handlers that may be reloading a cache at a time
  Editors,    \* admin handlers that may be editing a mapping at a time
  Requests,   \* requests that may be under way at a time
  Intents,
  Services,   \* service ids
  Protected,  \* those whose row carries is_protected
  Configs,    \* configurations of a service: its type, provider and key
  None,       \* no row, no entry, a field the payload leaves out
  MaxChanges, \* bound: changes of either table
  MaxMishaps  \* bound: failed queries and restarts

Route == [service : Services, active : BOOLEAN]

ASSUME RoutingAssumption ==
  /\ Protected \subseteq Services
  /\ None \notin Services \cup Configs \cup BOOLEAN \cup Route
  /\ Workers \cap Reloaders = {}
  /\ Configs # {}
  /\ MaxChanges \in Nat /\ MaxMishaps \in Nat

VARIABLES
  services, \* ai_services: the configuration of each service
  routes,   \* intent_routing: the row of each intent
  audit,    \* what replaying intent_mapping_audit_logs gives for each intent
  recorded, \* the services that rows of ai_requests refer to
  cache,    \* per worker: _cache
  life,     \* per worker: "down", "starting", "up", or "stale": up, its refresh task gone
  load,     \* what each reload, of a refresh task or an admin, is doing
  edit,     \* what each admin handler that edits a mapping has read
  req,      \* where each request is, with what it has read
  hist,     \* history: the active routes after each change
  since,    \* history: per worker, no older than what state its cache may be
  raced,    \* history: intents with a row that changed between read and write
  changes, mishaps

tables == <<services, routes, audit, recorded>>
past   == <<hist, raced>>
bounds == <<changes, mishaps>>
vars   == <<tables, cache, life, load, edit, req, past, since, bounds>>

Loaders == Workers \cup Reloaders

\* list_active_intent_mappings.
Active(rows) ==
  [i \in Intents |-> IF rows[i] # None /\ rows[i].active THEN rows[i].service ELSE None]

NoLoad == [pc |-> "idle"]
NoEdit == [pc |-> "idle"]
NoReq  == [pc |-> "idle"]

Init ==
  /\ services = [s \in Services |-> CHOOSE c \in Configs : TRUE]
  /\ routes \in [Intents -> [service : Services, active : {TRUE}] \cup {None}]
  /\ audit = routes /\ recorded = {}
  /\ cache = [w \in Workers |-> [i \in Intents |-> None]]
  /\ life = [w \in Workers |-> "down"]
  /\ load = [l \in Loaders |-> NoLoad]
  /\ edit = [a \in Editors |-> NoEdit]
  /\ req = [r \in Requests |-> NoReq]
  /\ hist = <<Active(routes)>>
  /\ since = [w \in Workers |-> 1]
  /\ raced = {} /\ changes = 0 /\ mishaps = 0

Change == changes < MaxChanges /\ changes' = changes + 1 /\ UNCHANGED mishaps

-----------------------------------------------------------------------------
(* The cache of a worker *)

Busy(w) == {l \in Loaders : load[l].pc # "idle" /\ load[l].worker = w}

\* force_reload up to its await.  _reload_lock is held by the start of a worker
\* and by its refresh task, which never overlap; an admin's reload ignores it.
Begin(l, w) ==
  load' = [load EXCEPT ![l] = [pc |-> "listing", worker |-> w, start |-> Len(hist)]]

\* lifespan: initialize().
Start(w) ==
  /\ life[w] = "down" /\ life' = [life EXCEPT ![w] = "starting"]
  /\ Begin(w, w)
  /\ UNCHANGED <<tables, cache, edit, req, past, since, bounds>>

\* start_background_refresh: the next round of the loop.
Refresh(w) ==
  /\ life[w] = "up" /\ load[w].pc = "idle"
  /\ Begin(w, w)
  /\ UNCHANGED <<tables, cache, life, edit, req, past, since, bounds>>

Reload(a, w) ==
  /\ life[w] \in {"up", "stale"}
  /\ load[a].pc = "idle"
  /\ Begin(a, w)
  /\ UNCHANGED <<tables, cache, life, edit, req, past, since, bounds>>

\* Postgres answers the query; the answer travels back.
Query(l) ==
  /\ load[l].pc = "listing"
  /\ load' = [load EXCEPT ![l] = [pc |-> "listed", worker |-> @.worker, start |-> @.start,
                                  snap |-> Active(routes)]]
  /\ UNCHANGED <<tables, cache, life, edit, req, past, since, bounds>>

\* Mutant: the entries are put into the old cache.
InstallUpdate(l) ==
  LET w == load[l].worker snap == load[l].snap
  IN
  /\ load[l].pc = "listed" /\ load' = [load EXCEPT ![l] = NoLoad]
  /\ cache' = [cache EXCEPT ![w] =
       [i \in Intents |-> IF snap[i] = None THEN @[i] ELSE snap[i]]]
  /\ life' = IF l = w THEN [life EXCEPT ![w] = "up"] ELSE life
  /\ since' = [since EXCEPT ![w] = load[l].start]
  /\ UNCHANGED <<tables, edit, req, past, bounds>>

\* Mutant: the refresh task ends after its first round.
InstallOnce(l) ==
  LET w == load[l].worker
  IN
  /\ load[l].pc = "listed"
  /\ load' = [load EXCEPT ![l] = IF l = w /\ life[w] = "up"
                                 THEN [@ EXCEPT !.pc = "ended"] ELSE NoLoad]
  /\ cache' = [cache EXCEPT ![w] = load[l].snap]
  /\ life' = IF l = w THEN [life EXCEPT ![w] = "up"] ELSE life
  /\ since' = [since EXCEPT ![w] = load[l].start]
  /\ UNCHANGED <<tables, edit, req, past, bounds>>

\* The cache is replaced as a whole; a starting worker is up with it.
Install(l) ==
  LET w == load[l].worker
  IN
  /\ load[l].pc = "listed" /\ load' = [load EXCEPT ![l] = NoLoad]
  /\ cache' = [cache EXCEPT ![w] = load[l].snap]
  /\ life' = IF l = w THEN [life EXCEPT ![w] = "up"] ELSE life
  /\ since' = [since EXCEPT ![w] = load[l].start]
  /\ UNCHANGED <<tables, edit, req, past, bounds>>

\* The query raises.  A start fails with it, an admin is told, and the refresh
\* task, which catches nothing but its cancellation, is over.
Fail(l) ==
  /\ mishaps < MaxMishaps /\ mishaps' = mishaps + 1 /\ UNCHANGED changes
  /\ load[l].pc = "listing" /\ load' = [load EXCEPT ![l] = NoLoad]
  /\ life' = IF l \in Reloaders THEN life
             ELSE [life EXCEPT ![l] = IF @ = "starting" THEN "down" ELSE "stale"]
  /\ UNCHANGED <<tables, cache, edit, req, past, since>>

\* A worker dies with its cache, its tasks and its requests.
Restart(w) ==
  /\ life[w] # "down"
  /\ mishaps < MaxMishaps /\ mishaps' = mishaps + 1 /\ UNCHANGED changes
  /\ life' = [life EXCEPT ![w] = "down"]
  /\ cache' = [cache EXCEPT ![w] = [i \in Intents |-> None]]
  /\ load' = [l \in Loaders |-> IF l \in Busy(w) THEN NoLoad ELSE load[l]]
  /\ req' = [r \in Requests |->
       IF req[r].pc # "idle" /\ req[r].worker = w THEN NoReq ELSE req[r]]
  /\ UNCHANGED <<tables, edit, past, since>>

-----------------------------------------------------------------------------
(* Editing the mappings *)

\* The row of intent i becomes row, its audit entry says entry, in one commit.
\* What another handler has read of that row is out of date from now on.
Commit(a, i, row, entry) ==
  /\ Change
  /\ routes' = [routes EXCEPT ![i] = row]
  /\ audit' = [audit EXCEPT ![i] = entry]
  /\ hist' = Append(hist, Active(routes'))
  /\ raced' = IF \E b \in Editors \ {a} : edit[b].pc = "read" /\ edit[b].intent = i
              THEN raced \cup {i} ELSE raced
  /\ UNCHANGED <<services, recorded>>

\* create_mapping looks for a row of that name, active or not.
FindForCreate(a, i, s) ==
  /\ edit[a] = NoEdit
  /\ routes[i] = None
  /\ edit' = [edit EXCEPT ![a] = [pc |-> "new", intent |-> i, service |-> s]]
  /\ UNCHANGED <<tables, cache, life, load, req, past, since, bounds>>

\* The insert, which the unique name or the foreign key may refuse.  The payload's
\* is_active is not looked at.
InsertMapping(a) ==
  LET i == edit[a].intent s == edit[a].service
      row == [service |-> s, active |-> TRUE]
  IN
  /\ edit[a].pc = "new" /\ edit' = [edit EXCEPT ![a] = NoEdit]
  /\ IF routes[i] = None /\ services[s] # None
     THEN Commit(a, i, row, row)
     ELSE UNCHANGED <<tables, past, bounds>>
  /\ UNCHANGED <<cache, life, load, req, since>>

\* update_mapping and delete_mapping read the row they are about to change.
Patch == [service : Services \cup {None}, active : BOOLEAN \cup {None}]

ReadMapping(a, i, data) ==
  /\ edit[a] = NoEdit
  /\ routes[i] # None
  /\ edit' = [edit EXCEPT ![a] =
       [pc |-> "read", intent |-> i, row |-> routes[i], data |-> data]]
  /\ UNCHANGED <<tables, cache, life, load, req, past, since, bounds>>

Patched(row, data) ==
  LET Given(new, old) == IF new = None THEN old ELSE new
  IN  [service |-> Given(data.service, row.service), active |-> Given(data.active, row.active)]

\* The columns of the UPDATE: those that differ from the row as it was read.
Dirty(row, data) ==
  LET Differs(new, old) == IF new = old THEN None ELSE new
  IN  [service |-> Differs(data.service, row.service), active |-> Differs(data.active, row.active)]

\* Mutant: the audit entry is committed on its own, before the row.
WriteMappingLogFirst(a) ==
  LET e == edit[a] row == Patched(routes[e.intent], Dirty(e.row, e.data))
  IN
  /\ e.pc = "read" /\ edit' = [edit EXCEPT ![a] = NoEdit]
  /\ Commit(a, e.intent,
            IF services[row.service] # None THEN row ELSE routes[e.intent],
            Patched(audit[e.intent], e.data))
  /\ UNCHANGED <<cache, life, load, req, since>>

\* The commit of the changed columns with an audit entry of the whole payload; the
\* foreign key may refuse both.
WriteMapping(a) ==
  LET e == edit[a] row == Patched(routes[e.intent], Dirty(e.row, e.data))
  IN
  /\ e.pc = "read" /\ edit' = [edit EXCEPT ![a] = NoEdit]
  /\ IF services[row.service] # None
     THEN Commit(a, e.intent, row, Patched(audit[e.intent], e.data))
     ELSE UNCHANGED <<tables, past, bounds>>
  /\ UNCHANGED <<cache, life, load, req, since>>

\* The statement fails or the handler dies with its worker: nothing is committed.
GiveUp(a) ==
  /\ edit[a] # NoEdit /\ edit' = [edit EXCEPT ![a] = NoEdit]
  /\ UNCHANGED <<tables, cache, life, load, req, past, since, bounds>>

-----------------------------------------------------------------------------
(* Editing the services *)

\* Mutant: rows of ai_requests do not hold on to their service.
ReferencedByRoutes(s) == \E i \in Intents : routes[i] # None /\ routes[i].service = s

\* The foreign keys on ai_services, of mappings active or not and of requests.
Referenced(s) ==
  \/ s \in recorded
  \/ \E i \in Intents : routes[i] # None /\ routes[i].service = s

SetService(s, c) ==
  /\ Change
  /\ services' = [services EXCEPT ![s] = c]
  /\ UNCHANGED <<routes, audit, recorded, cache, life, load, edit, req, past, since>>

CreateService(s, c) == services[s] = None /\ SetService(s, c)

UpdateService(s, c) ==
  services[s] \notin {None, c} /\ s \notin Protected /\ SetService(s, c)

DeleteService(s) ==
  services[s] # None /\ s \notin Protected /\ ~Referenced(s) /\ SetService(s, None)

-----------------------------------------------------------------------------
(* Requests *)

Goto(r, from, to) ==
  /\ req[r].pc = from
  /\ req' = [req EXCEPT ![r] = to]
  /\ UNCHANGED <<services, routes, audit, cache, life, load, edit, past, since, bounds>>

\* resolve_intent, from memory.
Resolve(r, w, i) ==
  /\ life[w] \in {"up", "stale"} /\ cache[w][i] # None
  /\ Goto(r, "idle", [pc |-> "resolved", worker |-> w, service |-> cache[w][i]])
  /\ UNCHANGED recorded

\* After the permission and quota checks: the row that request works with from
\* here on.  Without one it is refused.
LookUp(r) ==
  LET c == services[req[r].service]
  IN
  /\ Goto(r, "resolved",
       IF c = None THEN NoReq
       ELSE [pc |-> "found", worker |-> req[r].worker, service |-> req[r].service,
             config |-> c, judged |-> None])
  /\ UNCHANGED recorded

\* create_ai_request and its commit, unless the service has been deleted.  Phase D
\* goes on to judge what LookUp has read.
Record(r) ==
  /\ req[r].pc = "found"
  /\ IF services[req[r].service] = None
     THEN Goto(r, "found", NoReq) /\ UNCHANGED recorded
     ELSE /\ Goto(r, "found", [req[r] EXCEPT !.pc = "judged", !.judged = req[r].config])
          /\ recorded' = recorded \cup {req[r].service}

\* Mutant: the session expires its objects at a commit, and reads them again.
DispatchExpired(r) ==
  /\ Goto(r, "judged", [req[r] EXCEPT !.pc = "called", !.config = services[req[r].service]])
  /\ UNCHANGED recorded

\* The provider is called as the row read in LookUp says: expire_on_commit is off.
Dispatch(r) ==
  /\ Goto(r, "judged", [req[r] EXCEPT !.pc = "called"])
  /\ UNCHANGED recorded

\* A gate refuses, the request fails, is cancelled or has been answered.
Leave(r) ==
  /\ req[r].pc # "idle"
  /\ Goto(r, req[r].pc, NoReq)
  /\ UNCHANGED recorded

\* Log retention deletes rows of requests that ended a day ago or longer.
Expire(s) ==
  /\ s \in recorded
  /\ \A r \in Requests : req[r].pc \in {"judged", "called"} => req[r].service # s
  /\ recorded' = recorded \ {s}
  /\ UNCHANGED <<services, routes, audit, cache, life, load, edit, req, past, since, bounds>>

-----------------------------------------------------------------------------
Next ==
  \/ \E w \in Workers :
       \/ Start(w) \/ Refresh(w) \/ Restart(w)
       \/ \E a \in Reloaders : Reload(a, w)
       \/ \E r \in Requests, i \in Intents : Resolve(r, w, i)
  \/ \E l \in Loaders : Query(l) \/ Install(l) \/ Fail(l)
  \/ \E a \in Editors :
       \/ \E i \in Intents, s \in Services : FindForCreate(a, i, s)
       \/ \E i \in Intents, data \in Patch : ReadMapping(a, i, data)
       \/ InsertMapping(a) \/ WriteMapping(a) \/ GiveUp(a)
  \/ \E s \in Services :
       \/ \E c \in Configs : CreateService(s, c) \/ UpdateService(s, c)
       \/ DeleteService(s) \/ Expire(s)
  \/ \E r \in Requests :
       LookUp(r) \/ Record(r) \/ Dispatch(r) \/ Leave(r)

Spec == Init /\ [][Next]_vars

\* The timer of the refresh task fires and Postgres answers; a handler that has
\* begun to reload comes to its end.
Fairness ==
  /\ \A w \in Workers : WF_vars(Refresh(w))
  /\ \A l \in Loaders : WF_vars(Query(l)) /\ WF_vars(Install(l))

FairSpec == Spec /\ Fairness

-----------------------------------------------------------------------------
(* Properties *)

Snapshot == [Intents -> Services \cup {None}]

Loading == [pc : {"listing"}, worker : Workers, start : 1 .. MaxChanges + 1]
Loaded  == [pc : {"listed"}, worker : Workers, start : 1 .. MaxChanges + 1, snap : Snapshot]

Creating == [pc : {"new"}, intent : Intents, service : Services]
Changing == [pc : {"read"}, intent : Intents, row : Route, data : Patch]

Resolved == [pc : {"resolved"}, worker : Workers, service : Services]
Bound ==
  [pc : {"found", "judged", "called"}, worker : Workers, service : Services,
   config : Configs, judged : Configs \cup {None}]

TypeOK ==
  /\ services \in [Services -> Configs \cup {None}]
  /\ routes \in [Intents -> Route \cup {None}]
  /\ audit \in [Intents -> Route \cup {None}]
  /\ recorded \subseteq Services
  /\ cache \in [Workers -> Snapshot]
  /\ life \in [Workers -> {"down", "starting", "up", "stale"}]
  /\ load \in [Loaders -> {NoLoad} \cup Loading \cup Loaded]
  /\ edit \in [Editors -> {NoEdit} \cup Creating \cup Changing]
  /\ req \in [Requests -> {NoReq} \cup Resolved \cup Bound]
  /\ hist \in Seq(Snapshot) /\ Len(hist) \in 1 .. MaxChanges + 1
  /\ since \in [Workers -> 1 .. MaxChanges + 1]
  /\ raced \subseteq Intents
  /\ changes \in 0 .. MaxChanges /\ mishaps \in 0 .. MaxMishaps

\* A running worker routes by one committed state of the table, never by a mixture,
\* and by none older than the state in which the reload that filled its cache began:
\* force_reload replaces what _cache held, whatever overlaps it.
ReloadTakesEffect ==
  \A w \in Workers : life[w] \in {"up", "stale"} =>
    \E k \in since[w] .. Len(hist) : cache[w] = hist[k]

\* Replaying the audit log gives the table, for every mapping that no two handlers
\* edited at a time: what is refused leaves no entry, what is done leaves one.
AuditReplays == \A i \in Intents \ raced : audit[i] = routes[i]

\* The service of a request that is on its way to the provider is not deleted.
ServiceOutlivesRequest ==
  \A r \in Requests : req[r].pc \in {"judged", "called"} =>
    services[req[r].service] # None

\* The provider is called with the configuration that the policies judged, whatever
\* an admin makes of the service in the meantime.
DispatchedAsJudged ==
  \A r \in Requests : req[r].pc = "called" => req[r].config = req[r].judged

\* When the changes end, the cache of a worker with a refresh task becomes, and
\* stays, what the table says, whatever reloads overlapped before.
RoutesCatchUp ==
  \A w \in Workers : <>[](life[w] = "up" => cache[w] = Active(routes))

\* docs/study/10-data-layer.md:15 and intent_cache_service.py:77: the routes are
\* reloaded periodically "until cancelled", so every running worker catches up.
RefreshedUntilCancelled ==
  \A w \in Workers :
    <>[](life[w] \in {"up", "stale"} => cache[w] = Active(routes))

=============================================================================
