--------------------------- MODULE RoutingProofs ---------------------------
(***************************************************************************)
(* Proofs about Routing: types, and the four safety invariants, for any    *)
(* number of workers, admin handlers, requests, intents and services.      *)
(***************************************************************************)
EXTENDS Routing, TLAPS

USE DEF Loaders

-----------------------------------------------------------------------------
(* The inductive invariant *)

\* The history has an entry per change of the mappings, the last one what holds now.
Dated == Len(hist) =< changes + 1 /\ hist[Len(hist)] = Active(routes)

\* What a reload carries was true of the table after the reload began.
Carries ==
  \A l \in Loaders :
    /\ load[l].pc # "idle" => load[l].start =< Len(hist)
    /\ load[l].pc = "listed" =>
         \E k \in load[l].start .. Len(hist) : load[l].snap = hist[k]

\* A worker that is down has no reload of its own.
OwnLoad ==
  \A w \in Workers : load[w].pc # "idle" => load[w].worker = w /\ life[w] # "down"

\* A row, once there, stays; it is in the audit log exactly if it is there.
RowsStay ==
  /\ \A i \in Intents : routes[i] = None <=> audit[i] = None
  /\ \A a \in Editors : edit[a].pc = "read" => routes[edit[a].intent] # None

\* What an editor has read is the row, unless the row has been raced for.
ReadIsRow ==
  \A a \in Editors : (edit[a].pc = "read" /\ edit[a].intent \notin raced) =>
    edit[a].row = routes[edit[a].intent]

\* The foreign key of ai_requests.
Held == \A s \in recorded : services[s] # None

OnItsWay ==
  \A r \in Requests : req[r].pc \in {"judged", "called"} =>
    /\ req[r].service \in recorded
    /\ req[r].config = req[r].judged

IInv ==
  /\ TypeOK
  /\ Dated /\ Carries /\ OwnLoad /\ ReloadTakesEffect
  /\ RowsStay /\ ReadIsRow /\ AuditReplays
  /\ Held /\ OnItsWay

-----------------------------------------------------------------------------
(* Groups of the invariant, by the variables they are about *)

EditInv  == Dated /\ RowsStay /\ ReadIsRow /\ AuditReplays
CacheInv == Carries /\ OwnLoad /\ ReloadTakesEffect
ReqInv   == Held /\ OnItsWay

\* A step that leaves what a group is about leaves the group.
LEMMA EditSame ==
  ASSUME EditInv, UNCHANGED <<routes, audit, edit, hist, raced, changes>>
  PROVE  EditInv'
BY DEF EditInv, Dated, RowsStay, ReadIsRow, AuditReplays, Active

LEMMA CacheSame ==
  ASSUME CacheInv, UNCHANGED <<cache, life, load, hist, since>>
  PROVE  CacheInv'
BY DEF CacheInv, Carries, OwnLoad, ReloadTakesEffect

LEMMA ReqSame ==
  ASSUME ReqInv, UNCHANGED <<services, recorded, req>>
  PROVE  ReqInv'
BY DEF ReqInv, Held, OnItsWay

-----------------------------------------------------------------------------
(* Operators *)

LEMMA ActiveType ==
  ASSUME NEW rows \in [Intents -> Route \cup {None}], RoutingAssumption
  PROVE  Active(rows) \in Snapshot
<1>1. \A i \in Intents : rows[i] \in Route => rows[i].service \in Services
  BY DEF Route
<1> QED BY <1>1 DEF Active, Snapshot

\* Applying a payload to a row gives a row.
LEMMA PatchedType ==
  ASSUME NEW row \in Route, NEW data \in Patch
  PROVE  Patched(row, data) \in Route
BY DEF Patched, Patch, Route

LEMMA DirtyType ==
  ASSUME NEW row \in Route, NEW data \in Patch
  PROVE  Dirty(row, data) \in Patch
BY DEF Dirty, Patch, Route

\* On the row that was read, the changed columns do what the whole payload does.
LEMMA DirtyEnough ==
  ASSUME NEW row \in Route, NEW data \in Patch
  PROVE  Patched(row, Dirty(row, data)) = Patched(row, data)
BY DEF Patched, Dirty, Patch, Route

\* A reload that is under way has a type of its own in each of its states.
LEMMA LoadShape ==
  ASSUME TypeOK, NEW l \in Workers \cup Reloaders
  PROVE  /\ load[l].pc = "idle" => load[l] = NoLoad
         /\ load[l].pc = "listing" => load[l] \in Loading
         /\ load[l].pc = "listed" => load[l] \in Loaded
         /\ load[l].pc \in {"idle", "listing", "listed"}
<1>1. load[l] \in {NoLoad} \cup Loading \cup Loaded
  BY DEF TypeOK
<1>2. CASE load[l] = NoLoad
  BY <1>2 DEF NoLoad
<1>3. CASE load[l] \in Loading
  BY <1>3 DEF Loading
<1>4. CASE load[l] \in Loaded
  BY <1>4 DEF Loaded
<1> QED BY <1>1, <1>2, <1>3, <1>4

LEMMA EditShape ==
  ASSUME TypeOK, NEW a \in Editors
  PROVE  /\ edit[a].pc = "new" => edit[a] \in Creating
         /\ edit[a].pc = "read" => edit[a] \in Changing
<1>1. edit[a] \in {NoEdit} \cup Creating \cup Changing
  BY DEF TypeOK
<1>2. CASE edit[a] = NoEdit
  BY <1>2 DEF NoEdit
<1>3. CASE edit[a] \in Creating
  BY <1>3 DEF Creating
<1>4. CASE edit[a] \in Changing
  BY <1>4 DEF Changing
<1> QED BY <1>1, <1>2, <1>3, <1>4

LEMMA ReqShape ==
  ASSUME TypeOK, NEW r \in Requests
  PROVE  /\ req[r].pc = "resolved" => req[r] \in Resolved
         /\ req[r].pc \in {"found", "judged", "called"} => req[r] \in Bound
<1>1. req[r] \in {NoReq} \cup Resolved \cup Bound
  BY DEF TypeOK
<1>2. CASE req[r] = NoReq
  BY <1>2 DEF NoReq
<1>3. CASE req[r] \in Resolved
  BY <1>3 DEF Resolved
<1>4. CASE req[r] \in Bound
  BY <1>4 DEF Bound
<1> QED BY <1>1, <1>2, <1>3, <1>4

LEMMA Parts ==
  /\ IInv <=> TypeOK /\ EditInv /\ CacheInv /\ ReqInv
  /\ IInv' <=> TypeOK' /\ EditInv' /\ CacheInv' /\ ReqInv'
BY DEF IInv, EditInv, CacheInv, ReqInv

-----------------------------------------------------------------------------
(* Steps of the caches *)

\* A reload that begins carries nothing yet, and is dated by the present.
LEMMA BeginStep ==
  ASSUME RoutingAssumption, IInv, NEW l \in Workers \cup Reloaders, NEW w \in Workers,
         l \in Workers => l = w, life'[w] # "down",
         Begin(l, w), life' = life \/ life' = [life EXCEPT ![w] = "starting"],
         UNCHANGED <<tables, cache, edit, req, past, since, bounds>>
  PROVE  IInv'
<1> USE DEF tables, past, bounds
<1>0. TypeOK /\ EditInv /\ CacheInv /\ ReqInv
  BY Parts
<1>n. /\ Len(hist) \in 1 .. MaxChanges + 1
      /\ Len(hist) \in Nat
  BY <1>0 DEF TypeOK
<1> DEFINE new == [pc |-> "listing", worker |-> w, start |-> Len(hist)]
<1>b. load' = [load EXCEPT ![l] = new]
  BY DEF Begin
<1>1. TypeOK'
  <2>1. new \in Loading
    BY <1>n DEF Loading
  <2> HIDE DEF new
  <2>2. load' \in [Loaders -> {NoLoad} \cup Loading \cup Loaded]
    BY <1>0, <1>b, <2>1 DEF TypeOK
  <2>3. life' \in [Workers -> {"down", "starting", "up", "stale"}]
    BY <1>0 DEF TypeOK
  <2> QED BY <1>0, <2>2, <2>3 DEF TypeOK
<1>2. EditInv'
  BY <1>0, EditSame
<1>3. CacheInv'
  <2>1. Carries'
    <3> SUFFICES ASSUME NEW k \in Workers \cup Reloaders
                 PROVE  /\ load'[k].pc # "idle" => load'[k].start =< Len(hist')
                        /\ load'[k].pc = "listed" =>
                             \E n \in load'[k].start .. Len(hist') : load'[k].snap = hist'[n]
      BY DEF Carries
    <3>1. CASE k = l
      <4>1. load'[k] = new
        BY <1>0, <1>b, <3>1 DEF TypeOK
      <4> QED BY <4>1, <1>n
    <3>2. CASE k # l
      <4>1. load'[k] = load[k]
        BY <1>0, <1>b, <3>2 DEF TypeOK
      <4> QED BY <4>1, <1>0 DEF CacheInv, Carries
    <3> QED BY <3>1, <3>2
  <2>2. ReloadTakesEffect'
    <3> SUFFICES ASSUME NEW v \in Workers, life'[v] \in {"up", "stale"}
                 PROVE  \E k \in since[v] .. Len(hist) : cache[v] = hist[k]
      BY DEF ReloadTakesEffect
    <3>1. life[v] = life'[v]
      BY <1>0 DEF TypeOK
    <3> QED BY <3>1, <1>0 DEF CacheInv, ReloadTakesEffect
  <2>3. OwnLoad'
    <3> SUFFICES ASSUME NEW v \in Workers, load'[v].pc # "idle"
                 PROVE  load'[v].worker = v /\ life'[v] # "down"
      BY DEF OwnLoad
    <3>1. CASE v = l
      <4>1. load'[v] = new
        BY <1>0, <1>b, <3>1 DEF TypeOK
      <4> QED BY <4>1, <3>1
    <3>2. CASE v # l
      <4>1. load'[v] = load[v]
        BY <1>0, <1>b, <3>2 DEF TypeOK
      <4>2. life[v] # "down" => life'[v] # "down"
        BY <1>0 DEF TypeOK
      <4> QED BY <4>1, <4>2, <1>0 DEF CacheInv, OwnLoad
    <3> QED BY <3>1, <3>2
  <2> QED BY <2>1, <2>2, <2>3 DEF CacheInv
<1>4. ReqInv'
  BY <1>0, ReqSame
<1> QED BY <1>1, <1>2, <1>3, <1>4, Parts

\* The query reads the newest entry of the history.
LEMMA QueryStep ==
  ASSUME RoutingAssumption, IInv, NEW l \in Workers \cup Reloaders, Query(l)
  PROVE  IInv'
<1> USE DEF tables, past, bounds
<1>0. TypeOK /\ EditInv /\ CacheInv /\ ReqInv
  BY Parts
<1>n. Len(hist) \in Nat /\ Len(hist) >= 1
  BY <1>0 DEF TypeOK
<1>l. /\ load[l] \in Loading
      /\ load[l].start =< Len(hist) /\ load[l].start \in Nat
  BY <1>0, LoadShape DEF Query, CacheInv, Carries, Loading
<1>a. Active(routes) \in Snapshot /\ hist[Len(hist)] = Active(routes)
  BY <1>0, ActiveType DEF TypeOK, EditInv, Dated
<1> DEFINE new == [pc |-> "listed", worker |-> load[l].worker, start |-> load[l].start,
                   snap |-> Active(routes)]
<1>b. load' = [load EXCEPT ![l] = new]
  BY DEF Query
<1>1. TypeOK'
  <2>1. new \in Loaded
    BY <1>l, <1>a DEF Loading, Loaded
  <2> HIDE DEF new
  <2>2. load' \in [Loaders -> {NoLoad} \cup Loading \cup Loaded]
    BY <1>0, <1>b, <2>1 DEF TypeOK
  <2> QED BY <1>0, <2>2 DEF TypeOK, Query
<1>2. EditInv'
  BY <1>0, EditSame DEF Query
<1>3. CacheInv'
  <2>1. Carries'
    <3> SUFFICES ASSUME NEW k \in Workers \cup Reloaders
                 PROVE  /\ load'[k].pc # "idle" => load'[k].start =< Len(hist)
                        /\ load'[k].pc = "listed" =>
                             \E n \in load'[k].start .. Len(hist) : load'[k].snap = hist[n]
      BY DEF Carries, Query
    <3>1. CASE k = l
      <4>1. load'[k] = new
        BY <1>0, <1>b, <3>1 DEF TypeOK
      <4>2. Len(hist) \in load[l].start .. Len(hist)
        BY <1>l, <1>n
      <4>3. new.snap = hist[Len(hist)]
        BY <1>a
      <4> QED BY <4>1, <4>2, <4>3, <1>l
    <3>2. CASE k # l
      <4>1. load'[k] = load[k]
        BY <1>0, <1>b, <3>2 DEF TypeOK
      <4> QED BY <4>1, <1>0 DEF CacheInv, Carries
    <3> QED BY <3>1, <3>2
  <2>2. ReloadTakesEffect'
    BY <1>0 DEF CacheInv, ReloadTakesEffect, Query
  <2>3. OwnLoad'
    <3>1. \A k \in Workers \cup Reloaders :
            load'[k].pc # "idle" => load[k].pc # "idle" /\ load'[k].worker = load[k].worker
      BY <1>0, <1>b DEF TypeOK, Query
    <3> QED BY <3>1, <1>0 DEF CacheInv, OwnLoad, Query
  <2> QED BY <2>1, <2>2, <2>3 DEF CacheInv
<1>4. ReqInv'
  BY <1>0, ReqSame DEF Query
<1> QED BY <1>1, <1>2, <1>3, <1>4, Parts

\* A reload that ends, with its work done or not, carries nothing more.
LEMMA LoadGone ==
  ASSUME TypeOK, Carries, NEW gone \in SUBSET (Workers \cup Reloaders),
         load' = [l \in Loaders |-> IF l \in gone THEN NoLoad ELSE load[l]],
         hist' = hist
  PROVE  /\ load' \in [Loaders -> {NoLoad} \cup Loading \cup Loaded]
         /\ Carries'
         /\ \A l \in Workers \cup Reloaders :
              load'[l].pc # "idle" => l \notin gone /\ load'[l] = load[l]
<1>1. load' \in [Loaders -> {NoLoad} \cup Loading \cup Loaded]
  BY DEF TypeOK
<1>2. \A l \in Workers \cup Reloaders : load'[l] = NoLoad \/ load'[l] = load[l]
  OBVIOUS
<1>3. \A l \in Workers \cup Reloaders :
        load'[l].pc # "idle" => l \notin gone /\ load'[l] = load[l]
  BY DEF NoLoad
<1> QED BY <1>1, <1>2, <1>3 DEF Carries, NoLoad

\* What is installed is a state the table had since that reload began.
LEMMA InstallStep ==
  ASSUME RoutingAssumption, IInv, NEW l \in Workers \cup Reloaders, Install(l)
  PROVE  IInv'
<1> USE DEF tables, past, bounds
<1>0. TypeOK /\ EditInv /\ CacheInv /\ ReqInv
  BY Parts
<1> DEFINE w == load[l].worker
           snap == load[l].snap
<1>l. /\ load[l] \in Loaded
      /\ \E k \in load[l].start .. Len(hist) : snap = hist[k]
  BY <1>0, LoadShape DEF Install, CacheInv, Carries
<1>t. w \in Workers /\ snap \in Snapshot /\ load[l].start \in 1 .. MaxChanges + 1
  BY <1>l DEF Loaded
<1>s. /\ load' = [load EXCEPT ![l] = NoLoad]
      /\ cache' = [cache EXCEPT ![w] = snap]
      /\ life' = IF l = w THEN [life EXCEPT ![w] = "up"] ELSE life
      /\ since' = [since EXCEPT ![w] = load[l].start]
      /\ hist' = hist
  BY DEF Install
<1>g. load' = [k \in Loaders |-> IF k \in {l} THEN NoLoad ELSE load[k]]
  BY <1>0, <1>s DEF TypeOK
<1>c. /\ load' \in [Loaders -> {NoLoad} \cup Loading \cup Loaded]
      /\ Carries'
      /\ \A k \in Workers \cup Reloaders : load'[k].pc # "idle" => k # l /\ load'[k] = load[k]
  <2>1. TypeOK /\ Carries /\ hist' = hist
    BY <1>0, <1>s DEF CacheInv
  <2>2. {l} \in SUBSET (Workers \cup Reloaders)
    OBVIOUS
  <2> QED BY <2>1, <2>2, <1>g, LoadGone
<1> HIDE DEF w, snap
<1>1. TypeOK'
  <2>1. cache' \in [Workers -> Snapshot]
    BY <1>0, <1>s, <1>t DEF TypeOK
  <2>2. life' \in [Workers -> {"down", "starting", "up", "stale"}]
    BY <1>0, <1>s, <1>t DEF TypeOK
  <2>3. since' \in [Workers -> 1 .. MaxChanges + 1]
    BY <1>0, <1>s, <1>t DEF TypeOK
  <2> QED BY <1>0, <1>c, <2>1, <2>2, <2>3 DEF TypeOK, Install
<1>2. EditInv'
  BY <1>0, EditSame DEF Install
<1>3. CacheInv'
  <2>1. ASSUME NEW v \in Workers, life'[v] \in {"up", "stale"}
        PROVE  \E k \in since'[v] .. Len(hist) : cache'[v] = hist[k]
    <3>1. CASE v = w
      <4>1. since'[v] = load[l].start /\ cache'[v] = snap
        BY <1>0, <1>s, <3>1 DEF TypeOK
      <4> QED BY <4>1, <1>l
    <3>2. CASE v # w
      <4>1. since'[v] = since[v] /\ cache'[v] = cache[v] /\ life'[v] = life[v]
        BY <1>0, <1>s, <3>2 DEF TypeOK
      <4> QED BY <4>1, <2>1, <1>0 DEF CacheInv, ReloadTakesEffect
    <3> QED BY <3>1, <3>2
  <2>2. ReloadTakesEffect'
    BY <2>1, <1>s DEF ReloadTakesEffect
  <2>3. OwnLoad'
    <3>1. \A v \in Workers : life[v] # "down" => life'[v] # "down"
      BY <1>0, <1>s, <1>t DEF TypeOK
    <3> QED BY <3>1, <1>c, <1>0 DEF CacheInv, OwnLoad
  <2> QED BY <1>c, <2>2, <2>3 DEF CacheInv
<1>4. ReqInv'
  BY <1>0, ReqSame DEF Install
<1> QED BY <1>1, <1>2, <1>3, <1>4, Parts

LEMMA FailStep ==
  ASSUME RoutingAssumption, IInv, NEW l \in Workers \cup Reloaders, Fail(l)
  PROVE  IInv'
<1> USE DEF tables, past, bounds
<1>0. TypeOK /\ EditInv /\ CacheInv /\ ReqInv
  BY Parts
<1>s. /\ load' = [load EXCEPT ![l] = NoLoad]
      /\ hist' = hist /\ cache' = cache /\ since' = since
  BY DEF Fail
<1>g. load' = [k \in Loaders |-> IF k \in {l} THEN NoLoad ELSE load[k]]
  BY <1>0, <1>s DEF TypeOK
<1>c. /\ load' \in [Loaders -> {NoLoad} \cup Loading \cup Loaded]
      /\ Carries'
      /\ \A k \in Workers \cup Reloaders : load'[k].pc # "idle" => k # l /\ load'[k] = load[k]
  <2>1. TypeOK /\ Carries /\ hist' = hist
    BY <1>0, <1>s DEF CacheInv
  <2>2. {l} \in SUBSET (Workers \cup Reloaders)
    OBVIOUS
  <2> QED BY <2>1, <2>2, <1>g, LoadGone
<1>a. l \in Workers => life[l] # "down"
  BY <1>0 DEF Fail, CacheInv, OwnLoad
<1>f. /\ life' \in [Workers -> {"down", "starting", "up", "stale"}]
      /\ \A v \in Workers :
           /\ life'[v] \in {"up", "stale"} => life[v] \in {"up", "stale"}
           /\ v # l => life'[v] = life[v]
  BY <1>0, <1>a DEF TypeOK, Fail
<1>1. TypeOK'
  BY <1>0, <1>c, <1>f DEF TypeOK, Fail, RoutingAssumption
<1>2. EditInv'
  BY <1>0, EditSame DEF Fail
<1>3. CacheInv'
  <2>1. ReloadTakesEffect'
    BY <1>0, <1>s, <1>f DEF CacheInv, ReloadTakesEffect
  <2>2. OwnLoad'
    BY <1>0, <1>c, <1>f DEF CacheInv, OwnLoad
  <2> QED BY <1>c, <2>1, <2>2 DEF CacheInv
<1>4. ReqInv'
  BY <1>0, ReqSame DEF Fail
<1> QED BY <1>1, <1>2, <1>3, <1>4, Parts

LEMMA RestartStep ==
  ASSUME RoutingAssumption, IInv, NEW w \in Workers, Restart(w)
  PROVE  IInv'
<1> USE DEF tables, past, bounds
<1>0. TypeOK /\ EditInv /\ CacheInv /\ ReqInv
  BY Parts
<1>s. /\ life' = [life EXCEPT ![w] = "down"]
      /\ cache' = [cache EXCEPT ![w] = [i \in Intents |-> None]]
      /\ req' = [r \in Requests |->
           IF req[r].pc # "idle" /\ req[r].worker = w THEN NoReq ELSE req[r]]
      /\ hist' = hist /\ since' = since
  BY DEF Restart
<1>c. /\ load' \in [Loaders -> {NoLoad} \cup Loading \cup Loaded]
      /\ Carries'
      /\ \A k \in Workers \cup Reloaders :
           load'[k].pc # "idle" => k \notin Busy(w) /\ load'[k] = load[k]
  <2>1. Busy(w) \in SUBSET (Workers \cup Reloaders)
    BY DEF Busy
  <2>2. load' = [l \in Loaders |-> IF l \in Busy(w) THEN NoLoad ELSE load[l]]
    BY DEF Restart
  <2> QED BY <1>0, <1>s, <2>1, <2>2, LoadGone DEF CacheInv
<1>r. /\ req' \in [Requests -> {NoReq} \cup Resolved \cup Bound]
      /\ \A r \in Requests : req'[r] = NoReq \/ req'[r] = req[r]
  BY <1>0, <1>s DEF TypeOK
<1>1. TypeOK'
  <2>1. cache' \in [Workers -> Snapshot]
    BY <1>0, <1>s DEF TypeOK, Snapshot
  <2>2. life' \in [Workers -> {"down", "starting", "up", "stale"}]
    BY <1>0, <1>s DEF TypeOK
  <2> QED BY <1>0, <1>c, <1>r, <2>1, <2>2 DEF TypeOK, Restart, RoutingAssumption
<1>2. EditInv'
  BY <1>0, EditSame DEF Restart
<1>3. CacheInv'
  <2>1. ASSUME NEW v \in Workers, life'[v] \in {"up", "stale"}
        PROVE  life[v] = life'[v] /\ cache[v] = cache'[v]
    BY <1>0, <1>s, <2>1 DEF TypeOK
  <2>2. ReloadTakesEffect'
    BY <1>0, <1>s, <2>1 DEF CacheInv, ReloadTakesEffect
  <2>3. OwnLoad'
    <3>1. load'[w].pc = "idle"
      BY <1>0, <1>c DEF CacheInv, OwnLoad, Busy
    <3>2. \A v \in Workers : v # w => life'[v] = life[v]
      BY <1>0, <1>s DEF TypeOK
    <3> QED BY <3>1, <3>2, <1>0, <1>c DEF CacheInv, OwnLoad
  <2> QED BY <1>c, <2>2, <2>3 DEF CacheInv
<1>4. ReqInv'
  <2>1. OnItsWay'
    BY <1>0, <1>r DEF ReqInv, OnItsWay, NoReq, Restart
  <2>2. Held'
    BY <1>0 DEF ReqInv, Held, Restart
  <2> QED BY <2>1, <2>2 DEF ReqInv
<1> QED BY <1>1, <1>2, <1>3, <1>4, Parts

-----------------------------------------------------------------------------
(* Steps of the editors *)

\* A commit: the history grows by the new state, and who has read the row is raced.
LEMMA CommitStep ==
  ASSUME RoutingAssumption, IInv, NEW a \in Editors, NEW i \in Intents,
         NEW row \in Route, NEW entry \in Route, i \notin raced => row = entry,
         Commit(a, i, row, entry), edit' = [edit EXCEPT ![a] = NoEdit],
         UNCHANGED <<cache, life, load, req, since>>
  PROVE  IInv'
<1>0. TypeOK /\ EditInv /\ CacheInv /\ ReqInv
  BY Parts
<1>s. /\ changes < MaxChanges /\ changes' = changes + 1 /\ mishaps' = mishaps
      /\ routes' = [routes EXCEPT ![i] = row] /\ audit' = [audit EXCEPT ![i] = entry]
      /\ hist' = Append(hist, Active(routes'))
      /\ raced' = IF \E b \in Editors \ {a} : edit[b].pc = "read" /\ edit[b].intent = i
                  THEN raced \cup {i} ELSE raced
      /\ services' = services /\ recorded' = recorded
  BY DEF Commit, Change
<1>r. /\ routes' \in [Intents -> Route \cup {None}]
      /\ audit' \in [Intents -> Route \cup {None}]
      /\ row # None /\ entry # None
  <2>1. None \notin Route
    BY DEF RoutingAssumption
  <2> QED BY <1>0, <1>s, <2>1 DEF TypeOK
<1>e. /\ edit' \in [Editors -> {NoEdit} \cup Creating \cup Changing]
      /\ \A b \in Editors : edit'[b].pc = "read" => b # a /\ edit'[b] = edit[b]
  BY <1>0 DEF TypeOK, NoEdit
<1>h. /\ hist \in Seq(Snapshot) /\ Len(hist) \in Nat /\ Active(routes') \in Snapshot
      /\ Len(hist) =< changes + 1
  <2>1. hist \in Seq(Snapshot) /\ Len(hist) \in Nat
    BY <1>0 DEF TypeOK
  <2>2. Active(routes') \in Snapshot
    BY <1>r, ActiveType
  <2>3. Len(hist) =< changes + 1
    BY <1>0 DEF EditInv, Dated
  <2> QED BY <2>1, <2>2, <2>3
<1>p. /\ hist' \in Seq(Snapshot) /\ Len(hist') = Len(hist) + 1
      /\ hist'[Len(hist')] = Active(routes')
      /\ \A k \in 1 .. Len(hist) : hist'[k] = hist[k]
  BY <1>h, <1>s
<1>1. TypeOK'
  <2>1. raced' \subseteq Intents
    BY <1>0, <1>s DEF TypeOK
  <2>2. changes' \in 0 .. MaxChanges /\ Len(hist') \in 1 .. MaxChanges + 1
    BY <1>0, <1>s, <1>h, <1>p DEF TypeOK, RoutingAssumption
  <2> QED BY <1>0, <1>s, <1>r, <1>e, <1>p, <2>1, <2>2 DEF TypeOK
<1>2. EditInv'
  <2>1. Dated'
    <3>1. changes \in Nat
      BY <1>0 DEF TypeOK
    <3> QED BY <1>s, <1>h, <1>p, <3>1 DEF Dated
  <2>2. RowsStay'
    BY <1>0, <1>s, <1>r, <1>e DEF TypeOK, EditInv, RowsStay
  <2>3. ReadIsRow'
    <3> SUFFICES ASSUME NEW b \in Editors, edit'[b].pc = "read", edit'[b].intent \notin raced'
                 PROVE  edit'[b].row = routes'[edit'[b].intent]
      BY DEF ReadIsRow
    <3>1. b # a /\ edit'[b] = edit[b]
      BY <1>e
    <3>2. edit[b].intent # i /\ edit[b].intent \notin raced
      BY <1>s, <3>1
    <3>3. edit[b].intent \in Intents
      BY <1>0, <3>1, EditShape DEF Changing
    <3>4. routes'[edit[b].intent] = routes[edit[b].intent]
      BY <1>0, <1>s, <3>2, <3>3 DEF TypeOK
    <3> QED BY <1>0, <3>1, <3>2, <3>4 DEF EditInv, ReadIsRow
  <2>4. AuditReplays'
    BY <1>0, <1>s DEF TypeOK, EditInv, AuditReplays
  <2> QED BY <2>1, <2>2, <2>3, <2>4 DEF EditInv
<1>3. CacheInv'
  <2>1. Carries'
    <3> SUFFICES ASSUME NEW l \in Workers \cup Reloaders
                 PROVE  /\ load[l].pc # "idle" => load[l].start =< Len(hist')
                        /\ load[l].pc = "listed" =>
                             \E k \in load[l].start .. Len(hist') : load[l].snap = hist'[k]
      BY DEF Carries
    <3>1. load[l].pc # "idle" => load[l].start \in Nat \ {0}
      BY <1>0, LoadShape DEF Loading, Loaded
    <3> QED BY <3>1, <1>0, <1>h, <1>p DEF CacheInv, Carries
  <2>2. ReloadTakesEffect'
    <3>1. \A w \in Workers : since[w] \in Nat \ {0}
      BY <1>0 DEF TypeOK
    <3> QED BY <3>1, <1>0, <1>h, <1>p DEF CacheInv, ReloadTakesEffect
  <2>3. OwnLoad'
    BY <1>0 DEF CacheInv, OwnLoad
  <2> QED BY <2>1, <2>2, <2>3 DEF CacheInv
<1>4. ReqInv'
  BY <1>0, <1>s, ReqSame
<1> QED BY <1>1, <1>2, <1>3, <1>4, Parts

\* An editor that reads, or gives up, changes nothing but what it knows.
LEMMA ReadStep ==
  ASSUME RoutingAssumption, IInv, NEW a \in Editors,
         NEW new \in {NoEdit} \cup Creating \cup Changing,
         new.pc = "read" => /\ routes[new.intent] # None
                            /\ new.row = routes[new.intent],
         edit' = [edit EXCEPT ![a] = new],
         UNCHANGED <<tables, cache, life, load, req, past, since, bounds>>
  PROVE  IInv'
<1> USE DEF tables, past, bounds
<1>0. TypeOK /\ EditInv /\ CacheInv /\ ReqInv
  BY Parts
<1>e. /\ edit' \in [Editors -> {NoEdit} \cup Creating \cup Changing]
      /\ \A b \in Editors : edit'[b] = IF b = a THEN new ELSE edit[b]
  BY <1>0 DEF TypeOK
<1>1. TypeOK'
  BY <1>0, <1>e DEF TypeOK
<1>2. EditInv'
  <2>1. Dated' /\ AuditReplays'
    BY <1>0 DEF EditInv, Dated, AuditReplays, Active
  <2>2. RowsStay'
    BY <1>0, <1>e DEF EditInv, RowsStay
  <2>3. ReadIsRow'
    BY <1>0, <1>e DEF EditInv, ReadIsRow
  <2> QED BY <2>1, <2>2, <2>3 DEF EditInv
<1>3. CacheInv'
  BY <1>0, CacheSame
<1>4. ReqInv'
  BY <1>0, ReqSame
<1> QED BY <1>1, <1>2, <1>3, <1>4, Parts

LEMMA FindForCreateStep ==
  ASSUME RoutingAssumption, IInv, NEW a \in Editors, NEW i \in Intents, NEW s \in Services,
         FindForCreate(a, i, s)
  PROVE  IInv'
<1> DEFINE new == [pc |-> "new", intent |-> i, service |-> s]
<1>1. new \in Creating /\ new.pc # "read"
  BY DEF Creating
<1>2. /\ edit' = [edit EXCEPT ![a] = new]
      /\ UNCHANGED <<tables, cache, life, load, req, past, since, bounds>>
  BY DEF FindForCreate
<1> HIDE DEF new
<1> QED BY <1>1, <1>2, ReadStep

LEMMA ReadMappingStep ==
  ASSUME RoutingAssumption, IInv, NEW a \in Editors, NEW i \in Intents, NEW data \in Patch,
         ReadMapping(a, i, data)
  PROVE  IInv'
<1> DEFINE new == [pc |-> "read", intent |-> i, row |-> routes[i], data |-> data]
<1>1. routes[i] # None /\ routes[i] \in Route
  BY DEF IInv, TypeOK, ReadMapping
<1>2. new \in Changing
  BY <1>1 DEF Changing
<1>3. new.intent = i /\ new.row = routes[i]
  OBVIOUS
<1>4. /\ edit' = [edit EXCEPT ![a] = new]
      /\ UNCHANGED <<tables, cache, life, load, req, past, since, bounds>>
  BY DEF ReadMapping
<1> HIDE DEF new
<1> QED BY <1>1, <1>2, <1>3, <1>4, ReadStep

LEMMA GiveUpStep ==
  ASSUME RoutingAssumption, IInv, NEW a \in Editors,
         edit' = [edit EXCEPT ![a] = NoEdit],
         UNCHANGED <<tables, cache, life, load, req, past, since, bounds>>
  PROVE  IInv'
<1>1. NoEdit.pc # "read"
  BY DEF NoEdit
<1> QED BY <1>1, ReadStep

LEMMA InsertMappingStep ==
  ASSUME RoutingAssumption, IInv, NEW a \in Editors, InsertMapping(a)
  PROVE  IInv'
<1> DEFINE i == edit[a].intent
           row == [service |-> edit[a].service, active |-> TRUE]
<1>1. i \in Intents /\ row \in Route
  BY EditShape DEF InsertMapping, Creating, Route, IInv
<1>2. /\ edit' = [edit EXCEPT ![a] = NoEdit]
      /\ UNCHANGED <<cache, life, load, req, since>>
      /\ Commit(a, i, row, row) \/ UNCHANGED <<tables, past, bounds>>
  BY DEF InsertMapping
<1> HIDE DEF i, row
<1>3. CASE Commit(a, i, row, row)
  BY <1>1, <1>2, <1>3, CommitStep
<1>4. CASE UNCHANGED <<tables, past, bounds>>
  BY <1>2, <1>4, GiveUpStep
<1> QED BY <1>2, <1>3, <1>4

\* Without a race the columns written and the payload logged say the same.
LEMMA WriteMappingStep ==
  ASSUME RoutingAssumption, IInv, NEW a \in Editors, WriteMapping(a)
  PROVE  IInv'
<1> DEFINE i == edit[a].intent
           data == edit[a].data
           row == Patched(routes[i], Dirty(edit[a].row, data))
           entry == Patched(audit[i], data)
<1>1. /\ edit[a].pc = "read"
      /\ edit' = [edit EXCEPT ![a] = NoEdit]
      /\ UNCHANGED <<cache, life, load, req, since>>
      /\ Commit(a, i, row, entry) \/ UNCHANGED <<tables, past, bounds>>
  BY DEF WriteMapping
<1>2. edit[a] \in Changing
  BY <1>1, EditShape DEF IInv
<1>3. i \in Intents /\ data \in Patch /\ edit[a].row \in Route
  BY <1>2 DEF Changing
<1>4. routes[i] \in Route /\ audit[i] \in Route
  <2>1. routes[i] # None /\ audit[i] # None
    BY <1>1, <1>3 DEF IInv, RowsStay
  <2> QED BY <2>1, <1>3 DEF IInv, TypeOK
<1>5. row \in Route
  BY <1>3, <1>4, DirtyType, PatchedType
<1>6. entry \in Route
  BY <1>3, <1>4, PatchedType
<1>7. i \notin raced => row = entry
  <2> SUFFICES ASSUME i \notin raced PROVE row = entry
    OBVIOUS
  <2>1. edit[a].row = routes[i]
    BY <1>1 DEF IInv, ReadIsRow
  <2>2. audit[i] = routes[i]
    BY <1>3 DEF IInv, AuditReplays
  <2> QED BY <2>1, <2>2, <1>3, <1>4, DirtyEnough
<1> HIDE DEF i, data, row, entry
<1>8. CASE Commit(a, i, row, entry)
  BY <1>1, <1>3, <1>5, <1>6, <1>7, <1>8, CommitStep
<1>9. CASE UNCHANGED <<tables, past, bounds>>
  BY <1>1, <1>9, GiveUpStep
<1> QED BY <1>1, <1>8, <1>9

-----------------------------------------------------------------------------
(* Steps of the services and of the requests *)

\* A service may change as long as none that is referred to disappears.
LEMMA SetServiceStep ==
  ASSUME RoutingAssumption, IInv, NEW s \in Services, NEW c \in Configs \cup {None},
         c = None => s \notin recorded, SetService(s, c)
  PROVE  IInv'
<1>0. TypeOK /\ EditInv /\ CacheInv /\ ReqInv
  BY Parts
<1>s. /\ services' = [services EXCEPT ![s] = c]
      /\ changes < MaxChanges /\ changes' = changes + 1 /\ mishaps' = mishaps
      /\ UNCHANGED <<routes, audit, recorded, cache, life, load, edit, req, hist, raced, since>>
  BY DEF SetService, Change, past
<1>1. TypeOK'
  <2>1. services' \in [Services -> Configs \cup {None}]
    BY <1>0, <1>s DEF TypeOK
  <2>2. changes' \in 0 .. MaxChanges
    BY <1>0, <1>s DEF TypeOK, RoutingAssumption
  <2> QED BY <1>0, <1>s, <2>1, <2>2 DEF TypeOK
<1>2. EditInv'
  <2>1. Len(hist) \in Nat /\ changes \in Nat
    BY <1>0 DEF TypeOK
  <2>2. Dated'
    BY <1>0, <1>s, <2>1 DEF EditInv, Dated, Active
  <2> QED BY <1>0, <1>s, <2>2 DEF EditInv, RowsStay, ReadIsRow, AuditReplays
<1>3. CacheInv'
  BY <1>0, <1>s, CacheSame
<1>4. ReqInv'
  <2>1. Held'
    BY <1>0, <1>s DEF TypeOK, ReqInv, Held, RoutingAssumption
  <2> QED BY <1>0, <1>s, <2>1 DEF ReqInv, OnItsWay
<1> QED BY <1>1, <1>2, <1>3, <1>4, Parts

LEMMA ServiceStep ==
  ASSUME RoutingAssumption, IInv, NEW s \in Services,
         \/ \E c \in Configs : CreateService(s, c) \/ UpdateService(s, c)
         \/ DeleteService(s)
  PROVE  IInv'
<1>1. \A c \in Configs : c # None
  BY DEF RoutingAssumption
<1>2. ASSUME NEW c \in Configs, SetService(s, c)
      PROVE  IInv'
  BY <1>1, <1>2, SetServiceStep
<1>3. ASSUME DeleteService(s)
      PROVE  IInv'
  BY <1>3, SetServiceStep DEF DeleteService, Referenced
<1> QED BY <1>2, <1>3 DEF CreateService, UpdateService

\* A request moves: its row, if it goes on, holds its service.
LEMMA RequestMoves ==
  ASSUME RoutingAssumption, IInv, NEW r \in Requests,
         NEW to \in {NoReq} \cup Resolved \cup Bound,
         Goto(r, req[r].pc, to), recorded' \subseteq Services,
         \A s \in recorded' : services[s] # None,
         \A q \in Requests \ {r} : req[q].pc \in {"judged", "called"} =>
           req[q].service \in recorded',
         to.pc \in {"judged", "called"} =>
           to.service \in recorded' /\ to.config = to.judged
  PROVE  IInv'
<1>0. TypeOK /\ EditInv /\ CacheInv /\ ReqInv
  BY Parts
<1>s. /\ req' = [req EXCEPT ![r] = to]
      /\ UNCHANGED <<services, routes, audit, cache, life, load, edit, hist, raced, since,
                     changes, mishaps>>
  BY DEF Goto, past, bounds
<1>r. /\ req' \in [Requests -> {NoReq} \cup Resolved \cup Bound]
      /\ \A q \in Requests : req'[q] = IF q = r THEN to ELSE req[q]
  BY <1>0, <1>s DEF TypeOK
<1>1. TypeOK'
  BY <1>0, <1>s, <1>r DEF TypeOK
<1>2. EditInv'
  BY <1>0, <1>s, EditSame
<1>3. CacheInv'
  BY <1>0, <1>s, CacheSame
<1>4. ReqInv'
  <2>1. Held'
    BY <1>s DEF Held
  <2>2. OnItsWay'
    BY <1>0, <1>r DEF ReqInv, OnItsWay
  <2> QED BY <2>1, <2>2 DEF ReqInv
<1> QED BY <1>1, <1>2, <1>3, <1>4, Parts

\* A request that is not yet, or no longer, on its way to the provider.
LEMMA RequestAside ==
  ASSUME RoutingAssumption, IInv, NEW r \in Requests,
         NEW to \in {NoReq} \cup Resolved \cup Bound, to.pc \notin {"judged", "called"},
         Goto(r, req[r].pc, to), UNCHANGED recorded
  PROVE  IInv'
<1>1. recorded \subseteq Services
  BY DEF IInv, TypeOK
<1>2. \A s \in recorded : services[s] # None
  BY DEF IInv, Held
<1>3. \A q \in Requests : req[q].pc \in {"judged", "called"} => req[q].service \in recorded
  BY DEF IInv, OnItsWay
<1> QED BY <1>1, <1>2, <1>3, RequestMoves

LEMMA ResolveStep ==
  ASSUME RoutingAssumption, IInv, NEW r \in Requests, NEW w \in Workers, NEW i \in Intents,
         Resolve(r, w, i)
  PROVE  IInv'
<1> DEFINE to == [pc |-> "resolved", worker |-> w, service |-> cache[w][i]]
<1>1. cache[w][i] \in Services
  BY DEF IInv, TypeOK, Snapshot, Resolve
<1>2. to \in Resolved /\ to.pc \notin {"judged", "called"}
  BY <1>1 DEF Resolved
<1>3. Goto(r, req[r].pc, to) /\ UNCHANGED recorded
  BY DEF Resolve, Goto
<1> HIDE DEF to
<1> QED BY <1>2, <1>3, RequestAside

LEMMA LookUpStep ==
  ASSUME RoutingAssumption, IInv, NEW r \in Requests, LookUp(r)
  PROVE  IInv'
<1> DEFINE c == services[req[r].service]
           found == [pc |-> "found", worker |-> req[r].worker, service |-> req[r].service,
                     config |-> c, judged |-> None]
<1>1. req[r].pc = "resolved"
  BY DEF LookUp, Goto
<1>2. req[r] \in Resolved
  BY <1>1, ReqShape DEF IInv
<1>3. c \in Configs \cup {None}
  BY <1>2 DEF IInv, TypeOK, Resolved
<1>4. c # None => found \in Bound /\ found.pc \notin {"judged", "called"}
  BY <1>2, <1>3 DEF Resolved, Bound
<1>5. Goto(r, req[r].pc, IF c = None THEN NoReq ELSE found) /\ UNCHANGED recorded
  BY <1>1 DEF LookUp, Goto
<1>6. NoReq.pc \notin {"judged", "called"}
  BY DEF NoReq
<1> HIDE DEF c, found
<1>7. CASE c = None
  BY <1>5, <1>6, <1>7, RequestAside
<1>8. CASE c # None
  BY <1>4, <1>5, <1>8, RequestAside
<1> QED BY <1>7, <1>8

LEMMA LeaveStep ==
  ASSUME RoutingAssumption, IInv, NEW r \in Requests,
         Goto(r, req[r].pc, NoReq), UNCHANGED recorded
  PROVE  IInv'
<1>1. NoReq.pc \notin {"judged", "called"}
  BY DEF NoReq
<1> QED BY <1>1, RequestAside

\* The row of the request is what holds the service from here on.
LEMMA RecordStep ==
  ASSUME RoutingAssumption, IInv, NEW r \in Requests, Record(r)
  PROVE  IInv'
<1> DEFINE s == req[r].service
           to == [req[r] EXCEPT !.pc = "judged", !.judged = req[r].config]
<1>1. req[r].pc = "found"
  BY DEF Record
<1>2. req[r] \in Bound
  BY <1>1, ReqShape DEF IInv
<1>3. CASE services[s] = None
  <2>1. Goto(r, req[r].pc, NoReq) /\ UNCHANGED recorded
    BY <1>1, <1>3 DEF Record
  <2> QED BY <2>1, LeaveStep
<1>4. CASE services[s] # None
  <2>1. Goto(r, req[r].pc, to) /\ recorded' = recorded \cup {s}
    BY <1>1, <1>4 DEF Record
  <2>2. /\ s \in Services
        /\ to \in Bound /\ to.service = s /\ to.config = to.judged
    BY <1>2 DEF Bound
  <2>3. recorded' \subseteq Services
    BY <2>1, <2>2 DEF IInv, TypeOK
  <2>4. \A t \in recorded' : services[t] # None
    BY <1>4, <2>1 DEF IInv, Held
  <2>5. \A q \in Requests : req[q].pc \in {"judged", "called"} => req[q].service \in recorded'
    BY <2>1 DEF IInv, OnItsWay
  <2>6. s \in recorded'
    BY <2>1
  <2> HIDE DEF s, to
  <2> QED BY <2>1, <2>2, <2>3, <2>4, <2>5, <2>6, RequestMoves
<1> QED BY <1>3, <1>4

LEMMA DispatchStep ==
  ASSUME RoutingAssumption, IInv, NEW r \in Requests, Dispatch(r)
  PROVE  IInv'
<1> DEFINE to == [req[r] EXCEPT !.pc = "called"]
<1>1. req[r].pc = "judged" /\ Goto(r, req[r].pc, to) /\ UNCHANGED recorded
  BY DEF Dispatch, Goto
<1>2. req[r] \in Bound
  BY <1>1, ReqShape DEF IInv
<1>3. /\ to \in Bound /\ to.service = req[r].service
      /\ to.config = req[r].config /\ to.judged = req[r].judged
  BY <1>2 DEF Bound
<1>4. \A q \in Requests : req[q].pc \in {"judged", "called"} =>
        req[q].service \in recorded /\ req[q].config = req[q].judged
  BY DEF IInv, OnItsWay
<1>5. recorded \subseteq Services /\ \A t \in recorded : services[t] # None
  BY DEF IInv, TypeOK, Held
<1> HIDE DEF to
<1> QED BY <1>1, <1>3, <1>4, <1>5, RequestMoves

LEMMA ExpireStep ==
  ASSUME RoutingAssumption, IInv, NEW s \in Services, Expire(s)
  PROVE  IInv'
<1> USE DEF past, bounds
<1>0. TypeOK /\ EditInv /\ CacheInv /\ ReqInv
  BY Parts
<1>1. TypeOK'
  BY <1>0 DEF TypeOK, Expire
<1>2. EditInv'
  BY <1>0, EditSame DEF Expire
<1>3. CacheInv'
  BY <1>0, CacheSame DEF Expire
<1>4. ReqInv'
  BY <1>0 DEF ReqInv, Held, OnItsWay, Expire
<1> QED BY <1>1, <1>2, <1>3, <1>4, Parts

-----------------------------------------------------------------------------
(* The invariant *)

LEMMA InitInv ==
  ASSUME RoutingAssumption, Init
  PROVE  IInv
<1>r. routes \in [Intents -> Route \cup {None}]
  BY DEF Init, Route
<1>a. Active(routes) \in Snapshot
  BY <1>r, ActiveType
<1>h. /\ hist \in Seq(Snapshot) /\ Len(hist) = 1 /\ hist[1] = Active(routes)
  BY <1>a DEF Init
<1>1. TypeOK
  <2>1. services \in [Services -> Configs \cup {None}]
    BY DEF Init, RoutingAssumption
  <2>2. load \in [Loaders -> {NoLoad} \cup Loading \cup Loaded]
    BY DEF Init
  <2>3. edit \in [Editors -> {NoEdit} \cup Creating \cup Changing]
    BY DEF Init
  <2>4. req \in [Requests -> {NoReq} \cup Resolved \cup Bound]
    BY DEF Init
  <2>5. /\ cache \in [Workers -> Snapshot]
        /\ life \in [Workers -> {"down", "starting", "up", "stale"}]
    BY DEF Init, Snapshot
  <2>6. /\ audit \in [Intents -> Route \cup {None}] /\ recorded \subseteq Services
        /\ raced \subseteq Intents
    BY <1>r DEF Init
  <2>7. /\ since \in [Workers -> 1 .. MaxChanges + 1]
        /\ changes \in 0 .. MaxChanges /\ mishaps \in 0 .. MaxMishaps
        /\ Len(hist) \in 1 .. MaxChanges + 1
    BY <1>h DEF Init, RoutingAssumption
  <2> QED BY <1>r, <1>h, <2>1, <2>2, <2>3, <2>4, <2>5, <2>6, <2>7 DEF TypeOK
<1>2. Dated /\ RowsStay /\ ReadIsRow /\ AuditReplays
  BY <1>h DEF Init, Dated, RowsStay, ReadIsRow, AuditReplays, NoEdit
<1>3. Carries /\ OwnLoad /\ ReloadTakesEffect
  BY DEF Init, Carries, OwnLoad, ReloadTakesEffect, NoLoad
<1>4. Held /\ OnItsWay
  BY DEF Init, Held, OnItsWay, NoReq
<1> QED BY <1>1, <1>2, <1>3, <1>4 DEF IInv

LEMMA NextInv ==
  ASSUME RoutingAssumption, IInv, [Next]_vars
  PROVE  IInv'
<1>1. ASSUME NEW w \in Workers, Start(w)
      PROVE  IInv'
  <2>1. life'[w] # "down"
    BY <1>1 DEF IInv, TypeOK, Start
  <2> QED BY <1>1, <2>1, BeginStep DEF Start
<1>2. ASSUME NEW w \in Workers, Refresh(w)
      PROVE  IInv'
  BY <1>2, BeginStep DEF Refresh
<1>3. ASSUME NEW w \in Workers, NEW a \in Reloaders, Reload(a, w)
      PROVE  IInv'
  BY <1>3, BeginStep DEF Reload, RoutingAssumption
<1>4. ASSUME NEW w \in Workers, Restart(w)
      PROVE  IInv'
  BY <1>4, RestartStep
<1>5. ASSUME NEW w \in Workers, NEW r \in Requests, NEW i \in Intents, Resolve(r, w, i)
      PROVE  IInv'
  BY <1>5, ResolveStep
<1>6. ASSUME NEW l \in Workers \cup Reloaders, Query(l) \/ Install(l) \/ Fail(l)
      PROVE  IInv'
  BY <1>6, QueryStep, InstallStep, FailStep
<1>7. ASSUME NEW a \in Editors, NEW i \in Intents,
             \/ \E s \in Services : FindForCreate(a, i, s)
             \/ \E data \in Patch : ReadMapping(a, i, data)
      PROVE  IInv'
  BY <1>7, FindForCreateStep, ReadMappingStep
<1>8. ASSUME NEW a \in Editors, InsertMapping(a) \/ WriteMapping(a)
      PROVE  IInv'
  BY <1>8, InsertMappingStep, WriteMappingStep
<1>9. ASSUME NEW a \in Editors, GiveUp(a)
      PROVE  IInv'
  BY <1>9, GiveUpStep DEF GiveUp
<1>10. ASSUME NEW s \in Services,
              \/ \E c \in Configs : CreateService(s, c) \/ UpdateService(s, c)
              \/ DeleteService(s)
       PROVE  IInv'
  BY <1>10, ServiceStep
<1>11. ASSUME NEW s \in Services, Expire(s)
       PROVE  IInv'
  BY <1>11, ExpireStep
<1>12. ASSUME NEW r \in Requests, LookUp(r) \/ Record(r) \/ Dispatch(r)
       PROVE  IInv'
  BY <1>12, LookUpStep, RecordStep, DispatchStep
<1>13. ASSUME NEW r \in Requests, Leave(r)
       PROVE  IInv'
  BY <1>13, LeaveStep DEF Leave
<1>14. CASE UNCHANGED vars
  <2> USE DEF vars, tables, past, bounds
  <2>1. TypeOK /\ EditInv /\ CacheInv /\ ReqInv
    BY Parts
  <2>2. EditInv' /\ CacheInv' /\ ReqInv'
    BY <1>14, <2>1, EditSame, CacheSame, ReqSame
  <2>3. TypeOK'
    BY <1>14, <2>1 DEF TypeOK
  <2> QED BY <2>2, <2>3, Parts
<1> QED
  BY <1>1, <1>2, <1>3, <1>4, <1>5, <1>6, <1>7, <1>8, <1>9, <1>10, <1>11, <1>12, <1>13, <1>14
  DEF Next

THEOREM Invariance == Spec => []IInv
<1>1. Init => IInv
  BY InitInv, RoutingAssumption
<1>2. IInv /\ [Next]_vars => IInv'
  BY NextInv, RoutingAssumption
<1> QED BY <1>1, <1>2, PTL DEF Spec

-----------------------------------------------------------------------------
(* Theorems *)

\* Every variable keeps its type: no reload, edit or request is ever in a place, or
\* holds a value, that its handler does not know.
THEOREM TypeCorrect == Spec => []TypeOK
<1>1. IInv => TypeOK
  BY DEF IInv
<1> QED BY <1>1, Invariance, PTL

\* force_reload: whatever reloads overlap, a running worker routes by one state that
\* the table had since the reload began that filled its cache.
THEOREM ReloadTakesEffectAlways == Spec => []ReloadTakesEffect
<1>1. IInv => ReloadTakesEffect
  BY DEF IInv
<1> QED BY <1>1, Invariance, PTL

\* update_intent_mapping and its neighbours: the audit log replays to the table for
\* every mapping that no two handlers edited at a time.
THEOREM AuditReplaysAlways == Spec => []AuditReplays
<1>1. IInv => AuditReplays
  BY DEF IInv
<1> QED BY <1>1, Invariance, PTL

\* _run_pre_flight and delete_ai_service: a service is never deleted under a request
\* whose row has been committed.
THEOREM ServiceOutlivesAlways == Spec => []ServiceOutlivesRequest
<1>1. IInv => ServiceOutlivesRequest
  BY DEF IInv, Held, OnItsWay, ServiceOutlivesRequest
<1> QED BY <1>1, Invariance, PTL

\* _run_pre_flight and the dispatch: the provider is called with what was judged.
THEOREM DispatchedAsJudgedAlways == Spec => []DispatchedAsJudged
<1>1. IInv => DispatchedAsJudged
  BY DEF IInv, OnItsWay, DispatchedAsJudged
<1> QED BY <1>1, Invariance, PTL

=============================================================================
