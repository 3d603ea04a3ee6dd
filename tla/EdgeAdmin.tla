----------------------------- MODULE EdgeAdmin -----------------------------
(***************************************************************************)
(* The edge administration (api/admin/gateway_plugins.py): a handler keeps *)
(* nothing and works on Kong through one or several calls of its admin     *)
(* API, between which other handlers, and operators of Kong, make theirs.  *)
(*                                                                         *)
(* A path is a sequence of tokens, "/" and "-" among them: what matters of *)
(* its characters is prefixes and the name auto_register makes of it.      *)
(*                                                                         *)
(* Left out: the configuration of a plugin (Computations has the forms it  *)
(* takes), the catalogue, and list_plugins, which is one call.             *)
(***************************************************************************)
EXTENDS Integers, FiniteSets, Sequences, SequencesExt

CONSTANTS
  Admins,       \* handlers under way at a time
  BackendPaths, \* the paths of FastAPI's OpenAPI schema
  OtherPaths,   \* more paths an operator of Kong may give a route
  PluginNames,
  MaxEdgeChanges  \* bound: changes of routes and plugins

VARIABLES
  routes,   \* Kong's routes: an id never used again, a unique name, a path
  plugins,  \* its plugins: a name, the id of a route or 0 for a global one, and
            \* whether it is switched on
  admin,    \* per handler: its call, what it has read, its answer
  changes,
  covered   \* history: backend paths with a route of their own since it was made

edgeVars == <<routes, plugins, admin, changes, covered>>

Global == 0
Free == [pc |-> "idle"]
Paths == BackendPaths \union OtherPaths

\* The schema has at least the path of the report itself.
ASSUME EdgeAssumption ==
  /\ IsFiniteSet(BackendPaths) /\ BackendPaths # {} /\ Paths \subseteq Seq(STRING)
  /\ MaxEdgeChanges \in Nat

\* req.path.strip("/").replace("/", "-"), and "root" for nothing.  The given
\* paths start with one slash and do not end with one.
RouteName(path) ==
  <<"auto", "-">> \o
  (IF Len(path) <= 1 THEN <<"root">>
   ELSE [i \in 1..Len(path) - 1 |-> IF path[i + 1] = "/" THEN "-" ELSE path[i + 1]])

Names == {RouteName(p) : p \in Paths}
Statuses == {"protected", "registered", "exposed"}

EdgeTypeOK ==
  /\ routes \subseteq [id : 1..MaxEdgeChanges, name : Names, path : Paths]
  /\ \A r, s \in routes : r.name = s.name \/ r.id = s.id => r = s
  /\ plugins \subseteq [name : PluginNames, route : 0..MaxEdgeChanges, enabled : BOOLEAN]
  /\ \A p \in plugins : p.route = Global \/ \E r \in routes : r.id = p.route
  /\ \A p, q \in plugins : p.name = q.name /\ p.route = q.route => p = q
  /\ \A a \in Admins :
       admin[a].pc = "report" => admin[a].status \in [BackendPaths -> Statuses]
  /\ changes \in 0..MaxEdgeChanges /\ covered \subseteq BackendPaths

EdgeInit ==
  /\ routes = {} /\ plugins = {} /\ covered = {} /\ changes = 0
  /\ admin = [a \in Admins |-> Free]

Covers(r, path) == IsPrefix(r.path, path)

-----------------------------------------------------------------------------
\* Changes, each one call of Kong's admin API.

Change == changes < MaxEdgeChanges /\ changes' = changes + 1

\* Kong refuses a second route of one name.
Create(path) ==
  /\ Change
  /\ \A r \in routes : r.name # RouteName(path)
  /\ routes' = routes \union {[id |-> changes + 1, name |-> RouteName(path), path |-> path]}

\* An operator of Kong adds a route, or removes one and with it its plugins.
AddRoute ==
  /\ \E path \in OtherPaths : Create(path)
  /\ UNCHANGED <<plugins, admin, covered>>

RemoveRoute ==
  /\ Change
  /\ \E r \in routes :
       /\ routes' = routes \ {r}
       /\ plugins' = {p \in plugins : p.route # r.id}
       /\ covered' = covered \ {r.path}
  /\ UNCHANGED admin

\* apply_plugin: Kong refuses a route it does not know and a second plugin of
\* one name in one place.
ApplyPlugin ==
  /\ Change
  /\ \E n \in PluginNames, where \in {r.id : r \in routes} \union {Global}, on \in BOOLEAN :
       /\ \A p \in plugins : p.name # n \/ p.route # where
       /\ plugins' = plugins \union {[name |-> n, route |-> where, enabled |-> on]}
  /\ UNCHANGED <<routes, admin, covered>>

\* update_plugin; a change of its configuration alone leaves all this as it is.
UpdatePlugin ==
  /\ Change
  /\ \E p \in plugins, on \in BOOLEAN :
       plugins' = (plugins \ {p}) \union {[p EXCEPT !.enabled = on]}
  /\ UNCHANGED <<routes, admin, covered>>

DeletePlugin ==
  /\ Change
  /\ \E p \in plugins : plugins' = plugins \ {p}
  /\ UNCHANGED <<routes, admin, covered>>

\* auto_register: the services, which tell where to bind the route, or that
\* there is nowhere to ...
ReadServices(a) ==
  /\ admin[a] = Free
  /\ \E path \in BackendPaths :
       admin' = [admin EXCEPT ![a] = [pc |-> "services", path |-> path]]
  /\ UNCHANGED <<routes, plugins, changes, covered>>

\* ... and the route, named after the path; Kong may refuse it.
PostRoute(a) ==
  /\ admin[a].pc = "services"
  /\ \/ Create(admin[a].path) /\ covered' = covered \union {admin[a].path}
     \/ UNCHANGED <<routes, changes, covered>>
  /\ admin' = [admin EXCEPT ![a] = Free]
  /\ UNCHANGED plugins

-----------------------------------------------------------------------------
\* route_discovery.

\* GET /routes.
ReadRoutes(a) ==
  /\ admin[a] = Free
  /\ admin' = [admin EXCEPT ![a] = [pc |-> "routes", routes |-> routes, due |-> covered]]
  /\ UNCHANGED <<routes, plugins, changes, covered>>

\* find_kong_route takes the first of these in the order of Kong's answer.
RoutesFor(rs, path) == {r \in rs : Covers(r, path)}

\* Mutant: a plugin of no route protects every path that has one.
PluginsOfAny(ps, r) == {p \in ps : p.route \in {r.id, Global}}

\* plugins_by_route.
PluginsOf(ps, r) == {p \in ps : p.route = r.id}

\* coverage_percent.
Percent(registered) == (100 * registered) \div Cardinality(BackendPaths)

\* GET /plugins and the report: also a plugin that is switched off protects.
ReadPlugins(a) ==
  /\ admin[a].pc = "routes"
  /\ LET rs == admin[a].routes
         hit == {p \in BackendPaths : RoutesFor(rs, p) # {}}
     IN \E first \in [hit -> rs] :
          /\ \A p \in hit : first[p] \in RoutesFor(rs, p)
          /\ admin' = [admin EXCEPT ![a] =
               [pc |-> "report", due |-> admin[a].due, percent |-> Percent(Cardinality(hit)),
                kongOnly |-> rs \ {first[p] : p \in hit},
                status |-> [p \in BackendPaths |->
                  IF p \notin hit THEN "exposed"
                  ELSE IF PluginsOf(plugins, first[p]) # {} THEN "protected"
                  ELSE "registered"],
                guarded |-> {p \in BackendPaths : \E r \in routes, q \in plugins :
                               Covers(r, p) /\ q.route = r.id}]]
  /\ UNCHANGED <<routes, plugins, changes, covered>>

-----------------------------------------------------------------------------
\* list_routes: GET /routes, and then the plugins of each with a call of its own.
ListRoutes(a) ==
  /\ admin[a] = Free
  /\ admin' = [admin EXCEPT ![a] =
       [pc |-> "list", left |-> routes, rows |-> {}, since |-> changes]]
  /\ UNCHANGED <<routes, plugins, changes, covered>>

\* A route removed meanwhile answers 404, and with it the whole list.
ListPlugins(a) ==
  /\ admin[a].pc = "list"
  /\ \E r \in admin[a].left :
       admin' = [admin EXCEPT ![a] =
         IF r \in routes
           THEN [admin[a] EXCEPT !.left = @ \ {r},
                                 !.rows = @ \union {[route |-> r, plugins |-> PluginsOf(plugins, r)]}]
           ELSE Free]
  /\ UNCHANGED <<routes, plugins, changes, covered>>

\* Any call may end with an error of Kong or without an answer.
LeaveAdmin(a) ==
  /\ admin[a] # Free
  /\ admin' = [admin EXCEPT ![a] = Free]
  /\ UNCHANGED <<routes, plugins, changes, covered>>

EdgeNext ==
  \/ AddRoute \/ RemoveRoute \/ ApplyPlugin \/ UpdatePlugin \/ DeletePlugin
  \/ \E a \in Admins :
       ReadServices(a) \/ PostRoute(a) \/ ReadRoutes(a) \/ ReadPlugins(a)
       \/ ListRoutes(a) \/ ListPlugins(a) \/ LeaveAdmin(a)

EdgeSpec == EdgeInit /\ [][EdgeNext]_edgeVars

-----------------------------------------------------------------------------
\* A report joins two answers of Kong that others may have changed in between.
\* Still, a path it calls protected was, when the second was given, covered by
\* a route with a plugin of its own (which may be switched off), a path that
\* auto_register has given a route before the first, not removed since, is not
\* called exposed, the percentage is full only if no path is, and a path
\* that a route it calls Kong's own covers is another's.  A list of the routes that
\* nobody disturbed is Kong's state.
ReportSound ==
  \A a \in Admins :
    /\ admin[a].pc = "report" =>
         /\ \A p \in BackendPaths :
              /\ admin[a].status[p] = "protected" => p \in admin[a].guarded
              /\ p \in admin[a].due => admin[a].status[p] # "exposed"
         /\ admin[a].percent = 100 <=> \A p \in BackendPaths : admin[a].status[p] # "exposed"
         /\ \A r \in admin[a].kongOnly : \A p \in BackendPaths :
              Covers(r, p) => admin[a].status[p] # "exposed"
    /\ admin[a].pc = "list" /\ admin[a].left = {} /\ admin[a].since = changes =>
         admin[a].rows = {[route |-> r, plugins |-> PluginsOf(plugins, r)] : r \in routes}

=============================================================================
