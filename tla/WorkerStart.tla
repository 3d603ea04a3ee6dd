---------------------------- MODULE WorkerStart ----------------------------
(***************************************************************************)
(* The start of a FastAPI worker (lifespan in main.py) and the memory it   *)
(* fills: tables, seed policies, policy cache, security patterns, models.  *)
(* Then the prompts it scans with those patterns, and the administrators   *)
(* that change and reload them (prompt_security_service.py,                *)
(* security_patterns.py).                                                  *)
(*                                                                         *)
(* A pattern is blocking (weight 1 and more), contributing (weight 0.5) or *)
(* broken (a row whose expression does not compile, put there by other     *)
(* means than the API).  Weights are in tenths.                            *)
(*                                                                         *)
(* Left out: the push to OPA (PolicySync) and the intent cache (Routing).  *)
(***************************************************************************)
EXTENDS Integers, FiniteSets

CONSTANTS
  Fleet,       \* workers
  SeedFile,    \* the policies of the ConfigMap's file, {} without one
  Blockers, Contributing, Broken,   \* security patterns by kind
  Reloads,     \* POST /reload handlers under way at a time
  Scans,
  MaxFailures, \* bound: failed starts and crashes
  MaxEdits     \* bound: administrators' changes

Patterns == Blockers \union Contributing \union Broken
Static == {"static", "hint"}   \* INJECTION_PATTERNS, one blocking, one contributing
Light  == Contributing \union {"hint"}   \* those of weight 0.5

\* The kinds do not overlap; the bounds are numbers.
ASSUME StartAssumption ==
  /\ IsFiniteSet(Patterns) /\ Patterns \cap Static = {}
  /\ Blockers \cap (Contributing \union Broken) = {}
  /\ MaxFailures \in Nat /\ MaxEdits \in Nat

VARIABLES
  tables,    \* the schema exists
  policies,  \* rows of governance_policies
  patterns,  \* active rows of security_patterns
  phase,     \* per worker: how far its start is
  cache,     \* per worker: the policies it knows
  armed,     \* per worker: the pattern list in use
  model,     \* per worker: the injection classifier is loaded
  reload,    \* per handler: its worker and the rows it has read
  scan,      \* per scan: its worker, what the prompt matches, its verdict
  standing,  \* history: per worker, patterns active since before it started, or
             \* since before a reload of its that no other overlapped
  removed,   \* history: an administrator has deleted a policy
  failures, edits

rowVars == <<tables, policies, patterns>>
memory == <<phase, cache, armed, model>>
history == <<standing, removed, failures, edits>>
startVars == <<rowVars, memory, reload, scan, history>>

StartPhases == {"down", "create", "check", "seed", "sync", "arm", "load", "warm", "up"}
NoReload == [on |-> FALSE]
NoScan == [pc |-> "idle"]

StartTypeOK ==
  /\ tables \in BOOLEAN /\ policies \subseteq SeedFile /\ patterns \subseteq Patterns
  /\ phase \in [Fleet -> StartPhases]
  /\ cache \in [Fleet -> SUBSET SeedFile]
  /\ armed \in [Fleet -> (SUBSET (Patterns \union Static)) \ {{}}]
  /\ model \in [Fleet -> BOOLEAN]
  /\ standing \in [Fleet -> SUBSET Patterns] /\ removed \in BOOLEAN
  /\ failures \in 0..MaxFailures /\ edits \in 0..MaxEdits

StartInit ==
  /\ tables = FALSE /\ policies = {} /\ patterns \in {{}, Patterns}
  /\ phase = [w \in Fleet |-> "down"]
  /\ cache = [w \in Fleet |-> {}]
  /\ armed = [w \in Fleet |-> Static]
  /\ model = [w \in Fleet |-> FALSE]
  /\ reload = [r \in Reloads |-> NoReload]
  /\ scan = [s \in Scans |-> NoScan]
  /\ standing = [w \in Fleet |-> {}]
  /\ removed = FALSE /\ failures = 0 /\ edits = 0

-----------------------------------------------------------------------------
\* The start.

Enter(w, p) == phase' = [phase EXCEPT ![w] = p]

\* The process imports main.py, then looks which tables are missing.
BootWorker(w) ==
  /\ phase[w] = "down"
  /\ Enter(w, IF tables THEN "check" ELSE "create")
  /\ cache' = [cache EXCEPT ![w] = {}]
  /\ armed' = [armed EXCEPT ![w] = Static]
  /\ model' = [model EXCEPT ![w] = FALSE]
  /\ UNCHANGED <<rowVars, reload, scan, history>>

\* The process ends: an exception of the start, a crash, a restart.  Its
\* handlers end with it, and an open transaction is rolled back.
Fail(w) ==
  /\ phase[w] # "down" /\ failures < MaxFailures
  /\ Enter(w, "down")
  /\ failures' = failures + 1
  /\ reload' = [r \in Reloads |->
                  IF reload[r].on /\ reload[r].w = w THEN NoReload ELSE reload[r]]
  /\ scan' = [s \in Scans |->
                IF scan[s].pc # "idle" /\ scan[s].w = w THEN NoScan ELSE scan[s]]
  /\ standing' = [standing EXCEPT ![w] = {}]
  /\ UNCHANGED <<rowVars, cache, armed, model, removed, edits>>

\* create_all: CREATE TABLE is an error where another worker was faster, which
\* only Fail continues from.
CreateAll(w) ==
  /\ phase[w] = "create" /\ ~tables
  /\ tables' = TRUE
  /\ Enter(w, "check")
  /\ UNCHANGED <<policies, patterns, cache, armed, model, reload, scan, history>>

\* SELECT ... LIMIT 1 on governance_policies; a missing file is only logged.
CheckEmpty(w) ==
  /\ phase[w] = "check"
  /\ Enter(w, IF policies = {} /\ SeedFile # {} THEN "seed" ELSE "sync")
  /\ UNCHANGED <<rowVars, cache, armed, model, reload, scan, history>>

\* Mutant: a commit for every policy.
SeedEach(w) ==
  /\ phase[w] = "seed"
  /\ \E p \in SeedFile \ policies :
       /\ policies' = policies \union {p}
       /\ IF policies' = SeedFile THEN Enter(w, "sync") ELSE UNCHANGED phase
  /\ UNCHANGED <<tables, patterns, cache, armed, model, reload, scan, history>>

\* One INSERT per policy and one commit, which fails on the primary key if
\* another worker has seeded meanwhile: only Fail continues from there.
Seed(w) ==
  /\ phase[w] = "seed" /\ SeedFile \cap policies = {}
  /\ policies' = policies \union SeedFile
  /\ Enter(w, "sync")
  /\ UNCHANGED <<tables, patterns, cache, armed, model, reload, scan, history>>

\* policy_service.sync_from_db, as far as the worker's own cache goes.
SyncPolicies(w) ==
  /\ phase[w] = "sync"
  /\ cache' = [cache EXCEPT ![w] = policies]
  /\ Enter(w, "arm")
  /\ UNCHANGED <<rowVars, armed, model, reload, scan, history>>

\* Mutant: the loop ends at the first row that does not compile.
CompiledUntilBroken(rows) ==
  IF rows \cap Broken # {} \/ rows = {} THEN Static ELSE rows

\* reload_patterns: rows that do not compile are skipped, and a list without
\* any falls back to the static one.
Compiled(rows) == IF rows \ Broken = {} THEN Static ELSE rows \ Broken

\* reload_patterns during the start.
ArmFirst(w) ==
  /\ phase[w] = "arm"
  /\ armed' = [armed EXCEPT ![w] = Compiled(patterns)]
  /\ standing' = [standing EXCEPT ![w] = patterns]
  /\ Enter(w, "load")
  /\ UNCHANGED <<rowVars, cache, model, reload, scan, removed, failures, edits>>

\* The injection classifier, which may be missing.
LoadClassifier(w) ==
  /\ phase[w] = "load"
  /\ \E b \in BOOLEAN : model' = [model EXCEPT ![w] = b]
  /\ Enter(w, "warm")
  /\ UNCHANGED <<rowVars, cache, armed, reload, scan, history>>

\* spaCy, Presidio and the intent cache, which may not: a failure of theirs is
\* a Fail.
WarmUp(w) ==
  /\ phase[w] = "warm"
  /\ Enter(w, "up")
  /\ UNCHANGED <<rowVars, cache, armed, model, reload, scan, history>>

-----------------------------------------------------------------------------
\* Administrators, through any worker that is up.

Served == \E w \in Fleet : phase[w] = "up"

\* DELETE /admin/policies/{id}; what it pushes is in PolicySync.
RemovePolicy ==
  /\ Served /\ edits < MaxEdits
  /\ \E p \in policies : policies' = policies \ {p}
  /\ removed' = TRUE /\ edits' = edits + 1
  /\ UNCHANGED <<tables, patterns, memory, reload, scan, standing, failures>>

\* create_pattern refuses what does not compile and, with the constraint on
\* names, what there is already.
CreatePattern ==
  /\ Served /\ edits < MaxEdits
  /\ \E p \in Patterns \ (patterns \union Broken) : patterns' = patterns \union {p}
  /\ edits' = edits + 1
  /\ UNCHANGED <<tables, policies, memory, reload, scan, standing, removed, failures>>

DeletePattern ==
  /\ Served /\ edits < MaxEdits
  /\ \E p \in patterns :
       /\ patterns' = patterns \ {p}
       /\ standing' = [w \in Fleet |-> standing[w] \ {p}]
  /\ edits' = edits + 1
  /\ UNCHANGED <<tables, policies, memory, reload, scan, removed, failures>>

On(w) == {r \in Reloads : reload[r].on /\ reload[r].w = w}

\* POST /reload reads the rows ...
ReloadRead(r, w) ==
  /\ phase[w] = "up" /\ ~reload[r].on
  /\ reload' = [q \in Reloads |->
       IF q = r THEN [on |-> TRUE, w |-> w, rows |-> patterns, sole |-> On(w) = {}]
       ELSE IF q \in On(w) THEN [reload[q] EXCEPT !.sole = FALSE] ELSE reload[q]]
  /\ UNCHANGED <<rowVars, memory, scan, history>>

\* ... and replaces the list in one assignment.  The query may also fail.
ReloadInstall(r) ==
  /\ reload[r].on
  /\ reload' = [reload EXCEPT ![r] = NoReload]
  /\ LET w == reload[r].w IN
       \/ /\ armed' = [armed EXCEPT ![w] = Compiled(reload[r].rows)]
          /\ standing' = [standing EXCEPT
               ![w] = IF reload[r].sole THEN @ \union (reload[r].rows \cap patterns) ELSE @]
       \/ UNCHANGED <<armed, standing>>
  /\ UNCHANGED <<rowVars, phase, cache, model, scan, removed, failures, edits>>

-----------------------------------------------------------------------------
\* Scans.

\* The sum of their weights.
Score(m) == 5 * Cardinality(m \cap Light) + 10 * Cardinality(m \ Light)

\* scan up to the executor: the patterns that match.  Of a conversation only the
\* latest user message is scanned.
ScanRegex(s, w) ==
  /\ phase[w] = "up" /\ scan[s].pc = "idle"
  /\ \E m \in SUBSET ((Patterns \ Broken) \union Static) :
       scan' = [scan EXCEPT ![s] = [pc |-> "classifier", w |-> w, matches |-> m,
                  score |-> Score(m \cap armed[w]), due |-> standing[w]]]
  /\ UNCHANGED <<rowVars, memory, reload, history>>

\* Whether the classifier scores a text 0.85 or more; one that is missing or
\* fails scores 0.
Injected(w) == {FALSE, model[w]}

\* A text it takes for an injection counts 0.5 more.
ScanVerdict(s) ==
  /\ scan[s].pc = "classifier"
  /\ \E injected \in Injected(scan[s].w) :
       LET total == scan[s].score + IF injected THEN 5 ELSE 0
       IN scan' = [scan EXCEPT ![s].pc = IF total >= 10 THEN "blocked" ELSE "allowed"]
  /\ UNCHANGED <<rowVars, memory, reload, history>>

ScanEnd(s) ==
  /\ scan[s].pc \in {"blocked", "allowed"}
  /\ scan' = [scan EXCEPT ![s] = NoScan]
  /\ UNCHANGED <<rowVars, memory, reload, history>>

StartNext ==
  \/ \E w \in Fleet :
       \/ BootWorker(w) \/ Fail(w) \/ CreateAll(w) \/ CheckEmpty(w) \/ Seed(w)
       \/ SyncPolicies(w) \/ ArmFirst(w) \/ LoadClassifier(w) \/ WarmUp(w)
  \/ RemovePolicy \/ CreatePattern \/ DeletePattern
  \/ \E r \in Reloads : (\E w \in Fleet : ReloadRead(r, w)) \/ ReloadInstall(r)
  \/ \E s \in Scans : (\E w \in Fleet : ScanRegex(s, w)) \/ ScanVerdict(s) \/ ScanEnd(s)

StartSpec == StartInit /\ [][StartNext]_startVars

-----------------------------------------------------------------------------
\* Unless an administrator has deleted one, a worker that serves knows every
\* policy of the seed file: two workers that find the table empty, a crash in
\* the middle of seeding and a lost race leave no table with part of the file,
\* which no later start would complete.
ServesSeeded ==
  \A w \in Fleet : phase[w] = "up" /\ ~removed => SeedFile \subseteq cache[w]

\* A prompt that matches a blocking pattern which has been active since before
\* the worker started, or since before a reload there that no other overlapped,
\* is blocked, whatever reloads run beside the scan and whatever rows are
\* broken; one that matches no pattern is not.
StandingPatternBlocks ==
  \A s \in Scans :
    /\ scan[s].pc = "allowed" => scan[s].matches \cap scan[s].due \cap Blockers = {}
    /\ scan[s].pc = "blocked" => scan[s].matches # {}

=============================================================================
