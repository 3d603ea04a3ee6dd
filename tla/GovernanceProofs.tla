-------------------------- MODULE GovernanceProofs --------------------------
(***************************************************************************)
(* The policies and patterns of the gateway: what a worker that has        *)
(* started knows and blocks, and what the syncs keep between Postgres,     *)
(* the caches of the workers and OPA.                                      *)
(***************************************************************************)
EXTENDS WorkerStart, PolicySync, FiniteSetTheorems, TLAPS

-----------------------------------------------------------------------------
(***************************************************************************)
(* WorkerStart for any number of workers, policies, patterns, reloads and  *)
(* scans: what a worker that serves knows, and what its scans block.       *)
(*                                                                         *)
(* ServesSeeded rests on the one commit of Seed: the table is empty or     *)
(* complete, and complete before a worker reads it (SeedInv).              *)
(*                                                                         *)
(* StandingPatternBlocks rests on PatternInv.  A reload under way may      *)
(* install older rows than those in use, but never rows without a pattern  *)
(* that is standing: only a reload beside which no other ran makes its     *)
(* patterns standing, so every reload that is under way then has begun     *)
(* after them (RowsHold).                                                  *)
(***************************************************************************)

Load == [on : {TRUE}, w : Fleet, rows : SUBSET Patterns, sole : BOOLEAN]
Scanned == [pc : {"classifier", "blocked", "allowed"}, w : Fleet,
            matches : SUBSET (Patterns \union Static), score : Nat, due : SUBSET Patterns]

StartTypes ==
  /\ policies \subseteq SeedFile /\ patterns \subseteq Patterns
  /\ phase \in [Fleet -> StartPhases]
  /\ cache \in [Fleet -> SUBSET SeedFile]
  /\ armed \in [Fleet -> SUBSET (Patterns \union Static)]
  /\ standing \in [Fleet -> SUBSET Patterns]
  /\ reload \in [Reloads -> Load \union {NoReload}]
  /\ scan \in [Scans -> Scanned \union {NoScan}]

AfterSeed == {"sync", "arm", "load", "warm", "up"}
AfterSync == {"arm", "load", "warm", "up"}

SeedInv ==
  ~removed =>
    /\ policies \in {{}, SeedFile}
    /\ \A w \in Fleet : /\ phase[w] \in AfterSeed => policies = SeedFile
                        /\ phase[w] \in AfterSync => SeedFile \subseteq cache[w]

\* What stands is active and in use; a worker that is down has nothing standing.
StandingInUse ==
  \A w \in Fleet : /\ standing[w] \subseteq patterns
                   /\ standing[w] \ Broken \subseteq armed[w]
                   /\ phase[w] = "down" => standing[w] = {}

Running(r) == reload[r] # NoReload

\* The rows a reload will install have what stands at its worker.
RowsHold ==
  \A r \in Reloads : Running(r) =>
    /\ phase[reload[r].w] = "up"
    /\ standing[reload[r].w] \subseteq reload[r].rows

SoleIsAlone ==
  \A r, q \in Reloads :
    Running(r) /\ Running(q) /\ reload[r].w = reload[q].w /\ reload[r].sole => q = r

\* What the patterns alone say of a prompt.
ScanJudged(x) ==
  /\ x.matches \cap x.due \cap Blockers # {} => x.score >= 10
  /\ x.matches = {} => x.score = 0

ScansJudged == \A s \in Scans : scan[s] # NoScan => ScanJudged(scan[s])

PatternInv == StandingInUse /\ RowsHold /\ SoleIsAlone /\ ScansJudged /\ StandingPatternBlocks

StartInv == StartTypes /\ SeedInv /\ PatternInv

-----------------------------------------------------------------------------
\* What the records are, so that no proof below has to take them apart.

LEMMA NotRunning == NoReload.on = FALSE /\ NoScan.pc = "idle"
BY DEF NoReload, NoScan

LEMMA LoadShape ==
  ASSUME NEW x \in Load
  PROVE  /\ x.on = TRUE /\ x # NoReload
         /\ x.w \in Fleet /\ x.rows \in SUBSET Patterns
<1>1. x.w \in Fleet /\ x.rows \in SUBSET Patterns
  BY DEF Load
<1>2. x.on \in {TRUE}
  BY DEF Load
<1>3. x # NoReload
  <2> SUFFICES ASSUME x = NoReload PROVE FALSE
    OBVIOUS
  <2> QED BY <1>2, NotRunning
<1> QED BY <1>1, <1>2, <1>3

LEMMA LoadMade ==
  ASSUME NEW w \in Fleet, NEW rows \in SUBSET Patterns, NEW sole \in BOOLEAN
  PROVE  [on |-> TRUE, w |-> w, rows |-> rows, sole |-> sole] \in Load
BY DEF Load

LEMMA LoadOverlapped ==
  ASSUME NEW x \in Load
  PROVE  /\ [x EXCEPT !.sole = FALSE] \in Load
         /\ [x EXCEPT !.sole = FALSE].w = x.w
         /\ [x EXCEPT !.sole = FALSE].rows = x.rows
         /\ [x EXCEPT !.sole = FALSE].sole = FALSE
BY DEF Load

LEMMA ScanShape ==
  ASSUME NEW x \in Scanned
  PROVE  /\ x.pc \in {"classifier", "blocked", "allowed"} /\ x # NoScan
         /\ x.w \in Fleet /\ x.score \in Nat
BY DEF Scanned, NoScan

LEMMA ScanDecided ==
  ASSUME NEW x \in Scanned, NEW p \in {"blocked", "allowed"}
  PROVE  /\ [x EXCEPT !.pc = p] \in Scanned
         /\ [x EXCEPT !.pc = p].pc = p
         /\ [x EXCEPT !.pc = p].matches = x.matches
         /\ [x EXCEPT !.pc = p].due = x.due
         /\ [x EXCEPT !.pc = p].score = x.score
BY DEF Scanned

\* A blocking pattern among the matches is enough for a block, none is not.
LEMMA ScoreBound ==
  ASSUME NEW m \in SUBSET (Patterns \union Static)
  PROVE  /\ Score(m) \in Nat
         /\ m \cap Blockers # {} => Score(m) >= 10
         /\ m = {} => Score(m) = 0
<1>1. IsFiniteSet(Static)
  <2>1. Static = {"static"} \union {"hint"}
    BY DEF Static
  <2> QED BY <2>1, FS_Singleton, FS_Union
<1>2. IsFiniteSet(m \cap Light) /\ IsFiniteSet(m \ Light)
  <2>1. IsFiniteSet(Patterns \union Static)
    BY <1>1, FS_Union, StartAssumption
  <2>2. m \cap Light \subseteq Patterns \union Static /\ m \ Light \subseteq Patterns \union Static
    OBVIOUS
  <2> QED BY <2>1, <2>2, FS_Subset
<1>3. Cardinality(m \cap Light) \in Nat /\ Cardinality(m \ Light) \in Nat
  BY <1>2, FS_CardinalityType
<1>4. ASSUME m \cap Blockers # {} PROVE Cardinality(m \ Light) # 0
  <2>1. Blockers \cap Light = {}
    BY StartAssumption DEF Light, Patterns, Static
  <2>2. m \ Light # {}
    BY <1>4, <2>1
  <2> QED BY <1>2, <2>2, FS_EmptySet
<1>5. ASSUME m = {} PROVE Cardinality(m \cap Light) = 0 /\ Cardinality(m \ Light) = 0
  <2>1. m \cap Light = {} /\ m \ Light = {}
    BY <1>5
  <2> QED BY <2>1, FS_EmptySet
<1> QED BY <1>3, <1>4, <1>5 DEF Score

LEMMA CompiledHas ==
  ASSUME NEW rows \in SUBSET Patterns
  PROVE  /\ Compiled(rows) \in SUBSET (Patterns \union Static)
         /\ rows \ Broken \subseteq Compiled(rows)
BY DEF Compiled

-----------------------------------------------------------------------------
LEMMA StartEstablishes == ASSUME StartInit PROVE StartInv
<1>1. StartTypes
  BY DEF StartInit, StartTypes, StartPhases
<1>2. SeedInv
  BY DEF StartInit, SeedInv, AfterSeed, AfterSync
<1>3. StandingInUse
  BY DEF StartInit, StandingInUse
<1>4. RowsHold /\ SoleIsAlone /\ ScansJudged
  BY DEF StartInit, RowsHold, SoleIsAlone, ScansJudged, Running
<1>5. StandingPatternBlocks
  BY NotRunning DEF StartInit, StandingPatternBlocks
<1> QED BY <1>1, <1>2, <1>3, <1>4, <1>5 DEF StartInv, PatternInv

\* Steps of the start that touch neither patterns nor reloads nor scans.
LEMMA PatternsKept ==
  ASSUME StartInv, UNCHANGED <<patterns, armed, standing, reload, scan>>,
         NEW w \in Fleet, phase[w] \notin {"down", "up"},
         NEW p \in StartPhases \ {"down"}, phase' = [phase EXCEPT ![w] = p]
  PROVE  PatternInv'
<1>1. \A v \in Fleet : /\ phase'[v] = "down" => phase[v] = "down"
                       /\ phase[v] = "up" => phase'[v] = "up"
  BY DEF StartInv, StartTypes
<1>2. StandingInUse'
  BY <1>1 DEF StartInv, PatternInv, StandingInUse
<1>3. RowsHold'
  <2> SUFFICES ASSUME NEW r \in Reloads, Running(r)
               PROVE  /\ phase'[reload[r].w] = "up"
                      /\ standing[reload[r].w] \subseteq reload[r].rows
    BY DEF RowsHold, Running
  <2>1. reload[r] \in Load
    BY DEF StartInv, StartTypes, Running
  <2>2. reload[r].w \in Fleet
    BY <2>1, LoadShape
  <2> QED BY <1>1, <2>2 DEF StartInv, PatternInv, RowsHold
<1>4. SoleIsAlone' /\ ScansJudged' /\ StandingPatternBlocks'
  BY DEF StartInv, PatternInv, SoleIsAlone, Running, ScansJudged, ScanJudged, StandingPatternBlocks
<1> QED BY <1>2, <1>3, <1>4 DEF PatternInv

LEMMA BootKeeps == ASSUME StartInv, NEW w \in Fleet, BootWorker(w) PROVE StartInv'
<1> DEFINE p == IF tables THEN "check" ELSE "create"
<1>1. /\ phase[w] = "down" /\ phase' = [phase EXCEPT ![w] = p]
      /\ cache' = [cache EXCEPT ![w] = {}] /\ armed' = [armed EXCEPT ![w] = Static]
      /\ UNCHANGED <<tables, policies, patterns, reload, scan, standing, removed>>
  BY DEF BootWorker, Enter, rowVars, history
<1>2. p \in {"check", "create"}
  OBVIOUS
<1> HIDE DEF p
<1>3. /\ phase' \in [Fleet -> StartPhases] /\ phase'[w] = p
      /\ \A v \in Fleet \ {w} : phase'[v] = phase[v]
  BY <1>1, <1>2 DEF StartInv, StartTypes, StartPhases
<1>4. /\ cache' \in [Fleet -> SUBSET SeedFile] /\ armed' \in [Fleet -> SUBSET (Patterns \union Static)]
      /\ \A v \in Fleet \ {w} : cache'[v] = cache[v] /\ armed'[v] = armed[v]
  BY <1>1 DEF StartInv, StartTypes
<1>5. StartTypes'
  BY <1>1, <1>3, <1>4 DEF StartInv, StartTypes
<1>6. SeedInv'
  BY <1>1, <1>2, <1>3, <1>4 DEF StartInv, SeedInv, AfterSeed, AfterSync
<1>7. StandingInUse'
  <2>1. standing[w] = {}
    BY <1>1 DEF StartInv, PatternInv, StandingInUse
  <2> QED BY <1>1, <1>2, <1>3, <1>4, <2>1 DEF StartInv, PatternInv, StandingInUse
<1>8. RowsHold'
  <2> SUFFICES ASSUME NEW r \in Reloads, Running(r)
               PROVE  /\ phase'[reload[r].w] = "up"
                      /\ standing[reload[r].w] \subseteq reload[r].rows
    BY <1>1 DEF RowsHold, Running
  <2>1. reload[r] \in Load
    BY DEF StartInv, StartTypes, Running
  <2>2. reload[r].w \in Fleet
    BY <2>1, LoadShape
  <2> QED BY <1>1, <1>3, <2>2 DEF StartInv, PatternInv, RowsHold
<1>9. SoleIsAlone' /\ ScansJudged' /\ StandingPatternBlocks'
  BY <1>1 DEF StartInv, PatternInv, SoleIsAlone, Running, ScansJudged, ScanJudged, StandingPatternBlocks
<1> QED BY <1>5, <1>6, <1>7, <1>8, <1>9 DEF StartInv, PatternInv

LEMMA FailKeeps == ASSUME StartInv, NEW w \in Fleet, Fail(w) PROVE StartInv'
<1>1. /\ phase' = [phase EXCEPT ![w] = "down"]
      /\ standing' = [standing EXCEPT ![w] = {}]
      /\ UNCHANGED <<policies, patterns, cache, armed, removed>>
  BY DEF Fail, Enter, rowVars
<1>2. /\ reload' = [r \in Reloads |->
                      IF reload[r].on /\ reload[r].w = w THEN NoReload ELSE reload[r]]
      /\ scan' = [s \in Scans |->
                    IF scan[s].pc # "idle" /\ scan[s].w = w THEN NoScan ELSE scan[s]]
  BY DEF Fail
<1>3. /\ phase' \in [Fleet -> StartPhases] /\ phase'[w] = "down" /\ standing'[w] = {}
      /\ standing' \in [Fleet -> SUBSET Patterns]
      /\ \A v \in Fleet \ {w} : phase'[v] = phase[v] /\ standing'[v] = standing[v]
  BY <1>1 DEF StartInv, StartTypes, StartPhases
<1>4. \A r \in Reloads : /\ reload'[r] \in {NoReload, reload[r]}
                         /\ reload'[r] # NoReload => reload[r].w # w
  <2> SUFFICES ASSUME NEW r \in Reloads
               PROVE  /\ reload'[r] \in {NoReload, reload[r]}
                      /\ reload'[r] # NoReload => reload[r].w # w
    OBVIOUS
  <2>1. reload[r] # NoReload => reload[r].on = TRUE
    BY LoadShape DEF StartInv, StartTypes
  <2>2. reload'[r] = IF reload[r].on /\ reload[r].w = w THEN NoReload ELSE reload[r]
    BY <1>2
  <2> QED BY <2>1, <2>2
<1>5. \A s \in Scans : scan'[s] \in {NoScan, scan[s]}
  BY <1>2
<1>6. StartTypes'
  <2>1. reload' \in [Reloads -> Load \union {NoReload}]
    <3>1. DOMAIN reload' = Reloads /\ reload' = [r \in Reloads |-> reload'[r]]
      BY <1>2
    <3>2. \A r \in Reloads : reload'[r] \in Load \union {NoReload}
      BY <1>4 DEF StartInv, StartTypes
    <3> QED BY <3>1, <3>2
  <2>2. scan' \in [Scans -> Scanned \union {NoScan}]
    <3>1. DOMAIN scan' = Scans /\ scan' = [s \in Scans |-> scan'[s]]
      BY <1>2
    <3>2. \A s \in Scans : scan'[s] \in Scanned \union {NoScan}
      BY <1>5 DEF StartInv, StartTypes
    <3> QED BY <3>1, <3>2
  <2> QED BY <1>1, <1>3, <2>1, <2>2 DEF StartInv, StartTypes
<1>7. SeedInv'
  BY <1>1, <1>3 DEF StartInv, SeedInv, AfterSeed, AfterSync
<1>8. StandingInUse'
  BY <1>1, <1>3 DEF StartInv, PatternInv, StandingInUse
<1>9. RowsHold'
  <2> SUFFICES ASSUME NEW r \in Reloads, reload'[r] # NoReload
               PROVE  /\ phase'[reload'[r].w] = "up"
                      /\ standing'[reload'[r].w] \subseteq reload'[r].rows
    BY DEF RowsHold, Running
  <2>1. reload'[r] = reload[r] /\ reload[r] # NoReload /\ reload[r].w # w
    BY <1>4
  <2>2. reload[r].w \in Fleet
    BY <2>1, LoadShape DEF StartInv, StartTypes
  <2> QED BY <1>3, <2>1, <2>2 DEF StartInv, PatternInv, RowsHold, Running
<1>10. SoleIsAlone'
  BY <1>4 DEF StartInv, PatternInv, SoleIsAlone, Running
<1>11. ScansJudged'
  BY <1>5 DEF StartInv, PatternInv, ScansJudged, ScanJudged
<1>12. StandingPatternBlocks'
  BY <1>5, NotRunning DEF StartInv, PatternInv, StandingPatternBlocks
<1> QED BY <1>6, <1>7, <1>8, <1>9, <1>10, <1>11, <1>12 DEF StartInv, PatternInv

LEMMA CreateAllKeeps == ASSUME StartInv, NEW w \in Fleet, CreateAll(w) PROVE StartInv'
<1>1. /\ phase[w] = "create" /\ phase' = [phase EXCEPT ![w] = "check"]
      /\ UNCHANGED <<policies, patterns, cache, armed, standing, removed, reload, scan>>
  BY DEF CreateAll, Enter, history
<1>2. PatternInv'
  BY <1>1, PatternsKept DEF StartPhases
<1>3. StartTypes' /\ SeedInv'
  BY <1>1 DEF StartInv, StartTypes, SeedInv, AfterSeed, AfterSync, StartPhases
<1> QED BY <1>2, <1>3 DEF StartInv

LEMMA CheckEmptyKeeps == ASSUME StartInv, NEW w \in Fleet, CheckEmpty(w) PROVE StartInv'
<1> DEFINE p == IF policies = {} /\ SeedFile # {} THEN "seed" ELSE "sync"
<1>1. /\ phase[w] = "check" /\ phase' = [phase EXCEPT ![w] = p]
      /\ UNCHANGED <<policies, patterns, cache, armed, standing, removed, reload, scan>>
  BY DEF CheckEmpty, Enter, rowVars, history
<1>2. p \in {"seed", "sync"} /\ (p = "sync" => policies # {} \/ SeedFile = {})
  OBVIOUS
<1> HIDE DEF p
<1>3. PatternInv'
  BY <1>1, <1>2, PatternsKept DEF StartPhases
<1>4. StartTypes'
  BY <1>1, <1>2 DEF StartInv, StartTypes, StartPhases
<1>5. SeedInv'
  BY <1>1, <1>2 DEF StartInv, StartTypes, SeedInv, AfterSeed, AfterSync
<1> QED BY <1>3, <1>4, <1>5 DEF StartInv

LEMMA SeedKeeps == ASSUME StartInv, NEW w \in Fleet, Seed(w) PROVE StartInv'
<1>1. /\ phase[w] = "seed" /\ phase' = [phase EXCEPT ![w] = "sync"]
      /\ policies' = policies \union SeedFile
      /\ UNCHANGED <<patterns, cache, armed, standing, removed, reload, scan>>
  BY DEF Seed, Enter, history
<1>2. PatternInv'
  BY <1>1, PatternsKept DEF StartPhases
<1>3. policies' = SeedFile
  BY <1>1 DEF StartInv, StartTypes
<1>4. StartTypes'
  BY <1>1, <1>3 DEF StartInv, StartTypes, StartPhases
<1>5. SeedInv'
  BY <1>1, <1>3 DEF StartInv, StartTypes, SeedInv, AfterSeed, AfterSync
<1> QED BY <1>2, <1>4, <1>5 DEF StartInv

LEMMA SyncKeeps == ASSUME StartInv, NEW w \in Fleet, SyncPolicies(w) PROVE StartInv'
<1>1. /\ phase[w] = "sync" /\ phase' = [phase EXCEPT ![w] = "arm"]
      /\ cache' = [cache EXCEPT ![w] = policies]
      /\ UNCHANGED <<policies, patterns, armed, standing, removed, reload, scan>>
  BY DEF SyncPolicies, Enter, rowVars, history
<1>2. PatternInv'
  BY <1>1, PatternsKept DEF StartPhases
<1>3. StartTypes'
  BY <1>1 DEF StartInv, StartTypes, StartPhases
<1>4. SeedInv'
  BY <1>1 DEF StartInv, StartTypes, SeedInv, AfterSeed, AfterSync
<1> QED BY <1>2, <1>3, <1>4 DEF StartInv

LEMMA LoadKeeps ==
  ASSUME StartInv, NEW w \in Fleet, LoadClassifier(w) \/ WarmUp(w)
  PROVE  StartInv'
<1>1. PICK p \in {"warm", "up"} :
        /\ phase[w] \in {"load", "warm"} /\ phase' = [phase EXCEPT ![w] = p]
        /\ UNCHANGED <<policies, patterns, cache, armed, standing, removed, reload, scan>>
  BY DEF LoadClassifier, WarmUp, Enter, rowVars, history
<1>2. PatternInv'
  BY <1>1, PatternsKept DEF StartPhases
<1>3. StartTypes'
  BY <1>1 DEF StartInv, StartTypes, StartPhases
<1>4. SeedInv'
  BY <1>1 DEF StartInv, StartTypes, SeedInv, AfterSeed, AfterSync
<1> QED BY <1>2, <1>3, <1>4 DEF StartInv

LEMMA ArmFirstKeeps == ASSUME StartInv, NEW w \in Fleet, ArmFirst(w) PROVE StartInv'
<1>1. /\ phase[w] = "arm" /\ phase' = [phase EXCEPT ![w] = "load"]
      /\ armed' = [armed EXCEPT ![w] = Compiled(patterns)]
      /\ standing' = [standing EXCEPT ![w] = patterns]
      /\ UNCHANGED <<policies, patterns, cache, removed, reload, scan>>
  BY DEF ArmFirst, Enter, rowVars
<1>2. /\ Compiled(patterns) \in SUBSET (Patterns \union Static)
      /\ patterns \ Broken \subseteq Compiled(patterns)
  BY CompiledHas DEF StartInv, StartTypes
<1>3. /\ phase'[w] = "load" /\ armed'[w] = Compiled(patterns) /\ standing'[w] = patterns
      /\ \A v \in Fleet \ {w} : /\ phase'[v] = phase[v]
                                /\ armed'[v] = armed[v] /\ standing'[v] = standing[v]
  BY <1>1 DEF StartInv, StartTypes
<1>4. StartTypes'
  BY <1>1, <1>2 DEF StartInv, StartTypes, StartPhases
<1>5. SeedInv'
  BY <1>1 DEF StartInv, StartTypes, SeedInv, AfterSeed, AfterSync
<1>6. StandingInUse'
  BY <1>1, <1>2, <1>3 DEF StartInv, PatternInv, StandingInUse
<1>7. RowsHold'
  <2> SUFFICES ASSUME NEW r \in Reloads, Running(r)
               PROVE  /\ phase'[reload[r].w] = "up"
                      /\ standing'[reload[r].w] \subseteq reload[r].rows
    BY <1>1 DEF RowsHold, Running
  <2>1. reload[r].w \in Fleet
    BY LoadShape DEF StartInv, StartTypes, Running
  <2>2. phase[reload[r].w] = "up" /\ standing[reload[r].w] \subseteq reload[r].rows
    BY DEF StartInv, PatternInv, RowsHold
  <2>3. reload[r].w # w
    BY <1>1, <2>2
  <2> QED BY <1>3, <2>1, <2>2, <2>3
<1>8. SoleIsAlone' /\ ScansJudged' /\ StandingPatternBlocks'
  BY <1>1 DEF StartInv, PatternInv, SoleIsAlone, Running, ScansJudged, ScanJudged, StandingPatternBlocks
<1> QED BY <1>4, <1>5, <1>6, <1>7, <1>8 DEF StartInv, PatternInv

-----------------------------------------------------------------------------
LEMMA RemovePolicyKeeps == ASSUME StartInv, RemovePolicy PROVE StartInv'
<1>1. /\ policies' \subseteq policies /\ removed' = TRUE
      /\ UNCHANGED <<patterns, phase, cache, armed, standing, reload, scan>>
  BY DEF RemovePolicy, memory
<1>2. StartTypes' /\ SeedInv'
  BY <1>1 DEF StartInv, StartTypes, SeedInv
<1>3. PatternInv'
  BY <1>1 DEF StartInv, PatternInv, StandingInUse, RowsHold, SoleIsAlone, Running, ScansJudged,
              ScanJudged, StandingPatternBlocks
<1> QED BY <1>2, <1>3 DEF StartInv

LEMMA PatternEditKeeps == ASSUME StartInv, CreatePattern \/ DeletePattern PROVE StartInv'
<1>1. /\ patterns' \subseteq Patterns
      /\ standing' \in [Fleet -> SUBSET Patterns]
      /\ \A w \in Fleet : standing'[w] \subseteq standing[w] /\ standing'[w] \subseteq patterns'
      /\ UNCHANGED <<policies, phase, cache, armed, removed, reload, scan>>
  <2>1. CASE CreatePattern
    BY <2>1 DEF CreatePattern, memory, StartInv, StartTypes, PatternInv, StandingInUse
  <2>2. CASE DeletePattern
    BY <2>2 DEF DeletePattern, memory, StartInv, StartTypes, PatternInv, StandingInUse
  <2> QED BY <2>1, <2>2
<1>2. StartTypes' /\ SeedInv'
  BY <1>1 DEF StartInv, StartTypes, SeedInv
<1>3. StandingInUse'
  BY <1>1 DEF StartInv, PatternInv, StandingInUse
<1>4. RowsHold'
  <2> SUFFICES ASSUME NEW r \in Reloads, Running(r)
               PROVE  /\ phase[reload[r].w] = "up"
                      /\ standing'[reload[r].w] \subseteq reload[r].rows
    BY <1>1 DEF RowsHold, Running
  <2>1. reload[r].w \in Fleet
    BY LoadShape DEF StartInv, StartTypes, Running
  <2> QED BY <1>1, <2>1 DEF StartInv, PatternInv, RowsHold
<1>5. SoleIsAlone' /\ ScansJudged' /\ StandingPatternBlocks'
  BY <1>1 DEF StartInv, PatternInv, SoleIsAlone, Running, ScansJudged, ScanJudged, StandingPatternBlocks
<1> QED BY <1>2, <1>3, <1>4, <1>5 DEF StartInv, PatternInv

LEMMA ReloadReadKeeps ==
  ASSUME StartInv, NEW r \in Reloads, NEW w \in Fleet, ReloadRead(r, w)
  PROVE  StartInv'
<1> DEFINE sole == On(w) = {}
<1> DEFINE new == [on |-> TRUE, w |-> w, rows |-> patterns, sole |-> sole]
<1>1. /\ phase[w] = "up"
      /\ reload' = [q \in Reloads |->
           IF q = r THEN new ELSE IF q \in On(w) THEN [reload[q] EXCEPT !.sole = FALSE] ELSE reload[q]]
      /\ UNCHANGED <<policies, patterns, phase, cache, armed, standing, removed, scan>>
  BY DEF ReloadRead, rowVars, memory, history
<1>2. \A q \in Reloads : q \in On(w) <=> Running(q) /\ reload[q].w = w
  <2> SUFFICES ASSUME NEW q \in Reloads
               PROVE  (reload[q].on /\ reload[q].w = w) <=> (Running(q) /\ reload[q].w = w)
    BY DEF On
  <2>1. reload[q] # NoReload => reload[q].on = TRUE
    BY LoadShape DEF StartInv, StartTypes
  <2>2. reload[q] = NoReload => reload[q].on = FALSE
    BY NotRunning
  <2> QED BY <2>1, <2>2 DEF Running
<1>3. new \in Load /\ new.w = w /\ new.rows = patterns /\ new.sole = sole
  BY LoadMade DEF StartInv, StartTypes
<1>4. sole \in BOOLEAN /\ (sole => \A q \in Reloads : ~(Running(q) /\ reload[q].w = w))
  BY <1>2
<1> HIDE DEF sole, new
<1>5. reload'[r] = new
  BY <1>1
<1>6. ASSUME NEW q \in Reloads \ {r}
      PROVE  /\ reload'[q] # NoReload <=> reload[q] # NoReload
             /\ reload'[q] # NoReload =>
                  /\ reload[q] \in Load /\ reload'[q] \in Load
                  /\ reload'[q].w = reload[q].w /\ reload'[q].rows = reload[q].rows
                  /\ reload[q].w = w => reload'[q].sole = FALSE
                  /\ reload[q].w # w => reload'[q] = reload[q]
  <2>1. CASE q \in On(w)
    <3>1. reload[q] \in Load /\ reload[q].w = w
      BY <1>2, <2>1 DEF StartInv, StartTypes, Running
    <3>2. reload'[q] = [reload[q] EXCEPT !.sole = FALSE]
      BY <1>1, <2>1
    <3>3. /\ reload'[q] \in Load /\ reload'[q].w = reload[q].w
          /\ reload'[q].rows = reload[q].rows /\ reload'[q].sole = FALSE
      BY <3>1, <3>2, LoadOverlapped
    <3> QED BY <3>1, <3>3, LoadShape
  <2>2. CASE q \notin On(w)
    <3>1. reload'[q] = reload[q]
      BY <1>1, <2>2
    <3> QED BY <1>2, <2>2, <3>1 DEF StartInv, StartTypes, Running
  <2> QED BY <2>1, <2>2
<1>7. new # NoReload
  BY <1>3, LoadShape
<1>8. StartTypes'
  <2>1. DOMAIN reload' = Reloads /\ reload' = [q \in Reloads |-> reload'[q]]
    BY <1>1
  <2>2. \A q \in Reloads : reload'[q] \in Load \union {NoReload}
    BY <1>3, <1>5, <1>6
  <2>3. reload' \in [Reloads -> Load \union {NoReload}]
    BY <2>1, <2>2
  <2> QED BY <1>1, <2>3 DEF StartInv, StartTypes
<1>9. SeedInv' /\ StandingInUse'
  BY <1>1 DEF StartInv, SeedInv, PatternInv, StandingInUse
<1>10. RowsHold'
  <2> SUFFICES ASSUME NEW q \in Reloads, reload'[q] # NoReload
               PROVE  /\ phase[reload'[q].w] = "up"
                      /\ standing[reload'[q].w] \subseteq reload'[q].rows
    BY <1>1 DEF RowsHold, Running
  <2>1. CASE q = r
    BY <1>1, <1>3, <1>5, <2>1 DEF StartInv, PatternInv, StandingInUse
  <2>2. CASE q # r
    <3>1. reload[q] # NoReload /\ reload'[q].w = reload[q].w /\ reload'[q].rows = reload[q].rows
      BY <1>6, <2>2
    <3> QED BY <3>1 DEF StartInv, PatternInv, RowsHold, Running
  <2> QED BY <2>1, <2>2
<1>11. SoleIsAlone'
  <2> SUFFICES ASSUME NEW a \in Reloads, NEW b \in Reloads, reload'[a] # NoReload,
                      reload'[b] # NoReload, reload'[a].w = reload'[b].w, reload'[a].sole
               PROVE  b = a
    BY DEF SoleIsAlone, Running
  <2>1. CASE a = r
    <3>1. ASSUME b # r PROVE FALSE
      <4>1. sole
        BY <1>3, <1>5, <2>1
      <4>2. reload[b] # NoReload /\ reload[b].w = w
        BY <1>3, <1>5, <1>6, <2>1, <3>1
      <4> QED BY <1>4, <4>1, <4>2 DEF Running
    <3> QED BY <2>1, <3>1
  <2>2. CASE a # r
    <3>1. /\ reload[a] # NoReload /\ reload'[a].w = reload[a].w
          /\ reload[a].w = w => reload'[a].sole = FALSE
          /\ reload[a].w # w => reload'[a] = reload[a]
      BY <1>6, <2>2
    <3>2. reload[a].w # w
      BY <3>1
    <3>3. b # r
      BY <1>3, <1>5, <3>1, <3>2
    <3>4. reload[b] # NoReload /\ reload'[b].w = reload[b].w
      BY <1>6, <3>3
    <3>5. reload[a].sole /\ reload[a].w = reload[b].w
      BY <3>1, <3>2, <3>4
    <3> QED BY <3>1, <3>4, <3>5 DEF StartInv, PatternInv, SoleIsAlone, Running
  <2> QED BY <2>1, <2>2
<1>12. ScansJudged' /\ StandingPatternBlocks'
  BY <1>1 DEF StartInv, PatternInv, ScansJudged, ScanJudged, StandingPatternBlocks
<1> QED BY <1>8, <1>9, <1>10, <1>11, <1>12 DEF StartInv, PatternInv

LEMMA ReloadInstallKeeps == ASSUME StartInv, NEW r \in Reloads, ReloadInstall(r) PROVE StartInv'
<1> DEFINE w == reload[r].w
<1> DEFINE rows == reload[r].rows
<1>1. /\ reload[r].on /\ reload' = [reload EXCEPT ![r] = NoReload]
      /\ UNCHANGED <<policies, patterns, phase, cache, removed, scan>>
  BY DEF ReloadInstall, rowVars
<1>2. \/ /\ armed' = [armed EXCEPT ![w] = Compiled(rows)]
         /\ standing' = [standing EXCEPT
              ![w] = IF reload[r].sole THEN @ \union (rows \cap patterns) ELSE @]
      \/ UNCHANGED <<armed, standing>>
  BY DEF ReloadInstall
<1>3. reload[r] # NoReload
  BY <1>1, NotRunning
<1>4. reload[r] \in Load /\ w \in Fleet /\ rows \in SUBSET Patterns
  BY <1>3, LoadShape DEF StartInv, StartTypes
<1>5. standing[w] \subseteq rows /\ phase[w] = "up"
  BY <1>3 DEF StartInv, PatternInv, RowsHold, Running
<1>6. /\ Compiled(rows) \in SUBSET (Patterns \union Static)
      /\ rows \ Broken \subseteq Compiled(rows)
  BY <1>4, CompiledHas
<1>7. \A q \in Reloads \ {r} : Running(q) /\ reload[q].w = w => ~reload[r].sole
  BY <1>3 DEF StartInv, PatternInv, SoleIsAlone, Running
<1> HIDE DEF w, rows
<1>8. /\ armed' \in [Fleet -> SUBSET (Patterns \union Static)]
      /\ standing' \in [Fleet -> SUBSET Patterns]
      /\ \A v \in Fleet \ {w} : armed'[v] = armed[v] /\ standing'[v] = standing[v]
  BY <1>2, <1>4, <1>6 DEF StartInv, StartTypes
<1>9. /\ standing'[w] \subseteq patterns
      /\ standing'[w] \ Broken \subseteq armed'[w]
      /\ ~reload[r].sole => standing'[w] = standing[w]
  <2>1. standing[w] \subseteq patterns /\ standing[w] \ Broken \subseteq armed[w]
    BY <1>4 DEF StartInv, PatternInv, StandingInUse
  <2>2. CASE UNCHANGED <<armed, standing>>
    BY <2>1, <2>2
  <2>3. CASE /\ armed' = [armed EXCEPT ![w] = Compiled(rows)]
             /\ standing' = [standing EXCEPT
                  ![w] = IF reload[r].sole THEN @ \union (rows \cap patterns) ELSE @]
    <3>1. armed'[w] = Compiled(rows)
      BY <1>4, <2>3 DEF StartInv, StartTypes
    <3>2. standing'[w] = IF reload[r].sole THEN standing[w] \union (rows \cap patterns) ELSE standing[w]
      BY <1>4, <2>3 DEF StartInv, StartTypes
    <3> QED BY <1>5, <1>6, <2>1, <3>1, <3>2
  <2> QED BY <1>2, <2>2, <2>3
<1>10. /\ reload' \in [Reloads -> Load \union {NoReload}] /\ reload'[r] = NoReload
       /\ \A q \in Reloads \ {r} : reload'[q] = reload[q]
  BY <1>1 DEF StartInv, StartTypes
<1>11. StartTypes' /\ SeedInv'
  BY <1>1, <1>8, <1>10 DEF StartInv, StartTypes, SeedInv
<1>12. StandingInUse'
  <2> SUFFICES ASSUME NEW v \in Fleet
               PROVE  /\ standing'[v] \subseteq patterns
                      /\ standing'[v] \ Broken \subseteq armed'[v]
                      /\ phase[v] = "down" => standing'[v] = {}
    BY <1>1 DEF StandingInUse
  <2>1. CASE v = w
    BY <1>5, <1>9, <2>1
  <2>2. CASE v # w
    BY <1>8, <2>2 DEF StartInv, PatternInv, StandingInUse
  <2> QED BY <2>1, <2>2
<1>13. RowsHold'
  <2> SUFFICES ASSUME NEW q \in Reloads, reload'[q] # NoReload
               PROVE  /\ phase[reload'[q].w] = "up"
                      /\ standing'[reload'[q].w] \subseteq reload'[q].rows
    BY <1>1 DEF RowsHold, Running
  <2>1. q # r /\ reload'[q] = reload[q] /\ reload[q] # NoReload
    BY <1>10
  <2>2. reload[q].w \in Fleet
    BY <2>1, LoadShape DEF StartInv, StartTypes
  <2>3. phase[reload[q].w] = "up" /\ standing[reload[q].w] \subseteq reload[q].rows
    BY <2>1 DEF StartInv, PatternInv, RowsHold, Running
  <2>4. standing'[reload[q].w] = standing[reload[q].w]
    <3>1. CASE reload[q].w = w
      BY <1>7, <1>9, <2>1, <3>1 DEF Running
    <3>2. CASE reload[q].w # w
      BY <1>8, <2>2, <3>2
    <3> QED BY <3>1, <3>2
  <2> QED BY <2>1, <2>3, <2>4
<1>14. SoleIsAlone'
  BY <1>10 DEF StartInv, PatternInv, SoleIsAlone, Running
<1>15. ScansJudged' /\ StandingPatternBlocks'
  BY <1>1 DEF StartInv, PatternInv, ScansJudged, ScanJudged, StandingPatternBlocks
<1> QED BY <1>11, <1>12, <1>13, <1>14, <1>15 DEF StartInv, PatternInv

-----------------------------------------------------------------------------
\* A step of one scan.
LEMMA ScanKeeps ==
  ASSUME StartInv, NEW s \in Scans, NEW x \in Scanned \union {NoScan},
         scan' = [scan EXCEPT ![s] = x],
         UNCHANGED <<policies, patterns, phase, cache, armed, standing, removed, reload>>,
         x # NoScan => ScanJudged(x),
         x.pc = "allowed" => x.matches \cap x.due \cap Blockers = {},
         x.pc = "blocked" => x.matches # {}
  PROVE  StartInv'
<1>1. /\ scan' \in [Scans -> Scanned \union {NoScan}] /\ scan'[s] = x
      /\ \A t \in Scans \ {s} : scan'[t] = scan[t]
  BY DEF StartInv, StartTypes
<1>2. StartTypes' /\ SeedInv'
  BY <1>1 DEF StartInv, StartTypes, SeedInv
<1>3. StandingInUse' /\ RowsHold' /\ SoleIsAlone'
  BY DEF StartInv, PatternInv, StandingInUse, RowsHold, SoleIsAlone, Running
<1>4. ScansJudged'
  BY <1>1 DEF StartInv, PatternInv, ScansJudged, ScanJudged
<1>5. StandingPatternBlocks'
  BY <1>1 DEF StartInv, PatternInv, StandingPatternBlocks
<1> QED BY <1>2, <1>3, <1>4, <1>5 DEF StartInv, PatternInv

LEMMA ScanRegexKeeps ==
  ASSUME StartInv, NEW s \in Scans, NEW w \in Fleet, ScanRegex(s, w)
  PROVE  StartInv'
<1>1. PICK m \in SUBSET ((Patterns \ Broken) \union Static) :
        scan' = [scan EXCEPT ![s] = [pc |-> "classifier", w |-> w, matches |-> m,
                   score |-> Score(m \cap armed[w]), due |-> standing[w]]]
  BY DEF ScanRegex
<1> DEFINE hits == m \cap armed[w]
<1> DEFINE x == [pc |-> "classifier", w |-> w, matches |-> m, score |-> Score(hits), due |-> standing[w]]
<1>2. UNCHANGED <<policies, patterns, phase, cache, armed, standing, removed, reload>>
  BY DEF ScanRegex, rowVars, memory, history
<1>3. hits \in SUBSET (Patterns \union Static) /\ m \in SUBSET (Patterns \union Static)
  OBVIOUS
<1>4. standing[w] \in SUBSET Patterns /\ standing[w] \ Broken \subseteq armed[w]
  BY DEF StartInv, StartTypes, PatternInv, StandingInUse
<1>5. m \cap standing[w] \cap Blockers # {} => hits \cap Blockers # {}
  BY <1>4, StartAssumption
<1>6. m = {} => hits = {}
  OBVIOUS
<1> HIDE DEF hits
<1>7. /\ Score(hits) \in Nat
      /\ m \cap standing[w] \cap Blockers # {} => Score(hits) >= 10
      /\ m = {} => Score(hits) = 0
  BY <1>3, <1>5, <1>6, ScoreBound
<1>8. /\ x \in Scanned /\ x.pc = "classifier" /\ x.matches = m /\ x.due = standing[w]
      /\ x.score = Score(hits)
  BY <1>3, <1>4, <1>7 DEF Scanned
<1>9. scan' = [scan EXCEPT ![s] = x]
  BY <1>1 DEF hits
<1> HIDE DEF x
<1>10. ScanJudged(x)
  BY <1>7, <1>8 DEF ScanJudged
<1> QED BY <1>2, <1>8, <1>9, <1>10, ScanKeeps

LEMMA ScanVerdictKeeps == ASSUME StartInv, NEW s \in Scans, ScanVerdict(s) PROVE StartInv'
<1>1. PICK injected \in Injected(scan[s].w) :
        LET total == scan[s].score + IF injected THEN 5 ELSE 0
        IN scan' = [scan EXCEPT ![s].pc = IF total >= 10 THEN "blocked" ELSE "allowed"]
  BY DEF ScanVerdict
<1> DEFINE extra == IF injected THEN 5 ELSE 0
<1> DEFINE p == IF scan[s].score + extra >= 10 THEN "blocked" ELSE "allowed"
<1> DEFINE x == [scan[s] EXCEPT !.pc = p]
<1>2. /\ UNCHANGED <<policies, patterns, phase, cache, armed, standing, removed, reload>>
      /\ scan[s].pc = "classifier"
  BY DEF ScanVerdict, rowVars, memory, history
<1>3. scan' = [scan EXCEPT ![s] = x]
  BY <1>1
<1>4. scan[s] # NoScan /\ scan[s] \in Scanned
  BY <1>2, NotRunning DEF StartInv, StartTypes
<1>5. scan[s].score \in Nat /\ ScanJudged(scan[s])
  BY <1>4, ScanShape DEF StartInv, PatternInv, ScansJudged
<1>6. extra \in {0, 5}
  OBVIOUS
<1> HIDE DEF extra
<1>7. /\ p \in {"blocked", "allowed"}
      /\ p = "allowed" => ~(scan[s].score >= 10)
      /\ p = "blocked" => scan[s].score # 0
  BY <1>5, <1>6
<1> HIDE DEF p
<1>8. /\ x \in Scanned /\ x.pc = p /\ x.matches = scan[s].matches
      /\ x.due = scan[s].due /\ x.score = scan[s].score
  BY <1>4, <1>7, ScanDecided
<1> HIDE DEF x
<1>9. ScanJudged(x)
  BY <1>5, <1>8 DEF ScanJudged
<1>10. /\ x.pc = "allowed" => x.matches \cap x.due \cap Blockers = {}
       /\ x.pc = "blocked" => x.matches # {}
  BY <1>5, <1>7, <1>8 DEF ScanJudged
<1> QED BY <1>2, <1>3, <1>8, <1>9, <1>10, ScanKeeps

LEMMA ScanEndKeeps == ASSUME StartInv, NEW s \in Scans, ScanEnd(s) PROVE StartInv'
<1>1. /\ scan' = [scan EXCEPT ![s] = NoScan]
      /\ UNCHANGED <<policies, patterns, phase, cache, armed, standing, removed, reload>>
  BY DEF ScanEnd, rowVars, memory, history
<1> QED BY <1>1, NotRunning, ScanKeeps

-----------------------------------------------------------------------------
LEMMA StartNextKeeps == ASSUME StartInv, [StartNext]_startVars PROVE StartInv'
<1>1. ASSUME NEW w \in Fleet,
             \/ BootWorker(w) \/ Fail(w) \/ CreateAll(w) \/ CheckEmpty(w) \/ Seed(w)
             \/ SyncPolicies(w) \/ ArmFirst(w) \/ LoadClassifier(w) \/ WarmUp(w)
      PROVE  StartInv'
  BY <1>1, BootKeeps, FailKeeps, CreateAllKeeps, CheckEmptyKeeps, SeedKeeps, SyncKeeps,
     ArmFirstKeeps, LoadKeeps
<1>2. CASE RemovePolicy \/ CreatePattern \/ DeletePattern
  BY <1>2, RemovePolicyKeeps, PatternEditKeeps
<1>3. ASSUME NEW r \in Reloads, (\E w \in Fleet : ReloadRead(r, w)) \/ ReloadInstall(r)
      PROVE  StartInv'
  BY <1>3, ReloadReadKeeps, ReloadInstallKeeps
<1>4. ASSUME NEW s \in Scans,
             (\E w \in Fleet : ScanRegex(s, w)) \/ ScanVerdict(s) \/ ScanEnd(s)
      PROVE  StartInv'
  BY <1>4, ScanRegexKeeps, ScanVerdictKeeps, ScanEndKeeps
<1>5. CASE UNCHANGED startVars
  <2>1. UNCHANGED <<policies, patterns, phase, cache, armed, standing, removed, reload, scan>>
    BY <1>5 DEF startVars, rowVars, memory, history
  <2>2. StartTypes' /\ SeedInv'
    BY <2>1 DEF StartInv, StartTypes, SeedInv
  <2>3. PatternInv'
    BY <2>1 DEF StartInv, PatternInv, StandingInUse, RowsHold, SoleIsAlone, Running, ScansJudged,
                ScanJudged, StandingPatternBlocks
  <2> QED BY <2>2, <2>3 DEF StartInv
<1> QED BY <1>1, <1>2, <1>3, <1>4, <1>5 DEF StartNext

\* Any fleet that starts on an empty database, in whatever order its workers
\* fail and seed: while no administrator has deleted a policy, a worker that
\* serves knows every policy of the seed file.
THEOREM ServesSeededAlways == StartSpec => []ServesSeeded
<1>1. StartInit => StartInv
  BY StartEstablishes
<1>2. StartInv /\ [StartNext]_startVars => StartInv'
  BY StartNextKeeps
<1>3. StartInv => ServesSeeded
  BY DEF StartInv, SeedInv, ServesSeeded, AfterSync
<1> QED BY <1>1, <1>2, <1>3, PTL DEF StartSpec

\* However many reloads overlap and patterns change: a blocking pattern that
\* stands blocks every prompt that matches it, and no prompt is blocked that
\* matches nothing.
THEOREM StandingPatternBlocksAlways == StartSpec => []StandingPatternBlocks
<1>1. StartInit => StartInv
  BY StartEstablishes
<1>2. StartInv /\ [StartNext]_startVars => StartInv'
  BY StartNextKeeps
<1>3. StartInv => StandingPatternBlocks
  BY DEF StartInv, PatternInv
<1> QED BY <1>1, <1>2, <1>3, PTL DEF StartSpec

\* What StartTypes leaves out: the counters, and that no worker is ever without a
\* pattern.
StartRest ==
  /\ tables \in BOOLEAN /\ removed \in BOOLEAN /\ model \in [Fleet -> BOOLEAN]
  /\ \A w \in Fleet : armed[w] # {}
  /\ failures \in 0..MaxFailures /\ edits \in 0..MaxEdits

LEMMA CompiledIsNotEmpty ==
  ASSUME NEW rows
  PROVE  Compiled(rows) # {} /\ Static # {}
BY DEF Compiled, Static

LEMMA RestKeeps == ASSUME StartInv, StartRest, [StartNext]_startVars PROVE StartRest'
<1>0. armed \in [Fleet -> SUBSET (Patterns \union Static)] /\ MaxFailures \in Nat /\ MaxEdits \in Nat
  BY StartAssumption DEF StartInv, StartTypes
<1>1. ASSUME NEW w \in Fleet, BootWorker(w) PROVE StartRest'
  BY <1>0, <1>1, CompiledIsNotEmpty DEF BootWorker, StartRest, rowVars, history
<1>2. ASSUME NEW w \in Fleet, Fail(w) PROVE StartRest'
  BY <1>0, <1>2 DEF Fail, StartRest, rowVars
<1>3. ASSUME NEW w \in Fleet, CreateAll(w) \/ CheckEmpty(w) \/ Seed(w) \/ SyncPolicies(w) \/ WarmUp(w)
      PROVE  StartRest'
  BY <1>3 DEF CreateAll, CheckEmpty, Seed, SyncPolicies, WarmUp, StartRest, rowVars, history
<1>4. ASSUME NEW w \in Fleet, ArmFirst(w) PROVE StartRest'
  BY <1>0, <1>4, CompiledIsNotEmpty DEF ArmFirst, StartRest, rowVars
<1>5. ASSUME NEW w \in Fleet, LoadClassifier(w) PROVE StartRest'
  BY <1>5 DEF LoadClassifier, StartRest, rowVars, history
<1>6. CASE RemovePolicy \/ CreatePattern \/ DeletePattern
  <2>1. UNCHANGED <<tables, armed, model, failures>> /\ edits < MaxEdits /\ edits' = edits + 1
    BY <1>6 DEF RemovePolicy, CreatePattern, DeletePattern, memory
  <2>2. removed' \in BOOLEAN
    BY <1>6 DEF RemovePolicy, CreatePattern, DeletePattern, StartRest
  <2>3. edits' \in 0..MaxEdits
    BY <1>0, <2>1 DEF StartRest
  <2> QED BY <2>1, <2>2, <2>3 DEF StartRest
<1>7. ASSUME NEW r \in Reloads, \E w \in Fleet : ReloadRead(r, w) PROVE StartRest'
  BY <1>7 DEF ReloadRead, StartRest, rowVars, memory, history
<1>8. ASSUME NEW r \in Reloads, ReloadInstall(r) PROVE StartRest'
  <2>1. UNCHANGED <<tables, removed, model, failures, edits>>
    BY <1>8 DEF ReloadInstall, rowVars
  <2>2. \/ armed' = [armed EXCEPT ![reload[r].w] = Compiled(reload[r].rows)]
        \/ armed' = armed
    BY <1>8 DEF ReloadInstall
  <2>3. \A w \in Fleet : armed'[w] # {}
    BY <1>0, <2>2, CompiledIsNotEmpty DEF StartRest
  <2> QED BY <2>1, <2>3 DEF StartRest
<1>9. ASSUME NEW s \in Scans,
             (\E w \in Fleet : ScanRegex(s, w)) \/ ScanVerdict(s) \/ ScanEnd(s)
      PROVE  StartRest'
  BY <1>9 DEF ScanRegex, ScanVerdict, ScanEnd, StartRest, rowVars, memory, history
<1>10. CASE UNCHANGED startVars
  BY <1>10 DEF startVars, rowVars, memory, history, StartRest
<1> QED BY <1>1, <1>2, <1>3, <1>4, <1>5, <1>6, <1>7, <1>8, <1>9, <1>10 DEF StartNext

\* Any fleet, whatever fails and is edited: every variable keeps its type, and no
\* worker ever scans with an empty list of patterns (the fallback of
\* reload_patterns).
THEOREM StartTypeCorrect == StartSpec => []StartTypeOK
<1>1. StartInit => StartInv /\ StartRest
  <2>1. StartInit => StartRest
    <3> SUFFICES ASSUME StartInit PROVE StartRest
      OBVIOUS
    <3>1. \A w \in Fleet : armed[w] # {}
      BY DEF StartInit, Static
    <3>2. tables \in BOOLEAN /\ removed \in BOOLEAN /\ model \in [Fleet -> BOOLEAN]
      BY DEF StartInit
    <3>3. failures \in 0..MaxFailures /\ edits \in 0..MaxEdits
      BY StartAssumption DEF StartInit
    <3> QED BY <3>1, <3>2, <3>3 DEF StartRest
  <2> QED BY <2>1, StartEstablishes
<1>2. (StartInv /\ StartRest) /\ [StartNext]_startVars => (StartInv /\ StartRest)'
  BY StartNextKeeps, RestKeeps
<1>3. StartInv /\ StartRest => StartTypeOK
  <2> SUFFICES ASSUME StartInv, StartRest PROVE StartTypeOK
    OBVIOUS
  <2>1. armed \in [Fleet -> (SUBSET (Patterns \union Static)) \ {{}}]
    BY DEF StartInv, StartTypes, StartRest
  <2> QED BY <2>1 DEF StartInv, StartTypes, StartRest, StartTypeOK
<1> QED BY <1>1, <1>2, <1>3, PTL DEF StartSpec

-----------------------------------------------------------------------------
(***************************************************************************)
(* First, PolicySync where the code promises most: one worker under        *)
(* OPA_STRICT_SYNC, one OPA replica that does not restart, and one admin   *)
(* call at a time; for any policies, any number of changes and of requests *)
(* judged beside them, and whatever pushes fail or go unheard.  (With      *)
(* overlapping calls the properties do not hold of the code.)              *)
(*                                                                         *)
(* The three properties follow from where the copies of the policies come  *)
(* from: what a sync carries, what the worker caches and what OPA holds    *)
(* are each a state Postgres was in since the newest one acknowledged      *)
(* (SyncInv, InForce), and so is what an answer of OPA was computed from   *)
(* since the one acknowledged when its request began (AskInv).             *)
(*                                                                         *)
(* Last, what holds with any number of workers, replicas, overlapping      *)
(* calls and restarts: the types, and that a sync nothing disturbed heals. *)
(***************************************************************************)

Serial ==
  /\ Workers # {} /\ \A v, w \in Workers : v = w
  /\ \A s, t \in Syncs : s = t
  /\ \A o, p \in Opas : o = p
  /\ StrictSync = TRUE /\ MaxRestarts = 0

SyncRec == [phase : Phases, worker : Workers, snap : Bundle, read : Nat, lone : BOOLEAN]
AskRec  == [stage : Stages, worker : Workers, blocked : SUBSET Policies, floor : Nat,
            verdict : {"none", "allow", "deny", "error"}]

Types ==
  /\ db \in Bundle
  /\ up \in [Workers -> BOOLEAN]
  /\ local \in [Workers -> Bundle]
  /\ pushed \in [Workers -> Bundle \cup {<<>>}]
  /\ lastOk \in [Workers -> BOOLEAN]
  /\ opa \in [Opas -> Bundle]
  /\ sync \in [Syncs -> SyncRec]
  /\ ask \in [Evals -> AskRec]
  /\ restarts \in Nat
  /\ hist \in Seq(Bundle) /\ Len(hist) \in Nat /\ acked \in Nat

HistInv == 1 <= acked /\ acked <= Len(hist) /\ hist[Len(hist)] = db

\* A state of the policies in Postgres since the newest one acknowledged.
Recent(b) == \E k \in Nat : acked <= k /\ k <= Len(hist) /\ b = hist[k]

SyncInv ==
  \A s \in Syncs :
    /\ sync[s].phase \in {"listed", "pushing", "pushed", "failed"} =>
         /\ acked <= sync[s].read /\ sync[s].read <= Len(hist)
         /\ sync[s].snap = hist[sync[s].read]
    /\ sync[s].phase \in {"pushing", "pushed", "failed"} =>
         \A w \in Workers : local[w] = sync[s].snap
    /\ sync[s].phase = "pushed" => \A o \in Opas : opa[o] = sync[s].snap

\* What OPA has, if the last push succeeded: what it pushed, or what a push that
\* is under way, or failed and is not yet on record, has brought.
HonestInv ==
  \A w \in Workers, o \in Opas : lastOk[w] =>
    \/ opa[o] = pushed[w]
    \/ \E s \in Syncs : sync[s].phase \in {"pushed", "failed"} /\ opa[o] = sync[s].snap

InForce ==
  \A w \in Workers : up[w] => Recent(local[w]) /\ \A o \in Opas : Recent(opa[o])

AskInv ==
  \A e \in Evals :
    /\ ask[e].stage # "idle" => 1 <= ask[e].floor /\ ask[e].floor <= acked
    /\ ask[e].stage \in {"asked", "answered"} => up[ask[e].worker]
    /\ ask[e].stage \in {"idle", "asked", "answered"} => ask[e].verdict = "none"
    /\ ask[e].stage = "answered" =>
         \E k \in Nat : /\ ask[e].floor <= k /\ k <= Len(hist)
                        /\ ask[e].blocked = Blocking(hist[k])

Judged == StandingPolicyEnforced /\ DenialJustified

IInv == Types /\ HistInv /\ SyncInv /\ HonestInv /\ InForce /\ AskInv /\ Judged

-----------------------------------------------------------------------------
LEMMA WindowIs ==
  ASSUME Types, NEW e \in Evals
  PROVE  \A b : b \in Window(e) <=>
           \E k \in Nat : ask[e].floor <= k /\ k <= Len(hist) /\ b = hist[k]
<1>1. ask[e].floor \in Nat /\ Len(hist) \in Nat
  BY DEF Types, AskRec
<1> QED BY <1>1 DEF Window

\* Evaluations do not notice a sync, as long as the history only grows.
LEMMA AsksStay ==
  ASSUME IInv, UNCHANGED ask, hist' \in Seq(Bundle), Len(hist') \in Nat, acked' \in Nat,
         acked <= acked', Len(hist) <= Len(hist'),
         \A k \in Nat : 1 <= k /\ k <= Len(hist) => hist'[k] = hist[k],
         \A w \in Workers : up[w] => up'[w], Types'
  PROVE  AskInv' /\ Judged'
<1>1. \A e \in Evals : ask[e].floor \in Nat /\ ask[e].worker \in Workers
  BY DEF IInv, Types, AskRec
<1>2. Len(hist) \in Nat /\ acked \in Nat
  BY DEF IInv, Types
<1>3. AskInv'
  <2> SUFFICES ASSUME NEW e \in Evals
               PROVE  /\ ask[e].stage # "idle" => 1 <= ask[e].floor /\ ask[e].floor <= acked'
                      /\ ask[e].stage \in {"asked", "answered"} => up'[ask[e].worker]
                      /\ ask[e].stage \in {"idle", "asked", "answered"} => ask[e].verdict = "none"
                      /\ ask[e].stage = "answered" =>
                           \E k \in Nat : /\ ask[e].floor <= k /\ k <= Len(hist')
                                          /\ ask[e].blocked = Blocking(hist'[k])
    BY DEF AskInv, Blocking
  <2>1. ask[e].stage # "idle" => 1 <= ask[e].floor /\ ask[e].floor <= acked'
    BY <1>1, <1>2 DEF IInv, AskInv
  <2>2. ask[e].stage \in {"asked", "answered"} => up'[ask[e].worker]
    BY <1>1 DEF IInv, AskInv
  <2>3. ask[e].stage \in {"idle", "asked", "answered"} => ask[e].verdict = "none"
    BY DEF IInv, AskInv
  <2>4. ASSUME ask[e].stage = "answered"
        PROVE  \E k \in Nat : /\ ask[e].floor <= k /\ k <= Len(hist')
                              /\ ask[e].blocked = Blocking(hist'[k])
    <3>1. PICK k \in Nat : /\ ask[e].floor <= k /\ k <= Len(hist)
                           /\ ask[e].blocked = Blocking(hist[k])
      BY <2>4 DEF IInv, AskInv
    <3>2. 1 <= k /\ k <= Len(hist')
      BY <1>1, <1>2, <2>1, <2>4, <3>1
    <3>3. hist'[k] = hist[k]
      BY <3>1, <3>2
    <3> QED BY <3>1, <3>2, <3>3
  <2> QED BY <2>1, <2>2, <2>3, <2>4
<1>4. ASSUME NEW e \in Evals, ask[e].verdict # "none", NEW b \in Window(e)
      PROVE  b \in Window(e)'
  <2>1. PICK k \in Nat : ask[e].floor <= k /\ k <= Len(hist) /\ b = hist[k]
    BY <1>4, WindowIs DEF IInv
  <2>2. ask[e].stage # "idle"
    BY <1>4 DEF IInv, AskInv
  <2>3. 1 <= k /\ k <= Len(hist')
    BY <1>1, <1>2, <2>1, <2>2 DEF IInv, AskInv
  <2>4. hist'[k] = b
    BY <2>1, <2>3
  <2>5. k \in ask[e].floor .. Len(hist')
    BY <1>1, <2>1, <2>3
  <2> QED BY <2>4, <2>5 DEF Window
<1>5. StandingPolicyEnforced'
  <2> SUFFICES ASSUME NEW e \in Evals, ask[e].verdict = "allow", NEW p \in Policies
               PROVE  \E b \in Window(e)' : b[p] # "block"
    BY DEF StandingPolicyEnforced
  <2>1. PICK b \in Window(e) : b[p] # "block"
    BY DEF IInv, Judged, StandingPolicyEnforced
  <2> QED BY <1>4, <2>1
<1>6. DenialJustified'
  <2> SUFFICES ASSUME NEW e \in Evals, ask[e].verdict = "deny"
               PROVE  \E b \in Window(e)' : Blocking(b) # {}
    BY DEF DenialJustified, Blocking
  <2>1. PICK b \in Window(e) : Blocking(b) # {}
    BY DEF IInv, Judged, DenialJustified
  <2> QED BY <1>4, <2>1
<1> QED BY <1>3, <1>5, <1>6 DEF Judged

LEMMA InitEstablishes == ASSUME Serial, Init PROVE IInv
<1>1. Empty \in Bundle
  BY DEF Empty, Bundle, Effects
<1>2. (CHOOSE w \in Workers : TRUE) \in Workers
  BY DEF Serial
<1>3. NoSync \in SyncRec /\ NoSync.phase = "idle"
  BY <1>1, <1>2 DEF NoSync, SyncRec, Phases
<1>4. NoAsk \in AskRec /\ NoAsk.stage = "idle" /\ NoAsk.verdict = "none"
  BY <1>2 DEF NoAsk, AskRec, Stages
<1>5. hist = <<db>> /\ db \in Bundle /\ acked = 1
  BY DEF Init
<1>6. hist \in Seq(Bundle) /\ Len(hist) = 1 /\ hist[1] = db
  BY <1>5
<1>7. Types
  BY <1>1, <1>3, <1>4, <1>5, <1>6, PolicyAssumption DEF Init, Types
<1>8. HistInv
  BY <1>5, <1>6 DEF HistInv
<1>9. \A s \in Syncs : sync[s].phase = "idle"
  BY <1>3 DEF Init
<1>10. SyncInv
  BY <1>9 DEF SyncInv
<1>11. HonestInv /\ InForce
  BY DEF Init, HonestInv, InForce
<1>12. \A e \in Evals : ask[e].stage = "idle" /\ ask[e].verdict = "none"
  BY <1>4 DEF Init
<1>13. AskInv
  BY <1>12 DEF AskInv
<1>14. Judged
  BY <1>12 DEF Judged, StandingPolicyEnforced, DenialJustified
<1> QED BY <1>7, <1>8, <1>10, <1>11, <1>13, <1>14 DEF IInv

-----------------------------------------------------------------------------
(* Syncs.  There is one, so what it does not change stays. *)

\* A handler starts; an admin's change has been committed by then.
LEMMA StartKeeps ==
  ASSUME Serial, IInv, NEW s \in Syncs, NEW w \in Workers, Start(s, w),
         db' \in Bundle, hist' = Append(hist, db') \/ (hist' = hist /\ db' = db),
         UNCHANGED <<up, local, pushed, lastOk, opa, ask, restarts, acked>>
  PROVE  IInv'
<1>1. hist \in Seq(Bundle) /\ Len(hist) \in Nat /\ acked \in Nat /\ acked >= 1 /\ acked <= Len(hist)
  BY DEF IInv, Types, HistInv
<1>2. /\ hist' \in Seq(Bundle) /\ Len(hist') \in Nat /\ Len(hist) <= Len(hist')
      /\ \A k \in Nat : 1 <= k /\ k <= Len(hist) => hist'[k] = hist[k]
      /\ hist'[Len(hist')] = db'
  <2>1. CASE hist' = Append(hist, db')
    <3>1. Len(hist') = Len(hist) + 1 /\ hist' \in Seq(Bundle)
      BY <1>1, <2>1
    <3>2. hist'[Len(hist) + 1] = db'
      BY <1>1, <2>1
    <3>3. \A k \in Nat : 1 <= k /\ k <= Len(hist) => hist'[k] = hist[k]
      BY <1>1, <2>1
    <3> QED BY <1>1, <3>1, <3>2, <3>3
  <2>2. CASE hist' = hist /\ db' = db
    BY <1>1, <2>2 DEF IInv, HistInv
  <2> QED BY <2>1, <2>2
<1>3. Alone(s) \in BOOLEAN
  BY DEF Alone
<1>4. NoSync \in SyncRec
  <2>1. Empty \in Bundle
    BY DEF Empty, Bundle, Effects
  <2>2. (CHOOSE v \in Workers : TRUE) \in Workers
    BY DEF Serial
  <2> QED BY <2>1, <2>2 DEF NoSync, SyncRec, Phases
<1> DEFINE new == [NoSync EXCEPT !.phase = "listing", !.worker = w, !.lone = Alone(s)]
<1>5. new \in SyncRec /\ new.phase = "listing"
  BY <1>3, <1>4 DEF SyncRec, Phases
<1>6. sync' = [t \in Syncs |-> IF t = s THEN new ELSE [sync[t] EXCEPT !.lone = FALSE]]
  BY DEF Start
<1> HIDE DEF new
<1>7. sync' = [t \in Syncs |-> new]
  BY <1>6 DEF Serial
<1>8. sync' \in [Syncs -> SyncRec] /\ \A t \in Syncs : sync'[t].phase = "listing"
  BY <1>5, <1>7
<1>9. Types'
  BY <1>1, <1>2, <1>8 DEF IInv, Types
<1>10. HistInv'
  BY <1>1, <1>2 DEF HistInv
<1>11. SyncInv'
  BY <1>8 DEF SyncInv
<1>12. HonestInv'
  <2> SUFFICES ASSUME NEW v \in Workers, NEW o \in Opas, lastOk[v]
               PROVE  opa[o] = pushed[v]
    BY DEF HonestInv
  <2>1. sync[s].phase = "idle" /\ \A t \in Syncs : t = s
    BY DEF Start, Serial
  <2>2. \A t \in Syncs : sync[t].phase \notin {"pushed", "failed"}
    BY <2>1
  <2> QED BY <2>2 DEF IInv, HonestInv
<1>13. ASSUME NEW b, Recent(b) PROVE Recent(b)'
  <2>1. PICK k \in Nat : acked <= k /\ k <= Len(hist) /\ b = hist[k]
    BY <1>13 DEF Recent
  <2>2. 1 <= k /\ k <= Len(hist') /\ hist'[k] = hist[k]
    BY <1>1, <1>2, <2>1
  <2> QED BY <2>1, <2>2 DEF Recent
<1>14. InForce'
  <2> SUFFICES ASSUME NEW v \in Workers, up[v]
               PROVE  Recent(local[v])' /\ \A o \in Opas : Recent(opa[o])'
    BY DEF InForce
  <2>1. Recent(local[v]) /\ \A o \in Opas : Recent(opa[o])
    BY DEF IInv, InForce
  <2> QED BY <1>13, <2>1 DEF Recent
<1>15. AskInv' /\ Judged'
  BY <1>1, <1>2, <1>9, AsksStay
<1> QED BY <1>9, <1>10, <1>11, <1>12, <1>14, <1>15 DEF IInv

LEMMA ListKeeps == ASSUME Serial, IInv, NEW s \in Syncs, List(s) PROVE IInv'
<1>1. /\ sync[s].phase = "listing"
      /\ UNCHANGED <<db, up, local, pushed, lastOk, opa, ask, restarts, hist, acked>>
      /\ \/ sync' = [sync EXCEPT ![s].phase = "listed", ![s].snap = db, ![s].read = Len(hist)]
         \/ sync' = [sync EXCEPT ![s].phase = "idle"]
  BY DEF List
<1>2. hist \in Seq(Bundle) /\ Len(hist) \in Nat /\ acked \in Nat /\ db \in Bundle /\ sync \in [Syncs -> SyncRec]
  BY DEF IInv, Types
<1>3. /\ sync' \in [Syncs -> SyncRec] /\ sync'[s].phase \in {"idle", "listed"}
      /\ sync'[s].phase = "listed" => sync'[s].snap = db /\ sync'[s].read = Len(hist)
  <2>1. CASE sync' = [sync EXCEPT ![s].phase = "listed", ![s].snap = db, ![s].read = Len(hist)]
    <3> DEFINE rec == [sync[s] EXCEPT !.phase = "listed", !.snap = db, !.read = Len(hist)]
    <3>1. sync[s] \in SyncRec
      BY <1>2
    <3>2. rec \in SyncRec /\ rec.phase = "listed" /\ rec.snap = db /\ rec.read = Len(hist)
      BY <1>2, <3>1 DEF SyncRec, Phases
    <3>3. sync' = [sync EXCEPT ![s] = rec]
      BY <1>2, <2>1
    <3> HIDE DEF rec
    <3> QED BY <1>2, <3>2, <3>3
  <2>2. CASE sync' = [sync EXCEPT ![s].phase = "idle"]
    BY <1>2, <2>2 DEF SyncRec, Phases
  <2> QED BY <1>1, <2>1, <2>2
<1>4. \A t \in Syncs : t = s
  BY DEF Serial
<1>5. Types'
  BY <1>1, <1>3 DEF IInv, Types
<1>6. HistInv' /\ InForce'
  BY <1>1 DEF IInv, HistInv, InForce, Recent
<1>7. SyncInv'
  BY <1>1, <1>2, <1>3, <1>4 DEF IInv, HistInv, SyncInv
<1>8. HonestInv'
  BY <1>1, <1>4 DEF IInv, HonestInv
<1>9. AskInv' /\ Judged'
  BY <1>1, <1>2, <1>5, AsksStay
<1> QED BY <1>5, <1>6, <1>7, <1>8, <1>9 DEF IInv

LEMMA InstallKeeps == ASSUME Serial, IInv, NEW s \in Syncs, Install(s) PROVE IInv'
<1>1. /\ sync[s].phase = "listed" /\ local' = [local EXCEPT ![sync[s].worker] = sync[s].snap]
      /\ sync' = [sync EXCEPT ![s].phase = "pushing"]
      /\ UNCHANGED <<db, up, pushed, lastOk, opa, ask, restarts, hist, acked>>
  BY DEF Install
<1>2. sync[s] \in SyncRec /\ sync \in [Syncs -> SyncRec] /\ hist \in Seq(Bundle) /\ Len(hist) \in Nat
      /\ acked \in Nat
  BY DEF IInv, Types
<1>3. sync[s].worker \in Workers /\ sync[s].snap \in Bundle /\ sync[s].read \in Nat
  BY <1>2 DEF SyncRec
<1>4. /\ sync' \in [Syncs -> SyncRec] /\ sync'[s].phase = "pushing"
      /\ sync'[s].snap = sync[s].snap /\ sync'[s].read = sync[s].read
  BY <1>1, <1>2 DEF SyncRec, Phases
<1>5. \A t \in Syncs : t = s
  BY DEF Serial
<1>6. local' \in [Workers -> Bundle] /\ \A w \in Workers : local'[w] = sync[s].snap
  BY <1>1, <1>3 DEF IInv, Types, Serial
<1>7. /\ acked <= sync[s].read /\ sync[s].read <= Len(hist)
      /\ sync[s].snap = hist[sync[s].read]
  BY <1>1 DEF IInv, SyncInv
<1>8. Types'
  BY <1>1, <1>4, <1>6 DEF IInv, Types
<1>9. HistInv'
  BY <1>1 DEF IInv, HistInv
<1>10. SyncInv'
  BY <1>1, <1>4, <1>5, <1>6, <1>7 DEF SyncInv
<1>11. HonestInv'
  BY <1>1, <1>5 DEF IInv, HonestInv
<1>12. InForce'
  <2>1. Recent(sync[s].snap)
    BY <1>3, <1>7 DEF Recent
  <2> QED BY <1>1, <1>6, <2>1 DEF IInv, InForce, Recent
<1>13. AskInv' /\ Judged'
  BY <1>1, <1>2, <1>8, AsksStay
<1> QED BY <1>8, <1>9, <1>10, <1>11, <1>12, <1>13 DEF IInv

LEMMA PushKeeps == ASSUME Serial, IInv, NEW s \in Syncs, Push(s) PROVE IInv'
<1>1. /\ sync[s].phase = "pushing"
      /\ UNCHANGED <<db, up, local, pushed, lastOk, ask, restarts, hist, acked>>
  BY DEF Push
<1>2. sync[s] \in SyncRec /\ sync \in [Syncs -> SyncRec] /\ hist \in Seq(Bundle) /\ Len(hist) \in Nat
      /\ acked \in Nat /\ opa \in [Opas -> Bundle]
  BY DEF IInv, Types
<1>3. sync[s].snap \in Bundle /\ sync[s].read \in Nat
  BY <1>2 DEF SyncRec
<1>4. \A t \in Syncs : t = s
  BY DEF Serial
<1>5. /\ sync' \in [Syncs -> SyncRec] /\ sync'[s].phase \in {"pushed", "failed"}
      /\ sync'[s].snap = sync[s].snap /\ sync'[s].read = sync[s].read
      /\ opa' \in [Opas -> Bundle]
      /\ \/ \A o \in Opas : opa'[o] = sync[s].snap
         \/ opa' = opa /\ sync'[s].phase = "failed"
  <2>1. CASE /\ \E o \in Opas : opa' = [opa EXCEPT ![o] = sync[s].snap]
             /\ \E f \in {"pushed", "failed"} : sync' = [sync EXCEPT ![s].phase = f]
    <3>1. /\ sync' \in [Syncs -> SyncRec] /\ sync'[s].phase \in {"pushed", "failed"}
          /\ sync'[s].snap = sync[s].snap /\ sync'[s].read = sync[s].read
      <4>1. PICK f \in {"pushed", "failed"} : sync' = [sync EXCEPT ![s].phase = f]
        BY <2>1
      <4>2. f \in Phases /\ [sync[s] EXCEPT !.phase = f] \in SyncRec
        BY <1>2, <4>1 DEF SyncRec, Phases
      <4>3. sync'[s] = [sync[s] EXCEPT !.phase = f]
        BY <1>2, <4>1
      <4>4. sync' \in [Syncs -> SyncRec]
        BY <1>2, <4>1, <4>2
      <4> QED BY <1>2, <4>1, <4>3, <4>4 DEF SyncRec
    <3>2. opa' \in [Opas -> Bundle] /\ \A o \in Opas : opa'[o] = sync[s].snap
      BY <1>2, <1>3, <2>1 DEF Serial
    <3> QED BY <3>1, <3>2
  <2>2. CASE UNCHANGED opa /\ sync' = [sync EXCEPT ![s].phase = "failed"]
    BY <1>2, <2>2 DEF SyncRec, Phases
  <2> QED BY <2>1, <2>2 DEF Push
<1>6. /\ acked <= sync[s].read /\ sync[s].read <= Len(hist)
      /\ sync[s].snap = hist[sync[s].read] /\ \A w \in Workers : local[w] = sync[s].snap
  BY <1>1 DEF IInv, SyncInv
<1>7. Types'
  BY <1>1, <1>5 DEF IInv, Types
<1>8. HistInv'
  BY <1>1 DEF IInv, HistInv
<1>9. SyncInv'
  BY <1>1, <1>4, <1>5, <1>6 DEF SyncInv
<1>10. HonestInv'
  <2> SUFFICES ASSUME NEW w \in Workers, NEW o \in Opas, lastOk[w]
               PROVE  \/ opa'[o] = pushed[w]
                      \/ \E t \in Syncs : sync'[t].phase \in {"pushed", "failed"} /\ opa'[o] = sync'[t].snap
    BY <1>1 DEF HonestInv
  <2>1. opa[o] = pushed[w]
    BY <1>1, <1>4 DEF IInv, HonestInv
  <2> QED BY <1>5, <2>1
<1>11. InForce'
  <2>1. Recent(sync[s].snap)
    BY <1>3, <1>6 DEF Recent
  <2> QED BY <1>1, <1>5, <2>1 DEF IInv, InForce, Recent
<1>12. AskInv' /\ Judged'
  BY <1>1, <1>2, <1>7, AsksStay
<1> QED BY <1>7, <1>8, <1>9, <1>10, <1>11, <1>12 DEF IInv

LEMMA FinishKeeps == ASSUME Serial, IInv, NEW s \in Syncs, Finish(s) PROVE IInv'
<1> DEFINE w == sync[s].worker
<1> DEFINE ok == sync[s].phase = "pushed"
<1>1. /\ sync[s].phase \in {"pushed", "failed"}
      /\ pushed' = IF ok THEN [pushed EXCEPT ![w] = local[w]] ELSE pushed
      /\ lastOk' = [lastOk EXCEPT ![w] = ok]
      /\ acked' = IF ok /\ sync[s].read > acked THEN sync[s].read ELSE acked
      /\ up' = [up EXCEPT ![w] = @ \/ ok \/ ~StrictSync]
      /\ sync' = [sync EXCEPT ![s].phase = "idle"]
      /\ UNCHANGED <<db, local, opa, ask, restarts, hist>>
  BY DEF Finish
<1>2. sync[s] \in SyncRec /\ sync \in [Syncs -> SyncRec] /\ hist \in Seq(Bundle) /\ Len(hist) \in Nat
      /\ acked \in Nat /\ opa \in [Opas -> Bundle] /\ local \in [Workers -> Bundle]
      /\ pushed \in [Workers -> Bundle \cup {<<>>}]
      /\ up \in [Workers -> BOOLEAN] /\ lastOk \in [Workers -> BOOLEAN]
  BY DEF IInv, Types
<1>3. w \in Workers /\ sync[s].snap \in Bundle /\ sync[s].read \in Nat /\ ok \in BOOLEAN
  BY <1>2 DEF SyncRec
<1>4. (\A t \in Syncs : t = s) /\ (\A v \in Workers : v = w)
  BY <1>3 DEF Serial
<1>5. /\ acked <= sync[s].read /\ sync[s].read <= Len(hist)
      /\ sync[s].snap = hist[sync[s].read] /\ \A v \in Workers : local[v] = sync[s].snap
      /\ ok => \A o \in Opas : opa[o] = sync[s].snap
  BY <1>1 DEF IInv, SyncInv
<1>6. sync' \in [Syncs -> SyncRec] /\ sync'[s].phase = "idle"
  BY <1>1, <1>2 DEF SyncRec, Phases
<1>7. /\ ok => acked' = sync[s].read
      /\ ~ok => acked' = acked
      /\ acked' \in Nat /\ acked <= acked' /\ acked' <= Len(hist)
  BY <1>1, <1>2, <1>3, <1>5 DEF IInv, HistInv
<1>8. /\ up' \in [Workers -> BOOLEAN] /\ lastOk' \in [Workers -> BOOLEAN]
      /\ \A v \in Workers : /\ up[v] => up'[v]
                            /\ up'[v] => up[v] \/ ok
                            /\ lastOk'[v] <=> ok
  <2>1. up' = [up EXCEPT ![w] = up[w] \/ ok] /\ lastOk' = [lastOk EXCEPT ![w] = ok]
    BY <1>1, <1>2, <1>3 DEF Serial
  <2> HIDE DEF ok, w
  <2> QED BY <1>2, <1>3, <1>4, <2>1
<1>9. /\ pushed' \in [Workers -> Bundle \cup {<<>>}]
      /\ ok => \A v \in Workers : pushed'[v] = local[v]
  BY <1>1, <1>2, <1>3, <1>4
<1> HIDE DEF ok, w
<1>10. Types'
  BY <1>1, <1>6, <1>7, <1>8, <1>9 DEF IInv, Types
<1>11. HistInv'
  BY <1>1, <1>2, <1>7 DEF IInv, HistInv
<1>12. SyncInv'
  BY <1>4, <1>6 DEF SyncInv
<1>13. HonestInv'
  BY <1>1, <1>5, <1>8, <1>9 DEF HonestInv
<1>14. InForce'
  <2>1. CASE ok
    <3>1. sync[s].read \in Nat /\ acked' <= sync[s].read /\ sync[s].read <= Len(hist)
      BY <1>3, <1>5, <1>7, <2>1
    <3> QED BY <1>1, <1>5, <2>1, <3>1 DEF InForce, Recent
  <2>2. CASE ~ok
    BY <1>1, <1>7, <1>8, <2>2 DEF IInv, InForce, Recent
  <2> QED BY <2>1, <2>2
<1>15. AskInv' /\ Judged'
  BY <1>1, <1>2, <1>7, <1>8, <1>10, AsksStay
<1> QED BY <1>10, <1>11, <1>12, <1>13, <1>14, <1>15 DEF IInv

-----------------------------------------------------------------------------
(* Evaluations. *)

\* A step of one evaluation, which leaves the rest as it is.
LEMMA AskKeeps ==
  ASSUME Serial, IInv, NEW e \in Evals, NEW x \in AskRec, ask' = [ask EXCEPT ![e] = x],
         UNCHANGED <<db, up, local, pushed, lastOk, opa, sync, restarts, hist, acked>>,
         x.stage # "idle" /\ 1 <= x.floor /\ x.floor <= acked,
         x.stage \in {"asked", "answered"} => up[x.worker] /\ x.verdict = "none",
         x.stage = "answered" =>
           \E k \in Nat : x.floor <= k /\ k <= Len(hist) /\ x.blocked = Blocking(hist[k]),
         x.verdict = "allow" => \A p \in Policies : \E k \in Nat :
           x.floor <= k /\ k <= Len(hist) /\ hist[k][p] # "block",
         x.verdict = "deny" => \E k \in Nat :
           x.floor <= k /\ k <= Len(hist) /\ Blocking(hist[k]) # {}
  PROVE  IInv'
<1>1. /\ ask' \in [Evals -> AskRec] /\ ask'[e] = x
      /\ \A f \in Evals \ {e} : ask'[f] = ask[f]
  BY DEF IInv, Types
<1>2. Types'
  BY <1>1 DEF IInv, Types
<1>3. HistInv' /\ SyncInv' /\ HonestInv' /\ InForce'
  BY DEF IInv, HistInv, SyncInv, HonestInv, InForce, Recent
<1>4. AskInv'
  BY <1>1 DEF IInv, AskInv, Blocking
<1>5. \A f \in Evals \ {e} : Window(f)' = Window(f)
  BY <1>1 DEF Window
<1>6. \A k \in Nat : x.floor <= k /\ k <= Len(hist) => hist[k] \in Window(e)'
  <2>1. x.floor \in Nat /\ Len(hist) \in Nat
    BY DEF AskRec, IInv, Types
  <2> QED BY <1>1, <2>1 DEF Window
<1>7. StandingPolicyEnforced'
  <2> SUFFICES ASSUME NEW f \in Evals, ask'[f].verdict = "allow", NEW p \in Policies
               PROVE  \E b \in Window(f)' : b[p] # "block"
    BY DEF StandingPolicyEnforced
  <2>1. CASE f = e
    BY <1>1, <1>6, <2>1
  <2>2. CASE f # e
    BY <1>1, <1>5, <2>2 DEF IInv, Judged, StandingPolicyEnforced
  <2> QED BY <2>1, <2>2
<1>8. DenialJustified'
  <2> SUFFICES ASSUME NEW f \in Evals, ask'[f].verdict = "deny"
               PROVE  \E b \in Window(f)' : Blocking(b) # {}
    BY DEF DenialJustified, Blocking
  <2>1. CASE f = e
    BY <1>1, <1>6, <2>1
  <2>2. CASE f # e
    BY <1>1, <1>5, <2>2 DEF IInv, Judged, DenialJustified
  <2> QED BY <2>1, <2>2
<1> QED BY <1>2, <1>3, <1>4, <1>7, <1>8 DEF IInv, Judged

LEMMA BeginKeeps ==
  ASSUME Serial, IInv, NEW e \in Evals, NEW w \in Workers, Ask(e, w)
  PROVE  IInv'
<1> DEFINE error == [NoAsk EXCEPT !.stage = "done", !.worker = w, !.floor = acked, !.verdict = "error"]
<1> DEFINE asked == [NoAsk EXCEPT !.stage = "asked", !.worker = w, !.floor = acked]
<1>1. acked \in Nat /\ 1 <= acked
  BY DEF IInv, Types, HistInv
<1>2. NoAsk \in AskRec /\ NoAsk.verdict = "none"
  <2>1. (CHOOSE v \in Workers : TRUE) \in Workers
    BY DEF Serial
  <2> QED BY <2>1 DEF NoAsk, AskRec, Stages
<1>3. error \in AskRec /\ error.stage = "done" /\ error.floor = acked /\ error.verdict = "error"
  BY <1>1, <1>2 DEF AskRec, Stages
<1>4. /\ asked \in AskRec /\ asked.stage = "asked" /\ asked.floor = acked
      /\ asked.worker = w /\ asked.verdict = "none"
  BY <1>1, <1>2 DEF AskRec, Stages
<1>5. /\ up[w] /\ UNCHANGED <<db, up, local, pushed, lastOk, opa, sync, restarts, hist, acked>>
      /\ ask' = [ask EXCEPT ![e] = error] \/ ask' = [ask EXCEPT ![e] = asked]
  BY DEF Ask
<1> HIDE DEF error, asked
<1>6. CASE ask' = [ask EXCEPT ![e] = error]
  <2>1. /\ error.stage # "idle" /\ error.stage \notin {"asked", "answered"}
        /\ 1 <= error.floor /\ error.floor <= acked
        /\ error.verdict # "allow" /\ error.verdict # "deny"
    BY <1>1, <1>3
  <2> QED BY <1>3, <1>5, <1>6, <2>1, AskKeeps
<1>7. CASE ask' = [ask EXCEPT ![e] = asked]
  <2>1. /\ asked.stage # "idle" /\ asked.stage # "answered"
        /\ 1 <= asked.floor /\ asked.floor <= acked
        /\ up[asked.worker] /\ asked.verdict # "allow" /\ asked.verdict # "deny"
    BY <1>1, <1>4, <1>5
  <2> QED BY <1>4, <1>5, <1>7, <2>1, AskKeeps
<1> QED BY <1>5, <1>6, <1>7

LEMMA AnswerKeeps == ASSUME Serial, IInv, NEW e \in Evals, Answer(e) PROVE IInv'
<1>1. PICK o \in Opas : ask' = [ask EXCEPT ![e].stage = "answered", ![e].blocked = Blocking(opa[o])]
  BY DEF Answer
<1> DEFINE x == [ask[e] EXCEPT !.stage = "answered", !.blocked = Blocking(opa[o])]
<1>2. /\ ask[e].stage = "asked"
      /\ UNCHANGED <<db, up, local, pushed, lastOk, opa, sync, restarts, hist, acked>>
  BY DEF Answer
<1>3. ask[e] \in AskRec /\ Blocking(opa[o]) \in SUBSET Policies
  BY DEF IInv, Types, Blocking
<1>4. ask' = [ask EXCEPT ![e] = x]
  BY <1>1
<1>5. /\ x \in AskRec /\ x.stage = "answered" /\ x.blocked = Blocking(opa[o])
      /\ x.worker = ask[e].worker /\ x.floor = ask[e].floor /\ x.verdict = ask[e].verdict
  BY <1>3 DEF AskRec, Stages
<1> HIDE DEF x
<1>6. /\ 1 <= ask[e].floor /\ ask[e].floor <= acked
      /\ up[ask[e].worker] /\ ask[e].verdict = "none"
  BY <1>2 DEF IInv, AskInv
<1>7. ask[e].worker \in Workers /\ ask[e].floor \in Nat /\ acked \in Nat
  BY <1>3 DEF AskRec, IInv, Types
<1>8. PICK k \in Nat : acked <= k /\ k <= Len(hist) /\ opa[o] = hist[k]
  BY <1>6, <1>7 DEF IInv, InForce, Recent
<1>9. ask[e].floor <= k
  BY <1>6, <1>7, <1>8
<1> QED BY <1>2, <1>4, <1>5, <1>6, <1>8, <1>9, AskKeeps

\* A verdict, with what makes it right.
LEMMA DecidedKeeps ==
  ASSUME Serial, IInv, NEW e \in Evals, NEW v \in {"allow", "deny", "error"}, Decided(e, v),
         ask[e].stage # "idle",
         UNCHANGED <<db, up, local, pushed, lastOk, opa, sync, restarts, hist, acked>>,
         v = "allow" => \A p \in Policies : \E k \in Nat :
           ask[e].floor <= k /\ k <= Len(hist) /\ hist[k][p] # "block",
         v = "deny" => \E k \in Nat :
           ask[e].floor <= k /\ k <= Len(hist) /\ Blocking(hist[k]) # {}
  PROVE  IInv'
<1> DEFINE x == [ask[e] EXCEPT !.stage = "done", !.verdict = v]
<1>1. ask[e] \in AskRec
  BY DEF IInv, Types
<1>2. ask' = [ask EXCEPT ![e] = x]
  BY DEF Decided
<1>3. x \in AskRec /\ x.stage = "done" /\ x.floor = ask[e].floor /\ x.verdict = v
  BY <1>1 DEF AskRec, Stages
<1> HIDE DEF x
<1>4. 1 <= ask[e].floor /\ ask[e].floor <= acked
  BY DEF IInv, AskInv
<1> QED BY <1>2, <1>3, <1>4, AskKeeps

\* The cache of the worker a request is judged by, in the request's window.
LEMMA CacheInWindow ==
  ASSUME IInv, NEW e \in Evals, ask[e].stage \in {"asked", "answered"}
  PROVE  /\ local[ask[e].worker] \in Bundle
         /\ \E k \in Nat : ask[e].floor <= k /\ k <= Len(hist) /\ local[ask[e].worker] = hist[k]
<1>1. ask[e] \in AskRec /\ acked \in Nat
  BY DEF IInv, Types
<1>2. ask[e].worker \in Workers /\ ask[e].floor \in Nat
  BY <1>1 DEF AskRec
<1>3. up[ask[e].worker] /\ ask[e].floor <= acked
  BY DEF IInv, AskInv
<1>4. PICK k \in Nat : acked <= k /\ k <= Len(hist) /\ local[ask[e].worker] = hist[k]
  BY <1>2, <1>3 DEF IInv, InForce, Recent
<1>5. ask[e].floor <= k
  BY <1>1, <1>2, <1>3, <1>4
<1> QED BY <1>2, <1>4, <1>5 DEF IInv, Types

LEMMA DecideKeeps == ASSUME Serial, IInv, NEW e \in Evals, Decide(e) PROVE IInv'
<1> DEFINE known == local[ask[e].worker]
<1> DEFINE v == IF ask[e].blocked \cap Known(known) # {} THEN "deny" ELSE "allow"
<1>1. /\ ask[e].stage = "answered" /\ Decided(e, v)
      /\ UNCHANGED <<db, up, local, pushed, lastOk, opa, sync, restarts, hist, acked>>
  BY DEF Decide
<1>2. PICK k \in Nat : ask[e].floor <= k /\ k <= Len(hist) /\ ask[e].blocked = Blocking(hist[k])
  BY <1>1 DEF IInv, AskInv
<1>3. PICK j \in Nat : ask[e].floor <= j /\ j <= Len(hist) /\ known = hist[j]
  BY <1>1, CacheInWindow
<1>4. v \in {"allow", "deny", "error"}
  OBVIOUS
<1>5. ASSUME v = "allow", NEW p \in Policies
      PROVE  \E i \in Nat : ask[e].floor <= i /\ i <= Len(hist) /\ hist[i][p] # "block"
  <2>1. p \notin ask[e].blocked \/ p \notin Known(known)
    BY <1>5
  <2>2. CASE p \notin ask[e].blocked
    BY <1>2, <2>2 DEF Blocking
  <2>3. CASE p \notin Known(known)
    BY <1>3, <2>3 DEF Known
  <2> QED BY <2>1, <2>2, <2>3
<1>6. v = "deny" => Blocking(hist[k]) # {}
  BY <1>2
<1> HIDE DEF v
<1> QED BY <1>1, <1>2, <1>4, <1>5, <1>6, DecidedKeeps

LEMMA FallBackKeeps == ASSUME Serial, IInv, NEW e \in Evals, FallBack(e) PROVE IInv'
<1> DEFINE known == local[ask[e].worker]
<1> DEFINE v == IF ~LocalFallback THEN "error"
                ELSE IF Blocking(known) # {} THEN "deny" ELSE "allow"
<1>1. /\ ask[e].stage = "asked" /\ Decided(e, v)
      /\ UNCHANGED <<db, up, local, pushed, lastOk, opa, sync, restarts, hist, acked>>
  BY DEF FallBack
<1>2. PICK j \in Nat : ask[e].floor <= j /\ j <= Len(hist) /\ known = hist[j]
  BY <1>1, CacheInWindow
<1>3. v \in {"allow", "deny", "error"}
  OBVIOUS
<1>4. v = "allow" => \A p \in Policies : hist[j][p] # "block"
  BY <1>2 DEF Blocking
<1>5. v = "deny" => Blocking(hist[j]) # {}
  BY <1>2
<1> HIDE DEF v
<1> QED BY <1>1, <1>2, <1>3, <1>4, <1>5, DecidedKeeps

LEMMA MalformedKeeps == ASSUME Serial, IInv, NEW e \in Evals, Malformed(e) PROVE IInv'
BY DecidedKeeps DEF Malformed

-----------------------------------------------------------------------------
LEMMA NextKeeps == ASSUME Serial, IInv, [Next]_vars PROVE IInv'
<1>1. ASSUME NEW s \in Syncs, NEW w \in Workers, Boot(s, w) \/ Reload(s, w)
      PROVE  IInv'
  <2>1. /\ Start(s, w) /\ hist' = hist /\ db' = db /\ db \in Bundle
        /\ UNCHANGED <<up, local, pushed, lastOk, opa, ask, restarts, acked>>
    BY <1>1 DEF Boot, Reload, IInv, Types
  <2> QED BY <2>1, StartKeeps
<1>2. ASSUME NEW s \in Syncs, NEW w \in Workers, NEW p \in Policies, ChangePolicy(s, w, p)
      PROVE  IInv'
  <2>1. /\ Start(s, w) /\ hist' = Append(hist, db')
        /\ UNCHANGED <<up, local, pushed, lastOk, opa, ask, restarts, acked>>
    BY <1>2 DEF ChangePolicy
  <2>2. db' \in Bundle
    BY <1>2 DEF ChangePolicy, Bundle, IInv, Types
  <2> QED BY <2>1, <2>2, StartKeeps
<1>3. ASSUME NEW s \in Syncs, List(s) \/ Install(s) \/ Push(s) \/ Finish(s)
      PROVE  IInv'
  BY <1>3, ListKeeps, InstallKeeps, PushKeeps, FinishKeeps
<1>4. ASSUME NEW e \in Evals,
             \/ \E w \in Workers : Ask(e, w)
             \/ Answer(e) \/ Decide(e) \/ FallBack(e) \/ Malformed(e)
      PROVE  IInv'
  BY <1>4, BeginKeeps, AnswerKeeps, DecideKeeps, FallBackKeeps, MalformedKeeps
<1>5. CASE (\E o \in Opas : RestartOpa(o)) \/ (\E w \in Workers : RestartWorker(w))
  <2>1. restarts < MaxRestarts /\ restarts \in Nat /\ MaxRestarts = 0
    BY <1>5 DEF RestartOpa, RestartWorker, IInv, Types, Serial
  <2> QED BY <2>1
<1>6. CASE UNCHANGED vars
  <2>1. Types' /\ HistInv' /\ SyncInv' /\ HonestInv' /\ InForce'
    BY <1>6 DEF vars, IInv, Types, HistInv, SyncInv, HonestInv, InForce, Recent
  <2>2. AskInv' /\ Judged'
    BY <1>6 DEF vars, IInv, AskInv, Judged, StandingPolicyEnforced, DenialJustified, Window, Blocking
  <2> QED BY <2>1, <2>2 DEF IInv
<1> QED BY <1>1, <1>2, <1>3, <1>4, <1>5, <1>6 DEF Next

\* What the worker has is what OPA has, when it says so.
LEMMA HonestFollows == ASSUME Serial, IInv PROVE InSyncHonest
<1> SUFFICES ASSUME NEW w \in Workers, NEW o \in Opas, lastOk[w], local[w] = pushed[w]
             PROVE  opa[o] = local[w]
  BY DEF InSyncHonest, InSync
<1>1. CASE opa[o] = pushed[w]
  BY <1>1
<1>2. CASE \E s \in Syncs : sync[s].phase \in {"pushed", "failed"} /\ opa[o] = sync[s].snap
  BY <1>2 DEF IInv, SyncInv
<1> QED BY <1>1, <1>2 DEF IInv, HonestInv

-----------------------------------------------------------------------------
\* For any policies, changes and evaluations: a blocking policy that was put in
\* force before an evaluation began, and not touched since, is enforced.
THEOREM StandingPolicyAlways == ASSUME Serial PROVE Spec => []StandingPolicyEnforced
<1>1. Init => IInv
  BY InitEstablishes
<1>2. IInv /\ [Next]_vars => IInv'
  BY NextKeeps
<1>3. IInv => StandingPolicyEnforced
  BY DEF IInv, Judged
<1> QED BY <1>1, <1>2, <1>3, PTL DEF Spec

\* No request is denied by OPA or by the fallback without a policy that blocked
\* it at some time since the last acknowledged sync before it.
THEOREM DenialJustifiedAlways == ASSUME Serial PROVE Spec => []DenialJustified
<1>1. Init => IInv
  BY InitEstablishes
<1>2. IInv /\ [Next]_vars => IInv'
  BY NextKeeps
<1>3. IInv => DenialJustified
  BY DEF IInv, Judged
<1> QED BY <1>1, <1>2, <1>3, PTL DEF Spec

\* in_sync is never reported of an OPA that holds other policies than the worker,
\* as long as OPA does not restart: not after a failed push, nor after one that
\* was applied and went unheard.
THEOREM InSyncHonestAlways == ASSUME Serial PROVE Spec => []InSyncHonest
<1>1. Init => IInv
  BY InitEstablishes
<1>2. IInv /\ [Next]_vars => IInv'
  BY NextKeeps
<1>3. Serial /\ IInv => InSyncHonest
  BY HonestFollows
<1> QED BY <1>1, <1>2, <1>3, PTL DEF Spec

-----------------------------------------------------------------------------
(* Any number of workers, OPA replicas, overlapping calls and restarts, and *)
(* either setting of every switch: the types, and what a lone sync achieves. *)

\* A sync reads the history as it is, never ahead of it.
ReadsThePast == \A s \in Syncs : sync[s].read <= Len(hist)

\* What holds step by step of a sync under way that nothing has disturbed: it is
\* the only one, and so what it read is still what Postgres holds.
LoneInv ==
  \A s \in Syncs : sync[s].lone /\ sync[s].phase # "idle" =>
    /\ Alone(s)
    /\ sync[s].phase \in {"listed", "pushing", "pushed"} => sync[s].snap = db
    /\ sync[s].phase \in {"pushing", "pushed"} => local[sync[s].worker] = db
    /\ sync[s].phase = "pushed" => \E o \in Opas : opa[o] = db

FleetInv == TypeOK /\ ReadsThePast /\ LoneInv

FleetSync == [phase : Phases, worker : Workers, snap : Bundle,
              read : 1 .. MaxChanges + 1, lone : BOOLEAN]
FleetAsk  == [stage : Stages, worker : Workers, blocked : SUBSET Policies,
              floor : 1 .. MaxChanges + 1, verdict : {"none", "allow", "deny", "error"}]

LEMMA RestingValues ==
  /\ Empty \in Bundle
  /\ NoSync \in FleetSync /\ NoSync.phase = "idle" /\ ~NoSync.lone /\ NoSync.read = 1
  /\ NoAsk \in FleetAsk
<1>1. Empty \in Bundle
  BY DEF Empty, Bundle, Effects
<1>2. (CHOOSE w \in Workers : TRUE) \in Workers
  BY PolicyAssumption
<1>3. 1 \in 1 .. MaxChanges + 1
  BY PolicyAssumption
<1> QED BY <1>1, <1>2, <1>3 DEF NoSync, NoAsk, FleetSync, FleetAsk, Phases, Stages

LEMMA FleetInit == Init => FleetInv
<1> SUFFICES ASSUME Init PROVE FleetInv
  OBVIOUS
<1>1. hist = <<db>> /\ db \in Bundle /\ acked = 1
  BY DEF Init
<1>2. hist \in Seq(Bundle) /\ Len(hist) = 1
  BY <1>1
<1>3. \A s \in Syncs : sync[s] = NoSync
  BY DEF Init
<1>4. 1 \in 1 .. MaxChanges + 1 /\ 0 \in 0 .. MaxRestarts
  BY PolicyAssumption
<1>5. TypeOK
  BY <1>1, <1>2, <1>4, RestingValues, PolicyAssumption
  DEF Init, TypeOK, FleetSync, FleetAsk
<1>6. ReadsThePast
  BY <1>2, <1>3, RestingValues DEF ReadsThePast
<1>7. LoneInv
  BY <1>3, RestingValues DEF LoneInv
<1> QED BY <1>5, <1>6, <1>7 DEF FleetInv

\* A sync begins, perhaps with a change: if any other is under way, none is lone.
LEMMA FleetStart ==
  ASSUME FleetInv, NEW s \in Syncs, NEW w \in Workers, Start(s, w),
         db' \in Bundle,
         \/ hist' = Append(hist, db') /\ Len(hist) <= MaxChanges
         \/ hist' = hist /\ db' = db,
         UNCHANGED <<up, local, pushed, lastOk, opa, ask, restarts, acked>>
  PROVE  FleetInv'
<1>1. /\ hist \in Seq(Bundle) /\ Len(hist) \in 1 .. MaxChanges + 1 /\ acked \in 1 .. Len(hist)
      /\ sync \in [Syncs -> FleetSync]
  BY DEF FleetInv, TypeOK, FleetSync
<1>2. hist' \in Seq(Bundle) /\ Len(hist') \in 1 .. MaxChanges + 1 /\ Len(hist) <= Len(hist')
  <2>1. CASE hist' = Append(hist, db') /\ Len(hist) <= MaxChanges
    <3>1. Len(hist') = Len(hist) + 1 /\ hist' \in Seq(Bundle)
      BY <1>1, <2>1
    <3> QED BY <1>1, <2>1, <3>1, PolicyAssumption
  <2>2. CASE hist' = hist
    BY <1>1, <2>2
  <2> QED BY <2>1, <2>2
<1>3. Alone(s) \in BOOLEAN
  BY DEF Alone
<1> DEFINE new == [NoSync EXCEPT !.phase = "listing", !.worker = w, !.lone = Alone(s)]
<1>4. new \in FleetSync /\ new.phase = "listing" /\ new.lone = Alone(s) /\ new.read = 1
  BY <1>3, RestingValues DEF FleetSync, Phases
<1>5. sync' = [t \in Syncs |-> IF t = s THEN new ELSE [sync[t] EXCEPT !.lone = FALSE]]
  BY DEF Start
<1> HIDE DEF new
<1>6. \A t \in Syncs \ {s} :
        /\ sync'[t] = [sync[t] EXCEPT !.lone = FALSE] /\ sync'[t] \in FleetSync
        /\ ~sync'[t].lone /\ sync'[t].phase = sync[t].phase /\ sync'[t].read = sync[t].read
  BY <1>1, <1>5 DEF FleetSync
<1>7. sync'[s] = new
  BY <1>5
<1>8. sync' \in [Syncs -> FleetSync]
  BY <1>4, <1>5, <1>6, <1>7
<1>9. TypeOK'
  BY <1>1, <1>2, <1>8 DEF FleetInv, TypeOK, FleetSync
<1>10. ReadsThePast'
  <2> SUFFICES ASSUME NEW t \in Syncs PROVE sync'[t].read <= Len(hist')
    BY DEF ReadsThePast
  <2>1. CASE t = s
    <3>1. sync'[t].read = 1
      BY <1>4, <1>7, <2>1
    <3> QED BY <1>2, <3>1
  <2>2. CASE t # s
    <3>1. sync'[t].read = sync[t].read /\ sync[t].read <= Len(hist)
      BY <1>6, <2>2 DEF FleetInv, ReadsThePast
    <3>2. sync[t].read \in 1 .. MaxChanges + 1
      BY <1>1 DEF FleetSync
    <3> QED BY <1>1, <1>2, <3>1, <3>2
  <2> QED BY <2>1, <2>2
<1>11. LoneInv'
  <2> SUFFICES ASSUME NEW t \in Syncs, sync'[t].lone, sync'[t].phase # "idle"
               PROVE  /\ t = s /\ Alone(t)'
                      /\ sync'[t].phase \notin {"listed", "pushing", "pushed"}
    BY DEF LoneInv
  <2>1. t = s /\ Alone(s)
    BY <1>4, <1>6, <1>7
  <2>2. Alone(t)'
    BY <1>6, <2>1 DEF Alone
  <2>3. sync'[t].phase = "listing"
    BY <1>4, <1>7, <2>1
  <2>4. sync'[t].phase \notin {"listed", "pushing", "pushed"}
    BY <2>3
  <2> QED BY <2>1, <2>2, <2>4
<1> QED BY <1>9, <1>10, <1>11 DEF FleetInv

LEMMA FleetList == ASSUME FleetInv, NEW s \in Syncs, List(s) PROVE FleetInv'
<1>1. /\ sync[s].phase = "listing"
      /\ UNCHANGED <<db, up, local, pushed, lastOk, opa, ask, restarts, hist, acked>>
      /\ db \in Bundle /\ Len(hist) \in 1 .. MaxChanges + 1 /\ sync \in [Syncs -> FleetSync]
  BY DEF List, FleetInv, TypeOK, FleetSync
<1>2. PICK new \in FleetSync :
        /\ sync' = [sync EXCEPT ![s] = new]
        /\ new.lone = sync[s].lone /\ new.read <= Len(hist)
        /\ new.phase \in {"idle", "listed"}
        /\ new.phase = "listed" => new.snap = db
  <2>1. CASE sync' = [sync EXCEPT ![s].phase = "listed", ![s].snap = db, ![s].read = Len(hist)]
    <3> DEFINE new == [sync[s] EXCEPT !.phase = "listed", !.snap = db, !.read = Len(hist)]
    <3>1. new \in FleetSync /\ new.lone = sync[s].lone /\ new.read = Len(hist)
          /\ new.phase = "listed" /\ new.snap = db
      BY <1>1 DEF FleetSync, Phases
    <3>2. sync' = [sync EXCEPT ![s] = new]
      BY <2>1
    <3>3. new.read <= Len(hist)
      BY <1>1, <3>1
    <3> HIDE DEF new
    <3> QED BY <3>1, <3>2, <3>3
  <2>2. CASE sync' = [sync EXCEPT ![s].phase = "idle"]
    <3> DEFINE new == [sync[s] EXCEPT !.phase = "idle"]
    <3>1. new \in FleetSync /\ new.lone = sync[s].lone /\ new.read <= Len(hist)
          /\ new.phase = "idle"
      BY <1>1 DEF FleetSync, Phases, FleetInv, ReadsThePast
    <3>2. sync' = [sync EXCEPT ![s] = new]
      BY <2>2
    <3> QED BY <3>1, <3>2
  <2>3. \/ sync' = [sync EXCEPT ![s].phase = "listed", ![s].snap = db, ![s].read = Len(hist)]
        \/ sync' = [sync EXCEPT ![s].phase = "idle"]
    BY DEF List
  <2> QED BY <2>1, <2>2, <2>3
<1>3. sync'[s] = new /\ \A t \in Syncs \ {s} : sync'[t] = sync[t]
  BY <1>1, <1>2
<1>4. TypeOK'
  BY <1>1, <1>2 DEF FleetInv, TypeOK, FleetSync
<1>5. ReadsThePast'
  BY <1>1, <1>2, <1>3 DEF FleetInv, ReadsThePast
<1>6. LoneInv'
  <2> SUFFICES ASSUME NEW t \in Syncs, sync'[t].lone, sync'[t].phase # "idle"
               PROVE  t = s /\ Alone(t)'
    BY <1>1, <1>2, <1>3 DEF LoneInv
  <2>1. t = s
    BY <1>1, <1>3 DEF FleetInv, LoneInv, Alone
  <2>2. Alone(s)
    BY <1>1, <1>2, <1>3, <2>1 DEF FleetInv, LoneInv
  <2> QED BY <1>3, <2>1, <2>2 DEF Alone
<1> QED BY <1>4, <1>5, <1>6 DEF FleetInv

\* Steps of sync s that leave what it has read alone: only its phase is written.
LEMMA PhaseOnly ==
  ASSUME FleetInv, NEW s \in Syncs, NEW f \in Phases,
         sync' = [sync EXCEPT ![s].phase = f]
  PROVE  /\ sync' \in [Syncs -> FleetSync]
         /\ sync'[s].phase = f
         /\ \A t \in Syncs : /\ t # s => sync'[t].phase = sync[t].phase
                             /\ sync'[t].lone = sync[t].lone /\ sync'[t].snap = sync[t].snap
                             /\ sync'[t].worker = sync[t].worker /\ sync'[t].read = sync[t].read
<1>1. sync \in [Syncs -> FleetSync]
  BY DEF FleetInv, TypeOK, FleetSync
<1> QED BY <1>1 DEF FleetSync

\* While s is under way, a sync that is lone is s.
LEMMA LoneIsSelf ==
  ASSUME FleetInv, NEW s \in Syncs, sync[s].phase # "idle",
         NEW t \in Syncs, sync[t].lone, sync[t].phase # "idle"
  PROVE  t = s
BY DEF FleetInv, LoneInv, Alone

LEMMA FleetInstall == ASSUME FleetInv, NEW s \in Syncs, Install(s) PROVE FleetInv'
<1>1. /\ sync[s].phase = "listed" /\ sync' = [sync EXCEPT ![s].phase = "pushing"]
      /\ local' = [local EXCEPT ![sync[s].worker] = sync[s].snap]
      /\ UNCHANGED <<db, up, pushed, lastOk, opa, ask, restarts, hist, acked>>
  BY DEF Install
<1>2. /\ sync' \in [Syncs -> FleetSync] /\ sync'[s].phase = "pushing"
      /\ \A t \in Syncs : /\ t # s => sync'[t].phase = sync[t].phase
                          /\ sync'[t].lone = sync[t].lone /\ sync'[t].snap = sync[t].snap
                          /\ sync'[t].worker = sync[t].worker /\ sync'[t].read = sync[t].read
  BY <1>1, PhaseOnly DEF Phases
<1>3. sync[s].worker \in Workers /\ sync[s].snap \in Bundle /\ local \in [Workers -> Bundle]
  BY DEF FleetInv, TypeOK
<1>4. TypeOK'
  BY <1>1, <1>2, <1>3 DEF FleetInv, TypeOK, FleetSync
<1>5. ReadsThePast'
  BY <1>1, <1>2 DEF FleetInv, ReadsThePast
<1>6. LoneInv'
  <2> SUFFICES ASSUME NEW t \in Syncs, sync'[t].lone, sync'[t].phase # "idle"
               PROVE  /\ Alone(t)' /\ sync'[t].phase = "pushing"
                      /\ sync'[t].snap = db /\ local'[sync'[t].worker] = db
    BY <1>1 DEF LoneInv
  <2>1. t = s
    BY <1>1, <1>2, LoneIsSelf
  <2>2. Alone(s) /\ sync[s].snap = db
    BY <1>1, <1>2, <2>1 DEF FleetInv, LoneInv
  <2>3. Alone(t)'
    BY <1>2, <2>1, <2>2 DEF Alone
  <2>4. local'[sync[s].worker] = db
    BY <1>1, <1>3, <2>2
  <2> QED BY <1>2, <2>1, <2>2, <2>3, <2>4
<1> QED BY <1>4, <1>5, <1>6 DEF FleetInv

LEMMA FleetPush == ASSUME FleetInv, NEW s \in Syncs, Push(s) PROVE FleetInv'
<1>1. /\ sync[s].phase = "pushing"
      /\ UNCHANGED <<db, up, local, pushed, lastOk, ask, restarts, hist, acked>>
      /\ sync[s].snap \in Bundle /\ opa \in [Opas -> Bundle]
  BY DEF Push, FleetInv, TypeOK
<1>2. PICK f \in {"pushed", "failed"} :
        /\ sync' = [sync EXCEPT ![s].phase = f] /\ opa' \in [Opas -> Bundle]
        /\ f = "pushed" => \E o \in Opas : opa'[o] = sync[s].snap
  <2>1. CASE UNCHANGED opa /\ sync' = [sync EXCEPT ![s].phase = "failed"]
    BY <1>1, <2>1
  <2>2. CASE /\ \E o \in Opas : opa' = [opa EXCEPT ![o] = sync[s].snap]
             /\ \E f \in {"pushed", "failed"} : sync' = [sync EXCEPT ![s].phase = f]
    BY <1>1, <2>2
  <2>3. \/ UNCHANGED opa /\ sync' = [sync EXCEPT ![s].phase = "failed"]
        \/ /\ \E o \in Opas : opa' = [opa EXCEPT ![o] = sync[s].snap]
           /\ \E f \in {"pushed", "failed"} : sync' = [sync EXCEPT ![s].phase = f]
    BY DEF Push
  <2> QED BY <2>1, <2>2, <2>3
<1>3. /\ sync' \in [Syncs -> FleetSync] /\ sync'[s].phase = f
      /\ \A t \in Syncs : /\ t # s => sync'[t].phase = sync[t].phase
                          /\ sync'[t].lone = sync[t].lone /\ sync'[t].snap = sync[t].snap
                          /\ sync'[t].worker = sync[t].worker /\ sync'[t].read = sync[t].read
  BY <1>2, PhaseOnly DEF Phases
<1>4. TypeOK'
  BY <1>1, <1>2, <1>3 DEF FleetInv, TypeOK, FleetSync
<1>5. ReadsThePast'
  BY <1>1, <1>3 DEF FleetInv, ReadsThePast
<1>6. LoneInv'
  <2> SUFFICES ASSUME NEW t \in Syncs, sync'[t].lone, sync'[t].phase # "idle"
               PROVE  /\ Alone(t)' /\ sync'[t].snap = db /\ local[sync'[t].worker] = db
                      /\ sync'[t].phase = "pushed" => \E o \in Opas : opa'[o] = db
    BY <1>1 DEF LoneInv
  <2>1. t = s
    BY <1>1, <1>3, LoneIsSelf
  <2>2. Alone(s) /\ sync[s].snap = db /\ local[sync[s].worker] = db
    BY <1>1, <1>3, <2>1 DEF FleetInv, LoneInv
  <2>3. Alone(t)'
    BY <1>3, <2>1, <2>2 DEF Alone
  <2> QED BY <1>2, <1>3, <2>1, <2>2, <2>3
<1> QED BY <1>4, <1>5, <1>6 DEF FleetInv

LEMMA FleetFinish == ASSUME FleetInv, NEW s \in Syncs, Finish(s) PROVE FleetInv'
<1> DEFINE w == sync[s].worker
           ok == sync[s].phase = "pushed"
<1>1. /\ sync[s].phase \in {"pushed", "failed"}
      /\ sync' = [sync EXCEPT ![s].phase = "idle"]
      /\ UNCHANGED <<db, local, opa, ask, restarts, hist>>
      /\ acked' = IF ok /\ sync[s].read > acked THEN sync[s].read ELSE acked
  BY DEF Finish
<1>2. /\ sync' \in [Syncs -> FleetSync] /\ sync'[s].phase = "idle"
      /\ \A t \in Syncs : /\ t # s => sync'[t].phase = sync[t].phase
                          /\ sync'[t].lone = sync[t].lone /\ sync'[t].snap = sync[t].snap
                          /\ sync'[t].worker = sync[t].worker /\ sync'[t].read = sync[t].read
  BY <1>1, PhaseOnly DEF Phases
<1>3. acked' \in 1 .. Len(hist')
  <2>1. /\ acked \in 1 .. Len(hist) /\ sync[s].read \in 1 .. MaxChanges + 1
        /\ sync[s].read <= Len(hist) /\ Len(hist) \in 1 .. MaxChanges + 1
    BY DEF FleetInv, TypeOK, ReadsThePast
  <2> QED BY <1>1, <2>1
<1>4. /\ w \in Workers /\ ok \in BOOLEAN /\ StrictSync \in BOOLEAN
      /\ local \in [Workers -> Bundle] /\ pushed \in [Workers -> Bundle \cup {<<>>}]
      /\ up \in [Workers -> BOOLEAN] /\ lastOk \in [Workers -> BOOLEAN]
  BY PolicyAssumption DEF FleetInv, TypeOK
<1>5. /\ pushed' \in [Workers -> Bundle \cup {<<>>}]
      /\ up' \in [Workers -> BOOLEAN] /\ lastOk' \in [Workers -> BOOLEAN]
  <2>1. /\ pushed' = IF ok THEN [pushed EXCEPT ![w] = local[w]] ELSE pushed
        /\ lastOk' = [lastOk EXCEPT ![w] = ok]
        /\ up' = [up EXCEPT ![w] = @ \/ ok \/ ~StrictSync]
    BY DEF Finish
  <2>2. pushed' \in [Workers -> Bundle \cup {<<>>}]
    BY <1>4, <2>1
  <2>3. lastOk' \in [Workers -> BOOLEAN]
    BY <1>4, <2>1
  <2>4. (up[w] \/ ok \/ ~StrictSync) \in BOOLEAN
    OBVIOUS
  <2>5. up' \in [Workers -> BOOLEAN]
    BY <1>4, <2>1, <2>4
  <2> QED BY <2>2, <2>3, <2>5
<1>6. TypeOK'
  BY <1>1, <1>2, <1>3, <1>5 DEF FleetInv, TypeOK, FleetSync
<1>7. ReadsThePast'
  BY <1>1, <1>2 DEF FleetInv, ReadsThePast
<1>8. LoneInv'
  <2> SUFFICES ASSUME NEW t \in Syncs, sync'[t].lone, sync'[t].phase # "idle"
               PROVE  FALSE
    BY DEF LoneInv
  <2>1. t = s
    BY <1>1, <1>2, LoneIsSelf
  <2> QED BY <1>2, <2>1
<1> QED BY <1>6, <1>7, <1>8 DEF FleetInv

LEMMA AskRecord ==
  ASSUME FleetInv, NEW e \in Evals, NEW w \in Workers, Ask(e, w)
  PROVE  \E new \in FleetAsk : ask' = [ask EXCEPT ![e] = new]
<1>1. acked \in 1 .. MaxChanges + 1
  <2>1. Len(hist) \in 1 .. MaxChanges + 1 /\ acked \in 1 .. Len(hist)
    BY DEF FleetInv, TypeOK
  <2> QED BY <2>1, PolicyAssumption
<1> DEFINE error == [NoAsk EXCEPT !.stage = "done", !.worker = w, !.floor = acked, !.verdict = "error"]
           asked == [NoAsk EXCEPT !.stage = "asked", !.worker = w, !.floor = acked]
<1>2. error \in FleetAsk /\ asked \in FleetAsk
  <2>1. NoAsk \in FleetAsk
    BY RestingValues
  <2>2. error \in FleetAsk
    BY <1>1, <2>1 DEF FleetAsk, Stages
  <2>3. asked \in FleetAsk
    BY <1>1, <2>1 DEF FleetAsk, Stages
  <2> QED BY <2>2, <2>3
<1>3. ask' = [ask EXCEPT ![e] = error] \/ ask' = [ask EXCEPT ![e] = asked]
  BY DEF Ask
<1> HIDE DEF error, asked
<1>4. CASE ask' = [ask EXCEPT ![e] = error]
  BY <1>2, <1>4
<1>5. CASE ask' = [ask EXCEPT ![e] = asked]
  BY <1>2, <1>5
<1> QED BY <1>3, <1>4, <1>5

\* An evaluation reads the caches and changes nothing but itself.
LEMMA FleetEvaluates ==
  ASSUME FleetInv, NEW e \in Evals,
         \/ \E w \in Workers : Ask(e, w)
         \/ Answer(e) \/ Decide(e) \/ FallBack(e) \/ Malformed(e)
  PROVE  FleetInv'
<1>1. UNCHANGED <<db, up, local, pushed, lastOk, opa, sync, restarts, hist, acked>>
  <2>1. ASSUME NEW w \in Workers, Ask(e, w)
        PROVE  UNCHANGED <<db, up, local, pushed, lastOk, opa, sync, restarts, hist, acked>>
    BY <2>1, Zenon DEF Ask
  <2> QED BY <2>1, Zenon DEF Answer, Decide, FallBack, Malformed
<1>2. ask \in [Evals -> FleetAsk]
  BY DEF FleetInv, TypeOK, FleetAsk
<1>3. PICK new \in FleetAsk : ask' = [ask EXCEPT ![e] = new]
  <2>1. ASSUME NEW w \in Workers, Ask(e, w)
        PROVE  \E new \in FleetAsk : ask' = [ask EXCEPT ![e] = new]
    BY <2>1, AskRecord
  <2>2. ASSUME NEW v \in {"allow", "deny", "error"}, Decided(e, v)
        PROVE  \E new \in FleetAsk : ask' = [ask EXCEPT ![e] = new]
    <3> DEFINE new == [ask[e] EXCEPT !.stage = "done", !.verdict = v]
    <3>1. new \in FleetAsk
      BY <1>2 DEF FleetAsk, Stages
    <3>2. ask' = [ask EXCEPT ![e] = new]
      BY <2>2 DEF Decided
    <3> QED BY <3>1, <3>2
  <2>3. ASSUME Decide(e) \/ FallBack(e) \/ Malformed(e)
        PROVE  \E v \in {"allow", "deny", "error"} : Decided(e, v)
    BY <2>3 DEF Decide, FallBack, Malformed
  <2>4. ASSUME Answer(e)
        PROVE  \E new \in FleetAsk : ask' = [ask EXCEPT ![e] = new]
    <3>1. PICK o \in Opas : ask' = [ask EXCEPT ![e].stage = "answered",
                                               ![e].blocked = Blocking(opa[o])]
      BY <2>4 DEF Answer
    <3> DEFINE new == [ask[e] EXCEPT !.stage = "answered", !.blocked = Blocking(opa[o])]
    <3>2. Blocking(opa[o]) \in SUBSET Policies
      BY DEF Blocking
    <3>3. new \in FleetAsk
      BY <1>2, <3>2 DEF FleetAsk, Stages
    <3>4. ask' = [ask EXCEPT ![e] = new]
      BY <3>1
    <3> QED BY <3>3, <3>4
  <2> QED BY <2>1, <2>2, <2>3, <2>4
<1>4. ask' \in [Evals -> FleetAsk]
  BY <1>2, <1>3
<1>5. TypeOK'
  BY <1>1, <1>4 DEF FleetInv, TypeOK, FleetAsk
<1> QED BY <1>1, <1>5 DEF FleetInv, ReadsThePast, LoneInv, Alone

LEMMA FleetOpaRestarts == ASSUME FleetInv, NEW o \in Opas, RestartOpa(o) PROVE FleetInv'
<1>1. /\ restarts < MaxRestarts /\ restarts' = restarts + 1
      /\ opa' = [opa EXCEPT ![o] = Bootstrap]
      /\ sync' = [s \in Syncs |-> [sync[s] EXCEPT !.lone = FALSE]]
      /\ UNCHANGED <<db, up, local, pushed, lastOk, ask, hist, acked>>
  BY DEF RestartOpa
<1>2. sync \in [Syncs -> FleetSync]
  BY DEF FleetInv, TypeOK, FleetSync
<1>3. /\ sync' \in [Syncs -> FleetSync]
      /\ \A s \in Syncs : ~sync'[s].lone /\ sync'[s].read = sync[s].read
  BY <1>1, <1>2 DEF FleetSync
<1>4. restarts' \in 0 .. MaxRestarts /\ opa' \in [Opas -> Bundle]
  BY <1>1, PolicyAssumption DEF FleetInv, TypeOK
<1>5. TypeOK'
  BY <1>1, <1>3, <1>4 DEF FleetInv, TypeOK, FleetSync
<1> QED BY <1>1, <1>3, <1>5 DEF FleetInv, ReadsThePast, LoneInv

\* A worker's restart ends its syncs; those of others keep what they have read,
\* and their workers' caches.
LEMMA FleetWorkerRestarts ==
  ASSUME FleetInv, NEW w \in Workers, RestartWorker(w)
  PROVE  FleetInv'
<1>1. /\ restarts < MaxRestarts /\ restarts' = restarts + 1
      /\ up' = [up EXCEPT ![w] = FALSE] /\ local' = [local EXCEPT ![w] = Empty]
      /\ pushed' = [pushed EXCEPT ![w] = <<>>] /\ lastOk' = [lastOk EXCEPT ![w] = FALSE]
      /\ sync' = [s \in Syncs |->
           IF sync[s].phase # "idle" /\ sync[s].worker = w THEN NoSync ELSE sync[s]]
      /\ ask' = [e \in Evals |->
           IF ask[e].stage # "idle" /\ ask[e].worker = w THEN NoAsk ELSE ask[e]]
      /\ UNCHANGED <<db, opa, hist, acked>>
  BY DEF RestartWorker
<1>2. sync \in [Syncs -> FleetSync] /\ ask \in [Evals -> FleetAsk]
      /\ local \in [Workers -> Bundle] /\ Len(hist) \in 1 .. MaxChanges + 1
  BY DEF FleetInv, TypeOK, FleetSync, FleetAsk
<1>3. sync' \in [Syncs -> FleetSync] /\ ask' \in [Evals -> FleetAsk]
  BY <1>1, <1>2, RestingValues
<1>4. /\ restarts' \in 0 .. MaxRestarts /\ up' \in [Workers -> BOOLEAN]
      /\ local' \in [Workers -> Bundle] /\ pushed' \in [Workers -> Bundle \cup {<<>>}]
      /\ lastOk' \in [Workers -> BOOLEAN]
  BY <1>1, RestingValues, PolicyAssumption DEF FleetInv, TypeOK
<1>5. TypeOK'
  BY <1>1, <1>3, <1>4 DEF FleetInv, TypeOK, FleetSync, FleetAsk
<1>6. ReadsThePast'
  BY <1>1, <1>2, RestingValues DEF FleetInv, ReadsThePast
<1>7. LoneInv'
  <2> SUFFICES ASSUME NEW s \in Syncs, sync'[s].lone, sync'[s].phase # "idle"
               PROVE  /\ Alone(s)'
                      /\ sync'[s].phase \in {"listed", "pushing", "pushed"} => sync'[s].snap = db
                      /\ sync'[s].phase \in {"pushing", "pushed"} => local'[sync'[s].worker] = db
                      /\ sync'[s].phase = "pushed" => \E o \in Opas : opa[o] = db
    BY <1>1 DEF LoneInv
  <2>1. sync'[s] = sync[s] /\ sync[s].worker \in Workers \ {w}
    BY <1>1, <1>2, RestingValues DEF FleetSync
  <2>2. local'[sync[s].worker] = local[sync[s].worker]
    BY <1>1, <1>2, <2>1
  <2>3. \A t \in Syncs \ {s} : sync'[t].phase = "idle"
    BY <1>1, <2>1, RestingValues DEF FleetInv, LoneInv, Alone
  <2>4. Alone(s)'
    BY <2>3 DEF Alone
  <2> QED BY <2>1, <2>2, <2>4 DEF FleetInv, LoneInv
<1> QED BY <1>5, <1>6, <1>7 DEF FleetInv

LEMMA FleetNext == ASSUME FleetInv, [Next]_vars PROVE FleetInv'
<1>1. ASSUME NEW s \in Syncs, NEW w \in Workers, Boot(s, w) \/ Reload(s, w)
      PROVE  FleetInv'
  <2>1. /\ Start(s, w) /\ hist' = hist /\ db' = db /\ db \in Bundle
        /\ UNCHANGED <<up, local, pushed, lastOk, opa, ask, restarts, acked>>
    BY <1>1 DEF Boot, Reload, FleetInv, TypeOK
  <2> QED BY <2>1, FleetStart
<1>2. ASSUME NEW s \in Syncs, NEW w \in Workers, NEW p \in Policies, ChangePolicy(s, w, p)
      PROVE  FleetInv'
  <2>1. /\ Start(s, w) /\ hist' = Append(hist, db') /\ Len(hist) <= MaxChanges
        /\ UNCHANGED <<up, local, pushed, lastOk, opa, ask, restarts, acked>>
    BY <1>2 DEF ChangePolicy
  <2>2. db' \in Bundle
    BY <1>2 DEF ChangePolicy, Bundle, FleetInv, TypeOK
  <2> QED BY <2>1, <2>2, FleetStart
<1>3. ASSUME NEW s \in Syncs, List(s) \/ Install(s) \/ Push(s) \/ Finish(s)
      PROVE  FleetInv'
  BY <1>3, FleetList, FleetInstall, FleetPush, FleetFinish
<1>4. ASSUME NEW e \in Evals,
             \/ \E w \in Workers : Ask(e, w)
             \/ Answer(e) \/ Decide(e) \/ FallBack(e) \/ Malformed(e)
      PROVE  FleetInv'
  BY <1>4, FleetEvaluates
<1>5. ASSUME NEW o \in Opas, RestartOpa(o) PROVE FleetInv'
  BY <1>5, FleetOpaRestarts
<1>6. ASSUME NEW w \in Workers, RestartWorker(w) PROVE FleetInv'
  BY <1>6, FleetWorkerRestarts
<1>7. CASE UNCHANGED vars
  <2>1. TypeOK'
    BY <1>7 DEF vars, FleetInv, TypeOK
  <2>2. ReadsThePast' /\ LoneInv'
    BY <1>7 DEF vars, FleetInv, ReadsThePast, LoneInv, Alone
  <2> QED BY <2>1, <2>2 DEF FleetInv
<1> QED BY <1>1, <1>2, <1>3, <1>4, <1>5, <1>6, <1>7 DEF Next

\* Whatever workers, replicas, changes, races and restarts there are, every
\* variable keeps its type: a sync never reads, nor acknowledges, a state of the
\* policies that has not been.
THEOREM FleetTypeCorrect == Spec => []TypeOK
<1>1. FleetInv /\ [Next]_vars => FleetInv'
  BY FleetNext
<1>2. FleetInv => TypeOK
  BY DEF FleetInv
<1> QED BY <1>1, <1>2, FleetInit, PTL DEF Spec

\* For any number of workers, replicas and overlapping calls: a sync that nothing
\* overlapped leaves its worker and the replica it reached with what Postgres
\* holds, whatever state earlier races, failures and restarts had left behind.
THEOREM LoneSyncAlwaysHeals == Spec => []LoneSyncHeals
<1>1. FleetInv /\ [Next]_vars => FleetInv'
  BY FleetNext
<1>2. FleetInv => LoneSyncHeals
  BY DEF FleetInv, LoneInv, LoneSyncHeals
<1> QED BY <1>1, <1>2, FleetInit, PTL DEF Spec

=============================================================================
