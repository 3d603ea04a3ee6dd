------------------------------- MODULE Intents -------------------------------
(***************************************************************************)
(* How a prompt gets its intent: the orchestrator's client, the pods of    *)
(* the classifier service (intent_classifier_service, and its trial        *)
(* variant intent_classifier_distilbert_test), their in-process LRU and    *)
(* the Redis cache they share.                                             *)
(*                                                                         *)
(* A text stands for one tenant and one normalised text.  What the rules,  *)
(* the NLI model and the keywords say of it is a choice; a score is in     *)
(* hundredths.  The taxonomy a pod read at its start, and whether its      *)
(* model loaded, decide the fingerprint in its cache keys.                 *)
(*                                                                         *)
(* Left out: that a Redis entry expires after an hour is one case of       *)
(* Lose; the LRU's entries never expire.                                   *)
(***************************************************************************)
EXTENDS Integers, Sequences, SequencesExt

CONSTANTS
  Pods,        \* classifier pods; an update runs the new one beside the old
  Calls,       \* POST /classify requests of the orchestrator
  Texts,
  Versions,    \* versions of the taxonomy file
  Taxonomy,    \* its candidate labels, per version
  LruMax,      \* INTENT_CLASSIFIER_LRU_MAX
  MaxStarts    \* bound on pod starts

U == "unclassified"
Labels == UNION {Taxonomy[v] : v \in Versions}

\* The contract adds "unclassified" to the labels of a taxonomy file.
ASSUME IntentAssumption ==
  /\ Versions # {} /\ U \notin Labels
  /\ LruMax \in Nat \ {0} /\ MaxStarts \in Nat

RuleFloor == 75       \* RULE_CONFIDENCE_FLOOR
HeuristicScore == 55
Threshold == 50       \* the taxonomy's confidence_threshold
RuleScores == {80}       \* the patterns score 0.78 to 0.9, all above the floor
NliScores == {0, 40, 60}  \* failed, below and above the threshold

VARIABLES
  hybrid,  \* the service is the production one, not the trial variant
  pod,     \* per pod: its life, what it runs, the keys its flush has yet to delete
  lru,     \* per pod: texts and answers, least recently used first
  redis,   \* the shared cache
  call,    \* per request: how far it is
  starts   \* pod starts so far

intentVars == <<hybrid, pod, lru, redis, call, starts>>

IntentAnswer == [label : Labels \union {U}, score : 0..100, by : 0..MaxStarts]
None == [label |-> U, score |-> 0, by |-> 0]
NoHit == [label |-> "none", score |-> 0, by |-> 0]

\* _fingerprint_hash: taxonomy and model; the trial variant leaves a pod
\* without a model unstarted.
Fingerprints == Versions \X BOOLEAN
\* Mutant: the labels are not part of the hash.
FingerprintModel(p) == <<CHOOSE v \in Versions : TRUE, pod[p].nli>>

Fingerprint(p) == <<pod[p].ver, pod[p].nli>>

Keys == Fingerprints \X Texts
Key(p, t) == <<Fingerprint(p), t>>

Down == [life |-> "down", ver |-> CHOOSE v \in Versions : TRUE, nli |-> FALSE,
         gen |-> 0, todo |-> {}, alone |-> FALSE]
Unasked == [pc |-> "idle"]

IntentTypeOK ==
  /\ hybrid \in BOOLEAN /\ starts \in 0..MaxStarts
  /\ pod \in [Pods -> [life : {"down", "flushing", "up"}, ver : Versions,
                       nli : BOOLEAN, gen : 0..MaxStarts, todo : SUBSET Keys,
                       alone : BOOLEAN]]
  /\ \A p \in Pods : Len(lru[p]) <= LruMax
  /\ \A k \in Keys : redis[k] \in IntentAnswer \union {NoHit}
  /\ \A c \in Calls :
       call[c] = Unasked \/
         /\ call[c].pc \in {"lookup", "classify", "store", "answered"}
         /\ call[c].ans \in IntentAnswer /\ call[c].heard \subseteq Labels

IntentInit ==
  /\ hybrid \in BOOLEAN
  /\ pod = [p \in Pods |-> Down]
  /\ lru = [p \in Pods |-> <<>>]
  /\ redis = [k \in Keys |-> NoHit]
  /\ call = [c \in Calls |-> Unasked]
  /\ starts = 0

-----------------------------------------------------------------------------
\* The life of a pod.

\* lifespan up to the flush: the taxonomy, the model, the cache.  A model that
\* does not load leaves the production service with its rules.  A pod is
\* `alone` until another one runs.
StartPod(p) ==
  /\ pod[p].life = "down" /\ starts < MaxStarts
  /\ starts' = starts + 1
  /\ \E v \in Versions, nli \in {TRUE, ~hybrid} :
       pod' = [q \in Pods |->
         IF q = p
           THEN [life |-> IF hybrid THEN "flushing" ELSE "up", ver |-> v,
                 nli |-> nli, gen |-> starts + 1,
                 todo |-> {k \in Keys : redis[k] # NoHit},
                 alone |-> \A o \in Pods : o # p => pod[o].life = "down"]
           ELSE [pod[q] EXCEPT !.alone = FALSE]]
  /\ lru' = [lru EXCEPT ![p] = <<>>]
  /\ UNCHANGED <<hybrid, redis, call>>

\* flush_all deletes what its scan finds, one key at a time: every key there
\* was when it began, and perhaps some that came later.
FlushOne(p) ==
  /\ pod[p].life = "flushing"
  /\ \E k \in Keys :
       /\ k \in pod[p].todo \/ redis[k] # NoHit
       /\ redis' = [redis EXCEPT ![k] = NoHit]
       /\ pod' = [pod EXCEPT ![p].todo = @ \ {k}]
  /\ UNCHANGED <<hybrid, lru, call, starts>>

\* Mutant: the pod serves without waiting for its flush, nor counting it.
FlushEndEarly(p) ==
  /\ pod[p].life = "flushing"
  /\ pod' = [pod EXCEPT ![p].life = "up", ![p].todo = {}]
  /\ UNCHANGED <<hybrid, lru, redis, call, starts>>

\* The scan ends, or Redis fails under it, which only logs a warning.  A pod
\* whose flush failed does not count as alone with its cache.
FlushEnd(p) ==
  /\ pod[p].life = "flushing"
  /\ pod' = [pod EXCEPT ![p].life = "up", ![p].todo = {},
                        ![p].alone = @ /\ pod[p].todo = {}]
  /\ UNCHANGED <<hybrid, lru, redis, call, starts>>

\* A pod ends, by update or crash: the client of each call it served sees an
\* HTTP error.
StopPod(p) ==
  /\ pod[p].life # "down"
  /\ pod' = [pod EXCEPT ![p] = Down]
  /\ lru' = [lru EXCEPT ![p] = <<>>]
  /\ call' = [c \in Calls |->
       IF call[c].pc # "idle" /\ call[c].pod = p THEN Unasked ELSE call[c]]
  /\ UNCHANGED <<hybrid, redis, starts>>

\* An entry of Redis expires or is evicted.
Lose ==
  /\ \E k \in Keys : redis[k] # NoHit /\ redis' = [redis EXCEPT ![k] = NoHit]
  /\ UNCHANGED <<hybrid, pod, lru, call, starts>>

-----------------------------------------------------------------------------
\* One request.

\* Where the LRU of a pod has a text, and what it has for it.
Cached(p, t) == {j \in 1..Len(lru[p]) : lru[p][j].text = t}
Hit(p, t) == lru[p][CHOOSE j \in Cached(p, t) : TRUE].ans

\* _lru_get and _lru_set: the entry moves to the end, the oldest goes.
Newest(p, t, a) ==
  LET rest == IF Cached(p, t) = {} THEN lru[p]
              ELSE RemoveAt(lru[p], CHOOSE j \in Cached(p, t) : TRUE)
      all  == Append(rest, [text |-> t, ans |-> a])
  IN IF Len(all) > LruMax THEN Tail(all) ELSE all

\* _is_stale_unclassified, which the trial variant does not have.
Poisoned(a) == hybrid /\ a.label = U /\ a.score = 0

Answered(c, a, src) ==
  call' = [call EXCEPT ![c] = [@ EXCEPT !.pc = "answered", !.ans = a, !.src = src]]

\* POST /classify: a text too short or a bare URL is answered at once; an LRU
\* hit is, unless poisoned, which goes straight to the classifiers.
Receive(c, p, t) ==
  /\ call[c].pc = "idle" /\ pod[p].life = "up"
  /\ LET cached == Cached(p, t) # {}
         at(pc, a, src) ==
           call' = [call EXCEPT ![c] = [pc |-> pc, pod |-> p, text |-> t,
                                        ans |-> a, src |-> src, heard |-> {}]]
     IN \/ at("answered", None, "fallback") /\ UNCHANGED lru
        \/ ~cached /\ at("lookup", None, "none") /\ UNCHANGED lru
        \/ /\ cached
           /\ lru' = [lru EXCEPT ![p] = Newest(p, t, Hit(p, t))]
           /\ IF Poisoned(Hit(p, t)) THEN at("classify", None, "none")
                                     ELSE at("answered", Hit(p, t), "cache")
  /\ UNCHANGED <<hybrid, pod, redis, starts>>

\* The answer of Redis: a hit is copied into the LRU; a miss, a poisoned entry
\* or an error leads to the classifiers.
Lookup(c) ==
  /\ call[c].pc = "lookup"
  /\ LET p == call[c].pod
         hit == redis[Key(p, call[c].text)]
     IN \/ /\ hit # NoHit /\ ~Poisoned(hit)
           /\ lru' = [lru EXCEPT ![p] = Newest(p, call[c].text, hit)]
           /\ Answered(c, hit, "cache")
        \/ call' = [call EXCEPT ![c].pc = "classify"] /\ UNCHANGED lru
  /\ UNCHANGED <<hybrid, pod, redis, starts>>

\* What one classifier says.  The rules abstain or are sure; the model also
\* abstains below its threshold; its failures are scored 0.
Says(label, score) == [label |-> label, score |-> score]
Rules(tax) == {Says(U, 0)} \union {Says(l, s) : l \in tax, s \in RuleScores}
Nli(tax) == {Says(IF s < Threshold THEN U ELSE l, s) : l \in tax, s \in NliScores}

\* apply_keyword_heuristic: `kw` is the label of the keywords in the text.
Boost(kw, says) ==
  IF says.label # U \/ kw = U THEN says
  ELSE Says(kw, IF says.score > HeuristicScore THEN says.score ELSE HeuristicScore)

\* merge_results.
Merge(rule, nli, kw) ==
  LET boosted == Boost(kw, IF rule.score >= nli.score THEN rule ELSE nli)
  IN IF rule.label # U /\ rule.score >= RuleFloor THEN rule
     ELSE IF nli.label # U /\ nli.score > rule.score THEN nli
     ELSE IF boosted.label # U THEN boosted
     ELSE IF nli.label # U THEN nli
     ELSE IF rule.score > 0 THEN rule ELSE nli

\* What the classifiers may say of a text to pod p: the trial variant has the
\* model only, and a model that raises counts as silent.
Evidence(p) ==
  LET tax == Taxonomy[pod[p].ver] IN
  [rule : IF hybrid THEN Rules(tax) ELSE {Says(U, 0)},
   nli  : IF pod[p].nli THEN Nli(tax) ELSE {Says(U, 0)},
   kw   : IF hybrid THEN Labels \union {U} ELSE {U}]

\* classify_text: what pod p makes of it.  The keywords map to fixed labels; one
\* the taxonomy lacks is no answer.
Concluded(p, e) ==
  LET out == IF hybrid THEN Merge(e.rule, e.nli, e.kw) ELSE e.nli
  IN IF out.label \in Taxonomy[pod[p].ver] \union {U}
       THEN [label |-> out.label, score |-> out.score, by |-> pod[p].gen]
       ELSE None

Heard(e) == {e.rule.label, e.nli.label, e.kw} \ {U}

\* classify_text and the LRU half of ClassificationCache.set, which does not store
\* a poisoned answer.
Classify(c) ==
  /\ call[c].pc = "classify"
  /\ LET p == call[c].pod IN
     \E e \in Evidence(p) :
       LET ans == Concluded(p, e) IN
       /\ call' = [call EXCEPT ![c] = [@ EXCEPT
            !.pc = IF Poisoned(ans) THEN "answered" ELSE "store",
            !.src = "model", !.ans = ans, !.heard = Heard(e)]]
       /\ lru' = IF Poisoned(ans) THEN lru
                 ELSE [lru EXCEPT ![p] = Newest(p, call[c].text, ans)]
  /\ UNCHANGED <<hybrid, pod, redis, starts>>

\* The rest of it: SETEX, whose failure is only logged.
StoreAnswer(c) ==
  /\ call[c].pc = "store"
  /\ \/ redis' = [redis EXCEPT ![Key(call[c].pod, call[c].text)] = call[c].ans]
     \/ UNCHANGED redis
  /\ Answered(c, call[c].ans, "model")
  /\ UNCHANGED <<hybrid, pod, lru, starts>>

\* IntentClassifierClient.classify takes the answer, or gives up on an error or
\* a timeout: ResolveIntent of RequestLifecycle is what it makes of either.
Route(c) ==
  /\ call[c].pc # "idle"
  /\ call' = [call EXCEPT ![c] = Unasked]
  /\ UNCHANGED <<hybrid, pod, lru, redis, starts>>

IntentNext ==
  \/ \E p \in Pods : StartPod(p) \/ FlushOne(p) \/ FlushEnd(p) \/ StopPod(p)
  \/ Lose
  \/ \E c \in Calls, p \in Pods, t \in Texts : Receive(c, p, t)
  \/ \E c \in Calls : Lookup(c) \/ Classify(c) \/ StoreAnswer(c) \/ Route(c)

IntentSpec == IntentInit /\ [][IntentNext]_intentVars

-----------------------------------------------------------------------------
FromCache(c) == call[c].pc = "answered" /\ call[c].src = "cache"

\* While an old and a new pod run side by side on one Redis, every answer is one
\* the pod that gives it could have given: a label of the taxonomy it has read.
\* Of the production service, a hit is never the mark of a failed
\* classification, and a fresh answer is unclassified only when no classifier
\* had a label of that taxonomy for the text, and otherwise what one of them said.
AnswerFitsPod ==
  \A c \in Calls : call[c].pc \in {"store", "answered"} =>
    LET tax == Taxonomy[pod[call[c].pod].ver]
        ans == call[c].ans
    IN /\ ans.label \in tax \union {U}
       /\ hybrid /\ call[c].src = "cache" => ~(ans.label = U /\ ans.score = 0)
       /\ hybrid /\ call[c].src = "model" =>
            IF ans.label = U THEN call[c].heard \cap tax = {}
                             ELSE ans.label \in call[c].heard

\* INTENT_CACHE_FLUSH_ON_START: a pod of the production service that has been
\* the only one since its start, and whose flush succeeded, serves only what it
\* computed itself, whatever the keys have in common with those of its
\* predecessors (the threshold and the rules are not part of them).
ColdCache ==
  \A c \in Calls :
    FromCache(c) /\ hybrid /\ pod[call[c].pod].alone
      => call[c].ans.by = pod[call[c].pod].gen

=============================================================================
