---------------------------- MODULE IntentsProofs ----------------------------
(***************************************************************************)
(* Intents for any number of pods, requests and texts, any versions of the *)
(* taxonomy and any size of the LRU: an answer is one its pod could have   *)
(* given, and a pod alone since its start, and since a flush that          *)
(* succeeded, serves nothing it has not computed.                          *)
(*                                                                         *)
(* Neither is inductive.  What carries the first is that an entry of Redis *)
(* fits every pod whose fingerprint is in its key, and one of an LRU its   *)
(* pod; what carries the second, that while such a pod flushes, whatever   *)
(* another one has left in Redis is a key the scan has yet to reach.       *)
(***************************************************************************)
EXTENDS Intents, SequenceTheorems, TLAPS

USE IntentAssumption

Entry == [text : Texts, ans : IntentAnswer]

Pod == [life : {"down", "flushing", "up"}, ver : Versions, nli : BOOLEAN,
        gen : 0..MaxStarts, todo : SUBSET Keys, alone : BOOLEAN]

Request == [pc : {"lookup", "classify", "store", "answered"}, pod : Pods, text : Texts,
            ans : IntentAnswer, src : {"none", "cache", "model", "fallback"},
            heard : SUBSET Labels]

\* What a pod may say, and what it may say without having asked its classifiers.
Fits(a, p) == a.label \in Taxonomy[pod[p].ver] \union {U}
Own(a, p)  == hybrid /\ pod[p].alone => a.by = pod[p].gen

AnswersOf(s) == {s[j].ans : j \in 1..Len(s)}

PodInv ==
  /\ hybrid \in BOOLEAN /\ starts \in 0..MaxStarts /\ pod \in [Pods -> Pod]
  /\ \A p \in Pods :
       /\ pod[p].alone => /\ pod[p].life # "down"
                          /\ \A o \in Pods : o # p => pod[o].life = "down"
       /\ hybrid /\ pod[p].life = "up" => pod[p].todo = {}

LruInv ==
  /\ lru \in [Pods -> Seq(Entry)]
  /\ \A p \in Pods : /\ Len(lru[p]) <= LruMax
                     /\ \A a \in AnswersOf(lru[p]) : Fits(a, p) /\ Own(a, p)

RedisInv ==
  /\ redis \in [Keys -> IntentAnswer \union {NoHit}]
  /\ \A k \in Keys : redis[k] # NoHit =>
       /\ redis[k].label \in Taxonomy[k[1][1]] \union {U}
       /\ \A p \in Pods : k \in pod[p].todo \/ Own(redis[k], p)

\* A request under way: its pod serves, and what it is about to answer is right.
SoundFor(r, both, ps) ==
  /\ r \in Request /\ ps[r.pod].life = "up"
  /\ r.pc \in {"store", "answered"} =>
       /\ r.ans.label \in Taxonomy[ps[r.pod].ver] \union {U}
       /\ both /\ r.src = "cache" => ~(r.ans.label = U /\ r.ans.score = 0)
       /\ both /\ r.src = "model" =>
            IF r.ans.label = U THEN r.heard \cap Taxonomy[ps[r.pod].ver] = {}
                               ELSE r.ans.label \in r.heard
  /\ r.pc = "store" /\ both => r.src = "model" /\ r.ans.by = ps[r.pod].gen
  /\ r.pc = "answered" /\ r.src = "cache" /\ both /\ ps[r.pod].alone =>
       r.ans.by = ps[r.pod].gen

Sound(r) == SoundFor(r, hybrid, pod)

CallInv == call \in [Calls -> Request \union {Unasked}]
           /\ \A c \in Calls : call[c] = Unasked \/ Sound(call[c])

IntentInv == PodInv /\ LruInv /\ RedisInv /\ CallInv

-----------------------------------------------------------------------------
(* Values *)

LEMMA Asked ==
  ASSUME NEW r \in Request PROVE r # Unasked /\ r.pc # "idle"
BY DEF Request, Unasked

LEMMA Asking ==
  ASSUME CallInv, NEW c \in Calls, call[c].pc # "idle"
  PROVE  call[c] \in Request /\ Sound(call[c])
BY DEF CallInv, Unasked, Sound, SoundFor

LEMMA NoneIsAnswer == None \in IntentAnswer /\ None.label = U /\ None.score = 0 /\ None.by = 0
BY DEF None, IntentAnswer

LEMMA LabelsOf == \A v \in Versions : Taxonomy[v] \subseteq Labels /\ U \notin Taxonomy[v]
BY DEF Labels

LEMMA DownIsPod ==
  Down \in Pod /\ Down.life = "down" /\ Down.alone = FALSE /\ Down.todo = {}
<1>1. (CHOOSE v \in Versions : TRUE) \in Versions
  OBVIOUS
<1> QED BY <1>1 DEF Down, Pod

LEMMA KeyOf ==
  ASSUME PodInv, NEW p \in Pods, NEW t \in Texts
  PROVE  Key(p, t) \in Keys /\ Key(p, t)[1][1] = pod[p].ver
BY DEF PodInv, Pod, Key, Keys, Fingerprint, Fingerprints

-----------------------------------------------------------------------------
(* The LRU *)

\* What is left of a sequence without one of its entries.
LEMMA Removed ==
  ASSUME NEW S, NEW s \in Seq(S), NEW i \in 1..Len(s)
  PROVE  /\ RemoveAt(s, i) \in Seq(S) /\ Len(RemoveAt(s, i)) = Len(s) - 1
         /\ \A j \in 1..Len(s) - 1 : \E k \in 1..Len(s) : RemoveAt(s, i)[j] = s[k]
<1> DEFINE front == SubSeq(s, 1, i - 1)
           rest  == SubSeq(s, i + 1, Len(s))
<1>1. /\ front \in Seq(S) /\ Len(front) = i - 1
      /\ \A j \in 1..i - 1 : front[j] = s[j]
  BY SubSeqProperties
<1>2. /\ rest \in Seq(S) /\ Len(rest) = Len(s) - i
      /\ \A j \in 1..Len(s) - i : rest[j] = s[i + j]
  BY SubSeqProperties
<1> HIDE DEF front, rest
<1>3. /\ front \o rest \in Seq(S) /\ Len(front \o rest) = Len(s) - 1
      /\ \A j \in 1..Len(s) - 1 : (front \o rest)[j] =
           IF j <= i - 1 THEN front[j] ELSE rest[j - (i - 1)]
  BY <1>1, <1>2, SMTT(30)
<1>4. ASSUME NEW j \in 1..Len(s) - 1 PROVE \E k \in 1..Len(s) : (front \o rest)[j] = s[k]
  <2>1. CASE j <= i - 1
    BY <1>1, <1>3, <2>1
  <2>2. CASE ~(j <= i - 1)
    <3>1. j - (i - 1) \in 1..Len(s) - i /\ j + 1 \in 1..Len(s)
      BY <2>2
    <3>2. (front \o rest)[j] = s[i + (j - (i - 1))]
      BY <1>2, <1>3, <2>2, <3>1
    <3>3. i + (j - (i - 1)) = j + 1
      OBVIOUS
    <3> QED BY <3>1, <3>2, <3>3
  <2> QED BY <2>1, <2>2
<1> QED BY <1>3, <1>4 DEF RemoveAt, front, rest

LEMMA NewestIs ==
  ASSUME LruInv, NEW p \in Pods, NEW t \in Texts, NEW a \in IntentAnswer
  PROVE  /\ Newest(p, t, a) \in Seq(Entry) /\ Len(Newest(p, t, a)) <= LruMax
         /\ AnswersOf(Newest(p, t, a)) \subseteq AnswersOf(lru[p]) \union {a}
<1> DEFINE s    == lru[p]
           i    == CHOOSE j \in Cached(p, t) : TRUE
           rest == IF Cached(p, t) = {} THEN s ELSE RemoveAt(s, i)
           new  == [text |-> t, ans |-> a]
           all  == Append(rest, new)
<1>1. s \in Seq(Entry) /\ Len(s) <= LruMax /\ new \in Entry
  BY DEF LruInv, Entry
<1>2. /\ rest \in Seq(Entry) /\ Len(rest) <= Len(s)
      /\ \A j \in 1..Len(rest) : \E k \in 1..Len(s) : rest[j] = s[k]
  <2>1. CASE Cached(p, t) = {}
    BY <1>1, <2>1
  <2>2. CASE Cached(p, t) # {}
    <3>1. i \in 1..Len(s)
      BY <2>2 DEF Cached
    <3>2. /\ RemoveAt(s, i) \in Seq(Entry) /\ Len(RemoveAt(s, i)) = Len(s) - 1
          /\ \A j \in 1..Len(s) - 1 : \E k \in 1..Len(s) : RemoveAt(s, i)[j] = s[k]
      <4> HIDE DEF i, s
      <4> QED BY <1>1, <3>1, Removed
    <3>3. rest = RemoveAt(s, i) /\ Len(s) \in Nat
      BY <1>1, <2>2
    <3> HIDE DEF i, s, rest
    <3> QED BY <3>2, <3>3
  <2> QED BY <2>1, <2>2
<1> HIDE DEF s, i, rest, new
<1>3. /\ all \in Seq(Entry) /\ Len(all) = Len(rest) + 1
      /\ \A j \in 1..Len(all) : all[j] = new \/ \E k \in 1..Len(s) : all[j] = s[k]
  <2>1. rest \in Seq(Entry) /\ new \in Entry
    BY <1>1, <1>2
  <2>2. /\ all \in Seq(Entry) /\ Len(all) = Len(rest) + 1 /\ Len(rest) \in Nat
        /\ \A j \in 1..Len(rest) : all[j] = rest[j]
        /\ all[Len(rest) + 1] = new
    BY <2>1
  <2> HIDE DEF all
  <2>3. \A j \in 1..Len(all) : j \in 1..Len(rest) \/ j = Len(rest) + 1
    BY <2>2
  <2> QED BY <1>2, <2>2, <2>3
<1>4. new.ans = a
  BY DEF new
<1>5. \A j \in 1..Len(all) : all[j].ans \in AnswersOf(s) \union {a}
  BY <1>3, <1>4 DEF AnswersOf
<1> HIDE DEF all
<1>6. /\ Tail(all) \in Seq(Entry) /\ Len(Tail(all)) = Len(all) - 1
      /\ \A j \in 1..Len(Tail(all)) : Tail(all)[j] = all[j + 1] /\ j + 1 \in 1..Len(all)
  <2>1. all # <<>> /\ all \in Seq(Entry) /\ Len(rest) \in Nat
    BY <1>2, <1>3
  <2> QED BY <2>1, HeadTailProperties
<1>7. Newest(p, t, a) = IF Len(all) > LruMax THEN Tail(all) ELSE all
  BY DEF Newest, all, rest, s, i, new
<1>8. CASE Len(all) > LruMax
  <2>1. Newest(p, t, a) = Tail(all)
    BY <1>7, <1>8
  <2>2. Len(Tail(all)) <= LruMax
    BY <1>1, <1>2, <1>3, <1>6
  <2>3. AnswersOf(Tail(all)) \subseteq AnswersOf(s) \union {a}
    BY <1>5, <1>6 DEF AnswersOf
  <2> QED BY <1>6, <2>1, <2>2, <2>3 DEF s
<1>9. CASE ~(Len(all) > LruMax)
  <2>1. Newest(p, t, a) = all
    BY <1>7, <1>9
  <2>2. Len(all) <= LruMax
    BY <1>2, <1>3, <1>9
  <2>3. AnswersOf(all) \subseteq AnswersOf(s) \union {a}
    BY <1>5 DEF AnswersOf
  <2> QED BY <1>3, <2>1, <2>2, <2>3 DEF s
<1> QED BY <1>8, <1>9

LEMMA HitIs ==
  ASSUME LruInv, NEW p \in Pods, NEW t, Cached(p, t) # {}
  PROVE  Hit(p, t) \in AnswersOf(lru[p]) /\ Hit(p, t) \in IntentAnswer
<1>1. PICK i \in 1..Len(lru[p]) : i = CHOOSE j \in Cached(p, t) : TRUE
  BY DEF Cached
<1>2. Hit(p, t) = lru[p][i].ans /\ lru[p] \in Seq(Entry)
  BY <1>1 DEF Hit, LruInv
<1>3. lru[p][i] \in Entry
  BY <1>2
<1> QED BY <1>2, <1>3 DEF AnswersOf, Entry

-----------------------------------------------------------------------------
(* What a step keeps *)

\* The pod reads what it read before, and is not alone when it was not.
Kept(p) ==
  /\ pod'[p].ver = pod[p].ver /\ pod'[p].gen = pod[p].gen
  /\ pod'[p].alone => pod[p].alone

LEMMA AnswerKept ==
  ASSUME NEW p \in Pods, Kept(p), hybrid' = hybrid, NEW a, Fits(a, p), Own(a, p)
  PROVE  Fits(a, p)' /\ Own(a, p)'
BY DEF Kept, Fits, Own

LEMMA SoundKept ==
  ASSUME NEW r, Sound(r), Kept(r.pod), hybrid' = hybrid, pod'[r.pod].life = "up"
  PROVE  Sound(r)'
BY DEF Kept, Sound, SoundFor

LEMMA PodsUnmoved ==
  ASSUME IntentInv, UNCHANGED <<hybrid, pod, starts>>
  PROVE  PodInv' /\ (lru' = lru => LruInv') /\ (redis' = redis => RedisInv')
<1>1. PodInv'
  BY DEF IntentInv, PodInv
<1>2. lru' = lru => LruInv'
  BY DEF IntentInv, LruInv, Fits, Own
<1>3. redis' = redis => RedisInv'
  BY DEF IntentInv, RedisInv, Own
<1> QED BY <1>1, <1>2, <1>3

LEMMA CallSet ==
  ASSUME CallInv, NEW c \in Calls, NEW r, r = Unasked \/ Sound(r),
         call' = [call EXCEPT ![c] = r], UNCHANGED <<hybrid, pod>>
  PROVE  CallInv'
<1>1. r \in Request \union {Unasked}
  BY DEF Sound, SoundFor
<1>2. /\ call' \in [Calls -> Request \union {Unasked}] /\ call'[c] = r
      /\ \A d \in Calls : d # c => call'[d] = call[d]
  BY <1>1 DEF CallInv
<1>3. ASSUME NEW d \in Calls PROVE call'[d] = Unasked \/ SoundFor(call'[d], hybrid', pod')
  BY <1>2 DEF CallInv, Sound
<1> QED BY <1>2, <1>3 DEF CallInv, Sound

LEMMA LruSet ==
  ASSUME LruInv, NEW p \in Pods, NEW t \in Texts, NEW a \in IntentAnswer,
         Fits(a, p), Own(a, p),
         lru' = [lru EXCEPT ![p] = Newest(p, t, a)], UNCHANGED <<hybrid, pod>>
  PROVE  LruInv'
<1>1. /\ Newest(p, t, a) \in Seq(Entry) /\ Len(Newest(p, t, a)) <= LruMax
      /\ AnswersOf(Newest(p, t, a)) \subseteq AnswersOf(lru[p]) \union {a}
  BY NewestIs
<1>2. /\ lru' \in [Pods -> Seq(Entry)] /\ lru'[p] = Newest(p, t, a)
      /\ \A q \in Pods : q # p => lru'[q] = lru[q]
  BY <1>1 DEF LruInv
<1>3. ASSUME NEW q \in Pods
      PROVE  /\ Len(lru'[q]) <= LruMax
             /\ \A b \in AnswersOf(lru'[q]) : Fits(b, q) /\ Own(b, q)
  BY <1>1, <1>2 DEF LruInv
<1> QED BY <1>2, <1>3 DEF LruInv, Fits, Own, AnswersOf

\* A request as it is made, and as a step of it changes it.
LEMMA RequestMade ==
  ASSUME NEW at \in {"lookup", "classify", "store", "answered"}, NEW p \in Pods,
         NEW t \in Texts, NEW a \in IntentAnswer,
         NEW from \in {"none", "cache", "model", "fallback"},
         NEW h \in SUBSET Labels, NEW r,
         r = [pc |-> at, pod |-> p, text |-> t, ans |-> a, src |-> from, heard |-> h]
  PROVE  /\ r \in Request /\ r.pc = at /\ r.pod = p /\ r.ans = a
         /\ r.src = from /\ r.heard = h
BY DEF Request

-----------------------------------------------------------------------------
(* The steps of a request *)

LEMMA ReceiveKeeps ==
  ASSUME IntentInv, NEW c \in Calls, NEW p \in Pods, NEW t \in Texts, Receive(c, p, t)
  PROVE  IntentInv'
<1> DEFINE made(at, a, from) == [pc |-> at, pod |-> p, text |-> t, ans |-> a,
                                 src |-> from, heard |-> {}]
<1>1. /\ pod[p].life = "up" /\ UNCHANGED <<hybrid, pod, redis, starts>>
      /\ \/ call' = [call EXCEPT ![c] = made("answered", None, "fallback")] /\ lru' = lru
         \/ call' = [call EXCEPT ![c] = made("lookup", None, "none")] /\ lru' = lru
         \/ /\ Cached(p, t) # {}
            /\ lru' = [lru EXCEPT ![p] = Newest(p, t, Hit(p, t))]
            /\ IF Poisoned(Hit(p, t))
               THEN call' = [call EXCEPT ![c] = made("classify", None, "none")]
               ELSE call' = [call EXCEPT ![c] = made("answered", Hit(p, t), "cache")]
  BY DEF Receive
<1>2. PodInv /\ LruInv /\ RedisInv /\ CallInv
  BY DEF IntentInv
<1>3. PodInv' /\ RedisInv' /\ (lru' = lru => LruInv')
  BY <1>1, PodsUnmoved
<1>4. None \in IntentAnswer /\ None.label = U /\ {} \in SUBSET Labels
  BY NoneIsAnswer
<1>5. ASSUME NEW at \in {"lookup", "classify"}
      PROVE  Sound(made(at, None, "none"))
  <2> DEFINE r == made(at, None, "none")
  <2>1. r \in Request /\ r.pc = at /\ r.pod = p /\ r.src = "none"
    BY <1>4, RequestMade
  <2> HIDE DEF r
  <2>2. Sound(r)
    BY <1>1, <2>1 DEF Sound, SoundFor
  <2> QED BY <2>2 DEF r
<1>6. Sound(made("answered", None, "fallback"))
  <2> DEFINE r == made("answered", None, "fallback")
  <2>1. /\ r \in Request /\ r.pc = "answered" /\ r.pod = p /\ r.src = "fallback"
        /\ r.ans = None
    BY <1>4, RequestMade
  <2> HIDE DEF r
  <2>2. Sound(r)
    BY <1>1, <1>4, <2>1 DEF Sound, SoundFor
  <2> QED BY <2>2 DEF r
<1>7. CASE call' = [call EXCEPT ![c] = made("answered", None, "fallback")] /\ lru' = lru
  <2>1. CallInv'
    BY <1>1, <1>2, <1>6, <1>7, CallSet
  <2> QED BY <1>3, <1>7, <2>1 DEF IntentInv
<1>8. CASE call' = [call EXCEPT ![c] = made("lookup", None, "none")] /\ lru' = lru
  <2>1. CallInv'
    BY <1>1, <1>2, <1>5, <1>8, CallSet
  <2> QED BY <1>3, <1>8, <2>1 DEF IntentInv
<1>9. CASE /\ Cached(p, t) # {}
           /\ lru' = [lru EXCEPT ![p] = Newest(p, t, Hit(p, t))]
           /\ IF Poisoned(Hit(p, t))
              THEN call' = [call EXCEPT ![c] = made("classify", None, "none")]
              ELSE call' = [call EXCEPT ![c] = made("answered", Hit(p, t), "cache")]
  <2>1. Hit(p, t) \in IntentAnswer /\ Fits(Hit(p, t), p) /\ Own(Hit(p, t), p)
    BY <1>2, <1>9, HitIs DEF LruInv
  <2>2. LruInv'
    BY <1>1, <1>2, <1>9, <2>1, LruSet
  <2>3. CASE call' = [call EXCEPT ![c] = made("classify", None, "none")]
    <3>1. CallInv'
      BY <1>1, <1>2, <1>5, <2>3, CallSet
    <3> QED BY <1>3, <2>2, <3>1 DEF IntentInv
  <2>4. CASE /\ ~Poisoned(Hit(p, t))
             /\ call' = [call EXCEPT ![c] = made("answered", Hit(p, t), "cache")]
    <3> DEFINE r == made("answered", Hit(p, t), "cache")
    <3>1. /\ r \in Request /\ r.pc = "answered" /\ r.pod = p /\ r.src = "cache"
          /\ r.ans = Hit(p, t)
      BY <1>4, <2>1, RequestMade
    <3>2. call' = [call EXCEPT ![c] = r]
      BY <2>4
    <3> HIDE DEF r
    <3>3. Sound(r)
      BY <1>1, <2>1, <2>4, <3>1 DEF Sound, SoundFor, Fits, Own, Poisoned
    <3>4. CallInv'
      BY <1>1, <1>2, <3>2, <3>3, CallSet
    <3> QED BY <1>3, <2>2, <3>4 DEF IntentInv
  <2> QED BY <1>9, <2>3, <2>4
<1> QED BY <1>1, <1>7, <1>8, <1>9

LEMMA LookupKeeps ==
  ASSUME IntentInv, NEW c \in Calls, Lookup(c) PROVE IntentInv'
<1> DEFINE q   == call[c]
           p   == q.pod
           hit == redis[Key(p, q.text)]
           got == [q EXCEPT !.pc = "answered", !.ans = hit, !.src = "cache"]
           on  == [q EXCEPT !.pc = "classify"]
<1>1. /\ q.pc = "lookup" /\ UNCHANGED <<hybrid, pod, redis, starts>>
      /\ \/ /\ hit # NoHit /\ ~Poisoned(hit)
            /\ lru' = [lru EXCEPT ![p] = Newest(p, q.text, hit)]
            /\ call' = [call EXCEPT ![c] = got]
         \/ call' = [call EXCEPT ![c] = on] /\ lru' = lru
  BY DEF Lookup, Answered
<1>2. PodInv /\ LruInv /\ RedisInv /\ CallInv
  BY DEF IntentInv
<1>3. PodInv' /\ RedisInv' /\ (lru' = lru => LruInv')
  BY <1>1, PodsUnmoved
<1>4. /\ q \in Request /\ p \in Pods /\ q.text \in Texts /\ pod[p].life = "up"
  BY <1>1, <1>2, Asking DEF Sound, SoundFor, Request
<1> HIDE DEF q, hit, got
<1>5. CASE call' = [call EXCEPT ![c] = on] /\ lru' = lru
  <2>1. on \in Request /\ on.pc = "classify" /\ on.pod = p
    BY <1>4 DEF Request
  <2>2. Sound(on)
    <3> HIDE DEF on
    <3> QED BY <1>4, <2>1 DEF Sound, SoundFor
  <2>3. CallInv'
    BY <1>1, <1>2, <1>5, <2>2, CallSet
  <2> QED BY <1>3, <1>5, <2>3 DEF IntentInv
<1>6. CASE /\ hit # NoHit /\ ~Poisoned(hit)
           /\ lru' = [lru EXCEPT ![p] = Newest(p, q.text, hit)]
           /\ call' = [call EXCEPT ![c] = got]
  <2>1. Key(p, q.text) \in Keys /\ Key(p, q.text)[1][1] = pod[p].ver
    BY <1>2, <1>4, KeyOf
  <2>2. hybrid => pod[p].todo = {}
    BY <1>2, <1>4 DEF PodInv
  <2>3. /\ hit \in IntentAnswer /\ hit.label \in Taxonomy[pod[p].ver] \union {U}
        /\ Key(p, q.text) \in pod[p].todo \/ Own(hit, p)
    BY <1>2, <1>4, <1>6, <2>1 DEF RedisInv, hit
  <2>4. Fits(hit, p) /\ Own(hit, p)
    BY <2>2, <2>3 DEF Fits, Own
  <2>5. LruInv'
    BY <1>1, <1>2, <1>4, <1>6, <2>3, <2>4, LruSet
  <2>6. /\ got \in Request /\ got.pc = "answered" /\ got.pod = p /\ got.ans = hit
        /\ got.src = "cache"
    <3>1. got = [q EXCEPT !.pc = "answered", !.ans = hit, !.src = "cache"]
      BY DEF got
    <3> QED BY <1>4, <2>3, <3>1 DEF Request
  <2>7. Sound(got)
    BY <1>4, <1>6, <2>4, <2>6 DEF Sound, SoundFor, Fits, Own, Poisoned
  <2>8. CallInv'
    BY <1>1, <1>2, <1>6, <2>7, CallSet
  <2> QED BY <1>3, <2>5, <2>8 DEF IntentInv
<1> QED BY <1>1, <1>5, <1>6

LEMMA StoreKeeps ==
  ASSUME IntentInv, NEW c \in Calls, StoreAnswer(c) PROVE IntentInv'
<1> DEFINE q   == call[c]
           p   == q.pod
           key == Key(p, q.text)
           got == [q EXCEPT !.pc = "answered", !.ans = q.ans, !.src = "model"]
<1>1. /\ q.pc = "store" /\ UNCHANGED <<hybrid, pod, lru, starts>>
      /\ redis' = [redis EXCEPT ![key] = q.ans] \/ redis' = redis
      /\ call' = [call EXCEPT ![c] = got]
  BY DEF StoreAnswer, Answered
<1>2. PodInv /\ LruInv /\ RedisInv /\ CallInv
  BY DEF IntentInv
<1>3. PodInv' /\ LruInv' /\ (redis' = redis => RedisInv')
  BY <1>1, PodsUnmoved
<1>4. /\ q \in Request /\ p \in Pods /\ q.text \in Texts /\ q.ans \in IntentAnswer /\ Sound(q)
  BY <1>1, <1>2, Asking DEF Request
<1>5. /\ pod[p].life = "up" /\ Fits(q.ans, p)
      /\ hybrid => q.src = "model" /\ q.ans.by = pod[p].gen
  <2> HIDE DEF q
  <2> QED BY <1>1, <1>4 DEF Sound, SoundFor, Fits
<1>6. /\ got \in Request /\ got.pc = "answered" /\ got.pod = p /\ got.ans = q.ans
      /\ got.src = "model" /\ got.heard = q.heard
  <2>1. got = [q EXCEPT !.pc = "answered", !.ans = q.ans, !.src = "model"]
    OBVIOUS
  <2> HIDE DEF got, q
  <2> QED BY <1>4, <2>1 DEF Request
<1>7. Sound(got)
  <2> HIDE DEF got, q
  <2> QED BY <1>1, <1>4, <1>5, <1>6 DEF Sound, SoundFor, Fits
<1>8. CallInv'
  BY <1>1, <1>2, <1>7, CallSet
<1>9. RedisInv'
  <2>1. CASE redis' = [redis EXCEPT ![key] = q.ans]
    <3>1. key \in Keys /\ key[1][1] = pod[p].ver
      BY <1>2, <1>4, KeyOf
    <3>2. \A o \in Pods : Own(q.ans, o)
      <4> SUFFICES ASSUME NEW o \in Pods, hybrid, pod[o].alone PROVE q.ans.by = pod[o].gen
        BY DEF Own
      <4>1. o = p
        BY <1>2, <1>4, <1>5 DEF PodInv
      <4> QED BY <1>5, <4>1
    <3>3. /\ redis' \in [Keys -> IntentAnswer \union {NoHit}] /\ redis'[key] = q.ans
          /\ \A k \in Keys : k # key => redis'[k] = redis[k]
      BY <1>2, <1>4, <2>1, <3>1 DEF RedisInv
    <3>4. ASSUME NEW k \in Keys, redis'[k] # NoHit
          PROVE  /\ redis'[k].label \in Taxonomy[k[1][1]] \union {U}
                 /\ \A o \in Pods : k \in pod[o].todo \/ Own(redis'[k], o)
      <4>1. CASE k = key
        <5> HIDE DEF q, key
        <5> QED BY <1>5, <3>1, <3>2, <3>3, <4>1 DEF Fits
      <4>2. CASE k # key
        BY <1>2, <3>3, <3>4, <4>2 DEF RedisInv
      <4> QED BY <4>1, <4>2
    <3> QED BY <1>1, <3>3, <3>4 DEF RedisInv, Own
  <2> QED BY <1>1, <1>3, <2>1
<1> QED BY <1>3, <1>8, <1>9 DEF IntentInv

LEMMA RouteKeeps ==
  ASSUME IntentInv, NEW c \in Calls, Route(c) PROVE IntentInv'
<1>1. call' = [call EXCEPT ![c] = Unasked] /\ UNCHANGED <<hybrid, pod, lru, redis, starts>>
  BY DEF Route
<1>2. PodInv' /\ LruInv' /\ RedisInv'
  BY <1>1, PodsUnmoved
<1>3. CallInv'
  BY <1>1, CallSet DEF IntentInv
<1> QED BY <1>2, <1>3 DEF IntentInv

\* What the merge of the three classifiers says is what one of them said, and it
\* leaves the taxonomy only for a keyword, when the other two had nothing.
LEMMA MergedFrom ==
  ASSUME NEW v \in Versions, NEW kw \in Labels \union {U},
         NEW rule \in Rules(Taxonomy[v]), NEW nli \in Nli(Taxonomy[v]) \union {Says(U, 0)}
  PROVE  LET out == Merge(rule, nli, kw) IN
         /\ out.label \in {rule.label, nli.label, kw} /\ out.score \in 0..100
         /\ out.label \notin Taxonomy[v] =>
              rule.label = U /\ nli.label = U /\ out.label = kw
<1> DEFINE tax == Taxonomy[v]
<1>1. tax \subseteq Labels /\ U \notin tax
  BY LabelsOf
<1>2. /\ rule.label \in tax \union {U} /\ rule.score \in {0, 80}
      /\ rule.label = U <=> rule.score = 0
  BY <1>1 DEF Rules, Says, RuleScores
<1>3. /\ nli.label \in tax \union {U} /\ nli.score \in {0, 40, 60}
      /\ nli.label # U => nli.score = 60
  BY <1>1 DEF Nli, Says, NliScores, Threshold
<1> DEFINE best == IF rule.score >= nli.score THEN rule ELSE nli
           b    == Boost(kw, best)
<1>4. b = IF best.label # U \/ kw = U THEN best
          ELSE [label |-> kw, score |-> IF best.score > 55 THEN best.score ELSE 55]
  BY DEF Boost, Says, HeuristicScore
<1>5. Merge(rule, nli, kw) =
        IF rule.label # U /\ rule.score >= 75 THEN rule
        ELSE IF nli.label # U /\ nli.score > rule.score THEN nli
        ELSE IF b.label # U THEN b
        ELSE IF nli.label # U THEN nli
        ELSE IF rule.score > 0 THEN rule ELSE nli
  BY DEF Merge, RuleFloor
<1> HIDE DEF b
<1>6. CASE rule.label # U
  <2>1. Merge(rule, nli, kw) = rule /\ rule.label \in tax
    BY <1>2, <1>5, <1>6
  <2> QED BY <1>2, <2>1
<1>7. CASE rule.label = U /\ nli.label # U
  <2>1. Merge(rule, nli, kw) = nli /\ nli.label \in tax
    BY <1>2, <1>3, <1>5, <1>7
  <2> QED BY <1>3, <2>1
<1>8. CASE rule.label = U /\ nli.label = U
  <2>1. best.label = U /\ best.score \in 0..100
    BY <1>2, <1>3, <1>8
  <2>2. /\ b.label = kw /\ b.score \in 0..100
        /\ Merge(rule, nli, kw) = IF b.label # U THEN b ELSE nli
    <3>1. CASE kw = U
      BY <1>2, <1>4, <1>5, <1>8, <2>1, <3>1
    <3>2. CASE kw # U
      <4>1. b = [label |-> kw, score |-> IF best.score > 55 THEN best.score ELSE 55]
        BY <1>4, <2>1, <3>2
      <4>2. b.label = kw /\ b.score = IF best.score > 55 THEN best.score ELSE 55
        BY <4>1
      <4> HIDE DEF best
      <4>3. b.score \in 0..100
        BY <2>1, <4>2
      <4> QED BY <1>2, <1>5, <1>8, <4>2, <4>3
    <3> QED BY <3>1, <3>2
  <2> QED BY <1>3, <1>8, <2>2
<1> QED BY <1>6, <1>7, <1>8

\* What the classifiers of a pod may say, of the production service and of the trial.
LEMMA EvidenceIs ==
  ASSUME PodInv, NEW p \in Pods, NEW e \in Evidence(p)
  PROVE  LET tax == Taxonomy[pod[p].ver] IN
         /\ pod[p].ver \in Versions /\ pod[p].gen \in 0..MaxStarts
         /\ hybrid => e.rule \in Rules(tax) /\ e.kw \in Labels \union {U}
         /\ ~hybrid => e.rule = Says(U, 0) /\ e.kw = U
         /\ e.nli \in Nli(tax) \union {Says(U, 0)}
<1>1. pod[p].ver \in Versions /\ pod[p].gen \in 0..MaxStarts /\ pod[p].nli \in BOOLEAN
  BY DEF PodInv, Pod
<1>2. /\ e.rule \in IF hybrid THEN Rules(Taxonomy[pod[p].ver]) ELSE {Says(U, 0)}
      /\ e.nli \in IF pod[p].nli THEN Nli(Taxonomy[pod[p].ver]) ELSE {Says(U, 0)}
      /\ e.kw \in IF hybrid THEN Labels \union {U} ELSE {U}
  BY DEF Evidence
<1> QED BY <1>1, <1>2

LEMMA ConcludedRight ==
  ASSUME PodInv, NEW p \in Pods, NEW e \in Evidence(p)
  PROVE  LET ans == Concluded(p, e) IN
         /\ ans \in IntentAnswer /\ Heard(e) \in SUBSET Labels /\ Fits(ans, p)
         /\ hybrid /\ ~Poisoned(ans) => ans.by = pod[p].gen
         /\ hybrid => IF ans.label = U THEN Heard(e) \cap Taxonomy[pod[p].ver] = {}
                                       ELSE ans.label \in Heard(e)
<1> DEFINE out   == IF hybrid THEN Merge(e.rule, e.nli, e.kw) ELSE e.nli
           ans   == Concluded(p, e)
           heard == Heard(e)
<1>0. /\ heard = {e.rule.label, e.nli.label, e.kw} \ {U}
      /\ ans = IF out.label \in Taxonomy[pod[p].ver] \union {U}
               THEN [label |-> out.label, score |-> out.score, by |-> pod[p].gen]
               ELSE None
  BY DEF Concluded, Heard
<1> DEFINE tax == Taxonomy[pod[p].ver]
<1>1. /\ pod[p].ver \in Versions /\ pod[p].gen \in 0..MaxStarts
      /\ hybrid => e.rule \in Rules(tax) /\ e.kw \in Labels \union {U}
      /\ ~hybrid => e.rule = Says(U, 0) /\ e.kw = U
      /\ e.nli \in Nli(tax) \union {Says(U, 0)}
  BY EvidenceIs
<1>2. tax \subseteq Labels /\ U \notin tax
  BY <1>1, LabelsOf
<1>3. e.rule.label \in tax \union {U}
  BY <1>1 DEF Rules, Says
<1>4. e.nli.label \in tax \union {U} /\ e.nli.score \in 0..100
  BY <1>1 DEF Nli, Says, NliScores
<1>5. e.kw \in Labels \union {U}
  BY <1>1
<1>6. heard \in SUBSET Labels
  BY <1>0, <1>2, <1>3, <1>4, <1>5
<1>7. /\ out.score \in 0..100
      /\ hybrid => /\ out.label \in {e.rule.label, e.nli.label, e.kw}
                   /\ out.label \notin tax =>
                        e.rule.label = U /\ e.nli.label = U /\ out.label = e.kw
  <2>1. CASE hybrid
    <3>1. /\ e.rule \in Rules(Taxonomy[pod[p].ver]) /\ e.kw \in Labels \union {U}
          /\ e.nli \in Nli(Taxonomy[pod[p].ver]) \union {Says(U, 0)}
          /\ pod[p].ver \in Versions
      BY <1>1, <2>1
    <3>2. LET got == Merge(e.rule, e.nli, e.kw) IN
          /\ got.label \in {e.rule.label, e.nli.label, e.kw} /\ got.score \in 0..100
          /\ got.label \notin Taxonomy[pod[p].ver] =>
               e.rule.label = U /\ e.nli.label = U /\ got.label = e.kw
      BY <3>1, MergedFrom
    <3>3. out = Merge(e.rule, e.nli, e.kw)
      BY <2>1
    <3> HIDE DEF out
    <3> QED BY <3>2, <3>3
  <2>2. CASE ~hybrid
    <3>1. out = e.nli
      BY <2>2
    <3> HIDE DEF out
    <3> QED BY <1>4, <2>2, <3>1
  <2>3. hybrid \in BOOLEAN
    BY DEF PodInv
  <2> HIDE DEF out
  <2> QED BY <2>1, <2>2
<1>8. None \in IntentAnswer /\ None.label = U /\ None.score = 0
  BY NoneIsAnswer
<1> DEFINE Right == /\ ans \in IntentAnswer /\ heard \in SUBSET Labels /\ Fits(ans, p)
                    /\ hybrid /\ ~Poisoned(ans) => ans.by = pod[p].gen
                    /\ hybrid => IF ans.label = U THEN heard \cap tax = {}
                                                  ELSE ans.label \in heard
<1> HIDE DEF ans, heard, out, tax
<1>9. ASSUME out.label \in tax \union {U} PROVE Right
  <2>1. ans = [label |-> out.label, score |-> out.score, by |-> pod[p].gen]
    BY <1>0, <1>9 DEF tax
  <2>2. ans \in IntentAnswer /\ ans.label = out.label /\ ans.by = pod[p].gen
    BY <1>1, <1>2, <1>7, <1>9, <2>1 DEF IntentAnswer
  <2>3. hybrid => IF ans.label = U THEN heard \cap tax = {} ELSE ans.label \in heard
    BY <1>0, <1>2, <1>7, <1>9, <2>2
  <2>4. Fits(ans, p)
    BY <1>9, <2>2 DEF Fits, tax
  <2> QED BY <1>6, <2>2, <2>3, <2>4
<1>10. ASSUME out.label \notin tax \union {U} PROVE Right
  <2>1. ans = None
    BY <1>0, <1>10 DEF tax
  <2>2. hybrid => heard \cap tax = {}
    BY <1>0, <1>2, <1>7, <1>10
  <2>3. Fits(ans, p)
    BY <1>8, <2>1 DEF Fits
  <2> QED BY <1>6, <1>8, <2>1, <2>2, <2>3 DEF Poisoned
<1>11. Right
  BY <1>9, <1>10
<1> QED BY <1>11 DEF ans, heard, tax

LEMMA ClassifyKeeps ==
  ASSUME IntentInv, NEW c \in Calls, Classify(c) PROVE IntentInv'
<1> DEFINE q == call[c]
           p == q.pod
<1>1. q.pc = "classify" /\ UNCHANGED <<hybrid, pod, redis, starts>>
  BY DEF Classify
<1>2. PICK e \in Evidence(p) : LET ans == Concluded(p, e) IN
        /\ call' = [call EXCEPT ![c] = [q EXCEPT
             !.pc = IF Poisoned(ans) THEN "answered" ELSE "store",
             !.src = "model", !.ans = ans, !.heard = Heard(e)]]
        /\ lru' = IF Poisoned(ans) THEN lru
                  ELSE [lru EXCEPT ![p] = Newest(p, q.text, ans)]
  BY Zenon DEF Classify
<1> DEFINE ans == Concluded(p, e)
           heard == Heard(e)
           got == [q EXCEPT !.pc = IF Poisoned(ans) THEN "answered" ELSE "store",
                            !.src = "model", !.ans = ans, !.heard = heard]
<1>3. PodInv /\ LruInv /\ RedisInv /\ CallInv
  BY DEF IntentInv
<1>4. PodInv' /\ RedisInv' /\ (lru' = lru => LruInv')
  BY <1>1, PodsUnmoved
<1>5. /\ q \in Request /\ p \in Pods /\ q.text \in Texts /\ pod[p].life = "up"
  BY <1>1, <1>3, Asking DEF Sound, SoundFor, Request
<1>6. /\ ans \in IntentAnswer /\ heard \in SUBSET Labels /\ Fits(ans, p)
      /\ hybrid /\ ~Poisoned(ans) => ans.by = pod[p].gen
      /\ hybrid => IF ans.label = U THEN heard \cap Taxonomy[pod[p].ver] = {}
                                    ELSE ans.label \in heard
  <2> HIDE DEF q
  <2> QED BY <1>3, <1>5, ConcludedRight
<1>7. call' = [call EXCEPT ![c] = got]
      /\ lru' = IF Poisoned(ans) THEN lru ELSE [lru EXCEPT ![p] = Newest(p, q.text, ans)]
  BY <1>2
<1> HIDE DEF q, ans, heard
<1>8. /\ got \in Request /\ got.pod = p /\ got.ans = ans /\ got.src = "model"
      /\ got.heard = heard /\ got.pc = IF Poisoned(ans) THEN "answered" ELSE "store"
  BY <1>5, <1>6 DEF Request
<1> HIDE DEF got
<1>9. Sound(got)
  BY <1>5, <1>6, <1>8 DEF Sound, SoundFor, Fits
<1>10. CallInv'
  BY <1>1, <1>3, <1>7, <1>9, CallSet
<1>11. LruInv'
  <2>1. CASE Poisoned(ans)
    BY <1>4, <1>7, <2>1
  <2>2. CASE ~Poisoned(ans)
    <3>1. Own(ans, p)
      BY <1>6, <2>2 DEF Own
    <3>2. lru' = [lru EXCEPT ![p] = Newest(p, q.text, ans)]
      BY <1>7, <2>2
    <3> QED BY <1>1, <1>3, <1>5, <1>6, <3>1, <3>2, LruSet
  <2> QED BY <2>1, <2>2
<1> QED BY <1>4, <1>10, <1>11 DEF IntentInv

-----------------------------------------------------------------------------
(* The life of a pod *)

\* A pod that moves and leaves every request where it was.
LEMMA CallsKept ==
  ASSUME CallInv, UNCHANGED <<hybrid, call>>,
         \A q \in Pods : pod[q].life = "up" => Kept(q) /\ pod'[q].life = "up"
  PROVE  CallInv'
<1>1. ASSUME NEW c \in Calls PROVE call'[c] = Unasked \/ SoundFor(call'[c], hybrid', pod')
  <2>1. CASE call[c] = Unasked
    BY <2>1
  <2>2. CASE Sound(call[c])
    <3>1. call[c].pod \in Pods /\ pod[call[c].pod].life = "up"
      BY <2>2 DEF Sound, SoundFor, Request
    <3>2. Sound(call[c])'
      BY <2>2, <3>1 DEF Kept, Sound, SoundFor
    <3> QED BY <3>2 DEF Sound
  <2> QED BY <2>1, <2>2 DEF CallInv
<1> QED BY <1>1 DEF CallInv, Sound

LEMMA LruKept ==
  ASSUME LruInv, hybrid' = hybrid, DOMAIN lru' = Pods, lru' = [q \in Pods |-> lru'[q]],
         \A q \in Pods : lru'[q] = <<>> \/ (lru'[q] = lru[q] /\ Kept(q))
  PROVE  LruInv'
<1>1. ASSUME NEW q \in Pods
      PROVE  /\ lru'[q] \in Seq(Entry) /\ Len(lru'[q]) <= LruMax
             /\ \A a \in AnswersOf(lru'[q]) : Fits(a, q)' /\ Own(a, q)'
  <2>1. CASE lru'[q] = <<>>
    <3>1. <<>> \in Seq(Entry) /\ Len(<<>>) = 0
      OBVIOUS
    <3>2. \A s : s = <<>> => AnswersOf(s) = {}
      BY <3>1 DEF AnswersOf
    <3>3. AnswersOf(lru'[q]) = {}
      BY <2>1, <3>2
    <3> QED BY <2>1, <3>1, <3>3
  <2>2. CASE lru'[q] = lru[q] /\ Kept(q)
    <3>1. lru[q] \in Seq(Entry) /\ Len(lru[q]) <= LruMax
      BY DEF LruInv
    <3>2. \A a \in AnswersOf(lru[q]) : Fits(a, q)' /\ Own(a, q)'
      BY <2>2, AnswerKept DEF LruInv
    <3> QED BY <2>2, <3>1, <3>2 DEF AnswersOf
  <2> QED BY <2>1, <2>2
<1>2. lru' \in [Pods -> Seq(Entry)]
  BY <1>1
<1> QED BY <1>1, <1>2 DEF LruInv, AnswersOf, Fits, Own

LEMMA StartKeeps ==
  ASSUME IntentInv, NEW p \in Pods, StartPod(p) PROVE IntentInv'
<1> DEFINE solo == \A o \in Pods : o # p => pod[o].life = "down"
           todo == {k \in Keys : redis[k] # NoHit}
<1>1. PodInv /\ LruInv /\ RedisInv /\ CallInv
  BY DEF IntentInv
<1>2. /\ pod[p].life = "down" /\ starts < MaxStarts /\ starts' = starts + 1
      /\ lru' = [lru EXCEPT ![p] = <<>>] /\ UNCHANGED <<hybrid, redis, call>>
  BY DEF StartPod
<1>3. PICK v \in Versions, nli \in {TRUE, ~hybrid} :
        pod' = [q \in Pods |->
          IF q = p THEN [life |-> IF hybrid THEN "flushing" ELSE "up", ver |-> v,
                         nli |-> nli, gen |-> starts + 1, todo |-> todo, alone |-> solo]
                   ELSE [pod[q] EXCEPT !.alone = FALSE]]
  BY Zenon DEF StartPod
<1>4. /\ hybrid \in BOOLEAN /\ starts \in 0..MaxStarts /\ solo \in BOOLEAN
      /\ todo \in SUBSET Keys /\ nli \in BOOLEAN
  BY <1>1, <1>3 DEF PodInv
<1> DEFINE life == IF hybrid THEN "flushing" ELSE "up"
           gen  == starts + 1
<1>5. life \in {"flushing", "up"} /\ (hybrid => life = "flushing") /\ gen \in 0..MaxStarts
  BY <1>2, <1>4
<1>6. solo => \A o \in Pods : o # p => pod[o].life = "down"
  OBVIOUS
<1>7. \A k \in Keys : redis[k] # NoHit => k \in todo
  OBVIOUS
<1> HIDE DEF life, gen, solo, todo
<1>8. /\ pod'[p] \in Pod /\ pod'[p].life = life /\ pod'[p].todo = todo
      /\ pod'[p].alone = solo
  <2>1. pod'[p] = [life |-> life, ver |-> v, nli |-> nli, gen |-> gen,
                   todo |-> todo, alone |-> solo]
    BY <1>3 DEF life, gen
  <2> QED BY <1>4, <1>5, <2>1 DEF Pod
<1>9. ASSUME NEW q \in Pods, q # p
      PROVE  /\ pod'[q] \in Pod /\ pod'[q].alone = FALSE /\ pod'[q].life = pod[q].life
             /\ pod'[q].todo = pod[q].todo /\ Kept(q)
  <2>1. pod'[q] = [pod[q] EXCEPT !.alone = FALSE] /\ pod[q] \in Pod
    BY <1>1, <1>3, <1>9 DEF PodInv
  <2>2. /\ pod'[q] \in Pod /\ pod'[q].alone = FALSE /\ pod'[q].life = pod[q].life
        /\ pod'[q].todo = pod[q].todo /\ pod'[q].ver = pod[q].ver /\ pod'[q].gen = pod[q].gen
    BY <2>1 DEF Pod
  <2> QED BY <2>2 DEF Kept
<1>10. PodInv'
  <2>1. pod' \in [Pods -> Pod]
    BY <1>3, <1>8, <1>9
  <2>2. ASSUME NEW q \in Pods
        PROVE  /\ pod'[q].alone => /\ pod'[q].life # "down"
                                   /\ \A o \in Pods : o # q => pod'[o].life = "down"
               /\ hybrid /\ pod'[q].life = "up" => pod'[q].todo = {}
    <3>1. CASE q = p
      <4>1. \A o \in Pods : o # p => pod'[o].life = pod[o].life
        BY <1>9
      <4>2. solo => \A o \in Pods : o # p => pod'[o].life = "down"
        BY <1>6, <4>1
      <4>3. pod'[p].life # "down" /\ (hybrid => pod'[p].life # "up")
        BY <1>5, <1>8
      <4> QED BY <1>8, <3>1, <4>2, <4>3, Zenon
    <3>2. CASE q # p
      BY <1>1, <1>9, <3>2 DEF PodInv
    <3> QED BY <3>1, <3>2
  <2>3. starts' \in 0..MaxStarts
    BY <1>2, <1>4
  <2> QED BY <1>2, <1>4, <2>1, <2>2, <2>3 DEF PodInv
<1>11. LruInv'
  <2>1. DOMAIN lru' = Pods /\ lru' = [q \in Pods |-> lru'[q]]
    BY <1>1, <1>2 DEF LruInv
  <2>2. \A q \in Pods : lru'[q] = <<>> \/ (lru'[q] = lru[q] /\ Kept(q))
    BY <1>1, <1>2, <1>9 DEF LruInv
  <2> QED BY <1>1, <1>2, <2>1, <2>2, LruKept
<1>12. RedisInv'
  <2>1. \A k \in Keys, q \in Pods : redis[k] # NoHit =>
          k \in pod'[q].todo \/ ~pod'[q].alone
    BY <1>7, <1>8, <1>9
  <2> QED BY <1>1, <1>2, <2>1 DEF RedisInv, Own
<1>13. CallInv'
  BY <1>1, <1>2, <1>9, CallsKept
<1> QED BY <1>10, <1>11, <1>12, <1>13 DEF IntentInv

LEMMA FlushOneKeeps ==
  ASSUME IntentInv, NEW p \in Pods, FlushOne(p) PROVE IntentInv'
<1>1. PodInv /\ LruInv /\ RedisInv /\ CallInv
  BY DEF IntentInv
<1>2. pod[p].life = "flushing" /\ UNCHANGED <<hybrid, lru, call, starts>>
  BY DEF FlushOne
<1>3. PICK k \in Keys : /\ redis' = [redis EXCEPT ![k] = NoHit]
                        /\ pod' = [pod EXCEPT ![p].todo = @ \ {k}]
  BY DEF FlushOne
<1>4. pod \in [Pods -> Pod]
  BY <1>1 DEF PodInv
<1>5. /\ pod'[p] \in Pod /\ pod'[p].life = "flushing" /\ pod'[p].todo = pod[p].todo \ {k}
      /\ Kept(p) /\ pod'[p].alone = pod[p].alone
  <2>1. pod'[p] = [pod[p] EXCEPT !.todo = @ \ {k}] /\ pod[p] \in Pod
    BY <1>3, <1>4
  <2> QED BY <1>2, <2>1 DEF Pod, Kept
<1>6. \A q \in Pods : q # p => pod'[q] = pod[q] /\ Kept(q)
  BY <1>3, <1>4 DEF Kept
<1>7. PodInv'
  <2>1. pod' \in [Pods -> Pod]
    BY <1>3, <1>4, <1>5, <1>6
  <2> QED BY <1>1, <1>2, <1>5, <1>6, <2>1 DEF PodInv
<1>8. LruInv'
  <2>1. DOMAIN lru' = Pods /\ lru' = [q \in Pods |-> lru'[q]]
    BY <1>1, <1>2 DEF LruInv
  <2>2. \A q \in Pods : lru'[q] = lru[q] /\ Kept(q)
    BY <1>2, <1>5, <1>6
  <2> QED BY <1>1, <1>2, <2>1, <2>2, LruKept
<1>9. RedisInv'
  <2>1. /\ redis' \in [Keys -> IntentAnswer \union {NoHit}] /\ redis'[k] = NoHit
        /\ \A j \in Keys : j # k => redis'[j] = redis[j]
    BY <1>1, <1>3 DEF RedisInv
  <2>2. ASSUME NEW j \in Keys, redis'[j] # NoHit
        PROVE  /\ redis'[j].label \in Taxonomy[j[1][1]] \union {U}
               /\ \A q \in Pods : j \in pod'[q].todo \/
                    (hybrid' /\ pod'[q].alone => redis'[j].by = pod'[q].gen)
    <3>1. j # k /\ redis'[j] = redis[j] /\ redis[j] # NoHit
      BY <2>1, <2>2
    <3>2. ASSUME NEW q \in Pods
          PROVE  j \in pod'[q].todo \/
                   (hybrid' /\ pod'[q].alone => redis[j].by = pod'[q].gen)
      <4>1. j \in pod[q].todo \/ (hybrid /\ pod[q].alone => redis[j].by = pod[q].gen)
        BY <1>1, <3>1 DEF RedisInv, Own
      <4>2. j \in pod[q].todo => j \in pod'[q].todo
        BY <1>5, <1>6, <3>1
      <4>3. Kept(q)
        BY <1>5, <1>6
      <4> QED BY <1>2, <4>1, <4>2, <4>3 DEF Kept
    <3>3. redis[j].label \in Taxonomy[j[1][1]] \union {U}
      BY <1>1, <3>1 DEF RedisInv
    <3> QED BY <3>1, <3>2, <3>3
  <2> QED BY <2>1, <2>2 DEF RedisInv, Own
<1>10. CallInv'
  BY <1>1, <1>2, <1>6, CallsKept
<1> QED BY <1>7, <1>8, <1>9, <1>10 DEF IntentInv

Ended(old, still) == [old EXCEPT !.life = "up", !.todo = {}, !.alone = still]

LEMMA FlushEnded ==
  ASSUME NEW old \in Pod, NEW still \in BOOLEAN
  PROVE  LET new == Ended(old, still) IN
         /\ new \in Pod /\ new.life = "up" /\ new.todo = {}
         /\ new.alone = still /\ new.ver = old.ver /\ new.gen = old.gen
<1> DEFINE new == Ended(old, still)
<1>1. new = [old EXCEPT !.life = "up", !.todo = {}, !.alone = still]
  BY DEF Ended
<1> HIDE DEF new
<1>2. new = [life |-> "up", ver |-> old.ver, nli |-> old.nli, gen |-> old.gen,
             todo |-> {}, alone |-> still]
  BY <1>1 DEF Pod
<1>3. /\ new \in Pod /\ new.life = "up" /\ new.todo = {}
      /\ new.alone = still /\ new.ver = old.ver /\ new.gen = old.gen
  BY <1>2 DEF Pod
<1> QED BY <1>3 DEF new

LEMMA FlushEndKeeps ==
  ASSUME IntentInv, NEW p \in Pods, FlushEnd(p) PROVE IntentInv'
<1>1. PodInv /\ LruInv /\ RedisInv /\ CallInv
  BY DEF IntentInv
<1>2. pod[p].life = "flushing" /\ UNCHANGED <<hybrid, lru, redis, call, starts>>
  BY DEF FlushEnd
<1> DEFINE still == pod[p].alone /\ pod[p].todo = {}
<1>3. pod \in [Pods -> Pod]
  BY <1>1 DEF PodInv
<1>4. /\ pod' = [pod EXCEPT ![p] = [pod[p] EXCEPT !.life = "up", !.todo = {},
                                                  !.alone = still]]
      /\ still \in BOOLEAN
  BY <1>3 DEF FlushEnd
<1>5. still => pod[p].alone /\ pod[p].todo = {}
  OBVIOUS
<1> HIDE DEF still
<1>6. /\ pod'[p] \in Pod /\ pod'[p].life = "up" /\ pod'[p].todo = {}
      /\ Kept(p) /\ pod'[p].alone = still
  <2>1. pod'[p] = Ended(pod[p], still) /\ pod[p] \in Pod
    BY <1>3, <1>4 DEF Ended
  <2>2. /\ pod'[p] \in Pod /\ pod'[p].life = "up" /\ pod'[p].todo = {}
        /\ pod'[p].alone = still /\ pod'[p].ver = pod[p].ver /\ pod'[p].gen = pod[p].gen
    BY <1>4, <2>1, FlushEnded
  <2> QED BY <1>5, <2>2 DEF Kept
<1>7. \A q \in Pods : q # p => pod'[q] = pod[q] /\ Kept(q)
  BY <1>3, <1>4 DEF Kept
<1>8. PodInv'
  <2>1. pod' \in [Pods -> Pod]
    BY <1>3, <1>4, <1>6, <1>7
  <2> QED BY <1>1, <1>2, <1>5, <1>6, <1>7, <2>1 DEF PodInv
<1>9. LruInv'
  <2>1. DOMAIN lru' = Pods /\ lru' = [q \in Pods |-> lru'[q]]
    BY <1>1, <1>2 DEF LruInv
  <2>2. \A q \in Pods : lru'[q] = lru[q] /\ Kept(q)
    BY <1>2, <1>6, <1>7
  <2> QED BY <1>1, <1>2, <2>1, <2>2, LruKept
<1>10. RedisInv'
  <2>1. ASSUME NEW k \in Keys, redis[k] # NoHit, NEW q \in Pods
        PROVE  k \in pod'[q].todo \/ Own(redis[k], q)'
    <3>1. k \in pod[q].todo \/ Own(redis[k], q)
      BY <1>1, <2>1 DEF RedisInv
    <3>2. CASE q = p
      BY <1>2, <1>5, <1>6, <3>1, <3>2 DEF Own, Kept
    <3>3. CASE q # p
      BY <1>2, <1>7, <3>1, <3>3 DEF Own
    <3> QED BY <3>2, <3>3
  <2> QED BY <1>1, <1>2, <2>1 DEF RedisInv, Own
<1>11. CallInv'
  BY <1>1, <1>2, <1>7, CallsKept
<1> QED BY <1>8, <1>9, <1>10, <1>11 DEF IntentInv

LEMMA StopKeeps ==
  ASSUME IntentInv, NEW p \in Pods, StopPod(p) PROVE IntentInv'
<1>1. PodInv /\ LruInv /\ RedisInv /\ CallInv
  BY DEF IntentInv
<1>2. /\ pod' = [pod EXCEPT ![p] = Down] /\ lru' = [lru EXCEPT ![p] = <<>>]
      /\ call' = [c \in Calls |->
           IF call[c].pc # "idle" /\ call[c].pod = p THEN Unasked ELSE call[c]]
      /\ UNCHANGED <<hybrid, redis, starts>>
  BY DEF StopPod
<1>3. pod \in [Pods -> Pod]
  BY <1>1 DEF PodInv
<1>4. /\ pod'[p] \in Pod /\ pod'[p].life = "down" /\ pod'[p].alone = FALSE
      /\ pod'[p].todo = {}
  BY <1>2, <1>3, DownIsPod
<1>5. \A q \in Pods : q # p => pod'[q] = pod[q] /\ Kept(q)
  BY <1>2, <1>3 DEF Kept
<1>6. PodInv'
  <2>1. pod' \in [Pods -> Pod]
    BY <1>2, <1>3, <1>4, <1>5
  <2> QED BY <1>1, <1>2, <1>4, <1>5, <2>1 DEF PodInv
<1>7. LruInv'
  <2>1. DOMAIN lru' = Pods /\ lru' = [q \in Pods |-> lru'[q]]
    BY <1>1, <1>2 DEF LruInv
  <2>2. \A q \in Pods : lru'[q] = <<>> \/ (lru'[q] = lru[q] /\ Kept(q))
    BY <1>1, <1>2, <1>5 DEF LruInv
  <2> QED BY <1>1, <1>2, <2>1, <2>2, LruKept
<1>8. RedisInv'
  <2>1. ASSUME NEW k \in Keys, redis[k] # NoHit, NEW q \in Pods
        PROVE  k \in pod'[q].todo \/ Own(redis[k], q)'
    <3>1. k \in pod[q].todo \/ Own(redis[k], q)
      BY <1>1, <2>1 DEF RedisInv
    <3>2. CASE q = p
      BY <1>4, <3>2 DEF Own
    <3>3. CASE q # p
      BY <1>2, <1>5, <3>1, <3>3 DEF Own
    <3> QED BY <3>2, <3>3
  <2> QED BY <1>1, <1>2, <2>1 DEF RedisInv, Own
<1>9. CallInv'
  <2>1. ASSUME NEW c \in Calls
        PROVE  call'[c] = Unasked \/ SoundFor(call'[c], hybrid', pod')
    <3>1. CASE call'[c] = Unasked
      BY <3>1
    <3>2. CASE call'[c] # Unasked
      <4>1. call'[c] = call[c] /\ call[c] # Unasked
        BY <1>2, <3>2
      <4>2. call[c] \in Request /\ Sound(call[c])
        BY <1>1, <4>1 DEF CallInv, Sound, SoundFor
      <4>3. call[c].pod \in Pods /\ call[c].pod # p
        BY <1>2, <3>2, <4>2, Asked DEF Request
      <4>4. pod'[call[c].pod] = pod[call[c].pod]
        BY <1>5, <4>3
      <4>5. SoundFor(call[c], hybrid', pod')
        BY <1>2, <4>2, <4>4 DEF Sound, SoundFor
      <4> QED BY <4>1, <4>5
    <3> QED BY <3>1, <3>2
  <2>2. call' \in [Calls -> Request \union {Unasked}]
    BY <1>1, <1>2 DEF CallInv
  <2> QED BY <2>1, <2>2 DEF CallInv, Sound
<1> QED BY <1>6, <1>7, <1>8, <1>9 DEF IntentInv

LEMMA LoseKeeps ==
  ASSUME IntentInv, Lose PROVE IntentInv'
<1>1. PICK k \in Keys : redis' = [redis EXCEPT ![k] = NoHit]
  BY DEF Lose
<1>2. UNCHANGED <<hybrid, pod, lru, call, starts>>
  BY DEF Lose
<1>3. PodInv' /\ LruInv'
  BY <1>2, PodsUnmoved
<1>4. RedisInv'
  <2>1. /\ redis' \in [Keys -> IntentAnswer \union {NoHit}]
        /\ \A j \in Keys : redis'[j] # NoHit => redis'[j] = redis[j]
    BY <1>1 DEF IntentInv, RedisInv
  <2> QED BY <1>2, <2>1 DEF IntentInv, RedisInv, Own
<1>5. CallInv'
  BY <1>2 DEF IntentInv, CallInv, Sound
<1> QED BY <1>3, <1>4, <1>5 DEF IntentInv

-----------------------------------------------------------------------------
(* The invariant, and what follows from it *)

LEMMA IntentNextKeeps ==
  ASSUME IntentInv, [IntentNext]_intentVars PROVE IntentInv'
<1>1. ASSUME NEW p \in Pods, StartPod(p) \/ FlushOne(p) \/ FlushEnd(p) \/ StopPod(p)
      PROVE  IntentInv'
  BY <1>1, StartKeeps, FlushOneKeeps, FlushEndKeeps, StopKeeps
<1>2. ASSUME NEW c \in Calls, Lookup(c) \/ Classify(c) \/ StoreAnswer(c) \/ Route(c)
      PROVE  IntentInv'
  BY <1>2, LookupKeeps, ClassifyKeeps, StoreKeeps, RouteKeeps
<1>3. ASSUME UNCHANGED intentVars PROVE IntentInv'
  <2>1. UNCHANGED <<hybrid, pod, lru, redis, call, starts>>
    BY <1>3 DEF intentVars
  <2>2. PodInv' /\ LruInv' /\ RedisInv'
    BY <2>1, PodsUnmoved
  <2>3. CallInv'
    BY <2>1 DEF IntentInv, CallInv, Sound
  <2> QED BY <2>2, <2>3 DEF IntentInv
<1> QED BY <1>1, <1>2, <1>3, LoseKeeps, ReceiveKeeps DEF IntentNext

LEMMA IntentInitEstablishes ==
  ASSUME IntentInit PROVE IntentInv
<1>1. PodInv
  BY DownIsPod DEF IntentInit, PodInv
<1>2. LruInv
  BY DEF IntentInit, LruInv, AnswersOf
<1>3. RedisInv
  BY DEF IntentInit, RedisInv
<1>4. CallInv
  BY DEF IntentInit, CallInv
<1> QED BY <1>1, <1>2, <1>3, <1>4 DEF IntentInv

LEMMA IntentInvariant == IntentSpec => []IntentInv
<1>1. IntentInit => IntentInv
  BY IntentInitEstablishes
<1>2. IntentInv /\ [IntentNext]_intentVars => IntentInv'
  BY IntentNextKeeps
<1> QED BY <1>1, <1>2, PTL DEF IntentSpec

\* Every variable of the classifier stays in its type, and no LRU of a pod
\* outgrows INTENT_CLASSIFIER_LRU_MAX.
THEOREM IntentTypeCorrect == IntentSpec => []IntentTypeOK
<1>1. IntentInv => IntentTypeOK
  <2> SUFFICES ASSUME IntentInv PROVE IntentTypeOK
    OBVIOUS
  <2>1. /\ hybrid \in BOOLEAN /\ starts \in 0..MaxStarts
        /\ pod \in [Pods -> [life : {"down", "flushing", "up"}, ver : Versions,
                       nli : BOOLEAN, gen : 0..MaxStarts, todo : SUBSET Keys,
                       alone : BOOLEAN]]
    BY DEF IntentInv, PodInv, Pod
  <2>2. \A p \in Pods : Len(lru[p]) <= LruMax
    BY DEF IntentInv, LruInv
  <2>3. \A k \in Keys : redis[k] \in IntentAnswer \union {NoHit}
    BY DEF IntentInv, RedisInv
  <2>4. ASSUME NEW c \in Calls, call[c] # Unasked
        PROVE  /\ call[c].pc \in {"lookup", "classify", "store", "answered"}
               /\ call[c].ans \in IntentAnswer /\ call[c].heard \subseteq Labels
    <3>1. call[c] \in Request
      BY <2>4 DEF IntentInv, CallInv
    <3> QED BY <3>1 DEF Request
  <2> QED BY <2>1, <2>2, <2>3, <2>4 DEF IntentTypeOK
<1> QED BY <1>1, IntentInvariant, PTL

\* While pods of two versions of the taxonomy share one Redis, an answer is one
\* its pod could have given: a label that pod has read, of the production service
\* never a cached mark of failure, and unclassified afresh only when no
\* classifier had a label.
THEOREM AnswersFitTheirPod == IntentSpec => []AnswerFitsPod
<1>1. IntentInv => AnswerFitsPod
  <2> SUFFICES ASSUME IntentInv, NEW c \in Calls, call[c].pc \in {"store", "answered"}
               PROVE  LET tax == Taxonomy[pod[call[c].pod].ver]
                          ans == call[c].ans
                      IN /\ ans.label \in tax \union {U}
                         /\ hybrid /\ call[c].src = "cache" =>
                              ~(ans.label = U /\ ans.score = 0)
                         /\ hybrid /\ call[c].src = "model" =>
                              IF ans.label = U THEN call[c].heard \cap tax = {}
                                               ELSE ans.label \in call[c].heard
    BY DEF AnswerFitsPod
  <2>1. Sound(call[c])
    BY Asking DEF IntentInv
  <2> QED BY <2>1 DEF Sound, SoundFor
<1> QED BY <1>1, IntentInvariant, PTL

\* A production pod alone since its start, whose flush succeeded, serves from its
\* caches only what it computed itself.
THEOREM FlushedPodStartsCold == IntentSpec => []ColdCache
<1>1. IntentInv => ColdCache
  <2> SUFFICES ASSUME IntentInv, NEW c \in Calls,
                      FromCache(c), hybrid, pod[call[c].pod].alone
               PROVE  call[c].ans.by = pod[call[c].pod].gen
    BY DEF ColdCache
  <2>1. Sound(call[c])
    BY Asking DEF IntentInv, FromCache
  <2> QED BY <2>1 DEF Sound, SoundFor, FromCache
<1> QED BY <1>1, IntentInvariant, PTL

=============================================================================
