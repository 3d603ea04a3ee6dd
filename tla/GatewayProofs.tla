---------------------------- MODULE GatewayProofs ----------------------------
(***************************************************************************)
(* What stands before the handlers, and the edge's administration.         *)
(*                                                                         *)
(* KeySet for any number of requests, keys and rotations: a rotated key    *)
(* costs only the first refusals.  RefusedOnce is not inductive.  What     *)
(* carries it is that whatever a worker may verify with, the cached set or *)
(* the answer a fetch waits to install, holds every published key that has *)
(* been missed.  For the answer this needs the lock: only its holder       *)
(* fetches, the cache is empty meanwhile, and so nothing new can be missed *)
(* before the answer is used.                                              *)
(*                                                                         *)
(* GatewayNonce for any number of requests and attempts, any clocks and    *)
(* any limits that satisfy WindowAssumption: a signed request is accepted  *)
(* at most once.  What carries AcceptedOnce is a race between two          *)
(* deadlines: that of the timestamp, after which no worker starts to store *)
(* the nonce, and that of the nonce itself.  Limit(m) is the first, with   *)
(* the time a worker may wait for Redis; once a delivery is accepted, the  *)
(* nonce lives for longer than that (Kept), so another worker that is      *)
(* still storing finds it.                                                 *)
(*                                                                         *)
(* EdgeAdmin for any number of admins, paths, plugins and changes: a       *)
(* report joins two answers of Kong, and holds of a path all the same.     *)
(* What carries it is that an id is never used again, so a route read      *)
(* earlier that still is there is the same one (Seen).                     *)
(***************************************************************************)
EXTENDS KeySet, GatewayNonce, EdgeAdmin, FiniteSetTheorems, TLAPS

-----------------------------------------------------------------------------
(* The key set *)

Phases == {"waiting", "fetching", "fetched", "accepted", "unknown", "refused"}
Req == [pc : Phases, kid : Kids, good : BOOLEAN, resp : (SUBSET Kids) \union {NoSet},
        warned : BOOLEAN]

KeyTypeInv ==
  /\ published \subseteq Kids /\ retired \subseteq Kids
  /\ missed \subseteq published \union retired
  /\ jwks \in (SUBSET Kids) \union {NoSet}
  /\ holder \in Users \union {Nobody}
  /\ user \in [Users -> Req \union {Idle}]

Fetches(u) == user[u].pc \in {"fetching", "fetched"}

LockInv ==
  /\ \A u \in Users : Fetches(u) => holder = u
  /\ holder # Nobody => jwks = NoSet

CoverInv ==
  /\ jwks # NoSet => missed \intersect published \subseteq jwks
  /\ \A u \in Users : user[u].pc = "fetched" =>
       /\ user[u].resp \in SUBSET Kids
       /\ missed \intersect published \subseteq user[u].resp

WarnedInv == \A u \in Users : user[u] # Idle => (user[u].warned => user[u].kid \in missed)

KeyInv == KeyTypeInv /\ LockInv /\ CoverInv /\ WarnedInv /\ RefusedOnce

-----------------------------------------------------------------------------
LEMMA NoSetIsNoSet == NoSet \notin SUBSET Kids
BY KeysAssumption

\* What a request record is, so that no proof below has to take it apart.
LEMMA ReqShape ==
  ASSUME NEW r \in Req, NEW pc \in Phases
  PROVE  /\ [r EXCEPT !.pc = pc] \in Req
         /\ [r EXCEPT !.pc = pc].pc = pc
         /\ [r EXCEPT !.pc = pc].kid = r.kid
         /\ [r EXCEPT !.pc = pc].good = r.good
         /\ [r EXCEPT !.pc = pc].resp = r.resp
         /\ [r EXCEPT !.pc = pc].warned = r.warned
         /\ r # Idle /\ r.pc \in Phases /\ r.kid \in Kids
BY DEF Req, Idle, Phases

LEMMA ReqMade ==
  ASSUME NEW pc \in Phases, NEW kid \in Kids, NEW good \in BOOLEAN,
         NEW resp \in (SUBSET Kids) \union {NoSet}, NEW warned \in BOOLEAN
  PROVE  [pc |-> pc, kid |-> kid, good |-> good, resp |-> resp, warned |-> warned] \in Req
BY DEF Req

LEMMA ReqAnswered ==
  ASSUME NEW r \in Req, NEW S \in SUBSET Kids
  PROVE  /\ [r EXCEPT !.resp = S] \in Req
         /\ [r EXCEPT !.resp = S].resp = S
         /\ [r EXCEPT !.resp = S].kid = r.kid
         /\ [r EXCEPT !.resp = S].warned = r.warned
BY DEF Req

\* A verification keeps the invariant, provided that what it verifies with holds
\* the missed keys and that nobody fetches beside it.
LEMMA VerifyKeeps ==
  ASSUME KeyInv, NEW u \in Users, NEW r \in Req, NEW set \in SUBSET Kids,
         r.warned => r.kid \in missed,
         missed \intersect published \subseteq set,
         \A v \in Users \ {u} : ~Fetches(v),
         Verify(u, r, set), holder' = Nobody, UNCHANGED <<published, retired>>
  PROVE  KeyInv'
<1>0. NoSet \notin SUBSET Kids
  BY NoSetIsNoSet
<1> DEFINE pc == IF r.kid \in set /\ r.good THEN "accepted"
                 ELSE IF r.kid \in set THEN "refused" ELSE "unknown"
<1> DEFINE new == [r EXCEPT !.pc = pc]
<1>1. /\ pc \in Phases
      /\ user' = [user EXCEPT ![u] = new]
  BY DEF Verify, To, Phases
<1>2. /\ new \in Req /\ new.pc = pc /\ new.kid = r.kid /\ new.good = r.good
      /\ new.warned = r.warned /\ new # Idle
  BY <1>1, ReqShape
<1>3. /\ user' \in [Users -> Req \union {Idle}]
      /\ user'[u] = new
      /\ \A v \in Users \ {u} : user'[v] = user[v]
  BY <1>1, <1>2 DEF KeyInv, KeyTypeInv
<1>4. pc \in {"accepted", "refused", "unknown"}
  OBVIOUS
<1>5. missed \subseteq missed' /\ missed' \subseteq published \union retired
  BY DEF Verify, KeyInv, KeyTypeInv
<1>6. jwks' \in (SUBSET Kids) \union {NoSet} /\ (jwks' # NoSet => jwks' = set /\ missed' = missed)
  BY DEF Verify
<1>7. pc = "unknown" => r.kid \notin set
  OBVIOUS
<1> HIDE DEF new, pc
<1>8. \A v \in Users : user'[v].pc \notin {"fetching", "fetched"}
  BY <1>2, <1>3, <1>4 DEF Fetches
<1>9. KeyTypeInv'
  BY <1>3, <1>5, <1>6 DEF KeyInv, KeyTypeInv
<1>10. LockInv'
  BY <1>8 DEF LockInv, Fetches
<1>11. CoverInv'
  BY <1>6, <1>8 DEF CoverInv
<1>12. WarnedInv'
  BY <1>2, <1>3, <1>5 DEF WarnedInv, KeyInv
<1>13. RefusedOnce'
  <2> SUFFICES ASSUME NEW v \in Users, user'[v] # Idle, user'[v].pc = "unknown",
                      user'[v].good, user'[v].warned, user'[v].kid \in published
               PROVE  FALSE
    BY DEF RefusedOnce
  <2>1. CASE v = u
    BY <2>1, <1>2, <1>3, <1>7
  <2>2. CASE v # u
    BY <2>2, <1>3 DEF KeyInv, RefusedOnce
  <2> QED BY <2>1, <2>2
<1> QED BY <1>9, <1>10, <1>11, <1>12, <1>13 DEF KeyInv

LEMMA KeyInitEstablishes == KeysInit => KeyInv
<1> SUFFICES ASSUME KeysInit PROVE KeyInv
  OBVIOUS
<1>1. user \in [Users -> Req \union {Idle}] /\ \A u \in Users : user[u] = Idle /\ user[u].pc = "idle"
  BY DEF KeysInit, Idle
<1>2. KeyTypeInv
  BY <1>1 DEF KeysInit, KeyTypeInv
<1> QED
  BY <1>1, <1>2 DEF KeysInit, KeyInv, LockInv, CoverInv, WarnedInv, RefusedOnce, Fetches, Idle

\* A step that changes one request's place, and neither keys nor cache, keeps what
\* is known of the others.
LEMMA OthersKeep ==
  ASSUME KeyInv, NEW u \in Users, NEW new \in Req \union {Idle},
         user' = [user EXCEPT ![u] = new],
         UNCHANGED <<published, retired, missed>>
  PROVE  /\ user' \in [Users -> Req \union {Idle}]
         /\ user'[u] = new
         /\ \A v \in Users \ {u} : user'[v] = user[v]
         /\ ((new # Idle => (new.warned => new.kid \in missed)) => WarnedInv')
         /\ ((new # Idle => new.pc # "unknown") => RefusedOnce')
<1>1. /\ user' \in [Users -> Req \union {Idle}]
      /\ user'[u] = new
      /\ \A v \in Users \ {u} : user'[v] = user[v]
  BY DEF KeyInv, KeyTypeInv
<1>2. ASSUME new # Idle => (new.warned => new.kid \in missed) PROVE WarnedInv'
  BY <1>1, <1>2 DEF KeyInv, WarnedInv
<1>3. ASSUME new # Idle => new.pc # "unknown" PROVE RefusedOnce'
  BY <1>1, <1>3 DEF KeyInv, RefusedOnce
<1> QED BY <1>1, <1>2, <1>3

LEMMA RotateKeeps == ASSUME KeyInv, Rotate PROVE KeyInv'
<1>1. PICK k \in Kids \ (published \union retired) : published' = published \union {k}
  BY DEF Rotate
<1>2. UNCHANGED <<retired, jwks, holder, user, missed>>
  BY DEF Rotate
<1>3. k \notin missed
  BY <1>1 DEF KeyInv, KeyTypeInv
<1>4. missed' \intersect published' = missed \intersect published
  BY <1>1, <1>2, <1>3
<1>5. KeyTypeInv'
  BY <1>1, <1>2 DEF KeyInv, KeyTypeInv
<1>6. LockInv' /\ WarnedInv'
  BY <1>2 DEF KeyInv, LockInv, WarnedInv, Fetches
<1>7. CoverInv'
  BY <1>2, <1>4 DEF KeyInv, CoverInv
<1>8. RefusedOnce'
  BY <1>1, <1>2, <1>3 DEF KeyInv, RefusedOnce, WarnedInv
<1> QED BY <1>5, <1>6, <1>7, <1>8 DEF KeyInv

LEMMA RetireKeeps == ASSUME KeyInv, Retire PROVE KeyInv'
<1>1. PICK k \in published : published' = published \ {k} /\ retired' = retired \union {k}
  BY DEF Retire
<1>2. UNCHANGED <<jwks, holder, user, missed>>
  BY DEF Retire
<1>3. KeyTypeInv'
  BY <1>1, <1>2 DEF KeyInv, KeyTypeInv
<1>4. LockInv' /\ WarnedInv'
  BY <1>2 DEF KeyInv, LockInv, WarnedInv, Fetches
<1>5. CoverInv'
  BY <1>1, <1>2 DEF KeyInv, CoverInv
<1>6. RefusedOnce'
  BY <1>1, <1>2 DEF KeyInv, RefusedOnce
<1> QED BY <1>3, <1>4, <1>5, <1>6 DEF KeyInv

LEMMA BeginKeeps == ASSUME KeyInv, NEW u \in Users, Begin(u) PROVE KeyInv'
<1> DEFINE req(t) == [pc |-> "waiting", kid |-> t.kid, good |-> t.good, resp |-> NoSet,
                      warned |-> t.kid \in missed]
<1>1. PICK t \in Token : IF jwks # NoSet THEN Verify(u, req(t), jwks)
                         ELSE user' = [user EXCEPT ![u] = req(t)] /\ UNCHANGED <<jwks, missed>>
  BY DEF Begin
<1>2. UNCHANGED <<published, retired, holder>>
  BY DEF Begin
<1>3. /\ req(t) \in Req /\ req(t).pc = "waiting"
      /\ req(t).warned => req(t).kid \in missed
  <2>1. /\ t.kid \in Kids /\ t.good \in BOOLEAN /\ "waiting" \in Phases
        /\ NoSet \in (SUBSET Kids) \union {NoSet} /\ (t.kid \in missed) \in BOOLEAN
    BY DEF Token, Phases
  <2>2. req(t) \in Req
    BY <2>1, ReqMade, Zenon
  <2>3. /\ req(t).pc = "waiting" /\ req(t).kid = t.kid
        /\ req(t).warned = (t.kid \in missed)
    BY Zenon
  <2> QED BY <2>2, <2>3
<1> DEFINE r == req(t)
<1> HIDE DEF req
<1>4. CASE jwks # NoSet
  <2>1. Verify(u, r, jwks) /\ jwks \in SUBSET Kids
    BY <1>1, <1>4 DEF KeyInv, KeyTypeInv
  <2>2. holder = Nobody /\ \A v \in Users \ {u} : ~Fetches(v)
    BY <1>4, KeysAssumption DEF KeyInv, LockInv, Nobody
  <2>3. missed \intersect published \subseteq jwks
    BY <1>4 DEF KeyInv, CoverInv
  <2> QED BY <1>2, <1>3, <2>1, <2>2, <2>3, VerifyKeeps
<1>5. CASE jwks = NoSet
  <2>1. user' = [user EXCEPT ![u] = r] /\ UNCHANGED <<jwks, missed>>
    BY <1>1, <1>5
  <2>2. /\ user' \in [Users -> Req \union {Idle}]
        /\ user'[u] = r
        /\ \A v \in Users \ {u} : user'[v] = user[v]
        /\ WarnedInv' /\ RefusedOnce'
    BY <1>2, <1>3, <2>1, OthersKeep
  <2>3. KeyTypeInv'
    BY <1>2, <2>1, <2>2 DEF KeyInv, KeyTypeInv
  <2>4. LockInv' /\ CoverInv'
    BY <1>2, <1>3, <2>1, <2>2 DEF KeyInv, LockInv, CoverInv, Fetches
  <2> QED BY <2>2, <2>3, <2>4 DEF KeyInv
<1> QED BY <1>4, <1>5

LEMMA AcquireKeeps == ASSUME KeyInv, NEW u \in Users, Acquire(u) PROVE KeyInv'
<1>1. user[u].pc = "waiting" /\ holder = Nobody /\ UNCHANGED <<published, retired>>
  BY DEF Acquire
<1>2. user[u] \in Req /\ user[u] # Idle
  BY <1>1 DEF KeyInv, KeyTypeInv, Idle
<1>3. user[u].warned => user[u].kid \in missed
  BY <1>2 DEF KeyInv, WarnedInv
<1>4. \A v \in Users : ~Fetches(v)
  BY <1>1, KeysAssumption DEF KeyInv, LockInv, Nobody
<1>5. CASE jwks # NoSet
  <2>1. Verify(u, user[u], jwks) /\ holder' = Nobody /\ jwks \in SUBSET Kids
    BY <1>1, <1>5 DEF Acquire, KeyInv, KeyTypeInv
  <2>2. missed \intersect published \subseteq jwks
    BY <1>5 DEF KeyInv, CoverInv
  <2> QED BY <1>1, <1>2, <1>3, <1>4, <2>1, <2>2, VerifyKeeps
<1>6. CASE jwks = NoSet
  <2> DEFINE new == [user[u] EXCEPT !.pc = "fetching"]
  <2>1. user' = [user EXCEPT ![u] = new] /\ holder' = u /\ UNCHANGED <<jwks, missed>>
    BY <1>6 DEF Acquire, To
  <2>2. /\ new \in Req /\ new.pc = "fetching"
        /\ new.warned = user[u].warned /\ new.kid = user[u].kid
    <3>1. "fetching" \in Phases
      BY DEF Phases
    <3> QED BY <1>2, <3>1, ReqShape, Zenon
  <2> HIDE DEF new
  <2>3. /\ user' \in [Users -> Req \union {Idle}]
        /\ user'[u] = new
        /\ \A v \in Users \ {u} : user'[v] = user[v]
        /\ WarnedInv' /\ RefusedOnce'
    BY <1>1, <1>3, <2>1, <2>2, OthersKeep
  <2>4. KeyTypeInv'
    BY <1>1, <2>1, <2>3 DEF KeyInv, KeyTypeInv
  <2>5. LockInv'
    BY <1>4, <1>6, <2>1, <2>3 DEF LockInv, Fetches
  <2>6. CoverInv'
    BY <1>1, <1>6, <2>1, <2>2, <2>3 DEF KeyInv, CoverInv
  <2> QED BY <2>3, <2>4, <2>5, <2>6 DEF KeyInv
<1> QED BY <1>5, <1>6

LEMMA RespondKeeps == ASSUME KeyInv, NEW u \in Users, Respond(u) PROVE KeyInv'
<1> DEFINE mid == [user[u] EXCEPT !.resp = published]
<1> DEFINE new == [mid EXCEPT !.pc = "fetched"]
<1>1. /\ user[u].pc = "fetching"
      /\ user' = [user EXCEPT ![u] = new]
      /\ UNCHANGED <<published, retired, jwks, holder, missed>>
  BY DEF Respond, To
<1>2. user[u] \in Req /\ user[u] # Idle /\ Fetches(u)
  BY <1>1 DEF KeyInv, KeyTypeInv, Idle, Fetches
<1>3. mid \in Req /\ mid.resp = published /\ mid.kid = user[u].kid /\ mid.warned = user[u].warned
  <2>1. published \in SUBSET Kids
    BY DEF KeyInv, KeyTypeInv
  <2> QED BY <1>2, <2>1, ReqAnswered
<1> HIDE DEF mid
<1>4. /\ new \in Req /\ new.pc = "fetched" /\ new.resp = published
      /\ new.warned = user[u].warned /\ new.kid = user[u].kid
  <2>1. "fetched" \in Phases
    BY DEF Phases
  <2> QED BY <1>3, <2>1, ReqShape
<1> HIDE DEF new
<1>5. /\ user' \in [Users -> Req \union {Idle}]
      /\ user'[u] = new
      /\ \A v \in Users \ {u} : user'[v] = user[v]
      /\ WarnedInv' /\ RefusedOnce'
  <2>1. new.warned => new.kid \in missed
    BY <1>2, <1>4 DEF KeyInv, WarnedInv
  <2> QED BY <1>1, <1>4, <2>1, OthersKeep
<1>6. KeyTypeInv'
  BY <1>1, <1>5 DEF KeyInv, KeyTypeInv
<1>7. LockInv'
  BY <1>1, <1>2, <1>5 DEF KeyInv, LockInv, Fetches
<1>8. CoverInv'
  <2>1. published \in SUBSET Kids
    BY DEF KeyInv, KeyTypeInv
  <2> QED BY <1>1, <1>4, <1>5, <2>1 DEF KeyInv, CoverInv
<1> QED BY <1>5, <1>6, <1>7, <1>8 DEF KeyInv

LEMMA InstallKeeps == ASSUME KeyInv, NEW u \in Users, InstallKeys(u) PROVE KeyInv'
<1>1. /\ user[u].pc = "fetched" /\ Verify(u, user[u], user[u].resp)
      /\ holder' = Nobody /\ UNCHANGED <<published, retired>>
  BY DEF InstallKeys
<1>2. user[u] \in Req /\ user[u] # Idle /\ holder = u
  BY <1>1 DEF KeyInv, KeyTypeInv, LockInv, Idle, Fetches
<1>3. user[u].warned => user[u].kid \in missed
  BY <1>2 DEF KeyInv, WarnedInv
<1>4. user[u].resp \in SUBSET Kids /\ missed \intersect published \subseteq user[u].resp
  BY <1>1 DEF KeyInv, CoverInv
<1>5. \A v \in Users \ {u} : ~Fetches(v)
  BY <1>2 DEF KeyInv, LockInv
<1> QED BY <1>1, <1>2, <1>3, <1>4, <1>5, VerifyKeeps

\* A step that takes u out of its fetch and leaves the cache empty or as it was.
LEMMA KeyEndKeeps ==
  ASSUME KeyInv, NEW u \in Users, NEW new \in Req \union {Idle},
         user' = [user EXCEPT ![u] = new],
         new.pc \in {"idle", "refused"},
         new # Idle => (new.warned => new.kid \in missed),
         UNCHANGED <<published, retired, missed>>,
         \/ jwks' = NoSet /\ holder' = Nobody /\ holder = u
         \/ jwks' = jwks /\ holder' = (IF holder = u THEN Nobody ELSE holder)
  PROVE  KeyInv'
<1>1. /\ user' \in [Users -> Req \union {Idle}]
      /\ user'[u] = new
      /\ \A v \in Users \ {u} : user'[v] = user[v]
      /\ WarnedInv' /\ RefusedOnce'
  BY OthersKeep
<1>2. KeyTypeInv'
  BY <1>1 DEF KeyInv, KeyTypeInv
<1>3. LockInv'
  BY <1>1 DEF KeyInv, LockInv, Fetches
<1>4. CoverInv'
  BY <1>1 DEF KeyInv, CoverInv
<1> QED BY <1>1, <1>2, <1>3, <1>4 DEF KeyInv

LEMMA FetchFailsKeeps == ASSUME KeyInv, NEW u \in Users, FetchFails(u) PROVE KeyInv'
<1> DEFINE new == [user[u] EXCEPT !.pc = "refused"]
<1>1. /\ user[u].pc \in {"fetching", "fetched"} /\ user' = [user EXCEPT ![u] = new]
      /\ jwks' = NoSet /\ holder' = Nobody /\ UNCHANGED <<published, retired, missed>>
  BY DEF FetchFails, To
<1>2. user[u] \in Req /\ user[u] # Idle /\ holder = u
  BY <1>1 DEF KeyInv, KeyTypeInv, LockInv, Idle, Fetches
<1>3. /\ new \in Req /\ new.pc = "refused"
      /\ new.warned = user[u].warned /\ new.kid = user[u].kid
  BY <1>2, ReqShape DEF Phases
<1>4. new.warned => new.kid \in missed
  BY <1>2, <1>3 DEF KeyInv, WarnedInv
<1> HIDE DEF new
<1> QED BY <1>1, <1>2, <1>3, <1>4, KeyEndKeeps

LEMMA LeaveKeeps == ASSUME KeyInv, NEW u \in Users, Leave(u) PROVE KeyInv'
<1>1. /\ user' = [user EXCEPT ![u] = Idle] /\ UNCHANGED <<published, retired, jwks, missed>>
      /\ holder' = (IF holder = u THEN Nobody ELSE holder)
  BY DEF Leave
<1>2. Idle.pc = "idle"
  BY DEF Idle
<1> QED BY <1>1, <1>2, KeyEndKeeps

LEMMA KeyNextKeeps == ASSUME KeyInv, [KeysNext]_keyVars PROVE KeyInv'
<1>1. CASE Rotate
  BY <1>1, RotateKeeps
<1>2. CASE Retire
  BY <1>2, RetireKeeps
<1>3. ASSUME NEW u \in Users,
             Begin(u) \/ Acquire(u) \/ Respond(u) \/ InstallKeys(u) \/ FetchFails(u) \/ Leave(u)
      PROVE  KeyInv'
  BY <1>3, BeginKeeps, AcquireKeeps, RespondKeeps, InstallKeeps, FetchFailsKeeps, LeaveKeeps
<1>4. CASE UNCHANGED keyVars
  BY <1>4 DEF keyVars, KeyInv, KeyTypeInv, LockInv, CoverInv, WarnedInv, RefusedOnce, Fetches
<1> QED BY <1>1, <1>2, <1>3, <1>4 DEF KeysNext

-----------------------------------------------------------------------------
\* However keys rotate, and fetches, bad tokens and disconnects of any number of
\* requests interleave, no request that began after a good token was refused for
\* a key is refused for that key while Keycloak publishes it.
THEOREM RefusedOnceAlways == KeysSpec => []RefusedOnce
<1>1. KeysInit => KeyInv
  BY KeyInitEstablishes
<1>2. KeyInv /\ [KeysNext]_keyVars => KeyInv'
  BY KeyNextKeeps
<1>3. KeyInv => RefusedOnce
  BY DEF KeyInv
<1> QED BY <1>1, <1>2, <1>3, PTL DEF KeysSpec

\* Any keys, users and rotations: what is cached is a set of keys or none, and the
\* lock is held by a request or by nobody.
THEOREM KeysTypeCorrect == KeysSpec => []KeysTypeOK
<1>1. KeysInit => KeyInv
  BY KeyInitEstablishes
<1>2. KeyInv /\ [KeysNext]_keyVars => KeyInv'
  BY KeyNextKeeps
<1>3. KeyInv => KeysTypeOK
  <2> SUFFICES ASSUME KeyInv PROVE KeysTypeOK
    OBVIOUS
  <2>1. \A u \in Users : user[u] = Idle \/ user[u].pc \in Phases
    BY DEF KeyInv, KeyTypeInv, Req
  <2> QED BY <2>1 DEF KeyInv, KeyTypeInv, KeysTypeOK, Phases
<1> QED BY <1>1, <1>2, <1>3, PTL DEF KeysSpec

-----------------------------------------------------------------------------
(* The nonce *)

\* The last moment at which a copy of m may be stored.
Limit(m) == 2 * mail[m].stamp + 2 * MaxSkew + 1 + MaxStall

NonceTypeInv ==
  /\ clock \in Nat /\ clock >= Drift
  /\ signing \in BOOLEAN
  /\ mail \in [Signed -> Mail]
  /\ nonce \in [Signed -> Nat]
  /\ tries \in [Signed -> [Attempts -> Call]]
  /\ forgotten \subseteq Signed

\* Kong's clock is at most Drift ahead.
Stamped == \A m \in Signed : 2 * mail[m].stamp <= clock + Drift

\* Nothing arrives before it is sent.
SentFirst ==
  \A m \in Signed : mail[m] = Unsent => \A k \in Attempts : tries[m][k].pc = "idle"

\* A worker stores the nonce of what it has found in order, and not for long.
InTime ==
  \A m \in Signed, k \in Attempts : tries[m][k].pc = "storing" =>
    /\ clock <= tries[m][k].since + MaxStall
    /\ tries[m][k].since <= 2 * mail[m].stamp + 2 * MaxSkew + 1

\* The nonce of an accepted request outlives every other delivery of it.
Kept ==
  \A m \in Signed \ forgotten : \A k \in Attempts :
    signing /\ mail[m].form = "signed" /\ tries[m][k].pc = "accepted" => nonce[m] > Limit(m)

NonceInv == NonceTypeInv /\ Stamped /\ SentFirst /\ InTime /\ Kept /\ AcceptedOnce

-----------------------------------------------------------------------------
LEMMA Halves ==
  ASSUME NEW n \in Int
  PROVE  n \div 2 \in Int /\ 2 * (n \div 2) <= n /\ n <= 2 * (n \div 2) + 1
OBVIOUS

\* What is in the mail, so that no proof below has to take it apart.
LEMMA MailShape ==
  ASSUME NEW x \in Mail
  PROVE  x.stamp \in Nat /\ (x # Unsent => x.form \in Forms)
BY DEF Mail, Unsent, Forms

LEMMA MailMade ==
  ASSUME NEW f \in Forms, NEW n \in Nat
  PROVE  /\ [form |-> f, stamp |-> n] \in Mail
         /\ [form |-> f, stamp |-> n].form = f /\ [form |-> f, stamp |-> n].stamp = n
         /\ [form |-> f, stamp |-> n] # Unsent
BY DEF Mail, Unsent, Forms

LEMMA CallMade ==
  ASSUME NEW p \in {"idle", "storing"} \union Outcomes, NEW n \in Nat
  PROVE  /\ [pc |-> p, since |-> n] \in Call
         /\ [pc |-> p, since |-> n].pc = p /\ [pc |-> p, since |-> n].since = n
BY DEF Call

LEMMA CallShape ==
  ASSUME NEW c \in Call
  PROVE  c.since \in Nat /\ c.pc \in {"idle", "storing"} \union Outcomes
BY DEF Call

\* One delivery changes, the others do not.
LEMMA PutShape ==
  ASSUME NEW m \in Signed, NEW k \in Attempts, NEW c \in Call,
         tries \in [Signed -> [Attempts -> Call]],
         tries' = [tries EXCEPT ![m] = [@ EXCEPT ![k] = c]]
  PROVE  /\ tries' \in [Signed -> [Attempts -> Call]]
         /\ tries'[m][k] = c
         /\ \A n \in Signed, j \in Attempts : n # m \/ j # k => tries'[n][j] = tries[n][j]
OBVIOUS

-----------------------------------------------------------------------------
LEMMA NonceInitEstablishes == ASSUME NonceInit PROVE NonceInv
<1>1. /\ Unsent \in Mail /\ Unsent.form = "none" /\ Unsent.stamp = 0
      /\ NoCall \in Call /\ NoCall.pc = "idle"
  BY DEF Unsent, Mail, NoCall, Call
<1>2. /\ \A m \in Signed : mail[m] = Unsent
      /\ \A m \in Signed, k \in Attempts : tries[m][k] = NoCall
  BY DEF NonceInit
<1>3. NonceTypeInv
  BY <1>1, WindowAssumption DEF NonceInit, NonceTypeInv
<1>4. Stamped
  <2>1. clock \in Nat /\ Drift \in Nat
    BY <1>3, WindowAssumption DEF NonceTypeInv
  <2>2. ASSUME NEW m \in Signed PROVE 2 * mail[m].stamp <= clock + Drift
    <3>1. mail[m].stamp = 0
      BY <1>1, <1>2
    <3> QED BY <2>1, <3>1
  <2> QED BY <2>2 DEF Stamped
<1>5. SentFirst /\ InTime /\ Kept /\ AcceptedOnce
  BY <1>1, <1>2 DEF SentFirst, InTime, Kept, AcceptedOnce
<1> QED BY <1>3, <1>4, <1>5 DEF NonceInv

LEMMA SignKeeps == ASSUME NonceInv, NEW m \in Signed, Sign(m) PROVE NonceInv'
<1>1. PICK form \in Forms, d \in -Drift..Drift :
        mail' = [mail EXCEPT ![m] =
                   [form |-> form,
                    stamp |-> IF form = "signed" THEN (clock + d) \div 2 ELSE 0]]
  BY DEF Sign
<1> DEFINE stamp == IF form = "signed" THEN (clock + d) \div 2 ELSE 0
<1> DEFINE new == [form |-> form, stamp |-> stamp]
<1>2. d \in Int /\ d <= Drift /\ d >= -Drift /\ clock \in Nat /\ Drift \in Nat /\ clock >= Drift
  BY WindowAssumption DEF NonceInv, NonceTypeInv
<1>3. clock + d \in Nat /\ clock + d <= clock + Drift
  BY <1>2
<1>4. /\ (clock + d) \div 2 \in Nat
      /\ 2 * ((clock + d) \div 2) <= clock + Drift
  <2>1. clock + d \in Int /\ (clock + d) \div 2 \in Int
    BY <1>3, Halves
  <2>2. 2 * ((clock + d) \div 2) <= clock + d /\ clock + d <= 2 * ((clock + d) \div 2) + 1
    BY <2>1, Halves
  <2> QED BY <1>2, <1>3, <2>1, <2>2
<1>5. stamp \in Nat /\ 2 * stamp <= clock + Drift
  BY <1>2, <1>4
<1>6. mail' = [mail EXCEPT ![m] = new]
  BY <1>1
<1> HIDE DEF stamp
<1>7. new \in Mail /\ new.form = form /\ new.stamp = stamp /\ new # Unsent
  BY <1>5, MailMade
<1> HIDE DEF new
<1>8. /\ mail[m] = Unsent
      /\ UNCHANGED <<clock, signing, nonce, tries, forgotten>>
  BY DEF Sign
<1>9. /\ mail' \in [Signed -> Mail] /\ mail'[m] = new
      /\ \A n \in Signed \ {m} : mail'[n] = mail[n]
  BY <1>6, <1>7 DEF NonceInv, NonceTypeInv
<1>10. \A k \in Attempts : tries'[m][k].pc = "idle"
  BY <1>8 DEF NonceInv, SentFirst
<1>11. NonceTypeInv'
  BY <1>8, <1>9 DEF NonceInv, NonceTypeInv
<1>12. Stamped'
  BY <1>5, <1>7, <1>8, <1>9 DEF NonceInv, Stamped
<1>13. SentFirst'
  BY <1>8, <1>9, <1>10 DEF NonceInv, SentFirst
<1>14. InTime'
  BY <1>8, <1>9, <1>10 DEF NonceInv, InTime
<1>15. Kept'
  BY <1>8, <1>9, <1>10 DEF NonceInv, Kept, Limit
<1>16. AcceptedOnce'
  BY <1>8, <1>9, <1>10 DEF NonceInv, AcceptedOnce
<1> QED BY <1>11, <1>12, <1>13, <1>14, <1>15, <1>16 DEF NonceInv

LEMMA ForgetKeeps == ASSUME NonceInv, NEW m \in Signed, Forget(m) PROVE NonceInv'
<1>1. /\ nonce' = [nonce EXCEPT ![m] = 0] /\ forgotten' = forgotten \union {m}
      /\ UNCHANGED <<clock, signing, mail, tries>>
  BY DEF Forget
<1>2. nonce' \in [Signed -> Nat] /\ \A n \in Signed \ {m} : nonce'[n] = nonce[n]
  BY <1>1 DEF NonceInv, NonceTypeInv
<1>3. NonceTypeInv'
  BY <1>1, <1>2 DEF NonceInv, NonceTypeInv
<1>4. Stamped' /\ SentFirst' /\ InTime'
  BY <1>1 DEF NonceInv, Stamped, SentFirst, InTime
<1>5. Kept'
  BY <1>1, <1>2 DEF NonceInv, Kept, Limit
<1>6. AcceptedOnce'
  BY <1>1 DEF NonceInv, AcceptedOnce
<1> QED BY <1>3, <1>4, <1>5, <1>6 DEF NonceInv

\* A delivery that becomes neither accepted nor storing, while the nonce stays
\* or grows.
LEMMA NonceEndKeeps ==
  ASSUME NonceInv, NEW m \in Signed, NEW k \in Attempts, NEW c \in Call,
         mail[m] # Unsent,
         tries' = [tries EXCEPT ![m] = [@ EXCEPT ![k] = c]],
         c.pc \notin {"storing", "accepted"},
         nonce' \in [Signed -> Nat], \A n \in Signed : nonce'[n] >= nonce[n],
         UNCHANGED <<clock, signing, mail, forgotten>>
  PROVE  NonceInv'
<1>1. /\ tries' \in [Signed -> [Attempts -> Call]] /\ tries'[m][k] = c
      /\ \A n \in Signed, j \in Attempts : n # m \/ j # k => tries'[n][j] = tries[n][j]
  BY PutShape DEF NonceInv, NonceTypeInv
<1>2. NonceTypeInv'
  BY <1>1 DEF NonceInv, NonceTypeInv
<1>3. Stamped'
  BY DEF NonceInv, Stamped
<1>4. SentFirst'
  BY <1>1 DEF NonceInv, SentFirst
<1>5. InTime'
  BY <1>1 DEF NonceInv, InTime
<1>6. Kept'
  <2> SUFFICES ASSUME NEW n \in Signed \ forgotten, NEW j \in Attempts,
                      signing, mail[n].form = "signed", tries'[n][j].pc = "accepted"
               PROVE  nonce'[n] > Limit(n)
    BY DEF Kept, Limit
  <2>1. tries[n][j].pc = "accepted"
    BY <1>1
  <2>2. nonce[n] > Limit(n)
    BY <2>1 DEF NonceInv, Kept
  <2>3. mail[n] \in Mail
    BY DEF NonceInv, NonceTypeInv
  <2>4. nonce[n] \in Nat /\ nonce'[n] \in Nat /\ mail[n].stamp \in Nat
    BY <2>3, MailShape DEF NonceInv, NonceTypeInv
  <2> QED BY <2>2, <2>4, WindowAssumption DEF Limit
<1>7. AcceptedOnce'
  BY <1>1 DEF NonceInv, AcceptedOnce
<1> QED BY <1>2, <1>3, <1>4, <1>5, <1>6, <1>7 DEF NonceInv

LEMMA ArriveKeeps ==
  ASSUME NonceInv, NEW m \in Signed, NEW k \in Attempts, ArriveSigned(m, k)
  PROVE  NonceInv'
<1>1. /\ mail[m] # Unsent /\ tries[m][k].pc = "idle"
      /\ UNCHANGED <<clock, signing, mail, nonce, forgotten>>
  BY DEF ArriveSigned
<1>2. 0 \in Nat /\ clock \in Nat /\ MaxStall \in Nat /\ MaxSkew \in Nat
  BY WindowAssumption DEF NonceInv, NonceTypeInv
<1>3. CASE tries' = [tries EXCEPT ![m] = [@ EXCEPT ![k] = [pc |-> "forbidden", since |-> 0]]]
  <2> DEFINE c == [pc |-> "forbidden", since |-> 0]
  <2>1. c \in Call /\ c.pc = "forbidden"
    BY CallMade DEF Outcomes
  <2> HIDE DEF c
  <2>2. /\ tries' = [tries EXCEPT ![m] = [@ EXCEPT ![k] = c]]
        /\ nonce' \in [Signed -> Nat] /\ \A n \in Signed : nonce'[n] >= nonce[n]
    BY <1>1, <1>3 DEF c, NonceInv, NonceTypeInv
  <2> QED BY <1>1, <2>1, <2>2, NonceEndKeeps
<1>4. CASE /\ ~signing \/ mail[m].form # "signed"
           /\ tries' = [tries EXCEPT ![m] = [@ EXCEPT ![k] = [pc |-> "accepted", since |-> 0]]]
  <2> DEFINE c == [pc |-> "accepted", since |-> 0]
  <2>1. c \in Call /\ c.pc = "accepted"
    BY CallMade DEF Outcomes
  <2> HIDE DEF c
  <2>2. /\ tries' \in [Signed -> [Attempts -> Call]] /\ tries'[m][k] = c
        /\ \A n \in Signed, j \in Attempts : n # m \/ j # k => tries'[n][j] = tries[n][j]
    BY <1>4, <2>1, PutShape DEF c, NonceInv, NonceTypeInv
  <2>3. NonceTypeInv'
    BY <1>1, <2>2 DEF NonceInv, NonceTypeInv
  <2>4. Stamped' /\ SentFirst'
    BY <1>1, <2>2 DEF NonceInv, Stamped, SentFirst
  <2>5. InTime'
    BY <1>1, <2>1, <2>2 DEF NonceInv, InTime
  <2>6. Kept'
    BY <1>1, <1>4, <2>2 DEF NonceInv, Kept, Limit
  <2>7. AcceptedOnce'
    BY <1>1, <1>4, <2>2 DEF NonceInv, AcceptedOnce
  <2> QED BY <2>3, <2>4, <2>5, <2>6, <2>7 DEF NonceInv
<1>5. CASE /\ InWindow(mail[m].stamp)
           /\ tries' = [tries EXCEPT ![m] = [@ EXCEPT ![k] = [pc |-> "storing", since |-> clock]]]
  <2> DEFINE c == [pc |-> "storing", since |-> clock]
  <2>1. c \in Call /\ c.pc = "storing" /\ c.since = clock
    BY <1>2, CallMade
  <2> HIDE DEF c
  <2>2. /\ tries' \in [Signed -> [Attempts -> Call]] /\ tries'[m][k] = c
        /\ \A n \in Signed, j \in Attempts : n # m \/ j # k => tries'[n][j] = tries[n][j]
    BY <1>5, <2>1, PutShape DEF c, NonceInv, NonceTypeInv
  <2>3. NonceTypeInv'
    BY <1>1, <2>2 DEF NonceInv, NonceTypeInv
  <2>4. Stamped' /\ SentFirst'
    BY <1>1, <2>2 DEF NonceInv, Stamped, SentFirst
  <2>5. clock <= 2 * mail[m].stamp + 2 * MaxSkew + 1
    <3>1. mail[m].stamp \in Nat
      BY MailShape DEF NonceInv, NonceTypeInv
    <3>2. clock \div 2 \in Int /\ clock <= 2 * (clock \div 2) + 1
      BY <1>2, Halves
    <3>3. clock \div 2 - mail[m].stamp <= MaxSkew
      BY <1>5 DEF InWindow, Now
    <3> QED BY <1>2, <3>1, <3>2, <3>3
  <2>6. InTime'
    <3> SUFFICES ASSUME NEW n \in Signed, NEW j \in Attempts, tries'[n][j].pc = "storing"
                 PROVE  /\ clock <= tries'[n][j].since + MaxStall
                        /\ tries'[n][j].since <= 2 * mail[n].stamp + 2 * MaxSkew + 1
      BY <1>1 DEF InTime
    <3>1. CASE n = m /\ j = k
      BY <1>2, <2>1, <2>2, <2>5, <3>1
    <3>2. CASE ~(n = m /\ j = k)
      BY <2>2, <3>2 DEF NonceInv, InTime
    <3> QED BY <3>1, <3>2
  <2>7. Kept'
    BY <1>1, <2>1, <2>2 DEF NonceInv, Kept, Limit
  <2>8. AcceptedOnce'
    BY <1>1, <2>1, <2>2 DEF NonceInv, AcceptedOnce
  <2> QED BY <2>3, <2>4, <2>6, <2>7, <2>8 DEF NonceInv
<1> QED BY <1>3, <1>4, <1>5 DEF ArriveSigned, Become

\* SET leaves a nonce that is fresh with the whole of its life before it, and
\* one that is not as it was.
LEMMA StoredShape ==
  ASSUME NonceInv, NEW m \in Signed, Stored(m)
  PROVE  /\ nonce' \in [Signed -> Nat]
         /\ \A n \in Signed : nonce'[n] >= nonce[n]
         /\ Fresh(m) => nonce'[m] > Limit(m)
<1>1. /\ NonceLife \in Nat /\ clock \in Nat /\ clock + 2 * NonceLife \in Nat
      /\ 2 * NonceLife > 2 * MaxSkew + Drift + MaxStall + 1
      /\ MaxSkew \in Nat /\ Drift \in Nat /\ MaxStall \in Nat
  BY WindowAssumption DEF NonceLife, NonceInv, NonceTypeInv
<1>2. nonce \in [Signed -> Nat]
  BY DEF NonceInv, NonceTypeInv
<1>3. CASE Fresh(m)
  <2>1. nonce' = [nonce EXCEPT ![m] = clock + 2 * NonceLife] /\ nonce[m] <= clock
    BY <1>3 DEF Stored, Fresh
  <2>2. mail[m].stamp \in Nat /\ 2 * mail[m].stamp <= clock + Drift
    BY MailShape DEF NonceInv, NonceTypeInv, Stamped
  <2>3. nonce'[m] = clock + 2 * NonceLife /\ \A n \in Signed \ {m} : nonce'[n] = nonce[n]
    BY <1>2, <2>1
  <2>4. nonce' \in [Signed -> Nat]
    BY <1>1, <1>2, <2>1
  <2>5. nonce'[m] > Limit(m)
    BY <1>1, <2>2, <2>3 DEF Limit
  <2>6. \A n \in Signed : nonce'[n] >= nonce[n]
    BY <1>1, <1>2, <2>1, <2>3
  <2> QED BY <2>4, <2>5, <2>6
<1>4. CASE ~Fresh(m)
  BY <1>2, <1>4 DEF Stored
<1> QED BY <1>3, <1>4

LEMMA StoreKeeps ==
  ASSUME NonceInv, NEW m \in Signed, NEW k \in Attempts, Store(m, k)
  PROVE  NonceInv'
<1>1. /\ tries[m][k].pc = "storing" /\ Stored(m)
      /\ Become(m, k, IF Fresh(m) THEN "accepted" ELSE "replay")
      /\ UNCHANGED <<clock, signing, mail, forgotten>>
  BY DEF Store
<1>2. /\ nonce' \in [Signed -> Nat] /\ \A n \in Signed : nonce'[n] >= nonce[n]
      /\ Fresh(m) => nonce'[m] > Limit(m)
  BY <1>1, StoredShape
<1>3. mail[m] # Unsent
  BY <1>1 DEF NonceInv, SentFirst
<1>4. CASE ~Fresh(m)
  <2> DEFINE c == [pc |-> "replay", since |-> 0]
  <2>1. c \in Call /\ c.pc = "replay"
    BY CallMade DEF Outcomes
  <2> HIDE DEF c
  <2>2. tries' = [tries EXCEPT ![m] = [@ EXCEPT ![k] = c]]
    BY <1>1, <1>4 DEF c, Become
  <2> QED BY <1>1, <1>2, <1>3, <2>1, <2>2, NonceEndKeeps
<1>5. CASE Fresh(m)
  <2> DEFINE c == [pc |-> "accepted", since |-> 0]
  <2>1. c \in Call /\ c.pc = "accepted"
    BY CallMade DEF Outcomes
  <2> HIDE DEF c
  <2>2. tries' = [tries EXCEPT ![m] = [@ EXCEPT ![k] = c]]
    BY <1>1, <1>5 DEF c, Become
  <2>3. /\ tries' \in [Signed -> [Attempts -> Call]] /\ tries'[m][k] = c
        /\ \A n \in Signed, j \in Attempts : n # m \/ j # k => tries'[n][j] = tries[n][j]
    BY <2>1, <2>2, PutShape DEF NonceInv, NonceTypeInv
  <2>4. NonceTypeInv'
    BY <1>1, <1>2, <2>3 DEF NonceInv, NonceTypeInv
  <2>5. Stamped' /\ SentFirst'
    BY <1>1, <1>3, <2>3 DEF NonceInv, Stamped, SentFirst
  <2>6. InTime'
    BY <1>1, <2>1, <2>3 DEF NonceInv, InTime
  <2>7. \* The nonce is fresh within the limit, so nobody has been accepted.
        \A j \in Attempts :
          ~(m \notin forgotten /\ signing /\ mail[m].form = "signed" /\ tries[m][j].pc = "accepted")
    <3>1. clock <= tries[m][k].since + MaxStall
          /\ tries[m][k].since <= 2 * mail[m].stamp + 2 * MaxSkew + 1
      BY <1>1 DEF NonceInv, InTime
    <3>2. /\ tries[m][k].since \in Nat /\ mail[m].stamp \in Nat /\ clock \in Nat
          /\ nonce[m] \in Nat /\ MaxSkew \in Nat /\ MaxStall \in Nat
      BY CallShape, MailShape, WindowAssumption DEF NonceInv, NonceTypeInv
    <3>3. nonce[m] <= clock
      BY <1>5 DEF Fresh
    <3>4. ~(nonce[m] > Limit(m))
      BY <3>1, <3>2, <3>3 DEF Limit
    <3> QED BY <3>4 DEF NonceInv, Kept
  <2>8. Kept'
    <3> SUFFICES ASSUME NEW n \in Signed \ forgotten, NEW j \in Attempts,
                        signing, mail[n].form = "signed", tries'[n][j].pc = "accepted"
                 PROVE  nonce'[n] > Limit(n)
      BY <1>1 DEF Kept, Limit
    <3>1. CASE n = m
      BY <1>2, <1>5, <3>1
    <3>2. CASE n # m
      <4>1. nonce[n] > Limit(n)
        BY <2>3, <3>2 DEF NonceInv, Kept
      <4>2. mail[n] \in Mail
        BY DEF NonceInv, NonceTypeInv
      <4>3. nonce[n] \in Nat /\ nonce'[n] \in Nat /\ mail[n].stamp \in Nat /\ nonce'[n] >= nonce[n]
        BY <1>2, <4>2, MailShape DEF NonceInv, NonceTypeInv
      <4> QED BY <4>1, <4>3, WindowAssumption DEF Limit
    <3> QED BY <3>1, <3>2
  <2>9. AcceptedOnce'
    BY <1>1, <2>3, <2>7 DEF NonceInv, AcceptedOnce
  <2> QED BY <2>4, <2>5, <2>6, <2>8, <2>9 DEF NonceInv
<1> QED BY <1>4, <1>5

\* A nonce that may have been stored, and nothing else.
LEMMA NonceGrows ==
  ASSUME NonceInv, nonce' \in [Signed -> Nat],
         \A n \in Signed : nonce'[n] >= nonce[n],
         UNCHANGED <<clock, signing, mail, tries, forgotten>>
  PROVE  NonceInv'
<1>1. NonceTypeInv' /\ Stamped' /\ SentFirst' /\ InTime' /\ AcceptedOnce'
  BY DEF NonceInv, NonceTypeInv, Stamped, SentFirst, InTime, AcceptedOnce
<1>2. Kept'
  <2> SUFFICES ASSUME NEW n \in Signed \ forgotten, NEW j \in Attempts,
                      signing, mail[n].form = "signed", tries[n][j].pc = "accepted"
               PROVE  nonce'[n] > Limit(n)
    BY DEF Kept, Limit
  <2>1. nonce[n] > Limit(n)
    BY DEF NonceInv, Kept
  <2>2. mail[n] \in Mail
    BY DEF NonceInv, NonceTypeInv
  <2>3. nonce[n] \in Nat /\ nonce'[n] \in Nat /\ mail[n].stamp \in Nat /\ nonce'[n] >= nonce[n]
    BY <2>2, MailShape DEF NonceInv, NonceTypeInv
  <2> QED BY <2>1, <2>3, WindowAssumption DEF Limit
<1> QED BY <1>1, <1>2 DEF NonceInv

LEMMA StoreUnansweredKeeps ==
  ASSUME NonceInv, NEW m \in Signed, NEW k \in Attempts, StoreUnanswered(m, k)
  PROVE  NonceInv'
<1>1. /\ tries[m][k].pc = "storing" /\ Stored(m)
      /\ UNCHANGED tries \/ Become(m, k, "unavailable")
      /\ UNCHANGED <<clock, signing, mail, forgotten>>
  BY DEF StoreUnanswered
<1>2. nonce' \in [Signed -> Nat] /\ \A n \in Signed : nonce'[n] >= nonce[n]
  BY <1>1, StoredShape
<1>3. CASE UNCHANGED tries
  BY <1>1, <1>2, <1>3, NonceGrows
<1>4. CASE Become(m, k, "unavailable")
  <2> DEFINE c == [pc |-> "unavailable", since |-> 0]
  <2>1. c \in Call /\ c.pc = "unavailable"
    BY CallMade DEF Outcomes
  <2> HIDE DEF c
  <2>2. tries' = [tries EXCEPT ![m] = [@ EXCEPT ![k] = c]] /\ mail[m] # Unsent
    BY <1>1, <1>4 DEF c, Become, NonceInv, SentFirst
  <2> QED BY <1>1, <1>2, <2>1, <2>2, NonceEndKeeps
<1> QED BY <1>1, <1>3, <1>4

LEMMA RedisDownKeeps ==
  ASSUME NonceInv, NEW m \in Signed, NEW k \in Attempts, RedisDown(m, k)
  PROVE  NonceInv'
<1> DEFINE c == [pc |-> "unavailable", since |-> 0]
<1>1. c \in Call /\ c.pc = "unavailable"
  BY CallMade DEF Outcomes
<1> HIDE DEF c
<1>2. /\ tries' = [tries EXCEPT ![m] = [@ EXCEPT ![k] = c]] /\ mail[m] # Unsent
      /\ UNCHANGED <<clock, signing, mail, nonce, forgotten>>
  BY DEF c, RedisDown, Become, NonceInv, SentFirst
<1>3. nonce' \in [Signed -> Nat] /\ \A n \in Signed : nonce'[n] >= nonce[n]
  BY <1>2 DEF NonceInv, NonceTypeInv
<1> QED BY <1>1, <1>2, <1>3, NonceEndKeeps

LEMMA TickKeeps == ASSUME NonceInv, Tick PROVE NonceInv'
<1>1. /\ clock' = clock + 1 /\ clock \in Nat /\ Drift \in Nat /\ MaxStall \in Nat
      /\ UNCHANGED <<signing, mail, nonce, tries, forgotten>>
      /\ \A m \in Signed, k \in Attempts :
           tries[m][k].pc = "storing" => clock < tries[m][k].since + MaxStall
  BY WindowAssumption DEF Tick, NonceInv, NonceTypeInv
<1>2. NonceTypeInv'
  BY <1>1 DEF NonceInv, NonceTypeInv
<1>3. Stamped'
  <2> SUFFICES ASSUME NEW m \in Signed PROVE 2 * mail[m].stamp <= clock + 1 + Drift
    BY <1>1 DEF Stamped
  <2>1. mail[m].stamp \in Nat
    BY MailShape DEF NonceInv, NonceTypeInv
  <2> QED BY <1>1, <2>1 DEF NonceInv, Stamped
<1>4. SentFirst' /\ Kept' /\ AcceptedOnce'
  BY <1>1 DEF NonceInv, SentFirst, Kept, Limit, AcceptedOnce
<1>5. InTime'
  <2> SUFFICES ASSUME NEW m \in Signed, NEW k \in Attempts, tries[m][k].pc = "storing"
               PROVE  /\ clock + 1 <= tries[m][k].since + MaxStall
                      /\ tries[m][k].since <= 2 * mail[m].stamp + 2 * MaxSkew + 1
    BY <1>1 DEF InTime
  <2>1. tries[m][k].since \in Nat
    BY CallShape DEF NonceInv, NonceTypeInv
  <2> QED BY <1>1, <2>1 DEF NonceInv, InTime
<1> QED BY <1>2, <1>3, <1>4, <1>5 DEF NonceInv

LEMMA NonceNextKeeps == ASSUME NonceInv, [NonceNext]_nonceVars PROVE NonceInv'
<1>1. ASSUME NEW m \in Signed, Sign(m) \/ Forget(m)
      PROVE  NonceInv'
  BY <1>1, SignKeeps, ForgetKeeps
<1>2. ASSUME NEW m \in Signed, NEW k \in Attempts,
             ArriveSigned(m, k) \/ Store(m, k) \/ StoreUnanswered(m, k) \/ RedisDown(m, k)
      PROVE  NonceInv'
  BY <1>2, ArriveKeeps, StoreKeeps, StoreUnansweredKeeps, RedisDownKeeps
<1>3. CASE Tick
  BY <1>3, TickKeeps
<1>4. CASE UNCHANGED nonceVars
  BY <1>4 DEF nonceVars, NonceInv, NonceTypeInv, Stamped, SentFirst, InTime, Kept, Limit, AcceptedOnce
<1> QED BY <1>1, <1>2, <1>3, <1>4 DEF NonceNext

-----------------------------------------------------------------------------
\* For any number of requests and of deliveries of each, any drift of the clocks
\* and any wait for Redis within the window: no signed request is accepted twice
\* unless Redis lost its nonce.
THEOREM AcceptedOnceAlways == NonceSpec => []AcceptedOnce
<1>1. NonceInit => NonceInv
  BY NonceInitEstablishes
<1>2. NonceInv /\ [NonceNext]_nonceVars => NonceInv'
  BY NonceNextKeeps
<1>3. NonceInv => AcceptedOnce
  BY DEF NonceInv
<1> QED BY <1>1, <1>2, <1>3, PTL DEF NonceSpec

\* Any clocks, requests and deliveries: every variable keeps its type.
THEOREM NonceTypeCorrect == NonceSpec => []NonceTypeOK
<1>1. NonceInit => NonceInv
  BY NonceInitEstablishes
<1>2. NonceInv /\ [NonceNext]_nonceVars => NonceInv'
  BY NonceNextKeeps
<1>3. NonceInv => NonceTypeOK
  BY DEF NonceInv, NonceTypeInv, NonceTypeOK
<1> QED BY <1>1, <1>2, <1>3, PTL DEF NonceSpec

-----------------------------------------------------------------------------
(* The administration of the edge *)

Route == [id : 1..MaxEdgeChanges, name : Names, path : Paths]
Plugin == [name : PluginNames, route : 0..MaxEdgeChanges, enabled : BOOLEAN]

KongInv ==
  /\ changes \in 0..MaxEdgeChanges /\ routes \subseteq Route /\ plugins \subseteq Plugin
  /\ \A r \in routes : r.id <= changes /\ r.name = RouteName(r.path)
  /\ \A r, s \in routes : r.name = s.name \/ r.id = s.id => r = s
  /\ \A p \in plugins : p.route = Global \/ \E r \in routes : r.id = p.route
  /\ \A p, q \in plugins : p.name = q.name /\ p.route = q.route => p = q
  /\ covered \subseteq BackendPaths
  /\ \A p \in covered : \E r \in routes : r.path = p

\* Routes as Kong answered with them: since, some may have gone and others come,
\* none of which has an id of theirs.
Seen(seen, now, n) ==
  /\ seen \subseteq Route
  /\ \A r \in seen : r.id <= n /\ \A s \in now : r.id = s.id => r = s

Honest(x) ==
  /\ x.status \in [BackendPaths -> Statuses]
  /\ \A p \in BackendPaths :
       /\ x.status[p] = "protected" => p \in x.guarded
       /\ p \in x.due => x.status[p] # "exposed"
  /\ x.percent = 100 <=> \A p \in BackendPaths : x.status[p] # "exposed"
  /\ \A r \in x.kongOnly : \A p \in BackendPaths : Covers(r, p) => x.status[p] # "exposed"

\* What a list has so far is Kong's state unless something changed since it began.
ListedSo(x, now, ps, n) ==
  /\ x.since \in Nat /\ x.since <= n
  /\ x.since = n =>
       /\ x.left \subseteq now
       /\ x.rows = {[route |-> r, plugins |-> PluginsOf(ps, r)] : r \in now \ x.left}

SoundAt(x, now, ps, n) ==
  \/ x = Free
  \/ x.pc = "services" /\ x.path \in BackendPaths
  \/ /\ x.pc = "routes" /\ Seen(x.routes, now, n) /\ x.due \subseteq BackendPaths
     /\ \A p \in x.due : \E r \in x.routes : r.path = p
  \/ x.pc = "report" /\ Honest(x)
  \/ /\ x.pc = "list" /\ ListedSo(x, now, ps, n)
     /\ x = [pc |-> "list", left |-> x.left, rows |-> x.rows, since |-> x.since]

AdminInv ==
  /\ admin = [a \in Admins |-> admin[a]]
  /\ \A a \in Admins : SoundAt(admin[a], routes, plugins, changes)

EdgeInv == KongInv /\ AdminInv

-----------------------------------------------------------------------------
LEMMA OwnPath == ASSUME NEW r, r.path \in Paths PROVE Covers(r, r.path)
<1>1. Len(r.path) \in Nat
  BY EdgeAssumption
<1> QED BY <1>1 DEF Covers, IsPrefix

\* The percentage is full when and only when every path has a route.
LEMMA FullPercent ==
  ASSUME NEW hit \in SUBSET BackendPaths
  PROVE  Percent(Cardinality(hit)) = 100 <=> hit = BackendPaths
<1> DEFINE n == Cardinality(BackendPaths)
           h == Cardinality(hit)
<1>1. n \in Nat /\ n # 0
  BY EdgeAssumption, FS_CardinalityType, FS_EmptySet
<1>2. IsFiniteSet(hit) /\ h <= n /\ (n = h => BackendPaths = hit)
  BY EdgeAssumption, FS_Subset
<1>3. h \in Nat
  BY <1>2, FS_CardinalityType
<1>4. hit = BackendPaths => h = n
  OBVIOUS
<1> HIDE DEF n, h
<1>5. (100 * h) \div n = 100 <=> h = n
  <2> DEFINE q == (100 * h) \div n
  <2>1. q \in Int /\ n * q <= 100 * h /\ 100 * h < n * q + n
    BY <1>1, <1>3
  <2>2. ASSUME q = 100 PROVE h = n
    <3>1. n * 100 <= 100 * h
      BY <2>1, <2>2
    <3> QED BY <1>1, <1>2, <1>3, <3>1
  <2>3. ASSUME h = n PROVE q = 100
    <3>1. q = (100 * n) \div n
      BY <2>3
    <3> QED BY <1>1, <3>1
  <2> QED BY <2>2, <2>3
<1> QED BY <1>2, <1>4, <1>5 DEF Percent, n, h

-----------------------------------------------------------------------------
\* A handler goes on, and Kong stays as it is.
LEMMA HandlerMoves ==
  ASSUME EdgeInv, NEW a \in Admins, NEW x, SoundAt(x, routes, plugins, changes),
         admin' = [admin EXCEPT ![a] = x], UNCHANGED <<routes, plugins, changes, covered>>
  PROVE  EdgeInv'
<1>1. /\ admin' = [b \in Admins |-> admin'[b]] /\ admin'[a] = x
      /\ \A b \in Admins : b # a => admin'[b] = admin[b]
  BY DEF EdgeInv, AdminInv
<1>2. \A b \in Admins : SoundAt(admin'[b], routes, plugins, changes)
  BY <1>1 DEF EdgeInv, AdminInv
<1>3. AdminInv'
  BY <1>1, <1>2 DEF AdminInv
<1>4. KongInv'
  BY DEF EdgeInv, KongInv
<1> QED BY <1>3, <1>4 DEF EdgeInv

\* Kong changes: a route that is new has a new id.
LEMMA SoundStill ==
  ASSUME NEW x, NEW now, NEW ps, NEW n \in Nat, SoundAt(x, now, ps, n),
         NEW now2, NEW ps2, \A r \in now2 : r \in now \/ r.id = n + 1
  PROVE  SoundAt(x, now2, ps2, n + 1)
<1>1. CASE x.pc = "routes" /\ Seen(x.routes, now, n)
  <2>1. x.routes \subseteq Route /\ \A r \in x.routes : r.id \in Int
    BY <1>1 DEF Seen, Route
  <2>2. Seen(x.routes, now2, n + 1)
    BY <1>1, <2>1 DEF Seen
  <2> QED BY <1>1, <2>2 DEF SoundAt, Free
<1>2. CASE x.pc = "list" /\ ListedSo(x, now, ps, n)
  <2>1. ListedSo(x, now2, ps2, n + 1)
    BY <1>2 DEF ListedSo
  <2> QED BY <1>2, <2>1 DEF SoundAt, Free
<1> QED BY <1>1, <1>2 DEF SoundAt

LEMMA KongChanges ==
  ASSUME EdgeInv, KongInv', Change, \A r \in routes' : r \in routes \/ r.id = changes + 1,
         admin' = [a \in Admins |-> admin'[a]],
         \A a \in Admins : admin'[a] = Free \/ admin'[a] = admin[a]
  PROVE  EdgeInv'
<1>1. changes' = changes + 1 /\ changes \in Nat
  BY DEF Change, EdgeInv, KongInv
<1>2. ASSUME NEW a \in Admins PROVE SoundAt(admin'[a], routes', plugins', changes')
  <2>1. CASE admin'[a] = Free
    BY <2>1 DEF SoundAt
  <2>2. CASE admin'[a] = admin[a]
    <3>1. admin'[a] = admin[a] /\ SoundAt(admin[a], routes, plugins, changes)
      BY <2>2 DEF EdgeInv, AdminInv
    <3> QED BY <1>1, <3>1, SoundStill
  <2> QED BY <2>1, <2>2
<1> QED BY <1>2 DEF EdgeInv, AdminInv

LEMMA KongGoesOn ==
  ASSUME EdgeInv, KongInv', Change, \A r \in routes' : r \in routes \/ r.id = changes + 1,
         UNCHANGED admin
  PROVE  EdgeInv'
<1>1. admin' = [a \in Admins |-> admin'[a]] /\ \A a \in Admins : admin'[a] = admin[a]
  BY DEF EdgeInv, AdminInv
<1> QED BY <1>1, KongChanges

LEMMA Created ==
  ASSUME KongInv, NEW path \in Paths, Create(path), UNCHANGED plugins,
         \/ covered' = covered
         \/ covered' = covered \union {path} /\ path \in BackendPaths
  PROVE  KongInv' /\ Change /\ \A r \in routes' : r \in routes \/ r.id = changes + 1
<1> DEFINE new == [id |-> changes + 1, name |-> RouteName(path), path |-> path]
<1>1. /\ Change /\ \A r \in routes : r.name # RouteName(path)
      /\ routes' = routes \union {new} /\ changes' = changes + 1
  BY DEF Create, Change
<1>2. changes + 1 \in 1..MaxEdgeChanges /\ changes \in Nat
  BY EdgeAssumption DEF Create, Change, KongInv
<1>3. RouteName(path) \in Names
  BY DEF Names
<1>4. /\ new \in Route /\ new.id = changes + 1 /\ new.name = RouteName(path)
      /\ new.path = path
  BY <1>2, <1>3 DEF Route
<1> HIDE DEF new
<1>5. \A r \in routes : r.id <= changes /\ r.id \in Nat
  BY DEF KongInv, Route
<1>6. routes' \subseteq Route /\ changes' \in 0..MaxEdgeChanges
  BY <1>1, <1>2, <1>4 DEF KongInv
<1>7. \A r \in routes' : r.id <= changes' /\ r.name = RouteName(r.path)
  BY <1>1, <1>2, <1>4, <1>5 DEF KongInv
<1>8. \A r, s \in routes' : r.name = s.name \/ r.id = s.id => r = s
  <2>1. \A r \in routes : r.id # new.id /\ r.name # new.name
    BY <1>1, <1>2, <1>4, <1>5
  <2> QED BY <1>1, <2>1 DEF KongInv
<1>9. \A p \in plugins : p.route = Global \/ \E r \in routes' : r.id = p.route
  BY <1>1 DEF KongInv
<1>10. covered' \subseteq BackendPaths /\ \A p \in covered' : \E r \in routes' : r.path = p
  BY <1>1, <1>4 DEF KongInv
<1>11. KongInv'
  BY <1>6, <1>7, <1>8, <1>9, <1>10 DEF KongInv
<1> QED BY <1>1, <1>4, <1>11

LEMMA AddRouteKeeps == ASSUME EdgeInv, AddRoute PROVE EdgeInv'
<1>1. PICK path \in OtherPaths : Create(path) /\ UNCHANGED <<plugins, admin, covered>>
  BY DEF AddRoute
<1> QED BY <1>1, Created, KongGoesOn DEF EdgeInv, Paths

LEMMA RemoveRouteKeeps == ASSUME EdgeInv, RemoveRoute PROVE EdgeInv'
<1>1. PICK r \in routes :
        /\ routes' = routes \ {r} /\ plugins' = {p \in plugins : p.route # r.id}
        /\ covered' = covered \ {r.path} /\ UNCHANGED admin
  BY DEF RemoveRoute
<1>2. Change /\ changes' = changes + 1 /\ changes' \in 0..MaxEdgeChanges
  BY EdgeAssumption DEF RemoveRoute, Change, EdgeInv, KongInv
<1>3. KongInv'
  <2>1. routes' \subseteq Route /\ plugins' \subseteq Plugin
    BY <1>1 DEF EdgeInv, KongInv
  <2>2. \A s \in routes' : s.id <= changes' /\ s.name = RouteName(s.path)
    <3>1. \A s \in routes : s.id \in Nat /\ s.id <= changes /\ changes \in Nat
      BY DEF EdgeInv, KongInv, Route
    <3> QED BY <1>1, <1>2, <3>1 DEF EdgeInv, KongInv
  <2>3. \A p \in plugins' : p.route = Global \/ \E s \in routes' : s.id = p.route
    BY <1>1 DEF EdgeInv, KongInv
  <2>4. \A p \in covered' : \E s \in routes' : s.path = p
    BY <1>1 DEF EdgeInv, KongInv
  <2>5. /\ \A s, t \in routes' : s.name = t.name \/ s.id = t.id => s = t
        /\ \A p, q \in plugins' : p.name = q.name /\ p.route = q.route => p = q
        /\ covered' \subseteq BackendPaths
    BY <1>1 DEF EdgeInv, KongInv
  <2> QED BY <1>2, <2>1, <2>2, <2>3, <2>4, <2>5 DEF KongInv
<1> QED BY <1>1, <1>2, <1>3, KongGoesOn

\* A change of plugins alone.
LEMMA PluginsChange ==
  ASSUME EdgeInv, Change, UNCHANGED <<routes, admin, covered>>, plugins' \subseteq Plugin,
         \A p \in plugins' : p.route = Global \/ \E r \in routes : r.id = p.route,
         \A p, q \in plugins' : p.name = q.name /\ p.route = q.route => p = q
  PROVE  EdgeInv'
<1>1. changes' = changes + 1 /\ changes' \in 0..MaxEdgeChanges
  BY EdgeAssumption DEF Change, EdgeInv, KongInv
<1>2. \A s \in routes : s.id \in Nat /\ s.id <= changes /\ changes \in Nat
  BY DEF EdgeInv, KongInv, Route
<1>3. KongInv'
  BY <1>1, <1>2 DEF EdgeInv, KongInv
<1> QED BY <1>3, KongGoesOn

LEMMA ApplyKeeps == ASSUME EdgeInv, ApplyPlugin PROVE EdgeInv'
<1>1. PICK n \in PluginNames, where \in {r.id : r \in routes} \union {Global}, on \in BOOLEAN :
        /\ \A p \in plugins : p.name # n \/ p.route # where
        /\ plugins' = plugins \union {[name |-> n, route |-> where, enabled |-> on]}
  BY DEF ApplyPlugin
<1>2. Change /\ UNCHANGED <<routes, admin, covered>>
  BY DEF ApplyPlugin
<1>3. where \in 0..MaxEdgeChanges /\ (where = Global \/ \E r \in routes : r.id = where)
  BY EdgeAssumption DEF EdgeInv, KongInv, Route, Global
<1> DEFINE new == [name |-> n, route |-> where, enabled |-> on]
<1>4. new \in Plugin /\ new.name = n /\ new.route = where
  BY <1>3 DEF Plugin
<1>5. plugins' = plugins \union {new}
  BY <1>1
<1> HIDE DEF new
<1>6. plugins' \subseteq Plugin
  BY <1>4, <1>5 DEF EdgeInv, KongInv
<1>7. \A p \in plugins' : p.route = Global \/ \E r \in routes : r.id = p.route
  BY <1>3, <1>4, <1>5 DEF EdgeInv, KongInv
<1>8. \A p, q \in plugins' : p.name = q.name /\ p.route = q.route => p = q
  BY <1>1, <1>4, <1>5 DEF EdgeInv, KongInv
<1> QED BY <1>2, <1>6, <1>7, <1>8, PluginsChange

LEMMA UpdateKeeps == ASSUME EdgeInv, UpdatePlugin PROVE EdgeInv'
<1>1. PICK p \in plugins, on \in BOOLEAN :
        plugins' = (plugins \ {p}) \union {[p EXCEPT !.enabled = on]}
  BY DEF UpdatePlugin
<1>2. Change /\ UNCHANGED <<routes, admin, covered>> /\ plugins \subseteq Plugin
  BY DEF UpdatePlugin, EdgeInv, KongInv
<1> DEFINE new == [p EXCEPT !.enabled = on]
<1>3. new \in Plugin /\ new.name = p.name /\ new.route = p.route
  BY <1>2 DEF Plugin
<1>4. plugins' = (plugins \ {p}) \union {new}
  BY <1>1
<1> HIDE DEF new
<1>5. plugins' \subseteq Plugin
  BY <1>2, <1>3, <1>4
<1>6. \A q \in plugins' : q.route = Global \/ \E r \in routes : r.id = q.route
  BY <1>3, <1>4 DEF EdgeInv, KongInv
<1>7. \A q, r \in plugins' : q.name = r.name /\ q.route = r.route => q = r
  BY <1>3, <1>4 DEF EdgeInv, KongInv
<1> QED BY <1>2, <1>5, <1>6, <1>7, PluginsChange

LEMMA DeleteKeeps == ASSUME EdgeInv, DeletePlugin PROVE EdgeInv'
<1>1. PICK p \in plugins : plugins' = plugins \ {p}
  BY DEF DeletePlugin
<1>2. Change /\ UNCHANGED <<routes, admin, covered>>
  BY DEF DeletePlugin
<1>3. /\ plugins' \subseteq Plugin
      /\ \A q \in plugins' : q.route = Global \/ \E r \in routes : r.id = q.route
      /\ \A q, r \in plugins' : q.name = r.name /\ q.route = r.route => q = r
  BY <1>1 DEF EdgeInv, KongInv
<1> QED BY <1>2, <1>3, PluginsChange

-----------------------------------------------------------------------------
LEMMA ReadServicesKeeps == ASSUME EdgeInv, NEW a \in Admins, ReadServices(a) PROVE EdgeInv'
<1>1. PICK path \in BackendPaths :
        admin' = [admin EXCEPT ![a] = [pc |-> "services", path |-> path]]
  BY DEF ReadServices
<1>2. SoundAt([pc |-> "services", path |-> path], routes, plugins, changes)
  BY DEF SoundAt
<1> QED BY <1>1, <1>2, HandlerMoves DEF ReadServices

LEMMA PostRouteKeeps == ASSUME EdgeInv, NEW a \in Admins, PostRoute(a) PROVE EdgeInv'
<1>1. /\ admin[a].pc = "services" /\ admin' = [admin EXCEPT ![a] = Free]
      /\ UNCHANGED plugins
      /\ \/ Create(admin[a].path) /\ covered' = covered \union {admin[a].path}
         \/ UNCHANGED <<routes, changes, covered>>
  BY DEF PostRoute
<1>2. admin[a].path \in BackendPaths
  BY <1>1 DEF EdgeInv, AdminInv, SoundAt, Free
<1>3. CASE UNCHANGED <<routes, changes, covered>>
  <2>1. SoundAt(Free, routes, plugins, changes)
    BY DEF SoundAt
  <2> QED BY <1>1, <1>3, <2>1, HandlerMoves
<1>4. CASE Create(admin[a].path) /\ covered' = covered \union {admin[a].path}
  <2>1. KongInv' /\ Change /\ \A r \in routes' : r \in routes \/ r.id = changes + 1
    BY <1>1, <1>2, <1>4, Created DEF EdgeInv, Paths
  <2>2. /\ admin' = [b \in Admins |-> admin'[b]]
        /\ \A b \in Admins : admin'[b] = Free \/ admin'[b] = admin[b]
    BY <1>1 DEF EdgeInv, AdminInv
  <2> QED BY <2>1, <2>2, KongChanges
<1> QED BY <1>1, <1>3, <1>4

LEMMA ReadRoutesKeeps == ASSUME EdgeInv, NEW a \in Admins, ReadRoutes(a) PROVE EdgeInv'
<1> DEFINE x == [pc |-> "routes", routes |-> routes, due |-> covered]
<1>1. Seen(routes, routes, changes)
  BY DEF EdgeInv, KongInv, Seen
<1>2. SoundAt(x, routes, plugins, changes)
  BY <1>1 DEF SoundAt, EdgeInv, KongInv
<1>3. admin' = [admin EXCEPT ![a] = x] /\ UNCHANGED <<routes, plugins, changes, covered>>
  BY DEF ReadRoutes
<1> QED BY <1>2, <1>3, HandlerMoves

LEMMA ReadPluginsKeeps == ASSUME EdgeInv, NEW a \in Admins, ReadPlugins(a) PROVE EdgeInv'
<1> DEFINE rs  == admin[a].routes
           due == admin[a].due
           hit == {p \in BackendPaths : RoutesFor(rs, p) # {}}
<1>1. /\ admin[a].pc = "routes" /\ Seen(rs, routes, changes)
      /\ \A p \in due : \E r \in rs : r.path = p
      /\ UNCHANGED <<routes, plugins, changes, covered>>
  BY DEF ReadPlugins, EdgeInv, AdminInv, SoundAt, Free
<1> DEFINE status(first) == [p \in BackendPaths |->
             IF p \notin hit THEN "exposed"
             ELSE IF PluginsOf(plugins, first[p]) # {} THEN "protected" ELSE "registered"]
           guarded == {p \in BackendPaths : \E r \in routes, q \in plugins :
                         Covers(r, p) /\ q.route = r.id}
           report(first) == [pc |-> "report", due |-> due, percent |-> Percent(Cardinality(hit)),
                             kongOnly |-> rs \ {first[p] : p \in hit},
                             status |-> status(first), guarded |-> guarded]
<1>2. PICK first \in [hit -> rs] : /\ \A p \in hit : first[p] \in RoutesFor(rs, p)
                                   /\ admin' = [admin EXCEPT ![a] = report(first)]
  BY Zenon DEF ReadPlugins
<1> DEFINE st == status(first)
           x  == report(first)
<1>3. /\ x.pc = "report" /\ x.due = due /\ x.percent = Percent(Cardinality(hit))
      /\ x.kongOnly \subseteq rs /\ x.status = st /\ x.guarded = guarded
  OBVIOUS
<1>4. st \in [BackendPaths -> Statuses]
  BY DEF Statuses
<1>5. \A p \in BackendPaths : st[p] # "exposed" <=> p \in hit
  OBVIOUS
<1>6. ASSUME NEW p \in BackendPaths, st[p] = "protected" PROVE p \in guarded
  <2>1. p \in hit /\ PluginsOf(plugins, first[p]) # {}
    BY <1>6
  <2>2. PICK q \in plugins : q.route = first[p].id
    BY <2>1 DEF PluginsOf
  <2>3. first[p] \in rs /\ Covers(first[p], p)
    BY <1>2, <2>1 DEF RoutesFor
  <2>4. first[p].id # Global
    BY <1>1, <2>3 DEF Seen, Route, Global
  <2>5. PICK r \in routes : r.id = q.route
    BY <2>2, <2>4 DEF EdgeInv, KongInv
  <2>6. r = first[p]
    BY <1>1, <2>2, <2>3, <2>5 DEF Seen
  <2> QED BY <2>2, <2>3, <2>5, <2>6
<1>7. ASSUME NEW p \in BackendPaths, NEW r \in rs, Covers(r, p) PROVE p \in hit
  BY <1>7 DEF RoutesFor
<1>8. ASSUME NEW p \in BackendPaths, p \in due PROVE p \in hit
  <2>1. PICK r \in rs : r.path = p
    BY <1>1, <1>8
  <2>2. Covers(r, p)
    BY <2>1, OwnPath DEF Paths
  <2> QED BY <1>7, <2>2
<1>9. Percent(Cardinality(hit)) = 100 <=> hit = BackendPaths
  BY FullPercent
<1>10. hit \subseteq BackendPaths
  OBVIOUS
<1> HIDE DEF rs, due, hit, guarded, st, x
<1>11. Honest(x)
  BY <1>3, <1>4, <1>5, <1>6, <1>7, <1>8, <1>9, <1>10 DEF Honest
<1>12. SoundAt(x, routes, plugins, changes)
  BY <1>3, <1>11 DEF SoundAt
<1>13. admin' = [admin EXCEPT ![a] = x]
  BY <1>2 DEF x
<1> QED BY <1>1, <1>12, <1>13, HandlerMoves

LEMMA ListRoutesKeeps == ASSUME EdgeInv, NEW a \in Admins, ListRoutes(a) PROVE EdgeInv'
<1> DEFINE x == [pc |-> "list", left |-> routes, rows |-> {}, since |-> changes]
<1>1. ListedSo(x, routes, plugins, changes)
  BY DEF ListedSo, EdgeInv, KongInv
<1>2. SoundAt(x, routes, plugins, changes)
  BY <1>1 DEF SoundAt
<1>3. admin' = [admin EXCEPT ![a] = x] /\ UNCHANGED <<routes, plugins, changes, covered>>
  BY DEF ListRoutes
<1> QED BY <1>2, <1>3, HandlerMoves

LEMMA ListPluginsKeeps == ASSUME EdgeInv, NEW a \in Admins, ListPlugins(a) PROVE EdgeInv'
<1> DEFINE x == admin[a]
           row(r) == [route |-> r, plugins |-> PluginsOf(plugins, r)]
           y(r) == [x EXCEPT !.left = @ \ {r}, !.rows = @ \union {row(r)}]
<1>1. /\ x.pc = "list" /\ ListedSo(x, routes, plugins, changes)
      /\ x = [pc |-> "list", left |-> x.left, rows |-> x.rows, since |-> x.since]
      /\ UNCHANGED <<routes, plugins, changes, covered>>
  BY DEF ListPlugins, EdgeInv, AdminInv, SoundAt, Free
<1>2. PICK r \in x.left :
        admin' = [admin EXCEPT ![a] = IF r \in routes THEN y(r) ELSE Free]
  BY Zenon DEF ListPlugins
<1>3. CASE r \notin routes
  <2>1. SoundAt(Free, routes, plugins, changes)
    BY DEF SoundAt
  <2> QED BY <1>1, <1>2, <1>3, <2>1, HandlerMoves
<1>4. CASE r \in routes
  <2> DEFINE new == row(r)
             z == y(r)
  <2>1. /\ z = [pc |-> "list", left |-> z.left, rows |-> z.rows, since |-> z.since]
        /\ z.left = x.left \ {r} /\ z.rows = x.rows \union {new} /\ z.since = x.since
        /\ z.pc = "list"
    <3>1. z = [x EXCEPT !.left = @ \ {r}, !.rows = @ \union {new}]
      OBVIOUS
    <3> HIDE DEF x, new, z
    <3> QED BY <1>1, <3>1
  <2>2. ASSUME x.since = changes
        PROVE  /\ z.left \subseteq routes
               /\ z.rows = {row(s) : s \in routes \ z.left}
    <3>1. x.left \subseteq routes /\ x.rows = {row(s) : s \in routes \ x.left}
      BY <1>1, <2>2 DEF ListedSo
    <3>2. routes \ z.left = (routes \ x.left) \union {r}
      BY <1>4, <2>1
    <3> HIDE DEF z, x, row
    <3> QED BY <2>1, <3>1, <3>2 DEF new
  <2> HIDE DEF z, x
  <2>3. ListedSo(z, routes, plugins, changes)
    BY <1>1, <2>1, <2>2 DEF ListedSo
  <2>4. SoundAt(z, routes, plugins, changes)
    BY <2>1, <2>3 DEF SoundAt
  <2>5. admin' = [admin EXCEPT ![a] = z]
    BY <1>2, <1>4 DEF z
  <2> QED BY <1>1, <2>4, <2>5, HandlerMoves
<1> QED BY <1>3, <1>4

LEMMA LeaveAdminKeeps == ASSUME EdgeInv, NEW a \in Admins, LeaveAdmin(a) PROVE EdgeInv'
<1>1. SoundAt(Free, routes, plugins, changes)
  BY DEF SoundAt
<1> QED BY <1>1, HandlerMoves DEF LeaveAdmin

LEMMA EdgeInvariant == EdgeSpec => []EdgeInv
<1>1. EdgeInit => EdgeInv
  BY EdgeAssumption DEF EdgeInit, EdgeInv, KongInv, AdminInv, SoundAt
<1>2. ASSUME EdgeInv, [EdgeNext]_edgeVars PROVE EdgeInv'
  <2>1. ASSUME NEW a \in Admins,
               \/ ReadServices(a) \/ PostRoute(a) \/ ReadRoutes(a) \/ ReadPlugins(a)
               \/ ListRoutes(a) \/ ListPlugins(a) \/ LeaveAdmin(a)
        PROVE  EdgeInv'
    BY <1>2, <2>1, ReadServicesKeeps, PostRouteKeeps, ReadRoutesKeeps, ReadPluginsKeeps,
       ListRoutesKeeps, ListPluginsKeeps, LeaveAdminKeeps
  <2>2. CASE UNCHANGED edgeVars
    BY <1>2, <2>2 DEF edgeVars, EdgeInv, KongInv, AdminInv
  <2> QED BY <1>2, <2>1, <2>2, AddRouteKeeps, RemoveRouteKeeps, ApplyKeeps, UpdateKeeps,
             DeleteKeeps DEF EdgeNext
<1> QED BY <1>1, <1>2, PTL DEF EdgeSpec

\* Kong's routes and plugins stay what its admin API allows: ids and names of
\* routes unique, a plugin where there is a route for it, and once.
THEOREM EdgeTypeCorrect == EdgeSpec => []EdgeTypeOK
<1>1. EdgeInv => EdgeTypeOK
  <2> SUFFICES ASSUME EdgeInv PROVE EdgeTypeOK
    OBVIOUS
  <2>1. ASSUME NEW a \in Admins, admin[a].pc = "report"
        PROVE  admin[a].status \in [BackendPaths -> Statuses]
    BY <2>1 DEF EdgeInv, AdminInv, SoundAt, Honest, Free
  <2> QED BY <2>1 DEF EdgeInv, KongInv, EdgeTypeOK, Route, Plugin
<1> QED BY <1>1, EdgeInvariant, PTL

\* A report joins two answers of Kong between which others may have changed its
\* routes and plugins, and yet what it says of a path was so at one of the two; a
\* list nobody disturbed is Kong's state.
THEOREM ReportsAreSound == EdgeSpec => []ReportSound
<1>1. EdgeInv => ReportSound
  <2> SUFFICES ASSUME EdgeInv, NEW a \in Admins
               PROVE  /\ admin[a].pc = "report" => Honest(admin[a])
                      /\ admin[a].pc = "list" => ListedSo(admin[a], routes, plugins, changes)
    BY DEF ReportSound, Honest, ListedSo
  <2> QED BY DEF EdgeInv, AdminInv, SoundAt, Free
<1> QED BY <1>1, EdgeInvariant, PTL

=============================================================================
