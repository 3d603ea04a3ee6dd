------------------------------- MODULE KeySet -------------------------------
(***************************************************************************)
(* The key set a worker verifies tokens with (core/security.py): fetched   *)
(* from Keycloak once, under a lock, and dropped whenever a verification   *)
(* fails, so that the next request fetches it again.                       *)
(*                                                                         *)
(* A key set is the set of its kids.  The lock is not fair here; asyncio's *)
(* is.                                                                     *)
(***************************************************************************)
CONSTANTS
  Users,   \* requests under way at a time on one worker
  Kids     \* every key Keycloak ever signs with

VARIABLES
  published,  \* Keycloak's keys
  retired,    \* keys it has withdrawn
  jwks,       \* _jwks_cache
  holder,     \* who holds _jwks_lock
  user,       \* per request: its token, how far it is, the response it has
  missed      \* history: keys for which a good token was refused as unknown

keyVars == <<published, retired, jwks, holder, user, missed>>

Nobody == "nobody"
NoSet == {"no key set"}   \* None

ASSUME KeysAssumption == Nobody \notin Users /\ NoSet \notin SUBSET Kids

Token == [kid : Kids, good : BOOLEAN]
Idle == [pc |-> "idle"]

KeysTypeOK ==
  /\ published \subseteq Kids /\ retired \subseteq Kids /\ missed \subseteq Kids
  /\ jwks \in (SUBSET Kids) \union {NoSet}
  /\ holder \in Users \union {Nobody}
  /\ \A u \in Users :
       user[u] = Idle \/
       user[u].pc \in {"waiting", "fetching", "fetched", "accepted", "unknown", "refused"}

KeysInit ==
  /\ \E k \in Kids : published = {k}
  /\ retired = {}
  /\ jwks = NoSet
  /\ holder = Nobody
  /\ user = [u \in Users |-> Idle]
  /\ missed = {}

\* Keycloak's keys rotate: a new one signs beside the old one, which goes later.
Rotate ==
  /\ \E k \in Kids \ (published \union retired) : published' = published \union {k}
  /\ UNCHANGED <<retired, jwks, holder, user, missed>>

Retire ==
  /\ \E k \in published : published' = published \ {k} /\ retired' = retired \union {k}
  /\ UNCHANGED <<jwks, holder, user, missed>>

To(u, r, pc) == user' = [user EXCEPT ![u] = [r EXCEPT !.pc = pc]]

\* get_current_user from the answer of get_jwks on, without an await: any
\* failure drops the cache, whoever has filled it since.
Verify(u, r, set) ==
  IF r.kid \in set /\ r.good
    THEN To(u, r, "accepted") /\ jwks' = set /\ UNCHANGED missed
    ELSE /\ To(u, r, IF r.kid \in set THEN "refused" ELSE "unknown")
         /\ jwks' = NoSet
         /\ missed' = IF r.good /\ r.kid \in published \ set
                        THEN missed \union {r.kid} ELSE missed

\* get_jwks without the lock: a cached set is used at once.
Begin(u) ==
  /\ user[u] = Idle
  /\ \E t \in Token :
       LET r == [pc |-> "waiting", kid |-> t.kid, good |-> t.good, resp |-> NoSet,
                 warned |-> t.kid \in missed]
       IN IF jwks # NoSet THEN Verify(u, r, jwks)
          ELSE user' = [user EXCEPT ![u] = r] /\ UNCHANGED <<jwks, missed>>
  /\ UNCHANGED <<published, retired, holder>>

\* Mutant: nobody waits for the lock.
AcquireFree(u) ==
  /\ user[u].pc = "waiting"
  /\ IF jwks # NoSet
       THEN Verify(u, user[u], jwks) /\ UNCHANGED holder
       ELSE To(u, user[u], "fetching") /\ holder' = u /\ UNCHANGED <<jwks, missed>>
  /\ UNCHANGED <<published, retired>>

\* The lock, and the second look at the cache under it.
Acquire(u) ==
  /\ user[u].pc = "waiting" /\ holder = Nobody
  /\ IF jwks # NoSet
       THEN Verify(u, user[u], jwks) /\ UNCHANGED holder
       ELSE To(u, user[u], "fetching") /\ holder' = u /\ UNCHANGED <<jwks, missed>>
  /\ UNCHANGED <<published, retired>>

\* Keycloak answers; the keys may rotate before the answer arrives.
Respond(u) ==
  /\ user[u].pc = "fetching"
  /\ To(u, [user[u] EXCEPT !.resp = published], "fetched")
  /\ UNCHANGED <<published, retired, jwks, holder, missed>>

InstallKeys(u) ==
  /\ user[u].pc = "fetched"
  /\ Verify(u, user[u], user[u].resp)
  /\ holder' = Nobody
  /\ UNCHANGED <<published, retired>>

\* _fetch_jwks raises: a timeout, an error status, no JSON.
FetchFails(u) ==
  /\ user[u].pc \in {"fetching", "fetched"}
  /\ To(u, user[u], "refused")
  /\ jwks' = NoSet /\ holder' = Nobody
  /\ UNCHANGED <<published, retired, missed>>

\* The request is answered, or its client leaves: the CancelledError releases
\* the lock and, not being an Exception, does not reach the handler.
Leave(u) ==
  /\ user[u] # Idle
  /\ user' = [user EXCEPT ![u] = Idle]
  /\ holder' = IF holder = u THEN Nobody ELSE holder
  /\ UNCHANGED <<published, retired, jwks, missed>>

KeysNext ==
  \/ Rotate \/ Retire
  \/ \E u \in Users :
       Begin(u) \/ Acquire(u) \/ Respond(u) \/ InstallKeys(u) \/ FetchFails(u) \/ Leave(u)

KeysSpec == KeysInit /\ [][KeysNext]_keyVars

-----------------------------------------------------------------------------
\* A rotated key costs at most the first refusals: a request that begins after
\* one was refused for a key the worker did not have is never refused for that
\* key itself, while Keycloak publishes it, however fetches, bad tokens and
\* disconnects interleave.
RefusedOnce ==
  \A u \in Users :
    ~(/\ user[u] # Idle /\ user[u].pc = "unknown" /\ user[u].good
      /\ user[u].warned /\ user[u].kid \in published)

=============================================================================
