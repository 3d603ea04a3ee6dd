---------------------------- MODULE GatewayNonce ----------------------------
(***************************************************************************)
(* The signature Kong puts on a request (gateway-signature/handler.lua),   *)
(* and what a FastAPI worker does with it before any handler runs          *)
(* (verify_kong_header in core/middleware.py).                             *)
(*                                                                         *)
(* Kong signs a request once; each of its attempts to deliver it carries   *)
(* the same timestamp and nonce.  A worker compares the timestamp with its *)
(* own clock and stores the nonce in Redis with SET NX EX.  Time is in     *)
(* half seconds: the program compares whole seconds and Redis does not.    *)
(*                                                                         *)
(* A signature is the fact that the worker sees what Kong signed.          *)
(***************************************************************************)
EXTENDS Integers

CONSTANTS
  Signed,   \* requests Kong receives, one nonce each
  Attempts,   \* 1..n: Kong's first attempt and its retries
  MaxSkew,    \* gateway_signature_max_skew_seconds
  MinLife,    \* the 60 seconds a nonce is kept at least
  Drift,      \* how far apart the clocks of Kong and a worker are, half seconds
  MaxStall,   \* the longest a worker waits for Redis, half seconds
  LastTick    \* bound on the clock

\* How long a stored nonce lives, in seconds: ex=max(max_skew * 2, 60).
NonceLife == IF 2 * MaxSkew >= MinLife THEN 2 * MaxSkew ELSE MinLife

\* The nonce outlives every moment at which a copy of the request may still be
\* stored, as long as clocks and Redis stay within the rest of the window.
ASSUME WindowAssumption ==
  /\ MaxSkew \in Nat /\ MinLife \in Nat /\ Drift \in Nat
  /\ MaxStall \in Nat /\ LastTick \in Nat
  /\ Attempts \subseteq Nat
  /\ 2 * NonceLife > 2 * MaxSkew + Drift + MaxStall + 1

VARIABLES
  clock,      \* half seconds
  signing,    \* gateway_signature_secret is set
  mail,       \* per request: what Kong sends upstream
  nonce,      \* per request: when its nonce in Redis expires, 0 if absent
  tries,      \* per request and attempt: how far verify_kong_header is
  forgotten   \* requests whose nonce Redis lost before it expired

nonceVars == <<clock, signing, mail, nonce, tries, forgotten>>

\* "signed": by Kong, unchanged.  "altered": another method or path than was
\* signed, or a bad timestamp.  "bare": headers missing.  "options": no check.
Forms == {"signed", "altered", "bare", "options"}
Unsent == [form |-> "none", stamp |-> 0]
Mail == [form : Forms, stamp : Nat] \union {Unsent}

NoCall == [pc |-> "idle", since |-> 0]
Outcomes == {"accepted", "forbidden", "replay", "unavailable"}
Call == [pc : {"idle", "storing"} \union Outcomes, since : Nat]

Now == clock \div 2

NonceTypeOK ==
  /\ clock \in Nat
  /\ signing \in BOOLEAN
  /\ mail \in [Signed -> Mail]
  /\ nonce \in [Signed -> Nat]
  /\ tries \in [Signed -> [Attempts -> Call]]
  /\ forgotten \subseteq Signed

NonceInit ==
  /\ clock = Drift
  /\ signing \in BOOLEAN
  /\ mail = [m \in Signed |-> Unsent]
  /\ nonce = [m \in Signed |-> 0]
  /\ tries = [m \in Signed |-> [k \in Attempts |-> NoCall]]
  /\ forgotten = {}

\* The plugin's access phase: timestamp, nonce and signature, once per request.
\* A request that did not come through Kong has some other form.
Sign(m) ==
  /\ mail[m] = Unsent
  /\ \E form \in Forms, d \in -Drift..Drift :
       mail' = [mail EXCEPT ![m] =
                  [form |-> form,
                   stamp |-> IF form = "signed" THEN (clock + d) \div 2 ELSE 0]]
  /\ UNCHANGED <<clock, signing, nonce, tries, forgotten>>

Become(m, k, pc) ==
  tries' = [tries EXCEPT ![m] = [@ EXCEPT ![k] = [pc |-> pc, since |-> 0]]]

\* abs(now - ts) > max_skew refuses.
InWindow(stamp) == Now - stamp <= MaxSkew /\ stamp - Now <= MaxSkew

\* verify_kong_header up to the await on Redis.  Kong retries an attempt that
\* failed or timed out, which the worker may have received all the same.
ArriveSigned(m, k) ==
  /\ mail[m] # Unsent
  /\ tries[m][k].pc = "idle"
  /\ \A j \in Attempts : j < k => tries[m][j].pc # "idle"
  /\ IF mail[m].form = "options" \/ (~signing /\ mail[m].form # "bare")
       THEN Become(m, k, "accepted")
     ELSE IF ~signing \/ mail[m].form # "signed" \/ ~InWindow(mail[m].stamp)
       THEN Become(m, k, "forbidden")
     ELSE tries' = [tries EXCEPT ![m] = [@ EXCEPT ![k] =
                     [pc |-> "storing", since |-> clock]]]
  /\ UNCHANGED <<clock, signing, mail, nonce, forgotten>>

\* Redis has no live entry for the nonce.
Fresh(m) == nonce[m] <= clock

\* Mutant: ex=max_skew.
StoredSkew(m) ==
  nonce' = IF Fresh(m) THEN [nonce EXCEPT ![m] = clock + 2 * MaxSkew] ELSE nonce

\* What SET key NX EX leaves behind.
Stored(m) ==
  nonce' = IF Fresh(m) THEN [nonce EXCEPT ![m] = clock + 2 * NonceLife] ELSE nonce

\* SET NX and its answer.
Store(m, k) ==
  /\ tries[m][k].pc = "storing"
  /\ Stored(m)
  /\ Become(m, k, IF Fresh(m) THEN "accepted" ELSE "replay")
  /\ UNCHANGED <<clock, signing, mail, forgotten>>

\* SET NX is applied and its answer lost: the client sends it again, or gives
\* up and the worker answers 503.
StoreUnanswered(m, k) ==
  /\ tries[m][k].pc = "storing"
  /\ Stored(m)
  /\ UNCHANGED tries \/ Become(m, k, "unavailable")
  /\ UNCHANGED <<clock, signing, mail, forgotten>>

\* Redis cannot be reached: except Exception, 503.
RedisDown(m, k) ==
  /\ tries[m][k].pc = "storing"
  /\ Become(m, k, "unavailable")
  /\ UNCHANGED <<clock, signing, mail, nonce, forgotten>>

\* Redis restarts or evicts and loses a live entry.
Forget(m) ==
  /\ nonce[m] > clock
  /\ nonce' = [nonce EXCEPT ![m] = 0]
  /\ forgotten' = forgotten \union {m}
  /\ UNCHANGED <<clock, signing, mail, tries>>

\* Time passes, but no worker waits for Redis for more than MaxStall.
Tick ==
  /\ clock < LastTick
  /\ \A m \in Signed, k \in Attempts :
       tries[m][k].pc = "storing" => clock < tries[m][k].since + MaxStall
  /\ clock' = clock + 1
  /\ UNCHANGED <<signing, mail, nonce, tries, forgotten>>

NonceNext ==
  \/ \E m \in Signed : Sign(m) \/ Forget(m)
  \/ \E m \in Signed, k \in Attempts :
       ArriveSigned(m, k) \/ Store(m, k) \/ StoreUnanswered(m, k) \/ RedisDown(m, k)
  \/ Tick

NonceSpec == NonceInit /\ [][NonceNext]_nonceVars

-----------------------------------------------------------------------------
\* A signed request reaches its handler at most once, however often Kong sends
\* it, unless Redis lost its nonce: the entry outlives the window in which the
\* timestamp passes, including the time between that check and the SET.
AcceptedOnce ==
  \A m \in Signed \ forgotten : \A j, k \in Attempts :
    /\ signing /\ mail[m].form = "signed"
    /\ tries[m][j].pc = "accepted" /\ tries[m][k].pc = "accepted"
    => j = k

=============================================================================
