----------------------------- MODULE QuotaProofs -----------------------------
(***************************************************************************)
(* For any number of requests, tenants and workers: how far a tenant can   *)
(* pass its daily limit, and a counter the ledger.                         *)
(***************************************************************************)
EXTENDS Quota, FiniteSetTheorems, TLAPS

-----------------------------------------------------------------------------
(* The inductive invariant. *)

\* Underway of tenant t that today's, or an earlier day's, counter has admitted.
Pending(t) == {r \in Underway : req[r] # Idle /\ req[r].tenant = t /\ req[r].sighted}

\* What a tenant has used and what its admitted requests may still cost.
Reserve(t) ==
  used[today][t] + Share * Cardinality(Pending(t))
    <= Ceiling - 1 + Share * Cardinality(Underway) + excess[t]

\* No key is read or written before its day.
NoFuture ==
  /\ \A d \in Days, t \in Tenants : d > today => used[d][t] = 0
  /\ \A r \in Underway : req[r] # Idle => req[r].day <= today

\* Limits in a file are limits somebody set.
FileOK ==
  /\ DOMAIN file = Workers
  /\ \A w \in Workers : \A t \in Tenants \cap DOMAIN file[w].entries :
       file[w].entries[t] \in 0 .. Ceiling

\* A request that waits for its counter has not been admitted by one.
NotYet == \A r \in Underway : req[r].pc = "checking" => ~req[r].sighted

IInv ==
  /\ QuotaTypeOK /\ NoFuture /\ FileOK /\ NotYet
  /\ \A t \in Tenants : Reserve(t)

-----------------------------------------------------------------------------
(* Arithmetic and cardinalities. *)

\* n resends of a cost within the bounds add at most a share.
LEMMA ShareBound ==
  ASSUME NEW n \in 0 .. Retries + 1, NEW c \in 0 .. MaxCost
  PROVE  n * c \in Nat /\ n * c <= Share
<1> USE QuotaAssumption
<1>1. n * c \in Nat
  OBVIOUS
<1>2. n * c <= n * MaxCost
  OBVIOUS
<1>3. n * MaxCost <= (Retries + 1) * MaxCost
  OBVIOUS
<1>4. (Retries + 1) * MaxCost = MaxCost * (Retries + 1)
  OBVIOUS
<1>5. QED
  BY <1>1, <1>2, <1>3, <1>4 DEF Share

LEMMA ShareType == Share \in Nat
BY QuotaAssumption DEF Share

\* Multiplication by a share is monotonic.
LEMMA ShareMono ==
  ASSUME NEW m \in Nat, NEW n \in Nat, m <= n
  PROVE  Share * m \in Nat /\ Share * n \in Nat /\ Share * m <= Share * n
<1> DEFINE S == Share
<1>1. S \in Nat
  BY ShareType
<1> HIDE DEF S
<1>2. S * m \in Nat /\ S * n \in Nat /\ S * m <= S * n
  BY <1>1
<1>3. QED
  BY <1>2 DEF S

LEMMA ShareLess ==
  ASSUME NEW m \in Nat, NEW n \in Nat, m < n
  PROVE  Share * m + Share <= Share * n
<1> DEFINE S == Share
<1>1. S \in Nat
  BY ShareType
<1> HIDE DEF S
<1>2. S * m + S = S * (m + 1)
  BY <1>1
<1>3. S * (m + 1) <= S * n
  BY <1>1
<1>4. S * m + S <= S * n
  BY <1>2, <1>3
<1>5. QED
  BY <1>4 DEF S

\* The pending requests are some of the requests.
LEMMA PendingFinite ==
  ASSUME NEW t
  PROVE  /\ IsFiniteSet(Pending(t)) /\ Cardinality(Pending(t)) \in Nat
         /\ Cardinality(Underway) \in Nat
         /\ Cardinality(Pending(t)) <= Cardinality(Underway)
BY QuotaAssumption, FS_Subset, FS_CardinalityType DEF Pending

LEMMA PendingFinitePrime ==
  ASSUME NEW t
  PROVE  /\ IsFiniteSet(Pending(t)') /\ Cardinality(Pending(t)') \in Nat
         /\ Cardinality(Underway) \in Nat
         /\ Cardinality(Pending(t)') <= Cardinality(Underway)
BY QuotaAssumption, FS_Subset, FS_CardinalityType DEF Pending

\* Nothing grows: a step that charges nobody and admits nobody keeps the reserve.
LEMMA ReserveKept ==
  ASSUME IInv, NEW t \in Tenants, today' = today, excess' = excess,
         used'[today][t] \in Nat, used'[today][t] <= used[today][t],
         Pending(t)' \subseteq Pending(t)
  PROVE  Reserve(t)'
<1>1. Cardinality(Pending(t)') <= Cardinality(Pending(t))
  BY PendingFinite, FS_Subset
<1>2. Share * Cardinality(Pending(t)') <= Share * Cardinality(Pending(t))
      /\ Share * Cardinality(Pending(t)') \in Nat /\ Share * Cardinality(Pending(t)) \in Nat
  BY <1>1, PendingFinite, PendingFinitePrime, ShareMono
<1>3. Share * Cardinality(Underway) \in Nat
  BY PendingFinite, ShareMono
<1>4. /\ used[today][t] \in Nat /\ excess[t] \in Nat /\ Ceiling \in Nat
      /\ used'[today'][t] \in Nat /\ used'[today'][t] <= used[today][t]
      /\ excess'[t] = excess[t]
  BY QuotaAssumption DEF IInv, QuotaTypeOK
<1>5. Reserve(t)
  BY DEF IInv
<1>6. QED
  BY <1>2, <1>3, <1>4, <1>5 DEF Reserve

-----------------------------------------------------------------------------
(* One lemma per action. *)

LEMMA CheckKeeps ==
  ASSUME IInv, NEW r \in Underway, NEW w \in Workers, NEW t \in Tenants, Check(r, w, t)
  PROVE  IInv'
<1> USE QuotaAssumption
<1> DEFINE new == [pc |-> "checking", worker |-> w, tenant |-> t, limit |-> quotas[w][t],
                   day |-> today, cost |-> 0, sighted |-> FALSE]
<1>1. req' = [req EXCEPT ![r] = new] /\ req[r] = Idle
      /\ UNCHANGED <<today, used, file, quotas, logged, excess, bounds>>
  BY DEF Check
<1>2. new \in Active
  BY DEF IInv, QuotaTypeOK, Check, Active, Days
<1>3. QuotaTypeOK'
  BY <1>1, <1>2 DEF IInv, QuotaTypeOK, bounds
<1>4. NoFuture' /\ FileOK' /\ NotYet'
  BY <1>1 DEF IInv, QuotaTypeOK, NoFuture, FileOK, NotYet, Days
<1>5. ASSUME NEW u \in Tenants PROVE Reserve(u)'
  <2>1. Pending(u)' \subseteq Pending(u)
    BY <1>1 DEF Pending, IInv, QuotaTypeOK
  <2>2. used'[today][u] \in Nat /\ used'[today][u] <= used[today][u]
    BY <1>1 DEF IInv, QuotaTypeOK
  <2>3. QED
    BY <1>1, <2>1, <2>2, ReserveKept
<1>6. QED
  BY <1>3, <1>4, <1>5 DEF IInv

LEMMA AdmitKeeps ==
  ASSUME IInv, NEW r \in Underway, Admit(r)
  PROVE  IInv'
<1> USE QuotaAssumption
<1>0. PICK reachable \in BOOLEAN :
        /\ reachable => Below(r)
        /\ req' = [req EXCEPT ![r].pc = "admitted",
                              ![r].sighted = reachable /\ req[r].day = today]
  BY DEF Admit
<1> DEFINE seen == reachable /\ req[r].day = today
           new  == [req[r] EXCEPT !.pc = "admitted", !.sighted = seen]
<1>1. /\ req[r] \in Active /\ req[r].pc = "checking"
      /\ UNCHANGED <<today, used, file, quotas, logged, excess, bounds>>
  BY DEF IInv, QuotaTypeOK, Admit, Idle
<1>2. req' = [req EXCEPT ![r] = new]
  BY <1>0 DEF IInv, QuotaTypeOK
<1>3. seen \in BOOLEAN
  OBVIOUS
<1>4. /\ new \in Active /\ new # Idle /\ new.tenant = req[r].tenant
      /\ new.day = req[r].day /\ new.pc = "admitted" /\ new.sighted = seen
  BY <1>1, <1>3 DEF Active, Idle
<1> HIDE DEF new
<1>5. QuotaTypeOK'
  BY <1>1, <1>2, <1>4 DEF IInv, QuotaTypeOK, bounds
<1>6. NoFuture' /\ FileOK' /\ NotYet'
  <2>0. FileOK'
    BY <1>1 DEF IInv, FileOK
  <2>1. NoFuture'
    <3>1. new.day <= today
      BY <1>1, <1>4 DEF IInv, NoFuture, Active, Idle
    <3>2. \A q \in Underway : req'[q] = req[q] \/ req'[q] = new
      BY <1>2 DEF IInv, QuotaTypeOK
    <3> QED BY <1>1, <3>1, <3>2 DEF IInv, NoFuture
  <2>2. NotYet'
    BY <1>1, <1>2, <1>4 DEF IInv, QuotaTypeOK, NotYet, Days, Idle, Active
  <2> QED BY <2>0, <2>1, <2>2
<1>7. ASSUME NEW u \in Tenants PROVE Reserve(u)'
  <2>1. CASE seen /\ req[r].tenant = u
    <3>1. used[today][u] < req[r].limit /\ req[r].limit <= Ceiling
          /\ used[today][u] \in Nat /\ req[r].limit \in Nat
      BY <1>0, <1>1, <2>1 DEF Below, IInv, QuotaTypeOK, Active
    <3>2. Share * Cardinality(Pending(u)') <= Share * Cardinality(Underway)
          /\ Share * Cardinality(Pending(u)') \in Nat
          /\ Share * Cardinality(Underway) \in Nat
      BY PendingFinitePrime, ShareMono
    <3>3. excess[u] \in Nat
      BY DEF IInv, QuotaTypeOK
    <3>4. used'[today'][u] = used[today][u] /\ excess'[u] = excess[u]
      BY <1>1
    <3>5. QED
      BY <3>1, <3>2, <3>3, <3>4 DEF Reserve
  <2>2. CASE ~(seen /\ req[r].tenant = u)
    <3>1. Pending(u)' \subseteq Pending(u)
      BY <1>2, <1>4, <2>2 DEF Pending, IInv, QuotaTypeOK
    <3>2. used'[today][u] \in Nat /\ used'[today][u] <= used[today][u]
      BY <1>1 DEF IInv, QuotaTypeOK
    <3>3. QED
      BY <1>1, <3>1, <3>2, ReserveKept
  <2>3. QED
    BY <2>1, <2>2
<1>8. QED
  BY <1>5, <1>6, <1>7 DEF IInv

\* A request that leaves, and what it holds, keep the rest as it is.
LEMMA IdleKeeps ==
  ASSUME IInv, today' = today, used' = used, excess' = excess,
         req' \in [Underway -> Active \cup {Idle}],
         \A r \in Underway : req'[r] = req[r] \/ req'[r] = Idle
  PROVE  /\ \A r \in Underway : req'[r] # Idle => req'[r].day <= today'
         /\ NotYet'
         /\ \A u \in Tenants : Reserve(u)'
<1>1. \A r \in Underway : req'[r] # Idle => req'[r].day <= today'
  BY DEF IInv, NoFuture
<1>2. NotYet'
  BY DEF IInv, NotYet, Idle
<1>3. ASSUME NEW u \in Tenants PROVE Reserve(u)'
  <2>1. Pending(u)' \subseteq Pending(u)
    BY DEF Pending
  <2>2. used'[today][u] \in Nat /\ used'[today][u] <= used[today][u]
    BY DEF IInv, QuotaTypeOK
  <2>3. QED
    BY <2>1, <2>2, ReserveKept
<1>4. QED
  BY <1>1, <1>2, <1>3

LEMMA LeaveKeeps ==
  ASSUME IInv, NEW r \in Underway, Leave(r)
  PROVE  IInv'
<1>1. req' = [req EXCEPT ![r] = Idle]
      /\ UNCHANGED <<today, used, file, quotas, logged, excess, bounds>>
  BY DEF Leave
<1>2. QuotaTypeOK'
  BY <1>1 DEF IInv, QuotaTypeOK, bounds
<1>3. \A s \in Underway : req'[s] = req[s] \/ req'[s] = Idle
  BY <1>1 DEF IInv, QuotaTypeOK
<1>4. /\ \A s \in Underway : req'[s] # Idle => req'[s].day <= today'
      /\ NotYet' /\ \A u \in Tenants : Reserve(u)'
  BY <1>1, <1>2, <1>3, IdleKeeps DEF QuotaTypeOK
<1>5. NoFuture' /\ FileOK'
  BY <1>1, <1>4 DEF IInv, NoFuture, FileOK
<1>6. QED
  BY <1>2, <1>4, <1>5 DEF IInv

LEMMA LogUsageKeeps ==
  ASSUME IInv, NEW r \in Underway, LogUsage(r)
  PROVE  IInv'
<1> USE QuotaAssumption
<1>0. PICK c \in 1 .. MaxCost, heard \in BOOLEAN :
       /\ logged' = [logged EXCEPT ![req[r].tenant] = @ + c]
       /\ req' = [req EXCEPT ![r] =
            IF heard THEN [@ EXCEPT !.pc = "charging", !.cost = c, !.day = today]
            ELSE Idle]
  BY DEF LogUsage
<1> DEFINE new == [req[r] EXCEPT !.pc = "charging", !.cost = c, !.day = today]
<1>1. /\ req[r] \in Active /\ answers' \in 0 .. MaxAnswers
      /\ UNCHANGED <<today, used, file, quotas, excess, changes>>
  BY DEF IInv, QuotaTypeOK, LogUsage, Idle
<1>2. /\ new \in Active /\ new # Idle /\ new.tenant = req[r].tenant
      /\ new.day = today /\ new.pc = "charging" /\ new.sighted = req[r].sighted
  <2>1. c \in 0 .. MaxCost /\ today \in Days
    BY DEF IInv, QuotaTypeOK
  <2>2. QED
    BY <1>1, <2>1 DEF Active, Idle
<1>3. req' = [req EXCEPT ![r] = IF heard THEN new ELSE Idle]
  BY <1>0 DEF IInv, QuotaTypeOK
<1>4. logged' \in [Tenants -> Nat]
  BY <1>0, <1>1 DEF IInv, QuotaTypeOK, Active
<1> HIDE DEF new
<1>5. QuotaTypeOK'
  BY <1>1, <1>2, <1>3, <1>4 DEF IInv, QuotaTypeOK
<1>6. NoFuture' /\ FileOK' /\ NotYet'
  <2>1. today \in Nat
    BY DEF IInv, QuotaTypeOK, Days
  <2>2. CASE heard
    BY <1>1, <1>2, <1>3, <2>1, <2>2 DEF IInv, QuotaTypeOK, NoFuture, FileOK, NotYet
  <2>3. CASE ~heard
    BY <1>1, <1>3, <2>3 DEF IInv, QuotaTypeOK, NoFuture, FileOK, NotYet, Idle
  <2>4. QED
    BY <2>2, <2>3
<1>7. ASSUME NEW u \in Tenants PROVE Reserve(u)'
  <2>1. Pending(u)' \subseteq Pending(u)
    BY <1>1, <1>2, <1>3 DEF Pending, IInv, QuotaTypeOK, Active, Idle
  <2>2. used'[today][u] \in Nat /\ used'[today][u] <= used[today][u]
    BY <1>1 DEF IInv, QuotaTypeOK
  <2>3. QED
    BY <1>1, <2>1, <2>2, ReserveKept
<1>8. QED
  BY <1>5, <1>6, <1>7 DEF IInv

LEMMA ChargeKeeps ==
  ASSUME IInv, NEW r \in Underway, Charge(r)
  PROVE  IInv'
<1> USE QuotaAssumption
<1>0. PICK n \in 0 .. Retries + 1 :
       /\ used' = [used EXCEPT ![req[r].day][req[r].tenant] = @ + n * req[r].cost]
       /\ excess' = IF req[r].sighted \/ req[r].day # today THEN excess
                    ELSE [excess EXCEPT ![req[r].tenant] = @ + n * req[r].cost]
  BY DEF Charge
<1>1. /\ req[r] \in Active /\ req[r].pc = "charging" /\ req[r] # Idle
      /\ req' = [req EXCEPT ![r] = Idle]
      /\ UNCHANGED <<today, file, quotas, logged, bounds>>
  BY DEF IInv, QuotaTypeOK, Charge, Idle
<1> DEFINE d == req[r].day
           t == req[r].tenant
           sum == n * req[r].cost
<1>2. d \in Days /\ t \in Tenants /\ req[r].sighted \in BOOLEAN /\ d <= today
  BY <1>1 DEF Active, IInv, NoFuture
<1>3. sum \in Nat /\ sum <= Share
  BY <1>1, ShareBound DEF Active
<1>4. used' = [used EXCEPT ![d][t] = @ + sum]
      /\ excess' = IF req[r].sighted \/ d # today THEN excess
                   ELSE [excess EXCEPT ![t] = @ + sum]
  BY <1>0
<1>5. req[r].sighted => r \in Pending(t)
  BY <1>1 DEF Pending
<1> HIDE DEF d, t, sum
<1>6. used' \in [Days -> [Tenants -> Nat]] /\ excess' \in [Tenants -> Nat]
  <2>1. used \in [Days -> [Tenants -> Nat]] /\ excess \in [Tenants -> Nat]
    BY DEF IInv, QuotaTypeOK
  <2>2. used[d][t] + sum \in Nat /\ excess[t] + sum \in Nat
    BY <1>2, <1>3, <2>1
  <2>3. QED
    BY <1>2, <1>4, <2>1, <2>2
<1>7. QuotaTypeOK'
  BY <1>1, <1>6 DEF IInv, QuotaTypeOK, bounds
<1>8. NoFuture'
  <2>1. \A e \in Days, u \in Tenants : e > today => used'[e][u] = 0
    BY <1>2, <1>4 DEF IInv, NoFuture, QuotaTypeOK, Days
  <2>2. QED
    BY <1>1, <2>1 DEF IInv, NoFuture, QuotaTypeOK
<1>9. FileOK' /\ NotYet'
  BY <1>1 DEF IInv, QuotaTypeOK, FileOK, NotYet, Idle
<1>10. ASSUME NEW u \in Tenants PROVE Reserve(u)'
  <2>0. /\ Reserve(u) /\ used[today][u] \in Nat /\ excess[u] \in Nat /\ Ceiling \in Nat
        /\ today \in Days
    BY DEF IInv, QuotaTypeOK
  <2>1. /\ Pending(u)' \subseteq Pending(u)
        /\ u = t /\ req[r].sighted => Pending(u)' = Pending(u) \ {r}
    BY <1>1 DEF Pending, IInv, QuotaTypeOK
  <2>2. /\ Share * Cardinality(Pending(u)') \in Nat /\ Share * Cardinality(Pending(u)) \in Nat
        /\ Share * Cardinality(Underway) \in Nat
        /\ Share * Cardinality(Pending(u)') <= Share * Cardinality(Pending(u))
    <3>1. Cardinality(Pending(u)') <= Cardinality(Pending(u))
      BY <2>1, PendingFinite, FS_Subset
    <3>2. QED
      BY <3>1, PendingFinite, PendingFinitePrime, ShareMono
  <2>3. CASE u = t /\ d = today /\ req[r].sighted
    <3>1. Share * Cardinality(Pending(u)') + Share <= Share * Cardinality(Pending(u))
      <4>1. Cardinality(Pending(u) \ {r}) = Cardinality(Pending(u)) - 1
        BY <1>5, <2>3, PendingFinite, FS_RemoveElement
      <4>2. Cardinality(Pending(u)') < Cardinality(Pending(u))
        <5>1. Cardinality(Pending(u)') = Cardinality(Pending(u) \ {r})
          BY <2>1, <2>3
        <5>2. Cardinality(Pending(u)) \in Nat
          BY PendingFinite
        <5>3. QED
          BY <4>1, <5>1, <5>2
      <4>3. QED
        BY <4>2, PendingFinite, PendingFinitePrime, ShareLess
    <3>2. used'[today'][u] = used[today][u] + sum /\ excess'[u] = excess[u]
      BY <1>1, <1>2, <1>4, <2>0, <2>3 DEF IInv, QuotaTypeOK
    <3>3. QED
      BY <1>3, <2>0, <2>2, <3>1, <3>2, ShareType DEF Reserve
  <2>4. CASE u = t /\ d = today /\ ~req[r].sighted
    <3>1. used'[today'][u] = used[today][u] + sum /\ excess'[u] = excess[u] + sum
      BY <1>1, <1>2, <1>4, <2>0, <2>4 DEF IInv, QuotaTypeOK
    <3>2. QED
      BY <1>3, <2>0, <2>2, <3>1 DEF Reserve
  <2>5. CASE ~(u = t /\ d = today)
    <3>1. used'[today'][u] = used[today][u] /\ excess'[u] = excess[u]
      BY <1>1, <1>2, <1>4, <2>0, <2>5 DEF IInv, QuotaTypeOK
    <3>2. QED
      BY <2>0, <2>2, <3>1 DEF Reserve
  <2>6. QED
    BY <1>2, <2>3, <2>4, <2>5
<1>11. QED
  BY <1>7, <1>8, <1>9, <1>10 DEF IInv

\* What Load gives stays within the limits.
LEMMA LoadType ==
  ASSUME NEW f, \A t \in Tenants \cap DOMAIN f.entries : f.entries[t] \in 0 .. Ceiling
  PROVE  Load(f) \in [Tenants -> 0 .. Ceiling]
<1>1. 0 \in 0 .. Ceiling /\ DefaultLimit \in 0 .. Ceiling
  BY QuotaAssumption
<1>2. ASSUME NEW t \in Tenants
      PROVE  (IF f.form # "yaml" THEN 0
              ELSE IF t \in DOMAIN f.entries THEN f.entries[t]
              ELSE DefaultLimit) \in 0 .. Ceiling
  BY <1>1
<1>3. QED
  BY <1>2 DEF Load

\* The files a write or a container leaves hold limits in the range.
LEMMA FileTypes ==
  /\ \A t \in Tenants \cap DOMAIN Yaml(ImageLimits).entries :
       Yaml(ImageLimits).entries[t] \in 0 .. Ceiling
  /\ \A f \in Torn : \A t \in Tenants \cap DOMAIN f.entries : f.entries[t] \in 0 .. Ceiling
<1>1. \A t \in DOMAIN ImageLimits : ImageLimits[t] \in 0 .. Ceiling
  BY QuotaAssumption
<1>2. Yaml(ImageLimits).entries = ImageLimits
  BY DEF Yaml
<1>3. DOMAIN <<>> = {}
  OBVIOUS
<1>4. \A f \in Torn : f.entries = <<>>
  BY DEF Torn
<1>5. QED
  BY <1>1, <1>2, <1>3, <1>4

\* A step that only changes files and limits.
LEMMA FileStep ==
  ASSUME IInv, UNCHANGED <<today, used, req, logged, excess, answers>>,
         changes < MaxChanges, changes' = changes + 1,
         quotas' \in [Workers -> [Tenants -> 0 .. Ceiling]], FileOK'
  PROVE  IInv'
<1>1. QuotaTypeOK'
  BY QuotaAssumption DEF IInv, QuotaTypeOK
<1>2. NoFuture' /\ NotYet'
  BY DEF IInv, NoFuture, NotYet
<1>3. \A t \in Tenants : Reserve(t)'
  BY DEF IInv, Reserve, Pending
<1>4. QED
  BY <1>1, <1>2, <1>3 DEF IInv

LEMMA UpdateKeeps ==
  ASSUME IInv, NEW w \in Workers, NEW t \in Tenants, NEW max \in Limits, Update(w, t, max)
  PROVE  IInv'
<1> USE QuotaAssumption
<1> DEFINE old == file[w].entries
           new == [x \in DOMAIN old \cup {t} |-> IF x = t THEN max ELSE old[x]]
<1>1. /\ file' = [file EXCEPT ![w] = Yaml(new)]
      /\ quotas' = [quotas EXCEPT ![w] = Load(file'[w])]
      /\ UNCHANGED <<today, used, req, logged, excess, answers>>
      /\ changes < MaxChanges /\ changes' = changes + 1
  BY DEF Update, IInv, FileOK
<1>2. file'[w] = Yaml(new) /\ Yaml(new).entries = new
  BY <1>1 DEF Yaml, IInv, FileOK
<1>3. \A u \in Tenants \cap DOMAIN new : new[u] \in 0 .. Ceiling
  BY DEF IInv, FileOK
<1> HIDE DEF new
<1>4. Load(file'[w]) \in [Tenants -> 0 .. Ceiling]
  BY <1>2, <1>3, LoadType
<1>5. quotas' \in [Workers -> [Tenants -> 0 .. Ceiling]]
  BY <1>1, <1>4 DEF IInv, QuotaTypeOK
<1>6. FileOK'
  BY <1>1, <1>2, <1>3 DEF IInv, FileOK
<1>7. QED
  BY <1>1, <1>5, <1>6, FileStep

LEMMA UpdateFailsKeeps ==
  ASSUME IInv, NEW w \in Workers, UpdateFails(w)
  PROVE  IInv'
<1>1. PICK f \in Torn : file' = [file EXCEPT ![w] = f]
  BY DEF UpdateFails
<1>2. /\ UNCHANGED <<today, used, quotas, req, logged, excess, answers>>
      /\ changes < MaxChanges /\ changes' = changes + 1
  BY DEF UpdateFails
<1>3. FileOK'
  BY <1>1, FileTypes DEF IInv, FileOK
<1>4. quotas' \in [Workers -> [Tenants -> 0 .. Ceiling]]
  BY <1>2 DEF IInv, QuotaTypeOK
<1>5. QED
  BY <1>2, <1>3, <1>4, FileStep

LEMMA RestartKeeps ==
  ASSUME IInv, NEW w \in Workers, Restart(w)
  PROVE  IInv'
<1>1. PICK f \in {file[w], Yaml(ImageLimits)} \cup Torn :
        /\ file' = [file EXCEPT ![w] = f]
        /\ quotas' = [quotas EXCEPT ![w] = Load(f)]
  BY DEF Restart
<1>2. /\ UNCHANGED <<today, used, logged, excess, answers>>
      /\ changes < MaxChanges /\ changes' = changes + 1
      /\ req' = [r \in Underway |-> IF req[r] # Idle /\ req[r].worker = w THEN Idle
                                    ELSE req[r]]
  BY DEF Restart
<1>3. \A t \in Tenants \cap DOMAIN f.entries : f.entries[t] \in 0 .. Ceiling
  BY FileTypes DEF IInv, FileOK
<1>4. FileOK'
  BY <1>1, <1>3 DEF IInv, FileOK
<1>5. quotas' \in [Workers -> [Tenants -> 0 .. Ceiling]]
  BY <1>1, <1>3, LoadType DEF IInv, QuotaTypeOK
<1>6. req' \in [Underway -> Active \cup {Idle}]
      /\ \A s \in Underway : req'[s] = req[s] \/ req'[s] = Idle
  BY <1>2 DEF IInv, QuotaTypeOK
<1>7. QuotaTypeOK'
  BY <1>2, <1>5, <1>6, QuotaAssumption DEF IInv, QuotaTypeOK
<1>8. /\ \A s \in Underway : req'[s] # Idle => req'[s].day <= today'
      /\ NotYet' /\ \A u \in Tenants : Reserve(u)'
  BY <1>2, <1>6, IdleKeeps
<1>9. NoFuture'
  BY <1>2, <1>8 DEF IInv, NoFuture
<1>10. QED
  BY <1>4, <1>7, <1>8, <1>9 DEF IInv

LEMMA ForgetKeeps ==
  ASSUME IInv, NEW d \in Days, NEW t \in Tenants, Forget(d, t)
  PROVE  IInv'
<1> USE QuotaAssumption
<1>1. PICK n \in 0 .. used[d][t] - 1 : used' = [used EXCEPT ![d][t] = n]
  BY DEF Forget
<1>2. /\ UNCHANGED <<today, file, quotas, req, logged, excess, answers>>
      /\ changes < MaxChanges /\ changes' = changes + 1 /\ used[d][t] > 0
  BY DEF Forget
<1>3. used[d][t] \in Nat /\ n \in Nat /\ n <= used[d][t]
  BY DEF IInv, QuotaTypeOK
<1>4. used' \in [Days -> [Tenants -> Nat]]
  BY <1>1, <1>3 DEF IInv, QuotaTypeOK
<1>5. QuotaTypeOK'
  BY <1>2, <1>4 DEF IInv, QuotaTypeOK
<1>6. \A e \in Days, u \in Tenants : used'[e][u] <= used[e][u]
  BY <1>1, <1>3 DEF IInv, QuotaTypeOK
<1>7. NoFuture' /\ FileOK' /\ NotYet'
  <2>1. \A e \in Days, u \in Tenants : e > today => used'[e][u] = 0
    <3>1. ASSUME NEW e \in Days, NEW u \in Tenants, e > today PROVE used'[e][u] = 0
      <4>1. used[e][u] = 0 /\ used'[e][u] \in Nat
        BY <1>4, <3>1 DEF IInv, NoFuture
      <4>2. QED
        BY <1>6, <4>1
    <3>2. QED
      BY <3>1
  <2>2. QED
    BY <1>2, <2>1 DEF IInv, NoFuture, FileOK, NotYet
<1>8. ASSUME NEW u \in Tenants PROVE Reserve(u)'
  <2>1. Pending(u)' \subseteq Pending(u)
    BY <1>2 DEF Pending
  <2>2. used'[today][u] \in Nat /\ used'[today][u] <= used[today][u]
    BY <1>4, <1>6 DEF IInv, QuotaTypeOK
  <2>3. QED
    BY <1>2, <2>1, <2>2, ReserveKept
<1>9. QED
  BY <1>5, <1>7, <1>8 DEF IInv

LEMMA MidnightKeeps ==
  ASSUME IInv, Midnight
  PROVE  IInv'
<1> USE QuotaAssumption
<1>1. /\ today < LastDay /\ today' = today + 1 /\ excess' = [t \in Tenants |-> 0]
      /\ UNCHANGED <<used, file, quotas, req, logged, bounds>>
  BY DEF Midnight
<1>2. today \in Nat /\ today' \in Days /\ today' > today
  BY <1>1 DEF IInv, QuotaTypeOK, Days
<1>3. QuotaTypeOK'
  BY <1>1, <1>2 DEF IInv, QuotaTypeOK, bounds
<1>4. NoFuture'
  <2>1. \A d \in Days, t \in Tenants : d > today' => used'[d][t] = 0
    BY <1>1, <1>2 DEF IInv, NoFuture, Days
  <2>2. \A r \in Underway : req'[r] # Idle => req'[r].day <= today'
    <3>1. ASSUME NEW r \in Underway, req[r] # Idle PROVE req[r].day <= today'
      <4>1. req[r].day \in Nat /\ req[r].day <= today
        BY <3>1 DEF IInv, QuotaTypeOK, NoFuture, Active, Days
      <4>2. QED
        BY <1>1, <1>2, <4>1
    <3>2. QED
      BY <1>1, <3>1
  <2>3. QED
    BY <2>1, <2>2 DEF NoFuture
<1>5. FileOK' /\ NotYet'
  BY <1>1 DEF IInv, FileOK, NotYet
<1>6. ASSUME NEW t \in Tenants PROVE Reserve(t)'
  <2>1. used'[today'][t] = 0 /\ excess'[t] = 0
    BY <1>1, <1>2 DEF IInv, NoFuture
  <2>2. Share * Cardinality(Pending(t)') <= Share * Cardinality(Underway)
        /\ Share * Cardinality(Pending(t)') \in Nat /\ Share * Cardinality(Underway) \in Nat
    BY PendingFinitePrime, ShareMono
  <2>3. QED
    BY <2>1, <2>2 DEF Reserve
<1>7. QED
  BY <1>3, <1>4, <1>5, <1>6 DEF IInv

-----------------------------------------------------------------------------
(* The invariant, and what it gives. *)

LEMMA Invariant == QuotaSpec => []IInv
<1> USE QuotaAssumption
<1>1. QuotaInit => IInv
  <2> SUFFICES ASSUME QuotaInit PROVE IInv
    OBVIOUS
  <2>1. /\ \A d \in Days, t \in Tenants : used[d][t] = 0
        /\ \A r \in Underway : req[r] = Idle
        /\ \A t \in Tenants : excess[t] = 0
        /\ today = 1
    BY DEF QuotaInit
  <2>2. FileOK
    BY FileTypes DEF QuotaInit, FileOK
  <2>3. Load(Yaml(ImageLimits)) \in [Tenants -> 0 .. Ceiling]
    BY FileTypes, LoadType
  <2>4. QuotaTypeOK
    BY <2>3 DEF QuotaInit, QuotaTypeOK, Days
  <2>5. NoFuture /\ NotYet
    BY <2>1 DEF NoFuture, NotYet, Idle
  <2>6. ASSUME NEW t \in Tenants PROVE Reserve(t)
    <3>1. used[today][t] = 0 /\ excess[t] = 0
      BY <2>1 DEF Days
    <3>2. /\ Share * Cardinality(Pending(t)) <= Share * Cardinality(Underway)
          /\ Share * Cardinality(Pending(t)) \in Nat /\ Share * Cardinality(Underway) \in Nat
      BY PendingFinite, ShareMono
    <3>3. QED
      BY <3>1, <3>2 DEF Reserve
  <2>7. QED
    BY <2>2, <2>4, <2>5, <2>6 DEF IInv
<1>2. IInv /\ [QuotaNext]_quotaVars => IInv'
  <2>1. ASSUME IInv, UNCHANGED quotaVars PROVE IInv'
    BY <2>1 DEF quotaVars, bounds, IInv, QuotaTypeOK, NoFuture, FileOK, NotYet, Reserve, Pending
  <2>2. ASSUME IInv, QuotaNext PROVE IInv'
    BY <2>2, CheckKeeps, AdmitKeeps, LeaveKeeps, LogUsageKeeps, ChargeKeeps, UpdateKeeps,
       UpdateFailsKeeps, RestartKeeps, ForgetKeeps, MidnightKeeps DEF QuotaNext
  <2>3. QED
    BY <2>1, <2>2
<1>3. QED
  BY <1>1, <1>2, PTL DEF QuotaSpec

\* Every variable keeps its type, and a worker enforces no limit above the highest
\* one ever set.
THEOREM TypeCorrect == QuotaSpec => []QuotaTypeOK
<1>1. IInv => QuotaTypeOK
  BY DEF IInv
<1>2. QED
  BY <1>1, Invariant, PTL

\* A tenant passes its daily limit by at most what the requests under way can
\* cost, apart from those admitted without today's counter.
THEOREM OvershootBoundedAlways == QuotaSpec => []OvershootBounded
<1>1. ASSUME IInv, NEW t \in Tenants
      PROVE  used[today][t] <= Ceiling - 1 + Share * Cardinality(Underway) + excess[t]
  <2>1. Reserve(t) /\ used[today][t] \in Nat /\ excess[t] \in Nat /\ Ceiling \in Nat
    BY <1>1, QuotaAssumption DEF IInv, QuotaTypeOK
  <2>2. Share * Cardinality(Pending(t)) \in Nat /\ Share * Cardinality(Underway) \in Nat
    BY PendingFinite, ShareMono
  <2>3. QED
    BY <2>1, <2>2 DEF Reserve
<1>2. IInv => OvershootBounded
  BY <1>1 DEF OvershootBounded
<1>3. QED
  BY <1>2, Invariant, PTL

-----------------------------------------------------------------------------
(* The counters and the ledger.  A sum over requests is the size of a set: *)
(* a request that is to charge c tokens owes the pairs <<r, 1>> .. <<r, c>>. *)

Sends == Retries + 1

\* The tokens that have a usage row and are still to be charged to a counter.
Owed(d, t) ==
  {p \in Underway \X (1 .. MaxCost) :
     /\ req[p[1]] # Idle /\ req[p[1]].pc = "charging"
     /\ req[p[1]].day = d /\ req[p[1]].tenant = t /\ p[2] <= req[p[1]].cost}

\* A counter, with all that it may still be charged, is covered by usage rows.
Backed(d, t) == used[d][t] + Sends * Cardinality(Owed(d, t)) <= Sends * logged[t]

BackedAll == \A d \in Days, t \in Tenants : Backed(d, t)

\* The tokens one request owes.
Span(r, c) == {r} \X (1 .. c)

LEMMA SpanSize ==
  ASSUME NEW r, NEW c \in Nat
  PROVE  IsFiniteSet(Span(r, c)) /\ Cardinality(Span(r, c)) = c
<1>1. IsFiniteSet({r}) /\ Cardinality({r}) = 1
  BY FS_Singleton
<1>2. IsFiniteSet(1 .. c) /\ Cardinality(1 .. c) = c
  BY FS_Interval
<1>3. IsFiniteSet(Span(r, c)) /\ Cardinality(Span(r, c)) = Cardinality({r}) * Cardinality(1 .. c)
  BY <1>1, <1>2, FS_Product DEF Span
<1>4. QED
  BY <1>1, <1>2, <1>3

\* All tokens that may be owed are finitely many.
LEMMA OwedFinite ==
  ASSUME NEW d, NEW t
  PROVE  /\ IsFiniteSet(Owed(d, t)) /\ Cardinality(Owed(d, t)) \in Nat
         /\ IsFiniteSet(Owed(d, t)') /\ Cardinality(Owed(d, t)') \in Nat
<1>1. IsFiniteSet(Underway \X (1 .. MaxCost))
  <2>1. IsFiniteSet(Underway) /\ MaxCost \in Int
    BY QuotaAssumption
  <2>2. IsFiniteSet(1 .. MaxCost)
    BY <2>1, FS_Interval
  <2>3. QED
    BY <2>1, <2>2, FS_Product
<1>2. /\ Owed(d, t) \in SUBSET (Underway \X (1 .. MaxCost))
      /\ Owed(d, t)' \in SUBSET (Underway \X (1 .. MaxCost))
  BY DEF Owed
<1>3. QED
  BY <1>1, <1>2, FS_Subset, FS_CardinalityType

\* A step that adds at most c owed tokens beside c in the ledger.
LEMMA BackedKept ==
  ASSUME QuotaTypeOK, QuotaTypeOK', NEW d \in Days, NEW t \in Tenants, Backed(d, t), NEW c \in Nat,
         used'[d][t] <= used[d][t], logged'[t] = logged[t] + c,
         Cardinality(Owed(d, t)') <= Cardinality(Owed(d, t)) + c
  PROVE  Backed(d, t)'
<1> DEFINE K == Sends
           m == Cardinality(Owed(d, t))
           n == Cardinality(Owed(d, t)')
<1>1. K \in Nat /\ m \in Nat /\ n \in Nat /\ n <= m + c
  BY OwedFinite, QuotaAssumption DEF Sends
<1>2. used[d][t] \in Nat /\ used'[d][t] \in Nat /\ logged[t] \in Nat
  BY DEF QuotaTypeOK
<1>3. used[d][t] + K * m <= K * logged[t]
  BY DEF Backed
<1> HIDE DEF K, m, n
<1>4. K * n <= K * (m + c) /\ K * (m + c) = K * m + K * c
      /\ K * (logged[t] + c) = K * logged[t] + K * c
      /\ K * n \in Nat /\ K * m \in Nat /\ K * c \in Nat /\ K * logged[t] \in Nat
  BY <1>1, <1>2
<1>5. used'[d][t] + K * n <= K * logged'[t]
  BY <1>2, <1>3, <1>4
<1>6. QED
  BY <1>5 DEF Backed, K, n, Sends

\* In particular one that adds none.
LEMMA BackedStays ==
  ASSUME QuotaTypeOK, QuotaTypeOK', NEW d \in Days, NEW t \in Tenants, Backed(d, t),
         used'[d][t] <= used[d][t], logged'[t] = logged[t],
         Owed(d, t)' \subseteq Owed(d, t)
  PROVE  Backed(d, t)'
<1>1. Cardinality(Owed(d, t)') <= Cardinality(Owed(d, t)) + 0
  BY OwedFinite, FS_Subset
<1>2. logged'[t] = logged[t] + 0
  BY DEF QuotaTypeOK
<1>3. QED
  BY <1>1, <1>2, BackedKept

\* A row is written before its tokens are owed.
LEMMA LogUsageBacked ==
  ASSUME QuotaTypeOK, QuotaTypeOK', BackedAll, NEW r \in Underway, LogUsage(r)
  PROVE  BackedAll'
<1>1. PICK c \in 1 .. MaxCost, heard \in BOOLEAN :
        /\ logged' = [logged EXCEPT ![req[r].tenant] = @ + c]
        /\ req' = [req EXCEPT ![r] =
             IF heard THEN [@ EXCEPT !.pc = "charging", !.cost = c, !.day = today]
             ELSE Idle]
  BY DEF LogUsage
<1>2. used' = used /\ req[r] \in Active /\ c \in Nat
  <2>1. used' = used /\ req[r] \in Active
    BY DEF LogUsage, QuotaTypeOK, Idle
  <2>2. c \in Nat
    BY QuotaAssumption
  <2>3. QED
    BY <2>1, <2>2
<1>3. /\ \A s \in Underway \ {r} : req'[s] = req[s]
      /\ \/ req'[r] = Idle
         \/ /\ req'[r].pc = "charging" /\ req'[r].cost = c /\ req'[r].day = today
            /\ req'[r].tenant = req[r].tenant
  BY <1>1, <1>2 DEF QuotaTypeOK, Active
<1> SUFFICES ASSUME NEW d \in Days, NEW t \in Tenants PROVE Backed(d, t)'
  BY DEF BackedAll
<1>4. Backed(d, t) /\ used'[d][t] <= used[d][t]
  BY <1>2 DEF BackedAll, QuotaTypeOK
<1>5. CASE t = req[r].tenant
  <2>1. logged'[t] = logged[t] + c
    BY <1>1, <1>5 DEF QuotaTypeOK
  <2>2. Owed(d, t)' \subseteq Owed(d, t) \cup Span(r, c)
    <3>1. ASSUME NEW q \in Owed(d, t)' PROVE q \in Owed(d, t) \cup Span(r, c)
      <4>1. PICK x \in Underway, i \in 1 .. MaxCost : q = <<x, i>>
        BY <3>1 DEF Owed
      <4>2. CASE x = r
        BY <1>2, <1>3, <3>1, <4>1, <4>2 DEF Owed, Span
      <4>3. CASE x # r
        BY <1>3, <3>1, <4>1, <4>3 DEF Owed
      <4>4. QED
        BY <4>2, <4>3
    <3>2. QED
      BY <3>1
  <2>3. Cardinality(Owed(d, t)') <= Cardinality(Owed(d, t)) + c
    <3>1. IsFiniteSet(Span(r, c)) /\ Cardinality(Span(r, c)) = c
      BY <1>2, SpanSize
    <3>2. /\ IsFiniteSet(Owed(d, t) \cup Span(r, c))
          /\ Cardinality(Owed(d, t) \cup Span(r, c)) =
               Cardinality(Owed(d, t)) + c - Cardinality(Owed(d, t) \cap Span(r, c))
      BY <3>1, OwedFinite, FS_Union
    <3>3. Cardinality(Owed(d, t) \cap Span(r, c)) \in Nat
      BY <3>1, FS_Intersection, FS_CardinalityType
    <3>4. Cardinality(Owed(d, t)') <= Cardinality(Owed(d, t) \cup Span(r, c))
      BY <2>2, <3>2, FS_Subset
    <3>5. QED
      BY <1>2, <3>2, <3>3, <3>4, OwedFinite
  <2>4. QED
    BY <1>2, <1>4, <2>1, <2>3, BackedKept
<1>6. CASE t # req[r].tenant
  <2>1. logged'[t] = logged[t]
    BY <1>1, <1>6 DEF QuotaTypeOK
  <2>2. Owed(d, t)' \subseteq Owed(d, t)
    BY <1>3, <1>6 DEF Owed
  <2>3. QED
    BY <1>4, <2>1, <2>2, BackedStays
<1>7. QED
  BY <1>5, <1>6

\* What is charged was owed, and is charged once for every time it was sent.
LEMMA ChargeBacked ==
  ASSUME QuotaTypeOK, QuotaTypeOK', BackedAll, NEW r \in Underway, Charge(r)
  PROVE  BackedAll'
<1>1. PICK n \in 0 .. Retries + 1 :
        used' = [used EXCEPT ![req[r].day][req[r].tenant] = @ + n * req[r].cost]
  BY DEF Charge
<1>2. /\ req[r] \in Active /\ req[r] # Idle /\ req[r].pc = "charging"
      /\ req' = [req EXCEPT ![r] = Idle] /\ logged' = logged
  BY DEF Charge, QuotaTypeOK, Idle
<1>3. req[r].cost \in 0 .. MaxCost /\ req[r].cost \in Nat /\ MaxCost \in Nat
  BY <1>2, QuotaAssumption DEF Active
<1> SUFFICES ASSUME NEW d \in Days, NEW t \in Tenants PROVE Backed(d, t)'
  BY DEF BackedAll
<1>4. Backed(d, t) /\ used[d][t] \in Nat /\ used'[d][t] \in Nat /\ logged[t] \in Nat
  BY DEF BackedAll, QuotaTypeOK
<1>5. CASE d = req[r].day /\ t = req[r].tenant
  <2> DEFINE c == req[r].cost
             K == Sends
             m == Cardinality(Owed(d, t))
  <2>1. Span(r, c) \subseteq Owed(d, t) /\ Owed(d, t)' = Owed(d, t) \ Span(r, c)
    <3>1. Span(r, c) \subseteq Owed(d, t)
      BY <1>2, <1>3, <1>5 DEF Span, Owed
    <3>2. ASSUME NEW x \in Underway, NEW i \in 1 .. MaxCost
          PROVE  <<x, i>> \in Owed(d, t)' <=> <<x, i>> \in Owed(d, t) \ Span(r, c)
      <4>1. CASE x = r
        BY <1>2, <1>3, <3>2, <4>1 DEF Span, Owed, QuotaTypeOK
      <4>2. CASE x # r
        BY <1>2, <3>2, <4>2 DEF Span, Owed, QuotaTypeOK
      <4>3. QED
        BY <4>1, <4>2
    <3>3. \A q : q \in Owed(d, t)' \/ q \in Owed(d, t) =>
             \E x \in Underway, i \in 1 .. MaxCost : q = <<x, i>>
      BY DEF Owed
    <3>4. QED
      BY <3>1, <3>2, <3>3
  <2>2. Cardinality(Owed(d, t)') = m - c
    <3>1. Owed(d, t) \cap Span(r, c) = Span(r, c)
      BY <2>1
    <3>2. Cardinality(Owed(d, t) \ Span(r, c)) = m - Cardinality(Owed(d, t) \cap Span(r, c))
      BY OwedFinite, FS_Difference
    <3>3. QED
      BY <1>3, <2>1, <3>1, <3>2, SpanSize
  <2>3. used'[d][t] = used[d][t] + n * c
    BY <1>1, <1>5 DEF QuotaTypeOK
  <2>4. K \in Nat /\ m \in Nat /\ m - c \in Nat /\ n \in Nat /\ n <= K
    BY <2>2, OwedFinite, QuotaAssumption DEF Sends
  <2>5. used[d][t] + K * m <= K * logged[t]
    BY <1>4 DEF Backed
  <2> HIDE DEF c, K, m
  <2>6. c \in Nat
    BY <1>3 DEF c
  <2>7. K * (m - c) = K * m - K * c /\ n * c <= K * c
        /\ n * c \in Nat /\ K * c \in Nat /\ K * m \in Nat /\ K * logged[t] \in Nat
    BY <1>4, <2>4, <2>6
  <2>8. used'[d][t] + K * (m - c) <= K * logged[t]
    BY <1>4, <2>3, <2>5, <2>7
  <2>9. QED
    BY <1>2, <2>2, <2>8 DEF Backed, K, Sends
<1>6. CASE ~(d = req[r].day /\ t = req[r].tenant)
  <2>1. used'[d][t] <= used[d][t]
    BY <1>1, <1>4, <1>6 DEF QuotaTypeOK
  <2>2. Owed(d, t)' \subseteq Owed(d, t)
    BY <1>2 DEF Owed, QuotaTypeOK
  <2>3. QED
    BY <1>2, <1>4, <2>1, <2>2, BackedStays
<1>7. QED
  BY <1>5, <1>6

\* Every other step owes nothing new and raises no counter.
LEMMA OthersBacked ==
  ASSUME QuotaTypeOK, QuotaTypeOK', BackedAll, logged' = logged,
         \A d \in Days, t \in Tenants : used'[d][t] <= used[d][t],
         \A r \in Underway :
           req'[r] = req[r] \/ req'[r] = Idle \/ req'[r].pc \in {"checking", "admitted"}
  PROVE  BackedAll'
<1> SUFFICES ASSUME NEW d \in Days, NEW t \in Tenants PROVE Backed(d, t)'
  BY DEF BackedAll
<1>1. Backed(d, t)
  BY DEF BackedAll
<1>2. Owed(d, t)' \subseteq Owed(d, t)
  BY DEF Owed
<1>3. QED
  BY <1>1, <1>2, BackedStays

LEMMA BackedInvariant == QuotaSpec => []BackedAll
<1>1. QuotaInit => BackedAll
  <2> SUFFICES ASSUME QuotaInit, NEW d \in Days, NEW t \in Tenants PROVE Backed(d, t)
    BY DEF BackedAll
  <2>1. used[d][t] = 0 /\ logged[t] = 0 /\ Owed(d, t) = {}
    BY DEF QuotaInit, Owed
  <2>2. Cardinality({}) = 0 /\ Sends \in Nat
    BY FS_EmptySet, QuotaAssumption DEF Sends
  <2>3. QED
    BY <2>1, <2>2 DEF Backed
<1>2. QuotaTypeOK /\ QuotaTypeOK' /\ BackedAll /\ [QuotaNext]_quotaVars => BackedAll'
  <2> SUFFICES ASSUME QuotaTypeOK, QuotaTypeOK', BackedAll, [QuotaNext]_quotaVars PROVE BackedAll'
    OBVIOUS
  <2>0. \A d \in Days, t \in Tenants : used[d][t] \in Nat /\ used[d][t] <= used[d][t]
    BY DEF QuotaTypeOK
  <2>1. ASSUME NEW r \in Underway, NEW w \in Workers, NEW t \in Tenants, Check(r, w, t)
        PROVE  BackedAll'
    BY <2>0, <2>1, OthersBacked DEF Check, QuotaTypeOK
  <2>2. ASSUME NEW r \in Underway, Admit(r) PROVE BackedAll'
    <3>1. used' = used /\ logged' = logged
      BY <2>2 DEF Admit
    <3>2. /\ req'[r].pc = "admitted"
          /\ \A s \in Underway \ {r} : req'[s] = req[s]
      BY <2>2 DEF Admit, QuotaTypeOK, Active, Idle
    <3>3. QED
      BY <2>0, <3>1, <3>2, OthersBacked
  <2>3. ASSUME NEW r \in Underway, Leave(r) PROVE BackedAll'
    BY <2>0, <2>3, OthersBacked DEF Leave, QuotaTypeOK
  <2>4. ASSUME NEW w \in Workers, NEW t \in Tenants, NEW max \in Limits, Update(w, t, max)
        PROVE  BackedAll'
    BY <2>0, <2>4, OthersBacked DEF Update
  <2>5. ASSUME NEW w \in Workers, UpdateFails(w) PROVE BackedAll'
    BY <2>0, <2>5, OthersBacked DEF UpdateFails
  <2>6. ASSUME NEW w \in Workers, Restart(w) PROVE BackedAll'
    BY <2>0, <2>6, OthersBacked DEF Restart
  <2>7. ASSUME NEW d \in Days, NEW t \in Tenants, Forget(d, t) PROVE BackedAll'
    <3>1. req' = req /\ logged' = logged
      BY <2>7 DEF Forget
    <3>2. \A e \in Days, u \in Tenants : used'[e][u] <= used[e][u]
      BY <2>0, <2>7 DEF Forget, QuotaTypeOK
    <3>3. QED
      BY <3>1, <3>2, OthersBacked
  <2>8. CASE Midnight
    BY <2>0, <2>8, OthersBacked DEF Midnight
  <2>9. CASE UNCHANGED quotaVars
    BY <2>0, <2>9, OthersBacked DEF quotaVars
  <2>10. QED
    BY <2>1, <2>2, <2>3, <2>4, <2>5, <2>6, <2>7, <2>8, <2>9, LogUsageBacked, ChargeBacked
    DEF QuotaNext
<1>3. QED
  BY <1>1, <1>2, TypeCorrect, PTL DEF QuotaSpec

\* No counter runs ahead of the usage rows by more than the client's resends,
\* whatever is lost, restarted or sent again: nobody is refused for tokens that
\* no row accounts for.
THEOREM CounterWithinLedgerAlways == QuotaSpec => []CounterWithinLedger
<1>1. QuotaTypeOK /\ BackedAll => CounterWithinLedger
  <2> SUFFICES ASSUME QuotaTypeOK, BackedAll, NEW d \in Days, NEW t \in Tenants
               PROVE  used[d][t] <= (Retries + 1) * logged[t]
    BY DEF CounterWithinLedger
  <2> DEFINE m == Cardinality(Owed(d, t))
  <2>1. /\ used[d][t] \in Nat /\ logged[t] \in Nat /\ m \in Nat /\ Sends \in Nat
        /\ used[d][t] + Sends * m <= Sends * logged[t] /\ Sends = Retries + 1
    BY OwedFinite, QuotaAssumption DEF QuotaTypeOK, BackedAll, Backed, Sends
  <2> HIDE DEF m
  <2>2. Sends * m \in Nat /\ Sends * logged[t] \in Nat
    BY <2>1
  <2>3. QED
    BY <2>1, <2>2
<1>2. QED
  BY <1>1, TypeCorrect, BackedInvariant, PTL

-----------------------------------------------------------------------------
(* Limits.  A worker whose file can be read has loaded that very file.     *)

Loaded ==
  /\ file = [w \in Workers |-> file[w]] /\ quotas = [w \in Workers |-> quotas[w]]
  /\ \A w \in Workers : file[w].form = "yaml" => quotas[w] = Load(file[w])

\* Only three steps touch files and limits.
LEMMA FileSteps ==
  ASSUME [QuotaNext]_quotaVars
  PROVE  \/ UNCHANGED <<file, quotas>>
         \/ \E v \in Workers :
              \/ \E x \in Tenants, max \in Limits : Update(v, x, max)
              \/ UpdateFails(v) \/ Restart(v)
<1>1. ASSUME NEW r \in Underway, NEW v \in Workers, NEW x \in Tenants, Check(r, v, x)
      PROVE  UNCHANGED <<file, quotas>>
  BY <1>1 DEF Check
<1>2. ASSUME NEW r \in Underway, Admit(r) \/ Leave(r) \/ LogUsage(r) \/ Charge(r)
      PROVE  UNCHANGED <<file, quotas>>
  BY <1>2 DEF Admit, Leave, LogUsage, Charge
<1>3. ASSUME NEW d \in Days, NEW x \in Tenants, Forget(d, x)
      PROVE  UNCHANGED <<file, quotas>>
  BY <1>3 DEF Forget
<1>4. Midnight \/ UNCHANGED quotaVars => UNCHANGED <<file, quotas>>
  BY DEF Midnight, quotaVars
<1>5. QED
  BY <1>1, <1>2, <1>3, <1>4 DEF QuotaNext

\* Loaded needs only the domains, and that what is written is loaded.
LEMMA LoadedInvariant == QuotaSpec => []Loaded
<1>1. QuotaInit => Loaded
  BY DEF QuotaInit, Loaded
<1>2. Loaded /\ [QuotaNext]_quotaVars => Loaded'
  <2> SUFFICES ASSUME Loaded, [QuotaNext]_quotaVars PROVE Loaded'
    OBVIOUS
  <2>1. ASSUME UNCHANGED <<file, quotas>> PROVE Loaded'
    BY <2>1 DEF Loaded
  <2>2. ASSUME NEW w \in Workers, NEW t \in Tenants, NEW max \in Limits, Update(w, t, max)
        PROVE  Loaded'
    <3>1. \E f : file' = [file EXCEPT ![w] = f] /\ quotas' = [quotas EXCEPT ![w] = Load(file'[w])]
      BY <2>2 DEF Update
    <3>2. QED
      BY <3>1 DEF Loaded
  <2>3. ASSUME NEW w \in Workers, UpdateFails(w) PROVE Loaded'
    <3>1. PICK f \in Torn : file' = [file EXCEPT ![w] = f]
      BY <2>3 DEF UpdateFails
    <3>2. f.form # "yaml" /\ quotas' = quotas
      BY <2>3 DEF UpdateFails, Torn
    <3>3. QED
      BY <3>1, <3>2 DEF Loaded
  <2>4. ASSUME NEW w \in Workers, Restart(w) PROVE Loaded'
    <3>1. \E f : file' = [file EXCEPT ![w] = f] /\ quotas' = [quotas EXCEPT ![w] = Load(f)]
      BY <2>4 DEF Restart
    <3>2. QED
      BY <3>1 DEF Loaded
  <2>5. QED
    BY <2>1, <2>2, <2>3, <2>4, FileSteps
<1>3. QED
  BY <1>1, <1>2, PTL DEF QuotaSpec

\* What a step may do to the limits of the workers.
OneTenant ==
  \A w \in Workers :
    (file[w].form = "yaml" /\ file'[w] # Yaml(ImageLimits) /\ file'[w].form = "yaml")
      => \A t, u \in Tenants :
           quotas'[w][t] # quotas[w][t] /\ quotas'[w][u] # quotas[w][u] => t = u

\* A change of one tenant's limit changes no other's in the worker that makes it,
\* and none in another worker, whatever was written or torn before.
THEOREM OneTenantAlways == QuotaSpec => OneTenantAtATime
<1>1. Loaded /\ [QuotaNext]_quotaVars => OneTenant \/ UNCHANGED quotaVars
  <2> SUFFICES ASSUME Loaded, QuotaNext, NEW w \in Workers, file[w].form = "yaml",
                      file'[w] # Yaml(ImageLimits), file'[w].form = "yaml",
                      NEW t \in Tenants, NEW u \in Tenants,
                      quotas'[w][t] # quotas[w][t], quotas'[w][u] # quotas[w][u]
               PROVE  t = u
    BY DEF OneTenant
  <2>0. quotas[w] = Load(file[w]) /\ quotas'[w] # quotas[w]
    BY DEF Loaded
  <2>1. ASSUME NEW v \in Workers, NEW x \in Tenants, NEW max \in Limits, Update(v, x, max)
        PROVE  t = u
    <3> DEFINE old == file[v].entries
               new == [y \in DOMAIN old \cup {x} |-> IF y = x THEN max ELSE old[y]]
    <3>1. file' = [file EXCEPT ![v] = Yaml(new)] /\ quotas' = [quotas EXCEPT ![v] = Load(file'[v])]
      BY <2>1 DEF Update, Loaded
    <3>2. v = w
      BY <2>0, <3>1 DEF Loaded
    <3>3. quotas'[w] = Load(Yaml(new))
      BY <3>1, <3>2 DEF Loaded
    <3>4. ASSUME NEW y \in Tenants, y # x PROVE Load(Yaml(new))[y] = Load(file[w])[y]
      <4>1. Yaml(new).form = "yaml" /\ Yaml(new).entries = new
        BY DEF Yaml
      <4>2. (y \in DOMAIN new <=> y \in DOMAIN old) /\ (y \in DOMAIN old => new[y] = old[y])
        BY <3>4
      <4>3. QED
        BY <3>2, <4>1, <4>2 DEF Load
    <3>5. t = x /\ u = x
      BY <2>0, <3>3, <3>4
    <3>6. QED
      BY <3>5
  <2>2. ASSUME NEW v \in Workers, UpdateFails(v) PROVE t = u
    BY <2>0, <2>2 DEF UpdateFails
  <2>3. ASSUME NEW v \in Workers, Restart(v) PROVE t = u
    <3>1. PICK f \in {file[v], Yaml(ImageLimits)} \cup Torn :
            file' = [file EXCEPT ![v] = f] /\ quotas' = [quotas EXCEPT ![v] = Load(f)]
      BY <2>3 DEF Restart
    <3>2. v = w
      BY <2>0, <3>1 DEF Loaded
    <3>3. file'[w] = f /\ quotas'[w] = Load(f)
      BY <3>1, <3>2 DEF Loaded
    <3>4. f \notin Torn
      BY <3>3 DEF Torn
    <3>5. f = file[w]
      BY <3>1, <3>2, <3>3, <3>4
    <3>6. QED
      BY <2>0, <3>3, <3>5
  <2>4. QED
    BY <2>0, <2>1, <2>2, <2>3, FileSteps
<1>2. QED
  BY <1>1, LoadedInvariant, PTL DEF QuotaSpec, OneTenantAtATime, OneTenant

=============================================================================
