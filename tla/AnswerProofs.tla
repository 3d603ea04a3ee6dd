---------------------------- MODULE AnswerProofs ----------------------------
(***************************************************************************)
(* An answer from the provider to the bubble, for every value of the       *)
(* constants: the stream that redacts it, and the chat that shows it.      *)
(*                                                                         *)
(* The stream.  What is shown and carried has no whole match of the fixed  *)
(* length, and the next token must not complete one.  The proof follows    *)
(* where each character of a scan's output comes from (Traced): a match    *)
(* in the output was one in the input, since a replaced match had no word  *)
(* character at its side (NoNewMatch); and the first two characters of     *)
(* what was carried stay as they are or become a placeholder (StartKept),  *)
(* so that a match which begins in what was shown before was there before, *)
(* if enough is carried (Held).                                            *)
(*                                                                         *)
(* The chat.  A reader writes to whatever message is last.  AnswerInPlace  *)
(* therefore needs to know where the bubble of every answer is: the one    *)
(* being read is last of the conversation shown and nowhere else, since    *)
(* beside a stream nothing is sent and no other conversation is shown      *)
(* (Core); one that was finished is no longer marked as streaming, so that *)
(* a later reader, which seals or extends only its own, passes it by (Fit).*)
(***************************************************************************)
EXTENDS ChatClient, AnswerStream, SequenceTheorems, WellFoundedInduction, TLAPS

(* Induction over data *)

\* Induction over Nat, from the least element of what a set would leave out.
LEMMA NatSetInduction ==
  ASSUME NEW S, 0 \in S, \A n \in Nat : n \in S => n + 1 \in S
  PROVE  Nat \subseteq S
<1> DEFINE less == {p \in Nat \X Nat : p[1] < p[2]}
           bad == Nat \ S
<1>1. IsWellFoundedOn(less, Nat)
  BY NatLessThanWellFounded DEF OpToRel
<1> SUFFICES ASSUME bad # {} PROVE FALSE
  OBVIOUS
<1>2. PICK m \in bad : \A k \in bad : ~(<<k, m>> \in less)
  <2> HIDE DEF less
  <2> QED BY <1>1, WFMin
<1>3. m - 1 \in Nat /\ <<m - 1, m>> \in less
  BY m # 0
<1> QED BY <1>2, <1>3

\* The same up to n.
LEMMA UpTo ==
  ASSUME NEW n \in Nat, NEW S, 0 \in S, \A k \in 0..n - 1 : k \in S => k + 1 \in S
  PROVE  \A k \in 0..n : k \in S
<1> DEFINE T == {k \in Nat : k <= n => k \in S}
<1>1. Nat \subseteq T
  <2>1. 0 \in T /\ \A k \in Nat : k \in T => k + 1 \in T
    OBVIOUS
  <2> HIDE DEF T
  <2> QED BY <2>1, NatSetInduction
<1> QED BY <1>1

\* f is b carried on by one step after another.
Iterated(f, T, b, n, step) ==
  f \in [0..n -> T] /\ f[0] = b /\ \A k \in 1..n : f[k] = step[k][f[k - 1]]

LEMMA Iterates ==
  ASSUME NEW T, NEW b \in T, NEW n \in Nat, NEW step \in [1..n -> [T -> T]]
  PROVE  \E f : Iterated(f, T, b, n, step)
<1> DEFINE S == {m \in 0..n : \E f : Iterated(f, T, b, m, step)}
<1>1. 0 \in S
  <2>1. Iterated([k \in 0..0 |-> b], T, b, 0, step)
    BY DEF Iterated
  <2> QED BY <2>1
<1>2. ASSUME NEW m \in 0..n - 1, m \in S PROVE m + 1 \in S
  <2>1. PICK f : Iterated(f, T, b, m, step)
    BY <1>2
  <2> DEFINE g == [k \in 0..m + 1 |-> IF k <= m THEN f[k] ELSE step[m + 1][f[m]]]
  <2>2. g \in [0..m + 1 -> T] /\ g[0] = b
    BY <2>1 DEF Iterated
  <2>3. ASSUME NEW k \in 1..m + 1 PROVE g[k] = step[k][g[k - 1]]
    <3>1. CASE k <= m
      <4>1. g[k] = f[k] /\ g[k - 1] = f[k - 1] /\ k \in 1..m
        BY <3>1
      <4> QED BY <2>1, <4>1 DEF Iterated
    <3>2. CASE k = m + 1
      BY <3>2
    <3> QED BY <3>1, <3>2
  <2>4. Iterated(g, T, b, m + 1, step)
    <3> HIDE DEF g
    <3> QED BY <2>2, <2>3 DEF Iterated
  <2> QED BY <2>4
<1>3. n \in S
  <2>1. \A k \in 0..n - 1 : k \in S => k + 1 \in S
    BY <1>2
  <2> HIDE DEF S
  <2>2. \A k \in 0..n : k \in S
    BY <1>1, <2>1, UpTo
  <2> QED BY <2>2
<1> QED BY <1>3

-----------------------------------------------------------------------------
(* The scan of one rule *)

\* What a scan of n characters has settled, where matches may end, where it begins.
Accs(n) == [out : Seq(ShownChars), next : 1..n + 1]
EndsOf(s) == [1..Len(s) -> 0..Len(s)]
Origin == [out |-> <<>>, next |-> 1]

\* A step of the scan keeps to its types.
LEMMA SettledType ==
  ASSUME NEW s \in Seq(ShownChars), NEW ends \in EndsOf(s), NEW acc \in Accs(Len(s)),
         NEW k \in 1..Len(s)
  PROVE  Settled(acc, s, ends, k) \in Accs(Len(s))
<1>1. Append(acc.out, s[k]) \in Seq(ShownChars) /\ acc.out \o Placeholder \in Seq(ShownChars)
  BY DEF Accs, Placeholder, ShownChars
<1> QED BY <1>1 DEF Settled, Accs, EndsOf

\* The scan is defined, and Replaced is where it ends.
LEMMA ScanDef ==
  ASSUME NEW s \in Seq(ShownChars), NEW ends \in EndsOf(s)
  PROVE  \E f \in [0..Len(s) -> Accs(Len(s))] :
           /\ f[0] = Origin
           /\ \A k \in 1..Len(s) : f[k] = Settled(f[k - 1], s, ends, k)
           /\ Replaced(s, ends) = f[Len(s)].out
<1> DEFINE n == Len(s)
           T == Accs(n)
           step == [k \in 1..n |-> [acc \in T |-> Settled(acc, s, ends, k)]]
           F(g) == [k \in 0..n |-> IF k = 0 THEN Origin ELSE Settled(g[k - 1], s, ends, k)]
           scan == CHOOSE g : g = F(g)
<1>1. Origin \in T /\ n \in Nat
  BY DEF Accs, Origin
<1>2. step \in [1..n -> [T -> T]]
  BY SettledType
<1>3. PICK f : Iterated(f, T, Origin, n, step)
  <2> HIDE DEF step, T, n
  <2> QED BY <1>1, <1>2, Iterates
<1>3a. f \in [0..n -> T] /\ f[0] = Origin /\ \A k \in 1..n : f[k] = step[k][f[k - 1]]
  BY <1>3 DEF Iterated
<1>4. \A k \in 1..n : f[k] = Settled(f[k - 1], s, ends, k)
  <2> HIDE DEF T
  <2> SUFFICES ASSUME NEW k \in 1..n PROVE f[k] = Settled(f[k - 1], s, ends, k)
    OBVIOUS
  <2>1. f[k - 1] \in T
    BY <1>3a
  <2> QED BY <1>3a, <2>1
<1>5. f = F(f)
  BY <1>3a, <1>4
<1>6. scan = F(scan)
  <2> HIDE DEF F
  <2> QED BY <1>5
<1>7. scan = f
  <2> DEFINE S == {k \in 0..n : scan[k] = f[k]}
  <2>1. 0 \in S
    <3>1. scan[0] = Origin
      <4> HIDE DEF scan
      <4> QED BY <1>1, <1>6
    <3> QED BY <1>3a, <3>1
  <2>2. ASSUME NEW k \in 0..n - 1, k \in S PROVE k + 1 \in S
    <3>1. scan[k + 1] = Settled(scan[k], s, ends, k + 1) /\ f[k + 1] = Settled(f[k], s, ends, k + 1)
      <4> HIDE DEF scan
      <4> QED BY <1>4, <1>6
    <3> QED BY <2>2, <3>1
  <2>3. \A k \in 0..n : scan[k] = f[k]
    <3>1. \A k \in 0..n : k \in S
      <4> HIDE DEF S
      <4> QED BY <1>1, <2>1, <2>2, UpTo
    <3> QED BY <3>1
  <2>4. DOMAIN scan = 0..n
    <3> HIDE DEF scan
    <3> QED BY <1>6
  <2> HIDE DEF scan
  <2> QED BY <1>3a, <1>6, <2>3, <2>4
<1>8. Replaced(s, ends) = scan[n].out
  BY DEF Replaced, Origin
<1> QED BY <1>3a, <1>4, <1>7, <1>8

-----------------------------------------------------------------------------
\* What a rule has to say of its matches, for the scan to be sound.
Matches(s, ends) ==
  \A i \in 1..Len(s) : ends[i] # 0 =>
    /\ i < ends[i] /\ s[i] \in Word /\ s[ends[i]] \in Word /\ Bounded(s, i, ends[i])
    /\ \A j \in i..ends[i] : s[j] \notin {"x", " "}

\* A match ends at j.
EndsAt(s, ends, j) == j # 0 /\ \E i \in 1..Len(s) : ends[i] = j

\* m tells of each character put out where it was in s, 0 for a placeholder's.
Sourced(s, ends, out, m) ==
  \A q \in 1..Len(out) :
    /\ m[q] = 0 => out[q] \in {"[", "r", "]"}
    /\ m[q] # 0 => out[q] = s[m[q]] /\ ends[m[q]] = 0

\* Beside a character of s stands its neighbour in s, or the placeholder of a match
\* that ends or begins right there.
Adjacent(s, ends, k, out, m) ==
  \A q \in 1..Len(out) - 1 :
    /\ m[q] # 0 /\ m[q + 1] # 0 => m[q + 1] = m[q] + 1
    /\ m[q] # 0 /\ m[q + 1] = 0 => m[q] < k /\ ends[m[q] + 1] # 0 /\ out[q + 1] = "["
    /\ m[q] = 0 /\ m[q + 1] # 0 => EndsAt(s, ends, m[q + 1] - 1)

\* The output begins where s does ...
FromStart(ends, out, m) ==
  Len(out) # 0 => m[1] = 1 \/ (m[1] = 0 /\ ends[1] # 0 /\ out[1] = "[")

\* ... and ends where the scan has come to.
UpToHere(s, ends, k, acc, m) ==
  /\ k = 0 => Len(acc.out) = 0 /\ acc.next = 1
  /\ k # 0 => /\ Len(acc.out) # 0
              /\ m[Len(acc.out)] # 0 => m[Len(acc.out)] = k /\ acc.next = k + 1
              /\ m[Len(acc.out)] = 0 => Len(acc.out) >= 3 /\ EndsAt(s, ends, acc.next - 1)

Traced(s, ends, k, acc, m) ==
  /\ m \in [1..Len(acc.out) -> 0..k] /\ k < acc.next
  /\ Sourced(s, ends, acc.out, m) /\ Adjacent(s, ends, k, acc.out, m)
  /\ FromStart(ends, acc.out, m) /\ UpToHere(s, ends, k, acc, m)

\* A step of the scan keeps track of where its characters come from: one more
\* character of s, or a placeholder for the match that begins there.
LEMMA TracedStep ==
  ASSUME NEW s \in Seq(ShownChars), NEW ends \in EndsOf(s), Matches(s, ends),
         NEW k \in 0..Len(s) - 1,
         NEW acc \in Accs(Len(s)), NEW m, Traced(s, ends, k, acc, m)
  PROVE  \E n : Traced(s, ends, k + 1, Settled(acc, s, ends, k + 1), n)
<1> DEFINE new == Settled(acc, s, ends, k + 1)
           L == Len(acc.out)
           next == acc.next
<1>0. /\ L \in Nat /\ next \in 1..Len(s) + 1 /\ Len(s) \in Nat /\ k \in Nat
      /\ k + 1 \in 1..Len(s) /\ ends[k + 1] \in 0..Len(s) /\ k < next
      /\ m \in [1..L -> 0..k]
  <2>1. acc.out \in Seq(ShownChars) /\ next \in 1..Len(s) + 1
    BY DEF Accs
  <2>2. ends \in [1..Len(s) -> 0..Len(s)] /\ Len(s) \in Nat
    BY DEF EndsOf
  <2>3. m \in [1..L -> 0..k] /\ k < next
    BY DEF Traced
  <2>4. L \in Nat
    BY <2>1
  <2>5. k \in Nat /\ k + 1 \in 1..Len(s)
    BY <2>2
  <2> HIDE DEF L, next
  <2> QED BY <2>1, <2>2, <2>3, <2>4, <2>5
<1>n. L \in Nat
  BY <1>0
<1>m. m \in [1..L -> 0..k]
  BY <1>0
<1>1. CASE k + 1 < next
  <2>1. new = acc
    BY <1>1 DEF Settled
  <2>2. k # 0 /\ UpToHere(s, ends, k + 1, acc, m)
    BY <1>0, <1>1 DEF Traced, UpToHere
  <2>3. Adjacent(s, ends, k + 1, acc.out, m)
    <3> SUFFICES ASSUME NEW q \in 1..L - 1
        PROVE  /\ m[q] # 0 /\ m[q + 1] # 0 => m[q + 1] = m[q] + 1
               /\ m[q] # 0 /\ m[q + 1] = 0 =>
                    m[q] < k + 1 /\ ends[m[q] + 1] # 0 /\ acc.out[q + 1] = "["
               /\ m[q] = 0 /\ m[q + 1] # 0 => EndsAt(s, ends, m[q + 1] - 1)
      BY DEF Adjacent
    <3>1. m[q] \in 0..k
      BY <1>m, <1>n
    <3> QED BY <1>0, <3>1 DEF Traced, Adjacent
  <2>4. Traced(s, ends, k + 1, acc, m)
    BY <1>0, <1>1, <2>2, <2>3 DEF Traced
  <2> QED BY <2>1, <2>4
<1>2. CASE k + 1 >= next /\ ends[k + 1] = 0
  <2> DEFINE n == [q \in 1..L + 1 |-> IF q <= L THEN m[q] ELSE k + 1]
  <2>1. next = k + 1
    BY <1>0, <1>2
  <2>2. new = [out |-> Append(acc.out, s[k + 1]), next |-> k + 2]
    BY <1>0, <1>2, <2>1 DEF Settled
  <2>3. /\ Len(new.out) = L + 1 /\ new.out[L + 1] = s[k + 1]
        /\ \A q \in 1..L : new.out[q] = acc.out[q]
    <3>1. acc.out \in Seq(ShownChars) /\ s[k + 1] \in ShownChars
      BY <1>0 DEF Accs
    <3>2. new.out = Append(acc.out, s[k + 1])
      BY <2>2
    <3> HIDE DEF new
    <3> QED BY <3>1, <3>2, AppendProperties
  <2>4. n \in [1..L + 1 -> 0..k + 1] /\ n[L + 1] = k + 1 /\ \A q \in 1..L : n[q] = m[q]
    BY <1>0
  <2>a. new.next = k + 2
    BY <2>2
  <2> HIDE DEF n, new
  <2>5. Sourced(s, ends, new.out, n)
    <3> SUFFICES ASSUME NEW q \in 1..L + 1
        PROVE  /\ n[q] = 0 => new.out[q] \in {"[", "r", "]"}
               /\ n[q] # 0 => new.out[q] = s[n[q]] /\ ends[n[q]] = 0
      BY <2>3 DEF Sourced
    <3>1. CASE q <= L
      <4>1. q \in 1..L /\ new.out[q] = acc.out[q] /\ n[q] = m[q]
        BY <1>0, <2>3, <2>4, <3>1
      <4> QED BY <4>1 DEF Traced, Sourced
    <3>2. CASE q = L + 1
      <4>1. n[L + 1] # 0 /\ new.out[L + 1] = s[k + 1] /\ ends[k + 1] = 0
        BY <1>0, <1>2, <2>3, <2>4
      <4> QED BY <2>4, <3>2, <4>1
    <3> QED BY <1>n, <3>1, <3>2
  <2>6. Adjacent(s, ends, k + 1, new.out, n)
    <3> SUFFICES ASSUME NEW q \in 1..L
        PROVE  /\ n[q] # 0 /\ n[q + 1] # 0 => n[q + 1] = n[q] + 1
               /\ n[q] # 0 /\ n[q + 1] = 0 =>
                    n[q] < k + 1 /\ ends[n[q] + 1] # 0 /\ new.out[q + 1] = "["
               /\ n[q] = 0 /\ n[q + 1] # 0 => EndsAt(s, ends, n[q + 1] - 1)
      <4>1. 1..Len(new.out) - 1 = 1..L
        BY <1>0, <2>3
      <4> QED BY <4>1 DEF Adjacent
    <3>1. CASE q < L
      <4>0. q \in 1..L /\ q + 1 \in 1..L /\ q \in 1..L - 1
        BY <1>0, <3>1
      <4>1. /\ n[q] = m[q] /\ n[q + 1] = m[q + 1] /\ new.out[q + 1] = acc.out[q + 1]
            /\ m[q] \in 0..k
        BY <1>m, <2>3, <2>4, <4>0
      <4> QED BY <1>0, <4>0, <4>1 DEF Traced, Adjacent
    <3>2. CASE q = L
      <4>0. L \in 1..L /\ k # 0
        BY <1>0, <3>2 DEF Traced, UpToHere
      <4>1. n[q] = m[L] /\ n[q + 1] = k + 1 /\ k # 0
        BY <2>4, <3>2, <4>0
      <4> QED BY <1>0, <2>1, <4>1 DEF Traced, UpToHere
    <3> QED BY <1>n, <3>1, <3>2
  <2>7. FromStart(ends, new.out, n)
    <3>1. CASE L = 0
      <4>1. k = 0 /\ n[1] = 1
        BY <1>0, <2>4, <3>1 DEF Traced, UpToHere
      <4> QED BY <4>1, Zenon DEF FromStart
    <3>2. CASE L # 0
      <4>1. 1 \in 1..L
        BY <1>n, <3>2
      <4>2. new.out[1] = acc.out[1] /\ n[1] = m[1]
        BY <2>3, <2>4, <4>1
      <4>3. m[1] = 1 \/ (m[1] = 0 /\ ends[1] # 0 /\ acc.out[1] = "[")
        BY <3>2 DEF Traced, FromStart
      <4> QED BY <4>2, <4>3 DEF FromStart
    <3> QED BY <3>1, <3>2
  <2>8. UpToHere(s, ends, k + 1, new, n)
    BY <1>0, <2>a, <2>3, <2>4 DEF UpToHere
  <2>9. Traced(s, ends, k + 1, new, n)
    BY <1>0, <2>a, <2>3, <2>4, <2>5, <2>6, <2>7, <2>8 DEF Traced
  <2> USE DEF new
  <2> QED BY <2>9
<1>3. CASE k + 1 >= next /\ ends[k + 1] # 0
  <2> DEFINE n == [q \in 1..L + 3 |-> IF q <= L THEN m[q] ELSE 0]
  <2>1. next = k + 1
    BY <1>0, <1>3
  <2>2. new = [out |-> acc.out \o Placeholder, next |-> ends[k + 1] + 1]
    BY <1>0, <1>3, <2>1 DEF Settled
  <2>a. new.next = ends[k + 1] + 1 /\ k + 1 < ends[k + 1]
    <3>1. k + 1 < ends[k + 1]
      BY <1>0, <1>3 DEF Matches
    <3> QED BY <2>2, <3>1
  <2>3. /\ Len(new.out) = L + 3
        /\ \A q \in 1..L : new.out[q] = acc.out[q]
        /\ new.out[L + 1] = "[" /\ new.out[L + 2] = "r" /\ new.out[L + 3] = "]"
    <3>1. acc.out \in Seq(ShownChars)
      BY DEF Accs
    <3>2. new.out = acc.out \o <<"[", "r", "]">>
      BY <2>2 DEF Placeholder
    <3> HIDE DEF new
    <3>3. Len(new.out) = L + 3
      BY <3>1, <3>2
    <3>4. \A q \in 1..L : new.out[q] = acc.out[q]
      BY <3>1, <3>2
    <3>5. new.out[L + 1] = "[" /\ new.out[L + 2] = "r" /\ new.out[L + 3] = "]"
      BY <3>1, <3>2
    <3> QED BY <3>3, <3>4, <3>5
  <2>4. /\ n \in [1..L + 3 -> 0..k + 1] /\ n[L + 1] = 0 /\ n[L + 2] = 0 /\ n[L + 3] = 0
        /\ \A q \in 1..L : n[q] = m[q]
    <3>1. n \in [1..L + 3 -> 0..k + 1]
      <4>1. 0..k \subseteq 0..k + 1 /\ 0 \in 0..k + 1
        BY <1>0
      <4> QED BY <1>m, <1>n, <4>1
    <3>2. n[L + 1] = 0 /\ n[L + 2] = 0 /\ n[L + 3] = 0
      BY <1>n
    <3>3. \A q \in 1..L : n[q] = m[q]
      BY <1>n
    <3> QED BY <3>1, <3>2, <3>3
  <2> HIDE DEF n, new
  <2>5. Sourced(s, ends, new.out, n)
    <3> SUFFICES ASSUME NEW q \in 1..L + 3
        PROVE  /\ n[q] = 0 => new.out[q] \in {"[", "r", "]"}
               /\ n[q] # 0 => new.out[q] = s[n[q]] /\ ends[n[q]] = 0
      BY <2>3 DEF Sourced
    <3>1. CASE q <= L
      <4>1. q \in 1..L /\ new.out[q] = acc.out[q] /\ n[q] = m[q]
        BY <1>0, <2>3, <2>4, <3>1
      <4> QED BY <4>1 DEF Traced, Sourced
    <3>2. CASE q \in {L + 1, L + 2, L + 3}
      BY <2>3, <2>4, <3>2
    <3> QED BY <1>n, <3>1, <3>2
  <2>6. Adjacent(s, ends, k + 1, new.out, n)
    <3> SUFFICES ASSUME NEW q \in 1..L + 2
        PROVE  /\ n[q] # 0 /\ n[q + 1] # 0 => n[q + 1] = n[q] + 1
               /\ n[q] # 0 /\ n[q + 1] = 0 =>
                    n[q] < k + 1 /\ ends[n[q] + 1] # 0 /\ new.out[q + 1] = "["
               /\ n[q] = 0 /\ n[q + 1] # 0 => EndsAt(s, ends, n[q + 1] - 1)
      <4>1. 1..Len(new.out) - 1 = 1..L + 2
        BY <1>0, <2>3
      <4> QED BY <4>1 DEF Adjacent
    <3>1. CASE q < L
      <4>0. q \in 1..L /\ q + 1 \in 1..L /\ q \in 1..L - 1
        BY <1>0, <3>1
      <4>1. /\ n[q] = m[q] /\ n[q + 1] = m[q + 1] /\ new.out[q + 1] = acc.out[q + 1]
            /\ m[q] \in 0..k
        BY <1>m, <2>3, <2>4, <4>0
      <4> QED BY <1>0, <4>0, <4>1 DEF Traced, Adjacent
    <3>2. CASE q = L
      <4>0. L \in 1..L /\ k # 0
        BY <1>0, <3>2 DEF Traced, UpToHere
      <4>1. n[q] = m[L] /\ n[q + 1] = 0 /\ new.out[q + 1] = "["
        BY <2>3, <2>4, <3>2, <4>0
      <4> QED BY <1>0, <1>3, <4>0, <4>1 DEF Traced, UpToHere
    <3>3. CASE q = L + 1 \/ q = L + 2
      <4>1. n[q] = 0 /\ n[q + 1] = 0
        <5>1. CASE q = L + 1
          BY <1>0, <2>4, <5>1
        <5>2. CASE q = L + 2
          BY <1>0, <2>4, <5>2
        <5> QED BY <3>3, <5>1, <5>2
      <4> QED BY <4>1
    <3> QED BY <1>n, <3>1, <3>2, <3>3
  <2>7. FromStart(ends, new.out, n)
    <3>1. CASE L = 0
      BY <1>0, <1>3, <2>3, <2>4, <3>1 DEF Traced, FromStart, UpToHere
    <3>2. CASE L # 0
      <4>1. 1 \in 1..L
        BY <1>n, <3>2
      <4>2. new.out[1] = acc.out[1] /\ n[1] = m[1]
        BY <2>3, <2>4, <4>1
      <4>3. m[1] = 1 \/ (m[1] = 0 /\ ends[1] # 0 /\ acc.out[1] = "[")
        BY <3>2 DEF Traced, FromStart
      <4> QED BY <4>2, <4>3 DEF FromStart
    <3> QED BY <3>1, <3>2
  <2>8. UpToHere(s, ends, k + 1, new, n)
    <3>1. EndsAt(s, ends, ends[k + 1])
      BY <1>0, <1>3 DEF EndsAt
    <3>2. Len(new.out) >= 3 /\ n[Len(new.out)] = 0 /\ new.next - 1 = ends[k + 1]
      BY <1>0, <2>a, <2>3, <2>4
    <3> QED BY <1>0, <3>1, <3>2 DEF UpToHere
  <2>9. Traced(s, ends, k + 1, new, n)
    BY <1>0, <2>a, <2>3, <2>4, <2>5, <2>6, <2>7, <2>8 DEF Traced
  <2> USE DEF new
  <2> QED BY <2>9
<1> QED BY <1>0, <1>1, <1>2, <1>3

\* Where the characters of the whole output come from.
LEMMA Trace ==
  ASSUME NEW s \in Seq(ShownChars), NEW ends \in EndsOf(s), Matches(s, ends)
  PROVE  \E acc \in Accs(Len(s)) :
           /\ acc.out = Replaced(s, ends) /\ acc.next = Len(s) + 1
           /\ \E m : Traced(s, ends, Len(s), acc, m)
<1>1. PICK f \in [0..Len(s) -> Accs(Len(s))] :
        /\ f[0] = Origin
        /\ \A k \in 1..Len(s) : f[k] = Settled(f[k - 1], s, ends, k)
        /\ Replaced(s, ends) = f[Len(s)].out
  BY ScanDef
<1> DEFINE S == {k \in 0..Len(s) : \E m : Traced(s, ends, k, f[k], m)}
<1>2. Len(s) \in Nat
  OBVIOUS
<1>3. 0 \in S
  <2>1. Traced(s, ends, 0, Origin, <<>>)
    BY DEF Traced, Origin, Sourced, Adjacent, FromStart, UpToHere
  <2> QED BY <1>1, <1>2, <2>1
<1>4. ASSUME NEW k \in 0..Len(s) - 1, k \in S PROVE k + 1 \in S
  <2>1. PICK m : Traced(s, ends, k, f[k], m)
    BY <1>4
  <2>2. f[k] \in Accs(Len(s)) /\ f[k + 1] = Settled(f[k], s, ends, k + 1)
    BY <1>1, <1>2
  <2>3. \E n : Traced(s, ends, k + 1, f[k + 1], n)
    BY <2>1, <2>2, TracedStep
  <2> QED BY <1>2, <2>3
<1>5. PICK m : Traced(s, ends, Len(s), f[Len(s)], m)
  <2>1. \A k \in 0..Len(s) : k \in S
    <3> HIDE DEF S
    <3> QED BY <1>2, <1>3, <1>4, UpTo
  <2> QED BY <1>2, <2>1
<1>6. f[Len(s)] \in Accs(Len(s)) /\ f[Len(s)].next = Len(s) + 1
  BY <1>1, <1>2, <1>5 DEF Traced, Accs
<1> QED BY <1>1, <1>5, <1>6

\* The trace of the whole output, without the accumulator.
LEMMA Origins ==
  ASSUME NEW s \in Seq(ShownChars), NEW ends \in EndsOf(s), Matches(s, ends)
  PROVE  LET v == Replaced(s, ends) IN
         /\ v \in Seq(ShownChars)
         /\ \E m \in [1..Len(v) -> 0..Len(s)] :
              /\ Sourced(s, ends, v, m) /\ Adjacent(s, ends, Len(s), v, m) /\ FromStart(ends, v, m)
              /\ Len(s) # 0 => Len(v) # 0 /\ (m[Len(v)] # 0 => m[Len(v)] = Len(s))
              /\ Len(s) # 0 => m[Len(v)] # 0 \/ Len(v) >= 3
<1>1. PICK acc \in Accs(Len(s)) :
        /\ acc.out = Replaced(s, ends) /\ acc.next = Len(s) + 1
        /\ \E m : Traced(s, ends, Len(s), acc, m)
  BY Trace
<1>2. PICK m : Traced(s, ends, Len(s), acc, m)
  BY <1>1
<1> QED BY <1>1, <1>2 DEF Traced, UpToHere, Accs

\* Character by character.
LEMMA FixedEndIs ==
  ASSUME NEW s \in Seq(ShownChars), NEW i \in Nat \ {0}
  PROVE  FixedEnd(s, i) # 0 <=>
           /\ i + 2 <= Len(s) /\ s[i] = "d" /\ s[i + 1] = "-" /\ s[i + 2] = "d"
           /\ Bounded(s, i, i + 2)
<1> DEFINE part == SubSeq(s, i, i + 2)
<1>1. CASE i + 2 <= Len(s)
  <2>1. \A j \in i..i + 2 : s[j] \in ShownChars
    BY <1>1
  <2>2. Len(part) = 3 /\ part \in Seq(ShownChars)
    BY <2>1, SubSeqProperties
  <2>3. part[1] = s[i] /\ part[2] = s[i + 1] /\ part[3] = s[i + 2]
    BY <1>1, <2>1
  <2> DEFINE t == <<"d", "-", "d">>
  <2>4. Len(t) = 3 /\ t[1] = "d" /\ t[2] = "-" /\ t[3] = "d"
    OBVIOUS
  <2>5. t \in Seq(ShownChars)
    <3>1. "d" \in ShownChars /\ "-" \in ShownChars
      BY DEF ShownChars, AnswerChars
    <3> QED BY <3>1
  <2>6. part = t <=> s[i] = "d" /\ s[i + 1] = "-" /\ s[i + 2] = "d"
    <3> HIDE DEF part, t
    <3>1. ASSUME s[i] = "d", s[i + 1] = "-", s[i + 2] = "d" PROVE part = t
      <4>1. \A j \in 1..3 : part[j] = t[j]
        BY <2>3, <2>4, <3>1
      <4> QED BY <2>2, <2>4, <2>5, <4>1, SeqEqual
    <3> QED BY <2>3, <2>4, <3>1
  <2> QED BY <1>1, <2>6 DEF FixedEnd
<1>2. CASE ~(i + 2 <= Len(s))
  BY <1>2 DEF FixedEnd
<1> QED BY <1>1, <1>2

\* A match of the rule of fixed length in what the scan has left was one before,
\* and none the scan replaced: beside a placeholder there is none, since the
\* replaced match had no word character at its side.
LEMMA NoNewMatch ==
  ASSUME NEW s \in Seq(ShownChars), NEW ends \in EndsOf(s), Matches(s, ends),
         NEW q \in Nat \ {0}, FixedEnd(Replaced(s, ends), q) # 0
  PROVE  \E p \in 1..Len(s) : FixedEnd(s, p) # 0 /\ ends[p] = 0
<1> DEFINE v == Replaced(s, ends)
<1>1. PICK m \in [1..Len(v) -> 0..Len(s)] :
        /\ Sourced(s, ends, v, m) /\ Adjacent(s, ends, Len(s), v, m) /\ FromStart(ends, v, m)
        /\ Len(s) # 0 => Len(v) # 0 /\ (m[Len(v)] # 0 => m[Len(v)] = Len(s))
  BY Origins
<1>2. v \in Seq(ShownChars) /\ Len(v) \in Nat /\ Len(s) \in Nat
  BY Origins
<1> HIDE DEF v
<1>3. /\ q + 2 <= Len(v) /\ v[q] = "d" /\ v[q + 1] = "-" /\ v[q + 2] = "d"
      /\ Bounded(v, q, q + 2)
  BY <1>2, FixedEndIs DEF v
<1> DEFINE p == m[q]
<1>4. /\ q \in 1..Len(v) /\ q + 1 \in 1..Len(v) /\ q + 2 \in 1..Len(v)
      /\ q \in 1..Len(v) - 1 /\ q + 1 \in 1..Len(v) - 1
  BY <1>2, <1>3
<1>5. m[q] # 0 /\ m[q + 1] # 0 /\ m[q + 2] # 0
  BY <1>1, <1>3, <1>4 DEF Sourced
<1>6. m[q + 1] = p + 1 /\ m[q + 2] = p + 2 /\ p \in 1..Len(s) /\ p + 2 \in 1..Len(s)
  <2>1. m[q + 1] = m[q] + 1 /\ m[q + 1 + 1] = m[q + 1] + 1
    BY <1>1, <1>4, <1>5 DEF Adjacent
  <2>2. m[q] \in 0..Len(s) /\ m[q + 2] \in 0..Len(s)
    BY <1>1, <1>4
  <2> QED BY <1>2, <1>5, <2>1, <2>2
<1>7. s[p] = "d" /\ s[p + 1] = "-" /\ s[p + 2] = "d" /\ ends[p] = 0
  BY <1>1, <1>3, <1>4, <1>5, <1>6 DEF Sourced
<1>8. p = 1 \/ s[p - 1] \notin Word
  <2>1. CASE q = 1
    BY <1>1, <1>4, <1>5, <2>1 DEF FromStart
  <2>2. CASE q # 1
    <3>0. q - 1 \in 1..Len(v) - 1 /\ q - 1 \in 1..Len(v) /\ q - 1 + 1 = q
      BY <1>2, <1>4, <2>2
    <3>1. v[q - 1] \notin Word
      BY <1>3, <2>2 DEF Bounded
    <3>2. CASE m[q - 1] # 0
      <4>1. m[q] = m[q - 1] + 1 /\ v[q - 1] = s[m[q - 1]] /\ m[q - 1] \in 0..Len(s)
        BY <1>1, <1>5, <3>0, <3>2 DEF Adjacent, Sourced
      <4>2. m[q - 1] = p - 1
        BY <1>2, <4>1
      <4> QED BY <3>1, <4>1, <4>2
    <3>3. CASE m[q - 1] = 0
      <4>1. EndsAt(s, ends, p - 1)
        BY <1>1, <1>5, <3>0, <3>3 DEF Adjacent
      <4>2. PICK i \in 1..Len(s) : ends[i] = p - 1 /\ p - 1 # 0
        BY <4>1 DEF EndsAt
      <4>3. p - 1 = Len(s) \/ s[p - 1 + 1] \notin Word
        BY <4>2 DEF Matches, Bounded
      <4>4. p - 1 + 1 = p /\ p - 1 # Len(s)
        BY <1>6
      <4> QED BY <1>7, <4>3, <4>4 DEF Word
    <3> QED BY <3>2, <3>3
  <2> QED BY <2>1, <2>2
<1>9. p + 2 = Len(s) \/ s[p + 3] \notin Word
  <2>1. CASE q + 2 = Len(v)
    <3>1. m[q + 2] = Len(s)
      BY <1>1, <1>2, <1>5, <1>6, <2>1
    <3> QED BY <1>6, <3>1
  <2>2. CASE q + 2 # Len(v)
    <3>0. q + 2 \in 1..Len(v) - 1 /\ q + 3 \in 1..Len(v) /\ q + 2 + 1 = q + 3
      BY <1>2, <1>4, <2>2
    <3>1. v[q + 3] \notin Word
      BY <1>3, <2>2, <3>0 DEF Bounded
    <3>2. CASE m[q + 3] # 0
      <4>1. m[q + 3] = m[q + 2] + 1 /\ v[q + 3] = s[m[q + 3]]
        BY <1>1, <1>5, <3>0, <3>2 DEF Adjacent, Sourced
      <4>2. m[q + 3] = p + 3
        BY <1>2, <1>6, <4>1
      <4> QED BY <3>1, <4>1, <4>2
    <3>3. CASE m[q + 3] = 0
      <4>1. m[q + 2] < Len(s) /\ ends[m[q + 2] + 1] # 0
        BY <1>1, <1>5, <3>0, <3>3 DEF Adjacent
      <4>2. p + 3 \in 1..Len(s) /\ ends[p + 3] # 0
        <5>1. m[q + 2] = p + 2 /\ p + 2 + 1 = p + 3 /\ p \in 1..Len(s)
          BY <1>6
        <5>2. p + 2 < Len(s) /\ ends[p + 3] # 0
          BY <4>1, <5>1
        <5> HIDE DEF p
        <5> QED BY <5>1, <5>2
      <4>3. p + 3 = 1 \/ s[p + 3 - 1] \notin Word
        <5> HIDE DEF p
        <5>1. Bounded(s, p + 3, ends[p + 3])
          BY <4>2 DEF Matches
        <5>2. \/ p + 3 = 1
              \/ s[p + 3 - 1] \notin Word
          BY <1>2, <1>6, <5>1 DEF Bounded
        <5> QED BY <5>2
      <4>4. p + 3 # 1 /\ p + 3 - 1 = p + 2
        BY <1>2, <1>6
      <4> QED BY <1>7, <4>3, <4>4 DEF Word
    <3> QED BY <3>2, <3>3
  <2> QED BY <2>1, <2>2
<1>10. FixedEnd(s, p) # 0
  <2>1. Bounded(s, p, p + 2)
    <3> HIDE DEF p
    <3> QED BY <1>2, <1>6, <1>8, <1>9 DEF Bounded
  <2> QED BY <1>2, <1>6, <1>7, <2>1, FixedEndIs
<1> QED BY <1>6, <1>7, <1>10

-----------------------------------------------------------------------------
\* The start of v is that of s, as far as it is made of what a match of fixed
\* length is made of; and what follows there is the next character of s or a
\* placeholder.
StartKept(v, s) ==
  \A k \in 0..2 :
    k <= Len(v) /\ (\A j \in 1..k : v[j] \in {"d", "-"}) =>
      /\ k <= Len(s) /\ \A j \in 1..k : v[j] = s[j]
      /\ k < Len(s) => k < Len(v) /\ v[k + 1] \in {s[k + 1], "["}

\* The second rule scans what the first has left.
LEMMA StartKeptOn ==
  ASSUME NEW s \in Seq(ShownChars), NEW v \in Seq(ShownChars), NEW w \in Seq(ShownChars),
         StartKept(v, s), StartKept(w, v)
  PROVE  StartKept(w, s)
<1> SUFFICES ASSUME NEW k \in 0..2, k <= Len(w), \A j \in 1..k : w[j] \in {"d", "-"}
    PROVE  /\ k <= Len(s) /\ \A j \in 1..k : w[j] = s[j]
           /\ k < Len(s) => k < Len(w) /\ w[k + 1] \in {s[k + 1], "["}
  BY DEF StartKept
<1>1. /\ k <= Len(v) /\ \A j \in 1..k : w[j] = v[j]
      /\ k < Len(v) => k < Len(w) /\ w[k + 1] \in {v[k + 1], "["}
  BY DEF StartKept
<1>2. /\ k <= Len(s) /\ \A j \in 1..k : v[j] = s[j]
      /\ k < Len(s) => k < Len(v) /\ v[k + 1] \in {s[k + 1], "["}
  BY <1>1 DEF StartKept
<1> QED BY <1>1, <1>2

\* A scan keeps the start of what it scans, and of two characters makes no fewer.
LEMMA ReplacedStart ==
  ASSUME NEW s \in Seq(ShownChars), NEW ends \in EndsOf(s), Matches(s, ends)
  PROVE  /\ StartKept(Replaced(s, ends), s)
         /\ Len(s) >= 2 => Len(Replaced(s, ends)) >= 2
<1> DEFINE v == Replaced(s, ends)
<1>1. PICK m \in [1..Len(v) -> 0..Len(s)] :
        /\ Sourced(s, ends, v, m) /\ Adjacent(s, ends, Len(s), v, m) /\ FromStart(ends, v, m)
        /\ Len(s) # 0 => Len(v) # 0 /\ (m[Len(v)] # 0 => m[Len(v)] = Len(s))
        /\ Len(s) # 0 => m[Len(v)] # 0 \/ Len(v) >= 3
  BY Origins
<1>2. v \in Seq(ShownChars) /\ Len(v) \in Nat /\ Len(s) \in Nat
  BY Origins
<1> HIDE DEF v
<1>3. ASSUME NEW k \in 0..2, k <= Len(v), \A j \in 1..k : v[j] \in {"d", "-"}
      PROVE  \A j \in 1..k : m[j] = j
  <2>1. \A j \in 1..k : j \in 1..Len(v) /\ m[j] # 0
    <3> SUFFICES ASSUME NEW j \in 1..k PROVE j \in 1..Len(v) /\ m[j] # 0
      OBVIOUS
    <3>1. j \in 1..Len(v)
      BY <1>2, <1>3
    <3> QED BY <1>1, <1>3, <3>1 DEF Sourced
  <2>2. k # 0 => m[1] = 1
    <3> HAVE k # 0
    <3>1. 1 \in 1..k /\ Len(v) # 0
      BY <1>2, <1>3
    <3> QED BY <1>1, <2>1, <3>1 DEF FromStart
  <2>3. k = 2 => m[2] = 2
    <3> HAVE k = 2
    <3>1. m[1] # 0 /\ m[2] # 0 /\ 1 \in 1..Len(v) - 1
      BY <1>2, <1>3, <2>1
    <3>2. m[1 + 1] = m[1] + 1
      BY <1>1, <3>1 DEF Adjacent
    <3> QED BY <2>2, <3>2
  <2> QED BY <2>2, <2>3
<1>4. ASSUME NEW k \in 0..2, k <= Len(v), \A j \in 1..k : m[j] = j, k < Len(s)
      PROVE  k < Len(v) /\ v[k + 1] \in {s[k + 1], "["}
  <2>1. k < Len(v)
    <3>1. Len(v) # 0 /\ (m[Len(v)] # 0 => m[Len(v)] = Len(s))
      BY <1>1, <1>2, <1>4
    <3> SUFFICES ASSUME k = Len(v) PROVE FALSE
      BY <1>2, <1>4
    <3>2. m[k] = k /\ k # 0
      BY <1>4, <3>1
    <3> QED BY <1>4, <3>1, <3>2
  <2>2. k + 1 \in 1..Len(v)
    BY <1>2, <2>1
  <2>3. CASE k = 0
    <3>1. m[1] = 1 \/ (m[1] = 0 /\ v[1] = "[")
      BY <1>1, <1>2, <2>1, <2>3 DEF FromStart
    <3> QED BY <1>1, <2>1, <2>2, <2>3, <3>1 DEF Sourced
  <2>4. CASE k # 0
    <3>1. k \in 1..Len(v) - 1 /\ m[k] = k /\ m[k] # 0
      BY <1>2, <1>4, <2>1, <2>4
    <3>2. m[k + 1] = k + 1 \/ (m[k + 1] = 0 /\ v[k + 1] = "[")
      BY <1>1, <3>1 DEF Adjacent
    <3>3. m[k + 1] = k + 1 => v[k + 1] = s[k + 1]
      BY <1>1, <2>2 DEF Sourced
    <3> QED BY <2>1, <3>2, <3>3
  <2> QED BY <2>3, <2>4
<1>5. StartKept(v, s)
  <2> SUFFICES ASSUME NEW k \in 0..2, k <= Len(v), \A j \in 1..k : v[j] \in {"d", "-"}
      PROVE  /\ k <= Len(s) /\ \A j \in 1..k : v[j] = s[j]
             /\ k < Len(s) => k < Len(v) /\ v[k + 1] \in {s[k + 1], "["}
    BY DEF StartKept
  <2>1. \A j \in 1..k : m[j] = j
    BY <1>3
  <2>2. \A j \in 1..k : j \in 1..Len(v) /\ m[j] # 0 /\ m[j] \in 0..Len(s)
    BY <1>1, <1>2, <2>1
  <2>3. \A j \in 1..k : v[j] = s[j] /\ j <= Len(s)
    BY <1>1, <1>2, <2>1, <2>2 DEF Sourced
  <2>4. k <= Len(s)
    <3>1. k = 0 \/ k \in 1..k
      OBVIOUS
    <3> QED BY <1>2, <2>3, <3>1
  <2> QED BY <1>4, <2>1, <2>3, <2>4
<1>6. ASSUME Len(s) >= 2 PROVE Len(v) >= 2
  <2>1. Len(v) \in Nat /\ Len(s) # 0
    BY <1>2, <1>6
  <2>2. Len(v) # 0
    BY <1>1, <2>1
  <2>3. Len(v) # 1
    <3> SUFFICES ASSUME Len(v) = 1 PROVE FALSE
      OBVIOUS
    <3>1. m[Len(v)] # 0 \/ Len(v) >= 3
      BY <1>1, <2>1
    <3>2. m[Len(v)] = m[1]
      OBVIOUS
    <3>3. m[1] = Len(s) /\ m[1] = 1
      BY <1>1, <2>1, <3>1, <3>2 DEF FromStart
    <3> QED BY <1>2, <1>6, <3>3
  <2>4. \A n \in Nat : n # 0 /\ n # 1 => n >= 2
    OBVIOUS
  <2> QED BY <2>1, <2>2, <2>3, <2>4
<1> QED BY <1>5, <1>6 DEF v

\* Induction over sequences, from the empty one.
LEMMA SeqSetInduction ==
  ASSUME NEW C, NEW S, <<>> \in S, \A s \in Seq(C), c \in C : s \in S => Append(s, c) \in S
  PROVE  Seq(C) \subseteq S
<1> SUFFICES ASSUME NEW s \in Seq(C) PROVE s \in S
  OBVIOUS
<1> DEFINE T == {k \in 0..Len(s) : SubSeq(s, 1, k) \in S}
<1>1. Len(s) \in Nat /\ \A i \in 1..Len(s) : s[i] \in C
  OBVIOUS
<1>2. 0 \in T
  <2>1. SubSeq(s, 1, 0) = <<>>
    BY SubSeqEmpty
  <2>2. SubSeq(s, 1, 0) \in S
    BY <2>1, Zenon
  <2>3. 0 \in 0..Len(s)
    BY <1>1
  <2> QED BY <2>2, <2>3, Zenon
<1>3. \A k \in 0..Len(s) - 1 : k \in T => k + 1 \in T
  <2> SUFFICES ASSUME NEW k \in 0..Len(s) - 1, k \in T PROVE k + 1 \in T
    OBVIOUS
  <2>1. SubSeq(s, 1, k) \in S /\ SubSeq(s, 1, k) \in Seq(C)
    BY <1>1
  <2>2. SubSeq(s, 1, k + 1) = Append(SubSeq(s, 1, k), s[k + 1])
    <3>1. SubSeq(s, 1, k + 1) = SubSeq(s, 1, k) \o <<s[k + 1]>>
      BY <1>1, SubSeqRecursiveSecond
    <3> QED BY <1>1, <2>1, <3>1, AppendIsConcat
  <2>3. SubSeq(s, 1, k + 1) \in S /\ k + 1 \in 0..Len(s)
    <3> DEFINE p == SubSeq(s, 1, k)
               c == s[k + 1]
    <3>1. p \in Seq(C) /\ c \in C /\ p \in S
      BY <1>1, <2>1
    <3>2. Append(p, c) \in S
      <4> HIDE DEF p, c
      <4> QED BY <3>1
    <3>3. k + 1 \in 0..Len(s)
      BY <1>1
    <3> QED BY <2>2, <3>2, <3>3, Zenon
  <2> QED BY <2>3, Zenon
<1>4. \A k \in 0..Len(s) : k \in T
  <2> HIDE DEF T
  <2> QED BY <1>1, <1>2, <1>3, UpTo
<1>5. SubSeq(s, 1, Len(s)) = s
  BY SubSeqFull
<1>6. SubSeq(s, 1, Len(s)) \in S
  <2>1. Len(s) \in 0..Len(s)
    BY <1>1
  <2> QED BY <1>4, <2>1, Zenon
<1> QED BY <1>5, <1>6, Zenon

-----------------------------------------------------------------------------
(* What no rule replaces *)

NoLetters == <<>>

\* The step of Letters at the k-th character.
KeptStep(s, k, a) == IF s[k] \in {"x", " "} THEN Append(a, s[k]) ELSE a

\* Letters is the end of what its steps define.
LEMMA LettersDef ==
  ASSUME NEW s \in Seq(ShownChars), NEW h \in [0..Len(s) -> Seq(ShownChars)], h[0] = NoLetters,
         \A k \in 1..Len(s) : h[k] = KeptStep(s, k, h[k - 1])
  PROVE  Letters(s) = h[Len(s)]
<1> DEFINE n == Len(s)
           F(g) == [k \in 0..n |-> IF k = 0 THEN NoLetters ELSE KeptStep(s, k, g[k - 1])]
           kept == CHOOSE g : g = F(g)
           S == {k \in 0..n : kept[k] = h[k]}
<1>1. n \in Nat
  OBVIOUS
<1>2. h = F(h)
  OBVIOUS
<1>3. kept = F(kept)
  <2> HIDE DEF F
  <2> QED BY <1>2
<1>4. 0 \in S
  <2>1. kept[0] = NoLetters
    <3> HIDE DEF kept
    <3> QED BY <1>1, <1>3
  <2> QED BY <1>1, <2>1
<1>5. \A k \in 0..n - 1 : k \in S => k + 1 \in S
  <2> SUFFICES ASSUME NEW k \in 0..n - 1, k \in S PROVE k + 1 \in S
    OBVIOUS
  <2>1. kept[k + 1] = KeptStep(s, k + 1, kept[k]) /\ h[k + 1] = KeptStep(s, k + 1, h[k])
    <3> HIDE DEF kept
    <3> QED BY <1>3
  <2> QED BY <2>1
<1>6. \A k \in 0..n : kept[k] = h[k]
  <2>1. \A k \in 0..n : k \in S
    <3> HIDE DEF S
    <3> QED BY <1>1, <1>4, <1>5, UpTo
  <2> QED BY <2>1
<1>7. Letters(s) = kept[n]
  BY DEF Letters, KeptStep, NoLetters
<1> QED BY <1>1, <1>6, <1>7

\* Such steps exist.
LEMMA LettersExist ==
  ASSUME NEW s \in Seq(ShownChars)
  PROVE  \E h \in [0..Len(s) -> Seq(ShownChars)] :
           h[0] = NoLetters /\ \A k \in 1..Len(s) : h[k] = KeptStep(s, k, h[k - 1])
<1> DEFINE n == Len(s)
           T == Seq(ShownChars)
           step == [k \in 1..n |-> [a \in T |-> KeptStep(s, k, a)]]
<1>1. NoLetters \in T /\ n \in Nat
  BY DEF NoLetters
<1>2. step \in [1..n -> [T -> T]]
  <2> SUFFICES ASSUME NEW k \in 1..n, NEW a \in T PROVE KeptStep(s, k, a) \in T
    OBVIOUS
  <2>1. s[k] \in ShownChars /\ a \in Seq(ShownChars)
    OBVIOUS
  <2> DEFINE c == s[k]
  <2> HIDE DEF c
  <2>2. Append(a, c) \in Seq(ShownChars)
    BY <2>1 DEF c
  <2> QED BY <2>1, <2>2 DEF KeptStep, c
<1>3. PICK h : Iterated(h, T, NoLetters, n, step)
  <2> HIDE DEF step, T, n
  <2> QED BY <1>1, <1>2, Iterates
<1>4. h \in [0..n -> T] /\ h[0] = NoLetters /\ \A k \in 1..n : h[k] = step[k][h[k - 1]]
  BY <1>3 DEF Iterated
<1>5. \A k \in 1..n : h[k] = KeptStep(s, k, h[k - 1])
  <2> SUFFICES ASSUME NEW k \in 1..n PROVE h[k] = KeptStep(s, k, h[k - 1])
    OBVIOUS
  <2> HIDE DEF T
  <2>1. h[k - 1] \in T
    BY <1>1, <1>4
  <2> QED BY <1>4, <2>1
<1> QED BY <1>4, <1>5

\* What Letters returns for a sequence, for the empty one, for one character more
\* and for two sequences joined.
LEMMA LettersType == \A s \in Seq(ShownChars) : Letters(s) \in Seq(ShownChars)
<1> SUFFICES ASSUME NEW s \in Seq(ShownChars) PROVE Letters(s) \in Seq(ShownChars)
  OBVIOUS
<1>1. PICK h \in [0..Len(s) -> Seq(ShownChars)] :
        h[0] = NoLetters /\ \A k \in 1..Len(s) : h[k] = KeptStep(s, k, h[k - 1])
  BY LettersExist
<1>2. Letters(s) = h[Len(s)]
  BY <1>1, LettersDef
<1> QED BY <1>2

LEMMA LettersOfNone == Letters(<<>>) = <<>>
<1>1. <<>> \in Seq(ShownChars) /\ Len(<<>>) = 0
  OBVIOUS
<1>2. PICK h \in [0..Len(<<>>) -> Seq(ShownChars)] :
        h[0] = NoLetters /\ \A k \in 1..Len(<<>>) : h[k] = KeptStep(<<>>, k, h[k - 1])
  BY <1>1, LettersExist
<1>3. Letters(<<>>) = h[Len(<<>>)]
  BY <1>1, <1>2, LettersDef
<1> QED BY <1>1, <1>2, <1>3 DEF NoLetters

LEMMA LettersOfAppend ==
  ASSUME NEW s \in Seq(ShownChars), NEW c \in ShownChars
  PROVE  Letters(Append(s, c)) = IF c \in {"x", " "} THEN Append(Letters(s), c) ELSE Letters(s)
<1> DEFINE t == Append(s, c)
<1>1. /\ t \in Seq(ShownChars) /\ Len(s) \in Nat /\ Len(t) = Len(s) + 1 /\ t[Len(t)] = c
      /\ \A k \in 1..Len(s) : t[k] = s[k]
  BY AppendProperties
<1> HIDE DEF t
<1>2. PICK h \in [0..Len(t) -> Seq(ShownChars)] :
        h[0] = NoLetters /\ \A k \in 1..Len(t) : h[k] = KeptStep(t, k, h[k - 1])
  BY <1>1, LettersExist
<1>3. Letters(t) = h[Len(t)]
  BY <1>1, <1>2, LettersDef
<1> DEFINE g == [k \in 0..Len(s) |-> h[k]]
<1>4. g \in [0..Len(s) -> Seq(ShownChars)] /\ g[0] = NoLetters /\ g[Len(s)] = h[Len(s)]
  BY <1>1, <1>2
<1>5. \A k \in 1..Len(s) : g[k] = KeptStep(s, k, g[k - 1])
  <2> SUFFICES ASSUME NEW k \in 1..Len(s) PROVE g[k] = KeptStep(s, k, g[k - 1])
    OBVIOUS
  <2>1. g[k] = h[k] /\ g[k - 1] = h[k - 1] /\ k \in 1..Len(t)
    BY <1>1
  <2>2. h[k] = KeptStep(t, k, h[k - 1])
    BY <1>2, <2>1
  <2> QED BY <1>1, <2>1, <2>2 DEF KeptStep
<1>6. Letters(s) = h[Len(s)]
  <2> HIDE DEF g
  <2> QED BY <1>4, <1>5, LettersDef
<1>7. h[Len(t)] = KeptStep(t, Len(t), h[Len(s)])
  BY <1>1, <1>2
<1> QED BY <1>1, <1>3, <1>6, <1>7 DEF KeptStep, t

\* Joining is associative.
LEMMA Joined == \A x, y, z \in Seq(ShownChars) : (x \o y) \o z = x \o (y \o z)
<1> SUFFICES ASSUME NEW x \in Seq(ShownChars), NEW y \in Seq(ShownChars), NEW z \in Seq(ShownChars)
    PROVE  (x \o y) \o z = x \o (y \o z)
  OBVIOUS
<1> QED BY ConcatAssociative

\* Two parts of a text side by side are one.
LEMMA PartsJoin ==
  ASSUME NEW S, NEW seq \in Seq(S), NEW k \in 0..Len(seq), NEW n \in k..Len(seq)
  PROVE  SubSeq(seq, 1, k) \o SubSeq(seq, k + 1, n) = SubSeq(seq, 1, n)
<1>1. 1 \in 1..Len(seq) + 1 /\ k \in 1 - 1..Len(seq)
  OBVIOUS
<1> QED BY <1>1, ConcatAdjacentSubSeq

LEMMA LettersOfConcat ==
  ASSUME NEW a \in Seq(ShownChars), NEW b \in Seq(ShownChars)
  PROVE  Letters(a \o b) = Letters(a) \o Letters(b)
<1> DEFINE S == {s \in Seq(ShownChars) : Letters(a \o s) = Letters(a) \o Letters(s)}
<1>1. <<>> \in S
  <2>1. a \o <<>> = a /\ Letters(a) \o <<>> = Letters(a)
    BY LettersType, ConcatEmptySeq
  <2>2. Letters(a \o <<>>) = Letters(a) \o Letters(<<>>)
    BY <2>1, LettersOfNone, Zenon
  <2>3. <<>> \in Seq(ShownChars)
    OBVIOUS
  <2> QED BY <2>2, <2>3, Zenon
<1>2. \A s \in Seq(ShownChars), c \in ShownChars : s \in S => Append(s, c) \in S
  <2> SUFFICES ASSUME NEW s \in Seq(ShownChars), NEW c \in ShownChars, s \in S
      PROVE  Append(s, c) \in S
    OBVIOUS
  <2>1. /\ Append(s, c) \in Seq(ShownChars) /\ a \o s \in Seq(ShownChars)
        /\ a \o Append(s, c) = Append(a \o s, c)
    OBVIOUS
  <2>2. Letters(a \o Append(s, c)) =
          IF c \in {"x", " "} THEN Append(Letters(a \o s), c) ELSE Letters(a \o s)
    BY <2>1, LettersOfAppend
  <2>3. Letters(a \o s) = Letters(a) \o Letters(s)
    OBVIOUS
  <2>4. Letters(a) \in Seq(ShownChars) /\ Letters(s) \in Seq(ShownChars)
    BY LettersType
  <2>5. Append(Letters(a) \o Letters(s), c) = Letters(a) \o Append(Letters(s), c)
    <3>1. \A x, y \in Seq(ShownChars) : Append(x \o y, c) = x \o Append(y, c)
      <4> SUFFICES ASSUME NEW x \in Seq(ShownChars), NEW y \in Seq(ShownChars)
          PROVE  Append(x \o y, c) = x \o Append(y, c)
        OBVIOUS
      <4>1. <<c>> \in Seq(ShownChars) /\ x \o y \in Seq(ShownChars)
        OBVIOUS
      <4>2. Append(x \o y, c) = (x \o y) \o <<c>> /\ Append(y, c) = y \o <<c>>
        BY <4>1, AppendIsConcat
      <4>3. (x \o y) \o <<c>> = x \o (y \o <<c>>)
        <5> DEFINE z == <<c>>
        <5>1. z \in Seq(ShownChars)
          BY <4>1
        <5> HIDE DEF z
        <5>2. (x \o y) \o z = x \o (y \o z)
          BY <5>1, Joined, ZenonT(40)
        <5> QED BY <5>2 DEF z
      <4> QED BY <4>2, <4>3, Zenon
    <3> QED BY <2>4, <3>1, Zenon
  <2>6. Letters(Append(s, c)) = IF c \in {"x", " "} THEN Append(Letters(s), c) ELSE Letters(s)
    BY LettersOfAppend
  <2> QED BY <2>1, <2>2, <2>3, <2>5, <2>6
<1>3. Seq(ShownChars) \subseteq S
  <2> HIDE DEF S
  <2> QED BY <1>1, <1>2, SeqSetInduction
<1> QED BY <1>3

\* No character of s is one.
Letterless(s) == \A i \in 1..Len(s) : s[i] \notin {"x", " "}

\* Neither a match nor a placeholder has letters.
LEMMA LettersOfOther ==
  ASSUME NEW s \in Seq(ShownChars), Letterless(s)
  PROVE  Letters(s) = <<>>
<1> DEFINE n == Len(s)
           h == [k \in 0..n |-> NoLetters]
<1>1. n \in Nat /\ NoLetters \in Seq(ShownChars)
  BY DEF NoLetters
<1>2. h \in [0..n -> Seq(ShownChars)] /\ h[0] = NoLetters /\ h[n] = NoLetters
  BY <1>1
<1>3. \A k \in 1..n : h[k] = KeptStep(s, k, h[k - 1])
  <2> SUFFICES ASSUME NEW k \in 1..n PROVE h[k] = KeptStep(s, k, h[k - 1])
    OBVIOUS
  <2>1. h[k] = NoLetters /\ h[k - 1] = NoLetters
    BY <1>1
  <2>2. s[k] \notin {"x", " "}
    BY DEF Letterless
  <2> HIDE DEF h
  <2> QED BY <2>1, <2>2 DEF KeptStep
<1>4. Letters(s) = h[n]
  <2> HIDE DEF h
  <2> QED BY <1>2, <1>3, LettersDef
<1> QED BY <1>2, <1>4 DEF NoLetters

\* After k characters the letters settled are those of what was scanned.
SoFar(s, k, acc) == k < acc.next /\ Letters(acc.out) = Letters(SubSeq(s, 1, acc.next - 1))

\* A step of the scan keeps the letters of what it has settled.
LEMMA SettledLetters ==
  ASSUME NEW s \in Seq(ShownChars), NEW ends \in EndsOf(s), Matches(s, ends),
         NEW k \in 0..Len(s) - 1, NEW acc \in Accs(Len(s)), SoFar(s, k, acc)
  PROVE  SoFar(s, k + 1, Settled(acc, s, ends, k + 1))
<1> DEFINE new == Settled(acc, s, ends, k + 1)
<1>0. /\ Len(s) \in Nat /\ k + 1 \in 1..Len(s) /\ ends[k + 1] \in 0..Len(s)
      /\ acc.out \in Seq(ShownChars) /\ acc.next \in 1..Len(s) + 1
      /\ k < acc.next /\ k \in Nat
  BY DEF Accs, EndsOf, SoFar
<1>b. \A i \in 1..Len(s) : s[i] \in ShownChars
  OBVIOUS
<1>a. Letters(acc.out) = Letters(SubSeq(s, 1, acc.next - 1))
  BY DEF SoFar
<1>1. CASE k + 1 < acc.next
  <2>1. new = acc
    BY <1>1 DEF Settled
  <2> HIDE DEF new
  <2> QED BY <1>1, <1>a, <2>1 DEF SoFar, new
<1>2. CASE ~(k + 1 < acc.next)
  <2> DEFINE p == SubSeq(s, 1, k)
             c == s[k + 1]
  <2>1. acc.next = k + 1 /\ acc.next - 1 = k
    BY <1>0, <1>2
  <2>2. p \in Seq(ShownChars) /\ c \in ShownChars
    BY <1>0, <1>b, SubSeqProperties
  <2>3. Letters(acc.out) = Letters(p)
    BY <1>a, <2>1
  <2>4. CASE ends[k + 1] = 0
    <3>1. new = [out |-> Append(acc.out, c), next |-> k + 1 + 1]
      BY <1>2, <2>4 DEF Settled
    <3>2. SubSeq(s, 1, k + 1) = Append(p, c)
      <4>1. SubSeq(s, 1, k + 1) = SubSeq(s, 1, k + 1 - 1) \o <<s[k + 1]>>
        BY <1>0, SubSeqRecursiveSecond
      <4>2. k + 1 - 1 = k
        BY <1>0
      <4>3. Append(p, c) = p \o <<c>>
        <5> HIDE DEF p, c
        <5> QED BY <2>2, AppendIsConcat
      <4> QED BY <4>1, <4>2, <4>3
    <3>3. Letters(Append(acc.out, c)) = Letters(Append(p, c))
      <4> HIDE DEF p, c
      <4> QED BY <1>0, <2>2, <2>3, LettersOfAppend
    <3>4. k + 1 < new.next /\ new.next - 1 = k + 1 /\ new.out = Append(acc.out, c)
      BY <1>0, <3>1
    <3> HIDE DEF new, p, c
    <3> QED BY <3>2, <3>3, <3>4 DEF SoFar, new
  <2>5. CASE ends[k + 1] # 0
    <3> DEFINE e == ends[k + 1]
               r == SubSeq(s, k + 1, e)
    <3>1. new = [out |-> acc.out \o Placeholder, next |-> e + 1]
      BY <1>2, <2>5 DEF Settled
    <3>2. k + 1 < e /\ \A j \in k + 1..e : s[j] \notin {"x", " "}
      <4> HIDE DEF new, p, c
      <4> QED BY <1>0, <2>5 DEF Matches
    <3>a. e \in 1..Len(s)
      BY <1>0, <2>5
    <3> HIDE DEF e
    <3>b. e \in Nat /\ k + 1 \in Int /\ e \in Int /\ k + 1 <= e /\ k \in k + 1 - 1..Len(s)
          /\ k \in 0..Len(s) /\ e \in k..Len(s)
      <4> HIDE DEF new, p, c, r
      <4>1. e \in Nat /\ e <= Len(s) /\ k + 1 < e /\ k \in Nat /\ Len(s) \in Nat
        <5>1. k + 1 < e
          BY <3>2, Zenon
        <5>2. e \in 1..Len(s)
          BY <3>a
        <5>3. Len(s) \in Nat /\ k \in Nat
          BY <1>0
        <5> QED BY <5>1, <5>2, <5>3
      <4> QED BY <4>1
    <3>3. r \in Seq(ShownChars) /\ Len(r) = e - k /\ \A i \in 1..Len(r) : r[i] = s[k + i]
      <4>1. \A i \in k + 1..e : s[i] \in ShownChars
        BY <1>0, <1>b, <3>a
      <4>2. /\ r \in Seq(ShownChars) /\ Len(r) = IF k + 1 <= e THEN e - (k + 1) + 1 ELSE 0
            /\ \A i \in 1..e - (k + 1) + 1 : r[i] = s[k + 1 + i - 1]
        BY <3>b, <4>1, SubSeqProperties
      <4>3. e - (k + 1) + 1 = e - k /\ \A i \in Nat : k + 1 + i - 1 = k + i
        BY <1>0, <3>b
      <4> HIDE DEF r
      <4>4. Len(r) = e - k
        BY <3>b, <4>2, <4>3
      <4>5. \A i \in 1..Len(r) : r[i] = s[k + i]
        BY <3>b, <4>2, <4>3, <4>4
      <4> QED BY <4>2, <4>4, <4>5
    <3>4. SubSeq(s, 1, e) = p \o r
      BY <3>b, PartsJoin
    <3>5. Letters(r) = <<>>
      <4>1. Letterless(r)
        <5> SUFFICES ASSUME NEW i \in 1..Len(r) PROVE r[i] \notin {"x", " "}
          BY DEF Letterless
        <5> HIDE DEF r
        <5>1. r[i] = s[k + i] /\ k + i \in k + 1..e
          BY <1>0, <3>b, <3>3
        <5> QED BY <3>2, <5>1
      <4> HIDE DEF r
      <4> QED BY <3>3, <4>1, LettersOfOther
    <3>6. Placeholder \in Seq(ShownChars) /\ Letters(Placeholder) = <<>>
      <4>1. Placeholder \in Seq(ShownChars)
        BY DEF Placeholder, ShownChars
      <4>2. Letterless(Placeholder)
        <5>1. Len(Placeholder) = 3 /\ \A i \in 1..3 : Placeholder[i] \in {"[", "r", "]"}
          BY DEF Placeholder
        <5> QED BY <5>1 DEF Letterless
      <4> QED BY <4>1, <4>2, LettersOfOther
    <3>7. /\ Letters(acc.out \o Placeholder) = Letters(acc.out) \o <<>>
          /\ Letters(p \o r) = Letters(p) \o <<>>
      <4> HIDE DEF p, r
      <4>1. Letters(acc.out \o Placeholder) = Letters(acc.out) \o Letters(Placeholder)
        BY <1>0, <3>6, LettersOfConcat
      <4>2. Letters(p \o r) = Letters(p) \o Letters(r)
        BY <2>2, <3>3, LettersOfConcat
      <4> QED BY <3>5, <3>6, <4>1, <4>2, Zenon
    <3>8. k + 1 < new.next /\ new.next - 1 = e /\ new.out = acc.out \o Placeholder
      <4> HIDE DEF new, p, c, r
      <4>1. new.next = e + 1 /\ new.out = acc.out \o Placeholder
        BY <3>1
      <4>2. k \in Nat /\ e \in Nat /\ k + 1 < e
        BY <1>0, <3>b, <3>2
      <4>3. k + 1 < e + 1 /\ e + 1 - 1 = e
        BY <4>2
      <4>4. k + 1 < new.next
        BY <4>1, <4>3
      <4>5. new.next - 1 = e
        BY <4>1, <4>2
      <4> QED BY <4>1, <4>4, <4>5
    <3> HIDE DEF new, p, r
    <3> QED BY <2>3, <3>4, <3>7, <3>8 DEF SoFar, new
  <2> QED BY <2>4, <2>5
<1> QED BY <1>1, <1>2

\* No scan loses, doubles or moves a letter.
LEMMA ReplacedLetters ==
  ASSUME NEW s \in Seq(ShownChars), NEW ends \in EndsOf(s), Matches(s, ends)
  PROVE  Letters(Replaced(s, ends)) = Letters(s)
<1>1. PICK f \in [0..Len(s) -> Accs(Len(s))] :
        /\ f[0] = Origin
        /\ \A k \in 1..Len(s) : f[k] = Settled(f[k - 1], s, ends, k)
        /\ Replaced(s, ends) = f[Len(s)].out
  BY ScanDef
<1> DEFINE S == {k \in 0..Len(s) : SoFar(s, k, f[k])}
<1>2. Len(s) \in Nat
  OBVIOUS
<1>3. 0 \in S
  <2>1. SubSeq(s, 1, 0) = <<>>
    BY SubSeqEmpty
  <2>2. Origin.out = <<>> /\ Origin.next = 1
    BY DEF Origin
  <2>3. SoFar(s, 0, Origin)
    <3>1. Origin.next - 1 = 0 /\ 0 < Origin.next
      BY <2>2
    <3> QED BY <2>1, <2>2, <3>1, Zenon DEF SoFar
  <2> QED BY <1>1, <1>2, <2>3
<1>4. \A k \in 0..Len(s) - 1 : k \in S => k + 1 \in S
  <2> SUFFICES ASSUME NEW k \in 0..Len(s) - 1, k \in S PROVE k + 1 \in S
    OBVIOUS
  <2>1. f[k] \in Accs(Len(s)) /\ f[k + 1] = Settled(f[k], s, ends, k + 1)
    BY <1>1, <1>2
  <2>2. SoFar(s, k + 1, f[k + 1])
    BY <2>1, SettledLetters
  <2> QED BY <1>2, <2>2
<1>5. SoFar(s, Len(s), f[Len(s)])
  <2>1. \A k \in 0..Len(s) : k \in S
    <3> HIDE DEF S
    <3> QED BY <1>2, <1>3, <1>4, UpTo
  <2> QED BY <1>2, <2>1
<1>6. f[Len(s)].next - 1 = Len(s)
  <2>1. f[Len(s)].next \in 1..Len(s) + 1
    BY <1>1, <1>2 DEF Accs
  <2> QED BY <1>2, <1>5, <2>1 DEF SoFar
<1>7. SubSeq(s, 1, Len(s)) = s
  BY SubSeqFull
<1> QED BY <1>1, <1>5, <1>6, <1>7 DEF SoFar

-----------------------------------------------------------------------------
(* The rules *)

\* Both rules match as Matches says.
LEMMA FixedMatches ==
  ASSUME NEW s \in Seq(ShownChars)
  PROVE  LET ends == [i \in DOMAIN s |-> FixedEnd(s, i)] IN
         ends \in EndsOf(s) /\ Matches(s, ends)
<1> DEFINE ends == [i \in DOMAIN s |-> FixedEnd(s, i)]
<1>1. DOMAIN s = 1..Len(s) /\ Len(s) \in Nat
  OBVIOUS
<1>2. ends \in EndsOf(s)
  <2> SUFFICES ASSUME NEW i \in 1..Len(s) PROVE FixedEnd(s, i) \in 0..Len(s)
    BY <1>1 DEF EndsOf
  <2> QED BY <1>1 DEF FixedEnd
<1>3. Matches(s, ends)
  <2> SUFFICES ASSUME NEW i \in 1..Len(s), ends[i] # 0
      PROVE  /\ i < ends[i] /\ s[i] \in Word /\ s[ends[i]] \in Word /\ Bounded(s, i, ends[i])
             /\ \A j \in i..ends[i] : s[j] \notin {"x", " "}
    BY DEF Matches
  <2>1. ends[i] = FixedEnd(s, i) /\ ends[i] = i + 2
    BY <1>1 DEF FixedEnd
  <2>2. /\ i + 2 <= Len(s) /\ s[i] = "d" /\ s[i + 1] = "-" /\ s[i + 2] = "d"
        /\ Bounded(s, i, i + 2)
    <3> HIDE DEF ends
    <3>1. i \in Nat \ {0} /\ FixedEnd(s, i) # 0
      BY <1>1, <2>1
    <3> QED BY <3>1, FixedEndIs
  <2>3. \A j \in i..i + 2 : j = i \/ j = i + 1 \/ j = i + 2
    OBVIOUS
  <2> HIDE DEF ends
  <2>4. \A j \in i..i + 2 : s[j] \notin {"x", " "}
    BY <2>2, <2>3
  <2>5. s[i] \in Word /\ s[i + 2] \in Word
    BY <2>2 DEF Word
  <2>6. i < i + 2
    BY <1>1
  <2> QED BY <2>1, <2>2, <2>4, <2>5, <2>6
<1> QED BY <1>2, <1>3

\* The longest run is a run.
LEMMA RunEndIs ==
  ASSUME NEW s \in Seq(ShownChars), NEW i \in 1..Len(s), RunEnd(s, i) # 0
  PROVE  /\ RunEnd(s, i) \in i + 1..i + 2 /\ RunEnd(s, i) <= Len(s)
         /\ Bounded(s, i, RunEnd(s, i)) /\ \A k \in i..RunEnd(s, i) : s[k] = "d"
<1> DEFINE ends == {j \in i + 1..i + 2 :
                      j <= Len(s) /\ (\A k \in i..j : s[k] = "d") /\ Bounded(s, i, j)}
<1>1. ends # {} /\ RunEnd(s, i) = CHOOSE j \in ends : \A k \in ends : k <= j
  BY DEF RunEnd
<1>2. \E j \in ends : \A k \in ends : k <= j
  <2>1. \A j \in ends : j = i + 1 \/ j = i + 2
    OBVIOUS
  <2> HIDE DEF ends
  <2> QED BY <1>1, <2>1
<1>3. RunEnd(s, i) \in ends
  <2> HIDE DEF ends
  <2> QED BY <1>1, <1>2
<1> QED BY <1>3

LEMMA RunMatches ==
  ASSUME NEW s \in Seq(ShownChars)
  PROVE  LET ends == [i \in DOMAIN s |-> RunEnd(s, i)] IN
         ends \in EndsOf(s) /\ Matches(s, ends)
<1> DEFINE ends == [i \in DOMAIN s |-> RunEnd(s, i)]
<1>1. DOMAIN s = 1..Len(s) /\ Len(s) \in Nat
  OBVIOUS
<1>2. ends \in EndsOf(s)
  <2> SUFFICES ASSUME NEW i \in 1..Len(s) PROVE RunEnd(s, i) \in 0..Len(s)
    BY <1>1 DEF EndsOf
  <2> QED BY <1>1, RunEndIs
<1>3. Matches(s, ends)
  <2> SUFFICES ASSUME NEW i \in 1..Len(s), ends[i] # 0
      PROVE  /\ i < ends[i] /\ s[i] \in Word /\ s[ends[i]] \in Word /\ Bounded(s, i, ends[i])
             /\ \A j \in i..ends[i] : s[j] \notin {"x", " "}
    BY DEF Matches
  <2>1. ends[i] = RunEnd(s, i)
    BY <1>1
  <2> HIDE DEF ends
  <2>2. /\ ends[i] \in i + 1..i + 2 /\ Bounded(s, i, ends[i])
        /\ \A k \in i..ends[i] : s[k] = "d"
    BY <2>1, RunEndIs
  <2>3. i \in i..ends[i] /\ ends[i] \in i..ends[i]
    BY <2>2
  <2>4. s[i] \in Word /\ s[ends[i]] \in Word
    BY <2>2, <2>3 DEF Word
  <2>5. \A j \in i..ends[i] : s[j] \notin {"x", " "}
    BY <2>2
  <2>6. i < ends[i]
    <3>1. i \in Nat /\ ends[i] \in i + 1..i + 2
      BY <1>1, <2>2
    <3> QED BY <3>1
  <2> QED BY <2>2, <2>4, <2>5, <2>6
<1> QED BY <1>2, <1>3

-----------------------------------------------------------------------------
\* What the redaction of a text promises the stream.
LEMMA Redacted ==
  ASSUME NEW s \in Seq(ShownChars)
  PROVE  /\ Redact(s) \in Seq(ShownChars)
         /\ \A q \in Nat \ {0} : FixedEnd(Redact(s), q) = 0
         /\ StartKept(Redact(s), s)
         /\ Len(s) >= 2 => Len(Redact(s)) >= 2
         /\ Letters(Redact(s)) = Letters(s)
<1> DEFINE fixed == [i \in DOMAIN s |-> FixedEnd(s, i)]
           u == Replaced(s, fixed)
           runs == [i \in DOMAIN u |-> RunEnd(u, i)]
           v == Replaced(u, runs)
<1>1. fixed \in EndsOf(s) /\ Matches(s, fixed)
  BY FixedMatches
<1>2. u \in Seq(ShownChars)
  <2> HIDE DEF fixed
  <2> QED BY <1>1, Origins
<1>3. runs \in EndsOf(u) /\ Matches(u, runs)
  <2> HIDE DEF u
  <2> QED BY <1>2, RunMatches
<1>4. \A p \in 1..Len(s) : fixed[p] = FixedEnd(s, p)
  OBVIOUS
<1>5. Redact(s) = v
  BY DEF Redact, RedactRuns, RedactFixed
<1> HIDE DEF fixed, runs
<1>6. \A q \in Nat \ {0} : FixedEnd(u, q) = 0
  BY <1>1, <1>4, NoNewMatch
<1>7. StartKept(u, s) /\ (Len(s) >= 2 => Len(u) >= 2) /\ Letters(u) = Letters(s)
  BY <1>1, ReplacedStart, ReplacedLetters
<1> HIDE DEF u
<1>8. v \in Seq(ShownChars)
  BY <1>2, <1>3, Origins
<1>9. \A q \in Nat \ {0} : FixedEnd(v, q) = 0
  <2>1. \A p \in 1..Len(u) : p \in Nat \ {0}
    OBVIOUS
  <2> QED BY <1>2, <1>3, <1>6, <2>1, NoNewMatch
<1>10. StartKept(v, u) /\ (Len(u) >= 2 => Len(v) >= 2) /\ Letters(v) = Letters(u)
  BY <1>2, <1>3, ReplacedStart, ReplacedLetters
<1>11. StartKept(v, s)
  <2> HIDE DEF v
  <2> QED BY <1>2, <1>7, <1>8, <1>10, StartKeptOn
<1> HIDE DEF v
<1> QED BY <1>5, <1>7, <1>8, <1>9, <1>10, <1>11

(* The stream *)

\* No match of the rule of fixed length, but right before a placeholder.
Clean(u) ==
  \A i \in 1..Len(u) - 2 : FixedEnd(u, i) # 0 => i + 3 <= Len(u) /\ u[i + 3] = "["

\* a is sent and c carried: enough of it, once anything is sent, to hold back the
\* end of every match begun there.
Held(a, c) == Clean(a \o c) /\ (Len(c) >= 2 \/ a = <<>>)

\* What is carried and sent again after a scan completes no match with what was
\* sent before: the characters that could are the carried ones, or a placeholder.
LEMMA ScanHolds ==
  ASSUME NEW a \in Seq(ShownChars), NEW c \in Seq(ShownChars), NEW t \in Seq(ShownChars),
         Held(a, c)
  PROVE  Held(a, Redact(c \o t))
<1> DEFINE s == c \o t
           r == Redact(s)
           u == a \o r
           o == a \o c
           n == Len(a)
<1>1. /\ s \in Seq(ShownChars) /\ Len(s) = Len(c) + Len(t)
      /\ \A i \in 1..Len(c) : s[i] = c[i]
      /\ Len(c) \in Nat /\ Len(t) \in Nat /\ Len(s) \in Nat
  BY ConcatProperties
<1>2. /\ r \in Seq(ShownChars) /\ StartKept(r, s)
      /\ \A q \in Nat \ {0} : FixedEnd(r, q) = 0
      /\ Len(s) >= 2 => Len(r) >= 2
  <2> HIDE DEF s
  <2> QED BY <1>1, Redacted
<1> HIDE DEF r, s
<1>3. /\ u \in Seq(ShownChars) /\ Len(u) = n + Len(r) /\ n \in Nat /\ Len(r) \in Nat
      /\ \A i \in 1..n : u[i] = a[i]
      /\ \A i \in 1..Len(r) : u[n + i] = r[i]
  BY <1>2, ConcatProperties
<1>4. /\ o \in Seq(ShownChars) /\ Len(o) = n + Len(c)
      /\ \A i \in 1..n : o[i] = a[i]
      /\ \A i \in 1..Len(c) : o[n + i] = c[i]
  BY ConcatProperties
<1> HIDE DEF u, o, n
<1>5. Clean(o) /\ (Len(c) >= 2 \/ n = 0)
  BY DEF Held, o, n
<1>a. n \in Nat /\ Len(r) \in Nat /\ Len(c) \in Nat /\ Len(u) = n + Len(r) /\ Len(o) = n + Len(c)
  BY <1>1, <1>3, <1>4
<1>b. \A j \in 1..n : u[j] = o[j]
  BY <1>3, <1>4
<1>c. \A j \in 1..Len(r) : u[n + j] = r[j]
  BY <1>3
<1>d. \A j \in 1..Len(c) : o[n + j] = c[j]
  BY <1>4
<1>6. ASSUME NEW i \in 1..Len(u) - 2, FixedEnd(u, i) # 0, ~(i + 3 <= Len(u) /\ u[i + 3] = "[")
      PROVE  FALSE
  <2>1. /\ i + 2 <= Len(u) /\ u[i] = "d" /\ u[i + 1] = "-" /\ u[i + 2] = "d"
        /\ Bounded(u, i, i + 2) /\ i \in Nat \ {0}
    BY <1>3, <1>6, FixedEndIs
  <2>2. CASE i > n
    <3> DEFINE q == i - n
    <3>1. q \in Nat \ {0} /\ q + 2 <= Len(r) /\ i = n + q
      BY <1>3, <2>1, <2>2
    <3>2. r[q] = u[n + q] /\ r[q + 1] = u[n + (q + 1)] /\ r[q + 2] = u[n + (q + 2)]
      <4>1. q \in 1..Len(r) /\ q + 1 \in 1..Len(r) /\ q + 2 \in 1..Len(r)
        BY <1>3, <3>1
      <4> HIDE DEF q
      <4> QED BY <1>3, <4>1
    <3>3. q = 1 \/ r[q - 1] \notin Word
      <4> SUFFICES ASSUME q # 1 PROVE r[q - 1] \notin Word
        OBVIOUS
      <4>1. q - 1 \in 1..Len(r) /\ n + (q - 1) = i - 1 /\ i # 1
        BY <1>3, <3>1
      <4> QED BY <1>3, <2>1, <4>1 DEF Bounded
    <3>4. q + 2 = Len(r) \/ r[q + 3] \notin Word
      <4> SUFFICES ASSUME q + 2 # Len(r) PROVE r[q + 3] \notin Word
        OBVIOUS
      <4>1. q + 3 \in 1..Len(r) /\ n + (q + 3) = i + 3 /\ i + 2 # Len(u) /\ i + 2 + 1 = i + 3
        BY <1>3, <3>1
      <4> QED BY <1>3, <2>1, <4>1 DEF Bounded
    <3>5. n + q = i /\ n + (q + 1) = i + 1 /\ n + (q + 2) = i + 2
      BY <1>3, <3>1
    <3>6. Bounded(r, q, q + 2)
      <4> HIDE DEF q
      <4>1. q + 2 + 1 = q + 3
        BY <3>1
      <4> QED BY <3>3, <3>4, <4>1 DEF Bounded
    <3>7. FixedEnd(r, q) # 0
      <4> HIDE DEF q
      <4>1. r[q] = "d" /\ r[q + 1] = "-" /\ r[q + 2] = "d"
        BY <2>1, <3>2, <3>5
      <4> QED BY <1>2, <3>1, <3>6, <4>1, FixedEndIs
    <3> QED BY <1>2, <3>1, <3>7
  <2>3. CASE i <= n
    <3> DEFINE k == IF i + 2 <= n THEN 0 ELSE i + 2 - n
               m == IF i + 2 <= n THEN i + 2 ELSE n
    <3>1. /\ k \in 0..2 /\ m + k = i + 2 /\ m \in 1..n /\ Len(c) >= 2 /\ k <= Len(r)
          /\ m < n => k = 0
          /\ k # 0 => m = n
      BY <1>3, <1>5, <2>1, <2>3
    <3> HIDE DEF k, m
    <3>2. \A j \in 1..k : r[j] = u[i + 2 - k + j] /\ r[j] \in {"d", "-"}
      <4> SUFFICES ASSUME NEW j \in 1..k PROVE r[j] = u[i + 2 - k + j] /\ r[j] \in {"d", "-"}
        OBVIOUS
      <4>1. j \in 1..Len(r) /\ n + j = i + 2 - k + j /\ n + j \in {i, i + 1, i + 2}
        BY <1>3, <2>1, <2>3, <3>1
      <4> QED BY <1>3, <2>1, <4>1
    <3>3. /\ k <= Len(s) /\ \A j \in 1..k : r[j] = s[j]
          /\ k < Len(s) => k < Len(r) /\ r[k + 1] \in {s[k + 1], "["}
      BY <1>2, <3>1, <3>2 DEF StartKept
    <3>4. k <= Len(c) /\ \A j \in 1..k : r[j] = c[j]
      BY <1>1, <3>1, <3>3
    <3>5. \A j \in 1..i + 2 : u[j] = o[j]
      <4> SUFFICES ASSUME NEW j \in 1..i + 2 PROVE u[j] = o[j]
        OBVIOUS
      <4>1. CASE j <= n
        <5>1. j \in 1..n
          BY <1>a, <4>1
        <5> QED BY <1>b, <5>1
      <4>2. CASE j > n
        <5>0. j - n \in 1..k /\ n + (j - n) = j
          BY <1>a, <2>1, <3>1, <4>2
        <5>1. j - n \in 1..Len(r) /\ j - n \in 1..Len(c)
          <6>1. k \in Nat /\ k <= Len(r) /\ k <= Len(c)
            BY <3>1, <3>4
          <6>2. j - n \in 1..k
            BY <5>0
          <6> QED BY <1>a, <6>1, <6>2
        <5>2. u[j] = r[j - n] /\ o[j] = c[j - n]
          BY <1>c, <1>d, <5>0, <5>1
        <5> QED BY <3>4, <5>0, <5>2
      <4> QED BY <1>a, <2>1, <4>1, <4>2
    <3>6. i + 2 <= Len(o)
      BY <1>a, <2>1, <2>3, <3>1, <3>4
    <3>7. i + 2 < Len(o) => i + 3 <= Len(u) /\ u[i + 3] = o[i + 3]
      <4> HAVE i + 2 < Len(o)
      <4>1. CASE i + 3 <= n
        <5>1. i + 3 \in 1..n
          BY <1>a, <2>1, <4>1
        <5>2. i + 3 <= Len(u)
          BY <1>a, <2>1, <4>1
        <5> QED BY <1>b, <5>1, <5>2
      <4>2. CASE i + 3 > n
        <5>1. n + (k + 1) = i + 3 /\ k + 1 \in 1..Len(c) /\ k < Len(s)
          <6>1. n + (k + 1) = i + 3 /\ k + 1 \in 1..Len(c)
            BY <1>a, <2>1, <3>1, <4>2
          <6>2. k < Len(s)
            BY <1>1, <3>1, <6>1
          <6> QED BY <6>1, <6>2
        <5>2. k + 1 \in 1..Len(r) /\ r[k + 1] \in {c[k + 1], "["}
          <6>1. k < Len(r) /\ r[k + 1] \in {s[k + 1], "["}
            BY <3>3, <5>1
          <6>2. s[k + 1] = c[k + 1]
            BY <1>1, <5>1
          <6>3. k + 1 \in 1..Len(r)
            BY <1>a, <3>1, <6>1
          <6> QED BY <6>1, <6>2, <6>3
        <5>3. u[i + 3] = r[k + 1] /\ o[i + 3] = c[k + 1]
          BY <1>c, <1>d, <5>1, <5>2
        <5>4. i + 3 <= Len(u)
          BY <1>a, <5>1, <5>2
        <5> QED BY <1>6, <5>2, <5>3, <5>4
      <4> QED BY <1>a, <2>1, <4>1, <4>2
    <3>8. Bounded(o, i, i + 2)
      <4>1. i = 1 \/ o[i - 1] \notin Word
        <5>1. i # 1 => i - 1 \in 1..i + 2
          BY <2>1
        <5> QED BY <2>1, <3>5, <5>1 DEF Bounded
      <4>2. i + 2 = Len(o) \/ o[i + 3] \notin Word
        <5> SUFFICES ASSUME i + 2 # Len(o) PROVE o[i + 3] \notin Word
          OBVIOUS
        <5>1. i + 2 < Len(o)
          BY <1>1, <1>3, <1>4, <2>1, <3>6
        <5>2. i + 3 <= Len(u) /\ u[i + 3] = o[i + 3] /\ i + 2 # Len(u) /\ i + 2 + 1 = i + 3
          BY <1>3, <2>1, <3>7, <5>1
        <5> QED BY <2>1, <5>2 DEF Bounded
      <4>3. i + 2 + 1 = i + 3
        BY <2>1
      <4> QED BY <4>1, <4>2, <4>3 DEF Bounded
    <3>9. FixedEnd(o, i) # 0
      <4>1. o[i] = "d" /\ o[i + 1] = "-" /\ o[i + 2] = "d"
        <5>1. i \in 1..i + 2 /\ i + 1 \in 1..i + 2 /\ i + 2 \in 1..i + 2
          BY <2>1
        <5> QED BY <2>1, <3>5, <5>1
      <4> QED BY <1>4, <2>1, <3>6, <3>8, <4>1, FixedEndIs
    <3>10. i + 3 <= Len(o) /\ o[i + 3] = "["
      <4>1. i \in 1..Len(o) - 2
        BY <1>1, <1>3, <1>4, <2>1, <3>6
      <4> QED BY <1>5, <3>9, <4>1 DEF Clean
    <3>11. i + 2 < Len(o)
      BY <1>1, <1>3, <1>4, <2>1, <3>10
    <3> QED BY <1>6, <3>7, <3>10, <3>11
  <2> QED BY <1>3, <2>1, <2>2, <2>3
<1>7. Clean(u)
  BY <1>6 DEF Clean
<1>8. Len(r) >= 2 \/ a = <<>>
  <2>1. Len(c) >= 2 => Len(r) >= 2
    BY <1>1, <1>2
  <2> QED BY <2>1 DEF Held
<1> QED BY <1>7, <1>8 DEF Held, u, r, s

\* Cut only moves the end of a text into what is carried.
LEMMA CutHolds ==
  ASSUME NEW a \in Seq(ShownChars), NEW r \in Seq(ShownChars)
  PROVE  /\ Cut(r).safe \in Seq(ShownChars)
         /\ Cut(r).carry \in Seq(ShownChars) /\ Len(Cut(r).carry) <= CarrySize
         /\ (a \o Cut(r).safe) \o Cut(r).carry = a \o r
         /\ Held(a, r) => Held(a \o Cut(r).safe, Cut(r).carry)
<1> DEFINE n == Len(r)
           keep == IF n > CarrySize THEN CarrySize ELSE n
           safe == SubSeq(r, 1, n - keep)
           rest == SubSeq(r, n - keep + 1, n)
<1>1. n \in Nat /\ CarrySize \in Nat /\ CarrySize >= 2 /\ \A i \in 1..n : r[i] \in ShownChars
  BY StreamAssumption
<1>2. keep \in 0..n /\ keep <= CarrySize /\ (n > CarrySize => keep = CarrySize)
      /\ (~(n > CarrySize) => keep = n)
  BY <1>1
<1>3. Cut(r) = [safe |-> safe, carry |-> rest]
  BY DEF Cut
<1> HIDE DEF n, keep
<1>4. safe \in Seq(ShownChars) /\ rest \in Seq(ShownChars) /\ Len(rest) = keep
  <2>1. \A i \in 1..n - keep : r[i] \in ShownChars
    BY <1>1, <1>2
  <2>2. \A i \in n - keep + 1..n : r[i] \in ShownChars
    BY <1>1, <1>2
  <2>3. n - keep \in Int /\ n - keep + 1 \in Int /\ n \in Int
    BY <1>1, <1>2
  <2>4. safe \in Seq(ShownChars)
    BY <2>1, <2>3, SubSeqProperties
  <2>5. /\ rest \in Seq(ShownChars)
        /\ Len(rest) = IF n - keep + 1 <= n THEN n - (n - keep + 1) + 1 ELSE 0
    BY <2>2, <2>3, SubSeqProperties
  <2> HIDE DEF rest, safe
  <2> QED BY <1>1, <1>2, <2>4, <2>5
<1>5. safe \o rest = r
  <2>1. n - keep \in 0..Len(r) /\ n \in n - keep..Len(r)
    BY <1>1, <1>2 DEF n
  <2>2. SubSeq(r, 1, n) = safe \o rest
    BY <2>1, PartsJoin
  <2>3. SubSeq(r, 1, n) = r
    BY SubSeqFull DEF n
  <2> QED BY <2>2, <2>3
<1>6. n <= CarrySize => safe = <<>> /\ rest = r
  <2> HAVE n <= CarrySize
  <2>1. n - keep < 1 /\ n - keep \in Int /\ n - keep + 1 = 1
    BY <1>1, <1>2
  <2>2. safe = <<>>
    BY <2>1, SubSeqEmpty
  <2>3. rest = SubSeq(r, 1, Len(r))
    BY <2>1 DEF n
  <2> QED BY <2>2, <2>3, SubSeqFull
<1> HIDE DEF safe, rest
<1>7. (a \o safe) \o rest = a \o r
  <2>1. (a \o safe) \o rest = a \o (safe \o rest)
    BY <1>4, Joined
  <2> QED BY <1>5, <2>1, Zenon
<1>8. ASSUME Held(a, r) PROVE Held(a \o safe, rest)
  <2>1. Clean((a \o safe) \o rest)
    BY <1>7, <1>8 DEF Held
  <2>2. Len(rest) >= 2 \/ a \o safe = <<>>
    <3>1. CASE n > CarrySize
      BY <1>1, <1>2, <1>4, <3>1
    <3>2. CASE n <= CarrySize
      <4>1. a \o safe = a
        BY <1>6, <3>2, ConcatEmptySeq
      <4> QED BY <1>6, <1>8, <3>2, <4>1 DEF Held
    <3> QED BY <1>1, <3>1, <3>2
  <2> QED BY <2>1, <2>2 DEF Held
<1>9. Cut(r).safe = safe /\ Cut(r).carry = rest
  BY <1>3
<1>10. Len(rest) <= CarrySize
  BY <1>2, <1>4
<1> QED BY <1>4, <1>7, <1>8, <1>9, <1>10, Zenon

\* No letter is lost, doubled or moved.
SameLetters == Letters(shown \o carry) = Letters(text)

\* The inductive invariant of the stream.
AnswerInv ==
  /\ AnswerTypeOK
  /\ ended = "no" \/ api # "ollama_json" => Clean(shown \o carry)
  /\ SameLetters
  /\ ended = "no" => Len(carry) >= 2 \/ shown = <<>>
  /\ api # "gemini" => left = <<>>
  /\ api \in {"json", "ollama_json"} /\ ended = "no" => text = <<>> /\ carry = <<>> /\ shown = <<>>

\* A token more, or the end of the answer: what the scan of it leaves.
LEMMA ScanKeeps ==
  ASSUME NEW a \in Seq(ShownChars), NEW c \in Seq(ShownChars), NEW x \in Seq(AnswerChars),
         NEW t \in Seq(AnswerChars), Held(a, c), Letters(a \o c) = Letters(x)
  PROVE  LET r == Redact(c \o t) IN
         /\ r \in Seq(ShownChars) /\ Held(a, r) /\ x \o t \in Seq(AnswerChars)
         /\ Letters(a \o r) = Letters(x \o t)
<1> DEFINE r == Redact(c \o t)
<1>1. x \in Seq(ShownChars) /\ t \in Seq(ShownChars) /\ x \o t \in Seq(AnswerChars)
  BY ConcatProperties DEF ShownChars
<1>2. c \o t \in Seq(ShownChars)
  BY <1>1, ConcatProperties
<1>3. r \in Seq(ShownChars) /\ Letters(r) = Letters(c \o t)
  BY <1>2, Redacted
<1>4. Held(a, r)
  BY <1>1, ScanHolds
<1>5. /\ Letters(a) \in Seq(ShownChars) /\ Letters(c) \in Seq(ShownChars)
      /\ Letters(t) \in Seq(ShownChars)
  BY <1>1, LettersType
<1>6. Letters(a \o r) = Letters(a) \o (Letters(c) \o Letters(t))
  <2>1. Letters(c \o t) = Letters(c) \o Letters(t)
    BY <1>1, LettersOfConcat
  <2>2. Letters(a \o r) = Letters(a) \o Letters(r)
    <3> HIDE DEF r
    <3> QED BY <1>3, LettersOfConcat
  <2> QED BY <1>3, <2>1, <2>2, Zenon
<1>7. Letters(x \o t) = (Letters(a) \o Letters(c)) \o Letters(t)
  <2>1. Letters(x \o t) = Letters(x) \o Letters(t) /\ Letters(a \o c) = Letters(a) \o Letters(c)
    BY <1>1, LettersOfConcat
  <2> QED BY <2>1, Zenon
<1>8. Letters(a \o r) = Letters(x \o t)
  <2>1. (Letters(a) \o Letters(c)) \o Letters(t) = Letters(a) \o (Letters(c) \o Letters(t))
    <3> DEFINE u == Letters(a)
               v == Letters(c)
               w == Letters(t)
    <3>1. u \in Seq(ShownChars) /\ v \in Seq(ShownChars) /\ w \in Seq(ShownChars)
      BY <1>5
    <3> HIDE DEF u, v, w
    <3>2. (u \o v) \o w = u \o (v \o w)
      BY <3>1, Joined, ZenonT(40)
    <3> QED BY <3>2 DEF u, v, w
  <2> QED BY <1>6, <1>7, <2>1, Zenon
<1> QED BY <1>1, <1>3, <1>4, <1>8

\* The same, cut into what is sent and what is carried.
LEMMA ChunkKeeps ==
  ASSUME NEW t \in Seq(AnswerChars), AnswerInv, ended = "no"
  PROVE  LET s == shown \o Chunk(t).safe
             c == Chunk(t).carry IN
         /\ s \in Seq(ShownChars) /\ c \in Seq(ShownChars) /\ Len(c) <= CarrySize
         /\ Held(s, c) /\ text \o t \in Seq(AnswerChars)
         /\ Letters(s \o c) = Letters(text \o t)
<1> DEFINE r == Redact(carry \o t)
<1>1. /\ shown \in Seq(ShownChars) /\ carry \in Seq(ShownChars) /\ text \in Seq(AnswerChars)
      /\ Held(shown, carry) /\ Letters(shown \o carry) = Letters(text)
  BY DEF AnswerInv, AnswerTypeOK, Held, SameLetters
<1>2. /\ r \in Seq(ShownChars) /\ Held(shown, r) /\ text \o t \in Seq(AnswerChars)
      /\ Letters(shown \o r) = Letters(text \o t)
  BY <1>1, ScanKeeps
<1>3. Chunk(t) = Cut(r)
  BY DEF Chunk
<1> HIDE DEF r
<1>4. /\ Cut(r).safe \in Seq(ShownChars)
      /\ Cut(r).carry \in Seq(ShownChars) /\ Len(Cut(r).carry) <= CarrySize
      /\ (shown \o Cut(r).safe) \o Cut(r).carry = shown \o r
      /\ Held(shown \o Cut(r).safe, Cut(r).carry)
  BY <1>1, <1>2, CutHolds
<1>5. shown \o Cut(r).safe \in Seq(ShownChars)
  BY <1>1, <1>4, ConcatProperties
<1> QED BY <1>2, <1>3, <1>4, <1>5

\* A token is a text.
LEMMA Tokened == \A t \in Tokens \union {<<>>} : t \in Seq(AnswerChars)
<1> SUFFICES ASSUME NEW t \in Tokens PROVE t \in Seq(AnswerChars)
  BY EmptySeq
<1>1. PICK n \in 1..MaxToken : t \in [1..n -> AnswerChars]
  BY DEF Tokens
<1>2. n \in Nat
  BY <1>1, StreamAssumption
<1> QED BY <1>1, <1>2, SeqDef

\* The last scan of an answer: nothing is carried after it.
LEMMA FinishKeeps ==
  ASSUME AnswerInv, ended = "no", NEW t \in Seq(AnswerChars), Len(text \o t) <= MaxAnswer,
         left = <<>>, FinishAnswer(t)
  PROVE  AnswerInv'
<1>1. /\ shown \in Seq(ShownChars) /\ carry \in Seq(ShownChars) /\ text \in Seq(AnswerChars)
      /\ Held(shown, carry) /\ Letters(shown \o carry) = Letters(text)
  BY DEF AnswerInv, AnswerTypeOK, Held, SameLetters
<1> DEFINE r == Redact(carry \o t)
<1>2. /\ r \in Seq(ShownChars) /\ Held(shown, r) /\ text \o t \in Seq(AnswerChars)
      /\ Letters(shown \o r) = Letters(text \o t)
  BY <1>1, ScanKeeps
<1>3. /\ text' = text \o t /\ shown' = shown \o r /\ carry' = <<>> /\ ended' = "done"
      /\ UNCHANGED <<api, left, garbled>>
  BY DEF FinishAnswer
<1> HIDE DEF r
<1>4. shown \o r \in Seq(ShownChars)
  BY <1>1, <1>2, ConcatProperties
<1>5. shown' \o carry' = shown'
  BY <1>3, <1>4, ConcatEmptySeq
<1>6. Clean((shown \o carry)') /\ SameLetters'
  BY <1>2, <1>3, <1>5 DEF Held, SameLetters
<1>7. (text \o left)' = text' /\ left' = <<>>
  BY <1>2, <1>3, ConcatEmptySeq
<1>8. AnswerTypeOK'
  BY <1>2, <1>3, <1>4, <1>7, StreamAssumption DEF AnswerInv, AnswerTypeOK
<1> QED BY <1>3, <1>6, <1>7, <1>8 DEF AnswerInv

\* The invariant holds when a stream opens ...
LEMMA AnswerStarts == AnswerInit => AnswerInv
<1> SUFFICES ASSUME AnswerInit PROVE AnswerInv
  OBVIOUS
<1>1. <<>> \in Seq(ShownChars) /\ <<>> \in Seq(AnswerChars) /\ Len(<<>>) = 0 /\ <<>> \o <<>> = <<>>
  BY ConcatEmptySeq
<1>2. AnswerTypeOK
  <2>1. text = <<>> /\ left = <<>> /\ carry = <<>> /\ shown = <<>>
    BY DEF AnswerInit
  <2>2. Len(text \o left) <= MaxAnswer /\ Len(carry) <= CarrySize
    BY <1>1, <2>1, StreamAssumption
  <2> QED BY <1>1, <2>1, <2>2 DEF AnswerInit, AnswerTypeOK
<1>3. Clean(<<>>)
  BY <1>1 DEF Clean
<1> QED BY <1>1, <1>2, <1>3 DEF AnswerInit, AnswerInv, SameLetters

\* ... and every step of a provider, its client or the loop keeps it.
LEMMA AnswerSteps == AnswerInv /\ [AnswerNext]_answerVars => AnswerInv'
<1> SUFFICES ASSUME AnswerInv, [AnswerNext]_answerVars PROVE AnswerInv'
  OBVIOUS
<1>0. /\ shown \in Seq(ShownChars) /\ carry \in Seq(ShownChars) /\ Len(carry) <= CarrySize
      /\ text \in Seq(AnswerChars) /\ left \in Seq(AnswerChars)
      /\ Len(text \o left) <= MaxAnswer /\ (api # "gemini" => left = <<>>)
  BY DEF AnswerInv, AnswerTypeOK
<1>1. CASE PassToken
  <2>0. ended = "no" /\ api \in {"openai", "ollama"} /\ left = <<>>
    BY <1>0, <1>1 DEF PassToken
  <2>1. PICK t \in Tokens :
          /\ Len(text \o t) <= MaxAnswer
          /\ text' = text \o t
          /\ shown' = shown \o Chunk(t).safe
          /\ carry' = Chunk(t).carry
    BY <1>1 DEF PassToken, Fits
  <2>2. UNCHANGED <<api, left, garbled, ended>>
    BY <1>1 DEF PassToken
  <2>3. /\ shown' \in Seq(ShownChars) /\ carry' \in Seq(ShownChars) /\ Len(carry') <= CarrySize
        /\ Held(shown', carry') /\ text' \in Seq(AnswerChars)
        /\ Letters(shown' \o carry') = Letters(text')
    BY <2>0, <2>1, Tokened, ChunkKeeps
  <2>4. Len(text' \o left') <= MaxAnswer
    BY <2>0, <2>1, <2>2, <2>3, ConcatEmptySeq
  <2>5. AnswerTypeOK'
    BY <2>2, <2>3, <2>4 DEF AnswerInv, AnswerTypeOK
  <2> QED BY <2>0, <2>2, <2>3, <2>5 DEF AnswerInv, Held, SameLetters
<1>2. CASE Garble
  BY <1>2 DEF Garble, AnswerInv, AnswerTypeOK, SameLetters
<1>3. CASE OllamaDone
  <2>1. ended = "no" /\ left = <<>>
    BY <1>0, <1>3 DEF OllamaDone
  <2>2. PICK t \in Tokens \union {<<>>} : Len(text \o t) <= MaxAnswer /\ FinishAnswer(t)
    BY <1>3 DEF OllamaDone, Fits
  <2> QED BY <2>1, <2>2, Tokened, FinishKeeps
<1>4. CASE OpenAIDone
  <2>0. ended = "no" /\ api = "openai" /\ left = <<>>
    BY <1>0, <1>4 DEF OpenAIDone
  <2>a. text \o <<>> = text /\ text \o left = text
    BY <1>0, <2>0, ConcatEmptySeq
  <2>1. CASE FinishAnswer(<<>>)
    <3>1. Len(text \o <<>>) <= MaxAnswer /\ <<>> \in Seq(AnswerChars)
      BY <1>0, <2>a
    <3> QED BY <2>0, <2>1, <3>1, FinishKeeps
  <2>2. CASE \E t \in Tokens :
               /\ Fits(t)
               /\ text' = text \o t
               /\ shown' = shown \o Chunk(t).safe \o Redact(Chunk(t).carry)
               /\ carry' = <<>> /\ ended' = "done"
               /\ UNCHANGED <<api, left, garbled>>
    <3>1. PICK t \in Tokens :
               /\ Len(text \o t) <= MaxAnswer
               /\ text' = text \o t
               /\ shown' = shown \o Chunk(t).safe \o Redact(Chunk(t).carry)
               /\ carry' = <<>> /\ ended' = "done"
               /\ UNCHANGED <<api, left, garbled>>
      BY <2>2 DEF Fits
    <3> DEFINE s == shown \o Chunk(t).safe
               c == Chunk(t).carry
               r == Redact(c)
               x == text \o t
    <3>2. /\ s \in Seq(ShownChars) /\ c \in Seq(ShownChars) /\ Held(s, c)
          /\ x \in Seq(AnswerChars) /\ Letters(s \o c) = Letters(x)
      BY <2>0, Tokened, ChunkKeeps
    <3>3. shown' = s \o r /\ text' = x /\ Len(x) <= MaxAnswer
      BY <3>1
    <3> HIDE DEF s, c, x
    <3>4. c \o <<>> = c /\ x \o <<>> = x /\ <<>> \in Seq(AnswerChars)
      BY <3>2, ConcatEmptySeq
    <3>5. r \in Seq(ShownChars) /\ Held(s, r) /\ Letters(s \o r) = Letters(x)
      <4>1. /\ Redact(c \o <<>>) \in Seq(ShownChars) /\ Held(s, Redact(c \o <<>>))
            /\ Letters(s \o Redact(c \o <<>>)) = Letters(x \o <<>>)
        <5> SUFFICES ASSUME NEW e \in Seq(AnswerChars)
            PROVE  /\ Redact(c \o e) \in Seq(ShownChars) /\ Held(s, Redact(c \o e))
                   /\ Letters(s \o Redact(c \o e)) = Letters(x \o e)
          BY <3>4
        <5> QED BY <3>2, ScanKeeps
      <4> QED BY <3>4, <4>1
    <3> HIDE DEF r
    <3>6. s \o r \in Seq(ShownChars)
      BY <3>2, <3>5, ConcatProperties
    <3>7. shown' \o carry' = shown' /\ text' \o left' = text' /\ left' = <<>>
      BY <2>0, <3>1, <3>2, <3>3, <3>6, ConcatEmptySeq
    <3>8. AnswerTypeOK'
      BY <3>1, <3>2, <3>3, <3>6, <3>7, StreamAssumption DEF AnswerInv, AnswerTypeOK
    <3>9. Clean((shown \o carry)') /\ SameLetters'
      BY <3>3, <3>5, <3>7 DEF Held, SameLetters
    <3> QED BY <3>1, <3>7, <3>8, <3>9 DEF AnswerInv
  <2> QED BY <1>4, <2>1, <2>2 DEF OpenAIDone
<1>5. CASE OllamaEnds
  BY <1>5 DEF OllamaEnds, AnswerInv, AnswerTypeOK, SameLetters
<1>6. CASE GeminiAnswers
  <2>1. PICK t \in UNION {[1..n -> AnswerChars] : n \in 1..MaxAnswer} : left' = t
    BY <1>6 DEF GeminiAnswers
  <2>2. PICK n \in 1..MaxAnswer : t \in [1..n -> AnswerChars]
    BY <2>1
  <2>3. n \in Nat /\ n <= MaxAnswer
    BY <2>2, StreamAssumption
  <2>4. t \in Seq(AnswerChars) /\ Len(t) = n
    BY <2>2, <2>3, SeqDef
  <2>5. text = <<>> /\ api = "gemini" /\ UNCHANGED <<api, text, garbled, carry, shown, ended>>
    BY <1>0, <1>6, ConcatSimplifications DEF GeminiAnswers
  <2>6. text' \o left' = t
    BY <2>1, <2>4, <2>5, ConcatEmptySeq
  <2>7. AnswerTypeOK'
    BY <2>1, <2>3, <2>4, <2>5, <2>6 DEF AnswerInv, AnswerTypeOK
  <2> QED BY <2>5, <2>7 DEF AnswerInv, SameLetters
<1>7. CASE GeminiPiece
  <2> DEFINE n == IF Len(left) < PieceSize THEN Len(left) ELSE PieceSize
             piece == SubSeq(left, 1, n)
  <2>0. ended = "no" /\ left # <<>> /\ api = "gemini"
    BY <1>0, <1>7 DEF GeminiPiece
  <2>1. /\ text' = text \o piece
        /\ left' = SubSeq(left, n + 1, Len(left))
        /\ shown' = shown \o Chunk(piece).safe
        /\ carry' = Chunk(piece).carry
        /\ UNCHANGED <<api, garbled, ended>>
    BY <1>7 DEF GeminiPiece
  <2>2. n \in 0..Len(left) /\ Len(left) \in Nat
    BY <1>0, StreamAssumption
  <2> HIDE DEF n
  <2>3. piece \in Seq(AnswerChars) /\ left' \in Seq(AnswerChars) /\ piece \o left' = left
    <3>1. \A i \in 1..n : left[i] \in AnswerChars
      BY <1>0, <2>2
    <3>2. \A i \in n + 1..Len(left) : left[i] \in AnswerChars
      BY <1>0, <2>2
    <3>3. piece \in Seq(AnswerChars) /\ left' \in Seq(AnswerChars)
      BY <2>1, <2>2, <3>1, <3>2, SubSeqProperties
    <3>4. SubSeq(left, 1, Len(left)) = piece \o SubSeq(left, n + 1, Len(left))
      <4>1. Len(left) \in n..Len(left) /\ left \in Seq(AnswerChars)
        BY <1>0, <2>2
      <4> QED BY <2>2, <4>1, PartsJoin
    <3>5. SubSeq(left, 1, Len(left)) = left
      BY <1>0, SubSeqFull
    <3> QED BY <2>1, <3>3, <3>4, <3>5
  <2> HIDE DEF piece
  <2>4. /\ shown' \in Seq(ShownChars) /\ carry' \in Seq(ShownChars) /\ Len(carry') <= CarrySize
        /\ Held(shown', carry') /\ text' \in Seq(AnswerChars)
        /\ Letters(shown' \o carry') = Letters(text')
    BY <2>0, <2>1, <2>3, ChunkKeeps
  <2>5. text' \o left' = text \o left
    <3>1. (text \o piece) \o left' = text \o (piece \o left')
      <4>1. \A x, y, z \in Seq(AnswerChars) : (x \o y) \o z = x \o (y \o z)
        <5> SUFFICES ASSUME NEW x \in Seq(AnswerChars), NEW y \in Seq(AnswerChars),
                            NEW z \in Seq(AnswerChars)
            PROVE  (x \o y) \o z = x \o (y \o z)
          OBVIOUS
        <5> QED BY ConcatAssociative
      <4> QED BY <1>0, <2>3, <4>1
    <3> QED BY <2>1, <2>3, <3>1, Zenon
  <2>6. AnswerTypeOK'
    BY <1>0, <2>1, <2>3, <2>4, <2>5 DEF AnswerInv, AnswerTypeOK
  <2> QED BY <2>0, <2>1, <2>4, <2>6 DEF AnswerInv, Held, SameLetters
<1>8. CASE GeminiDone
  <2>1. ended = "no" /\ left = <<>> /\ FinishAnswer(<<>>)
    BY <1>8 DEF GeminiDone
  <2>2. Len(text \o <<>>) <= MaxAnswer /\ <<>> \in Seq(AnswerChars)
    BY <1>0, <2>1
  <2> QED BY <2>1, <2>2, FinishKeeps
<1>9. CASE Raise
  BY <1>9 DEF Raise, AnswerInv, AnswerTypeOK, SameLetters
<1>10. CASE GuardedAnswer \/ OllamaAnswer
  <2>0. /\ ended = "no" /\ api \in {"json", "ollama_json"} /\ ended' = "done"
        /\ UNCHANGED <<api, left, garbled, carry>>
    BY <1>10 DEF GuardedAnswer, OllamaAnswer
  <2>1. PICK t \in Tokens : /\ Len(text \o t) <= MaxAnswer /\ text' = t
                            /\ shown' = Redact(t) \/ (api = "ollama_json" /\ shown' = t)
    BY <1>10 DEF GuardedAnswer, OllamaAnswer, Fits
  <2>2. text = <<>> /\ carry = <<>> /\ left = <<>>
    BY <1>0, <2>0 DEF AnswerInv
  <2>3. t \in Seq(AnswerChars) /\ t \in Seq(ShownChars)
    BY <2>1, Tokened DEF ShownChars
  <2>4. text \o t = t /\ t \o <<>> = t
    BY <2>2, <2>3, ConcatEmptySeq
  <2>5. /\ Redact(t) \in Seq(ShownChars) /\ Letters(Redact(t)) = Letters(t)
        /\ \A q \in Nat \ {0} : FixedEnd(Redact(t), q) = 0
    BY <2>3, Redacted
  <2>6. /\ shown' \in Seq(ShownChars) /\ Letters(shown') = Letters(t)
        /\ api # "ollama_json" => shown' = Redact(t)
    BY <2>1, <2>3, <2>5
  <2>7. shown' \o carry' = shown' /\ text' \o left' = text'
    BY <2>0, <2>1, <2>2, <2>4, <2>6, ConcatEmptySeq
  <2>8. Clean(Redact(t))
    BY <2>5 DEF Clean
  <2>9. AnswerTypeOK'
    BY <1>0, <2>0, <2>1, <2>2, <2>3, <2>4, <2>6, <2>7 DEF AnswerInv, AnswerTypeOK
  <2>10. SameLetters'
    BY <2>1, <2>6, <2>7 DEF SameLetters
  <2>11. (ended = "no" \/ api # "ollama_json" => Clean(shown \o carry))'
    BY <2>0, <2>6, <2>7, <2>8
  <2> QED BY <2>0, <2>2, <2>9, <2>10, <2>11 DEF AnswerInv
<1>11. CASE UNCHANGED answerVars
  BY <1>11 DEF answerVars, AnswerInv, AnswerTypeOK, SameLetters
<1> QED BY <1>1, <1>2, <1>3, <1>4, <1>5, <1>6, <1>7, <1>8, <1>9, <1>10, <1>11 DEF AnswerNext

LEMMA AnswerInvariant == AnswerSpec => []AnswerInv
<1> QED BY AnswerStarts, AnswerSteps, PTL DEF AnswerSpec

\* Whatever the constants, the stream keeps to its types: the carry never grows past
\* CARRY_SIZE, and what a client passes on never exceeds what the provider sent.
THEOREM AnswerTypeCorrect == AnswerSpec => []AnswerTypeOK
<1>1. AnswerInv => AnswerTypeOK
  BY DEF AnswerInv
<1> QED BY <1>1, AnswerInvariant, PTL

\* However an answer of any length is cut into tokens of any length, and however many
\* characters are carried, the client is sent no match of the rule of fixed length
\* (unless glued to a placeholder): redact_stream_chunk, the done chunks of the provider
\* clients, and the message of a JSON answer, but not Ollama's JSON, which has none.
\* And of every answer the letters sent, with those carried, are those of the answer.
THEOREM MatchesStayHidden == AnswerSpec => []ShownIsGuarded
<1>1. AnswerInv => ShownIsGuarded
  BY DEF AnswerInv, ShownIsGuarded, Clean, SameLetters
<1> QED BY <1>1, AnswerInvariant, PTL

-----------------------------------------------------------------------------
(* The chat: what its invariant says *)

Runs(r) == r.pc \in {"fetch", "reading"}

\* The message m is the answer to s as far as its reader r has come.
Shows(m, s, r) ==
  /\ m.of = s /\ m.role = "assistant"
  /\ m.text = [i \in 1..r.got |-> s] /\ m.streaming = (r.end = "no")

ReaderOK(r) ==
  /\ r.pc \in {"idle", "fetch"} => ~r.bubble
  /\ r.pc # "over" /\ ~r.bubble => r.got = 0 /\ r.end = "no"
  /\ Runs(r) => r.end \in {"no", "done"}

\* The message m is the bubble of an answer that is being read.
Live(m, st) == m.role = "assistant" /\ m.of \in Sends /\ Runs(st[m.of])

\* What a message says agrees with the reader of the answer it is of.
Fit(m, st) ==
  /\ \A k \in 1..Len(m.text) : m.text[k] = m.of /\ m.role = "assistant"
  /\ m.of \in Sends => st[m.of].pc # "idle"
  /\ m.streaming => /\ m.role = "assistant" /\ m.of \in Sends
                    /\ \/ Runs(st[m.of])
                       \/ st[m.of].pc = "over" /\ st[m.of].end \in {"broken", "silent"}
  /\ m.role = "assistant" /\ m.of \in Sends =>
       /\ st[m.of].pc = "over" /\ st[m.of].end = "done" => Shows(m, m.of, st[m.of])
       /\ Runs(st[m.of]) => st[m.of].bubble

Core ==
  /\ \A s \in Sends : Runs(stream[s]) => controller = s
  /\ loading => \E s \in Sends : Runs(stream[s])
  /\ \A s \in Sends : ReaderOK(stream[s])
  /\ \A i \in DOMAIN chats : \A j \in 1..Len(chats[i].messages) :
       /\ Fit(chats[i].messages[j], stream)
       /\ Live(chats[i].messages[j], stream) => i = CurrentAt /\ j = Len(Messages)
  /\ \A s \in Sends : Runs(stream[s]) /\ stream[s].bubble =>
       Shows(Last(Messages), s, stream[s])

ChatInv == ChatTypeOK /\ (~crossed => Core)

-----------------------------------------------------------------------------
(* Values *)

\* The largest id there is.
LEMMA Largest ==
  ASSUME NEW n \in Nat, NEW S \in SUBSET (1..n), S # {}
  PROVE  Max(S) \in S /\ \A y \in S : y <= Max(S)
<1> DEFINE T == {y \in Nat : n - y \in S}
<1>1. T \subseteq Nat
  OBVIOUS
<1>2. T # {}
  <2>1. PICK x \in S : TRUE
    OBVIOUS
  <2>2. x \in 1..n /\ n - x \in Nat /\ n - (n - x) = x
    OBVIOUS
  <2>3. n - x \in T
    BY <2>1, <2>2
  <2> QED BY <2>3
<1> DEFINE R == OpToRel(<, Nat)
<1>3. IsWellFoundedOn(R, Nat)
  BY NatLessThanWellFounded
<1>4. \A a, b \in Nat : a < b => <<a, b>> \in R
  BY DEF OpToRel
<1> HIDE DEF R
<1>5. \E x \in T : \A y \in T : ~ (<<y, x>> \in R)
  <2> HIDE DEF T
  <2> QED BY <1>1, <1>2, <1>3, WFMin
<1>6. PICK x \in T : \A y \in T : ~ (y < x)
  <2> HIDE DEF T
  <2> QED BY <1>1, <1>4, <1>5
<1>7. \A y \in S : n - x >= y
  <2> TAKE y \in S
  <2>1. y \in 1..n /\ n - y \in Nat /\ n - (n - y) = y
    OBVIOUS
  <2>2. n - y \in T /\ x \in Nat
    BY <2>1
  <2>3. ~ (n - y < x)
    BY <1>6, <2>2
  <2> HIDE DEF T
  <2> QED BY <2>1, <2>2, <2>3
<1>8. \E m \in S : \A y \in S : m >= y
  BY <1>6, <1>7
<1>9. Max(S) \in S /\ \A y \in S : Max(S) >= y
  BY <1>8 DEF Max
<1> QED BY <1>9

\* The place of a conversation depends on nothing but the ids.
LEMMA SamePlace ==
  ASSUME NEW cs, NEW ds, NEW c, DOMAIN ds = DOMAIN cs,
         \A i \in DOMAIN cs : ds[i].id = cs[i].id
  PROVE  (CHOOSE i \in DOMAIN ds : ds[i].id = c) = (CHOOSE i \in DOMAIN cs : cs[i].id = c)
<1>1. \A i : (i \in DOMAIN ds /\ ds[i].id = c) <=> (i \in DOMAIN cs /\ cs[i].id = c)
  OBVIOUS
<1> QED BY <1>1, Zenon

LEMMA Ends ==
  ASSUME NEW S, NEW s \in Seq(S), s # <<>>
  PROVE  /\ Len(s) \in Nat \ {0} /\ Last(s) = s[Len(s)] /\ Last(s) \in S
         /\ Front(s) \in Seq(S) /\ Len(Front(s)) = Len(s) - 1
         /\ \A j \in 1..Len(s) - 1 : Front(s)[j] = s[j]
<1>1. Len(s) \in Nat \ {0}
  BY EmptySeq
<1>2. Len(s) - 1 \in Int /\ \A j \in 1..Len(s) - 1 : s[j] \in S /\ 1 + j - 1 = j
  BY <1>1
<1> DEFINE front == SubSeq(s, 1, Len(s) - 1)
<1>3. front \in Seq(S) /\ Len(front) = IF 1 <= Len(s) - 1 THEN (Len(s) - 1) - 1 + 1 ELSE 0
  BY <1>2, SubSeqProperties
<1>4. \A j \in 1..(Len(s) - 1) - 1 + 1 : front[j] = s[1 + j - 1]
  BY <1>2, SubSeqProperties
<1>5. Len(front) = Len(s) - 1 /\ \A j \in 1..Len(s) - 1 : front[j] = s[j]
  <2> HIDE DEF front
  <2>0. \A n \in Nat \ {0} : (IF 1 <= n - 1 THEN (n - 1) - 1 + 1 ELSE 0) = n - 1
    OBVIOUS
  <2>1. Len(front) = Len(s) - 1
    BY <1>1, <1>3, <2>0
  <2>2. (Len(s) - 1) - 1 + 1 = Len(s) - 1
    BY <1>1
  <2> QED BY <1>2, <1>4, <2>1, <2>2
<1> QED BY <1>1, <1>3, <1>5 DEF Last, Front

LEMMA Appended ==
  ASSUME NEW S, NEW s \in Seq(S), NEW m \in S
  PROVE  /\ Append(s, m) \in Seq(S) /\ Append(s, m) # <<>>
         /\ Len(Append(s, m)) = Len(s) + 1 /\ Append(s, m)[Len(s) + 1] = m
         /\ \A j \in 1..Len(s) : Append(s, m)[j] = s[j]
OBVIOUS

\* setMessages on the last message.
LEMMA LastReplaced ==
  ASSUME NEW S, NEW s \in Seq(S), s # <<>>, NEW m \in S
  PROVE  LET t == Append(Front(s), m) IN
         /\ t \in Seq(S) /\ t # <<>> /\ Len(t) = Len(s) /\ t[Len(t)] = m
         /\ \A j \in 1..Len(s) - 1 : t[j] = s[j]
<1>1. Front(s) \in Seq(S) /\ Len(Front(s)) = Len(s) - 1 /\ Len(s) \in Nat
  BY Ends
<1>2. \A j \in 1..Len(s) - 1 : Front(s)[j] = s[j]
  BY Ends
<1> DEFINE t == Append(Front(s), m)
<1>3. /\ t \in Seq(S) /\ t # <<>> /\ Len(t) = Len(s) /\ t[Len(s)] = m
      /\ \A j \in 1..Len(s) - 1 : t[j] = Front(s)[j]
  BY <1>1, Appended
<1> HIDE DEF t
<1>4. /\ t \in Seq(S) /\ t # <<>> /\ Len(t) = Len(s) /\ t[Len(t)] = m
      /\ \A j \in 1..Len(s) - 1 : t[j] = s[j]
  BY <1>2, <1>3
<1> QED BY <1>4 DEF t

\* What is left of a sequence without one of its entries.
LEMMA Removed ==
  ASSUME NEW S, NEW s \in Seq(S), NEW i \in 1..Len(s)
  PROVE  /\ RemoveAt(s, i) \in Seq(S) /\ Len(RemoveAt(s, i)) = Len(s) - 1
         /\ \A j \in 1..Len(s) - 1 :
              RemoveAt(s, i)[j] = IF j < i THEN s[j] ELSE s[j + 1]
<1> DEFINE front == SubSeq(s, 1, i - 1)
           rest  == SubSeq(s, i + 1, Len(s))
<1>1. /\ front \in Seq(S) /\ Len(front) = i - 1
      /\ \A j \in 1..i - 1 : front[j] = s[j]
  BY SubSeqProperties
<1>2. /\ rest \in Seq(S) /\ Len(rest) = Len(s) - i
      /\ \A j \in 1..Len(s) - i : rest[j] = s[i + j]
  BY SubSeqProperties
<1> HIDE DEF front, rest
<1>3. /\ front \o rest \in Seq(S) /\ Len(front \o rest) = Len(s) - 1
      /\ \A j \in 1..Len(s) - 1 : (front \o rest)[j] =
           IF j <= i - 1 THEN front[j] ELSE rest[j - (i - 1)]
  <2>1. /\ front \o rest \in Seq(S) /\ Len(front \o rest) = Len(front) + Len(rest)
        /\ \A j \in 1..Len(front) + Len(rest) : (front \o rest)[j] =
             IF j <= Len(front) THEN front[j] ELSE rest[j - Len(front)]
    BY <1>1, <1>2, ConcatProperties
  <2>2. Len(front) + Len(rest) = Len(s) - 1
    BY <1>1, <1>2
  <2> QED BY <1>1, <2>1, <2>2
<1>4. ASSUME NEW j \in 1..Len(s) - 1
      PROVE  (front \o rest)[j] = IF j < i THEN s[j] ELSE s[j + 1]
  <2>1. CASE j < i
    BY <1>1, <1>3, <2>1
  <2>2. CASE ~(j < i)
    <3>1. j - (i - 1) \in 1..Len(s) - i
      BY <2>2
    <3>2. (front \o rest)[j] = s[i + (j - (i - 1))]
      BY <1>2, <1>3, <2>2, <3>1
    <3>3. i + (j - (i - 1)) = j + 1
      OBVIOUS
    <3> QED BY <2>2, <3>2, <3>3
  <2> QED BY <2>1, <2>2
<1> QED BY <1>3, <1>4 DEF RemoveAt, front, rest

-----------------------------------------------------------------------------
(* The conversation shown *)

ChatsTyped ==
  /\ chats \in Seq(ChatType) /\ \A i \in DOMAIN chats : chats[i].messages # <<>>
  /\ current \in {chats[i].id : i \in DOMAIN chats}

LEMMA HereIs ==
  ASSUME ChatsTyped
  PROVE  /\ DOMAIN chats = 1..Len(chats) /\ Len(chats) \in Nat
         /\ CurrentAt \in DOMAIN chats /\ chats[CurrentAt].id = current
         /\ \A i \in DOMAIN chats : /\ chats[i].id \in Ids /\ chats[i].messages \in Seq(MessageType)
                                    /\ chats[i] \in ChatType
         /\ Messages \in Seq(MessageType) /\ Messages # <<>>
<1>1. DOMAIN chats = 1..Len(chats) /\ Len(chats) \in Nat
      /\ \A i \in DOMAIN chats : chats[i] \in ChatType
  BY DEF ChatsTyped
<1>2. CurrentAt \in DOMAIN chats /\ chats[CurrentAt].id = current
  BY DEF ChatsTyped, CurrentAt
<1>3. \A i \in DOMAIN chats : chats[i].id \in Ids /\ chats[i].messages \in Seq(MessageType)
  BY <1>1 DEF ChatType
<1> QED BY <1>1, <1>2, <1>3 DEF Messages, ChatsTyped

\* setMessages changes the messages of the conversation shown and nothing else.
LEMMA Shown ==
  ASSUME ChatsTyped, NEW ms \in Seq(MessageType), ms # <<>>, Show(ms), current' = current
  PROVE  /\ ChatsTyped' /\ DOMAIN chats' = DOMAIN chats
         /\ CurrentAt' = CurrentAt /\ Messages' = ms
         /\ \A i \in DOMAIN chats :
              chats'[i].messages = IF i = CurrentAt THEN ms ELSE chats[i].messages
<1> DEFINE at == CurrentAt
<1>1. /\ DOMAIN chats = 1..Len(chats) /\ Len(chats) \in Nat /\ at \in DOMAIN chats
      /\ \A i \in DOMAIN chats : chats[i] \in ChatType /\ chats[i].messages # <<>>
      /\ chats[at].id = current
  BY HereIs DEF ChatsTyped
<1>2. chats' = [chats EXCEPT ![at].messages = ms]
  BY DEF Show
<1> HIDE DEF at
<1>3. /\ DOMAIN chats' = DOMAIN chats
      /\ \A i \in DOMAIN chats : chats'[i] =
           [id |-> chats[i].id, messages |-> IF i = at THEN ms ELSE chats[i].messages]
  BY <1>1, <1>2 DEF ChatType
<1>4. \A i \in DOMAIN chats : /\ chats'[i] \in ChatType /\ chats'[i].messages # <<>>
                              /\ chats'[i].id = chats[i].id
                              /\ chats'[i].messages = IF i = at THEN ms ELSE chats[i].messages
  BY <1>1, <1>3 DEF ChatType
<1>5. chats' \in Seq(ChatType)
  <2>1. chats' = [i \in 1..Len(chats) |-> chats'[i]]
    BY <1>1, <1>2 DEF ChatsTyped
  <2> QED BY <1>1, <1>4, <2>1
<1>6. ChatsTyped'
  BY <1>1, <1>3, <1>4, <1>5 DEF ChatsTyped
<1>7. CurrentAt' = at
  BY <1>3, <1>4, SamePlace DEF CurrentAt, at
<1>8. Messages' = ms
  BY <1>1, <1>4, <1>7 DEF Messages
<1> QED BY <1>3, <1>4, <1>6, <1>7, <1>8 DEF at

\* Leaving the conversations alone is to show what is shown.
LEMMA SameShown == ASSUME ChatsTyped, chats' = chats PROVE Show(Messages)
<1>1. CurrentAt \in DOMAIN chats /\ chats[CurrentAt] \in ChatType
  BY HereIs
<1>2. [chats[CurrentAt] EXCEPT !.messages = Messages] = chats[CurrentAt]
  BY <1>1 DEF Messages, ChatType
<1>3. chats \in Seq(ChatType)
  BY DEF ChatsTyped
<1>4. [chats EXCEPT ![CurrentAt].messages = Messages] = chats
  BY <1>1, <1>2, <1>3
<1> QED BY <1>4 DEF Show

LEMMA MessagesAre ==
  ASSUME NEW s \in Sends
  PROVE  /\ Said("user", s) \in MessageType /\ Greeting \in MessageType
         /\ Bubble(s) \in MessageType
         /\ \A kind \in {"error", "cancelled"} : Marked(s, kind) \in MessageType
<1>1. <<>> \in Seq(Sends)
  OBVIOUS
<1> QED BY <1>1 DEF Said, Greeting, Bubble, Marked, MessageType

-----------------------------------------------------------------------------
(* Types *)

StateTyped ==
  /\ loading \in BOOLEAN /\ pending \in BOOLEAN /\ crossed \in BOOLEAN
  /\ controller \in {NoStream} \union Sends /\ moves \in 0..MaxMoves
  /\ stream \in [Sends -> ReaderType]

LEMMA TypedAre == ChatTypeOK <=> ChatsTyped /\ StateTyped
BY DEF ChatTypeOK, ChatsTyped, StateTyped

LEMMA TypedNext == ASSUME ChatsTyped', StateTyped' PROVE ChatTypeOK'
BY DEF ChatTypeOK, ChatsTyped, StateTyped

LEMMA ChatStarts == ChatInit => ChatInv
<1> SUFFICES ASSUME ChatInit PROVE ChatInv
  OBVIOUS
<1> DEFINE first == [id |-> 1, messages |-> <<Greeting>>]
<1>1. Greeting \in MessageType /\ Greeting.of = NoStream /\ Greeting.text = <<>>
      /\ Greeting.streaming = FALSE
  <2>1. <<>> \in Seq(Sends)
    OBVIOUS
  <2> QED BY <2>1 DEF Said, Greeting, MessageType, NoStream
<1>2. first \in ChatType /\ first.messages = <<Greeting>> /\ first.id = 1
  BY <1>1, ChatAssumption DEF ChatType, Ids
<1> HIDE DEF first
<1>3. chats = <<first>> /\ current = 1
  BY DEF ChatInit, first
<1>4. ChatsTyped
  <2>1. first.messages # <<>>
    BY <1>2
  <2>2. chats \in Seq(ChatType) /\ Len(chats) = 1 /\ chats[1] = first
    BY <1>2, <1>3
  <2>3. DOMAIN chats = {1}
    BY <2>2
  <2> QED BY <1>2, <1>3, <2>1, <2>2, <2>3 DEF ChatsTyped
<1>5. NoReader \in ReaderType
  BY ChatAssumption DEF NoReader, ReaderType
<1>6. StateTyped
  <2>1. stream \in [Sends -> ReaderType]
    BY <1>5 DEF ChatInit
  <2>2. moves \in 0..MaxMoves
    BY ChatAssumption DEF ChatInit
  <2> QED BY <2>1, <2>2 DEF ChatInit, StateTyped
<1>7. \A s \in Sends : stream[s] = NoReader
  BY DEF ChatInit
<1>8. \A s \in Sends : ReaderOK(stream[s]) /\ ~Runs(stream[s])
  BY <1>7 DEF ReaderOK, Runs, NoReader
<1>9. \A i \in DOMAIN chats : \A j \in 1..Len(chats[i].messages) :
        chats[i].messages[j] = Greeting
  BY <1>2, <1>3
<1>10. Fit(Greeting, stream) /\ ~Live(Greeting, stream)
  BY <1>1, ChatAssumption DEF Fit, Live, Sends, NoStream
<1>11. loading = FALSE
  BY DEF ChatInit
<1>12. Core
  BY <1>8, <1>9, <1>10, <1>11 DEF Core
<1> QED BY <1>4, <1>6, <1>12, TypedAre DEF ChatInv

LEMMA SentTyped ==
  ASSUME ChatsTyped, StateTyped, NEW s \in Sends, StartSend(s), UNCHANGED <<current, moves>>,
         pending' \in BOOLEAN
  PROVE  ChatsTyped' /\ StateTyped'
<1>1. Append(Messages, Said("user", s)) \in Seq(MessageType)
      /\ Append(Messages, Said("user", s)) # <<>>
  BY HereIs, MessagesAre, Appended
<1>2. ChatsTyped'
  BY <1>1, Shown DEF StartSend
<1>3. stream' \in [Sends -> ReaderType]
  BY DEF StartSend, StateTyped, ReaderType
<1>4. loading' \in BOOLEAN /\ controller' \in Sends /\ crossed' \in BOOLEAN
  BY DEF StartSend, Beside, StateTyped
<1> QED BY <1>2, <1>3, <1>4 DEF StateTyped

Ending == {"error", "refused", "cancelled", "broken", "silent"}

LEMMA SettledTyped ==
  ASSUME StateTyped, NEW s \in Sends, NEW end \in Ending, Settle(s, end)
  PROVE  /\ StateTyped'
         /\ stream'[s].pc = "over" /\ stream'[s].bubble = stream[s].bubble
         /\ stream'[s].got = stream[s].got
         /\ stream'[s].end = IF end = "silent" /\ stream[s].end # "no" THEN stream[s].end ELSE end
         /\ \A t \in Sends \ {s} : stream'[t] = stream[t]
<1>1. /\ stream[s] \in ReaderType /\ stream \in [Sends -> ReaderType]
  BY DEF StateTyped
<1> DEFINE last == IF end = "silent" /\ stream[s].end # "no" THEN stream[s].end ELSE end
           r == [stream[s] EXCEPT !.pc = "over", !.end = last]
<1>2. last \in Ending \union {"done"}
  BY <1>1 DEF ReaderType, Ending
<1>3. stream' = [stream EXCEPT ![s].pc = "over", ![s].end = last]
  BY DEF Settle
<1> HIDE DEF last
<1>4. stream' = [stream EXCEPT ![s] = r]
  BY <1>1, <1>3 DEF ReaderType
<1>5. r \in ReaderType /\ r.pc = "over" /\ r.bubble = stream[s].bubble
      /\ r.got = stream[s].got /\ r.end = last
  BY <1>1, <1>2 DEF ReaderType, Ending
<1> HIDE DEF r
<1>6. stream' \in [Sends -> ReaderType] /\ stream'[s] = r
      /\ \A t \in Sends \ {s} : stream'[t] = stream[t]
  BY <1>1, <1>4, <1>5
<1>7. StateTyped'
  BY <1>6 DEF StateTyped, Settle
<1> QED BY <1>5, <1>6, <1>7 DEF last

-----------------------------------------------------------------------------
(* Other conversations *)

LEMMA NewId ==
  ASSUME ChatsTyped, Opened < MaxChats
  PROVE  Opened + 1 \in Ids
<1> DEFINE S == {1} \union {chats[i].id : i \in DOMAIN chats}
<1>1. S \subseteq 1..MaxChats /\ S # {} /\ MaxChats \in Nat
  BY HereIs, ChatAssumption DEF Ids
<1>2. Opened = Max(S)
  BY DEF Opened
<1> HIDE DEF S
<1>3. Max(S) \in 1..MaxChats
  BY <1>1, Largest
<1> QED BY <1>2, <1>3, ChatAssumption DEF Ids

\* Every conversation is a new one, or one there was.
Kept == \A i \in DOMAIN chats' :
  \/ chats'[i].messages = <<Greeting>>
  \/ \E k \in DOMAIN chats : chats'[i].messages = chats[k].messages

LEMMA Fresh ==
  ASSUME ChatsTyped, Opened < MaxChats
  PROVE  LET new == [id |-> Opened + 1, messages |-> <<Greeting>>] IN
         new \in ChatType /\ new.messages = <<Greeting>> /\ new.messages # <<>>
         /\ new.id = Opened + 1
<1>1. Greeting \in MessageType
  <2>1. <<>> \in Seq(Sends)
    OBVIOUS
  <2> QED BY <2>1 DEF Said, Greeting, MessageType
<1>2. <<Greeting>> \in Seq(MessageType) /\ <<Greeting>> # <<>>
  BY <1>1
<1>3. Opened + 1 \in Ids
  BY NewId
<1> QED BY <1>2, <1>3 DEF ChatType

LEMMA OneChat ==
  ASSUME NEW c \in ChatType, c.messages = <<Greeting>>, chats' = <<c>>, current' = c.id
  PROVE  ChatsTyped' /\ Kept
<1>1. chats' \in Seq(ChatType) /\ Len(chats') = 1 /\ chats'[1] = c
  OBVIOUS
<1>2. DOMAIN chats' = {1}
  BY <1>1
<1>3. <<Greeting>> # <<>>
  OBVIOUS
<1> QED BY <1>1, <1>2, <1>3 DEF ChatsTyped, Kept

LEMMA MovesTyped ==
  ASSUME ChatsTyped, StateTyped, CreateNewChat \/ SelectChat \/ DeleteChat
  PROVE  /\ ChatsTyped' /\ StateTyped' /\ Kept /\ UNCHANGED <<loading, stream>>
         /\ Beside
<1>1. Move /\ Beside /\ UNCHANGED <<loading, controller, stream, pending>>
  BY DEF CreateNewChat, SelectChat, DeleteChat
<1>2. StateTyped'
  BY <1>1, ChatAssumption DEF Move, Beside, StateTyped
<1>3. ASSUME CreateNewChat PROVE ChatsTyped' /\ Kept
  <2> DEFINE new == [id |-> Opened + 1, messages |-> <<Greeting>>]
  <2>1. chats' = <<new>> \o chats /\ current' = new.id /\ Opened < MaxChats
    BY <1>3 DEF CreateNewChat
  <2>2. new \in ChatType /\ new.messages = <<Greeting>> /\ new.messages # <<>>
    BY <2>1, Fresh
  <2> HIDE DEF new
  <2>3. <<new>> \in Seq(ChatType) /\ Len(<<new>>) = 1 /\ <<new>>[1] = new
    BY <2>2
  <2>4. chats \in Seq(ChatType) /\ Len(chats) \in Nat
    BY DEF ChatsTyped
  <2>5. /\ chats' \in Seq(ChatType) /\ Len(chats') = 1 + Len(chats)
        /\ \A i \in 1..1 + Len(chats) :
             chats'[i] = IF i <= 1 THEN <<new>>[i] ELSE chats[i - 1]
    BY <2>1, <2>3, <2>4, ConcatProperties
  <2>6. DOMAIN chats' = 1..1 + Len(chats)
    BY <2>4, <2>5
  <2>7. chats'[1] = new /\ 1 \in DOMAIN chats'
    BY <2>3, <2>4, <2>5, <2>6
  <2>8. \A i \in DOMAIN chats' : i # 1 =>
          i - 1 \in DOMAIN chats /\ chats'[i] = chats[i - 1]
    BY <2>4, <2>5, <2>6
  <2> QED BY <2>1, <2>2, <2>5, <2>7, <2>8 DEF ChatsTyped, Kept
<1>4. ASSUME SelectChat PROVE ChatsTyped' /\ Kept
  BY <1>4 DEF SelectChat, ChatsTyped, Kept
<1>5. ASSUME DeleteChat PROVE ChatsTyped' /\ Kept
  <2>1. PICK i \in DOMAIN chats :
          LET others == RemoveAt(chats, i) IN
          IF others # <<>>
            THEN /\ chats' = others
                 /\ current' = IF chats[i].id = current THEN others[1].id ELSE current
            ELSE /\ Opened < MaxChats
                 /\ chats' = <<[id |-> Opened + 1, messages |-> <<Greeting>>]>>
                 /\ current' = Opened + 1
    BY <1>5 DEF DeleteChat
  <2> DEFINE others == RemoveAt(chats, i)
  <2>2. chats \in Seq(ChatType) /\ Len(chats) \in Nat /\ DOMAIN chats = 1..Len(chats)
        /\ i \in 1..Len(chats)
    BY HereIs DEF ChatsTyped
  <2>3. /\ others \in Seq(ChatType) /\ Len(others) = Len(chats) - 1
        /\ \A j \in 1..Len(chats) - 1 : others[j] = IF j < i THEN chats[j] ELSE chats[j + 1]
    BY <2>2, Removed
  <2>4. CASE others = <<>>
    <3> DEFINE new == [id |-> Opened + 1, messages |-> <<Greeting>>]
    <3>1. chats' = <<new>> /\ current' = new.id /\ Opened < MaxChats
      BY <2>1, <2>4
    <3>2. new \in ChatType /\ new.messages = <<Greeting>>
      BY <3>1, Fresh
    <3> HIDE DEF new
    <3> QED BY <3>1, <3>2, OneChat
  <2>5. CASE others # <<>>
    <3>1. chats' = others /\ current' = IF chats[i].id = current THEN others[1].id ELSE current
      BY <2>1, <2>5
    <3> HIDE DEF others
    <3>2. DOMAIN others = 1..Len(chats) - 1 /\ 1 \in DOMAIN others
      BY <2>2, <2>3, <2>5, EmptySeq
    <3>3. \A j \in DOMAIN others : \E k \in DOMAIN chats : others[j] = chats[k]
      BY <2>2, <2>3, <3>2
    <3>4. \A k \in DOMAIN chats : k # i => \E j \in DOMAIN others : others[j] = chats[k]
      <4> TAKE k \in DOMAIN chats
      <4> HAVE k # i
      <4>1. CASE k < i
        <5>1. k \in 1..Len(chats) - 1
          BY <2>2, <4>1
        <5> QED BY <2>3, <3>2, <4>1, <5>1
      <4>2. CASE k > i
        <5>1. k - 1 \in 1..Len(chats) - 1 /\ ~(k - 1 < i) /\ (k - 1) + 1 = k
          BY <2>2, <4>2
        <5> QED BY <2>3, <3>2, <5>1
      <4> QED BY <2>2, <4>1, <4>2
    <3>5. PICK at \in DOMAIN chats : chats[at].id = current
      BY DEF ChatsTyped
    <3>6. \E j \in DOMAIN others : others[j].id = current'
      BY <3>1, <3>2, <3>4, <3>5
    <3>7. ChatsTyped'
      BY <2>3, <3>1, <3>3, <3>6 DEF ChatsTyped
    <3>8. Kept
      BY <3>1, <3>3 DEF Kept
    <3> QED BY <3>7, <3>8
  <2> QED BY <2>4, <2>5
<1> QED BY <1>1, <1>2, <1>3, <1>4, <1>5

-----------------------------------------------------------------------------
(* What a step changes *)

\* A message that the reader s has nothing to do with, or is only the question of
\* s, stays what it is.
LEMMA StillFits ==
  ASSUME NEW m \in MessageType, NEW st, NEW su, NEW s \in Sends, Fit(m, st),
         \A t \in Sends \ {s} : su[t] = st[t], su[s].pc # "idle",
         ~(m.role = "assistant" /\ m.of = s)
  PROVE  Fit(m, su) /\ (Live(m, su) => Live(m, st))
<1>1. CASE m.of = s
  <2>1. m.role # "assistant" /\ m.of \in Sends
    BY <1>1
  <2> QED BY <1>1, <2>1 DEF Fit, Live
<1>2. CASE m.of # s
  <2>1. m.of \in Sends => su[m.of] = st[m.of]
    BY <1>2
  <2>2. CASE m.of \in Sends
    BY <2>1, <2>2 DEF Fit, Live, Shows, Runs
  <2>3. CASE m.of \notin Sends
    BY <2>3 DEF Fit, Live
  <2> QED BY <2>2, <2>3
<1> QED BY <1>1, <1>2

\* The steps of a reader under way: what it does not write to is as it was, and no
\* bubble that is being read.
LEMMA Untouched ==
  ASSUME ChatsTyped, Core, NEW s \in Sends, Runs(stream[s]), NEW st,
         \A t \in Sends \ {s} : st[t] = stream[t], st[s].pc # "idle",
         NEW i \in DOMAIN chats, NEW j \in 1..Len(chats[i].messages),
         i # CurrentAt \/ j # Len(Messages) \/ ~stream[s].bubble
  PROVE  Fit(chats[i].messages[j], st) /\ ~Live(chats[i].messages[j], st)
<1> DEFINE m == chats[i].messages[j]
<1>1. m \in MessageType
  BY HereIs
<1>2. Fit(m, stream) /\ (Live(m, stream) => i = CurrentAt /\ j = Len(Messages))
  BY DEF Core
<1>3. \A t \in Sends : Runs(stream[t]) => t = s
  BY DEF Core
<1> HIDE DEF m
<1>4. Live(m, stream) => m.of = s /\ stream[s].bubble
  BY <1>2, <1>3 DEF Live, Fit
<1>5. ~Live(m, stream)
  BY <1>2, <1>4
<1>6. ~(m.role = "assistant" /\ m.of = s)
  BY <1>5 DEF Live
<1> QED BY <1>1, <1>2, <1>5, <1>6, StillFits DEF m

\* A step of the reader s that shows ms.  What is new in ms is its last message,
\* unless s is through with reading.
LEMMA Written ==
  ASSUME ChatsTyped, Core, NEW s \in Sends, Runs(stream[s]),
         \A t \in Sends \ {s} : stream'[t] = stream[t],
         NEW ms \in Seq(MessageType), ms # <<>>, Show(ms), current' = current,
         \A j \in 1..Len(ms) :
           \/ j \in 1..Len(Messages) /\ ms[j] = Messages[j]
              /\ (j # Len(Messages) \/ ~stream[s].bubble)
           \/ Fit(ms[j], stream') /\ (j = Len(ms) \/ stream'[s].pc = "over"),
         stream'[s].pc \in {"reading", "over"}, ReaderOK(stream'[s]),
         \/ stream'[s].pc = "reading" /\ controller' = controller
            /\ loading' \in {loading, FALSE}
            /\ (stream'[s].bubble => Shows(ms[Len(ms)], s, stream'[s]))
         \/ stream'[s].pc = "over" /\ controller' = NoStream /\ loading' = FALSE
  PROVE  ChatsTyped' /\ Core'
<1>1. /\ ChatsTyped' /\ DOMAIN chats' = DOMAIN chats
      /\ CurrentAt' = CurrentAt /\ Messages' = ms /\ CurrentAt \in DOMAIN chats
      /\ \A i \in DOMAIN chats :
           chats'[i].messages = IF i = CurrentAt THEN ms ELSE chats[i].messages
  BY Shown, HereIs
<1>2. \A t \in Sends : Runs(stream[t]) => t = s
  BY DEF Core
<1>3. \A t \in Sends : Runs(stream'[t]) => t = s /\ stream'[s].pc = "reading"
  BY <1>2 DEF Runs
<1>4. \A t \in Sends : Runs(stream'[t]) => controller' = t
  BY <1>3 DEF Core
<1>5. loading' => \E t \in Sends : Runs(stream'[t])
  BY DEF Runs, Core
<1>6. \A t \in Sends : ReaderOK(stream'[t])
  BY DEF Core
<1>7. stream'[s].pc # "idle"
  OBVIOUS
<1>8. ASSUME NEW i \in DOMAIN chats', NEW j \in 1..Len(chats'[i].messages)
      PROVE  /\ Fit(chats'[i].messages[j], stream')
             /\ Live(chats'[i].messages[j], stream') => i = CurrentAt' /\ j = Len(Messages')
  <2>1. CASE i # CurrentAt
    <3>1. chats'[i].messages = chats[i].messages /\ i \in DOMAIN chats
      BY <1>1, <2>1
    <3> QED BY <1>7, <2>1, <3>1, Untouched
  <2>2. CASE i = CurrentAt
    <3>1. chats'[i].messages = ms /\ i \in DOMAIN chats /\ Messages = chats[i].messages
      BY <1>1, <2>2 DEF Messages
    <3>2. CASE j \in 1..Len(Messages) /\ ms[j] = Messages[j]
               /\ (j # Len(Messages) \/ ~stream[s].bubble)
      <4>1. Fit(chats[i].messages[j], stream') /\ ~Live(chats[i].messages[j], stream')
        BY <1>7, <3>1, <3>2, Untouched
      <4> QED BY <3>1, <3>2, <4>1
    <3>3. CASE Fit(ms[j], stream') /\ (j = Len(ms) \/ stream'[s].pc = "over")
      <4>1. stream'[s].pc = "over" => ~Live(ms[j], stream')
        BY <1>3 DEF Live
      <4> QED BY <1>1, <2>2, <3>1, <3>3, <4>1
    <3> QED BY <3>1, <3>2, <3>3
  <2> QED BY <2>1, <2>2
<1>9. \A t \in Sends : Runs(stream'[t]) /\ stream'[t].bubble =>
        Shows(Last(Messages'), t, stream'[t])
  <2>1. Last(Messages') = ms[Len(ms)]
    BY <1>1 DEF Last
  <2> QED BY <1>3, <2>1
<1>10. Core'
  BY <1>4, <1>5, <1>6, <1>8, <1>9 DEF Core
<1> QED BY <1>1, <1>10

-----------------------------------------------------------------------------
(* The steps of a reader *)

LEMMA LastIs ==
  ASSUME ChatsTyped
  PROVE  /\ Last(Messages) \in MessageType /\ Len(Messages) \in Nat \ {0}
         /\ Last(Messages) = Messages[Len(Messages)]
         /\ Core => Fit(Last(Messages), stream)
<1>1. /\ Messages \in Seq(MessageType) /\ Messages # <<>> /\ CurrentAt \in DOMAIN chats
  BY HereIs
<1>2. /\ Last(Messages) \in MessageType /\ Len(Messages) \in Nat \ {0}
      /\ Last(Messages) = Messages[Len(Messages)]
  BY <1>1, Ends
<1>3. Core => Fit(Messages[Len(Messages)], stream)
  BY <1>1, <1>2 DEF Core, Messages
<1> QED BY <1>2, <1>3

\* A bubble of its own for an error or a cancellation.
LEMMA MarkedFits ==
  ASSUME NEW st, NEW s \in Sends, NEW kind, st[s].pc = "over", st[s].end # "done"
  PROVE  Fit(Marked(s, kind), st)
BY DEF Fit, Marked, Said, Runs

LEMMA SealedIs ==
  ASSUME NEW m \in MessageType
  PROVE  /\ Sealed(m) \in MessageType
         /\ Sealed(m).role = m.role /\ Sealed(m).of = m.of /\ Sealed(m).text = m.text
         /\ Sealed(m).streaming = FALSE
BY DEF Sealed, MessageType

LEMMA MarkingKeeps ==
  ASSUME NEW m \in MessageType, NEW kind \in {"error", "cancelled"}
  PROVE  LET n == [m EXCEPT !.kind = kind] IN
         /\ n \in MessageType
         /\ n.role = m.role /\ n.of = m.of /\ n.text = m.text /\ n.streaming = m.streaming
BY DEF MessageType

LEMMA EmptyingKeeps ==
  ASSUME NEW m \in MessageType
  PROVE  LET n == [m EXCEPT !.text = <<>>, !.kind = "error"] IN
         /\ n \in MessageType /\ n.text = <<>>
         /\ n.role = m.role /\ n.of = m.of /\ n.streaming = m.streaming
<1>1. <<>> \in Seq(Sends)
  OBVIOUS
<1> QED BY <1>1 DEF MessageType

\* Sealing a bubble that was streaming.
LEMMA SealFits ==
  ASSUME NEW m \in MessageType, NEW n, NEW st, Fit(m, st), m.streaming,
         n.role = m.role, n.of = m.of, n.text = m.text, n.streaming = FALSE
  PROVE  Fit(n, st)
BY DEF Fit, Runs

\* What was whole when its reader was through stays whole.
LEMMA StaysFit ==
  ASSUME NEW m \in MessageType, NEW st, NEW su, NEW s \in Sends,
         Fit(m, st), Shows(m, s, st[s]), su[s].pc = "over", su[s].got = st[s].got,
         \/ su[s].end \in {"broken", "silent"}
         \/ su[s].end = "done" /\ st[s].end = "done"
         \/ su[s].end = "cancelled" /\ ~m.streaming
  PROVE  Fit(m, su)
BY DEF Fit, Shows, Runs

\* The end of a stream: what remains to be shown is that every message fits.
LEMMA Closes ==
  ASSUME ChatInv, NEW s \in Sends, Runs(stream[s]), NEW end \in Ending, Settle(s, end),
         NEW ms \in Seq(MessageType), ms # <<>>, Show(ms),
         Core => \A j \in 1..Len(ms) :
           \/ j \in 1..Len(Messages) /\ ms[j] = Messages[j]
              /\ (j # Len(Messages) \/ ~stream[s].bubble)
           \/ Fit(ms[j], stream')
  PROVE  ChatInv'
<1>1. ChatsTyped /\ StateTyped /\ current' = current /\ crossed' = crossed
  BY TypedAre DEF ChatInv, Settle
<1>2. ChatsTyped'
  BY <1>1, Shown
<1>3. /\ StateTyped' /\ stream'[s].pc = "over"
      /\ \A t \in Sends \ {s} : stream'[t] = stream[t]
  BY <1>1, SettledTyped
<1>4. controller' = NoStream /\ loading' = FALSE
  BY DEF Settle
<1>5. ReaderOK(stream'[s])
  BY <1>3 DEF ReaderOK, Runs
<1>6. Core => Core'
  <2> HAVE Core
  <2> QED BY <1>1, <1>3, <1>4, <1>5, Written
<1>7. ChatTypeOK'
  BY <1>2, <1>3, TypedNext
<1> QED BY <1>1, <1>6, <1>7 DEF ChatInv

LEMMA RefusedKeeps ==
  ASSUME ChatInv, NEW s \in Sends, Refused(s)
  PROVE  ChatInv'
<1>1. PICK strip \in BOOLEAN :
        Show(Append(IF strip /\ Last(Messages).role = "user" THEN Front(Messages)
                    ELSE Messages, Marked(s, "error")))
  BY DEF Refused
<1>2. ChatsTyped /\ StateTyped /\ stream[s].pc = "fetch" /\ Settle(s, "refused")
  BY TypedAre DEF ChatInv, Refused
<1>3. Messages \in Seq(MessageType) /\ Messages # <<>> /\ Marked(s, "error") \in MessageType
  BY <1>2, HereIs, MessagesAre
<1> DEFINE new == Marked(s, "error")
           front == IF strip /\ Last(Messages).role = "user" THEN Front(Messages) ELSE Messages
           ms == Append(front, new)
<1>4. Len(Messages) \in Nat \ {0} /\ Len(Front(Messages)) = Len(Messages) - 1
      /\ Front(Messages) \in Seq(MessageType)
      /\ \A j \in 1..Len(Messages) - 1 : Front(Messages)[j] = Messages[j]
  BY <1>3, Ends
<1>5. /\ front \in Seq(MessageType) /\ Len(front) \in 0..Len(Messages)
      /\ \A j \in 1..Len(front) : front[j] = Messages[j]
  BY <1>3, <1>4
<1>6. Show(ms)
  BY <1>1
<1>7. Core => ~stream[s].bubble
  BY <1>2 DEF Core, ReaderOK
<1>8. Fit(new, stream')
  BY <1>2, SettledTyped, MarkedFits DEF Ending
<1> HIDE DEF new, front
<1>9. /\ ms \in Seq(MessageType) /\ ms # <<>> /\ Len(ms) = Len(front) + 1
      /\ ms[Len(front) + 1] = new /\ \A j \in 1..Len(front) : ms[j] = front[j]
  <2>1. new \in MessageType
    BY <1>3 DEF new
  <2> QED BY <1>5, <2>1, Appended
<1> HIDE DEF ms
<1>10. Core => \A j \in 1..Len(ms) :
         \/ j \in 1..Len(Messages) /\ ms[j] = Messages[j] /\ ~stream[s].bubble
         \/ Fit(ms[j], stream')
  BY <1>4, <1>5, <1>7, <1>8, <1>9
<1>11. Runs(stream[s]) /\ "refused" \in Ending
  BY <1>2 DEF Runs, Ending
<1> QED BY <1>2, <1>6, <1>9, <1>10, <1>11, Closes

\* A step that ends the stream and replaces the last message by m.
LEMMA ClosesLast ==
  ASSUME ChatInv, NEW s \in Sends, Runs(stream[s]), NEW end \in Ending, Settle(s, end),
         NEW m \in MessageType, ShowLast(m), Core => Fit(m, stream')
  PROVE  ChatInv'
<1> DEFINE ms == Append(Front(Messages), m)
<1>1. Messages \in Seq(MessageType) /\ Messages # <<>>
  BY TypedAre, HereIs DEF ChatInv
<1>2. /\ ms \in Seq(MessageType) /\ ms # <<>> /\ Len(ms) = Len(Messages) /\ ms[Len(ms)] = m
      /\ \A j \in 1..Len(Messages) - 1 : ms[j] = Messages[j]
  BY <1>1, LastReplaced
<1>3. Show(ms) /\ Len(Messages) \in Nat
  BY <1>1 DEF ShowLast
<1> HIDE DEF ms
<1>4. Core => \A j \in 1..Len(ms) :
         \/ j \in 1..Len(Messages) /\ ms[j] = Messages[j] /\ j # Len(Messages)
         \/ Fit(ms[j], stream')
  BY <1>2, <1>3
<1> QED BY <1>2, <1>3, <1>4, Closes

\* A step that ends the stream and adds the message m.
LEMMA ClosesBeyond ==
  ASSUME ChatInv, NEW s \in Sends, Runs(stream[s]), NEW end \in Ending, Settle(s, end),
         NEW m \in MessageType, Show(Append(Messages, m)), Fit(m, stream'),
         Core /\ stream[s].bubble => Fit(Last(Messages), stream')
  PROVE  ChatInv'
<1> DEFINE ms == Append(Messages, m)
<1>1. ChatsTyped
  BY TypedAre DEF ChatInv
<1>2. /\ Messages \in Seq(MessageType) /\ Len(Messages) \in Nat
      /\ Last(Messages) = Messages[Len(Messages)]
  BY <1>1, HereIs, LastIs
<1>3. /\ ms \in Seq(MessageType) /\ ms # <<>> /\ Len(ms) = Len(Messages) + 1
      /\ ms[Len(Messages) + 1] = m /\ \A j \in 1..Len(Messages) : ms[j] = Messages[j]
  BY <1>2, Appended
<1>4. Show(ms)
  OBVIOUS
<1> HIDE DEF ms
<1>5. Core => \A j \in 1..Len(ms) :
         \/ j \in 1..Len(Messages) /\ ms[j] = Messages[j]
            /\ (j # Len(Messages) \/ ~stream[s].bubble)
         \/ Fit(ms[j], stream')
  BY <1>2, <1>3
<1> QED BY <1>3, <1>4, <1>5, Closes

LEMMA ErrorFrameKeeps ==
  ASSUME ChatInv, NEW s \in Sends, ErrorFrame(s)
  PROVE  ChatInv'
<1> DEFINE last == Last(Messages)
           m == [Sealed(last) EXCEPT !.text = <<>>, !.kind = "error"]
<1>1. /\ ChatsTyped /\ StateTyped /\ stream[s].pc = "reading" /\ stream[s].bubble
      /\ ShowLast(m) /\ Settle(s, "error")
  BY TypedAre DEF ChatInv, ErrorFrame
<1>2. last \in MessageType
  BY <1>1, LastIs
<1>3. Runs(stream[s]) /\ "error" \in Ending
  BY <1>1 DEF Runs, Ending
<1>4. Core => Shows(last, s, stream[s])
  BY <1>1, <1>3 DEF Core
<1> HIDE DEF last
<1>5. /\ Sealed(last) \in MessageType /\ Sealed(last).role = last.role
      /\ Sealed(last).of = last.of /\ Sealed(last).streaming = FALSE
  BY <1>2, SealedIs
<1>6. m \in MessageType /\ m.text = <<>> /\ m.role = last.role /\ m.of = last.of
      /\ m.streaming = FALSE
  BY <1>5, EmptyingKeeps
<1>7. stream'[s].pc = "over" /\ stream'[s].end = "error"
  BY <1>1, <1>3, SettledTyped
<1> HIDE DEF m
<1>8. Core => Fit(m, stream')
  BY <1>4, <1>6, <1>7 DEF Fit, Shows, Runs
<1> QED BY <1>1, <1>3, <1>6, <1>8, ClosesLast

LEMMA EndKeeps ==
  ASSUME ChatInv, NEW s \in Sends, End(s)
  PROVE  ChatInv'
<1>1. /\ ChatsTyped /\ StateTyped /\ stream[s].pc = "reading" /\ stream[s].bubble
      /\ chats' = chats /\ Settle(s, "silent")
  BY TypedAre DEF ChatInv, End
<1>2. Runs(stream[s]) /\ "silent" \in Ending
  BY <1>1 DEF Runs, Ending
<1>3. Messages \in Seq(MessageType) /\ Messages # <<>>
  BY <1>1, HereIs
<1>4. Show(Messages)
  BY <1>1, SameShown
<1>5. Last(Messages) \in MessageType /\ Last(Messages) = Messages[Len(Messages)]
  BY <1>1, LastIs
<1>6. Core => /\ Fit(Last(Messages), stream) /\ Shows(Last(Messages), s, stream[s])
              /\ stream[s].end \in {"no", "done"}
  BY <1>1, <1>2, LastIs DEF Core, ReaderOK
<1>7. /\ stream'[s].pc = "over" /\ stream'[s].got = stream[s].got
      /\ stream'[s].end = IF stream[s].end # "no" THEN stream[s].end ELSE "silent"
  BY <1>1, <1>2, SettledTyped
<1>8. Core => Fit(Last(Messages), stream')
  <2> HAVE Core
  <2>1. stream'[s].end = "silent" \/ (stream'[s].end = "done" /\ stream[s].end = "done")
    BY <1>6, <1>7
  <2> QED BY <1>5, <1>6, <1>7, <2>1, StaysFit
<1>9. Core => \A j \in 1..Len(Messages) :
         \/ j \in 1..Len(Messages) /\ Messages[j] = Messages[j]
            /\ (j # Len(Messages) \/ ~stream[s].bubble)
         \/ Fit(Messages[j], stream')
  BY <1>5, <1>8
<1> QED BY <1>1, <1>2, <1>3, <1>4, <1>9, Closes

LEMMA BreakKeeps ==
  ASSUME ChatInv, NEW s \in Sends, Break(s)
  PROVE  ChatInv'
<1>1. /\ ChatsTyped /\ StateTyped /\ Runs(stream[s])
      /\ Show(Append(Messages, Marked(s, "error"))) /\ Settle(s, "broken")
  BY TypedAre DEF ChatInv, Break, Alive, Runs
<1>2. "broken" \in Ending /\ Marked(s, "error") \in MessageType
  BY MessagesAre DEF Ending
<1>3. /\ stream'[s].pc = "over" /\ stream'[s].got = stream[s].got /\ stream'[s].end = "broken"
  BY <1>1, <1>2, SettledTyped
<1>4. Fit(Marked(s, "error"), stream')
  BY <1>3, MarkedFits
<1>5. Core /\ stream[s].bubble => Fit(Last(Messages), stream')
  <2> HAVE Core /\ stream[s].bubble
  <2>1. /\ Last(Messages) \in MessageType /\ Fit(Last(Messages), stream)
        /\ Shows(Last(Messages), s, stream[s])
    BY <1>1, LastIs DEF Core
  <2> QED BY <1>3, <2>1, StaysFit
<1> QED BY <1>1, <1>2, <1>4, <1>5, ClosesBeyond

LEMMA CancelledKeeps ==
  ASSUME ChatInv, NEW s \in Sends, Cancelled(s)
  PROVE  ChatInv'
<1> DEFINE last == Last(Messages)
<1>1. /\ ChatsTyped /\ StateTyped /\ Runs(stream[s]) /\ Settle(s, "cancelled")
      /\ IF last.role = "assistant" /\ last.streaming
            THEN ShowLast([Sealed(last) EXCEPT !.kind = "cancelled"])
            ELSE Show(Append(Messages, Marked(s, "cancelled")))
  BY TypedAre DEF ChatInv, Cancelled, Alive, Runs
<1>2. "cancelled" \in Ending /\ Marked(s, "cancelled") \in MessageType
  BY MessagesAre DEF Ending
<1>3. /\ stream'[s].pc = "over" /\ stream'[s].got = stream[s].got
      /\ stream'[s].end = "cancelled" /\ \A t \in Sends \ {s} : stream'[t] = stream[t]
  BY <1>1, <1>2, SettledTyped
<1>4. last \in MessageType /\ (Core => Fit(last, stream))
  BY <1>1, LastIs
<1>5. Core /\ stream[s].bubble => Shows(last, s, stream[s])
  BY <1>1 DEF Core
<1> HIDE DEF last
<1>6. CASE last.role = "assistant" /\ last.streaming
  <2> DEFINE m == [Sealed(last) EXCEPT !.kind = "cancelled"]
  <2>1. /\ Sealed(last) \in MessageType /\ Sealed(last).role = last.role
        /\ Sealed(last).of = last.of /\ Sealed(last).text = last.text
        /\ Sealed(last).streaming = FALSE
    BY <1>4, SealedIs
  <2>2. /\ m \in MessageType /\ m.role = last.role /\ m.of = last.of /\ m.text = last.text
        /\ m.streaming = FALSE
    BY <2>1, MarkingKeeps
  <2> HIDE DEF m
  <2>3. Core => Fit(m, stream')
    <3> HAVE Core
    <3>1. Fit(m, stream)
      BY <1>4, <1>6, <2>2, SealFits
    <3>2. CASE m.of = s
      BY <1>3, <2>2, <3>1, <3>2 DEF Fit, Runs
    <3>3. CASE m.of # s
      <4>1. ~(m.role = "assistant" /\ m.of = s)
        BY <3>3
      <4> QED BY <1>3, <2>2, <3>1, <4>1, StillFits
    <3> QED BY <3>2, <3>3
  <2>4. ShowLast(m)
    BY <1>1, <1>6 DEF m
  <2> QED BY <1>1, <1>2, <2>2, <2>3, <2>4, ClosesLast
<1>7. CASE ~(last.role = "assistant" /\ last.streaming)
  <2>1. Show(Append(Messages, Marked(s, "cancelled")))
    BY <1>1, <1>7
  <2>2. Fit(Marked(s, "cancelled"), stream')
    BY <1>3, MarkedFits
  <2>3. Core /\ stream[s].bubble => Fit(Last(Messages), stream')
    <3> HAVE Core /\ stream[s].bubble
    <3>1. Fit(last, stream) /\ Shows(last, s, stream[s])
      BY <1>4, <1>5
    <3>2. ~last.streaming
      BY <1>7, <3>1 DEF Shows
    <3> QED BY <1>3, <1>4, <3>1, <3>2, StaysFit DEF last
  <2> QED BY <1>1, <1>2, <2>1, <2>2, <2>3, ClosesBeyond
<1> QED BY <1>6, <1>7

\* A step that leaves the reader s reading.
LEMMA ReadsOn ==
  ASSUME ChatInv, NEW s \in Sends, Runs(stream[s]), NEW r \in ReaderType,
         stream' = [stream EXCEPT ![s] = r], r.pc = "reading",
         NEW ms \in Seq(MessageType), ms # <<>>, Show(ms),
         UNCHANGED <<current, controller, moves, pending, crossed>>,
         loading' \in {loading, FALSE},
         Core =>
           /\ ReaderOK(r) /\ (r.bubble => Shows(ms[Len(ms)], s, r))
           /\ \A j \in 1..Len(ms) :
                \/ j \in 1..Len(Messages) /\ ms[j] = Messages[j]
                   /\ (j # Len(Messages) \/ ~stream[s].bubble)
                \/ j = Len(ms) /\ Fit(ms[j], stream')
  PROVE  ChatInv'
<1>1. ChatsTyped /\ StateTyped
  BY TypedAre DEF ChatInv
<1>2. /\ stream' \in [Sends -> ReaderType] /\ stream'[s] = r
      /\ \A t \in Sends \ {s} : stream'[t] = stream[t]
  BY <1>1 DEF StateTyped
<1>3. StateTyped'
  BY <1>1, <1>2 DEF StateTyped
<1>4. ChatsTyped'
  BY <1>1, Shown
<1>5. ChatTypeOK'
  BY <1>3, <1>4, TypedNext
<1>6. Core => Core'
  <2> HAVE Core
  <2>1. \A j \in 1..Len(ms) :
          \/ j \in 1..Len(Messages) /\ ms[j] = Messages[j]
             /\ (j # Len(Messages) \/ ~stream[s].bubble)
          \/ Fit(ms[j], stream') /\ (j = Len(ms) \/ stream'[s].pc = "over")
    OBVIOUS
  <2>2. /\ stream'[s].pc = "reading" /\ ReaderOK(stream'[s])
        /\ (stream'[s].bubble => Shows(ms[Len(ms)], s, stream'[s]))
    BY <1>2
  <2> QED BY <1>1, <1>2, <2>1, <2>2, Written
<1> QED BY <1>5, <1>6 DEF ChatInv

LEMMA AcceptedKeeps ==
  ASSUME ChatInv, NEW s \in Sends, Accepted(s)
  PROVE  ChatInv'
<1> DEFINE r == [stream[s] EXCEPT !.pc = "reading"]
<1>1. /\ ChatsTyped /\ StateTyped /\ stream[s].pc = "fetch" /\ chats' = chats
      /\ UNCHANGED <<current, loading, controller, moves, pending, crossed>>
  BY TypedAre DEF ChatInv, Accepted
<1>2. stream[s] \in ReaderType /\ stream \in [Sends -> ReaderType]
  BY <1>1 DEF StateTyped
<1>3. stream' = [stream EXCEPT ![s] = r]
  BY <1>2 DEF Accepted
<1>4. /\ r \in ReaderType /\ r.pc = "reading" /\ r.bubble = stream[s].bubble
      /\ r.got = stream[s].got /\ r.end = stream[s].end
  BY <1>2 DEF ReaderType
<1> HIDE DEF r
<1>5. Runs(stream[s])
  BY <1>1 DEF Runs
<1>6. Messages \in Seq(MessageType) /\ Messages # <<>> /\ Show(Messages)
  BY <1>1, HereIs, SameShown
<1>7. Core => ~stream[s].bubble /\ stream[s].got = 0 /\ stream[s].end = "no"
  BY <1>1 DEF Core, ReaderOK
<1>8. Core => ~r.bubble /\ ReaderOK(r)
  BY <1>4, <1>7 DEF ReaderOK
<1> QED BY <1>1, <1>3, <1>4, <1>5, <1>6, <1>7, <1>8, ReadsOn

LEMMA ThinkingKeeps ==
  ASSUME ChatInv, NEW s \in Sends, Thinking(s)
  PROVE  ChatInv'
<1> DEFINE r == [stream[s] EXCEPT !.bubble = TRUE]
           m == Bubble(s)
           ms == Append(Messages, m)
<1>1. /\ ChatsTyped /\ StateTyped /\ stream[s].pc = "reading" /\ ~stream[s].bubble
      /\ Show(ms) /\ loading' = FALSE
      /\ UNCHANGED <<current, controller, moves, pending, crossed>>
  BY TypedAre DEF ChatInv, Thinking
<1>2. stream[s] \in ReaderType /\ stream \in [Sends -> ReaderType]
  BY <1>1 DEF StateTyped
<1>3. stream' = [stream EXCEPT ![s] = r] /\ stream'[s] = r
  BY <1>2 DEF Thinking
<1>4. /\ r \in ReaderType /\ r.pc = "reading" /\ r.bubble
      /\ r.got = stream[s].got /\ r.end = stream[s].end
  BY <1>1, <1>2 DEF ReaderType
<1> HIDE DEF r
<1>5. Runs(stream[s]) /\ Runs(r)
  BY <1>1, <1>4 DEF Runs
<1>6. /\ m \in MessageType /\ m.role = "assistant" /\ m.of = s /\ m.text = <<>>
      /\ m.streaming = TRUE
  BY MessagesAre DEF Bubble, Said
<1> HIDE DEF m
<1>7. /\ Messages \in Seq(MessageType) /\ Len(Messages) \in Nat
      /\ ms \in Seq(MessageType) /\ ms # <<>> /\ Len(ms) = Len(Messages) + 1
      /\ ms[Len(Messages) + 1] = m /\ \A j \in 1..Len(Messages) : ms[j] = Messages[j]
  BY <1>1, <1>6, HereIs, Appended
<1> HIDE DEF ms
<1>8. Core => r.got = 0 /\ r.end = "no"
  BY <1>1, <1>4 DEF Core, ReaderOK
<1>9. Core => ReaderOK(r) /\ Shows(ms[Len(ms)], s, r)
  <2>1. [i \in 1..0 |-> s] = <<>>
    OBVIOUS
  <2> QED BY <1>4, <1>6, <1>7, <1>8, <2>1 DEF ReaderOK, Shows
<1>10. Fit(m, stream')
  BY <1>3, <1>4, <1>5, <1>6 DEF Fit, Runs
<1>11. \A j \in 1..Len(ms) :
         \/ j \in 1..Len(Messages) /\ ms[j] = Messages[j]
            /\ (j # Len(Messages) \/ ~stream[s].bubble)
         \/ j = Len(ms) /\ Fit(ms[j], stream')
  BY <1>1, <1>7, <1>10
<1>12. loading' \in {loading, FALSE}
  BY <1>1
<1> QED BY <1>1, <1>3, <1>4, <1>5, <1>7, <1>9, <1>11, <1>12, ReadsOn

\* A step that goes on reading and replaces the last message by m.
LEMMA ReadsLast ==
  ASSUME ChatInv, NEW s \in Sends, Runs(stream[s]), NEW r \in ReaderType,
         stream' = [stream EXCEPT ![s] = r], r.pc = "reading",
         NEW m \in MessageType, ShowLast(m),
         UNCHANGED <<current, loading, controller, moves, pending, crossed>>,
         Core => ReaderOK(r) /\ Shows(m, s, r) /\ Fit(m, stream')
  PROVE  ChatInv'
<1> DEFINE ms == Append(Front(Messages), m)
<1>1. Messages \in Seq(MessageType) /\ Messages # <<>>
  BY TypedAre, HereIs DEF ChatInv
<1>2. /\ ms \in Seq(MessageType) /\ ms # <<>> /\ Len(ms) = Len(Messages) /\ ms[Len(ms)] = m
      /\ \A j \in 1..Len(Messages) - 1 : ms[j] = Messages[j]
  BY <1>1, LastReplaced
<1>3. Show(ms) /\ Len(Messages) \in Nat
  BY <1>1 DEF ShowLast
<1> HIDE DEF ms
<1>4. Core => \A j \in 1..Len(ms) :
         \/ j \in 1..Len(Messages) /\ ms[j] = Messages[j] /\ j # Len(Messages)
         \/ j = Len(ms) /\ Fit(ms[j], stream')
  BY <1>2, <1>3
<1>5. loading' \in {loading, FALSE}
  OBVIOUS
<1> QED BY <1>2, <1>3, <1>4, <1>5, ReadsOn

LEMMA PieceKeeps ==
  ASSUME ChatInv, NEW s \in Sends, Piece(s)
  PROVE  ChatInv'
<1> DEFINE last == Last(Messages)
           m == [last EXCEPT !.text = Append(last.text, s)]
           r == [stream[s] EXCEPT !.got = stream[s].got + 1]
<1>1. /\ ChatsTyped /\ StateTyped /\ stream[s].pc = "reading" /\ stream[s].bubble
      /\ stream[s].end = "no" /\ stream[s].got < MaxPieces /\ ShowLast(m)
      /\ UNCHANGED <<current, loading, controller, moves, pending, crossed>>
  BY TypedAre DEF ChatInv, Piece
<1>2. /\ stream[s] \in ReaderType /\ stream \in [Sends -> ReaderType]
      /\ stream[s].got \in 0..MaxPieces
  BY <1>1 DEF StateTyped, ReaderType
<1>3. stream' = [stream EXCEPT ![s] = r] /\ stream'[s] = r
  BY <1>2 DEF Piece
<1>4. /\ r \in ReaderType /\ r.pc = "reading" /\ r.bubble
      /\ r.got = stream[s].got + 1 /\ r.end = "no"
  <2>1. stream[s].got + 1 \in 0..MaxPieces
    BY <1>1, <1>2, ChatAssumption
  <2> QED BY <1>1, <1>2, <2>1 DEF ReaderType
<1> HIDE DEF r
<1>5. Runs(stream[s]) /\ Runs(r)
  BY <1>1, <1>4 DEF Runs
<1>6. last \in MessageType /\ (Core => Shows(last, s, stream[s]) /\ Fit(last, stream))
  BY <1>1, <1>5, LastIs DEF Core
<1> HIDE DEF last
<1>7. /\ m \in MessageType /\ m.role = last.role /\ m.of = last.of
      /\ m.streaming = last.streaming /\ m.text = Append(last.text, s)
  <2>1. Append(last.text, s) \in Seq(Sends)
    BY <1>6 DEF MessageType
  <2> QED BY <1>6, <2>1 DEF MessageType
<1> HIDE DEF m
<1>8. \A n \in Nat : /\ Append([i \in 1..n |-> s], s) = [i \in 1..n + 1 |-> s]
                     /\ Len([i \in 1..n + 1 |-> s]) = n + 1
  OBVIOUS
<1>9. stream[s].got \in Nat
  BY <1>2
<1>10. Core => Shows(m, s, r)
  BY <1>1, <1>4, <1>6, <1>7, <1>8, <1>9 DEF Shows
<1>11. Core => Fit(m, stream')
  <2> HAVE Core
  <2>1. \A k \in 1..Len(m.text) : m.text[k] = s
    BY <1>4, <1>8, <1>9, <1>10 DEF Shows
  <2> QED BY <1>3, <1>4, <1>5, <1>10, <2>1 DEF Fit, Shows, Runs
<1>12. ReaderOK(r)
  BY <1>4 DEF ReaderOK
<1> QED BY <1>1, <1>3, <1>4, <1>5, <1>7, <1>10, <1>11, <1>12, ReadsLast

LEMMA DoneKeeps ==
  ASSUME ChatInv, NEW s \in Sends, Done(s)
  PROVE  ChatInv'
<1> DEFINE last == Last(Messages)
           m == Sealed(last)
           r == [stream[s] EXCEPT !.end = "done"]
<1>1. /\ ChatsTyped /\ StateTyped /\ stream[s].pc = "reading" /\ stream[s].bubble
      /\ ShowLast(m)
      /\ UNCHANGED <<current, loading, controller, moves, pending, crossed>>
  BY TypedAre DEF ChatInv, Done
<1>2. stream[s] \in ReaderType /\ stream \in [Sends -> ReaderType]
  BY <1>1 DEF StateTyped
<1>3. stream' = [stream EXCEPT ![s] = r] /\ stream'[s] = r
  BY <1>2 DEF Done
<1>4. /\ r \in ReaderType /\ r.pc = "reading" /\ r.bubble
      /\ r.got = stream[s].got /\ r.end = "done"
  BY <1>1, <1>2 DEF ReaderType
<1> HIDE DEF r
<1>5. Runs(stream[s]) /\ Runs(r)
  BY <1>1, <1>4 DEF Runs
<1>6. last \in MessageType /\ (Core => Shows(last, s, stream[s]) /\ Fit(last, stream))
  BY <1>1, <1>5, LastIs DEF Core
<1> HIDE DEF last
<1>7. /\ m \in MessageType /\ m.role = last.role /\ m.of = last.of /\ m.text = last.text
      /\ m.streaming = FALSE
  BY <1>6, SealedIs
<1> HIDE DEF m
<1>8. Core => Shows(m, s, r)
  BY <1>4, <1>6, <1>7 DEF Shows
<1>9. Core => Fit(m, stream')
  BY <1>3, <1>4, <1>5, <1>6, <1>7, <1>8 DEF Fit, Shows, Runs
<1>10. ReaderOK(r)
  BY <1>4 DEF ReaderOK
<1> QED BY <1>1, <1>3, <1>4, <1>5, <1>7, <1>8, <1>9, <1>10, ReadsLast

-----------------------------------------------------------------------------
(* The steps of the user *)

\* A message that is sent while no stream is open.
LEMMA SendKeeps ==
  ASSUME ChatInv, NEW s \in Sends, StartSend(s), UNCHANGED <<current, moves>>,
         pending' \in BOOLEAN
  PROVE  ChatInv'
<1> DEFINE m == Said("user", s)
           ms == Append(Messages, m)
<1>1. ChatsTyped /\ StateTyped
  BY TypedAre DEF ChatInv
<1>2. ChatTypeOK'
  BY <1>1, SentTyped, TypedNext
<1>3. /\ Messages \in Seq(MessageType) /\ Len(Messages) \in Nat
      /\ ms \in Seq(MessageType) /\ ms # <<>> /\ Len(ms) = Len(Messages) + 1
      /\ ms[Len(Messages) + 1] = m /\ \A j \in 1..Len(Messages) : ms[j] = Messages[j]
  BY <1>1, HereIs, MessagesAre, Appended
<1>4. Show(ms)
  BY DEF StartSend
<1>5. m.role = "user" /\ m.of = s /\ m.text = <<>> /\ m.streaming = FALSE
  BY DEF Said
<1> HIDE DEF ms, m
<1>6. ASSUME ~crossed' PROVE Core'
  <2>1. Core /\ \A t \in Sends : ~Runs(stream[t])
    BY <1>6 DEF StartSend, Beside, Alive, Runs, ChatInv
  <2>2. /\ stream'[s].pc = "fetch" /\ stream'[s].bubble = stream[s].bubble
        /\ stream'[s].got = stream[s].got /\ stream'[s].end = stream[s].end
        /\ \A t \in Sends \ {s} : stream'[t] = stream[t]
        /\ stream[s].pc = "idle" /\ loading' /\ controller' = s
    BY <1>1 DEF StartSend, StateTyped, ReaderType
  <2>3. ~stream[s].bubble /\ stream[s].got = 0 /\ stream[s].end = "no"
    BY <2>1, <2>2 DEF Core, ReaderOK
  <2>4. \A t \in Sends : Runs(stream'[t]) <=> t = s
    BY <2>1, <2>2 DEF Runs
  <2>5. \A t \in Sends : ReaderOK(stream'[t])
    BY <2>1, <2>2, <2>3 DEF Core, ReaderOK
  <2>6. ASSUME NEW i \in DOMAIN chats, NEW j \in 1..Len(chats[i].messages)
        PROVE  Fit(chats[i].messages[j], stream') /\ ~Live(chats[i].messages[j], stream')
    <3> DEFINE n == chats[i].messages[j]
    <3>1. n \in MessageType
      BY <1>1, HereIs
    <3>2. Fit(n, stream) /\ ~Live(n, stream)
      BY <2>1 DEF Core, Live
    <3> HIDE DEF n
    <3>3. n.of # s
      BY <2>2, <3>2 DEF Fit
    <3>4. ~(n.role = "assistant" /\ n.of = s) /\ stream'[s].pc # "idle"
      BY <2>2, <3>3
    <3> QED BY <2>2, <3>1, <3>2, <3>4, StillFits DEF n
  <2>7. Fit(m, stream') /\ ~Live(m, stream')
    BY <1>5, <2>2 DEF Fit, Live
  <2>8. /\ DOMAIN chats' = DOMAIN chats
        /\ \A i \in DOMAIN chats :
             chats'[i].messages = IF i = CurrentAt THEN ms ELSE chats[i].messages
    BY <1>1, <1>3, <1>4, Shown
  <2>9. ASSUME NEW i \in DOMAIN chats', NEW j \in 1..Len(chats'[i].messages)
        PROVE  Fit(chats'[i].messages[j], stream') /\ ~Live(chats'[i].messages[j], stream')
    <3>1. CASE i # CurrentAt
      BY <2>6, <2>8, <3>1
    <3>2. CASE i = CurrentAt
      <4>1. chats'[i].messages = ms /\ Messages = chats[i].messages /\ i \in DOMAIN chats
        BY <2>8, <3>2 DEF Messages
      <4>2. CASE j \in 1..Len(Messages)
        BY <1>3, <2>6, <4>1, <4>2
      <4>3. CASE j = Len(Messages) + 1
        BY <1>3, <2>7, <4>1, <4>3
      <4> QED BY <1>3, <4>1, <4>2, <4>3
    <3> QED BY <3>1, <3>2
  <2>10. \A t \in Sends : Runs(stream'[t]) => ~stream'[t].bubble
    BY <2>2, <2>3, <2>4
  <2> QED BY <2>2, <2>4, <2>5, <2>9, <2>10 DEF Core
<1> QED BY <1>2, <1>6 DEF ChatInv

\* Between streams the user may go to any conversation.
LEMMA MoveKeeps ==
  ASSUME ChatInv, CreateNewChat \/ SelectChat \/ DeleteChat
  PROVE  ChatInv'
<1>1. ChatsTyped /\ StateTyped
  BY TypedAre DEF ChatInv
<1>2. /\ ChatsTyped' /\ StateTyped' /\ Kept /\ UNCHANGED <<loading, stream>> /\ Beside
  BY <1>1, MovesTyped
<1>3. ChatTypeOK'
  BY <1>2, TypedNext
<1>4. ASSUME ~crossed' PROVE Core'
  <2>1. Core /\ \A t \in Sends : ~Runs(stream[t])
    BY <1>2, <1>4 DEF Beside, Alive, Runs, ChatInv
  <2>2. Fit(Greeting, stream)
    BY DEF Fit, Greeting, Said, NoStream, Sends
  <2>3. ASSUME NEW i \in DOMAIN chats', NEW j \in 1..Len(chats'[i].messages)
        PROVE  Fit(chats'[i].messages[j], stream)
    <3>1. CASE chats'[i].messages = <<Greeting>>
      <4>1. Len(<<Greeting>>) = 1 /\ <<Greeting>>[1] = Greeting
        OBVIOUS
      <4>2. j = 1
        BY <3>1, <4>1
      <4> QED BY <2>2, <3>1, <4>1, <4>2
    <3>2. CASE \E k \in DOMAIN chats : chats'[i].messages = chats[k].messages
      BY <2>1, <3>2 DEF Core
    <3> QED BY <1>2, <3>1, <3>2 DEF Kept
  <2>4. \A i \in DOMAIN chats' : \A j \in 1..Len(chats'[i].messages) :
          Fit(chats'[i].messages[j], stream') /\ ~Live(chats'[i].messages[j], stream')
    BY <1>2, <2>1, <2>3 DEF Live
  <2> QED BY <1>2, <2>1, <2>4 DEF Core
<1> QED BY <1>3, <1>4 DEF ChatInv

\* Steps that change no message and, of a reader, no more than whether it was
\* stopped.
LEMMA RestKeeps ==
  ASSUME ChatInv, StateTyped', UNCHANGED <<chats, current, loading, controller, crossed>>,
         \A t \in Sends : /\ stream'[t].pc = stream[t].pc /\ stream'[t].bubble = stream[t].bubble
                          /\ stream'[t].got = stream[t].got /\ stream'[t].end = stream[t].end
  PROVE  ChatInv'
<1>1. ChatsTyped
  BY TypedAre DEF ChatInv
<1>2. ChatsTyped' /\ Messages' = Messages /\ CurrentAt' = CurrentAt
  BY <1>1 DEF ChatsTyped, Messages, CurrentAt
<1>3. \A t \in Sends : Runs(stream'[t]) <=> Runs(stream[t])
  BY DEF Runs
<1>4. ASSUME NEW m PROVE (Fit(m, stream) => Fit(m, stream')) /\ (Live(m, stream') => Live(m, stream))
  BY <1>3 DEF Fit, Live, Shows
<1>5. Core => Core'
  <2> HAVE Core
  <2>1. /\ \A t \in Sends : Runs(stream'[t]) => controller' = t
        /\ loading' => \E t \in Sends : Runs(stream'[t])
    BY <1>3 DEF Core
  <2>2. \A t \in Sends : ReaderOK(stream'[t])
    BY <1>3 DEF Core, ReaderOK
  <2>3. \A i \in DOMAIN chats' : \A j \in 1..Len(chats'[i].messages) :
          /\ Fit(chats'[i].messages[j], stream')
          /\ Live(chats'[i].messages[j], stream') => i = CurrentAt' /\ j = Len(Messages')
    BY <1>2, <1>4 DEF Core
  <2>4. \A t \in Sends : Runs(stream'[t]) /\ stream'[t].bubble =>
          Shows(Last(Messages'), t, stream'[t])
    <3> TAKE t \in Sends
    <3> HAVE Runs(stream'[t]) /\ stream'[t].bubble
    <3>1. Shows(Last(Messages), t, stream[t])
      BY <1>3 DEF Core
    <3> QED BY <1>2, <3>1 DEF Shows
  <2> QED BY <2>1, <2>2, <2>3, <2>4 DEF Core
<1> QED BY <1>2, <1>5, TypedNext DEF ChatInv

LEMMA ChatSteps == ChatInv /\ [ChatNext]_chatVars => ChatInv'
<1> SUFFICES ASSUME ChatInv, [ChatNext]_chatVars PROVE ChatInv'
  OBVIOUS
<1>0. ChatsTyped /\ StateTyped
  BY TypedAre DEF ChatInv
<1>1. ASSUME NEW s \in Sends, Send(s) PROVE ChatInv'
  <2>1. CASE StartSend(s) /\ UNCHANGED pending
    BY <1>0, <1>1, <2>1, SendKeeps DEF Send, StateTyped
  <2>2. CASE pending' = TRUE /\ UNCHANGED <<chats, stream, loading, controller, crossed>>
    <3>1. StateTyped' /\ UNCHANGED <<chats, current, loading, controller, crossed>>
          /\ stream' = stream
      BY <1>0, <1>1, <2>2 DEF Send, StateTyped
    <3> QED BY <3>1, RestKeeps
  <2> QED BY <1>1, <2>1, <2>2 DEF Send
<1>2. ASSUME NEW s \in Sends, Confirm(s) PROVE ChatInv'
  BY <1>2, SendKeeps DEF Confirm
<1>3. ASSUME Dismiss \/ UNCHANGED chatVars PROVE ChatInv'
  <2>1. StateTyped' /\ UNCHANGED <<chats, current, loading, controller, crossed>>
        /\ stream' = stream
    BY <1>0, <1>3 DEF Dismiss, StateTyped, chatVars
  <2> QED BY <2>1, RestKeeps
<1>4. ASSUME StopAnswer PROVE ChatInv'
  <2>1. controller \in Sends /\ stream[controller] \in ReaderType
        /\ stream \in [Sends -> ReaderType]
    BY <1>0, <1>4 DEF StopAnswer, StateTyped
  <2> DEFINE r == [stream[controller] EXCEPT !.aborted = TRUE]
  <2>2. stream' = [stream EXCEPT ![controller] = r]
        /\ UNCHANGED <<chats, current, loading, controller, moves, pending, crossed>>
    BY <1>4, <2>1 DEF StopAnswer
  <2>3. /\ r \in ReaderType /\ r.pc = stream[controller].pc
        /\ r.bubble = stream[controller].bubble /\ r.got = stream[controller].got
        /\ r.end = stream[controller].end
    BY <2>1 DEF ReaderType
  <2> HIDE DEF r
  <2>4. StateTyped'
    BY <1>0, <2>1, <2>2, <2>3 DEF StateTyped
  <2>5. \A t \in Sends : /\ stream'[t].pc = stream[t].pc /\ stream'[t].bubble = stream[t].bubble
                         /\ stream'[t].got = stream[t].got /\ stream'[t].end = stream[t].end
    BY <2>1, <2>2, <2>3
  <2> QED BY <2>2, <2>4, <2>5, RestKeeps
<1> QED BY <1>1, <1>2, <1>3, <1>4, RefusedKeeps, AcceptedKeeps, ThinkingKeeps, PieceKeeps,
           DoneKeeps, ErrorFrameKeeps, EndKeeps, BreakKeeps, CancelledKeeps, MoveKeeps
        DEF ChatNext

LEMMA ChatInvariant == ChatSpec => []ChatInv
<1>1. ChatInit => ChatInv
  BY ChatStarts
<1>2. ChatInv /\ [ChatNext]_chatVars => ChatInv'
  BY ChatSteps
<1> QED BY <1>1, <1>2, PTL DEF ChatSpec

-----------------------------------------------------------------------------
\* Every variable of the chat keeps its type, also while answers are crossed: no
\* conversation is without a message, and the one shown is there.
THEOREM ChatTypeCorrect == ChatSpec => []ChatTypeOK
<1>1. ChatInv => ChatTypeOK
  BY DEF ChatInv
<1> QED BY <1>1, ChatInvariant, PTL

\* As long as the user neither leaves the conversation nor sends beside a stream, an
\* answer grows in the last bubble and in no other, an answer that was finished
\* stays whole, the stop button belongs to the one stream there is, and once that
\* has ended in a way it was told of the composer is free.
THEOREM AnswersStayInPlace == ChatSpec => []AnswerInPlace
<1>1. ASSUME ChatInv PROVE AnswerInPlace
  <2> SUFFICES ASSUME ~crossed PROVE AnswerInPlace
    BY DEF AnswerInPlace
  <2>1. Core /\ ChatsTyped /\ StateTyped
    BY <1>1, TypedAre DEF ChatInv
  <2>2. ASSUME NEW s \in Sends, Alive(s)
        PROVE  controller = s /\ \A t \in Sends : Alive(t) => t = s
    BY <2>1, <2>2 DEF Core, Alive, Runs
  <2>3. ASSUME NEW s \in Sends, stream[s].pc = "reading", stream[s].bubble
        PROVE  Looks(Last(Messages), s)
    BY <2>1, <2>3 DEF Core, Runs, Shows, Looks, Whole
  <2>4. ASSUME NEW s \in Sends, stream[s].pc = "over", stream[s].end = "done",
               NEW i \in DOMAIN chats, NEW j \in DOMAIN chats[i].messages,
               LET m == chats[i].messages[j] IN
                 s \in ToSet(m.text) \/ (m.of = s /\ m.role = "assistant")
        PROVE  Looks(chats[i].messages[j], s)
    <3> DEFINE m == chats[i].messages[j]
    <3>1. chats[i].messages \in Seq(MessageType)
      BY <2>1, HereIs
    <3>2. j \in 1..Len(chats[i].messages) /\ m \in MessageType
      BY <3>1
    <3>3. Fit(m, stream)
      BY <2>1, <3>2 DEF Core
    <3>4. s \in ToSet(m.text) \/ (m.of = s /\ m.role = "assistant")
      BY <2>4
    <3> HIDE DEF m
    <3>5. m.of = s /\ m.role = "assistant"
      <4>1. m.text \in Seq(Sends)
        BY <3>2 DEF MessageType
      <4>2. s \in ToSet(m.text) => \E k \in 1..Len(m.text) : m.text[k] = s
        BY <4>1 DEF ToSet
      <4> QED BY <3>3, <3>4, <4>2 DEF Fit
    <3>6. Shows(m, s, stream[s])
      BY <2>4, <3>3, <3>5 DEF Fit
    <3> QED BY <3>6 DEF Shows, Looks, Whole, m
  <2>5. ASSUME \A s \in Sends : ~Alive(s) /\ stream[s].end \notin {"broken", "silent"}
        PROVE  ~Active
    <3>1. \A s \in Sends : ~Runs(stream[s])
      BY <2>5 DEF Alive, Runs
    <3>2. ~loading
      BY <2>1, <3>1 DEF Core
    <3>3. ASSUME NEW j \in DOMAIN Messages PROVE ~Messages[j].streaming
      <4>1. CurrentAt \in DOMAIN chats /\ Messages = chats[CurrentAt].messages
            /\ Messages \in Seq(MessageType)
        BY <2>1, HereIs DEF Messages
      <4>2. j \in 1..Len(Messages)
        BY <3>3, <4>1
      <4>3. Fit(Messages[j], stream)
        BY <2>1, <4>1, <4>2 DEF Core
      <4> QED BY <2>5, <3>1, <4>3 DEF Fit
    <3> QED BY <3>2, <3>3 DEF Active
  <2> QED BY <2>2, <2>3, <2>4, <2>5 DEF AnswerInPlace
<1> QED BY <1>1, ChatInvariant, PTL

=============================================================================
