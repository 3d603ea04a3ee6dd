---------------------------- MODULE Computations ----------------------------
(***************************************************************************)
(* The computations without state that the other components rely on: check *)
(* digits of cards (three copies) and IBANs, the sensitivity the content   *)
(* inspector resolves, the verdict of the browser's message guard, the     *)
(* decision on policies, which OPA and the worker's fallback both compute, *)
(* the flat form the edge administration shows a configuration in, the     *)
(* text of an uploaded file, and the status a failure is reported with.    *)
(* Each is written as the code computes it and compared with what it is    *)
(* meant to compute, over the samples Pick draws.                          *)
(*                                                                         *)
(* Which patterns match a text is a choice.  Characters of an IBAN are     *)
(* 0..35 (A is 10); its lengths and the chunk of its remainder are scaled. *)
(***************************************************************************)
EXTENDS Integers, Sequences, SequencesExt, FiniteSetsExt, Folds, TLC

CONSTANTS
  CardDigits, CardLength,  \* bounds: digits and length of a card number
  IbanChars, IbanLength,   \* bounds: characters and length of an IBAN
  ChunkLength,             \* digits the remainder takes in at once, 9 in the code
  MaxFound,                \* bound: types of personal data found in a text
  RateMax, RateWindow,     \* RATE_MAX_SENDS, RATE_WINDOW_MS
  LastTime,                \* bound on the browser's clock
  MaxChars,                \* MAX_EXTRACTED_CHARS
  FileLength               \* bound: characters of an uploaded file

VARIABLE sample
vars == <<sample>>

-----------------------------------------------------------------------------
\* Check digits.

\* Every second digit, from the right.
Doubled(s, i) == (Len(s) - i) % 2 = 1

\* _luhn_check.
Luhn(s) ==
  FoldLeftDomain(
    LAMBDA sum, i :
      sum + (IF ~Doubled(s, i) THEN s[i]
             ELSE IF 2 * s[i] > 9 THEN 2 * s[i] - 9 ELSE 2 * s[i]),
    0, s) % 10 = 0

\* What a check digit is for: a wrong digit is noticed.
CatchesSlip(s) ==
  Luhn(s) => \A i \in 1..Len(s), d \in 0..9 : d # s[i] => ~Luhn([s EXCEPT ![i] = d])

Number(digits, from) == FoldLeft(LAMBDA n, d : 10 * n + d, from, digits)
Converted(s) ==
  FlattenSeq([i \in 1..Len(s) |->
    IF s[i] < 10 THEN <<s[i]>> ELSE <<s[i] \div 10, s[i] % 10>>])

\* The remainder of what is read so far is written before the next chunk.
Remainder(digits) ==
  LET chunks == (Len(digits) + ChunkLength - 1) \div ChunkLength
      chunk(k) == SubSeq(digits, (k - 1) * ChunkLength + 1,
                         IF k = chunks THEN Len(digits) ELSE k * ChunkLength)
  IN FoldLeft(LAMBDA r, k : Number(chunk(k), r) % 97, 0, [k \in 1..chunks |-> k])

\* _iban_mod97_check; the code's lengths are 15 and 34.
Iban(s) ==
  LET rearranged == SubSeq(s, 5, Len(s)) \o SubSeq(s, 1, 4)
  IN Len(s) > 4 /\ Remainder(Converted(rearranged)) = 1

\* ISO 13616: the number itself modulo 97, by Horner's rule on its characters.
IbanReference(s) ==
  LET rearranged == SubSeq(s, 5, Len(s)) \o SubSeq(s, 1, 4)
  IN Len(s) > 4 /\ FoldLeft(LAMBDA n, c : ((IF c < 10 THEN 10 ELSE 100) * n + c) % 97,
                            0, rearranged) = 1

-----------------------------------------------------------------------------
\* The sensitivity of a request.

Levels == <<"low", "medium", "high">>
Rank(level) == CHOOSE i \in 1..3 : Levels[i] = level
Types == {"SSN", "EMAIL", "LOCATION", "EMAIL_ADDRESS"}

\* PII_SENSITIVITY_TIERS, one type per tier; LOCATION is tolerated, and what
\* Presidio calls EMAIL_ADDRESS is not in the table.
Tier(type) == IF type = "SSN" THEN "high" ELSE IF type = "EMAIL" THEN "medium" ELSE "none"

\* Mutant: a later type of a lower tier replaces the tier so far.
FoldTiersLast(declared, found) ==
  FoldLeft(LAMBDA l, t : IF Tier(t) = "none" THEN l ELSE Tier(t), declared, found)

\* The loop over the detected types in the order they were found; nothing
\* follows a high one.
FoldTiers(declared, found) ==
  FoldLeft(LAMBDA l, t : IF Tier(t) = "high" THEN "high"
                         ELSE IF Tier(t) = "medium" /\ l # "high" THEN "medium" ELSE l,
           declared, found)

\* inspect_content: a request declared high, and one without text, is not
\* inspected; Presidio's failure leaves what the expressions found.
Inspect(declared, text, found) ==
  IF declared = "high" \/ ~text THEN [level |-> declared, types |-> {}]
  ELSE [level |-> FoldTiers(declared, found), types |-> ToSet(found)]

\* The highest of what was declared and what was found.
InspectReference(declared, text, found) ==
  LET ranks == {Rank(declared)} \union
        (IF text THEN {Rank(Tier(t)) : t \in {u \in ToSet(found) : Tier(u) # "none"}} ELSE {})
  IN Levels[CHOOSE r \in ranks : \A q \in ranks : q <= r]

-----------------------------------------------------------------------------
\* useMessageGuard.

HardChecks == {"empty", "length", "injection"}
SoftChecks == {"credential", "pii"}

\* The sends of the last window; both ends are times of Date.now().
Recent(sends, now) == SelectSeq(sends, LAMBDA ts : now - ts < RateWindow)

\* guardCheck: the first check that fails decides, the hard ones before the
\* rate, the rate before the warnings.
Verdict(failing, sends, now) ==
  LET recent == Recent(sends, now)
  IN IF failing \intersect HardChecks # {} THEN [blocked |-> TRUE, warn |-> FALSE, wait |-> 0]
     ELSE IF Len(recent) >= RateMax
       THEN [blocked |-> TRUE, warn |-> FALSE, wait |-> RateWindow - (now - recent[1])]
     ELSE [blocked |-> FALSE, warn |-> failing \intersect SoftChecks # {}, wait |-> 0]

\* A message that passes has nothing hard against it and warns of the rest; one
\* blocked for its rate alone passes once the time it was told is over.
VerdictRight(failing, sends, now) ==
  LET v == Verdict(failing, sends, now) IN
  /\ ~v.blocked => /\ failing \intersect HardChecks = {}
                   /\ v.warn <=> failing # {}
                   /\ Len(Recent(sends, now)) < RateMax
  /\ v.blocked /\ failing \intersect HardChecks = {} =>
       v.wait > 0 /\ ~Verdict(failing, sends, now + v.wait).blocked

-----------------------------------------------------------------------------
\* Policies.

Effects == {"deny_all", "deny_cloud", "allow_onprem_only", "allow_all"}
NullCondition == "null"

\* canonical_service_type: trimmed, lowered, spaces and underscores made dashes.
\* The aliases "on_prem" and "on premises" are spelt with what is replaced
\* before: of these "on premises" ends up as no alias at all.
Canonical(raw) ==
  IF raw \in {"null", "", "on-prem", "on_prem", "self-hosted"} THEN "on-prem"
  ELSE IF raw \in {"cloud", "saas", "managed", "hosted"} THEN "cloud"
  ELSE IF raw = "on premises" THEN "on-premises" ELSE raw

Policy ==
  [effect : Effects, sensitivity : {NullCondition, "low"}, tenant : {NullCondition, "t"}]

\* _matches, and policy_matches of orchestrator.rego: a context without a
\* sensitivity meets only a condition without one.
Matches(p, c) ==
  /\ p.sensitivity # NullCondition => c.sensitivity = p.sensitivity
  /\ p.tenant # NullCondition => c.tenant = p.tenant

\* _should_block.
ShouldBlock(p, c) ==
  \/ p.effect = "deny_all"
  \/ p.effect = "deny_cloud" /\ c.service = "cloud"
  \/ p.effect = "allow_onprem_only" /\ c.service # "on-prem"

\* block[id] of orchestrator.rego, a policy's place standing for its id.
OpaBlock(ps, c) == {i \in DOMAIN ps : Matches(ps[i], c) /\ ShouldBlock(ps[i], c)}

\* _evaluate_with_opa: a result for each policy OPA blocks or that matches, and
\* the denial names the first that is blocked.
WithOpa(ps, c) ==
  LET block == OpaBlock(ps, c)
      entry(i) == IF i \in block THEN <<<<i, "DENY">>>>
                  ELSE IF Matches(ps[i], c) THEN <<<<i, "ALLOW">>>> ELSE <<>>
  IN [results |-> FlattenSeq([i \in DOMAIN ps |-> entry(i)]),
      denied  |-> IF block = {} THEN 0 ELSE CHOOSE i \in block : \A j \in block : i <= j]

\* _evaluate_local: one policy after the other, up to the first that denies.
EvaluateLocal(ps, c) ==
  FoldLeftDomain(
    LAMBDA acc, i :
      IF acc.denied # 0 \/ ~Matches(ps[i], c) THEN acc
      ELSE IF ShouldBlock(ps[i], c)
        THEN [results |-> Append(acc.results, <<i, "DENY">>), denied |-> i]
      ELSE [acc EXCEPT !.results = Append(@, <<i, "ALLOW">>)],
    [results |-> <<>>, denied |-> 0], ps)

\* evaluate_async with OPA and without, on the context _canonicalize_context makes.
FallbackAgrees(ps, raw, sensitivity, tenant) ==
  LET c == [service |-> Canonical(raw), sensitivity |-> sensitivity, tenant |-> tenant]
      opa == WithOpa(ps, c)
      loc == EvaluateLocal(ps, c)
  IN /\ loc.denied = opa.denied
     /\ IsPrefix(loc.results, opa.results)
     /\ loc.denied = 0 => loc.results = opa.results

-----------------------------------------------------------------------------
\* A plugin's configuration: a tree is a leaf, "" for an empty value, or a
\* function from keys to trees.  Keys hold no dot.

Leaf(v)  == [leaf |-> v]
Node(f)  == [node |-> f]
IsLeaf(t) == "leaf" \in DOMAIN t

\* flatten_dict: the paths of the leaves, each with its value.
RECURSIVE Flatten(_, _)
Flatten(t, prefix) ==
  UNION {LET below == t.node[k] IN
         IF IsLeaf(below) THEN {<<Append(prefix, k), below.leaf>>}
         ELSE Flatten(below, Append(prefix, k)) : k \in DOMAIN t.node}

\* unflatten_dict: empty values are skipped, a part of a path is made a node.
RECURSIVE Unflatten(_)
Unflatten(flat) ==
  LET full == {e \in flat : e[2] # ""}
      under(k) == {<<Tail(e[1]), e[2]>> : e \in {d \in full : Head(d[1]) = k}}
  IN Node([k \in {Head(e[1]) : e \in full} |->
       IF \E e \in under(k) : e[1] = <<>>
         THEN Leaf((CHOOSE e \in under(k) : e[1] = <<>>)[2])
         ELSE Unflatten(under(k))])

\* What of a configuration has a value.
RECURSIVE Pruned(_)
Pruned(t) ==
  IF IsLeaf(t) THEN t
  ELSE LET keep == {k \in DOMAIN t.node : t.node[k] \notin {Leaf(""), Node(<<>>)}
                      /\ (IsLeaf(t.node[k]) \/ Pruned(t.node[k]) # Node(<<>>))}
       IN Node([k \in keep |-> Pruned(t.node[k])])

ConfigKeys == {"a", "b"}
Level1 == {Leaf("v"), Leaf("")}
NodesOver(trees) == {Node(f) : f \in UNION {[K -> trees] : K \in SUBSET ConfigKeys}}
Configs == NodesOver(Level1 \union NodesOver(Level1))

-----------------------------------------------------------------------------
\* An uploaded file: the kind its extension says, its size against the limit,
\* whether it starts as a PDF does and can be read as what it is, and the text
\* that its pages, its printed JSON or its decoded bytes are.

Chars == {"x", " ", "newline", "null"}
Blank == {" ", "newline"}
ImageNote == <<"x">>

\* validate_file.
Valid(f) ==
  /\ f.size = "some" /\ f.ext # "other"
  /\ f.ext = "pdf" => f.header

\* _extract_pdf, _extract_json, _extract_image, _extract_plaintext; a PDF without
\* any text is not readable, plain bytes always are.
Readable(f) == f.ext \in {"pdf", "json"} => f.readable
Content(f) == IF f.ext = "image" THEN ImageNote ELSE f.text

\* _sanitise: no null bytes, then no more than three newlines in a row, then no
\* blanks at either end.
Collapse(s) ==
  FoldLeft(LAMBDA t, c : IF c = "newline" /\ IsSuffix(<<c, c, c>>, t) THEN t ELSE Append(t, c),
           <<>>, s)
Strip(s) ==
  LET solid == {i \in DOMAIN s : s[i] \notin Blank}
  IN IF solid = {} THEN <<>> ELSE SubSeq(s, Min(solid), Max(solid))
Sanitise(s) == Strip(Collapse(SelectSeq(s, LAMBDA c : c # "null")))

\* extract_text.
Extract(f) ==
  LET t == Sanitise(Content(f))
  IN [text |-> SubSeq(t, 1, IF Len(t) < MaxChars THEN Len(t) ELSE MaxChars),
      truncated |-> Len(t) > MaxChars]

\* upload_file.
Upload(f) ==
  IF Valid(f) /\ Readable(f) THEN [status |-> 200] @@ Extract(f) ELSE [status |-> 422]

\* What is put before a prompt is clean and fits, holds what can be read of the
\* file, in its order, as far as it fits, says when it does not, and if it does,
\* is what it would be if uploaded once more.
UploadRight(f) ==
  LET u == Upload(f)
      Ink(s) == SelectSeq(s, LAMBDA c : c = "x")
  IN u.status = 200 =>
       /\ Len(u.text) <= MaxChars /\ "null" \notin ToSet(u.text)
       /\ \A i \in 1..Len(u.text) - 3 : \E j \in i..i + 3 : u.text[j] # "newline"
       /\ IsPrefix(Ink(u.text), Ink(Content(f)))
       /\ ~u.truncated => /\ Ink(u.text) = Ink(Content(f))
                          /\ Sanitise(u.text) = u.text
       /\ u.truncated => Len(u.text) = MaxChars

-----------------------------------------------------------------------------
\* The status of a failure.

\* _domain_error_to_sse_payload: the status inside an error frame.
SseStatus ==
  [policy |-> 403, security |-> 400, quota |-> 429, tenant |-> 403, identity |-> 401,
   service |-> 404, intent |-> 422, provider |-> 502, evaluation |-> 500]

\* submit_ai_request: what the route answers itself ...
RouteStatus ==
  [intent |-> 422, service |-> 404, identity |-> 401, tenant |-> 403, policy |-> 403,
   security |-> 403, quota |-> 429, provider |-> 502]

\* ... and what every other domain error becomes.
DomainStatus ==
  [identity |-> 401, tenant |-> 403, policy |-> 403, security |-> 400, quota |-> 429,
   intent |-> 404, service |-> 404, provider |-> 502, evaluation |-> 503]

JsonStatus(e) == IF e \in DOMAIN RouteStatus THEN RouteStatus[e] ELSE DomainStatus[e]

\* parseChatError: whether the browser takes the refused message out again.
StripUser(status) == status \in {400, 403}

\* The three tables differ in places, but neither in what the browser makes of a
\* failure nor in whose fault it is.
StatusesAgree(e) ==
  \A s, t \in {SseStatus[e], JsonStatus(e), DomainStatus[e]} :
    /\ StripUser(s) <=> StripUser(t)
    /\ s < 500 <=> t < 500

-----------------------------------------------------------------------------
None == [kind |-> "none"]

SeqsOf(S, lengths) == UNION {[1..n -> S] : n \in lengths}
Rising(s) == \A i \in 1..Len(s) - 1 : s[i] <= s[i + 1]

TypeOK == sample.kind \in {"none", "card", "iban", "request", "message", "policy", "config",
                          "file", "failure"}

Init == sample = None

\* One text, and what is found in it.
Pick ==
  /\ sample = None
  /\ \/ \E s \in SeqsOf(CardDigits, 1..CardLength) : sample' = [kind |-> "card", s |-> s]
     \/ \E s \in SeqsOf(IbanChars, 1..IbanLength) : sample' = [kind |-> "iban", s |-> s]
     \/ \E d \in {"low", "medium", "high"}, t \in BOOLEAN, f \in SeqsOf(Types, 0..MaxFound) :
          sample' = [kind |-> "request", declared |-> d, text |-> t, found |-> f]
     \/ \E f \in SUBSET (HardChecks \union SoftChecks),
           s \in {q \in SeqsOf(0..LastTime, 0..RateMax) : Rising(q)}, now \in 0..LastTime :
          /\ \A i \in 1..Len(s) : s[i] <= now
          /\ sample' = [kind |-> "message", failing |-> f, sends |-> s, now |-> now]
     \/ \E ps \in SeqsOf(Policy, 0..2), raw \in {"null", "cloud", "saas", "on_prem", "on premises", "edge"},
           l \in {"null", "low", "high"}, t \in {"null", "t", "u"} :
          sample' = [kind |-> "policy", ps |-> ps, raw |-> raw, level |-> l, tenant |-> t]
     \/ \E t \in Configs : sample' = [kind |-> "config", tree |-> t]
     \/ \E f \in [ext : {"pdf", "json", "image", "plain", "other"}, size : {"empty", "some", "large"},
                  header : BOOLEAN, readable : BOOLEAN, text : {<<"null", " ", "x">>}] :
          sample' = [kind |-> "file", file |-> f]
     \/ \E s \in SeqsOf(Chars, 1..FileLength) :
          sample' = [kind |-> "file", file |-> [ext |-> "plain", size |-> "some",
                       header |-> FALSE, readable |-> TRUE, text |-> s]]
     \/ \E e \in DOMAIN SseStatus : sample' = [kind |-> "failure", error |-> e]

Next == Pick

Spec == Init /\ [][Next]_vars

-----------------------------------------------------------------------------
\* The check digit of a card notices every wrong digit, the remainder taken
\* chunk by chunk is that of the whole number, a request's sensitivity is the
\* highest of what was declared and found in whatever order, the guard's verdict
\* is right at the edges of its rate window, the fallback decides on policies as
\* OPA does and names the same one, a configuration that is shown flat and saved
\* again has lost nothing that has a value, the text of a file is clean and
\* whole, and a failure means the same to the browser in either response mode.
ChecksMatchReference ==
  /\ sample.kind = "card" => CatchesSlip(sample.s)
  /\ sample.kind = "iban" => (Iban(sample.s) <=> IbanReference(sample.s))
  /\ sample.kind = "request" =>
       Inspect(sample.declared, sample.text, sample.found).level =
       InspectReference(sample.declared, sample.text, sample.found)
  /\ sample.kind = "message" => VerdictRight(sample.failing, sample.sends, sample.now)
  /\ sample.kind = "policy" => FallbackAgrees(sample.ps, sample.raw, sample.level, sample.tenant)
  /\ sample.kind = "config" => Unflatten(Flatten(sample.tree, <<>>)) = Pruned(sample.tree)
  /\ sample.kind = "file" => UploadRight(sample.file)
  /\ sample.kind = "failure" => StatusesAgree(sample.error)

=============================================================================
