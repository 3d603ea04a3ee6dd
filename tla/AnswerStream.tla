---------------------------- MODULE AnswerStream ----------------------------
(***************************************************************************)
(* An answer on its way from the provider to the client: the two provider  *)
(* clients (openai_client.py, ollama_client.py) and the service's own call *)
(* of Gemini, the redaction of output_guard_service.py with its carry      *)
(* buffer, and the loop of AIRequestService that joins them.               *)
(*                                                                         *)
(* A character is a digit "d", a letter "x", a dash or a space.  The rule  *)
(* of a fixed length (a social security number) is scaled to d-d, the      *)
(* rules of a varying length (card, IBAN, phone) to runs of 2 or 3 digits, *)
(* the 30 carried characters to CarrySize, and the placeholder to three    *)
(* characters of its own kinds: "[", "r", a word character, and "]".       *)
(*                                                                         *)
(* RequestLifecycle has the rows, the metering and the failures of this    *)
(* path, and what it sends as a choice.                                    *)
(***************************************************************************)
EXTENDS Integers, Sequences, SequencesExt

CONSTANTS
  CarrySize,  \* CARRY_SIZE
  PieceSize,  \* chunk_size of the answers of Gemini
  MaxAnswer,  \* bound: characters of an answer
  MaxToken    \* bound: characters of one token

\* What is carried is at least a match of fixed length less one character.
ASSUME StreamAssumption ==
  /\ CarrySize \in Nat /\ CarrySize >= 2 /\ PieceSize \in Nat \ {0}
  /\ MaxAnswer \in Nat /\ MaxToken \in Nat

AnswerChars == {"d", "x", "-", " "}
Word == {"d", "x", "r"}       \* \w
Placeholder == <<"[", "r", "]">>
ShownChars == AnswerChars \union {"[", "r", "]"}

\* Three streamed, and the whole answer of submit_json: with a message in it, as
\* OpenAI's client and _call_gemini_json make it, or in Ollama's own form.
Apis == {"openai", "ollama", "gemini", "json", "ollama_json"}

VARIABLES
  api,    \* whose answer it is and how it comes, one of Apis
  text,   \* history: what the provider has sent, or its client passed on
  left,   \* of Gemini's whole answer, what is not passed on yet
  garbled,  \* a line of it could not be parsed and was skipped
  carry,  \* carry_buffer
  shown,  \* the tokens sent to the client, joined
  ended   \* "no", "done", "error", or "silent" without any of them

answerVars == <<api, text, left, garbled, carry, shown, ended>>

AnswerTypeOK ==
  /\ api \in Apis /\ garbled \in BOOLEAN
  /\ text \in Seq(AnswerChars) /\ left \in Seq(AnswerChars)
  /\ Len(text \o left) <= MaxAnswer
  /\ carry \in Seq(ShownChars) /\ Len(carry) <= CarrySize /\ shown \in Seq(ShownChars)
  /\ ended \in {"no", "done", "error", "silent"}

AnswerInit ==
  /\ api \in Apis /\ garbled = FALSE
  /\ text = <<>> /\ left = <<>> /\ carry = <<>> /\ shown = <<>> /\ ended = "no"

-----------------------------------------------------------------------------
\* OutputGuardService.redact.

\* (?<!\w) and (?!\w) around the characters i..j.
Bounded(s, i, j) ==
  /\ i = 1 \/ s[i - 1] \notin Word
  /\ j = Len(s) \/ s[j + 1] \notin Word

FixedEnd(s, i) ==
  IF i + 2 <= Len(s) /\ SubSeq(s, i, i + 2) = <<"d", "-", "d">> /\ Bounded(s, i, i + 2)
    THEN i + 2 ELSE 0

\* The longest run of 3 or 2 digits.
RunEnd(s, i) ==
  LET ends == {j \in i + 1..i + 2 :
                 j <= Len(s) /\ (\A k \in i..j : s[k] = "d") /\ Bounded(s, i, j)}
  IN IF ends = {} THEN 0 ELSE CHOOSE j \in ends : \A k \in ends : k <= j

\* finditer and the replacement of its matches, leftmost first: ends[i] is where
\* a match that begins at i ends, 0 without one.  `out` is what is settled after k
\* characters, `next` the first character not settled.
Settled(acc, s, ends, k) ==
  IF k < acc.next THEN acc
  ELSE IF ends[k] = 0 THEN [out |-> Append(acc.out, s[k]), next |-> k + 1]
  ELSE [out |-> acc.out \o Placeholder, next |-> ends[k] + 1]

Replaced(s, ends) ==
  LET scan[k \in 0..Len(s)] ==
        IF k = 0 THEN [out |-> <<>>, next |-> 1] ELSE Settled(scan[k - 1], s, ends, k)
  IN scan[Len(s)].out

RedactFixed(s) == Replaced(s, [i \in DOMAIN s |-> FixedEnd(s, i)])
RedactRuns(s)  == Replaced(s, [i \in DOMAIN s |-> RunEnd(s, i)])

\* Rule after rule, each over what the one before it has left.
Redact(s) == RedactRuns(RedactFixed(s))

\* The redacted text but its last CARRY_SIZE characters is safe to send.
Cut(s) ==
  LET keep == IF Len(s) > CarrySize THEN CarrySize ELSE Len(s)
  IN [safe |-> SubSeq(s, 1, Len(s) - keep), carry |-> SubSeq(s, Len(s) - keep + 1, Len(s))]

\* Mutant: what is carried is not scanned again.
ChunkUnjoined(token) == Cut(carry \o Redact(token))

\* redact_stream_chunk.
Chunk(token) == Cut(Redact(carry \o token))

-----------------------------------------------------------------------------
Tokens == UNION {[1..n -> AnswerChars] : n \in 1..MaxToken}
Fits(token) == Len(text \o token) <= MaxAnswer

\* A line with text and without the mark of the end.
PassToken ==
  /\ ended = "no" /\ api \in {"openai", "ollama"}
  /\ \E t \in Tokens :
       /\ Fits(t)
       /\ text' = text \o t
       /\ shown' = shown \o Chunk(t).safe
       /\ carry' = Chunk(t).carry
  /\ UNCHANGED <<api, left, garbled, ended>>

\* A line that is not JSON: both clients go on with the next.
Garble ==
  /\ ended = "no" /\ api \in {"openai", "ollama"} /\ ~garbled
  /\ garbled' = TRUE
  /\ UNCHANGED <<api, text, left, carry, shown, ended>>

\* The chunk with done = true.  The text in it is not guarded as a token: it
\* joins the carry, and both are redacted and sent at once.
FinishAnswer(t) ==
  /\ text' = text \o t
  /\ shown' = shown \o Redact(carry \o t)
  /\ carry' = <<>>
  /\ ended' = "done"
  /\ UNCHANGED <<api, left, garbled>>

\* Ollama's last line says done and may hold text.
OllamaDone ==
  /\ ended = "no" /\ api = "ollama"
  /\ \E t \in Tokens \union {<<>>} : Fits(t) /\ FinishAnswer(t)

\* [DONE], or the end of the body: the client makes the done chunk itself.  A
\* finish_reason beside text ends the stream after a chunk of that text.
OpenAIDone ==
  /\ ended = "no" /\ api = "openai"
  /\ \/ FinishAnswer(<<>>)
     \/ \E t \in Tokens :
          /\ Fits(t)
          /\ text' = text \o t
          /\ shown' = shown \o Chunk(t).safe \o Redact(Chunk(t).carry)
          /\ carry' = <<>> /\ ended' = "done"
          /\ UNCHANGED <<api, left, garbled>>

\* Ollama's body ends without that line: the loop ends, and what is carried is
\* never sent.
OllamaEnds ==
  /\ ended = "no" /\ api = "ollama"
  /\ ended' = "silent"
  /\ UNCHANGED <<api, text, left, garbled, carry, shown>>

\* _call_gemini_json: the longest text in the lines that can be parsed,
\* stripped; without any it raises.
GeminiAnswers ==
  /\ ended = "no" /\ api = "gemini" /\ text \o left = <<>>
  /\ \E t \in UNION {[1..n -> AnswerChars] : n \in 1..MaxAnswer} :
       t[1] # " " /\ Last(t) # " " /\ left' = t
  /\ UNCHANGED <<api, text, garbled, carry, shown, ended>>

\* _call_gemini_stream cuts it into pieces of one size ...
GeminiPiece ==
  /\ ended = "no" /\ left # <<>>
  /\ LET n == IF Len(left) < PieceSize THEN Len(left) ELSE PieceSize
         piece == SubSeq(left, 1, n)
     IN /\ text' = text \o piece
        /\ left' = SubSeq(left, n + 1, Len(left))
        /\ shown' = shown \o Chunk(piece).safe
        /\ carry' = Chunk(piece).carry
  /\ UNCHANGED <<api, garbled, ended>>

\* ... and ends them with a done chunk.
GeminiDone ==
  /\ ended = "no" /\ api = "gemini" /\ text # <<>> /\ left = <<>>
  /\ FinishAnswer(<<>>)

\* The iterator raises: the client is told, what is carried is never sent.
Raise ==
  /\ ended = "no"
  /\ ended' = "error"
  /\ UNCHANGED <<api, text, left, garbled, carry, shown>>

\* submit_json: the content of the answer's message is redacted as one text.
GuardedAnswer ==
  /\ ended = "no" /\ api = "json"
  /\ \E t \in Tokens : Fits(t) /\ text' = t /\ shown' = Redact(t)
  /\ ended' = "done"
  /\ UNCHANGED <<api, left, garbled, carry>>

\* Ollama's client returns the body under "response" and no "message": submit_json
\* finds no text to redact and returns the body as it came.
OllamaAnswer ==
  /\ ended = "no" /\ api = "ollama_json"
  /\ \E t \in Tokens : Fits(t) /\ text' = t /\ shown' = t
  /\ ended' = "done"
  /\ UNCHANGED <<api, left, garbled, carry>>

AnswerNext == PassToken \/ Garble \/ OllamaDone \/ OpenAIDone \/ OllamaEnds
        \/ GeminiAnswers \/ GeminiPiece \/ GeminiDone \/ Raise
        \/ GuardedAnswer \/ OllamaAnswer

AnswerSpec == AnswerInit /\ [][AnswerNext]_answerVars

-----------------------------------------------------------------------------
\* What no rule replaces.
Letters(s) ==
  LET kept[k \in 0..Len(s)] ==
        IF k = 0 THEN <<>>
        ELSE IF s[k] \in {"x", " "} THEN Append(kept[k - 1], s[k]) ELSE kept[k - 1]
  IN kept[Len(s)]

\* However the provider cuts its answer into tokens, the client is never sent a
\* whole match of the rule of fixed length, unless the answer is Ollama's in one
\* piece; and nothing that no rule replaces is lost, doubled or moved by the carry
\* buffer: the letters sent, with those carried, are those of the answer.
\* (Characters of a match right before a placeholder are none of the answer: a
\* digit came after them there.  A match of a rule of varying length may be
\* replaced before its last characters arrive.)
ShownIsGuarded ==
  LET seen == shown \o carry IN
  /\ api # "ollama_json" =>
       \A i \in 1..Len(seen) - 2 :
         FixedEnd(seen, i) # 0 => i + 3 <= Len(seen) /\ seen[i + 3] = "["
  /\ Letters(seen) = Letters(text)

\* An answer returned as JSON has been redacted: no rule of the guard finds
\* anything in what the client is given.
JsonIsRedacted ==
  api \in {"json", "ollama_json"} =>
    \A i \in 1..Len(shown) : FixedEnd(shown, i) = 0 /\ RunEnd(shown, i) = 0

=============================================================================
