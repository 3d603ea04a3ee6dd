----------------------------- MODULE MCPlatform -----------------------------
(***************************************************************************)
(* Small instances of what surrounds the life of a request, and of what    *)
(* RequestLifecycle has as choices: the policies and their sync, the start *)
(* of the workers, the keys and signatures they verify, the classification *)
(* of an intent, the guarded answer, the administration of the edge, the   *)
(* browser's chat and the computations without state.  They share no       *)
(* variable: `part` says which of them a behaviour is about, and the       *)
(* others stay as they are.                                                *)
(***************************************************************************)
EXTENDS MCPolicySync, WorkerStart, KeySet, GatewayNonce, Intents, EdgeAdmin,
        ChatClient, AnswerStream

CONSTANTS
  CardDigits, CardLength, IbanChars, IbanLength, ChunkLength, MaxFound,
  RateMax, RateWindow, LastTime, MaxChars, FileLength

VARIABLES
  part,
  sample

\* One label in each version of the taxonomy.
MCTaxonomy == [v \in Versions |-> {v}]

\* A path, one below it, and one whose route is given the name of that one's.
MCBackendPaths == {<<"/", "a">>, <<"/", "a", "/", "b">>, <<"/", "a", "-", "b">>}
MCOtherPaths == {<<"/">>}

Checks == INSTANCE Computations

checkVars == <<sample>>
ownVars    == <<vars, startVars, keyVars, nonceVars>>
otherVars  == <<intentVars, answerVars, edgeVars, chatVars, checkVars>>
platformVars == <<part, ownVars, otherVars>>

\* A part that is not looked at starts in one state.
PlatformInit ==
  /\ part \in {"policies", "starts", "keys", "nonces", "intent", "answer", "edge",
               "chat", "checks"}
  /\ Init        /\ (part # "policies" => db = Bootstrap)
  /\ StartInit   /\ (part # "starts" => patterns = {})
  /\ KeysInit    /\ (part # "keys" => published = {CHOOSE k \in Kids : TRUE})
  /\ NonceInit   /\ (part # "nonces" => signing)
  /\ IntentInit  /\ (part # "intent" => hybrid)
  /\ AnswerInit  /\ (part # "answer" => api = "json")
  /\ EdgeInit
  /\ ChatInit
  /\ Checks!Init

\* AnswerInPlace promises nothing once the user has left a stream's conversation
\* or sent beside it: a behaviour ends there.
Uncrossed == ~crossed

PlatformNext ==
  /\ \/ /\ part = "policies" /\ Next
        /\ UNCHANGED <<startVars, keyVars, nonceVars, otherVars>>
     \/ /\ part = "starts" /\ StartNext
        /\ UNCHANGED <<vars, keyVars, nonceVars, otherVars>>
     \/ /\ part = "keys" /\ KeysNext
        /\ UNCHANGED <<vars, startVars, nonceVars, otherVars>>
     \/ /\ part = "nonces" /\ NonceNext
        /\ UNCHANGED <<vars, startVars, keyVars, otherVars>>
     \/ /\ part = "intent" /\ IntentNext
        /\ UNCHANGED <<ownVars, answerVars, edgeVars, chatVars, checkVars>>
     \/ /\ part = "answer" /\ AnswerNext
        /\ UNCHANGED <<ownVars, intentVars, edgeVars, chatVars, checkVars>>
     \/ /\ part = "edge" /\ EdgeNext
        /\ UNCHANGED <<ownVars, intentVars, answerVars, chatVars, checkVars>>
     \/ /\ part = "chat" /\ Uncrossed /\ ChatNext
        /\ UNCHANGED <<ownVars, intentVars, answerVars, edgeVars, checkVars>>
     \/ /\ part = "checks" /\ Checks!Next
        /\ UNCHANGED <<ownVars, intentVars, answerVars, edgeVars, chatVars>>
  /\ UNCHANGED part

PlatformSpec == PlatformInit /\ [][PlatformNext]_platformVars

\* Workers, and reloads, are interchangeable.
PlatformSymmetry == Permutations(Fleet) \cup Permutations(Reloads)

\* Every part stays within its types.
PartsTypeOK ==
  /\ TypeOK /\ StartTypeOK /\ KeysTypeOK /\ NonceTypeOK
  /\ IntentTypeOK /\ AnswerTypeOK /\ EdgeTypeOK /\ ChatTypeOK /\ Checks!TypeOK

\* The property of the part that is an instance, as its module states it.
ChecksMatchReference == Checks!ChecksMatchReference

=============================================================================
