-------------------------- MODULE RequestLifecycle --------------------------
(***************************************************************************)
(* AIRequestService: what happens to one POST /api/v1/ai/request, from the *)
(* session opened by get_db_with_user to its close, with the rows it       *)
(* leaves in Postgres, the tokens it counts in Redis and the SSE frames it *)
(* sends.  The requests of one worker process run interleaved at their     *)
(* awaits and share one pool of Postgres connections.                      *)
(*                                                                         *)
(* The request's own session `db` keeps a connection from its first        *)
(* statement to the next commit, rollback or close.  Every                 *)
(* `async with self._session_factory()` takes a second connection, uses it *)
(* for one transaction and gives it back: it is one step here.             *)
(*                                                                         *)
(* The outcome of a gate (scan, intent, permission, quota, policy) is a    *)
(* choice: the stores behind the gates have modules of their own.          *)
(***************************************************************************)
EXTENDS Integers, Sequences, FiniteSets

CONSTANTS
  Requests,    \* the requests of one worker process
  Modes,       \* {"stream", "json"}: what the Accept headers ask for
  PoolSize,    \* connections the SQLAlchemy pool can hand out
  DBFaults,    \* failures of a Postgres transaction that may happen
  MaxTokens,   \* bound: token frames of one stream
  MaxPolicies, \* bound: results of one policy evaluation
  MaxCrashes   \* bound: crashes of the worker process

(***************************************************************************)
(* "fail": the transaction is not applied and an exception is raised;      *)
(* "lost": it is applied, but the acknowledgement is lost and an exception *)
(* is raised all the same.                                                 *)
(***************************************************************************)
Outcome == {"ok", "fail", "lost"}

ASSUME ConstantsAssumption ==
  /\ Modes \subseteq {"stream", "json"}
  /\ DBFaults \subseteq {"fail", "lost"}
  /\ PoolSize \in Nat \ {0}
  /\ MaxTokens \in Nat /\ MaxPolicies \in Nat /\ MaxCrashes \in Nat

VARIABLES
  pc,         \* where each request is
  mode,       \* "stream" (submit_stream) or "json" (submit_json)
  conn,       \* does the request's own session hold a pool connection
  txn,        \* what that session has flushed and not committed
  row,        \* status of the committed ai_requests row
  scan,       \* verdict of the prompt security scan
  permAudit,  \* committed permission_audit_logs actions
  polAudit,   \* committed policy_evaluation_audit_logs decisions
  secEvents,  \* committed security_events decisions
  results,    \* policy results still to be audited
  dispatched, \* has the provider been called
  usage,      \* usage_token_logs: none yet, zero tokens (no row), logged
  charged,    \* were the tokens added to the tenant's Redis counter
  sent,       \* SSE frames handed to the client
  result,     \* how the request ended for the client
  crashes

audits  == <<permAudit, polAudit, secEvents>>
billing == <<usage, charged>>
vars == <<pc, mode, conn, txn, row, scan, audits, results, dispatched, billing,
          sent, result, crashes>>

Labels ==
  {"idle", "open", "scan", "event", "mark_blocked", "resolve", "permission",
   "quota", "lookup", "record", "commit", "policy", "audit_allow", "audit_deny",
   "mark_denied", "begin", "dispatch", "first", "streaming", "bill", "charge",
   "flush", "redact", "finish", "complete", "guard", "failing", "mark_failed",
   "closing", "end"}

Statuses == {"none", "received", "streaming", "completed", "failed", "denied",
             "blocked"}

Results == {"pending", "answered", "blocked", "unauthorized", "rejected",
            "denied", "policyError", "failed", "truncated", "cancelled",
            "error", "crashed"}

Frames == {"thinking", "start", "token", "done", "error"}

Init ==
  /\ pc = [r \in Requests |-> "idle"]
  /\ mode = [r \in Requests |-> "json"]
  /\ conn = [r \in Requests |-> FALSE]
  /\ txn = [r \in Requests |-> {}]
  /\ row = [r \in Requests |-> "none"]
  /\ scan = [r \in Requests |-> "clean"]
  /\ permAudit = [r \in Requests |-> {}]
  /\ polAudit = [r \in Requests |-> {}]
  /\ secEvents = [r \in Requests |-> {}]
  /\ results = [r \in Requests |-> <<>>]
  /\ dispatched = [r \in Requests |-> FALSE]
  /\ usage = [r \in Requests |-> "none"]
  /\ charged = [r \in Requests |-> FALSE]
  /\ sent = [r \in Requests |-> <<>>]
  /\ result = [r \in Requests |-> "pending"]
  /\ crashes = 0

-----------------------------------------------------------------------------
(* Helpers *)

Goto(r, l) == pc' = [pc EXCEPT ![r] = l]

Send(r, f) == sent' = [sent EXCEPT ![r] = Append(@, f)]

Free == Cardinality({r \in Requests : conn[r]}) < PoolSize

\* Mutant: the pool is created without a checkout timeout.
AuxOutcomesNoTimeout == IF Free THEN {"ok"} \cup DBFaults ELSE {}

\* What a transaction of a new session, or of the request's own one, can end
\* with.  With no connection to be had the pool's checkout times out.
AuxOutcomes     == IF Free THEN {"ok"} \cup DBFaults ELSE {"fail"}
OwnOutcomes(r)  == IF conn[r] \/ Free THEN {"ok"} \cup DBFaults ELSE {"fail"}

\* update_ai_request_status: an UPDATE by request_id, and its commit.
SetStatus(r, s, o) ==
  row' = IF o # "fail" /\ row[r] # "none" THEN [row EXCEPT ![r] = s] ELSE row

\* A refusal the caller is told of: a DomainError, sent as an SSE error frame
\* by submit_stream and mapped to an HTTP status by the router.
Reject(r, why) ==
  /\ Goto(r, "closing")
  /\ result' = [result EXCEPT ![r] = why]
  /\ IF mode[r] = "stream" THEN Send(r, "error") ELSE UNCHANGED sent

\* Any other exception leaves the handler: a 500, or a stream cut short.
Abort(r) ==
  /\ Goto(r, "closing")
  /\ result' = [result EXCEPT ![r] = "error"]
  /\ UNCHANGED sent

Stay == UNCHANGED <<result, sent>>

\* Go on at label l if the transaction was acknowledged, else raise.
Proceed(r, o, l) == IF o = "ok" THEN Goto(r, l) /\ Stay ELSE Abort(r)

-----------------------------------------------------------------------------
(* Session and Phase A *)

Arrive(r) ==
  /\ pc[r] = "idle"
  /\ \E m \in Modes : mode' = [mode EXCEPT ![r] = m]
  /\ Goto(r, "open")
  /\ UNCHANGED <<conn, txn, row, scan, audits, results, dispatched, billing,
                 sent, result, crashes>>

\* get_db_with_user: set_config is the first statement of the session, so it
\* takes a connection; a stream then sends its first frame.
OpenSession(r) ==
  /\ pc[r] = "open"
  /\ \E o \in AuxOutcomes :
       IF o = "ok"
       THEN /\ Goto(r, "scan")
            /\ conn' = [conn EXCEPT ![r] = TRUE]
            /\ IF mode[r] = "stream" THEN Send(r, "thinking") ELSE UNCHANGED sent
            /\ UNCHANGED result
       ELSE Abort(r) /\ UNCHANGED conn
  /\ UNCHANGED <<mode, txn, row, scan, audits, results, dispatched, billing, crashes>>

\* The scan's verdict.  The content inspector and the classifier run beside it,
\* write nothing and never raise.
ScanPrompt(r) ==
  /\ pc[r] = "scan"
  /\ \E v \in {"clean", "low", "blocked"} :
       /\ scan' = [scan EXCEPT ![r] = v]
       /\ Goto(r, IF v = "clean" THEN "resolve" ELSE "event")
  /\ UNCHANGED <<mode, conn, txn, row, audits, results, dispatched, billing,
                 sent, result, crashes>>

LogSecurityEvent(r) ==
  /\ pc[r] = "event"
  /\ \E o \in AuxOutcomes :
       /\ secEvents' = IF o = "fail" THEN secEvents ELSE
            [secEvents EXCEPT ![r] = @ \cup
               {IF scan[r] = "blocked" THEN "blocked" ELSE "allowed"}]
       /\ Proceed(r, o, IF scan[r] = "blocked" THEN "mark_blocked" ELSE "resolve")
  /\ UNCHANGED <<mode, conn, txn, row, scan, permAudit, polAudit, results,
                 dispatched, billing, crashes>>

\* The status update of a blocked prompt, and SecurityViolationError.
MarkBlocked(r) ==
  /\ pc[r] = "mark_blocked"
  /\ \E o \in AuxOutcomes :
       /\ SetStatus(r, "blocked", o)
       /\ IF o = "ok" THEN Reject(r, "blocked") ELSE Abort(r)
  /\ UNCHANGED <<mode, conn, txn, scan, audits, results, dispatched, billing, crashes>>

-----------------------------------------------------------------------------
(* Phase B: intent, permission, quota, service *)

ResolveIntent(r) ==
  /\ pc[r] = "resolve"
  /\ \/ Goto(r, "permission") /\ Stay
     \/ Reject(r, "rejected")
  /\ UNCHANGED <<mode, conn, txn, row, scan, audits, results, dispatched,
                 billing, crashes>>

\* The audit entry is flushed with either answer; nothing commits it here.
CheckPermission(r) ==
  /\ pc[r] = "permission"
  /\ \/ /\ txn' = [txn EXCEPT ![r] = @ \cup {"ALLOW"}]
        /\ Goto(r, "quota") /\ Stay
     \/ /\ txn' = [txn EXCEPT ![r] = @ \cup {"DENY"}]
        /\ Reject(r, "unauthorized")
     \/ /\ "fail" \in DBFaults
        /\ Abort(r) /\ UNCHANGED txn
  /\ UNCHANGED <<mode, conn, row, scan, audits, results, dispatched, billing, crashes>>

CheckQuota(r) ==
  /\ pc[r] = "quota"
  /\ \/ Goto(r, "lookup") /\ Stay
     \/ Reject(r, "rejected")
  /\ UNCHANGED <<mode, conn, txn, row, scan, audits, results, dispatched,
                 billing, crashes>>

LookupService(r) ==
  /\ pc[r] = "lookup"
  /\ \/ Goto(r, "record") /\ Stay
     \/ Reject(r, "rejected")
     \/ "fail" \in DBFaults /\ Abort(r)
  /\ UNCHANGED <<mode, conn, txn, row, scan, audits, results, dispatched,
                 billing, crashes>>

-----------------------------------------------------------------------------
(* Phase C: the tracking row; Phase D: policy *)

\* create_ai_request: a failed flush (the service row deleted meanwhile, say)
\* becomes a ProviderError; update_resolved_sensitivity is not guarded.
RecordRequest(r) ==
  /\ pc[r] = "record"
  /\ \/ /\ txn' = [txn EXCEPT ![r] = @ \cup {"row"}]
        /\ Goto(r, "commit") /\ Stay
     \/ Reject(r, "rejected") /\ UNCHANGED txn
     \/ "fail" \in DBFaults /\ Abort(r) /\ UNCHANGED txn
  /\ UNCHANGED <<mode, conn, row, scan, audits, results, dispatched, billing, crashes>>

\* The single commit of the row and the permission audit.
CommitRecord(r) ==
  /\ pc[r] = "commit"
  /\ \E o \in OwnOutcomes(r) :
       /\ IF o = "fail" THEN UNCHANGED <<row, permAudit>>
          ELSE /\ row' = [row EXCEPT ![r] = "received"]
               /\ permAudit' = [permAudit EXCEPT ![r] = @ \cup (txn[r] \ {"row"})]
       /\ Proceed(r, o, "policy")
  /\ txn' = [txn EXCEPT ![r] = {}]
  /\ conn' = [conn EXCEPT ![r] = FALSE]
  /\ UNCHANGED <<mode, scan, polAudit, secEvents, results, dispatched, billing, crashes>>

\* evaluate_async returns its results, raises PolicyViolationError with them
\* (OPA may name several policies as denying), or raises PolicyEvaluationError,
\* which nothing catches here.
EvaluatePolicy(r) ==
  /\ pc[r] = "policy"
  /\ \/ \E n \in 0 .. MaxPolicies :
          /\ results' = [results EXCEPT ![r] = [i \in 1 .. n |-> "ALLOW"]]
          /\ Goto(r, "audit_allow") /\ Stay
     \/ \E n \in 1 .. MaxPolicies : \E s \in [1 .. n -> {"ALLOW", "DENY"}] :
          /\ \E i \in 1 .. n : s[i] = "DENY"
          /\ results' = [results EXCEPT ![r] = s]
          /\ Goto(r, "audit_deny") /\ Stay
     \/ Reject(r, "policyError") /\ UNCHANGED results
  /\ UNCHANGED <<mode, conn, txn, row, scan, audits, dispatched, billing, crashes>>

\* create_policy_audit_log commits, and its refresh takes a connection again,
\* which the session keeps until its next commit or its close.
AuditResult(r) ==
  /\ pc[r] \in {"audit_allow", "audit_deny"}
  /\ results[r] # <<>>
  /\ \E o \in OwnOutcomes(r) :
       /\ polAudit' = IF o = "fail" THEN polAudit
                      ELSE [polAudit EXCEPT ![r] = @ \cup {Head(results[r])}]
       /\ conn' = [conn EXCEPT ![r] = (o = "ok")]
       /\ Proceed(r, o, pc[r])
  /\ results' = [results EXCEPT ![r] = Tail(@)]
  /\ UNCHANGED <<mode, txn, row, scan, permAudit, secEvents, dispatched, billing, crashes>>

Audited(r) ==
  /\ pc[r] \in {"audit_allow", "audit_deny"}
  /\ results[r] = <<>>
  /\ Goto(r, IF pc[r] = "audit_deny" THEN "mark_denied"
             ELSE IF mode[r] = "stream" THEN "begin" ELSE "dispatch")
  /\ UNCHANGED <<mode, conn, txn, row, scan, audits, results, dispatched,
                 billing, sent, result, crashes>>

\* Mutant: the violation is recorded and not raised again.
MarkDeniedNoRaise(r) ==
  /\ pc[r] = "mark_denied"
  /\ \E o \in OwnOutcomes(r) : SetStatus(r, "denied", o)
  /\ conn' = [conn EXCEPT ![r] = FALSE]
  /\ Goto(r, "dispatch") /\ Stay
  /\ UNCHANGED <<mode, txn, scan, audits, results, dispatched, billing, crashes>>

\* Mutant: a status the schema does not know.
MarkDeniedUnknown(r) ==
  /\ pc[r] = "mark_denied"
  /\ \E o \in OwnOutcomes(r) : SetStatus(r, "refused", o)
  /\ conn' = [conn EXCEPT ![r] = FALSE]
  /\ Reject(r, "denied")
  /\ UNCHANGED <<mode, txn, scan, audits, results, dispatched, billing, crashes>>

\* A failure to store the status is logged and swallowed.
MarkDenied(r) ==
  /\ pc[r] = "mark_denied"
  /\ \E o \in OwnOutcomes(r) : SetStatus(r, "denied", o)
  /\ conn' = [conn EXCEPT ![r] = FALSE]
  /\ Reject(r, "denied")
  /\ UNCHANGED <<mode, txn, scan, audits, results, dispatched, billing, crashes>>

-----------------------------------------------------------------------------
(* The provider *)

BeginStream(r) ==
  /\ pc[r] = "begin"
  /\ Send(r, "start")
  /\ Goto(r, "dispatch")
  /\ UNCHANGED <<mode, conn, txn, row, scan, audits, results, dispatched,
                 billing, result, crashes>>

\* Mutant: a JSON request is completed before its tokens are metered.
DispatchUnmetered(r) ==
  /\ pc[r] = "dispatch"
  /\ dispatched' = [dispatched EXCEPT ![r] = TRUE]
  /\ Goto(r, IF mode[r] = "stream" THEN "first" ELSE "complete")
  /\ UNCHANGED <<mode, conn, txn, row, scan, audits, results, billing, sent,
                 result, crashes>>

Dispatch(r) ==
  /\ pc[r] = "dispatch"
  /\ dispatched' = [dispatched EXCEPT ![r] = TRUE]
  /\ \/ Goto(r, IF mode[r] = "stream" THEN "first" ELSE "bill")
     \/ Goto(r, "failing")
  /\ UNCHANGED <<mode, conn, txn, row, scan, audits, results, billing, sent,
                 result, crashes>>

\* redact_stream_chunk lets some text through or keeps all of it back.
Emit(r) == (Len(sent[r]) < MaxTokens + 2 /\ Send(r, "token")) \/ UNCHANGED sent

\* The first token marks the row "streaming".
FirstToken(r) ==
  /\ pc[r] = "first"
  /\ \E o \in AuxOutcomes :
       /\ SetStatus(r, "streaming", o)
       /\ IF o = "ok" THEN Goto(r, "streaming") /\ Emit(r)
                      ELSE Goto(r, "failing") /\ UNCHANGED sent
  /\ UNCHANGED <<mode, conn, txn, scan, audits, results, dispatched, billing,
                 result, crashes>>

NextToken(r) ==
  /\ pc[r] = "streaming"
  /\ Len(sent[r]) < MaxTokens + 2
  /\ Send(r, "token")
  /\ UNCHANGED <<pc, mode, conn, txn, row, scan, audits, results, dispatched,
                 billing, result, crashes>>

\* The iterator yields done, raises, or ends without a done chunk: the loop
\* then ends, and with it the response.
StreamEnds(r) ==
  /\ pc[r] \in {"first", "streaming"}
  /\ \/ Goto(r, "bill") /\ UNCHANGED result
     \/ Goto(r, "failing") /\ UNCHANGED result
     \/ /\ Goto(r, "closing")
        /\ result' = [result EXCEPT ![r] = "truncated"]
  /\ UNCHANGED <<mode, conn, txn, row, scan, audits, results, dispatched,
                 billing, sent, crashes>>

-----------------------------------------------------------------------------
(* Post-flight *)

\* Inside the stream's try block an exception leads to the error frame; in
\* submit_json it leaves the handler.
Raise(r) ==
  IF mode[r] = "stream" THEN Goto(r, "failing") /\ Stay ELSE Abort(r)

\* Mutant: a usage row that cannot be written is ignored.
RecordUsageSwallow(r) ==
  /\ pc[r] = "bill"
  /\ \E o \in AuxOutcomes :
       usage' = IF o = "fail" THEN usage ELSE [usage EXCEPT ![r] = "logged"]
  /\ Goto(r, "charge") /\ Stay
  /\ UNCHANGED <<mode, conn, txn, row, scan, audits, results, dispatched,
                 charged, crashes>>

\* _record_usage_and_increment, first half: no row for zero tokens.
RecordUsage(r) ==
  LET next == IF mode[r] = "stream" THEN "flush" ELSE "complete"
  IN
  /\ pc[r] = "bill"
  /\ \/ /\ usage' = [usage EXCEPT ![r] = "zero"]
        /\ Goto(r, next) /\ Stay
     \/ \E o \in AuxOutcomes :
          /\ usage' = IF o = "fail" THEN usage ELSE [usage EXCEPT ![r] = "logged"]
          /\ IF o = "ok" THEN Goto(r, "charge") /\ Stay ELSE Raise(r)
  /\ UNCHANGED <<mode, conn, txn, row, scan, audits, results, dispatched,
                 charged, crashes>>

\* Second half: increment_usage gives up silently when Redis is down.
ChargeTokens(r) ==
  /\ pc[r] = "charge"
  /\ \E up \in BOOLEAN : charged' = [charged EXCEPT ![r] = up]
  /\ Goto(r, IF mode[r] = "stream" THEN "flush" ELSE "complete")
  /\ UNCHANGED <<mode, conn, txn, row, scan, audits, results, dispatched,
                 usage, sent, result, crashes>>

\* The tail kept back by the output guard, redacted or not.
FlushTail(r) ==
  /\ pc[r] = "flush"
  /\ \/ Goto(r, "finish") /\ UNCHANGED sent
     \/ Goto(r, "finish") /\ Send(r, "token")
     \/ Goto(r, "redact") /\ UNCHANGED sent
  /\ UNCHANGED <<mode, conn, txn, row, scan, audits, results, dispatched,
                 billing, result, crashes>>

LogRedaction(r) ==
  /\ pc[r] = "redact"
  /\ \E o \in AuxOutcomes :
       /\ secEvents' = IF o = "fail" THEN secEvents
                       ELSE [secEvents EXCEPT ![r] = @ \cup {"redacted"}]
       /\ IF o # "ok" THEN Raise(r)
          ELSE IF mode[r] = "stream"
          THEN Goto(r, "finish") /\ Send(r, "token") /\ UNCHANGED result
          ELSE /\ Goto(r, "closing") /\ UNCHANGED sent
               /\ result' = [result EXCEPT ![r] = "answered"]
  /\ UNCHANGED <<mode, conn, txn, row, scan, permAudit, polAudit, results,
                 dispatched, billing, crashes>>

SendDone(r) ==
  /\ pc[r] = "finish"
  /\ Send(r, "done")
  /\ Goto(r, "complete")
  /\ UNCHANGED <<mode, conn, txn, row, scan, audits, results, dispatched,
                 billing, result, crashes>>

\* Mutant: no return after the done chunk; the loop reads on.
CompleteNoReturn(r) ==
  /\ pc[r] = "complete"
  /\ \E o \in AuxOutcomes : SetStatus(r, "completed", o)
  /\ Goto(r, IF mode[r] = "stream" THEN "streaming" ELSE "guard") /\ Stay
  /\ UNCHANGED <<mode, conn, txn, scan, audits, results, dispatched, billing, crashes>>

\* Mutant: a failure to store "completed" is swallowed.
CompleteSwallow(r) ==
  /\ pc[r] = "complete"
  /\ \E o \in AuxOutcomes : SetStatus(r, "completed", o)
  /\ Goto(r, "closing") /\ result' = [result EXCEPT ![r] = "answered"]
  /\ UNCHANGED <<mode, conn, txn, scan, audits, results, dispatched, billing,
                 sent, crashes>>

\* A stream is answered by now; a JSON response still has its output guard.
Complete(r) ==
  /\ pc[r] = "complete"
  /\ \E o \in AuxOutcomes :
       /\ SetStatus(r, "completed", o)
       /\ IF o # "ok" THEN Raise(r)
          ELSE IF mode[r] = "stream"
          THEN /\ Goto(r, "closing") /\ UNCHANGED sent
               /\ result' = [result EXCEPT ![r] = "answered"]
          ELSE Goto(r, "guard") /\ Stay
  /\ UNCHANGED <<mode, conn, txn, scan, audits, results, dispatched, billing, crashes>>

GuardJson(r) ==
  /\ pc[r] = "guard"
  /\ \/ Goto(r, "redact") /\ UNCHANGED result
     \/ Goto(r, "closing") /\ result' = [result EXCEPT ![r] = "answered"]
  /\ UNCHANGED <<mode, conn, txn, row, scan, audits, results, dispatched,
                 billing, sent, crashes>>

SendError(r) ==
  /\ pc[r] = "failing"
  /\ IF mode[r] = "stream" THEN Send(r, "error") ELSE UNCHANGED sent
  /\ Goto(r, "mark_failed")
  /\ UNCHANGED <<mode, conn, txn, row, scan, audits, results, dispatched,
                 billing, result, crashes>>

\* submit_json raises its ProviderError even if the status update fails.
MarkFailed(r) ==
  /\ pc[r] = "mark_failed"
  /\ \E o \in AuxOutcomes :
       /\ SetStatus(r, "failed", o)
       /\ IF o = "ok" \/ mode[r] = "json"
          THEN /\ Goto(r, "closing") /\ UNCHANGED sent
               /\ result' = [result EXCEPT ![r] = "failed"]
          ELSE Abort(r)
  /\ UNCHANGED <<mode, conn, txn, scan, audits, results, dispatched, billing, crashes>>

\* The session closes with the response; what it had not committed is gone.
CloseSession(r) ==
  /\ pc[r] = "closing"
  /\ Goto(r, "end")
  /\ conn' = [conn EXCEPT ![r] = FALSE]
  /\ txn' = [txn EXCEPT ![r] = {}]
  /\ UNCHANGED <<mode, row, scan, audits, results, dispatched, billing, sent,
                 result, crashes>>

-----------------------------------------------------------------------------
(* The environment *)

\* The client of a stream goes away: the generator is cancelled at its await
\* or closed at its yield.  Neither exception is an Exception, so no handler
\* of submit_stream runs.
Disconnect(r) ==
  /\ mode[r] = "stream"
  /\ pc[r] \notin {"idle", "open", "closing", "end"}
  /\ Goto(r, "closing")
  /\ result' = [result EXCEPT ![r] = "cancelled"]
  /\ UNCHANGED <<mode, conn, txn, row, scan, audits, results, dispatched,
                 billing, sent, crashes>>

\* The worker dies and is restarted; nothing on startup looks at old rows.
Crash ==
  LET running == {r \in Requests : pc[r] \notin {"idle", "end"}}
  IN
  /\ crashes < MaxCrashes
  /\ crashes' = crashes + 1
  /\ running # {}
  /\ pc' = [r \in Requests |-> IF r \in running THEN "end" ELSE pc[r]]
  /\ result' = [r \in Requests |-> IF r \in running THEN "crashed" ELSE result[r]]
  /\ conn' = [r \in Requests |-> FALSE]
  /\ txn' = [r \in Requests |-> {}]
  /\ UNCHANGED <<mode, row, scan, audits, results, dispatched, billing, sent>>

\* The steps the event loop owes a request once it has arrived.
Step(r) ==
  \/ OpenSession(r) \/ ScanPrompt(r) \/ LogSecurityEvent(r) \/ MarkBlocked(r)
  \/ ResolveIntent(r) \/ CheckPermission(r) \/ CheckQuota(r) \/ LookupService(r)
  \/ RecordRequest(r) \/ CommitRecord(r) \/ EvaluatePolicy(r) \/ AuditResult(r)
  \/ Audited(r) \/ MarkDenied(r) \/ BeginStream(r) \/ Dispatch(r)
  \/ FirstToken(r) \/ NextToken(r) \/ StreamEnds(r) \/ RecordUsage(r)
  \/ ChargeTokens(r) \/ FlushTail(r) \/ LogRedaction(r) \/ SendDone(r)
  \/ Complete(r) \/ GuardJson(r) \/ SendError(r) \/ MarkFailed(r)
  \/ CloseSession(r)

Next == (\E r \in Requests : Arrive(r) \/ Step(r) \/ Disconnect(r)) \/ Crash

Spec == Init /\ [][Next]_vars

Fairness == \A r \in Requests : WF_vars(Step(r))

FairSpec == Spec /\ Fairness

-----------------------------------------------------------------------------
(* Properties *)

TypeOK ==
  /\ pc \in [Requests -> Labels]
  /\ mode \in [Requests -> {"stream", "json"}]
  /\ conn \in [Requests -> BOOLEAN]
  /\ txn \in [Requests -> SUBSET {"ALLOW", "DENY", "row"}]
  /\ row \in [Requests -> Statuses]
  /\ scan \in [Requests -> {"clean", "low", "blocked"}]
  /\ permAudit \in [Requests -> SUBSET {"ALLOW", "DENY"}]
  /\ polAudit \in [Requests -> SUBSET {"ALLOW", "DENY"}]
  /\ secEvents \in [Requests -> SUBSET {"blocked", "allowed", "redacted"}]
  /\ results \in [Requests -> Seq({"ALLOW", "DENY"})]
  /\ dispatched \in [Requests -> BOOLEAN]
  /\ usage \in [Requests -> {"none", "zero", "logged"}]
  /\ charged \in [Requests -> BOOLEAN]
  /\ sent \in [Requests -> Seq(Frames)]
  /\ result \in [Requests -> Results]
  /\ crashes \in 0 .. MaxCrashes

\* No prompt reaches a provider unless the request's row and the ALLOW entry of
\* its permission check are committed, and neither the prompt scan nor a policy
\* has turned it down; that stays so whatever fails or crashes afterwards.
ProviderGated ==
  \A r \in Requests : dispatched[r] =>
    /\ row[r] \in {"received", "streaming", "completed", "failed"}
    /\ "ALLOW" \in permAudit[r] /\ "DENY" \notin permAudit[r] \cup polAudit[r]
    /\ "blocked" \notin secEvents[r]

\* What the client was told and what the ledger says agree: the row of an
\* answered request is completed, that of a request refused before Phase C does
\* not exist, and a stale "received" or "streaming" row needs a cause.
ResultMatchesRow ==
  \A r \in Requests :
    /\ result[r] \in {"blocked", "unauthorized", "rejected"} => row[r] = "none"
    /\ result[r] = "policyError" => row[r] = "received"
    /\ result[r] = "denied" => row[r] \in {"denied", "received"}
    /\ result[r] = "answered" => row[r] = "completed"
    /\ result[r] = "truncated" => row[r] \in {"received", "streaming"}
    /\ row[r] = "denied" => result[r] \in {"denied", "cancelled", "crashed"}

\* Metering follows delivery: an answered request has been metered, the Redis
\* counter never moves without a usage row, and a request that no provider saw
\* has neither.
Metered ==
  \A r \in Requests :
    /\ result[r] = "answered" => usage[r] # "none"
    /\ charged[r] => usage[r] = "logged"
    /\ usage[r] # "none" => dispatched[r]
    /\ row[r] = "completed" => usage[r] # "none"

\* SSE contract: thinking first, no token before the gates were passed, no
\* token after done or error, at most one done, and after done nothing but the
\* error frame of a failed status update.
FrameOrder ==
  \A r \in Requests : \A i, j \in DOMAIN sent[r] : i < j =>
    /\ sent[r][j] # "thinking"
    /\ sent[r][j] \in {"token", "done"} => sent[r][i] \in {"thinking", "start", "token"}
    /\ sent[r][j] = "token" => \E k \in 1 .. j - 1 : sent[r][k] = "start"
    /\ sent[r][i] = "done" => sent[r][j] = "error"
    /\ sent[r][i] # "error"

\* The service keeps the contract of the ledger: what RequestContract allows is
\* all that the rows, the provider calls and the metering ever do.
Contract == INSTANCE RequestContract

ImplementsContract == Contract!Spec

\* Every request that arrives ends: a waiting pool checkout times out, so even
\* when the requests hold every connection while each needs one more, none
\* waits for ever.
EveryRequestEnds == \A r \in Requests : pc[r] # "idle" ~> pc[r] = "end"

\* docs/study/06-security-services.md:108 and permission_repository.py:26: a
\* denial by the permission check leaves an audit entry.
DenialAudited ==
  \A r \in Requests :
    pc[r] = "end" /\ result[r] = "unauthorized" => "DENY" \in permAudit[r]

\* api/admin/metrics.py:63-68 counts blocked prompts by the "blocked" status the
\* scan writes: a prompt refused by the scan has such a row.
BlockedPromptRecorded ==
  \A r \in Requests :
    pc[r] = "end" /\ result[r] = "blocked" => row[r] = "blocked"

=============================================================================
