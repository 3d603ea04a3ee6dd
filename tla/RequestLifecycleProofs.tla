----------------------- MODULE RequestLifecycleProofs -----------------------
(***************************************************************************)
(* For every set of requests, pool size, set of faults and bounds: the     *)
(* variables keep their types, the provider is called only behind every    *)
(* gate, metering follows delivery, what the client is told agrees with    *)
(* the row, SSE frames come in order, and RequestLifecycle implements      *)
(* RequestContract.                                                        *)
(***************************************************************************)
EXTENDS RequestLifecycle, TLAPS

-----------------------------------------------------------------------------
(* Types.  The sets of labels, statuses, results and frames stay folded: a *)
(* step needs only that the values it writes are among them.               *)

\* The values the actions write belong to the sets that type them.
LEMMA LabelFacts ==
  /\ "idle" \in Labels /\ "open" \in Labels /\ "scan" \in Labels
  /\ "event" \in Labels /\ "mark_blocked" \in Labels /\ "resolve" \in Labels
  /\ "permission" \in Labels /\ "quota" \in Labels /\ "lookup" \in Labels
  /\ "record" \in Labels /\ "commit" \in Labels /\ "policy" \in Labels
  /\ "audit_allow" \in Labels /\ "audit_deny" \in Labels
  /\ "mark_denied" \in Labels /\ "begin" \in Labels /\ "dispatch" \in Labels
  /\ "first" \in Labels /\ "streaming" \in Labels /\ "bill" \in Labels
  /\ "charge" \in Labels /\ "flush" \in Labels /\ "redact" \in Labels
  /\ "finish" \in Labels /\ "complete" \in Labels /\ "guard" \in Labels
  /\ "failing" \in Labels /\ "mark_failed" \in Labels /\ "closing" \in Labels
  /\ "end" \in Labels
BY DEF Labels

\* The same for the statuses of a row.
LEMMA StatusFacts ==
  /\ "none" \in Statuses /\ "received" \in Statuses
  /\ "streaming" \in Statuses /\ "completed" \in Statuses
  /\ "failed" \in Statuses /\ "denied" \in Statuses /\ "blocked" \in Statuses
BY DEF Statuses

\* The same for the ways a request ends.
LEMMA ResultFacts ==
  /\ "pending" \in Results /\ "answered" \in Results /\ "blocked" \in Results
  /\ "unauthorized" \in Results /\ "rejected" \in Results
  /\ "denied" \in Results /\ "policyError" \in Results /\ "failed" \in Results
  /\ "truncated" \in Results /\ "cancelled" \in Results /\ "error" \in Results
  /\ "crashed" \in Results
BY DEF Results

\* The same for the SSE frames.
LEMMA FrameFacts ==
  /\ "thinking" \in Frames /\ "start" \in Frames /\ "token" \in Frames
  /\ "done" \in Frames /\ "error" \in Frames
BY DEF Frames

\* What the client sees of a request, and where it is.
ControlOK ==
  /\ pc \in [Requests -> Labels]
  /\ result \in [Requests -> Results]
  /\ sent \in [Requests -> Seq(Frames)]

\* What the request has written or holds.
LedgerOK ==
  /\ mode \in [Requests -> {"stream", "json"}]
  /\ conn \in [Requests -> BOOLEAN]
  /\ txn \in [Requests -> SUBSET {"ALLOW", "DENY", "row"}]
  /\ row \in [Requests -> Statuses]
  /\ scan \in [Requests -> {"clean", "low", "blocked"}]
  /\ permAudit \in [Requests -> SUBSET {"ALLOW", "DENY"}]
  /\ polAudit \in [Requests -> SUBSET {"ALLOW", "DENY"}]
  /\ secEvents \in [Requests -> SUBSET {"blocked", "allowed", "redacted"}]
  /\ results \in [Requests -> Seq({"ALLOW", "DENY"})]
  /\ dispatched \in [Requests -> BOOLEAN]
  /\ usage \in [Requests -> {"none", "zero", "logged"}]
  /\ charged \in [Requests -> BOOLEAN]
  /\ crashes \in 0 .. MaxCrashes

\* TypeOK is the two together.
LEMMA SplitType ==
  /\ TypeOK <=> ControlOK /\ LedgerOK
  /\ (TypeOK <=> ControlOK /\ LedgerOK)'
BY DEF TypeOK, ControlOK, LedgerOK

\* Going to a label keeps the type of pc.
LEMMA GotoType ==
  ASSUME ControlOK, NEW r \in Requests, NEW l \in Labels, Goto(r, l)
  PROVE  pc' \in [Requests -> Labels]
BY DEF Goto, ControlOK

\* Sending a frame keeps the type of sent.
LEMMA SendType ==
  ASSUME ControlOK, NEW r \in Requests, NEW f \in Frames, Send(r, f)
  PROVE  sent' \in [Requests -> Seq(Frames)]
BY DEF Send, ControlOK

\* A refusal keeps the types of what the client sees.
LEMMA RejectType ==
  ASSUME ControlOK, NEW r \in Requests, NEW why \in Results, Reject(r, why)
  PROVE  ControlOK'
BY LabelFacts, FrameFacts, GotoType, SendType DEF Reject, ControlOK

\* So does an exception that leaves the handler.
LEMMA AbortType ==
  ASSUME ControlOK, NEW r \in Requests, Abort(r)
  PROVE  ControlOK'
BY LabelFacts, ResultFacts, GotoType DEF Abort, ControlOK

\* So does going on in silence.
LEMMA GoType ==
  ASSUME ControlOK, NEW r \in Requests, NEW l \in Labels, Goto(r, l), Stay
  PROVE  ControlOK'
BY GotoType DEF Stay, ControlOK

\* So does going on or raising, after a transaction.
LEMMA ProceedType ==
  ASSUME ControlOK, NEW r \in Requests, NEW l \in Labels, NEW o, Proceed(r, o, l)
  PROVE  ControlOK'
BY GoType, AbortType DEF Proceed

\* So does an exception after the provider was called.
LEMMA RaiseType ==
  ASSUME ControlOK, NEW r \in Requests, Raise(r)
  PROVE  ControlOK'
BY GoType, AbortType, LabelFacts DEF Raise

\* A status update keeps the type of row.
LEMMA StatusType ==
  ASSUME LedgerOK, NEW r \in Requests, NEW s \in Statuses, NEW o, SetStatus(r, s, o)
  PROVE  row' \in [Requests -> Statuses]
BY DEF SetStatus, LedgerOK

\* Flushing an entry keeps the type of txn.
LEMMA FlushType ==
  ASSUME LedgerOK, NEW r \in Requests, NEW e \in {"ALLOW", "DENY", "row"},
         txn' = [txn EXCEPT ![r] = @ \cup {e}]
  PROVE  txn' \in [Requests -> SUBSET {"ALLOW", "DENY", "row"}]
BY DEF LedgerOK

\* The commit of Phase C moves the flushed entries to the audit log.
LEMMA CommitType ==
  ASSUME LedgerOK, NEW r \in Requests, CommitRecord(r)
  PROVE  LedgerOK'
<1>1. permAudit' \in [Requests -> SUBSET {"ALLOW", "DENY"}]
  <2>1. permAudit[r] \cup (txn[r] \ {"row"}) \in SUBSET {"ALLOW", "DENY"}
    BY DEF LedgerOK
  <2>2. ASSUME NEW S \in SUBSET {"ALLOW", "DENY"},
               permAudit' = [permAudit EXCEPT ![r] = S]
        PROVE  permAudit' \in [Requests -> SUBSET {"ALLOW", "DENY"}]
    BY <2>2 DEF LedgerOK
  <2>3. \/ permAudit' = permAudit
        \/ permAudit' = [permAudit EXCEPT ![r] = permAudit[r] \cup (txn[r] \ {"row"})]
    BY DEF CommitRecord
  <2>4. CASE permAudit' = permAudit
    BY <2>4 DEF LedgerOK
  <2>5. CASE permAudit' = [permAudit EXCEPT ![r] = permAudit[r] \cup (txn[r] \ {"row"})]
    BY <2>1, <2>2, <2>5
  <2>6. QED
    BY <2>3, <2>4, <2>5
<1>2. row' \in [Requests -> Statuses]
  BY StatusFacts DEF CommitRecord, LedgerOK
<1>3. txn' \in [Requests -> SUBSET {"ALLOW", "DENY", "row"}]
  <2>1. txn' = [txn EXCEPT ![r] = {}]
    BY DEF CommitRecord
  <2>2. QED
    BY <2>1 DEF LedgerOK
<1>4. QED
  BY <1>1, <1>2, <1>3 DEF CommitRecord, LedgerOK, audits, billing

\* An evaluation leaves a sequence of decisions.
LEMMA EvaluateType ==
  ASSUME LedgerOK, NEW r \in Requests, EvaluatePolicy(r)
  PROVE  LedgerOK'
<1>1. ASSUME NEW s \in Seq({"ALLOW", "DENY"}), results' = [results EXCEPT ![r] = s]
      PROVE  results' \in [Requests -> Seq({"ALLOW", "DENY"})]
  BY <1>1 DEF LedgerOK
<1>2. ASSUME NEW n \in 0 .. MaxPolicies,
             results' = [results EXCEPT ![r] = [i \in 1 .. n |-> "ALLOW"]]
      PROVE  results' \in [Requests -> Seq({"ALLOW", "DENY"})]
  <2>1. [i \in 1 .. n |-> "ALLOW"] \in Seq({"ALLOW", "DENY"})
    BY ConstantsAssumption
  <2>2. QED
    BY <1>1, <1>2, <2>1
<1>3. ASSUME NEW n \in 1 .. MaxPolicies, NEW s \in [1 .. n -> {"ALLOW", "DENY"}],
             results' = [results EXCEPT ![r] = s]
      PROVE  results' \in [Requests -> Seq({"ALLOW", "DENY"})]
  <2>1. s \in Seq({"ALLOW", "DENY"})
    BY ConstantsAssumption
  <2>2. QED
    BY <1>1, <1>3, <2>1
<1>4. results' \in [Requests -> Seq({"ALLOW", "DENY"})]
  BY <1>2, <1>3 DEF EvaluatePolicy, LedgerOK
<1>5. QED
  BY <1>4 DEF EvaluatePolicy, LedgerOK, audits, billing

\* Every step of a request keeps every type.
LEMMA StepType ==
  ASSUME TypeOK, NEW r \in Requests, Step(r)
  PROVE  TypeOK'
<1> USE SplitType
<1>1. CASE OpenSession(r)
  <2>1. ControlOK'
    BY <1>1, LabelFacts, FrameFacts, GotoType, SendType, AbortType
    DEF OpenSession, ControlOK
  <2>2. LedgerOK'
    BY <1>1 DEF OpenSession, LedgerOK, audits, billing
  <2>3. QED
    BY <2>1, <2>2
<1>2. CASE ScanPrompt(r)
  <2>1. ControlOK'
    BY <1>2, LabelFacts, GotoType
    DEF ScanPrompt, ControlOK
  <2>2. LedgerOK'
    BY <1>2 DEF ScanPrompt, LedgerOK, audits, billing
  <2>3. QED
    BY <2>1, <2>2
<1>3. CASE LogSecurityEvent(r)
  <2>1. ControlOK'
    BY <1>3, LabelFacts, ProceedType
    DEF LogSecurityEvent, ControlOK
  <2>2. LedgerOK'
    BY <1>3 DEF LogSecurityEvent, LedgerOK, audits, billing
  <2>3. QED
    BY <2>1, <2>2
<1>4. CASE MarkBlocked(r)
  <2>1. ControlOK'
    BY <1>4, ResultFacts, RejectType, AbortType
    DEF MarkBlocked, ControlOK
  <2>2. LedgerOK'
    BY <1>4, StatusFacts, StatusType DEF MarkBlocked, LedgerOK, audits, billing
  <2>3. QED
    BY <2>1, <2>2
<1>5. CASE ResolveIntent(r)
  <2>1. ControlOK'
    BY <1>5, LabelFacts, ResultFacts, GoType, RejectType
    DEF ResolveIntent, ControlOK
  <2>2. LedgerOK'
    BY <1>5 DEF ResolveIntent, LedgerOK, audits, billing
  <2>3. QED
    BY <2>1, <2>2
<1>6. CASE CheckPermission(r)
  <2>1. ControlOK'
    BY <1>6, LabelFacts, ResultFacts, GoType, RejectType, AbortType
    DEF CheckPermission, ControlOK
  <2>2. txn' \in [Requests -> SUBSET {"ALLOW", "DENY", "row"}]
    BY <1>6, FlushType DEF CheckPermission, LedgerOK
  <2>3. LedgerOK'
    BY <1>6, <2>2 DEF CheckPermission, LedgerOK, audits, billing
  <2>4. QED
    BY <2>1, <2>3
<1>7. CASE CheckQuota(r)
  <2>1. ControlOK'
    BY <1>7, LabelFacts, ResultFacts, GoType, RejectType
    DEF CheckQuota, ControlOK
  <2>2. LedgerOK'
    BY <1>7 DEF CheckQuota, LedgerOK, audits, billing
  <2>3. QED
    BY <2>1, <2>2
<1>8. CASE LookupService(r)
  <2>1. ControlOK'
    BY <1>8, LabelFacts, ResultFacts, GoType, RejectType, AbortType
    DEF LookupService, ControlOK
  <2>2. LedgerOK'
    BY <1>8 DEF LookupService, LedgerOK, audits, billing
  <2>3. QED
    BY <2>1, <2>2
<1>9. CASE RecordRequest(r)
  <2>1. ControlOK'
    BY <1>9, LabelFacts, ResultFacts, GoType, RejectType, AbortType
    DEF RecordRequest, ControlOK
  <2>2. txn' \in [Requests -> SUBSET {"ALLOW", "DENY", "row"}]
    BY <1>9, FlushType DEF RecordRequest, LedgerOK
  <2>3. LedgerOK'
    BY <1>9, <2>2 DEF RecordRequest, LedgerOK, audits, billing
  <2>4. QED
    BY <2>1, <2>3
<1>10. CASE CommitRecord(r)
  <2>1. ControlOK'
    BY <1>10, LabelFacts, ProceedType
    DEF CommitRecord, ControlOK
  <2>2. LedgerOK'
    BY <1>10, CommitType
  <2>3. QED
    BY <2>1, <2>2
<1>11. CASE EvaluatePolicy(r)
  <2>1. ControlOK'
    BY <1>11, LabelFacts, ResultFacts, GoType, RejectType
    DEF EvaluatePolicy, ControlOK
  <2>2. LedgerOK'
    BY <1>11, EvaluateType
  <2>3. QED
    BY <2>1, <2>2
<1>12. CASE AuditResult(r)
  <2>1. ControlOK'
    BY <1>12, LabelFacts, ProceedType
    DEF AuditResult, ControlOK
  <2>2. LedgerOK'
    BY <1>12 DEF AuditResult, LedgerOK, audits, billing
  <2>3. QED
    BY <2>1, <2>2
<1>13. CASE Audited(r)
  <2>1. ControlOK'
    BY <1>13, LabelFacts, GotoType
    DEF Audited, ControlOK
  <2>2. LedgerOK'
    BY <1>13 DEF Audited, LedgerOK, audits, billing
  <2>3. QED
    BY <2>1, <2>2
<1>14. CASE MarkDenied(r)
  <2>1. ControlOK'
    BY <1>14, ResultFacts, RejectType
    DEF MarkDenied, ControlOK
  <2>2. LedgerOK'
    BY <1>14, StatusFacts, StatusType DEF MarkDenied, LedgerOK, audits, billing
  <2>3. QED
    BY <2>1, <2>2
<1>15. CASE BeginStream(r)
  <2>1. ControlOK'
    BY <1>15, LabelFacts, FrameFacts, GotoType, SendType
    DEF BeginStream, ControlOK
  <2>2. LedgerOK'
    BY <1>15 DEF BeginStream, LedgerOK, audits, billing
  <2>3. QED
    BY <2>1, <2>2
<1>16. CASE Dispatch(r)
  <2>1. ControlOK'
    BY <1>16, LabelFacts, GotoType
    DEF Dispatch, ControlOK
  <2>2. LedgerOK'
    BY <1>16 DEF Dispatch, LedgerOK, audits, billing
  <2>3. QED
    BY <2>1, <2>2
<1>17. CASE FirstToken(r)
  <2>1. ControlOK'
    BY <1>17, LabelFacts, FrameFacts, GotoType, SendType
    DEF FirstToken, Emit, ControlOK
  <2>2. LedgerOK'
    BY <1>17, StatusFacts, StatusType DEF FirstToken, LedgerOK, audits, billing
  <2>3. QED
    BY <2>1, <2>2
<1>18. CASE NextToken(r)
  <2>1. ControlOK'
    BY <1>18, FrameFacts, SendType
    DEF NextToken, ControlOK
  <2>2. LedgerOK'
    BY <1>18 DEF NextToken, LedgerOK, audits, billing
  <2>3. QED
    BY <2>1, <2>2
<1>19. CASE StreamEnds(r)
  <2>1. ControlOK'
    BY <1>19, LabelFacts, ResultFacts, GotoType
    DEF StreamEnds, ControlOK
  <2>2. LedgerOK'
    BY <1>19 DEF StreamEnds, LedgerOK, audits, billing
  <2>3. QED
    BY <2>1, <2>2
<1>20. CASE RecordUsage(r)
  <2>1. ControlOK'
    BY <1>20, LabelFacts, GoType, RaiseType
    DEF RecordUsage, ControlOK
  <2>2. LedgerOK'
    BY <1>20 DEF RecordUsage, LedgerOK, audits, billing
  <2>3. QED
    BY <2>1, <2>2
<1>21. CASE ChargeTokens(r)
  <2>1. ControlOK'
    BY <1>21, LabelFacts, GotoType
    DEF ChargeTokens, ControlOK
  <2>2. LedgerOK'
    BY <1>21 DEF ChargeTokens, LedgerOK, audits, billing
  <2>3. QED
    BY <2>1, <2>2
<1>22. CASE FlushTail(r)
  <2>1. ControlOK'
    BY <1>22, LabelFacts, FrameFacts, GotoType, SendType
    DEF FlushTail, ControlOK
  <2>2. LedgerOK'
    BY <1>22 DEF FlushTail, LedgerOK, audits, billing
  <2>3. QED
    BY <2>1, <2>2
<1>23. CASE LogRedaction(r)
  <2>1. ControlOK'
    BY <1>23, LabelFacts, ResultFacts, FrameFacts, GotoType, SendType, RaiseType
    DEF LogRedaction, ControlOK
  <2>2. LedgerOK'
    BY <1>23 DEF LogRedaction, LedgerOK, audits, billing
  <2>3. QED
    BY <2>1, <2>2
<1>24. CASE SendDone(r)
  <2>1. ControlOK'
    BY <1>24, LabelFacts, FrameFacts, GotoType, SendType
    DEF SendDone, ControlOK
  <2>2. LedgerOK'
    BY <1>24 DEF SendDone, LedgerOK, audits, billing
  <2>3. QED
    BY <2>1, <2>2
<1>25. CASE Complete(r)
  <2>1. ControlOK'
    BY <1>25, LabelFacts, ResultFacts, GotoType, GoType, RaiseType
    DEF Complete, ControlOK
  <2>2. LedgerOK'
    BY <1>25, StatusFacts, StatusType DEF Complete, LedgerOK, audits, billing
  <2>3. QED
    BY <2>1, <2>2
<1>26. CASE GuardJson(r)
  <2>1. ControlOK'
    BY <1>26, LabelFacts, ResultFacts, GotoType
    DEF GuardJson, ControlOK
  <2>2. LedgerOK'
    BY <1>26 DEF GuardJson, LedgerOK, audits, billing
  <2>3. QED
    BY <2>1, <2>2
<1>27. CASE SendError(r)
  <2>1. ControlOK'
    BY <1>27, LabelFacts, FrameFacts, GotoType, SendType
    DEF SendError, ControlOK
  <2>2. LedgerOK'
    BY <1>27 DEF SendError, LedgerOK, audits, billing
  <2>3. QED
    BY <2>1, <2>2
<1>28. CASE MarkFailed(r)
  <2>1. ControlOK'
    BY <1>28, LabelFacts, ResultFacts, GotoType, AbortType
    DEF MarkFailed, ControlOK
  <2>2. LedgerOK'
    BY <1>28, StatusFacts, StatusType DEF MarkFailed, LedgerOK, audits, billing
  <2>3. QED
    BY <2>1, <2>2
<1>29. CASE CloseSession(r)
  <2>1. ControlOK'
    BY <1>29, LabelFacts, GotoType
    DEF CloseSession, ControlOK
  <2>2. LedgerOK'
    BY <1>29 DEF CloseSession, LedgerOK, audits, billing
  <2>3. QED
    BY <2>1, <2>2
<1>30. QED
  BY <1>1, <1>2, <1>3, <1>4, <1>5, <1>6, <1>7, <1>8, <1>9, <1>10, <1>11,
     <1>12, <1>13, <1>14, <1>15, <1>16, <1>17, <1>18, <1>19, <1>20, <1>21,
     <1>22, <1>23, <1>24, <1>25, <1>26, <1>27, <1>28, <1>29 DEF Step

\* Every variable keeps its type: no status, label or frame the schema and the
\* clients do not know is ever written.
THEOREM TypeCorrect == Spec => []TypeOK
<1>1. Init => TypeOK
  <2>1. Init => ControlOK
    BY LabelFacts, ResultFacts DEF Init, ControlOK
  <2>2. Init => LedgerOK
    BY StatusFacts, ConstantsAssumption DEF Init, LedgerOK
  <2>3. QED
    BY <2>1, <2>2, SplitType
<1>2. TypeOK /\ [Next]_vars => TypeOK'
  <2> SUFFICES ASSUME TypeOK, [Next]_vars PROVE TypeOK'
    OBVIOUS
  <2> USE SplitType
  <2>1. ASSUME NEW r \in Requests, Arrive(r) PROVE TypeOK'
    <3>1. mode' \in [Requests -> {"stream", "json"}]
      BY <2>1, ConstantsAssumption DEF Arrive, LedgerOK
    <3>2. ControlOK'
      BY <2>1, LabelFacts, GotoType DEF Arrive, ControlOK
    <3>3. QED
      BY <2>1, <3>1, <3>2 DEF Arrive, LedgerOK, audits, billing
  <2>2. ASSUME NEW r \in Requests, Disconnect(r) PROVE TypeOK'
    <3>1. ControlOK'
      BY <2>2, LabelFacts, ResultFacts, GotoType DEF Disconnect, ControlOK
    <3>2. QED
      BY <2>2, <3>1 DEF Disconnect, LedgerOK, audits, billing
  <2>3. CASE Crash
    <3>1. ControlOK'
      BY <2>3, LabelFacts, ResultFacts DEF Crash, ControlOK
    <3>2. LedgerOK'
      BY <2>3, ConstantsAssumption DEF Crash, LedgerOK, audits, billing
    <3>3. QED
      BY <3>1, <3>2
  <2>4. CASE UNCHANGED vars
    BY <2>4 DEF vars, audits, billing, ControlOK, LedgerOK
  <2>5. QED
    BY <2>1, <2>2, <2>3, <2>4, StepType DEF Next
<1>3. QED
  BY <1>1, <1>2, PTL DEF Spec

-----------------------------------------------------------------------------
(* The inductive invariant: what is committed at each point of a request.  *)
(* The gates hold it together: past the permission check the session       *)
(* carries the ALLOW entry, past the policy no DENY is recorded, and past  *)
(* the commit the row is there to be updated.                              *)

\* Before the single commit of Phase C.
BeforeRecord ==
  {"idle", "open", "scan", "event", "mark_blocked", "resolve", "permission",
   "quota", "lookup", "record", "commit"}

\* From that commit to the call of the provider.
BeforeDispatch ==
  {"policy", "audit_allow", "audit_deny", "mark_denied", "begin", "dispatch"}

\* From the call on, until the response is over.
Dispatched ==
  {"first", "streaming", "bill", "charge", "flush", "redact", "finish",
   "complete", "guard", "failing", "mark_failed"}

Open == {"received", "streaming"}

NothingYet(r) ==
  pc[r] \in BeforeRecord =>
    row[r] = "none" /\ permAudit[r] = {} /\ polAudit[r] = {}
    /\ ~dispatched[r] /\ usage[r] = "none" /\ ~charged[r]

ScanVerdict(r) ==
  /\ pc[r] \in {"idle", "open", "scan", "event"} => secEvents[r] = {}
  /\ pc[r] \in (BeforeRecord \ {"mark_blocked"}) \cup BeforeDispatch
       => "blocked" \notin secEvents[r]

Flushed(r) ==
  /\ pc[r] \in {"idle", "open", "scan", "event", "mark_blocked", "resolve",
                "permission"} => txn[r] = {}
  /\ pc[r] \in {"quota", "lookup", "record"} => txn[r] = {"ALLOW"}
  /\ pc[r] = "commit" => txn[r] = {"ALLOW", "row"}

Recorded(r) ==
  pc[r] \in BeforeDispatch =>
    row[r] = "received" /\ permAudit[r] = {"ALLOW"}
    /\ ~dispatched[r] /\ usage[r] = "none" /\ ~charged[r]

PolicyVerdict(r) ==
  /\ pc[r] \in {"policy", "audit_allow", "begin", "dispatch"} =>
       "DENY" \notin polAudit[r]
  /\ pc[r] = "audit_allow" => results[r] \in Seq({"ALLOW"})

Gated(r) ==
  /\ pc[r] \in Dispatched => dispatched[r]
  /\ dispatched[r] =>
       /\ row[r] \in {"received", "streaming", "completed", "failed"}
       /\ "ALLOW" \in permAudit[r] /\ "DENY" \notin permAudit[r] \cup polAudit[r]
       /\ "blocked" \notin secEvents[r]
       /\ pc[r] \notin BeforeRecord \cup BeforeDispatch

\* Where the row and the metering stand while the provider answers.
Answering(r) ==
  /\ pc[r] = "first" => row[r] = "received"
  /\ pc[r] \in {"first", "streaming", "bill"} =>
       row[r] \in Open /\ usage[r] = "none" /\ ~charged[r]
  /\ pc[r] = "charge" => row[r] \in Open /\ usage[r] = "logged" /\ ~charged[r]
  /\ pc[r] \in {"flush", "finish", "complete"} => row[r] \in Open
  /\ pc[r] = "redact" /\ mode[r] = "stream" => row[r] \in Open
  /\ pc[r] = "guard" => mode[r] = "json"
  /\ pc[r] \in {"failing", "mark_failed"} =>
       row[r] \in {"received", "streaming", "completed"} /\ mode[r] \in {"stream", "json"}
  /\ pc[r] \in {"flush", "finish", "complete", "redact", "guard"} => usage[r] # "none"

MeteredAt(r) ==
  /\ result[r] = "answered" => usage[r] # "none"
  /\ charged[r] => usage[r] = "logged"
  /\ usage[r] # "none" => dispatched[r]
  /\ row[r] = "completed" => usage[r] # "none"

IAt(r) ==
  /\ NothingYet(r) /\ ScanVerdict(r) /\ Flushed(r) /\ Recorded(r)
  /\ PolicyVerdict(r) /\ Gated(r) /\ Answering(r) /\ MeteredAt(r)

IInv == \A r \in Requests : IAt(r)

\* A step leaves request q alone, as far as the invariant can tell.
Same(q) ==
  /\ pc'[q] = pc[q] /\ mode'[q] = mode[q] /\ txn'[q] = txn[q] /\ row'[q] = row[q]
  /\ permAudit'[q] = permAudit[q] /\ polAudit'[q] = polAudit[q]
  /\ secEvents'[q] = secEvents[q] /\ results'[q] = results[q]
  /\ dispatched'[q] = dispatched[q] /\ usage'[q] = usage[q]
  /\ charged'[q] = charged[q] /\ result'[q] = result[q] /\ sent'[q] = sent[q]

\* Then it keeps the invariant of q.
LEMMA SameAt == ASSUME NEW q \in Requests, IAt(q), Same(q) PROVE IAt(q)'
BY DEF Same, IAt, NothingYet, ScanVerdict, Flushed, Recorded, PolicyVerdict,
       Gated, Answering, MeteredAt

\* A step of r leaves every other request alone.
LEMMA StepSame ==
  ASSUME TypeOK, NEW r \in Requests, Step(r), NEW q \in Requests \ {r}
  PROVE  Same(q)
<1> USE DEF TypeOK, Same, Goto, Send, audits, billing
<1>1. CASE OpenSession(r)
  BY <1>1 DEF OpenSession, Abort
<1>2. CASE ScanPrompt(r)
  BY <1>2 DEF ScanPrompt
<1>3. CASE LogSecurityEvent(r)
  BY <1>3 DEF LogSecurityEvent, Proceed, Abort, Stay
<1>4. CASE MarkBlocked(r)
  BY <1>4 DEF MarkBlocked, Reject, Abort, SetStatus
<1>5. CASE ResolveIntent(r)
  BY <1>5 DEF ResolveIntent, Reject, Stay
<1>6. CASE CheckPermission(r)
  BY <1>6 DEF CheckPermission, Reject, Abort, Stay
<1>7. CASE CheckQuota(r)
  BY <1>7 DEF CheckQuota, Reject, Stay
<1>8. CASE LookupService(r)
  BY <1>8 DEF LookupService, Reject, Abort, Stay
<1>9. CASE RecordRequest(r)
  BY <1>9 DEF RecordRequest, Reject, Abort, Stay
<1>10. CASE CommitRecord(r)
  BY <1>10 DEF CommitRecord, Proceed, Abort, Stay
<1>11. CASE EvaluatePolicy(r)
  BY <1>11 DEF EvaluatePolicy, Reject, Stay
<1>12. CASE AuditResult(r)
  BY <1>12 DEF AuditResult, Proceed, Abort, Stay
<1>13. CASE Audited(r)
  BY <1>13 DEF Audited
<1>14. CASE MarkDenied(r)
  BY <1>14 DEF MarkDenied, Reject, SetStatus
<1>15. CASE BeginStream(r)
  BY <1>15 DEF BeginStream
<1>16. CASE Dispatch(r)
  BY <1>16 DEF Dispatch
<1>17. CASE FirstToken(r)
  BY <1>17 DEF FirstToken, Emit, SetStatus
<1>18. CASE NextToken(r)
  BY <1>18 DEF NextToken
<1>19. CASE StreamEnds(r)
  BY <1>19 DEF StreamEnds
<1>20. CASE RecordUsage(r)
  BY <1>20 DEF RecordUsage, Raise, Abort, Stay
<1>21. CASE ChargeTokens(r)
  BY <1>21 DEF ChargeTokens
<1>22. CASE FlushTail(r)
  BY <1>22 DEF FlushTail
<1>23. CASE LogRedaction(r)
  BY <1>23 DEF LogRedaction, Raise, Abort, Stay
<1>24. CASE SendDone(r)
  BY <1>24 DEF SendDone
<1>25. CASE Complete(r)
  BY <1>25 DEF Complete, Raise, Abort, SetStatus, Stay
<1>26. CASE GuardJson(r)
  BY <1>26 DEF GuardJson
<1>27. CASE SendError(r)
  BY <1>27 DEF SendError
<1>28. CASE MarkFailed(r)
  BY <1>28 DEF MarkFailed, Abort, SetStatus
<1>29. CASE CloseSession(r)
  BY <1>29 DEF CloseSession
<1>30. QED
  BY <1>1, <1>2, <1>3, <1>4, <1>5, <1>6, <1>7, <1>8, <1>9, <1>10, <1>11,
     <1>12, <1>13, <1>14, <1>15, <1>16, <1>17, <1>18, <1>19, <1>20, <1>21,
     <1>22, <1>23, <1>24, <1>25, <1>26, <1>27, <1>28, <1>29 DEF Step

\* A step of r keeps the invariant of r.
LEMMA StepAt ==
  ASSUME TypeOK, NEW r \in Requests, IAt(r), Step(r)
  PROVE  IAt(r)'
<1> USE DEF TypeOK, IAt, NothingYet, ScanVerdict, Flushed, Recorded, PolicyVerdict,
            Gated, Answering, MeteredAt, BeforeRecord, BeforeDispatch, Dispatched, Open,
            Goto, audits, billing, AuxOutcomes, OwnOutcomes
<1>1. CASE OpenSession(r)
  BY <1>1 DEF OpenSession, Abort
<1>2. CASE ScanPrompt(r)
  BY <1>2 DEF ScanPrompt
<1>3. CASE LogSecurityEvent(r)
  BY <1>3 DEF LogSecurityEvent, Proceed, Abort, Stay
<1>4. CASE MarkBlocked(r)
  BY <1>4 DEF MarkBlocked, Reject, Abort, SetStatus
<1>5. CASE ResolveIntent(r)
  BY <1>5 DEF ResolveIntent, Reject, Stay
<1>6. CASE CheckPermission(r)
  BY <1>6 DEF CheckPermission, Reject, Abort, Stay
<1>7. CASE CheckQuota(r)
  BY <1>7 DEF CheckQuota, Reject, Stay
<1>8. CASE LookupService(r)
  BY <1>8 DEF LookupService, Reject, Abort, Stay
<1>9. CASE RecordRequest(r)
  BY <1>9 DEF RecordRequest, Reject, Abort, Stay
<1>10. CASE CommitRecord(r)
  <2>1. /\ pc[r] = "commit" /\ row[r] = "none" /\ permAudit[r] = {}
        /\ txn[r] = {"ALLOW", "row"} /\ polAudit[r] = {} /\ ~dispatched[r]
        /\ usage[r] = "none" /\ ~charged[r] /\ "blocked" \notin secEvents[r]
    BY <1>10 DEF CommitRecord
  <2>2. UNCHANGED <<mode, scan, polAudit, secEvents, results, dispatched, billing>>
    BY <1>10 DEF CommitRecord
  <2>3. \/ pc'[r] = "policy" /\ row'[r] = "received" /\ permAudit'[r] = {"ALLOW"}
             /\ result'[r] = result[r]
        \/ pc'[r] = "closing" /\ result'[r] = "error"
             /\ row'[r] \in {"none", "received"}
    <3>1. PICK o \in OwnOutcomes(r) :
            /\ IF o = "fail" THEN UNCHANGED <<row, permAudit>>
               ELSE /\ row' = [row EXCEPT ![r] = "received"]
                    /\ permAudit' = [permAudit EXCEPT ![r] = @ \cup (txn[r] \ {"row"})]
            /\ Proceed(r, o, "policy")
      BY <1>10 DEF CommitRecord
    <3>2. CASE o = "ok"
      <4>1. permAudit' = [permAudit EXCEPT ![r] = @ \cup (txn[r] \ {"row"})]
        BY <3>1, <3>2
      <4>2. permAudit'[r] = permAudit[r] \cup (txn[r] \ {"row"})
        BY <4>1
      <4>3. permAudit'[r] = {"ALLOW"}
        BY <2>1, <4>2
      <4>4. QED
        BY <3>1, <3>2, <4>3 DEF Proceed, Stay
    <3>3. CASE o # "ok"
      BY <2>1, <3>1, <3>3 DEF Proceed, Abort
    <3>4. QED
      BY <3>2, <3>3
  <2>4. QED
    BY <2>1, <2>2, <2>3
<1>11. CASE EvaluatePolicy(r)
  BY <1>11 DEF EvaluatePolicy, Reject, Stay
<1>12. CASE AuditResult(r)
  BY <1>12 DEF AuditResult, Proceed, Abort, Stay
<1>13. CASE Audited(r)
  <2>1. UNCHANGED <<mode, conn, txn, row, scan, audits, results, dispatched,
                    billing, sent, result, crashes>>
    BY <1>13 DEF Audited
  <2>2. CASE pc[r] = "audit_allow"
    <3>1. pc'[r] \in {"begin", "dispatch"}
      BY <1>13, <2>2 DEF Audited
    <3>2. QED
      BY <2>1, <2>2, <3>1
  <2>3. CASE pc[r] = "audit_deny"
    <3>1. pc'[r] = "mark_denied"
      BY <1>13, <2>3 DEF Audited
    <3>2. QED
      BY <2>1, <2>3, <3>1
  <2>4. QED
    BY <1>13, <2>2, <2>3 DEF Audited
<1>14. CASE MarkDenied(r)
  BY <1>14 DEF MarkDenied, Reject, SetStatus
<1>15. CASE BeginStream(r)
  BY <1>15 DEF BeginStream
<1>16. CASE Dispatch(r)
  BY <1>16 DEF Dispatch
<1>17. CASE FirstToken(r)
  BY <1>17 DEF FirstToken, Emit, SetStatus
<1>18. CASE NextToken(r)
  BY <1>18 DEF NextToken
<1>19. CASE StreamEnds(r)
  BY <1>19 DEF StreamEnds
<1>20. CASE RecordUsage(r)
  BY <1>20 DEF RecordUsage, Raise, Abort, Stay
<1>21. CASE ChargeTokens(r)
  BY <1>21 DEF ChargeTokens
<1>22. CASE FlushTail(r)
  BY <1>22 DEF FlushTail
<1>23. CASE LogRedaction(r)
  BY <1>23 DEF LogRedaction, Raise, Abort, Stay
<1>24. CASE SendDone(r)
  BY <1>24 DEF SendDone
<1>25. CASE Complete(r)
  BY <1>25 DEF Complete, Raise, Abort, SetStatus, Stay
<1>26. CASE GuardJson(r)
  BY <1>26 DEF GuardJson
<1>27. CASE SendError(r)
  BY <1>27 DEF SendError
<1>28. CASE MarkFailed(r)
  BY <1>28 DEF MarkFailed, Abort, SetStatus
<1>29. CASE CloseSession(r)
  BY <1>29 DEF CloseSession
<1>30. QED
  BY <1>1, <1>2, <1>3, <1>4, <1>5, <1>6, <1>7, <1>8, <1>9, <1>10, <1>11,
     <1>12, <1>13, <1>14, <1>15, <1>16, <1>17, <1>18, <1>19, <1>20, <1>21,
     <1>22, <1>23, <1>24, <1>25, <1>26, <1>27, <1>28, <1>29 DEF Step

\* The invariant holds at first, and every step keeps it.
LEMMA Inductive ==
  /\ Init => IInv
  /\ TypeOK /\ IInv /\ [Next]_vars => IInv'
<1>1. Init => IInv
  BY DEF Init, IInv, IAt, NothingYet, ScanVerdict, Flushed, Recorded,
         PolicyVerdict, Gated, Answering, MeteredAt, BeforeRecord, BeforeDispatch,
         Dispatched
<1>2. ASSUME TypeOK, IInv, [Next]_vars PROVE IInv'
  <2> SUFFICES ASSUME NEW q \in Requests PROVE IAt(q)'
    BY DEF IInv
  <2>0. IAt(q)
    BY <1>2 DEF IInv
  <2>1. ASSUME NEW r \in Requests, Step(r) PROVE IAt(q)'
    <3>1. CASE q = r
      BY <1>2, <2>0, <2>1, <3>1, StepAt
    <3>2. CASE q # r
      <4>1. Same(q)
        BY <1>2, <2>1, <3>2, StepSame
      <4>2. QED
        BY <2>0, <4>1, SameAt
    <3>3. QED
      BY <3>1, <3>2
  <2>2. ASSUME NEW r \in Requests, Arrive(r) PROVE IAt(q)'
    <3>1. pc'[q] = pc[q] \/ (pc[q] = "idle" /\ pc'[q] = "open")
      BY <1>2, <2>2 DEF Arrive, Goto, TypeOK
    <3>2. UNCHANGED <<conn, txn, row, scan, audits, results, dispatched, billing,
                      sent, result, crashes>>
      BY <2>2 DEF Arrive
    <3>3. CASE pc'[q] = pc[q]
      <4>1. pc[q] \in {"redact", "guard", "failing", "mark_failed"} => mode'[q] = mode[q]
        BY <1>2, <2>2, <3>3 DEF Arrive, Goto, TypeOK
      <4>2. QED
        BY <2>0, <3>2, <3>3, <4>1
        DEF IAt, NothingYet, ScanVerdict, Flushed, Recorded, PolicyVerdict,
            Gated, Answering, MeteredAt, audits, billing
    <3>4. CASE pc[q] = "idle" /\ pc'[q] = "open"
      BY <2>0, <3>2, <3>4
      DEF IAt, NothingYet, ScanVerdict, Flushed, Recorded, PolicyVerdict, Gated,
          Answering, MeteredAt, BeforeRecord, BeforeDispatch, Dispatched, audits, billing
    <3>5. QED
      BY <3>1, <3>3, <3>4
  <2>3. ASSUME NEW r \in Requests, Disconnect(r) PROVE IAt(q)'
    <3>1. CASE q = r
      <4>1. pc'[q] = "closing" /\ result'[q] = "cancelled"
        BY <1>2, <2>3, <3>1 DEF Disconnect, Goto, TypeOK
      <4>2. QED
        BY <2>0, <2>3, <4>1
        DEF Disconnect, IAt, NothingYet, ScanVerdict, Flushed, Recorded, PolicyVerdict,
            Gated, Answering, MeteredAt, BeforeRecord, BeforeDispatch, Dispatched,
            audits, billing
    <3>2. CASE q # r
      <4>1. Same(q)
        BY <1>2, <2>3, <3>2 DEF Disconnect, Goto, Same, TypeOK, audits, billing
      <4>2. QED
        BY <2>0, <4>1, SameAt
    <3>3. QED
      BY <3>1, <3>2
  <2>4. ASSUME Crash PROVE IAt(q)'
    <3>1. \/ pc'[q] = pc[q] /\ pc[q] \in {"idle", "end"} /\ result'[q] = result[q]
          \/ pc'[q] = "end" /\ result'[q] = "crashed"
      BY <1>2, <2>4 DEF Crash, TypeOK
    <3>2. txn'[q] = {} /\ UNCHANGED <<mode, row, scan, audits, results, dispatched,
                                      billing, sent>>
      BY <2>4 DEF Crash
    <3>3. QED
      BY <2>0, <3>1, <3>2
      DEF IAt, NothingYet, ScanVerdict, Flushed, Recorded, PolicyVerdict, Gated,
          Answering, MeteredAt, BeforeRecord, BeforeDispatch, Dispatched, audits, billing
  <2>5. CASE UNCHANGED vars
    <3>1. Same(q)
      BY <2>5 DEF Same, vars, audits, billing
    <3>2. QED
      BY <2>0, <3>1, SameAt
  <2>6. QED
    BY <1>2, <2>1, <2>2, <2>3, <2>4, <2>5 DEF Next
<1>3. QED
  BY <1>1, <1>2

\* The invariant holds in every reachable state.
LEMMA Invariant == Spec => []IInv
BY Inductive, TypeCorrect, PTL DEF Spec

-----------------------------------------------------------------------------
(* What the invariant gives. *)

\* No prompt reaches a provider but behind its committed row and ALLOW entry,
\* with no DENY of the permission or the policy and no blocking scan.
THEOREM ProviderGatedAlways == Spec => []ProviderGated
<1>1. IInv => ProviderGated
  BY DEF IInv, IAt, Gated, ProviderGated
<1>2. QED
  BY <1>1, Invariant, PTL

\* An answered or completed request has been metered, and the Redis counter
\* moves only with a usage row of a request the provider saw.
THEOREM MeteredAlways == Spec => []Metered
<1>1. IInv => Metered
  BY DEF IInv, IAt, MeteredAt, Metered
<1>2. QED
  BY <1>1, Invariant, PTL

-----------------------------------------------------------------------------
(* How a request ends.  The clauses of ResultMatchesRow are kept by what    *)
(* IAt knows of the row, by no request having a result before it closes,   *)
(* and by the row a JSON answer has when its output guard runs.            *)

EndAt(r) ==
  /\ pc[r] \notin {"closing", "end"} => result[r] = "pending"
  /\ pc[r] = "flush" => mode[r] = "stream"
  /\ pc[r] = "guard" => row[r] = "completed"
  /\ pc[r] = "redact" /\ mode[r] = "json" => row[r] = "completed"
  /\ result[r] \in {"blocked", "unauthorized", "rejected"} => row[r] = "none"
  /\ result[r] = "policyError" => row[r] = "received"
  /\ result[r] = "denied" => row[r] \in {"denied", "received"}
  /\ result[r] = "answered" => row[r] = "completed"
  /\ result[r] = "truncated" => row[r] \in {"received", "streaming"}
  /\ row[r] = "denied" => result[r] \in {"denied", "cancelled", "crashed"}

\* A step of r keeps it.
LEMMA StepEnd ==
  ASSUME TypeOK, NEW r \in Requests, IAt(r), EndAt(r), Step(r)
  PROVE  EndAt(r)'
<1>0. /\ pc[r] \in BeforeRecord => row[r] = "none"
      /\ pc[r] \in BeforeDispatch => row[r] = "received"
      /\ pc[r] \in {"first", "streaming", "bill", "charge", "flush", "finish", "complete"}
           => row[r] \in Open
      /\ pc[r] = "redact" /\ mode[r] = "stream" => row[r] \in Open
      /\ pc[r] \in {"failing", "mark_failed"} =>
           row[r] \in {"received", "streaming", "completed"}
      /\ mode[r] \in {"stream", "json"}
  BY DEF IAt, NothingYet, Recorded, Answering, TypeOK
<1> USE <1>0 DEF TypeOK, EndAt, BeforeRecord, BeforeDispatch, Open, Goto
<1>1. CASE OpenSession(r)
  BY <1>1 DEF OpenSession, Abort
<1>2. CASE ScanPrompt(r)
  BY <1>2 DEF ScanPrompt
<1>3. CASE LogSecurityEvent(r)
  BY <1>3 DEF LogSecurityEvent, Proceed, Abort, Stay
<1>4. CASE MarkBlocked(r)
  BY <1>4 DEF MarkBlocked, Reject, Abort, SetStatus
<1>5. CASE ResolveIntent(r)
  BY <1>5 DEF ResolveIntent, Reject, Stay
<1>6. CASE CheckPermission(r)
  BY <1>6 DEF CheckPermission, Reject, Abort, Stay
<1>7. CASE CheckQuota(r)
  BY <1>7 DEF CheckQuota, Reject, Stay
<1>8. CASE LookupService(r)
  BY <1>8 DEF LookupService, Reject, Abort, Stay
<1>9. CASE RecordRequest(r)
  BY <1>9 DEF RecordRequest, Reject, Abort, Stay
<1>10. CASE CommitRecord(r)
  BY <1>10 DEF CommitRecord, Proceed, Abort, Stay
<1>11. CASE EvaluatePolicy(r)
  BY <1>11 DEF EvaluatePolicy, Reject, Stay
<1>12. CASE AuditResult(r)
  BY <1>12 DEF AuditResult, Proceed, Abort, Stay
<1>13. CASE Audited(r)
  BY <1>13 DEF Audited
<1>14. CASE MarkDenied(r)
  BY <1>14 DEF MarkDenied, Reject, SetStatus
<1>15. CASE BeginStream(r)
  BY <1>15 DEF BeginStream
<1>16. CASE Dispatch(r)
  BY <1>16 DEF Dispatch
<1>17. CASE FirstToken(r)
  BY <1>17 DEF FirstToken, Emit, SetStatus
<1>18. CASE NextToken(r)
  BY <1>18 DEF NextToken
<1>19. CASE StreamEnds(r)
  BY <1>19 DEF StreamEnds
<1>20. CASE RecordUsage(r)
  BY <1>20 DEF RecordUsage, Raise, Abort, Stay
<1>21. CASE ChargeTokens(r)
  BY <1>21 DEF ChargeTokens
<1>22. CASE FlushTail(r)
  BY <1>22 DEF FlushTail
<1>23. CASE LogRedaction(r)
  BY <1>23 DEF LogRedaction, Raise, Abort, Stay
<1>24. CASE SendDone(r)
  BY <1>24 DEF SendDone
<1>25. CASE Complete(r)
  BY <1>25 DEF Complete, Raise, Abort, SetStatus, Stay
<1>26. CASE GuardJson(r)
  BY <1>26 DEF GuardJson
<1>27. CASE SendError(r)
  BY <1>27 DEF SendError
<1>28. CASE MarkFailed(r)
  BY <1>28 DEF MarkFailed, Abort, SetStatus
<1>29. CASE CloseSession(r)
  BY <1>29 DEF CloseSession
<1>30. QED
  BY <1>1, <1>2, <1>3, <1>4, <1>5, <1>6, <1>7, <1>8, <1>9, <1>10, <1>11,
     <1>12, <1>13, <1>14, <1>15, <1>16, <1>17, <1>18, <1>19, <1>20, <1>21,
     <1>22, <1>23, <1>24, <1>25, <1>26, <1>27, <1>28, <1>29 DEF Step

-----------------------------------------------------------------------------
(* The SSE frames.  While a request can still send tokens it has sent      *)
(* neither done nor error, and before its first token it has sent start.   *)

\* One sequence of frames in the order FrameOrder asks for.
Ordered(s) ==
  \A i, j \in DOMAIN s : i < j =>
    /\ s[j] # "thinking"
    /\ s[j] \in {"token", "done"} => s[i] \in {"thinking", "start", "token"}
    /\ s[j] = "token" => \E k \in 1 .. j - 1 : s[k] = "start"
    /\ s[i] = "done" => s[j] = "error"
    /\ s[i] # "error"

Running(s) == \A i \in DOMAIN s : s[i] \in {"thinking", "start", "token"}
Started(s) == \E i \in DOMAIN s : s[i] = "start"
Unfailed(s) == \A i \in DOMAIN s : s[i] # "error"

\* The labels of a request that runs, up to its done frame.
BeforeDone ==
  {"scan", "event", "mark_blocked", "resolve", "permission", "quota", "lookup",
   "record", "commit", "policy", "audit_allow", "audit_deny", "mark_denied",
   "begin", "dispatch", "first", "streaming", "bill", "charge", "flush", "finish"}

FrameAt(r) ==
  /\ Ordered(sent[r])
  /\ pc[r] \in {"idle", "open"} => sent[r] = <<>>
  /\ pc[r] \in BeforeDone \/ (pc[r] = "redact" /\ mode[r] = "stream") => Running(sent[r])
  /\ pc[r] \in {"first", "streaming", "flush", "finish"} => Started(sent[r])
  /\ pc[r] \in {"dispatch", "bill", "charge", "redact"} /\ mode[r] = "stream" =>
       Started(sent[r])
  /\ pc[r] \in {"failing", "complete"} => Unfailed(sent[r])
  /\ pc[r] \in {"flush", "finish"} => mode[r] = "stream"
  /\ pc[r] = "guard" => mode[r] = "json"

\* The first frame is in order, and so is none.
LEMMA FirstFrame ==
  ASSUME NEW s \in Seq(Frames), s = <<>>
  PROVE  /\ Ordered(s) /\ Running(s) /\ Unfailed(s)
         /\ Ordered(Append(s, "thinking")) /\ Running(Append(s, "thinking"))
         /\ Ordered(Append(s, "error"))
BY DEF Ordered, Running, Unfailed

\* A running sequence has no error frame.
LEMMA RunningUnfailed ==
  ASSUME NEW s \in Seq(Frames), Running(s) PROVE Unfailed(s)
BY DEF Running, Unfailed

\* The frame that announces the answer, after the first.
LEMMA StartFrame ==
  ASSUME NEW s \in Seq(Frames), Ordered(s), Running(s)
  PROVE  LET t == Append(s, "start") IN Ordered(t) /\ Running(t) /\ Started(t)
<1> DEFINE t == Append(s, "start")
<1>1. /\ Len(s) \in Nat /\ DOMAIN s = 1 .. Len(s) /\ DOMAIN t = 1 .. Len(s) + 1
      /\ t[Len(s) + 1] = "start" /\ \A i \in 1 .. Len(s) : t[i] = s[i]
  OBVIOUS
<1> HIDE DEF t
<1>2. Running(t) /\ Started(t)
  BY <1>1 DEF Running, Started
<1>3. Ordered(t)
  BY <1>1 DEF Ordered, Running
<1>4. QED
  BY <1>2, <1>3 DEF t

\* A token, once the answer has been announced.
LEMMA TokenFrame ==
  ASSUME NEW s \in Seq(Frames), Ordered(s), Running(s), Started(s)
  PROVE  LET t == Append(s, "token") IN Ordered(t) /\ Running(t) /\ Started(t)
<1> DEFINE t == Append(s, "token")
<1>1. /\ Len(s) \in Nat /\ DOMAIN s = 1 .. Len(s) /\ DOMAIN t = 1 .. Len(s) + 1
      /\ t[Len(s) + 1] = "token" /\ \A i \in 1 .. Len(s) : t[i] = s[i]
  OBVIOUS
<1> HIDE DEF t
<1>2. Running(t) /\ Started(t)
  BY <1>1 DEF Running, Started
<1>3. Ordered(t)
  <2> SUFFICES ASSUME NEW i \in 1 .. Len(s) + 1, NEW j \in 1 .. Len(s) + 1, i < j
      PROVE  /\ t[j] # "thinking"
             /\ t[j] \in {"token", "done"} => t[i] \in {"thinking", "start", "token"}
             /\ t[j] = "token" => \E k \in 1 .. j - 1 : t[k] = "start"
             /\ t[i] = "done" => t[j] = "error"
             /\ t[i] # "error"
    BY <1>1 DEF Ordered
  <2>1. i \in 1 .. Len(s) /\ t[i] \in {"thinking", "start", "token"}
    BY <1>1 DEF Running
  <2>2. CASE j = Len(s) + 1
    <3>1. \E k \in 1 .. j - 1 : t[k] = "start"
      BY <1>1, <2>2 DEF Started
    <3>2. QED
      BY <1>1, <2>1, <2>2, <3>1
  <2>3. CASE j # Len(s) + 1
    <3>1. j \in 1 .. Len(s) /\ t[j] = s[j] /\ t[i] = s[i]
      BY <1>1, <2>1, <2>3
    <3>2. s[j] = "token" => \E k \in 1 .. j - 1 : s[k] = "start"
      BY <1>1, <2>1, <3>1 DEF Ordered
    <3>3. \A k \in 1 .. j - 1 : t[k] = s[k]
      BY <1>1, <3>1
    <3>4. QED
      BY <1>1, <2>1, <3>1, <3>2, <3>3 DEF Ordered
  <2>4. QED
    BY <2>2, <2>3
<1>4. QED
  BY <1>2, <1>3 DEF t

\* The done frame.
LEMMA DoneFrame ==
  ASSUME NEW s \in Seq(Frames), Ordered(s), Running(s)
  PROVE  LET t == Append(s, "done") IN Ordered(t) /\ Unfailed(t)
<1> DEFINE t == Append(s, "done")
<1>1. /\ Len(s) \in Nat /\ DOMAIN s = 1 .. Len(s) /\ DOMAIN t = 1 .. Len(s) + 1
      /\ t[Len(s) + 1] = "done" /\ \A i \in 1 .. Len(s) : t[i] = s[i]
  OBVIOUS
<1> HIDE DEF t
<1>2. Unfailed(t)
  BY <1>1 DEF Running, Unfailed
<1>3. Ordered(t)
  BY <1>1 DEF Ordered, Running
<1>4. QED
  BY <1>2, <1>3 DEF t

\* The error frame, after which there is none.
LEMMA ErrorFrame ==
  ASSUME NEW s \in Seq(Frames), Ordered(s), Unfailed(s)
  PROVE  Ordered(Append(s, "error"))
<1> DEFINE t == Append(s, "error")
<1>1. /\ Len(s) \in Nat /\ DOMAIN s = 1 .. Len(s) /\ DOMAIN t = 1 .. Len(s) + 1
      /\ t[Len(s) + 1] = "error" /\ \A i \in 1 .. Len(s) : t[i] = s[i]
  OBVIOUS
<1> HIDE DEF t
<1>2. Ordered(t)
  BY <1>1 DEF Ordered, Unfailed
<1>3. QED
  BY <1>2 DEF t

\* A refusal and an uncaught exception leave the frames in order.
LEMMA RejectFrames ==
  ASSUME TypeOK, NEW r \in Requests, NEW why, Ordered(sent[r]), Running(sent[r]),
         Reject(r, why)
  PROVE  Ordered(sent'[r]) /\ pc'[r] = "closing"
<1>1. sent[r] \in Seq(Frames)
  BY DEF TypeOK
<1>2. pc'[r] = "closing"
  BY DEF Reject, Goto, TypeOK
<1>3. sent'[r] = sent[r] \/ sent'[r] = Append(sent[r], "error")
  BY DEF Reject, Send, TypeOK
<1>4. QED
  BY <1>1, <1>2, <1>3, RunningUnfailed, ErrorFrame

\* A step of r keeps FrameAt of r.
LEMMA StepFrames ==
  ASSUME TypeOK, NEW r \in Requests, FrameAt(r), Step(r)
  PROVE  FrameAt(r)'
<1>0. /\ sent[r] \in Seq(Frames)
      /\ mode[r] \in {"stream", "json"}
      /\ Running(sent[r]) => Unfailed(sent[r])
  BY RunningUnfailed DEF TypeOK
<1>a. ASSUME NEW why, Reject(r, why), pc[r] \in BeforeDone PROVE FrameAt(r)'
  <2>1. Ordered(sent'[r]) /\ pc'[r] = "closing"
    BY <1>a, RejectFrames DEF FrameAt
  <2>2. QED
    BY <2>1 DEF FrameAt, BeforeDone
<1>b. /\ \A f : Send(r, f) => sent'[r] = Append(sent[r], f)
      /\ sent[r] = <<>> =>
           Ordered(Append(sent[r], "thinking")) /\ Running(Append(sent[r], "thinking"))
      /\ FrameAt(r) /\ Running(sent[r]) =>
           /\ Ordered(Append(sent[r], "start")) /\ Running(Append(sent[r], "start"))
           /\ Started(Append(sent[r], "start"))
           /\ Ordered(Append(sent[r], "done")) /\ Unfailed(Append(sent[r], "done"))
      /\ FrameAt(r) /\ Running(sent[r]) /\ Started(sent[r]) =>
           /\ Ordered(Append(sent[r], "token")) /\ Running(Append(sent[r], "token"))
           /\ Started(Append(sent[r], "token"))
      /\ FrameAt(r) /\ Unfailed(sent[r]) => Ordered(Append(sent[r], "error"))
  <2>1. \A f : Send(r, f) => sent'[r] = Append(sent[r], f)
    BY DEF Send, TypeOK
  <2>2. QED
    BY <1>0, <2>1, FirstFrame, StartFrame, TokenFrame, DoneFrame, ErrorFrame DEF FrameAt
<1> USE <1>0 DEF TypeOK, FrameAt, BeforeDone, Goto
<1>1. CASE OpenSession(r)
  <2>1. sent[r] = <<>>
    BY <1>1 DEF OpenSession
  <2>2. Ordered(sent[r]) /\ Running(sent[r])
    BY <2>1, FirstFrame, <1>0
  <2>3. \/ pc'[r] = "scan" /\ sent'[r] \in {sent[r], Append(sent[r], "thinking")}
        \/ pc'[r] = "closing" /\ sent'[r] = sent[r]
    <3>1. PICK o \in AuxOutcomes :
            IF o = "ok"
            THEN /\ Goto(r, "scan")
                 /\ IF mode[r] = "stream" THEN Send(r, "thinking") ELSE UNCHANGED sent
            ELSE Abort(r)
      BY <1>1 DEF OpenSession
    <3>2. QED
      BY <1>b, <3>1 DEF Abort
  <2>4. QED
    BY <1>b, <2>1, <2>2, <2>3
<1>2. CASE ScanPrompt(r)
  BY <1>2 DEF ScanPrompt
<1>3. CASE LogSecurityEvent(r)
  BY <1>3 DEF LogSecurityEvent, Proceed, Abort, Stay
<1>4. CASE MarkBlocked(r)
  BY <1>a, <1>4 DEF MarkBlocked, Abort
<1>5. CASE ResolveIntent(r)
  BY <1>a, <1>5 DEF ResolveIntent, Stay
<1>6. CASE CheckPermission(r)
  BY <1>a, <1>6 DEF CheckPermission, Abort, Stay
<1>7. CASE CheckQuota(r)
  BY <1>a, <1>7 DEF CheckQuota, Stay
<1>8. CASE LookupService(r)
  BY <1>a, <1>8 DEF LookupService, Abort, Stay
<1>9. CASE RecordRequest(r)
  BY <1>a, <1>9 DEF RecordRequest, Abort, Stay
<1>10. CASE CommitRecord(r)
  BY <1>10 DEF CommitRecord, Proceed, Abort, Stay
<1>11. CASE EvaluatePolicy(r)
  BY <1>a, <1>11 DEF EvaluatePolicy, Stay
<1>12. CASE AuditResult(r)
  BY <1>12 DEF AuditResult, Proceed, Abort, Stay
<1>13. CASE Audited(r)
  BY <1>13 DEF Audited
<1>14. CASE MarkDenied(r)
  BY <1>a, <1>14 DEF MarkDenied
<1>15. CASE BeginStream(r)
  <2>1. /\ pc[r] = "begin" /\ pc'[r] = "dispatch"
        /\ sent'[r] = Append(sent[r], "start")
    BY <1>b, <1>15 DEF BeginStream
  <2>2. QED
    BY <1>b, <2>1
<1>16. CASE Dispatch(r)
  BY <1>16 DEF Dispatch
<1>17. CASE FirstToken(r)
  <2>1. pc[r] = "first" /\ mode' = mode
    BY <1>17 DEF FirstToken
  <2>2. \/ pc'[r] = "streaming" /\ sent'[r] \in {sent[r], Append(sent[r], "token")}
        \/ pc'[r] = "failing" /\ sent'[r] = sent[r]
    <3>1. PICK o \in AuxOutcomes :
            IF o = "ok" THEN Goto(r, "streaming") /\ Emit(r)
                        ELSE Goto(r, "failing") /\ UNCHANGED sent
      BY <1>17 DEF FirstToken
    <3>2. QED
      BY <1>b, <3>1 DEF Emit
  <2>3. QED
    BY <1>b, <2>1, <2>2
<1>18. CASE NextToken(r)
  <2>1. /\ pc[r] = "streaming" /\ pc' = pc /\ mode' = mode
        /\ sent'[r] = Append(sent[r], "token")
    BY <1>b, <1>18 DEF NextToken
  <2>2. QED
    BY <1>b, <2>1
<1>19. CASE StreamEnds(r)
  BY <1>19 DEF StreamEnds
<1>20. CASE RecordUsage(r)
  BY <1>20 DEF RecordUsage, Raise, Abort, Stay
<1>21. CASE ChargeTokens(r)
  BY <1>21 DEF ChargeTokens
<1>22. CASE FlushTail(r)
  <2>1. pc[r] = "flush" /\ mode' = mode
    BY <1>22 DEF FlushTail
  <2>2. \/ pc'[r] = "finish" /\ sent'[r] \in {sent[r], Append(sent[r], "token")}
        \/ pc'[r] = "redact" /\ sent'[r] = sent[r]
    BY <1>b, <1>22 DEF FlushTail
  <2>3. QED
    BY <1>b, <2>1, <2>2
<1>23. CASE LogRedaction(r)
  <2>1. pc[r] = "redact" /\ mode' = mode
    BY <1>23 DEF LogRedaction
  <2>2. \/ /\ mode[r] = "stream"
           /\ \/ pc'[r] = "finish" /\ sent'[r] = Append(sent[r], "token")
              \/ pc'[r] = "failing" /\ sent'[r] = sent[r]
        \/ pc'[r] = "closing" /\ sent'[r] = sent[r]
    BY <1>b, <1>23 DEF LogRedaction, Raise, Abort, Stay
  <2>3. QED
    BY <1>b, <2>1, <2>2
<1>24. CASE SendDone(r)
  BY <1>b, <1>24 DEF SendDone
<1>25. CASE Complete(r)
  BY <1>25 DEF Complete, Raise, Abort, Stay
<1>26. CASE GuardJson(r)
  BY <1>26 DEF GuardJson
<1>27. CASE SendError(r)
  BY <1>b, <1>27 DEF SendError
<1>28. CASE MarkFailed(r)
  BY <1>28 DEF MarkFailed, Abort
<1>29. CASE CloseSession(r)
  BY <1>29 DEF CloseSession
<1>30. QED
  BY <1>1, <1>2, <1>3, <1>4, <1>5, <1>6, <1>7, <1>8, <1>9, <1>10, <1>11,
     <1>12, <1>13, <1>14, <1>15, <1>16, <1>17, <1>18, <1>19, <1>20, <1>21,
     <1>22, <1>23, <1>24, <1>25, <1>26, <1>27, <1>28, <1>29 DEF Step

\* What the client was told, for every request.
Told == \A r \in Requests : EndAt(r) /\ FrameAt(r)

\* A step that leaves what q says alone keeps both parts for q.
LEMMA SameTold ==
  ASSUME NEW q \in Requests, EndAt(q), FrameAt(q), Same(q)
  PROVE  EndAt(q)' /\ FrameAt(q)'
BY DEF Same, EndAt, FrameAt

\* Told holds at first, and every step keeps it.
LEMMA ToldInductive ==
  /\ Init => Told
  /\ TypeOK /\ IInv /\ Told /\ [Next]_vars => Told'
<1>1. Init => Told
  <2> SUFFICES ASSUME Init, NEW r \in Requests PROVE EndAt(r) /\ FrameAt(r)
    BY DEF Told
  <2>1. sent[r] = <<>> /\ Ordered(<<>>)
    BY DEF Init, Ordered
  <2>2. QED
    BY <2>1 DEF Init, EndAt, FrameAt, BeforeDone
<1>2. ASSUME TypeOK, IInv, Told, [Next]_vars PROVE Told'
  <2> SUFFICES ASSUME NEW q \in Requests PROVE EndAt(q)' /\ FrameAt(q)'
    BY DEF Told
  <2>0. IAt(q) /\ EndAt(q) /\ FrameAt(q)
    BY <1>2 DEF IInv, Told
  <2>1. ASSUME NEW r \in Requests, Step(r) PROVE EndAt(q)' /\ FrameAt(q)'
    <3>1. CASE q = r
      BY <1>2, <2>0, <2>1, <3>1, StepEnd, StepFrames
    <3>2. CASE q # r
      <4>1. Same(q)
        BY <1>2, <2>1, <3>2, StepSame
      <4>2. QED
        BY <2>0, <4>1, SameTold
    <3>3. QED
      BY <3>1, <3>2
  <2>2. ASSUME NEW r \in Requests, Arrive(r) PROVE EndAt(q)' /\ FrameAt(q)'
    <3>1. CASE q = r
      <4>1. pc[q] = "idle" /\ pc'[q] = "open" /\ sent' = sent /\ row' = row /\ result' = result
        BY <1>2, <2>2, <3>1 DEF Arrive, Goto, TypeOK
      <4>2. QED
        BY <2>0, <4>1 DEF EndAt, FrameAt, BeforeDone
    <3>2. CASE q # r
      <4>1. Same(q)
        BY <1>2, <2>2, <3>2 DEF Arrive, Goto, Same, TypeOK, audits, billing
      <4>2. QED
        BY <2>0, <4>1, SameTold
    <3>3. QED
      BY <3>1, <3>2
  <2>3. ASSUME NEW r \in Requests, Disconnect(r) PROVE EndAt(q)' /\ FrameAt(q)'
    <3>1. CASE q = r
      <4>1. /\ pc'[q] = "closing" /\ result'[q] = "cancelled" /\ result[q] = "pending"
            /\ sent' = sent /\ row' = row
        BY <1>2, <2>0, <2>3, <3>1 DEF Disconnect, Goto, TypeOK, EndAt
      <4>2. QED
        BY <2>0, <4>1 DEF EndAt, FrameAt, BeforeDone
    <3>2. CASE q # r
      <4>1. Same(q)
        BY <1>2, <2>3, <3>2 DEF Disconnect, Goto, Same, TypeOK, audits, billing
      <4>2. QED
        BY <2>0, <4>1, SameTold
    <3>3. QED
      BY <3>1, <3>2
  <2>4. ASSUME Crash PROVE EndAt(q)' /\ FrameAt(q)'
    <3>1. \/ pc'[q] = pc[q] /\ pc[q] \in {"idle", "end"} /\ result'[q] = result[q]
          \/ pc'[q] = "end" /\ result'[q] = "crashed"
      BY <1>2, <2>4 DEF Crash, TypeOK
    <3>2. mode' = mode /\ row' = row /\ sent' = sent
      BY <2>4 DEF Crash
    <3>3. QED
      BY <2>0, <3>1, <3>2 DEF EndAt, FrameAt, BeforeDone
  <2>5. CASE UNCHANGED vars
    <3>1. Same(q)
      BY <2>5 DEF Same, vars, audits, billing
    <3>2. QED
      BY <2>0, <3>1, SameTold
  <2>6. QED
    BY <1>2, <2>1, <2>2, <2>3, <2>4, <2>5 DEF Next
<1>3. QED
  BY <1>1, <1>2

\* It holds in every reachable state.
LEMMA ToldInvariant == Spec => []Told
BY ToldInductive, TypeCorrect, Invariant, PTL DEF Spec

\* What the client was told agrees with the row: an answered request is
\* completed, one refused before Phase C has no row, and a "received" or
\* "streaming" row that stays behind has a cause.
THEOREM ResultMatchesRowAlways == Spec => []ResultMatchesRow
<1>1. Told => ResultMatchesRow
  BY DEF Told, EndAt, ResultMatchesRow
<1>2. QED
  BY <1>1, ToldInvariant, PTL

\* The frames of a stream come in the order the client relies on: thinking,
\* start, tokens, one done, and nothing after an error.
THEOREM FrameOrderAlways == Spec => []FrameOrder
<1>1. Told => FrameOrder
  BY DEF Told, FrameAt, Ordered, FrameOrder
<1>2. QED
  BY <1>1, ToldInvariant, PTL

-----------------------------------------------------------------------------
(* The contract. *)

\* What a step of a request does to the ledger, seen as a step of the contract.
Ledger(r) ==
  \/ Contract!Admit(r) \/ Contract!Deny(r) \/ Contract!CallProvider(r)
  \/ Contract!StartStreaming(r) \/ Contract!Meter(r) \/ Contract!Charge(r)
  \/ Contract!Complete(r) \/ Contract!Fail(r)
  \/ UNCHANGED Contract!vars

\* Every step of a request is a step of the contract, or leaves the ledger alone.
LEMMA StepImplements ==
  ASSUME TypeOK, NEW r \in Requests, IAt(r), Step(r)
  PROVE  Ledger(r)
<1>1. CASE OpenSession(r)
  BY <1>1 DEF OpenSession, Ledger, Contract!vars, billing
<1>2. CASE ScanPrompt(r)
  BY <1>2 DEF ScanPrompt, Ledger, Contract!vars, billing
<1>3. CASE LogSecurityEvent(r)
  BY <1>3 DEF LogSecurityEvent, Ledger, Contract!vars, billing
<1>4. CASE MarkBlocked(r)
  <2>1. row[r] = "none"
    BY <1>4 DEF MarkBlocked, IAt, NothingYet, Recorded, Gated, Answering,
              BeforeRecord, BeforeDispatch, Dispatched, Open
  <2>2. UNCHANGED Contract!vars
    BY <1>4, <2>1 DEF MarkBlocked, Contract!vars, billing, SetStatus
  <2>3. QED
    BY <2>2 DEF Ledger
<1>5. CASE ResolveIntent(r)
  BY <1>5 DEF ResolveIntent, Ledger, Contract!vars, billing
<1>6. CASE CheckPermission(r)
  BY <1>6 DEF CheckPermission, Ledger, Contract!vars, billing
<1>7. CASE CheckQuota(r)
  BY <1>7 DEF CheckQuota, Ledger, Contract!vars, billing
<1>8. CASE LookupService(r)
  BY <1>8 DEF LookupService, Ledger, Contract!vars, billing
<1>9. CASE RecordRequest(r)
  BY <1>9 DEF RecordRequest, Ledger, Contract!vars, billing
<1>10. CASE CommitRecord(r)
  <2>1. row[r] = "none"
    BY <1>10 DEF CommitRecord, IAt, NothingYet, Recorded, Gated, Answering,
              BeforeRecord, BeforeDispatch, Dispatched, Open
  <2>2. Contract!Admit(r) \/ UNCHANGED Contract!vars
    BY <1>10, <2>1 DEF CommitRecord, Contract!Admit, Contract!vars, billing, Open, TypeOK
  <2>3. QED
    BY <2>2 DEF Ledger
<1>11. CASE EvaluatePolicy(r)
  BY <1>11 DEF EvaluatePolicy, Ledger, Contract!vars, billing
<1>12. CASE AuditResult(r)
  BY <1>12 DEF AuditResult, Ledger, Contract!vars, billing
<1>13. CASE Audited(r)
  BY <1>13 DEF Audited, Ledger, Contract!vars, billing
<1>14. CASE MarkDenied(r)
  <2>1. row[r] = "received" /\ ~dispatched[r]
    BY <1>14 DEF MarkDenied, IAt, NothingYet, Recorded, Gated, Answering,
              BeforeRecord, BeforeDispatch, Dispatched, Open
  <2>2. Contract!Deny(r) \/ UNCHANGED Contract!vars
    BY <1>14, <2>1 DEF MarkDenied, Contract!Deny, Contract!vars, billing, Open, TypeOK, SetStatus
  <2>3. QED
    BY <2>2 DEF Ledger
<1>15. CASE BeginStream(r)
  BY <1>15 DEF BeginStream, Ledger, Contract!vars, billing
<1>16. CASE Dispatch(r)
  <2>1. row[r] = "received" /\ ~dispatched[r]
    BY <1>16 DEF Dispatch, IAt, NothingYet, Recorded, Gated, Answering,
              BeforeRecord, BeforeDispatch, Dispatched, Open
  <2>2. Contract!CallProvider(r) \/ UNCHANGED Contract!vars
    BY <1>16, <2>1 DEF Dispatch, Contract!CallProvider, Contract!vars, billing, Open, TypeOK
  <2>3. QED
    BY <2>2 DEF Ledger
<1>17. CASE FirstToken(r)
  <2>1. row[r] = "received" /\ dispatched[r] /\ usage[r] = "none"
    BY <1>17 DEF FirstToken, IAt, NothingYet, Recorded, Gated, Answering,
              BeforeRecord, BeforeDispatch, Dispatched, Open
  <2>2. Contract!StartStreaming(r) \/ UNCHANGED Contract!vars
    BY <1>17, <2>1 DEF FirstToken, Contract!StartStreaming, Contract!vars, billing, Open, TypeOK, SetStatus
  <2>3. QED
    BY <2>2 DEF Ledger
<1>18. CASE NextToken(r)
  BY <1>18 DEF NextToken, Ledger, Contract!vars, billing
<1>19. CASE StreamEnds(r)
  BY <1>19 DEF StreamEnds, Ledger, Contract!vars, billing
<1>20. CASE RecordUsage(r)
  <2>1. row[r] \in Open /\ dispatched[r] /\ usage[r] = "none"
    BY <1>20 DEF RecordUsage, IAt, NothingYet, Recorded, Gated, Answering,
              BeforeRecord, BeforeDispatch, Dispatched, Open
  <2>2. Contract!Meter(r) \/ UNCHANGED Contract!vars
    BY <1>20, <2>1 DEF RecordUsage, Contract!Meter, Contract!vars, billing, Open, TypeOK
  <2>3. QED
    BY <2>2 DEF Ledger
<1>21. CASE ChargeTokens(r)
  <2>1. row[r] \in Open /\ usage[r] = "logged" /\ ~charged[r]
    BY <1>21 DEF ChargeTokens, IAt, NothingYet, Recorded, Gated, Answering,
              BeforeRecord, BeforeDispatch, Dispatched, Open
  <2>2. charged' = [charged EXCEPT ![r] = TRUE] \/ charged' = charged
    <3>1. PICK up \in BOOLEAN : charged' = [charged EXCEPT ![r] = up]
      BY <1>21 DEF ChargeTokens
    <3>2. CASE up = TRUE
      BY <3>1, <3>2
    <3>3. CASE up = FALSE
      <4>1. charged[r] = FALSE
        BY <2>1 DEF TypeOK
      <4>2. charged' = [charged EXCEPT ![r] = FALSE]
        BY <3>1, <3>3
      <4>3. QED
        BY <4>1, <4>2 DEF TypeOK
    <3>4. QED
      BY <3>2, <3>3
  <2>3. Contract!Charge(r) \/ UNCHANGED Contract!vars
    BY <1>21, <2>1, <2>2 DEF ChargeTokens, Contract!Charge, Contract!vars, Open
  <2>4. QED
    BY <2>3 DEF Ledger
<1>22. CASE FlushTail(r)
  BY <1>22 DEF FlushTail, Ledger, Contract!vars, billing
<1>23. CASE LogRedaction(r)
  BY <1>23 DEF LogRedaction, Ledger, Contract!vars, billing
<1>24. CASE SendDone(r)
  BY <1>24 DEF SendDone, Ledger, Contract!vars, billing
<1>25. CASE Complete(r)
  <2>1. row[r] \in Open /\ usage[r] # "none"
    BY <1>25 DEF Complete, IAt, NothingYet, Recorded, Gated, Answering,
              BeforeRecord, BeforeDispatch, Dispatched, Open
  <2>2. Contract!Complete(r) \/ UNCHANGED Contract!vars
    BY <1>25, <2>1 DEF Complete, Contract!Complete, Contract!vars, billing, Open, TypeOK, SetStatus
  <2>3. QED
    BY <2>2 DEF Ledger
<1>26. CASE GuardJson(r)
  BY <1>26 DEF GuardJson, Ledger, Contract!vars, billing
<1>27. CASE SendError(r)
  BY <1>27 DEF SendError, Ledger, Contract!vars, billing
<1>28. CASE MarkFailed(r)
  <2>1. row[r] \in {"received", "streaming", "completed"} /\ dispatched[r]
    BY <1>28 DEF MarkFailed, IAt, NothingYet, Recorded, Gated, Answering,
              BeforeRecord, BeforeDispatch, Dispatched, Open
  <2>2. Contract!Fail(r) \/ UNCHANGED Contract!vars
    BY <1>28, <2>1 DEF MarkFailed, Contract!Fail, Contract!vars, billing, Open, TypeOK, SetStatus
  <2>3. QED
    BY <2>2 DEF Ledger
<1>29. CASE CloseSession(r)
  BY <1>29 DEF CloseSession, Ledger, Contract!vars, billing
<1>30. QED
  BY <1>1, <1>2, <1>3, <1>4, <1>5, <1>6, <1>7, <1>8, <1>9, <1>10, <1>11,
     <1>12, <1>13, <1>14, <1>15, <1>16, <1>17, <1>18, <1>19, <1>20, <1>21,
     <1>22, <1>23, <1>24, <1>25, <1>26, <1>27, <1>28, <1>29 DEF Step

\* RequestLifecycle implements RequestContract: the rows, the provider calls and
\* the metering do only what the ledger's contract allows.
THEOREM Implements == Spec => ImplementsContract
<1>1. Init => Contract!Init
  BY DEF Init, Contract!Init
<1>2. TypeOK /\ IInv /\ [Next]_vars => [Contract!Next]_(Contract!vars)
  <2> SUFFICES ASSUME TypeOK, IInv, [Next]_vars
               PROVE  Contract!Next \/ UNCHANGED Contract!vars
    OBVIOUS
  <2>1. ASSUME NEW r \in Requests, Step(r)
        PROVE  Contract!Next \/ UNCHANGED Contract!vars
    <3>1. IAt(r)
      BY DEF IInv
    <3>2. Ledger(r)
      BY <2>1, <3>1, StepImplements
    <3>3. QED
      BY <3>2 DEF Ledger, Contract!Next
  <2>2. ASSUME NEW r \in Requests, Arrive(r) \/ Disconnect(r)
        PROVE  UNCHANGED Contract!vars
    BY <2>2 DEF Arrive, Disconnect, Contract!vars, billing
  <2>3. CASE Crash
    BY <2>3 DEF Crash, Contract!vars, billing
  <2>4. CASE UNCHANGED vars
    BY <2>4 DEF vars, Contract!vars, billing
  <2>5. QED
    BY <2>1, <2>2, <2>3, <2>4 DEF Next
<1>3. QED
  BY <1>1, <1>2, TypeCorrect, Invariant, PTL DEF Spec, ImplementsContract, Contract!Spec

=============================================================================
