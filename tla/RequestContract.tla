-------------------------- MODULE RequestContract --------------------------
(***************************************************************************)
(* What AIRequestService promises about the ledger, whatever fails: the    *)
(* life of a request's row against the call to the provider and the        *)
(* metering of its tokens.  RequestLifecycle implements it.                *)
(***************************************************************************)
CONSTANT Requests

VARIABLES
  row,        \* status of the ai_requests row, "none" before it exists
  dispatched, \* has a provider been called for the request
  usage,      \* "none", "zero" or "logged"
  charged     \* are the tokens in the tenant's counter

vars == <<row, dispatched, usage, charged>>

Init ==
  /\ row = [r \in Requests |-> "none"]
  /\ dispatched = [r \in Requests |-> FALSE]
  /\ usage = [r \in Requests |-> "none"]
  /\ charged = [r \in Requests |-> FALSE]

\* The row exists before anything else happens to a request.
Admit(r) ==
  /\ row[r] = "none"
  /\ row' = [row EXCEPT ![r] = "received"]
  /\ UNCHANGED <<dispatched, usage, charged>>

\* A denied request has reached no provider, and never will.
Deny(r) ==
  /\ row[r] = "received" /\ ~dispatched[r]
  /\ row' = [row EXCEPT ![r] = "denied"]
  /\ UNCHANGED <<dispatched, usage, charged>>

CallProvider(r) ==
  /\ row[r] = "received" /\ ~dispatched[r]
  /\ dispatched' = [dispatched EXCEPT ![r] = TRUE]
  /\ UNCHANGED <<row, usage, charged>>

StartStreaming(r) ==
  /\ row[r] = "received" /\ dispatched[r] /\ usage[r] = "none"
  /\ row' = [row EXCEPT ![r] = "streaming"]
  /\ UNCHANGED <<dispatched, usage, charged>>

\* A request is metered once, and before it is settled.
Meter(r) ==
  /\ row[r] \in {"received", "streaming"} /\ dispatched[r] /\ usage[r] = "none"
  /\ \E u \in {"zero", "logged"} : usage' = [usage EXCEPT ![r] = u]
  /\ UNCHANGED <<row, dispatched, charged>>

Charge(r) ==
  /\ row[r] \in {"received", "streaming"} /\ usage[r] = "logged" /\ ~charged[r]
  /\ charged' = [charged EXCEPT ![r] = TRUE]
  /\ UNCHANGED <<row, dispatched, usage>>

Complete(r) ==
  /\ row[r] \in {"received", "streaming"} /\ usage[r] # "none"
  /\ row' = [row EXCEPT ![r] = "completed"]
  /\ UNCHANGED <<dispatched, usage, charged>>

\* A completed row fails only when the commit of "completed" went unheard.
Fail(r) ==
  /\ row[r] \in {"received", "streaming", "completed"} /\ dispatched[r]
  /\ row' = [row EXCEPT ![r] = "failed"]
  /\ UNCHANGED <<dispatched, usage, charged>>

Next ==
  \E r \in Requests :
    \/ Admit(r) \/ Deny(r) \/ CallProvider(r) \/ StartStreaming(r) \/ Meter(r)
    \/ Charge(r) \/ Complete(r) \/ Fail(r)

Spec == Init /\ [][Next]_vars

=============================================================================
