------------------------- MODULE SaturationContract -------------------------
(***************************************************************************)
(* What a best-effort buffer owes its clients: it holds at most Capacity   *)
(* records, refuses one only when it holds that many, and counts every     *)
(* refusal.  BoundedQueue implements it.                                   *)
(***************************************************************************)
EXTENDS Naturals

CONSTANT Capacity

VARIABLES
  held,   \* records taken and not finished
  refused \* the count surfaced to operators

vars == <<held, refused>>

Init == held = 0 /\ refused = 0

Take == held < Capacity /\ held' = held + 1 /\ UNCHANGED refused

Refuse == held = Capacity /\ refused' = refused + 1 /\ UNCHANGED held

Release == held > 0 /\ held' = held - 1 /\ UNCHANGED refused

Spec == Init /\ [][Take \/ Refuse \/ Release]_vars

=============================================================================
