----------------------------- MODULE MCRouting -----------------------------
(***************************************************************************)
(* Routing with fewer interleavings of the admin handlers that edit a      *)
(* mapping.  Between its read and its commit such a handler shares nothing *)
(* but the row, so it is under way only while no request is and no query   *)
(* of an admin's reload is unanswered, and two of them only while no       *)
(* worker runs.  It may run beside a reload that has its answer, which is  *)
(* then installed late, perhaps after a newer one.  The tasks of a worker  *)
(* interleave with it freely: the bound takes no step from them nor from a *)
(* handler that has begun.                                                 *)
(***************************************************************************)
EXTENDS Routing

Editing == {a \in Editors : edit[a] # NoEdit}

MCNext ==
  /\ Next
  /\ Editing' # {} => /\ \A l \in Reloaders : load'[l].pc # "listing"
                      /\ \A r \in Requests : req'[r] = NoReq
  /\ Cardinality(Editing') > 1 => \A w \in Workers : life'[w] = "down"

MCFairSpec == Init /\ [][MCNext]_vars /\ Fairness

=============================================================================
