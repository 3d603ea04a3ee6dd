------------------------ MODULE MCRequestLifecycle ------------------------
(***************************************************************************)
(* Small instances of RequestLifecycle for TLC.  Requests share nothing    *)
(* but the connections: a stream is alone with them, two JSON requests     *)
(* compete.  The bound is on arrivals, it takes no step from a request     *)
(* under way.                                                              *)
(***************************************************************************)
EXTENDS RequestLifecycle

Arrived == {r \in Requests : pc[r] # "idle"}

MCNext ==
  /\ Next
  /\ Cardinality(Arrived') > 1 => \A r \in Arrived' : mode'[r] = "json"

MCFairSpec == Init /\ [][MCNext]_vars /\ Fairness

=============================================================================
