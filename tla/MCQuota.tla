------------------------------ MODULE MCQuota ------------------------------
(* Small instances of Quota for TLC. *)
EXTENDS Quota, TLC

CONSTANTS ta, tb

\* One tenant has an entry in the image's file, the other has the default.
MCImageLimits == ta :> 2

\* The requests that are under way are interchangeable.
UnderwaySymmetry == Permutations(Underway)

=============================================================================
