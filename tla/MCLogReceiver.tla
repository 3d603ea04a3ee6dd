--------------------------- MODULE MCLogReceiver ---------------------------
(* Small instances of LogReceiver for TLC. *)
EXTENDS LogReceiver

=============================================================================
