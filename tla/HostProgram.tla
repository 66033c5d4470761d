---------------------------- MODULE HostProgram ----------------------------
(***************************************************************************)
(* What the host programs share.                                           *)
(***************************************************************************)

VARIABLE program   \* the host program of this behaviour: "relay", "install", "warm"

=============================================================================
