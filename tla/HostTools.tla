----------------------------- MODULE HostTools -----------------------------
(***************************************************************************)
(* The host programs that drive a guest of their own: the input relay, the *)
(* installer of staged helpers and the warm-boot probes.  A guest's        *)
(* console has one client, so a behaviour runs one of the three.           *)
(***************************************************************************)
EXTENDS Relay, InstallHelpers, WarmProbe

vars == <<program, relayVars, instVars, warmVars>>

Init == program \in {"relay", "install", "warm"} /\ RelayInit /\ InstallInit /\ WarmInit

Next ==
    \/ RelayNext /\ UNCHANGED <<instVars, warmVars>>
    \/ InstallNext /\ UNCHANGED <<relayVars, warmVars>>
    \/ WarmNext /\ UNCHANGED <<relayVars, instVars>>

Spec == Init /\ [][Next]_vars

=============================================================================
