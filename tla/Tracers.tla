------------------------------ MODULE Tracers ------------------------------
(***************************************************************************)
(* A debugger session: LLDB attached to the gdbstub of a running guest, or *)
(* to QEMU itself, with one of the scripts of tools/re loaded.  The        *)
(* families of scripts share nothing but the guest.                        *)
(***************************************************************************)
EXTENDS SiteTracers, ReturnTracers, NativeCalls, SpringboardTrace, DcpTrace,
        IomfbTrace, HostSks

CONSTANT Tools    \* the scripts a session may run

ASSUME ToolsAssumption ==
    Tools \subseteq SiteTools \cup ReturnTools \cup NativeTools \cup {"springboard"} \cup DcpTools
             \cup IomfbTools \cup SksTools

vars == <<tool, paused, siteVars, retVars, natVars, sbVars, dcpVars, iomfbVars, sksVars>>

Init ==
    /\ tool \in Tools /\ paused = FALSE
    /\ SiteInit /\ ReturnInit /\ NativeInit /\ SbInit /\ DcpInit /\ IomfbInit /\ SksInit

\* A session keeps its script.
Next ==
    /\ UNCHANGED tool
    /\ \/ SiteNext /\ UNCHANGED <<retVars, natVars, sbVars, dcpVars, iomfbVars, sksVars>>
       \/ ReturnNext /\ UNCHANGED <<siteVars, natVars, sbVars, dcpVars, iomfbVars, sksVars>>
       \/ NativeNext /\ UNCHANGED <<siteVars, retVars, sbVars, dcpVars, iomfbVars, sksVars>>
       \/ SbNext /\ UNCHANGED <<siteVars, retVars, natVars, dcpVars, iomfbVars, sksVars>>
       \/ DcpNext /\ UNCHANGED <<siteVars, retVars, natVars, sbVars, iomfbVars, sksVars>>
       \/ IomfbNext /\ UNCHANGED <<siteVars, retVars, natVars, sbVars, dcpVars, sksVars>>
       \/ SksNext /\ UNCHANGED <<siteVars, retVars, natVars, sbVars, dcpVars, iomfbVars>>

Spec == Init /\ [][Next]_vars

=============================================================================
