----------------------------- MODULE MCTracers -----------------------------
EXTENDS Tracers

\* Two threads of the programs whose threads share return addresses.
MCProg == [s |-> "SpringBoard", w |-> "SpringBoard", b |-> "backboardd",
           c |-> "backboardd", p |-> "Setup", d |-> "daemon", e |-> "daemon"]

\* Foreign threads where the script filters by program, two of the target.
MCCallers ==
    [x \in ReturnTools |-> CASE x \in {"iokit", "aks"} -> {"b", "c", "d"}
                             [] x \in {"lsd", "fairplay"} -> {"d", "e", "b"}
                             [] x = "lsdname" -> {"d", "b"}
                             [] x = "portret" -> {"b"}
                             [] OTHER -> {"b", "c"}]

MCKDepth == [b |-> 3, c |-> 1]

=============================================================================
