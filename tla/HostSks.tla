------------------------------- MODULE HostSks -------------------------------
(***************************************************************************)
(* tools/re/host_sks_request_callbacks.py, the one script that debugs QEMU *)
(* itself: at sep_sks_validate_migrate_request it can make the validator   *)
(* accept one exact request, named in advance by its hash, or approved by  *)
(* the operator through a file while QEMU is frozen at the request.        *)
(***************************************************************************)
EXTENDS Lldb

CONSTANTS
    Digests,       \* hashes of the requests of a boot
    MaxRequests    \* bound on the requests

VARIABLES
    sksMode,   \* "watch", "hash", "approve": which variables are set
    overridden,\* _overridden
    challenge, \* the request QEMU is frozen at for approval, or "none"
    approval,  \* the approval file
    approved,  \* digests the operator has ever named (history)
    forced,    \* requests made to return true, in order (history)
    altered,   \* a response class was written and the validator still ran (history)
    requests   \* requests seen

sksVars == <<sksMode, overridden, challenge, approval, approved, forced, altered, requests>>

SksTools == {"hostsks"}

SksInit ==
    /\ sksMode \in {"watch"} \cup (IF tool \in SksTools THEN {"hash", "approve"} ELSE {})
    /\ overridden = FALSE /\ challenge = "none" /\ approval = "none"
    /\ approved \in (IF sksMode = "hash" THEN {{d} : d \in Digests} ELSE {{}})
    /\ forced = <<>> /\ altered = FALSE /\ requests = 0

\* WriteMemory of the response class, then ReturnFromFrame; either may fail,
\* and the override counts as used only when both succeeded.
Override(d) ==
    \/ UNCHANGED <<overridden, forced, altered>>
    \/ altered' = TRUE /\ UNCHANGED <<overridden, forced>>
    \/ overridden' = TRUE /\ forced' = Append(forced, d) /\ UNCHANGED altered

\* The guards before an override is considered.
Armed == sksMode # "watch" /\ ~overridden

\* _callback: an unreadable request, one that does not match, or one for which
\* nothing is armed, runs on.
Request(d, matches) ==
    /\ tool \in SksTools /\ challenge = "none" /\ requests < MaxRequests
    /\ requests' = requests + 1
    /\ \/ (~Armed \/ ~matches) /\ UNCHANGED <<challenge, overridden, forced, altered>>
       \/ /\ Armed /\ matches /\ sksMode = "hash" /\ UNCHANGED challenge
          /\ IF d \in approved THEN Override(d) ELSE UNCHANGED <<overridden, forced, altered>>
       \/ /\ Armed /\ matches /\ sksMode = "approve" /\ challenge' = d
          /\ UNCHANGED <<overridden, forced, altered>>
    /\ UNCHANGED <<tool, paused, sksMode, approval, approved>>

\* The operator writes a digest into the file, at any time.
Approve(d) ==
    /\ tool \in SksTools /\ sksMode = "approve"
    /\ approval' = d /\ approved' = approved \cup {d}
    /\ UNCHANGED <<tool, paused, sksMode, overridden, challenge, forced, altered, requests>>

\* _approval_digest polls the file for the digest it has just shown.
AcceptsMutant == approval # "none"
Accepts == approval = challenge

Approval ==
    /\ tool \in SksTools /\ challenge # "none" /\ challenge' = "none"
    /\ \/ Accepts /\ Override(challenge)
       \/ UNCHANGED <<overridden, forced, altered>>            \* the timeout
    /\ UNCHANGED <<tool, paused, sksMode, approval, approved, requests>>

SksNext ==
    \/ \E d \in Digests, matches \in BOOLEAN : Request(d, matches)
    \/ \E d \in Digests : Approve(d)
    \/ Approval

-----------------------------------------------------------------------------
(* Correctness. *)

\* "optional one-request SKS validator override", "waits for the approval file to
\* contain the exact SHA-256 it just observed": at most one request is forced,
\* and one that the operator named, whatever an old approval file holds and
\* however often an override has failed before.
OverrideExact ==
    Len(forced) <= 1 /\ \A i \in 1..Len(forced) : forced[i] \in approved

=============================================================================
