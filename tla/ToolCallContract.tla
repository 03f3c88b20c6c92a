-------------------------- MODULE ToolCallContract --------------------------
(***************************************************************************)
(* What the registry promises the caller of a tool about one tool-use      *)
(* identity while its record is retained: one decision, admitted calls     *)
(* published before anyone may run them, one holder, one run, one result.  *)
(* Rejection is possible only before publication, and a result only after  *)
(* it.  After expiration the identity is new.                              *)
(***************************************************************************)
EXTENDS Naturals

CONSTANTS Leases, NoLease

VARIABLES
    phase,    \* of the retained record
    holder,   \* the provider lease that may run the call
    ran       \* how often the tool was started for this record

vars == <<phase, holder, ran>>

Init == phase = "none" /\ holder = NoLease /\ ran = 0

Admit ==
    /\ phase = "none" /\ phase' = "admitted"
    /\ UNCHANGED <<holder, ran>>

Reject ==
    /\ phase \in {"none", "admitted"} /\ phase' = "rejected"
    /\ UNCHANGED <<holder, ran>>

Publish ==
    /\ phase = "admitted" /\ phase' = "published"
    /\ UNCHANGED <<holder, ran>>

Claim(l) ==
    /\ phase = "published" /\ phase' = "claimed"
    /\ holder' = l
    /\ UNCHANGED ran

(* The holder may be slow: the result of a call it never started may have  *)
(* been settled as unknown before it starts.                               *)
Run ==
    /\ phase \in {"claimed", "settled"}
    /\ holder # NoLease /\ ran = 0
    /\ ran' = 1
    /\ UNCHANGED <<phase, holder>>

Settle ==
    /\ phase \in {"published", "claimed"} /\ phase' = "settled"
    /\ UNCHANGED <<holder, ran>>

Forget ==
    /\ phase # "none" /\ phase' = "none"
    /\ holder' = NoLease /\ ran' = 0

Next ==
    \/ Admit \/ Reject \/ Publish \/ Run \/ Settle \/ Forget
    \/ \E l \in Leases : Claim(l)

Spec == Init /\ [][Next]_vars
=============================================================================
