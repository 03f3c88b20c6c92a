------------------------- MODULE AdmissionOwnership -------------------------
(***************************************************************************)
(* What the catalog promises the rest of the system about one toolset: a   *)
(* lease-guarded lock.  One registration token owns the toolset at a time; *)
(* ownership passes to another token only once every lease of the owner is *)
(* over by the authoritative clock; a token that lost or gave up ownership *)
(* never gets it back.  How the leases of the owner come and go is left    *)
(* open, except that a retired owner grants no new one.                    *)
(***************************************************************************)
EXTENDS Integers

CONSTANTS Tokens, NoToken, Leases

VARIABLES
    clock,    \* Redis TIME
    owner,    \* the admitted token
    closed,   \* tokens that may never be admitted again
    until     \* lease expiries of the owner, 0 for no lease

vars == <<clock, owner, closed, until>>

Granted == {l \in Leases : until[l] > 0}

Init == 
    /\ clock \in Nat
    /\ owner = NoToken
    /\ closed = {}
    /\ until = [l \in Leases |-> 0]

Pass == 
    /\ clock' > clock
    /\ UNCHANGED <<owner, closed, until>>

Admit(t) == 
    /\ owner = NoToken
    /\ owner' = t
    /\ until' \in [Leases -> Nat]
    /\ UNCHANGED <<clock, closed>>

(* The owner's leases are granted, renewed, drained, released or pruned.   *)
ChangeLeases == 
    /\ owner # NoToken
    /\ until' \in [Leases -> Nat]
    /\ owner \in closed => \A l \in Leases : until'[l] > 0 => until[l] > 0
    /\ UNCHANGED <<clock, owner, closed>>

Close == 
    /\ owner # NoToken
    /\ closed' = closed \cup {owner}
    /\ UNCHANGED <<clock, owner, until>>

HandOver(t) == 
    /\ owner # NoToken
    /\ t # owner
    /\ t \notin closed
    /\ \A l \in Granted : until[l] <= clock
    /\ owner' = t
    /\ closed' = closed \cup {owner}
    /\ until' \in [Leases -> Nat]
    /\ UNCHANGED clock

Next == 
    \/ Pass
    \/ ChangeLeases
    \/ Close
    \/ \E t \in Tokens : Admit(t) \/ HandOver(t)

Spec == Init /\ [][Next]_vars
=============================================================================
