---------------------------- MODULE RunContract ----------------------------
(***************************************************************************)
(* What the run log promises to those who read it: a run is absent, then   *)
(* open, then closed with one outcome (a status and, for a cancelled run,  *)
(* its provenance), and a closed run never opens nor changes its outcome.  *)
(***************************************************************************)
CONSTANTS Runs,         \* run identities
          Outcomes      \* pairs of a terminal status and a cancellation reason

VARIABLE phase          \* phase[r]: what a reader of r's log sees

Absent == <<"absent", "none">>
Open == <<"open", "none">>

Init == phase = [r \in Runs |-> Absent]

\* The first RunStarted record of the log.
Begin(r) ==
    /\ phase[r] = Absent
    /\ phase' = [phase EXCEPT ![r] = Open]

\* The terminal record. A run whose start was never recorded closes too.
End(r) ==
    /\ phase[r] \in {Absent, Open}
    /\ \E o \in Outcomes : phase' = [phase EXCEPT ![r] = o]

Next == \E r \in Runs : Begin(r) \/ End(r)

Spec == Init /\ [][Next]_phase
=============================================================================
