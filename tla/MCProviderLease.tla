-------------------------- MODULE MCProviderLease --------------------------
(***************************************************************************)
(* One provider lifecycle of one admission, or of a registration callback  *)
(* whose schema changes, and a rival admission.                            *)
(***************************************************************************)
EXTENDS ProviderLease

CONSTANTS me, rival, ta, ta2, tb, none

Both == {me, rival}
TwoTokens == {ta, ta2}
RivalTokens == {tb}
AllTokens2 == {ta, ta2, tb}
CallFaults == {"failed_call", "drain_error", "unclean"}
LateFaults == {"late_request"}
AllFaults == CallFaults \cup LateFaults

=============================================================================
