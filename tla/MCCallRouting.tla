--------------------------- MODULE MCCallRouting ---------------------------
(* Two admissions with one provider each, and handlers racing for one      *)
(* tool-use identity.                                                      *)
EXTENDS CallRouting, TLC
CONSTANTS t1, t2, l1, l2, h1, h2, d1, d2

MCTokens == {t1, t2}
MCLeases == {l1, l2}
MCAdmissionOf == l1 :> t1 @@ l2 :> t2
OneToken == {t1}
OneLease == {l1}
OneAdmission == l1 :> t1
MCHandlers == {h1, h2}
MCDigests == {d1}
TwoDigests == {d1, d2}
FirstOnly == {t1}                       \* a payload the replacement refuses

Conflicting == Permutations(MCHandlers) \cup Permutations(TwoDigests)
=============================================================================
