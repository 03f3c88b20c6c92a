----------------------------- MODULE MCCatalog -----------------------------
(* Two admissions of one toolset, one provider incarnation that presents   *)
(* either, and two concurrent registry handlers.                           *)
EXTENDS Catalog, TLC
CONSTANTS t1, t2, l1, c1, c2

MCTokens == {t1, t2}
OneLease == {l1}
MCCallers == {c1, c2}
MCSettlements == {1}

Interchangeable == Permutations(MCTokens) \cup Permutations(MCCallers)
=============================================================================
