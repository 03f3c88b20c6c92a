--------------------------- MODULE MCSchemaCache ---------------------------
(***************************************************************************)
(* Two requests for one toolset and two versions of its schema.            *)
(***************************************************************************)
EXTENDS SchemaCache

CONSTANTS c1, c2

TwoCallers == {c1, c2}

=============================================================================
