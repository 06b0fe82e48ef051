--------------------------- MODULE MCVersionedConfig ---------------------------
(***************************************************************************)
(* Which requests run beside each other: saves and rollbacks, activations, *)
(* or (as two administrators may do) saves and activations.                *)
(***************************************************************************)
EXTENDS VersionedConfig

SaveBesideActivate == {{"save", "activate"}}
UnmixedAndMixed == {{"save", "rollback"}, {"activate"}} \cup SaveBesideActivate
=============================================================================
