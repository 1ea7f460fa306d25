---------------------------- MODULE MCLifecycle ----------------------------
EXTENDS Lifecycle

(* Rings of up to 4 entries. *)
MCMaxEntries == {2}
=============================================================================
