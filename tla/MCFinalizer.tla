---------------------------- MODULE MCFinalizer -----------------------------
(* Finalizer with the schemas of Schemas. *)
EXTENDS Finalizer, Schemas
=============================================================================
